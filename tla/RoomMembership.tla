--------------------------- MODULE RoomMembership ---------------------------
(***************************************************************************)
(* The member list of one room document and the handlers that write it     *)
(* (backend/controllers/roomController.js, assignRole of                   *)
(* taskController.js, the DM room of friendController.js, the member       *)
(* removal of deleteAccount).                                              *)
(*                                                                         *)
(* Joining and leaving are single updates in MongoDB, which do not touch   *)
(* the document's version.  Toggling an admin, assigning a role and        *)
(* recording progress read the document, find the member's position in the *)
(* list, and save to that position, provided the version is still the one  *)
(* that was read.  The read and the write are two actions, with every      *)
(* other request in between.                                               *)
(*                                                                         *)
(* Not here: whether a room is scheduled for later (it then admits nobody),*)
(* the socket events that follow a write.                                  *)
(***************************************************************************)
EXTENDS Naturals, Sequences, FiniteSets, Functions

CONSTANTS
  User,         \* accounts
  Owner,        \* the account that created the room (creatorId)
  NoUser,       \* the "user" of an entry that has none
  Admitted,     \* who has the code of the room, or may join without it
  Request,      \* requests being served at the same time
  MaxMembers,   \* capacity of the room (maxMembers: 2 to 200)
  MaxProgress,  \* entries kept in a member's progress (200)
  MaxVersion    \* bound of the model: versioned saves of the document

ASSUME Assumptions ==
  /\ Owner \in User
  /\ NoUser \notin User
  /\ Admitted \subseteq User
  /\ MaxMembers \in Nat \ {0, 1}
  /\ MaxProgress \in Nat \ {0}
  /\ MaxVersion \in Nat

VARIABLES
  status,    \* of the document: "none", "stored" or "deleted"
  members,   \* its list of members
  version,   \* its version, mongoose's __v
  job        \* what each request has read and does next

vars == <<status, members, version, job>>

Entry == [user : User \cup {NoUser}, admin : BOOLEAN, progress : Nat]

NewEntry(u, a) == [user |-> u, admin |-> a, progress |-> 0]

(* What MongoDB creates when a write names a position beyond the list.     *)
Blank == NewEntry(NoUser, FALSE)

Job ==
  [step : {"idle", "push", "toggle", "role", "progress"},
   user : User \cup {NoUser},   \* the member the write is meant for
   index : Nat,                 \* the position read for that member
   admin : BOOLEAN,             \* the flag to be written
   progress : Nat,              \* how many entries of progress were read
   version : Nat]               \* the version read

Idle == [step |-> "idle", user |-> NoUser, index |-> 0, admin |-> FALSE,
         progress |-> 0, version |-> 0]

Init ==
  /\ status = "none"
  /\ members = <<>>
  /\ version = 0
  /\ job = [r \in Request |-> Idle]

Stored == status = "stored"

Start(r, j) == job[r] = Idle /\ job' = [job EXCEPT ![r] = j]

Finish(r) == job' = [job EXCEPT ![r] = Idle]

-----------------------------------------------------------------------------
(* createRoom, and the DM room of a new friendship.                        *)
CreateRoom ==
  /\ status = "none"
  /\ status' = "stored"
  /\ members' = <<NewEntry(Owner, FALSE)>>
  /\ UNCHANGED <<version, job>>

CreateDM(u) ==
  /\ status = "none"
  /\ u # Owner
  /\ status' = "stored"
  /\ members' = <<NewEntry(Owner, TRUE), NewEntry(u, TRUE)>>
  /\ UNCHANGED <<version, job>>

(* deleteRoom, and deleteAccount of the owner.                             *)
DeleteRoom ==
  /\ Stored
  /\ status' = "deleted"
  /\ members' = <<>>
  /\ UNCHANGED <<version, job>>

(***************************************************************************)
(* The handlers look a member up from the front of the list and read the   *)
(* user of every entry on the way: an entry without one makes them throw,  *)
(* and the request fails with nothing changed.                             *)
(***************************************************************************)
FoundAt(u, i) ==
  /\ i \in DOMAIN members
  /\ members[i].user = u
  /\ \A k \in 1 .. i - 1 : members[k].user \notin {u, NoUser}

NotFound(u) == \A i \in DOMAIN members : members[i].user \notin {u, NoUser}

-----------------------------------------------------------------------------
JoinFind(r, u) ==
  /\ Stored
  /\ NotFound(u)
  /\ u \in Admitted
  /\ Start(r, [Idle EXCEPT !.step = "push", !.user = u])
  /\ UNCHANGED <<status, members, version>>

(* Seeded fault: the capacity is not part of the update's condition.       *)
RoomLeftAlways == TRUE

RoomLeft == Len(members) < MaxMembers

JoinPush(r) ==
  /\ job[r].step = "push"
  /\ members' = IF Stored /\ RoomLeft
                THEN Append(members, NewEntry(job[r].user, FALSE))
                ELSE members
  /\ Finish(r)
  /\ UNCHANGED <<status, version>>

(* $pull takes every entry of u out; the others keep their order.          *)
Others(u) == {i \in DOMAIN members : members[i].user # u}

Increasing(f) == \A i, j \in DOMAIN f : i < j => f[i] < f[j]

Pull(u) ==
  \E f \in [1 .. Cardinality(Others(u)) -> Others(u)] :
    /\ Increasing(f)
    /\ Range(f) = Others(u)
    /\ members' = [i \in DOMAIN f |-> members[f[i]]]

(* Seeded fault: the owner may leave like anybody else.                    *)
LeaveAnybody(u) ==
  /\ Stored
  /\ \E i \in DOMAIN members : members[i].user = u
  /\ Pull(u)
  /\ UNCHANGED <<status, version, job>>

(* leaveRoom, and deleteAccount of a member.  The handler reads the room   *)
(* first, but only its owner, which never changes.                         *)
Leave(u) ==
  /\ Stored
  /\ u # Owner
  /\ \E i \in DOMAIN members : members[i].user = u
  /\ Pull(u)
  /\ UNCHANGED <<status, version, job>>

-----------------------------------------------------------------------------
(* Seeded fault: the owner's own flag can be toggled.                      *)
ToggleFindAnybody(r, u) ==
  /\ Stored
  /\ \E i \in DOMAIN members :
       /\ FoundAt(u, i)
       /\ Start(r, [step |-> "toggle", user |-> u, index |-> i,
                    admin |-> ~members[i].admin, progress |-> 0,
                    version |-> version])
  /\ UNCHANGED <<status, members, version>>

(* The owner toggles the admin flag of member u.                           *)
ToggleFind(r, u) ==
  /\ Stored
  /\ u # Owner
  /\ \E i \in DOMAIN members :
       /\ FoundAt(u, i)
       /\ Start(r, [step |-> "toggle", user |-> u, index |-> i,
                    admin |-> ~members[i].admin, progress |-> 0,
                    version |-> version])
  /\ UNCHANGED <<status, members, version>>

(* Member u, the owner included, records progress.                         *)
ProgressFind(r, u) ==
  /\ Stored
  /\ version < MaxVersion
  /\ \E i \in DOMAIN members :
       /\ FoundAt(u, i)
       /\ Start(r, [step |-> "progress", user |-> u, index |-> i,
                    admin |-> FALSE, progress |-> members[i].progress,
                    version |-> version])
  /\ UNCHANGED <<status, members, version>>

(* The owner or an admin gives member u, the owner included, a role in the *)
(* project (assignRole), which is saved like the flag of an admin.  What   *)
(* the role is, no property is about.                                      *)
RoleFind(r, u) ==
  /\ Stored
  /\ \E i \in DOMAIN members :
       /\ FoundAt(u, i)
       /\ Start(r, [Idle EXCEPT !.step = "role", !.user = u, !.index = i,
                                !.version = version])
  /\ UNCHANGED <<status, members, version>>

(* Seeded fault: the version is not compared.                              *)
SaveAcceptedAnyVersion(r) == Stored

SaveAccepted(r) == Stored /\ job[r].version = version

(* What the list holds at position i, and the list with e written there.   *)
At(i) == IF i \in DOMAIN members THEN members[i] ELSE Blank

(* Seeded fault: the positions in between are not filled.                  *)
WrittenSparse(i, e) ==
  [k \in DOMAIN members \cup {i} |-> IF k = i THEN e ELSE At(k)]

Written(i, e) ==
  [k \in DOMAIN members \cup 1 .. i |-> IF k = i THEN e ELSE At(k)]

ToggleSave(r) ==
  LET i == job[r].index IN
  /\ job[r].step = "toggle"
  /\ SaveAccepted(r)
  /\ members' = Written(i, [At(i) EXCEPT !.admin = job[r].admin])
  /\ Finish(r)
  /\ UNCHANGED <<status, version>>

RoleSave(r) ==
  LET i == job[r].index IN
  /\ job[r].step = "role"
  /\ SaveAccepted(r)
  /\ members' = Written(i, At(i))
  /\ Finish(r)
  /\ UNCHANGED <<status, version>>

(* Below the cap an entry is appended to the stored progress.  At the cap  *)
(* the whole list is written, with the oldest entry dropped.               *)
Recorded(r, stored) ==
  IF job[r].progress >= MaxProgress THEN job[r].progress ELSE stored + 1

ProgressSave(r) ==
  LET i == job[r].index IN
  /\ job[r].step = "progress"
  /\ SaveAccepted(r)
  /\ members' = Written(i, [At(i) EXCEPT !.progress = Recorded(r, @)])
  /\ version' = version + 1
  /\ Finish(r)
  /\ UNCHANGED status

(* The save is refused: another version, or no document.  (A copy that was *)
(* read with an entry without a user may fail mongoose's validation as     *)
(* well; that request changes nothing, as if it had not been sent.)        *)
SaveRefused(r) ==
  /\ job[r].step \in {"toggle", "role", "progress"}
  /\ ~SaveAccepted(r)
  /\ Finish(r)
  /\ UNCHANGED <<status, members, version>>

(* The server restarts: requests being served are lost.                    *)
Restart ==
  /\ \E r \in Request : job[r] # Idle
  /\ job' = [r \in Request |-> Idle]
  /\ UNCHANGED <<status, members, version>>

-----------------------------------------------------------------------------
Begin(r) ==
  \E u \in User :
    JoinFind(r, u) \/ ToggleFind(r, u) \/ RoleFind(r, u) \/ ProgressFind(r, u)

Continue(r) ==
  \/ JoinPush(r)
  \/ ToggleSave(r)
  \/ RoleSave(r)
  \/ ProgressSave(r)
  \/ SaveRefused(r)

Next ==
  \/ CreateRoom \/ DeleteRoom \/ Restart
  \/ \E u \in User : CreateDM(u) \/ Leave(u)
  \/ \E r \in Request : Begin(r) \/ Continue(r)

Spec == Init /\ [][Next]_vars

-----------------------------------------------------------------------------
(* Types.  The list has no gap, also when a save writes to a position that *)
(* lies beyond its end by then.                                            *)
NoGap == \A i \in DOMAIN members : 1 .. i \subseteq DOMAIN members

TypeOK ==
  /\ status \in {"none", "stored", "deleted"}
  /\ NoGap
  /\ members \in Seq(Entry)
  /\ version \in Nat
  /\ job \in [Request -> Job]

(* No interleaving of joins and of writes to stale positions makes the     *)
(* list longer than the capacity of the room (joinRoom's findOneAndUpdate).*)
CapacityKept == Len(members) <= MaxMembers

(* The owner is the first entry of the list as long as the room exists, so *)
(* a room always has a member, and no write to a stale position falls on   *)
(* the owner's entry.                                                      *)
OwnerKeepsItsPlace == Stored => Len(members) > 0 /\ members[1].user = Owner

(* The owner's progress never exceeds the cap, although updateProgress     *)
(* tests the cap on a copy that may be stale when it is saved.             *)
OwnerProgressCapped == Stored => members[1].progress <= MaxProgress

(* The owner's admin flag is what it was when the room was created: a      *)
(* toggle, which is refused for the owner, never falls on that entry.      *)
OwnerFlagUntouched ==
  [][Stored /\ Stored' => members'[1].admin = members[1].admin]_vars

(* "Atomic update to handle high concurrency joining" (joinRoom): nobody   *)
(* is in the list twice.                                                   *)
OneEntryPerMember ==
  \A i, j \in DOMAIN members :
    members[i].user = members[j].user /\ members[i].user # NoUser => i = j

(* "Toggle admin status for a room member", the member of the request's    *)
(* path (toggleRoomAdmin): while nobody is in the list twice, the flag of  *)
(* somebody who stays in the room changes only by the save of a request    *)
(* that names that member.                                                 *)
AdminOnlyByToggle ==
  [][OneEntryPerMember /\ OneEntryPerMember' =>
       \A i \in DOMAIN members, k \in DOMAIN members' :
         (/\ members[i].user = members'[k].user
          /\ members[i].user # NoUser
          /\ members[i].admin # members'[k].admin)
         => \E r \in Request :
              /\ job[r].step = "toggle"
              /\ job[r].user = members[i].user
              /\ job'[r] = Idle]_vars

=============================================================================
