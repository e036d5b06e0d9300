----------------------- MODULE RoomMembership_proofs -----------------------
(***************************************************************************)
(* Theorems about a room: its members (RoomMembership), for any number of  *)
(* accounts and requests, and its call (RoomVideo), for any members, size  *)
(* of the call and bounds.                                                 *)
(*                                                                         *)
(* Members.  The inductive invariant Inv says what a stale copy may still  *)
(* be wrong about: a position that was read is a position of the owner's   *)
(* entry only when the save is the owner's own progress, and then the      *)
(* version decides whether the copy is still right.                        *)
(*                                                                         *)
(* The call.  VideoInv goes by the queues.  What a page has sent leaves it *)
(* in the call or out of it, in an order the server can follow (Lined).  A *)
(* page has no connection of a call before it is let in (Clear); whom it   *)
(* is connected with is in the call, or it will be told (Knows); and to be *)
(* told late that somebody has left is never the last of it (Hears).  Two  *)
(* pages that nothing of an earlier call can disturb are at one of four    *)
(* places of a negotiation (Meshed), which fix what is under way between   *)
(* them and what their connections know of each other.                     *)
(***************************************************************************)
EXTENDS RoomMembership, RoomVideo, Integers, SequenceTheorems, FiniteSetTheorems, TLAPS

(* The entries of the list, or none: an absent room has no list.           *)
NoListUnlessStored == ~Stored => members = <<>>

(* A save aims at a position some list had, and only the owner's progress  *)
(* aims at the first; the version it has read is no newer than the room's. *)
Aim(j) ==
  /\ j.step = "push" => j.user \in User
  /\ j.step \in {"toggle", "role", "progress"} => j.index \in 1 .. MaxMembers
  /\ j.step = "toggle" => j.index # 1
  /\ j.step = "progress" => j.version <= version
  /\ j.step # "idle" => status # "none"

(* A progress save of the owner that will be accepted has read the owner's *)
(* progress as it is.                                                      *)
Fresh(j) ==
  (/\ Stored
   /\ j.step = "progress"
   /\ j.index = 1
   /\ j.version = version) => j.progress = members[1].progress

JobsInv == \A r \in Request : Aim(job[r]) /\ Fresh(job[r])

Inv ==
  /\ TypeOK
  /\ NoListUnlessStored
  /\ CapacityKept
  /\ OwnerKeepsItsPlace
  /\ OwnerProgressCapped
  /\ JobsInv

-----------------------------------------------------------------------------
LEMMA NewEntryType ==
  ASSUME NEW u \in User \cup {NoUser}, NEW a \in BOOLEAN
  PROVE  /\ NewEntry(u, a) \in Entry
         /\ NewEntry(u, a).user = u
         /\ NewEntry(u, a).progress = 0
         /\ NewEntry(u, a).admin = a
BY DEF NewEntry, Entry

LEMMA IdleType == Idle \in Job /\ Aim(Idle) /\ Fresh(Idle)
BY DEF Idle, Job, Aim, Fresh

(* A list has no gap.                                                      *)
LEMMA ListHasNoGap ==
  ASSUME NEW S, NEW q \in Seq(S)
  PROVE  \A i \in DOMAIN q : 1 .. i \subseteq DOMAIN q
<1>1. DOMAIN q = 1 .. Len(q) /\ Len(q) \in Nat
  OBVIOUS
<1> QED
  BY <1>1

(* The list, as a function on its positions.                               *)
LEMMA ListFacts ==
  ASSUME TypeOK
  PROVE  /\ Len(members) \in Nat
         /\ DOMAIN members = 1 .. Len(members)
         /\ \A i \in DOMAIN members : members[i] \in Entry
BY LenProperties, ElementOfSeq DEF TypeOK

(* Taking a member out: the list is no longer than before, and its first   *)
(* entry stays when it is somebody else's.                                 *)
LEMMA PullFacts ==
  ASSUME TypeOK, NEW u \in User, Pull(u)
  PROVE  /\ members' \in Seq(Entry)
         /\ Len(members') <= Len(members)
         /\ (Len(members) > 0 /\ members[1].user # u) =>
              Len(members') > 0 /\ members'[1] = members[1]
<1> DEFINE O == Others(u)
           n == Cardinality(O)
<1>1. /\ Len(members) \in Nat
      /\ DOMAIN members = 1 .. Len(members)
      /\ \A i \in DOMAIN members : members[i] \in Entry
  BY ListFacts
<1>2. O \subseteq 1 .. Len(members)
  BY <1>1 DEF Others
<1>3. /\ IsFiniteSet(O)
      /\ n \in Nat
      /\ n <= Len(members)
  <2>1. /\ IsFiniteSet(1 .. Len(members))
        /\ Cardinality(1 .. Len(members)) = Len(members)
    BY <1>1, FS_Interval
  <2> QED
    BY <1>2, <2>1, FS_Subset, FS_CardinalityType
<1>4. PICK f \in [1 .. n -> O] :
        /\ Increasing(f)
        /\ Range(f) = O
        /\ members' = [i \in DOMAIN f |-> members[f[i]]]
  BY DEF Pull
<1> HIDE DEF O, n
<1>5. \A i \in 1 .. n : members[f[i]] \in Entry
  BY <1>1, <1>2, <1>4
<1>6. members' = [i \in 1 .. n |-> members[f[i]]]
  BY <1>4
<1>7. members' \in Seq(Entry) /\ Len(members') = n
  BY <1>3, <1>5, <1>6
<1>8. ASSUME Len(members) > 0, members[1].user # u
      PROVE  n > 0 /\ members'[1] = members[1]
  <2>1. 1 \in O
    BY <1>1, <1>8 DEF O, Others
  <2>2. PICK k \in 1 .. n : f[k] = 1
    BY <1>4, <2>1 DEF Range
  <2>3. 1 \in 1 .. n
    BY <1>3, <2>2
  <2>4. k = 1
    <3>1. f[1] \in 1 .. Len(members)
      BY <1>2, <1>4, <2>3
    <3>2. 1 < k => f[1] < f[k]
      BY <1>4, <2>2, <2>3 DEF Increasing
    <3> QED
      BY <1>3, <2>2, <3>1, <3>2
  <2> QED
    BY <1>3, <1>6, <2>2, <2>3, <2>4
<1> QED
  BY <1>3, <1>7, <1>8

(* Writing one position: the list grows to it at most, and no other entry  *)
(* that was there changes.                                                 *)
LEMMA WrittenFacts ==
  ASSUME TypeOK, NEW i \in 1 .. MaxMembers, NEW e \in Entry
  PROVE  /\ Written(i, e) \in Seq(Entry)
         /\ Len(members) <= MaxMembers => Len(Written(i, e)) <= MaxMembers
         /\ Len(Written(i, e)) >= Len(members)
         /\ Written(i, e)[i] = e
         /\ \A k \in DOMAIN members : k # i => Written(i, e)[k] = members[k]
<1> DEFINE n == IF i <= Len(members) THEN Len(members) ELSE i
           f == [k \in 1 .. n |-> IF k = i THEN e ELSE At(k)]
<1>1. /\ Len(members) \in Nat
      /\ DOMAIN members = 1 .. Len(members)
      /\ \A k \in DOMAIN members : members[k] \in Entry
  BY ListFacts
<1>2. i \in Nat /\ n \in Nat /\ MaxMembers \in Nat /\ i <= MaxMembers
  BY <1>1, Assumptions
<1>3. DOMAIN members \cup 1 .. i = 1 .. n
  BY <1>1, <1>2
<1>4. Written(i, e) = f
  BY <1>3 DEF Written
<1>5. \A k \in 1 .. n : At(k) \in Entry
  BY <1>1, NewEntryType DEF At, Blank
<1>6. f \in Seq(Entry) /\ Len(f) = n
  BY <1>2, <1>5
<1>7. f[i] = e
  BY <1>2, <1>1
<1>8. \A k \in DOMAIN members : k # i => f[k] = members[k]
  BY <1>1, <1>2 DEF At
<1> HIDE DEF f
<1>9. /\ n >= Len(members)
      /\ Len(members) <= MaxMembers => n <= MaxMembers
  BY <1>1, <1>2
<1> QED
  BY <1>4, <1>6, <1>7, <1>8, <1>9

(* What is found for a member is a position of the list; it is the owner's *)
(* place only for the owner.                                               *)
LEMMA FoundFacts ==
  ASSUME Inv, Stored, NEW u \in User, NEW i \in DOMAIN members, FoundAt(u, i)
  PROVE  /\ i \in 1 .. MaxMembers
         /\ i \in Nat
         /\ u # Owner => i # 1
         /\ members[i].admin \in BOOLEAN
         /\ members[i].progress \in Nat
<1>1. /\ Len(members) \in Nat
      /\ DOMAIN members = 1 .. Len(members)
      /\ \A k \in DOMAIN members : members[k] \in Entry
  BY ListFacts DEF Inv
<1>2. members[i].admin \in BOOLEAN /\ members[i].progress \in Nat
  BY <1>1 DEF Entry
<1>3. i \in 1 .. MaxMembers /\ i \in Nat
  BY <1>1, Assumptions DEF Inv, CapacityKept
<1>4. u # Owner => i # 1
  BY DEF FoundAt, Inv, OwnerKeepsItsPlace
<1> QED
  BY <1>2, <1>3, <1>4

-----------------------------------------------------------------------------
(* The list and its version stay; one job becomes j.                       *)
LEMMA JobStarted ==
  ASSUME Inv, NEW r \in Request, NEW j \in Job, Aim(j), Fresh(j),
         job' = [job EXCEPT ![r] = j], UNCHANGED <<status, members, version>>
  PROVE  Inv'
<1>1. \A q \in Request : job'[q] = IF q = r THEN j ELSE job[q]
  BY DEF Inv, TypeOK
<1>2. TypeOK'
  BY ListHasNoGap DEF Inv, TypeOK, NoGap
<1>3. \A k : (Aim(k)' <=> Aim(k)) /\ (Fresh(k)' <=> Fresh(k))
  BY DEF Aim, Fresh, Stored
<1>4. ASSUME NEW q \in Request
      PROVE  Aim(job'[q]) /\ Fresh(job'[q])
  BY <1>1 DEF Inv, JobsInv
<1>5. JobsInv'
  BY <1>3, <1>4 DEF JobsInv, Aim, Fresh, Stored
<1> QED
  BY <1>2, <1>5 DEF Inv, NoListUnlessStored, CapacityKept, OwnerKeepsItsPlace,
                    OwnerProgressCapped, Stored

LEMMA FinishKeeps ==
  ASSUME Inv, NEW r \in Request, Finish(r), UNCHANGED <<status, members, version>>
  PROVE  Inv'
<1>1. \A q \in Request : job'[q] = IF q = r THEN Idle ELSE job[q]
  BY DEF Inv, TypeOK, Finish
<1> QED
  BY <1>1, JobStarted, IdleType DEF Finish

LEMMA ShortSequences ==
  ASSUME NEW S, NEW a \in S, NEW b \in S
  PROVE  <<a>> \in Seq(S) /\ <<a, b>> \in Seq(S)
OBVIOUS

(* What creating a room and creating a DM room have in common.             *)
Created ==
  /\ status = "none" /\ status' = "stored"
  /\ UNCHANGED <<version, job>>
  /\ members' \in Seq(Entry)
  /\ Len(members') = 1 \/ Len(members') = 2
  /\ members'[1].user = Owner
  /\ members'[1].progress = 0

LEMMA CreateKeeps ==
  ASSUME Inv, CreateRoom \/ \E u \in User : CreateDM(u)
  PROVE  Inv'
<1>1. Created
  <2>1. CASE CreateRoom
    <3>1. NewEntry(Owner, FALSE) \in Entry
      BY NewEntryType, Assumptions
    <3>2. members' = <<NewEntry(Owner, FALSE)>>
      BY <2>1 DEF CreateRoom
    <3>3. members'[1] = NewEntry(Owner, FALSE) /\ Len(members') = 1
      BY <3>2
    <3>4. members' \in Seq(Entry)
      BY <3>1, <3>2, ShortSequences
    <3> QED
      BY <2>1, <3>3, <3>4 DEF CreateRoom, NewEntry, Created
  <2>2. ASSUME NEW u \in User, CreateDM(u)
        PROVE  Created
    <3>1. NewEntry(Owner, TRUE) \in Entry /\ NewEntry(u, TRUE) \in Entry
      BY NewEntryType, Assumptions
    <3>2. members' = <<NewEntry(Owner, TRUE), NewEntry(u, TRUE)>>
      BY <2>2 DEF CreateDM
    <3>3. members'[1] = NewEntry(Owner, TRUE) /\ Len(members') = 2
      BY <3>2
    <3>4. members' \in Seq(Entry)
      BY <3>1, <3>2, ShortSequences
    <3> QED
      BY <2>2, <3>3, <3>4 DEF CreateDM, NewEntry, Created
  <2> QED
    BY <2>1, <2>2
<1>2. TypeOK'
  BY ListHasNoGap, <1>1 DEF Inv, TypeOK, NoGap, Created
<1>3. CapacityKept'
  <2>1. MaxMembers >= 2
    BY Assumptions
  <2>2. Len(members') = 1 \/ Len(members') = 2
    BY <1>1 DEF Created
  <2>3. MaxMembers \in Nat
    BY Assumptions
  <2>4. \A n : (n = 1 \/ n = 2) => n <= MaxMembers
    BY <2>1, <2>3
  <2> QED
    BY <2>2, <2>4 DEF CapacityKept
<1>4. OwnerKeepsItsPlace' /\ OwnerProgressCapped' /\ NoListUnlessStored'
  BY <1>1, Assumptions
     DEF OwnerKeepsItsPlace, OwnerProgressCapped, NoListUnlessStored, Stored,
         Created
<1>5. JobsInv'
  BY <1>1 DEF Inv, JobsInv, Aim, Fresh, Stored, TypeOK, Created
<1> QED
  BY <1>2, <1>3, <1>4, <1>5 DEF Inv

LEMMA DeleteKeeps ==
  ASSUME Inv, DeleteRoom
  PROVE  Inv'
<1>1. /\ Stored /\ status' = "deleted" /\ members' = <<>>
      /\ UNCHANGED <<version, job>>
  BY DEF DeleteRoom
<1>2. members' \in Seq(Entry) /\ Len(members') = 0
  BY <1>1, EmptySeq
<1>3. TypeOK'
  BY ListHasNoGap, <1>1, <1>2 DEF Inv, TypeOK, NoGap
<1>4. MaxMembers \in Nat
  BY Assumptions
<1>5. CapacityKept'
  BY <1>2, <1>4 DEF CapacityKept
<1>6. ~Stored'
  BY <1>1 DEF Stored
<1>7. JobsInv'
  BY <1>1, <1>6 DEF Inv, JobsInv, Aim, Fresh
<1> QED
  BY <1>1, <1>3, <1>5, <1>6, <1>7
     DEF Inv, NoListUnlessStored, OwnerKeepsItsPlace, OwnerProgressCapped

LEMMA LeaveKeeps ==
  ASSUME Inv, NEW u \in User, Leave(u)
  PROVE  Inv' /\ members'[1] = members[1]
<1>1. /\ Stored /\ Stored' /\ u # Owner /\ Pull(u)
      /\ UNCHANGED <<status, version, job>>
  BY DEF Leave, Stored
<1>2. /\ Len(members) > 0
      /\ members[1].user = Owner
      /\ members[1].progress <= MaxProgress
      /\ Len(members) <= MaxMembers
  BY <1>1 DEF Inv, OwnerKeepsItsPlace, OwnerProgressCapped, CapacityKept
<1>3. /\ members' \in Seq(Entry)
      /\ Len(members') <= Len(members)
      /\ Len(members') > 0
      /\ members'[1] = members[1]
  BY <1>1, <1>2, PullFacts DEF Inv
<1>4. TypeOK'
  BY ListHasNoGap, <1>1, <1>3 DEF Inv, TypeOK, NoGap
<1>5. CapacityKept'
  <2>1. Len(members) \in Nat /\ Len(members') \in Nat /\ MaxMembers \in Nat
    BY <1>3, <1>4, ListFacts, LenProperties, Assumptions DEF Inv
  <2> QED
    BY <1>2, <1>3, <2>1 DEF CapacityKept
<1>6. JobsInv'
  BY <1>1, <1>3 DEF Inv, JobsInv, Aim, Fresh, Stored
<1> QED
  BY <1>1, <1>2, <1>3, <1>4, <1>5, <1>6
     DEF Inv, NoListUnlessStored, OwnerKeepsItsPlace, OwnerProgressCapped

LEMMA JoinPushKeeps ==
  ASSUME Inv, NEW r \in Request, JoinPush(r)
  PROVE  Inv' /\ (Stored => members'[1] = members[1])
<1> DEFINE e == NewEntry(job[r].user, FALSE)
<1>1. /\ job[r].step = "push"
      /\ UNCHANGED <<status, version>>
      /\ Finish(r)
  BY DEF JoinPush
<1>2. CASE ~(Stored /\ RoomLeft)
  <2>1. members' = members
    BY <1>2 DEF JoinPush
  <2> QED
    BY <1>1, <2>1, FinishKeeps
<1>3. CASE Stored /\ RoomLeft
  <2>1. members' = Append(members, e)
    BY <1>3 DEF JoinPush
  <2>2. e \in Entry
    BY <1>1, NewEntryType DEF Inv, JobsInv, Aim
  <2> HIDE DEF e
  <2>3. Len(members) \in Nat /\ members \in Seq(Entry)
    BY ListFacts DEF Inv, TypeOK
  <2>4. /\ Len(members) > 0
        /\ members[1].user = Owner
        /\ members[1].progress <= MaxProgress
        /\ Len(members) < MaxMembers
    BY <1>3 DEF Inv, OwnerKeepsItsPlace, OwnerProgressCapped, RoomLeft
  <2>5. /\ members' \in Seq(Entry)
        /\ Len(members') = Len(members) + 1
        /\ members'[1] = members[1]
    BY <2>1, <2>2, <2>3, <2>4, AppendProperties
  <2>6. \A q \in Request : job'[q] = IF q = r THEN Idle ELSE job[q]
    BY <1>1 DEF Inv, TypeOK, Finish
  <2>7. TypeOK'
    BY ListHasNoGap, <1>1, <2>5, <2>6, IdleType DEF Inv, TypeOK, NoGap, Finish
  <2>8. CapacityKept'
    <3>1. MaxMembers \in Nat
      BY Assumptions
    <3> QED
      BY <2>3, <2>4, <2>5, <3>1 DEF CapacityKept
  <2>9. JobsInv'
    <3> SUFFICES ASSUME NEW q \in Request
                 PROVE  Aim(job[q])' /\ Fresh(job[q])'
      BY DEF JobsInv
    <3>1. CASE q = r
      BY <2>6, <3>1 DEF Aim, Fresh, Idle
    <3>2. CASE q # r
      <4>1. Aim(job[q]) /\ Fresh(job[q]) /\ job'[q] = job[q]
        BY <2>6, <3>2 DEF Inv, JobsInv
      <4> QED
        BY <1>1, <2>5, <4>1 DEF Aim, Fresh, Stored
    <3> QED
      BY <3>1, <3>2
  <2>10. Stored'
    BY <1>1, <1>3 DEF Stored
  <2>11. NoListUnlessStored' /\ OwnerKeepsItsPlace' /\ OwnerProgressCapped'
    BY <2>3, <2>4, <2>5, <2>10
       DEF NoListUnlessStored, OwnerKeepsItsPlace, OwnerProgressCapped
  <2> QED
    BY <2>5, <2>7, <2>8, <2>9, <2>11 DEF Inv
<1> QED
  BY <1>2, <1>3

(* A request that only reads: its job is well aimed.                       *)
LEMMA BeginKeeps ==
  ASSUME Inv, NEW r \in Request, Begin(r)
  PROVE  Inv'
<1> PICK u \in User :
      JoinFind(r, u) \/ ToggleFind(r, u) \/ RoleFind(r, u) \/ ProgressFind(r, u)
  BY DEF Begin
<1>1. CASE JoinFind(r, u)
  <2> DEFINE j == [Idle EXCEPT !.step = "push", !.user = u]
  <2>1. /\ Stored
        /\ job' = [job EXCEPT ![r] = j]
        /\ UNCHANGED <<status, members, version>>
    BY <1>1 DEF JoinFind, Start
  <2>2. j \in Job /\ Aim(j) /\ Fresh(j)
    BY <2>1 DEF Idle, Job, Aim, Fresh, Stored
  <2> QED
    BY <2>1, <2>2, JobStarted
<1>2. CASE ToggleFind(r, u)
  <2>1. PICK i \in DOMAIN members :
          /\ FoundAt(u, i)
          /\ Start(r, [step |-> "toggle", user |-> u, index |-> i,
                       admin |-> ~members[i].admin, progress |-> 0,
                       version |-> version])
    BY <1>2 DEF ToggleFind
  <2> DEFINE j == [step |-> "toggle", user |-> u, index |-> i,
                   admin |-> ~members[i].admin, progress |-> 0,
                   version |-> version]
  <2>2. /\ Stored /\ u # Owner
        /\ job' = [job EXCEPT ![r] = j]
        /\ UNCHANGED <<status, members, version>>
    BY <1>2, <2>1 DEF ToggleFind, Start
  <2>3. i \in 1 .. MaxMembers /\ i \in Nat /\ i # 1 /\ version \in Nat
    BY <2>1, <2>2, FoundFacts DEF Inv, TypeOK
  <2>4. j \in Job
    BY <2>3 DEF Job
  <2>5. Aim(j) /\ Fresh(j)
    BY <2>2, <2>3 DEF Aim, Fresh, Stored
  <2> QED
    BY <2>2, <2>4, <2>5, JobStarted
<1>3. CASE ProgressFind(r, u)
  <2>1. PICK i \in DOMAIN members :
          /\ FoundAt(u, i)
          /\ Start(r, [step |-> "progress", user |-> u, index |-> i,
                       admin |-> FALSE, progress |-> members[i].progress,
                       version |-> version])
    BY <1>3 DEF ProgressFind
  <2> DEFINE j == [step |-> "progress", user |-> u, index |-> i,
                   admin |-> FALSE, progress |-> members[i].progress,
                   version |-> version]
  <2>2. /\ Stored
        /\ job' = [job EXCEPT ![r] = j]
        /\ UNCHANGED <<status, members, version>>
    BY <1>3, <2>1 DEF ProgressFind, Start
  <2>3. /\ i \in 1 .. MaxMembers /\ i \in Nat
        /\ members[i].progress \in Nat
        /\ version \in Nat
    BY <2>1, <2>2, FoundFacts DEF Inv, TypeOK
  <2>4. j \in Job
    BY <2>3 DEF Job
  <2>5. Aim(j)
    BY <2>2, <2>3 DEF Aim, Stored
  <2>6. Fresh(j)
    BY DEF Fresh
  <2> QED
    BY <2>2, <2>4, <2>5, <2>6, JobStarted
<1>4. CASE RoleFind(r, u)
  <2>1. PICK i \in DOMAIN members :
          /\ FoundAt(u, i)
          /\ Start(r, [Idle EXCEPT !.step = "role", !.user = u, !.index = i,
                                   !.version = version])
    BY <1>4 DEF RoleFind
  <2> DEFINE j == [Idle EXCEPT !.step = "role", !.user = u, !.index = i,
                               !.version = version]
  <2>2. /\ Stored
        /\ job' = [job EXCEPT ![r] = j]
        /\ UNCHANGED <<status, members, version>>
    BY <1>4, <2>1 DEF RoleFind, Start
  <2>3. i \in 1 .. MaxMembers /\ i \in Nat /\ version \in Nat
    BY <2>1, <2>2, FoundFacts DEF Inv, TypeOK
  <2>4. j \in Job
    BY <2>3 DEF Job, Idle
  <2>5. Aim(j) /\ Fresh(j)
    BY <2>2, <2>3 DEF Aim, Fresh, Stored, Idle
  <2> QED
    BY <2>2, <2>4, <2>5, JobStarted
<1> QED
  BY <1>1, <1>2, <1>3, <1>4

(* An accepted save writes one entry, of the first place only its progress.*)
LEMMA SaveWrites ==
  ASSUME Inv, NEW r \in Request, ToggleSave(r) \/ RoleSave(r) \/ ProgressSave(r)
  PROVE  /\ Stored /\ Stored' /\ status' = status
         /\ Finish(r)
         /\ members' \in Seq(Entry)
         /\ Len(members') <= MaxMembers
         /\ Len(members') > 0
         /\ members'[1].user = Owner
         /\ members'[1].admin = members[1].admin
         /\ version' \in Nat
         /\ version' = version => members'[1] = members[1]
         /\ version' = version \/ version' = version + 1
         /\ members'[1].progress <= MaxProgress
<1> DEFINE i == job[r].index
           e == [At(i) EXCEPT !.admin = job[r].admin]
           p == [At(i) EXCEPT !.progress = Recorded(r, @)]
<1>1. /\ Len(members) \in Nat
      /\ DOMAIN members = 1 .. Len(members)
      /\ \A k \in DOMAIN members : members[k] \in Entry
      /\ TypeOK
  BY ListFacts DEF Inv
<1>2. /\ Stored /\ Stored' /\ status' = status
      /\ job[r].step \in {"toggle", "role", "progress"}
      /\ job[r].version = version
      /\ Finish(r)
  BY DEF ToggleSave, RoleSave, ProgressSave, SaveAccepted, Stored
<1>3. /\ i \in 1 .. MaxMembers
      /\ job[r].step = "toggle" => i # 1
      /\ job[r] \in Job
      /\ Fresh(job[r])
  BY <1>2 DEF Inv, JobsInv, Aim, TypeOK
<1>4. /\ Len(members) > 0
      /\ members[1].user = Owner
      /\ members[1].progress <= MaxProgress
      /\ Len(members) <= MaxMembers
      /\ 1 \in DOMAIN members
      /\ version \in Nat
  BY <1>1, <1>2
     DEF Inv, OwnerKeepsItsPlace, OwnerProgressCapped, CapacityKept, TypeOK
<1>5. At(i) \in Entry
  BY <1>1, NewEntryType DEF At, Blank
<1>6. At(1) = members[1]
  BY <1>4 DEF At
<1>7. CASE ToggleSave(r)
  <2>1. members' = Written(i, e) /\ i # 1 /\ version' = version
    BY <1>3, <1>7 DEF ToggleSave
  <2>2. e \in Entry
    BY <1>3, <1>5 DEF Entry, Job
  <2> HIDE DEF e, i
  <2>3. /\ members' \in Seq(Entry)
        /\ Len(members') <= MaxMembers
        /\ Len(members') >= Len(members)
        /\ members'[1] = members[1]
    BY <1>1, <1>3, <1>4, <2>1, <2>2, WrittenFacts
  <2>4. Len(members') > 0
    <3>1. Len(members') \in Nat
      BY <2>3, LenProperties
    <3> QED
      BY <1>1, <1>4, <2>3, <3>1
  <2> QED
    BY <1>2, <1>4, <2>1, <2>3, <2>4
<1>8. CASE ProgressSave(r)
  <2>1. members' = Written(i, p) /\ version' = version + 1
        /\ job[r].step = "progress"
    BY <1>8 DEF ProgressSave
  <2>2. Recorded(r, At(i).progress) \in Nat
    BY <1>3, <1>5 DEF Recorded, Entry, Job
  <2>3. /\ p \in Entry
        /\ p.user = At(i).user
        /\ p.admin = At(i).admin
        /\ p.progress = Recorded(r, At(i).progress)
    BY <1>5, <2>2 DEF Entry
  <2> HIDE DEF p, i
  <2>4. /\ members' \in Seq(Entry)
        /\ Len(members') <= MaxMembers
        /\ Len(members') >= Len(members)
        /\ members'[i] = p
        /\ i # 1 => members'[1] = members[1]
    BY <1>1, <1>3, <1>4, <2>1, <2>3, WrittenFacts
  <2>5. Len(members') > 0
    <3>1. Len(members') \in Nat
      BY <2>4, LenProperties
    <3> QED
      BY <1>1, <1>4, <2>4, <3>1
  <2>6. version' \in Nat /\ version' # version
    BY <1>4, <2>1
  <2>7. CASE i # 1
    BY <1>2, <1>4, <2>1, <2>4, <2>5, <2>6, <2>7
  <2>8. CASE i = 1
    <3>1. /\ members'[1] = p
          /\ p.user = Owner
          /\ p.admin = members[1].admin
          /\ p.progress = Recorded(r, members[1].progress)
      BY <1>4, <1>6, <2>3, <2>4, <2>8
    <3>2. job[r].progress = members[1].progress
      BY <1>2, <1>3, <2>1, <2>8 DEF Fresh, i
    <3>3. members[1].progress \in Nat /\ MaxProgress \in Nat
      BY <1>1, <1>4, Assumptions DEF Entry
    <3>4. Recorded(r, members[1].progress) <= MaxProgress
      BY <1>4, <3>2, <3>3 DEF Recorded
    <3> QED
      BY <1>2, <2>1, <2>4, <2>5, <2>6, <3>1, <3>4
  <2> QED
    BY <2>7, <2>8
<1>9. CASE RoleSave(r)
  <2>1. members' = Written(i, At(i)) /\ version' = version
    BY <1>9 DEF RoleSave
  <2> HIDE DEF i
  <2>2. /\ members' \in Seq(Entry)
        /\ Len(members') <= MaxMembers
        /\ Len(members') >= Len(members)
        /\ members'[i] = At(i)
        /\ i # 1 => members'[1] = members[1]
    BY <1>1, <1>3, <1>4, <1>5, <2>1, WrittenFacts
  <2>3. members'[1] = members[1]
    BY <1>6, <2>2
  <2>4. Len(members') > 0
    <3>1. Len(members') \in Nat
      BY <2>2, LenProperties
    <3> QED
      BY <1>1, <1>4, <2>2, <3>1
  <2> QED
    BY <1>2, <1>4, <2>1, <2>2, <2>3, <2>4
<1> QED
  BY <1>7, <1>8, <1>9

LEMMA SaveKeeps ==
  ASSUME Inv, NEW r \in Request, ToggleSave(r) \/ RoleSave(r) \/ ProgressSave(r)
  PROVE  Inv' /\ members'[1].admin = members[1].admin
<1>1. /\ Stored /\ Stored' /\ status' = status
      /\ Finish(r)
      /\ members' \in Seq(Entry)
      /\ Len(members') <= MaxMembers
      /\ Len(members') > 0
      /\ members'[1].user = Owner
      /\ members'[1].admin = members[1].admin
      /\ version' \in Nat
      /\ version' = version => members'[1] = members[1]
      /\ version' = version \/ version' = version + 1
      /\ members'[1].progress <= MaxProgress
  BY SaveWrites
<1>2. version \in Nat
  BY DEF Inv, TypeOK
<1>3. \A q \in Request : job'[q] = IF q = r THEN Idle ELSE job[q]
  BY <1>1 DEF Inv, TypeOK, Finish
<1>4. TypeOK'
  BY ListHasNoGap, <1>1, <1>3, IdleType DEF Inv, TypeOK, NoGap, Finish
<1>5. JobsInv'
  <2> SUFFICES ASSUME NEW q \in Request
               PROVE  Aim(job[q])' /\ Fresh(job[q])'
    BY DEF JobsInv
  <2>1. CASE q = r
    BY <1>3, <2>1 DEF Aim, Fresh, Idle
  <2>2. CASE q # r
    <3>1. /\ Aim(job[q]) /\ Fresh(job[q]) /\ job'[q] = job[q]
          /\ job[q].version \in Nat
      BY <1>3, <2>2 DEF Inv, JobsInv, TypeOK, Job
    <3>2. Aim(job[q])'
      BY <1>1, <1>2, <3>1 DEF Aim
    <3>3. Fresh(job[q])'
      <4>1. CASE version' = version
        BY <1>1, <3>1, <4>1 DEF Fresh
      <4>2. CASE version' = version + 1
        <5>1. job[q].step = "progress" => job[q].version <= version
          BY <3>1 DEF Aim
        <5> QED
          BY <1>2, <3>1, <4>2, <5>1 DEF Fresh
      <4> QED
        BY <1>1, <4>1, <4>2
    <3> QED
      BY <3>2, <3>3
  <2> QED
    BY <2>1, <2>2
<1> QED
  BY <1>1, <1>4, <1>5
     DEF Inv, NoListUnlessStored, CapacityKept, OwnerKeepsItsPlace,
         OwnerProgressCapped

LEMMA RestartKeeps ==
  ASSUME Inv, Restart
  PROVE  Inv'
<1>1. /\ \A q \in Request : job'[q] = Idle
      /\ job' \in [Request -> Job]
      /\ UNCHANGED <<status, members, version>>
  BY IdleType DEF Restart
<1>2. TypeOK'
  BY ListHasNoGap, <1>1 DEF Inv, TypeOK, NoGap
<1>3. JobsInv'
  BY <1>1 DEF JobsInv, Aim, Fresh, Idle
<1> QED
  BY <1>1, <1>2, <1>3
     DEF Inv, NoListUnlessStored, CapacityKept, OwnerKeepsItsPlace,
         OwnerProgressCapped, Stored

LEMMA NextKeeps ==
  ASSUME Inv, [Next]_vars
  PROVE  /\ Inv'
         /\ Stored /\ Stored' => members'[1].admin = members[1].admin
<1>1. CASE CreateRoom \/ \E u \in User : CreateDM(u)
  <2>1. ~Stored
    BY <1>1 DEF CreateRoom, CreateDM, Stored
  <2> QED
    BY <1>1, <2>1, CreateKeeps
<1>2. CASE DeleteRoom
  <2>1. ~Stored'
    BY <1>2 DEF DeleteRoom, Stored
  <2> QED
    BY <1>2, <2>1, DeleteKeeps
<1>3. CASE Restart
  BY <1>3, RestartKeeps DEF Restart
<1>4. ASSUME NEW u \in User, Leave(u)
      PROVE  Inv' /\ members'[1].admin = members[1].admin
  BY <1>4, LeaveKeeps
<1>5. ASSUME NEW r \in Request, Begin(r)
      PROVE  Inv' /\ members'[1].admin = members[1].admin
  BY <1>5, BeginKeeps DEF Begin, JoinFind, ToggleFind, RoleFind, ProgressFind
<1>6. ASSUME NEW r \in Request, Continue(r)
      PROVE  /\ Inv'
             /\ Stored => members'[1].admin = members[1].admin
  <2>1. CASE JoinPush(r)
    BY <2>1, JoinPushKeeps
  <2>2. CASE ToggleSave(r) \/ RoleSave(r) \/ ProgressSave(r)
    BY <2>2, SaveKeeps
  <2>3. CASE SaveRefused(r)
    BY <2>3, FinishKeeps DEF SaveRefused
  <2> QED
    BY <1>6, <2>1, <2>2, <2>3 DEF Continue
<1>7. CASE UNCHANGED vars
  <2>1. UNCHANGED <<status, members, version, job>>
    BY <1>7 DEF vars
  <2> QED
    BY ListHasNoGap, <2>1
    DEF Inv, TypeOK, NoGap, NoListUnlessStored, CapacityKept, JobsInv, Aim,
        Fresh, OwnerKeepsItsPlace, OwnerProgressCapped, Stored
<1> QED
  BY <1>1, <1>2, <1>3, <1>4, <1>5, <1>6, <1>7 DEF Next

LEMMA InitHolds == Init => Inv
<1> SUFFICES ASSUME Init PROVE Inv
  OBVIOUS
<1>1. members = <<>> /\ members \in Seq(Entry) /\ Len(members) = 0 /\ ~Stored
  BY EmptySeq DEF Init, Stored
<1>2. TypeOK
  BY ListHasNoGap, <1>1, IdleType DEF Init, TypeOK, NoGap
<1>3. JobsInv
  BY IdleType DEF Init, JobsInv
<1>4. CapacityKept
  BY <1>1, Assumptions DEF CapacityKept
<1> QED
  BY <1>1, <1>2, <1>3, <1>4
     DEF Inv, NoListUnlessStored, OwnerKeepsItsPlace, OwnerProgressCapped

(* In every reachable state the member list and the requests have their    *)
(* types and satisfy the inductive invariant.                              *)
THEOREM Invariance == Spec => []Inv
<1>1. Inv /\ [Next]_vars => Inv'
  BY NextKeeps
<1> QED
  BY <1>1, InitHolds, PTL DEF Spec

(* Type correctness (the room document and what requests have read).       *)
THEOREM TypeCorrect == Spec => []TypeOK
<1>1. Inv => TypeOK
  BY DEF Inv
<1> QED
  BY <1>1, Invariance, PTL

(* A room never has more members than its capacity, however many joins and *)
(* stale positional saves run at the same time (joinRoom).                 *)
THEOREM CapacityKeptProved == Spec => []CapacityKept
<1>1. Inv => CapacityKept
  BY DEF Inv
<1> QED
  BY <1>1, Invariance, PTL

(* The owner stays the first member of a room that exists (leaveRoom).     *)
THEOREM OwnerKeepsItsPlaceProved == Spec => []OwnerKeepsItsPlace
<1>1. Inv => OwnerKeepsItsPlace
  BY DEF Inv
<1> QED
  BY <1>1, Invariance, PTL

(* The owner's progress stays within the cap (updateProgress).             *)
THEOREM OwnerProgressCappedProved == Spec => []OwnerProgressCapped
<1>1. Inv => OwnerProgressCapped
  BY DEF Inv
<1> QED
  BY <1>1, Invariance, PTL

(* No step changes the owner's admin flag (toggleRoomAdmin).               *)
THEOREM OwnerFlagUntouchedProved == Spec => OwnerFlagUntouched
<1>1. Inv /\ [Next]_vars =>
        [Stored /\ Stored' => members'[1].admin = members[1].admin]_vars
  BY NextKeeps
<1> QED
  BY <1>1, Invariance, PTL DEF Spec, OwnerFlagUntouched

-----------------------------------------------------------------------------
(* The call: the messages between a page and the server.                   *)

(* What a page is told of an account, or has for one, names it.            *)
Mail == {m \in Message : m.kind \in {"offer", "answer", "joined", "left"} <=> m.who \in Account}

(* What a queue holds: nothing of w; nothing but that w has left; one      *)
(* message m of w, and before it at most that w has left.                  *)
Nothing(q, w) == \A i \in DOMAIN q : q[i].who # w

OnlyLeft(q, w) == \A i \in DOMAIN q : q[i].who = w => q[i].kind = "left"

One(q, w, m) ==
  \E i \in DOMAIN q :
    /\ q[i] = m
    /\ \A j \in DOMAIN q : j # i /\ q[j].who = w => j < i /\ q[j].kind = "left"

Has(q, kind) == \E i \in DOMAIN q : q[i].kind = kind

HasJoined(q, w) == \E i \in DOMAIN q : q[i].kind = "joined" /\ q[i].who = w

IsLeft(m, w) == m.kind = "left" /\ m.who = w

NoLeft(q, w) == \A i \in DOMAIN q : ~IsLeft(q[i], w)

(* Whatever tells that w has left is not the last that tells of w.         *)
Followed(q, w) ==
  \A i \in DOMAIN q : IsLeft(q[i], w) =>
     \E j \in DOMAIN q : j > i /\ q[j].who = w /\ q[j].kind # "left"

(* The account w is in the call (here), or what is behind place i of the   *)
(* queue tells that it has left.                                           *)
KnownBehind(q, here, w, i) == here \/ \E j \in DOMAIN q : j > i /\ IsLeft(q[j], w)

(* A message that makes a page connect with w.                             *)
Brings(m, w) ==
  \/ m.kind \in {"joined", "offer"} /\ m.who = w
  \/ m.kind = "peers" /\ w \in m.peers

(* What comes after the last answer to a join brings w only if w is there, *)
(* or tells later that it has left.                                        *)
Current(q, i) == \A j \in DOMAIN q : j > i => q[j].kind # "peers"

Reports(q, here, w) ==
  \A i \in DOMAIN q : Current(q, i) /\ Brings(q[i], w) => KnownBehind(q, here, w, i)

(* Before place i, the messages of a page to the server have it in the     *)
(* call, or out of it; live is where the server has it.                    *)
InAt(q, live, i) ==
  \E j \in 0..(i - 1) : /\ IF j = 0 THEN live ELSE q[j].kind = "join"
                        /\ \A l \in (j + 1)..(i - 1) : q[l].kind # "leave"

OutAt(q, live, i) ==
  \E j \in 0..(i - 1) : /\ IF j = 0 THEN ~live ELSE q[j].kind = "leave"
                        /\ \A l \in (j + 1)..(i - 1) : q[l].kind # "join"

(* A page joins when it is out, leaves the channel when it is out, and     *)
(* signals when it is in; and all that it has sent leaves it in or out.    *)
InOrder(q, live, in) ==
  /\ IF in THEN InAt(q, live, Len(q) + 1) ELSE OutAt(q, live, Len(q) + 1)
  /\ \A i \in DOMAIN q :
       /\ q[i].kind \in {"join", "off"} => OutAt(q, live, i)
       /\ q[i].kind \in {"offer", "answer"} => InAt(q, live, i)

-----------------------------------------------------------------------------
(* Queues.                                                                 *)
LEMMA AppendPlaces ==
  ASSUME NEW q \in Seq(Mail), NEW m \in Mail
  PROVE  LET p == Append(q, m) IN
         /\ p \in Seq(Mail)
         /\ Len(q) \in Nat /\ Len(p) = Len(q) + 1
         /\ DOMAIN q = 1..Len(q) /\ DOMAIN p = 1..(Len(q) + 1)
         /\ \A i \in DOMAIN q : i \in DOMAIN p /\ p[i] = q[i] /\ i < Len(q) + 1
         /\ Len(q) + 1 \in DOMAIN p /\ p[Len(q) + 1] = m
         /\ \A i \in DOMAIN p : i \in DOMAIN q \/ i = Len(q) + 1
<1> QED
  OBVIOUS

LEMMA TailPlaces ==
  ASSUME NEW q \in Seq(Mail), q # << >>
  PROVE  LET p == Tail(q) IN
         /\ p \in Seq(Mail)
         /\ Len(q) \in Nat /\ Len(p) = Len(q) - 1 /\ Len(p) \in Nat
         /\ DOMAIN q = 1..Len(q) /\ DOMAIN p = 1..Len(p)
         /\ 1 \in DOMAIN q /\ Head(q) = q[1] /\ Head(q) \in Mail
         /\ \A i \in DOMAIN p : i + 1 \in DOMAIN q /\ p[i] = q[i + 1]
         /\ \A i \in DOMAIN q : i = 1 \/ (i - 1 \in DOMAIN p /\ p[i - 1] = q[i])
<1>1. /\ Tail(q) \in Seq(Mail) /\ Len(q) \in Nat /\ Len(q) > 0 /\ DOMAIN q = 1..Len(q)
      /\ Len(Tail(q)) = Len(q) - 1 /\ DOMAIN Tail(q) = 1..(Len(q) - 1)
      /\ Head(q) = q[1] /\ q[1] \in Mail
      /\ \A i \in 1..(Len(q) - 1) : Tail(q)[i] = q[i + 1]
  OBVIOUS
<1> QED
  BY <1>1

(* A message that does not name w changes nothing that is held of w.       *)
LEMMA AppendOthers ==
  ASSUME NEW q \in Seq(Mail), NEW m \in Mail, NEW w, m.who # w
  PROVE  LET p == Append(q, m) IN
         /\ Nothing(q, w) => Nothing(p, w)
         /\ OnlyLeft(q, w) => OnlyLeft(p, w)
         /\ NoLeft(q, w) => NoLeft(p, w)
         /\ \A x : One(q, w, x) => One(p, w, x)
<1> DEFINE p == Append(q, m)
           n == Len(q) + 1
<1>1. /\ DOMAIN q \subseteq Int /\ n \in DOMAIN p /\ p[n] = m /\ n \in Int
      /\ \A i \in DOMAIN q : i \in DOMAIN p /\ p[i] = q[i]
      /\ \A i \in DOMAIN p : i \in DOMAIN q \/ i = n
  BY AppendPlaces
<1> HIDE DEF p, n
<1>2. ASSUME NEW x, One(q, w, x)
      PROVE  One(p, w, x)
  <2>1. PICK i \in DOMAIN q :
          q[i] = x /\ \A j \in DOMAIN q : j # i /\ q[j].who = w => j < i /\ q[j].kind = "left"
    BY <1>2 DEF One
  <2> QED
    BY <1>1, <2>1 DEF One
<1>3. /\ Nothing(q, w) => Nothing(p, w)
      /\ OnlyLeft(q, w) => OnlyLeft(p, w)
      /\ NoLeft(q, w) => NoLeft(p, w)
  BY <1>1 DEF Nothing, OnlyLeft, NoLeft, IsLeft
<1> QED
  BY <1>2, <1>3 DEF p

(* What the message itself adds.                                           *)
LEMMA AppendOwn ==
  ASSUME NEW q \in Seq(Mail), NEW m \in Mail
  PROVE  LET p == Append(q, m) IN
         /\ \A k : Has(p, k) <=> Has(q, k) \/ m.kind = k
         /\ \A w : Nothing(p, w) => Nothing(q, w) /\ m.who # w
         /\ \A w : HasJoined(q, w) => HasJoined(p, w)
         /\ m.kind = "joined" => HasJoined(p, m.who)
         /\ m.kind = "left" => \A w : OnlyLeft(q, w) => OnlyLeft(p, w)
         /\ m.kind # "left" /\ OnlyLeft(q, m.who) => One(p, m.who, m)
         /\ m.kind # "left" => \A w : Nothing(q, w) => NoLeft(p, w)
<1> DEFINE p == Append(q, m)
           n == Len(q) + 1
<1>1. /\ DOMAIN q \subseteq Int /\ n \in DOMAIN p /\ p[n] = m /\ n \in Int
      /\ \A i \in DOMAIN q : i \in DOMAIN p /\ p[i] = q[i] /\ i < n
      /\ \A i \in DOMAIN p : i \in DOMAIN q \/ i = n
  BY AppendPlaces
<1> HIDE DEF p, n
<1>2. /\ \A k : Has(p, k) <=> Has(q, k) \/ m.kind = k
      /\ \A w : Nothing(p, w) => Nothing(q, w) /\ m.who # w
      /\ \A w : HasJoined(q, w) => HasJoined(p, w)
      /\ m.kind = "joined" => HasJoined(p, m.who)
  BY <1>1 DEF Has, Nothing, HasJoined
<1>3. m.kind = "left" => \A w : OnlyLeft(q, w) => OnlyLeft(p, w)
  BY <1>1 DEF OnlyLeft
<1>4. m.kind # "left" /\ OnlyLeft(q, m.who) => One(p, m.who, m)
  BY <1>1 DEF OnlyLeft, One
<1>5. m.kind # "left" => \A w : Nothing(q, w) => NoLeft(p, w)
  BY <1>1 DEF Nothing, NoLeft, IsLeft
<1> QED
  BY <1>2, <1>3, <1>4, <1>5 DEF p

(* What a page knows of w once a message more is under way to it.          *)
LEMMA AppendReports ==
  ASSUME NEW q \in Seq(Mail), NEW m \in Mail, NEW w,
         NEW here \in BOOLEAN, NEW now \in BOOLEAN
  PROVE  LET p == Append(q, m) IN
         /\ (here => now) \/ IsLeft(m, w) =>
              /\ KnownBehind(q, here, w, 0) => KnownBehind(p, now, w, 0)
              /\ Reports(q, here, w) /\ (Brings(m, w) => now) => Reports(p, now, w)
         /\ m.kind = "peers" /\ (Brings(m, w) => now) => Reports(p, now, w)
<1> DEFINE p == Append(q, m)
           n == Len(q) + 1
<1>1. /\ DOMAIN q \subseteq Nat /\ n \in DOMAIN p /\ p[n] = m /\ n \in Nat /\ n > 0
      /\ \A i \in DOMAIN q : i \in DOMAIN p /\ p[i] = q[i] /\ i < n
      /\ \A i \in DOMAIN p : i \in DOMAIN q \/ i = n
  BY AppendPlaces
<1> HIDE DEF p, n
<1>2. ASSUME (here => now) \/ IsLeft(m, w)
      PROVE  \A i \in {0} \cup DOMAIN q : KnownBehind(q, here, w, i) => KnownBehind(p, now, w, i)
  BY <1>1, <1>2 DEF KnownBehind
<1>3. \A i \in DOMAIN q : Current(p, i) => Current(q, i)
  BY <1>1 DEF Current
<1>4. ASSUME (here => now) \/ IsLeft(m, w), Reports(q, here, w), Brings(m, w) => now
      PROVE  Reports(p, now, w)
  <2> SUFFICES ASSUME NEW i \in DOMAIN p, Current(p, i), Brings(p[i], w)
               PROVE  KnownBehind(p, now, w, i)
    BY DEF Reports
  <2>1. CASE i = n
    BY <1>1, <1>4, <2>1 DEF KnownBehind
  <2>2. CASE i \in DOMAIN q
    BY <1>1, <1>2, <1>3, <1>4, <2>2 DEF Reports
  <2> QED
    BY <1>1, <2>1, <2>2
<1>5. ASSUME m.kind = "peers", Brings(m, w) => now
      PROVE  Reports(p, now, w)
  <2> SUFFICES ASSUME NEW i \in DOMAIN p, Current(p, i), Brings(p[i], w)
               PROVE  KnownBehind(p, now, w, i)
    BY DEF Reports
  <2>1. i = n
    BY <1>1, <1>5 DEF Current
  <2> QED
    BY <1>1, <1>5, <2>1 DEF KnownBehind
<1> QED
  BY <1>2, <1>4, <1>5 DEF p

LEMMA AppendFollowed ==
  ASSUME NEW q \in Seq(Mail), NEW m \in Mail, NEW w
  PROVE  LET p == Append(q, m) IN
         /\ Followed(q, w) /\ ~IsLeft(m, w) => Followed(p, w)
         /\ m.who = w /\ m.kind # "left" => Followed(p, w)
<1> DEFINE p == Append(q, m)
           n == Len(q) + 1
<1>1. /\ DOMAIN q \subseteq Nat /\ n \in DOMAIN p /\ p[n] = m /\ n \in Nat /\ n > 0
      /\ \A i \in DOMAIN q : i \in DOMAIN p /\ p[i] = q[i] /\ i < n
      /\ \A i \in DOMAIN p : i \in DOMAIN q \/ i = n
  BY AppendPlaces
<1> HIDE DEF p, n
<1>2. /\ Followed(q, w) /\ ~IsLeft(m, w) => Followed(p, w)
      /\ m.who = w /\ m.kind # "left" => Followed(p, w)
  BY <1>1 DEF Followed, IsLeft
<1> QED
  BY <1>2 DEF p

(* What is left when the first message is taken.                           *)
LEMMA TailHolds ==
  ASSUME NEW q \in Seq(Mail), q # << >>
  PROVE  LET p == Tail(q)
             h == Head(q) IN
         /\ \A w : Nothing(q, w) => Nothing(p, w) /\ h.who # w
         /\ \A w : OnlyLeft(q, w) => OnlyLeft(p, w) /\ (h.who = w => h.kind = "left")
         /\ \A w : ~Nothing(q, w) => ~Nothing(p, w) \/ h.who = w
         /\ \A w : NoLeft(q, w) => NoLeft(p, w) /\ ~IsLeft(h, w)
         /\ \A w : HasJoined(q, w) => HasJoined(p, w) \/ (h.kind = "joined" /\ h.who = w)
         /\ \A k : Has(q, k) <=> Has(p, k) \/ h.kind = k
         /\ \A w, m : One(q, w, m) /\ m.who = w /\ m.kind # "left" =>
              IF h = m THEN Nothing(p, w) ELSE One(p, w, m) /\ (h.who = w => h.kind = "left")
<1> DEFINE p == Tail(q)
           h == Head(q)
<1>1. /\ DOMAIN q \subseteq Int /\ 1 \in DOMAIN q /\ h = q[1]
      /\ \A i \in DOMAIN p : i + 1 \in DOMAIN q /\ p[i] = q[i + 1] /\ i \in Int /\ i + 1 > 1
      /\ \A i \in DOMAIN q : i = 1 \/ (i - 1 \in DOMAIN p /\ p[i - 1] = q[i])
  BY TailPlaces
<1> HIDE DEF p, h
<1>2. /\ \A w : Nothing(q, w) => Nothing(p, w) /\ h.who # w
      /\ \A w : OnlyLeft(q, w) => OnlyLeft(p, w) /\ (h.who = w => h.kind = "left")
  BY <1>1 DEF Nothing, OnlyLeft
<1>3. /\ \A w : ~Nothing(q, w) => ~Nothing(p, w) \/ h.who = w
      /\ \A w : NoLeft(q, w) => NoLeft(p, w) /\ ~IsLeft(h, w)
      /\ \A w : HasJoined(q, w) => HasJoined(p, w) \/ (h.kind = "joined" /\ h.who = w)
      /\ \A k : Has(q, k) <=> Has(p, k) \/ h.kind = k
  BY <1>1 DEF Nothing, NoLeft, HasJoined, Has
<1>4. ASSUME NEW w, NEW m, One(q, w, m), m.who = w, m.kind # "left"
      PROVE  IF h = m THEN Nothing(p, w) ELSE One(p, w, m) /\ (h.who = w => h.kind = "left")
  <2>1. PICK i \in DOMAIN q :
          q[i] = m /\ \A j \in DOMAIN q : j # i /\ q[j].who = w => j < i /\ q[j].kind = "left"
    BY <1>4 DEF One
  <2>2. CASE h = m
    <3>1. i = 1
      BY <1>1, <1>4, <2>1, <2>2
    <3> QED
      BY <1>1, <2>1, <2>2, <3>1 DEF Nothing
  <2>3. CASE h # m
    <3>1. i # 1 /\ i - 1 \in DOMAIN p /\ p[i - 1] = m /\ i \in Int
      BY <1>1, <2>1, <2>3
    <3>2. ASSUME NEW j \in DOMAIN p, j # i - 1, p[j].who = w
          PROVE  j < i - 1 /\ p[j].kind = "left"
      <4>1. j + 1 \in DOMAIN q /\ j + 1 # i /\ q[j + 1] = p[j] /\ j \in Int
        BY <1>1, <3>1, <3>2
      <4>2. j + 1 < i /\ q[j + 1].kind = "left"
        BY <2>1, <3>2, <4>1
      <4> QED
        BY <3>1, <4>1, <4>2
    <3>3. h.who = w => h.kind = "left"
      BY <1>1, <2>1, <3>1
    <3> QED
      BY <2>3, <3>1, <3>2, <3>3 DEF One
  <2> QED
    BY <2>2, <2>3
<1> QED
  BY <1>2, <1>3, <1>4 DEF p, h

LEMMA TailReports ==
  ASSUME NEW q \in Seq(Mail), q # << >>, NEW here \in BOOLEAN, NEW w
  PROVE  LET p == Tail(q)
             h == Head(q) IN
         /\ Reports(q, here, w) => Reports(p, here, w)
         /\ KnownBehind(q, here, w, 0) /\ ~IsLeft(h, w) => KnownBehind(p, here, w, 0)
         /\ Reports(q, here, w) /\ Brings(h, w) /\ ~Has(p, "peers") => KnownBehind(p, here, w, 0)
         /\ Followed(q, w) => Followed(p, w) /\ (IsLeft(h, w) => ~OnlyLeft(p, w))
<1> DEFINE p == Tail(q)
           h == Head(q)
<1>1. /\ DOMAIN q \subseteq Int /\ 1 \in DOMAIN q /\ h = q[1]
      /\ \A i \in DOMAIN p : i + 1 \in DOMAIN q /\ p[i] = q[i + 1] /\ i \in Int /\ i > 0
      /\ \A i \in DOMAIN q : i = 1 \/ (i - 1 \in DOMAIN p /\ p[i - 1] = q[i])
  BY TailPlaces
<1> HIDE DEF p, h
<1>2. ASSUME NEW i \in Int, KnownBehind(q, here, w, i + 1)
      PROVE  KnownBehind(p, here, w, i) \/ (i + 1 < 1 /\ IsLeft(h, w))
  <2> SUFFICES ASSUME NEW j \in DOMAIN q, j > i + 1, IsLeft(q[j], w)
               PROVE  KnownBehind(p, here, w, i) \/ (i + 1 < 1 /\ IsLeft(h, w))
    BY <1>2 DEF KnownBehind
  <2>1. CASE j = 1
    BY <1>1, <2>1
  <2>2. CASE j # 1
    <3>1. j - 1 \in DOMAIN p /\ p[j - 1] = q[j] /\ j - 1 > i
      BY <1>1, <2>2
    <3> QED
      BY <3>1 DEF KnownBehind
  <2> QED
    BY <2>1, <2>2
<1>3. \A i \in DOMAIN p : Current(p, i) => Current(q, i + 1)
  <2> SUFFICES ASSUME NEW i \in DOMAIN p, Current(p, i), NEW j \in DOMAIN q, j > i + 1
               PROVE  q[j].kind # "peers"
    BY DEF Current
  <2>1. j - 1 \in DOMAIN p /\ p[j - 1] = q[j] /\ j - 1 > i
    BY <1>1
  <2> QED
    BY <2>1 DEF Current
<1>4. ASSUME Reports(q, here, w)
      PROVE  Reports(p, here, w)
  <2> SUFFICES ASSUME NEW i \in DOMAIN p, Current(p, i), Brings(p[i], w)
               PROVE  KnownBehind(p, here, w, i)
    BY DEF Reports
  <2>1. KnownBehind(q, here, w, i + 1)
    BY <1>1, <1>3, <1>4 DEF Reports
  <2> QED
    BY <1>1, <1>2, <2>1
<1>5. ASSUME KnownBehind(q, here, w, 0), ~IsLeft(h, w)
      PROVE  KnownBehind(p, here, w, 0)
  <2>1. KnownBehind(q, here, w, 1)
    BY <1>1, <1>5 DEF KnownBehind
  <2> QED
    BY <1>2, <2>1
<1>6. ASSUME Reports(q, here, w), Brings(h, w), ~Has(p, "peers")
      PROVE  KnownBehind(p, here, w, 0)
  <2>1. ASSUME NEW j \in DOMAIN q, j > 1
        PROVE  q[j].kind # "peers"
    <3>1. j - 1 \in DOMAIN p /\ p[j - 1] = q[j]
      BY <1>1, <2>1
    <3> QED
      BY <1>6, <3>1 DEF Has
  <2>2. KnownBehind(q, here, w, 1)
    BY <1>1, <1>6, <2>1 DEF Reports, Current
  <2> QED
    BY <1>2, <2>2
<1>7. ASSUME Followed(q, w)
      PROVE  Followed(p, w) /\ (IsLeft(h, w) => ~OnlyLeft(p, w))
  <2>1. ASSUME NEW i \in DOMAIN q, IsLeft(q[i], w)
        PROVE  \E j \in DOMAIN p : j + 1 > i /\ p[j].who = w /\ p[j].kind # "left"
    <3>1. PICK j \in DOMAIN q : j > i /\ q[j].who = w /\ q[j].kind # "left"
      BY <1>7, <2>1 DEF Followed
    <3>2. i >= 1
      BY <1>1
    <3>3. j - 1 \in DOMAIN p /\ p[j - 1] = q[j] /\ (j - 1) + 1 > i
      BY <1>1, <3>1, <3>2
    <3> QED
      BY <3>1, <3>3
  <2>2. Followed(p, w)
    <3> SUFFICES ASSUME NEW i \in DOMAIN p, IsLeft(p[i], w)
                 PROVE  \E j \in DOMAIN p : j > i /\ p[j].who = w /\ p[j].kind # "left"
      BY DEF Followed
    <3>1. i + 1 \in DOMAIN q /\ IsLeft(q[i + 1], w)
      BY <1>1
    <3>2. PICK j \in DOMAIN p : j + 1 > i + 1 /\ p[j].who = w /\ p[j].kind # "left"
      BY <2>1, <3>1
    <3> QED
      BY <1>1, <3>2
  <2>3. IsLeft(h, w) => ~OnlyLeft(p, w)
    BY <1>1, <2>1 DEF OnlyLeft
  <2> QED
    BY <2>2, <2>3
<1> QED
  BY <1>4, <1>5, <1>6, <1>7 DEF p, h

(* What the order of the messages says of where the page is.               *)
LEMMA OrderFacts ==
  ASSUME NEW q \in Seq(Mail), NEW live \in BOOLEAN, NEW in \in BOOLEAN, InOrder(q, live, in)
  PROVE  /\ in /\ ~Has(q, "join") => live /\ ~Has(q, "leave")
         /\ ~in /\ ~Has(q, "leave") => ~live /\ ~Has(q, "join")
         /\ q # << >> =>
              /\ Head(q).kind \in {"join", "off"} => ~live
              /\ Head(q).kind \in {"offer", "answer"} => live
<1>1. DOMAIN q = 1..Len(q) /\ Len(q) \in Nat
  OBVIOUS
<1>2. ASSUME in, ~Has(q, "join")
      PROVE  live /\ ~Has(q, "leave")
  <2>1. PICK j \in 0..Len(q) : /\ IF j = 0 THEN live ELSE q[j].kind = "join"
                               /\ \A l \in (j + 1)..Len(q) : q[l].kind # "leave"
    <3>1. (Len(q) + 1) - 1 = Len(q)
      BY <1>1
    <3> QED
      BY <1>2, <3>1 DEF InOrder, InAt
  <2>2. j = 0
    BY <1>1, <1>2, <2>1 DEF Has
  <2> QED
    BY <1>1, <2>1, <2>2 DEF Has
<1>3. ASSUME ~in, ~Has(q, "leave")
      PROVE  ~live /\ ~Has(q, "join")
  <2>1. PICK j \in 0..Len(q) : /\ IF j = 0 THEN ~live ELSE q[j].kind = "leave"
                               /\ \A l \in (j + 1)..Len(q) : q[l].kind # "join"
    <3>1. (Len(q) + 1) - 1 = Len(q)
      BY <1>1
    <3> QED
      BY <1>3, <3>1 DEF InOrder, OutAt
  <2>2. j = 0
    BY <1>1, <1>3, <2>1 DEF Has
  <2> QED
    BY <1>1, <2>1, <2>2 DEF Has
<1>4. ASSUME q # << >>
      PROVE  /\ Head(q).kind \in {"join", "off"} => ~live
             /\ Head(q).kind \in {"offer", "answer"} => live
  <2>1. 1 \in DOMAIN q /\ Head(q) = q[1]
    BY <1>4
  <2> QED
    BY <2>1 DEF InOrder, InAt, OutAt
<1> QED
  BY <1>2, <1>3, <1>4

(* The order is kept when the page sends and when the server hears.        *)
LEMMA OrderAppend ==
  ASSUME NEW q \in Seq(Mail), NEW live \in BOOLEAN, NEW in \in BOOLEAN, InOrder(q, live, in),
         NEW m \in Mail, NEW now \in BOOLEAN,
         \/ m.kind = "join" /\ ~in /\ now
         \/ m.kind = "leave" /\ ~now
         \/ m.kind = "off" /\ ~in /\ ~now
         \/ m.kind \in {"offer", "answer"} /\ in /\ now
  PROVE  InOrder(Append(q, m), live, now)
<1> DEFINE p == Append(q, m)
           n == Len(q) + 1
<1>1. /\ DOMAIN q = 1..(n - 1) /\ n \in Nat /\ n > 0 /\ Len(p) = n /\ DOMAIN p = 1..n
      /\ \A i \in 1..(n - 1) : p[i] = q[i]
      /\ p[n] = m
  BY AppendPlaces
<1> HIDE DEF p, n
<1>2. ASSUME NEW i \in 1..n
      PROVE  /\ InAt(q, live, i) <=> InAt(p, live, i)
             /\ OutAt(q, live, i) <=> OutAt(p, live, i)
  <2>1. ASSUME NEW j \in 0..(i - 1)
        PROVE  /\ j # 0 => q[j] = p[j]
               /\ \A l \in (j + 1)..(i - 1) : q[l] = p[l]
    BY <1>1
  <2> QED
    BY <2>1 DEF InAt, OutAt
<1>3. IF in THEN InAt(p, live, n) ELSE OutAt(p, live, n)
  BY <1>1, <1>2 DEF InOrder, n
<1>4. ASSUME NEW i \in DOMAIN p
      PROVE  /\ p[i].kind \in {"join", "off"} => OutAt(p, live, i)
             /\ p[i].kind \in {"offer", "answer"} => InAt(p, live, i)
  <2>1. CASE i = n
    BY <1>1, <1>3, <2>1
  <2>2. CASE i # n
    <3>1. i \in DOMAIN q /\ p[i] = q[i]
      BY <1>1, <2>2
    <3> QED
      BY <1>1, <1>2, <3>1 DEF InOrder
  <2> QED
    BY <2>1, <2>2
<1>5. IF now THEN InAt(p, live, n + 1) ELSE OutAt(p, live, n + 1)
  <2>1. CASE m.kind = "join" /\ now
    BY <1>1, <2>1 DEF InAt
  <2>2. CASE m.kind = "leave" /\ ~now
    BY <1>1, <2>2 DEF OutAt
  <2>3. CASE m.kind \in {"offer", "answer"} /\ in /\ now
    <3>1. PICK j \in 0..(n - 1) : /\ IF j = 0 THEN live ELSE p[j].kind = "join"
                                  /\ \A l \in (j + 1)..(n - 1) : p[l].kind # "leave"
      BY <1>3, <2>3 DEF InAt
    <3>2. j \in 0..((n + 1) - 1) /\ \A l \in (j + 1)..((n + 1) - 1) : p[l].kind # "leave"
      BY <1>1, <2>3, <3>1
    <3> QED
      BY <2>3, <3>1, <3>2 DEF InAt
  <2>4. CASE m.kind = "off" /\ ~in /\ ~now
    <3>1. PICK j \in 0..(n - 1) : /\ IF j = 0 THEN ~live ELSE p[j].kind = "leave"
                                  /\ \A l \in (j + 1)..(n - 1) : p[l].kind # "join"
      BY <1>3, <2>4 DEF OutAt
    <3>2. j \in 0..((n + 1) - 1) /\ \A l \in (j + 1)..((n + 1) - 1) : p[l].kind # "join"
      BY <1>1, <2>4, <3>1
    <3> QED
      BY <2>4, <3>1, <3>2 DEF OutAt
  <2> QED
    BY <2>1, <2>2, <2>3, <2>4
<1> QED
  BY <1>1, <1>4, <1>5 DEF InOrder, p

LEMMA OrderTail ==
  ASSUME NEW q \in Seq(Mail), q # << >>, NEW live \in BOOLEAN, NEW in \in BOOLEAN,
         InOrder(q, live, in), NEW now \in BOOLEAN,
         now = (IF Head(q).kind = "join" THEN TRUE ELSE IF Head(q).kind = "leave" THEN FALSE ELSE live)
  PROVE  InOrder(Tail(q), now, in)
<1> DEFINE p == Tail(q)
           n == Len(p)
<1>1. /\ n \in Nat /\ Len(q) = n + 1 /\ DOMAIN q = 1..(n + 1) /\ DOMAIN p = 1..n
      /\ Head(q) = q[1]
      /\ \A i \in 1..n : p[i] = q[i + 1]
  BY TailPlaces
<1> HIDE DEF p, n
<1>2. ASSUME NEW i \in 1..(n + 1), InAt(q, live, i + 1)
      PROVE  InAt(p, now, i)
  <2>1. PICK j \in 0..i : /\ IF j = 0 THEN live ELSE q[j].kind = "join"
                          /\ \A l \in (j + 1)..i : q[l].kind # "leave"
    <3>1. (i + 1) - 1 = i
      BY <1>1
    <3> QED
      BY <1>2, <3>1 DEF InAt
  <2>2. \A l \in j..(i - 1) : l # 0 => p[l].kind # "leave"
    BY <1>1, <2>1
  <2>3. CASE j <= 1
    <3>1. now
      BY <1>1, <2>1, <2>3
    <3>2. \A l \in (0 + 1)..(i - 1) : p[l].kind # "leave"
      BY <2>2, <2>3
    <3>3. 0 \in 0..(i - 1)
      BY <1>1
    <3> QED
      BY <3>1, <3>2, <3>3 DEF InAt
  <2>4. CASE j > 1
    <3>1. j - 1 \in 0..(i - 1) /\ j - 1 # 0 /\ p[j - 1].kind = "join" /\ (j - 1) + 1 = j
      BY <1>1, <2>1, <2>4
    <3> QED
      BY <2>2, <3>1 DEF InAt
  <2>5. j <= 1 \/ j > 1
    BY <1>1
  <2> QED
    BY <2>3, <2>4, <2>5
<1>3. ASSUME NEW i \in 1..(n + 1), OutAt(q, live, i + 1)
      PROVE  OutAt(p, now, i)
  <2>1. PICK j \in 0..i : /\ IF j = 0 THEN ~live ELSE q[j].kind = "leave"
                          /\ \A l \in (j + 1)..i : q[l].kind # "join"
    <3>1. (i + 1) - 1 = i
      BY <1>1
    <3> QED
      BY <1>3, <3>1 DEF OutAt
  <2>2. \A l \in j..(i - 1) : l # 0 => p[l].kind # "join"
    BY <1>1, <2>1
  <2>3. CASE j <= 1
    <3>1. ~now
      BY <1>1, <2>1, <2>3
    <3>2. \A l \in (0 + 1)..(i - 1) : p[l].kind # "join"
      BY <2>2, <2>3
    <3>3. 0 \in 0..(i - 1)
      BY <1>1
    <3> QED
      BY <3>1, <3>2, <3>3 DEF OutAt
  <2>4. CASE j > 1
    <3>1. j - 1 \in 0..(i - 1) /\ j - 1 # 0 /\ p[j - 1].kind = "leave" /\ (j - 1) + 1 = j
      BY <1>1, <2>1, <2>4
    <3> QED
      BY <2>2, <3>1 DEF OutAt
  <2>5. j <= 1 \/ j > 1
    BY <1>1
  <2> QED
    BY <2>3, <2>4, <2>5
<1>4. ASSUME NEW i \in 1..n
      PROVE  /\ p[i].kind \in {"join", "off"} => OutAt(p, now, i)
             /\ p[i].kind \in {"offer", "answer"} => InAt(p, now, i)
  <2>1. i + 1 \in DOMAIN q /\ p[i] = q[i + 1] /\ i \in 1..(n + 1)
    BY <1>1
  <2> QED
    BY <1>2, <1>3, <2>1 DEF InOrder
<1>5. IF in THEN InAt(p, now, n + 1) ELSE OutAt(p, now, n + 1)
  <2>1. n + 1 \in 1..(n + 1) /\ Len(q) + 1 = (n + 1) + 1
    BY <1>1
  <2>2. IF in THEN InAt(q, live, (n + 1) + 1) ELSE OutAt(q, live, (n + 1) + 1)
    BY <2>1 DEF InOrder
  <2> QED
    BY <1>2, <1>3, <2>1, <2>2
<1> QED
  BY <1>1, <1>4, <1>5 DEF InOrder, p, n

-----------------------------------------------------------------------------
(* The inductive invariant.                                                *)
VideoTypes ==
  /\ page \in [Account -> Page]
  /\ camera \in [Account -> Camera]
  /\ pc \in [Account -> [Account -> PeerConnection]]
  /\ made \in [Account -> [Account -> Nat]]
  /\ outbox \in [Account -> Seq(Mail)]
  /\ inbox \in [Account -> Seq(Mail)]
  /\ entry \in [Account -> {"none", "live", "dead"}]
  /\ channel \subseteq Account
  /\ closing \subseteq Account
  /\ joins \in 0..MaxJoins
  /\ turns \in 0..MaxTurns

(* A page that has met no hazard and is about to meet none; and one that   *)
(* has joined and is in.                                                   *)
Sane(u) == u \notin astray /\ ~Has(inbox[u], "full")

Within(u) == Sane(u) /\ page[u].inCall /\ ~Has(outbox[u], "join")

Live(u) == entry[u] = "live"

Asks(u) == Has(outbox[u], "join") \/ Has(inbox[u], "peers")

Uncrossed(u, v) == <<u, v>> \notin crossed /\ <<v, u>> \notin crossed

(* What a page is by itself.                                               *)
Sound(u) ==
  /\ u \in closing \/ entry[u] = "dead" => u \in astray
  /\ page[u].prompts + page[u].stale <= joins
  /\ u \notin astray =>
       /\ (camera[u].held <=> page[u].inCall) /\ ~camera[u].left
       /\ page[u].seen => page[u].inCall
       /\ ~page[u].inCall => \A v \in Account : pc[u][v] = NoPc

(* What the server will have of it.                                        *)
Lined(u) == Sane(u) =>
  /\ InOrder(outbox[u], Live(u), page[u].inCall)
  /\ Live(u) => u \in channel

(* Until it is answered, a page has no connection of its present call.     *)
Clear(u, v) ==
  Sane(u) /\ page[u].inCall /\ Asks(u) /\ <<u, v>> \notin crossed => pc[u][v] = NoPc

(* Whom a page is connected with is in the call, or the page will be told. *)
Knows(u, v) == Within(u) /\ Sane(v) =>
  /\ <<u, v>> \notin crossed /\ pc[u][v] # NoPc => KnownBehind(inbox[u], Live(v), v, 0)
  /\ Reports(inbox[u], Live(v), v)

(* To be told that v has left, when it is back, is not the last of it.     *)
Hears(u, v) == Within(u) /\ Within(v) =>
  Followed(inbox[u], v) \/ ~Nothing(outbox[v], u) \/ HasJoined(inbox[v], u)

(* The steps of a negotiation between u, which came later, and v.          *)
Offers(u, v) == pc[v][u].local = "offer" /\ pc[v][u].remote = Unknown

Answers(u, v) == pc[u][v].local = "answer" /\ pc[u][v].remote.by = pc[v][u].id

Announced(u, v) ==
  /\ Nothing(outbox[u], v) /\ Nothing(outbox[v], u)
  /\ OnlyLeft(inbox[u], v)
  /\ One(inbox[v], u, Plain("joined", u))

Offered(u, v) ==
  /\ Offers(u, v)
  /\ Nothing(inbox[v], u) /\ Nothing(outbox[u], v)
  /\ \/ One(outbox[v], u, Signal("offer", u, pc[v][u].id, 0)) /\ OnlyLeft(inbox[u], v)
     \/ Nothing(outbox[v], u) /\ One(inbox[u], v, Signal("offer", v, pc[v][u].id, 0))

Answered(u, v) ==
  /\ Offers(u, v) /\ Answers(u, v)
  /\ Nothing(outbox[v], u) /\ Nothing(inbox[u], v)
  /\ \/ One(outbox[u], v, Signal("answer", v, pc[u][v].id, pc[v][u].id)) /\ Nothing(inbox[v], u)
     \/ /\ Nothing(outbox[u], v) /\ NoLeft(inbox[v], u)
        /\ One(inbox[v], u, Signal("answer", u, pc[u][v].id, pc[v][u].id))

Agreed(u, v) ==
  /\ Answers(u, v)
  /\ pc[v][u].local = "offer"
  /\ pc[v][u].remote = [by |-> pc[u][v].id, to |-> pc[v][u].id]
  /\ Nothing(outbox[u], v) /\ Nothing(outbox[v], u)
  /\ Nothing(inbox[u], v) /\ Nothing(inbox[v], u)

Handshake(u, v) == Announced(u, v) \/ Offered(u, v) \/ Answered(u, v) \/ Agreed(u, v)

Meshed(u, v) == Within(u) /\ Within(v) /\ Uncrossed(u, v) => Handshake(u, v) \/ Handshake(v, u)

VideoInv ==
  /\ VideoTypes
  /\ \A u \in Account : Sound(u) /\ Lined(u)
  /\ \A u, v \in Account : u # v => Clear(u, v) /\ Knows(u, v) /\ Hears(u, v) /\ Meshed(u, v)

-----------------------------------------------------------------------------
(* A queue p holds what q held of w.                                       *)
Alike(q, p, w) ==
  /\ Nothing(q, w) => Nothing(p, w)
  /\ OnlyLeft(q, w) => OnlyLeft(p, w)
  /\ NoLeft(q, w) => NoLeft(p, w)
  /\ \A m : One(q, w, m) /\ m.who = w /\ m.kind # "left" => One(p, w, m)

(* What is appended or taken of others leaves the queue alike for w.       *)
LEMMA AlikeFacts ==
  /\ \A q, w : Alike(q, q, w)
  /\ \A q \in Seq(Mail), m \in Mail : \A w : m.who # w => Alike(q, Append(q, m), w)
  /\ \A q \in Seq(Mail) : \A w :
       q # << >> /\ (Head(q).who = w => Head(q).kind = "left") => Alike(q, Tail(q), w)
<1>1. \A q, w : Alike(q, q, w)
  BY DEF Alike
<1>2. \A q \in Seq(Mail), m \in Mail : \A w : m.who # w => Alike(q, Append(q, m), w)
  BY AppendOthers DEF Alike
<1>3. ASSUME NEW q \in Seq(Mail), NEW w, q # << >>, Head(q).who = w => Head(q).kind = "left"
      PROVE  Alike(q, Tail(q), w)
  <2>1. ASSUME NEW m, One(q, w, m), m.who = w, m.kind # "left"
        PROVE  One(Tail(q), w, m)
    <3>1. Head(q) # m
      BY <1>3, <2>1
    <3> QED
      BY <1>3, <2>1, <3>1, TailHolds
  <2>2. /\ Nothing(q, w) => Nothing(Tail(q), w)
        /\ OnlyLeft(q, w) => OnlyLeft(Tail(q), w)
        /\ NoLeft(q, w) => NoLeft(Tail(q), w)
    BY <1>3, TailHolds
  <2> QED
    BY <2>1, <2>2 DEF Alike
<1> QED
  BY <1>1, <1>2, <1>3

(* The messages are messages and say what they say.                        *)
LEMMA MessageFacts ==
  ASSUME NEW v \in Account
  PROVE  /\ \A k : Plain(k, v).kind = k /\ Plain(k, v).who = v
         /\ \A k : Plain(k, None).kind = k /\ Plain(k, None).who = None
         /\ \A k, by, to : LET m == Signal(k, v, by, to) IN
              m.kind = k /\ m.who = v /\ m.desc = [by |-> by, to |-> to]
         /\ None # v
         /\ \A k \in {"join", "leave", "off", "full"} : Plain(k, None) \in Mail
         /\ \A k \in {"joined", "left"} : Plain(k, v) \in Mail
         /\ \A k \in {"offer", "answer"} : \A by, to \in Nat : Signal(k, v, by, to) \in Mail
<1>1. Unknown \in Description
  BY DEF Unknown, Description
<1>2. /\ \A k \in {"join", "leave", "off", "full"} : Plain(k, None) \in Mail
      /\ \A k \in {"joined", "left"} : Plain(k, v) \in Mail
  BY <1>1, VideoAssumptions DEF Plain, Mail, Message
<1>3. \A k \in {"offer", "answer"} : \A by, to \in Nat : Signal(k, v, by, to) \in Mail
  BY DEF Signal, Plain, Mail, Message, Description
<1>4. \A k, by, to : LET m == Signal(k, v, by, to) IN
        m.kind = k /\ m.who = v /\ m.desc = [by |-> by, to |-> to]
  BY DEF Signal, Plain
<1> QED
  BY <1>2, <1>3, <1>4, VideoAssumptions DEF Plain

LEMMA SignalFields ==
  \A k, v, by, to :
    /\ Signal(k, v, by, to) = [kind |-> k, who |-> v, peers |-> {}, desc |-> [by |-> by, to |-> to]]
    /\ Signal(k, v, by, to).kind = k
    /\ Signal(k, v, by, to).who = v
    /\ Signal(k, v, by, to).desc = [by |-> by, to |-> to]
<1> QED
  BY DEF Signal, Plain

(* A negotiation stays where it is if nothing of it is touched.            *)
LEMMA HandshakeKept ==
  ASSUME NEW u \in Account, NEW v \in Account,
         pc'[u][v] = pc[u][v] \/ pc[u][v] = NoPc, pc'[v][u] = pc[v][u] \/ pc[v][u] = NoPc,
         Alike(outbox[u], outbox'[u], v), Alike(outbox[v], outbox'[v], u),
         Alike(inbox[u], inbox'[u], v), Alike(inbox[v], inbox'[v], u),
         Handshake(u, v)
  PROVE  Handshake(u, v)'
<1>1. /\ Plain("joined", u).who = u /\ Plain("joined", u).kind # "left"
      /\ \A by, to : Signal("offer", u, by, to).who = u /\ Signal("offer", u, by, to).kind # "left"
      /\ \A by, to : Signal("offer", v, by, to).who = v /\ Signal("offer", v, by, to).kind # "left"
      /\ \A by, to : Signal("answer", u, by, to).who = u /\ Signal("answer", u, by, to).kind # "left"
      /\ \A by, to : Signal("answer", v, by, to).who = v /\ Signal("answer", v, by, to).kind # "left"
  BY DEF Signal, Plain
<1>2. Announced(u, v) => Announced(u, v)'
  BY <1>1 DEF Announced, Alike
<1>3. /\ Offers(u, v) \/ pc[v][u].local = "offer" => pc'[v][u] = pc[v][u]
      /\ Answers(u, v) => pc'[u][v] = pc[u][v]
  BY DEF Offers, Answers, NoPc
<1>4. Offered(u, v) => Offered(u, v)'
  BY <1>1, <1>3 DEF Offered, Alike, Offers
<1>5. Answered(u, v) => Answered(u, v)'
  BY <1>1, <1>3 DEF Answered, Alike, Offers, Answers
<1>6. Agreed(u, v) => Agreed(u, v)'
  BY <1>3 DEF Agreed, Alike, Answers
<1> QED
  BY <1>2, <1>4, <1>5, <1>6 DEF Handshake

(* What a step of page u, or of the server for it, leaves alone.           *)
OnlyOf(u) ==
  /\ joins <= joins'
  /\ \A w \in Account \ {u} :
       /\ page'[w] = page[w] /\ camera'[w] = camera[w] /\ pc'[w] = pc[w]
       /\ outbox'[w] = outbox[w] /\ entry'[w] = entry[w]
       /\ (w \in channel' <=> w \in channel) /\ (w \in closing' <=> w \in closing)
       /\ w \in astray' <=> w \in astray
       /\ \/ inbox'[w] = inbox[w]
          \/ \E m \in Mail : /\ inbox'[w] = Append(inbox[w], m)
                             /\ m.who = u /\ m.kind \notin {"peers", "full"}
       /\ \A v \in Account \ {u} : <<w, v>> \in crossed' <=> <<w, v>> \in crossed
       /\ <<w, u>> \in crossed => <<w, u>> \in crossed'

(* Who is not concerned keeps the invariant; what is left is to show for u.*)
LEMMA OthersKeep ==
  ASSUME VideoInv, NEW u \in Account, OnlyOf(u), VideoTypes', Sound(u)', Lined(u)',
         \A v \in Account \ {u} : /\ Clear(u, v)' /\ Knows(u, v)' /\ Knows(v, u)'
                                  /\ Hears(u, v)' /\ Hears(v, u)' /\ Meshed(u, v)'
  PROVE  VideoInv'
<1>1. ASSUME NEW w \in Account \ {u}
      PROVE  /\ page'[w] = page[w] /\ camera'[w] = camera[w] /\ pc'[w] = pc[w]
             /\ outbox'[w] = outbox[w] /\ entry'[w] = entry[w]
             /\ (w \in channel' <=> w \in channel) /\ (w \in closing' <=> w \in closing)
             /\ w \in astray' <=> w \in astray
             /\ \/ inbox'[w] = inbox[w]
                \/ \E m \in Mail : /\ inbox'[w] = Append(inbox[w], m)
                                   /\ m.who = u /\ m.kind \notin {"peers", "full"}
             /\ \A v \in Account \ {u} : <<w, v>> \in crossed' <=> <<w, v>> \in crossed
             /\ <<w, u>> \in crossed => <<w, u>> \in crossed'
  BY <1>1 DEF OnlyOf
<1>2. ASSUME NEW w \in Account \ {u}
      PROVE  /\ Has(inbox[w], "full")' <=> Has(inbox[w], "full")
             /\ Has(inbox[w], "peers")' <=> Has(inbox[w], "peers")
             /\ \A v \in Account \ {u} :
                  /\ Alike(inbox[w], inbox'[w], v)
                  /\ Reports(inbox[w], Live(v), v) => Reports(inbox'[w], Live(v), v)
                  /\ KnownBehind(inbox[w], Live(v), v, 0) => KnownBehind(inbox'[w], Live(v), v, 0)
                  /\ Followed(inbox[w], v) => Followed(inbox'[w], v)
                  /\ HasJoined(inbox[w], v) => HasJoined(inbox'[w], v)
  <2>1. CASE inbox'[w] = inbox[w]
    BY <2>1, AlikeFacts
  <2>2. CASE inbox'[w] # inbox[w]
    <3>1. PICK m \in Mail : /\ inbox'[w] = Append(inbox[w], m)
                            /\ m.who = u /\ m.kind \notin {"peers", "full"}
      BY <1>1, <2>2
    <3>2. PICK q \in Seq(Mail) : q = inbox[w]
      BY DEF VideoInv, VideoTypes
    <3>3. /\ Has(Append(q, m), "full") <=> Has(q, "full")
          /\ Has(Append(q, m), "peers") <=> Has(q, "peers")
          /\ \A v : HasJoined(q, v) => HasJoined(Append(q, m), v)
      BY <3>1, AppendOwn
    <3>4. ASSUME NEW v \in Account \ {u}
          PROVE  /\ Alike(q, Append(q, m), v)
                 /\ Reports(q, Live(v), v) => Reports(Append(q, m), Live(v), v)
                 /\ KnownBehind(q, Live(v), v, 0) => KnownBehind(Append(q, m), Live(v), v, 0)
                 /\ Followed(q, v) => Followed(Append(q, m), v)
      <4>1. m.who # v /\ ~IsLeft(m, v) /\ ~Brings(m, v) /\ Live(v) \in BOOLEAN
        BY <3>1 DEF IsLeft, Brings, Live
      <4> QED
        BY <4>1, AlikeFacts, AppendReports, AppendFollowed
    <3> QED
      BY <3>1, <3>2, <3>3, <3>4
  <2> QED
    BY <2>1, <2>2
<1>3. ASSUME NEW w \in Account \ {u}
      PROVE  /\ Sane(w)' <=> Sane(w)
             /\ Within(w)' <=> Within(w)
             /\ Live(w)' <=> Live(w)
             /\ Asks(w)' <=> Asks(w)
  BY <1>1, <1>2 DEF Sane, Within, Live, Asks
<1>4. ASSUME NEW w \in Account \ {u}
      PROVE  Sound(w)' /\ Lined(w)'
  <2>1. Sound(w) /\ Lined(w)
    BY DEF VideoInv
  <2>2. Sound(w)'
    <3>1. joins <= joins' /\ joins \in Int /\ joins' \in Int /\ page[w] \in Page
      BY DEF OnlyOf, VideoInv, VideoTypes
    <3>2. page[w].prompts + page[w].stale \in Int
      BY <3>1, VideoAssumptions DEF Page
    <3>3. page[w].prompts + page[w].stale <= joins'
      BY <2>1, <3>1, <3>2 DEF Sound
    <3>4. /\ page'[w] = page[w] /\ camera'[w] = camera[w] /\ pc'[w] = pc[w] /\ entry'[w] = entry[w]
          /\ (w \in closing' <=> w \in closing) /\ (w \in astray' <=> w \in astray)
      BY <1>1
    <3> QED
      BY ONLY <2>1, <3>3, <3>4 DEF Sound
  <2>3. Lined(w)'
    BY <1>1, <1>3, <2>1 DEF Lined, Live
  <2> QED
    BY <2>2, <2>3
<1>5. ASSUME NEW w \in Account \ {u}, NEW v \in Account \ {u}, w # v
      PROVE  Clear(w, v)' /\ Knows(w, v)' /\ Hears(w, v)' /\ Meshed(w, v)'
  <2>1. Clear(w, v) /\ Knows(w, v) /\ Hears(w, v) /\ Meshed(w, v)
    BY <1>5 DEF VideoInv
  <2>2. Clear(w, v)'
    BY <1>1, <1>3, <2>1 DEF Clear
  <2>3. Knows(w, v)'
    <3>1. (Reports(inbox[w], Live(v), v) => Reports(inbox[w], Live(v), v)')
          /\ (KnownBehind(inbox[w], Live(v), v, 0) => KnownBehind(inbox[w], Live(v), v, 0)')
      BY <1>2, <1>3 DEF Reports, KnownBehind
    <3> QED
      BY <1>1, <1>3, <2>1, <3>1 DEF Knows
  <2>4. Hears(w, v)'
    BY <1>1, <1>2, <1>3, <2>1 DEF Hears
  <2>5. Meshed(w, v)'
    <3> SUFFICES ASSUME Within(w), Within(v), Uncrossed(w, v)
                 PROVE  (Handshake(w, v) \/ Handshake(v, w))'
      BY <1>1, <1>3 DEF Meshed, Uncrossed
    <3>1. Handshake(w, v) \/ Handshake(v, w)
      BY <2>1 DEF Meshed
    <3>2. /\ pc'[w][v] = pc[w][v] /\ pc'[v][w] = pc[v][w]
          /\ Alike(outbox[w], outbox'[w], v) /\ Alike(outbox[v], outbox'[v], w)
          /\ Alike(inbox[w], inbox'[w], v) /\ Alike(inbox[v], inbox'[v], w)
      BY <1>1, <1>2, AlikeFacts
    <3> QED
      BY <3>1, <3>2, HandshakeKept
  <2> QED
    BY <2>2, <2>3, <2>4, <2>5
<1>6. ASSUME NEW v \in Account \ {u}
      PROVE  Clear(v, u)' /\ Meshed(v, u)'
  <2>1. Clear(v, u)
    BY DEF VideoInv
  <2>2. Clear(v, u)'
    BY <1>1, <1>3, <2>1 DEF Clear
  <2>3. Meshed(v, u)'
    BY DEF Meshed, Uncrossed
  <2> QED
    BY <2>2, <2>3
<1>7. ASSUME NEW w \in Account, NEW v \in Account, w # v
      PROVE  (Clear(w, v) /\ Knows(w, v) /\ Hears(w, v) /\ Meshed(w, v))'
  <2>1. CASE w = u
    BY <1>7, <2>1
  <2>2. CASE v = u
    BY <1>6, <1>7, <2>2
  <2> QED
    BY <1>5, <1>7, <2>1, <2>2
<1>8. \A w \in Account : Sound(w)' /\ Lined(w)'
  BY <1>4
<1> QED
  BY <1>7, <1>8 DEF VideoInv

(* A step that only changes what a page asks of its user, or has rendered. *)
LEMMA PageKeeps ==
  ASSUME VideoInv, UNCHANGED <<camera, pc, made, outbox, inbox, entry, channel, closing, astray, crossed>>,
         \A w \in Account : page'[w].inCall = page[w].inCall,
         VideoTypes', \A w \in Account : Sound(w)'
  PROVE  VideoInv'
<1>1. ASSUME NEW w \in Account
      PROVE  /\ Lined(w)'
             /\ \A v \in Account : w # v => (Clear(w, v) /\ Knows(w, v) /\ Hears(w, v) /\ Meshed(w, v))'
  <2>1. /\ Sane(w)' <=> Sane(w)
        /\ \A v \in Account : (Within(v)' <=> Within(v)) /\ (Sane(v)' <=> Sane(v))
        /\ Asks(w)' <=> Asks(w)
    BY DEF Sane, Within, Asks
  <2>2. Lined(w)'
    BY <2>1 DEF VideoInv, Lined, Live
  <2>3. ASSUME NEW v \in Account, w # v
        PROVE  (Clear(w, v) /\ Knows(w, v) /\ Hears(w, v) /\ Meshed(w, v))'
    <3>1. Clear(w, v)' /\ Hears(w, v)'
      BY <2>1, <2>3 DEF VideoInv, Clear, Hears
    <3>2. Knows(w, v)'
      BY <2>1, <2>3 DEF VideoInv, Knows, Live, KnownBehind, Reports
    <3>3. Meshed(w, v)'
      <4>1. Handshake(w, v)' = Handshake(w, v) /\ Handshake(v, w)' = Handshake(v, w)
        BY DEF Handshake, Announced, Offered, Answered, Agreed, Offers, Answers
      <4> QED
        BY <2>1, <2>3, <4>1 DEF VideoInv, Meshed, Uncrossed
    <3> QED
      BY <3>1, <3>2, <3>3
  <2> QED
    BY <2>2, <2>3
<1> QED
  BY <1>1 DEF VideoInv

(* A page that a hazard has struck or is about to strike; and one that is  *)
(* not in the call.                                                        *)
LEMMA StruckKeeps ==
  ASSUME VideoInv, NEW u \in Account, OnlyOf(u), VideoTypes', Sound(u)', ~Sane(u)'
  PROVE  VideoInv'
<1>1. ~Within(u)'
  BY DEF Within
<1> QED
  BY <1>1, OthersKeep DEF Lined, Clear, Knows, Hears, Meshed

LEMMA AstrayKeeps ==
  ASSUME VideoInv, NEW u \in Account, OnlyOf(u), VideoTypes', Sound(u)', u \in astray'
  PROVE  VideoInv'
<1> QED
  BY StruckKeeps DEF Sane

LEMMA OutsideKeeps ==
  ASSUME VideoInv, NEW u \in Account, OnlyOf(u), VideoTypes', Sound(u)', Lined(u)', ~Within(u)',
         \A v \in Account \ {u} : Clear(u, v)' /\ Knows(v, u)'
  PROVE  VideoInv'
<1>1. \A v \in Account \ {u} : Knows(u, v)' /\ Hears(u, v)' /\ Hears(v, u)' /\ Meshed(u, v)'
  BY DEF Knows, Hears, Meshed
<1> QED
  BY <1>1, OthersKeep

(* Who is told nothing still knows.                                        *)
LEMMA UntoldKnow ==
  ASSUME VideoInv, NEW u \in Account, OnlyOf(u), entry'[u] = entry[u],
         \A w \in Account \ {u} : inbox'[w] = inbox[w],
         Sane(u)' => Sane(u)
  PROVE  \A v \in Account \ {u} : Knows(v, u)'
<1> SUFFICES ASSUME NEW v \in Account \ {u}, Within(v)', Sane(u)'
             PROVE  /\ <<v, u>> \notin crossed' /\ pc'[v][u] # NoPc
                         => KnownBehind(inbox'[v], entry'[u] = "live", u, 0)
                    /\ Reports(inbox'[v], entry'[u] = "live", u)
  BY DEF Knows, Live
<1>1. /\ page'[v] = page[v] /\ pc'[v] = pc[v] /\ outbox'[v] = outbox[v] /\ inbox'[v] = inbox[v]
      /\ (v \in astray' <=> v \in astray)
      /\ (<<v, u>> \in crossed => <<v, u>> \in crossed')
  BY DEF OnlyOf
<1>2. Within(v) /\ Sane(u)
  BY <1>1 DEF Within, Sane
<1>3. Knows(v, u)
  BY DEF VideoInv
<1> QED
  BY <1>1, <1>2, <1>3 DEF Knows, Live

-----------------------------------------------------------------------------
(* The page.                                                               *)
LEMMA Typed ==
  ASSUME VideoInv
  PROVE  /\ page \in [Account -> Page] /\ camera \in [Account -> Camera]
         /\ pc \in [Account -> [Account -> PeerConnection]]
         /\ made \in [Account -> [Account -> Nat]]
         /\ outbox \in [Account -> Seq(Mail)] /\ inbox \in [Account -> Seq(Mail)]
         /\ entry \in [Account -> {"none", "live", "dead"}]
         /\ channel \subseteq Account /\ closing \subseteq Account
         /\ joins \in 0..MaxJoins /\ turns \in 0..MaxTurns
         /\ MaxJoins \in Nat /\ MaxTurns \in Nat
         /\ joins \in Int /\ turns \in Int
<1>1. joins \in 0..MaxJoins /\ turns \in 0..MaxTurns /\ MaxJoins \in Nat /\ MaxTurns \in Nat
  BY VideoAssumptions DEF VideoInv, VideoTypes
<1> QED
  BY <1>1 DEF VideoInv, VideoTypes

LEMMA PageTyped ==
  ASSUME VideoInv, NEW u \in Account
  PROVE  LET p == page[u] IN
         /\ p.inCall \in BOOLEAN /\ p.seen \in BOOLEAN
         /\ p.prompts \in 0..MaxJoins /\ p.stale \in 0..MaxJoins
         /\ p.prompts \in Int /\ p.stale \in Int
         /\ p.prompts + p.stale <= joins
         /\ p = [inCall |-> p.inCall, seen |-> p.seen, prompts |-> p.prompts, stale |-> p.stale]
<1>1. page[u] \in Page /\ MaxJoins \in Nat
  BY Typed
<1>2. page[u].prompts + page[u].stale <= joins
  BY DEF VideoInv, Sound
<1> QED
  BY <1>1, <1>2 DEF Page

LEMMA ClickJoinKeeps ==
  ASSUME VideoInv, NEW u \in Account, ClickJoin(u)
  PROVE  VideoInv'
<1>1. /\ joins < MaxJoins /\ joins' = joins + 1
      /\ page' = [page EXCEPT ![u].prompts = @ + 1]
      /\ UNCHANGED <<camera, pc, made, outbox, inbox, entry, channel, closing, turns, astray, crossed>>
  BY DEF ClickJoin, server
<1>2. PICK p : p = page[u]
  OBVIOUS
<1>3. PICK r : r = [page[u] EXCEPT !.prompts = page[u].prompts + 1]
  OBVIOUS
<1>4. r \in Page /\ r.inCall = p.inCall /\ r.seen = p.seen /\ r.prompts + r.stale <= joins'
  <2>1. p \in Page
    BY <1>2, Typed
  <2>2. r = [p EXCEPT !.prompts = p.prompts + 1]
    BY <1>2, <1>3
  <2>3. /\ p.prompts + 1 \in 0..MaxJoins
        /\ (p.prompts + 1) + p.stale <= joins'
    BY <1>1, <1>2, PageTyped, Typed
  <2> QED
    BY ONLY <2>1, <2>2, <2>3 DEF Page
<1>5. page' = [page EXCEPT ![u] = r]
  BY <1>1, <1>3
<1>6. VideoTypes' /\ joins <= joins' /\ joins' \in Int
  <2>1. page' \in [Account -> Page]
    BY <1>4, <1>5, Typed
  <2>2. joins' \in 0..MaxJoins /\ joins <= joins' /\ joins' \in Int
    BY <1>1, Typed
  <2> QED
    BY <1>1, <2>1, <2>2 DEF VideoInv, VideoTypes
<1>7. ASSUME NEW w \in Account
      PROVE  Sound(w)' /\ page'[w].inCall = page[w].inCall
  <2>1. Sound(w)
    BY DEF VideoInv
  <2>2. page'[w].inCall = page[w].inCall /\ page'[w].seen = page[w].seen
    BY <1>2, <1>4, <1>5, Typed
  <2>3. page'[w].prompts + page'[w].stale <= joins'
    <3>1. CASE w = u
      BY <1>4, <1>5, <3>1, Typed
    <3>2. CASE w # u
      <4>1. page'[w] = page[w]
        BY <1>5, <3>2, Typed
      <4> QED
        BY <1>6, <4>1, Typed, PageTyped
    <3> QED
      BY <3>1, <3>2
  <2> QED
    BY <1>1, <2>1, <2>2, <2>3 DEF Sound
<1> QED
  BY <1>1, <1>6, <1>7, PageKeeps

LEMMA DeniedKeeps ==
  ASSUME VideoInv, NEW u \in Account, Denied(u)
  PROVE  VideoInv'
<1>1. /\ \/ page[u].prompts > 0 /\ page' = [page EXCEPT ![u].prompts = @ - 1]
         \/ page[u].stale > 0 /\ page' = [page EXCEPT ![u].stale = @ - 1]
      /\ UNCHANGED <<camera, pc, made, outbox, inbox, entry, channel, closing, joins, turns, astray, crossed>>
  BY DEF Denied, server
<1>2. PICK p : p = page[u]
  OBVIOUS
<1>3. PICK r : /\ r \in {[inCall |-> p.inCall, seen |-> p.seen, prompts |-> p.prompts - 1, stale |-> p.stale],
                         [inCall |-> p.inCall, seen |-> p.seen, prompts |-> p.prompts, stale |-> p.stale - 1]}
               /\ r.prompts >= 0 /\ r.stale >= 0
               /\ page' = [page EXCEPT ![u] = r]
  BY <1>1, <1>2, PageTyped, Typed
<1>4. r \in Page /\ r.inCall = p.inCall /\ r.seen = p.seen /\ r.prompts + r.stale <= joins
  BY <1>2, <1>3, PageTyped, Typed DEF Page
<1>6. VideoTypes'
  <2>1. page' \in [Account -> Page]
    BY <1>3, <1>4, Typed
  <2> QED
    BY <1>1, <2>1 DEF VideoInv, VideoTypes
<1>7. ASSUME NEW w \in Account
      PROVE  Sound(w)' /\ page'[w].inCall = page[w].inCall
  <2>1. Sound(w)
    BY DEF VideoInv
  <2>2. page'[w].inCall = page[w].inCall /\ page'[w].seen = page[w].seen
    BY <1>2, <1>3, <1>4, Typed
  <2>3. page'[w].prompts + page'[w].stale <= joins'
    BY <1>1, <1>2, <1>3, <1>4, Typed, PageTyped
  <2> QED
    BY <1>1, <2>1, <2>2, <2>3 DEF Sound
<1> QED
  BY <1>1, <1>6, <1>7, PageKeeps

LEMMA RenderKeeps ==
  ASSUME VideoInv, NEW u \in Account, Render(u)
  PROVE  VideoInv'
<1>1. /\ page' = [page EXCEPT ![u].seen = page[u].inCall]
      /\ UNCHANGED <<camera, pc, made, outbox, inbox, entry, channel, closing, joins, turns, astray, crossed>>
  BY DEF Render, server
<1>2. PICK p : p = page[u]
  OBVIOUS
<1>3. PICK r : r = [page[u] EXCEPT !.seen = page[u].inCall]
  OBVIOUS
<1>4. r \in Page /\ r.inCall = p.inCall /\ r.seen = p.inCall /\ r.prompts + r.stale <= joins
  BY <1>2, <1>3, PageTyped, Typed DEF Page
<1>5. page' = [page EXCEPT ![u] = r]
  BY <1>1, <1>3
<1>6. VideoTypes'
  <2>1. page' \in [Account -> Page]
    BY <1>4, <1>5, Typed
  <2> QED
    BY <1>1, <2>1 DEF VideoInv, VideoTypes
<1>7. ASSUME NEW w \in Account
      PROVE  Sound(w)' /\ page'[w].inCall = page[w].inCall
  <2>1. Sound(w)
    BY DEF VideoInv
  <2>2. page'[w].inCall = page[w].inCall /\ (page'[w].seen = page[w].seen \/ page'[w].seen = page[w].inCall)
    BY <1>2, <1>4, <1>5, Typed
  <2>3. page'[w].prompts + page'[w].stale <= joins'
    BY <1>1, <1>2, <1>4, <1>5, Typed, PageTyped
  <2> QED
    BY <1>1, <2>1, <2>2, <2>3 DEF Sound
<1> QED
  BY <1>1, <1>6, <1>7, PageKeeps

(* What a page sends is the last of what it has sent.                      *)
LEMMA EmitFacts ==
  ASSUME VideoInv, NEW u \in Account, NEW m \in Mail, Emit(u, <<m>>)
  PROVE  /\ outbox'[u] = Append(outbox[u], m) /\ outbox' \in [Account -> Seq(Mail)]
         /\ \A w \in Account \ {u} : outbox'[w] = outbox[w]
<1>1. PICK q \in Seq(Mail) : q = outbox[u]
  BY Typed
<1>2. q \o <<m>> = Append(q, m) /\ Append(q, m) \in Seq(Mail)
  OBVIOUS
<1>3. outbox' = [outbox EXCEPT ![u] = Append(q, m)]
  BY <1>1, <1>2 DEF Emit
<1> QED
  BY <1>1, <1>2, <1>3, Typed

LEMMA GrantedLateKeeps ==
  ASSUME VideoInv, NEW u \in Account, GrantedLate(u)
  PROVE  VideoInv'
<1>1. /\ page[u].stale > 0 /\ page' = [page EXCEPT ![u].stale = @ - 1]
      /\ camera' = [camera EXCEPT ![u].left = TRUE]
      /\ Emit(u, <<Plain("join", None)>>)
      /\ astray' = astray \cup {u}
      /\ UNCHANGED <<pc, made, inbox, entry, channel, closing, joins, turns, crossed>>
  BY DEF GrantedLate, server
<1>2. PICK p : p = page[u]
  OBVIOUS
<1>3. PICK r : r = [page[u] EXCEPT !.stale = page[u].stale - 1]
  OBVIOUS
<1>4. r \in Page /\ r.prompts + r.stale <= joins
  <2>1. p \in Page
    BY <1>2, Typed
  <2>2. r = [p EXCEPT !.stale = p.stale - 1]
    BY <1>2, <1>3
  <2>3. /\ p.stale - 1 \in 0..MaxJoins
        /\ p.prompts + (p.stale - 1) <= joins
    BY <1>1, <1>2, PageTyped, Typed
  <2> QED
    BY ONLY <2>1, <2>2, <2>3 DEF Page
<1>5. page' = [page EXCEPT ![u] = r]
  BY <1>1, <1>3
<1>6. /\ outbox' \in [Account -> Seq(Mail)]
      /\ \A w \in Account \ {u} : outbox'[w] = outbox[w]
  BY <1>1, EmitFacts, MessageFacts
<1>7. camera' \in [Account -> Camera]
  BY <1>1, Typed DEF Camera
<1>8. VideoTypes'
  <2>1. page' \in [Account -> Page]
    BY <1>4, <1>5, Typed
  <2> QED
    BY <1>1, <1>6, <1>7, <2>1 DEF VideoInv, VideoTypes
<1>9. OnlyOf(u)
  BY <1>1, <1>5, <1>6, Typed DEF OnlyOf
<1>10. Sound(u)'
  <2>1. page'[u] = r
    BY <1>5, Typed
  <2> QED
    BY <1>1, <1>4, <2>1 DEF Sound
<1> QED
  BY <1>1, <1>8, <1>9, <1>10, AstrayKeeps

LEMMA GrantedKeeps ==
  ASSUME VideoInv, NEW u \in Account, Granted(u)
  PROVE  VideoInv'
<1>1. /\ page[u].prompts > 0
      /\ page' = [page EXCEPT ![u].prompts = @ - 1, ![u].inCall = TRUE]
      /\ camera' = [camera EXCEPT ![u] = [held |-> TRUE, left |-> camera[u].left \/ camera[u].held]]
      /\ Emit(u, <<Plain("join", None)>>)
      /\ astray' = IF camera[u].held THEN astray \cup {u} ELSE astray
      /\ UNCHANGED <<pc, made, inbox, entry, channel, closing, joins, turns, crossed>>
  BY DEF Granted, server
<1>2. PICK p \in Page : p = page[u]
  BY Typed
<1>3. PICK n \in 0..MaxJoins : n = p.prompts - 1 /\ n + p.stale <= joins
  BY <1>1, <1>2, PageTyped, Typed
<1>4. PICK r \in Page : /\ r = [[p EXCEPT !.prompts = n] EXCEPT !.inCall = TRUE]
                        /\ r.inCall = TRUE /\ r.prompts + r.stale <= joins
  <2>1. PICK x : x = [p EXCEPT !.prompts = n]
    OBVIOUS
  <2>2. x \in Page /\ x.prompts = n /\ x.stale = p.stale
    BY <1>3, <2>1 DEF Page
  <2>3. PICK y : y = [x EXCEPT !.inCall = TRUE]
    OBVIOUS
  <2>4. y \in Page /\ y.prompts = n /\ y.stale = p.stale /\ y.inCall = TRUE
    BY <2>2, <2>3 DEF Page
  <2> QED
    BY <1>3, <2>1, <2>3, <2>4
<1>5. page'[u] = r /\ page' \in [Account -> Page] /\ \A w \in Account \ {u} : page'[w] = page[w]
  <2>1. page' = [page EXCEPT ![u] = [[page[u] EXCEPT !.prompts = page[u].prompts - 1] EXCEPT !.inCall = TRUE]]
    BY <1>1, Typed
  <2>2. page' = [page EXCEPT ![u] = r]
    BY <1>2, <1>3, <1>4, <2>1
  <2> QED
    BY <2>2, Typed
<1>6. PICK m \in Mail : m = Plain("join", None) /\ m.kind = "join"
  BY MessageFacts
<1>7. /\ outbox'[u] = Append(outbox[u], m) /\ outbox' \in [Account -> Seq(Mail)]
      /\ \A w \in Account \ {u} : outbox'[w] = outbox[w]
  BY <1>1, <1>6, EmitFacts
<1>8. /\ camera'[u].held /\ (camera'[u].left => camera[u].left \/ camera[u].held)
      /\ camera' \in [Account -> Camera]
      /\ \A w \in Account \ {u} : camera'[w] = camera[w]
  <2>1. PICK left \in BOOLEAN : left = (camera[u].left \/ camera[u].held)
    OBVIOUS
  <2>2. PICK k : k = [held |-> TRUE, left |-> left]
    OBVIOUS
  <2>3. k \in Camera /\ k.held /\ k.left = left
    BY <2>2 DEF Camera
  <2>4. camera' = [camera EXCEPT ![u] = k]
    BY <1>1, <2>1, <2>2
  <2> QED
    BY <2>1, <2>3, <2>4, Typed
<1>9. VideoTypes'
  BY <1>1, <1>5, <1>7, <1>8 DEF VideoInv, VideoTypes
<1>10. OnlyOf(u)
  BY <1>1, <1>5, <1>7, <1>8, Typed DEF OnlyOf
<1>11. CASE u \in astray'
  <2>1. Sound(u)'
    BY <1>1, <1>4, <1>5, <1>11 DEF Sound
  <2> QED
    BY <1>9, <1>10, <1>11, <2>1, AstrayKeeps
<1>12. CASE u \notin astray'
  <2>1. u \notin astray /\ ~camera[u].held
    BY <1>1, <1>12
  <2>2. /\ (camera[u].held <=> page[u].inCall) /\ ~camera[u].left
        /\ (~page[u].inCall => \A v \in Account : pc[u][v] = NoPc)
        /\ ~(u \in closing \/ entry[u] = "dead")
    BY <2>1 DEF VideoInv, Sound
  <2>3. ~page[u].inCall /\ camera'[u].held /\ ~camera'[u].left
    BY <1>8, <2>1, <2>2
  <2>4. Sound(u)'
    BY <1>1, <1>4, <1>5, <2>2, <2>3 DEF Sound
  <2>5. Sane(u)' <=> Sane(u)
    BY <1>1, <2>1 DEF Sane
  <2>6. Lined(u)'
    <3> SUFFICES ASSUME Sane(u)
                 PROVE  /\ InOrder(outbox'[u], entry'[u] = "live", page'[u].inCall)
                        /\ entry'[u] = "live" => u \in channel'
      BY <2>5 DEF Lined, Live
    <3>1. InOrder(outbox[u], entry[u] = "live", page[u].inCall) /\ (entry[u] = "live" => u \in channel)
      BY DEF VideoInv, Lined, Live
    <3>2. page[u].inCall = FALSE /\ outbox[u] \in Seq(Mail) /\ (entry[u] = "live") \in BOOLEAN
      BY <2>3, PageTyped, Typed
    <3>3. InOrder(Append(outbox[u], m), entry[u] = "live", TRUE)
      BY <1>6, <3>1, <3>2, OrderAppend
    <3> QED
      BY <1>1, <1>4, <1>5, <1>7, <3>1, <3>3
  <2>7. ~Within(u)'
    <3>1. Has(Append(outbox[u], m), "join")
      BY <1>6, AppendOwn, Typed
    <3> QED
      BY <1>7, <3>1 DEF Within
  <2>8. \A v \in Account \ {u} : Clear(u, v)' /\ Knows(v, u)'
    BY <1>1, <1>10, <2>2, <2>3, <2>5, UntoldKnow DEF Clear
  <2> QED
    BY <1>9, <1>10, <2>4, <2>6, <2>7, <2>8, OutsideKeeps
<1> QED
  BY <1>11, <1>12

(* A page that goes: it leaves the call if it is in it, and then perhaps   *)
(* the channel.                                                            *)
LEMMA GoneKeeps ==
  ASSUME VideoInv, NEW u \in Account, NEW r \in Page, NEW k \in Camera, NEW q \in Seq(Mail),
         page' = [page EXCEPT ![u] = r], ~r.inCall, ~r.seen, r.prompts + r.stale <= joins,
         camera' = [camera EXCEPT ![u] = k],
         astray' \in {astray, astray \cup {u}},
         u \notin astray' => ~k.held /\ ~k.left,
         pc' = [pc EXCEPT ![u] = [v \in Account |-> NoPc]],
         outbox' = [outbox EXCEPT ![u] = q],
         Sane(u) /\ u \notin astray' => InOrder(q, Live(u), FALSE),
         crossed' \in {crossed, {p \in crossed : p[1] # u}},
         turns' \in 0..MaxTurns,
         UNCHANGED <<made, inbox, entry, channel, closing, joins>>
  PROVE  VideoInv'
<1>1. /\ page'[u] = r /\ page' \in [Account -> Page]
      /\ camera'[u] = k /\ camera' \in [Account -> Camera]
      /\ outbox'[u] = q /\ outbox' \in [Account -> Seq(Mail)]
      /\ \A v \in Account : pc'[u][v] = NoPc
      /\ \A w \in Account \ {u} : /\ page'[w] = page[w] /\ camera'[w] = camera[w]
                                  /\ outbox'[w] = outbox[w] /\ pc'[w] = pc[w]
  BY Typed
<1>2. pc' \in [Account -> [Account -> PeerConnection]]
  <2>1. NoPc \in PeerConnection
    BY DEF NoPc, PeerConnection, Unknown, Description
  <2> QED
    BY <2>1, Typed
<1>3. VideoTypes'
  BY <1>1, <1>2 DEF VideoInv, VideoTypes
<1>4. \A w \in Account \ {u} : \A v \in Account : <<w, v>> \in crossed' <=> <<w, v>> \in crossed
  OBVIOUS
<1>5. OnlyOf(u)
  BY <1>1, <1>4, Typed DEF OnlyOf
<1>6. Sound(u)'
  <2>1. u \in closing \/ entry[u] = "dead" => u \in astray
    BY DEF VideoInv, Sound
  <2>2. r.inCall = FALSE
    BY DEF Page
  <2> QED
    BY <1>1, <2>1, <2>2 DEF Sound
<1>7. Sane(u)' => Sane(u) /\ u \notin astray'
  BY DEF Sane
<1>8. Lined(u)'
  <2>1. Sane(u) => (Live(u) => u \in channel)
    BY DEF VideoInv, Lined
  <2>2. r.inCall = FALSE
    BY DEF Page
  <2> QED
    BY <1>1, <1>7, <2>1, <2>2 DEF Lined, Live
<1>9. ~Within(u)' /\ \A v \in Account : Clear(u, v)'
  BY <1>1 DEF Within, Clear
<1> QED
  BY <1>3, <1>5, <1>6, <1>7, <1>8, <1>9, UntoldKnow, OutsideKeeps

LEMMA LeaveVideoKeeps ==
  ASSUME VideoInv, NEW u \in Account, LeaveVideo(u)
  PROVE  VideoInv'
<1>1. /\ page[u].inCall
      /\ page' = [page EXCEPT ![u].inCall = FALSE, ![u].seen = FALSE]
      /\ Emit(u, <<Plain("leave", None)>>)
      /\ pc' = [pc EXCEPT ![u] = [v \in Account |-> NoPc]]
      /\ camera' = [camera EXCEPT ![u] = [camera[u] EXCEPT !.held = FALSE]]
      /\ crossed' = {p \in crossed : p[1] # u}
      /\ UNCHANGED <<made, inbox, entry, channel, closing, joins, turns, astray>>
  BY DEF LeaveVideo, CleanupAll, Stopped, server
<1>2. PICK p \in Page : p = page[u]
  BY Typed
<1>4. PICK r \in Page : /\ r = [[p EXCEPT !.inCall = FALSE] EXCEPT !.seen = FALSE]
                        /\ ~r.inCall /\ ~r.seen /\ r.prompts + r.stale <= joins
  <2>1. PICK x : x = [p EXCEPT !.inCall = FALSE]
    OBVIOUS
  <2>2. x \in Page /\ ~x.inCall /\ x.prompts = p.prompts /\ x.stale = p.stale
    BY <2>1 DEF Page
  <2>3. PICK y : y = [x EXCEPT !.seen = FALSE]
    OBVIOUS
  <2>4. y \in Page /\ ~y.inCall /\ ~y.seen /\ y.prompts = p.prompts /\ y.stale = p.stale
    BY <2>2, <2>3 DEF Page
  <2> QED
    BY <1>2, <2>1, <2>3, <2>4, PageTyped
<1>5. page' = [page EXCEPT ![u] = r]
  <2>1. page' = [page EXCEPT ![u] = [[page[u] EXCEPT !.inCall = FALSE] EXCEPT !.seen = FALSE]]
    BY <1>1, Typed
  <2> QED
    BY <1>2, <1>4, <2>1
<1>6. PICK k \in Camera : k = [camera[u] EXCEPT !.held = FALSE]
  BY Typed DEF Camera
<1>7. u \notin astray => ~k.held /\ ~k.left
  <2>1. u \notin astray => ~camera[u].left
    BY DEF VideoInv, Sound
  <2>2. camera[u] \in Camera
    BY Typed
  <2>3. ~k.held /\ k.left = camera[u].left
    BY <1>6, <2>2 DEF Camera
  <2> QED
    BY <2>1, <2>3
<1>8. PICK m \in Mail : m = Plain("leave", None) /\ m.kind = "leave"
  BY MessageFacts
<1>9. PICK q \in Seq(Mail) : q = outbox[u]
  BY Typed
<1>10. outbox' = [outbox EXCEPT ![u] = Append(q, m)] /\ Append(q, m) \in Seq(Mail)
  <2>1. q \o <<m>> = Append(q, m) /\ Append(q, m) \in Seq(Mail)
    OBVIOUS
  <2> QED
    BY <1>1, <1>8, <1>9, <2>1 DEF Emit
<1>11. Sane(u) => InOrder(Append(q, m), Live(u), FALSE)
  <2>1. Sane(u) => InOrder(q, Live(u), page[u].inCall)
    BY <1>9 DEF VideoInv, Lined
  <2>2. page[u].inCall \in BOOLEAN /\ Live(u) \in BOOLEAN
    BY PageTyped DEF Live
  <2> QED
    BY <1>8, <2>1, <2>2, OrderAppend
<1>12. turns' \in 0..MaxTurns
  BY <1>1, Typed
<1>13. camera' = [camera EXCEPT ![u] = k]
  BY <1>1, <1>6
<1> QED
  BY <1>1, <1>4, <1>5, <1>7, <1>10, <1>11, <1>12, <1>13, GoneKeeps

LEMMA MoveKeeps ==
  ASSUME VideoInv, NEW u \in Account, Move(u)
  PROVE  VideoInv'
<1>1. /\ turns < MaxTurns /\ turns' = turns + 1
      /\ \E chat \in {<< >>, <<Plain("off", None)>>} : Emit(u, Goodbye(u) \o chat)
      /\ page' = [page EXCEPT ![u] = [Lobby EXCEPT !.stale = page[u].stale + page[u].prompts]]
      /\ UNCHANGED <<made, inbox, entry, channel, closing, joins>>
      /\ astray' \in {astray, astray \cup {u}}
      /\ u \notin astray' => page[u].seen = page[u].inCall
  BY DEF Move, Missed, server
<1>2. /\ pc' = [pc EXCEPT ![u] = [v \in Account |-> NoPc]]
      /\ crossed' \in {crossed, {p \in crossed : p[1] # u}}
  BY DEF Move, CleanupAll
<1>3. camera' = [camera EXCEPT ![u] = IF page[u].seen
                                      THEN [camera[u] EXCEPT !.held = FALSE]
                                      ELSE [held |-> FALSE, left |-> camera[u].left \/ camera[u].held]]
  BY DEF Move, CleanupAll, Stopped
<1>4. PICK k \in Camera : k = IF page[u].seen
                              THEN [camera[u] EXCEPT !.held = FALSE]
                              ELSE [held |-> FALSE, left |-> camera[u].left \/ camera[u].held]
  BY Typed DEF Camera
<1>5. u \notin astray' => ~k.held /\ ~k.left
  <2>1. u \notin astray => (camera[u].held <=> page[u].inCall) /\ ~camera[u].left
    BY DEF VideoInv, Sound
  <2>2. CASE page[u].seen
    <3>1. camera[u] \in Camera /\ k = [camera[u] EXCEPT !.held = FALSE]
      BY <1>4, <2>2, Typed
    <3>2. ~k.held /\ k.left = camera[u].left
      BY <3>1 DEF Camera
    <3> QED
      BY <1>1, <2>1, <2>2, <3>2
  <2>3. CASE ~page[u].seen
    BY <1>1, <1>4, <2>1, <2>3
  <2> QED
    BY <2>2, <2>3
<1>6. PICK r : r = [Lobby EXCEPT !.stale = page[u].stale + page[u].prompts]
  OBVIOUS
<1>7. r \in Page /\ ~r.inCall /\ ~r.seen /\ r.prompts + r.stale <= joins
  <2>1. page[u].stale + page[u].prompts \in 0..MaxJoins /\ 0 + (page[u].stale + page[u].prompts) <= joins
    BY PageTyped, Typed
  <2>2. PICK n \in 0..MaxJoins : n = page[u].stale + page[u].prompts /\ 0 + n <= joins
    BY <2>1
  <2>3. r = [inCall |-> FALSE, seen |-> FALSE, prompts |-> 0, stale |-> n]
    BY <1>6, <2>2 DEF Lobby
  <2>4. MaxJoins \in Nat
    BY Typed
  <2> QED
    BY <2>2, <2>3, <2>4 DEF Page
<1>8. PICK off \in Mail : off = Plain("off", None) /\ off.kind = "off"
  BY MessageFacts
<1>9. PICK bye \in Mail : bye = Plain("leave", None) /\ bye.kind = "leave"
  BY MessageFacts
<1>10. PICK o \in Seq(Mail) : o = outbox[u]
  BY Typed
<1>11. PICK in \in BOOLEAN : in = page[u].seen
  BY PageTyped
<1>12. PICK q \in Seq(Mail) : /\ q \in IF in THEN {Append(o, bye), Append(Append(o, bye), off)}
                                             ELSE {o, Append(o, off)}
                              /\ outbox' = [outbox EXCEPT ![u] = q]
  <2>1. PICK chat \in {<< >>, <<off>>} :
          outbox' = [outbox EXCEPT ![u] = o \o (Goodbye(u) \o chat)]
    BY <1>1, <1>8, <1>10 DEF Emit
  <2>2. Goodbye(u) = IF in THEN <<bye>> ELSE << >>
    BY <1>9, <1>11 DEF Goodbye
  <2>3. /\ o \o (<< >> \o << >>) = o
        /\ o \o (<< >> \o <<off>>) = Append(o, off)
        /\ o \o (<<bye>> \o << >>) = Append(o, bye)
        /\ o \o (<<bye>> \o <<off>>) = Append(Append(o, bye), off)
    OBVIOUS
  <2>4. Append(o, off) \in Seq(Mail) /\ Append(o, bye) \in Seq(Mail) /\ Append(Append(o, bye), off) \in Seq(Mail)
    OBVIOUS
  <2> QED
    BY <2>1, <2>2, <2>3, <2>4
<1>13. Sane(u) /\ u \notin astray' => InOrder(q, Live(u), FALSE)
  <2> SUFFICES ASSUME Sane(u), u \notin astray'
               PROVE  InOrder(q, Live(u), FALSE)
    OBVIOUS
  <2>1. InOrder(o, Live(u), in) /\ Live(u) \in BOOLEAN
    BY <1>1, <1>10, <1>11 DEF VideoInv, Lined, Live
  <2>2. CASE in
    <3>1. InOrder(Append(o, bye), Live(u), FALSE) /\ Append(o, bye) \in Seq(Mail)
      <4>1. Append(o, bye) \in Seq(Mail)
        OBVIOUS
      <4>2. InOrder(Append(o, bye), Live(u), FALSE)
        BY <1>9, <2>1, OrderAppend
      <4> QED
        BY <4>1, <4>2
    <3>2. InOrder(Append(Append(o, bye), off), Live(u), FALSE)
      BY <1>8, <2>1, <3>1, OrderAppend
    <3> QED
      BY <1>12, <2>2, <3>1, <3>2
  <2>3. CASE ~in
    <3>1. InOrder(o, Live(u), FALSE)
      BY <2>1, <2>3
    <3>2. InOrder(Append(o, off), Live(u), FALSE)
      BY <1>8, <2>1, <3>1, OrderAppend
    <3> QED
      BY <1>12, <2>3, <3>1, <3>2
  <2> QED
    BY <2>2, <2>3
<1>14. turns' \in 0..MaxTurns
  BY <1>1, Typed
<1>15. page' = [page EXCEPT ![u] = r] /\ camera' = [camera EXCEPT ![u] = k]
  BY <1>1, <1>3, <1>4, <1>6
<1> QED
  BY <1>1, <1>2, <1>5, <1>7, <1>12, <1>13, <1>14, <1>15, GoneKeeps

-----------------------------------------------------------------------------
(* The server.                                                             *)
LEMMA TellFacts ==
  ASSUME VideoInv, NEW S, NEW m \in Mail, inbox' = Tell(S, m)
  PROVE  /\ inbox' \in [Account -> Seq(Mail)]
         /\ \A w \in Account : inbox'[w] = IF w \in S THEN Append(inbox[w], m) ELSE inbox[w]
<1>1. \A q \in Seq(Mail) : Append(q, m) \in Seq(Mail)
  OBVIOUS
<1> QED
  BY <1>1, Typed DEF Tell

LEMMA HearFacts ==
  ASSUME VideoInv, NEW u \in Account, outbox[u] # << >>, Hear(u)
  PROVE  /\ outbox'[u] = Tail(outbox[u]) /\ outbox' \in [Account -> Seq(Mail)]
         /\ \A w \in Account \ {u} : outbox'[w] = outbox[w]
         /\ outbox[u] \in Seq(Mail) /\ Head(outbox[u]) \in Mail
<1>1. PICK q \in Seq(Mail) : q = outbox[u]
  BY Typed
<1>2. Tail(q) \in Seq(Mail) /\ Head(q) \in Mail
  BY <1>1
<1>3. outbox' = [outbox EXCEPT ![u] = Tail(q)]
  BY <1>1 DEF Hear
<1> QED
  BY <1>1, <1>2, <1>3, Typed

(* The server does nothing to the page itself.                             *)
LEMMA ServerSound ==
  ASSUME VideoInv, NEW u \in Account, UNCHANGED <<page, camera, pc, joins>>,
         u \in closing' \/ entry'[u] = "dead" => u \in astray',
         u \in astray => u \in astray'
  PROVE  Sound(u)'
<1>1. Sound(u)
  BY DEF VideoInv
<1> QED
  BY <1>1 DEF Sound

LEMMA DropKeeps ==
  ASSUME VideoInv, NEW u \in Account, Drop(u)
  PROVE  VideoInv'
<1>1. /\ turns < MaxTurns /\ turns' = turns + 1
      /\ outbox' = [outbox EXCEPT ![u] = << >>]
      /\ inbox' = [inbox EXCEPT ![u] = << >>]
      /\ entry' = [entry EXCEPT ![u] = IF @ = "live" THEN "dead" ELSE @]
      /\ channel' = channel \ {u}
      /\ closing' = closing \cup {u}
      /\ astray' = astray \cup {u}
      /\ UNCHANGED <<page, camera, pc, made, joins, crossed>>
  BY DEF Drop
<1>2. << >> \in Seq(Mail)
  OBVIOUS
<1>3. outbox' \in [Account -> Seq(Mail)] /\ inbox' \in [Account -> Seq(Mail)]
  BY <1>1, <1>2, Typed
<1>4. VideoTypes'
  <2>1. entry' \in [Account -> {"none", "live", "dead"}] /\ turns' \in 0..MaxTurns
    BY <1>1, Typed
  <2> QED
    BY <1>1, <1>3, <2>1 DEF VideoInv, VideoTypes
<1>5. OnlyOf(u)
  BY <1>1, Typed DEF OnlyOf
<1>6. Sound(u)' /\ u \in astray'
  BY <1>1, ServerSound
<1> QED
  BY <1>4, <1>5, <1>6, AstrayKeeps

LEMMA CleanUpKeeps ==
  ASSUME VideoInv, NEW u \in Account, CleanUp(u)
  PROVE  VideoInv'
<1>1. /\ u \in closing /\ closing' = closing \ {u}
      /\ entry' = [entry EXCEPT ![u] = "none"]
      /\ \/ inbox' = Tell(channel, Plain("left", u))
         \/ inbox' = inbox
      /\ UNCHANGED <<page, camera, pc, made, outbox, channel, joins, turns, astray, crossed>>
  BY DEF CleanUp
<1>2. PICK m \in Mail : m = Plain("left", u) /\ m.kind = "left" /\ m.who = u
  BY MessageFacts
<1>3. /\ inbox' \in [Account -> Seq(Mail)]
      /\ \A w \in Account : inbox'[w] = inbox[w] \/ inbox'[w] = Append(inbox[w], m)
  <2>1. CASE inbox' = inbox
    BY <2>1, Typed
  <2>2. CASE inbox' = Tell(channel, m)
    BY <2>2, TellFacts
  <2> QED
    BY <1>1, <1>2, <2>1, <2>2
<1>4. VideoTypes'
  <2>1. entry' \in [Account -> {"none", "live", "dead"}]
    BY <1>1, Typed
  <2> QED
    BY <1>1, <1>3, <2>1 DEF VideoInv, VideoTypes
<1>5. OnlyOf(u)
  <2>1. \A w \in Account \ {u} : entry'[w] = entry[w] /\ (w \in closing' <=> w \in closing)
    BY <1>1, Typed
  <2>2. m.who = u /\ m.kind \notin {"peers", "full"} /\ joins <= joins'
    BY <1>1, <1>2, Typed
  <2> QED
    BY <1>1, <1>3, <2>1, <2>2 DEF OnlyOf
<1>6. u \in astray'
  BY <1>1 DEF VideoInv, Sound
<1>7. Sound(u)'
  BY <1>1, <1>6, ServerSound
<1> QED
  BY <1>4, <1>5, <1>6, <1>7, AstrayKeeps

LEMMA RefusedKeeps ==
  ASSUME VideoInv, NEW u \in Account, Refused(u)
  PROVE  VideoInv'
<1>1. /\ inbox[u] # << >>
      /\ page' = [page EXCEPT ![u] = [page[u] EXCEPT !.inCall = FALSE]]
      /\ inbox' = [inbox EXCEPT ![u] = Tail(@)]
      /\ astray' = astray \cup {u}
      /\ UNCHANGED <<camera, pc, made, outbox, entry, channel, closing, joins, turns, crossed>>
  BY DEF Refused, Receives, Unlet, Done, server
<1>2. PICK r \in Page : r = [page[u] EXCEPT !.inCall = FALSE] /\ r.prompts + r.stale <= joins
  <2>1. PICK p \in Page : p = page[u]
    BY Typed
  <2>2. PICK x : x = [p EXCEPT !.inCall = FALSE]
    OBVIOUS
  <2>3. x \in Page /\ x.prompts = p.prompts /\ x.stale = p.stale
    BY <2>2 DEF Page
  <2> QED
    BY <2>1, <2>2, <2>3, PageTyped
<1>3. /\ page'[u] = r /\ page' \in [Account -> Page]
      /\ \A w \in Account \ {u} : page'[w] = page[w]
  BY <1>1, <1>2, Typed
<1>4. PICK q \in Seq(Mail) : q = inbox[u]
  BY Typed
<1>5. Tail(q) \in Seq(Mail)
  BY <1>1, <1>4
<1>6. inbox' \in [Account -> Seq(Mail)] /\ \A w \in Account \ {u} : inbox'[w] = inbox[w]
  BY <1>1, <1>4, <1>5, Typed
<1>7. VideoTypes'
  BY <1>1, <1>3, <1>6 DEF VideoInv, VideoTypes
<1>8. OnlyOf(u)
  BY <1>1, <1>3, <1>6, Typed DEF OnlyOf
<1>9. Sound(u)' /\ u \in astray'
  BY <1>1, <1>2, <1>3 DEF Sound
<1> QED
  BY <1>7, <1>8, <1>9, AstrayKeeps

(* A page that is in the call is in it for the server, and hears the room. *)
LEMMA WithinLive ==
  ASSUME VideoInv, NEW v \in Account, Within(v)
  PROVE  Live(v) /\ v \in channel
<1>1. InOrder(outbox[v], Live(v), page[v].inCall) /\ (Live(v) => v \in channel)
  BY DEF VideoInv, Lined, Within
<1>2. outbox[v] \in Seq(Mail) /\ page[v].inCall \in BOOLEAN /\ Live(v) \in BOOLEAN
  BY Typed, PageTyped DEF Live
<1> QED
  BY <1>1, <1>2, OrderFacts DEF Within

(* The server has heard the first that page u had sent.                    *)
LEMMA HeardFacts ==
  ASSUME VideoInv, NEW u \in Account, outbox[u] # << >>, Hear(u),
         page' = page, Sane(u)
  PROVE  LET h == Head(outbox[u]) IN
         /\ h.kind \in {"join", "off"} => ~Live(u)
         /\ h.kind \in {"offer", "answer"} => Live(u)
         /\ \A now \in BOOLEAN :
              now = (IF h.kind = "join" THEN TRUE ELSE IF h.kind = "leave" THEN FALSE ELSE Live(u)) =>
                /\ InOrder(outbox'[u], now, page'[u].inCall)
                /\ ~now /\ page[u].inCall => Has(outbox'[u], "join")
<1>1. InOrder(outbox[u], Live(u), page[u].inCall)
  BY DEF VideoInv, Lined
<1>2. outbox[u] \in Seq(Mail) /\ page[u].inCall \in BOOLEAN /\ Live(u) \in BOOLEAN
  BY Typed, PageTyped DEF Live
<1>3. outbox'[u] = Tail(outbox[u]) /\ outbox'[u] \in Seq(Mail)
  BY HearFacts
<1>4. /\ Head(outbox[u]).kind \in {"join", "off"} => ~Live(u)
      /\ Head(outbox[u]).kind \in {"offer", "answer"} => Live(u)
  BY <1>1, <1>2, OrderFacts
<1>5. ASSUME NEW now \in BOOLEAN,
             now = (IF Head(outbox[u]).kind = "join" THEN TRUE
                    ELSE IF Head(outbox[u]).kind = "leave" THEN FALSE ELSE Live(u))
      PROVE  /\ InOrder(outbox'[u], now, page'[u].inCall)
             /\ ~now /\ page[u].inCall => Has(outbox'[u], "join")
  <2>1. InOrder(Tail(outbox[u]), now, page[u].inCall)
    BY <1>1, <1>2, <1>5, OrderTail
  <2>2. InOrder(outbox'[u], now, page[u].inCall)
    BY <1>3, <2>1
  <2> QED
    BY <1>2, <1>3, <1>5, <2>2, OrderFacts
<1> QED
  BY <1>4, <1>5

(* What the page itself has to do is the same as before.                   *)
LEMMA StillClear ==
  ASSUME VideoInv, NEW u \in Account, outbox[u] # << >>, Hear(u), UNCHANGED <<page, pc, astray>>,
         Has(inbox'[u], "full") <=> Has(inbox[u], "full"),
         Has(inbox'[u], "peers") <=> Has(inbox[u], "peers"),
         \A v \in Account : <<u, v>> \in crossed => <<u, v>> \in crossed'
  PROVE  \A v \in Account \ {u} : Clear(u, v)'
<1>1. Has(outbox'[u], "join") => Has(outbox[u], "join")
  BY HearFacts, TailHolds
<1>2. \A v \in Account \ {u} : Clear(u, v)
  BY DEF VideoInv
<1> QED
  BY <1>1, <1>2 DEF Clear, Asks, Sane

LEMMA LeaveCallKeeps ==
  ASSUME VideoInv, NEW u \in Account, LeaveCall(u)
  PROVE  VideoInv'
<1>1. /\ outbox[u] # << >> /\ Head(outbox[u]).kind = "leave" /\ Hear(u)
      /\ entry' = [entry EXCEPT ![u] = "none"]
      /\ inbox' = Tell(channel \ {u}, Plain("left", u))
      /\ UNCHANGED <<page, camera, pc, made, channel, closing, joins, turns, astray, crossed>>
  BY DEF LeaveCall, Told
<1>2. PICK m \in Mail : m = Plain("left", u) /\ m.kind = "left" /\ m.who = u
  BY MessageFacts
<1>3. /\ inbox' \in [Account -> Seq(Mail)]
      /\ \A w \in Account : inbox'[w] = IF w \in channel \ {u} THEN Append(inbox[w], m) ELSE inbox[w]
  BY <1>1, <1>2, TellFacts
<1>4. /\ outbox' \in [Account -> Seq(Mail)]
      /\ \A w \in Account \ {u} : outbox'[w] = outbox[w]
  BY <1>1, HearFacts
<1>5. VideoTypes'
  <2>1. entry' \in [Account -> {"none", "live", "dead"}]
    BY <1>1, Typed
  <2> QED
    BY <1>1, <1>3, <1>4, <2>1 DEF VideoInv, VideoTypes
<1>6. OnlyOf(u)
  <2>1. \A w \in Account \ {u} : entry'[w] = entry[w]
    BY <1>1, Typed
  <2>2. m.who = u /\ m.kind \notin {"peers", "full"} /\ joins <= joins'
    BY <1>1, <1>2, Typed
  <2> QED
    BY <1>1, <1>3, <1>4, <2>1, <2>2 DEF OnlyOf
<1>7. entry'[u] = "none" /\ ~Live(u)'
  BY <1>1, Typed DEF Live
<1>8. Sound(u)'
  <2>1. u \in closing' \/ entry'[u] = "dead" => u \in astray'
    BY <1>1, <1>7 DEF VideoInv, Sound
  <2> QED
    BY <1>1, <2>1, ServerSound
<1>9. CASE ~Sane(u)'
  BY <1>5, <1>6, <1>8, <1>9, StruckKeeps
<1>10. CASE Sane(u)'
  <2>1. inbox'[u] = inbox[u] /\ Sane(u)
    BY <1>1, <1>3, <1>10 DEF Sane
  <2>2. InOrder(outbox'[u], FALSE, page'[u].inCall) /\ (page'[u].inCall => Has(outbox'[u], "join"))
    BY <1>1, <2>1, HeardFacts
  <2>3. Lined(u)' /\ ~Within(u)'
    <3>1. (entry'[u] = "live") = FALSE
      BY <1>7 DEF Live
    <3>2. InOrder(outbox'[u], entry'[u] = "live", page'[u].inCall)
      BY <2>2, <3>1
    <3>3. Lined(u)'
      BY <3>1, <3>2 DEF Lined, Live
    <3> QED
      BY <2>2, <3>3 DEF Within
  <2>4. \A v \in Account \ {u} : Clear(u, v)'
    BY <1>1, <2>1, StillClear
  <2>5. ASSUME NEW v \in Account \ {u}
        PROVE  Knows(v, u)'
    <3> SUFFICES ASSUME Within(v)'
                 PROVE  /\ <<v, u>> \notin crossed' /\ pc'[v][u] # NoPc => KnownBehind(inbox'[v], FALSE, u, 0)
                        /\ Reports(inbox'[v], FALSE, u)
      <4>1. (entry'[u] = "live") = FALSE
        BY <1>7
      <4> QED
        BY <4>1 DEF Knows, Live
    <3>1. PICK q \in Seq(Mail) : q = inbox[v]
      BY Typed
    <3>2. Within(v)
      <4>1. Has(q, "full") => Has(Append(q, m), "full")
        BY AppendOwn
      <4> QED
        BY <1>1, <1>3, <1>4, <3>1, <4>1 DEF Within, Sane
    <3>3. inbox'[v] = Append(q, m)
      BY <1>3, <3>1, <3>2, WithinLive
    <3>4. /\ <<v, u>> \notin crossed /\ pc[v][u] # NoPc => KnownBehind(q, Live(u), u, 0)
          /\ Reports(q, Live(u), u)
      BY <2>1, <3>1, <3>2 DEF VideoInv, Knows
    <3>5. IsLeft(m, u) /\ ~Brings(m, u) /\ Live(u) \in BOOLEAN
      BY <1>2 DEF IsLeft, Brings, Live
    <3>6. /\ KnownBehind(q, Live(u), u, 0) => KnownBehind(Append(q, m), FALSE, u, 0)
          /\ Reports(Append(q, m), FALSE, u)
      BY <3>4, <3>5, AppendReports
    <3> QED
      BY <1>1, <3>3, <3>4, <3>6
  <2> QED
    BY <1>5, <1>6, <1>8, <2>3, <2>4, <2>5, OutsideKeeps
<1> QED
  BY <1>9, <1>10

LEMMA LeaveChannelKeeps ==
  ASSUME VideoInv, NEW u \in Account, LeaveChannel(u)
  PROVE  VideoInv'
<1>1. /\ outbox[u] # << >> /\ Head(outbox[u]).kind = "off" /\ Hear(u)
      /\ channel' = channel \ {u}
      /\ UNCHANGED <<page, camera, pc, made, inbox, entry, closing, joins, turns, astray, crossed>>
  BY DEF LeaveChannel
<1>2. /\ outbox' \in [Account -> Seq(Mail)]
      /\ \A w \in Account \ {u} : outbox'[w] = outbox[w]
  BY <1>1, HearFacts
<1>3. VideoTypes'
  BY <1>1, <1>2 DEF VideoInv, VideoTypes
<1>4. OnlyOf(u)
  BY <1>1, <1>2, Typed DEF OnlyOf
<1>5. Sound(u)'
  <2>1. u \in closing' \/ entry'[u] = "dead" => u \in astray'
    BY <1>1 DEF VideoInv, Sound
  <2> QED
    BY <1>1, <2>1, ServerSound
<1>6. Sane(u)' <=> Sane(u)
  BY <1>1 DEF Sane
<1>7. CASE ~Sane(u)'
  BY <1>3, <1>4, <1>5, <1>7, StruckKeeps
<1>8. CASE Sane(u)'
  <2>1. ~Live(u) /\ ~Live(u)'
    BY <1>1, <1>6, <1>8, HeardFacts DEF Live
  <2>2. InOrder(outbox'[u], FALSE, page'[u].inCall) /\ (page'[u].inCall => Has(outbox'[u], "join"))
    <3>1. FALSE = Live(u)
      BY <2>1 DEF Live
    <3> QED
      BY <1>1, <1>6, <1>8, <3>1, HeardFacts
  <2>3. Lined(u)' /\ ~Within(u)'
    <3>1. (entry'[u] = "live") = FALSE
      BY <2>1 DEF Live
    <3>2. InOrder(outbox'[u], entry'[u] = "live", page'[u].inCall)
      BY <2>2, <3>1
    <3>3. Lined(u)'
      BY <3>1, <3>2 DEF Lined, Live
    <3> QED
      BY <2>2, <3>3 DEF Within
  <2>4. \A v \in Account \ {u} : Clear(u, v)'
    BY <1>1, StillClear
  <2>5. \A v \in Account \ {u} : Knows(v, u)'
    BY <1>1, <1>4, <1>6, UntoldKnow
  <2> QED
    BY <1>3, <1>4, <1>5, <2>3, <2>4, <2>5, OutsideKeeps
<1> QED
  BY <1>7, <1>8

(* What the server relays from u to v.                                     *)
LEMMA RelayKeeps ==
  ASSUME VideoInv, NEW u \in Account, Relay(u)
  PROVE  VideoInv'
<1>1. /\ outbox[u] # << >> /\ Hear(u)
      /\ Head(outbox[u]).kind \in {"offer", "answer"}
      /\ LET m == Head(outbox[u]) IN
           inbox' = IF entry[m.who] = "live" THEN Tell({m.who}, [m EXCEPT !.who = u]) ELSE inbox
      /\ UNCHANGED <<page, camera, pc, made, entry, channel, closing, joins, turns, astray, crossed>>
  BY DEF Relay, server
<1>2. PICK o \in Seq(Mail) : o = outbox[u]
  BY Typed
<1>3. PICK m \in Mail : m = Head(outbox[u])
  BY <1>1, HearFacts
<1>4. m.kind \in {"offer", "answer"} /\ m.who \in Account
  BY <1>1, <1>3 DEF Mail
<1>5. PICK n : n = [m EXCEPT !.who = u]
  OBVIOUS
<1>6. n \in Mail /\ n.who = u /\ n.kind = m.kind /\ n.kind \in {"offer", "answer"}
  BY <1>4, <1>5 DEF Mail, Message
<1>7. /\ inbox' \in [Account -> Seq(Mail)]
      /\ \A w \in Account : inbox'[w] = IF w = m.who /\ entry[w] = "live" THEN Append(inbox[w], n) ELSE inbox[w]
  <2>1. CASE entry[m.who] = "live"
    <3>1. PICK S : S = {m.who}
      OBVIOUS
    <3>2. inbox' = Tell(S, n)
      BY <1>1, <1>3, <1>5, <2>1, <3>1
    <3>3. /\ inbox' \in [Account -> Seq(Mail)]
          /\ \A w \in Account : inbox'[w] = IF w \in S THEN Append(inbox[w], n) ELSE inbox[w]
      BY <1>6, <3>2, TellFacts
    <3> QED
      BY <2>1, <3>1, <3>3
  <2>2. CASE entry[m.who] # "live"
    BY <1>1, <1>3, <2>2, Typed
  <2> QED
    BY <2>1, <2>2
<1>8. /\ outbox'[u] = Tail(o) /\ outbox' \in [Account -> Seq(Mail)]
      /\ \A w \in Account \ {u} : outbox'[w] = outbox[w]
  BY <1>1, <1>2, HearFacts
<1>9. VideoTypes'
  BY <1>1, <1>7, <1>8 DEF VideoInv, VideoTypes
<1>10. OnlyOf(u)
  <2>1. n.kind \notin {"peers", "full"} /\ joins <= joins'
    BY <1>1, <1>6, Typed
  <2> QED
    BY <1>1, <1>6, <1>7, <1>8, <2>1 DEF OnlyOf
<1>11. Sound(u)'
  <2>1. u \in closing' \/ entry'[u] = "dead" => u \in astray'
    BY <1>1 DEF VideoInv, Sound
  <2> QED
    BY <1>1, <2>1, ServerSound
<1>12. CASE ~Sane(u)'
  BY <1>9, <1>10, <1>11, <1>12, StruckKeeps
<1>13. CASE Sane(u)'
  <2>1. ASSUME NEW w \in Account
        PROVE  /\ Has(inbox'[w], "full") <=> Has(inbox[w], "full")
               /\ Has(inbox'[w], "peers") <=> Has(inbox[w], "peers")
               /\ \A v \in Account : HasJoined(inbox[w], v) => HasJoined(inbox'[w], v)
               /\ \A v \in Account : Followed(inbox[w], v) => Followed(inbox'[w], v)
               /\ \A v \in Account \ {u} : Alike(inbox[w], inbox'[w], v)
    <3>1. CASE inbox'[w] = inbox[w]
      BY <3>1, AlikeFacts
    <3>2. CASE inbox'[w] # inbox[w]
      <4>1. PICK q \in Seq(Mail) : q = inbox[w] /\ inbox'[w] = Append(q, n)
        BY <1>7, <3>2, Typed
      <4>2. /\ Has(Append(q, n), "full") <=> Has(q, "full")
            /\ Has(Append(q, n), "peers") <=> Has(q, "peers")
            /\ \A v : HasJoined(q, v) => HasJoined(Append(q, n), v)
        BY <1>6, AppendOwn
      <4>3. \A v : Followed(q, v) => Followed(Append(q, n), v)
        <5>1. \A v : ~IsLeft(n, v)
          BY <1>6 DEF IsLeft
        <5> QED
          BY <1>6, <5>1, AppendFollowed
      <4>4. \A v \in Account \ {u} : Alike(q, Append(q, n), v)
        BY <1>6, AlikeFacts
      <4> QED
        BY <4>1, <4>2, <4>3, <4>4
    <3> QED
      BY <3>1, <3>2
  <2>2. Sane(u) /\ \A v \in Account : Sane(v)' => Sane(v)
    BY <1>1, <1>13, <2>1 DEF Sane
  <2>3. Live(u) /\ \A v \in Account : Live(v)' <=> Live(v)
    BY <1>1, <1>3, <1>4, <2>2, HeardFacts DEF Live
  <2>4. Has(outbox'[u], "join") <=> Has(outbox[u], "join")
    BY <1>1, <1>2, <1>3, <1>4, <1>8, TailHolds
  <2>5. \A v \in Account : Within(v)' => Within(v)
    BY <1>1, <1>8, <2>2, <2>4 DEF Within
  <2>6. Lined(u)'
    <3>1. InOrder(outbox'[u], TRUE, page'[u].inCall)
      <4>1. TRUE = (IF m.kind = "join" THEN TRUE ELSE IF m.kind = "leave" THEN FALSE ELSE Live(u))
        BY <1>4, <2>3 DEF Live
      <4> QED
        BY <1>1, <1>3, <2>2, <4>1, HeardFacts
    <3>2. (entry'[u] = "live") = TRUE
      BY <2>3 DEF Live
    <3>3. u \in channel'
      BY <1>1, <2>2, <2>3 DEF VideoInv, Lined
    <3>4. InOrder(outbox'[u], entry'[u] = "live", page'[u].inCall)
      BY <3>1, <3>2
    <3> QED
      BY <3>3, <3>4 DEF Lined, Live
  <2>7. \A v \in Account \ {u} : Clear(u, v)'
    BY <1>1, <2>1, StillClear
  <2>8. ASSUME NEW v \in Account \ {u}
        PROVE  Knows(u, v)'
    <3> SUFFICES ASSUME Within(u)', Sane(v)'
                 PROVE  /\ <<u, v>> \notin crossed' /\ pc'[u][v] # NoPc => KnownBehind(inbox'[u], Live(v), v, 0)
                        /\ Reports(inbox'[u], Live(v), v)
      <4>1. Live(v)' = Live(v)
        BY <1>1 DEF Live
      <4> QED
        BY <4>1 DEF Knows
    <3>1. /\ <<u, v>> \notin crossed' /\ pc'[u][v] # NoPc => KnownBehind(inbox[u], Live(v), v, 0)
          /\ Reports(inbox[u], Live(v), v)
      BY <1>1, <2>2, <2>5 DEF VideoInv, Knows
    <3>2. CASE inbox'[u] = inbox[u]
      BY <3>1, <3>2
    <3>3. CASE inbox'[u] # inbox[u]
      <4>1. PICK q \in Seq(Mail) : q = inbox[u] /\ inbox'[u] = Append(q, n)
        BY <1>7, <3>3, Typed
      <4>2. PICK here \in BOOLEAN : here = Live(v)
        BY DEF Live
      <4>3. ~Brings(n, v)
        BY <1>6 DEF Brings
      <4>4. /\ KnownBehind(q, here, v, 0) => KnownBehind(Append(q, n), here, v, 0)
            /\ Reports(q, here, v) => Reports(Append(q, n), here, v)
        BY <1>6, <4>3, AppendReports
      <4> QED
        BY <3>1, <4>1, <4>2, <4>4
    <3> QED
      BY <3>2, <3>3
  <2>9. \A v \in Account : KnownBehind(inbox[v], Live(u), u, 0)' /\ Reports(inbox[v], Live(u), u)'
    BY <2>3 DEF Reports, KnownBehind
  <2>10. \A v \in Account \ {u} : Knows(v, u)'
    BY <2>9 DEF Knows
  <2>11. ASSUME NEW v \in Account \ {u}
         PROVE  Hears(u, v)'
    <3>1. Hears(u, v)
      BY DEF VideoInv
    <3> QED
      BY <1>8, <2>1, <2>5, <3>1 DEF Hears
  <2>12. ASSUME NEW v \in Account \ {u}, m.who = v, Within(v)
         PROVE  inbox'[v] = Append(inbox[v], n)
    BY <1>7, <2>12, WithinLive DEF Live
  <2>13. ASSUME NEW v \in Account \ {u}
         PROVE  Hears(v, u)'
    <3> SUFFICES ASSUME Within(u)', Within(v)'
                 PROVE  Followed(inbox'[v], u) \/ ~Nothing(outbox'[u], v) \/ HasJoined(inbox'[u], v)
      BY DEF Hears
    <3>1. Within(v) /\ (Followed(inbox[v], u) \/ ~Nothing(outbox[u], v) \/ HasJoined(inbox[u], v))
      BY <2>5 DEF VideoInv, Hears
    <3>2. CASE m.who = v
      <4>1. PICK q \in Seq(Mail) : q = inbox[v] /\ inbox'[v] = Append(q, n)
        BY <2>12, <3>1, <3>2, Typed
      <4>2. Followed(Append(q, n), u)
        <5>1. n.who = u /\ n.kind # "left"
          BY <1>6
        <5> QED
          BY <1>6, <5>1, AppendFollowed
      <4> QED
        BY <4>1, <4>2
    <3>3. CASE m.who # v
      <4>1. ~Nothing(outbox[u], v) => ~Nothing(outbox'[u], v)
        BY <1>1, <1>2, <1>3, <1>8, <3>3, TailHolds
      <4> QED
        BY <2>1, <3>1, <4>1
    <3> QED
      BY <3>2, <3>3
  <2>14. ASSUME NEW v \in Account \ {u}
         PROVE  Meshed(u, v)'
    <3> SUFFICES ASSUME Within(u)', Within(v)', Uncrossed(u, v)'
                 PROVE  (Handshake(u, v) \/ Handshake(v, u))'
      BY DEF Meshed
    <3>1. Within(v) /\ (Handshake(u, v) \/ Handshake(v, u))
      BY <1>1, <2>5 DEF VideoInv, Meshed, Uncrossed
    <3>2. /\ pc'[u] = pc[u] /\ pc'[v] = pc[v] /\ outbox'[v] = outbox[v]
          /\ Alike(inbox[u], inbox'[u], v)
      BY <1>1, <1>8, <2>1
    <3>3. CASE m.who # v
      <4>1. inbox'[v] = inbox[v]
        BY <1>7, <3>3
      <4>2. Alike(o, Tail(o), v)
        BY <1>1, <1>2, <1>3, <3>3, AlikeFacts
      <4>3. Alike(outbox[u], outbox'[u], v) /\ Alike(outbox[v], outbox'[v], u) /\ Alike(inbox[v], inbox'[v], u)
        BY <1>2, <1>8, <3>2, <4>1, <4>2, AlikeFacts
      <4> QED
        BY <3>1, <3>2, <4>3, HandshakeKept
    <3>4. CASE m.who = v
      <4>1. PICK q \in Seq(Mail) : q = inbox[v] /\ inbox'[v] = Append(q, n)
        BY <2>12, <3>1, <3>4, Typed
      <4>2. inbox'[u] = inbox[u]
        BY <1>7, <3>4
      <4>3. ~Nothing(outbox[u], v)
        BY <1>1, <1>2, <1>3, <3>4, TailHolds
      <4>4. ASSUME NEW k \in {"offer", "answer"}, NEW by, NEW to,
                   One(outbox[u], v, Signal(k, v, by, to)), OnlyLeft(inbox[v], u)
            PROVE  /\ Nothing(outbox'[u], v)
                   /\ One(inbox'[v], u, Signal(k, u, by, to))
                   /\ Nothing(inbox[v], u) => NoLeft(inbox'[v], u)
        <5>1. Signal(k, v, by, to).who = v /\ Signal(k, v, by, to).kind = k
          BY SignalFields
        <5>2. m = Signal(k, v, by, to) /\ Nothing(Tail(o), v)
          <6>1. IF m = Signal(k, v, by, to) THEN Nothing(Tail(o), v) ELSE (m.who = v => m.kind = "left")
            BY <1>1, <1>2, <1>3, <4>4, <5>1, TailHolds
          <6> QED
            BY <1>4, <3>4, <6>1
        <5>3. n = Signal(k, u, by, to)
          <6>1. PICK x : x = Signal(k, v, by, to)
            OBVIOUS
          <6>2. x = [kind |-> k, who |-> v, peers |-> {}, desc |-> [by |-> by, to |-> to]]
            BY <6>1, SignalFields
          <6>3. n = [x EXCEPT !.who = u]
            BY <1>5, <5>2, <6>1
          <6>4. n = [kind |-> k, who |-> u, peers |-> {}, desc |-> [by |-> by, to |-> to]]
            BY <6>2, <6>3
          <6> QED
            BY <6>4, SignalFields
        <5>4. One(Append(q, n), u, n) /\ (Nothing(q, u) => NoLeft(Append(q, n), u))
          BY <1>6, <4>1, <4>4, AppendOwn
        <5> QED
          BY <1>8, <4>1, <5>2, <5>3, <5>4
      <4>5. \A w : Nothing(inbox[v], w) => OnlyLeft(inbox[v], w)
        BY DEF Nothing, OnlyLeft
      <4>6. CASE Handshake(u, v)
        <5>1. Answered(u, v)
          BY <4>3, <4>6 DEF Handshake, Announced, Offered, Agreed
        <5>2. One(outbox[u], v, Signal("answer", v, pc[u][v].id, pc[v][u].id)) /\ Nothing(inbox[v], u)
          BY <4>3, <5>1 DEF Answered
        <5>3. /\ Nothing(outbox'[u], v) /\ NoLeft(inbox'[v], u)
              /\ One(inbox'[v], u, Signal("answer", u, pc[u][v].id, pc[v][u].id))
          BY <4>4, <4>5, <5>2
        <5> QED
          BY <3>2, <4>2, <5>1, <5>3 DEF Handshake, Answered, Offers, Answers
      <4>7. CASE Handshake(v, u)
        <5>1. Offered(v, u)
          BY <4>3, <4>7 DEF Handshake, Announced, Answered, Agreed
        <5>2. One(outbox[u], v, Signal("offer", v, pc[u][v].id, 0)) /\ OnlyLeft(inbox[v], u)
          BY <4>3, <5>1 DEF Offered
        <5>3. Nothing(outbox'[u], v) /\ One(inbox'[v], u, Signal("offer", u, pc[u][v].id, 0))
          BY <4>4, <5>2
        <5> QED
          BY <3>2, <4>2, <5>1, <5>3 DEF Handshake, Offered, Offers
      <4> QED
        BY <3>1, <4>6, <4>7
    <3> QED
      BY <3>3, <3>4
  <2> QED
    BY <1>9, <1>10, <1>11, <2>6, <2>7, <2>8, <2>10, <2>11, <2>13, <2>14, OthersKeep
<1> QED
  BY <1>12, <1>13

-----------------------------------------------------------------------------
(* What a page is told.                                                    *)
LEMMA DoneFacts ==
  ASSUME VideoInv, NEW u \in Account, inbox[u] # << >>, Done(u)
  PROVE  /\ inbox'[u] = Tail(inbox[u]) /\ inbox' \in [Account -> Seq(Mail)]
         /\ \A w \in Account \ {u} : inbox'[w] = inbox[w]
         /\ inbox[u] \in Seq(Mail) /\ Head(inbox[u]) \in Mail
<1>1. PICK q \in Seq(Mail) : q = inbox[u]
  BY Typed
<1>2. Tail(q) \in Seq(Mail) /\ Head(q) \in Mail
  BY <1>1
<1>3. inbox' = [inbox EXCEPT ![u] = Tail(q)]
  BY <1>1 DEF Done
<1> QED
  BY <1>1, <1>2, <1>3, Typed

(* A page that waits for an answer is one that has asked.                  *)
LEMMA WaitingAsks ==
  ASSUME VideoInv, NEW u \in Account, inbox[u] # << >>
  PROVE  Has(outbox[u], "join") \/ Has(Tail(inbox[u]), "peers") => Waiting(u)
<1>1. PICK o \in Seq(Mail) : o = outbox[u]
  BY Typed
<1>2. PICK q \in Seq(Mail) : q = Tail(inbox[u])
  <2>1. PICK p \in Seq(Mail) : p = inbox[u]
    BY Typed
  <2>2. p # << >>
    BY <2>1
  <2>3. Tail(p) \in Seq(Mail)
    BY <2>2
  <2> QED
    BY <2>1, <2>3
<1>3. \A i \in DOMAIN o : o[i] \in Range(o)
  BY DEF Range
<1>4. \A i \in DOMAIN q : q[i] \in Range(q)
  BY DEF Range
<1> QED
  BY <1>1, <1>2, <1>3, <1>4 DEF Waiting, Has

(* A page takes the first it is told.                                      *)
TakesOnly(u) ==
  /\ inbox[u] # << >> /\ Done(u)
  /\ UNCHANGED <<page, camera, entry, channel, closing, joins, turns>>
  /\ \A w \in Account \ {u} :
       /\ pc'[w] = pc[w] /\ outbox'[w] = outbox[w] /\ (w \in astray' <=> w \in astray)
       /\ \A v \in Account : <<w, v>> \in crossed' <=> <<w, v>> \in crossed

(* A step of a page that takes a message.                                  *)
LEMMA TakesOnlyOf ==
  ASSUME VideoInv, NEW u \in Account, TakesOnly(u)
  PROVE  OnlyOf(u)
<1>1. \A w \in Account \ {u} : inbox'[w] = inbox[w]
  BY DoneFacts DEF TakesOnly
<1>2. joins <= joins'
  BY Typed DEF TakesOnly
<1> QED
  BY <1>1, <1>2 DEF TakesOnly, OnlyOf

LEMMA TakeStruck ==
  ASSUME VideoInv, NEW u \in Account, TakesOnly(u), VideoTypes', u \in astray'
  PROVE  VideoInv'
<1>1. page'[u].prompts + page'[u].stale <= joins'
  BY PageTyped DEF TakesOnly
<1>2. Sound(u)'
  BY <1>1 DEF Sound
<1> QED
  BY <1>2, TakesOnlyOf, AstrayKeeps

LEMMA TakeKeeps ==
  ASSUME VideoInv, NEW u \in Account, TakesOnly(u), VideoTypes', astray' = astray,
         NEW h, h = Head(inbox[u]), h.kind # "full",
         \/ outbox'[u] = outbox[u]
         \/ \E m \in Mail : /\ outbox'[u] = Append(outbox[u], m)
                            /\ m.kind \in {"offer", "answer"} /\ page[u].seen,
         \A v \in Account : page[u].seen \/ pc'[u][v] = pc[u][v] \/ pc'[u][v] = NoPc,
         \A v \in Account \ {u} :
           \/ pc'[u][v] = NoPc
           \/ /\ pc[u][v] # NoPc /\ ~IsLeft(h, v)
              /\ <<u, v>> \in crossed => <<u, v>> \in crossed'
           \/ Brings(h, v) /\ (Waiting(u) => <<u, v>> \in crossed'),
         \A v \in Account \ {u} :
           h.kind = "joined" /\ h.who = v /\ Within(u) => ~Nothing(outbox'[u], v),
         \A v \in Account \ {u} :
           u \notin astray /\ Within(u) /\ Within(v) /\ Uncrossed(u, v)' =>
             (Handshake(u, v) \/ Handshake(v, u))'
  PROVE  VideoInv'
<1>1. PICK q \in Seq(Mail) : q = inbox[u] /\ q # << >> /\ h = Head(q)
  BY Typed DEF TakesOnly
<1>2. PICK o \in Seq(Mail) : o = outbox[u]
  BY Typed
<1>3. inbox'[u] = Tail(q) /\ \A w \in Account \ {u} : inbox'[w] = inbox[w]
  BY <1>1, DoneFacts DEF TakesOnly
<1>4. /\ page' = page /\ camera' = camera /\ entry' = entry /\ channel' = channel
      /\ closing' = closing /\ joins' = joins
      /\ \A w \in Account \ {u} : pc'[w] = pc[w] /\ outbox'[w] = outbox[w]
      /\ \A w \in Account \ {u} : \A v \in Account : <<w, v>> \in crossed' <=> <<w, v>> \in crossed
  BY DEF TakesOnly
<1>5. OnlyOf(u)
  BY TakesOnlyOf
<1>6. /\ Has(outbox'[u], "join") <=> Has(o, "join")
      /\ \A v : ~Nothing(o, v) => ~Nothing(outbox'[u], v)
  <2>1. CASE outbox'[u] = outbox[u]
    BY <1>2, <2>1
  <2>2. CASE outbox'[u] # outbox[u]
    <3>1. PICK m \in Mail : outbox'[u] = Append(o, m) /\ m.kind \in {"offer", "answer"}
      BY <1>2, <2>2
    <3>2. /\ Has(Append(o, m), "join") <=> Has(o, "join")
          /\ \A v : Nothing(Append(o, m), v) => Nothing(o, v)
      BY <3>1, AppendOwn
    <3> QED
      BY <3>1, <3>2
  <2> QED
    BY <2>1, <2>2
<1>7. CASE u \in astray
  BY <1>7, TakeStruck
<1>8. CASE u \notin astray
  <2>1. Sound(u) /\ (page[u].seen => page[u].inCall)
    BY <1>8 DEF VideoInv, Sound
  <2>2. Sound(u)'
    <3>1. ~page[u].inCall => \A v \in Account : pc'[u][v] = NoPc
      BY <1>8, <2>1 DEF Sound
    <3> QED
      BY <1>4, <2>1, <3>1 DEF Sound
  <2>3. (Has(inbox'[u], "full") <=> Has(inbox[u], "full")) /\ (Has(inbox'[u], "peers") => Has(inbox[u], "peers"))
    BY <1>1, <1>3, TailHolds
  <2>4. Has(outbox'[u], "join") <=> Has(outbox[u], "join")
    BY <1>2, <1>6
  <2>5. \A w \in Account : (Sane(w)' <=> Sane(w)) /\ (Within(w)' <=> Within(w)) /\ (Live(w)' <=> Live(w))
    BY <1>3, <1>4, <2>3, <2>4 DEF Sane, Within, Live
  <2>6. Lined(u)'
    <3> SUFFICES ASSUME Sane(u)
                 PROVE  InOrder(outbox'[u], Live(u), page[u].inCall) /\ (Live(u) => u \in channel)
      BY <1>4, <2>5 DEF Lined, Live
    <3>1. InOrder(o, Live(u), page[u].inCall) /\ (Live(u) => u \in channel)
      BY <1>2 DEF VideoInv, Lined
    <3>2. CASE outbox'[u] = outbox[u]
      BY <1>2, <3>1, <3>2
    <3>3. CASE outbox'[u] # outbox[u]
      <4>1. PICK m \in Mail : /\ outbox'[u] = Append(o, m)
                              /\ m.kind \in {"offer", "answer"} /\ page[u].seen
        BY <1>2, <3>3
      <4>2. page[u].inCall \in BOOLEAN /\ Live(u) \in BOOLEAN
        BY PageTyped DEF Live
      <4>3. InOrder(Append(o, m), Live(u), page[u].inCall)
        BY <2>1, <3>1, <4>1, <4>2, OrderAppend
      <4> QED
        BY <3>1, <4>1, <4>3
    <3> QED
      BY <3>2, <3>3
  <2>7. ASSUME NEW v \in Account \ {u}
        PROVE  Clear(u, v)'
    <3> SUFFICES ASSUME Sane(u), page[u].inCall, Asks(u)', <<u, v>> \notin crossed'
                 PROVE  pc'[u][v] = NoPc
      BY <1>4, <2>5 DEF Clear
    <3>1. Asks(u) /\ Waiting(u)
      <4>1. Has(outbox[u], "join") \/ Has(Tail(inbox[u]), "peers")
        BY <1>1, <1>3, <2>4 DEF Asks
      <4>2. Has(outbox[u], "join") \/ Has(inbox[u], "peers")
        BY <1>1, <4>1, TailHolds
      <4> QED
        BY <1>1, <4>1, <4>2, WaitingAsks DEF Asks
    <3>2. <<u, v>> \notin crossed => pc[u][v] = NoPc
      BY <3>1 DEF VideoInv, Clear
    <3> QED
      BY <3>1, <3>2
  <2>8. ASSUME NEW v \in Account \ {u}
        PROVE  Knows(u, v)'
    <3>1. PICK here \in BOOLEAN : here = Live(v)
      BY DEF Live
    <3> SUFFICES ASSUME Within(u), Sane(v)
                 PROVE  /\ <<u, v>> \notin crossed' /\ pc'[u][v] # NoPc => KnownBehind(Tail(q), here, v, 0)
                        /\ Reports(Tail(q), here, v)
      <4>1. Live(v)' = here
        BY <1>4, <3>1 DEF Live
      <4> QED
        BY <1>3, <2>5, <4>1 DEF Knows
    <3>2. /\ <<u, v>> \notin crossed /\ pc[u][v] # NoPc => KnownBehind(q, here, v, 0)
          /\ Reports(q, here, v)
      BY <1>1, <3>1 DEF VideoInv, Knows
    <3>3. /\ Reports(Tail(q), here, v)
          /\ KnownBehind(q, here, v, 0) /\ ~IsLeft(h, v) => KnownBehind(Tail(q), here, v, 0)
          /\ Brings(h, v) /\ ~Has(Tail(q), "peers") => KnownBehind(Tail(q), here, v, 0)
      BY <1>1, <3>2, TailReports
    <3>4. Has(Tail(q), "peers") => Waiting(u)
      BY <1>1, WaitingAsks
    <3>5. \/ pc'[u][v] = NoPc
          \/ /\ pc[u][v] # NoPc /\ ~IsLeft(h, v)
             /\ <<u, v>> \in crossed => <<u, v>> \in crossed'
          \/ Brings(h, v) /\ (Waiting(u) => <<u, v>> \in crossed')
      OBVIOUS
    <3> QED
      BY <3>2, <3>3, <3>4, <3>5
  <2>9. \A v \in Account \ {u} : Knows(v, u)'
    BY <1>3, <1>4, <1>5, <2>5, UntoldKnow
  <2>10. ASSUME NEW v \in Account \ {u}
         PROVE  Hears(u, v)'
    <3>1. Hears(u, v)
      BY DEF VideoInv
    <3>2. PICK here \in BOOLEAN : here = TRUE
      OBVIOUS
    <3>3. Followed(q, v) => Followed(Tail(q), v)
      BY <1>1, <3>2, TailReports
    <3> QED
      BY <1>1, <1>3, <1>4, <2>5, <3>1, <3>3 DEF Hears
  <2>11. ASSUME NEW v \in Account \ {u}
         PROVE  Hears(v, u)'
    <3> SUFFICES ASSUME Within(v), Within(u)
                 PROVE  Followed(inbox[v], u) \/ ~Nothing(outbox'[u], v) \/ HasJoined(Tail(q), v)
      BY <1>3, <2>5 DEF Hears
    <3>1. Followed(inbox[v], u) \/ ~Nothing(outbox[u], v) \/ HasJoined(q, v)
      BY <1>1 DEF VideoInv, Hears
    <3>2. ~Nothing(outbox[u], v) => ~Nothing(outbox'[u], v)
      BY <1>2, <1>6
    <3>3. HasJoined(q, v) => HasJoined(Tail(q), v) \/ (h.kind = "joined" /\ h.who = v)
      BY <1>1, TailHolds
    <3> QED
      BY <3>1, <3>2, <3>3
  <2>12. \A v \in Account \ {u} : Meshed(u, v)'
    BY <1>8, <2>5 DEF Meshed
  <2> QED
    BY <1>5, <2>2, <2>6, <2>7, <2>8, <2>9, <2>10, <2>11, <2>12, OthersKeep
<1> QED
  BY <1>7, <1>8

(* A message of another leaves the negotiation with v where it is.         *)
LEMMA MeshKept ==
  ASSUME VideoInv, NEW u \in Account, NEW v \in Account \ {u},
         Within(u), Within(v), Uncrossed(u, v),
         pc'[u][v] = pc[u][v] \/ pc[u][v] = NoPc, pc'[v] = pc[v],
         outbox'[v] = outbox[v], inbox'[v] = inbox[v],
         Alike(outbox[u], outbox'[u], v), Alike(inbox[u], inbox'[u], v)
  PROVE  (Handshake(u, v) \/ Handshake(v, u))'
<1>1. Handshake(u, v) \/ Handshake(v, u)
  BY DEF VideoInv, Meshed
<1>2. Alike(outbox[v], outbox'[v], u) /\ Alike(inbox[v], inbox'[v], u)
  BY AlikeFacts
<1>3. pc'[v][u] = pc[v][u]
  OBVIOUS
<1> QED
  BY <1>1, <1>2, <1>3, HandshakeKept

(* One connection is set.                                                  *)
LEMMA SetPc ==
  ASSUME VideoInv, NEW u \in Account, NEW w \in Account, NEW c \in PeerConnection,
         pc' = [pc EXCEPT ![u][w] = c]
  PROVE  /\ pc' \in [Account -> [Account -> PeerConnection]]
         /\ pc'[u][w] = c
         /\ \A v \in Account \ {w} : pc'[u][v] = pc[u][v]
         /\ \A x \in Account \ {u} : pc'[x] = pc[x]
<1> QED
  BY Typed

LEMMA SetMade ==
  ASSUME VideoInv, NEW u \in Account, NEW w \in Account, NEW n \in Nat,
         made' = [made EXCEPT ![u][w] = n]
  PROVE  made' \in [Account -> [Account -> Nat]]
<1> QED
  BY Typed

LEMMA NewPcFacts ==
  ASSUME VideoInv, NEW u \in Account, NEW v \in Account
  PROVE  /\ made[u][v] \in Nat
         /\ NewPc(u, v) = [id |-> made[u][v] + 1, local |-> "none", remote |-> Unknown]
         /\ NewPc(u, v) \in PeerConnection
         /\ pc[u][v] \in PeerConnection
         /\ NoPc \in PeerConnection
         /\ Unknown \in Description
<1>1. made[u][v] \in Nat /\ pc[u][v] \in PeerConnection
  BY Typed
<1>2. NewPc(u, v) = [id |-> made[u][v] + 1, local |-> "none", remote |-> Unknown]
  BY DEF NewPc, NoPc
<1>3. Unknown \in Description
  BY DEF Unknown, Description
<1>4. NewPc(u, v) \in PeerConnection
  BY <1>1, <1>2, <1>3 DEF PeerConnection
<1>5. NoPc \in PeerConnection
  BY <1>3 DEF PeerConnection, NoPc
<1> QED
  BY <1>1, <1>2, <1>3, <1>4, <1>5

LEMMA EarlyFacts ==
  ASSUME NEW u \in Account, NEW S, Early(u, S)
  PROVE  /\ \A w \in Account \ {u} : \A v \in Account : <<w, v>> \in crossed' <=> <<w, v>> \in crossed
         /\ \A v \in Account : <<u, v>> \in crossed => <<u, v>> \in crossed'
         /\ \A v \in S : Waiting(u) => <<u, v>> \in crossed'
<1> QED
  BY DEF Early

LEMMA MissedFacts ==
  ASSUME VideoInv, NEW u \in Account, Missed(u)
  PROVE  /\ \A w \in Account \ {u} : w \in astray' <=> w \in astray
         /\ u \in astray' \/ (astray' = astray /\ (page[u].seen <=> page[u].inCall))
<1> QED
  BY PageTyped DEF Missed

(* The answer to a join: connections to all who are there.                 *)
LEMMA PeersKeeps ==
  ASSUME VideoInv, NEW u \in Account, Peers(u)
  PROVE  VideoInv'
<1>1. PICK h \in Mail : h = Head(inbox[u]) /\ h.kind = "peers" /\ inbox[u] # << >>
  BY DoneFacts DEF Peers, Receives
<1>2. PICK new : new = IF page[u].seen THEN {v \in h.peers : pc[u][v] = NoPc} ELSE {}
  OBVIOUS
<1>3. /\ pc' = [pc EXCEPT ![u] = [v \in Account |-> IF v \in new THEN NewPc(u, v) ELSE pc[u][v]]]
      /\ made' = [made EXCEPT ![u] = [v \in Account |-> IF v \in new THEN made[u][v] + 1 ELSE made[u][v]]]
      /\ Early(u, new) /\ Done(u) /\ Missed(u)
      /\ UNCHANGED <<page, camera, outbox, entry, channel, closing, joins, turns>>
  BY <1>1, <1>2 DEF Peers, server
<1>4. /\ pc' \in [Account -> [Account -> PeerConnection]]
      /\ \A v \in Account : pc'[u][v] = IF v \in new THEN NewPc(u, v) ELSE pc[u][v]
      /\ \A w \in Account \ {u} : pc'[w] = pc[w]
  <2>1. PICK row : row = [v \in Account |-> IF v \in new THEN NewPc(u, v) ELSE pc[u][v]]
    OBVIOUS
  <2>2. row \in [Account -> PeerConnection]
    BY <2>1, NewPcFacts
  <2>3. pc' = [pc EXCEPT ![u] = row]
    BY <1>3, <2>1
  <2>4. pc'[u] = row /\ pc' \in [Account -> [Account -> PeerConnection]]
        /\ \A w \in Account \ {u} : pc'[w] = pc[w]
    BY <2>2, <2>3, Typed
  <2> QED
    BY <2>1, <2>4
<1>5. made' \in [Account -> [Account -> Nat]]
  <2>1. PICK row : row = [v \in Account |-> IF v \in new THEN made[u][v] + 1 ELSE made[u][v]]
    OBVIOUS
  <2>2. row \in [Account -> Nat]
    BY <2>1, NewPcFacts
  <2>3. made' = [made EXCEPT ![u] = row]
    BY <1>3, <2>1
  <2> QED
    BY <2>2, <2>3, Typed
<1>6. VideoTypes'
  <2>1. inbox' \in [Account -> Seq(Mail)]
    BY <1>1, <1>3, DoneFacts
  <2> QED
    BY <1>3, <1>4, <1>5, <2>1 DEF VideoInv, VideoTypes
<1>7. TakesOnly(u)
  BY <1>1, <1>3, <1>4, EarlyFacts, MissedFacts DEF TakesOnly
<1>8. CASE u \in astray'
  BY <1>6, <1>7, <1>8, TakeStruck
<1>9. CASE u \notin astray'
  <2>1. astray' = astray
    BY <1>3, <1>9, MissedFacts
  <2>2. \A v \in Account : page[u].seen \/ pc'[u][v] = pc[u][v]
    BY <1>2, <1>4
  <2>3. ASSUME NEW v \in Account \ {u}
        PROVE  \/ pc'[u][v] = NoPc
               \/ /\ pc[u][v] # NoPc /\ ~IsLeft(h, v)
                  /\ <<u, v>> \in crossed => <<u, v>> \in crossed'
               \/ Brings(h, v) /\ (Waiting(u) => <<u, v>> \in crossed')
    <3>1. CASE v \in new
      <4>1. Brings(h, v)
        BY <1>1, <1>2, <3>1 DEF Brings
      <4> QED
        BY <1>3, <3>1, <4>1, EarlyFacts
    <3>2. CASE v \notin new
      BY <1>1, <1>3, <1>4, <3>2, EarlyFacts DEF IsLeft
    <3> QED
      BY <3>1, <3>2
  <2>4. ASSUME NEW v \in Account \ {u}, Within(u), Within(v), Uncrossed(u, v)'
        PROVE  (Handshake(u, v) \/ Handshake(v, u))'
    <3>1. h.who # v
      BY <1>1 DEF Mail
    <3>2. Uncrossed(u, v)
      BY <1>3, <2>4, EarlyFacts DEF Uncrossed
    <3>3. pc'[u][v] = pc[u][v] \/ pc[u][v] = NoPc
      BY <1>2, <1>4
    <3>4. Alike(inbox[u], Tail(inbox[u]), v) /\ inbox'[u] = Tail(inbox[u]) /\ inbox'[v] = inbox[v]
      BY <1>1, <1>3, <3>1, DoneFacts, AlikeFacts
    <3>5. Alike(outbox[u], outbox'[u], v)
      BY <1>3, AlikeFacts
    <3> QED
      BY <1>3, <1>4, <2>4, <3>2, <3>3, <3>4, <3>5, MeshKept
  <2> QED
    BY <1>1, <1>3, <1>6, <1>7, <2>1, <2>2, <2>3, <2>4, TakeKeeps
<1> QED
  BY <1>8, <1>9

(* Another has left; what was under way of it before has been told.        *)
LEMMA PeerLeftKeeps ==
  ASSUME VideoInv, NEW u \in Account, PeerLeft(u)
  PROVE  VideoInv'
<1>1. PICK h \in Mail : h = Head(inbox[u]) /\ h.kind = "left" /\ inbox[u] # << >>
  BY DoneFacts DEF PeerLeft, Receives
<1>2. PICK w \in Account : w = h.who
  BY <1>1 DEF Mail
<1>3. /\ pc' = [pc EXCEPT ![u][w] = NoPc]
      /\ crossed' = IF Between(u, w) THEN crossed ELSE crossed \ {<<u, w>>}
      /\ Done(u)
      /\ UNCHANGED <<page, camera, made, outbox, entry, channel, closing, joins, turns, astray>>
  BY <1>1, <1>2 DEF PeerLeft, server
<1>4. /\ pc' \in [Account -> [Account -> PeerConnection]] /\ pc'[u][w] = NoPc
      /\ \A v \in Account \ {w} : pc'[u][v] = pc[u][v]
      /\ \A x \in Account \ {u} : pc'[x] = pc[x]
  BY <1>3, NewPcFacts, SetPc
<1>5. VideoTypes'
  <2>1. inbox' \in [Account -> Seq(Mail)]
    BY <1>1, <1>3, DoneFacts
  <2> QED
    BY <1>3, <1>4, <2>1 DEF VideoInv, VideoTypes
<1>6. /\ \A x \in Account \ {u} : \A v \in Account : <<x, v>> \in crossed' <=> <<x, v>> \in crossed
      /\ \A v \in Account \ {w} : <<u, v>> \in crossed => <<u, v>> \in crossed'
      /\ \A v \in Account : <<u, v>> \in crossed' => <<u, v>> \in crossed
  BY <1>3
<1>7. TakesOnly(u)
  BY <1>1, <1>3, <1>4, <1>6 DEF TakesOnly
<1>8. ASSUME NEW v \in Account \ {u}
      PROVE  \/ pc'[u][v] = NoPc
             \/ /\ pc[u][v] # NoPc /\ ~IsLeft(h, v)
                /\ <<u, v>> \in crossed => <<u, v>> \in crossed'
  BY <1>2, <1>4, <1>6 DEF IsLeft
<1>9. ASSUME NEW v \in Account \ {u}, Within(u), Within(v), Uncrossed(u, v)'
      PROVE  (Handshake(u, v) \/ Handshake(v, u))'
  <2>1. inbox'[u] = Tail(inbox[u]) /\ inbox'[v] = inbox[v] /\ Alike(inbox[u], Tail(inbox[u]), v)
    BY <1>1, <1>3, DoneFacts, AlikeFacts
  <2>2. Alike(outbox[u], outbox'[u], v)
    BY <1>3, AlikeFacts
  <2>3. CASE v # w
    <3>1. Uncrossed(u, v) /\ pc'[u][v] = pc[u][v]
      BY <1>4, <1>6, <1>9, <2>3 DEF Uncrossed
    <3> QED
      BY <1>3, <1>4, <1>9, <2>1, <2>2, <3>1, MeshKept
  <2>4. CASE v = w
    <3>1. Between(u, v)
      <4>1. PICK q \in Seq(Mail) : q = inbox[u] /\ q # << >>
        BY <1>1, Typed
      <4>2. /\ \A i \in DOMAIN inbox[u] : inbox[u][i] \in Range(inbox[u])
            /\ \A i \in DOMAIN inbox[v] : inbox[v][i] \in Range(inbox[v])
            /\ \A i \in DOMAIN outbox[v] : outbox[v][i] \in Range(outbox[v])
        BY DEF Range
      <4>3. Followed(q, v) \/ ~Nothing(outbox[v], u) \/ HasJoined(inbox[v], u)
        BY <1>9, <4>1 DEF VideoInv, Hears
      <4>4. CASE Followed(q, v)
        <5>1. 1 \in DOMAIN q /\ IsLeft(q[1], v)
          BY <1>1, <1>2, <2>4, <4>1, TailPlaces DEF IsLeft
        <5>2. PICK j \in DOMAIN q : q[j].who = v /\ q[j].kind # "left"
          BY <4>4, <5>1 DEF Followed
        <5> QED
          BY <4>1, <4>2, <5>2 DEF Between, Pending
      <4>5. CASE ~Nothing(outbox[v], u)
        BY <4>2, <4>5 DEF Nothing, Between, Pending
      <4>6. CASE HasJoined(inbox[v], u)
        BY <4>2, <4>6 DEF HasJoined, Between, Pending
      <4> QED
        BY <4>3, <4>4, <4>5, <4>6
    <3>2. Handshake(u, v) \/ Handshake(v, u)
      BY <1>3, <1>9, <2>4, <3>1 DEF VideoInv, Meshed, Uncrossed
    <3>3. ~Nothing(inbox[u], v) /\ ~NoLeft(inbox[u], v)
      BY <1>1, <1>2, <2>4, DoneFacts, TailHolds, <1>3 DEF IsLeft
    <3>4. Announced(u, v) \/ Offered(u, v) \/ Announced(v, u)
      BY <3>2, <3>3 DEF Handshake, Offered, Answered, Agreed
    <3>5. /\ \A m : One(inbox[u], v, m) /\ m.who = v /\ m.kind # "left" => One(inbox'[u], v, m)
          /\ OnlyLeft(inbox[u], v) => OnlyLeft(inbox'[u], v)
      BY <2>1 DEF Alike
    <3>6. /\ Plain("joined", v).who = v /\ Plain("joined", v).kind # "left"
          /\ \A by, to : Signal("offer", v, by, to).who = v /\ Signal("offer", v, by, to).kind # "left"
      BY SignalFields DEF Plain
    <3>7. Announced(u, v) => Announced(u, v)'
      BY <1>3, <2>1, <3>5 DEF Announced
    <3>8. Announced(v, u) => Announced(v, u)'
      BY <1>3, <2>1, <3>5, <3>6 DEF Announced
    <3>9. Offered(u, v) => Offered(u, v)'
      BY <1>3, <1>4, <2>1, <3>5, <3>6 DEF Offered, Offers
    <3> QED
      BY <3>4, <3>7, <3>8, <3>9 DEF Handshake
  <2> QED
    BY <2>3, <2>4
<1>10. \A v \in Account : pc'[u][v] = pc[u][v] \/ pc'[u][v] = NoPc
  BY <1>4
<1> QED
  BY <1>1, <1>3, <1>5, <1>7, <1>8, <1>9, <1>10, TakeKeeps

(* The head of what u is told is of v and is not that v has left: then it  *)
(* is the one message that the negotiation has for u.                      *)
LEMMA HeadIsOne ==
  ASSUME VideoInv, NEW u \in Account, inbox[u] # << >>, Done(u),
         NEW v, Head(inbox[u]).who = v, Head(inbox[u]).kind # "left"
  PROVE  /\ ~Nothing(inbox[u], v) /\ ~OnlyLeft(inbox[u], v)
         /\ \A m : One(inbox[u], v, m) /\ m.who = v /\ m.kind # "left" =>
              Head(inbox[u]) = m /\ Nothing(inbox'[u], v)
<1>1. PICK q \in Seq(Mail) : q = inbox[u]
  BY Typed
<1>2. q # << >> /\ Head(q).who = v /\ Head(q).kind # "left" /\ inbox'[u] = Tail(q)
  BY <1>1, DoneFacts
<1>3. ~Nothing(q, v) /\ ~OnlyLeft(q, v)
  BY <1>2, TailHolds
<1>4. ASSUME NEW m, One(q, v, m), m.who = v, m.kind # "left"
      PROVE  Head(q) = m /\ Nothing(Tail(q), v)
  <2>1. IF Head(q) = m THEN Nothing(Tail(q), v) ELSE Head(q).who = v => Head(q).kind = "left"
    BY <1>2, <1>4, TailHolds
  <2> QED
    BY <1>2, <2>1
<1> QED
  BY <1>1, <1>2, <1>3, <1>4

(* Another has joined: the announcement becomes an offer.                  *)
LEMMA PeerJoinedKeeps ==
  ASSUME VideoInv, NEW u \in Account, PeerJoined(u)
  PROVE  VideoInv'
<1>1. PICK h \in Mail : h = Head(inbox[u]) /\ h.kind = "joined" /\ inbox[u] # << >>
  BY DoneFacts DEF PeerJoined, Receives
<1>2. PICK w \in Account : w = h.who
  BY <1>1 DEF Mail
<1>3. PICK c \in PeerConnection : /\ c = [NewPc(u, w) EXCEPT !.local = "offer"]
                                  /\ c.id = made[u][w] + 1 /\ c.local = "offer" /\ c.remote = Unknown
                                  /\ c # NoPc /\ c.id \in Nat
  <2>1. PICK x : x = NewPc(u, w)
    OBVIOUS
  <2>2. x = [id |-> made[u][w] + 1, local |-> "none", remote |-> Unknown] /\ made[u][w] + 1 \in Nat
    BY <2>1, NewPcFacts
  <2>3. PICK y : y = [x EXCEPT !.local = "offer"]
    OBVIOUS
  <2>4. y = [id |-> made[u][w] + 1, local |-> "offer", remote |-> Unknown]
    BY <2>2, <2>3
  <2>5. y \in PeerConnection
    BY <2>2, <2>4, NewPcFacts DEF PeerConnection
  <2>6. y # NoPc
    BY <2>4 DEF NoPc
  <2> QED
    BY <2>1, <2>2, <2>3, <2>4, <2>5, <2>6
<1>4. PICK m \in Mail : m = Signal("offer", w, c.id, 0) /\ m.who = w /\ m.kind = "offer"
  BY <1>3, MessageFacts, SignalFields
<1>5. /\ Early(u, {w}) /\ Done(u) /\ Missed(u)
      /\ UNCHANGED <<page, camera, entry, channel, closing, joins, turns>>
  BY <1>1, <1>2 DEF PeerJoined, server
<1>6. IF page[u].seen
      THEN /\ pc' = [pc EXCEPT ![u][w] = c]
           /\ made' = [made EXCEPT ![u][w] = made[u][w] + 1]
           /\ Emit(u, <<m>>)
      ELSE UNCHANGED <<pc, made, outbox>>
  BY <1>1, <1>2, <1>3, <1>4, Typed DEF PeerJoined
<1>7. /\ pc' \in [Account -> [Account -> PeerConnection]]
      /\ pc'[u][w] = IF page[u].seen THEN c ELSE pc[u][w]
      /\ \A v \in Account \ {w} : pc'[u][v] = pc[u][v]
      /\ \A x \in Account \ {u} : pc'[x] = pc[x]
  <2>1. CASE page[u].seen
    BY <1>6, <2>1, SetPc
  <2>2. CASE ~page[u].seen
    BY <1>6, <2>2, Typed
  <2> QED
    BY <2>1, <2>2
<1>8. made' \in [Account -> [Account -> Nat]]
  <2>1. CASE page[u].seen
    BY <1>3, <1>6, <2>1, SetMade
  <2>2. CASE ~page[u].seen
    BY <1>6, <2>2, Typed
  <2> QED
    BY <2>1, <2>2
<1>9. /\ outbox' \in [Account -> Seq(Mail)]
      /\ outbox'[u] = IF page[u].seen THEN Append(outbox[u], m) ELSE outbox[u]
      /\ \A x \in Account \ {u} : outbox'[x] = outbox[x]
  <2>1. CASE page[u].seen
    BY <1>6, <2>1, EmitFacts
  <2>2. CASE ~page[u].seen
    BY <1>6, <2>2, Typed
  <2> QED
    BY <2>1, <2>2
<1>10. VideoTypes'
  <2>1. inbox' \in [Account -> Seq(Mail)]
    BY <1>1, <1>5, DoneFacts
  <2> QED
    BY <1>5, <1>7, <1>8, <1>9, <2>1 DEF VideoInv, VideoTypes
<1>11. TakesOnly(u)
  BY <1>1, <1>5, <1>7, <1>9, EarlyFacts, MissedFacts DEF TakesOnly
<1>12. CASE u \in astray'
  BY <1>10, <1>11, <1>12, TakeStruck
<1>13. CASE u \notin astray'
  <2>1. astray' = astray /\ (page[u].seen <=> page[u].inCall)
    BY <1>5, <1>13, MissedFacts
  <2>2. ASSUME NEW v \in Account \ {u}
        PROVE  \/ pc'[u][v] = NoPc
               \/ /\ pc[u][v] # NoPc /\ ~IsLeft(h, v)
                  /\ <<u, v>> \in crossed => <<u, v>> \in crossed'
               \/ Brings(h, v) /\ (Waiting(u) => <<u, v>> \in crossed')
    <3>1. CASE v = w
      BY <1>1, <1>2, <1>5, <3>1, EarlyFacts DEF Brings
    <3>2. CASE v # w
      BY <1>1, <1>5, <1>7, <3>2, EarlyFacts DEF IsLeft
    <3> QED
      BY <3>1, <3>2
  <2>3. PICK o \in Seq(Mail) : o = outbox[u]
    BY Typed
  <2>4. ASSUME Within(u)
        PROVE  ~Nothing(outbox'[u], w)
    <3>1. outbox'[u] = Append(o, m)
      BY <1>9, <2>1, <2>3, <2>4 DEF Within
    <3>2. Nothing(Append(o, m), w) => m.who # w
      BY AppendOwn
    <3> QED
      BY <1>4, <3>1, <3>2
  <2>5. ASSUME NEW v \in Account \ {u}, Within(u), Within(v), Uncrossed(u, v)'
        PROVE  (Handshake(u, v) \/ Handshake(v, u))'
    <3>1. Uncrossed(u, v) /\ inbox'[u] = Tail(inbox[u]) /\ inbox'[v] = inbox[v]
      BY <1>1, <1>5, <2>5, EarlyFacts, DoneFacts DEF Uncrossed
    <3>2. outbox'[u] = Append(o, m)
      BY <1>9, <2>1, <2>3, <2>5 DEF Within
    <3>3. CASE v # w
      <4>1. Alike(inbox[u], inbox'[u], v) /\ Alike(outbox[u], outbox'[u], v)
        <5>1. Alike(inbox[u], inbox'[u], v)
          BY <1>1, <1>2, <1>5, <3>1, <3>3, DoneFacts, AlikeFacts
        <5>2. Alike(o, Append(o, m), v)
          BY <1>4, <3>3, AlikeFacts
        <5> QED
          BY <2>3, <3>2, <5>1, <5>2
      <4> QED
        BY <1>7, <1>9, <2>5, <3>1, <3>3, <4>1, MeshKept
    <3>4. CASE v = w
      <4>1. /\ ~Nothing(inbox[u], v) /\ ~OnlyLeft(inbox[u], v)
            /\ \A x : One(inbox[u], v, x) /\ x.who = v /\ x.kind # "left" => h = x /\ Nothing(inbox'[u], v)
        BY <1>1, <1>2, <1>5, <3>4, HeadIsOne
      <4>2. /\ \A by, to : Signal("offer", v, by, to).who = v /\ Signal("offer", v, by, to).kind = "offer"
            /\ \A by, to : Signal("answer", v, by, to).who = v /\ Signal("answer", v, by, to).kind = "answer"
            /\ Plain("joined", v).who = v /\ Plain("joined", v).kind = "joined"
        BY SignalFields DEF Plain
      <4>3. Handshake(u, v) \/ Handshake(v, u)
        BY <2>5, <3>1 DEF VideoInv, Meshed
      <4>4. ~Handshake(u, v)
        BY <1>1, <4>1, <4>2 DEF Handshake, Announced, Offered, Answered, Agreed
      <4>5. Announced(v, u)
        BY <1>1, <4>1, <4>2, <4>3, <4>4 DEF Handshake, Offered, Answered, Agreed
      <4>6. Nothing(inbox'[u], v)
        BY <4>1, <4>2, <4>5 DEF Announced
      <4>7. One(outbox'[u], v, m)
        <5>1. OnlyLeft(o, v)
          BY <2>3, <4>5 DEF Announced, Nothing, OnlyLeft
        <5>2. One(Append(o, m), m.who, m)
          BY <1>4, <3>4, <5>1, AppendOwn
        <5> QED
          BY <1>4, <3>2, <3>4, <5>2
      <4>8. pc'[u][v] = c
        BY <1>7, <2>1, <2>5, <3>4 DEF Within
      <4>9. Offered(v, u)'
        BY <1>3, <1>4, <1>9, <3>1, <3>4, <4>5, <4>6, <4>7, <4>8 DEF Announced, Offered, Offers
      <4> QED
        BY <4>9 DEF Handshake
    <3> QED
      BY <3>3, <3>4
  <2>6. \A v \in Account : page[u].seen \/ pc'[u][v] = pc[u][v]
    BY <1>7
  <2>7. \/ outbox'[u] = outbox[u]
        \/ \E x \in Mail : outbox'[u] = Append(outbox[u], x) /\ x.kind \in {"offer", "answer"} /\ page[u].seen
    BY <1>4, <1>9
  <2> QED
    BY <1>1, <1>2, <1>10, <1>11, <2>1, <2>2, <2>4, <2>5, <2>6, <2>7, TakeKeeps
<1> QED
  BY <1>12, <1>13

(* The offer becomes an answer.                                            *)
LEMMA OfferKeeps ==
  ASSUME VideoInv, NEW u \in Account, Offer(u)
  PROVE  VideoInv'
<1>1. PICK h \in Mail : h = Head(inbox[u]) /\ h.kind = "offer" /\ inbox[u] # << >>
  BY DoneFacts DEF Offer, Receives
<1>2. PICK w \in Account : w = h.who
  BY <1>1 DEF Mail
<1>3. PICK d \in Description : d = h.desc /\ d.by \in Nat
  BY <1>1 DEF Mail, Message, Description
<1>4. PICK b \in PeerConnection : b = IF pc[u][w] = NoPc THEN NewPc(u, w) ELSE pc[u][w]
  BY NewPcFacts
<1>5. PICK c \in PeerConnection : /\ c = [b EXCEPT !.local = "answer", !.remote = d]
                                  /\ c.id = b.id /\ c.local = "answer" /\ c.remote = d
                                  /\ c # NoPc /\ c.id \in Nat
  <2>1. PICK x : x = [b EXCEPT !.local = "answer"]
    OBVIOUS
  <2>2. x = [id |-> b.id, local |-> "answer", remote |-> b.remote] /\ b.id \in Nat
    BY <2>1 DEF PeerConnection
  <2>3. PICK y : y = [x EXCEPT !.remote = d]
    OBVIOUS
  <2>4. y = [id |-> b.id, local |-> "answer", remote |-> d]
    BY <2>2, <2>3
  <2>5. y \in PeerConnection
    BY <2>2, <2>4 DEF PeerConnection
  <2>6. y # NoPc
    BY <2>4 DEF NoPc
  <2>7. y = [b EXCEPT !.local = "answer", !.remote = d]
    BY <2>1, <2>3
  <2> QED
    BY <2>2, <2>4, <2>5, <2>6, <2>7
<1>6. PICK m \in Mail : m = Signal("answer", w, c.id, d.by) /\ m.who = w /\ m.kind = "answer"
  BY <1>3, <1>5, MessageFacts, SignalFields
<1>7. /\ Early(u, {w}) /\ Done(u) /\ Missed(u)
      /\ UNCHANGED <<page, camera, entry, channel, closing, joins, turns>>
  BY <1>1, <1>2 DEF Offer, server
<1>8. IF page[u].seen
      THEN /\ pc' = [pc EXCEPT ![u][w] = c]
           /\ made' = [made EXCEPT ![u][w] = b.id]
           /\ Emit(u, <<m>>)
      ELSE UNCHANGED <<pc, made, outbox>>
  BY <1>1, <1>2, <1>3, <1>4, <1>5, <1>6 DEF Offer
<1>9. /\ pc' \in [Account -> [Account -> PeerConnection]]
      /\ pc'[u][w] = IF page[u].seen THEN c ELSE pc[u][w]
      /\ \A v \in Account \ {w} : pc'[u][v] = pc[u][v]
      /\ \A x \in Account \ {u} : pc'[x] = pc[x]
  <2>1. CASE page[u].seen
    BY <1>8, <2>1, SetPc
  <2>2. CASE ~page[u].seen
    BY <1>8, <2>2, Typed
  <2> QED
    BY <2>1, <2>2
<1>10. made' \in [Account -> [Account -> Nat]]
  <2>1. CASE page[u].seen
    BY <1>5, <1>8, <2>1, SetMade
  <2>2. CASE ~page[u].seen
    BY <1>8, <2>2, Typed
  <2> QED
    BY <2>1, <2>2
<1>11. /\ outbox' \in [Account -> Seq(Mail)]
       /\ outbox'[u] = IF page[u].seen THEN Append(outbox[u], m) ELSE outbox[u]
       /\ \A x \in Account \ {u} : outbox'[x] = outbox[x]
  <2>1. CASE page[u].seen
    BY <1>8, <2>1, EmitFacts
  <2>2. CASE ~page[u].seen
    BY <1>8, <2>2, Typed
  <2> QED
    BY <2>1, <2>2
<1>12. VideoTypes'
  <2>1. inbox' \in [Account -> Seq(Mail)]
    BY <1>1, <1>7, DoneFacts
  <2> QED
    BY <1>7, <1>9, <1>10, <1>11, <2>1 DEF VideoInv, VideoTypes
<1>13. TakesOnly(u)
  BY <1>1, <1>7, <1>9, <1>11, EarlyFacts, MissedFacts DEF TakesOnly
<1>14. CASE u \in astray'
  BY <1>12, <1>13, <1>14, TakeStruck
<1>15. CASE u \notin astray'
  <2>1. astray' = astray /\ (page[u].seen <=> page[u].inCall)
    BY <1>7, <1>15, MissedFacts
  <2>2. ASSUME NEW v \in Account \ {u}
        PROVE  \/ pc'[u][v] = NoPc
               \/ /\ pc[u][v] # NoPc /\ ~IsLeft(h, v)
                  /\ <<u, v>> \in crossed => <<u, v>> \in crossed'
               \/ Brings(h, v) /\ (Waiting(u) => <<u, v>> \in crossed')
    <3>1. CASE v = w
      BY <1>1, <1>2, <1>7, <3>1, EarlyFacts DEF Brings
    <3>2. CASE v # w
      BY <1>1, <1>7, <1>9, <3>2, EarlyFacts DEF IsLeft
    <3> QED
      BY <3>1, <3>2
  <2>3. PICK o \in Seq(Mail) : o = outbox[u]
    BY Typed
  <2>4. ASSUME NEW v \in Account \ {u}, Within(u), Within(v), Uncrossed(u, v)'
        PROVE  (Handshake(u, v) \/ Handshake(v, u))'
    <3>1. Uncrossed(u, v) /\ inbox'[u] = Tail(inbox[u]) /\ inbox'[v] = inbox[v]
      BY <1>1, <1>7, <2>4, EarlyFacts, DoneFacts DEF Uncrossed
    <3>2. outbox'[u] = Append(o, m)
      BY <1>11, <2>1, <2>3, <2>4 DEF Within
    <3>3. CASE v # w
      <4>1. Alike(inbox[u], inbox'[u], v) /\ Alike(outbox[u], outbox'[u], v)
        <5>1. Alike(inbox[u], inbox'[u], v)
          BY <1>1, <1>2, <1>7, <3>1, <3>3, DoneFacts, AlikeFacts
        <5>2. Alike(o, Append(o, m), v)
          BY <1>6, <3>3, AlikeFacts
        <5> QED
          BY <2>3, <3>2, <5>1, <5>2
      <4> QED
        BY <1>9, <1>11, <2>4, <3>1, <3>3, <4>1, MeshKept
    <3>4. CASE v = w
      <4>1. /\ ~Nothing(inbox[u], v) /\ ~OnlyLeft(inbox[u], v)
            /\ \A x : One(inbox[u], v, x) /\ x.who = v /\ x.kind # "left" => h = x /\ Nothing(inbox'[u], v)
        BY <1>1, <1>2, <1>7, <3>4, HeadIsOne
      <4>2. /\ \A by, to : Signal("offer", v, by, to).who = v /\ Signal("offer", v, by, to).kind = "offer"
            /\ \A by, to : Signal("offer", v, by, to).desc = [by |-> by, to |-> to]
            /\ \A by, to : Signal("answer", v, by, to).who = v /\ Signal("answer", v, by, to).kind = "answer"
            /\ Plain("joined", v).who = v /\ Plain("joined", v).kind = "joined"
        BY SignalFields DEF Plain
      <4>3. Handshake(u, v) \/ Handshake(v, u)
        BY <2>4, <3>1 DEF VideoInv, Meshed
      <4>4. ~Handshake(v, u)
        BY <1>1, <4>1, <4>2 DEF Handshake, Announced, Offered, Answered, Agreed
      <4>5. Offered(u, v)
        BY <1>1, <4>1, <4>2, <4>3, <4>4 DEF Handshake, Announced, Answered, Agreed
      <4>6. h = Signal("offer", v, pc[v][u].id, 0) /\ Nothing(inbox'[u], v) /\ Nothing(outbox[v], u)
        BY <4>1, <4>2, <4>5 DEF Offered
      <4>7. d.by = pc[v][u].id
        <5>1. d = [by |-> pc[v][u].id, to |-> 0]
          BY <1>3, <4>2, <4>6
        <5> QED
          BY <5>1
      <4>8. One(outbox'[u], v, m)
        <5>1. OnlyLeft(o, v)
          BY <2>3, <4>5 DEF Offered, Nothing, OnlyLeft
        <5>2. One(Append(o, m), m.who, m)
          BY <1>6, <3>4, <5>1, AppendOwn
        <5> QED
          BY <1>6, <3>2, <3>4, <5>2
      <4>9. pc'[u][v] = c /\ pc'[v][u] = pc[v][u]
        BY <1>9, <2>1, <2>4, <3>4 DEF Within
      <4>10. Answered(u, v)'
        BY <1>5, <1>6, <1>11, <3>1, <3>4, <4>5, <4>6, <4>7, <4>8, <4>9 DEF Offered, Answered, Offers, Answers
      <4> QED
        BY <4>10 DEF Handshake
    <3> QED
      BY <3>3, <3>4
  <2>5. \A v \in Account : page[u].seen \/ pc'[u][v] = pc[u][v]
    BY <1>9
  <2>6. \/ outbox'[u] = outbox[u]
        \/ \E x \in Mail : outbox'[u] = Append(outbox[u], x) /\ x.kind \in {"offer", "answer"} /\ page[u].seen
    BY <1>6, <1>11
  <2> QED
    BY <1>1, <1>12, <1>13, <2>1, <2>2, <2>4, <2>5, <2>6, TakeKeeps
<1> QED
  BY <1>14, <1>15

(* The answer is taken: both agree.                                        *)
LEMMA AnswerKeeps ==
  ASSUME VideoInv, NEW u \in Account, Answer(u)
  PROVE  VideoInv'
<1>1. PICK h \in Mail : h = Head(inbox[u]) /\ h.kind = "answer" /\ inbox[u] # << >>
  BY DoneFacts DEF Answer, Receives
<1>2. PICK w \in Account : w = h.who
  BY <1>1 DEF Mail
<1>3. PICK d \in Description : d = h.desc
  BY <1>1 DEF Mail, Message
<1>4. PICK b \in PeerConnection : b = pc[u][w]
  BY NewPcFacts
<1>5. PICK c \in PeerConnection : /\ c = [b EXCEPT !.remote = d]
                                  /\ c.id = b.id /\ c.local = b.local /\ c.remote = d
  <2>1. b = [id |-> b.id, local |-> b.local, remote |-> b.remote]
        /\ b.id \in Nat /\ b.local \in {"none", "offer", "answer"}
    BY DEF PeerConnection
  <2>2. PICK x : x = [b EXCEPT !.remote = d]
    OBVIOUS
  <2>3. x = [id |-> b.id, local |-> b.local, remote |-> d]
    BY <2>1, <2>2
  <2>4. x \in PeerConnection
    BY <2>1, <2>3 DEF PeerConnection
  <2> QED
    BY <2>2, <2>3, <2>4
<1>6. /\ Early(u, {w}) /\ Done(u) /\ Missed(u)
      /\ UNCHANGED <<page, camera, made, outbox, entry, channel, closing, joins, turns>>
  BY <1>1, <1>2 DEF Answer, server
<1>7. pc' = IF page[u].seen /\ AwaitsAnswer(b) THEN [pc EXCEPT ![u][w] = c] ELSE pc
  <2>1. [pc EXCEPT ![u][w].remote = d] = [pc EXCEPT ![u][w] = c]
    BY <1>4, <1>5, Typed
  <2> QED
    BY <1>1, <1>2, <1>3, <1>4, <2>1 DEF Answer
<1>8. /\ pc' \in [Account -> [Account -> PeerConnection]]
      /\ pc'[u][w] = IF page[u].seen /\ AwaitsAnswer(b) THEN c ELSE b
      /\ \A v \in Account \ {w} : pc'[u][v] = pc[u][v]
      /\ \A x \in Account \ {u} : pc'[x] = pc[x]
  <2>1. CASE page[u].seen /\ AwaitsAnswer(b)
    BY <1>7, <2>1, SetPc
  <2>2. CASE ~(page[u].seen /\ AwaitsAnswer(b))
    BY <1>4, <1>7, <2>2, Typed
  <2> QED
    BY <2>1, <2>2
<1>9. AwaitsAnswer(b) => b # NoPc
  BY DEF AwaitsAnswer, NoPc
<1>10. VideoTypes'
  <2>1. inbox' \in [Account -> Seq(Mail)]
    BY <1>1, <1>6, DoneFacts
  <2> QED
    BY <1>6, <1>8, <2>1 DEF VideoInv, VideoTypes
<1>11. TakesOnly(u)
  BY <1>1, <1>6, <1>8, EarlyFacts, MissedFacts DEF TakesOnly
<1>12. CASE u \in astray'
  BY <1>10, <1>11, <1>12, TakeStruck
<1>13. CASE u \notin astray'
  <2>1. astray' = astray /\ (page[u].seen <=> page[u].inCall)
    BY <1>6, <1>13, MissedFacts
  <2>2. \A v \in Account \ {u} :
          \/ pc'[u][v] = NoPc
          \/ /\ pc[u][v] # NoPc /\ ~IsLeft(h, v)
             /\ <<u, v>> \in crossed => <<u, v>> \in crossed'
    BY <1>1, <1>4, <1>6, <1>8, <1>9, EarlyFacts DEF IsLeft
  <2>3. ASSUME NEW v \in Account \ {u}, Within(u), Within(v), Uncrossed(u, v)'
        PROVE  (Handshake(u, v) \/ Handshake(v, u))'
    <3>1. Uncrossed(u, v) /\ inbox'[u] = Tail(inbox[u]) /\ inbox'[v] = inbox[v]
      BY <1>1, <1>6, <2>3, EarlyFacts, DoneFacts DEF Uncrossed
    <3>2. CASE v # w
      <4>1. Alike(inbox[u], inbox'[u], v)
        BY <1>1, <1>2, <1>6, <3>1, <3>2, DoneFacts, AlikeFacts
      <4>2. Alike(outbox[u], outbox'[u], v)
        BY <1>6, AlikeFacts
      <4> QED
        BY <1>6, <1>8, <2>3, <3>1, <3>2, <4>1, <4>2, MeshKept
    <3>3. CASE v = w
      <4>1. /\ ~Nothing(inbox[u], v) /\ ~OnlyLeft(inbox[u], v)
            /\ \A x : One(inbox[u], v, x) /\ x.who = v /\ x.kind # "left" => h = x /\ Nothing(inbox'[u], v)
        BY <1>1, <1>2, <1>6, <3>3, HeadIsOne
      <4>2. /\ \A by, to : Signal("offer", v, by, to).who = v /\ Signal("offer", v, by, to).kind = "offer"
            /\ \A by, to : Signal("answer", v, by, to).who = v /\ Signal("answer", v, by, to).kind = "answer"
            /\ \A by, to : Signal("answer", v, by, to).desc = [by |-> by, to |-> to]
            /\ Plain("joined", v).who = v /\ Plain("joined", v).kind = "joined"
        BY SignalFields DEF Plain
      <4>3. Handshake(u, v) \/ Handshake(v, u)
        BY <2>3, <3>1 DEF VideoInv, Meshed
      <4>4. ~Handshake(u, v)
        BY <1>1, <4>1, <4>2 DEF Handshake, Announced, Offered, Answered, Agreed
      <4>5. Answered(v, u)
        BY <1>1, <4>1, <4>2, <4>3, <4>4 DEF Handshake, Announced, Offered, Agreed
      <4>6. h = Signal("answer", v, pc[v][u].id, pc[u][v].id) /\ Nothing(inbox'[u], v) /\ Nothing(outbox[v], u)
        BY <4>1, <4>2, <4>5 DEF Answered
      <4>7. d = [by |-> pc[v][u].id, to |-> pc[u][v].id]
        BY <1>3, <4>2, <4>6
      <4>8. AwaitsAnswer(b) /\ b.local = "offer"
        BY <1>4, <3>3, <4>5 DEF Answered, Offers, AwaitsAnswer
      <4>9. pc'[u][v] = c /\ pc'[v][u] = pc[v][u] /\ c.id = pc[u][v].id
        BY <1>4, <1>5, <1>8, <2>1, <2>3, <3>3, <4>8 DEF Within
      <4>10. Agreed(v, u)'
        BY <1>5, <1>6, <3>1, <3>3, <4>5, <4>6, <4>7, <4>8, <4>9 DEF Answered, Agreed, Answers
      <4> QED
        BY <4>10 DEF Handshake
    <3> QED
      BY <3>2, <3>3
  <2>4. \A v \in Account : page[u].seen \/ pc'[u][v] = pc[u][v]
    BY <1>4, <1>8
  <2> QED
    BY <1>1, <1>6, <1>10, <1>11, <2>1, <2>2, <2>3, <2>4, TakeKeeps
<1> QED
  BY <1>12, <1>13

(* Nothing is under way between two pages.                                 *)
LEMMA NothingBetween ==
  ASSUME VideoInv, NEW u \in Account, NEW v \in Account, ~Between(u, v)
  PROVE  /\ Nothing(outbox[u], v) /\ OnlyLeft(inbox[u], v)
         /\ Nothing(outbox[v], u) /\ OnlyLeft(inbox[v], u)
<1>1. \A q : \A i \in DOMAIN q : q[i] \in Range(q)
  BY DEF Range
<1> QED
  BY <1>1 DEF Between, Pending, Nothing, OnlyLeft

LEMMA OneIsSomething ==
  ASSUME NEW q, NEW w, NEW m, One(q, w, m), m.who = w, m.kind # "left"
  PROVE  ~Nothing(q, w) /\ ~OnlyLeft(q, w)
<1> QED
  BY DEF One, Nothing, OnlyLeft

(* No connection fails between two pages that are at one of the four places.*)
LEMMA ConnectionFailsKeeps ==
  ASSUME VideoInv, NEW u \in Account, NEW w \in Account \ {u}, ConnectionFails(u, w)
  PROVE  VideoInv'
<1>1. /\ pc[u][w].remote # Unknown /\ ~Paired(u, w) /\ ~Between(u, w)
      /\ pc' = [pc EXCEPT ![u][w] = NoPc]
      /\ UNCHANGED <<page, camera, made, outbox, inbox, entry, channel, closing, joins, turns, astray, crossed>>
  BY DEF ConnectionFails, server
<1>2. /\ pc' \in [Account -> [Account -> PeerConnection]] /\ pc'[u][w] = NoPc
      /\ \A v \in Account \ {w} : pc'[u][v] = pc[u][v]
      /\ \A x \in Account \ {u} : pc'[x] = pc[x]
  BY <1>1, NewPcFacts, SetPc
<1>3. VideoTypes'
  BY <1>1, <1>2 DEF VideoInv, VideoTypes
<1>4. OnlyOf(u)
  BY <1>1, <1>2, Typed DEF OnlyOf
<1>5. \A v \in Account : (Sane(v)' <=> Sane(v)) /\ (Within(v)' <=> Within(v)) /\ (Live(v)' <=> Live(v))
  BY <1>1 DEF Sane, Within, Live
<1>6. Sound(u)' /\ Lined(u)'
  BY <1>1, <1>2, <1>5 DEF VideoInv, Sound, Lined, Live
<1>7. ASSUME NEW v \in Account \ {u}
      PROVE  Clear(u, v)' /\ Knows(u, v)' /\ Hears(u, v)' /\ Hears(v, u)'
  <2>1. pc'[u][v] = pc[u][v] \/ pc'[u][v] = NoPc
    BY <1>2
  <2>2. Clear(u, v) /\ Knows(u, v) /\ Hears(u, v) /\ Hears(v, u)
    BY DEF VideoInv
  <2>3. Clear(u, v)'
    BY <1>1, <1>5, <2>1, <2>2 DEF Clear, Asks
  <2>4. Knows(u, v)'
    BY <1>1, <1>5, <2>1, <2>2 DEF Knows, Live
  <2>5. Hears(u, v)' /\ Hears(v, u)'
    BY <1>1, <1>5, <2>2 DEF Hears
  <2> QED
    BY <2>3, <2>4, <2>5
<1>8. \A v \in Account \ {u} : Knows(v, u)'
  BY <1>1, <1>4, <1>5, UntoldKnow
<1>9. ASSUME NEW v \in Account \ {u}
      PROVE  Meshed(u, v)'
  <2> SUFFICES ASSUME Within(u), Within(v), Uncrossed(u, v)
               PROVE  (Handshake(u, v) \/ Handshake(v, u))'
    BY <1>1, <1>5 DEF Meshed, Uncrossed
  <2>1. CASE v # w
    <3>1. Alike(inbox[u], inbox'[u], v) /\ Alike(outbox[u], outbox'[u], v)
      BY <1>1, AlikeFacts
    <3> QED
      BY <1>1, <1>2, <2>1, <3>1, MeshKept
  <2>2. CASE v = w
    <3>1. Handshake(u, v) \/ Handshake(v, u)
      BY DEF VideoInv, Meshed
    <3>2. /\ Nothing(outbox[u], v) /\ OnlyLeft(inbox[u], v)
          /\ Nothing(outbox[v], u) /\ OnlyLeft(inbox[v], u)
      BY <1>1, <2>2, NothingBetween
    <3>3. \A x \in {u, v} : Plain("joined", x).who = x /\ Plain("joined", x).kind # "left"
      BY DEF Plain
    <3>4. ~Announced(u, v) /\ ~Announced(v, u)
      BY <3>2, <3>3, OneIsSomething DEF Announced
    <3>5. ASSUME NEW k \in {"offer", "answer"}, NEW by, NEW to
          PROVE  /\ ~One(outbox[u], v, Signal(k, v, by, to)) /\ ~One(inbox[u], v, Signal(k, v, by, to))
                 /\ ~One(outbox[v], u, Signal(k, u, by, to)) /\ ~One(inbox[v], u, Signal(k, u, by, to))
      <4>1. /\ Signal(k, v, by, to).who = v /\ Signal(k, v, by, to).kind = k
            /\ Signal(k, u, by, to).who = u /\ Signal(k, u, by, to).kind = k
        BY SignalFields
      <4>2. k # "left"
        OBVIOUS
      <4> QED
        BY <3>2, <4>1, <4>2, OneIsSomething
    <3>6. ~Offered(u, v) /\ ~Offered(v, u) /\ ~Answered(u, v) /\ ~Answered(v, u)
      BY <3>5 DEF Offered, Answered
    <3>7. Agreed(u, v) => Paired(u, v)
      BY DEF Agreed, Answers, Paired
    <3>8. Agreed(v, u) => Paired(u, v)
      BY DEF Agreed, Answers, Paired
    <3> QED
      BY <1>1, <2>2, <3>1, <3>4, <3>6, <3>7, <3>8 DEF Handshake
  <2> QED
    BY <2>1, <2>2
<1> QED
  BY <1>3, <1>4, <1>6, <1>7, <1>8, <1>9, OthersKeep

-----------------------------------------------------------------------------
(* A page is let into the call.                                            *)
LEMMA JoinCallKeeps ==
  ASSUME VideoInv, NEW u \in Account, JoinCall(u)
  PROVE  VideoInv'
<1>1. /\ outbox[u] # << >> /\ Head(outbox[u]).kind = "join" /\ Hear(u)
      /\ UNCHANGED <<page, camera, pc, made, closing, joins, turns, astray>>
  BY DEF JoinCall
<1>2. /\ outbox'[u] = Tail(outbox[u]) /\ outbox' \in [Account -> Seq(Mail)]
      /\ \A w \in Account \ {u} : outbox'[w] = outbox[w]
      /\ outbox[u] \in Seq(Mail) /\ Head(outbox[u]) \in Mail
  BY <1>1, HearFacts
<1>3. joins <= joins'
  BY <1>1, Typed
<1>4. PICK q \in Seq(Mail) : q = inbox[u]
  BY Typed
<1>5. CASE Full(u)
  <2>1. PICK m \in Mail : m = Plain("full", None) /\ m.kind = "full"
    BY MessageFacts
  <2>2. /\ inbox' = Tell({u}, m)
        /\ UNCHANGED <<entry, channel, crossed>>
    BY <1>5, <2>1 DEF JoinCall
  <2>3. /\ inbox' \in [Account -> Seq(Mail)] /\ inbox'[u] = Append(q, m)
        /\ \A w \in Account \ {u} : inbox'[w] = inbox[w]
    <3>1. PICK S : S = {u}
      OBVIOUS
    <3>2. inbox' = Tell(S, m)
      BY <2>2, <3>1
    <3>3. /\ inbox' \in [Account -> Seq(Mail)]
          /\ \A w \in Account : inbox'[w] = IF w \in S THEN Append(inbox[w], m) ELSE inbox[w]
      BY <3>2, TellFacts
    <3> QED
      BY <1>4, <3>1, <3>3
  <2>4. VideoTypes'
    BY <1>1, <1>2, <2>2, <2>3 DEF VideoInv, VideoTypes
  <2>5. OnlyOf(u)
    BY <1>1, <1>2, <1>3, <2>2, <2>3 DEF OnlyOf
  <2>6. Sound(u)'
    <3>1. u \in closing' \/ entry'[u] = "dead" => u \in astray'
      BY <1>1, <2>2 DEF VideoInv, Sound
    <3> QED
      BY <1>1, <3>1, ServerSound
  <2>7. ~Sane(u)'
    <3>1. Has(Append(q, m), "full")
      BY <2>1, AppendOwn
    <3> QED
      BY <2>3, <3>1 DEF Sane
  <2> QED
    BY <2>4, <2>5, <2>6, <2>7, StruckKeeps
<1>6. CASE ~Full(u)
  <2>1. PICK n : n = [Plain("peers", None) EXCEPT !.peers = OthersIn(u)]
    OBVIOUS
  <2>2. n \in Mail /\ n.kind = "peers" /\ n.who = None /\ n.peers = OthersIn(u)
    BY <2>1, VideoAssumptions DEF Plain, Mail, Message, OthersIn, Participants, Unknown, Description
  <2>3. PICK m \in Mail : m = Plain("joined", u) /\ m.kind = "joined" /\ m.who = u
    BY MessageFacts
  <2>4. /\ entry' = [entry EXCEPT ![u] = "live"]
        /\ inbox' = [Tell(channel \ {u}, m) EXCEPT ![u] = Append(inbox[u], n)]
        /\ channel' = channel \cup {u}
        /\ crossed' = crossed \cup UNION {{<<u, v>>, <<v, u>>} : v \in {w \in Account \ {u} : Between(u, w)}}
    BY <1>6, <2>1, <2>3 DEF JoinCall
  <2>5. /\ inbox' \in [Account -> Seq(Mail)] /\ inbox'[u] = Append(q, n)
        /\ \A w \in Account \ {u} : inbox'[w] = IF w \in channel THEN Append(inbox[w], m) ELSE inbox[w]
    <3>1. PICK i : i = Tell(channel \ {u}, m)
      OBVIOUS
    <3>2. /\ i \in [Account -> Seq(Mail)]
          /\ \A w \in Account \ {u} : i[w] = IF w \in channel THEN Append(inbox[w], m) ELSE inbox[w]
      <4>1. \A x \in Seq(Mail) : Append(x, m) \in Seq(Mail)
        OBVIOUS
      <4> QED
        BY <3>1, <4>1, Typed DEF Tell
    <3>3. inbox' = [i EXCEPT ![u] = Append(q, n)] /\ Append(q, n) \in Seq(Mail)
      BY <1>4, <2>2, <2>4, <3>1
    <3> QED
      BY <3>2, <3>3
  <2>6. /\ \A w, v \in Account : <<w, v>> \in crossed => <<w, v>> \in crossed'
        /\ \A v \in Account \ {u} : Between(u, v) => <<u, v>> \in crossed' /\ <<v, u>> \in crossed'
        /\ \A w, v \in Account \ {u} : <<w, v>> \in crossed' <=> <<w, v>> \in crossed
    BY <2>4
  <2>7. /\ entry' \in [Account -> {"none", "live", "dead"}] /\ entry'[u] = "live"
        /\ \A w \in Account \ {u} : entry'[w] = entry[w]
    BY <2>4, Typed
  <2>8. VideoTypes'
    BY <1>1, <1>2, <2>4, <2>5, <2>7 DEF VideoInv, VideoTypes
  <2>9. OnlyOf(u)
    <3>1. m.kind \notin {"peers", "full"}
      BY <2>3
    <3>2. \A w \in Account \ {u} : (w \in channel' <=> w \in channel)
      BY <2>4
    <3> QED
      BY <1>1, <1>2, <1>3, <2>3, <2>5, <2>6, <2>7, <3>1, <3>2 DEF OnlyOf
  <2>10. Sound(u)'
    <3>1. u \in closing' \/ entry'[u] = "dead" => u \in astray'
      BY <1>1, <2>7 DEF VideoInv, Sound
    <3> QED
      BY <1>1, <3>1, ServerSound
  <2>11. CASE ~Sane(u)'
    BY <2>8, <2>9, <2>10, <2>11, StruckKeeps
  <2>12. CASE Sane(u)'
    <3>1. /\ Has(inbox'[u], "full") <=> Has(inbox[u], "full")
          /\ Has(inbox'[u], "peers")
          /\ \A v : HasJoined(inbox[u], v) => HasJoined(inbox'[u], v)
      BY <1>4, <2>2, <2>5, AppendOwn
    <3>2. Sane(u) /\ Live(u)' /\ \A w \in Account \ {u} : Live(w)' <=> Live(w)
      BY <1>1, <2>7, <2>12, <3>1 DEF Sane, Live
    <3>3. ASSUME NEW w \in Account \ {u}
          PROVE  (Sane(w)' => Sane(w)) /\ (Within(w)' => Within(w))
      <4>1. Has(inbox[w], "full") => Has(inbox'[w], "full")
        <5>1. PICK x \in Seq(Mail) : x = inbox[w]
          BY Typed
        <5>2. Has(x, "full") => Has(Append(x, m), "full")
          BY AppendOwn
        <5> QED
          BY <2>5, <5>1, <5>2
      <4> QED
        BY <1>1, <1>2, <4>1 DEF Sane, Within
    <3>4. Lined(u)'
      <4>1. InOrder(outbox'[u], TRUE, page'[u].inCall)
        BY <1>1, <3>2, HeardFacts
      <4>2. (entry'[u] = "live") = TRUE /\ u \in channel'
        BY <2>4, <2>7
      <4>3. InOrder(outbox'[u], entry'[u] = "live", page'[u].inCall)
        BY <4>1, <4>2
      <4> QED
        BY <4>2, <4>3 DEF Lined, Live
    <3>5. ASSUME NEW v \in Account \ {u}
          PROVE  Clear(u, v)'
      <4>1. Asks(u)
        BY <1>1, <1>2, TailHolds DEF Asks
      <4> QED
        BY <1>1, <2>6, <3>2, <4>1 DEF VideoInv, Clear
    <3>6. ASSUME NEW v \in Account \ {u}
          PROVE  Knows(u, v)'
      <4>1. PICK here \in BOOLEAN : here = Live(v)
        BY DEF Live
      <4> SUFFICES ASSUME Within(u)', Sane(v)'
                   PROVE  /\ <<u, v>> \notin crossed' /\ pc'[u][v] # NoPc => KnownBehind(Append(q, n), here, v, 0)
                          /\ Reports(Append(q, n), here, v)
        <5>1. Live(v)' = here
          BY <2>7, <4>1 DEF Live
        <5> QED
          BY <2>5, <5>1 DEF Knows
      <4>2. <<u, v>> \notin crossed' => pc'[u][v] = NoPc
        BY <3>1, <3>5 DEF Clear, Asks, Within
      <4>3. Brings(n, v) => here
        <5>1. Sane(v) /\ Sound(v)
          BY <3>3 DEF VideoInv
        <5>2. v \in OthersIn(u) => entry[v] # "none"
          BY DEF OthersIn, Participants
        <5>3. entry[v] # "dead"
          BY <5>1 DEF Sound, Sane
        <5>4. entry[v] \in {"none", "live", "dead"}
          BY Typed
        <5> QED
          BY <2>2, <4>1, <5>2, <5>3, <5>4 DEF Brings, Live
      <4>4. Reports(Append(q, n), here, v)
        BY <2>2, <4>3, AppendReports
      <4> QED
        BY <4>2, <4>4
    <3>7. \A v \in Account : KnownBehind(inbox[v], Live(u), u, 0)' /\ Reports(inbox[v], Live(u), u)'
      BY <3>2 DEF Reports, KnownBehind
    <3>8. \A v \in Account \ {u} : Knows(v, u)'
      BY <3>7 DEF Knows
    <3>9. ASSUME NEW v \in Account \ {u}, Within(v)'
          PROVE  /\ inbox'[v] = Append(inbox[v], m)
                 /\ HasJoined(inbox'[v], u) /\ Followed(inbox'[v], u)
                 /\ OnlyLeft(inbox[v], u) => One(inbox'[v], u, m)
      <4>1. inbox'[v] = Append(inbox[v], m)
        BY <2>5, <3>3, <3>9, WithinLive
      <4>2. PICK x \in Seq(Mail) : x = inbox[v]
        BY Typed
      <4>3. /\ HasJoined(Append(x, m), u)
            /\ OnlyLeft(x, u) => One(Append(x, m), u, m)
        BY <2>3, AppendOwn
      <4>4. Followed(Append(x, m), u)
        BY <2>3, AppendFollowed
      <4> QED
        BY <4>1, <4>2, <4>3, <4>4
    <3>10. \A v \in Account \ {u} : Hears(u, v)' /\ Hears(v, u)'
      BY <3>9 DEF Hears
    <3>11. ASSUME NEW v \in Account \ {u}
           PROVE  Meshed(u, v)'
      <4> SUFFICES ASSUME Within(v)', Uncrossed(u, v)'
                   PROVE  Announced(u, v)'
        BY DEF Meshed, Handshake
      <4>1. ~Between(u, v)
        BY <2>6 DEF Uncrossed
      <4>2. /\ Nothing(outbox[u], v) /\ OnlyLeft(inbox[u], v)
            /\ Nothing(outbox[v], u) /\ OnlyLeft(inbox[v], u)
        BY <4>1, NothingBetween
      <4>3. Nothing(outbox'[u], v) /\ Nothing(outbox'[v], u)
        BY <1>1, <1>2, <4>2, TailHolds
      <4>4. OnlyLeft(inbox'[u], v)
        <5>1. n.who # v
          BY <2>2, VideoAssumptions
        <5> QED
          BY <1>4, <2>2, <2>5, <4>2, <5>1, AppendOthers
      <4>5. One(inbox'[v], u, Plain("joined", u))
        BY <2>3, <3>9, <4>2
      <4> QED
        BY <4>3, <4>4, <4>5 DEF Announced
    <3> QED
      BY <2>8, <2>9, <2>10, <3>4, <3>5, <3>6, <3>8, <3>10, <3>11, OthersKeep
  <2> QED
    BY <2>11, <2>12
<1> QED
  BY <1>5, <1>6

-----------------------------------------------------------------------------
(* The specification.                                                      *)
LEMMA VideoInit_Inv ==
  ASSUME VideoInit
  PROVE  VideoInv
<1>1. << >> \in Seq(Mail) /\ DOMAIN (<< >>) = {}
  OBVIOUS
<1>2. /\ \A k : ~Has(<< >>, k)
      /\ InOrder(<< >>, FALSE, FALSE)
      /\ \A here, w : Reports(<< >>, here, w)
  <2>1. Len(<< >>) + 1 = 1
    BY <1>1
  <2>2. OutAt(<< >>, FALSE, Len(<< >>) + 1)
    BY <2>1 DEF OutAt
  <2> QED
    BY <1>1, <2>2 DEF Has, InOrder, Reports
<1>3. /\ \A u \in Account :
           /\ page[u] = Lobby /\ camera[u] = [held |-> FALSE, left |-> FALSE]
           /\ outbox[u] = << >> /\ inbox[u] = << >> /\ entry[u] = "none"
           /\ \A v \in Account : pc[u][v] = NoPc
      /\ channel = {} /\ closing = {} /\ joins = 0 /\ turns = 0 /\ astray = {} /\ crossed = {}
  BY DEF VideoInit
<1>4. VideoTypes
  <2>1. Lobby \in Page
    BY VideoAssumptions DEF Lobby, Page
  <2>2. NoPc \in PeerConnection
    BY DEF NoPc, PeerConnection, Unknown, Description
  <2>3. [held |-> FALSE, left |-> FALSE] \in Camera
    BY DEF Camera
  <2>4. page \in [Account -> Page] /\ camera \in [Account -> Camera]
    BY <2>1, <2>3 DEF VideoInit
  <2>5. pc \in [Account -> [Account -> PeerConnection]] /\ made \in [Account -> [Account -> Nat]]
    BY <2>2 DEF VideoInit
  <2>6. /\ outbox \in [Account -> Seq(Mail)] /\ inbox \in [Account -> Seq(Mail)]
        /\ entry \in [Account -> {"none", "live", "dead"}]
    BY <1>1 DEF VideoInit
  <2> QED
    BY <1>3, <2>4, <2>5, <2>6, VideoAssumptions DEF VideoTypes
<1>5. ASSUME NEW u \in Account
      PROVE  Sound(u) /\ Lined(u) /\ ~Within(u)
  <2>1. ~page[u].inCall /\ page[u].inCall = FALSE /\ ~page[u].seen /\ page[u].prompts = 0 /\ page[u].stale = 0
    BY <1>3 DEF Lobby
  <2>2. Sound(u)
    BY <1>3, <2>1 DEF Sound
  <2>3. (entry[u] = "live") = FALSE
    BY <1>3
  <2>4. InOrder(outbox[u], entry[u] = "live", page[u].inCall)
    BY <1>2, <1>3, <2>1, <2>3
  <2>5. Lined(u)
    BY <2>3, <2>4 DEF Lined, Live
  <2> QED
    BY <2>1, <2>2, <2>5 DEF Within
<1>6. \A u, v \in Account : Clear(u, v) /\ Knows(u, v) /\ Hears(u, v) /\ Meshed(u, v)
  BY <1>3, <1>5 DEF Clear, Knows, Hears, Meshed
<1> QED
  BY <1>4, <1>5, <1>6 DEF VideoInv

LEMMA VideoInv_Stutter ==
  ASSUME VideoInv, UNCHANGED videoVars
  PROVE  VideoInv'
<1>1. UNCHANGED <<page, camera, pc, made, outbox, inbox, entry, channel, closing, joins, turns, astray, crossed>>
  BY DEF videoVars
<1>2. VideoTypes'
  BY <1>1 DEF VideoInv, VideoTypes
<1>3. \A w \in Account : Sound(w)' /\ page'[w].inCall = page[w].inCall
  BY <1>1 DEF VideoInv, Sound
<1> QED
  BY <1>1, <1>2, <1>3, PageKeeps

LEMMA VideoNext_Inv ==
  ASSUME VideoInv, VideoNext
  PROVE  VideoInv'
<1> PICK u \in Account : PageStep(u) \/ ServerStep(u)
  BY DEF VideoNext
<1>1. CASE PageStep(u)
  BY <1>1, ClickJoinKeeps, GrantedKeeps, GrantedLateKeeps, DeniedKeeps, RenderKeeps, LeaveVideoKeeps,
     MoveKeeps, PeersKeeps, PeerJoinedKeeps, PeerLeftKeeps, OfferKeeps, AnswerKeeps, RefusedKeeps,
     ConnectionFailsKeeps
  DEF PageStep
<1>2. CASE ServerStep(u)
  BY <1>2, JoinCallKeeps, LeaveCallKeeps, LeaveChannelKeeps, RelayKeeps, DropKeeps, CleanUpKeeps DEF ServerStep
<1> QED
  BY <1>1, <1>2

LEMMA VideoInvHolds == VideoSpec => []VideoInv
<1>1. VideoInv /\ [VideoNext]_videoVars => VideoInv'
  BY VideoNext_Inv, VideoInv_Stutter
<1> QED
  BY VideoInit_Inv, <1>1, PTL DEF VideoSpec

(* What each page shows, its connections and the messages are what their   *)
(* types say, for any members, size of the call and bounds.                *)
THEOREM VideoTypeCorrect == VideoSpec => []VideoTypeOK
<1>1. VideoInv => VideoTypeOK
  <2> SUFFICES ASSUME VideoInv
               PROVE  VideoTypeOK
    OBVIOUS
  <2>1. ASSUME NEW u \in Account
        PROVE  \A m \in Range(outbox[u]) \cup Range(inbox[u]) : m \in Message
    <3>1. PICK p \in Seq(Mail) : p = outbox[u]
      BY Typed
    <3>2. PICK q \in Seq(Mail) : q = inbox[u]
      BY Typed
    <3>3. Mail \subseteq Message
      BY DEF Mail
    <3>4. (\A i \in DOMAIN p : p[i] \in Message) /\ (\A i \in DOMAIN q : q[i] \in Message)
      BY <3>3
    <3> QED
      BY <3>1, <3>2, <3>4 DEF Range
  <2> QED
    BY <2>1, Typed DEF VideoTypeOK
<1> QED
  BY <1>1, VideoInvHolds, PTL

(* When all is said, the pages that show the call are the participants the *)
(* server has, but for those that a refusal, a lost socket, a second click *)
(* or a late answer for the camera has led astray.                         *)
THEOREM ShownIsInProved == VideoSpec => []ShownIsIn
<1>1. VideoInv => ShownIsIn
  <2> SUFFICES ASSUME VideoInv, NEW u \in Account \ astray, Settled(u)
               PROVE  entry[u] = "live" <=> page[u].inCall
    BY DEF ShownIsIn
  <2>1. outbox[u] = << >> /\ inbox[u] = << >>
    BY DEF Settled
  <2>2. \A k : ~Has(<< >>, k)
    BY DEF Has
  <2>3. Sane(u)
    BY <2>1, <2>2 DEF Sane
  <2>4. InOrder(outbox[u], Live(u), page[u].inCall)
    BY <2>3 DEF VideoInv, Lined
  <2>5. outbox[u] \in Seq(Mail) /\ page[u].inCall \in BOOLEAN /\ Live(u) \in BOOLEAN
    BY Typed, PageTyped DEF Live
  <2> QED
    BY <2>1, <2>2, <2>4, <2>5, OrderFacts DEF Live
<1> QED
  BY <1>1, VideoInvHolds, PTL

(* When all is said between two pages, the one in the call is connected    *)
(* with the other if that is in it too, both with the descriptions of the  *)
(* present connections, and has none to it otherwise.                      *)
THEOREM MeshIsCompleteProved == VideoSpec => []MeshIsComplete
<1>1. VideoInv => MeshIsComplete
  <2> SUFFICES ASSUME VideoInv, NEW u \in Account \ astray, NEW v \in Account \ astray,
                      u # v, <<u, v>> \notin crossed, <<v, u>> \notin crossed,
                      Settled(u), Settled(v), page[u].inCall
               PROVE  IF page[v].inCall THEN Paired(u, v) ELSE pc[u][v] = NoPc
    BY DEF MeshIsComplete
  <2>1. /\ outbox[u] = << >> /\ inbox[u] = << >> /\ outbox[v] = << >> /\ inbox[v] = << >>
        /\ Uncrossed(u, v)
    BY DEF Settled, Uncrossed
  <2>2. /\ \A k : ~Has(<< >>, k)
        /\ \A w, m : ~One(<< >>, w, m)
        /\ \A w, i : ~\E j \in DOMAIN (<< >>) : j > i /\ IsLeft((<< >>)[j], w)
    BY DEF Has, One
  <2>3. Sane(u) /\ Sane(v) /\ Within(u)
    BY <2>1, <2>2 DEF Sane, Within
  <2>4. CASE page[v].inCall
    <3>1. Within(v)
      BY <2>1, <2>2, <2>3, <2>4 DEF Within
    <3>2. Agreed(u, v) \/ Agreed(v, u)
      BY <2>1, <2>2, <2>3, <3>1 DEF VideoInv, Meshed, Handshake, Announced, Offered, Answered
    <3> QED
      BY <2>4, <3>2 DEF Agreed, Answers, Paired
  <2>5. CASE ~page[v].inCall
    <3>1. ~Live(v)
      <4>1. InOrder(outbox[v], Live(v), page[v].inCall)
        BY <2>3 DEF VideoInv, Lined
      <4>2. outbox[v] \in Seq(Mail) /\ page[v].inCall \in BOOLEAN /\ Live(v) \in BOOLEAN
        BY Typed, PageTyped DEF Live
      <4> QED
        BY <2>1, <2>2, <2>5, <4>1, <4>2, OrderFacts
    <3>2. ~KnownBehind(inbox[u], Live(v), v, 0)
      BY <2>1, <2>2, <3>1 DEF KnownBehind
    <3>3. pc[u][v] = NoPc
      BY <2>1, <2>3, <3>2 DEF VideoInv, Knows, Uncrossed
    <3> QED
      BY <2>5, <3>3
  <2> QED
    BY <2>4, <2>5
<1> QED
  BY <1>1, VideoInvHolds, PTL

(* The camera is off on a page that is not in a call and does not ask for  *)
(* it, with the same exceptions.                                           *)
THEOREM RoomCameraOffProved == VideoSpec => []CameraOff
<1>1. VideoInv => CameraOff
  <2> SUFFICES ASSUME VideoInv, NEW u \in Account \ astray, ~page[u].inCall
               PROVE  camera[u] = [held |-> FALSE, left |-> FALSE]
    BY DEF CameraOff
  <2>1. camera[u] \in [held : BOOLEAN, left : BOOLEAN]
    BY Typed DEF Camera
  <2>2. ~camera[u].held /\ ~camera[u].left
    BY DEF VideoInv, Sound
  <2>3. camera[u] = [held |-> camera[u].held, left |-> camera[u].left]
        /\ camera[u].held = FALSE /\ camera[u].left = FALSE
    BY <2>1, <2>2
  <2> QED
    BY <2>3
<1> QED
  BY <1>1, VideoInvHolds, PTL
=============================================================================
