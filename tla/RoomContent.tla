---------------------------- MODULE RoomContent ----------------------------
(***************************************************************************)
(* What the members of a room put into it, messages, task cards and        *)
(* resources, and everything that takes it out again: the handlers of the  *)
(* items, deleteRoom and deleteAccount (messageController.js,              *)
(* taskController.js, resourceController.js, roomController.js and         *)
(* authController.js of backend/controllers/).                             *)
(*                                                                         *)
(* Every handler looks at the room or the item, decides, and writes later, *)
(* and no write asks again what the decision rested on.  Members and       *)
(* admins are sets here and change in one step: their list is the module   *)
(* RoomMembership.                                                         *)
(*                                                                         *)
(* Not here: due dates and reminders (DeadlineReminders), the texts, the   *)
(* order and the status of a task, who has read a message, the events that *)
(* follow a write, the ninety days after which messages go.                *)
(***************************************************************************)
EXTENDS Naturals, FiniteSets

CONSTANTS
  Account,    \* accounts
  Owner,      \* the account that created the room
  NoAccount,  \* null where an account may stand
  Message, Task, Resource,  \* items, by kind
  NoItem,     \* the item of a request that has none
  Request     \* requests being served at the same time

Item == Message \cup Task \cup Resource

ASSUME Assumptions ==
  /\ Owner \in Account
  /\ NoAccount \notin Account
  /\ NoItem \notin Item
  /\ Message \cap Task = {} /\ Message \cap Resource = {} /\ Task \cap Resource = {}

VARIABLES
  account,    \* the accounts that are stored
  room,       \* is the room stored?
  member,     \* its members
  admin,      \* those of them that are admins
  item,       \* the items' documents
  job,        \* what each request has read and does next
  removal,    \* which handler removed the room (history)
  swept,      \* kinds of which the removal has deleted the room's (history)
  erased      \* kinds of which an account's were deleted with it (history)

roomVars == <<room, member, admin, removal, swept>>
vars == <<account, roomVars, item, job, erased>>

Kind == {"message", "task", "resource"}

OfKind(k) == CASE k = "message" -> Message
               [] k = "task" -> Task
               [] k = "resource" -> Resource

AccountOrNone == Account \cup {NoAccount}

(* "late" says after which deletion of its kind the item was stored.       *)
Doc == [stored : BOOLEAN, by : AccountOrNone, assignee : AccountOrNone,
        late : SUBSET {"room", "account"}]

EmptyDoc == [stored |-> FALSE, by |-> NoAccount, assignee |-> NoAccount, late |-> {}]

Erasure == {"leaveRooms", "ownedRooms", "ownedMessages", "dropRooms", "ownTasks",
            "unassign", "ownResources", "ownMessages", "account"}

Job == [step : {"idle", "create", "check", "write", "join", "sweep", "dropRoom"}
               \cup Erasure,
        op : {"none", "update", "claim", "delete"},
        user : AccountOrNone,
        item : Item \cup {NoItem},
        assigns : BOOLEAN,            \* will the save send the assignee?
        assignee : AccountOrNone,
        kinds : SUBSET Kind]          \* still to be swept

Idle == [step |-> "idle", op |-> "none", user |-> NoAccount, item |-> NoItem,
         assigns |-> FALSE, assignee |-> NoAccount, kinds |-> {}]

Init ==
  /\ account = Account
  /\ room = TRUE
  /\ member = {Owner}
  /\ admin = {}
  /\ item = [i \in Item |-> EmptyDoc]
  /\ job = [r \in Request |-> Idle]
  /\ removal = "none"
  /\ swept = {}
  /\ erased = [u \in Account |-> {}]

(* protect lets a request in whose account is stored.                      *)
Begin(r, u, j) ==
  /\ u \in account
  /\ job[r] = Idle
  /\ job' = [job EXCEPT ![r] = [j EXCEPT !.user = u]]

Goes(r, step) == job' = [job EXCEPT ![r].step = step]

Finish(r) == job' = [job EXCEPT ![r] = Idle]

Remove(S) == item' = [i \in Item |-> IF i \in S THEN [EmptyDoc EXCEPT !.by = item[i].by]
                                     ELSE item[i]]

-----------------------------------------------------------------------------
(* sendMessage, createTask and createResource: the room and the sender's   *)
(* membership are read, then the item is stored, whatever became of them.  *)

MayAdd(u) == room /\ u \in member

CreateFind(r, u, i, a) ==
  /\ MayAdd(u)
  /\ item[i].by = NoAccount
  /\ \A q \in Request : job[q].item # i
  /\ i \in Task \/ a = NoAccount
  /\ Begin(r, u, [Idle EXCEPT !.step = "create", !.item = i, !.assignee = a])
  /\ UNCHANGED <<account, roomVars, item, erased>>

Late(i, u) == {x \in {"room", "account"} :
                 \E k \in Kind : i \in OfKind(k) /\ k \in (IF x = "room" THEN swept ELSE erased[u])}

CreateStore(r) ==
  LET j == job[r] IN
  /\ j.step = "create"
  /\ item' = [item EXCEPT ![j.item] =
                [EmptyDoc EXCEPT !.stored = TRUE, !.by = j.user, !.assignee = j.assignee,
                                 !.late = Late(j.item, j.user)]]
  /\ Finish(r)
  /\ UNCHANGED <<account, roomVars, erased>>

(***************************************************************************)
(* updateTask, claimTask, deleteTask, updateResource, deleteResource: the  *)
(* item is read first, then the room, and then the change is written.      *)
(***************************************************************************)
Find(r, u, i, op, assigns, a) ==
  /\ item[i].stored
  /\ Begin(r, u, [Idle EXCEPT !.step = "check", !.op = op, !.item = i,
                              !.assigns = assigns, !.assignee = a])
  /\ UNCHANGED <<account, roomVars, item, erased>>

(* The assignee is sent if the request gives one and the copy has another. *)
UpdateFind(r, u, i, given, a) ==
  /\ i \in Task \/ (i \in Resource /\ ~given)
  /\ given \/ a = NoAccount
  /\ Find(r, u, i, "update", given /\ a # item[i].assignee, a)

(* Who has the task gives it back, anybody else takes it.                  *)
ClaimFind(r, u, t) ==
  Find(r, u, t, "claim", TRUE, IF item[t].assignee = u THEN NoAccount ELSE u)

DeleteFind(r, u, i) ==
  /\ i \in Task \cup Resource
  /\ Find(r, u, i, "delete", FALSE, NoAccount)

(* Any member changes a task; to delete it, or to change or delete a       *)
(* resource, one must own the room, have made the item, or be an admin.    *)
Allowed(j) ==
  IF j.item \in Task /\ j.op # "delete"
  THEN j.user \in member
  ELSE j.user = Owner \/ j.user = item[j.item].by \/ j.user \in admin

(* A handler that finds no room throws.                                    *)
Check(r) ==
  /\ job[r].step = "check"
  /\ IF room /\ Allowed(job[r]) THEN Goes(r, "write") ELSE Finish(r)
  /\ UNCHANGED <<account, roomVars, item, erased>>

(* The save of an item that is gone is refused.                            *)
Write(r) ==
  LET j == job[r] IN
  /\ j.step = "write"
  /\ IF j.op = "delete" THEN Remove({j.item})
     ELSE item' = [item EXCEPT ![j.item].assignee =
                     IF item[j.item].stored /\ j.assigns THEN j.assignee ELSE @]
  /\ Finish(r)
  /\ UNCHANGED <<account, roomVars, erased>>

-----------------------------------------------------------------------------
(* joinRoom in its two steps, leaveRoom, toggleRoomAdmin.                  *)
JoinFind(r, u) ==
  /\ room
  /\ u \notin member
  /\ Begin(r, u, [Idle EXCEPT !.step = "join"])
  /\ UNCHANGED <<account, roomVars, item, erased>>

JoinPush(r) ==
  /\ job[r].step = "join"
  /\ member' = IF room THEN member \cup {job[r].user} ELSE member
  /\ Finish(r)
  /\ UNCHANGED <<account, room, admin, removal, swept, item, erased>>

Leave(u) ==
  /\ room
  /\ u \in (member \cap account) \ {Owner}
  /\ member' = member \ {u}
  /\ admin' = admin \ {u}
  /\ UNCHANGED <<account, room, removal, swept, item, job, erased>>

(* Seeded fault: the account of the path is not looked for in the list.    *)
Anybody(u) == u # Owner

Listed(u) == u \in member \ {Owner}

ToggleAdmin(u) ==
  /\ room
  /\ Listed(u)
  /\ admin' = IF u \in admin THEN admin \ {u} ELSE admin \cup {u}
  /\ UNCHANGED <<account, room, member, removal, swept, item, job, erased>>

-----------------------------------------------------------------------------
(* deleteRoom: the three deletions run side by side, the room goes last.   *)
DeleteRoomFind(r) ==
  /\ room
  /\ Begin(r, Owner, [Idle EXCEPT !.step = "sweep", !.kinds = Kind])
  /\ UNCHANGED <<account, roomVars, item, erased>>

(* Seeded fault: the first deletion to end is waited for, not all.         *)
AnySwept(left) == "dropRoom"

AllSwept(left) == IF left = {} THEN "dropRoom" ELSE "sweep"

Sweep(r, k) ==
  LET left == job[r].kinds \ {k} IN
  /\ job[r].step = "sweep"
  /\ k \in job[r].kinds
  /\ Remove({i \in OfKind(k) : item[i].stored})
  /\ swept' = swept \cup {k}
  /\ job' = [job EXCEPT ![r].kinds = left, ![r].step = AllSwept(left)]
  /\ UNCHANGED <<account, room, member, admin, removal, erased>>

RoomRemoved(why) ==
  /\ room' = FALSE
  /\ member' = {}
  /\ admin' = {}
  /\ removal' = IF room THEN why ELSE removal

DropRoom(r) ==
  /\ job[r].step = "dropRoom"
  /\ RoomRemoved("room")
  /\ Finish(r)
  /\ UNCHANGED <<account, swept, item, erased>>

-----------------------------------------------------------------------------
(* deleteAccount, its writes one after the other.                          *)
EraseFind(r, u) ==
  /\ Begin(r, u, [Idle EXCEPT !.step = "leaveRooms"])
  /\ UNCHANGED <<account, roomVars, item, erased>>

EraseLeaves(r) ==
  LET u == job[r].user IN
  /\ job[r].step = "leaveRooms"
  /\ member' = member \ ({u} \ {Owner})
  /\ admin' = admin \ ({u} \ {Owner})
  /\ Goes(r, "ownedRooms")
  /\ UNCHANGED <<account, room, removal, swept, item, erased>>

EraseFindsRooms(r) ==
  /\ job[r].step = "ownedRooms"
  /\ Goes(r, IF job[r].user = Owner /\ room THEN "ownedMessages" ELSE "ownTasks")
  /\ UNCHANGED <<account, roomVars, item, erased>>

EraseOwnedMessages(r) ==
  /\ job[r].step = "ownedMessages"
  /\ Remove({i \in Message : item[i].stored})
  /\ swept' = swept \cup {"message"}
  /\ Goes(r, "dropRooms")
  /\ UNCHANGED <<account, room, member, admin, removal, erased>>

EraseOwnedRooms(r) ==
  /\ job[r].step = "dropRooms"
  /\ RoomRemoved("account")
  /\ Goes(r, "ownTasks")
  /\ UNCHANGED <<account, swept, item, erased>>

(* Seeded fault: what the account is assigned to is taken for its own.     *)
Assigned(u, k) == {i \in OfKind(k) : item[i].stored /\ item[i].assignee = u}

(* Tasks made by the account, then resources, then messages; between tasks *)
(* and resources it is taken off the tasks of others.                      *)
Own(u, k) == {i \in OfKind(k) : item[i].stored /\ item[i].by = u}

EraseOwn(r, step, k, next) ==
  LET u == job[r].user IN
  /\ job[r].step = step
  /\ Remove(Own(u, k))
  /\ erased' = [erased EXCEPT ![u] = @ \cup {k}]
  /\ Goes(r, next)
  /\ UNCHANGED <<account, roomVars>>

EraseUnassigns(r) ==
  /\ job[r].step = "unassign"
  /\ item' = [i \in Item |-> IF item[i].assignee = job[r].user
                             THEN [item[i] EXCEPT !.assignee = NoAccount] ELSE item[i]]
  /\ Goes(r, "ownResources")
  /\ UNCHANGED <<account, roomVars, erased>>

EraseAccount(r) ==
  /\ job[r].step = "account"
  /\ account' = account \ {job[r].user}
  /\ Finish(r)
  /\ UNCHANGED <<roomVars, item, erased>>

Erase(r) ==
  \/ EraseLeaves(r)
  \/ EraseFindsRooms(r)
  \/ EraseOwnedMessages(r)
  \/ EraseOwnedRooms(r)
  \/ EraseOwn(r, "ownTasks", "task", "unassign")
  \/ EraseUnassigns(r)
  \/ EraseOwn(r, "ownResources", "resource", "ownMessages")
  \/ EraseOwn(r, "ownMessages", "message", "account")
  \/ EraseAccount(r)

(* A stop of the server.  What is late is late with respect to a deletion  *)
(* that went through, so the history of one that did not is forgotten.     *)
Restart ==
  /\ job' = [r \in Request |-> Idle]
  /\ swept' = IF room THEN {} ELSE swept
  /\ erased' = [u \in Account |-> IF u \in account THEN {} ELSE erased[u]]
  /\ item' = [i \in Item |->
                [item[i] EXCEPT !.late = @ \ ({x \in {"room"} : room}
                                             \cup {x \in {"account"} : item[i].by \in account})]]
  /\ UNCHANGED <<account, room, member, admin, removal>>

-----------------------------------------------------------------------------
Handle(r) ==
  \/ CreateStore(r)
  \/ Check(r)
  \/ Write(r)
  \/ JoinPush(r)
  \/ \E k \in Kind : Sweep(r, k)
  \/ DropRoom(r)
  \/ Erase(r)

Ask(r, u) ==
  \/ \E i \in Item, a \in AccountOrNone : CreateFind(r, u, i, a)
  \/ \E i \in Item, given \in BOOLEAN, a \in AccountOrNone : UpdateFind(r, u, i, given, a)
  \/ \E t \in Task : ClaimFind(r, u, t)
  \/ \E i \in Item : DeleteFind(r, u, i)
  \/ JoinFind(r, u)
  \/ EraseFind(r, u)
  \/ u = Owner /\ DeleteRoomFind(r)

Next ==
  \/ \E r \in Request : Handle(r) \/ \E u \in Account : Ask(r, u)
  \/ \E u \in Account : Leave(u) \/ ToggleAdmin(u)
  \/ Restart

Spec == Init /\ [][Next]_vars

-----------------------------------------------------------------------------
TypeOK ==
  /\ account \subseteq Account
  /\ room \in BOOLEAN
  /\ member \subseteq Account
  /\ admin \subseteq member
  /\ item \in [Item -> Doc]
  /\ job \in [Request -> Job]
  /\ removal \in {"none", "room", "account"}
  /\ swept \subseteq Kind
  /\ erased \in [Account -> SUBSET Kind]

(* An item that outlives its room was stored after its kind had been       *)
(* deleted: by a request that had seen the room (deleteRoom, all kinds;    *)
(* deleteAccount, messages only).                                          *)
OrphanIsLate ==
  \A i \in Item :
    ~room /\ item[i].stored /\ (i \in Message \/ removal = "room") => "room" \in item[i].late

(* What an account made and is stored after the account was deleted, was   *)
(* stored by a request of its own that was already past its checks.        *)
ErasedAuthorIsLate ==
  \A i \in Item : item[i].stored /\ item[i].by \notin account => "account" \in item[i].late

=============================================================================
