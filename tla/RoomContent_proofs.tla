------------------------- MODULE RoomContent_proofs -------------------------
(***************************************************************************)
(* Theorems about what rooms hold (RoomContent) and about the reminders of *)
(* their tasks (DeadlineReminders), for any number of accounts, items,     *)
(* tasks, requests, servers and dates.                                     *)
(*                                                                         *)
(* What rooms hold: from the moment a deletion has gone over a kind, an    *)
(* item of that kind that is stored was stored later, and is marked so.    *)
(* What remains is to know which kinds a handler has gone over by the time *)
(* it deletes the room or the account, and that is what Progress says.     *)
(*                                                                         *)
(* Reminders: a worker that is about to mark a task has just stored a      *)
(* notification about it, notifications are never taken back, and no other *)
(* save sets the mark.                                                     *)
(***************************************************************************)
EXTENDS RoomContent, DeadlineReminders, TLAPS

(* What is stored although a deletion of the room's items of its kind has  *)
(* passed, was stored after it; and the same for an author's items.        *)
SweptLate ==
  \A i \in Item, k \in Kind :
    k \in swept /\ i \in OfKind(k) /\ item[i].stored => "room" \in item[i].late

ErasedLate ==
  \A i \in Item, u \in Account, k \in Kind :
    k \in erased[u] /\ i \in OfKind(k) /\ item[i].stored /\ item[i].by = u
      => "account" \in item[i].late

Authored == \A i \in Item : item[i].stored => item[i].by \in Account

(* What a handler has already deleted, by the step that it takes next.     *)
Progress(j) ==
  /\ j.step # "idle" => j.user \in Account
  /\ j.step \in {"create", "write"} => j.item \in Item
  /\ j.step = "check" => j.item \in Item
  /\ j.step = "sweep" => Kind \ j.kinds \subseteq swept
  /\ j.step = "dropRoom" => Kind \subseteq swept
  /\ j.step = "dropRooms" => "message" \in swept
  /\ j.step \in {"unassign", "ownResources"} => "task" \in erased[j.user]
  /\ j.step = "ownMessages" => {"task", "resource"} \subseteq erased[j.user]
  /\ j.step = "account" => Kind \subseteq erased[j.user]

JobsInv == \A r \in Request : Progress(job[r])

RoomGone ==
  /\ room => removal = "none"
  /\ ~room => "message" \in swept
  /\ removal = "room" => Kind \subseteq swept

AccountGone == \A u \in Account \ account : Kind \subseteq erased[u]

Inv ==
  /\ TypeOK
  /\ SweptLate
  /\ ErasedLate
  /\ Authored
  /\ JobsInv
  /\ RoomGone
  /\ AccountGone

-----------------------------------------------------------------------------
LEMMA IdleFacts == Idle \in Job /\ Idle.step = "idle" /\ Progress(Idle)
BY DEF Idle, Job, Progress, AccountOrNone

LEMMA EmptyDocFacts ==
  EmptyDoc \in Doc /\ ~EmptyDoc.stored
BY DEF EmptyDoc, Doc, AccountOrNone

LEMMA KindFacts ==
  /\ \A k \in Kind : OfKind(k) \subseteq Item
  /\ \A i \in Item : \E k \in Kind : i \in OfKind(k)
  /\ \A i \in Message : i \in OfKind("message")
BY DEF Kind, OfKind, Item

(* Nothing is stored that was not, and what stays keeps author and mark.   *)
Fewer ==
  /\ item' \in [Item -> Doc]
  /\ \A i \in Item : item'[i].stored => /\ item[i].stored
                                        /\ item'[i].by = item[i].by
                                        /\ item'[i].late = item[i].late

LEMMA RemoveFacts ==
  ASSUME TypeOK, NEW S, Remove(S)
  PROVE  /\ Fewer
         /\ \A i \in Item : i \in S => ~item'[i].stored
<1>1. ASSUME NEW i \in Item
      PROVE  /\ item'[i] \in Doc
             /\ item'[i].stored => i \notin S /\ item'[i] = item[i]
  <2>1. item[i] \in Doc
    BY DEF TypeOK
  <2>2. CASE i \in S
    <3>1. item'[i] = [EmptyDoc EXCEPT !.by = item[i].by]
      BY <2>2 DEF Remove
    <3>2. item[i].by \in AccountOrNone
      BY <2>1 DEF Doc
    <3> QED
      BY <3>1, <3>2 DEF EmptyDoc, Doc, AccountOrNone
  <2>3. CASE i \notin S
    BY <2>1, <2>3 DEF Remove
  <2> QED
    BY <2>2, <2>3
<1>2. item' = [i \in Item |-> item'[i]]
  BY DEF Remove
<1> QED
  BY <1>1, <1>2 DEF Fewer

(* What a step that stores nothing keeps, when it marks nothing as gone.   *)
LEMMA FewerKeeps ==
  ASSUME Inv, Fewer
  PROVE  /\ Authored'
         /\ swept' = swept => SweptLate'
         /\ erased' = erased => ErasedLate'
<1>1. Authored'
  BY DEF Inv, Fewer, Authored
<1>2. swept' = swept => SweptLate'
  BY DEF Inv, Fewer, SweptLate
<1>3. erased' = erased => ErasedLate'
  BY DEF Inv, Fewer, ErasedLate
<1> QED
  BY <1>1, <1>2, <1>3

(* The job of one request changes to something that is in order, and no    *)
(* deletion is forgotten.                                                  *)
LEMMA OneJob ==
  ASSUME Inv, NEW r \in Request, NEW j \in Job,
         job' = [job EXCEPT ![r] = j],
         swept \subseteq swept', erased' \in [Account -> SUBSET Kind],
         \A u \in Account : erased[u] \subseteq erased'[u],
         Progress(j)'
  PROVE  job' \in [Request -> Job] /\ JobsInv'
<1>1. job \in [Request -> Job]
  BY DEF Inv, TypeOK
<1>2. ASSUME NEW q \in Request, q # r
      PROVE  Progress(job[q])'
  <2>1. job'[q] = job[q] /\ job[q] \in Job
    BY <1>1, <1>2
  <2>2. Progress(job[q])
    BY DEF Inv, JobsInv
  <2> QED
    BY <2>1, <2>2 DEF Progress
<1>3. job'[r] = j
  BY <1>1
<1>4. Progress(job[r])'
  BY <1>3 DEF Progress
<1> QED
  BY <1>1, <1>2, <1>4 DEF JobsInv

LEMMA FinishFacts ==
  ASSUME Inv, NEW r \in Request, Finish(r),
         swept \subseteq swept', erased' = erased
  PROVE  job' \in [Request -> Job] /\ JobsInv'
<1>1. Progress(Idle)'
  BY DEF Idle, Progress
<1> QED
  BY <1>1, IdleFacts, OneJob DEF Finish, Inv, TypeOK

(* A handler takes its next step: the job is in order if what that step    *)
(* presupposes has been done.                                              *)
LEMMA GoesFacts ==
  ASSUME Inv, NEW r \in Request,
         NEW s \in {"write", "dropRoom", "sweep"} \cup Erasure, Goes(r, s),
         swept \subseteq swept', erased' \in [Account -> SUBSET Kind],
         \A u \in Account : erased[u] \subseteq erased'[u]
  PROVE  /\ job' \in [Request -> Job]
         /\ job'[r].step = s
         /\ job'[r].user = job[r].user
         /\ job'[r].item = job[r].item
         /\ Progress(job[r])' => JobsInv'
<1>1. job \in [Request -> Job] /\ job[r] \in Job
  BY DEF Inv, TypeOK
<1>2. PICK j \in Job : j = [job[r] EXCEPT !.step = s]
  BY <1>1 DEF Job
<1>3. job' = [job EXCEPT ![r] = j]
  BY <1>1, <1>2 DEF Goes
<1>4. job'[r] = j
  BY <1>1, <1>3
<1>5. j.step = s /\ j.user = job[r].user /\ j.item = job[r].item
  BY <1>1, <1>2 DEF Job
<1>6. job' \in [Request -> Job]
  BY <1>1, <1>3
<1>7. ASSUME Progress(job[r])'
      PROVE  JobsInv'
  <2>1. Progress(j)'
    BY <1>4, <1>7 DEF Progress
  <2> QED
    BY <1>3, <2>1, OneJob
<1> QED
  BY <1>4, <1>5, <1>6, <1>7

(* A request starts: no room and no item is touched.                       *)
LEMMA BeginFacts ==
  ASSUME Inv, NEW r \in Request, NEW u \in Account, NEW j \in Job,
         j.step \in {"create", "check", "join", "sweep", "leaveRooms"},
         j.step \in {"create", "check"} => j.item \in Item,
         j.step = "sweep" => j.kinds = Kind,
         Begin(r, u, j), UNCHANGED <<account, roomVars, item, erased>>
  PROVE  Inv'
<1>1. PICK k \in Job : k = [j EXCEPT !.user = u]
  BY DEF Job, AccountOrNone
<1>2. k.step = j.step /\ k.user = u /\ k.item = j.item /\ k.kinds = j.kinds
  BY <1>1 DEF Job
<1>3. Progress(k)'
  BY <1>2 DEF Progress
<1>4. job' = [job EXCEPT ![r] = k]
  BY <1>1 DEF Begin
<1>5. swept' = swept /\ erased' = erased /\ erased \in [Account -> SUBSET Kind]
  BY DEF roomVars, Inv, TypeOK
<1>6. job' \in [Request -> Job] /\ JobsInv'
  BY <1>3, <1>4, <1>5, OneJob
<1> QED
  BY <1>6 DEF Inv, TypeOK, SweptLate, ErasedLate, Authored, RoomGone, AccountGone, roomVars

LEMMA AskKeeps ==
  ASSUME Inv, NEW r \in Request, NEW u \in Account, Ask(r, u)
  PROVE  Inv'
<1>1. ASSUME NEW i \in Item, NEW a \in AccountOrNone, CreateFind(r, u, i, a)
      PROVE  Inv'
  <2> DEFINE j == [Idle EXCEPT !.step = "create", !.item = i, !.assignee = a]
  <2>1. j \in Job /\ j.step = "create" /\ j.item = i
    BY DEF Idle, Job, AccountOrNone
  <2>2. Begin(r, u, j) /\ UNCHANGED <<account, roomVars, item, erased>>
    BY <1>1 DEF CreateFind
  <2> HIDE DEF j
  <2> QED
    BY <2>1, <2>2, BeginFacts
<1>2. ASSUME NEW i \in Item, NEW op \in {"update", "claim", "delete"},
             NEW assigns \in BOOLEAN, NEW a \in AccountOrNone,
             Find(r, u, i, op, assigns, a)
      PROVE  Inv'
  <2> DEFINE j == [Idle EXCEPT !.step = "check", !.op = op, !.item = i,
                               !.assigns = assigns, !.assignee = a]
  <2>1. j \in Job /\ j.step = "check" /\ j.item = i
    BY DEF Idle, Job, AccountOrNone
  <2>2. Begin(r, u, j) /\ UNCHANGED <<account, roomVars, item, erased>>
    BY <1>2 DEF Find
  <2> HIDE DEF j
  <2> QED
    BY <2>1, <2>2, BeginFacts
<1>3. ASSUME NEW i \in Item, NEW given \in BOOLEAN, NEW a \in AccountOrNone,
             UpdateFind(r, u, i, given, a)
      PROVE  Inv'
  BY <1>2, <1>3 DEF UpdateFind
<1>4. ASSUME NEW t \in Task, ClaimFind(r, u, t)
      PROVE  Inv'
  <2>1. t \in Item /\ u \in AccountOrNone /\ NoAccount \in AccountOrNone
    BY DEF Item, AccountOrNone
  <2> QED
    BY <1>2, <1>4, <2>1 DEF ClaimFind
<1>5. ASSUME NEW i \in Item, DeleteFind(r, u, i)
      PROVE  Inv'
  <2>1. NoAccount \in AccountOrNone
    BY DEF AccountOrNone
  <2> QED
    BY <1>2, <1>5, <2>1 DEF DeleteFind
<1>6. ASSUME NEW s \in {"join", "leaveRooms"},
             Begin(r, u, [Idle EXCEPT !.step = s]),
             UNCHANGED <<account, roomVars, item, erased>>
      PROVE  Inv'
  <2> DEFINE j == [Idle EXCEPT !.step = s]
  <2>1. j \in Job /\ j.step = s
    BY DEF Idle, Job, AccountOrNone, Erasure
  <2>2. Begin(r, u, j)
    BY <1>6
  <2> HIDE DEF j
  <2> QED
    BY <1>6, <2>1, <2>2, BeginFacts
<1>7. ASSUME DeleteRoomFind(r), u = Owner
      PROVE  Inv'
  <2> DEFINE j == [Idle EXCEPT !.step = "sweep", !.kinds = Kind]
  <2>1. j \in Job /\ j.step = "sweep" /\ j.kinds = Kind
    BY DEF Idle, Job, AccountOrNone
  <2>2. Begin(r, u, j) /\ UNCHANGED <<account, roomVars, item, erased>>
    BY <1>7 DEF DeleteRoomFind
  <2> HIDE DEF j
  <2> QED
    BY <2>1, <2>2, BeginFacts
<1> QED
  BY <1>1, <1>3, <1>4, <1>5, <1>6, <1>7 DEF Ask, JoinFind, EraseFind

-----------------------------------------------------------------------------
LEMMA CreateStoreKeeps ==
  ASSUME Inv, NEW r \in Request, CreateStore(r)
  PROVE  Inv'
<1> DEFINE j == job[r]
<1>1. j \in Job /\ j.item \in Item /\ j.user \in Account
  BY DEF Inv, TypeOK, JobsInv, Progress, CreateStore
<1>2. PICK d \in Doc : /\ d.by = j.user
                       /\ d.late = Late(j.item, j.user)
                       /\ item' = [item EXCEPT ![j.item] = d]
  <2> DEFINE e == [EmptyDoc EXCEPT !.stored = TRUE, !.by = j.user,
                                   !.assignee = j.assignee,
                                   !.late = Late(j.item, j.user)]
  <2>1. Late(j.item, j.user) \subseteq {"room", "account"}
    BY DEF Late
  <2>2. e \in Doc /\ e.by = j.user /\ e.late = Late(j.item, j.user)
    BY <1>1, <2>1 DEF EmptyDoc, Doc, AccountOrNone, Job
  <2>3. item' = [item EXCEPT ![j.item] = e]
    BY DEF CreateStore
  <2> HIDE DEF e
  <2> QED
    BY <2>2, <2>3
<1>3. item \in [Item -> Doc]
  BY DEF Inv, TypeOK
<1>4. \A i \in Item : item'[i] = IF i = j.item THEN d ELSE item[i]
  BY <1>2, <1>3
<1>5. item' \in [Item -> Doc]
  BY <1>2, <1>3
<1>6. /\ UNCHANGED <<account, room, member, admin, removal, swept, erased>>
      /\ Finish(r)
  BY DEF CreateStore, roomVars
<1>7. job' \in [Request -> Job] /\ JobsInv'
  BY <1>6, FinishFacts
<1>8. TypeOK'
  BY <1>5, <1>6, <1>7 DEF Inv, TypeOK
<1>9. SweptLate'
  <2>1. \A k \in Kind : k \in swept /\ j.item \in OfKind(k) => "room" \in d.late
    BY <1>2 DEF Late
  <2> QED
    BY <1>4, <1>6, <2>1 DEF Inv, SweptLate
<1>10. ErasedLate'
  <2>1. \A k \in Kind : k \in erased[j.user] /\ j.item \in OfKind(k)
                          => "account" \in d.late
    BY <1>2 DEF Late
  <2> QED
    BY <1>2, <1>4, <1>6, <2>1 DEF Inv, ErasedLate
<1>11. Authored'
  BY <1>1, <1>2, <1>4 DEF Inv, Authored
<1>12. RoomGone' /\ AccountGone'
  BY <1>6 DEF Inv, RoomGone, AccountGone
<1> QED
  BY <1>7, <1>8, <1>9, <1>10, <1>11, <1>12 DEF Inv

LEMMA CheckKeeps ==
  ASSUME Inv, NEW r \in Request, Check(r)
  PROVE  Inv'
<1>1. UNCHANGED <<account, room, member, admin, removal, swept, item, erased>>
  BY DEF Check, roomVars
<1>2. erased \in [Account -> SUBSET Kind]
  BY DEF Inv, TypeOK
<1>3. job' \in [Request -> Job] /\ JobsInv'
  <2>1. CASE Goes(r, "write")
    <3>1. Progress(job[r])
      BY DEF Inv, JobsInv
    <3>2. /\ job' \in [Request -> Job]
          /\ job'[r].step = "write"
          /\ job'[r].user = job[r].user
          /\ job'[r].item = job[r].item
          /\ Progress(job[r])' => JobsInv'
      BY <1>1, <1>2, <2>1, GoesFacts
    <3>3. Progress(job[r])'
      BY <3>1, <3>2 DEF Progress, Check
    <3> QED
      BY <3>2, <3>3
  <2>2. CASE Finish(r)
    BY <1>1, <2>2, FinishFacts
  <2> QED
    BY <2>1, <2>2 DEF Check
<1> QED
  BY <1>1, <1>3 DEF Inv, TypeOK, SweptLate, ErasedLate, Authored, RoomGone, AccountGone

LEMMA WriteKeeps ==
  ASSUME Inv, NEW r \in Request, Write(r)
  PROVE  Inv'
<1> DEFINE j == job[r]
<1>1. j \in Job /\ j.item \in Item
  BY DEF Inv, TypeOK, JobsInv, Progress, Write
<1>2. /\ UNCHANGED <<account, room, member, admin, removal, swept, erased>>
      /\ Finish(r)
  BY DEF Write, roomVars
<1>3. Fewer
  <2>1. CASE j.op = "delete"
    BY <2>1, RemoveFacts DEF Write, Inv
  <2>2. CASE j.op # "delete"
    <3>1. item \in [Item -> Doc] /\ j.assignee \in AccountOrNone
      BY <1>1 DEF Inv, TypeOK, Job
    <3>2. PICK d \in Doc : /\ item' = [item EXCEPT ![j.item] = d]
                           /\ d.stored = item[j.item].stored
                           /\ d.by = item[j.item].by
                           /\ d.late = item[j.item].late
      <4> DEFINE old == item[j.item]
                 a == IF old.stored /\ j.assigns THEN j.assignee ELSE old.assignee
                 e == [old EXCEPT !.assignee = a]
      <4>1. old \in Doc /\ a \in AccountOrNone
        BY <1>1, <3>1 DEF Doc
      <4>2. e \in Doc /\ e.stored = old.stored /\ e.by = old.by /\ e.late = old.late
        BY <4>1 DEF Doc
      <4>3. item' = [item EXCEPT ![j.item] = e]
        BY <1>1, <2>2, <3>1 DEF Write
      <4> HIDE DEF e
      <4> QED
        BY <4>2, <4>3
    <3>3. \A i \in Item : item'[i] = IF i = j.item THEN d ELSE item[i]
      BY <3>1, <3>2
    <3>4. item' \in [Item -> Doc]
      BY <3>1, <3>2
    <3> QED
      BY <3>2, <3>3, <3>4 DEF Fewer
  <2> QED
    BY <2>1, <2>2
<1>4. job' \in [Request -> Job] /\ JobsInv'
  BY <1>2, FinishFacts
<1>5. Authored' /\ SweptLate' /\ ErasedLate'
  BY <1>2, <1>3, FewerKeeps
<1>6. TypeOK'
  BY <1>2, <1>3, <1>4 DEF Fewer, Inv, TypeOK
<1>7. RoomGone' /\ AccountGone'
  BY <1>2 DEF Inv, RoomGone, AccountGone
<1> QED
  BY <1>4, <1>5, <1>6, <1>7 DEF Inv

LEMMA JoinPushKeeps ==
  ASSUME Inv, NEW r \in Request, JoinPush(r)
  PROVE  Inv'
<1>1. UNCHANGED <<account, room, admin, removal, swept, item, erased>> /\ Finish(r)
  BY DEF JoinPush
<1>2. job' \in [Request -> Job] /\ JobsInv'
  BY <1>1, FinishFacts
<1>3. job[r].user \in Account
  BY DEF Inv, JobsInv, Progress, JoinPush
<1>4. member' \subseteq Account /\ admin' \subseteq member'
  BY <1>1, <1>3 DEF JoinPush, Inv, TypeOK
<1> QED
  BY <1>1, <1>2, <1>4
  DEF Inv, TypeOK, SweptLate, ErasedLate, Authored, RoomGone, AccountGone

(* Leave and ToggleAdmin.                                                  *)
LEMMA MembersKeep ==
  ASSUME Inv, NEW u \in Account, Leave(u) \/ ToggleAdmin(u)
  PROVE  Inv'
<1>1. UNCHANGED <<account, room, removal, swept, item, job, erased>>
  BY DEF Leave, ToggleAdmin
<1>2. member' \subseteq Account /\ admin' \subseteq member'
  BY DEF Leave, ToggleAdmin, Listed, Inv, TypeOK
<1> QED
  BY <1>1, <1>2
  DEF Inv, TypeOK, SweptLate, ErasedLate, Authored, RoomGone, AccountGone,
      JobsInv, Progress

(* The items of one kind are deleted: none of them is stored any longer.   *)
LEMMA SweptKeeps ==
  ASSUME Inv, NEW k \in Kind, Remove({i \in OfKind(k) : item[i].stored}),
         swept' = swept \cup {k}
  PROVE  Fewer /\ SweptLate'
<1>1. /\ Fewer
      /\ \A i \in Item : i \in OfKind(k) /\ item[i].stored => ~item'[i].stored
  BY RemoveFacts DEF Inv
<1> QED
  BY <1>1 DEF Fewer, Inv, SweptLate

LEMMA SweepKeeps ==
  ASSUME Inv, NEW r \in Request, NEW k \in Kind, Sweep(r, k)
  PROVE  Inv'
<1> DEFINE left == job[r].kinds \ {k}
           s == AllSwept(left)
<1>1. /\ UNCHANGED <<account, room, member, admin, removal, erased>>
      /\ swept' = swept \cup {k}
      /\ Remove({i \in OfKind(k) : item[i].stored})
  BY DEF Sweep
<1>2. Fewer /\ SweptLate'
  BY <1>1, SweptKeeps
<1>3. Authored' /\ ErasedLate'
  BY <1>1, <1>2, FewerKeeps
<1>4. job' \in [Request -> Job] /\ JobsInv'
  <2>1. job[r] \in Job /\ job \in [Request -> Job] /\ erased \in [Account -> SUBSET Kind]
    BY DEF Inv, TypeOK
  <2>2. /\ s \in {"dropRoom", "sweep"}
        /\ s = "dropRoom" => left = {}
    BY DEF AllSwept
  <2>3. PICK j \in Job : /\ j.kinds = left
                         /\ j.step = s
                         /\ j.user = job[r].user
                         /\ job' = [job EXCEPT ![r] = j]
    <3> DEFINE e == [job[r] EXCEPT !.kinds = left, !.step = s]
    <3>1. left \subseteq Kind
      BY <2>1 DEF Job
    <3>2. job' = [job EXCEPT ![r] = e]
      BY <2>1 DEF Sweep
    <3> HIDE DEF left, s
    <3>3. e \in Job /\ e.kinds = left /\ e.step = s /\ e.user = job[r].user
      BY <2>1, <2>2, <3>1 DEF Job
    <3> HIDE DEF e
    <3> QED
      BY <3>2, <3>3
  <2>5. Progress(job[r]) /\ job[r].step = "sweep"
    BY DEF Inv, JobsInv, Sweep
  <2>6. Kind \ left \subseteq swept'
    BY <1>1, <2>5 DEF Progress
  <2>7. Progress(j)'
    BY <1>1, <2>2, <2>3, <2>5, <2>6 DEF Progress
  <2> QED
    BY <1>1, <2>1, <2>3, <2>7, OneJob
<1>5. TypeOK'
  BY <1>1, <1>2, <1>4 DEF Fewer, Inv, TypeOK
<1>6. RoomGone' /\ AccountGone'
  BY <1>1 DEF Inv, RoomGone, AccountGone
<1> QED
  BY <1>2, <1>3, <1>4, <1>5, <1>6 DEF Inv

(* The room is deleted, by a handler that has deleted what it must.        *)
LEMMA RoomRemovedKeeps ==
  ASSUME Inv, NEW why \in {"room", "account"}, RoomRemoved(why),
         UNCHANGED <<account, swept, item, erased>>,
         "message" \in swept, why = "room" => Kind \subseteq swept,
         job' \in [Request -> Job], JobsInv'
  PROVE  Inv'
<1>1. TypeOK'
  BY DEF RoomRemoved, Inv, TypeOK
<1>2. RoomGone'
  BY DEF RoomRemoved, Inv, RoomGone
<1> QED
  BY <1>1, <1>2 DEF Inv, SweptLate, ErasedLate, Authored, AccountGone

LEMMA DropRoomKeeps ==
  ASSUME Inv, NEW r \in Request, DropRoom(r)
  PROVE  Inv'
<1>1. UNCHANGED <<account, swept, item, erased>> /\ Finish(r) /\ RoomRemoved("room")
  BY DEF DropRoom
<1>2. Kind \subseteq swept
  BY DEF DropRoom, Inv, JobsInv, Progress
<1>3. job' \in [Request -> Job] /\ JobsInv'
  BY <1>1, FinishFacts
<1> QED
  BY <1>1, <1>2, <1>3, RoomRemovedKeeps DEF Kind

-----------------------------------------------------------------------------
(* deleteAccount, up to the rooms it owns.                                 *)
LEMMA EraseRoomsKeeps ==
  ASSUME Inv, NEW r \in Request,
         EraseLeaves(r) \/ EraseFindsRooms(r) \/ EraseOwnedMessages(r) \/ EraseOwnedRooms(r)
  PROVE  Inv'
<1>1. Progress(job[r]) /\ erased \in [Account -> SUBSET Kind]
  BY DEF Inv, JobsInv, TypeOK
<1>2. ASSUME NEW s \in {"ownedRooms", "ownedMessages", "dropRooms", "ownTasks"},
             Goes(r, s), job[r].step # "idle", erased' = erased, swept \subseteq swept',
             s = "dropRooms" => "message" \in swept'
      PROVE  job' \in [Request -> Job] /\ JobsInv'
  <2>1. s \in Erasure
    BY DEF Erasure
  <2>2. /\ job' \in [Request -> Job]
        /\ job'[r].step = s
        /\ job'[r].user = job[r].user
        /\ Progress(job[r])' => JobsInv'
    BY <1>1, <1>2, <2>1, GoesFacts
  <2>3. Progress(job[r])'
    BY <1>1, <1>2, <2>2 DEF Progress
  <2> QED
    BY <2>2, <2>3
<1>3. CASE EraseLeaves(r)
  <2>1. /\ UNCHANGED <<account, room, removal, swept, item, erased>>
        /\ Goes(r, "ownedRooms")
        /\ job[r].step # "idle"
    BY <1>3 DEF EraseLeaves
  <2>2. job' \in [Request -> Job] /\ JobsInv'
    BY <1>2, <2>1
  <2>3. member' \subseteq Account /\ admin' \subseteq member'
    BY <1>3 DEF EraseLeaves, Inv, TypeOK
  <2> QED
    BY <2>1, <2>2, <2>3
    DEF Inv, TypeOK, SweptLate, ErasedLate, Authored, RoomGone, AccountGone
<1>4. CASE EraseFindsRooms(r)
  <2>1. UNCHANGED <<account, room, member, admin, removal, swept, item, erased>>
    BY <1>4 DEF EraseFindsRooms, roomVars
  <2>2. job' \in [Request -> Job] /\ JobsInv'
    <3>1. PICK s \in {"ownedMessages", "ownTasks"} : Goes(r, s)
      BY <1>4 DEF EraseFindsRooms
    <3> QED
      BY <1>2, <1>4, <2>1, <3>1 DEF EraseFindsRooms
  <2> QED
    BY <2>1, <2>2
    DEF Inv, TypeOK, SweptLate, ErasedLate, Authored, RoomGone, AccountGone
<1>5. CASE EraseOwnedMessages(r)
  <2>1. /\ UNCHANGED <<account, room, member, admin, removal, erased>>
        /\ swept' = swept \cup {"message"}
        /\ Remove({i \in OfKind("message") : item[i].stored})
        /\ Goes(r, "dropRooms")
        /\ job[r].step # "idle"
    BY <1>5 DEF EraseOwnedMessages, OfKind
  <2>2. Fewer /\ SweptLate'
    BY <2>1, SweptKeeps DEF Kind
  <2>3. Authored' /\ ErasedLate'
    BY <2>1, <2>2, FewerKeeps
  <2>4. job' \in [Request -> Job] /\ JobsInv'
    BY <1>2, <2>1
  <2>5. TypeOK'
    BY <2>1, <2>2, <2>4 DEF Fewer, Inv, TypeOK, Kind
  <2>6. RoomGone' /\ AccountGone'
    BY <2>1 DEF Inv, RoomGone, AccountGone
  <2> QED
    BY <2>2, <2>3, <2>4, <2>5, <2>6 DEF Inv
<1>6. CASE EraseOwnedRooms(r)
  <2>1. /\ UNCHANGED <<account, swept, item, erased>>
        /\ RoomRemoved("account")
        /\ Goes(r, "ownTasks")
        /\ job[r].step = "dropRooms"
    BY <1>6 DEF EraseOwnedRooms
  <2>2. job' \in [Request -> Job] /\ JobsInv'
    BY <1>2, <2>1
  <2>3. "message" \in swept
    BY <1>1, <2>1 DEF Progress
  <2> QED
    BY <2>1, <2>2, <2>3, RoomRemovedKeeps
<1> QED
  BY <1>3, <1>4, <1>5, <1>6

(* The step of a deletion of the account that deletes what it made.        *)
Erases(step, k, next) ==
  <<step, k, next>> \in {<<"ownTasks", "task", "unassign">>,
                         <<"ownResources", "resource", "ownMessages">>,
                         <<"ownMessages", "message", "account">>}

LEMMA EraseOwnKeeps ==
  ASSUME Inv, NEW r \in Request, NEW step, NEW k, NEW next,
         Erases(step, k, next), EraseOwn(r, step, k, next)
  PROVE  Inv'
<1>1. PICK u \in Account : u = job[r].user
  BY DEF Inv, JobsInv, Progress, EraseOwn, Erases
<1>2. /\ k \in Kind
      /\ next \in Erasure
  BY DEF Erases, Kind, Erasure
<1>3. /\ UNCHANGED <<account, room, member, admin, removal, swept>>
      /\ Remove(Own(u, k))
      /\ erased' = [erased EXCEPT ![u] = @ \cup {k}]
      /\ Goes(r, next)
      /\ job[r].step = step
  BY <1>1 DEF EraseOwn, roomVars
<1>4. /\ Fewer
      /\ \A i \in Item : i \in Own(u, k) => ~item'[i].stored
  BY <1>3, RemoveFacts DEF Inv
<1>5. /\ erased' \in [Account -> SUBSET Kind]
      /\ \A q \in Account : erased'[q] = IF q = u THEN erased[q] \cup {k} ELSE erased[q]
  <2>1. erased \in [Account -> SUBSET Kind]
    BY DEF Inv, TypeOK
  <2> QED
    BY <1>2, <1>3, <2>1
<1>6. Authored' /\ SweptLate'
  BY <1>3, <1>4, FewerKeeps
<1>7. ErasedLate'
  <2> SUFFICES ASSUME NEW i \in Item, NEW q \in Account, NEW x \in Kind,
                      x \in erased'[q], i \in OfKind(x),
                      item'[i].stored, item'[i].by = q
               PROVE  "account" \in item'[i].late
    BY DEF ErasedLate
  <2>1. /\ item[i].stored
        /\ item[i].by = q
        /\ item'[i].late = item[i].late
    BY <1>4 DEF Fewer
  <2>2. x \in erased[q]
    BY <1>4, <1>5, <2>1 DEF Own
  <2> QED
    BY <2>1, <2>2 DEF Inv, ErasedLate
<1>8. job' \in [Request -> Job] /\ JobsInv'
  <2>1. /\ job' \in [Request -> Job]
        /\ job'[r].step = next
        /\ job'[r].user = u
        /\ Progress(job[r])' => JobsInv'
    BY <1>1, <1>2, <1>3, <1>5, GoesFacts
  <2>2. Progress(job[r])
    BY DEF Inv, JobsInv
  <2>3. Progress(job[r])'
    BY <1>1, <1>3, <1>5, <2>1, <2>2 DEF Progress, Erases, Kind
  <2> QED
    BY <2>1, <2>3
<1>9. TypeOK'
  BY <1>3, <1>4, <1>5, <1>8 DEF Fewer, Inv, TypeOK
<1>10. RoomGone' /\ AccountGone'
  BY <1>3, <1>5 DEF Inv, RoomGone, AccountGone
<1> QED
  BY <1>6, <1>7, <1>8, <1>9, <1>10 DEF Inv

LEMMA EraseUnassignsKeeps ==
  ASSUME Inv, NEW r \in Request, EraseUnassigns(r)
  PROVE  Inv'
<1>1. /\ UNCHANGED <<account, room, member, admin, removal, swept, erased>>
      /\ Goes(r, "ownResources")
      /\ job[r].step = "unassign"
  BY DEF EraseUnassigns, roomVars
<1>2. Fewer
  <2>1. ASSUME NEW i \in Item
        PROVE  /\ item'[i] \in Doc
               /\ item'[i].stored = item[i].stored
               /\ item'[i].by = item[i].by
               /\ item'[i].late = item[i].late
    <3>1. item[i] \in Doc
      BY DEF Inv, TypeOK
    <3>2. item'[i] = IF item[i].assignee = job[r].user
                     THEN [item[i] EXCEPT !.assignee = NoAccount] ELSE item[i]
      BY DEF EraseUnassigns
    <3> QED
      BY <3>1, <3>2 DEF Doc, AccountOrNone
  <2>2. item' = [i \in Item |-> item'[i]]
    BY DEF EraseUnassigns
  <2> QED
    BY <2>1, <2>2 DEF Fewer
<1>3. Authored' /\ SweptLate' /\ ErasedLate'
  BY <1>1, <1>2, FewerKeeps
<1>4. job' \in [Request -> Job] /\ JobsInv'
  <2>1. erased \in [Account -> SUBSET Kind] /\ "ownResources" \in Erasure
    BY DEF Inv, TypeOK, Erasure
  <2>2. /\ job' \in [Request -> Job]
        /\ job'[r].step = "ownResources"
        /\ job'[r].user = job[r].user
        /\ Progress(job[r])' => JobsInv'
    BY <1>1, <2>1, GoesFacts
  <2>3. Progress(job[r])
    BY DEF Inv, JobsInv
  <2>4. Progress(job[r])'
    BY <1>1, <2>2, <2>3 DEF Progress
  <2> QED
    BY <2>2, <2>4
<1>5. TypeOK'
  BY <1>1, <1>2, <1>4 DEF Fewer, Inv, TypeOK
<1>6. RoomGone' /\ AccountGone'
  BY <1>1 DEF Inv, RoomGone, AccountGone
<1> QED
  BY <1>3, <1>4, <1>5, <1>6 DEF Inv

LEMMA EraseAccountKeeps ==
  ASSUME Inv, NEW r \in Request, EraseAccount(r)
  PROVE  Inv'
<1>1. /\ UNCHANGED <<room, member, admin, removal, swept, item, erased>>
      /\ Finish(r)
      /\ account' = account \ {job[r].user}
  BY DEF EraseAccount, roomVars
<1>2. job' \in [Request -> Job] /\ JobsInv'
  BY <1>1, FinishFacts
<1>3. Kind \subseteq erased[job[r].user]
  BY DEF EraseAccount, Inv, JobsInv, Progress
<1>4. AccountGone'
  BY <1>1, <1>3 DEF Inv, AccountGone
<1> QED
  BY <1>1, <1>2, <1>4
  DEF Inv, TypeOK, SweptLate, ErasedLate, Authored, RoomGone

LEMMA EraseKeeps ==
  ASSUME Inv, NEW r \in Request, Erase(r)
  PROVE  Inv'
<1>1. /\ Erases("ownTasks", "task", "unassign")
      /\ Erases("ownResources", "resource", "ownMessages")
      /\ Erases("ownMessages", "message", "account")
  BY DEF Erases
<1> QED
  BY <1>1, EraseRoomsKeeps, EraseOwnKeeps, EraseUnassignsKeeps, EraseAccountKeeps DEF Erase

(* The jobs are forgotten, and with them what they had deleted so far.     *)
LEMMA RestartKeeps ==
  ASSUME Inv, Restart
  PROVE  Inv'
<1>1. UNCHANGED <<account, room, member, admin, removal>>
  BY DEF Restart
<1>2. \A q \in Request : job'[q] = Idle
  BY DEF Restart
<1>3. job' \in [Request -> Job] /\ JobsInv'
  <2>1. Progress(Idle)'
    BY DEF Idle, Progress
  <2>2. job' \in [Request -> Job]
    BY IdleFacts DEF Restart
  <2>3. ASSUME NEW q \in Request
        PROVE  Progress(job[q])'
    BY <1>2, <2>1 DEF Progress
  <2> QED
    BY <2>2, <2>3 DEF JobsInv
<1>4. \A u \in Account : erased'[u] = IF u \in account THEN {} ELSE erased[u]
  BY DEF Restart
<1>5. ASSUME NEW i \in Item
      PROVE  /\ item'[i] \in Doc
             /\ item'[i].stored = item[i].stored
             /\ item'[i].by = item[i].by
             /\ ~room /\ "room" \in item[i].late => "room" \in item'[i].late
             /\ item[i].by \notin account /\ "account" \in item[i].late
                  => "account" \in item'[i].late
  <2> DEFINE past == {x \in {"room"} : room}
                       \cup {x \in {"account"} : item[i].by \in account}
             keep == item[i].late \ past
  <2>1. item[i] \in Doc
    BY DEF Inv, TypeOK
  <2>2. item'[i] = [item[i] EXCEPT !.late = keep]
    BY DEF Restart
  <2>3. keep \subseteq {"room", "account"}
    BY <2>1 DEF Doc
  <2>4. item'[i] \in Doc /\ item'[i].stored = item[i].stored
        /\ item'[i].by = item[i].by /\ item'[i].late = keep
    <3> HIDE DEF keep
    <3> QED
      BY <2>1, <2>2, <2>3 DEF Doc
  <2> QED
    BY <2>4
<1>6. TypeOK'
  <2>1. item' \in [Item -> Doc]
    <3>1. item' = [i \in Item |-> item'[i]]
      BY DEF Restart
    <3> QED
      BY <1>5, <3>1
  <2>2. erased' \in [Account -> SUBSET Kind]
    <3>1. erased' = [u \in Account |-> erased'[u]]
      BY DEF Restart
    <3> QED
      BY <1>4, <3>1 DEF Inv, TypeOK
  <2>3. swept' \subseteq Kind
    BY DEF Restart, Inv, TypeOK
  <2> QED
    BY <1>1, <1>3, <2>1, <2>2, <2>3 DEF Inv, TypeOK
<1>7. SweptLate'
  BY <1>5 DEF Restart, Inv, SweptLate
<1>8. ErasedLate'
  BY <1>4, <1>5 DEF Inv, ErasedLate
<1>9. Authored'
  BY <1>5 DEF Inv, Authored
<1>10. RoomGone'
  BY <1>1 DEF Restart, Inv, RoomGone
<1>11. AccountGone'
  BY <1>1, <1>4 DEF Inv, AccountGone
<1> QED
  BY <1>3, <1>6, <1>7, <1>8, <1>9, <1>10, <1>11 DEF Inv

-----------------------------------------------------------------------------
LEMMA InitHolds == Init => Inv
<1> SUFFICES ASSUME Init
             PROVE  Inv
  OBVIOUS
<1>1. TypeOK
  BY Assumptions, IdleFacts, EmptyDocFacts DEF Init, TypeOK
<1>2. \A i \in Item : ~item[i].stored
  BY EmptyDocFacts DEF Init
<1>3. JobsInv
  BY IdleFacts DEF Init, JobsInv
<1>4. RoomGone /\ AccountGone
  BY DEF Init, RoomGone, AccountGone
<1> QED
  BY <1>1, <1>2, <1>3, <1>4 DEF Inv, SweptLate, ErasedLate, Authored

LEMMA NextKeeps == Inv /\ [Next]_vars => Inv'
<1> SUFFICES ASSUME Inv, [Next]_vars
             PROVE  Inv'
  OBVIOUS
<1>1. ASSUME NEW r \in Request, Handle(r)
      PROVE  Inv'
  BY <1>1, CreateStoreKeeps, CheckKeeps, WriteKeeps, JoinPushKeeps, SweepKeeps,
     DropRoomKeeps, EraseKeeps DEF Handle
<1>2. CASE UNCHANGED vars
  BY <1>2 DEF vars, roomVars, Inv, TypeOK, SweptLate, ErasedLate, Authored,
     JobsInv, Progress, RoomGone, AccountGone
<1> QED
  BY <1>1, <1>2, AskKeeps, MembersKeep, RestartKeeps DEF Next

(* Every step of every handler keeps Inv.                                  *)
THEOREM Invariance == Spec => []Inv
<1> QED
  BY InitHolds, NextKeeps, PTL DEF Spec

(* The documents and the jobs stay well formed, and an admin is a member.  *)
THEOREM TypeCorrect == Spec => []TypeOK
<1>1. Inv => TypeOK
  BY DEF Inv
<1> QED
  BY <1>1, Invariance, PTL

(* Whatever outlives its room was stored by a request that had seen the    *)
(* room, after the deletion of its kind: deleteRoom leaves nothing of any  *)
(* kind, deleteAccount no message.                                         *)
THEOREM OrphanIsLateProved == Spec => []OrphanIsLate
<1>1. Inv => OrphanIsLate
  <2> SUFFICES ASSUME Inv, NEW i \in Item, ~room, item[i].stored,
                      i \in Message \/ removal = "room"
               PROVE  "room" \in item[i].late
    BY DEF OrphanIsLate
  <2>1. PICK k \in Kind : i \in OfKind(k) /\ k \in swept
    <3>1. CASE i \in Message
      BY <3>1, KindFacts DEF Inv, RoomGone, Kind
    <3>2. CASE removal = "room"
      BY <3>2, KindFacts DEF Inv, RoomGone
    <3> QED
      BY <3>1, <3>2
  <2> QED
    BY <2>1 DEF Inv, SweptLate
<1> QED
  BY <1>1, Invariance, PTL

(* What an account made and outlives it was stored by a request of its own *)
(* that was past its checks when the deletion of the account went by.      *)
THEOREM ErasedAuthorIsLateProved == Spec => []ErasedAuthorIsLate
<1>1. Inv => ErasedAuthorIsLate
  <2> SUFFICES ASSUME Inv, NEW i \in Item, item[i].stored, item[i].by \notin account
               PROVE  "account" \in item[i].late
    BY DEF ErasedAuthorIsLate
  <2>1. item[i].by \in Account \ account
    BY DEF Inv, Authored
  <2>2. PICK k \in Kind : i \in OfKind(k)
    BY KindFacts
  <2>3. k \in erased[item[i].by]
    BY <2>1, <2>2 DEF Inv, AccountGone
  <2> QED
    BY <2>1, <2>2, <2>3 DEF Inv, ErasedLate
<1> QED
  BY <1>1, Invariance, PTL

-----------------------------------------------------------------------------
(* The reminders of due tasks.                                             *)
Notified(t) == \E n \in notice : n.task = t

MarksInv ==
  \A w \in Server : worker[w].step = "save" => Notified(worker[w].at)

RemindersInv ==
  /\ RemindersTypeOK
  /\ MarkedWasNotified
  /\ MarksInv

-----------------------------------------------------------------------------
LEMMA BlankFacts ==
  /\ Blank \in TaskCard
  /\ ~Blank.stored
  /\ ~Blank.reminderSent
  /\ Blank.assignee = NoAssignee
BY ReminderAssumptions DEF Blank, TaskCard, AssigneeOrNone, Date

LEMMA RestingFacts == Resting \in Worker /\ Resting.step = "idle"
BY DEF Resting, Worker

LEMMA NoEditFacts == NoEdit \in Edit
BY ReminderAssumptions DEF NoEdit, Edit, AssigneeOrNone, Date

(* What a change of one task must respect: a task that is not stored is    *)
(* blank, and is marked only if it was, or a reminder of it was stored.    *)
GoodCard(t, d) ==
  /\ d \in TaskCard
  /\ ~d.stored => d = Blank
  /\ d.reminderSent => Notified(t)

LEMMA CardsAreGood ==
  ASSUME RemindersInv, NEW t \in Card
  PROVE  GoodCard(t, task[t])
BY DEF RemindersInv, RemindersTypeOK, MarkedWasNotified, Notified, GoodCard

LEMMA BlankIsGood == \A t : GoodCard(t, Blank)
BY BlankFacts DEF GoodCard

LEMMA OneCard ==
  ASSUME RemindersInv, NEW t \in Card, NEW d, GoodCard(t, d),
         task' = [task EXCEPT ![t] = d], UNCHANGED notice
  PROVE  /\ task' \in [Card -> TaskCard]
         /\ \A x \in Card : ~task'[x].stored => task'[x] = Blank
         /\ MarkedWasNotified'
<1>1. task \in [Card -> TaskCard] /\ d \in TaskCard
  BY DEF RemindersInv, RemindersTypeOK, GoodCard
<1>2. \A x \in Card : task'[x] = IF x = t THEN d ELSE task[x]
  BY <1>1
<1>3. \A x \in Card : GoodCard(x, task'[x])
  BY <1>2, CardsAreGood
<1>4. task' \in [Card -> TaskCard]
  BY <1>1
<1> QED
  BY <1>3, <1>4 DEF GoodCard, MarkedWasNotified, Notified

(* One worker goes to a state that is in order.                            *)
LEMMA OneWorker ==
  ASSUME RemindersInv, NEW w \in Server, NEW x \in Worker, WorkerGoes(w, x),
         notice \subseteq notice',
         x.step = "save" => \E n \in notice' : n.task = x.at
  PROVE  worker' \in [Server -> Worker] /\ MarksInv'
<1>1. worker \in [Server -> Worker]
  BY DEF RemindersInv, RemindersTypeOK
<1>2. \A v \in Server : worker'[v] = IF v = w THEN x ELSE worker[v]
  BY <1>1 DEF WorkerGoes
<1>3. worker' \in [Server -> Worker]
  BY <1>1 DEF WorkerGoes
<1>4. ASSUME NEW v \in Server, worker'[v].step = "save"
      PROVE  Notified(worker[v].at)'
  <2>1. CASE v = w
    BY <1>2, <1>4, <2>1 DEF Notified
  <2>2. CASE v # w
    <3>1. worker'[v] = worker[v]
      BY <1>2, <2>2
    <3>2. Notified(worker[v].at)
      BY <1>4, <3>1 DEF RemindersInv, MarksInv
    <3> QED
      BY <3>1, <3>2 DEF Notified
  <2> QED
    BY <2>1, <2>2
<1> QED
  BY <1>3, <1>4 DEF MarksInv

(* The next of the batch: nothing is about to be marked.                   *)
LEMMA LoopFacts ==
  ASSUME RemindersInv, NEW w \in Server, NEW c, LoopGoesOn(w, c), notice \subseteq notice'
  PROVE  worker' \in [Server -> Worker] /\ MarksInv'
<1> DEFINE left == worker[w].batch \ {c}
           x == IF left = {} THEN Resting
                ELSE [Resting EXCEPT !.step = "loop", !.batch = left]
<1>1. left \subseteq Copy
  BY DEF RemindersInv, RemindersTypeOK, Worker
<1>2. x \in Worker /\ x.step # "save"
  <2> HIDE DEF left
  <2> QED
    BY <1>1 DEF Resting, Worker
<1>3. WorkerGoes(w, x)
  BY DEF LoopGoesOn
<1> HIDE DEF x
<1> QED
  BY <1>2, <1>3, OneWorker

LEMMA CopyType ==
  ASSUME RemindersInv, NEW t \in Card
  PROVE  CopyOf(t) \in Copy
<1>1. task[t] \in TaskCard
  BY DEF RemindersInv, RemindersTypeOK
<1> QED
  BY <1>1 DEF CopyOf, Copy, TaskCard, AssigneeOrNone

-----------------------------------------------------------------------------
(* createTask and deleteTask.                                              *)
LEMMA CreateTaskKeeps ==
  ASSUME RemindersInv, NEW t \in Card, NEW a \in assignees \cup {NoAssignee}, NEW d \in Date,
         CreateTask(t, a, d)
  PROVE  RemindersInv'
<1> DEFINE e == [Blank EXCEPT !.stored = TRUE, !.assignee = a, !.dueDate = d]
<1>1. e \in TaskCard /\ e.stored /\ ~e.reminderSent
  BY DEF RemindersInv, RemindersTypeOK, Blank, TaskCard, AssigneeOrNone, Date
<1>2. task' = [task EXCEPT ![t] = e]
  BY DEF CreateTask
<1>3. UNCHANGED <<assignees, housed, edit, worker, notice, near, gone, faults>>
  BY DEF CreateTask, workVars, timeVars
<1>4. GoodCard(t, e)
  <2> HIDE DEF e
  <2> QED
    BY <1>1 DEF GoodCard
<1> HIDE DEF e
<1>5. /\ task' \in [Card -> TaskCard]
      /\ \A x \in Card : ~task'[x].stored => task'[x] = Blank
      /\ MarkedWasNotified'
  BY <1>2, <1>3, <1>4, OneCard
<1> QED
  BY <1>3, <1>5 DEF RemindersInv, RemindersTypeOK, MarksInv, Notified

LEMMA DeleteTaskKeeps ==
  ASSUME RemindersInv, NEW t \in Card, DeleteTask(t)
  PROVE  RemindersInv'
<1>1. UNCHANGED <<assignees, housed, edit, worker, notice, near, gone, faults>>
  BY DEF DeleteTask, workVars, timeVars
<1>2. /\ task' \in [Card -> TaskCard]
      /\ \A x \in Card : ~task'[x].stored => task'[x] = Blank
      /\ MarkedWasNotified'
  BY <1>1, BlankIsGood, OneCard DEF DeleteTask
<1> QED
  BY <1>1, <1>2 DEF RemindersInv, RemindersTypeOK, MarksInv, Notified

LEMMA ReadsKeeps ==
  ASSUME RemindersInv, NEW r \in Editor, NEW t \in Card,
         NEW fields \in SUBSET {"assignee", "dueDate", "reminderSent"},
         NEW a \in AssigneeOrNone, NEW d \in Date, Reads(r, t, fields, a, d)
  PROVE  RemindersInv'
<1>1. UNCHANGED <<assignees, housed, task, worker, notice, near, gone, faults>>
  BY DEF Reads, workVars, timeVars
<1>2. edit' \in [Editor -> Edit]
  BY DEF Reads, RemindersInv, RemindersTypeOK, Edit
<1> QED
  BY <1>1, <1>2 DEF RemindersInv, RemindersTypeOK, MarkedWasNotified, MarksInv, Notified

LEMMA UpdateTaskKeeps ==
  ASSUME RemindersInv, NEW r \in Editor, NEW t \in Card,
         NEW given \in SUBSET {"assignee", "dueDate"},
         NEW a \in assignees \cup {NoAssignee}, NEW d \in Date,
         UpdateTask(r, t, given, a, d)
  PROVE  RemindersInv'
<1>1. Changed(t, given, a, d) \in SUBSET {"assignee", "dueDate", "reminderSent"}
  BY DEF Changed
<1>2. a \in AssigneeOrNone
  BY DEF RemindersInv, RemindersTypeOK, AssigneeOrNone
<1> QED
  BY <1>1, <1>2, ReadsKeeps DEF UpdateTask

LEMMA ClaimTaskKeeps ==
  ASSUME RemindersInv, NEW r \in Editor, NEW t \in Card, NEW u \in Assignee,
         ClaimTask(r, t, u)
  PROVE  RemindersInv'
<1>1. PICK a \in AssigneeOrNone : Reads(r, t, {"assignee"}, a, 0)
  BY DEF ClaimTask, AssigneeOrNone
<1>2. 0 \in Date
  BY ReminderAssumptions DEF Date
<1> QED
  BY <1>1, <1>2, ReadsKeeps

(* What a save sends sets no mark and stores nothing.                      *)
LEMMA SentFacts ==
  ASSUME NEW c \in TaskCard, NEW j \in Edit
  PROVE  /\ Sent(c, j) \in TaskCard
         /\ Sent(c, j).stored = c.stored
         /\ Sent(c, j).reminderSent => c.reminderSent
<1> DEFINE a == IF "assignee" \in j.fields THEN j.assignee ELSE c.assignee
           d == IF "dueDate" \in j.fields THEN j.dueDate ELSE c.dueDate
           s == c.reminderSent /\ "reminderSent" \notin j.fields
<1>1. a \in AssigneeOrNone /\ d \in Date /\ s \in BOOLEAN
  BY DEF TaskCard, Edit
<1>2. Sent(c, j) = [c EXCEPT !.assignee = a, !.dueDate = d, !.reminderSent = s]
  BY DEF Sent, TaskCard
<1>3. s => c.reminderSent
  OBVIOUS
<1> HIDE DEF a, d, s
<1> QED
  BY <1>1, <1>2, <1>3 DEF TaskCard

LEMMA SaveKeeps ==
  ASSUME RemindersInv, NEW r \in Editor, Save(r)
  PROVE  RemindersInv'
<1>1. UNCHANGED <<assignees, housed, worker, notice, near, gone, faults>>
  BY DEF Save, workVars, timeVars
<1>2. edit[r] \in Edit /\ edit' \in [Editor -> Edit]
  BY NoEditFacts DEF Save, RemindersInv, RemindersTypeOK
<1>3. PICK t \in Card : t = edit[r].task
  BY <1>2 DEF Save, Edit
<1> DEFINE e == IF task[t].stored THEN Sent(task[t], edit[r]) ELSE task[t]
<1>4. task[t] \in TaskCard /\ task \in [Card -> TaskCard]
  BY DEF RemindersInv, RemindersTypeOK
<1>5. task' = [task EXCEPT ![t] = e]
  BY <1>3, <1>4 DEF Save
<1>6. GoodCard(t, e)
  <2>1. GoodCard(t, task[t])
    BY CardsAreGood
  <2>2. /\ Sent(task[t], edit[r]) \in TaskCard
        /\ Sent(task[t], edit[r]).stored = task[t].stored
        /\ Sent(task[t], edit[r]).reminderSent => task[t].reminderSent
    BY <1>2, <1>4, SentFacts
  <2> QED
    BY <2>1, <2>2 DEF GoodCard
<1> HIDE DEF e
<1>7. /\ task' \in [Card -> TaskCard]
      /\ \A x \in Card : ~task'[x].stored => task'[x] = Blank
      /\ MarkedWasNotified'
  BY <1>1, <1>5, <1>6, OneCard
<1> QED
  BY <1>1, <1>2, <1>7 DEF RemindersInv, RemindersTypeOK, MarksInv, Notified

LEMMA RoomGoesKeeps ==
  ASSUME RemindersInv, NEW t \in Card, RoomGoes(t)
  PROVE  RemindersInv'
<1>1. /\ UNCHANGED <<assignees, edit, worker, notice, near, gone, faults>>
      /\ housed' \subseteq Card
  BY DEF RoomGoes, workVars, timeVars, RemindersInv, RemindersTypeOK
<1>2. /\ task' \in [Card -> TaskCard]
      /\ \A x \in Card : ~task'[x].stored => task'[x] = Blank
      /\ MarkedWasNotified'
  <2>1. CASE task' = task
    BY <1>1, <2>1 DEF RemindersInv, RemindersTypeOK, MarkedWasNotified
  <2>2. CASE task' = [task EXCEPT ![t] = Blank]
    BY <1>1, <2>2, BlankIsGood, OneCard
  <2> QED
    BY <2>1, <2>2 DEF RoomGoes
<1> QED
  BY <1>1, <1>2 DEF RemindersInv, RemindersTypeOK, MarksInv, Notified

LEMMA AccountGoesKeeps ==
  ASSUME RemindersInv, NEW u \in Assignee, AccountGoes(u)
  PROVE  RemindersInv'
<1>1. /\ UNCHANGED <<housed, edit, worker, notice, near, gone, faults>>
      /\ assignees' \subseteq Assignee
  BY DEF AccountGoes, workVars, timeVars, RemindersInv, RemindersTypeOK
<1>2. ASSUME NEW x \in Card
      PROVE  GoodCard(x, task'[x])
  <2>1. GoodCard(x, task[x])
    BY CardsAreGood
  <2>2. CASE task[x].assignee = u
    <3>1. task'[x] = [task[x] EXCEPT !.assignee = NoAssignee]
      BY <2>2 DEF AccountGoes
    <3>2. task[x].stored
      BY <2>1, <2>2, BlankFacts, ReminderAssumptions DEF GoodCard
    <3> QED
      BY <2>1, <3>1, <3>2 DEF GoodCard, TaskCard, AssigneeOrNone
  <2>3. CASE task[x].assignee # u
    BY <2>1, <2>3 DEF AccountGoes
  <2> QED
    BY <2>2, <2>3
<1>3. task' = [x \in Card |-> task'[x]]
  BY DEF AccountGoes
<1>4. task' \in [Card -> TaskCard]
  BY <1>2, <1>3 DEF GoodCard
<1> QED
  BY <1>1, <1>2, <1>4 DEF RemindersInv, RemindersTypeOK, GoodCard, MarkedWasNotified, MarksInv, Notified

-----------------------------------------------------------------------------
LEMMA ScanKeeps ==
  ASSUME RemindersInv, NEW w \in Server, Scan(w)
  PROVE  RemindersInv'
<1> DEFINE found == {t \in Card : Upcoming(t)}
           b == {CopyOf(t) : t \in found}
           x == [Resting EXCEPT !.step = "loop", !.batch = b]
<1>1. b \subseteq Copy
  BY CopyType
<1>2. x \in Worker /\ x.step # "save"
  <2> HIDE DEF b
  <2> QED
    BY <1>1 DEF Resting, Worker
<1>3. WorkerGoes(w, x)
  BY DEF Scan
<1>4. UNCHANGED <<assignees, housed, task, edit, notice, near, gone, faults>>
  BY DEF Scan, taskVars, timeVars
<1> HIDE DEF x
<1>5. worker' \in [Server -> Worker] /\ MarksInv'
  BY <1>2, <1>3, <1>4, OneWorker
<1> QED
  BY <1>4, <1>5 DEF RemindersInv, RemindersTypeOK, MarkedWasNotified

LEMMA LookUpRoomKeeps ==
  ASSUME RemindersInv, NEW w \in Server, NEW c \in worker[w].batch, LookUpRoom(w, c)
  PROVE  RemindersInv'
<1>1. UNCHANGED <<assignees, housed, task, edit, notice, near, gone, faults>>
  BY DEF LookUpRoom, taskVars, timeVars
<1>2. worker[w] \in Worker /\ c.task \in Card
  BY DEF RemindersInv, RemindersTypeOK, Worker, Copy
<1>3. worker' \in [Server -> Worker] /\ MarksInv'
  <2>1. CASE LoopGoesOn(w, c)
    BY <1>1, <2>1, LoopFacts
  <2>2. CASE WorkerGoes(w, [worker[w] EXCEPT !.step = "notify", !.at = c.task])
    <3> DEFINE x == [worker[w] EXCEPT !.step = "notify", !.at = c.task]
    <3>1. x \in Worker /\ x.step # "save"
      BY <1>2 DEF Worker
    <3> HIDE DEF x
    <3>2. WorkerGoes(w, x)
      BY <2>2 DEF x
    <3> QED
      BY <1>1, <3>1, <3>2, OneWorker
  <2> QED
    BY <2>1, <2>2 DEF LookUpRoom, Skips
<1> QED
  BY <1>1, <1>3 DEF RemindersInv, RemindersTypeOK, MarkedWasNotified

LEMMA NotifyKeeps ==
  ASSUME RemindersInv, NEW w \in Server, NEW c \in worker[w].batch, Notify(w, c)
  PROVE  RemindersInv'
<1>1. UNCHANGED <<assignees, housed, task, edit, near, gone, faults>>
  BY DEF Notify, taskVars, timeVars
<1>2. worker[w] \in Worker /\ c.task \in Card /\ c.dueDate \in Date
  BY DEF RemindersInv, RemindersTypeOK, Worker, Copy
<1>3. PICK n \in [task : Card, dueDate : Date] :
        n.task = worker[w].at /\ notice' = notice \cup {n}
  BY <1>2 DEF Notify
<1>4. worker' \in [Server -> Worker] /\ MarksInv'
  <2> DEFINE x == [worker[w] EXCEPT !.step = "save"]
  <2>1. x \in Worker /\ x.at = worker[w].at
    BY <1>2 DEF Worker
  <2>2. WorkerGoes(w, x)
    BY DEF Notify
  <2> HIDE DEF x
  <2> QED
    BY <1>3, <2>1, <2>2, OneWorker
<1>5. MarkedWasNotified'
  BY <1>1, <1>3 DEF RemindersInv, MarkedWasNotified
<1> QED
  BY <1>1, <1>3, <1>4, <1>5 DEF RemindersInv, RemindersTypeOK

LEMMA NotifyFailsKeeps ==
  ASSUME RemindersInv, NEW w \in Server, NEW c \in worker[w].batch, NotifyFails(w, c)
  PROVE  RemindersInv'
<1>1. UNCHANGED <<assignees, housed, task, edit, notice, near, gone>>
  BY DEF NotifyFails, taskVars, timeVars
<1>2. faults' \in 0 .. MaxFaults
  BY ReminderAssumptions DEF NotifyFails, RemindersInv, RemindersTypeOK
<1>3. worker' \in [Server -> Worker] /\ MarksInv'
  BY <1>1, LoopFacts DEF NotifyFails, Fails
<1> QED
  BY <1>1, <1>2, <1>3 DEF RemindersInv, RemindersTypeOK, MarkedWasNotified

LEMMA MarkSentKeeps ==
  ASSUME RemindersInv, NEW w \in Server, NEW c \in worker[w].batch, MarkSent(w, c)
  PROVE  RemindersInv'
<1>1. UNCHANGED <<assignees, housed, edit, notice, near, gone, faults>>
  BY DEF MarkSent, timeVars
<1>2. worker[w] \in Worker /\ c.task \in Card
  BY DEF RemindersInv, RemindersTypeOK, Worker, Copy
<1>3. GoodCard(c.task, Marked(task[c.task]))
  <2>1. GoodCard(c.task, task[c.task])
    BY <1>2, CardsAreGood
  <2>2. Notified(c.task)
    <3>1. worker[w].step = "save" /\ worker[w].at = c.task
      BY DEF MarkSent
    <3>2. Notified(worker[w].at)
      BY <3>1 DEF RemindersInv, MarksInv
    <3> QED
      BY <3>1, <3>2
  <2>3. PICK d \in TaskCard : d = task[c.task]
    BY <2>1 DEF GoodCard
  <2>4. /\ Marked(d) \in TaskCard
        /\ Marked(d).stored = d.stored
        /\ ~d.stored => Marked(d) = d
    <3>1. CASE d.stored
      <4>1. d.stored = TRUE
        BY <3>1 DEF TaskCard
      <4>2. Marked(d) = [d EXCEPT !.reminderSent = TRUE]
        BY <4>1 DEF Marked
      <4> QED
        BY <3>1, <4>2 DEF TaskCard
    <3>2. CASE ~d.stored
      <4>1. d = Blank
        BY <2>1, <2>3, <3>2 DEF GoodCard
      <4>2. Marked(Blank) = Blank
        <5>1. Blank.stored = FALSE
          BY DEF Blank
        <5>2. Marked(Blank) = [Blank EXCEPT !.reminderSent = FALSE]
          BY <5>1 DEF Marked
        <5> QED
          BY <5>2 DEF Blank
      <4> QED
        BY <4>1, <4>2
    <3> QED
      BY <3>1, <3>2
  <2> QED
    BY <2>1, <2>2, <2>3, <2>4 DEF GoodCard
<1>4. /\ task' \in [Card -> TaskCard]
      /\ \A x \in Card : ~task'[x].stored => task'[x] = Blank
      /\ MarkedWasNotified'
  BY <1>1, <1>2, <1>3, OneCard DEF MarkSent
<1>5. worker' \in [Server -> Worker] /\ MarksInv'
  BY <1>1, LoopFacts DEF MarkSent
<1> QED
  BY <1>1, <1>4, <1>5 DEF RemindersInv, RemindersTypeOK

-----------------------------------------------------------------------------
(* Time goes by.                                                           *)
LEMMA TimeKeeps ==
  ASSUME RemindersInv, DateNears \/ DatePasses
  PROVE  RemindersInv'
<1>1. UNCHANGED <<assignees, housed, task, edit, worker, notice, faults>>
  BY DEF DateNears, DatePasses, taskVars, workVars
<1>2. near' \in Date /\ gone' \in 0 .. near'
  BY ReminderAssumptions DEF DateNears, DatePasses, RemindersInv, RemindersTypeOK, Date
<1> QED
  BY <1>1, <1>2 DEF RemindersInv, RemindersTypeOK, MarkedWasNotified, MarksInv, Notified

LEMMA ServerStopsKeeps ==
  ASSUME RemindersInv, ServerStops
  PROVE  RemindersInv'
<1>1. UNCHANGED <<assignees, housed, task, notice, near, gone>>
  BY DEF ServerStops, timeVars
<1>2. faults' \in 0 .. MaxFaults
  BY ReminderAssumptions DEF ServerStops, RemindersInv, RemindersTypeOK
<1>3. edit' \in [Editor -> Edit]
  BY NoEditFacts DEF ServerStops
<1>4. worker' \in [Server -> Worker] /\ MarksInv'
  BY RestingFacts DEF ServerStops, MarksInv
<1> QED
  BY <1>1, <1>2, <1>3, <1>4 DEF RemindersInv, RemindersTypeOK, MarkedWasNotified

LEMMA RemindersInitHolds == RemindersInit => RemindersInv
<1> SUFFICES ASSUME RemindersInit
             PROVE  RemindersInv
  OBVIOUS
<1>1. RemindersTypeOK
  BY ReminderAssumptions, BlankFacts, NoEditFacts, RestingFacts DEF RemindersInit, RemindersTypeOK, Date
<1>2. MarkedWasNotified /\ MarksInv
  BY BlankFacts, RestingFacts DEF RemindersInit, MarkedWasNotified, MarksInv
<1> QED
  BY <1>1, <1>2 DEF RemindersInv

LEMMA RemindersNextKeeps == RemindersInv /\ [RemindersNext]_reminderVars => RemindersInv'
<1> SUFFICES ASSUME RemindersInv, [RemindersNext]_reminderVars
             PROVE  RemindersInv'
  OBVIOUS
<1>1. ASSUME NEW w \in Server, Work(w)
      PROVE  RemindersInv'
  BY <1>1, ScanKeeps, LookUpRoomKeeps, NotifyKeeps, MarkSentKeeps DEF Work
<1>2. CASE UNCHANGED reminderVars
  BY <1>2 DEF reminderVars, taskVars, workVars, timeVars, RemindersInv, RemindersTypeOK, MarkedWasNotified,
     MarksInv, Notified
<1> QED
  BY <1>1, <1>2, CreateTaskKeeps, DeleteTaskKeeps, UpdateTaskKeeps, ClaimTaskKeeps,
     SaveKeeps, RoomGoesKeeps, AccountGoesKeeps, NotifyFailsKeeps, TimeKeeps,
     ServerStopsKeeps DEF RemindersNext

(* Every step of the handlers, of the workers and of time keeps this.      *)
THEOREM RemindersInvariance == RemindersSpec => []RemindersInv
<1> QED
  BY RemindersInitHolds, RemindersNextKeeps, PTL DEF RemindersSpec

(* The documents, the batches and the notifications stay well formed, and  *)
(* a deleted task leaves nothing behind, whatever is saved to it later.    *)
THEOREM RemindersTypeCorrect == RemindersSpec => []RemindersTypeOK
<1>1. RemindersInv => RemindersTypeOK
  BY DEF RemindersInv
<1> QED
  BY <1>1, RemindersInvariance, PTL

(* No task is marked as reminded of unless a reminder of it was stored,    *)
(* with any number of servers that remind and requests that save.          *)
THEOREM MarkedWasNotifiedProved == RemindersSpec => []MarkedWasNotified
<1>1. RemindersInv => MarkedWasNotified
  BY DEF RemindersInv
<1> QED
  BY <1>1, RemindersInvariance, PTL

=============================================================================
