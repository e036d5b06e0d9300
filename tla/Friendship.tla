----------------------------- MODULE Friendship -----------------------------
(***************************************************************************)
(* Friend requests, the two lists of friends and what comes with them:     *)
(* notifications and rooms for direct messages                             *)
(* (backend/controllers/friendController.js).                              *)
(*                                                                         *)
(* A friendship is stored twice, in a list of each account, and written by *)
(* two saves one after the other.  Accepting pushes onto a list, whatever  *)
(* its revision; removing stores a whole list, which mongoose refuses when *)
(* the document has got another revision since it was read.  A request     *)
(* stays stored for ever, and there is one for each direction.             *)
(*                                                                         *)
(* Not here: search and suggestions, deletion of accounts, reading and     *)
(* marking notifications.                                                  *)
(***************************************************************************)
EXTENDS Naturals, FiniteSets

CONSTANTS
  Account,    \* accounts
  Request,    \* HTTP requests being served at the same time
  NoPair      \* the friend request of an HTTP request that has none

ASSUME FriendshipAssumptions ==
  /\ NoPair \notin Account \X Account
  /\ IsFiniteSet(Request)

VARIABLES
  friends,    \* how often an account has another in its list
  request,    \* friend requests, <<from, to>>
  notice,     \* FRIEND_REQUEST notifications that are stored
  job,        \* what each HTTP request has read and does next
  late,       \* requests whose notification came after the answer, or whose
              \* answer failed (history)
  both,       \* pairs whose requests of both directions were being sent at once (history)
  torn        \* pairs whose friendship may be stored on one side (history)

friendshipVars == <<friends, request, notice, job, late, both, torn>>

Pair == {p \in Account \X Account : p[1] # p[2]}

Reverse(p) == <<p[2], p[1]>>

(* The same two accounts, in both directions.                              *)
Between(p) == {p, Reverse(p)}

(* The friend of the two sides of a request: 1 is who sent it.             *)
Side == {1, 2}

Other(p, i) == p[3 - i]

Job ==
  [op : {"none", "send", "accept", "decline", "remove"},
   step : {"idle", "check", "store", "notify", "answer", "read1", "read2",
           "save1", "save2", "tidy", "room"},
   pair : Pair \cup {NoPair},
   lists : SUBSET Side,      \* sides whose list held the other when it was read
   stale : SUBSET Side]      \* sides whose list has got a new revision since

Idle == [op |-> "none", step |-> "idle", pair |-> NoPair, lists |-> {}, stale |-> {}]

FriendshipInit ==
  /\ friends = [u \in Account |-> [v \in Account |-> 0]]
  /\ request = [p \in Pair |-> "none"]
  /\ notice = {}
  /\ job = [r \in Request |-> Idle]
  /\ late = {}
  /\ both = {}
  /\ torn = {}

Begin(r, op, step, p) ==
  /\ job[r] = Idle
  /\ job' = [job EXCEPT ![r] = [Idle EXCEPT !.op = op, !.step = step, !.pair = p]]

At(r, op, step) == job[r].op = op /\ job[r].step = step

Goes(r, step) == job' = [job EXCEPT ![r].step = step]

Finish(r) == job' = [job EXCEPT ![r] = Idle]

(* The requests for op on these two accounts.                              *)
Busy(op, p) == {r \in Request : job[r].op = op /\ job[r].pair \in Between(p)}

(* The two are noted in history h, if what may hurt them happens.          *)
Noted(h, p, happens) == IF happens THEN h \cup Between(p) ELSE h

-----------------------------------------------------------------------------
(* sendFriendRequest.  A pending request of one's own ends it; one that    *)
(* was answered before is noticed only by the index, when it is stored.    *)
SendFind(r, p) ==
  /\ friends[p[1]][p[2]] = 0
  /\ request[p] # "pending"
  /\ Begin(r, "send", "check", p)
  /\ both' = Noted(both, p, \E q \in Busy("send", p) : job[q].pair = Reverse(p))
  /\ UNCHANGED <<friends, request, notice, late, torn>>

(* Seeded fault: the other direction is not looked at.                     *)
NotLookedAt(p) == TRUE

NoneFromThere(p) == request[Reverse(p)] # "pending"

SendCheck(r) ==
  /\ At(r, "send", "check")
  /\ IF NoneFromThere(job[r].pair) THEN Goes(r, "store") ELSE Finish(r)
  /\ UNCHANGED <<friends, request, notice, late, both, torn>>

SendStore(r) ==
  LET p == job[r].pair IN
  /\ At(r, "send", "store")
  /\ IF request[p] = "none"
     THEN request' = [request EXCEPT ![p] = "pending"] /\ Goes(r, "notify")
     ELSE UNCHANGED request /\ Finish(r)
  /\ UNCHANGED <<friends, notice, late, both, torn>>

SendNotify(r) ==
  LET p == job[r].pair IN
  /\ At(r, "send", "notify")
  /\ notice' = notice \cup {p}
  /\ late' = IF request[p] = "pending" THEN late ELSE late \cup {p}
  /\ Finish(r)
  /\ UNCHANGED <<friends, request, both, torn>>

-----------------------------------------------------------------------------
(* acceptFriendRequest and declineFriendRequest, by who the request is to. *)
(* Only accepting asks whether it is pending; a request that is declined   *)
(* already is saved without a change.                                      *)
AnswerFind(r, p, op) ==
  /\ request[p] # "none"
  /\ op = "accept" => request[p] = "pending"
  /\ Begin(r, op, IF op = "decline" /\ request[p] = "declined" THEN "tidy" ELSE "answer", p)
  /\ torn' = Noted(torn, p, op = "accept" /\ Busy("remove", p) # {})
  /\ UNCHANGED <<friends, request, notice, late, both>>

Accept(r) ==
  LET p == job[r].pair IN
  /\ At(r, "accept", "answer")
  /\ request' = [request EXCEPT ![p] = "accepted"]
  /\ Goes(r, "read1")
  /\ UNCHANGED <<friends, notice, late, both, torn>>

Decline(r) ==
  LET p == job[r].pair IN
  /\ At(r, "decline", "answer")
  /\ request' = [request EXCEPT ![p] = "declined"]
  /\ Goes(r, "tidy")
  /\ UNCHANGED <<friends, notice, late, both, torn>>

(* removeFriend, by p[1], who has p[2] in the list or not.                 *)
RemoveFind(r, p) ==
  /\ Begin(r, "remove", "read1", p)
  /\ torn' = Noted(torn, p, Busy("accept", p) # {})
  /\ UNCHANGED <<friends, request, notice, late, both>>

(* Both handlers read the two accounts one after the other.                *)
Read(r, i) ==
  LET p == job[r].pair IN
  /\ job[r].step = IF i = 1 THEN "read1" ELSE "read2"
  /\ job' = [job EXCEPT ![r].step = IF i = 1 THEN "read2" ELSE "save1",
                        ![r].lists = IF friends[p[i]][Other(p, i)] > 0 THEN @ \cup {i} ELSE @]
  /\ UNCHANGED <<friends, request, notice, late, both, torn>>

Stepped(jobs, r, step) == [jobs EXCEPT ![r].step = step]

(* What others have read of account u is no longer its revision.           *)
Staled(jobs, u) ==
  [q \in Request |->
     [jobs[q] EXCEPT !.stale = @ \cup {i \in Side :
        /\ jobs[q].op = "remove" /\ jobs[q].pair[i] = u
        /\ jobs[q].step \in (IF i = 1 THEN {"read2", "save1"} ELSE {"save1", "save2"})}]]

(* Seeded fault: the second list is left as it is.                         *)
PushedOnce(p, i) == IF i = 1 THEN friends[p[1]][p[2]] + 1 ELSE friends[p[2]][p[1]]

Pushed(p, i) == friends[p[i]][Other(p, i)] + 1

(* Seeded fault: nobody asks whether the other is in the list.             *)
NeverListed(j, i) == FALSE

Listed(j, i) == i \in j.lists

(* Each side is pushed onto if the copy lacked the other, and else saved   *)
(* without a change.                                                       *)
AcceptSave(r, i) ==
  LET j == job[r]
      p == j.pair
      next == IF i = 1 THEN "save2" ELSE "tidy"
  IN
  /\ At(r, "accept", IF i = 1 THEN "save1" ELSE "save2")
  /\ IF Listed(j, i)
     THEN UNCHANGED friends /\ Goes(r, next)
     ELSE /\ friends' = [friends EXCEPT ![p[i]][Other(p, i)] = Pushed(p, i)]
          /\ job' = Staled(Stepped(job, r, next), p[i])
  /\ UNCHANGED <<request, notice, late, both, torn>>

(* A copy that held the other is saved without, unless it is stale; that   *)
(* is refused, and ends the handler.                                       *)
RemoveSave(r, i) ==
  LET j == job[r]
      p == j.pair
      jobs == IF i = 1 THEN Stepped(job, r, "save2") ELSE [job EXCEPT ![r] = Idle]
  IN
  /\ At(r, "remove", IF i = 1 THEN "save1" ELSE "save2")
  /\ i \in j.lists => i \notin j.stale
  /\ IF i \in j.lists
     THEN /\ friends' = [friends EXCEPT ![p[i]][Other(p, i)] = 0]
          /\ job' = Staled(jobs, p[i])
     ELSE UNCHANGED friends /\ job' = jobs
  /\ UNCHANGED <<request, notice, late, both, torn>>

RemoveRefused(r, i) ==
  LET p == job[r].pair IN
  /\ At(r, "remove", IF i = 1 THEN "save1" ELSE "save2")
  /\ i \in job[r].lists \cap job[r].stale
  /\ Finish(r)
  /\ torn' = Noted(torn, p, Busy("remove", p) = {r})
  /\ UNCHANGED <<friends, request, notice, late, both>>

(* Seeded fault: the notification is left.                                 *)
Kept(p) == notice

Tidied(p) == notice \ {p}

Tidy(r) ==
  /\ job[r].step = "tidy"
  /\ notice' = Tidied(job[r].pair)
  /\ IF job[r].op = "accept" THEN Goes(r, "room") ELSE Finish(r)
  /\ UNCHANGED <<friends, request, late, both, torn>>

(* The other is notified, and a room for direct messages is made, even if  *)
(* there is one (CreateDM of RoomMembership).                              *)
AcceptRoom(r) ==
  /\ job[r].step = "room"
  /\ Finish(r)
  /\ UNCHANGED <<friends, request, notice, late, both, torn>>

(* A save of another list of the account: skills, previous passwords.      *)
OtherSave(u) ==
  /\ job' = Staled(job, u)
  /\ job' # job
  /\ UNCHANGED <<friends, request, notice, late, both, torn>>

(* A call that fails, or a stop of the server.                             *)
Fail(r) ==
  LET p == job[r].pair IN
  /\ job[r] # Idle
  /\ Finish(r)
  /\ torn' = Noted(torn, p, job[r].op \in {"accept", "remove"})
  /\ late' = IF job[r].op \in {"accept", "decline"} THEN late \cup {p} ELSE late
  /\ UNCHANGED <<friends, request, notice, both>>

-----------------------------------------------------------------------------
FriendshipNext ==
  \/ \E r \in Request :
       \/ \E p \in Pair : \/ SendFind(r, p)
                          \/ \E op \in {"accept", "decline"} : AnswerFind(r, p, op)
                          \/ RemoveFind(r, p)
       \/ SendCheck(r) \/ SendStore(r) \/ SendNotify(r)
       \/ Accept(r) \/ Decline(r)
       \/ \E i \in Side : Read(r, i) \/ AcceptSave(r, i) \/ RemoveSave(r, i) \/ RemoveRefused(r, i)
       \/ Tidy(r)
       \/ AcceptRoom(r)
       \/ Fail(r)
  \/ \E u \in Account : OtherSave(u)

FriendshipSpec == FriendshipInit /\ [][FriendshipNext]_friendshipVars

-----------------------------------------------------------------------------
FriendshipTypeOK ==
  /\ friends \in [Account -> [Account -> 0 .. Cardinality(Request)]]
  /\ request \in [Pair -> {"none", "pending", "accepted", "declined"}]
  /\ notice \subseteq Pair
  /\ job \in [Request -> Job]
  /\ late \subseteq Pair
  /\ both \subseteq Pair
  /\ torn \subseteq Pair

(* Unless their friendship is being made or ended, each of two friends has *)
(* the other in the list: requests accepted twice, or in both directions at*)
(* once, and friends who remove each other at once, do not change that, nor*)
(* what others do.  It takes an acceptance that overlaps a removal of the  *)
(* same two, a refused save or a failure.                                  *)
FriendsAreMutual ==
  \A p \in Pair \ torn :
    Busy("accept", p) \cup Busy("remove", p) = {} =>
      (friends[p[1]][p[2]] > 0 <=> friends[p[2]][p[1]] > 0)

(* A notification that asks for an answer is about a request that has none *)
(* yet, or that is being answered, or it was stored too late to be taken   *)
(* out by the answer, or the answer failed half-way.                       *)
NoticeAsksForAnswer ==
  \A p \in notice : \/ request[p] = "pending"
                    \/ \E r \in Request : job[r].pair = p /\ job[r].op \in {"accept", "decline"}
                    \/ p \in late

(* Two accounts wait for each other's answer only if they sent their       *)
(* requests at the same time.                                              *)
OneWaits ==
  \A p \in Pair : request[p] = "pending" /\ request[Reverse(p)] = "pending" => p \in both

=============================================================================
