-------------------------- MODULE Contacts_proofs --------------------------
(***************************************************************************)
(* Theorems about friends (Friendship), for any number of accounts and of  *)
(* requests that are served at the same time, and about the chat of two of *)
(* them (DirectChat), for any number of messages and of interruptions.     *)
(*                                                                         *)
(* Friends, the lists: unless an acceptance and a removal of the same two  *)
(* overlap, or one of them fails half-way, what a request has read and     *)
(* written of the two lists stays as it knows it while it goes on.  So an  *)
(* acceptance that ends leaves both with the other in the list, and a      *)
(* removal leaves neither.  Requests and notifications: what a handler has *)
(* looked at and has still to do is kept for each step of it.              *)
(*                                                                         *)
(* An action moves one request, and may make what others have read stale,  *)
(* which only decides whether their saves are refused: each part of the    *)
(* invariant has a lemma about such a step.                                *)
(*                                                                         *)
(* The chat: its invariant speaks of all that is on its way to the page,   *)
(* the events and the answers to the loads, as well as of what is shown.   *)
(***************************************************************************)
EXTENDS Friendship, DirectChat, Integers, FiniteSetTheorems, TLAPS

(* The entry of a list that side i of a request writes: whose list it is,  *)
(* and who is in it.                                                       *)
Entry(p, i) == IF i = 1 THEN p ELSE Reverse(p)

Count(e) == friends[e[1]][e[2]]

(* Two jobs but for what is stale of them.                                 *)
Alike(j, k) == /\ j.op = k.op /\ j.step = k.step /\ j.pair = k.pair /\ j.lists = k.lists

(* The steps of each handler.                                              *)
InOrder(j) ==
  /\ j.op = "none" => j.step = "idle"
  /\ j.op # "none" => j.pair \in Pair
  /\ j.op = "send" => j.step \in {"check", "store", "notify"}
  /\ j.op = "accept" => j.step \in {"answer", "read1", "read2", "save1", "save2", "tidy", "room"}
  /\ j.op = "decline" => j.step \in {"answer", "tidy"}
  /\ j.op = "remove" => j.step \in {"read1", "read2", "save1", "save2"}
  /\ j.step \in {"answer", "read1"} => j.lists = {}
  /\ j.step = "read2" => 2 \notin j.lists

(* j has found entry e missing in its copy, and has still to save it.      *)
Adds(j, e) ==
  /\ j.op = "accept"
  /\ \/ j.pair = e /\ j.step \in {"read2", "save1"} /\ 1 \notin j.lists
     \/ j.pair = Reverse(e) /\ j.step \in {"save1", "save2"} /\ 2 \notin j.lists

Adding(e) == {q \in Request : Adds(job[q], e)}

(* An entry is there at most once for each request: what is missing in a   *)
(* copy was missing in the list, and one request adds it once.             *)
ListsInv ==
  /\ friends \in [Account -> [Account -> Nat]]
  /\ \A u \in Account : friends[u][u] = 0
  /\ \A e \in Pair : Count(e) > 0 => Count(e) + Cardinality(Adding(e)) <= Cardinality(Request)

(* What an acceptance or a removal knows of the two lists, while nothing   *)
(* has hurt the two.                                                       *)
Knows(j) ==
  LET p == j.pair
      mine == Count(p)
      theirs == Count(Reverse(p))
  IN
  /\ j.op = "accept" =>
       /\ j.step \in {"read2", "save1"} /\ 1 \in j.lists => mine > 0
       /\ j.step \in {"save1", "save2"} /\ 2 \in j.lists => theirs > 0
       /\ j.step \in {"save2", "tidy", "room"} => mine > 0
       /\ j.step \in {"tidy", "room"} => theirs > 0
  /\ j.op = "remove" =>
       /\ j.step \in {"read2", "save1"} /\ 1 \notin j.lists => mine = 0
       /\ j.step \in {"save1", "save2"} /\ 2 \notin j.lists => theirs = 0
       /\ j.step = "save2" => mine = 0

Working(j, p) == j.op \in {"accept", "remove"} /\ j.pair \in Between(p)

MutualInv ==
  /\ \A p \in torn : Reverse(p) \in torn
  /\ \A r \in Request : job[r].op \in {"accept", "remove"} /\ job[r].pair \notin torn =>
       /\ Knows(job[r])
       /\ \A q \in Request : Working(job[q], job[r].pair) => job[q].op = job[r].op
  /\ \A p \in Pair \ torn : \/ Count(p) > 0 <=> Count(Reverse(p)) > 0
                            \/ \E q \in Request : Working(job[q], p)

(* The notification will be taken out.                                     *)
WillTidy(j, p) == j.pair = p /\ (j.op = "decline" \/ (j.op = "accept" /\ j.step # "room"))

NoticeInv ==
  \A p \in notice : \/ request[p] = "pending"
                    \/ p \in late
                    \/ \E r \in Request : WillTidy(job[r], p)

SendInv ==
  /\ \A p \in both : Reverse(p) \in both
  /\ \A r \in Request : job[r].op = "send" /\ job[r].pair \notin both =>
       /\ job[r].step = "store" => request[Reverse(job[r].pair)] # "pending"
       /\ \A q \in Request : job[q].op = "send" => job[q].pair # Reverse(job[r].pair)

FriendshipInv ==
  /\ request \in [Pair -> {"none", "pending", "accepted", "declined"}]
  /\ notice \subseteq Pair
  /\ job \in [Request -> Job]
  /\ late \subseteq Pair
  /\ both \subseteq Pair
  /\ torn \subseteq Pair
  /\ \A r \in Request : InOrder(job[r])
  /\ ListsInv
  /\ MutualInv
  /\ NoticeInv
  /\ SendInv
  /\ OneWaits

-----------------------------------------------------------------------------
LEMMA PairFacts ==
  ASSUME NEW p \in Pair
  PROVE  /\ Reverse(p) \in Pair /\ Reverse(Reverse(p)) = p /\ Reverse(p) # p
         /\ Between(p) = {p, Reverse(p)} /\ Between(Reverse(p)) = Between(p)
         /\ p # NoPair
BY FriendshipAssumptions DEF Pair, Reverse, Between

LEMMA FriendshipTypes ==
  ASSUME FriendshipInv
  PROVE  /\ job \in [Request -> Job]
         /\ \A r \in Request :
              /\ job[r] \in Job /\ InOrder(job[r])
              /\ job[r].op # "none" => job[r].pair \in Pair
              /\ job[r].lists \subseteq Side
BY DEF FriendshipInv, InOrder, Job

LEMMA AlikeFacts ==
  ASSUME NEW j, NEW k, Alike(j, k)
  PROVE  /\ InOrder(k) => InOrder(j)
         /\ \A e : Adds(j, e) <=> Adds(k, e)
         /\ Knows(k) <=> Knows(j)
         /\ \A p : Working(j, p) <=> Working(k, p)
         /\ \A p : WillTidy(j, p) <=> WillTidy(k, p)
BY DEF Alike, InOrder, Adds, Knows, Working, WillTidy

(* Request r goes on to j; others may have become stale.                   *)
Moves(r, j) ==
  /\ job' \in [Request -> Job]
  /\ Alike(job'[r], j)
  /\ \A q \in Request \ {r} : Alike(job'[q], job[q])

LEMMA NoJob ==
  /\ Idle \in Job /\ InOrder(Idle) /\ Idle.op = "none"
  /\ \A e : ~Adds(Idle, e)
  /\ \A p : ~Working(Idle, p) /\ ~WillTidy(Idle, p)
BY DEF Idle, Job, InOrder, Adds, Working, WillTidy

LEMMA FinishMoves ==
  ASSUME FriendshipInv, NEW r \in Request, Finish(r)
  PROVE  Moves(r, Idle)
BY FriendshipTypes, NoJob DEF Finish, Moves, Alike

LEMMA GoesMoves ==
  ASSUME FriendshipInv, NEW r \in Request, NEW step, Goes(r, step),
         step \in {"store", "notify", "read1", "save2", "tidy", "room"}
  PROVE  \E j \in Job : /\ Moves(r, j)
                        /\ j.op = job[r].op /\ j.step = step
                        /\ j.pair = job[r].pair /\ j.lists = job[r].lists
<1> DEFINE j == [job[r] EXCEPT !.step = step]
<1>1. /\ j \in Job
      /\ j.op = job[r].op /\ j.step = step
      /\ j.pair = job[r].pair /\ j.lists = job[r].lists
  BY FriendshipTypes DEF Job
<1>2. job' = [job EXCEPT ![r] = j]
  BY FriendshipTypes DEF Goes
<1> HIDE DEF j
<1>3. Moves(r, j)
  BY <1>1, <1>2, FriendshipTypes DEF Moves, Alike
<1> QED
  BY <1>1, <1>3

LEMMA BeginMoves ==
  ASSUME FriendshipInv, NEW r \in Request, NEW p \in Pair, NEW op, NEW step,
         op \in {"send", "accept", "decline", "remove"},
         step \in {"check", "answer", "read1", "tidy"}, Begin(r, op, step, p)
  PROVE  /\ job[r].op = "none"
         /\ \E j \in Job : /\ Moves(r, j)
                           /\ j.op = op /\ j.step = step
                           /\ j.pair = p /\ j.lists = {}
<1> DEFINE j == [Idle EXCEPT !.op = op, !.step = step, !.pair = p]
<1>1. j \in Job /\ j.op = op /\ j.step = step /\ j.pair = p /\ j.lists = {}
  BY DEF Idle, Job
<1>2. job' = [job EXCEPT ![r] = j] /\ job[r] = Idle
  BY DEF Begin
<1> HIDE DEF j
<1>3. Moves(r, j)
  BY <1>1, <1>2, FriendshipTypes DEF Moves, Alike
<1> QED
  BY <1>1, <1>2, <1>3, NoJob

LEMMA StaledMoves ==
  ASSUME NEW jobs \in [Request -> Job], NEW u
  PROVE  /\ Staled(jobs, u) \in [Request -> Job]
         /\ \A q \in Request : Alike(Staled(jobs, u)[q], jobs[q])
<1>1. ASSUME NEW q \in Request, NEW s \in SUBSET Side
      PROVE  LET k == [jobs[q] EXCEPT !.stale = @ \cup s]
             IN  k \in Job /\ Alike(k, jobs[q])
  BY DEF Job, Alike
<1> DEFINE st(q) == {i \in Side :
        /\ jobs[q].op = "remove" /\ jobs[q].pair[i] = u
        /\ jobs[q].step \in (IF i = 1 THEN {"read2", "save1"} ELSE {"save1", "save2"})}
<1>2. \A q \in Request : st(q) \in SUBSET Side
  OBVIOUS
<1>3. Staled(jobs, u) = [q \in Request |-> [jobs[q] EXCEPT !.stale = @ \cup st(q)]]
  BY DEF Staled
<1> HIDE DEF st
<1>4. ASSUME NEW q \in Request
      PROVE  Staled(jobs, u)[q] \in Job /\ Alike(Staled(jobs, u)[q], jobs[q])
  <2>1. PICK s \in SUBSET Side : s = st(q)
    BY <1>2
  <2>2. Staled(jobs, u)[q] = [jobs[q] EXCEPT !.stale = @ \cup s]
    BY <1>3, <2>1
  <2> QED
    BY <1>1, <2>2
<1>5. Staled(jobs, u) = [q \in Request |-> Staled(jobs, u)[q]]
  BY <1>3
<1> QED
  BY <1>4, <1>5

-----------------------------------------------------------------------------
(* The lists are as they were.  What a request has still to add, it already*)
(* had, or the entry is missing.                                           *)
LEMMA SameLists ==
  ASSUME FriendshipInv, NEW r \in Request, NEW j, Moves(r, j), friends' = friends,
         \A e \in Pair : Adds(j, e) /\ Count(e) > 0 => Adds(job[r], e)
  PROVE  ListsInv'
<1>1. \A e : Count(e)' = Count(e)
  BY DEF Count
<1>2. ASSUME NEW e \in Pair, Count(e) > 0
      PROVE  Cardinality(Adding(e)') <= Cardinality(Adding(e))
  <2>1. \A q \in Request : Adds(job'[q], e) => Adds(job[q], e)
    BY <1>2, AlikeFacts DEF Moves
  <2>2. Adding(e)' \subseteq Adding(e)
    BY <2>1 DEF Adding, Adds
  <2>3. IsFiniteSet(Adding(e))
    BY FriendshipAssumptions, FS_Subset DEF Adding
  <2> QED
    BY <2>2, <2>3, FS_Subset
<1>3. ASSUME NEW e \in Pair
      PROVE  (Count(e) > 0 => Count(e) + Cardinality(Adding(e)) <= Cardinality(Request))'
  <2>1. SUFFICES ASSUME Count(e) > 0
                 PROVE  Count(e) + Cardinality(Adding(e)') <= Cardinality(Request)
    BY <1>1
  <2>2. /\ Cardinality(Adding(e)) \in Nat /\ Cardinality(Adding(e)') \in Nat
        /\ Cardinality(Request) \in Nat
    <3>1. Adding(e) \subseteq Request /\ Adding(e)' \subseteq Request
      BY DEF Adding
    <3> QED
      BY <3>1, FriendshipAssumptions, FS_Subset, FS_CardinalityType
  <2>3. Count(e) \in Nat
    BY DEF FriendshipInv, ListsInv, Count, Pair
  <2>4. Count(e) + Cardinality(Adding(e)) <= Cardinality(Request)
    BY <2>1 DEF FriendshipInv, ListsInv
  <2> QED
    BY <1>2, <2>1, <2>2, <2>3, <2>4
<1> QED
  BY <1>3 DEF FriendshipInv, ListsInv

LEMMA SameMutual ==
  ASSUME FriendshipInv, NEW r \in Request, NEW j, Moves(r, j), friends' = friends,
         torn \subseteq torn', \A p \in torn' : Reverse(p) \in torn',
         j.op \in {"accept", "remove"} /\ j.pair \notin torn' =>
           /\ j.pair \in Pair
           /\ Knows(j)
           /\ \A q \in Request \ {r} : Working(job[q], j.pair) => job[q].op = j.op,
         \A p \in Pair \ torn' : Working(job[r], p) /\ ~Working(j, p) =>
           \/ Count(p) > 0 <=> Count(Reverse(p)) > 0
           \/ \E q \in Request \ {r} : Working(job[q], p)
  PROVE  MutualInv'
<1>1. \A e : Count(e)' = Count(e)
  BY DEF Count
<1>2. \A k : Knows(k)' <=> Knows(k)
  BY <1>1 DEF Knows
<1>3. ASSUME NEW q \in Request, job'[q].op \in {"accept", "remove"}, job'[q].pair \notin torn'
      PROVE  /\ Knows(job'[q])
             /\ \A x \in Request : Working(job'[x], job'[q].pair) => job'[x].op = job'[q].op
  <2>1. CASE q = r
    <3>1. job'[q].op = j.op /\ job'[q].pair = j.pair
      BY <2>1 DEF Moves, Alike
    <3>2. Knows(job'[q])
      BY <1>3, <2>1, <3>1, AlikeFacts DEF Moves
    <3>3. \A x \in Request \ {r} : Working(job'[x], j.pair) => job'[x].op = j.op
      BY <1>3, <3>1, AlikeFacts DEF Moves, Alike
    <3> QED
      BY <2>1, <3>1, <3>2, <3>3
  <2>2. CASE q # r
    <3>1. Alike(job'[q], job[q])
      BY <2>2 DEF Moves
    <3>2. job[q].op = job'[q].op /\ job[q].pair = job'[q].pair /\ job[q].pair \notin torn
      BY <1>3, <3>1 DEF Alike
    <3>3. Knows(job[q]) /\ \A x \in Request : Working(job[x], job[q].pair) => job[x].op = job[q].op
      BY <1>3, <3>2 DEF FriendshipInv, MutualInv
    <3>4. \A x \in Request \ {r} : Working(job'[x], job[q].pair) => job'[x].op = job[q].op
      BY <3>3, AlikeFacts DEF Moves, Alike
    <3>5. Working(j, job[q].pair) => j.op = job[q].op
      <4> SUFFICES ASSUME Working(j, job[q].pair)
                   PROVE  j.op = job[q].op
        OBVIOUS
      <4>1. job[q].pair \in Pair
        BY <1>3, <3>2, FriendshipTypes
      <4>2. j.pair \in Between(job[q].pair) /\ j.op \in {"accept", "remove"}
        BY DEF Working
      <4>3. j.pair \in Pair /\ job[q].pair \in Between(j.pair)
        BY <4>1, <4>2, PairFacts
      <4>4. j.pair \notin torn'
        BY <1>3, <3>2, <4>1, <4>2, PairFacts
      <4>5. Working(job[q], j.pair)
        BY <1>3, <3>2, <4>3 DEF Working
      <4> QED
        BY <2>2, <4>2, <4>4, <4>5
    <3>6. Working(job'[r], job[q].pair) => job'[r].op = job[q].op
      BY <3>5, AlikeFacts DEF Moves, Alike
    <3> QED
      BY <3>1, <3>2, <3>3, <3>4, <3>6, AlikeFacts
  <2> QED
    BY <2>1, <2>2
<1>4. ASSUME NEW p \in Pair \ torn'
      PROVE  \/ Count(p) > 0 <=> Count(Reverse(p)) > 0
             \/ \E q \in Request : Working(job'[q], p)
  <2>1. \/ Count(p) > 0 <=> Count(Reverse(p)) > 0
        \/ \E q \in Request : Working(job[q], p)
    BY DEF FriendshipInv, MutualInv
  <2>2. ASSUME NEW q \in Request, Working(job[q], p), q # r
        PROVE  Working(job'[q], p)
    BY <2>2, AlikeFacts DEF Moves
  <2>3. Working(j, p) => Working(job'[r], p)
    BY AlikeFacts DEF Moves
  <2> QED
    BY <2>1, <2>2, <2>3
<1>5. \A p : \A k : Working(k, p)' <=> Working(k, p)
  BY DEF Working
<1>6. \A q \in Request : Knows(job[q])' <=> Knows(job'[q])
  BY <1>1 DEF Knows
<1> QED
  BY <1>1, <1>3, <1>4, <1>5, <1>6 DEF MutualInv, Working

LEMMA NoticeKeeps ==
  ASSUME FriendshipInv, NEW r \in Request, NEW j, Moves(r, j), late \subseteq late',
         \A p \in notice' : p \in notice \/ request'[p] = "pending" \/ p \in late',
         \A p \in notice \cap notice' :
           /\ request[p] = "pending" => request'[p] = "pending" \/ WillTidy(j, p)
           /\ WillTidy(job[r], p) => WillTidy(j, p) \/ p \in late'
  PROVE  NoticeInv'
<1> SUFFICES ASSUME NEW p \in notice'
             PROVE  \/ request'[p] = "pending"
                    \/ p \in late'
                    \/ \E q \in Request : WillTidy(job'[q], p)
  BY DEF NoticeInv, WillTidy
<1>1. WillTidy(j, p) => WillTidy(job'[r], p)
  BY AlikeFacts DEF Moves
<1>2. \A q \in Request \ {r} : WillTidy(job[q], p) => WillTidy(job'[q], p)
  BY AlikeFacts DEF Moves
<1>3. CASE p \in notice
  <2>1. \/ request[p] = "pending"
        \/ p \in late
        \/ \E q \in Request : WillTidy(job[q], p)
    BY <1>3 DEF FriendshipInv, NoticeInv
  <2> QED
    BY <1>1, <1>2, <1>3, <2>1
<1> QED
  BY <1>3

(* A request becomes pending only by the handler that stores it.           *)
LEMMA SendKeeps ==
  ASSUME FriendshipInv, NEW r \in Request, NEW j, Moves(r, j),
         both \subseteq both', \A p \in both' : Reverse(p) \in both',
         j.op = "send" /\ j.pair \notin both' =>
           /\ j.pair \in Pair
           /\ j.step = "store" => request'[Reverse(j.pair)] # "pending"
           /\ \A q \in Request \ {r} : job[q].op = "send" => job[q].pair # Reverse(j.pair),
         \A p \in Pair : request'[p] = "pending" =>
           \/ request[p] = "pending"
           \/ job[r].op = "send" /\ job[r].step = "store" /\ job[r].pair = p
  PROVE  SendInv' /\ OneWaits'
<1>1. ASSUME NEW q \in Request, job'[q].op = "send", job'[q].pair \notin both'
      PROVE  /\ job'[q].step = "store" => request'[Reverse(job'[q].pair)] # "pending"
             /\ \A x \in Request : job'[x].op = "send" => job'[x].pair # Reverse(job'[q].pair)
  <2>1. CASE q = r
    <3>1. job'[q].op = j.op /\ job'[q].pair = j.pair /\ job'[q].step = j.step
      BY <2>1 DEF Moves, Alike
    <3>2. \A x \in Request \ {r} : job'[x].op = job[x].op /\ job'[x].pair = job[x].pair
      BY DEF Moves, Alike
    <3>3. j.pair # Reverse(j.pair)
      BY <1>1, <3>1, PairFacts
    <3> QED
      BY <1>1, <2>1, <3>1, <3>2, <3>3
  <2>2. CASE q # r
    <3>1. /\ job'[q].op = job[q].op /\ job'[q].pair = job[q].pair
          /\ job'[q].step = job[q].step
      BY <2>2 DEF Moves, Alike
    <3>2. job[q].op = "send" /\ job[q].pair \in Pair /\ job[q].pair \notin both
      BY <1>1, <3>1, FriendshipTypes
    <3>3. /\ job[q].step = "store" => request[Reverse(job[q].pair)] # "pending"
          /\ \A x \in Request : job[x].op = "send" => job[x].pair # Reverse(job[q].pair)
      BY <3>2 DEF FriendshipInv, SendInv
    <3>4. job[q].step = "store" => request'[Reverse(job[q].pair)] # "pending"
      BY <3>2, <3>3, PairFacts
    <3>5. j.op = "send" => j.pair # Reverse(job[q].pair)
      <4> SUFFICES ASSUME j.op = "send", j.pair = Reverse(job[q].pair)
                   PROVE  FALSE
        OBVIOUS
      <4>1. j.pair \notin both'
        BY <1>1, <3>1, <3>2, PairFacts
      <4> QED
        BY <2>2, <3>2, <4>1, PairFacts
    <3>6. \A x \in Request \ {r} : job'[x].op = job[x].op /\ job'[x].pair = job[x].pair
      BY DEF Moves, Alike
    <3>7. job'[r].op = j.op /\ job'[r].pair = j.pair
      BY DEF Moves, Alike
    <3> QED
      BY <3>1, <3>3, <3>4, <3>5, <3>6, <3>7
  <2> QED
    BY <2>1, <2>2
<1>2. SendInv'
  BY <1>1 DEF SendInv
<1>3. ASSUME NEW p \in Pair, request'[p] = "pending", request'[Reverse(p)] = "pending"
      PROVE  p \in both'
  <2>1. Reverse(p) \in Pair /\ Reverse(Reverse(p)) = p /\ Reverse(p) # p
    BY PairFacts
  <2>2. CASE request[p] = "pending" /\ request[Reverse(p)] = "pending"
    BY <2>2 DEF FriendshipInv, OneWaits
  <2>3. CASE request[p] # "pending"
    <3>1. job[r].op = "send" /\ job[r].step = "store" /\ job[r].pair = p
      BY <1>3, <2>3
    <3>2. request[Reverse(p)] = "pending"
      BY <1>3, <2>1, <3>1
    <3> QED
      BY <3>1, <3>2 DEF FriendshipInv, SendInv
  <2>4. CASE request[Reverse(p)] # "pending"
    <3>1. job[r].op = "send" /\ job[r].step = "store" /\ job[r].pair = Reverse(p)
      BY <1>3, <2>1, <2>4
    <3>2. request[p] = "pending"
      BY <1>3, <2>1, <3>1
    <3>3. Reverse(p) \in both
      BY <2>1, <3>1, <3>2 DEF FriendshipInv, SendInv
    <3> QED
      BY <2>1, <3>3
  <2> QED
    BY <2>2, <2>3, <2>4
<1> QED
  BY <1>2, <1>3 DEF OneWaits, Reverse

LEMMA OrderKeeps ==
  ASSUME FriendshipInv, NEW r \in Request, NEW j, Moves(r, j), InOrder(j)
  PROVE  job' \in [Request -> Job] /\ \A q \in Request : InOrder(job'[q])
BY FriendshipTypes, AlikeFacts DEF Moves

-----------------------------------------------------------------------------
(* The actions.  Sending, and declining, have nothing to do with the lists.*)
LEMMA ListsUntouched ==
  ASSUME FriendshipInv, NEW r \in Request, NEW j, Moves(r, j), UNCHANGED <<friends, torn>>,
         job[r].op \notin {"accept", "remove"}, j.op \notin {"accept", "remove"}
  PROVE  ListsInv' /\ MutualInv'
<1>1. ListsInv'
  BY SameLists DEF Adds
<1>2. \A p \in torn' : Reverse(p) \in torn'
  BY DEF FriendshipInv, MutualInv
<1>3. \A p : ~Working(job[r], p)
  BY DEF Working
<1>4. MutualInv'
  BY <1>2, <1>3, SameMutual
<1> QED
  BY <1>1, <1>4

LEMMA SendKeepsInv ==
  ASSUME FriendshipInv, NEW r \in Request,
         \/ \E p \in Pair : SendFind(r, p)
         \/ SendCheck(r) \/ SendStore(r) \/ SendNotify(r)
  PROVE  FriendshipInv'
<1>1. ASSUME NEW p \in Pair, SendFind(r, p)
      PROVE  FriendshipInv'
  <2>1. job[r].op = "none"
    BY <1>1, BeginMoves DEF SendFind
  <2>2. PICK j \in Job : Moves(r, j) /\ j.op = "send" /\ j.step = "check" /\ j.pair = p
    BY <1>1, BeginMoves DEF SendFind
  <2>3. ListsInv' /\ MutualInv'
    BY <1>1, <2>1, <2>2, ListsUntouched DEF SendFind
  <2>4. /\ both \subseteq both' /\ both' \subseteq Pair
        /\ \A x \in both' : Reverse(x) \in both'
        /\ p \notin both' => \A q \in Request : job[q].op = "send" => job[q].pair # Reverse(p)
    <3>1. Between(p) \subseteq Pair /\ \A x \in Between(p) : Reverse(x) \in Between(p)
      BY PairFacts
    <3>2. both' = both \/ both' = both \cup Between(p)
      BY <1>1 DEF SendFind, Noted
    <3>3. ASSUME p \notin both', NEW q \in Request, job[q].op = "send", job[q].pair = Reverse(p)
          PROVE  FALSE
      <4>1. q \in Busy("send", p)
        BY <3>3, PairFacts DEF Busy
      <4>2. both' = both \cup Between(p)
        BY <1>1, <3>3, <4>1 DEF SendFind, Noted
      <4> QED
        BY <3>3, <4>2, PairFacts
    <3> QED
      BY <3>1, <3>2, <3>3 DEF FriendshipInv, SendInv
  <2>5. SendInv' /\ OneWaits'
    BY <1>1, <2>2, <2>4, SendKeeps DEF SendFind
  <2>6. NoticeInv'
    BY <1>1, <2>1, <2>2, NoticeKeeps DEF SendFind, WillTidy
  <2>7. InOrder(j)
    BY <2>2 DEF InOrder
  <2> QED
    BY <1>1, <2>2, <2>3, <2>4, <2>5, <2>6, <2>7, OrderKeeps DEF SendFind, FriendshipInv
<1>2. \A x \in both : Reverse(x) \in both
  BY DEF FriendshipInv, SendInv
<1>3. ASSUME job[r].op = "send", UNCHANGED <<friends, torn, both>>,
             NEW j \in Job, Moves(r, j), j.op \in {"none", "send"}, InOrder(j),
             j.op = "send" => j.pair = job[r].pair,
             j.op = "send" /\ j.step = "store" => request'[Reverse(j.pair)] # "pending",
             request' \in [Pair -> {"none", "pending", "accepted", "declined"}],
             \A p \in Pair : /\ request'[p] = "pending" =>
                                  \/ request[p] = "pending"
                                  \/ job[r].step = "store" /\ job[r].pair = p
                             /\ request[p] = "pending" => request'[p] = "pending",
             late \subseteq late', late' \subseteq Pair, notice' \subseteq Pair,
             \A p \in notice' : p \in notice \/ request'[p] = "pending" \/ p \in late'
      PROVE  FriendshipInv'
  <2>1. ListsInv' /\ MutualInv'
    BY <1>3, ListsUntouched
  <2>2. SendInv' /\ OneWaits'
    <3>1. j.op = "send" /\ j.pair \notin both =>
            \A q \in Request : job[q].op = "send" => job[q].pair # Reverse(j.pair)
      BY <1>3 DEF FriendshipInv, SendInv
    <3>2. job[r].pair \in Pair
      BY <1>3, FriendshipTypes
    <3> QED
      BY <1>2, <1>3, <3>1, <3>2, SendKeeps
  <2>3. NoticeInv'
    <3>1. \A p \in notice : request[p] = "pending" => request'[p] = "pending"
      BY <1>3 DEF FriendshipInv
    <3>2. \A p : ~WillTidy(job[r], p)
      BY <1>3 DEF WillTidy
    <3> QED
      BY <1>3, <3>1, <3>2, NoticeKeeps
  <2>4. job' \in [Request -> Job] /\ \A q \in Request : InOrder(job'[q])
    BY <1>3, OrderKeeps
  <2>5. both' \subseteq Pair /\ torn' \subseteq Pair
    BY <1>3 DEF FriendshipInv
  <2>6. (\A q \in Request : InOrder(job[q]))'
    BY <2>4 DEF InOrder
  <2> QED
    BY <1>3, <2>1, <2>2, <2>3, <2>4, <2>5, <2>6 DEF FriendshipInv
<1>4. CASE SendCheck(r)
  <2>1. /\ job[r].op = "send" /\ job[r].step = "check" /\ job[r].pair \in Pair
        /\ UNCHANGED <<friends, request, notice, late, both, torn>>
    BY <1>4, FriendshipTypes DEF SendCheck, At
  <2>2. CASE NoneFromThere(job[r].pair)
    <3>1. PICK j \in Job : /\ Moves(r, j) /\ j.op = "send" /\ j.step = "store"
                           /\ j.pair = job[r].pair
      BY <1>4, <2>1, <2>2, GoesMoves DEF SendCheck
    <3>2. InOrder(j)
      BY <2>1, <3>1 DEF InOrder
    <3>3. request'[Reverse(j.pair)] # "pending"
      BY <2>1, <2>2, <3>1 DEF NoneFromThere
    <3> QED
      BY <1>3, <2>1, <3>1, <3>2, <3>3 DEF FriendshipInv
  <2>3. CASE ~NoneFromThere(job[r].pair)
    <3>1. Moves(r, Idle)
      BY <1>4, <2>3, FinishMoves DEF SendCheck
    <3> QED
      BY <1>3, <2>1, <3>1, NoJob DEF FriendshipInv
  <2> QED
    BY <2>2, <2>3
<1>5. CASE SendStore(r)
  <2> DEFINE p == job[r].pair
  <2>1. /\ job[r].op = "send" /\ job[r].step = "store" /\ p \in Pair
        /\ UNCHANGED <<friends, notice, late, both, torn>>
    BY <1>5, FriendshipTypes DEF SendStore, At
  <2>2. CASE request[p] = "none"
    <3>1. PICK j \in Job : /\ Moves(r, j) /\ j.op = "send" /\ j.step = "notify"
                           /\ j.pair = job[r].pair
      BY <1>5, <2>1, <2>2, GoesMoves DEF SendStore
    <3>2. InOrder(j)
      BY <2>1, <3>1 DEF InOrder
    <3>3. request' = [request EXCEPT ![p] = "pending"]
      BY <1>5, <2>2 DEF SendStore
    <3>4. /\ request' \in [Pair -> {"none", "pending", "accepted", "declined"}]
          /\ \A x \in Pair : request'[x] = IF x = p THEN "pending" ELSE request[x]
      BY <2>1, <3>3 DEF FriendshipInv
    <3> QED
      BY <1>3, <2>1, <2>2, <3>1, <3>2, <3>4 DEF FriendshipInv
  <2>3. CASE request[p] # "none"
    <3>1. Moves(r, Idle) /\ UNCHANGED request
      BY <1>5, <2>3, FinishMoves DEF SendStore
    <3> QED
      BY <1>3, <2>1, <3>1, NoJob DEF FriendshipInv
  <2> QED
    BY <2>2, <2>3
<1>6. CASE SendNotify(r)
  <2>1. /\ job[r].op = "send" /\ job[r].step = "notify" /\ job[r].pair \in Pair
        /\ UNCHANGED <<friends, request, both, torn>>
        /\ notice' = notice \cup {job[r].pair}
        /\ late' = IF request[job[r].pair] = "pending" THEN late ELSE late \cup {job[r].pair}
        /\ Moves(r, Idle)
    BY <1>6, FriendshipTypes, FinishMoves DEF SendNotify, At
  <2>2. /\ late \subseteq late' /\ late' \subseteq Pair /\ notice' \subseteq Pair
        /\ \A p \in notice' : p \in notice \/ request'[p] = "pending" \/ p \in late'
    BY <2>1 DEF FriendshipInv
  <2> QED
    BY <1>3, <2>1, <2>2, NoJob DEF FriendshipInv
<1> QED
  BY <1>1, <1>4, <1>5, <1>6

(* Answers and removals send nothing.                                      *)
LEMMA SendsNothing ==
  ASSUME FriendshipInv, NEW r \in Request, NEW j, Moves(r, j), UNCHANGED both,
         j.op # "send", \A p \in Pair : request'[p] = "pending" => request[p] = "pending"
  PROVE  SendInv' /\ OneWaits'
<1>1. \A x \in both : Reverse(x) \in both
  BY DEF FriendshipInv, SendInv
<1> QED
  BY <1>1, SendKeeps

LEMMA NoticeStays ==
  ASSUME FriendshipInv, NEW r \in Request, NEW j, Moves(r, j),
         UNCHANGED <<request, notice>>, late \subseteq late',
         \A p \in notice : WillTidy(job[r], p) => WillTidy(j, p) \/ p \in late'
  PROVE  NoticeInv'
BY NoticeKeeps

LEMMA Hurt ==
  ASSUME FriendshipInv, NEW p \in Pair, NEW happens, torn' = Noted(torn, p, happens)
  PROVE  /\ torn \subseteq torn' /\ torn' \subseteq Pair
         /\ \A x \in torn' : Reverse(x) \in torn'
         /\ happens => p \in torn' /\ Reverse(p) \in torn'
<1>1. Between(p) \subseteq Pair /\ \A x \in Between(p) : Reverse(x) \in Between(p)
  BY PairFacts
<1>2. torn' = IF happens THEN torn \cup Between(p) ELSE torn
  BY DEF Noted
<1> QED
  BY <1>1, <1>2, PairFacts DEF FriendshipInv, MutualInv

LEMMA FindKeepsInv ==
  ASSUME FriendshipInv, NEW r \in Request, NEW p \in Pair,
         RemoveFind(r, p) \/ \E op \in {"accept", "decline"} : AnswerFind(r, p, op)
  PROVE  FriendshipInv'
<1>1. PICK op \in {"accept", "decline", "remove"}, step \in {"answer", "read1", "tidy"},
           other \in {"accept", "remove"} :
        /\ Begin(r, op, step, p)
        /\ op = "accept" => step = "answer" /\ other = "remove"
        /\ op = "decline" => step \in {"answer", "tidy"}
        /\ op = "remove" => step = "read1" /\ other = "accept"
        /\ torn' = Noted(torn, p, op # "decline" /\ Busy(other, p) # {})
        /\ UNCHANGED <<friends, request, notice, late, both>>
  <2>1. CASE RemoveFind(r, p)
    BY <2>1 DEF RemoveFind
  <2>2. ASSUME AnswerFind(r, p, "accept")
        PROVE  \E step \in {"answer"} :
                 /\ Begin(r, "accept", step, p)
                 /\ torn' = Noted(torn, p, Busy("remove", p) # {})
                 /\ UNCHANGED <<friends, request, notice, late, both>>
    BY <2>2 DEF AnswerFind, Noted
  <2>3. ASSUME AnswerFind(r, p, "decline")
        PROVE  \E step \in {"answer", "tidy"} :
                 /\ Begin(r, "decline", step, p)
                 /\ torn' = Noted(torn, p, FALSE)
                 /\ UNCHANGED <<friends, request, notice, late, both>>
    BY <2>3 DEF AnswerFind, Noted
  <2> QED
    BY <2>1, <2>2, <2>3 DEF Noted
<1>2. job[r].op = "none"
  BY <1>1, BeginMoves
<1>3. PICK j \in Job : Moves(r, j) /\ j.op = op /\ j.step = step /\ j.pair = p /\ j.lists = {}
  BY <1>1, BeginMoves
<1>4. InOrder(j)
  BY <1>1, <1>3 DEF InOrder
<1>5. ListsInv'
  BY <1>1, <1>3, SameLists DEF Adds
<1>6. /\ torn \subseteq torn' /\ torn' \subseteq Pair
      /\ \A x \in torn' : Reverse(x) \in torn'
      /\ op # "decline" /\ Busy(other, p) # {} => p \in torn'
  BY <1>1, Hurt
<1>7. MutualInv'
  <2>1. Knows(j)
    BY <1>1, <1>3 DEF Knows
  <2>2. op # "decline" /\ p \notin torn' =>
          \A q \in Request : Working(job[q], p) => job[q].op = op
    BY <1>1, <1>6 DEF Working, Busy
  <2>3. \A x : ~Working(job[r], x)
    BY <1>2 DEF Working
  <2> QED
    BY <1>1, <1>3, <1>6, <2>1, <2>2, <2>3, SameMutual
<1>8. NoticeInv'
  BY <1>1, <1>2, <1>3, NoticeStays DEF WillTidy
<1>9. SendInv' /\ OneWaits'
  BY <1>1, <1>3, SendsNothing
<1> QED
  BY <1>1, <1>3, <1>4, <1>5, <1>6, <1>7, <1>8, <1>9, OrderKeeps DEF FriendshipInv

LEMMA AnswerKeepsInv ==
  ASSUME FriendshipInv, NEW r \in Request, Accept(r) \/ Decline(r)
  PROVE  FriendshipInv'
<1> DEFINE p == job[r].pair
<1>1. /\ job[r].step = "answer" /\ job[r].op \in {"accept", "decline"} /\ p \in Pair
      /\ job[r].lists = {}
      /\ UNCHANGED <<friends, notice, late, both, torn>>
  BY FriendshipTypes DEF Accept, Decline, At, InOrder
<1>2. PICK j \in Job : /\ Moves(r, j) /\ j.op = job[r].op /\ j.pair = p
                       /\ j.step = IF job[r].op = "accept" THEN "read1" ELSE "tidy"
                       /\ j.lists = {}
  BY <1>1, GoesMoves DEF Accept, Decline, At
<1>3. InOrder(j)
  BY <1>1, <1>2 DEF InOrder
<1>4. /\ request' \in [Pair -> {"none", "pending", "accepted", "declined"}]
      /\ \A x \in Pair : x # p => request'[x] = request[x]
      /\ request'[p] # "pending"
  BY <1>1 DEF Accept, Decline, FriendshipInv
<1>5. ListsInv'
  BY <1>1, <1>2, SameLists DEF Adds
<1>6. MutualInv'
  <2>1. Knows(j)
    BY <1>1, <1>2 DEF Knows
  <2>2. \A x : Working(job[r], x) <=> Working(j, x)
    BY <1>2 DEF Working
  <2>3. /\ \A x \in torn : Reverse(x) \in torn
        /\ job[r].op = "accept" /\ p \notin torn =>
             \A q \in Request : Working(job[q], p) => job[q].op = "accept"
    BY DEF FriendshipInv, MutualInv
  <2> QED
    BY <1>1, <1>2, <2>1, <2>2, <2>3, SameMutual
<1>7. NoticeInv'
  <2>1. WillTidy(j, p) /\ \A x : WillTidy(job[r], x) => WillTidy(j, x)
    BY <1>1, <1>2 DEF WillTidy
  <2>2. notice \subseteq Pair
    BY DEF FriendshipInv
  <2> QED
    BY <1>1, <1>2, <1>4, <2>1, <2>2, NoticeKeeps
<1>8. SendInv' /\ OneWaits'
  BY <1>1, <1>2, <1>4, SendsNothing
<1> QED
  BY <1>1, <1>2, <1>3, <1>4, <1>5, <1>6, <1>7, <1>8, OrderKeeps DEF FriendshipInv

LEMMA ReadKeepsInv ==
  ASSUME FriendshipInv, NEW r \in Request, NEW i \in Side, Read(r, i)
  PROVE  FriendshipInv'
<1> DEFINE p == job[r].pair
           step == IF i = 1 THEN "read2" ELSE "save1"
           lists == IF Count(Entry(p, i)) > 0 THEN job[r].lists \cup {i} ELSE job[r].lists
<1>1. /\ job[r].step = IF i = 1 THEN "read1" ELSE "read2"
      /\ job[r].op \in {"accept", "remove"} /\ p \in Pair
      /\ i \notin job[r].lists /\ (i = 1 => job[r].lists = {})
      /\ job[r].lists \subseteq Side
      /\ UNCHANGED <<friends, request, notice, late, both, torn>>
  BY FriendshipTypes DEF Read, InOrder, Side, Job
<1>2. Count(Entry(p, i)) = friends[p[i]][Other(p, i)]
  BY DEF Count, Entry, Other, Reverse, Side
<1>3. PICK j \in Job : /\ Moves(r, j) /\ j.op = job[r].op /\ j.pair = p
                       /\ j.step = step /\ j.lists = lists
  <2> DEFINE j == [job[r] EXCEPT !.step = step, !.lists = lists]
  <2>1. lists \subseteq Side
    BY <1>1 DEF Side
  <2>2. step \in {"read2", "save1"}
    OBVIOUS
  <2>3. job' = [job EXCEPT ![r] = j]
    BY <1>2, FriendshipTypes DEF Read
  <2> HIDE DEF lists, step
  <2>4. j \in Job /\ j.op = job[r].op /\ j.pair = p /\ j.step = step /\ j.lists = lists
    BY <2>1, <2>2, FriendshipTypes DEF Job
  <2> HIDE DEF j
  <2>5. Moves(r, j)
    BY <2>3, <2>4, FriendshipTypes DEF Moves, Alike
  <2> QED
    BY <2>4, <2>5
<1>4. InOrder(j)
  BY <1>1, <1>3 DEF InOrder, Side
<1>5. \A e \in Pair : Count(e) \in Nat
  BY DEF FriendshipInv, ListsInv, Count, Pair
<1>6. /\ i = 1 => (1 \in j.lists <=> Count(p) > 0)
      /\ i = 2 => /\ 2 \in j.lists <=> Count(Reverse(p)) > 0
                  /\ 1 \in j.lists <=> 1 \in job[r].lists
  BY <1>1, <1>3 DEF Entry
<1>7. ListsInv'
  <2>1. ASSUME NEW e \in Pair, Adds(j, e), Count(e) > 0
        PROVE  Adds(job[r], e)
    <3>1. CASE i = 1
      BY <1>3, <1>6, <2>1, <3>1, PairFacts DEF Adds
    <3>2. CASE i = 2
      <4>1. j.step = "save1" /\ job[r].step = "read2"
        BY <1>1, <1>3, <3>2
      <4>2. CASE j.pair = e
        BY <1>3, <1>6, <2>1, <3>2, <4>1, <4>2, PairFacts DEF Adds
      <4>3. CASE j.pair = Reverse(e)
        BY <1>3, <1>6, <2>1, <3>2, <4>1, <4>3, PairFacts DEF Adds
      <4> QED
        BY <2>1, <4>2, <4>3 DEF Adds
    <3> QED
      BY <3>1, <3>2 DEF Side
  <2> QED
    BY <1>1, <1>3, <2>1, SameLists
<1>8. MutualInv'
  <2>1. ASSUME p \notin torn
        PROVE  Knows(j) /\ \A q \in Request : Working(job[q], p) => job[q].op = j.op
    <3>1. Knows(job[r]) /\ \A q \in Request : Working(job[q], p) => job[q].op = j.op
      BY <1>1, <1>3, <2>1 DEF FriendshipInv, MutualInv
    <3>2. Count(p) \in Nat /\ Count(Reverse(p)) \in Nat
      BY <1>1, <1>5, PairFacts
    <3> QED
      BY <1>1, <1>3, <1>6, <3>1, <3>2 DEF Knows, Side
  <2>2. \A x : Working(job[r], x) <=> Working(j, x)
    BY <1>3 DEF Working
  <2>3. \A x \in torn : Reverse(x) \in torn
    BY DEF FriendshipInv, MutualInv
  <2> QED
    BY <1>1, <1>3, <2>1, <2>2, <2>3, SameMutual
<1>9. NoticeInv'
  BY <1>1, <1>3, NoticeStays DEF WillTidy
<1>10. SendInv' /\ OneWaits'
  BY <1>1, <1>3, SendsNothing
<1> QED
  BY <1>1, <1>3, <1>4, <1>7, <1>8, <1>9, <1>10, OrderKeeps DEF FriendshipInv

-----------------------------------------------------------------------------
(* The saves.  An entry gets a value, the others stay.                     *)
Writes(p, i, n) ==
  /\ friends' \in [Account -> [Account -> Nat]]
  /\ \A u \in Account : friends'[u][u] = 0
  /\ Count(Entry(p, i))' = n
  /\ \A e \in Pair : e # Entry(p, i) => Count(e)' = Count(e)

LEMMA WriteFacts ==
  ASSUME FriendshipInv, NEW p \in Pair, NEW i \in Side, NEW n \in Nat,
         friends' = [friends EXCEPT ![p[i]][Other(p, i)] = n]
  PROVE  Writes(p, i, n)
<1>1. PICK u \in Account, v \in Account : u = p[i] /\ v = Other(p, i) /\ u # v
  BY DEF Pair, Other, Side
<1>2. Entry(p, i) = <<u, v>>
  BY <1>1 DEF Entry, Reverse, Pair, Other, Side
<1>3. friends \in [Account -> [Account -> Nat]] /\ \A x \in Account : friends[x][x] = 0
  BY DEF FriendshipInv, ListsInv
<1>4. friends' = [friends EXCEPT ![u] = [friends[u] EXCEPT ![v] = n]]
  BY <1>1, <1>3
<1>5. /\ friends' \in [Account -> [Account -> Nat]]
      /\ \A x \in Account, y \in Account :
           friends'[x][y] = IF x = u /\ y = v THEN n ELSE friends[x][y]
  BY <1>1, <1>3, <1>4
<1>6. \A x \in Account : friends'[x][x] = 0
  BY <1>1, <1>3, <1>5
<1>7. ASSUME NEW e \in Pair
      PROVE  /\ e[1] \in Account /\ e[2] \in Account
             /\ e[1] = u /\ e[2] = v <=> e = Entry(p, i)
  BY <1>2 DEF Pair
<1>8. Entry(p, i) \in Pair
  BY <1>1, <1>2 DEF Pair
<1> QED
  BY <1>5, <1>6, <1>7, <1>8 DEF Writes, Count

(* The two sides of a request, whichever is written.                       *)
LEMMA EntryFacts ==
  ASSUME NEW p \in Pair, NEW i \in Side
  PROVE  /\ Entry(p, i) \in Pair
         /\ Entry(p, i) \in Between(p)
         /\ Reverse(Entry(p, i)) = Entry(p, 3 - i)
         /\ 3 - i \in Side
         /\ \A q \in Pair : q \in Between(Entry(p, i)) => q \in Between(p)
BY PairFacts DEF Entry, Side, Between, Reverse

(* Which count a side has written, and which stays.                        *)
LEMMA WriteSides ==
  ASSUME NEW p \in Pair, NEW i \in Side, NEW n, Writes(p, i, n)
  PROVE  /\ i = 1 => Count(p)' = n /\ Count(Reverse(p))' = Count(Reverse(p))
         /\ i = 2 => Count(Reverse(p))' = n /\ Count(p)' = Count(p)
<1>1. Reverse(p) \in Pair /\ Reverse(p) # p
  BY PairFacts
<1>2. CASE i = 1
  <2>1. Entry(p, i) = p
    BY <1>2 DEF Entry
  <2> QED
    BY <1>1, <1>2, <2>1 DEF Writes
<1>3. CASE i = 2
  <2>1. Entry(p, i) = Reverse(p)
    BY <1>3 DEF Entry
  <2> QED
    BY <1>1, <1>3, <2>1 DEF Writes
<1> QED
  BY <1>2, <1>3 DEF Side

(* An entry is added by one that was about to add it.                      *)
LEMMA AddedLists ==
  ASSUME FriendshipInv, NEW r \in Request, NEW j, Moves(r, j),
         NEW p \in Pair, NEW i \in Side,
         Writes(p, i, Count(Entry(p, i)) + 1),
         Adds(job[r], Entry(p, i)),
         \A e \in Pair : Adds(j, e) => Adds(job[r], e) /\ e # Entry(p, i)
  PROVE  ListsInv'
<1>1. \A e \in Pair : Count(e) \in Nat
  BY DEF FriendshipInv, ListsInv, Count, Pair
<1>2. Entry(p, i) \in Pair
  BY EntryFacts
<1>3. ASSUME NEW e \in Pair
      PROVE  /\ Adding(e)' \subseteq Adding(e)
             /\ IsFiniteSet(Adding(e)) /\ IsFiniteSet(Adding(e)')
             /\ Cardinality(Adding(e)) \in Nat /\ Cardinality(Adding(e)') \in Nat
             /\ Cardinality(Adding(e)') <= Cardinality(Adding(e))
             /\ Cardinality(Adding(e)) <= Cardinality(Request)
             /\ Cardinality(Request) \in Nat
  <2>1. \A q \in Request : Adds(job'[q], e) => Adds(job[q], e)
    BY AlikeFacts DEF Moves
  <2>2. Adding(e)' \subseteq Adding(e) /\ Adding(e) \subseteq Request
    BY <2>1 DEF Adding, Adds
  <2>3. IsFiniteSet(Adding(e)) /\ IsFiniteSet(Adding(e)')
    BY <2>2, FriendshipAssumptions, FS_Subset
  <2> QED
    BY <2>2, <2>3, FriendshipAssumptions, FS_Subset, FS_CardinalityType
<1>4. ASSUME NEW e \in Pair, e = Entry(p, i)
      PROVE  Cardinality(Adding(e)') < Cardinality(Adding(e))
  <2>1. r \in Adding(e)
    BY <1>4 DEF Adding
  <2>2. r \notin Adding(e)'
    <3>1. ~Adds(job'[r], e)
      BY <1>4, AlikeFacts DEF Moves
    <3> QED
      BY <3>1 DEF Adding, Adds
  <2> QED
    BY <1>3, <2>1, <2>2, FS_Subset
<1>5. ASSUME NEW e \in Pair
      PROVE  Count(e)' > 0 => Count(e)' + Cardinality(Adding(e)') <= Cardinality(Request)
  <2>1. Count(e) > 0 => Count(e) + Cardinality(Adding(e)) <= Cardinality(Request)
    BY DEF FriendshipInv, ListsInv
  <2>2. CASE e = Entry(p, i)
    <3>1. Count(e)' = Count(e) + 1
      BY <2>2 DEF Writes
    <3> QED
      BY <1>1, <1>3, <1>4, <2>1, <2>2, <3>1
  <2>3. CASE e # Entry(p, i)
    <3>1. Count(e)' = Count(e)
      BY <2>3 DEF Writes
    <3> QED
      BY <1>1, <1>3, <2>1, <3>1
  <2> QED
    BY <2>2, <2>3
<1> QED
  BY <1>5 DEF ListsInv, Writes

(* An entry is taken out.                                                  *)
LEMMA TakenLists ==
  ASSUME FriendshipInv, NEW r \in Request, NEW j, Moves(r, j),
         NEW p \in Pair, NEW i \in Side, Writes(p, i, 0),
         \A e \in Pair : Adds(j, e) => Adds(job[r], e)
  PROVE  ListsInv'
<1>1. ASSUME NEW e \in Pair
      PROVE  Count(e)' > 0 => Count(e)' + Cardinality(Adding(e)') <= Cardinality(Request)
  <2>1. CASE e = Entry(p, i)
    BY <2>1 DEF Writes
  <2>2. CASE e # Entry(p, i)
    <3>1. Count(e)' = Count(e) /\ Count(e) \in Nat
      BY <2>2 DEF Writes, FriendshipInv, ListsInv, Count, Pair
    <3>2. \A q \in Request : Adds(job'[q], e) => Adds(job[q], e)
      BY AlikeFacts DEF Moves
    <3>3. Adding(e)' \subseteq Adding(e) /\ Adding(e) \subseteq Request
      BY <3>2 DEF Adding, Adds
    <3>4. IsFiniteSet(Adding(e)) /\ IsFiniteSet(Adding(e)')
      BY <3>3, FriendshipAssumptions, FS_Subset
    <3>5. /\ Cardinality(Adding(e)) \in Nat /\ Cardinality(Adding(e)') \in Nat
          /\ Cardinality(Adding(e)') <= Cardinality(Adding(e))
          /\ Cardinality(Request) \in Nat
      BY <3>3, <3>4, FriendshipAssumptions, FS_Subset, FS_CardinalityType
    <3>6. Count(e) > 0 => Count(e) + Cardinality(Adding(e)) <= Cardinality(Request)
      BY DEF FriendshipInv, ListsInv
    <3> QED
      BY <3>1, <3>5, <3>6
  <2> QED
    BY <2>1, <2>2
<1> QED
  BY <1>1 DEF ListsInv, Writes

LEMMA WroteMutual ==
  ASSUME FriendshipInv, NEW r \in Request, NEW j, Moves(r, j), UNCHANGED torn,
         job[r].op \in {"accept", "remove"}, j.op \in {job[r].op, "none"},
         NEW p \in Pair, p = job[r].pair, NEW i \in Side, NEW n \in Nat, Writes(p, i, n),
         IF job[r].op = "accept" THEN n > 0 ELSE n = 0,
         j.op # "none" => j.pair = p /\ (p \notin torn => Knows(j)'),
         j.op = "none" /\ p \notin torn => (Count(p)' > 0 <=> Count(Reverse(p))' > 0)
  PROVE  MutualInv'
<1>1. /\ Entry(p, i) \in Between(p)
      /\ \A e \in Pair : e # Entry(p, i) => Count(e)' = Count(e)
      /\ Count(Entry(p, i))' = n
  BY EntryFacts DEF Writes
<1>2. \A x \in torn : Reverse(x) \in torn
  BY DEF FriendshipInv, MutualInv
<1>3. ASSUME NEW q \in Request \ {r}, job[q].op \in {"accept", "remove"},
             job[q].pair \notin torn
      PROVE  /\ Knows(job[q])'
             /\ \A x \in Request \ {r} : Working(job[x], job[q].pair) => job[x].op = job[q].op
             /\ Working(j, job[q].pair) => j.op = job[q].op
  <2>1. PICK k : k = job[q]
    OBVIOUS
  <2>2. /\ Knows(k)
        /\ \A x \in Request : Working(job[x], k.pair) => job[x].op = k.op
    BY <1>3, <2>1 DEF FriendshipInv, MutualInv
  <2>3. k.pair \in Pair /\ Reverse(k.pair) \in Pair
    BY <1>3, <2>1, FriendshipTypes, PairFacts
  <2>4. k.pair \in Between(p) => k.op = job[r].op
    <3> SUFFICES ASSUME k.pair \in Between(p)
                 PROVE  k.op = job[r].op
      OBVIOUS
    <3>1. p \in Between(k.pair)
      BY PairFacts
    <3> QED
      BY <2>2, <3>1 DEF Working
  <2>5. Knows(k)'
    <3>1. CASE k.pair \notin Between(p)
      <4>1. k.pair # Entry(p, i) /\ Reverse(k.pair) # Entry(p, i)
        BY <1>1, <2>3, <3>1, PairFacts
      <4>2. Count(k.pair)' = Count(k.pair) /\ Count(Reverse(k.pair))' = Count(Reverse(k.pair))
        BY <1>1, <2>3, <4>1
      <4> QED
        BY <2>2, <4>2 DEF Knows
    <3>2. CASE k.pair \in Between(p) /\ k.op = "accept"
      <4>1. n > 0
        BY <2>4, <3>2
      <4>2. /\ Count(k.pair) > 0 => Count(k.pair)' > 0
            /\ Count(Reverse(k.pair)) > 0 => Count(Reverse(k.pair))' > 0
        BY <1>1, <2>3, <4>1
      <4> QED
        BY <2>2, <3>2, <4>2 DEF Knows
    <3>3. CASE k.pair \in Between(p) /\ k.op = "remove"
      <4>1. n = 0
        BY <2>4, <3>3
      <4>2. /\ Count(k.pair) = 0 => Count(k.pair)' = 0
            /\ Count(Reverse(k.pair)) = 0 => Count(Reverse(k.pair))' = 0
        BY <1>1, <2>3, <4>1
      <4> QED
        BY <2>2, <3>3, <4>2 DEF Knows
    <3> QED
      BY <1>3, <2>1, <3>1, <3>2, <3>3
  <2>6. Knows(job[q])'
    <3>1. job'[q].op = k.op /\ job'[q].step = k.step /\ job'[q].pair = k.pair
          /\ job'[q].lists = k.lists
      BY <1>3, <2>1 DEF Moves, Alike
    <3> QED
      BY <2>5, <3>1 DEF Knows
  <2>7. Working(j, k.pair) => j.op = k.op
    <3> SUFFICES ASSUME Working(j, k.pair)
                 PROVE  j.op = k.op
      OBVIOUS
    <3>1. j.op = job[r].op /\ j.pair = p
      BY DEF Working
    <3> QED
      BY <2>2, <3>1 DEF Working
  <2> QED
    BY <2>1, <2>2, <2>6, <2>7
<1>4. ASSUME NEW q \in Request, job'[q].op \in {"accept", "remove"}, job'[q].pair \notin torn
      PROVE  /\ Knows(job[q])'
             /\ \A x \in Request : Working(job'[x], job'[q].pair) => job'[x].op = job'[q].op
  <2>1. \A x \in Request \ {r} : job'[x].op = job[x].op /\ job'[x].pair = job[x].pair
    BY DEF Moves, Alike
  <2>2. /\ job'[r].op = j.op /\ job'[r].pair = j.pair
        /\ job'[r].step = j.step /\ job'[r].lists = j.lists
    BY DEF Moves, Alike
  <2>3. CASE q = r
    <3>1. Knows(job[q])'
      BY <1>4, <2>2, <2>3 DEF Knows
    <3>2. j.op = job[r].op /\ j.pair = p /\ p \notin torn
      BY <1>4, <2>2, <2>3
    <3>3. \A x \in Request : Working(job[x], p) => job[x].op = job[r].op
      BY <3>2 DEF FriendshipInv, MutualInv
    <3> QED
      BY <2>1, <2>2, <2>3, <3>1, <3>2, <3>3 DEF Working
  <2>4. CASE q # r
    <3>1. /\ Knows(job[q])'
          /\ \A x \in Request \ {r} : Working(job[x], job[q].pair) => job[x].op = job[q].op
          /\ Working(j, job[q].pair) => j.op = job[q].op
      BY <1>3, <1>4, <2>1, <2>4
    <3> QED
      BY <2>1, <2>2, <2>4, <3>1 DEF Working
  <2> QED
    BY <2>3, <2>4
<1>5. ASSUME NEW x \in Pair \ torn
      PROVE  \/ Count(x)' > 0 <=> Count(Reverse(x))' > 0
             \/ \E q \in Request : Working(job'[q], x)
  <2>1. CASE x \in Between(p) /\ j.op # "none"
    <3>1. p \in Between(x)
      BY <2>1, PairFacts
    <3>2. Working(job'[r], x)
      BY <2>1, <3>1 DEF Moves, Alike, Working
    <3> QED
      BY <3>2
  <2>2. CASE x \in Between(p) /\ j.op = "none"
    <3>1. p \notin torn
      BY <1>2, <2>2, PairFacts
    <3> QED
      BY <2>2, <3>1, PairFacts
  <2>3. CASE x \notin Between(p)
    <3>1. x # Entry(p, i) /\ Reverse(x) # Entry(p, i) /\ Reverse(x) \in Pair
      BY <1>1, <2>3, PairFacts
    <3>2. Count(x)' = Count(x) /\ Count(Reverse(x))' = Count(Reverse(x))
      BY <1>1, <3>1
    <3>3. ~Working(job[r], x)
      BY <2>3, PairFacts DEF Working
    <3>4. \/ Count(x) > 0 <=> Count(Reverse(x)) > 0
          \/ \E q \in Request \ {r} : Working(job[q], x)
      BY <3>3 DEF FriendshipInv, MutualInv
    <3>5. \A q \in Request \ {r} : Working(job[q], x) => Working(job'[q], x)
      BY DEF Moves, Alike, Working
    <3> QED
      BY <3>2, <3>4, <3>5
  <2> QED
    BY <2>1, <2>2, <2>3
<1> QED
  BY <1>2, <1>4, <1>5 DEF MutualInv, Working

(* A write that goes along makes others stale.                             *)
LEMMA StaleMoves ==
  ASSUME FriendshipInv, NEW r \in Request, NEW j \in Job, NEW u,
         job' = Staled([job EXCEPT ![r] = j], u)
  PROVE  Moves(r, j)
<1> DEFINE jobs == [job EXCEPT ![r] = j]
<1>1. /\ jobs \in [Request -> Job]
      /\ \A q \in Request : jobs[q] = IF q = r THEN j ELSE job[q]
  BY FriendshipTypes
<1>2. job' = Staled(jobs, u)
  OBVIOUS
<1> HIDE DEF jobs
<1>3. /\ job' \in [Request -> Job]
      /\ \A q \in Request : Alike(job'[q], jobs[q])
  BY <1>1, <1>2, StaledMoves
<1> QED
  BY <1>1, <1>3 DEF Moves

LEMMA AcceptSaveKeepsInv ==
  ASSUME FriendshipInv, NEW r \in Request, NEW i \in Side, AcceptSave(r, i)
  PROVE  FriendshipInv'
<1> DEFINE next == IF i = 1 THEN "save2" ELSE "tidy"
<1>1. PICK p \in Pair : p = job[r].pair
  BY FriendshipTypes DEF AcceptSave, At
<1>2. /\ job[r].op = "accept" /\ job[r].step = IF i = 1 THEN "save1" ELSE "save2"
      /\ p = job[r].pair
      /\ UNCHANGED <<request, notice, late, both, torn>>
  BY <1>1, FriendshipTypes DEF AcceptSave, At
<1> HIDE DEF next
<1>3. next \in {"save2", "tidy"} /\ next = IF i = 1 THEN "save2" ELSE "tidy"
  BY DEF next
<1>4. PICK j : j = [job[r] EXCEPT !.step = next]
  OBVIOUS
<1>5. /\ j \in Job
      /\ j.op = "accept" /\ j.step = IF i = 1 THEN "save2" ELSE "tidy"
      /\ j.pair = p /\ j.lists = job[r].lists
  BY <1>2, <1>3, <1>4, FriendshipTypes DEF Job
<1>6. \/ /\ i \in job[r].lists /\ friends' = friends
         /\ job' = [job EXCEPT ![r] = j]
      \/ /\ i \notin job[r].lists
         /\ friends' = [friends EXCEPT ![p[i]][Other(p, i)] = friends[p[i]][Other(p, i)] + 1]
         /\ job' = Staled([job EXCEPT ![r] = j], p[i])
  BY <1>2, <1>4 DEF AcceptSave, Listed, Goes, Stepped, Pushed, next
<1>7. Moves(r, j)
  <2>1. CASE job' = [job EXCEPT ![r] = j]
    BY <1>5, <2>1, FriendshipTypes DEF Moves, Alike
  <2> QED
    BY <1>5, <1>6, <2>1, StaleMoves
<1>8. Count(Entry(p, i)) = friends[p[i]][Other(p, i)]
  BY DEF Count, Entry, Other, Reverse, Side
<1>9. \A e \in Pair : Count(e) \in Nat
  BY DEF FriendshipInv, ListsInv, Count, Pair
<1>10. Entry(p, i) \in Pair /\ Reverse(p) \in Pair /\ Reverse(p) # p
  BY <1>2, EntryFacts, PairFacts
<1>11. /\ \A e \in Pair : Adds(j, e) => Adds(job[r], e) /\ e # Entry(p, i)
       /\ i \notin job[r].lists => Adds(job[r], Entry(p, i))
  BY <1>2, <1>5, <1>10, PairFacts DEF Adds, Entry, Side
<1>12. p \notin torn =>
        /\ Knows(job[r])
        /\ \A q \in Request : Working(job[q], p) => job[q].op = "accept"
  BY <1>2 DEF FriendshipInv, MutualInv
<1>13. ListsInv' /\ MutualInv'
  <2>1. CASE i \in job[r].lists /\ friends' = friends
    <3>1. ListsInv'
      BY <1>7, <1>11, <2>1, SameLists
    <3>2. p \notin torn => Knows(j)
      BY <1>2, <1>5, <1>12, <2>1 DEF Knows, Side
    <3>3. \A x \in torn : Reverse(x) \in torn
      BY DEF FriendshipInv, MutualInv
    <3>4. \A x : Working(job[r], x) <=> Working(j, x)
      BY <1>2, <1>5 DEF Working
    <3>5. MutualInv'
      BY <1>2, <1>5, <1>7, <1>12, <2>1, <3>2, <3>3, <3>4, SameMutual
    <3> QED
      BY <3>1, <3>5
  <2>2. CASE i \notin job[r].lists
    <3>1. PICK n \in Nat : n = Count(Entry(p, i)) + 1 /\ n > 0
      BY <1>9, <1>10
    <3>2. Writes(p, i, n)
      BY <1>2, <1>6, <1>8, <2>2, <3>1, WriteFacts
    <3>3. ListsInv'
      BY <1>2, <1>7, <1>11, <2>2, <3>1, <3>2, AddedLists
    <3>4. p \notin torn => Knows(j)'
      BY <1>2, <1>5, <1>10, <1>12, <3>1, <3>2, WriteSides DEF Knows, Side
    <3>5. MutualInv'
      BY <1>2, <1>5, <1>7, <3>1, <3>2, <3>4, WroteMutual
    <3> QED
      BY <3>3, <3>5
  <2> QED
    BY <1>6, <2>1, <2>2
<1>14. InOrder(j)
  BY <1>2, <1>5, FriendshipTypes DEF InOrder, Side
<1>15. NoticeInv'
  BY <1>2, <1>5, <1>7, NoticeStays DEF WillTidy
<1>16. SendInv' /\ OneWaits'
  BY <1>2, <1>5, <1>7, SendsNothing
<1> QED
  BY <1>2, <1>7, <1>13, <1>14, <1>15, <1>16, OrderKeeps DEF FriendshipInv

LEMMA RemoveSaveKeepsInv ==
  ASSUME FriendshipInv, NEW r \in Request, NEW i \in Side, RemoveSave(r, i)
  PROVE  FriendshipInv'
<1>1. PICK p \in Pair : p = job[r].pair
  BY FriendshipTypes DEF RemoveSave, At
<1>2. /\ job[r].op = "remove" /\ job[r].step = IF i = 1 THEN "save1" ELSE "save2"
      /\ p = job[r].pair
      /\ UNCHANGED <<request, notice, late, both, torn>>
  BY <1>1, FriendshipTypes DEF RemoveSave, At
<1>3. PICK j \in Job :
        /\ InOrder(j)
        /\ IF i = 1 THEN /\ j.op = "remove" /\ j.step = "save2"
                         /\ j.pair = p /\ j.lists = job[r].lists
                    ELSE j = Idle
        /\ \/ /\ i \in job[r].lists
              /\ friends' = [friends EXCEPT ![p[i]][Other(p, i)] = 0]
              /\ job' = Staled([job EXCEPT ![r] = j], p[i])
           \/ /\ i \notin job[r].lists /\ friends' = friends
              /\ job' = [job EXCEPT ![r] = j]
  <2>1. CASE i = 1
    <3> DEFINE j == [job[r] EXCEPT !.step = "save2"]
    <3>1. /\ j \in Job
          /\ j.op = "remove" /\ j.step = "save2" /\ j.pair = p /\ j.lists = job[r].lists
      BY <1>2, FriendshipTypes DEF Job
    <3>2. Stepped(job, r, "save2") = [job EXCEPT ![r] = j]
      BY DEF Stepped
    <3> HIDE DEF j
    <3>3. InOrder(j)
      BY <1>2, <3>1, FriendshipTypes DEF InOrder
    <3> QED
      BY <1>2, <2>1, <3>1, <3>2, <3>3 DEF RemoveSave
  <2>2. CASE i = 2
    BY <1>2, <2>2, NoJob DEF RemoveSave
  <2> QED
    BY <2>1, <2>2 DEF Side
<1>4. Moves(r, j)
  <2>1. CASE job' = [job EXCEPT ![r] = j]
    BY <2>1, FriendshipTypes DEF Moves, Alike
  <2> QED
    BY <1>3, <2>1, StaleMoves
<1>5. j.op \in {"remove", "none"} /\ \A e : ~Adds(j, e)
  BY <1>3, NoJob DEF Adds
<1>6. Entry(p, i) \in Pair /\ Reverse(p) \in Pair /\ Reverse(p) # p
  BY <1>2, EntryFacts, PairFacts
<1>7. p \notin torn =>
        /\ Knows(job[r])
        /\ \A q \in Request : Working(job[q], p) => job[q].op = "remove"
  BY <1>2 DEF FriendshipInv, MutualInv
<1>8. ListsInv' /\ MutualInv'
  <2>1. CASE i \notin job[r].lists
    <3>1. friends' = friends
      BY <1>3, <2>1
    <3>2. ListsInv'
      BY <1>4, <1>5, <3>1, SameLists
    <3>3. i = 1 /\ p \notin torn => Knows(j)
      BY <1>2, <1>3, <1>7, <2>1 DEF Knows
    <3>4. \A x \in torn : Reverse(x) \in torn
      BY DEF FriendshipInv, MutualInv
    <3>5. i = 2 /\ p \notin torn => Count(p) = 0 /\ Count(Reverse(p)) = 0
      BY <1>2, <1>7, <2>1 DEF Knows
    <3>6. ASSUME NEW x \in Pair \ torn, Working(job[r], x), ~Working(j, x)
          PROVE  Count(x) > 0 <=> Count(Reverse(x)) > 0
      <4>1. i = 2
        BY <1>2, <1>3, <3>6 DEF Working, Side
      <4>2. x \in Between(p)
        BY <1>2, <3>6, PairFacts DEF Working
      <4>3. p \notin torn
        BY <1>2, <3>4, <4>2, PairFacts
      <4> QED
        BY <1>2, <3>5, <4>1, <4>2, <4>3, PairFacts
    <3>7. j.op \in {"accept", "remove"} => i = 1
      BY <1>3, NoJob DEF Side
    <3>8. MutualInv'
      BY <1>2, <1>3, <1>4, <1>7, <3>1, <3>3, <3>4, <3>6, <3>7, SameMutual
    <3> QED
      BY <3>2, <3>8
  <2>2. CASE i \in job[r].lists
    <3>1. Writes(p, i, 0)
      BY <1>2, <1>3, <2>2, WriteFacts
    <3>2. ListsInv'
      BY <1>2, <1>4, <1>5, <3>1, TakenLists
    <3>3. i = 1 => Count(p)' = 0 /\ Count(Reverse(p))' = Count(Reverse(p))
      BY <3>1, WriteSides
    <3>4. i = 2 => Count(Reverse(p))' = 0 /\ Count(p)' = Count(p)
      BY <3>1, WriteSides
    <3>5. j.op # "none" => i = 1
      BY <1>3, NoJob DEF Side
    <3>6. i = 1 /\ p \notin torn => Knows(j)'
      BY <1>2, <1>3, <1>7, <3>3 DEF Knows
    <3>7. i = 2 /\ p \notin torn => Count(p)' = 0 /\ Count(Reverse(p))' = 0
      BY <1>2, <1>7, <3>4 DEF Knows
    <3>8. j.op = "none" => i = 2
      BY <1>3 DEF Side
    <3>9. MutualInv'
      BY <1>2, <1>3, <1>4, <1>5, <3>1, <3>5, <3>6, <3>7, <3>8, WroteMutual
    <3> QED
      BY <3>2, <3>9
  <2> QED
    BY <2>1, <2>2
<1>9. NoticeInv'
  BY <1>2, <1>4, NoticeStays DEF WillTidy
<1>10. SendInv' /\ OneWaits'
  BY <1>2, <1>4, <1>5, SendsNothing
<1> QED
  BY <1>2, <1>3, <1>4, <1>8, <1>9, <1>10, OrderKeeps DEF FriendshipInv

(* A refused save hurts the two, if nobody else is removing them.          *)
LEMMA RefusedKeepsInv ==
  ASSUME FriendshipInv, NEW r \in Request, NEW i \in Side, RemoveRefused(r, i)
  PROVE  FriendshipInv'
<1>1. PICK p \in Pair : p = job[r].pair
  BY FriendshipTypes DEF RemoveRefused, At
<1>2. /\ job[r].op = "remove"
      /\ torn' = Noted(torn, p, Busy("remove", p) = {r})
      /\ UNCHANGED <<friends, request, notice, late, both>>
  BY <1>1 DEF RemoveRefused, At
<1>3. Moves(r, Idle)
  BY FinishMoves DEF RemoveRefused
<1>4. ListsInv'
  BY <1>2, <1>3, NoJob, SameLists
<1>5. /\ torn \subseteq torn' /\ torn' \subseteq Pair
      /\ \A x \in torn' : Reverse(x) \in torn'
      /\ Busy("remove", p) = {r} => p \in torn' /\ Reverse(p) \in torn'
  BY <1>2, Hurt
<1>6. ASSUME NEW x \in Pair \ torn', Working(job[r], x)
      PROVE  \E q \in Request \ {r} : Working(job[q], x)
  <2>1. p \in Between(x) /\ Between(x) = Between(p)
    BY <1>1, <1>6, PairFacts DEF Working
  <2>2. Busy("remove", p) # {r}
    BY <1>5, <2>1, PairFacts
  <2>3. r \in Busy("remove", p)
    BY <1>1, <1>2, PairFacts DEF Busy
  <2>4. PICK q \in Busy("remove", p) : q # r
    BY <2>2, <2>3
  <2> QED
    BY <2>1, <2>4 DEF Busy, Working
<1>7. MutualInv'
  BY <1>2, <1>3, <1>5, <1>6, NoJob, SameMutual
<1>8. NoticeInv'
  BY <1>2, <1>3, NoticeStays DEF WillTidy
<1>9. SendInv' /\ OneWaits'
  BY <1>2, <1>3, NoJob, SendsNothing
<1> QED
  BY <1>2, <1>3, <1>4, <1>5, <1>7, <1>8, <1>9, NoJob, OrderKeeps DEF FriendshipInv

LEMMA TidyKeepsInv ==
  ASSUME FriendshipInv, NEW r \in Request, Tidy(r)
  PROVE  FriendshipInv'
<1>1. /\ job[r].step = "tidy" /\ job[r].op \in {"accept", "decline"}
      /\ job[r].pair \in Pair
      /\ notice' = notice \ {job[r].pair}
      /\ UNCHANGED <<friends, request, late, both, torn>>
  BY FriendshipTypes DEF Tidy, Tidied, Job, InOrder
<1>2. PICK j \in Job :
        /\ Moves(r, j) /\ InOrder(j)
        /\ IF job[r].op = "accept"
           THEN /\ j.op = "accept" /\ j.step = "room"
                /\ j.pair = job[r].pair
           ELSE j = Idle
  <2>1. CASE job[r].op = "accept"
    <3>1. Goes(r, "room")
      BY <2>1 DEF Tidy
    <3>2. PICK j \in Job : /\ Moves(r, j) /\ j.op = "accept" /\ j.step = "room"
                           /\ j.pair = job[r].pair
      BY <2>1, <3>1, GoesMoves
    <3>3. InOrder(j)
      BY <1>1, <3>2 DEF InOrder
    <3> QED
      BY <2>1, <3>2, <3>3
  <2>2. CASE job[r].op # "accept"
    BY <2>2, NoJob, FinishMoves DEF Tidy
  <2> QED
    BY <2>1, <2>2
<1>3. j.op \in {"accept", "none"} /\ j.op # "send" /\ \A e : ~Adds(j, e)
  BY <1>2, NoJob DEF Adds
<1>4. ListsInv'
  BY <1>1, <1>2, <1>3, SameLists
<1>5. MutualInv'
  <2>1. \A x \in torn : Reverse(x) \in torn
    BY DEF FriendshipInv, MutualInv
  <2>2. ASSUME j.op = "accept", job[r].pair \notin torn
        PROVE  /\ Knows(j)
               /\ \A q \in Request : Working(job[q], j.pair) => job[q].op = j.op
    <3>1. job[r].op = "accept" /\ j.step = "room" /\ j.pair = job[r].pair
      BY <1>2, <2>2, NoJob
    <3>2. /\ Knows(job[r])
          /\ \A q \in Request : Working(job[q], j.pair) => job[q].op = j.op
      BY <2>2, <3>1 DEF FriendshipInv, MutualInv
    <3> QED
      BY <1>1, <2>2, <3>1, <3>2 DEF Knows
  <2>3. j.op = "accept" => j.pair = job[r].pair
    BY <1>2, NoJob
  <2>4. \A x : Working(job[r], x) => Working(j, x)
    BY <1>1, <1>2 DEF Working
  <2> QED
    BY <1>1, <1>2, <1>3, <2>1, <2>2, <2>3, <2>4, SameMutual
<1>6. NoticeInv'
  <2>1. \A x : WillTidy(job[r], x) => x = job[r].pair
    BY DEF WillTidy
  <2> QED
    BY <1>1, <1>2, <2>1, NoticeKeeps
<1>7. SendInv' /\ OneWaits'
  BY <1>1, <1>2, <1>3, SendsNothing
<1>8. notice' \subseteq Pair
  BY <1>1 DEF FriendshipInv
<1> QED
  BY <1>1, <1>2, <1>4, <1>5, <1>6, <1>7, <1>8, OrderKeeps DEF FriendshipInv

LEMMA RoomKeepsInv ==
  ASSUME FriendshipInv, NEW r \in Request, AcceptRoom(r)
  PROVE  FriendshipInv'
<1>1. /\ job[r].step = "room" /\ job[r].op = "accept" /\ job[r].pair \in Pair
      /\ UNCHANGED <<friends, request, notice, late, both, torn>>
  BY FriendshipTypes DEF AcceptRoom, Job, InOrder
<1>2. Moves(r, Idle)
  BY FinishMoves DEF AcceptRoom
<1>3. ListsInv'
  BY <1>1, <1>2, NoJob, SameLists
<1>4. MutualInv'
  <2>1. \A x \in torn : Reverse(x) \in torn
    BY DEF FriendshipInv, MutualInv
  <2>2. ASSUME NEW x \in Pair \ torn, Working(job[r], x)
        PROVE  Count(x) > 0 /\ Count(Reverse(x)) > 0
    <3>1. job[r].pair \in Between(x) /\ job[r].pair \notin torn
      BY <1>1, <2>1, <2>2, PairFacts DEF Working
    <3>2. Knows(job[r])
      BY <1>1, <3>1 DEF FriendshipInv, MutualInv
    <3>3. Count(job[r].pair) > 0 /\ Count(Reverse(job[r].pair)) > 0
      BY <1>1, <3>2 DEF Knows
    <3> QED
      BY <3>1, <3>3, PairFacts
  <2> QED
    BY <1>1, <1>2, <2>1, <2>2, NoJob, SameMutual
<1>5. NoticeInv'
  BY <1>1, <1>2, NoticeStays DEF WillTidy
<1>6. SendInv' /\ OneWaits'
  BY <1>1, <1>2, NoJob, SendsNothing
<1> QED
  BY <1>1, <1>2, <1>3, <1>4, <1>5, <1>6, NoJob, OrderKeeps DEF FriendshipInv

LEMMA FailKeepsInv ==
  ASSUME FriendshipInv, NEW r \in Request, Fail(r)
  PROVE  FriendshipInv'
<1>1. PICK p : p = job[r].pair
  OBVIOUS
<1>2. /\ torn' = Noted(torn, p, job[r].op \in {"accept", "remove"})
      /\ late' = IF job[r].op \in {"accept", "decline"} THEN late \cup {p} ELSE late
      /\ UNCHANGED <<friends, request, notice, both>>
      /\ job[r].op # "none" => p \in Pair
  BY <1>1, FriendshipTypes DEF Fail
<1>3. Moves(r, Idle)
  BY FinishMoves DEF Fail
<1>4. ListsInv'
  BY <1>2, <1>3, NoJob, SameLists
<1>5. /\ torn \subseteq torn' /\ torn' \subseteq Pair
      /\ \A x \in torn' : Reverse(x) \in torn'
      /\ job[r].op \in {"accept", "remove"} => p \in torn' /\ Reverse(p) \in torn'
  <2>1. CASE job[r].op \in {"accept", "remove"}
    BY <1>2, <2>1, Hurt
  <2>2. CASE job[r].op \notin {"accept", "remove"}
    BY <1>2, <2>2 DEF Noted, FriendshipInv, MutualInv
  <2> QED
    BY <2>1, <2>2
<1>6. ASSUME NEW x \in Pair \ torn'
      PROVE  ~Working(job[r], x)
  BY <1>1, <1>2, <1>5, <1>6, PairFacts DEF Working
<1>7. MutualInv'
  BY <1>2, <1>3, <1>5, <1>6, NoJob, SameMutual
<1>8. late \subseteq late' /\ late' \subseteq Pair
  BY <1>2 DEF FriendshipInv
<1>9. NoticeInv'
  <2>1. \A x : WillTidy(job[r], x) => x \in late'
    BY <1>1, <1>2 DEF WillTidy
  <2> QED
    BY <1>2, <1>3, <1>8, <2>1, NoticeStays
<1>10. SendInv' /\ OneWaits'
  BY <1>2, <1>3, NoJob, SendsNothing
<1> QED
  BY <1>2, <1>3, <1>4, <1>5, <1>7, <1>8, <1>9, <1>10, NoJob, OrderKeeps DEF FriendshipInv

(* What is stale of a request only decides whether its save is refused.    *)
LEMMA OtherSaveKeepsInv ==
  ASSUME FriendshipInv, NEW u \in Account, OtherSave(u)
  PROVE  FriendshipInv'
<1>1. /\ job' = Staled(job, u) /\ job' # job
      /\ UNCHANGED <<friends, request, notice, late, both, torn>>
  BY DEF OtherSave
<1>2. /\ job \in [Request -> Job] /\ job' \in [Request -> Job]
      /\ \A q \in Request : Alike(job'[q], job[q])
  BY <1>1, StaledMoves, FriendshipTypes
<1>3. PICK r \in Request : TRUE
  BY <1>1, <1>2
<1>4. PICK j : j = job[r]
  OBVIOUS
<1>5. Moves(r, j)
  BY <1>2, <1>4 DEF Moves
<1>6. ListsInv'
  BY <1>1, <1>4, <1>5, SameLists
<1>7. MutualInv'
  <2>1. \A x \in torn : Reverse(x) \in torn
    BY DEF FriendshipInv, MutualInv
  <2>2. j.op \in {"accept", "remove"} /\ j.pair \notin torn =>
          /\ j.pair \in Pair
          /\ Knows(j)
          /\ \A q \in Request : Working(job[q], j.pair) => job[q].op = j.op
    BY <1>4, FriendshipTypes DEF FriendshipInv, MutualInv
  <2> QED
    BY <1>1, <1>4, <1>5, <2>1, <2>2, SameMutual
<1>8. NoticeInv'
  BY <1>1, <1>4, <1>5, NoticeStays
<1>9. SendInv' /\ OneWaits'
  <2>1. \A x \in both : Reverse(x) \in both
    BY DEF FriendshipInv, SendInv
  <2>2. j.op = "send" /\ j.pair \notin both =>
          /\ j.pair \in Pair
          /\ j.step = "store" => request[Reverse(j.pair)] # "pending"
          /\ \A q \in Request : job[q].op = "send" => job[q].pair # Reverse(j.pair)
    BY <1>4, FriendshipTypes DEF FriendshipInv, SendInv
  <2> QED
    BY <1>1, <1>5, <2>1, <2>2, SendKeeps
<1>10. InOrder(j)
  BY <1>4, FriendshipTypes
<1> QED
  BY <1>1, <1>5, <1>6, <1>7, <1>8, <1>9, <1>10, OrderKeeps DEF FriendshipInv

-----------------------------------------------------------------------------
LEMMA FriendshipInitHolds == FriendshipInit => FriendshipInv
<1> SUFFICES ASSUME FriendshipInit
             PROVE  FriendshipInv
  OBVIOUS
<1>1. /\ job = [r \in Request |-> Idle] /\ torn = {} /\ both = {} /\ late = {} /\ notice = {}
      /\ friends = [u \in Account |-> [v \in Account |-> 0]]
      /\ request = [p \in Pair |-> "none"]
  BY DEF FriendshipInit
<1>2. \A r \in Request : job[r] = Idle
  BY <1>1
<1>3. \A p \in Pair : Count(p) = 0 /\ Count(Reverse(p)) = 0
  BY <1>1 DEF Count, Pair, Reverse
<1>4. ListsInv
  BY <1>1, <1>3 DEF ListsInv
<1>5. MutualInv
  BY <1>1, <1>2, <1>3, NoJob DEF MutualInv
<1>6. NoticeInv /\ SendInv /\ OneWaits
  BY <1>1, <1>2, NoJob DEF NoticeInv, SendInv, OneWaits
<1> QED
  BY <1>1, <1>2, <1>4, <1>5, <1>6, NoJob DEF FriendshipInv

LEMMA FriendshipNextKeeps == FriendshipInv /\ [FriendshipNext]_friendshipVars => FriendshipInv'
<1> SUFFICES ASSUME FriendshipInv, [FriendshipNext]_friendshipVars
             PROVE  FriendshipInv'
  OBVIOUS
<1>1. ASSUME NEW r \in Request, NEW p \in Pair, SendFind(r, p)
      PROVE  FriendshipInv'
  BY <1>1, SendKeepsInv
<1>2. ASSUME NEW r \in Request, NEW p \in Pair,
             RemoveFind(r, p) \/ \E op \in {"accept", "decline"} : AnswerFind(r, p, op)
      PROVE  FriendshipInv'
  BY <1>2, FindKeepsInv
<1>3. ASSUME NEW r \in Request, SendCheck(r) \/ SendStore(r) \/ SendNotify(r)
      PROVE  FriendshipInv'
  BY <1>3, SendKeepsInv
<1>4. ASSUME NEW r \in Request, Accept(r) \/ Decline(r)
      PROVE  FriendshipInv'
  BY <1>4, AnswerKeepsInv
<1>5. ASSUME NEW r \in Request, NEW i \in Side,
             Read(r, i) \/ AcceptSave(r, i) \/ RemoveSave(r, i) \/ RemoveRefused(r, i)
      PROVE  FriendshipInv'
  BY <1>5, ReadKeepsInv, AcceptSaveKeepsInv, RemoveSaveKeepsInv, RefusedKeepsInv
<1>6. ASSUME NEW r \in Request, Tidy(r) \/ AcceptRoom(r) \/ Fail(r)
      PROVE  FriendshipInv'
  BY <1>6, TidyKeepsInv, RoomKeepsInv, FailKeepsInv
<1>7. ASSUME NEW u \in Account, OtherSave(u)
      PROVE  FriendshipInv'
  BY <1>7, OtherSaveKeepsInv
<1>8. CASE UNCHANGED friendshipVars
  BY <1>8 DEF friendshipVars, FriendshipInv, ListsInv, MutualInv, NoticeInv, SendInv, OneWaits,
       InOrder, Count, Adding, Adds, Knows, Working, WillTidy
<1> QED
  BY <1>1, <1>2, <1>3, <1>4, <1>5, <1>6, <1>7, <1>8 DEF FriendshipNext

LEMMA FriendshipInvariance == FriendshipSpec => []FriendshipInv
<1> QED
  BY FriendshipInitHolds, FriendshipNextKeeps, PTL DEF FriendshipSpec

(* An account is in a list at most once for each request served at a time. *)
LEMMA ListsBounded == FriendshipInv => FriendshipTypeOK
<1> SUFFICES ASSUME FriendshipInv
             PROVE  FriendshipTypeOK
  OBVIOUS
<1>1. ASSUME NEW u \in Account, NEW v \in Account
      PROVE  friends[u][v] \in 0 .. Cardinality(Request)
  <2>1. Cardinality(Request) \in Nat
    BY FriendshipAssumptions, FS_CardinalityType
  <2>2. CASE u = v
    BY <2>1, <2>2 DEF FriendshipInv, ListsInv
  <2>3. CASE u # v
    <3>1. PICK e \in Pair : e = <<u, v>>
      BY <2>3 DEF Pair
    <3>2. Count(e) = friends[u][v] /\ Count(e) \in Nat
      BY <3>1 DEF Count, FriendshipInv, ListsInv
    <3>3. Cardinality(Adding(e)) \in Nat
      BY FriendshipAssumptions, FS_Subset, FS_CardinalityType DEF Adding
    <3>4. Count(e) > 0 => Count(e) + Cardinality(Adding(e)) <= Cardinality(Request)
      BY DEF FriendshipInv, ListsInv
    <3> QED
      BY <2>1, <3>2, <3>3, <3>4
  <2> QED
    BY <2>2, <2>3
<1>2. friends \in [Account -> [Account -> 0 .. Cardinality(Request)]]
  BY <1>1 DEF FriendshipInv, ListsInv
<1> QED
  BY <1>2 DEF FriendshipInv, FriendshipTypeOK

(* Whatever overlaps, an account is in the list of another at most once    *)
(* for each request that is served at the same time.                       *)
THEOREM FriendshipTypeCorrect == FriendshipSpec => []FriendshipTypeOK
<1> QED
  BY FriendshipInvariance, ListsBounded, PTL

(* Accepting and ending write the two lists one after the other, from      *)
(* copies: still the lists of two agree when nobody is at it, unless an    *)
(* acceptance overlapped a removal of the two, or one failed half-way.     *)
THEOREM FriendsAreMutualProved == FriendshipSpec => []FriendsAreMutual
<1>1. FriendshipInv => FriendsAreMutual
  <2> SUFFICES ASSUME FriendshipInv, NEW p \in Pair \ torn,
                      Busy("accept", p) \cup Busy("remove", p) = {}
               PROVE  friends[p[1]][p[2]] > 0 <=> friends[p[2]][p[1]] > 0
    BY DEF FriendsAreMutual
  <2>1. \A q \in Request : ~Working(job[q], p)
    BY DEF Busy, Working
  <2>2. Count(p) > 0 <=> Count(Reverse(p)) > 0
    BY <2>1 DEF FriendshipInv, MutualInv
  <2> QED
    BY <2>2 DEF Count, Reverse
<1> QED
  BY <1>1, FriendshipInvariance, PTL

(* Answers take out the notification of the request they answer, also when *)
(* they overlap: what is left was late, or its answer failed.              *)
THEOREM NoticeAsksForAnswerProved == FriendshipSpec => []NoticeAsksForAnswer
<1>1. FriendshipInv => NoticeAsksForAnswer
  BY DEF FriendshipInv, NoticeInv, NoticeAsksForAnswer, WillTidy
<1> QED
  BY <1>1, FriendshipInvariance, PTL

(* Both directions are pending only if both were being sent at once: else  *)
(* the second finds the first.                                             *)
THEOREM OneWaitsProved == FriendshipSpec => []OneWaits
<1>1. FriendshipInv => OneWaits
  BY DEF FriendshipInv
<1> QED
  BY <1>1, FriendshipInvariance, PTL

(***************************************************************************)
(* The chat.                                                               *)
(***************************************************************************)

(* An answer that a load still has to give or to bring.                    *)
Load == [step : {"asked", "read"}, list : Seq(Shown)]

Ids(list) == {list[i].id : i \in DOMAIN list}

ReadEvent == [kind |-> "read"]

ChatTypes ==
  /\ author \in Seq({"me", "friend"}) /\ Len(author) <= MaxMessages
  /\ phase \in Seq({"posted", "stored", "over"}) /\ Len(phase) = Len(author)
  /\ stored \in Seq(Message)
  /\ read \subseteq Message
  /\ noted \in Nat
  /\ joined \in BOOLEAN
  /\ toServer \in Seq({"join", "leave"})
  /\ inbox \in Seq(Event)
  /\ open \in BOOLEAN
  /\ history \in Seq(Shown)
  /\ loaded \in BOOLEAN
  /\ loads \in Seq(Load)
  /\ awaited \subseteq DOMAIN author
  /\ asked \in BOOLEAN
  /\ turns \in 0..MaxTurns
  /\ untold \subseteq Message
  /\ missed \subseteq Message
  /\ ahead \subseteq Message
  /\ unmarked \subseteq Message

(* A message is stored once, and its event comes after that.               *)
StoredInv ==
  /\ \A i, k \in DOMAIN stored : stored[i] = stored[k] => i = k
  /\ Elements(stored) \subseteq DOMAIN author
  /\ \A m \in DOMAIN author : m \in Elements(stored) <=> phase[m] # "posted"
  /\ \A m \in Message : New(m) \in Elements(inbox) => m \in Elements(stored)

(* A list of messages as the page may show it: of the messages that are    *)
(* known, with a tick only where it is fair.                               *)
Good(list, known, fair, writer) ==
  /\ \A i, k \in DOMAIN list : list[i].id = list[k].id => i = k
  /\ \A i \in DOMAIN list :
       /\ list[i].id \in known
       /\ list[i].ticked => list[i].id \in fair /\ writer[list[i].id] = "me"

ShownInv ==
  /\ Good(history, Elements(stored), read \cup ahead, author)
  /\ \A i \in DOMAIN loads : Good(loads[i].list, Elements(stored), read \cup ahead, author)

(* A message is known to the page, or will be, or is noted as missed.      *)
Found(m) == m \in ShownIds \cup missed \/ Coming(m)

FoundInv ==
  /\ loaded => \A m \in Elements(stored) : Found(m)
  /\ \A i \in DOMAIN loads : loads[i].step = "read" =>
       \A m \in Elements(stored) : m \in Ids(loads[i].list) \/ Found(m)

(* The friend has read what was stored when an update was made whose event *)
(* is still to come.                                                       *)
TickInv ==
  noted > 0 \/ ReadEvent \in Elements(inbox) => By("me") \subseteq read \cup ahead

(* What the page shows or would show after a load.                         *)
SeenInv ==
  open => \A m \in By("friend") \ untold : m \in read \cup unmarked \/ asked \/ Coming(m)

ChatInv ==
  /\ ChatTypes
  /\ StoredInv
  /\ ShownInv
  /\ FoundInv
  /\ TickInv
  /\ SeenInv

-----------------------------------------------------------------------------
LEMMA ElementsAppend ==
  ASSUME NEW S, NEW s \in Seq(S), NEW x
  PROVE  Elements(Append(s, x)) = Elements(s) \cup {x}
<1>1. /\ DOMAIN Append(s, x) = 1..(Len(s) + 1)
      /\ \A i \in 1..(Len(s) + 1) : Append(s, x)[i] = IF i = Len(s) + 1 THEN x ELSE s[i]
      /\ DOMAIN s = 1..Len(s) /\ Len(s) \in Nat
  OBVIOUS
<1>2. ASSUME NEW y
      PROVE  y \in Elements(Append(s, x)) <=> y \in Elements(s) \/ y = x
  <2>1. ASSUME y \in Elements(Append(s, x))
        PROVE  y \in Elements(s) \/ y = x
    BY <1>1, <2>1 DEF Elements
  <2>2. ASSUME y \in Elements(s)
        PROVE  y \in Elements(Append(s, x))
    <3>1. PICK i \in DOMAIN s : y = s[i]
      BY <2>2 DEF Elements
    <3>2. i \in 1..(Len(s) + 1) /\ Append(s, x)[i] = y
      BY <1>1, <3>1
    <3> QED
      BY <1>1, <3>2 DEF Elements
  <2>3. x \in Elements(Append(s, x))
    <3>1. Append(s, x)[Len(s) + 1] = x /\ Len(s) + 1 \in DOMAIN Append(s, x)
      BY <1>1
    <3> QED
      BY <3>1 DEF Elements
  <2> QED
    BY <2>1, <2>2, <2>3
<1> QED
  BY <1>2

LEMMA AppendType ==
  ASSUME NEW S, NEW s \in Seq(S), NEW x \in S
  PROVE  Append(s, x) \in Seq(S)
OBVIOUS

LEMMA ConcatType ==
  ASSUME NEW S, NEW s \in Seq(S), NEW t \in Seq(S)
  PROVE  s \o t \in Seq(S)
OBVIOUS

LEMMA ElementsTail ==
  ASSUME NEW S, NEW s \in Seq(S), s # << >>
  PROVE  /\ Tail(s) \in Seq(S) /\ Head(s) \in S
         /\ Elements(s) = Elements(Tail(s)) \cup {Head(s)}
<1>1. /\ DOMAIN Tail(s) = 1..(Len(s) - 1)
      /\ \A i \in 1..(Len(s) - 1) : Tail(s)[i] = s[i + 1]
      /\ DOMAIN s = 1..Len(s) /\ Len(s) \in Nat /\ Len(s) > 0 /\ Head(s) = s[1]
  OBVIOUS
<1>2. ASSUME NEW y \in Elements(s)
      PROVE  y \in Elements(Tail(s)) \/ y = Head(s)
  <2>1. PICK i \in DOMAIN s : y = s[i]
    BY DEF Elements
  <2>2. i # 1 => i - 1 \in DOMAIN Tail(s) /\ Tail(s)[i - 1] = y
    BY <1>1, <2>1
  <2> QED
    BY <1>1, <2>1, <2>2 DEF Elements
<1>3. ASSUME NEW y \in Elements(Tail(s))
      PROVE  y \in Elements(s)
  <2>1. PICK i \in DOMAIN Tail(s) : y = Tail(s)[i]
    BY DEF Elements
  <2>2. i + 1 \in DOMAIN s /\ s[i + 1] = y
    BY <1>1, <2>1
  <2> QED
    BY <2>2 DEF Elements
<1>4. Head(s) \in Elements(s)
  <2>1. 1 \in DOMAIN s
    BY <1>1
  <2> QED
    BY <1>1, <2>1 DEF Elements
<1> QED
  BY <1>2, <1>3, <1>4

LEMMA ElementsType ==
  ASSUME NEW S, NEW s \in Seq(S)
  PROVE  Elements(s) \subseteq S
BY DEF Elements

LEMMA NoElements == Elements(<< >>) = {} /\ \A S : << >> \in Seq(S)
BY DEF Elements

LEMMA WithoutFacts ==
  ASSUME NEW S, NEW s \in Seq(S), NEW i \in DOMAIN s
  PROVE  /\ Without(s, i) \in Seq(S)
         /\ \A k \in DOMAIN Without(s, i) : \E x \in DOMAIN s : Without(s, i)[k] = s[x]
<1>1. DOMAIN s = 1..Len(s) /\ Len(s) \in Nat /\ Len(s) > 0
  OBVIOUS
<1>2. ASSUME NEW k \in 1..(Len(s) - 1)
      PROVE  Without(s, i)[k] \in S /\ \E x \in DOMAIN s : Without(s, i)[k] = s[x]
  BY <1>1, <1>2 DEF Without
<1>3. Without(s, i) = [k \in 1..(Len(s) - 1) |-> Without(s, i)[k]] /\ Len(s) - 1 \in Nat
  BY <1>1 DEF Without
<1>4. Without(s, i) \in [1..(Len(s) - 1) -> S]
  BY <1>2, <1>3
<1> QED
  BY <1>2, <1>3, <1>4

LEMMA EventFacts ==
  /\ \A m : New(m) # ReadEvent /\ New(m).kind = "new" /\ New(m).id = m
  /\ \A m, n : New(m) = New(n) => m = n
  /\ \A m \in Message : New(m) \in Event
  /\ ReadEvent \in Event /\ ReadEvent.kind = "read"
  /\ \A e \in Event : e.kind = "read" => e = ReadEvent
  /\ \A e \in Event : e.kind = "new" => e.id \in Message /\ e = New(e.id)
BY DEF New, ReadEvent, Event

LEMMA ChatFacts ==
  ASSUME ChatInv
  PROVE  /\ ChatTypes
         /\ DOMAIN author = 1..Len(author) /\ DOMAIN phase = DOMAIN author
         /\ DOMAIN author \subseteq Message
         /\ Elements(stored) \subseteq DOMAIN author
         /\ \A m \in Message : New(m) \in Elements(inbox) => m \in Elements(stored)
         /\ By("me") \cup By("friend") = Elements(stored)
         /\ MaxMessages \in Nat /\ Len(author) \in Nat
<1>1. ChatTypes /\ StoredInv
  BY DEF ChatInv
<1>2. By("me") \cup By("friend") = Elements(stored)
  <2>1. \A m \in DOMAIN author : author[m] \in {"me", "friend"}
    BY <1>1 DEF ChatTypes
  <2> QED
    BY <1>1, <2>1 DEF StoredInv, By
<1>3. /\ DOMAIN author = 1..Len(author) /\ DOMAIN phase = DOMAIN author
      /\ DOMAIN author \subseteq Message
      /\ MaxMessages \in Nat /\ Len(author) \in Nat
  BY <1>1, ChatAssumptions DEF ChatTypes, Message
<1> QED
  BY <1>1, <1>2, <1>3 DEF StoredInv

LEMMA GoodGrows ==
  ASSUME NEW list, NEW known, NEW fair, NEW writer, Good(list, known, fair, writer),
         NEW known2, NEW fair2, NEW writer2,
         known \subseteq known2, fair \subseteq fair2,
         \A m \in known : writer2[m] = writer[m]
  PROVE  Good(list, known2, fair2, writer2)
BY DEF Good

(* What is shown, and what loads hold, stays good while messages, readings *)
(* and what is ahead only grow.                                            *)
LEMMA ShownKept ==
  ASSUME ChatInv, UNCHANGED <<history, loads>>,
         Elements(stored) \subseteq Elements(stored'), read \subseteq read', ahead \subseteq ahead',
         \A m \in Elements(stored) : author'[m] = author[m]
  PROVE  ShownInv'
<1>1. read \cup ahead \subseteq read' \cup ahead'
  OBVIOUS
<1> QED
  BY <1>1, GoodGrows DEF ChatInv, ShownInv

(* A message that was found still is.                                      *)
LEMMA FoundKept ==
  ASSUME ChatInv,
         loaded' => loaded,
         \A i \in DOMAIN loads' : loads'[i].step = "read" =>
           \E k \in DOMAIN loads : loads[k].step = "read" /\ loads[k].list = loads'[i].list,
         \A m \in Elements(stored') :
           \/ Found(m)'
           \/ m \in Elements(stored) /\ ~Found(m)
  PROVE  FoundInv'
<1>1. loaded' => \A m \in Elements(stored') : Found(m)'
  BY DEF ChatInv, FoundInv
<1>2. ASSUME NEW i \in DOMAIN loads', loads'[i].step = "read", NEW m \in Elements(stored')
      PROVE  m \in Ids(loads'[i].list) \/ Found(m)'
  <2>1. PICK k \in DOMAIN loads : loads[k].step = "read" /\ loads[k].list = loads'[i].list
    BY <1>2
  <2>2. m \in Elements(stored) => m \in Ids(loads'[i].list) \/ Found(m)
    BY <2>1 DEF ChatInv, FoundInv
  <2> QED
    BY <2>2
<1> QED
  BY <1>1, <1>2 DEF FoundInv

-----------------------------------------------------------------------------
(* The server.                                                             *)
LEMMA StoreKeeps ==
  ASSUME ChatInv, NEW m \in DOMAIN author, Store(m)
  PROVE  ChatInv'
<1>1. /\ phase[m] = "posted"
      /\ phase' = [phase EXCEPT ![m] = "stored"]
      /\ stored' = Append(stored, m)
      /\ ahead' = IF noted > 0 \/ ReadEvent \in Elements(inbox) THEN ahead \cup {m} ELSE ahead
      /\ UNCHANGED <<author, read, noted, joined, toServer, inbox, open, history, loaded,
                     loads, awaited, asked, untold, missed, turns, unmarked>>
  BY DEF Store, wire, page, ReadEvent
<1>2. ChatTypes
  BY ChatFacts
<1>3. m \in Message /\ m \notin Elements(stored)
  BY <1>1, ChatFacts DEF ChatInv, StoredInv
<1>4. Elements(stored') = Elements(stored) \cup {m}
  BY <1>1, <1>2, ElementsAppend DEF ChatTypes
<1>5. \A x \in DOMAIN author : phase'[x] = IF x = m THEN "stored" ELSE phase[x]
  BY <1>1, <1>2, ChatFacts DEF ChatTypes
<1>6. ChatTypes'
  <2>1. stored' \in Seq(Message) /\ ahead' \subseteq Message
    BY <1>1, <1>2, <1>3 DEF ChatTypes
  <2>2. phase' \in Seq({"posted", "stored", "over"}) /\ Len(phase') = Len(phase)
    BY <1>1, <1>2 DEF ChatTypes
  <2> QED
    BY <1>1, <1>2, <2>1, <2>2 DEF ChatTypes
<1>7. StoredInv'
  <2>1. ASSUME NEW i \in DOMAIN stored', NEW k \in DOMAIN stored', stored'[i] = stored'[k]
        PROVE  i = k
    <3>1. /\ DOMAIN stored' = 1..(Len(stored) + 1) /\ DOMAIN stored = 1..Len(stored)
          /\ Len(stored) \in Nat
          /\ \A x \in DOMAIN stored' :
               stored'[x] = IF x = Len(stored) + 1 THEN m ELSE stored[x]
      BY <1>1, <1>2 DEF ChatTypes
    <3>2. \A x \in DOMAIN stored : stored[x] # m
      BY <1>3 DEF Elements
    <3> QED
      BY <2>1, <3>1, <3>2 DEF ChatInv, StoredInv
  <2>2. Elements(stored') \subseteq DOMAIN author'
    BY <1>1, <1>4, ChatFacts
  <2>3. ASSUME NEW x \in DOMAIN author
        PROVE  x \in Elements(stored') <=> phase'[x] # "posted"
    BY <1>4, <1>5 DEF ChatInv, StoredInv
  <2>4. \A x \in Message : New(x) \in Elements(inbox) => x \in Elements(stored')
    BY <1>4, ChatFacts
  <2> QED
    BY <1>1, <2>1, <2>2, <2>3, <2>4 DEF StoredInv
<1>8. ShownInv'
  BY <1>1, <1>4, ShownKept
<1>9. FoundInv'
  <2>1. ASSUME NEW x \in Elements(stored), Found(x)
        PROVE  Found(x)'
    <3>1. x \in DOMAIN author
      BY ChatFacts
    <3>2. Coming(x) => Coming(x)'
      BY <1>1, <1>5, <3>1 DEF Coming
    <3> QED
      BY <1>1, <2>1, <3>2 DEF Found, ShownIds
  <2>2. Found(m)'
    BY <1>5 DEF Found, Coming
  <2>3. \A x \in Elements(stored') : Found(x)' \/ (x \in Elements(stored) /\ ~Found(x))
    BY <1>4, <2>1, <2>2
  <2> QED
    BY <1>1, <2>3, FoundKept
<1>10. TickInv'
  BY <1>1, <1>4 DEF ChatInv, TickInv, By
<1>11. SeenInv'
  <2>1. ASSUME NEW x \in Elements(stored), Coming(x)
        PROVE  Coming(x)'
    BY <1>1, <1>5, <2>1, ChatFacts DEF Coming
  <2>2. Coming(m)'
    BY <1>5 DEF Coming
  <2> QED
    BY <1>1, <1>4, <2>1, <2>2 DEF ChatInv, SeenInv, By
<1> QED
  BY <1>6, <1>7, <1>8, <1>9, <1>10, <1>11 DEF ChatInv

LEMMA EmitNewKeeps ==
  ASSUME ChatInv, NEW m \in DOMAIN author, EmitNew(m) \/ EmitFails(m)
  PROVE  ChatInv'
<1>1. /\ phase[m] = "stored"
      /\ phase' = [phase EXCEPT ![m] = "over"]
      /\ UNCHANGED <<author, stored, read, noted, joined, toServer, open, history, loaded,
                     loads, awaited, asked, ahead, turns, unmarked>>
  BY DEF EmitNew, EmitFails, wire, page
<1>2. ChatTypes
  BY ChatFacts
<1>3. m \in Message /\ m \in Elements(stored)
  BY <1>1, ChatFacts DEF ChatInv, StoredInv
<1>4. \A x \in DOMAIN author : phase'[x] = IF x = m THEN "over" ELSE phase[x]
  BY <1>1, <1>2, ChatFacts DEF ChatTypes
<1>5. \/ /\ inbox' = Append(inbox, New(m)) /\ UNCHANGED <<untold, missed>>
         /\ Elements(inbox') = Elements(inbox) \cup {New(m)}
      \/ inbox' = inbox /\ untold' = untold \cup {m} /\ missed' = missed \cup {m}
  <2>1. inbox \in Seq(Event)
    BY <1>2 DEF ChatTypes
  <2> QED
    BY <2>1, ElementsAppend DEF EmitNew, EmitFails, wire
<1>6. ChatTypes'
  <2>1. inbox' \in Seq(Event)
    <3>1. inbox \in Seq(Event) /\ New(m) \in Event
      BY <1>2, <1>3, EventFacts DEF ChatTypes
    <3> QED
      BY <1>5, <3>1, AppendType
  <2>2. phase' \in Seq({"posted", "stored", "over"}) /\ Len(phase') = Len(phase)
    BY <1>1, <1>2 DEF ChatTypes
  <2> QED
    BY <1>1, <1>2, <1>3, <1>5, <2>1, <2>2 DEF ChatTypes
<1>7. StoredInv'
  <2>1. \A x \in Message : New(x) \in Elements(inbox') => x \in Elements(stored)
    BY <1>3, <1>5, ChatFacts, EventFacts
  <2>2. \A x \in DOMAIN author : x \in Elements(stored) <=> phase'[x] # "posted"
    BY <1>3, <1>4 DEF ChatInv, StoredInv
  <2> QED
    BY <1>1, <2>1, <2>2 DEF ChatInv, StoredInv
<1>8. ShownInv'
  BY <1>1, ShownKept
<1>9. ASSUME NEW x \in Elements(stored), Coming(x)
      PROVE  Coming(x)' \/ (x \in missed' /\ x \in untold')
  BY <1>4, <1>5, <1>9, ChatFacts DEF Coming
<1>10. FoundInv'
  <2>1. \A x \in Elements(stored) : Found(x) => Found(x)'
    BY <1>1, <1>5, <1>9 DEF Found, ShownIds
  <2> QED
    BY <1>1, <2>1, FoundKept
<1>11. TickInv'
  <2>1. ReadEvent \in Elements(inbox') => ReadEvent \in Elements(inbox)
    BY <1>5, EventFacts
  <2> QED
    BY <1>1, <2>1 DEF ChatInv, TickInv, By
<1>12. SeenInv'
  BY <1>1, <1>5, <1>9 DEF ChatInv, SeenInv, By
<1> QED
  BY <1>6, <1>7, <1>8, <1>10, <1>11, <1>12 DEF ChatInv

(* Reading changes what is read, and what the page has to do for it.       *)
LEMMA ReadingKeeps ==
  ASSUME ChatInv, MarkAsRead \/ MarkFails \/ FriendReads \/ EmitRead \/ EmitReadFails
  PROVE  ChatInv'
<1>1. /\ UNCHANGED <<author, phase, stored, joined, toServer, open, history, loaded, loads,
                     awaited, untold, missed, ahead, turns>>
      /\ read \subseteq read' /\ read' \subseteq read \cup Elements(stored)
      /\ noted' \in Nat /\ asked' \in BOOLEAN /\ unmarked' \subseteq Message
  <2>1. noted \in Nat /\ asked \in BOOLEAN /\ unmarked \subseteq Message
    BY ChatFacts DEF ChatTypes
  <2>2. /\ Received("me") \subseteq Elements(stored) /\ Received("friend") \subseteq Elements(stored)
        /\ Elements(stored) \subseteq Message
    BY ChatFacts DEF Received, By
  <2>3. CASE MarkAsRead
    BY <2>1, <2>2, <2>3 DEF MarkAsRead, wire
  <2>4. CASE FriendReads
    BY <2>1, <2>2, <2>4 DEF FriendReads, wire, page
  <2>5. CASE EmitRead
    BY <2>1, <2>2, <2>5 DEF EmitRead, page
  <2>6. CASE MarkFails
    BY <2>1, <2>2, <2>6 DEF MarkFails, server, wire
  <2>7. CASE EmitReadFails
    BY <2>1, <2>2, <2>7 DEF EmitReadFails, wire, page
  <2> QED
    BY <2>3, <2>4, <2>5, <2>6, <2>7
<1>2. ChatTypes
  BY ChatFacts
<1>3. /\ inbox' \in Seq(Event)
      /\ inbox' = inbox \/ Elements(inbox') = Elements(inbox) \cup {ReadEvent}
  <2>1. inbox' = inbox \/ inbox' = Append(inbox, ReadEvent)
    BY DEF MarkAsRead, MarkFails, FriendReads, EmitRead, EmitReadFails, wire, ReadEvent
  <2>2. inbox \in Seq(Event) /\ ReadEvent \in Event
    BY <1>2, EventFacts DEF ChatTypes
  <2> QED
    BY <2>1, <2>2, AppendType, ElementsAppend
<1>4. ChatTypes'
  BY <1>1, <1>2, <1>3, ChatFacts DEF ChatTypes
<1>5. \A x : New(x) \in Elements(inbox') <=> New(x) \in Elements(inbox)
  BY <1>3, EventFacts
<1>6. StoredInv'
  BY <1>1, <1>5 DEF ChatInv, StoredInv
<1>7. ShownInv'
  BY <1>1, ShownKept
<1>8. \A x : Coming(x)' <=> Coming(x)
  BY <1>1, <1>5 DEF Coming
<1>9. FoundInv'
  <2>1. \A x : Found(x) => Found(x)'
    BY <1>1, <1>8 DEF Found, ShownIds
  <2> QED
    BY <1>1, <2>1, FoundKept
<1>10. TickInv'
  <2>1. CASE FriendReads
    BY <1>1, <2>1 DEF FriendReads, Received, TickInv, By
  <2>2. CASE EmitRead
    BY <1>1, <1>2, <2>2 DEF EmitRead, ChatInv, TickInv, By, ChatTypes
  <2>3. CASE MarkAsRead
    BY <1>1, <2>3 DEF MarkAsRead, ChatInv, TickInv, By, wire
  <2>4. CASE MarkFails
    BY <1>1, <2>4 DEF MarkFails, ChatInv, TickInv, By, server, wire
  <2>5. CASE EmitReadFails
    BY <1>1, <1>2, <2>5 DEF EmitReadFails, ChatInv, TickInv, By, wire, ChatTypes
  <2> QED
    BY <2>1, <2>2, <2>3, <2>4, <2>5
<1>11. SeenInv'
  <2>1. CASE MarkAsRead
    BY <1>1, <2>1 DEF MarkAsRead, Received, SeenInv, By
  <2>2. CASE FriendReads \/ EmitRead \/ EmitReadFails
    <3>1. asked' = asked /\ unmarked' = unmarked
      BY <2>2 DEF FriendReads, EmitRead, EmitReadFails, page
    <3> QED
      BY <1>1, <1>8, <3>1 DEF ChatInv, SeenInv, By
  <2>3. CASE MarkFails
    <3>1. unmarked' = By("friend") \ read /\ By("friend")' = By("friend") /\ read' = read
      BY <1>1, <2>3 DEF MarkFails, Received, By, server
    <3> QED
      BY <3>1 DEF SeenInv
  <2> QED
    BY <2>1, <2>2, <2>3
<1> QED
  BY <1>4, <1>6, <1>7, <1>9, <1>10, <1>11 DEF ChatInv

(* A load reads what is stored: the list is good, and has every message.   *)
LEMMA ReadHistoryKeeps ==
  ASSUME ChatInv, NEW i \in DOMAIN loads, ReadHistory(i)
  PROVE  ChatInv'
<1> DEFINE list == [k \in DOMAIN stored |-> [id |-> stored[k], ticked |-> Marked(stored[k])]]
<1>1. /\ loads' = [loads EXCEPT ![i] = [step |-> "read", list |-> list]]
      /\ UNCHANGED <<author, phase, stored, read, noted, joined, toServer, inbox, open,
                     history, loaded, awaited, asked, untold, missed, ahead, turns, unmarked>>
  BY DEF ReadHistory, server, wire
<1>2. ChatTypes
  BY ChatFacts
<1>3. list \in Seq(Shown)
  <2>1. \A k \in DOMAIN stored : [id |-> stored[k], ticked |-> Marked(stored[k])] \in Shown
    BY <1>2 DEF ChatTypes, Shown, Marked
  <2>2. DOMAIN stored = 1..Len(stored) /\ Len(stored) \in Nat
    BY <1>2 DEF ChatTypes
  <2> QED
    BY <2>1, <2>2
<1>4. Good(list, Elements(stored), read \cup ahead, author)
  BY DEF Good, Marked, Elements, ChatInv, StoredInv
<1>5. Ids(list) = Elements(stored)
  BY DEF Ids, Elements
<1>6. PICK l : l = list
  OBVIOUS
<1> HIDE DEF list
<1>7. /\ loads' \in Seq(Load)
      /\ DOMAIN loads' = DOMAIN loads
      /\ \A k \in DOMAIN loads :
           loads'[k] = IF k = i THEN [step |-> "read", list |-> l] ELSE loads[k]
  BY <1>1, <1>2, <1>3, <1>6 DEF ChatTypes, Load
<1>8. ChatTypes'
  BY <1>1, <1>2, <1>7 DEF ChatTypes
<1>9. StoredInv'
  BY <1>1 DEF ChatInv, StoredInv
<1>10. ShownInv'
  BY <1>1, <1>4, <1>6, <1>7 DEF ChatInv, ShownInv
<1>11. \A x : Found(x)' <=> Found(x)
  BY <1>1 DEF Found, Coming, ShownIds
<1>12. FoundInv'
  BY <1>1, <1>5, <1>6, <1>7, <1>11 DEF ChatInv, FoundInv
<1>13. TickInv'
  BY <1>1 DEF ChatInv, TickInv, By
<1>14. SeenInv'
  BY <1>1 DEF ChatInv, SeenInv, By, Coming
<1> QED
  BY <1>8, <1>9, <1>10, <1>12, <1>13, <1>14 DEF ChatInv

LEMMA JoinOrLeaveKeeps ==
  ASSUME ChatInv, JoinOrLeave
  PROVE  ChatInv'
<1>1. UNCHANGED <<server, inbox, page, untold, missed, ahead, turns, unmarked>>
  BY DEF JoinOrLeave
<1>2. ChatTypes
  BY ChatFacts
<1>3. toServer' \in Seq({"join", "leave"}) /\ joined' \in BOOLEAN
  BY <1>2, ElementsTail DEF JoinOrLeave, ChatTypes
<1>4. ChatTypes'
  BY <1>1, <1>2, <1>3 DEF ChatTypes, server, page
<1> QED
  BY <1>1, <1>4 DEF ChatInv, StoredInv, ShownInv, FoundInv, TickInv, SeenInv, server, page,
     By, Found, Coming, ShownIds

LEMMA DropKeeps ==
  ASSUME ChatInv, Drop
  PROVE  ChatInv'
<1> DEFINE lost == {m \in Message : New(m) \in Elements(inbox)}
<1>1. /\ UNCHANGED <<author, phase, stored, read, noted, toServer, open, history, loaded,
                     loads, awaited, asked, ahead, unmarked>>
      /\ turns' \in 0..MaxTurns /\ joined' = FALSE /\ inbox' = << >>
      /\ untold' = untold \cup lost /\ missed' = missed \cup lost
  BY ChatFacts, ChatAssumptions DEF Drop, server, page, ChatTypes
<1>2. ChatTypes'
  BY <1>1, ChatFacts, NoElements DEF ChatTypes
<1>3. Elements(inbox') = {}
  BY <1>1, NoElements
<1>4. StoredInv'
  BY <1>1, <1>3 DEF ChatInv, StoredInv
<1>5. ShownInv'
  BY <1>1, ShownKept
<1>6. \A x \in Elements(stored) : Coming(x) => Coming(x)' \/ x \in lost
  BY <1>1, ChatFacts DEF Coming
<1>7. FoundInv'
  <2>1. \A x \in Elements(stored) : Found(x) => Found(x)'
    BY <1>1, <1>6 DEF Found, ShownIds
  <2> QED
    BY <1>1, <2>1, FoundKept
<1>8. TickInv'
  BY <1>1, <1>3 DEF ChatInv, TickInv, By
<1>9. SeenInv'
  BY <1>1, <1>6 DEF ChatInv, SeenInv, By
<1> QED
  BY <1>2, <1>4, <1>5, <1>7, <1>8, <1>9 DEF ChatInv

-----------------------------------------------------------------------------
(* The page.                                                               *)
LEMMA EnterKeeps ==
  ASSUME ChatInv, OpenChat \/ StatusChange
  PROVE  ChatInv'
<1>1. PICK signals \in {<<"join">>, <<"leave", "join">>} :
        Enter(signals) /\ open' = TRUE
  BY ChatFacts DEF OpenChat, StatusChange, ChatTypes
<1>2. /\ UNCHANGED <<author, phase, stored, read, noted, joined, inbox, history, loaded,
                     awaited, untold, missed, ahead>>
      /\ turns' \in 0..MaxTurns /\ asked' = TRUE /\ unmarked' = {}
      /\ toServer' = toServer \o signals
  BY <1>1, ChatFacts, ChatAssumptions DEF Enter, server, ChatTypes
<1>3. toServer' \in Seq({"join", "leave"})
  <2>1. toServer \in Seq({"join", "leave"})
    BY ChatFacts DEF ChatTypes
  <2>2. <<"join">> \in Seq({"join", "leave"}) /\ <<"leave", "join">> \in Seq({"join", "leave"})
    OBVIOUS
  <2>3. signals \in Seq({"join", "leave"})
    BY <2>2
  <2> QED
    BY <1>2, <2>1, <2>3, ConcatType
<1>4. /\ loads' \in Seq(Load)
      /\ \A i \in DOMAIN loads' : \/ i \in DOMAIN loads /\ loads'[i] = loads[i]
                                  \/ loads'[i].step = "asked" /\ loads'[i].list = << >>
  <2>1. loads \in Seq(Load)
    BY ChatFacts DEF ChatTypes
  <2>2. [step |-> "asked", list |-> << >>] \in Load
    BY DEF Load
  <2>3. PICK l \in Load : /\ l = [step |-> "asked", list |-> << >>]
                         /\ l.step = "asked" /\ l.list = << >>
    BY <2>2
  <2>4. loads' = loads \/ loads' = Append(loads, l)
    BY <1>1, <2>3 DEF Enter
  <2>5. \A i \in DOMAIN Append(loads, l) :
          \/ i \in DOMAIN loads /\ Append(loads, l)[i] = loads[i]
          \/ Append(loads, l)[i] = l
    BY <2>1
  <2> QED
    BY <2>1, <2>3, <2>4, <2>5, AppendType
<1>5. ChatTypes'
  BY <1>1, <1>2, <1>3, <1>4, ChatFacts DEF ChatTypes
<1>6. StoredInv'
  BY <1>2 DEF ChatInv, StoredInv
<1>7. ShownInv'
  <2>1. \A known, fair, writer : Good(<< >>, known, fair, writer)
    BY DEF Good
  <2> QED
    BY <1>2, <1>4, <2>1 DEF ChatInv, ShownInv
<1>8. FoundInv'
  <2>1. \A x : Found(x) => Found(x)'
    BY <1>2 DEF Found, Coming, ShownIds
  <2> QED
    BY <1>2, <1>4, <2>1, FoundKept
<1>9. TickInv'
  BY <1>2 DEF ChatInv, TickInv, By
<1>10. SeenInv'
  BY <1>2 DEF SeenInv
<1> QED
  BY <1>5, <1>6, <1>7, <1>8, <1>9, <1>10 DEF ChatInv

LEMMA CloseKeeps ==
  ASSUME ChatInv, CloseChat \/ CloseModal
  PROVE  ChatInv'
<1>1. /\ UNCHANGED <<author, phase, stored, read, noted, joined, inbox, asked, untold,
                     missed, ahead, turns, unmarked>>
      /\ open' = FALSE
      /\ toServer' \in {toServer, Append(toServer, "leave")}
      /\ \/ UNCHANGED <<history, loaded, loads, awaited>>
         \/ history' = << >> /\ loaded' = FALSE /\ loads' = << >> /\ awaited' = {}
  BY DEF CloseChat, CloseModal, server
<1>2. toServer' \in Seq({"join", "leave"})
  <2>1. toServer \in Seq({"join", "leave"})
    BY ChatFacts DEF ChatTypes
  <2> QED
    BY <1>1, <2>1, AppendType
<1>3. ChatTypes'
  BY <1>1, <1>2, ChatFacts, NoElements DEF ChatTypes
<1>4. StoredInv' /\ TickInv'
  BY <1>1 DEF ChatInv, StoredInv, TickInv, By
<1>5. SeenInv'
  BY <1>1 DEF SeenInv
<1>6. ShownInv' /\ FoundInv'
  <2>1. CASE UNCHANGED <<history, loaded, loads, awaited>>
    BY <1>1, <2>1 DEF ChatInv, ShownInv, FoundInv, Found, Coming, ShownIds
  <2>2. CASE history' = << >> /\ loaded' = FALSE /\ loads' = << >>
    BY <2>2 DEF ShownInv, FoundInv, Good
  <2> QED
    BY <1>1, <2>1, <2>2
<1> QED
  BY <1>3, <1>4, <1>5, <1>6 DEF ChatInv

LEMMA HistoryLoadedKeeps ==
  ASSUME ChatInv, NEW i \in DOMAIN loads, HistoryLoaded(i)
  PROVE  ChatInv'
<1>1. PICK l : l = loads[i].list
  OBVIOUS
<1>2. {m.id : m \in Elements(l)} = Ids(l)
  BY DEF Elements, Ids
<1>3. /\ loads[i].step = "read"
      /\ loads' = Without(loads, i)
      /\ history' = l
      /\ loaded' = TRUE
      /\ missed' = (missed \ Ids(l)) \cup (ShownIds \ Ids(l))
      /\ UNCHANGED <<author, phase, stored, read, noted, joined, toServer, inbox, open,
                     awaited, asked, untold, ahead, turns, unmarked>>
  BY <1>1, <1>2 DEF HistoryLoaded, server, wire
<1>4. ChatTypes /\ l \in Seq(Shown)
  <2>1. loads \in Seq(Load) /\ ChatTypes
    BY ChatFacts DEF ChatTypes
  <2>2. loads[i] \in Load
    BY <2>1
  <2> QED
    BY <1>1, <2>1, <2>2 DEF Load
<1>5. /\ loads' \in Seq(Load)
      /\ \A k \in DOMAIN loads' : \E x \in DOMAIN loads : loads'[k] = loads[x]
  BY <1>3, <1>4, WithoutFacts DEF ChatTypes
<1>6. ShownIds' = Ids(l) /\ ShownIds \subseteq Message
  <2>1. \A k \in DOMAIN history : history[k] \in Shown
    BY <1>4 DEF ChatTypes
  <2>2. \A m \in Shown : m.id \in Message
    BY DEF Shown
  <2> QED
    BY <1>3, <2>1, <2>2 DEF ShownIds, Ids
<1>7. ChatTypes'
  BY <1>3, <1>4, <1>5, <1>6 DEF ChatTypes
<1>8. StoredInv' /\ TickInv' /\ SeenInv'
  BY <1>3 DEF ChatInv, StoredInv, TickInv, SeenInv, By, Coming
<1>9. ShownInv'
  BY <1>1, <1>3, <1>5 DEF ChatInv, ShownInv
<1>10. \A x : Coming(x)' <=> Coming(x)
  BY <1>3 DEF Coming
<1>11. \A x : Found(x) => Found(x)'
  BY <1>3, <1>6, <1>10 DEF Found
<1>12. \A x \in Elements(stored) : Found(x)'
  <2>1. \A x \in Elements(stored) : x \in Ids(l) \/ Found(x)
    BY <1>1, <1>3 DEF ChatInv, FoundInv
  <2> QED
    BY <1>6, <1>11, <2>1 DEF Found
<1>13. FoundInv'
  BY <1>3, <1>12 DEF FoundInv
<1> QED
  BY <1>7, <1>8, <1>9, <1>13 DEF ChatInv

LEMMA SendKeepsChat ==
  ASSUME ChatInv, NEW who \in {"me", "friend"}, Send(who)
  PROVE  ChatInv'
<1>1. /\ Len(author) < MaxMessages
      /\ author' = Append(author, who)
      /\ phase' = Append(phase, "posted")
      /\ awaited' \in {awaited, awaited \cup {Len(author')}}
      /\ UNCHANGED <<stored, read, noted, joined, toServer, inbox, open, history, loaded,
                     loads, asked, untold, missed, ahead, turns, unmarked>>
  BY DEF Send, wire
<1>2. ChatTypes
  BY ChatFacts
<1>3. /\ author' \in Seq({"me", "friend"}) /\ Len(author') = Len(author) + 1
      /\ phase' \in Seq({"posted", "stored", "over"}) /\ Len(phase') = Len(phase) + 1
      /\ DOMAIN author' = DOMAIN author \cup {Len(author) + 1}
      /\ \A m \in DOMAIN author : author'[m] = author[m] /\ phase'[m] = phase[m]
      /\ phase'[Len(author) + 1] = "posted"
      /\ Len(author) + 1 \notin DOMAIN author
  BY <1>1, <1>2 DEF ChatTypes
<1>4. ChatTypes'
  BY <1>1, <1>2, <1>3, ChatFacts DEF ChatTypes
<1>5. StoredInv'
  <2>1. \A m \in DOMAIN author' : m \in Elements(stored) <=> phase'[m] # "posted"
    BY <1>3, ChatFacts DEF ChatInv, StoredInv
  <2> QED
    BY <1>1, <1>3, <2>1 DEF ChatInv, StoredInv
<1>6. \A m \in Elements(stored) : author'[m] = author[m] /\ phase'[m] = phase[m]
  BY <1>3, ChatFacts
<1>7. ShownInv'
  BY <1>1, <1>6, ShownKept
<1>8. \A m \in Elements(stored) : Coming(m)' <=> Coming(m)
  BY <1>1, <1>6 DEF Coming
<1>9. FoundInv'
  <2>1. \A m \in Elements(stored) : Found(m) => Found(m)'
    BY <1>1, <1>8 DEF Found, ShownIds
  <2> QED
    BY <1>1, <2>1, FoundKept
<1>10. By("me")' = By("me") /\ By("friend")' = By("friend")
  BY <1>1, <1>6 DEF By
<1>11. TickInv'
  BY <1>1, <1>10 DEF ChatInv, TickInv
<1>12. SeenInv'
  BY <1>1, <1>8, <1>10 DEF ChatInv, SeenInv, By
<1> QED
  BY <1>4, <1>5, <1>7, <1>9, <1>11, <1>12 DEF ChatInv

LEMMA AnsweredKeeps ==
  ASSUME ChatInv, NEW m \in DOMAIN author, Answered(m)
  PROVE  ChatInv'
<1>1. /\ phase[m] # "posted"
      /\ awaited' = awaited \ {m}
      /\ \/ UNCHANGED <<history, missed>>
         \/ history = << >> /\ history' = <<Fresh(m)>> /\ missed' = missed \ {m}
      /\ UNCHANGED <<author, phase, stored, read, noted, joined, toServer, inbox, open,
                     loaded, loads, asked, untold, ahead, turns, unmarked>>
  BY DEF Answered, server, wire
<1>2. m \in Elements(stored) /\ m \in Message
  BY <1>1, ChatFacts DEF ChatInv, StoredInv
<1>3. Fresh(m) \in Shown /\ Fresh(m).id = m /\ ~Fresh(m).ticked
  BY <1>2 DEF Fresh, Shown
<1>4. ChatTypes'
  <2>1. history' \in Seq(Shown)
    <3>1. PICK f \in Shown : f = Fresh(m)
      BY <1>3
    <3>2. <<f>> \in Seq(Shown)
      OBVIOUS
    <3> QED
      BY <1>1, <3>1, <3>2, ChatFacts DEF ChatTypes
  <2> QED
    BY <1>1, <2>1, ChatFacts DEF ChatTypes
<1>5. StoredInv' /\ TickInv' /\ SeenInv'
  BY <1>1 DEF ChatInv, StoredInv, TickInv, SeenInv, By, Coming
<1>6. ShownInv'
  <2>1. Good(<<Fresh(m)>>, Elements(stored), read \cup ahead, author)
    BY <1>2, <1>3 DEF Good
  <2> QED
    BY <1>1, <2>1 DEF ChatInv, ShownInv
<1>7. FoundInv'
  <2>1. \A x : Found(x) => Found(x)'
    <3>1. CASE UNCHANGED <<history, missed>>
      BY <1>1, <3>1 DEF Found, Coming, ShownIds
    <3>2. CASE history = << >> /\ history' = <<Fresh(m)>> /\ missed' = missed \ {m}
      <4>1. ShownIds = {} /\ m \in ShownIds'
        BY <1>3, <3>2 DEF ShownIds
      <4> QED
        BY <1>1, <3>2, <4>1 DEF Found, Coming
    <3> QED
      BY <1>1, <3>1, <3>2
  <2> QED
    BY <1>1, <2>1, FoundKept
<1> QED
  BY <1>4, <1>5, <1>6, <1>7 DEF ChatInv

LEMMA NewMessageKeeps ==
  ASSUME ChatInv, NewMessage
  PROVE  ChatInv'
<1>1. PICK m : m = Head(inbox).id
  OBVIOUS
<1>2. ChatTypes
  BY ChatFacts
<1>3. /\ inbox # << >> /\ Head(inbox).kind = "new"
      /\ inbox' = Tail(inbox)
      /\ history' = IF m \in ShownIds THEN history ELSE Append(history, Fresh(m))
      /\ asked' = (asked \/ open)
      /\ unmarked' = IF open THEN {} ELSE unmarked
      /\ missed' = missed \ {m}
      /\ UNCHANGED <<author, phase, stored, read, noted, joined, toServer, open, loaded,
                     loads, awaited, untold, ahead, turns>>
  BY <1>1 DEF NewMessage, AlreadyShown, server
<1>4. /\ inbox' \in Seq(Event)
      /\ m \in Message
      /\ Elements(inbox) = Elements(inbox') \cup {New(m)}
  BY <1>1, <1>2, <1>3, ElementsTail, EventFacts DEF ChatTypes
<1>5. m \in Elements(stored)
  BY <1>4, ChatFacts
<1>6. Fresh(m) \in Shown /\ Fresh(m).id = m /\ ~Fresh(m).ticked
  BY <1>4 DEF Fresh, Shown
<1>7. history' \in Seq(Shown) /\ asked' \in BOOLEAN
  BY <1>2, <1>3, <1>6, AppendType DEF ChatTypes
<1>8. ChatTypes'
  BY <1>2, <1>3, <1>4, <1>7 DEF ChatTypes
<1>9. StoredInv'
  BY <1>3, <1>4 DEF ChatInv, StoredInv
<1>10. /\ ShownIds' = ShownIds \cup {m}
       /\ Good(history', Elements(stored), read \cup ahead, author)
  <2>1. CASE m \in ShownIds
    BY <1>3, <2>1 DEF ShownIds, ChatInv, ShownInv
  <2>2. CASE m \notin ShownIds
    <3>1. PICK f : f = Fresh(m)
      OBVIOUS
    <3>2. /\ DOMAIN history = 1..Len(history) /\ Len(history) \in Nat
          /\ DOMAIN history' = 1..(Len(history) + 1)
          /\ \A k \in DOMAIN history' :
               history'[k] = IF k = Len(history) + 1 THEN f ELSE history[k]
      BY <1>2, <1>3, <2>2, <3>1 DEF ChatTypes
    <3>3. \A k \in DOMAIN history : history[k].id # m
      BY <2>2 DEF ShownIds
    <3>4. Good(history, Elements(stored), read \cup ahead, author)
      BY DEF ChatInv, ShownInv
    <3>5. Good(history', Elements(stored), read \cup ahead, author)
      BY <1>5, <1>6, <3>1, <3>2, <3>3, <3>4 DEF Good
    <3>6. ShownIds' = ShownIds \cup {m}
      <4>1. ASSUME NEW x
            PROVE  x \in ShownIds' <=> x \in ShownIds \/ x = m
        <5>1. Len(history) + 1 \in DOMAIN history' /\ history'[Len(history) + 1].id = m
          BY <1>6, <3>1, <3>2
        <5>2. \A k \in DOMAIN history : k \in DOMAIN history' /\ history'[k] = history[k]
          BY <3>2
        <5>3. \A k \in DOMAIN history' : k \in DOMAIN history \/ k = Len(history) + 1
          BY <3>2
        <5> QED
          BY <5>1, <5>2, <5>3 DEF ShownIds
      <4> QED
        BY <4>1
    <3> QED
      BY <3>5, <3>6
  <2> QED
    BY <2>1, <2>2
<1>11. ShownInv'
  BY <1>3, <1>10 DEF ChatInv, ShownInv
<1>12. FoundInv'
  <2>1. \A x : Coming(x) => Coming(x)' \/ x = m
    BY <1>3, <1>4, EventFacts DEF Coming
  <2>2. \A x : Found(x) => Found(x)'
    BY <1>3, <1>10, <2>1 DEF Found
  <2> QED
    BY <1>3, <2>2, FoundKept
<1>13. TickInv'
  BY <1>3, <1>4 DEF ChatInv, TickInv, By
<1>14. SeenInv'
  BY <1>3 DEF SeenInv
<1> QED
  BY <1>8, <1>9, <1>11, <1>12, <1>13, <1>14 DEF ChatInv

LEMMA MessagesReadKeeps ==
  ASSUME ChatInv, MessagesRead
  PROVE  ChatInv'
<1>1. ChatTypes
  BY ChatFacts
<1>2. /\ inbox # << >> /\ Head(inbox).kind = "read"
      /\ inbox' = Tail(inbox)
      /\ history' = [k \in DOMAIN history |->
                       [history[k] EXCEPT !.ticked = @ \/ author[history[k].id] = "me"]]
      /\ UNCHANGED <<author, phase, stored, read, noted, joined, toServer, open, loaded,
                     loads, awaited, asked, untold, missed, ahead, turns, unmarked>>
  BY DEF MessagesRead, server
<1>3. inbox' \in Seq(Event) /\ Elements(inbox) = Elements(inbox') \cup {ReadEvent}
  BY <1>1, <1>2, ElementsTail, EventFacts DEF ChatTypes
<1>4. ASSUME NEW k \in DOMAIN history
      PROVE  /\ history'[k] \in Shown
             /\ history'[k].id = history[k].id
             /\ history'[k].ticked => history[k].ticked \/ author[history[k].id] = "me"
  <2>1. history[k] \in Shown
    BY <1>1 DEF ChatTypes
  <2> QED
    BY <1>2, <2>1 DEF Shown
<1>5. DOMAIN history' = DOMAIN history /\ history' \in Seq(Shown)
  <2>1. DOMAIN history = 1..Len(history) /\ Len(history) \in Nat
    BY <1>1 DEF ChatTypes
  <2>2. history' = [k \in 1..Len(history) |-> history'[k]]
    BY <1>2, <2>1
  <2>3. history' \in [1..Len(history) -> Shown]
    BY <1>4, <2>1, <2>2
  <2> QED
    BY <2>1, <2>3
<1>6. ChatTypes'
  BY <1>1, <1>2, <1>3, <1>5 DEF ChatTypes
<1>7. \A x : New(x) \in Elements(inbox') <=> New(x) \in Elements(inbox)
  BY <1>3, EventFacts
<1>8. StoredInv'
  BY <1>2, <1>7 DEF ChatInv, StoredInv
<1>9. By("me") \subseteq read \cup ahead
  BY <1>3 DEF ChatInv, TickInv
<1>10. ShownInv'
  <2>1. Good(history, Elements(stored), read \cup ahead, author)
    BY DEF ChatInv, ShownInv
  <2>2. Good(history', Elements(stored), read \cup ahead, author)
    BY <1>4, <1>5, <1>9, <2>1 DEF Good, By
  <2> QED
    BY <1>2, <2>2 DEF ChatInv, ShownInv
<1>11. ShownIds' = ShownIds
  BY <1>4, <1>5 DEF ShownIds
<1>12. FoundInv'
  <2>1. \A x : Found(x) => Found(x)'
    BY <1>2, <1>7, <1>11 DEF Found, Coming
  <2> QED
    BY <1>2, <2>1, FoundKept
<1>13. TickInv'
  BY <1>2, <1>9 DEF TickInv, By
<1>14. SeenInv'
  BY <1>2, <1>7 DEF ChatInv, SeenInv, By, Coming
<1> QED
  BY <1>6, <1>8, <1>10, <1>12, <1>13, <1>14 DEF ChatInv

-----------------------------------------------------------------------------
LEMMA ChatInitHolds == ChatInit => ChatInv
<1> SUFFICES ASSUME ChatInit
             PROVE  ChatInv
  OBVIOUS
<1>1. ChatTypes
  <2>1. Len(<< >>) = 0 /\ 0 <= MaxMessages /\ 0 \in 0..MaxTurns /\ \A S : << >> \in Seq(S)
    BY ChatAssumptions
  <2> QED
    BY <2>1 DEF ChatInit, ChatTypes
<1>2. Elements(stored) = {} /\ Elements(inbox) = {}
  BY NoElements DEF ChatInit
<1>3. StoredInv /\ ShownInv /\ FoundInv /\ TickInv /\ SeenInv
  BY <1>2 DEF ChatInit, StoredInv, ShownInv, FoundInv, TickInv, SeenInv, Good
<1> QED
  BY <1>1, <1>3 DEF ChatInv

LEMMA ChatNextKeeps == ChatInv /\ [ChatNext]_chatVars => ChatInv'
<1> SUFFICES ASSUME ChatInv, [ChatNext]_chatVars
             PROVE  ChatInv'
  OBVIOUS
<1>1. ASSUME NEW m \in DOMAIN author, Store(m) \/ EmitNew(m) \/ EmitFails(m) \/ Answered(m)
      PROVE  ChatInv'
  BY <1>1, StoreKeeps, EmitNewKeeps, AnsweredKeeps
<1>2. ASSUME NEW who \in {"me", "friend"}, Send(who)
      PROVE  ChatInv'
  BY <1>2, SendKeepsChat
<1>3. ASSUME NEW i \in DOMAIN loads, ReadHistory(i) \/ HistoryLoaded(i)
      PROVE  ChatInv'
  BY <1>3, ReadHistoryKeeps, HistoryLoadedKeeps
<1>4. ASSUME OpenChat \/ StatusChange \/ CloseChat \/ CloseModal
      PROVE  ChatInv'
  BY <1>4, EnterKeeps, CloseKeeps
<1>5. ASSUME MarkAsRead \/ MarkFails \/ FriendReads \/ EmitRead \/ EmitReadFails
      PROVE  ChatInv'
  BY <1>5, ReadingKeeps
<1>6. ASSUME JoinOrLeave \/ NewMessage \/ MessagesRead \/ Drop
      PROVE  ChatInv'
  BY <1>6, JoinOrLeaveKeeps, NewMessageKeeps, MessagesReadKeeps, DropKeeps
<1>7. CASE UNCHANGED chatVars
  BY <1>7 DEF chatVars, server, wire, page, ChatInv, ChatTypes, StoredInv, ShownInv, FoundInv,
     TickInv, SeenInv, By, Found, Coming, ShownIds
<1> QED
  BY <1>1, <1>2, <1>3, <1>4, <1>5, <1>6, <1>7 DEF ChatNext

LEMMA ChatInvariance == ChatSpec => []ChatInv
<1> QED
  BY ChatInitHolds, ChatNextKeeps, PTL DEF ChatSpec

(* The type invariant of the chat: in particular every stored message is   *)
(* one that was sent, and what a load answers is a list the page may show. *)
THEOREM ChatTypeCorrect == ChatSpec => []ChatTypeOK
<1>1. ChatInv => ChatTypeOK
  <2> SUFFICES ASSUME ChatInv
               PROVE  ChatTypeOK
    OBVIOUS
  <2>1. ChatTypes /\ DOMAIN phase = DOMAIN author /\ Elements(stored) \subseteq DOMAIN author
    BY ChatFacts
  <2>2. /\ Elements(author) \subseteq {"me", "friend"}
        /\ Elements(phase) \subseteq {"posted", "stored", "over"}
        /\ Elements(toServer) \subseteq {"join", "leave"}
        /\ Elements(inbox) \subseteq Event
        /\ Elements(history) \subseteq Shown
    BY <2>1, ElementsType DEF ChatTypes
  <2>3. ASSUME NEW i \in DOMAIN loads
        PROVE  loads[i].step \in {"asked", "read"} /\ Elements(loads[i].list) \subseteq Shown
    <3>1. loads[i] \in Load
      BY <2>1 DEF ChatTypes
    <3> QED
      BY <3>1, ElementsType DEF Load
  <2> QED
    BY <2>1, <2>2, <2>3 DEF ChatTypeOK, ChatTypes
<1> QED
  BY <1>1, ChatInvariance, PTL

(* No message is in the list of the page twice: the server stores each     *)
(* once, so that the answer of a load (which replaces the list) has it     *)
(* once, handleNewMessage adds only an id that is not in the list, and     *)
(* appendOptimisticMessage adds only to an empty one.                      *)
THEOREM NoneTwiceProved == ChatSpec => []NoneTwice
<1>1. ChatInv => NoneTwice
  BY DEF ChatInv, ShownInv, Good, NoneTwice
<1> QED
  BY <1>1, ChatInvariance, PTL

(* Once a load was answered, every stored message is shown, or its event   *)
(* is still to come, or it is one that the page is known to miss: the      *)
(* event found no socket in the room or was never sent (sendMessage        *)
(* stopped after the message was created), or the answer to a load took it *)
(* away. For what a load has read, the invariant says so of its answer     *)
(* before it comes.                                                        *)
THEOREM NothingElseMissedProved == ChatSpec => []NothingElseMissed
<1>1. ChatInv => NothingElseMissed
  BY DEF ChatInv, FoundInv, Found, NothingElseMissed
<1> QED
  BY <1>1, ChatInvariance, PTL

(* A tick (handleMessagesRead, or readBy in a load) is only on messages of *)
(* one's own that the friend has read, or that were stored while the event *)
(* of an earlier update was on its way: as long as one is, all else that   *)
(* is stored was read by it.                                               *)
THEOREM TicksAreTrueProved == ChatSpec => []TicksAreTrue
<1>1. ChatInv => TicksAreTrue
  BY DEF ChatInv, ShownInv, Good, TicksAreTrue
<1> QED
  BY <1>1, ChatInvariance, PTL

(* A message of the friend that the open page shows was marked as read, or *)
(* a request to mark is under way, or an event that leads to one is still  *)
(* to come, unless the last request failed (the page ignores that) or the  *)
(* page was never told of the message. It holds of all that is stored,     *)
(* shown or not.                                                           *)
THEOREM ShownIsReadProved == ChatSpec => []ShownIsRead
<1>1. ChatInv => ShownIsRead
  BY DEF ChatInv, ShownInv, Good, ShownIds, SeenInv, By, ShownIsRead
<1> QED
  BY <1>1, ChatInvariance, PTL

=============================================================================
