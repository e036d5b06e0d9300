-------------------------- MODULE Realtime_proofs --------------------------
(***************************************************************************)
(* Theorems about Realtime and DirectCall, for any number of accounts,     *)
(* connections, rooms and calls and any limit of participants.             *)
(*                                                                         *)
(* The registry of the calls in rooms: four invariants are inductive       *)
(* together.  An action changes the entry of one account in one call, or   *)
(* takes one account out of calls, so each is proved from two lemmas about *)
(* what that does to the registry.                                         *)
(*                                                                         *)
(* The calls between two accounts (second part) share the socket server    *)
(* with it and no state.  What makes their invariant inductive is above    *)
(* all who placed a call: see NumbersInv and Sound.                        *)
(***************************************************************************)
EXTENDS Realtime, DirectCall, Integers, FiniteSetTheorems, TLAPS

Inv == TypeOK /\ CapKept /\ NoEmptyCall /\ EntryAccountedFor

LEMMA PeersFinite ==
  \A r : IsFiniteSet(Peers(r)) /\ Cardinality(Peers(r)) \in Nat
<1> SUFFICES ASSUME NEW r
             PROVE  IsFiniteSet(Peers(r)) /\ Cardinality(Peers(r)) \in Nat
  OBVIOUS
<1>1. Peers(r) \subseteq User
  BY DEF Peers
<1> QED
  BY <1>1, Assumptions, FS_Subset, FS_CardinalityType

(* A registry in which every call's participants were participants before, *)
(* with the same connections, keeps the cap.                               *)
LEMMA FewerPeers ==
  ASSUME Inv, entry' \in [Room -> [User -> Socket \cup {NoSocket}]],
         \A r \in Room, u \in User :
           entry'[r][u] \in {entry[r][u], NoSocket}
  PROVE  CapKept'
<1> SUFFICES ASSUME NEW r \in Room
             PROVE  Cardinality(Peers(r)') <= MaxPeers
  BY DEF CapKept
<1>1. Peers(r)' \subseteq Peers(r)
  BY DEF Peers
<1>2. /\ Cardinality(Peers(r)') <= Cardinality(Peers(r))
      /\ Cardinality(Peers(r)') \in Nat
      /\ Cardinality(Peers(r)) \in Nat
  BY <1>1, PeersFinite, FS_Subset, FS_CardinalityType
<1>3. Cardinality(Peers(r)) <= MaxPeers /\ MaxPeers \in Nat
  BY Assumptions DEF Inv, CapKept
<1> QED
  BY <1>2, <1>3

(* One account taken out of the calls of R.                                *)
LEMMA RemovedFacts ==
  ASSUME Inv, NEW R, R \subseteq Room, NEW u \in User,
         entry' = Removed(R, u), open' = Remaining(R, u)
  PROVE  /\ entry' \in [Room -> [User -> Socket \cup {NoSocket}]]
         /\ \A r \in Room, v \in User :
              entry'[r][v] = IF r \in R /\ v = u THEN NoSocket ELSE entry[r][v]
         /\ open' \subseteq Room
         /\ CapKept'
         /\ NoEmptyCall'
<1>1. /\ entry \in [Room -> [User -> Socket \cup {NoSocket}]]
      /\ open \subseteq Room
      /\ open = {r \in Room : Peers(r) # {}}
  BY DEF Inv, TypeOK, NoEmptyCall
<1>2. entry' \in [Room -> [User -> Socket \cup {NoSocket}]]
  BY <1>1 DEF Removed
<1>3. \A r \in Room, v \in User :
        entry'[r][v] = IF r \in R /\ v = u THEN NoSocket ELSE entry[r][v]
  BY <1>1 DEF Removed
<1>4. CapKept'
  BY <1>2, <1>3, FewerPeers
<1>5. open' \subseteq Room
  BY <1>1 DEF Remaining
<1>6. NoEmptyCall'
  <2>1. \A r \in Room : Peers(r)' = IF r \in R THEN Peers(r) \ {u} ELSE Peers(r)
    BY <1>3 DEF Peers
  <2>2. \A r \in Room : r \in open' <=> Peers(r)' # {}
    BY <1>1, <2>1 DEF Remaining
  <2> QED
    BY <1>5, <2>2 DEF NoEmptyCall
<1> QED
  BY <1>2, <1>3, <1>4, <1>5, <1>6

(* The registry is not touched.                                            *)
LEMMA RegistryKept ==
  ASSUME Inv, UNCHANGED <<open, entry>>
  PROVE  CapKept' /\ NoEmptyCall'
BY DEF Inv, CapKept, NoEmptyCall, Peers

LEMMA InitHolds == Init => Inv
<1> SUFFICES ASSUME Init PROVE Inv
  OBVIOUS
<1>1. TypeOK
  BY DEF Init, TypeOK, Phase
<1>2. \A r \in Room : Peers(r) = {}
  BY DEF Init, Peers
<1>3. CapKept
  BY <1>2, FS_EmptySet, Assumptions DEF CapKept
<1>4. NoEmptyCall /\ EntryAccountedFor
  BY <1>2 DEF Init, NoEmptyCall, EntryAccountedFor
<1> QED
  BY <1>1, <1>3, <1>4 DEF Inv

(* The steps in which a connection opens: no entry is its own yet.         *)
LEMMA OpeningKeeps ==
  ASSUME Inv, NEW s \in Socket,
         Connect(s) \/ OnlineWrite(s) \/ Register(s) \/ DropEarly(s)
  PROVE  Inv'
<1>1. UserOf[s] \in User
  BY Assumptions
<1>2. /\ UNCHANGED <<open, entry>>
      /\ phase[s] \in {"new", "greeted", "online"}
      /\ \E p \in Phase : phase' = [phase EXCEPT ![s] = p]
      /\ online' \in [User -> BOOLEAN]
  BY <1>1 DEF Connect, OnlineWrite, Register, DropEarly, GoTo, Phase, Inv, TypeOK
<1>3. TypeOK'
  BY <1>2 DEF Inv, TypeOK
<1>4. \A q \in Socket : q # s => phase'[q] = phase[q]
  BY <1>2 DEF Inv, TypeOK
<1>5. EntryAccountedFor'
  BY <1>2, <1>4 DEF Inv, TypeOK, EntryAccountedFor
<1> QED
  BY <1>2, <1>3, <1>5, RegistryKept DEF Inv

(* A participant more, or one with another connection.                     *)
LEMMA JoinVideoKeeps ==
  ASSUME Inv, NEW s \in Socket, NEW r \in Room, JoinVideo(s, r)
  PROVE  Inv'
<1> DEFINE u == UserOf[s]
<1>1. /\ phase[s] = "ready"
      /\ ~Full(r, u)
      /\ open' = open \cup {r}
      /\ entry' = [entry EXCEPT ![r][u] = s]
      /\ UNCHANGED <<phase, online>>
  BY DEF JoinVideo
<1>2. u \in User /\ NoSocket \notin Socket
  BY Assumptions
<1>3. /\ entry \in [Room -> [User -> Socket \cup {NoSocket}]]
      /\ open \subseteq Room
  BY DEF Inv, TypeOK
<1>4. entry' \in [Room -> [User -> Socket \cup {NoSocket}]]
  BY <1>1, <1>2, <1>3
<1>5. \A q \in Room, v \in User :
        entry'[q][v] = IF q = r /\ v = u THEN s ELSE entry[q][v]
  BY <1>1, <1>2, <1>3
<1>6. TypeOK'
  BY <1>1, <1>3, <1>4 DEF Inv, TypeOK
<1>7. EntryAccountedFor'
  BY <1>1, <1>5 DEF Inv, EntryAccountedFor
<1>8. \A q \in Room : Peers(q)' = IF q = r THEN Peers(q) \cup {u} ELSE Peers(q)
  BY <1>2, <1>5 DEF Peers
<1>9. NoEmptyCall'
  BY <1>1, <1>3, <1>8 DEF Inv, NoEmptyCall
<1>10. CapKept'
  <2> SUFFICES ASSUME NEW q \in Room
               PROVE  Cardinality(Peers(q)') <= MaxPeers
    BY DEF CapKept
  <2>1. /\ Cardinality(Peers(q)) <= MaxPeers
        /\ Cardinality(Peers(q)) \in Nat
        /\ MaxPeers \in Nat
    BY PeersFinite, Assumptions DEF Inv, CapKept
  <2>2. CASE q # r \/ u \in Peers(r)
    <3>1. Peers(q)' = Peers(q)
      BY <1>8, <2>2
    <3> QED
      BY <2>1, <3>1
  <2>3. CASE q = r /\ u \notin Peers(r)
    <3>1. entry[r][u] = NoSocket
      BY <1>2, <2>3 DEF Peers
    <3>2. Cardinality(Peers(q)) < MaxPeers
      BY <1>1, <2>1, <2>3, <3>1 DEF Full
    <3>3. Cardinality(Peers(q) \cup {u}) = Cardinality(Peers(q)) + 1
      BY <2>3, PeersFinite, FS_AddElement
    <3>4. Peers(q)' = Peers(q) \cup {u}
      BY <1>8, <2>3
    <3> QED
      BY <2>1, <3>2, <3>3, <3>4
  <2> QED
    BY <2>2, <2>3
<1> QED
  BY <1>6, <1>7, <1>9, <1>10 DEF Inv

LEMMA LeaveVideoKeeps ==
  ASSUME Inv, NEW s \in Socket, NEW r \in Room, LeaveVideo(s, r)
  PROVE  Inv'
<1>1. /\ entry' = Removed({r}, UserOf[s])
      /\ open' = Remaining({r}, UserOf[s])
      /\ UNCHANGED <<phase, online>>
      /\ UserOf[s] \in User
      /\ {r} \subseteq Room
  BY Assumptions DEF LeaveVideo
<1>2. /\ entry' \in [Room -> [User -> Socket \cup {NoSocket}]]
      /\ \A q \in Room, v \in User :
           entry'[q][v] = IF q \in {r} /\ v = UserOf[s] THEN NoSocket
                                                       ELSE entry[q][v]
      /\ open' \subseteq Room
      /\ CapKept'
      /\ NoEmptyCall'
  BY <1>1, RemovedFacts
<1>3. TypeOK'
  BY <1>1, <1>2 DEF Inv, TypeOK
<1>4. EntryAccountedFor'
  <2>1. \A q \in Room, v \in User :
          entry'[q][v] # NoSocket => entry'[q][v] = entry[q][v]
    BY <1>2
  <2>2. phase' = phase
    BY <1>1
  <2> QED
    BY <2>1, <2>2 DEF Inv, EntryAccountedFor
<1> QED
  BY <1>2, <1>3, <1>4 DEF Inv

(* The account's connection s closes for good, and the account is out of   *)
(* every call: an entry of another account is not s.                       *)
LEMMA CleanUpKeeps ==
  ASSUME Inv, NEW s \in Socket, CleanUp(s), UNCHANGED online
  PROVE  Inv'
<1>1. /\ entry' = Removed(Room, UserOf[s])
      /\ open' = Remaining(Room, UserOf[s])
      /\ phase' = [phase EXCEPT ![s] = "closed"]
      /\ UserOf[s] \in User
  BY Assumptions DEF CleanUp, GoTo
<1>2. /\ entry' \in [Room -> [User -> Socket \cup {NoSocket}]]
      /\ \A q \in Room, v \in User :
           entry'[q][v] = IF q \in Room /\ v = UserOf[s] THEN NoSocket
                                                        ELSE entry[q][v]
      /\ open' \subseteq Room
      /\ CapKept'
      /\ NoEmptyCall'
  BY <1>1, RemovedFacts
<1>3. TypeOK'
  BY <1>1, <1>2 DEF Inv, TypeOK, Phase
<1>4. \A q \in Socket : q # s => phase'[q] = phase[q]
  BY <1>1 DEF Inv, TypeOK
<1>5. EntryAccountedFor'
  <2> SUFFICES ASSUME NEW q \in Room, NEW v \in User, entry'[q][v] # NoSocket
               PROVE  /\ UserOf[entry'[q][v]] = v
                      /\ phase'[entry'[q][v]] \in {"ready", "leaving", "offline"}
    BY DEF EntryAccountedFor
  <2>1. v # UserOf[s] /\ entry'[q][v] = entry[q][v]
    BY <1>2
  <2>2. /\ entry[q][v] \in Socket
        /\ UserOf[entry[q][v]] = v
        /\ phase[entry[q][v]] \in {"ready", "leaving", "offline"}
    BY <2>1 DEF Inv, TypeOK, EntryAccountedFor
  <2> QED
    BY <1>4, <2>1, <2>2
<1> QED
  BY <1>2, <1>3, <1>5 DEF Inv

LEMMA ClosingKeeps ==
  ASSUME Inv, NEW s \in Socket,
         Disconnect(s) \/ OfflineWrite(s) \/ DisconnectEnds(s)
  PROVE  Inv'
<1>1. CASE CleanUp(s) /\ UNCHANGED online
  BY <1>1, CleanUpKeeps
<1>2. CASE (Disconnect(s) /\ ~CleanUp(s)) \/ OfflineWrite(s)
  <2>1. /\ UNCHANGED <<open, entry>>
        /\ \E p \in {"leaving", "offline"} : phase' = [phase EXCEPT ![s] = p]
        /\ online' \in [User -> BOOLEAN]
    BY <1>2, Assumptions DEF Disconnect, OfflineWrite, GoTo, Inv, TypeOK
  <2>2. TypeOK'
    BY <2>1 DEF Inv, TypeOK, Phase
  <2>3. /\ phase'[s] \in {"leaving", "offline"}
        /\ \A q \in Socket : q # s => phase'[q] = phase[q]
    BY <2>1 DEF Inv, TypeOK
  <2>4. EntryAccountedFor'
    BY <2>1, <2>3 DEF Inv, TypeOK, EntryAccountedFor
  <2> QED
    BY <2>1, <2>2, <2>4, RegistryKept DEF Inv
<1> QED
  BY <1>1, <1>2 DEF Disconnect, DisconnectEnds

LEMMA RestartKeeps ==
  ASSUME Inv, Restart
  PROVE  Inv'
<1>1. TypeOK'
  BY DEF Inv, TypeOK, Restart, Phase
<1>2. \A r \in Room, u \in User : entry'[r][u] = NoSocket
  BY DEF Restart
<1>3. CapKept'
  BY <1>1, <1>2, FewerPeers DEF TypeOK
<1>4. NoEmptyCall' /\ EntryAccountedFor'
  BY <1>2 DEF Restart, NoEmptyCall, EntryAccountedFor, Peers
<1> QED
  BY <1>1, <1>3, <1>4 DEF Inv

LEMMA NextKeeps == Inv /\ [Next]_vars => Inv'
<1> SUFFICES ASSUME Inv, [Next]_vars PROVE Inv'
  OBVIOUS
<1>1. CASE Restart
  BY <1>1, RestartKeeps
<1>2. ASSUME NEW s \in Socket, Client(s) PROVE Inv'
  BY <1>2, OpeningKeeps, JoinVideoKeeps, LeaveVideoKeeps, ClosingKeeps DEF Client
<1>3. ASSUME NEW s \in Socket, Continue(s) PROVE Inv'
  BY <1>3, OpeningKeeps, ClosingKeeps DEF Continue
<1>4. CASE UNCHANGED vars
  BY <1>4, RegistryKept DEF vars, Inv, TypeOK, EntryAccountedFor
<1> QED
  BY <1>1, <1>2, <1>3, <1>4 DEF Next

THEOREM Invariance == Spec => []Inv
BY InitHolds, NextKeeps, PTL DEF Spec

(* Type correctness (the connections, isOnline and the registry).          *)
THEOREM TypeCorrect == Spec => []TypeOK
<1>1. Inv => TypeOK
  BY DEF Inv
<1> QED
  BY <1>1, Invariance, PTL

(* The mesh never has more participants than its cap ("room:video:join").  *)
THEOREM CapKeptProved == Spec => []CapKept
<1>1. Inv => CapKept
  BY DEF Inv
<1> QED
  BY <1>1, Invariance, PTL

(* No empty call stays in the registry (the leave and disconnect handlers).*)
THEOREM NoEmptyCallProved == Spec => []NoEmptyCall
<1>1. Inv => NoEmptyCall
  BY DEF Inv
<1> QED
  BY <1>1, Invariance, PTL

(* Every entry is its account's, and somebody will clean up after it.      *)
THEOREM EntryAccountedForProved == Spec => []EntryAccountedFor
<1>1. Inv => EntryAccountedFor
  BY DEF Inv
<1> QED
  BY <1>1, Invariance, PTL

-----------------------------------------------------------------------------
(* Calls between two accounts.                                             *)

(* What a queue holds, and a candidate that is on its way to u or was lost.*)
Holds(q, m) == \E i \in DOMAIN q : q[i] = m

CandidateOf(c) == [kind |-> "candidate", conn |-> c]

Coming(c, u) == c \in lost \/ \E v \in Account : Holds(net[v][u], CandidateOf(c))

(* A queue from v to u: offers come from another page, and a description   *)
(* has its candidate right behind it.                                      *)
Proper(q, v, u) ==
  /\ q \in Seq(Message)
  /\ \A i \in DOMAIN q :
       /\ q[i].kind = "request" => q[i].conn[1] = v /\ u # v
       /\ q[i].kind \in {"request", "accept"} =>
            /\ i + 1 \in DOMAIN q
            /\ q[i + 1] = CandidateOf(q[i].conn)
       /\ q[i].kind \in {"request", "accept", "candidate"} => q[i].conn # None

Shaped(j, u, s) ==
  /\ j \in Job
  /\ j.op = "none" => j = NoJob
  /\ j.op = "call" => j.step \in {"media", "describe"}
  /\ j.op = "accept" => j.step \in {"media", "describe", "drain"}
  /\ j.op # "none" => /\ j.conn \in Conn /\ j.conn[1] = u /\ j.conn[3] = s
                      /\ j.to \in Account \ {u}
  /\ j.step \in {"describe", "drain"} /\ j.op = "accept" => j.offer # None

(* Nothing, or a connection of u.                                          *)
OwnOrNone(u) == {c \in Conn : c[1] = u} \cup {None}

CallTypes ==
  /\ ui \in [Account -> Ui]
  /\ seen \in [Account -> Ui]
  /\ \A u \in Account : {ui[u].stream, seen[u].stream, pc[u]} \subseteq OwnOrNone(u)
  /\ offer \in [Account -> Conn \cup {None}]
  /\ early \in [Account -> SUBSET Conn]
  /\ pc \in [Account -> Conn \cup {None}]
  /\ conn \in [Conn -> Connection]
  /\ live \subseteq Conn
  /\ job \in [Account -> [Slot -> Job]]
  /\ \A u \in Account, s \in Slot : Shaped(job[u][s], u, s)
  /\ net \in [Account -> [Account -> Seq(Message)]]
  /\ \A v, u \in Account : Proper(net[v][u], v, u)
  /\ calls \in 0..MaxCalls
  /\ faults \in 0..MaxFaults /\ lost \subseteq Conn
  /\ cut \subseteq Account

(* Who placed call n, by what is left of it: an offer that is held or on   *)
(* its way, a flow that accepts it, or an answer on its way.               *)
Placed(n, w) ==
  \/ \E u \in Account : offer[u] # None /\ offer[u][2] = n /\ offer[u][1] = w
  \/ \E v, u \in Account : \E m \in Message :
       /\ Holds(net[v][u], m)
       /\ m.conn # None /\ m.conn[2] = n
       /\ \/ m.kind = "request" /\ v = w
          \/ m.kind = "accept" /\ u = w
  \/ \E u \in Account : \E s \in Slot :
       job[u][s].op = "accept" /\ job[u][s].conn[2] = n /\ job[u][s].to = w

Placing(u, s, n) == job[u][s].op = "call" /\ job[u][s].conn[2] = n

(* A call is placed once, and nothing is left of one before it is offered. *)
NumbersInv ==
  /\ \A n \in Call : \A w, x \in Account : Placed(n, w) /\ Placed(n, x) => w = x
  /\ \A n \in Call : \A w \in Account : Placed(n, w) => n <= calls
  /\ \A u \in Account, s \in Slot, n \in Call : Placing(u, s, n) =>
       /\ n <= calls
       /\ \A w \in Account : ~Placed(n, w)
       /\ \A v \in Account, t \in Slot : Placing(v, t, n) => v = u /\ t = s

(* The page that rings shows the page whose offer it holds.                *)
Rings(u) ==
  offer[u] # None =>
    /\ offer[u][1] # u
    /\ seen[u].state = "incoming" => seen[u].remote = offer[u][1]
    /\ ui[u].state = "incoming" => ui[u].remote = offer[u][1]

Lights(u) == {c \in live : c[1] = u}

Off(u) == pc[u] = None /\ ui[u].stream = None /\ Lights(u) = {}

On(u, c) ==
  /\ c # None /\ pc[u] = c /\ ui[u].stream = c /\ Lights(u) \subseteq {c}
  /\ conn[c].open /\ conn[c].to = ui[u].remote

(* What a flow of a page that was not overtaken goes by.                   *)
InStep(u, j) ==
  /\ ui[u].remote = j.to
  /\ ui[u].state = IF j.op = "call" THEN "outgoing" ELSE "incoming"
  /\ j.op = "accept" => offer[u] # None
  /\ j.step = "media" => Off(u)
  /\ j.step \in {"describe", "drain"} => On(u, j.conn)
  /\ j.step = "describe" => conn[j.conn].far = None /\ ~conn[j.conn].told
  /\ j.step = "describe" /\ j.op = "accept" => j.offer = offer[u]
  /\ j.step = "drain" => conn[j.conn].told /\ conn[j.conn].far # None

(* A page that was not overtaken.                                          *)
Sound(u) ==
  /\ \A s, t \in Slot : job[u][s] # NoJob /\ job[u][t] # NoJob => s = t
  /\ ~Working(u) /\ ui[u].state \in {"idle", "incoming"} => Off(u)
  /\ ~Working(u) /\ ui[u].state \in {"outgoing", "active"} =>
       /\ On(u, pc[u])
       /\ conn[pc[u]].told
       /\ ui[u].state = "active" => conn[pc[u]].far # None
  /\ \A s \in Slot : job[u][s] # NoJob => InStep(u, job[u][s])

(* The candidate of an offer that rings, and of the other end of the       *)
(* connection.                                                             *)
Keeps(u) ==
  /\ ui[u].state = "incoming" /\ offer[u] # None /\ (pc[u] # None => conn[pc[u]].far = None)
       => offer[u] \in early[u] \/ Coming(offer[u], u)
  /\ pc[u] # None /\ conn[pc[u]].far # None =>
       \/ conn[pc[u]].far \in conn[pc[u]].has \cup early[u]
       \/ Coming(conn[pc[u]].far, u)

CallInv ==
  /\ CallTypes
  /\ NumbersInv
  /\ \A u \in Account : Rings(u)
  /\ \A u \in Account \ cut : Sound(u) /\ Keeps(u)

-----------------------------------------------------------------------------
(* Queues.                                                                 *)
LEMMA QueueTail ==
  ASSUME NEW v, NEW u, NEW q, Proper(q, v, u), q # << >>
  PROVE  /\ Proper(Tail(q), v, u)
         /\ Head(q) \in Message /\ Holds(q, Head(q))
         /\ \A m : Holds(Tail(q), m) => Holds(q, m)
         /\ \A m : Holds(q, m) => m = Head(q) \/ Holds(Tail(q), m)
         /\ Head(q).kind = "request" => Head(q).conn[1] = v /\ u # v
         /\ Head(q).kind \in {"request", "accept", "candidate"} => Head(q).conn # None
         /\ Head(q).kind \in {"request", "accept"} => Holds(Tail(q), CandidateOf(Head(q).conn))
<1>1. q \in Seq(Message)
  BY DEF Proper
<1>2. /\ DOMAIN q = 1..Len(q) /\ Len(q) \in Nat /\ Len(q) > 0
      /\ Tail(q) \in Seq(Message)
      /\ DOMAIN Tail(q) = 1..(Len(q) - 1)
      /\ \A i \in 1..(Len(q) - 1) : Tail(q)[i] = q[i + 1]
      /\ Head(q) = q[1] /\ q[1] \in Message /\ 1 \in DOMAIN q
  BY <1>1
<1>3. ASSUME NEW i \in DOMAIN Tail(q)
      PROVE  i + 1 \in DOMAIN q /\ Tail(q)[i] = q[i + 1]
  BY <1>2
<1>4. Proper(Tail(q), v, u)
  <2> SUFFICES ASSUME NEW i \in DOMAIN Tail(q)
               PROVE  LET p == Tail(q) IN
                      /\ p[i].kind = "request" => p[i].conn[1] = v /\ u # v
                      /\ p[i].kind \in {"request", "accept"} =>
                           /\ i + 1 \in DOMAIN p
                           /\ p[i + 1] = CandidateOf(p[i].conn)
                      /\ p[i].kind \in {"request", "accept", "candidate"} => p[i].conn # None
    BY <1>2 DEF Proper
  <2>1. i + 1 \in DOMAIN q /\ Tail(q)[i] = q[i + 1] /\ i \in Nat
    BY <1>2, <1>3
  <2>2. ASSUME i + 2 \in DOMAIN q
        PROVE  i + 1 \in DOMAIN Tail(q) /\ Tail(q)[i + 1] = q[i + 2]
    BY <1>2, <2>1, <2>2
  <2>3. i + 1 + 1 = i + 2
    BY <2>1
  <2>4. /\ q[i + 1].kind = "request" => q[i + 1].conn[1] = v /\ u # v
        /\ q[i + 1].kind \in {"request", "accept"} =>
             /\ i + 2 \in DOMAIN q
             /\ q[i + 2] = CandidateOf(q[i + 1].conn)
        /\ q[i + 1].kind \in {"request", "accept", "candidate"} => q[i + 1].conn # None
    BY <2>1, <2>3 DEF Proper
  <2> QED
    BY <2>1, <2>2, <2>4
<1>5. \A m : Holds(Tail(q), m) => Holds(q, m)
  BY <1>3 DEF Holds
<1>6. \A m : Holds(q, m) => m = Head(q) \/ Holds(Tail(q), m)
  <2> SUFFICES ASSUME NEW m, NEW i \in DOMAIN q, q[i] = m, i # 1
               PROVE  Holds(Tail(q), m)
    BY <1>2 DEF Holds
  <2>1. i - 1 \in DOMAIN Tail(q) /\ Tail(q)[i - 1] = m
    BY <1>2
  <2> QED
    BY <2>1 DEF Holds
<1>7. /\ Head(q).kind = "request" => Head(q).conn[1] = v /\ u # v
      /\ Head(q).kind \in {"request", "accept", "candidate"} => Head(q).conn # None
  BY <1>2 DEF Proper
<1>8. ASSUME Head(q).kind \in {"request", "accept"}
      PROVE  Holds(Tail(q), CandidateOf(Head(q).conn))
  <2>1. 1 + 1 \in DOMAIN q /\ q[1 + 1] = CandidateOf(q[1].conn)
    BY <1>2, <1>8 DEF Proper
  <2>2. 1 \in DOMAIN Tail(q) /\ Tail(q)[1] = CandidateOf(Head(q).conn)
    BY <1>2, <2>1
  <2> QED
    BY <2>2 DEF Holds
<1> QED
  BY <1>2, <1>4, <1>5, <1>6, <1>7, <1>8 DEF Holds

(* A message that ends a call.                                             *)
LEMMA QueueEnds ==
  ASSUME NEW v, NEW u, NEW q, Proper(q, v, u), NEW kind \in {"decline", "end"}
  PROVE  LET p == Append(q, [kind |-> kind, conn |-> None]) IN
         /\ Proper(p, v, u)
         /\ \A m : Holds(q, m) => Holds(p, m)
         /\ \A m : Holds(p, m) => Holds(q, m) \/ m.kind = kind
<1> DEFINE e == [kind |-> kind, conn |-> None]
           p == Append(q, e)
<1>1. q \in Seq(Message)
  BY DEF Proper
<1>2. e \in Message /\ e.kind = kind
  BY DEF Message
<1> HIDE DEF e
<1>3. /\ p \in Seq(Message)
      /\ DOMAIN q = 1..Len(q) /\ Len(q) \in Nat
      /\ DOMAIN p = 1..(Len(q) + 1)
      /\ \A i \in 1..Len(q) : p[i] = q[i]
      /\ p[Len(q) + 1] = e
  BY <1>1, <1>2
<1> HIDE DEF p
<1>4. ASSUME NEW i \in DOMAIN p
      PROVE  \/ i \in DOMAIN q /\ p[i] = q[i]
             \/ p[i] = e
  BY <1>3
<1>5. \A i \in DOMAIN q : i \in DOMAIN p /\ p[i] = q[i]
  BY <1>3
<1>6. Proper(p, v, u)
  <2> SUFFICES ASSUME NEW i \in DOMAIN p
               PROVE  /\ p[i].kind = "request" => p[i].conn[1] = v /\ u # v
                      /\ p[i].kind \in {"request", "accept"} =>
                           /\ i + 1 \in DOMAIN p
                           /\ p[i + 1] = CandidateOf(p[i].conn)
                      /\ p[i].kind \in {"request", "accept", "candidate"} => p[i].conn # None
    BY <1>3 DEF Proper
  <2>1. CASE i \in DOMAIN q /\ p[i] = q[i]
    BY <2>1, <1>5 DEF Proper
  <2>2. CASE p[i] = e
    BY <2>2, <1>2
  <2> QED
    BY <1>4, <2>1, <2>2
<1> QED
  BY <1>2, <1>4, <1>5, <1>6 DEF Holds, p, e

(* A description and its candidate.                                        *)
LEMMA QueueDescribed ==
  ASSUME NEW v, NEW u, NEW q, Proper(q, v, u), NEW kind \in {"request", "accept"},
         NEW c \in Conn, c # None, kind = "request" => c[1] = v /\ u # v
  PROVE  LET d == [kind |-> kind, conn |-> c]
             p == q \o <<d, [kind |-> "candidate", conn |-> c]>>
         IN
         /\ Proper(p, v, u)
         /\ \A m : Holds(q, m) => Holds(p, m)
         /\ \A m : Holds(p, m) => Holds(q, m) \/ m = d \/ m = CandidateOf(c)
<1> DEFINE d == [kind |-> kind, conn |-> c]
           e == [kind |-> "candidate", conn |-> c]
           p == q \o <<d, e>>
<1>1. q \in Seq(Message)
  BY DEF Proper
<1>2. /\ d \in Message /\ d.kind = kind /\ d.conn = c
      /\ e \in Message /\ e.kind = "candidate" /\ e.conn = c /\ e = CandidateOf(c)
  BY DEF Message, CandidateOf
<1> HIDE DEF d, e
<1>3. /\ p \in Seq(Message)
      /\ DOMAIN q = 1..Len(q) /\ Len(q) \in Nat
      /\ DOMAIN p = 1..(Len(q) + 2)
      /\ \A i \in 1..Len(q) : p[i] = q[i]
      /\ p[Len(q) + 1] = d
      /\ p[Len(q) + 2] = e
  BY <1>1, <1>2
<1> HIDE DEF p
<1>4. ASSUME NEW i \in DOMAIN p
      PROVE  \/ i \in DOMAIN q /\ p[i] = q[i]
             \/ i + 1 \in DOMAIN p /\ p[i] = d /\ p[i + 1] = e
             \/ p[i] = e
  <2>1. i \in 1..Len(q) \/ i = Len(q) + 1 \/ i = Len(q) + 2
    BY <1>3
  <2>2. Len(q) + 1 + 1 = Len(q) + 2 /\ Len(q) + 2 \in DOMAIN p
    BY <1>3
  <2> QED
    BY <1>3, <2>1, <2>2
<1>5. \A i \in DOMAIN q : i \in DOMAIN p /\ p[i] = q[i]
  BY <1>3
<1>6. Proper(p, v, u)
  <2> SUFFICES ASSUME NEW i \in DOMAIN p
               PROVE  /\ p[i].kind = "request" => p[i].conn[1] = v /\ u # v
                      /\ p[i].kind \in {"request", "accept"} =>
                           /\ i + 1 \in DOMAIN p
                           /\ p[i + 1] = CandidateOf(p[i].conn)
                      /\ p[i].kind \in {"request", "accept", "candidate"} => p[i].conn # None
    BY <1>3 DEF Proper
  <2>1. CASE i \in DOMAIN q /\ p[i] = q[i]
    BY <2>1, <1>5 DEF Proper
  <2>2. CASE i + 1 \in DOMAIN p /\ p[i] = d /\ p[i + 1] = e
    BY <2>2, <1>2
  <2>3. CASE p[i] = e
    BY <2>3, <1>2
  <2> QED
    BY <1>4, <2>1, <2>2, <2>3
<1> QED
  BY <1>2, <1>4, <1>5, <1>6 DEF Holds, p, d, e

-----------------------------------------------------------------------------
(* What a step of page u leaves alone.                                     *)
OnlyPage(u) ==
  \A w \in Account \ {u} :
    /\ ui'[w] = ui[w] /\ seen'[w] = seen[w] /\ offer'[w] = offer[w]
    /\ early'[w] = early[w] /\ pc'[w] = pc[w] /\ job'[w] = job[w]
    /\ w \in cut' => w \in cut
    /\ w \in cut => w \in cut'
    /\ \A c \in Conn : c[1] = w => conn'[c] = conn[c] /\ (c \in live' <=> c \in live)
    /\ \A c : Coming(c, w) => Coming(c, w)'

LEMMA OthersKeep ==
  ASSUME CallInv, NEW u \in Account, OnlyPage(u), live' \subseteq Conn
  PROVE  \A w \in Account \ {u} :
           Rings(w)' /\ (w \notin cut' => Sound(w)' /\ Keeps(w)')
<1> SUFFICES ASSUME NEW w \in Account \ {u}
             PROVE  Rings(w)' /\ (w \notin cut' => Sound(w)' /\ Keeps(w)')
  OBVIOUS
<1>1. /\ ui'[w] = ui[w] /\ seen'[w] = seen[w] /\ offer'[w] = offer[w]
      /\ early'[w] = early[w] /\ pc'[w] = pc[w] /\ job'[w] = job[w]
      /\ w \in cut' => w \in cut
      /\ w \in cut => w \in cut'
      /\ \A c \in Conn : c[1] = w => conn'[c] = conn[c] /\ (c \in live' <=> c \in live)
      /\ \A c : Coming(c, w) => Coming(c, w)'
  BY DEF OnlyPage
<1>2. Rings(w)'
  BY <1>1 DEF CallInv, Rings
<1>3. ASSUME w \notin cut'
      PROVE  Sound(w) /\ Keeps(w)
  BY <1>1, <1>3 DEF CallInv
<1>4. /\ pc[w] # None => pc[w] \in Conn /\ conn'[pc[w]] = conn[pc[w]]
      /\ \A s \in Slot : job[w][s] # NoJob =>
           job[w][s].conn \in Conn /\ conn'[job[w][s].conn] = conn[job[w][s].conn]
  <2>1. pc[w] \in OwnOrNone(w) /\ \A s \in Slot : Shaped(job[w][s], w, s)
    BY DEF CallInv, CallTypes
  <2> QED
    BY <1>1, <2>1 DEF OwnOrNone, Shaped
<1>5. Lights(w)' = Lights(w)
  <2>1. live \subseteq Conn
    BY DEF CallInv, CallTypes
  <2> QED
    BY <1>1, <2>1 DEF Lights
<1>6. Working(w)' = Working(w)
  BY <1>1 DEF Working, WorkingBut
<1>7. ASSUME w \notin cut'
      PROVE  Sound(w)'
  <2>1. Sound(w)
    BY <1>3, <1>7
  <2>2. Off(w)' = Off(w)
    BY <1>1, <1>5 DEF Off
  <2>3. \A c \in Conn : c[1] = w => (On(w, c) => On(w, c)')
    BY <1>1, <1>5 DEF On
  <2>4. On(w, pc[w]) => On(w, pc[w])'
    <3>1. pc[w] \in OwnOrNone(w)
      BY DEF CallInv, CallTypes
    <3> QED
      BY <2>3, <3>1 DEF OwnOrNone, On
  <2>5. ASSUME NEW s \in Slot, job[w][s] # NoJob
        PROVE  InStep(w, job[w][s])'
    <3>1. InStep(w, job[w][s])
      BY <2>1, <2>5 DEF Sound
    <3>2. Shaped(job[w][s], w, s)
      BY DEF CallInv, CallTypes
    <3>3. job[w][s].conn \in Conn /\ job[w][s].conn[1] = w
      BY <2>5, <3>2 DEF Shaped
    <3>4. On(w, job[w][s].conn) => On(w, job[w][s].conn)'
      BY <1>1, <2>3, <3>3
    <3> QED
      BY <1>1, <1>4, <2>2, <2>5, <3>1, <3>3, <3>4 DEF InStep
  <2>6. On(w, pc[w])' => conn'[pc[w]] = conn[pc[w]]
    BY <1>1, <1>4 DEF On
  <2>7. On(w, pc[w]) => pc[w] # None
    BY DEF On
  <2>8. \A s, t \in Slot : job[w][s] # NoJob /\ job[w][t] # NoJob => s = t
    BY <2>1 DEF Sound
  <2>9. ~Working(w) /\ ui[w].state \in {"idle", "incoming"} => Off(w)'
    BY <2>1, <2>2 DEF Sound
  <2>10. ~Working(w) /\ ui[w].state \in {"outgoing", "active"} =>
           /\ On(w, pc[w])'
           /\ conn'[pc[w]].told
           /\ ui[w].state = "active" => conn'[pc[w]].far # None
    BY <2>1, <2>4, <2>7, <1>4 DEF Sound
  <2> QED
    BY <1>1, <1>6, <2>5, <2>8, <2>9, <2>10 DEF Sound
<1>8. ASSUME w \notin cut'
      PROVE  Keeps(w)'
  <2>1. Keeps(w)
    BY <1>3, <1>8
  <2> QED
    BY <1>1, <1>4, <2>1 DEF Keeps
<1> QED
  BY <1>2, <1>7, <1>8

LEMMA PlacedShrinks ==
  ASSUME NEW n, NEW w, Placed(n, w)',
         \A u \in Account : offer'[u] # None =>
           offer'[u] = offer[u] \/ Placed(offer'[u][2], offer'[u][1]),
         \A v, u \in Account : \A m \in Message : Holds(net'[v][u], m) /\ m.conn # None =>
           \/ Holds(net[v][u], m)
           \/ m.kind = "request" /\ Placed(m.conn[2], v)
           \/ m.kind = "accept" /\ Placed(m.conn[2], u)
           \/ m.kind \notin {"request", "accept"},
         \A u \in Account, s \in Slot : job'[u][s].op = "accept" =>
           \/ /\ job[u][s].op = "accept" /\ job'[u][s].conn = job[u][s].conn
              /\ job'[u][s].to = job[u][s].to
           \/ Placed(job'[u][s].conn[2], job'[u][s].to)
  PROVE  Placed(n, w)
<1>1. CASE \E u \in Account : offer'[u] # None /\ offer'[u][2] = n /\ offer'[u][1] = w
  <2>1. PICK u \in Account : offer'[u] # None /\ offer'[u][2] = n /\ offer'[u][1] = w
    BY <1>1
  <2>2. CASE offer'[u] = offer[u]
    BY <2>1, <2>2 DEF Placed
  <2> QED
    BY <2>1, <2>2
<1>2. CASE \E v, u \in Account : \E m \in Message :
             /\ Holds(net'[v][u], m)
             /\ m.conn # None /\ m.conn[2] = n
             /\ \/ m.kind = "request" /\ v = w
                \/ m.kind = "accept" /\ u = w
  <2>1. PICK v \in Account, u \in Account, m \in Message :
             /\ Holds(net'[v][u], m)
             /\ m.conn # None /\ m.conn[2] = n
             /\ \/ m.kind = "request" /\ v = w
                \/ m.kind = "accept" /\ u = w
    BY <1>2
  <2>2. CASE Holds(net[v][u], m)
    BY <2>1, <2>2 DEF Placed
  <2> QED
    BY <2>1, <2>2
<1>3. CASE \E u \in Account : \E s \in Slot :
             job'[u][s].op = "accept" /\ job'[u][s].conn[2] = n /\ job'[u][s].to = w
  <2>1. PICK u \in Account, s \in Slot :
             job'[u][s].op = "accept" /\ job'[u][s].conn[2] = n /\ job'[u][s].to = w
    BY <1>3
  <2>2. CASE job[u][s].op = "accept" /\ job'[u][s].conn = job[u][s].conn
             /\ job'[u][s].to = job[u][s].to
    BY <2>1, <2>2 DEF Placed
  <2> QED
    BY <2>1, <2>2
<1> QED
  BY <1>1, <1>2, <1>3 DEF Placed, Holds

LEMMA NumbersKept ==
  ASSUME CallInv, calls' = calls,
         \A n \in Call : \A w \in Account : Placed(n, w)' => Placed(n, w),
         \A u \in Account, s \in Slot, n \in Call : Placing(u, s, n)' => Placing(u, s, n)
  PROVE  NumbersInv'
BY DEF CallInv, NumbersInv, Call

-----------------------------------------------------------------------------
(* The messages.                                                           *)
NetTypes ==
  /\ net \in [Account -> [Account -> Seq(Message)]]
  /\ \A v, u \in Account : Proper(net[v][u], v, u)

LEMMA EmitFacts ==
  ASSUME CallInv, NEW u \in Account, NEW v, v \in Account \cup {None},
         NEW kind \in {"decline", "end"}, Emit(u, v, kind, None)
  PROVE  /\ NetTypes'
         /\ \A x, y \in Account : \A m : Holds(net'[x][y], m) => Holds(net[x][y], m) \/ m.kind = kind
         /\ \A x, y \in Account : \A m : Holds(net[x][y], m) => Holds(net'[x][y], m)
<1>1. NetTypes
  BY DEF CallInv, CallTypes, NetTypes
<1>2. CASE v = None
  BY <1>1, <1>2 DEF Emit, NetTypes
<1>3. CASE v # None
  <2>1. v \in Account
    BY <1>3
  <2>2. PICK p : p = Append(net[u][v], [kind |-> kind, conn |-> None])
    OBVIOUS
  <2>3. /\ Proper(p, u, v)
        /\ \A m : Holds(net[u][v], m) => Holds(p, m)
        /\ \A m : Holds(p, m) => Holds(net[u][v], m) \/ m.kind = kind
    BY <1>1, <2>1, <2>2, QueueEnds DEF NetTypes
  <2>4. net' = [net EXCEPT ![u][v] = p]
    BY <1>3, <2>2 DEF Emit
  <2>5. p \in Seq(Message)
    BY <2>3 DEF Proper
  <2>6. \A x, y \in Account : net'[x][y] = IF x = u /\ y = v THEN p ELSE net[x][y]
    BY <1>1, <2>1, <2>4 DEF NetTypes
  <2>7. net' \in [Account -> [Account -> Seq(Message)]]
    BY <1>1, <2>1, <2>4, <2>5 DEF NetTypes
  <2> QED
    BY <1>1, <2>3, <2>6, <2>7 DEF NetTypes
<1> QED
  BY <1>2, <1>3

LEMMA TakenFacts ==
  ASSUME CallInv, NEW u \in Account, NEW v \in Account, net[v][u] # << >>,
         net' = Taken(v, u)
  PROVE  /\ NetTypes'
         /\ \A x, y \in Account : \A m : Holds(net'[x][y], m) => Holds(net[x][y], m)
         /\ \A x, y \in Account : \A m : Holds(net[x][y], m) =>
              Holds(net'[x][y], m) \/ (x = v /\ y = u /\ m = Head(net[v][u]))
         /\ net'[v][u] = Tail(net[v][u])
<1>1. NetTypes
  BY DEF CallInv, CallTypes, NetTypes
<1>2. PICK p : p = Tail(net[v][u])
  OBVIOUS
<1>3. /\ Proper(p, v, u)
      /\ \A m : Holds(p, m) => Holds(net[v][u], m)
      /\ \A m : Holds(net[v][u], m) => m = Head(net[v][u]) \/ Holds(p, m)
  <2>1. PICK q : q = net[v][u]
    OBVIOUS
  <2>2. Proper(q, v, u) /\ q # << >>
    BY <1>1, <2>1 DEF NetTypes
  <2>3. /\ Proper(Tail(q), v, u)
        /\ \A m : Holds(Tail(q), m) => Holds(q, m)
        /\ \A m : Holds(q, m) => m = Head(q) \/ Holds(Tail(q), m)
    BY <2>2, QueueTail
  <2> QED
    BY <1>2, <2>1, <2>3
<1>4. net' = [net EXCEPT ![v][u] = p]
  BY <1>2 DEF Taken
<1>5. p \in Seq(Message)
  BY <1>3 DEF Proper
<1>6. \A x, y \in Account : net'[x][y] = IF x = v /\ y = u THEN p ELSE net[x][y]
  BY <1>1, <1>4 DEF NetTypes
<1>7. net' \in [Account -> [Account -> Seq(Message)]]
  BY <1>1, <1>4, <1>5 DEF NetTypes
<1> QED
  BY <1>1, <1>2, <1>3, <1>6, <1>7 DEF NetTypes

LEMMA DescribedFacts ==
  ASSUME CallInv, NEW u \in Account, NEW v \in Account, NEW kind \in {"request", "accept"},
         NEW c \in Conn, c # None, c[1] = u, u # v, Described(u, v, kind, c)
  PROVE  /\ NetTypes'
         /\ \A x, y \in Account : \A m : Holds(net'[x][y], m) =>
              \/ Holds(net[x][y], m)
              \/ x = u /\ y = v /\ m = [kind |-> kind, conn |-> c]
              \/ m = CandidateOf(c)
         /\ \A x, y \in Account : \A m : Holds(net[x][y], m) => Holds(net'[x][y], m)
<1>1. NetTypes
  BY DEF CallInv, CallTypes, NetTypes
<1>2. PICK p : p = net[u][v] \o <<[kind |-> kind, conn |-> c], [kind |-> "candidate", conn |-> c]>>
  OBVIOUS
<1>3. /\ Proper(p, u, v)
      /\ \A m : Holds(net[u][v], m) => Holds(p, m)
      /\ \A m : Holds(p, m) => Holds(net[u][v], m) \/ m = [kind |-> kind, conn |-> c]
                                \/ m = CandidateOf(c)
  BY <1>1, <1>2, QueueDescribed DEF NetTypes
<1>4. net' = [net EXCEPT ![u][v] = p]
  BY <1>2 DEF Described
<1>5. p \in Seq(Message)
  BY <1>3 DEF Proper
<1>6. \A x, y \in Account : net'[x][y] = IF x = u /\ y = v THEN p ELSE net[x][y]
  BY <1>1, <1>4 DEF NetTypes
<1>7. net' \in [Account -> [Account -> Seq(Message)]]
  BY <1>1, <1>4, <1>5 DEF NetTypes
<1> QED
  BY <1>1, <1>3, <1>6, <1>7 DEF NetTypes

LEMMA JobFacts ==
  ASSUME CallInv
  PROVE  /\ NoJob \in Job /\ NoJob.op = "none" /\ NoJob.step = "idle"
         /\ \A u \in Account, s \in Slot :
              /\ job[u][s] \in Job /\ Shaped(job[u][s], u, s)
              /\ job[u][s] # NoJob <=> job[u][s].op # "none"
              /\ job[u][s].step \in {"media", "describe", "drain"} => job[u][s].op \in {"call", "accept"}
         /\ \A u \in Account, s \in Slot : Shaped(NoJob, u, s)
<1>1. NoJob \in Job /\ NoJob.op = "none" /\ NoJob.step = "idle"
  BY DEF NoJob, Job
<1>2. \A u \in Account, s \in Slot : Shaped(NoJob, u, s)
  BY <1>1 DEF Shaped
<1>3. ASSUME NEW u \in Account, NEW s \in Slot
      PROVE  /\ job[u][s] \in Job /\ Shaped(job[u][s], u, s)
             /\ job[u][s] # NoJob <=> job[u][s].op # "none"
             /\ job[u][s].step \in {"media", "describe", "drain"} => job[u][s].op \in {"call", "accept"}
  <2>1. Shaped(job[u][s], u, s)
    BY DEF CallInv, CallTypes
  <2>2. job[u][s] \in Job
    BY <2>1 DEF Shaped
  <2>3. job[u][s].op \in {"none", "call", "accept"}
    BY <2>2 DEF Job
  <2>4. job[u][s].op = "none" => job[u][s] = NoJob
    BY <2>1 DEF Shaped
  <2> QED
    BY <1>1, <2>1, <2>2, <2>3, <2>4
<1> QED
  BY <1>1, <1>2, <1>3

-----------------------------------------------------------------------------
(* The end of a call.                                                      *)
LEMMA CleanupFacts ==
  ASSUME CallInv, NEW u \in Account, NEW slots, Cleanup(u, slots)
  PROVE  /\ ui' \in [Account -> Ui] /\ offer' \in [Account -> Conn \cup {None}]
         /\ early' \in [Account -> SUBSET Conn] /\ pc' \in [Account -> Conn \cup {None}]
         /\ conn' \in [Conn -> Connection] /\ live' \subseteq Conn /\ cut' \subseteq Account
         /\ ui'[u].state = "idle" /\ ui'[u].stream \in OwnOrNone(u)
         /\ offer'[u] = None /\ pc'[u] = None
         /\ \A w \in Account \ {u} :
              /\ ui'[w] = ui[w] /\ offer'[w] = offer[w] /\ early'[w] = early[w] /\ pc'[w] = pc[w]
              /\ w \in cut' <=> w \in cut
              /\ \A c \in Conn : c[1] = w => conn'[c] = conn[c] /\ (c \in live' <=> c \in live)
         /\ u \notin cut' => u \notin cut /\ ~WorkingBut(u, slots) /\ Off(u)'
<1>1. /\ ui \in [Account -> Ui] /\ seen \in [Account -> Ui]
      /\ offer \in [Account -> Conn \cup {None}]
      /\ early \in [Account -> SUBSET Conn] /\ pc \in [Account -> Conn \cup {None}]
      /\ conn \in [Conn -> Connection] /\ live \subseteq Conn /\ cut \subseteq Account
      /\ {ui[u].stream, seen[u].stream, pc[u]} \subseteq OwnOrNone(u)
  BY DEF CallInv, CallTypes
<1>2. /\ ui' = [ui EXCEPT ![u] = Blank(u)]
      /\ offer' = [offer EXCEPT ![u] = None]
      /\ early' = [early EXCEPT ![u] = {}]
      /\ pc' = [pc EXCEPT ![u] = None]
      /\ conn' = IF pc[u] = None THEN conn ELSE [conn EXCEPT ![pc[u]] = Closed]
      /\ live' = live \ Stopped(u)
      /\ cut' = IF WorkingBut(u, slots) \/ ui[u].stream # seen[u].stream THEN cut \cup {u} ELSE cut
  BY DEF Cleanup
<1>3. PICK b : b = Blank(u)
  OBVIOUS
<1>4. /\ b \in Ui /\ b.state = "idle" /\ b.stream \in OwnOrNone(u)
      /\ b.stream = IF seen[u].stream = None THEN ui[u].stream ELSE None
  <2>1. seen[u].stream \in OwnOrNone(u) /\ ui[u].stream \in OwnOrNone(u)
    BY <1>1
  <2>2. b = [state |-> "idle", remote |-> None,
             stream |-> IF seen[u].stream = None THEN ui[u].stream ELSE None]
    BY <1>3 DEF Blank
  <2>3. (IF seen[u].stream = None THEN ui[u].stream ELSE None) \in Conn \cup {None}
    BY <2>1 DEF OwnOrNone
  <2> QED
    BY <2>1, <2>2, <2>3 DEF Ui, OwnOrNone
<1>5. ui' = [ui EXCEPT ![u] = b]
  BY <1>2, <1>3
<1>6. Closed \in Connection
  BY DEF Closed, Unmade, Connection
<1>7. \A c \in Stopped(u) : c[1] = u
  BY <1>1 DEF Stopped, OwnOrNone
<1>8. pc[u] # None => pc[u] \in Conn /\ pc[u][1] = u
  BY <1>1 DEF OwnOrNone
<1>9. PICK k : k = Closed /\ k \in Connection
  BY <1>6
<1>10. conn' = IF pc[u] = None THEN conn ELSE [conn EXCEPT ![pc[u]] = k]
  BY <1>2, <1>9
<1>11. conn' \in [Conn -> Connection]
  <2>1. CASE pc[u] = None
    BY <1>1, <1>10, <2>1
  <2>2. CASE pc[u] # None
    BY <1>1, <1>8, <1>9, <1>10, <2>2
  <2> QED
    BY <2>1, <2>2
<1>12. \A w \in Account \ {u} : \A c \in Conn : c[1] = w =>
          conn'[c] = conn[c] /\ (c \in live' <=> c \in live)
  <2> SUFFICES ASSUME NEW w \in Account \ {u}, NEW c \in Conn, c[1] = w
               PROVE  conn'[c] = conn[c] /\ (c \in live' <=> c \in live)
    OBVIOUS
  <2>1. conn'[c] = conn[c]
    BY <1>1, <1>8, <1>10
  <2> QED
    BY <1>2, <1>7, <2>1
<1>13. ASSUME u \notin cut'
       PROVE  u \notin cut /\ ~WorkingBut(u, slots) /\ Off(u)'
  <2>1. u \notin cut /\ ~WorkingBut(u, slots) /\ ui[u].stream = seen[u].stream
    BY <1>2, <1>13
  <2>2. Sound(u)
    BY <2>1 DEF CallInv
  <2>3. ui[u].state \in {"idle", "incoming", "outgoing", "active"}
    BY <1>1 DEF Ui
  <2>4. Off(u) \/ On(u, pc[u])
    <3>1. CASE Working(u)
      <4>1. PICK s \in Slot : job[u][s] # NoJob
        BY <3>1 DEF Working, WorkingBut
      <4>2. InStep(u, job[u][s]) /\ job[u][s].step \in {"media", "describe", "drain"}
        BY <2>2, <4>1, JobFacts DEF Sound, Shaped, Job
      <4> QED
        BY <4>2 DEF InStep, On
    <3>2. CASE ~Working(u)
      BY <2>2, <2>3, <3>2 DEF Sound
    <3> QED
      BY <3>1, <3>2
  <2>5. Lights(u) \subseteq {ui[u].stream} /\ (ui[u].stream = None => Lights(u) = {})
    BY <2>4 DEF On, Off
  <2>6. Lights(u)' = {}
    BY <1>2, <2>1, <2>5 DEF Lights, Stopped
  <2>7. ui'[u].stream = None
    BY <1>1, <1>4, <1>5, <2>1
  <2>8. pc'[u] = None
    BY <1>1, <1>2
  <2> QED
    BY <2>1, <2>6, <2>7, <2>8 DEF Off
<1>14. /\ ui'[u] = b
       /\ \A w \in Account \ {u} :
              /\ ui'[w] = ui[w] /\ offer'[w] = offer[w] /\ early'[w] = early[w] /\ pc'[w] = pc[w]
              /\ w \in cut' <=> w \in cut
  BY <1>1, <1>2, <1>5
<1>15. /\ ui' \in [Account -> Ui] /\ offer' \in [Account -> Conn \cup {None}]
       /\ early' \in [Account -> SUBSET Conn] /\ pc' \in [Account -> Conn \cup {None}]
       /\ live' \subseteq Conn /\ cut' \subseteq Account
       /\ offer'[u] = None /\ pc'[u] = None
  BY <1>1, <1>2, <1>4, <1>5
<1> QED
  BY <1>4, <1>11, <1>12, <1>13, <1>14, <1>15

(* An ended call, and what became of the messages and flows in that step.  *)
LEMMA EndKeeps ==
  ASSUME CallInv, NEW u \in Account, NEW slots, Cleanup(u, slots), UNCHANGED <<calls, faults, lost>>,
         seen' = seen \/ Clicked(u),
         \/ slots = {} /\ job' = job
         \/ \E s \in Slot : slots = {s} /\ job' = [job EXCEPT ![u][s] = NoJob],
         NetTypes',
         \A x, y \in Account : \A m : Holds(net'[x][y], m) /\ m.kind \notin {"decline", "end"} =>
           Holds(net[x][y], m),
         \A x, y \in Account : \A c : y # u /\ Holds(net[x][y], CandidateOf(c)) =>
           Holds(net'[x][y], CandidateOf(c))
  PROVE  CallInv'
<1>1. /\ ui' \in [Account -> Ui] /\ offer' \in [Account -> Conn \cup {None}]
      /\ early' \in [Account -> SUBSET Conn] /\ pc' \in [Account -> Conn \cup {None}]
      /\ conn' \in [Conn -> Connection] /\ live' \subseteq Conn /\ cut' \subseteq Account
      /\ ui'[u].state = "idle" /\ ui'[u].stream \in OwnOrNone(u)
      /\ offer'[u] = None /\ pc'[u] = None
      /\ \A w \in Account \ {u} :
           /\ ui'[w] = ui[w] /\ offer'[w] = offer[w] /\ early'[w] = early[w] /\ pc'[w] = pc[w]
           /\ w \in cut' <=> w \in cut
           /\ \A c \in Conn : c[1] = w => conn'[c] = conn[c] /\ (c \in live' <=> c \in live)
      /\ u \notin cut' => u \notin cut /\ ~WorkingBut(u, slots) /\ Off(u)'
  BY CleanupFacts
<1>2. /\ CallTypes /\ NumbersInv
      /\ \A w \in Account : {ui[w].stream, seen[w].stream, pc[w]} \subseteq OwnOrNone(w)
      /\ seen \in [Account -> Ui] /\ job \in [Account -> [Slot -> Job]]
      /\ \A w \in Account, s \in Slot : Shaped(job[w][s], w, s)
      /\ calls \in 0..MaxCalls /\ faults \in 0..MaxFaults /\ lost \subseteq Conn
  BY DEF CallInv, CallTypes
<1>3. /\ seen' \in [Account -> Ui] /\ seen'[u].stream \in OwnOrNone(u)
      /\ \A w \in Account \ {u} : seen'[w] = seen[w]
  <2>1. CASE seen' = seen
    BY <1>2, <2>1
  <2>2. CASE Clicked(u)
    <3>1. PICK k : k = ui'[u] /\ k \in Ui
      BY <1>1
    <3>2. seen' = [seen EXCEPT ![u] = k]
      BY <2>2, <3>1 DEF Clicked
    <3> QED
      BY <1>1, <1>2, <3>1, <3>2
  <2> QED
    BY <2>1, <2>2
<1>4. NoJob \in Job /\ NoJob.op = "none" /\ NoJob.step = "idle"
  BY DEF NoJob, Job
<1>5. /\ job' \in [Account -> [Slot -> Job]]
      /\ \A w \in Account \ {u} : job'[w] = job[w]
      /\ \A w \in Account, s \in Slot : job'[w][s] \in {job[w][s], NoJob}
      /\ ~WorkingBut(u, slots) => \A s \in Slot : job'[u][s] = NoJob
  <2>1. CASE slots = {} /\ job' = job
    BY <1>2, <2>1 DEF WorkingBut
  <2>2. CASE \E s \in Slot : slots = {s} /\ job' = [job EXCEPT ![u][s] = NoJob]
    <3>1. PICK s \in Slot, k \in Job : slots = {s} /\ job' = [job EXCEPT ![u][s] = k] /\ k = NoJob
      BY <1>4, <2>2
    <3> QED
      BY <1>2, <3>1 DEF WorkingBut
  <2> QED
    BY <2>1, <2>2
<1>6. \A w \in Account, s \in Slot : Shaped(job'[w][s], w, s)
  <2> SUFFICES ASSUME NEW w \in Account, NEW s \in Slot
               PROVE  Shaped(job'[w][s], w, s)
    OBVIOUS
  <2>1. CASE job'[w][s] = job[w][s]
    BY <1>2, <2>1
  <2>2. CASE job'[w][s] = NoJob
    BY <1>4, <2>2 DEF Shaped
  <2> QED
    BY <1>5, <2>1, <2>2
<1>7. CallTypes'
  <2>1. \A w \in Account : {ui'[w].stream, seen'[w].stream, pc'[w]} \subseteq OwnOrNone(w)
    BY <1>1, <1>2, <1>3 DEF OwnOrNone
  <2>2. calls' \in 0..MaxCalls /\ faults' \in 0..MaxFaults /\ lost' \subseteq Conn
    BY <1>2
  <2> QED
    BY <1>1, <1>3, <1>5, <1>6, <2>1, <2>2 DEF CallTypes, NetTypes, OwnOrNone
<1>8. NumbersInv'
  <2>1. \A w \in Account, s \in Slot : job'[w][s].op # "none" => job'[w][s] = job[w][s]
    BY <1>4, <1>5
  <2>2. \A n \in Call : \A w \in Account : Placed(n, w)' => Placed(n, w)
    <3>1. \A w \in Account : offer'[w] # None => offer'[w] = offer[w]
      BY <1>1
    <3>2. \A x, y \in Account : \A m \in Message : Holds(net'[x][y], m) /\ m.conn # None =>
           \/ Holds(net[x][y], m)
           \/ m.kind = "request" /\ Placed(m.conn[2], x)
           \/ m.kind = "accept" /\ Placed(m.conn[2], y)
           \/ m.kind \notin {"request", "accept"}
      OBVIOUS
    <3> QED
      BY <2>1, <3>1, <3>2, PlacedShrinks
  <2>3. \A w \in Account, s \in Slot, n \in Call : Placing(w, s, n)' => Placing(w, s, n)
    BY <2>1 DEF Placing
  <2> QED
    BY <2>2, <2>3, NumbersKept
<1>9. OnlyPage(u)
  <2>1. \A w \in Account \ {u} : \A c : Coming(c, w) => Coming(c, w)'
    BY DEF Coming
  <2> QED
    BY <1>1, <1>3, <1>5, <2>1 DEF OnlyPage
<1>10. \A w \in Account \ {u} : Rings(w)' /\ (w \notin cut' => Sound(w)' /\ Keeps(w)')
  BY <1>1, <1>9, OthersKeep
<1>11. Rings(u)'
  BY <1>1 DEF Rings
<1>12. ASSUME u \notin cut'
       PROVE  Sound(u)' /\ Keeps(u)'
  <2>1. Off(u)' /\ \A s \in Slot : job'[u][s] = NoJob
    BY <1>1, <1>5, <1>12
  <2> QED
    BY <1>1, <2>1 DEF Sound, Keeps, Working, WorkingBut
<1> QED
  BY <1>7, <1>8, <1>10, <1>11, <1>12 DEF CallInv

LEMMA PageStep ==
  ASSUME CallInv, NEW u \in Account, OnlyPage(u), CallTypes', NumbersInv', Rings(u)',
         u \notin cut' => Sound(u)' /\ Keeps(u)'
  PROVE  CallInv'
<1>1. live' \subseteq Conn
  BY DEF CallTypes
<1>2. \A w \in Account \ {u} : Rings(w)' /\ (w \notin cut' => Sound(w)' /\ Keeps(w)')
  BY <1>1, OthersKeep
<1> QED
  BY <1>2 DEF CallInv

(* The messages are as before.                                             *)
LEMMA NoMessage ==
  ASSUME net' = net, lost' = lost
  PROVE  \A w \in Account : \A c : Coming(c, w)' <=> Coming(c, w)
BY DEF Coming

(* One flow of page u gets to another step.                                *)
LEMMA JobMoves ==
  ASSUME CallInv, NEW u \in Account, NEW s \in Slot, NEW j, Shaped(j, u, s),
         job' = [job EXCEPT ![u][s] = j]
  PROVE  /\ job' \in [Account -> [Slot -> Job]]
         /\ \A w \in Account, t \in Slot : Shaped(job'[w][t], w, t)
         /\ job'[u][s] = j
         /\ \A w \in Account, t \in Slot : w # u \/ t # s => job'[w][t] = job[w][t]
         /\ \A w \in Account \ {u} : job'[w] = job[w]
<1>1. job \in [Account -> [Slot -> Job]] /\ j \in Job
      /\ \A w \in Account, t \in Slot : Shaped(job[w][t], w, t)
  BY DEF CallInv, CallTypes, Shaped
<1>2. /\ job' \in [Account -> [Slot -> Job]]
      /\ job'[u][s] = j
      /\ \A w \in Account, t \in Slot : w # u \/ t # s => job'[w][t] = job[w][t]
      /\ \A w \in Account \ {u} : job'[w] = job[w]
  BY <1>1
<1> QED
  BY <1>1, <1>2

-----------------------------------------------------------------------------
LEMMA RenderKeeps ==
  ASSUME CallInv, NEW u \in Account, Render(u)
  PROVE  CallInv'
<1>1. /\ seen' = [seen EXCEPT ![u] = ui[u]]
      /\ UNCHANGED <<ui, offer, early, pc, conn, live, job, net, calls, faults, lost, cut>>
  BY DEF Render
<1>2. CallTypes
  BY DEF CallInv
<1>3. CallTypes'
  BY <1>1, <1>2 DEF CallTypes
<1>4. OnlyPage(u)
  BY <1>1, <1>2, NoMessage DEF OnlyPage, CallTypes
<1>5. NumbersInv'
  BY <1>1 DEF CallInv, NumbersInv, Placed, Placing
<1>6. Rings(u)'
  BY <1>1, <1>2 DEF CallInv, Rings, CallTypes
<1>7. u \notin cut' => Sound(u)' /\ Keeps(u)'
  BY <1>1, NoMessage DEF CallInv, Sound, Keeps, Working, WorkingBut, Off, On, InStep, Lights
<1> QED
  BY <1>3, <1>4, <1>5, <1>6, <1>7, PageStep

LEMMA InitiateKeeps ==
  ASSUME CallInv, NEW u \in Account, NEW v \in Account, NEW s \in Slot, Initiate(u, v, s)
  PROVE  CallInv'
<1> DEFINE n == calls + 1
<1>1. /\ u # v /\ calls < MaxCalls /\ job[u][s] = NoJob
      /\ ui' = [ui EXCEPT ![u].state = "outgoing", ![u].remote = v]
      /\ calls' = n
      /\ job' = [job EXCEPT ![u][s] = [NoJob EXCEPT !.op = "call", !.step = "media",
                                                !.conn = <<u, n, s>>, !.to = v]]
      /\ seen' = [seen EXCEPT ![u] = ui'[u]]
      /\ cut' = IF Working(u) \/ ui[u].state # "idle" THEN cut \cup {u} ELSE cut
      /\ UNCHANGED <<offer, early, pc, conn, live, net, faults, lost>>
  BY DEF Initiate, Clicked
<1>2. /\ CallTypes /\ ui \in [Account -> Ui] /\ seen \in [Account -> Ui]
      /\ calls \in 0..MaxCalls /\ cut \subseteq Account
      /\ MaxCalls \in Nat
      /\ ui[u] \in Ui /\ ui[u].stream \in OwnOrNone(u)
  BY CallAssumptions DEF CallInv, CallTypes
<1>3. n \in Call /\ calls < n /\ <<u, n, s>> \in Conn /\ n \in 0..MaxCalls
  BY <1>1, <1>2 DEF Call, Conn
<1>4. PICK j : j = [NoJob EXCEPT !.op = "call", !.step = "media", !.conn = <<u, n, s>>, !.to = v]
  OBVIOUS
<1>5. /\ j \in Job /\ j.op = "call" /\ j.step = "media" /\ j.conn = <<u, n, s>> /\ j.to = v
      /\ j # NoJob
  BY <1>3, <1>4 DEF NoJob, Job
<1>6. Shaped(j, u, s)
  BY <1>1, <1>3, <1>5 DEF Shaped
<1>7. /\ job' \in [Account -> [Slot -> Job]]
      /\ \A w \in Account, t \in Slot : Shaped(job'[w][t], w, t)
      /\ job'[u][s] = j
      /\ \A w \in Account, t \in Slot : w # u \/ t # s => job'[w][t] = job[w][t]
      /\ \A w \in Account \ {u} : job'[w] = job[w]
  <2>1. job' = [job EXCEPT ![u][s] = j]
    BY <1>1, <1>4
  <2> HIDE DEF n
  <2> QED
    BY <1>6, <2>1, JobMoves
<1>8. PICK p : p = [ui[u] EXCEPT !.state = "outgoing", !.remote = v]
  OBVIOUS
<1>9. p \in Ui /\ p.state = "outgoing" /\ p.remote = v /\ p.stream = ui[u].stream
  BY <1>2, <1>8 DEF Ui
<1>10. ui' = [ui EXCEPT ![u] = p]
  BY <1>1, <1>2, <1>8
<1>11. seen' = [seen EXCEPT ![u] = p]
  BY <1>1, <1>2, <1>10
<1>12. /\ ui' \in [Account -> Ui] /\ seen' \in [Account -> Ui]
       /\ ui'[u] = p /\ seen'[u] = p
       /\ \A w \in Account \ {u} : ui'[w] = ui[w] /\ seen'[w] = seen[w]
  BY <1>2, <1>9, <1>10, <1>11
<1>13. CallTypes'
  <2>1. \A w \in Account : {ui'[w].stream, seen'[w].stream, pc'[w]} \subseteq OwnOrNone(w)
    BY <1>1, <1>2, <1>9, <1>12 DEF CallTypes
  <2> QED
    BY <1>1, <1>2, <1>3, <1>7, <1>12, <2>1 DEF CallTypes
<1>14. OnlyPage(u)
  BY <1>1, <1>7, <1>12, NoMessage DEF OnlyPage
<1>15. NumbersInv'
  <2>1. \A m, w : Placed(m, w)' => Placed(m, w)
    <3>1. \A w \in Account, t \in Slot : job'[w][t].op = "accept" =>
           /\ job[w][t].op = "accept" /\ job'[w][t].conn = job[w][t].conn
           /\ job'[w][t].to = job[w][t].to
      BY <1>5, <1>7
    <3> QED
      BY <1>1, <3>1 DEF Placed
  <2>2. \A w \in Account, t \in Slot, m \in Call :
          Placing(w, t, m)' => Placing(w, t, m) \/ (w = u /\ t = s /\ m = n)
    BY <1>5, <1>7 DEF Placing
  <2>3. /\ \A m \in Call : \A w \in Account : Placed(m, w) => m <= calls
        /\ \A w \in Account, t \in Slot, m \in Call : Placing(w, t, m) => m <= calls
    BY DEF CallInv, NumbersInv
  <2>4. \A m \in Call : m <= calls => m <= calls' /\ m # n
    BY <1>1, <1>2 DEF Call
  <2>5. n <= calls' /\ \A w \in Account : ~Placed(n, w)
    BY <1>1, <1>2, <1>3, <2>3
  <2>6. NumbersInv
    BY DEF CallInv
  <2>7. \A m \in Call : \A w, x \in Account : Placed(m, w)' /\ Placed(m, x)' => w = x
    BY <2>1, <2>6 DEF NumbersInv
  <2>8. \A m \in Call : \A w \in Account : Placed(m, w)' => m <= calls'
    BY <2>1, <2>3, <2>4
  <2>9. ASSUME NEW w \in Account, NEW t \in Slot, NEW m \in Call, Placing(w, t, m)'
        PROVE  /\ m <= calls'
               /\ \A x \in Account : ~Placed(m, x)'
               /\ \A x \in Account, y \in Slot : Placing(x, y, m)' => x = w /\ y = t
    <3>1. CASE Placing(w, t, m)
      <4>1. m <= calls /\ m # n /\ m <= calls'
        BY <2>3, <2>4, <3>1
      <4> QED
        BY <2>1, <2>2, <2>6, <3>1, <4>1 DEF NumbersInv
    <3>2. CASE w = u /\ t = s /\ m = n
      BY <2>1, <2>2, <2>3, <2>4, <2>5, <3>2
    <3> QED
      BY <2>2, <2>9, <3>1, <3>2
  <2> QED
    BY <2>7, <2>8, <2>9 DEF NumbersInv
<1>16. Rings(u)'
  BY <1>1, <1>9, <1>12 DEF CallInv, Rings
<1>17. ASSUME u \notin cut'
       PROVE  Sound(u)' /\ Keeps(u)'
  <2>1. u \notin cut /\ ~Working(u) /\ ui[u].state = "idle"
    BY <1>1, <1>17
  <2>2. Off(u)
    BY <2>1 DEF CallInv, Sound
  <2>3. Off(u)'
    BY <1>1, <1>9, <1>12, <2>2 DEF Off, Lights
  <2>4. \A t \in Slot : job'[u][t] # NoJob => t = s
    BY <1>7, <2>1 DEF Working, WorkingBut
  <2>5. InStep(u, job[u][s])'
    BY <1>5, <1>7, <1>9, <1>12, <2>3 DEF InStep
  <2>6. Working(u)'
    BY <1>5, <1>7 DEF Working, WorkingBut
  <2>7. Sound(u)'
    BY <2>4, <2>5, <2>6 DEF Sound
  <2> QED
    BY <1>9, <1>12, <2>3, <2>7 DEF Keeps, Off
<1> QED
  BY <1>13, <1>14, <1>15, <1>16, <1>17, PageStep

LEMMA AcceptCallKeeps ==
  ASSUME CallInv, NEW u \in Account, NEW s \in Slot, AcceptCall(u, s)
  PROVE  CallInv'
<1>1. /\ seen[u].state = "incoming" /\ seen[u].remote # None /\ offer[u] # None
      /\ job[u][s] = NoJob
      /\ job' = [job EXCEPT ![u][s] = [NoJob EXCEPT !.op = "accept", !.step = "media",
                                   !.conn = <<u, offer[u][2], s>>, !.to = seen[u].remote]]
      /\ cut' = IF Working(u) \/ ui[u] # seen[u] THEN cut \cup {u} ELSE cut
      /\ UNCHANGED <<ui, seen, offer, early, pc, conn, live, net, calls, faults, lost>>
  BY DEF AcceptCall
<1>2. /\ CallTypes /\ offer[u] \in Conn /\ seen[u].remote = offer[u][1] /\ offer[u][1] # u
  BY <1>1 DEF CallInv, CallTypes, Rings
<1>3. offer[u][1] \in Account /\ offer[u][2] \in Call /\ <<u, offer[u][2], s>> \in Conn
  BY <1>2 DEF Conn
<1>4. PICK j : j = [NoJob EXCEPT !.op = "accept", !.step = "media",
                                 !.conn = <<u, offer[u][2], s>>, !.to = seen[u].remote]
  OBVIOUS
<1>5. /\ j \in Job /\ j.op = "accept" /\ j.step = "media" /\ j.conn = <<u, offer[u][2], s>>
      /\ j.to = offer[u][1] /\ j # NoJob
  BY <1>2, <1>3, <1>4 DEF NoJob, Job
<1>6. Shaped(j, u, s)
  BY <1>2, <1>3, <1>5 DEF Shaped
<1>7. /\ job' \in [Account -> [Slot -> Job]]
      /\ \A w \in Account, t \in Slot : Shaped(job'[w][t], w, t)
      /\ job'[u][s] = j
      /\ \A w \in Account, t \in Slot : w # u \/ t # s => job'[w][t] = job[w][t]
      /\ \A w \in Account \ {u} : job'[w] = job[w]
  <2>1. job' = [job EXCEPT ![u][s] = j]
    BY <1>1, <1>4
  <2> QED
    BY <1>6, <2>1, JobMoves
<1>8. CallTypes'
  BY <1>1, <1>2, <1>7 DEF CallTypes
<1>9. OnlyPage(u)
  BY <1>1, <1>7, NoMessage DEF OnlyPage
<1>10. NumbersInv'
  <2>1. Placed(offer[u][2], offer[u][1])
    BY <1>1 DEF Placed
  <2>2. Placed(j.conn[2], j.to)
    BY <1>5, <2>1
  <2>3. \A w \in Account, t \in Slot : job'[w][t].op = "accept" =>
          \/ /\ job[w][t].op = "accept" /\ job'[w][t].conn = job[w][t].conn
             /\ job'[w][t].to = job[w][t].to
          \/ Placed(job'[w][t].conn[2], job'[w][t].to)
    BY <1>7, <2>2
  <2>4. \A n \in Call : \A w \in Account : Placed(n, w)' => Placed(n, w)
    BY <1>1, <2>3, PlacedShrinks
  <2>5. \A w \in Account, t \in Slot, n \in Call : Placing(w, t, n)' => Placing(w, t, n)
    BY <1>5, <1>7 DEF Placing
  <2> QED
    BY <1>1, <2>4, <2>5, NumbersKept
<1>11. Rings(u)'
  BY <1>1 DEF CallInv, Rings
<1>12. ASSUME u \notin cut'
       PROVE  Sound(u)' /\ Keeps(u)'
  <2>1. u \notin cut /\ ~Working(u) /\ ui[u] = seen[u]
    BY <1>1, <1>12
  <2>2. Off(u) /\ Keeps(u)
    BY <1>1, <2>1 DEF CallInv, Sound
  <2>3. Off(u)' /\ Keeps(u)'
    BY <1>1, <2>2, NoMessage DEF Off, Lights, Keeps
  <2>4. \A t \in Slot : job'[u][t] # NoJob => t = s
    BY <1>7, <2>1 DEF Working, WorkingBut
  <2>5. InStep(u, job[u][s])'
    BY <1>1, <1>2, <1>5, <1>7, <2>1, <2>3 DEF InStep
  <2>6. Working(u)'
    BY <1>5, <1>7 DEF Working, WorkingBut
  <2> QED
    BY <2>3, <2>4, <2>5, <2>6 DEF Sound
<1> QED
  BY <1>8, <1>9, <1>10, <1>11, <1>12, PageStep

LEMMA MediaKeeps ==
  ASSUME CallInv, NEW u \in Account, NEW s \in Slot, Media(u, s)
  PROVE  CallInv'
<1>0. PICK j, c : j = job[u][s] /\ c = j.conn
  OBVIOUS
<1>1. /\ j.step = "media"
      /\ live' = live \cup {c}
      /\ ui' = [ui EXCEPT ![u].stream = c]
      /\ pc' = [pc EXCEPT ![u] = c]
      /\ conn' = [conn EXCEPT ![c] = [Unmade EXCEPT !.made = TRUE, !.open = TRUE, !.to = j.to]]
      /\ job' = IF j.op = "accept" /\ offer[u] = None
                THEN [job EXCEPT ![u][s] = NoJob]
                ELSE [job EXCEPT ![u][s].step = "describe",
                                 ![u][s].offer = IF j.op = "accept" THEN offer[u] ELSE None]
      /\ UNCHANGED <<seen, offer, early, net, calls, faults, lost, cut>>
  BY <1>0 DEF Media
<1>2. /\ j \in Job /\ Shaped(j, u, s) /\ j.op \in {"call", "accept"} /\ j # NoJob
      /\ NoJob.op = "none" /\ Shaped(NoJob, u, s)
  BY <1>0, <1>1, JobFacts
<1>3. c \in Conn /\ c[1] = u /\ c[3] = s /\ j.to \in Account \ {u} /\ c # None
  BY <1>0, <1>2, CallAssumptions DEF Shaped, Conn, Call
<1>4. /\ CallTypes /\ ui \in [Account -> Ui] /\ pc \in [Account -> Conn \cup {None}]
      /\ conn \in [Conn -> Connection] /\ live \subseteq Conn
      /\ offer \in [Account -> Conn \cup {None}] /\ job \in [Account -> [Slot -> Job]]
      /\ ui[u] \in Ui
  BY DEF CallInv, CallTypes
<1>5. PICK k : k = [Unmade EXCEPT !.made = TRUE, !.open = TRUE, !.to = j.to]
  OBVIOUS
<1>6. k \in Connection /\ k.open /\ k.to = j.to /\ k.far = None /\ ~k.told
  BY <1>3, <1>5 DEF Unmade, Connection
<1>7. PICK p : p = [ui[u] EXCEPT !.stream = c]
  OBVIOUS
<1>8. p \in Ui /\ p.state = ui[u].state /\ p.remote = ui[u].remote /\ p.stream = c
  BY <1>3, <1>4, <1>7 DEF Ui
<1>9. PICK q : q = IF j.op = "accept" /\ offer[u] = None THEN NoJob
                   ELSE [j EXCEPT !.step = "describe",
                                  !.offer = IF j.op = "accept" THEN offer[u] ELSE None]
  OBVIOUS
<1>10. /\ job' = [job EXCEPT ![u][s] = q]
       /\ Shaped(q, u, s)
       /\ q.op # "none" => /\ q.op = j.op /\ q.conn = c /\ q.to = j.to /\ q.step = "describe"
                           /\ q.op = "accept" => q.offer = offer[u] /\ offer[u] # None
       /\ (j.op = "accept" /\ offer[u] # None) \/ j.op = "call" => q # NoJob
  <2>1. CASE j.op = "accept" /\ offer[u] = None
    BY <1>0, <1>1, <1>2, <1>9, <2>1
  <2>2. CASE ~(j.op = "accept" /\ offer[u] = None)
    <3>1. PICK o : o = (IF j.op = "accept" THEN offer[u] ELSE None)
      OBVIOUS
    <3>2. o \in Conn \cup {None} /\ (j.op = "accept" => o = offer[u] /\ o # None)
      BY <1>4, <2>2, <3>1
    <3>3. q = [j EXCEPT !.step = "describe", !.offer = o]
      BY <1>9, <2>2, <3>1
    <3>4. job' = [job EXCEPT ![u][s].step = "describe", ![u][s].offer = o]
      BY <1>1, <2>2, <3>1
    <3>5. job' = [job EXCEPT ![u][s] = q]
      BY <1>0, <1>4, <3>3, <3>4
    <3>6. /\ q \in Job /\ q.op = j.op /\ q.conn = c /\ q.to = j.to /\ q.step = "describe"
          /\ q.offer = o
      BY <1>0, <1>2, <3>2, <3>3 DEF Job
    <3>7. q # NoJob
      BY <1>2, <3>6
    <3>8. Shaped(q, u, s)
      BY <1>2, <1>3, <3>2, <3>6 DEF Shaped
    <3> QED
      BY <3>2, <3>5, <3>6, <3>7, <3>8
  <2> QED
    BY <2>1, <2>2
<1>11. /\ job' \in [Account -> [Slot -> Job]]
       /\ \A w \in Account, t \in Slot : Shaped(job'[w][t], w, t)
       /\ job'[u][s] = q
       /\ \A w \in Account, t \in Slot : w # u \/ t # s => job'[w][t] = job[w][t]
       /\ \A w \in Account \ {u} : job'[w] = job[w]
  BY <1>10, JobMoves
<1>12. /\ ui' = [ui EXCEPT ![u] = p] /\ conn' = [conn EXCEPT ![c] = k]
  BY <1>1, <1>4, <1>5, <1>7
<1>13. /\ UNCHANGED <<seen, offer, early, net, calls, faults, lost, cut>>
       /\ live' = live \cup {c} /\ pc' = [pc EXCEPT ![u] = c]
  BY <1>1
<1>14. /\ j.op = "accept" => q.op # "none" \/ offer[u] = None
       /\ j.step = "media"
       /\ q.op = "accept" => j.op = "accept" /\ q.conn = j.conn /\ q.to = j.to
       /\ q.op = "call" => j.op = "call" /\ q.conn = j.conn
  BY <1>0, <1>1, <1>2, <1>10 DEF Shaped
<1>15. /\ ui'[u] = p /\ pc'[u] = c /\ conn'[c] = k
       /\ \A w \in Account \ {u} : ui'[w] = ui[w] /\ pc'[w] = pc[w]
       /\ \A d \in Conn : d # c => conn'[d] = conn[d]
       /\ ui' \in [Account -> Ui] /\ pc' \in [Account -> Conn \cup {None}]
       /\ conn' \in [Conn -> Connection] /\ live' \subseteq Conn
  BY <1>3, <1>4, <1>6, <1>8, <1>12, <1>13
<1>16. CallTypes'
  <2>1. \A w \in Account : {ui'[w].stream, seen'[w].stream, pc'[w]} \subseteq OwnOrNone(w)
    BY <1>3, <1>4, <1>8, <1>13, <1>15 DEF CallTypes, OwnOrNone
  <2> QED
    BY <1>4, <1>11, <1>13, <1>15, <2>1 DEF CallTypes
<1>17. OnlyPage(u)
  BY <1>3, <1>11, <1>13, <1>15, NoMessage DEF OnlyPage
<1>18. NumbersInv'
  <2>1. \A w \in Account, t \in Slot : job'[w][t].op = "accept" =>
           /\ job[w][t].op = "accept" /\ job'[w][t].conn = job[w][t].conn
           /\ job'[w][t].to = job[w][t].to
    BY <1>0, <1>11, <1>14
  <2>2. \A n \in Call : \A w \in Account : Placed(n, w)' => Placed(n, w)
    BY <1>13, <2>1 DEF Placed
  <2>3. \A w \in Account, t \in Slot, n \in Call : Placing(w, t, n)' => Placing(w, t, n)
    BY <1>0, <1>11, <1>14 DEF Placing
  <2> QED
    BY <1>13, <2>2, <2>3, NumbersKept
<1>19. Rings(u)'
  BY <1>8, <1>13, <1>15 DEF CallInv, Rings
<1>20. ASSUME u \notin cut'
       PROVE  Sound(u)' /\ Keeps(u)'
  <2>1. u \notin cut /\ Sound(u) /\ Keeps(u)
    BY <1>13, <1>20 DEF CallInv
  <2>2. InStep(u, j)
    BY <1>0, <1>2, <2>1 DEF Sound
  <2>3. Off(u) /\ ui[u].remote = j.to
        /\ ui[u].state = (IF j.op = "call" THEN "outgoing" ELSE "incoming")
        /\ (j.op = "accept" => offer[u] # None)
    BY <1>14, <2>2 DEF InStep
  <2>4. q # NoJob /\ q.op \in {"call", "accept"} /\ q.op = j.op /\ q.step = "describe" /\ q.conn = c
        /\ q.to = j.to /\ (q.op = "accept" => q.offer = offer[u])
    BY <1>2, <1>10, <2>3 DEF Shaped
  <2>5. Lights(u)' \subseteq {c}
    BY <1>13, <2>3 DEF Off, Lights
  <2>6. On(u, c)'
    BY <1>3, <1>6, <1>8, <1>15, <2>3, <2>5 DEF On
  <2>7. InStep(u, job[u][s])'
    BY <1>6, <1>8, <1>11, <1>13, <1>15, <2>3, <2>4, <2>6 DEF InStep
  <2>8. \A t \in Slot : job'[u][t] # NoJob => t = s
    BY <1>0, <1>2, <1>11, <2>1 DEF Sound
  <2>9. Working(u)'
    BY <1>11, <2>4 DEF Working, WorkingBut
  <2>10. Sound(u)'
    BY <2>7, <2>8, <2>9 DEF Sound
  <2>11. Keeps(u)'
    BY <1>6, <1>8, <1>13, <1>15, <2>1, <2>3, NoMessage DEF Keeps, Off
  <2> QED
    BY <2>10, <2>11
<1> QED
  BY <1>16, <1>17, <1>18, <1>19, <1>20, PageStep

LEMMA EndsFacts ==
  ASSUME CallInv, NEW u \in Account, NEW v, v \in Account \cup {None},
         NEW kind \in {"decline", "end"}, Emit(u, v, kind, None)
  PROVE  /\ NetTypes'
         /\ \A x, y \in Account : \A m : Holds(net'[x][y], m) /\ m.kind \notin {"decline", "end"} =>
              Holds(net[x][y], m)
         /\ \A x, y \in Account : \A c : y # u /\ Holds(net[x][y], CandidateOf(c)) =>
              Holds(net'[x][y], CandidateOf(c))
BY EmitFacts

LEMMA MediaRefusedKeeps ==
  ASSUME CallInv, NEW u \in Account, NEW s \in Slot, MediaRefused(u, s)
  PROVE  CallInv'
<1>1. /\ job[u][s].step = "media"
      /\ job' = [job EXCEPT ![u][s] = NoJob]
      /\ UNCHANGED <<seen, calls, faults, lost>>
      /\ IF job[u][s].op = "call"
         THEN /\ ui' = [ui EXCEPT ![u].state = "idle"]
              /\ UNCHANGED <<offer, early, pc, conn, live, net, cut>>
         ELSE Emit(u, job[u][s].to, "decline", None) /\ Cleanup(u, {s})
  BY DEF MediaRefused
<1>2. /\ Shaped(job[u][s], u, s) /\ job[u][s].op \in {"call", "accept"}
      /\ job[u][s].op # "none" /\ job[u][s] # NoJob
      /\ NoJob.op = "none" /\ Shaped(NoJob, u, s)
  BY <1>1, JobFacts
<1>4. CASE job[u][s].op # "call"
  <2>1. Emit(u, job[u][s].to, "decline", None) /\ Cleanup(u, {s}) /\ job[u][s].to \in Account \cup {None}
    BY <1>1, <1>2, <1>4 DEF Shaped
  <2>2. job' = [job EXCEPT ![u][s] = NoJob]
    BY <1>1
  <2>3. UNCHANGED <<calls, faults, lost>> /\ seen' = seen
    BY <1>1
  <2>4. /\ NetTypes'
        /\ \A x, y \in Account : \A m : Holds(net'[x][y], m) /\ m.kind \notin {"decline", "end"} =>
             Holds(net[x][y], m)
        /\ \A x, y \in Account : \A c : y # u /\ Holds(net[x][y], CandidateOf(c)) =>
             Holds(net'[x][y], CandidateOf(c))
    BY <2>1, EndsFacts
  <2> QED
    BY <2>1, <2>2, <2>3, <2>4, EndKeeps
<1>5. CASE job[u][s].op = "call"
  <2>1. /\ ui' = [ui EXCEPT ![u].state = "idle"]
        /\ UNCHANGED <<offer, early, pc, conn, live, net, cut>>
        /\ UNCHANGED <<seen, calls, faults, lost>>
    BY <1>1, <1>5
  <2>2. CallTypes /\ ui \in [Account -> Ui] /\ ui[u] \in Ui
    BY DEF CallInv, CallTypes
  <2>3. PICK p : p = [ui[u] EXCEPT !.state = "idle"]
    OBVIOUS
  <2>4. p \in Ui /\ p.state = "idle" /\ p.remote = ui[u].remote /\ p.stream = ui[u].stream
    BY <2>2, <2>3 DEF Ui
  <2>5. ui' = [ui EXCEPT ![u] = p]
    BY <2>1, <2>2, <2>3
  <2>6. ui' \in [Account -> Ui] /\ ui'[u] = p /\ \A w \in Account \ {u} : ui'[w] = ui[w]
    BY <2>2, <2>4, <2>5
  <2>7. /\ job' \in [Account -> [Slot -> Job]]
        /\ \A w \in Account, t \in Slot : Shaped(job'[w][t], w, t)
        /\ job'[u][s] = NoJob
        /\ \A w \in Account, t \in Slot : w # u \/ t # s => job'[w][t] = job[w][t]
        /\ \A w \in Account \ {u} : job'[w] = job[w]
    BY <1>1, <1>2, JobMoves
  <2>8. CallTypes'
    <3>1. \A w \in Account : {ui'[w].stream, seen'[w].stream, pc'[w]} \subseteq OwnOrNone(w)
      BY <2>1, <2>2, <2>4, <2>6 DEF CallTypes
    <3> QED
      BY <2>1, <2>2, <2>6, <2>7, <3>1 DEF CallTypes
  <2>9. OnlyPage(u)
    BY <2>1, <2>6, <2>7, NoMessage DEF OnlyPage
  <2>10. NumbersInv'
    <3>1. \A w \in Account, t \in Slot : job'[w][t].op # "none" => job'[w][t] = job[w][t]
      BY <1>2, <2>7
    <3>2. \A n \in Call : \A w \in Account : Placed(n, w)' => Placed(n, w)
      BY <2>1, <3>1 DEF Placed
    <3>3. \A w \in Account, t \in Slot, n \in Call : Placing(w, t, n)' => Placing(w, t, n)
      BY <3>1 DEF Placing
    <3> QED
      BY <2>1, <3>2, <3>3, NumbersKept
  <2>11. Rings(u)'
    BY <2>1, <2>4, <2>6 DEF CallInv, Rings
  <2>12. ASSUME u \notin cut'
         PROVE  Sound(u)' /\ Keeps(u)'
    <3>1. u \notin cut /\ Sound(u)
      BY <2>1, <2>12 DEF CallInv
    <3>2. InStep(u, job[u][s])
      BY <1>2, <3>1 DEF Sound
    <3>3. Off(u)
      BY <1>1, <3>2 DEF InStep
    <3>4. Off(u)'
      BY <2>1, <2>4, <2>6, <3>3 DEF Off, Lights
    <3>5. \A t \in Slot : job'[u][t] = NoJob
      BY <1>2, <2>7, <3>1 DEF Sound
    <3> QED
      BY <2>4, <2>6, <3>4, <3>5 DEF Sound, Keeps, Off, Working, WorkingBut
  <2> QED
    BY <2>8, <2>9, <2>10, <2>11, <2>12, PageStep
<1> QED
  BY <1>4, <1>5

LEMMA DescribeKeeps ==
  ASSUME CallInv, NEW u \in Account, NEW s \in Slot, Describe(u, s)
  PROVE  CallInv'
<1>1. PICK j, c : j = job[u][s] /\ c = j.conn
  OBVIOUS
<1>2. PICK f : f = IF j.op = "accept" THEN j.offer ELSE None
  OBVIOUS
<1>3. PICK q : q = IF j.op = "call" \/ early[u] = {} THEN NoJob ELSE [j EXCEPT !.step = "drain"]
  OBVIOUS
<1>4. PICK p : p = IF j.op # "call" /\ early[u] = {} THEN [ui[u] EXCEPT !.state = "active"] ELSE ui[u]
  OBVIOUS
<1>5. /\ j \in Job /\ Shaped(j, u, s) /\ j.op \in {"call", "accept"} /\ j # NoJob
      /\ NoJob.op = "none" /\ Shaped(NoJob, u, s) /\ j.step = "describe"
  BY <1>1, JobFacts DEF Describe
<1>6. /\ c \in Conn /\ c[1] = u /\ c[2] \in Call /\ c[3] = s /\ j.to \in Account \ {u} /\ c # None
      /\ f \in Conn \cup {None} /\ (j.op = "accept" => f = j.offer /\ f # None) /\ (j.op = "call" => f = None)
  BY <1>1, <1>2, <1>5, CallAssumptions DEF Shaped, Conn, Call, Job
<1>7. /\ CallTypes /\ ui \in [Account -> Ui] /\ ui[u] \in Ui
      /\ conn \in [Conn -> Connection] /\ conn[c] \in Connection
      /\ job \in [Account -> [Slot -> Job]]
  BY <1>6 DEF CallInv, CallTypes
<1>8. /\ conn[c].open
      /\ conn' = [conn EXCEPT ![c].told = TRUE, ![c].far = f]
      /\ job' = [job EXCEPT ![u][s] = q]
      /\ Described(u, j.to, IF j.op = "call" THEN "request" ELSE "accept", c)
      /\ UNCHANGED <<seen, offer, early, pc, live, calls, faults, lost, cut>>
  <2>1. /\ conn[c].open
        /\ conn' = [conn EXCEPT ![c].told = TRUE, ![c].far = f]
        /\ UNCHANGED <<seen, offer, early, pc, live, calls, faults, lost, cut>>
    BY <1>1, <1>2 DEF Describe
  <2>2. Described(u, j.to, IF j.op = "call" THEN "request" ELSE "accept", c)
    BY <1>1, <1>5 DEF Describe
  <2>3. CASE j.op = "call" \/ early[u] = {}
    <3>1. job' = [job EXCEPT ![u][s] = NoJob]
      BY <1>1, <2>3 DEF Describe
    <3>2. q = NoJob
      BY <1>3, <2>3
    <3> QED
      BY <2>1, <2>2, <3>1, <3>2
  <2>4. CASE ~(j.op = "call" \/ early[u] = {})
    <3>1. job' = [job EXCEPT ![u][s].step = "drain"]
      BY <1>1, <2>4 DEF Describe
    <3>2. q = [job[u][s] EXCEPT !.step = "drain"]
      BY <1>1, <1>3, <2>4
    <3>3. job' = [job EXCEPT ![u][s] = q]
      BY <1>7, <3>1, <3>2
    <3> QED
      BY <2>1, <2>2, <3>3
  <2> QED
    BY <2>1, <2>2, <2>3, <2>4
<1>9. ui' = [ui EXCEPT ![u] = p]
  <2>1. CASE j.op # "call" /\ early[u] = {}
    <3>1. ui' = [ui EXCEPT ![u].state = "active"]
      BY <1>1, <2>1 DEF Describe
    <3>2. p = [ui[u] EXCEPT !.state = "active"]
      BY <1>4, <2>1
    <3> QED
      BY <1>7, <3>1, <3>2
  <2>2. CASE ~(j.op # "call" /\ early[u] = {})
    <3>1. ui' = ui /\ p = ui[u]
      BY <1>1, <1>4, <2>2 DEF Describe
    <3> QED
      BY <1>7, <3>1
  <2> QED
    BY <2>1, <2>2
<1>10. /\ p \in Ui /\ p.remote = ui[u].remote /\ p.stream = ui[u].stream
       /\ p.state = IF j.op # "call" /\ early[u] = {} THEN "active" ELSE ui[u].state
  BY <1>4, <1>7 DEF Ui
<1>11. PICK k : k = [conn[c] EXCEPT !.told = TRUE, !.far = f]
  OBVIOUS
<1>12. /\ k \in Connection /\ k.open = conn[c].open /\ k.to = conn[c].to /\ k.told /\ k.far = f
       /\ k.has = conn[c].has
  BY <1>6, <1>7, <1>11 DEF Connection
<1>13. conn' = [conn EXCEPT ![c] = k]
  BY <1>6, <1>7, <1>8, <1>11
<1>14. /\ Shaped(q, u, s)
       /\ q.op # "none" => /\ q.op = "accept" /\ j.op = "accept" /\ q.conn = c /\ q.to = j.to
                           /\ q.step = "drain" /\ early[u] # {}
       /\ j.op = "accept" /\ early[u] # {} => q # NoJob
       /\ j.op = "call" \/ early[u] = {} => q = NoJob
  <2>1. CASE j.op = "call" \/ early[u] = {}
    BY <1>3, <1>5, <2>1
  <2>2. CASE ~(j.op = "call" \/ early[u] = {})
    <3>1. q = [j EXCEPT !.step = "drain"]
      BY <1>3, <2>2
    <3>2. /\ q \in Job /\ q.op = "accept" /\ j.op = "accept" /\ q.conn = c /\ q.to = j.to
          /\ q.step = "drain" /\ q.offer = j.offer
      BY <1>1, <1>5, <2>2, <3>1 DEF Job
    <3>3. Shaped(q, u, s) /\ q # NoJob
      BY <1>2, <1>5, <1>6, <3>2 DEF Shaped
    <3> QED
      BY <2>2, <3>2, <3>3
  <2> QED
    BY <2>1, <2>2
<1>15. /\ job' \in [Account -> [Slot -> Job]]
       /\ \A w \in Account, t \in Slot : Shaped(job'[w][t], w, t)
       /\ job'[u][s] = q
       /\ \A w \in Account, t \in Slot : w # u \/ t # s => job'[w][t] = job[w][t]
       /\ \A w \in Account \ {u} : job'[w] = job[w]
  BY <1>8, <1>14, JobMoves
<1>16. PICK kind \in {"request", "accept"} : kind = IF j.op = "call" THEN "request" ELSE "accept"
  OBVIOUS
<1>17. /\ NetTypes'
       /\ \A x, y \in Account : \A m : Holds(net'[x][y], m) =>
            \/ Holds(net[x][y], m)
            \/ x = u /\ y = j.to /\ m = [kind |-> kind, conn |-> c]
            \/ m = CandidateOf(c)
       /\ \A x, y \in Account : \A m : Holds(net[x][y], m) => Holds(net'[x][y], m)
  <2>1. PICK v \in Account : v = j.to
    BY <1>6
  <2>2. Described(u, v, kind, c) /\ u # v
    BY <1>6, <1>8, <1>16, <2>1
  <2> QED
    BY <1>6, <2>1, <2>2, DescribedFacts
<1>18. /\ ui'[u] = p /\ conn'[c] = k /\ ui' \in [Account -> Ui] /\ conn' \in [Conn -> Connection]
       /\ \A w \in Account \ {u} : ui'[w] = ui[w]
       /\ \A d \in Conn : d # c => conn'[d] = conn[d]
  BY <1>6, <1>7, <1>9, <1>10, <1>12, <1>13
<1>19. UNCHANGED <<seen, offer, early, pc, live, calls, faults, lost, cut>>
  BY <1>8
<1>20. CallTypes'
  <2>1. \A w \in Account : {ui'[w].stream, seen'[w].stream, pc'[w]} \subseteq OwnOrNone(w)
    BY <1>7, <1>10, <1>18, <1>19 DEF CallTypes
  <2> QED
    BY <1>7, <1>15, <1>17, <1>18, <1>19, <2>1 DEF CallTypes, NetTypes
<1>21. \A w \in Account : \A d : Coming(d, w) => Coming(d, w)'
  BY <1>17, <1>19 DEF Coming
<1>22. OnlyPage(u)
  BY <1>6, <1>15, <1>18, <1>19, <1>21 DEF OnlyPage
<1>23. NumbersInv'
  <2>1. \A w \in Account, t \in Slot : job'[w][t].op = "accept" =>
           /\ job[w][t].op = "accept" /\ job'[w][t].conn = job[w][t].conn
           /\ job'[w][t].to = job[w][t].to
    BY <1>1, <1>14, <1>15
  <2>2. /\ [kind |-> kind, conn |-> c].kind = kind /\ [kind |-> kind, conn |-> c].conn = c
        /\ CandidateOf(c).kind = "candidate"
    BY DEF CandidateOf
  <2>3. CASE j.op = "accept"
    <3>1. Placed(c[2], j.to)
      BY <1>1, <2>3 DEF Placed
    <3>2. \A x, y \in Account : \A m \in Message : Holds(net'[x][y], m) /\ m.conn # None =>
           \/ Holds(net[x][y], m)
           \/ m.kind = "request" /\ Placed(m.conn[2], x)
           \/ m.kind = "accept" /\ Placed(m.conn[2], y)
           \/ m.kind \notin {"request", "accept"}
      BY <1>16, <1>17, <2>2, <2>3, <3>1
    <3>3. \A w \in Account : offer'[w] = offer[w]
      BY <1>19
    <3>4. \A n \in Call : \A w \in Account : Placed(n, w)' => Placed(n, w)
      BY <2>1, <3>2, <3>3, PlacedShrinks
    <3>5. \A w \in Account, t \in Slot, n \in Call : Placing(w, t, n)' => Placing(w, t, n)
      BY <1>14, <1>15 DEF Placing
    <3> QED
      BY <1>19, <3>4, <3>5, NumbersKept
  <2>4. CASE j.op = "call"
    <3>1. Placing(u, s, c[2]) /\ NumbersInv
      BY <1>1, <2>4 DEF Placing, CallInv
    <3>2. /\ c[2] <= calls
          /\ \A w \in Account : ~Placed(c[2], w)
          /\ \A w \in Account, t \in Slot : Placing(w, t, c[2]) => w = u /\ t = s
      BY <1>6, <3>1 DEF NumbersInv
    <3>3. \A x, y \in Account : \A m : Holds(net'[x][y], m) /\ m.kind \in {"request", "accept"} =>
            \/ Holds(net[x][y], m)
            \/ m.kind = "request" /\ m.conn = c /\ x = u
      BY <1>16, <1>17, <2>2, <2>4
    <3>4. ASSUME NEW n, NEW w, Placed(n, w)'
          PROVE  Placed(n, w) \/ (n = c[2] /\ w = u)
      <4>1. CASE \E x \in Account : offer'[x] # None /\ offer'[x][2] = n /\ offer'[x][1] = w
        BY <1>19, <4>1 DEF Placed
      <4>2. CASE \E x, y \in Account : \E m \in Message :
                   /\ Holds(net'[x][y], m)
                   /\ m.conn # None /\ m.conn[2] = n
                   /\ \/ m.kind = "request" /\ x = w
                      \/ m.kind = "accept" /\ y = w
        BY <3>3, <4>2 DEF Placed
      <4>3. CASE \E x \in Account : \E t \in Slot :
                   job'[x][t].op = "accept" /\ job'[x][t].conn[2] = n /\ job'[x][t].to = w
        BY <2>1, <4>3 DEF Placed
      <4> QED
        BY <3>4, <4>1, <4>2, <4>3 DEF Placed, Holds
    <3>5. \A w \in Account, t \in Slot, n \in Call :
            Placing(w, t, n)' => Placing(w, t, n) /\ n # c[2]
      <4>2. ASSUME NEW w \in Account, NEW t \in Slot, NEW n \in Call, Placing(w, t, n)'
            PROVE  Placing(w, t, n) /\ n # c[2]
        <5>1. q.op # "call"
          BY <1>14, <2>4, <1>5
        <5>2. w # u \/ t # s
          BY <1>15, <4>2, <5>1 DEF Placing
        <5>3. Placing(w, t, n)
          BY <1>15, <4>2, <5>2 DEF Placing
        <5> QED
          BY <3>2, <5>2, <5>3
      <4> QED
        BY <4>2
    <3>6. \A n \in Call : \A w, x \in Account : Placed(n, w)' /\ Placed(n, x)' => w = x
      BY <3>1, <3>2, <3>4 DEF NumbersInv
    <3>7. \A n \in Call : \A w \in Account : Placed(n, w)' => n <= calls'
      BY <1>19, <3>1, <3>2, <3>4 DEF NumbersInv
    <3>8. \A w \in Account, t \in Slot, n \in Call : Placing(w, t, n)' =>
            /\ n <= calls'
            /\ \A x \in Account : ~Placed(n, x)'
            /\ \A x \in Account, y \in Slot : Placing(x, y, n)' => x = w /\ y = t
      BY <1>19, <3>1, <3>4, <3>5 DEF NumbersInv
    <3> QED
      BY <3>6, <3>7, <3>8 DEF NumbersInv
  <2> QED
    BY <1>5, <2>3, <2>4
<1>24. Rings(u)'
  BY <1>10, <1>18, <1>19 DEF CallInv, Rings
<1>25. ASSUME u \notin cut'
       PROVE  Sound(u)' /\ Keeps(u)'
  <2>1. u \notin cut /\ Sound(u) /\ Keeps(u)
    BY <1>19, <1>25 DEF CallInv
  <2>2. InStep(u, j)
    BY <1>1, <1>5, <2>1 DEF Sound
  <2>3. /\ On(u, c) /\ ui[u].remote = j.to /\ conn[c].far = None
        /\ ui[u].state = (IF j.op = "call" THEN "outgoing" ELSE "incoming")
        /\ j.op = "accept" => offer[u] # None /\ f = offer[u]
    BY <1>1, <1>5, <1>6, <2>2 DEF InStep
  <2>4. On(u, c)'
    BY <1>10, <1>12, <1>18, <1>19, <2>3 DEF On, Lights
  <2>5. \A t \in Slot : t # s => job'[u][t] = NoJob
    BY <1>1, <1>5, <1>15, <2>1 DEF Sound
  <2>6. j.op = "accept" => offer[u] \in early[u] \/ Coming(offer[u], u)
    BY <2>1, <2>3 DEF Keeps, On
  <2>7. Keeps(u)'
    <3>1. pc'[u] = c /\ conn'[pc'[u]] = k
      BY <1>18, <1>19, <2>3 DEF On
    <3>2. CASE j.op = "call"
      BY <1>6, <1>10, <1>12, <1>18, <2>3, <3>1, <3>2 DEF Keeps
    <3>3. CASE j.op = "accept"
      BY <1>6, <1>12, <1>19, <1>21, <2>3, <2>6, <3>1, <3>3 DEF Keeps
    <3> QED
      BY <1>5, <3>2, <3>3
  <2>8. CASE q = NoJob
    <3>1. ~Working(u)'
      BY <1>15, <2>5, <2>8 DEF Working, WorkingBut
    <3>2. p.state = IF j.op = "call" THEN "outgoing" ELSE "active"
      BY <1>5, <1>10, <1>14, <2>3, <2>8
    <3>3. /\ \A t \in Slot : job'[u][t] = NoJob
          /\ p.state \notin {"idle", "incoming"}
          /\ pc'[u] = c /\ conn'[pc'[u]].told
          /\ (p.state = "active" => conn'[pc'[u]].far # None)
      <4>1. \A t \in Slot : job'[u][t] = NoJob
        BY <1>15, <2>5, <2>8
      <4>2. p.state \notin {"idle", "incoming"} /\ (p.state = "active" => f # None)
        BY <1>5, <1>6, <3>2
      <4>3. pc'[u] = c /\ conn'[pc'[u]] = k
        BY <1>18, <1>19, <2>3 DEF On
      <4> QED
        BY <1>12, <4>1, <4>2, <4>3
    <3>4. On(u, pc[u])'
      BY <2>4, <3>3
    <3>5. Sound(u)'
      BY <1>18, <3>1, <3>3, <3>4 DEF Sound
    <3> QED
      BY <2>7, <3>5
  <2>9. CASE q # NoJob
    <3>1. q.op = "accept" /\ j.op = "accept" /\ q.conn = c /\ q.to = j.to /\ q.step = "drain" /\ early[u] # {}
      BY <1>5, <1>14, <2>9 DEF Shaped
    <3>2. Working(u)'
      BY <1>15, <2>9 DEF Working, WorkingBut
    <3>3. On(u, q.conn)'
      BY <2>4, <3>1
    <3>4. InStep(u, q)'
      BY <1>6, <1>10, <1>12, <1>18, <1>19, <2>3, <3>1, <3>3 DEF InStep
    <3>5. Sound(u)'
      BY <1>15, <2>5, <3>2, <3>4 DEF Sound
    <3> QED
      BY <2>7, <3>5
  <2> QED
    BY <2>8, <2>9
<1> QED
  BY <1>20, <1>22, <1>23, <1>24, <1>25, PageStep

LEMMA DescribeRefusedKeeps ==
  ASSUME CallInv, NEW u \in Account, NEW s \in Slot, DescribeRefused(u, s)
  PROVE  CallInv'
<1>1. /\ job[u][s].step = "describe" /\ ~conn[job[u][s].conn].open
      /\ job' = [job EXCEPT ![u][s] = NoJob]
      /\ UNCHANGED <<ui, seen, offer, early, pc, conn, live, net, calls, faults, lost, cut>>
  BY DEF DescribeRefused
<1>2. /\ job[u][s] # NoJob /\ NoJob.op = "none" /\ Shaped(NoJob, u, s)
  BY <1>1, JobFacts
<1>3. /\ job' \in [Account -> [Slot -> Job]]
      /\ \A w \in Account, t \in Slot : Shaped(job'[w][t], w, t)
      /\ job'[u][s] = NoJob
      /\ \A w \in Account, t \in Slot : w # u \/ t # s => job'[w][t] = job[w][t]
      /\ \A w \in Account \ {u} : job'[w] = job[w]
  BY <1>1, <1>2, JobMoves
<1>4. CallTypes'
  BY <1>1, <1>3 DEF CallInv, CallTypes
<1>5. OnlyPage(u)
  BY <1>1, <1>3, NoMessage DEF OnlyPage
<1>6. NumbersInv'
  <2>1. \A w \in Account, t \in Slot : job'[w][t].op # "none" => job'[w][t] = job[w][t]
    BY <1>2, <1>3
  <2>2. \A n \in Call : \A w \in Account : Placed(n, w)' => Placed(n, w)
    BY <1>1, <2>1 DEF Placed
  <2>3. \A w \in Account, t \in Slot, n \in Call : Placing(w, t, n)' => Placing(w, t, n)
    BY <2>1 DEF Placing
  <2> QED
    BY <1>1, <2>2, <2>3, NumbersKept
<1>7. Rings(u)'
  BY <1>1 DEF CallInv, Rings
<1>8. u \in cut'
  BY <1>1, <1>2 DEF CallInv, Sound, InStep, On
<1> QED
  BY <1>4, <1>5, <1>6, <1>7, <1>8, PageStep

(* A connection that is given candidates.                                  *)
LEMMA GivenFacts ==
  ASSUME CallInv, NEW c \in Conn, NEW D, D \subseteq Conn, conn' = Given(conn, c, D)
  PROVE  /\ conn' \in [Conn -> Connection]
         /\ \A d \in Conn : d # c => conn'[d] = conn[d]
         /\ conn'[c].open = conn[c].open /\ conn'[c].to = conn[c].to
         /\ conn'[c].told = conn[c].told /\ conn'[c].far = conn[c].far
         /\ conn'[c].has = conn[c].has \cup D
<1>1. conn \in [Conn -> Connection] /\ conn[c] \in Connection
  BY DEF CallInv, CallTypes
<1>2. PICK k : k = [conn[c] EXCEPT !.has = @ \cup D]
  OBVIOUS
<1>3. /\ k \in Connection /\ k.open = conn[c].open /\ k.to = conn[c].to
      /\ k.told = conn[c].told /\ k.far = conn[c].far /\ k.has = conn[c].has \cup D
  BY <1>1, <1>2 DEF Connection
<1>4. conn' = [conn EXCEPT ![c] = k]
  BY <1>1, <1>2 DEF Given
<1> QED
  BY <1>1, <1>3, <1>4

LEMMA DrainKeeps ==
  ASSUME CallInv, NEW u \in Account, NEW s \in Slot, Drain(u, s)
  PROVE  CallInv'
<1>1. PICK j, c : j = job[u][s] /\ c = j.conn
  OBVIOUS
<1>2. PICK p : p = [ui[u] EXCEPT !.state = "active"]
  OBVIOUS
<1>3. /\ j.step = "drain"
      /\ conn' = IF conn[c].open THEN Given(conn, c, early[u]) ELSE conn
      /\ early' = [early EXCEPT ![u] = {}]
      /\ ui' = [ui EXCEPT ![u].state = "active"]
      /\ job' = [job EXCEPT ![u][s] = NoJob]
      /\ UNCHANGED <<seen, offer, pc, live, net, calls, faults, lost, cut>>
  BY <1>1 DEF Drain, Drained
<1>4. /\ j \in Job /\ Shaped(j, u, s) /\ j.op \in {"call", "accept"} /\ j # NoJob
      /\ NoJob.op = "none" /\ Shaped(NoJob, u, s)
  BY <1>1, <1>3, JobFacts
<1>5. c \in Conn /\ c[1] = u /\ c # None /\ j.op = "accept"
  BY <1>1, <1>3, <1>4, CallAssumptions DEF Shaped, Conn, Call
<1>6. /\ CallTypes /\ ui \in [Account -> Ui] /\ ui[u] \in Ui
      /\ conn \in [Conn -> Connection] /\ early \in [Account -> SUBSET Conn] /\ early[u] \subseteq Conn
  BY DEF CallInv, CallTypes
<1>7. p \in Ui /\ p.state = "active" /\ p.remote = ui[u].remote /\ p.stream = ui[u].stream
  BY <1>2, <1>6 DEF Ui
<1>8. ui' = [ui EXCEPT ![u] = p]
  BY <1>2, <1>3, <1>6
<1>9. /\ ui' \in [Account -> Ui] /\ ui'[u] = p /\ early' \in [Account -> SUBSET Conn] /\ early'[u] = {}
      /\ \A w \in Account \ {u} : ui'[w] = ui[w] /\ early'[w] = early[w]
  BY <1>3, <1>6, <1>7, <1>8
<1>10. /\ conn' \in [Conn -> Connection]
       /\ \A d \in Conn : d # c => conn'[d] = conn[d]
       /\ conn'[c].open = conn[c].open /\ conn'[c].to = conn[c].to
       /\ conn'[c].told = conn[c].told /\ conn'[c].far = conn[c].far
       /\ conn[c].open => conn'[c].has = conn[c].has \cup early[u]
  <2>1. CASE conn[c].open
    <3>1. conn' = Given(conn, c, early[u])
      BY <1>3, <2>1
    <3> QED
      BY <1>5, <1>6, <3>1, GivenFacts
  <2>2. CASE ~conn[c].open
    BY <1>3, <1>6, <2>2
  <2> QED
    BY <2>1, <2>2
<1>11. /\ job' \in [Account -> [Slot -> Job]]
       /\ \A w \in Account, t \in Slot : Shaped(job'[w][t], w, t)
       /\ job'[u][s] = NoJob
       /\ \A w \in Account, t \in Slot : w # u \/ t # s => job'[w][t] = job[w][t]
       /\ \A w \in Account \ {u} : job'[w] = job[w]
  BY <1>3, <1>4, JobMoves
<1>12. UNCHANGED <<seen, offer, pc, live, net, calls, faults, lost, cut>>
  BY <1>3
<1>13. CallTypes'
  <2>1. \A w \in Account : {ui'[w].stream, seen'[w].stream, pc'[w]} \subseteq OwnOrNone(w)
    BY <1>6, <1>7, <1>9, <1>12 DEF CallTypes
  <2> QED
    BY <1>6, <1>9, <1>10, <1>11, <1>12, <2>1 DEF CallTypes
<1>14. OnlyPage(u)
  BY <1>5, <1>9, <1>10, <1>11, <1>12, NoMessage DEF OnlyPage
<1>15. NumbersInv'
  <2>1. \A w \in Account, t \in Slot : job'[w][t].op # "none" => job'[w][t] = job[w][t]
    BY <1>4, <1>11
  <2>2. \A n \in Call : \A w \in Account : Placed(n, w)' => Placed(n, w)
    BY <1>12, <2>1 DEF Placed
  <2>3. \A w \in Account, t \in Slot, n \in Call : Placing(w, t, n)' => Placing(w, t, n)
    BY <2>1 DEF Placing
  <2> QED
    BY <1>12, <2>2, <2>3, NumbersKept
<1>16. Rings(u)'
  BY <1>7, <1>9, <1>12 DEF CallInv, Rings
<1>17. ASSUME u \notin cut'
       PROVE  Sound(u)' /\ Keeps(u)'
  <2>1. u \notin cut /\ Sound(u) /\ Keeps(u)
    BY <1>12, <1>17 DEF CallInv
  <2>2. InStep(u, j)
    BY <1>1, <1>4, <2>1 DEF Sound
  <2>3. On(u, c) /\ conn[c].told /\ conn[c].far # None /\ pc[u] = c /\ conn[c].open
    BY <1>1, <1>3, <2>2 DEF InStep, On
  <2>4. On(u, c)'
    BY <1>7, <1>9, <1>10, <1>12, <2>3 DEF On, Lights
  <2>5. \A t \in Slot : job'[u][t] = NoJob
    BY <1>1, <1>4, <1>11, <2>1 DEF Sound
  <2>6. pc'[u] = c /\ conn'[pc'[u]].told /\ conn'[pc'[u]].far # None
    BY <1>10, <1>12, <2>3
  <2>7. On(u, pc[u])'
    BY <2>4, <2>6
  <2>8. Sound(u)'
    BY <1>7, <1>9, <2>5, <2>6, <2>7 DEF Sound, Working, WorkingBut
  <2>9. conn[c].far \in conn[c].has \cup early[u] \/ Coming(conn[c].far, u)
    BY <1>5, <2>1, <2>3 DEF Keeps
  <2>10. Keeps(u)'
    <3>1. PICK f : f = conn[c].far
      OBVIOUS
    <3>2. conn'[c].far = f /\ (f \in conn'[c].has \/ Coming(f, u)')
      BY <1>10, <1>12, <2>3, <2>9, <3>1, NoMessage
    <3> QED
      BY <1>7, <1>9, <2>6, <3>2 DEF Keeps
  <2> QED
    BY <2>8, <2>10
<1> QED
  BY <1>13, <1>14, <1>15, <1>16, <1>17, PageStep

LEMMA ButtonKeeps ==
  ASSUME CallInv, NEW u \in Account, DeclineCall(u) \/ EndCall(u)
  PROVE  CallInv'
<1>1. PICK kind \in {"decline", "end"} : Emit(u, seen[u].remote, kind, None)
  BY DEF DeclineCall, EndCall
<1>2. /\ Cleanup(u, {}) /\ UNCHANGED <<calls, faults, lost>> /\ job' = job
      /\ seen' = seen \/ Clicked(u)
  BY DEF DeclineCall, EndCall
<1>3. seen[u].remote \in Account \cup {None}
  BY DEF CallInv, CallTypes, Ui
<1>4. /\ NetTypes'
      /\ \A x, y \in Account : \A m : Holds(net'[x][y], m) /\ m.kind \notin {"decline", "end"} =>
           Holds(net[x][y], m)
      /\ \A x, y \in Account : \A c : y # u /\ Holds(net[x][y], CandidateOf(c)) =>
           Holds(net'[x][y], CandidateOf(c))
  BY <1>1, <1>3, EndsFacts
<1>5. job' = job \/ \E s \in Slot : Working(u) /\ job' = [job EXCEPT ![u][s] = NoJob]
  BY <1>2
<1> QED
  BY <1>2, <1>4, <1>5, EndKeeps

LEMMA ConnectionFailsKeeps ==
  ASSUME CallInv, NEW c \in Conn, ConnectionFails(c)
  PROVE  CallInv'
<1>1. PICK u \in Account : u = c[1]
  BY DEF Conn
<1>2. Cleanup(u, {}) /\ UNCHANGED <<calls, faults, lost>> /\ job' = job /\ seen' = seen /\ net' = net
  BY <1>1 DEF ConnectionFails
<1>3. NetTypes'
  BY <1>2 DEF CallInv, CallTypes, NetTypes
<1>4. /\ seen' = seen \/ Clicked(u)
      /\ job' = job \/ \E s \in Slot : Working(u) /\ job' = [job EXCEPT ![u][s] = NoJob]
      /\ \A x, y \in Account : \A m : Holds(net'[x][y], m) => Holds(net[x][y], m)
      /\ \A x, y \in Account : \A m : Holds(net[x][y], m) => Holds(net'[x][y], m)
  BY <1>2
<1> QED
  BY <1>2, <1>3, <1>4, EndKeeps

LEMMA OverKeeps ==
  ASSUME CallInv, NEW u \in Account, NEW v \in Account, Over(v, u)
  PROVE  CallInv'
<1>1. /\ net[v][u] # << >> /\ net' = Taken(v, u)
      /\ Cleanup(u, {}) /\ UNCHANGED <<calls, faults, lost>> /\ job' = job /\ seen' = seen
  BY DEF Over, Arrives
<1>2. /\ NetTypes'
      /\ \A x, y \in Account : \A m : Holds(net'[x][y], m) => Holds(net[x][y], m)
      /\ \A x, y \in Account : \A m : Holds(net[x][y], m) =>
           Holds(net'[x][y], m) \/ (x = v /\ y = u /\ m = Head(net[v][u]))
  BY <1>1, TakenFacts
<1>3. /\ seen' = seen \/ Clicked(u)
      /\ job' = job \/ \E s \in Slot : Working(u) /\ job' = [job EXCEPT ![u][s] = NoJob]
      /\ \A x, y \in Account : \A c : y # u /\ Holds(net[x][y], CandidateOf(c)) =>
           Holds(net'[x][y], CandidateOf(c))
  BY <1>1, <1>2
<1> QED
  BY <1>1, <1>2, <1>3, EndKeeps

-----------------------------------------------------------------------------
(* The head of a queue.                                                    *)
LEMMA HeadFacts ==
  ASSUME CallInv, NEW u \in Account, NEW v \in Account, net[v][u] # << >>, NEW m,
         m = Head(net[v][u]), NEW kinds, Arrives(v, u, kinds)
  PROVE  /\ m \in Message /\ Holds(net[v][u], m) /\ m.kind \in kinds
         /\ m.kind = "request" => m.conn[1] = v /\ u # v
         /\ m.kind \in {"request", "accept", "candidate"} => m.conn # None /\ m.conn \in Conn
         /\ m.kind \in {"request", "accept"} => Holds(Tail(net[v][u]), CandidateOf(m.conn))
<1>1. PICK q : q = net[v][u]
  OBVIOUS
<1>2. Proper(q, v, u) /\ q # << >> /\ m = Head(q)
  BY <1>1 DEF CallInv, CallTypes
<1>3. /\ Proper(Tail(q), v, u)
      /\ Head(q) \in Message /\ Holds(q, Head(q))
      /\ \A k : Holds(Tail(q), k) => Holds(q, k)
      /\ \A k : Holds(q, k) => k = Head(q) \/ Holds(Tail(q), k)
      /\ Head(q).kind = "request" => Head(q).conn[1] = v /\ u # v
      /\ Head(q).kind \in {"request", "accept", "candidate"} => Head(q).conn # None
      /\ Head(q).kind \in {"request", "accept"} => Holds(Tail(q), CandidateOf(Head(q).conn))
  BY ONLY <1>2, QueueTail
<1>4. m.conn \in Conn \cup {None}
  BY <1>2, <1>3 DEF Message
<1>5. m.kind \in kinds
  BY DEF Arrives
<1> QED
  BY <1>1, <1>2, <1>3, <1>4, <1>5

(* A request that is refused: one message is taken, and another sent.      *)
LEMMA RefusedFacts ==
  ASSUME CallInv, NEW u \in Account, NEW v \in Account, net[v][u] # << >>, u # v,
         net' = [Taken(v, u) EXCEPT ![u][v] = Append(@, [kind |-> "decline", conn |-> None])]
  PROVE  /\ NetTypes'
         /\ \A x, y \in Account : \A m : Holds(net'[x][y], m) => Holds(net[x][y], m) \/ m.kind = "decline"
         /\ \A x, y \in Account : \A m : Holds(net[x][y], m) =>
              Holds(net'[x][y], m) \/ (x = v /\ y = u /\ m = Head(net[v][u]))
<1>1. NetTypes
  BY DEF CallInv, CallTypes, NetTypes
<1>2. PICK p, q, r : p = Tail(net[v][u]) /\ q = net[u][v]
                     /\ r = Append(q, [kind |-> "decline", conn |-> None])
  OBVIOUS
<1>3. /\ Proper(p, v, u)
      /\ \A m : Holds(p, m) => Holds(net[v][u], m)
      /\ \A m : Holds(net[v][u], m) => m = Head(net[v][u]) \/ Holds(p, m)
  <2>1. PICK o : o = net[v][u]
    OBVIOUS
  <2>2. Proper(o, v, u) /\ o # << >>
    BY <1>1, <2>1 DEF NetTypes
  <2>3. /\ Proper(Tail(o), v, u)
        /\ \A m : Holds(Tail(o), m) => Holds(o, m)
        /\ \A m : Holds(o, m) => m = Head(o) \/ Holds(Tail(o), m)
    BY <2>2, QueueTail
  <2> QED
    BY <1>2, <2>1, <2>3
<1>4. /\ Proper(r, u, v)
      /\ \A m : Holds(q, m) => Holds(r, m)
      /\ \A m : Holds(r, m) => Holds(q, m) \/ m.kind = "decline"
  <2>1. Proper(q, u, v)
    BY <1>1, <1>2 DEF NetTypes
  <2>2. PICK kind \in {"decline", "end"} : kind = "decline"
    OBVIOUS
  <2>3. r = Append(q, [kind |-> kind, conn |-> None])
    BY <1>2, <2>2
  <2>4. /\ Proper(r, u, v)
        /\ \A m : Holds(q, m) => Holds(r, m)
        /\ \A m : Holds(r, m) => Holds(q, m) \/ m.kind = kind
    BY <2>1, <2>3, QueueEnds
  <2> QED
    BY <2>2, <2>4
<1>5. p \in Seq(Message) /\ r \in Seq(Message)
  BY <1>3, <1>4 DEF Proper
<1>6. net' = [[net EXCEPT ![v][u] = p] EXCEPT ![u][v] = Append(@, [kind |-> "decline", conn |-> None])]
  BY <1>2 DEF Taken
<1>7. PICK n : n = [net EXCEPT ![v][u] = p]
  OBVIOUS
<1>8. /\ n \in [Account -> [Account -> Seq(Message)]] /\ n[v][u] = p
      /\ \A x, y \in Account : ~(x = v /\ y = u) => n[x][y] = net[x][y]
      /\ n[u][v] = q
  BY <1>1, <1>2, <1>5, <1>7 DEF NetTypes
<1>9. net' = [n EXCEPT ![u][v] = r]
  BY <1>2, <1>6, <1>7, <1>8
<1>10. /\ net' \in [Account -> [Account -> Seq(Message)]] /\ net'[v][u] = p /\ net'[u][v] = r
       /\ \A x, y \in Account : ~(x = v /\ y = u) /\ ~(x = u /\ y = v) => net'[x][y] = net[x][y]
  <2>0. u \in Account /\ v \in Account /\ u # v
    OBVIOUS
  <2>1. \A x, y \in Account : net'[x][y] = IF x = u /\ y = v THEN r ELSE n[x][y]
    BY ONLY <1>8, <1>9, <2>0
  <2>2. net' \in [Account -> [Account -> Seq(Message)]]
    BY ONLY <1>5, <1>8, <1>9, <2>0
  <2> QED
    BY ONLY <1>8, <2>0, <2>1, <2>2
<1>11. NetTypes'
  <2> SUFFICES ASSUME NEW x \in Account, NEW y \in Account
               PROVE  Proper(net'[x][y], x, y)
    BY <1>10 DEF NetTypes
  <2> QED
    BY <1>1, <1>3, <1>4, <1>10 DEF NetTypes
<1>12. \A x, y \in Account : \A m :
         Holds(net'[x][y], m) => Holds(net[x][y], m) \/ m.kind = "decline"
  <2> SUFFICES ASSUME NEW x \in Account, NEW y \in Account, NEW m, Holds(net'[x][y], m)
               PROVE  Holds(net[x][y], m) \/ m.kind = "decline"
    OBVIOUS
  <2>1. CASE x = v /\ y = u
    BY <1>3, <1>10, <2>1
  <2>2. CASE x = u /\ y = v
    BY <1>2, <1>4, <1>10, <2>2
  <2>3. CASE ~(x = v /\ y = u) /\ ~(x = u /\ y = v)
    BY <1>10, <2>3
  <2> QED
    BY <2>1, <2>2, <2>3
<1>13. \A x, y \in Account : \A m : Holds(net[x][y], m) =>
         Holds(net'[x][y], m) \/ (x = v /\ y = u /\ m = Head(net[v][u]))
  BY <1>2, <1>3, <1>4, <1>10
<1> QED
  BY <1>11, <1>12, <1>13

LEMMA IncomingKeeps ==
  ASSUME CallInv, NEW u \in Account, NEW v \in Account, Incoming(v, u)
  PROVE  CallInv'
<1>1. net[v][u] # << >> /\ Arrives(v, u, {"request"})
      /\ UNCHANGED <<seen, early, pc, conn, live, job, calls, faults, lost>>
  BY DEF Incoming, Arrives
<1>2. PICK m : m = Head(net[v][u])
  OBVIOUS
<1>3. /\ m \in Message /\ Holds(net[v][u], m) /\ m.kind = "request"
      /\ m.conn[1] = v /\ u # v /\ m.conn # None /\ m.conn \in Conn
      /\ Holds(Tail(net[v][u]), CandidateOf(m.conn))
  BY <1>1, <1>2, HeadFacts
<1>4. CallTypes /\ ui \in [Account -> Ui] /\ ui[u] \in Ui /\ offer \in [Account -> Conn \cup {None}]
      /\ cut \subseteq Account
  BY DEF CallInv, CallTypes
<1>5. \A d : CandidateOf(d) # m
  BY <1>3 DEF CandidateOf
<1>6. CASE seen[u].state # "idle"
  <2>1. /\ net' = [Taken(v, u) EXCEPT ![u][v] = Append(@, [kind |-> "decline", conn |-> None])]
        /\ UNCHANGED <<ui, offer, cut>>
    BY <1>6 DEF Incoming
  <2>2. /\ NetTypes'
        /\ \A x, y \in Account : \A k : Holds(net'[x][y], k) => Holds(net[x][y], k) \/ k.kind = "decline"
        /\ \A x, y \in Account : \A k : Holds(net[x][y], k) =>
              Holds(net'[x][y], k) \/ (x = v /\ y = u /\ k = Head(net[v][u]))
    <3>1. net[v][u] # << >> /\ u # v
      BY <1>1, <1>3
    <3> QED
      BY <2>1, <3>1, RefusedFacts
  <2>3. \A w \in Account : \A d : Coming(d, w) => Coming(d, w)'
    <3>1. \A x, y \in Account : \A k : Holds(net[x][y], k) => Holds(net'[x][y], k) \/ k = m
      BY <1>2, <2>2
    <3> QED
      BY <1>1, <1>5, <3>1 DEF Coming
  <2>4. CallTypes'
    BY <1>1, <1>4, <2>1, <2>2 DEF CallTypes, NetTypes
  <2>5. OnlyPage(u)
    BY <1>1, <2>1, <2>3 DEF OnlyPage
  <2>6. NumbersInv'
    <3>1. \A x, y \in Account : \A k \in Message : Holds(net'[x][y], k) /\ k.conn # None =>
             Holds(net[x][y], k) \/ k.kind \notin {"request", "accept"}
      BY <2>2
    <3>2. \A n \in Call : \A w \in Account : Placed(n, w)' => Placed(n, w)
      BY <1>1, <2>1, <3>1, PlacedShrinks
    <3>3. \A w \in Account, t \in Slot, n \in Call : Placing(w, t, n)' => Placing(w, t, n)
      BY <1>1 DEF Placing
    <3> QED
      BY <1>1, <3>2, <3>3, NumbersKept
  <2>7. Rings(u)'
    BY <1>1, <2>1 DEF CallInv, Rings
  <2>8. ASSUME u \notin cut'
        PROVE  Sound(u)' /\ Keeps(u)'
    <3>1. Sound(u) /\ Keeps(u)
      BY <2>1, <2>8 DEF CallInv
    <3>2. Sound(u)'
      BY <1>1, <2>1, <3>1 DEF Sound, Working, WorkingBut, Off, On, InStep, Lights
    <3>3. Keeps(u)'
      BY <1>1, <2>1, <2>3, <3>1 DEF Keeps
    <3> QED
      BY <3>2, <3>3
  <2> QED
    BY <2>4, <2>5, <2>6, <2>7, <2>8, PageStep
<1>7. CASE seen[u].state = "idle"
  <2>1. /\ net' = Taken(v, u)
        /\ ui' = [ui EXCEPT ![u].state = "incoming", ![u].remote = v]
        /\ offer' = [offer EXCEPT ![u] = m.conn]
        /\ cut' = IF Working(u) \/ ui[u].state # "idle" THEN cut \cup {u} ELSE cut
    BY <1>2, <1>7 DEF Incoming
  <2>2. /\ NetTypes'
        /\ \A x, y \in Account : \A k : Holds(net'[x][y], k) => Holds(net[x][y], k)
        /\ \A x, y \in Account : \A k : Holds(net[x][y], k) =>
              Holds(net'[x][y], k) \/ (x = v /\ y = u /\ k = Head(net[v][u]))
        /\ net'[v][u] = Tail(net[v][u])
    BY <1>1, <2>1, TakenFacts
  <2>3. \A w \in Account : \A d : Coming(d, w) => Coming(d, w)'
    BY <1>1, <1>2, <1>5, <2>2 DEF Coming
  <2>4. PICK p : p = [ui[u] EXCEPT !.state = "incoming", !.remote = v]
    OBVIOUS
  <2>5. p \in Ui /\ p.state = "incoming" /\ p.remote = v /\ p.stream = ui[u].stream
    BY <1>4, <2>4 DEF Ui
  <2>6. ui' = [ui EXCEPT ![u] = p]
    BY <1>4, <2>1, <2>4
  <2>7. /\ ui' \in [Account -> Ui] /\ ui'[u] = p /\ offer' \in [Account -> Conn \cup {None}]
        /\ offer'[u] = m.conn /\ cut' \subseteq Account
        /\ \A w \in Account \ {u} : ui'[w] = ui[w] /\ offer'[w] = offer[w]
        /\ \A w \in Account \ {u} : w \in cut' <=> w \in cut
    BY <1>3, <1>4, <2>1, <2>5, <2>6
  <2>8. CallTypes'
    <3>1. \A w \in Account : {ui'[w].stream, seen'[w].stream, pc'[w]} \subseteq OwnOrNone(w)
      BY <1>1, <1>4, <2>5, <2>7 DEF CallTypes
    <3> QED
      BY <1>1, <1>4, <2>2, <2>7, <3>1 DEF CallTypes, NetTypes
  <2>9. OnlyPage(u)
    BY <1>1, <2>3, <2>7 DEF OnlyPage
  <2>10. NumbersInv'
    <3>1. Placed(m.conn[2], v)
      BY <1>3 DEF Placed
    <3>2. \A w \in Account : offer'[w] # None =>
            offer'[w] = offer[w] \/ Placed(offer'[w][2], offer'[w][1])
      BY <1>3, <2>7, <3>1
    <3>3. \A n \in Call : \A w \in Account : Placed(n, w)' => Placed(n, w)
      BY <1>1, <2>2, <3>2, PlacedShrinks
    <3>4. \A w \in Account, t \in Slot, n \in Call : Placing(w, t, n)' => Placing(w, t, n)
      BY <1>1 DEF Placing
    <3> QED
      BY <1>1, <3>3, <3>4, NumbersKept
  <2>11. Rings(u)'
    BY <1>1, <1>3, <1>7, <2>5, <2>7 DEF Rings
  <2>12. ASSUME u \notin cut'
         PROVE  Sound(u)' /\ Keeps(u)'
    <3>1. u \notin cut /\ ~Working(u) /\ ui[u].state = "idle"
      BY <2>1, <2>12
    <3>2. Off(u)
      BY <3>1 DEF CallInv, Sound
    <3>3. Off(u)'
      BY <1>1, <2>5, <2>7, <3>2 DEF Off, Lights
    <3>4. \A t \in Slot : job'[u][t] = NoJob
      BY <1>1, <3>1 DEF Working, WorkingBut
    <3>5. Sound(u)'
      BY <2>5, <2>7, <3>3, <3>4 DEF Sound, Working, WorkingBut
    <3>6. Coming(m.conn, u)'
      BY <1>3, <2>2 DEF Coming
    <3>7. Keeps(u)'
      BY <2>7, <3>3, <3>6 DEF Keeps, Off
    <3> QED
      BY <3>5, <3>7
  <2> QED
    BY <2>8, <2>9, <2>10, <2>11, <2>12, PageStep
<1> QED
  BY <1>6, <1>7

LEMMA CandidateKeeps ==
  ASSUME CallInv, NEW u \in Account, NEW v \in Account, Candidate(v, u)
  PROVE  CallInv'
<1>1. /\ net[v][u] # << >> /\ Arrives(v, u, {"candidate"}) /\ net' = Taken(v, u)
      /\ UNCHANGED <<ui, seen, offer, pc, live, job, calls, faults, lost, cut>>
  BY DEF Candidate, Arrives
<1>2. PICK m, c, d : m = Head(net[v][u]) /\ c = pc[u] /\ d = m.conn
  OBVIOUS
<1>3. /\ m \in Message /\ m.kind = "candidate" /\ d # None /\ d \in Conn
  BY <1>1, <1>2, HeadFacts
<1>4. \A e : CandidateOf(e) = m => e = d
  BY <1>2, <1>3 DEF CandidateOf
<1>5. IF c # None /\ conn[c].far # None
      THEN conn' = Given(conn, c, {d}) /\ UNCHANGED early
      ELSE early' = [early EXCEPT ![u] = @ \cup {d}] /\ UNCHANGED conn
  BY <1>2 DEF Candidate
<1>6. /\ NetTypes'
      /\ \A x, y \in Account : \A k : Holds(net'[x][y], k) => Holds(net[x][y], k)
      /\ \A x, y \in Account : \A k : Holds(net[x][y], k) =>
            Holds(net'[x][y], k) \/ (x = v /\ y = u /\ k = Head(net[v][u]))
  BY <1>1, TakenFacts
<1>7. \A e : Coming(e, u) => Coming(e, u)' \/ e = d
  BY <1>1, <1>2, <1>4, <1>6 DEF Coming
<1>8. \A w \in Account \ {u} : \A e : Coming(e, w) => Coming(e, w)'
  BY <1>1, <1>6 DEF Coming
<1>9. /\ CallTypes /\ c \in OwnOrNone(u) /\ early \in [Account -> SUBSET Conn]
      /\ conn \in [Conn -> Connection] /\ (c # None => c \in Conn /\ c[1] = u)
      /\ \A e \in Conn : e[1] # u => e # c
  BY <1>2, CallAssumptions DEF CallInv, CallTypes, OwnOrNone, Conn, Call
<1>10. /\ early' \in [Account -> SUBSET Conn] /\ early[u] \subseteq early'[u]
       /\ \A w \in Account \ {u} : early'[w] = early[w]
       /\ conn' \in [Conn -> Connection]
       /\ \A e \in Conn : e # c => conn'[e] = conn[e]
       /\ \A e \in Conn : /\ conn'[e].open = conn[e].open /\ conn'[e].to = conn[e].to
                           /\ conn'[e].told = conn[e].told /\ conn'[e].far = conn[e].far
                           /\ conn[e].has \subseteq conn'[e].has
       /\ IF c # None /\ conn[c].far # None THEN d \in conn'[c].has ELSE d \in early'[u]
  <2>1. CASE c # None /\ conn[c].far # None
    <3>1. conn' = Given(conn, c, {d}) /\ early' = early
      BY <1>5, <2>1
    <3>2. /\ conn' \in [Conn -> Connection]
          /\ \A e \in Conn : e # c => conn'[e] = conn[e]
          /\ conn'[c].open = conn[c].open /\ conn'[c].to = conn[c].to
          /\ conn'[c].told = conn[c].told /\ conn'[c].far = conn[c].far
          /\ conn'[c].has = conn[c].has \cup {d}
      <4>1. PICK D : D = {d}
        OBVIOUS
      <4>2. conn' = Given(conn, c, D) /\ D \subseteq Conn /\ c \in Conn
        BY <1>3, <1>9, <2>1, <3>1, <4>1
      <4> QED
        BY <4>1, <4>2, GivenFacts
    <3> QED
      BY <1>9, <2>1, <3>1, <3>2
  <2>2. CASE ~(c # None /\ conn[c].far # None)
    <3>1. early' = [early EXCEPT ![u] = early[u] \cup {d}] /\ conn' = conn
      BY <1>5, <2>2
    <3> QED
      BY <1>3, <1>9, <2>2, <3>1
  <2> QED
    BY <2>1, <2>2
<1>11. CallTypes'
  BY <1>1, <1>6, <1>9, <1>10 DEF CallTypes, NetTypes
<1>12. OnlyPage(u)
  BY <1>1, <1>8, <1>9, <1>10 DEF OnlyPage
<1>13. NumbersInv'
  <2>1. \A n \in Call : \A w \in Account : Placed(n, w)' => Placed(n, w)
    BY <1>1, <1>6, PlacedShrinks
  <2>2. \A w \in Account, t \in Slot, n \in Call : Placing(w, t, n)' => Placing(w, t, n)
    BY <1>1 DEF Placing
  <2> QED
    BY <1>1, <2>1, <2>2, NumbersKept
<1>14. Rings(u)'
  BY <1>1 DEF CallInv, Rings
<1>15. ASSUME u \notin cut'
       PROVE  Sound(u)' /\ Keeps(u)'
  <2>1. Sound(u) /\ Keeps(u)
    BY <1>1, <1>15 DEF CallInv
  <2>2. \A e \in Conn : On(u, e) => On(u, e)'
    BY <1>1, <1>10 DEF On, Lights
  <2>3. On(u, pc[u]) => On(u, pc[u])' /\ pc[u] \in Conn
    BY <1>1, <1>2, <1>9, <2>2 DEF On
  <2>4. Off(u)' = Off(u)
    BY <1>1 DEF Off, Lights
  <2>5. ASSUME NEW s \in Slot, job[u][s] # NoJob
        PROVE  InStep(u, job[u][s])'
    <3>1. InStep(u, job[u][s]) /\ job[u][s].conn \in Conn
      BY <2>1, <2>5, JobFacts DEF Sound, Shaped
    <3> QED
      BY <1>1, <1>10, <2>2, <2>4, <3>1 DEF InStep
  <2>6. Sound(u)'
    BY <1>1, <1>10, <2>1, <2>3, <2>4, <2>5 DEF Sound, Working, WorkingBut
  <2>7. Keeps(u)'
    BY <1>1, <1>2, <1>7, <1>9, <1>10, <2>1 DEF Keeps
  <2> QED
    BY <2>6, <2>7
<1> QED
  BY <1>11, <1>12, <1>13, <1>14, <1>15, PageStep

LEMMA AcceptedKeeps ==
  ASSUME CallInv, NEW u \in Account, NEW v \in Account, Accepted(v, u)
  PROVE  CallInv'
<1>1. /\ net[v][u] # << >> /\ Arrives(v, u, {"accept"}) /\ net' = Taken(v, u)
      /\ UNCHANGED <<seen, offer, pc, live, job, calls, faults, lost>>
  BY DEF Accepted, Arrives
<1>2. PICK m, c, d : m = Head(net[v][u]) /\ c = pc[u] /\ d = m.conn
  OBVIOUS
<1>3. /\ m \in Message /\ m.kind = "accept" /\ d # None /\ d \in Conn /\ Holds(net[v][u], m)
      /\ Holds(Tail(net[v][u]), CandidateOf(d))
  BY <1>1, <1>2, HeadFacts
<1>4. \A e : CandidateOf(e) # m
  BY <1>3 DEF CandidateOf
<1>5. /\ NetTypes'
      /\ \A x, y \in Account : \A k : Holds(net'[x][y], k) => Holds(net[x][y], k)
      /\ \A x, y \in Account : \A k : Holds(net[x][y], k) =>
            Holds(net'[x][y], k) \/ (x = v /\ y = u /\ k = Head(net[v][u]))
      /\ net'[v][u] = Tail(net[v][u])
  BY <1>1, TakenFacts
<1>6. \A w \in Account : \A e : Coming(e, w) => Coming(e, w)'
  <2>1. \A x, y \in Account : \A k : Holds(net[x][y], k) => Holds(net'[x][y], k) \/ k = m
    BY <1>2, <1>5
  <2> QED
    BY <1>1, <1>4, <2>1 DEF Coming
<1>7. Coming(d, u)'
  BY <1>3, <1>5 DEF Coming
<1>8. /\ CallTypes /\ c \in OwnOrNone(u) /\ early \in [Account -> SUBSET Conn]
      /\ conn \in [Conn -> Connection] /\ (c # None => c \in Conn /\ c[1] = u /\ c[2] \in Call)
      /\ \A e \in Conn : e[1] # u => e # c
      /\ ui \in [Account -> Ui] /\ ui[u] \in Ui /\ cut \subseteq Account
  BY <1>2, CallAssumptions DEF CallInv, CallTypes, OwnOrNone, Conn, Call
<1>9. NumbersInv'
  <2>1. \A n \in Call : \A w \in Account : Placed(n, w)' => Placed(n, w)
    BY <1>1, <1>5, PlacedShrinks
  <2>2. \A w \in Account, t \in Slot, n \in Call : Placing(w, t, n)' => Placing(w, t, n)
    BY <1>1 DEF Placing
  <2> QED
    BY <1>1, <2>1, <2>2, NumbersKept
<1>10. CASE c = None
  <2>1. UNCHANGED <<ui, conn, early, cut>>
    BY <1>2, <1>10 DEF Accepted
  <2>2. CallTypes'
    BY <1>1, <1>5, <1>8, <2>1 DEF CallTypes, NetTypes
  <2>3. OnlyPage(u)
    BY <1>1, <1>6, <2>1 DEF OnlyPage
  <2>4. Rings(u)'
    BY <1>1, <2>1 DEF CallInv, Rings
  <2>5. ASSUME u \notin cut'
        PROVE  Sound(u)' /\ Keeps(u)'
    <3>1. Sound(u) /\ Keeps(u)
      BY <2>1, <2>5 DEF CallInv
    <3>2. Sound(u)'
      BY <1>1, <2>1, <3>1 DEF Sound, Working, WorkingBut, Off, On, InStep, Lights
    <3>3. Keeps(u)'
      BY <1>1, <1>6, <2>1, <3>1 DEF Keeps
    <3> QED
      BY <3>2, <3>3
  <2> QED
    BY <1>9, <2>2, <2>3, <2>4, <2>5, PageStep
<1>11. CASE c # None
  <2>1. /\ ui' = [ui EXCEPT ![u].state = "active"]
        /\ IF conn[c].told /\ conn[c].far = None
           THEN /\ conn' = [conn EXCEPT ![c] = Answered(@, d, early[u])]
                /\ early' = [early EXCEPT ![u] = {}]
           ELSE UNCHANGED <<conn, early>>
        /\ cut' = IF c[2] # d[2] THEN cut \cup {u} ELSE cut
    BY <1>2, <1>11 DEF Accepted, Drained
  <2>2. PICK p : p = [ui[u] EXCEPT !.state = "active"]
    OBVIOUS
  <2>3. p \in Ui /\ p.state = "active" /\ p.remote = ui[u].remote /\ p.stream = ui[u].stream
    BY <1>8, <2>2 DEF Ui
  <2>4. ui' = [ui EXCEPT ![u] = p]
    BY <1>8, <2>1, <2>2
  <2>5. /\ ui' \in [Account -> Ui] /\ ui'[u] = p /\ cut' \subseteq Account
        /\ \A w \in Account \ {u} : ui'[w] = ui[w] /\ (w \in cut' <=> w \in cut)
    BY <1>8, <2>1, <2>3, <2>4
  <2>6. /\ early' \in [Account -> SUBSET Conn] /\ conn' \in [Conn -> Connection]
        /\ \A w \in Account \ {u} : early'[w] = early[w]
        /\ \A e \in Conn : e # c => conn'[e] = conn[e]
        /\ conn'[c].open = conn[c].open /\ conn'[c].to = conn[c].to /\ conn'[c].told = conn[c].told
        /\ IF conn[c].told /\ conn[c].far = None
           THEN conn'[c].far = d
           ELSE conn'[c] = conn[c] /\ early' = early
    <3>1. CASE conn[c].told /\ conn[c].far = None
      <4>1. PICK k : k = Answered(conn[c], d, early[u])
        OBVIOUS
      <4>2. conn[c] \in Connection /\ early[u] \subseteq Conn
        BY <1>8, <1>11
      <4>3. k \in Connection /\ k.open = conn[c].open /\ k.to = conn[c].to /\ k.told = conn[c].told
            /\ k.far = d
        BY <1>3, <4>1, <4>2 DEF Connection, Answered
      <4>4. conn' = [conn EXCEPT ![c] = k] /\ early' = [early EXCEPT ![u] = {}]
        BY <1>8, <1>11, <2>1, <3>1, <4>1
      <4> QED
        BY <1>8, <1>11, <3>1, <4>3, <4>4
    <3>2. CASE ~(conn[c].told /\ conn[c].far = None)
      <4>1. conn' = conn /\ early' = early
        BY <2>1, <3>2
      <4> QED
        BY <1>8, <3>2, <4>1
    <3> QED
      BY <3>1, <3>2
  <2>7. CallTypes'
    <3>1. \A w \in Account : {ui'[w].stream, seen'[w].stream, pc'[w]} \subseteq OwnOrNone(w)
      BY <1>1, <1>8, <2>3, <2>5 DEF CallTypes
    <3> QED
      BY <1>1, <1>5, <1>8, <2>5, <2>6, <3>1 DEF CallTypes, NetTypes
  <2>8. OnlyPage(u)
    BY <1>1, <1>6, <1>8, <2>5, <2>6 DEF OnlyPage
  <2>9. Rings(u)'
    BY <1>1, <2>3, <2>5 DEF CallInv, Rings
  <2>10. ASSUME u \notin cut'
         PROVE  Sound(u)' /\ Keeps(u)'
    <3>1. u \notin cut /\ Sound(u) /\ Keeps(u) /\ c[2] = d[2]
      BY <2>1, <2>10 DEF CallInv
    <3>2. Placed(c[2], u) /\ c[2] \in Call
      BY <1>2, <1>3, <1>8, <1>11, <3>1 DEF Placed
    <3>3. ~Working(u)
      <4> SUFFICES ASSUME NEW s \in Slot, job[u][s] # NoJob
                   PROVE  FALSE
        BY DEF Working, WorkingBut
      <4>1. InStep(u, job[u][s]) /\ Shaped(job[u][s], u, s) /\ job[u][s].op \in {"call", "accept"}
        BY <3>1, JobFacts DEF Sound, Shaped, Job
      <4>2. job[u][s].step # "media"
        BY <1>2, <1>11, <4>1 DEF InStep, Off
      <4>3. job[u][s].step \in {"describe", "drain"}
        BY <4>1, <4>2 DEF Shaped
      <4>4. job[u][s].conn = c
        BY <1>2, <4>1, <4>3 DEF InStep, On
      <4>5. CASE job[u][s].op = "call"
        <5>1. Placing(u, s, c[2])
          BY <4>4, <4>5 DEF Placing
        <5> QED
          BY <3>2, <5>1 DEF CallInv, NumbersInv
      <4>6. CASE job[u][s].op = "accept"
        <5>1. Placed(c[2], job[u][s].to) /\ job[u][s].to \in Account \ {u}
          BY <4>1, <4>4, <4>6 DEF Placed, Shaped
        <5> QED
          BY <3>2, <5>1 DEF CallInv, NumbersInv
      <4> QED
        BY <4>1, <4>5, <4>6
    <3>4. ui[u].state \in {"outgoing", "active"}
      BY <1>2, <1>8, <1>11, <3>1, <3>3 DEF Sound, Off, Ui
    <3>5. On(u, c) /\ conn[c].told
      BY <1>2, <3>1, <3>3, <3>4 DEF Sound
    <3>6. On(u, c)'
      BY <1>1, <2>3, <2>5, <2>6, <3>5 DEF On, Lights
    <3>7. pc'[u] = c /\ conn'[c].told /\ conn'[c].far # None
      BY <1>1, <1>2, <1>3, <2>6, <3>5
    <3>8. \A t \in Slot : job'[u][t] = NoJob
      BY <1>1, <3>3 DEF Working, WorkingBut
    <3>9. On(u, pc[u])'
      BY <3>6, <3>7
    <3>10. Sound(u)'
      BY <2>3, <2>5, <3>7, <3>8, <3>9 DEF Sound, Working, WorkingBut
    <3>11. conn'[c].far \in conn'[c].has \cup early'[u] \/ \E e : e = conn'[c].far /\ Coming(e, u)'
      <4>1. CASE conn[c].told /\ conn[c].far = None
        BY <1>7, <2>6, <4>1
      <4>2. CASE ~(conn[c].told /\ conn[c].far = None)
        <5>1. conn'[c] = conn[c] /\ early' = early /\ conn[c].far # None
          BY <2>6, <3>5, <4>2
        <5>2. PICK e : e = conn[c].far
          OBVIOUS
        <5>3. e \in conn[c].has \cup early[u] \/ Coming(e, u)
          BY <1>2, <1>11, <3>1, <5>1, <5>2 DEF Keeps
        <5> QED
          BY <1>6, <5>1, <5>2, <5>3
      <4> QED
        BY <4>1, <4>2
    <3>12. Keeps(u)'
      BY <2>3, <2>5, <3>7, <3>11 DEF Keeps
    <3> QED
      BY <3>10, <3>12
  <2> QED
    BY <1>9, <2>7, <2>8, <2>9, <2>10, PageStep
<1> QED
  BY <1>10, <1>11

LEMMA ReloadKeeps ==
  ASSUME CallInv, NEW u \in Account, Reload(u)
  PROVE  CallInv'
<1>1. /\ faults < MaxFaults /\ faults' = faults + 1
      /\ ui' = [ui EXCEPT ![u] = NoUi]
      /\ seen' = [seen EXCEPT ![u] = NoUi]
      /\ offer' = [offer EXCEPT ![u] = None]
      /\ early' = [early EXCEPT ![u] = {}]
      /\ pc' = [pc EXCEPT ![u] = None]
      /\ conn' = [c \in Conn |-> IF c[1] = u /\ conn[c].made THEN Closed ELSE conn[c]]
      /\ live' = {c \in live : c[1] # u}
      /\ job' = [job EXCEPT ![u] = [s \in Slot |-> NoJob]]
      /\ net' = [v \in Account |-> [net[v] EXCEPT ![u] = << >>]]
      /\ cut' = cut \ {u}
      /\ calls' = calls /\ lost' = lost
  BY DEF Reload
<1>2. /\ CallTypes /\ ui \in [Account -> Ui] /\ seen \in [Account -> Ui]
      /\ offer \in [Account -> Conn \cup {None}] /\ early \in [Account -> SUBSET Conn]
      /\ pc \in [Account -> Conn \cup {None}] /\ conn \in [Conn -> Connection]
      /\ live \subseteq Conn /\ job \in [Account -> [Slot -> Job]]
      /\ net \in [Account -> [Account -> Seq(Message)]]
      /\ calls \in 0..MaxCalls /\ faults \in 0..MaxFaults /\ lost \subseteq Conn /\ cut \subseteq Account
      /\ MaxFaults \in Nat
  BY CallAssumptions DEF CallInv, CallTypes
<1>3. PICK k, b, n : k = Closed /\ b = NoUi /\ n = NoJob
  OBVIOUS
<1>4. /\ k \in Connection
      /\ b \in Ui /\ b.state = "idle" /\ b.stream = None
      /\ n \in Job /\ n.op = "none" /\ \A w \in Account, s \in Slot : Shaped(n, w, s)
  BY <1>3, JobFacts DEF Closed, Unmade, Connection, NoUi, Ui
<1>5. /\ ui' \in [Account -> Ui] /\ seen' \in [Account -> Ui] /\ ui'[u] = b /\ seen'[u] = b
      /\ offer' \in [Account -> Conn \cup {None}] /\ offer'[u] = None
      /\ early' \in [Account -> SUBSET Conn]
      /\ pc' \in [Account -> Conn \cup {None}] /\ pc'[u] = None
      /\ \A w \in Account \ {u} :
           /\ ui'[w] = ui[w] /\ seen'[w] = seen[w] /\ offer'[w] = offer[w]
           /\ early'[w] = early[w] /\ pc'[w] = pc[w]
  BY <1>1, <1>2, <1>3, <1>4
<1>6. /\ conn' \in [Conn -> Connection]
      /\ \A c \in Conn : c[1] # u => conn'[c] = conn[c]
  BY <1>1, <1>2, <1>3, <1>4
<1>7. /\ job' \in [Account -> [Slot -> Job]]
      /\ \A s \in Slot : job'[u][s] = n
      /\ \A w \in Account \ {u} : job'[w] = job[w]
  <2>1. PICK z : z = [s \in Slot |-> n]
    OBVIOUS
  <2>2. z \in [Slot -> Job] /\ \A s \in Slot : z[s] = n
    BY <1>4, <2>1
  <2>3. job' = [job EXCEPT ![u] = z]
    BY <1>1, <1>3, <2>1
  <2> QED
    BY <1>2, <2>2, <2>3
<1>8. /\ net' \in [Account -> [Account -> Seq(Message)]]
      /\ \A x, y \in Account : net'[x][y] = IF y = u THEN << >> ELSE net[x][y]
  <2>1. << >> \in Seq(Message)
    OBVIOUS
  <2> QED
    BY <1>1, <1>2, <2>1
<1>9. NetTypes'
  <2> SUFFICES ASSUME NEW x \in Account, NEW y \in Account
               PROVE  Proper(net'[x][y], x, y)
    BY <1>8 DEF NetTypes
  <2>1. CASE y = u
    <3>1. Proper(<< >>, x, y)
      BY DEF Proper
    <3> QED
      BY <1>8, <2>1, <3>1
  <2>2. CASE y # u
    BY <1>2, <1>8, <2>2 DEF CallTypes
  <2> QED
    BY <2>1, <2>2
<1>10. /\ \A x, y \in Account : \A m : Holds(net'[x][y], m) => Holds(net[x][y], m)
       /\ \A w \in Account \ {u} : \A c : Coming(c, w) => Coming(c, w)'
  <2>1. \A m : ~Holds(<< >>, m)
    BY DEF Holds
  <2> QED
    BY <1>1, <1>8, <2>1 DEF Coming
<1>11. \A w \in Account, s \in Slot : Shaped(job'[w][s], w, s)
  BY <1>2, <1>4, <1>7 DEF CallTypes
<1>12. CallTypes'
  <2>1. \A w \in Account : {ui'[w].stream, seen'[w].stream, pc'[w]} \subseteq OwnOrNone(w)
    <3> SUFFICES ASSUME NEW w \in Account
                 PROVE  {ui'[w].stream, seen'[w].stream, pc'[w]} \subseteq OwnOrNone(w)
      OBVIOUS
    <3>1. CASE w = u
      BY <1>4, <1>5, <3>1 DEF OwnOrNone
    <3>2. CASE w # u
      BY <1>2, <1>5, <3>2 DEF CallTypes
    <3> QED
      BY <3>1, <3>2
  <2>2. live' \subseteq Conn /\ calls' \in 0..MaxCalls /\ faults' \in 0..MaxFaults /\ lost' \subseteq Conn /\ cut' \subseteq Account
    BY <1>1, <1>2
  <2> QED
    BY <1>5, <1>6, <1>7, <1>9, <1>11, <2>1, <2>2 DEF CallTypes, NetTypes
<1>13. OnlyPage(u)
  BY <1>1, <1>5, <1>6, <1>7, <1>10 DEF OnlyPage
<1>14. NumbersInv'
  <2>1. \A w \in Account, s \in Slot : job'[w][s].op # "none" => job'[w][s] = job[w][s]
    BY <1>4, <1>7
  <2>2. \A m \in Call : \A w \in Account : Placed(m, w)' => Placed(m, w)
    <3>1. \A w \in Account : offer'[w] # None => offer'[w] = offer[w]
      BY <1>5
    <3> QED
      BY <1>10, <2>1, <3>1, PlacedShrinks
  <2>3. \A w \in Account, t \in Slot, m \in Call : Placing(w, t, m)' => Placing(w, t, m)
    BY <2>1 DEF Placing
  <2> QED
    BY <1>1, <2>2, <2>3, NumbersKept
<1>15. Rings(u)'
  BY <1>5 DEF Rings
<1>16. Sound(u)' /\ Keeps(u)'
  <2>1. Off(u)'
    BY <1>1, <1>4, <1>5 DEF Off, Lights
  <2>2. \A s \in Slot : job'[u][s] = NoJob
    BY <1>3, <1>7
  <2> QED
    BY <1>4, <1>5, <2>1, <2>2 DEF Sound, Keeps, Working, WorkingBut, Off
<1> QED
  BY <1>12, <1>13, <1>14, <1>15, <1>16, PageStep

-----------------------------------------------------------------------------
LEMMA CallInitHolds == CallInit => CallInv
<1> SUFFICES ASSUME CallInit
             PROVE  CallInv
  OBVIOUS
<1>1. /\ ui = [u \in Account |-> NoUi] /\ seen = ui
      /\ offer = [u \in Account |-> None] /\ early = [u \in Account |-> {}]
      /\ pc = [u \in Account |-> None] /\ conn = [c \in Conn |-> Unmade] /\ live = {}
      /\ job = [u \in Account |-> [s \in Slot |-> NoJob]]
      /\ net = [u \in Account |-> [v \in Account |-> << >>]]
      /\ calls = 0 /\ faults = 0 /\ lost = {} /\ cut = {}
  BY DEF CallInit
<1>2. NoUi \in Ui /\ Unmade \in Connection /\ NoJob \in Job /\ NoJob.op = "none"
      /\ NoUi.state = "idle" /\ NoUi.stream = None /\ << >> \in Seq(Message)
  BY DEF NoUi, Ui, Unmade, Connection, NoJob, Job
<1>3. /\ \A u \in Account : ui[u] = NoUi /\ seen[u] = NoUi /\ offer[u] = None /\ pc[u] = None
      /\ \A u \in Account, s \in Slot : job[u][s] = NoJob
      /\ \A u, v \in Account : net[u][v] = << >>
  BY <1>1
<1>4. \A u, v \in Account : Proper(net[u][v], u, v) /\ \A m : ~Holds(net[u][v], m)
  <2>1. ASSUME NEW u, NEW v, NEW m
        PROVE  Proper(<< >>, u, v) /\ ~Holds(<< >>, m)
    BY DEF Proper, Holds
  <2> QED
    BY <2>1, <1>3
<1>5. \A u \in Account, s \in Slot : Shaped(job[u][s], u, s)
  BY <1>2, <1>3 DEF Shaped, NoJob
<1>6. CallTypes
  <2>1. \A u \in Account : {ui[u].stream, seen[u].stream, pc[u]} \subseteq OwnOrNone(u)
    BY <1>2, <1>3 DEF OwnOrNone
  <2>2. /\ ui \in [Account -> Ui] /\ seen \in [Account -> Ui]
        /\ offer \in [Account -> Conn \cup {None}] /\ early \in [Account -> SUBSET Conn]
        /\ pc \in [Account -> Conn \cup {None}] /\ conn \in [Conn -> Connection]
    BY <1>1, <1>2
  <2>3. /\ job \in [Account -> [Slot -> Job]]
        /\ net \in [Account -> [Account -> Seq(Message)]]
    BY <1>1, <1>2
  <2>4. calls \in 0..MaxCalls /\ faults \in 0..MaxFaults /\ lost \subseteq Conn
    BY <1>1, CallAssumptions
  <2> QED
    BY <1>1, <1>4, <1>5, <2>1, <2>2, <2>3, <2>4 DEF CallTypes
<1>7. NumbersInv
  BY <1>2, <1>3, <1>4 DEF NumbersInv, Placed, Placing
<1>8. \A u \in Account : Rings(u)
  BY <1>3 DEF Rings
<1>9. \A u \in Account : Sound(u) /\ Keeps(u)
  BY <1>1, <1>2, <1>3 DEF Sound, Keeps, Off, Lights, Working, WorkingBut
<1> QED
  BY <1>6, <1>7, <1>8, <1>9 DEF CallInv

LEMMA LoseKeeps ==
  ASSUME CallInv, NEW u \in Account, NEW v \in Account, Lose(v, u)
  PROVE  CallInv'
<1>1. /\ net[v][u] # << >> /\ faults < MaxFaults /\ faults' = faults + 1
      /\ net' = Taken(v, u)
      /\ lost' = lost \cup (IF Arrives(v, u, {"candidate"}) THEN {Head(net[v][u]).conn} ELSE {})
      /\ UNCHANGED <<ui, seen, offer, early, pc, conn, live, job, calls, cut>>
  BY DEF Lose
<1>2. PICK m : m = Head(net[v][u])
  OBVIOUS
<1>3. /\ NetTypes'
      /\ \A x, y \in Account : \A k : Holds(net'[x][y], k) => Holds(net[x][y], k)
      /\ \A x, y \in Account : \A k : Holds(net[x][y], k) =>
            Holds(net'[x][y], k) \/ (x = v /\ y = u /\ k = Head(net[v][u]))
  BY <1>1, TakenFacts
<1>4. lost \subseteq lost' /\ lost' \subseteq Conn /\ (m.kind = "candidate" => m.conn \in lost')
  <2>1. lost \subseteq Conn
    BY DEF CallInv, CallTypes
  <2>2. CASE m.kind = "candidate"
    <3>1. Arrives(v, u, {"candidate"})
      BY <1>1, <1>2, <2>2 DEF Arrives
    <3>2. m.conn \in Conn
      BY <1>1, <1>2, <2>2, <3>1, HeadFacts
    <3> QED
      BY <1>1, <1>2, <2>1, <3>1, <3>2
  <2>3. CASE m.kind # "candidate"
    BY <1>1, <1>2, <2>1, <2>3 DEF Arrives
  <2> QED
    BY <2>2, <2>3
<1>5. \A w \in Account : \A c : Coming(c, w) => Coming(c, w)'
  <2> SUFFICES ASSUME NEW w \in Account, NEW c, NEW x \in Account, Holds(net[x][w], CandidateOf(c)),
                      CandidateOf(c) = m
               PROVE  c \in lost'
    BY <1>2, <1>3, <1>4 DEF Coming
  <2> QED
    BY <1>4 DEF CandidateOf
<1>6. CallTypes'
  <2>1. faults' \in 0..MaxFaults
    BY <1>1, CallAssumptions DEF CallInv, CallTypes
  <2> QED
    BY <1>1, <1>3, <1>4, <2>1 DEF CallInv, CallTypes, NetTypes
<1>7. NumbersInv'
  <2>1. \A n \in Call : \A w \in Account : Placed(n, w)' => Placed(n, w)
    BY <1>1, <1>3 DEF Placed
  <2>2. \A w \in Account, s \in Slot, n \in Call : Placing(w, s, n)' => Placing(w, s, n)
    BY <1>1 DEF Placing
  <2> QED
    BY <1>1, <2>1, <2>2, NumbersKept
<1>8. \A w \in Account : Rings(w)'
  BY <1>1 DEF CallInv, Rings
<1>9. \A w \in Account \ cut : Sound(w)' /\ Keeps(w)'
  BY <1>1, <1>5 DEF CallInv, Sound, Keeps, Working, WorkingBut, Off, On, InStep, Lights
<1> QED
  BY <1>1, <1>6, <1>7, <1>8, <1>9 DEF CallInv

LEMMA CallStutters ==
  ASSUME CallInv, UNCHANGED callVars
  PROVE  CallInv'
<1>1. UNCHANGED <<ui, seen, offer, early, pc, conn, live, job, net, calls, faults, lost,
                cut>>
  BY DEF callVars
<1>2. CallTypes' /\ NumbersInv' /\ \A u \in Account : Rings(u)'
  BY <1>1 DEF CallInv, CallTypes, NumbersInv, Placed, Placing, Rings
<1>3. \A u \in Account \ cut : Sound(u)' /\ Keeps(u)'
  BY <1>1, NoMessage DEF CallInv, Sound, Keeps, Working, WorkingBut, Off, On, InStep, Lights
<1> QED
  BY <1>1, <1>2, <1>3 DEF CallInv

LEMMA CallNextKeeps == CallInv /\ [CallNext]_callVars => CallInv'
<1> SUFFICES ASSUME CallInv, [CallNext]_callVars
             PROVE  CallInv'
  OBVIOUS
<1>1. ASSUME NEW u \in Account, Render(u) \/ DeclineCall(u) \/ EndCall(u) \/ Reload(u)
      PROVE  CallInv'
  BY <1>1, RenderKeeps, ButtonKeeps, ReloadKeeps
<1>2. ASSUME NEW u \in Account, NEW s \in Slot, NEW v \in Account, Initiate(u, v, s)
      PROVE  CallInv'
  BY <1>2, InitiateKeeps
<1>3. ASSUME NEW u \in Account, NEW s \in Slot,
             AcceptCall(u, s) \/ MediaRefused(u, s) \/ Flow(u, s)
      PROVE  CallInv'
  BY <1>3, AcceptCallKeeps, MediaRefusedKeeps, MediaKeeps, DescribeKeeps, DescribeRefusedKeeps,
     DrainKeeps DEF Flow
<1>4. ASSUME NEW u \in Account, NEW v \in Account, Deliver(v, u)
      PROVE  CallInv'
  BY <1>4, IncomingKeeps, AcceptedKeeps, CandidateKeeps, OverKeeps DEF Deliver
<1>5. ASSUME NEW c \in Conn, ConnectionFails(c)
      PROVE  CallInv'
  BY <1>5, ConnectionFailsKeeps
<1>6. ASSUME NEW u \in Account, NEW v \in Account, Lose(v, u)
      PROVE  CallInv'
  BY <1>6, LoseKeeps
<1>7. CASE UNCHANGED callVars
  BY <1>7, CallStutters
<1> QED
  BY <1>1, <1>2, <1>3, <1>4, <1>5, <1>6, <1>7 DEF CallNext

LEMMA CallInvariance == CallSpec => []CallInv
<1> QED
  BY CallInitHolds, CallNextKeeps, PTL DEF CallSpec

(* The state of both pages, their connections and the messages that the    *)
(* relay passes on have their types, for any number of accounts and calls. *)
THEOREM CallTypeCorrect == CallSpec => []CallTypeOK
<1>1. CallInv => CallTypeOK
  <2> SUFFICES ASSUME CallInv
               PROVE  CallTypeOK
    OBVIOUS
  <2>1. CallTypes
    BY DEF CallInv
  <2>2. ASSUME NEW u \in Account, NEW v \in Account, NEW i \in DOMAIN net[u][v]
        PROVE  net[u][v][i] \in Message
    <3>1. PICK q : q = net[u][v]
      OBVIOUS
    <3>2. q \in Seq(Message) /\ i \in DOMAIN q
      BY <2>1, <3>1 DEF CallTypes
    <3>3. q[i] \in Message
      BY <3>2
    <3> QED
      BY <3>1, <3>3
  <2> QED
    BY <2>1, <2>2 DEF CallTypes, CallTypeOK
<1> QED
  BY <1>1, CallInvariance, PTL

(* Whichever way a call ended (hang-up, refusal, failure, reload of the    *)
(* other page), an idle page has camera and microphone off: endCall and    *)
(* cleanup stop the stream that the state holds.                           *)
THEOREM CameraOffProved == CallSpec => []CameraOff
<1>1. CallInv => CameraOff
  BY DEF CallInv, Sound, Off, Lights, CameraOff, Settled
<1> QED
  BY <1>1, CallInvariance, PTL

(* A page that shows a call has an open connection to the account it shows *)
(* (initiateCall, acceptCall and the end of a call set both together).     *)
THEOREM CallHasConnectionProved == CallSpec => []CallHasConnection
<1>1. CallInv => CallHasConnection
  BY DEF CallInv, Sound, On, CallHasConnection, Settled
<1> QED
  BY <1>1, CallInvariance, PTL

(* No candidate of a joined pair is dropped by the page, though it may     *)
(* arrive before the call is accepted: the page keeps it                   *)
(* (pendingCandidates) until then.  What is missing met no socket when the *)
(* server passed it on (call:signal).                                      *)
THEOREM CandidatesArriveProved == CallSpec => []CandidatesArrive
<1>1. CallInv => CandidatesArrive
  BY DEF CallInv, Keeps, Coming, Holds, CandidateOf, Joined, CandidatesArrive
<1> QED
  BY <1>1, CallInvariance, PTL

(* When all messages and flows are done and no connection is to fail, each *)
(* page that shows a call is joined to the other's connection, whatever    *)
(* message was lost: unless the page's flow was overtaken, no answer of    *)
(* one call is taken for another's, though messages name no call.          *)
THEOREM NobodyTalksAloneProved == CallSpec => []NobodyTalksAlone
<1>1. CallInv => NobodyTalksAlone
  <2> SUFFICES ASSUME CallInv, \A u, v \in Account : Settled(u), \A c \in Conn : ~Alone(c),
                      NEW u \in Account \ cut, ui[u].state = "active"
               PROVE  pc[u] # None /\ Joined(pc[u])
    BY DEF NobodyTalksAlone
  <2>1. On(u, pc[u]) /\ conn[pc[u]].far # None /\ pc[u] \in Conn \cup {None}
    BY DEF CallInv, CallTypes, Sound, Settled
  <2> QED
    BY <2>1 DEF On, Alone
<1> QED
  BY <1>1, CallInvariance, PTL

=============================================================================
