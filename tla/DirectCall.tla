----------------------------- MODULE DirectCall -----------------------------
(***************************************************************************)
(* Calls between two accounts: the provider of a page                      *)
(* (frontend/src/context/VideoCallContext.jsx), the call screen, and the   *)
(* relay of the server (call:* in backend/utils/socket.js), which passes   *)
(* every message on without a look and without naming a call.              *)
(*                                                                         *)
(* An account has one page.  A page keeps what it set (ui) and what React  *)
(* has rendered and copied to its refs (seen); buttons and incoming calls  *)
(* go by what is seen.  Placing and accepting a call wait for the camera   *)
(* and the connection, and go on whatever happened meanwhile.  Messages    *)
(* keep their order from one page to another, but any of them may be lost: *)
(* the server emits to the room of an account, and keeps nothing for a     *)
(* page whose socket connects again.                                       *)
(*                                                                         *)
(* Not here: mute and camera switches, toasts, how a connection is made    *)
(* (RTCPeerConnection is what its methods promise), several pages of an    *)
(* account.                                                                *)
(***************************************************************************)
EXTENDS Naturals, Sequences, FiniteSets

CONSTANTS
  Account,    \* accounts, each with a page
  Slot,       \* flows (placing or accepting) a page can be in at once
  MaxCalls,   \* bound: calls that are placed
  MaxFaults,  \* bound: reloads of a page and lost messages, together
  None        \* no account, no connection, no call

ASSUME CallAssumptions ==
  /\ MaxCalls \in Nat
  /\ MaxFaults \in Nat
  /\ None \notin Account \cup (Account \X (1..MaxCalls) \X Slot)

VARIABLES
  ui,         \* the page's state, as it was last set
  seen,       \* the state that is rendered and in the refs
  offer,      \* the call whose offer the page holds (incomingSignal)
  early,      \* connections whose candidate waits (pendingCandidates)
  pc,         \* the page's connection (peerConnection)
  conn,       \* the connections that were made
  live,       \* connections whose camera and microphone run
  job,        \* the flows of each page
  net,        \* messages from a page to another
  calls,      \* calls placed so far
  faults,     \* reloads and lost messages so far
  lost,       \* connections one of whose candidates was lost (history)
  cut         \* pages whose flow was overtaken by an end or another flow, or
              \* that took the answer to an earlier call (history)

callVars == <<ui, seen, offer, early, pc, conn, live, job, net, calls, faults,
              lost, cut>>

Call == 1..MaxCalls

(* A connection is named by its page, the call and the flow that made it.  *)
Conn == Account \X Call \X Slot

Ui == [state : {"idle", "outgoing", "incoming", "active"},
       remote : Account \cup {None},
       stream : Conn \cup {None}]

Connection ==
  [made : BOOLEAN, open : BOOLEAN,
   to : Account \cup {None},      \* where its signals go
   told : BOOLEAN,                \* is its description set and sent?
   far : Conn \cup {None},        \* whose description it was given
   has : SUBSET Conn]             \* whose candidates it was given

Job == [op : {"none", "call", "accept"},
        step : {"idle", "media", "describe", "drain"},
        conn : Conn \cup {None},
        to : Account \cup {None},
        offer : Conn \cup {None}]

Message == [kind : {"request", "accept", "decline", "candidate", "end"},
            conn : Conn \cup {None}]

NoUi == [state |-> "idle", remote |-> None, stream |-> None]

NoJob == [op |-> "none", step |-> "idle", conn |-> None, to |-> None, offer |-> None]

Unmade == [made |-> FALSE, open |-> FALSE, to |-> None, told |-> FALSE,
           far |-> None, has |-> {}]

Closed == [Unmade EXCEPT !.made = TRUE]

CallInit ==
  /\ ui = [u \in Account |-> NoUi]
  /\ seen = ui
  /\ offer = [u \in Account |-> None]
  /\ early = [u \in Account |-> {}]
  /\ pc = [u \in Account |-> None]
  /\ conn = [c \in Conn |-> Unmade]
  /\ live = {}
  /\ job = [u \in Account |-> [s \in Slot |-> NoJob]]
  /\ net = [u \in Account |-> [v \in Account |-> << >>]]
  /\ calls = 0
  /\ faults = 0
  /\ lost = {}
  /\ cut = {}

-----------------------------------------------------------------------------
(* What the server passes on from u to v; nobody is called `None'.         *)
Emit(u, v, kind, c) ==
  net' = IF v = None THEN net
         ELSE [net EXCEPT ![u][v] = Append(@, [kind |-> kind, conn |-> c])]

WorkingBut(u, slots) == \E s \in Slot \ slots : job[u][s] # NoJob

Working(u) == WorkingBut(u, {})

(* Seeded fault: the tracks go on.                                         *)
NoneStopped(u) == {}

Stopped(u) == {seen[u].stream} \ {None}

(* Seeded faults: the state is left, or is one that the screen of the call *)
(* does not know.                                                          *)
LeftOn(u) == [ui[u] EXCEPT !.remote = None, !.stream = None]

NotIdle(u) == [state |-> "ended", remote |-> None, stream |-> None]

Blank(u) == [state |-> "idle", remote |-> None,
             stream |-> IF seen[u].stream = None THEN ui[u].stream ELSE None]

(* cleanupCall, by a flow of `slots' or by none: the stream is the one the *)
(* ref knows of; the state of the stream is cleared only if there was one. *)
Cleanup(u, slots) ==
  /\ ui' = [ui EXCEPT ![u] = Blank(u)]
  /\ offer' = [offer EXCEPT ![u] = None]
  /\ early' = [early EXCEPT ![u] = {}]
  /\ pc' = [pc EXCEPT ![u] = None]
  /\ conn' = IF pc[u] = None THEN conn ELSE [conn EXCEPT ![pc[u]] = Closed]
  /\ live' = live \ Stopped(u)
  /\ cut' = IF WorkingBut(u, slots) \/ ui[u].stream # seen[u].stream THEN cut \cup {u} ELSE cut

(* What a click sets is rendered with it; else rendering is a step of its  *)
(* own.                                                                    *)
Clicked(u) == seen' = [seen EXCEPT ![u] = ui'[u]]

Render(u) ==
  /\ seen[u] # ui[u]
  /\ seen' = [seen EXCEPT ![u] = ui[u]]
  /\ UNCHANGED <<ui, offer, early, pc, conn, live, job, net, calls, faults, lost, cut>>

-----------------------------------------------------------------------------
(* initiateCall, which does not ask whether the page is in a call.         *)
Initiate(u, v, s) ==
  /\ u # v
  /\ calls < MaxCalls
  /\ job[u][s] = NoJob
  /\ ui' = [ui EXCEPT ![u].state = "outgoing", ![u].remote = v]
  /\ calls' = calls + 1
  /\ job' = [job EXCEPT ![u][s] = [NoJob EXCEPT !.op = "call", !.step = "media",
                                                !.conn = <<u, calls', s>>, !.to = v]]
  /\ Clicked(u)
  /\ cut' = IF Working(u) \/ ui[u].state # "idle" THEN cut \cup {u} ELSE cut
  /\ UNCHANGED <<offer, early, pc, conn, live, net, faults, lost>>

(* acceptCall, by the button of an incoming call.                          *)
AcceptCall(u, s) ==
  /\ seen[u].state = "incoming"
  /\ seen[u].remote # None
  /\ offer[u] # None
  /\ job[u][s] = NoJob
  /\ ~conn[<<u, offer[u][2], s>>].made
  /\ job' = [job EXCEPT ![u][s] = [NoJob EXCEPT !.op = "accept", !.step = "media",
                                   !.conn = <<u, offer[u][2], s>>, !.to = seen[u].remote]]
  /\ cut' = IF Working(u) \/ ui[u] # seen[u] THEN cut \cup {u} ELSE cut
  /\ UNCHANGED <<ui, seen, offer, early, pc, conn, live, net, calls, faults, lost>>

(* startLocalStream and createPeerConnection: the flow goes on, also when  *)
(* the call is over.  An accepted call has no offer any more then, which   *)
(* ends the flow.                                                          *)
Media(u, s) ==
  LET j == job[u][s] IN
  /\ j.step = "media"
  /\ live' = live \cup {j.conn}
  /\ ui' = [ui EXCEPT ![u].stream = j.conn]
  /\ pc' = [pc EXCEPT ![u] = j.conn]
  /\ conn' = [conn EXCEPT ![j.conn] = [Unmade EXCEPT !.made = TRUE, !.open = TRUE, !.to = j.to]]
  /\ job' = IF j.op = "accept" /\ offer[u] = None
            THEN [job EXCEPT ![u][s] = NoJob]
            ELSE [job EXCEPT ![u][s].step = "describe", ![u][s].offer = IF j.op = "accept" THEN offer[u] ELSE None]
  /\ UNCHANGED <<seen, offer, early, net, calls, faults, lost, cut>>

(* No camera: a call that was placed is only idle again, an incoming one   *)
(* is declined.                                                            *)
MediaRefused(u, s) ==
  LET j == job[u][s] IN
  /\ j.step = "media"
  /\ job' = [job EXCEPT ![u][s] = NoJob]
  /\ IF j.op = "call"
     THEN /\ ui' = [ui EXCEPT ![u].state = "idle"]
          /\ UNCHANGED <<offer, early, pc, conn, live, net, cut>>
     ELSE Emit(u, j.to, "decline", None) /\ Cleanup(u, {s})
  /\ UNCHANGED <<seen, calls, faults, lost>>

(* What an open connection sends: its description and then its candidates  *)
(* (onicecandidate), one for all of them.                                  *)
Described(u, v, kind, c) ==
  net' = [net EXCEPT ![u][v] = @ \o <<[kind |-> kind, conn |-> c],
                                      [kind |-> "candidate", conn |-> c]>>]

(* The description is set and sent, or refused by a connection that was    *)
(* closed.  Accepting goes on with the candidates that came early.         *)
Describe(u, s) ==
  LET j == job[u][s]
      c == j.conn
  IN
  /\ j.step = "describe"
  /\ conn[c].open
  /\ conn' = [conn EXCEPT ![c].told = TRUE,
                          ![c].far = IF j.op = "accept" THEN j.offer ELSE None]
  /\ IF j.op = "call"
     THEN /\ Described(u, j.to, "request", c)
          /\ job' = [job EXCEPT ![u][s] = NoJob]
          /\ UNCHANGED ui
     ELSE /\ Described(u, j.to, "accept", c)
          /\ IF early[u] = {}
             THEN /\ ui' = [ui EXCEPT ![u].state = "active"]
                  /\ job' = [job EXCEPT ![u][s] = NoJob]
             ELSE job' = [job EXCEPT ![u][s].step = "drain"] /\ UNCHANGED ui
  /\ UNCHANGED <<seen, offer, early, pc, live, calls, faults, lost, cut>>

DescribeRefused(u, s) ==
  /\ job[u][s].step = "describe"
  /\ ~conn[job[u][s].conn].open
  /\ job' = [job EXCEPT ![u][s] = NoJob]
  /\ UNCHANGED <<ui, seen, offer, early, pc, conn, live, net, calls, faults, lost, cut>>

Given(conns, c, cands) == [conns EXCEPT ![c].has = @ \cup cands]

(* Seeded fault: the candidates that came early are forgotten.             *)
NothingDrained(u) == {}

Drained(u) == early[u]

Drain(u, s) ==
  LET c == job[u][s].conn IN
  /\ job[u][s].step = "drain"
  /\ conn' = IF conn[c].open THEN Given(conn, c, Drained(u)) ELSE conn
  /\ early' = [early EXCEPT ![u] = {}]
  /\ ui' = [ui EXCEPT ![u].state = "active"]
  /\ job' = [job EXCEPT ![u][s] = NoJob]
  /\ UNCHANGED <<seen, offer, pc, live, net, calls, faults, lost, cut>>

-----------------------------------------------------------------------------
(* declineCall and endCall, by the buttons of the call screen.             *)
DeclineCall(u) ==
  /\ seen[u].state = "incoming"
  /\ Emit(u, seen[u].remote, "decline", None)
  /\ Cleanup(u, {})
  /\ Clicked(u)
  /\ UNCHANGED <<job, calls, faults, lost>>

EndCall(u) ==
  /\ seen[u].state \in {"outgoing", "active"}
  /\ Emit(u, seen[u].remote, "end", None)
  /\ Cleanup(u, {})
  /\ Clicked(u)
  /\ UNCHANGED <<job, calls, faults, lost>>

(* onconnectionstatechange: a connection that was given a description may  *)
(* fail, and does if there is none open at the other end that was given    *)
(* its own.  Whatever the page's present connection is, that is closed.    *)
ConnectionFails(c) ==
  LET u == c[1] IN
  /\ conn[c].open
  /\ conn[c].far # None
  /\ Cleanup(u, {})
  /\ UNCHANGED <<seen, job, net, calls, faults, lost>>

-----------------------------------------------------------------------------
(* The handlers of the socket's events.                                    *)
Taken(v, u) == [net EXCEPT ![v][u] = Tail(@)]

Arrives(v, u, kinds) == net[v][u] # << >> /\ Head(net[v][u]).kind \in kinds

(* handleIncomingCall.                                                     *)
Incoming(v, u) ==
  /\ Arrives(v, u, {"request"})
  /\ IF seen[u].state # "idle"
     THEN /\ net' = [Taken(v, u) EXCEPT ![u][v] = Append(@, [kind |-> "decline", conn |-> None])]
          /\ UNCHANGED <<ui, offer, cut>>
     ELSE /\ net' = Taken(v, u)
          /\ ui' = [ui EXCEPT ![u].state = "incoming", ![u].remote = v]
          /\ offer' = [offer EXCEPT ![u] = Head(net[v][u]).conn]
          /\ cut' = IF Working(u) \/ ui[u].state # "idle" THEN cut \cup {u} ELSE cut
  /\ UNCHANGED <<seen, early, pc, conn, live, job, calls, faults, lost>>

(* Seeded fault: the answer is not set.                                    *)
Unanswered(k, d, cands) == [k EXCEPT !.has = @ \cup cands]

Answered(k, d, cands) == [k EXCEPT !.far = d, !.has = @ \cup cands]

(* handleCallAccepted: an answer is taken by a connection that has sent    *)
(* an offer and was given none, and else refused.                          *)
Accepted(v, u) ==
  LET c == pc[u] IN
  /\ Arrives(v, u, {"accept"})
  /\ net' = Taken(v, u)
  /\ IF c = None
     THEN UNCHANGED <<ui, conn, early>>
     ELSE /\ ui' = [ui EXCEPT ![u].state = "active"]
          /\ IF conn[c].told /\ conn[c].far = None
             THEN /\ conn' = [conn EXCEPT ![c] = Answered(@, Head(net[v][u]).conn, Drained(u))]
                  /\ early' = [early EXCEPT ![u] = {}]
             ELSE UNCHANGED <<conn, early>>
  /\ cut' = IF c # None /\ c[2] # Head(net[v][u]).conn[2] THEN cut \cup {u} ELSE cut
  /\ UNCHANGED <<seen, offer, pc, live, job, calls, faults, lost>>

(* handleSignal: what is sent by it is a candidate.                        *)
Candidate(v, u) ==
  LET c == pc[u]
      from == Head(net[v][u]).conn
  IN
  /\ Arrives(v, u, {"candidate"})
  /\ net' = Taken(v, u)
  /\ IF c # None /\ conn[c].far # None
     THEN conn' = Given(conn, c, {from}) /\ UNCHANGED early
     ELSE early' = [early EXCEPT ![u] = @ \cup {from}] /\ UNCHANGED conn
  /\ UNCHANGED <<ui, seen, offer, pc, live, job, calls, faults, lost, cut>>

(* handleCallDeclined and handleCallEnded, whatever call it was.           *)
Over(v, u) ==
  /\ Arrives(v, u, {"decline", "end"})
  /\ net' = Taken(v, u)
  /\ Cleanup(u, {})
  /\ UNCHANGED <<seen, job, calls, faults, lost>>

(* A message finds no socket of the page it is for: the page connects      *)
(* again at the moment.                                                    *)
Lose(v, u) ==
  /\ net[v][u] # << >>
  /\ faults < MaxFaults
  /\ faults' = faults + 1
  /\ net' = Taken(v, u)
  /\ lost' = lost \cup (IF Arrives(v, u, {"candidate"}) THEN {Head(net[v][u]).conn} ELSE {})
  /\ UNCHANGED <<ui, seen, offer, early, pc, conn, live, job, calls, cut>>

(* The page is left or reloaded: nothing of it goes on, and what is under  *)
(* way to it is lost.                                                      *)
Reload(u) ==
  /\ faults < MaxFaults
  /\ faults' = faults + 1
  /\ ui' = [ui EXCEPT ![u] = NoUi]
  /\ seen' = [seen EXCEPT ![u] = NoUi]
  /\ offer' = [offer EXCEPT ![u] = None]
  /\ early' = [early EXCEPT ![u] = {}]
  /\ pc' = [pc EXCEPT ![u] = None]
  /\ conn' = [c \in Conn |-> IF c[1] = u /\ conn[c].made THEN Closed ELSE conn[c]]
  /\ live' = {c \in live : c[1] # u}
  /\ job' = [job EXCEPT ![u] = [s \in Slot |-> NoJob]]
  /\ net' = [v \in Account |-> [net[v] EXCEPT ![u] = << >>]]
  /\ cut' = cut \ {u}
  /\ UNCHANGED <<calls, lost>>

-----------------------------------------------------------------------------
Flow(u, s) == Media(u, s) \/ Describe(u, s) \/ DescribeRefused(u, s) \/ Drain(u, s)

Deliver(v, u) == Incoming(v, u) \/ Accepted(v, u) \/ Candidate(v, u) \/ Over(v, u)

CallNext ==
  \/ \E u \in Account :
       \/ Render(u)
       \/ \E s \in Slot : \/ \E v \in Account : Initiate(u, v, s)
                          \/ AcceptCall(u, s)
                          \/ MediaRefused(u, s)
                          \/ Flow(u, s)
       \/ DeclineCall(u) \/ EndCall(u)
       \/ \E v \in Account : Deliver(v, u) \/ Lose(v, u)
       \/ Reload(u)
  \/ \E c \in Conn : ConnectionFails(c)

(* A connection whose two ends were given each other's description; and    *)
(* one that was given a description but is not joined, which will fail.    *)
Joined(c) == LET d == conn[c].far IN d # None /\ conn[d].open /\ conn[d].far = c

Alone(c) == conn[c].open /\ conn[c].far # None /\ ~Joined(c)

CallSpec == CallInit /\ [][CallNext]_callVars

-----------------------------------------------------------------------------
CallTypeOK ==
  /\ ui \in [Account -> Ui]
  /\ seen \in [Account -> Ui]
  /\ offer \in [Account -> Conn \cup {None}]
  /\ early \in [Account -> SUBSET Conn]
  /\ pc \in [Account -> Conn \cup {None}]
  /\ conn \in [Conn -> Connection]
  /\ live \subseteq Conn
  /\ job \in [Account -> [Slot -> Job]]
  /\ \A u, v \in Account : \A i \in DOMAIN net[u][v] : net[u][v][i] \in Message
  /\ calls \in 0..MaxCalls
  /\ faults \in 0..MaxFaults
  /\ lost \subseteq Conn
  /\ cut \subseteq Account

Settled(u) == seen[u] = ui[u] /\ ~Working(u)

(* A page that shows no call has its camera and microphone off, however a  *)
(* call was ended.  It takes a flow that was overtaken, as by a hang-up    *)
(* while the browser asks for the camera, to leave them on.                *)
CameraOff ==
  \A u \in Account \ cut : Settled(u) /\ ui[u].state = "idle" => \A c \in live : c[1] # u

(* A page that shows a call has an open connection, to the account it      *)
(* shows.                                                                  *)
CallHasConnection ==
  \A u \in Account \ cut : Settled(u) /\ ui[u].state = "active" =>
     /\ pc[u] # None
     /\ conn[pc[u]].open
     /\ conn[pc[u]].to = ui[u].remote

(* Of two connections that are joined, each was given the other's          *)
(* candidate, keeps it for later, has it under way, or it met no socket:   *)
(* none is dropped because it came before the call was accepted or         *)
(* answered, whatever else was lost.                                       *)
CandidatesArrive ==
  \A u \in Account : LET c == pc[u] IN
    u \notin cut /\ c # None /\ Joined(c) /\ conn[conn[c].far].told =>
      \/ conn[c].far \in lost
      \/ conn[c].far \in conn[c].has \cup early[u]
      \/ \E v \in Account : \E i \in DOMAIN net[v][u] :
           net[v][u][i] = [kind |-> "candidate", conn |-> conn[c].far]

(* When nothing is under way and no connection is about to fail, whoever   *)
(* sees a call is joined to the other page, after a reload of either, two  *)
(* calls at once, and any message that was lost.  A flow that was          *)
(* overtaken, or an answer that arrives in the next call, can leave a page *)
(* in a call with nobody.                                                  *)
NobodyTalksAlone ==
  (\A u, v \in Account : Settled(u) /\ net[u][v] = << >>) /\ (\A c \in Conn : ~Alone(c)) =>
     \A u \in Account \ cut : ui[u].state = "active" => pc[u] # None /\ Joined(pc[u])

=============================================================================
