----------------------------- MODULE RoomVideo -----------------------------
(***************************************************************************)
(* The group call of a room: the hook useRoomVideo of each page, which     *)
(* keeps a connection to every other participant, and the server           *)
(* (room:video:* in backend/utils/socket.js), which keeps the list of      *)
(* participants, tells the others who joined or left, and relays what the  *)
(* connections have to say to each other.                                  *)
(*                                                                         *)
(* Every account has one page.  Messages keep their order on the way to    *)
(* the server and back, and are lost with the connection.  The page goes   *)
(* by inCallRef (seen), which an effect copies from its state later.       *)
(*                                                                         *)
(* Not here: the switches of microphone, camera and screen, candidates     *)
(* (those that come before the description are dropped), the awaits        *)
(* within one negotiation, which is one step, and networks that fail.      *)
(* Presence is in Realtime.                                                *)
(***************************************************************************)
EXTENDS Naturals, Sequences, FiniteSets, Functions

CONSTANTS
  Account,    \* members of the room, each with a page
  None,       \* no connection, nobody
  MaxPeers,   \* participants of one call (6)
  MaxJoins,   \* bound: clicks on "join"
  MaxTurns    \* bound: pages that move or lose their socket

ASSUME VideoAssumptions ==
  /\ None \notin Account
  /\ MaxPeers \in Nat \ {0}
  /\ MaxJoins \in Nat
  /\ MaxTurns \in Nat

VARIABLES
  page,     \* what each page shows
  camera,   \* the camera of each page
  pc,       \* pc[u][v]: the connection of u's page to v (peerConnections)
  made,     \* made[u][v]: how many of those there were
  outbox,   \* messages from a page to the server
  inbox,    \* messages from the server to a page
  entry,    \* the participant's connection in io._videoRooms
  channel,  \* pages that hear what the server tells the room
  closing,  \* accounts whose disconnect handler has not finished
  joins,    \* clicks so far
  turns,    \* moves and losses so far
  astray,   \* pages on which one of the hazards has struck (history)
  crossed   \* <<u, v>>: something of an earlier call of u or v may have met u's
            \* present call, and v has not left it for good since (history)

videoVars == <<page, camera, pc, made, outbox, inbox, entry, channel, closing,
          joins, turns, astray, crossed>>

Page ==
  [inCall : BOOLEAN,        \* what is set and rendered
   seen : BOOLEAN,          \* inCallRef
   prompts : 0..MaxJoins,   \* questions for the camera, of this hook
   stale : 0..MaxJoins]     \* and of hooks that are gone

(* The stream the hook holds, and streams nobody holds any more.           *)
Camera == [held : BOOLEAN, left : BOOLEAN]

(* A description says whose it is and, in an answer, to which offer.       *)
Description == [by : Nat, to : Nat]

Unknown == [by |-> 0, to |-> 0]

PeerConnection ==
  [id : Nat, local : {"none", "offer", "answer"}, remote : Description]

NoPc == [id |-> 0, local |-> "none", remote |-> Unknown]

Message ==
  [kind : {"join", "leave", "off", "peers", "joined", "left", "full", "offer", "answer"},
   who : Account \cup {None},
   peers : SUBSET Account,
   desc : Description]

Plain(kind, who) == [kind |-> kind, who |-> who, peers |-> {}, desc |-> Unknown]

Signal(kind, who, by, to) == [Plain(kind, who) EXCEPT !.desc = [by |-> by, to |-> to]]

Lobby == [inCall |-> FALSE, seen |-> FALSE, prompts |-> 0, stale |-> 0]

VideoInit ==
  /\ page = [u \in Account |-> Lobby]
  /\ camera = [u \in Account |-> [held |-> FALSE, left |-> FALSE]]
  /\ pc = [u \in Account |-> [v \in Account |-> NoPc]]
  /\ made = [u \in Account |-> [v \in Account |-> 0]]
  /\ outbox = [u \in Account |-> << >>]
  /\ inbox = [u \in Account |-> << >>]
  /\ entry = [u \in Account |-> "none"]
  /\ channel = {}
  /\ closing = {}
  /\ joins = 0
  /\ turns = 0
  /\ astray = {}
  /\ crossed = {}

Emit(u, m) == outbox' = [outbox EXCEPT ![u] = @ \o m]

server == <<entry, channel, closing>>

-----------------------------------------------------------------------------
(* The page.                                                               *)

(* joinVideo asks for the camera; the button stays.                        *)
ClickJoin(u) ==
  /\ ~page[u].inCall
  /\ joins < MaxJoins
  /\ joins' = joins + 1
  /\ page' = [page EXCEPT ![u].prompts = @ + 1]
  /\ UNCHANGED <<camera, pc, made, outbox, inbox, server, turns, astray, crossed>>

(* The camera is granted: the page is in the call and asks to be let in.   *)
Granted(u) ==
  /\ page[u].prompts > 0
  /\ page' = [page EXCEPT ![u].prompts = @ - 1, ![u].inCall = TRUE]
  /\ camera' = [camera EXCEPT ![u] = [held |-> TRUE, left |-> @.left \/ @.held]]
  /\ Emit(u, <<Plain("join", None)>>)
  /\ astray' = IF camera[u].held THEN astray \cup {u} ELSE astray
  /\ UNCHANGED <<pc, made, inbox, server, joins, turns, crossed>>

(* So does the promise of a hook that is gone.                             *)
GrantedLate(u) ==
  /\ page[u].stale > 0
  /\ page' = [page EXCEPT ![u].stale = @ - 1]
  /\ camera' = [camera EXCEPT ![u].left = TRUE]
  /\ Emit(u, <<Plain("join", None)>>)
  /\ astray' = astray \cup {u}
  /\ UNCHANGED <<pc, made, inbox, server, joins, turns, crossed>>

Denied(u) ==
  /\ \/ page[u].prompts > 0 /\ page' = [page EXCEPT ![u].prompts = @ - 1]
     \/ page[u].stale > 0 /\ page' = [page EXCEPT ![u].stale = @ - 1]
  /\ UNCHANGED <<camera, pc, made, outbox, inbox, server, joins, turns, astray, crossed>>

Render(u) ==
  /\ page[u].seen # page[u].inCall
  /\ page' = [page EXCEPT ![u].seen = page[u].inCall]
  /\ UNCHANGED <<camera, pc, made, outbox, inbox, server, joins, turns, astray, crossed>>

(* Seeded fault: the camera stays on.                                      *)
StreamKept(u) == camera[u]

Stopped(u) == [camera[u] EXCEPT !.held = FALSE]

CleanupAll(u) ==
  /\ pc' = [pc EXCEPT ![u] = [v \in Account |-> NoPc]]
  /\ camera' = [camera EXCEPT ![u] = Stopped(u)]
  /\ crossed' = {p \in crossed : p[1] # u}

LeaveVideo(u) ==
  /\ page[u].inCall
  /\ page' = [page EXCEPT ![u].inCall = FALSE, ![u].seen = FALSE]
  /\ Emit(u, <<Plain("leave", None)>>)
  /\ CleanupAll(u)
  /\ UNCHANGED <<made, inbox, server, joins, turns, astray>>

(* The page hears something for the call, or is left, before the effect    *)
(* has run.                                                                *)
Missed(u) ==
  astray' = IF page[u].seen # page[u].inCall THEN astray \cup {u} ELSE astray

(* Seeded fault: nobody is told that the tab is gone.                      *)
NoGoodbye(u) == << >>

Goodbye(u) == IF page[u].seen THEN <<Plain("leave", None)>> ELSE << >>

(* The user goes to another tab of the room and comes back.  The chat tab  *)
(* takes the page out of the room's channel as it closes.  The hook goes   *)
(* by the ref: if that is not set, it tells nobody and cleans nothing up.  *)
Move(u) ==
  /\ turns < MaxTurns
  /\ turns' = turns + 1
  /\ \E chat \in {<< >>, <<Plain("off", None)>>} :
       Emit(u, Goodbye(u) \o chat)
  /\ page' = [page EXCEPT ![u] = [Lobby EXCEPT !.stale = page[u].stale + page[u].prompts]]
  /\ IF page[u].seen
     THEN CleanupAll(u)
     ELSE /\ pc' = [pc EXCEPT ![u] = [v \in Account |-> NoPc]]
          /\ camera' = [camera EXCEPT ![u] = [held |-> FALSE, left |-> @.left \/ @.held]]
          /\ UNCHANGED crossed
  /\ Missed(u)
  /\ UNCHANGED <<made, inbox, server, joins>>

-----------------------------------------------------------------------------
(* The server.                                                             *)
Participants == {u \in Account : entry[u] # "none"}

Full(u) == Cardinality(Participants) >= MaxPeers /\ u \notin Participants

Tell(S, m) == [u \in Account |-> IF u \in S THEN Append(inbox[u], m) ELSE inbox[u]]

(* Something that u has sent v, or is told of v but that v has left, is    *)
(* under way; the same between the two.                                    *)
Pending(u, v) ==
  \/ \E m \in Range(outbox[u]) : m.who = v
  \/ \E m \in Range(inbox[u]) : m.who = v /\ m.kind # "left"

Between(u, v) == Pending(u, v) \/ Pending(v, u)

Hear(u) == outbox' = [outbox EXCEPT ![u] = Tail(@)]

OthersIn(u) == Participants \ {u}

JoinCall(u) ==
  /\ outbox[u] # << >> /\ Head(outbox[u]).kind = "join"
  /\ Hear(u)
  /\ IF Full(u)
     THEN /\ inbox' = Tell({u}, Plain("full", None))
          /\ UNCHANGED <<entry, channel, crossed>>
     ELSE /\ entry' = [entry EXCEPT ![u] = "live"]
          /\ inbox' = [Tell(channel \ {u}, Plain("joined", u))
                         EXCEPT ![u] = Append(inbox[u], [Plain("peers", None) EXCEPT !.peers = OthersIn(u)])]
          /\ channel' = channel \cup {u}
          /\ crossed' = crossed \cup UNION {{<<u, v>>, <<v, u>>} :
                                           v \in {w \in Account \ {u} : Between(u, w)}}
  /\ UNCHANGED <<page, camera, pc, made, closing, joins, turns, astray>>

(* Seeded fault: the others are not told.                                  *)
Untold(u) == {}

Told(u) == channel \ {u}

LeaveCall(u) ==
  /\ outbox[u] # << >> /\ Head(outbox[u]).kind = "leave"
  /\ Hear(u)
  /\ entry' = [entry EXCEPT ![u] = "none"]
  /\ inbox' = Tell(Told(u), Plain("left", u))
  /\ UNCHANGED <<page, camera, pc, made, channel, closing, joins, turns, astray, crossed>>

LeaveChannel(u) ==
  /\ outbox[u] # << >> /\ Head(outbox[u]).kind = "off"
  /\ Hear(u)
  /\ channel' = channel \ {u}
  /\ UNCHANGED <<page, camera, pc, made, inbox, entry, closing, joins, turns, astray, crossed>>

(* A signal goes to the connection the other has joined with, from whoever *)
(* sends it.                                                               *)
Relay(u) ==
  /\ outbox[u] # << >>
  /\ LET m == Head(outbox[u]) IN
       /\ m.kind \in {"offer", "answer"}
       /\ inbox' = IF entry[m.who] = "live" THEN Tell({m.who}, [m EXCEPT !.who = u]) ELSE inbox
  /\ Hear(u)
  /\ UNCHANGED <<page, camera, pc, made, server, joins, turns, astray, crossed>>

(* The socket is lost and there is a new one at once, which is in no       *)
(* channel.  The page does not join again.                                 *)
Drop(u) ==
  /\ turns < MaxTurns
  /\ turns' = turns + 1
  /\ outbox' = [outbox EXCEPT ![u] = << >>]
  /\ inbox' = [inbox EXCEPT ![u] = << >>]
  /\ entry' = [entry EXCEPT ![u] = IF @ = "live" THEN "dead" ELSE @]
  /\ channel' = channel \ {u}
  /\ closing' = closing \cup {u}
  /\ astray' = astray \cup {u}
  /\ UNCHANGED <<page, camera, pc, made, joins, crossed>>

(* The disconnect handler comes to the calls after it has written          *)
(* isOnline, and removes what is there for the account by then.            *)
CleanUp(u) ==
  /\ u \in closing
  /\ closing' = closing \ {u}
  /\ entry' = [entry EXCEPT ![u] = "none"]
  /\ inbox' = IF u \in Participants THEN Tell(channel, Plain("left", u)) ELSE inbox
  /\ UNCHANGED <<page, camera, pc, made, outbox, channel, joins, turns, astray, crossed>>

-----------------------------------------------------------------------------
(* What a page is told.                                                    *)
Receives(u, kind) == inbox[u] # << >> /\ Head(inbox[u]).kind = kind

Done(u) == inbox' = [inbox EXCEPT ![u] = Tail(@)]

(* Page u has asked to be let in and has not taken the answer yet: what it *)
(* takes of the others now is not of this call.                            *)
Waiting(u) ==
  \/ \E m \in Range(outbox[u]) : m.kind = "join"
  \/ \E m \in Range(Tail(inbox[u])) : m.kind \in {"peers", "full"}

Early(u, S) == crossed' = IF Waiting(u) THEN crossed \cup ({u} \X S) ELSE crossed

NewPc(u, v) == [NoPc EXCEPT !.id = made[u][v] + 1]

(* handlePeers.                                                            *)
Peers(u) ==
  /\ Receives(u, "peers")
  /\ LET new == IF page[u].seen THEN {v \in Head(inbox[u]).peers : pc[u][v] = NoPc} ELSE {} IN
       /\ pc' = [pc EXCEPT ![u] = [v \in Account |-> IF v \in new THEN NewPc(u, v) ELSE @[v]]]
       /\ made' = [made EXCEPT ![u] = [v \in Account |-> IF v \in new THEN @[v] + 1 ELSE @[v]]]
       /\ Early(u, new)
  /\ Done(u)
  /\ Missed(u)
  /\ UNCHANGED <<page, camera, outbox, server, joins, turns>>

(* handlePeerJoined: a new connection, in the place of one there may be.   *)
PeerJoined(u) ==
  /\ Receives(u, "joined")
  /\ IF page[u].seen
     THEN LET v == Head(inbox[u]).who IN
          /\ pc' = [pc EXCEPT ![u][v] = [NewPc(u, v) EXCEPT !.local = "offer"]]
          /\ made' = [made EXCEPT ![u][v] = @ + 1]
          /\ Emit(u, <<Signal("offer", v, made[u][v] + 1, 0)>>)
     ELSE UNCHANGED <<pc, made, outbox>>
  /\ Early(u, {Head(inbox[u]).who})
  /\ Done(u)
  /\ Missed(u)
  /\ UNCHANGED <<page, camera, server, joins, turns>>

PeerLeft(u) ==
  /\ Receives(u, "left")
  /\ LET v == Head(inbox[u]).who IN
       /\ pc' = [pc EXCEPT ![u][v] = NoPc]
       /\ crossed' = IF Between(u, v) THEN crossed ELSE crossed \ {<<u, v>>}
  /\ Done(u)
  /\ UNCHANGED <<page, camera, made, outbox, server, joins, turns, astray>>

(* handleSignal, an offer: it is taken also by a connection that has made  *)
(* an offer itself, which is withdrawn.                                    *)
Offer(u) ==
  /\ Receives(u, "offer")
  /\ IF page[u].seen
     THEN LET m == Head(inbox[u])
              c == IF pc[u][m.who] = NoPc THEN NewPc(u, m.who) ELSE pc[u][m.who] IN
          /\ pc' = [pc EXCEPT ![u][m.who] = [c EXCEPT !.local = "answer", !.remote = m.desc]]
          /\ made' = [made EXCEPT ![u][m.who] = c.id]
          /\ Emit(u, <<Signal("answer", m.who, c.id, m.desc.by)>>)
     ELSE UNCHANGED <<pc, made, outbox>>
  /\ Early(u, {Head(inbox[u]).who})
  /\ Done(u)
  /\ Missed(u)
  /\ UNCHANGED <<page, camera, server, joins, turns>>

(* An answer is taken by a connection whose offer is not answered yet.     *)
AwaitsAnswer(c) == c.local = "offer" /\ c.remote = Unknown

Answer(u) ==
  /\ Receives(u, "answer")
  /\ LET m == Head(inbox[u]) IN
       pc' = IF page[u].seen /\ AwaitsAnswer(pc[u][m.who])
             THEN [pc EXCEPT ![u][m.who].remote = m.desc]
             ELSE pc
  /\ Early(u, {Head(inbox[u]).who})
  /\ Done(u)
  /\ Missed(u)
  /\ UNCHANGED <<page, camera, made, outbox, server, joins, turns>>

(* Seeded fault: a state the page does not know.                           *)
Wondering(u) == [page[u] EXCEPT !.inCall = None]

Unlet(u) == [page[u] EXCEPT !.inCall = FALSE]

(* handleFull: the page is not in the call; nothing is cleaned up.         *)
Refused(u) ==
  /\ Receives(u, "full")
  /\ page' = [page EXCEPT ![u] = Unlet(u)]
  /\ Done(u)
  /\ astray' = astray \cup {u}
  /\ UNCHANGED <<camera, pc, made, outbox, server, joins, turns, crossed>>

(* The connections u has to v and v to u know each other's descriptions.   *)
Paired(u, v) ==
  \E x, y \in {u, v} :
    /\ x # y
    /\ pc[x][y].local = "offer"
    /\ pc[x][y].remote = [by |-> pc[y][x].id, to |-> pc[x][y].id]
    /\ pc[y][x].local = "answer"
    /\ pc[y][x].remote.by = pc[x][y].id

(* onconnectionstatechange: a negotiated connection without its            *)
(* counterpart fails in the end.                                           *)
ConnectionFails(u, v) ==
  /\ pc[u][v].remote # Unknown
  /\ ~Paired(u, v)
  /\ ~Between(u, v)
  /\ pc' = [pc EXCEPT ![u][v] = NoPc]
  /\ UNCHANGED <<page, camera, made, outbox, inbox, server, joins, turns, astray, crossed>>

-----------------------------------------------------------------------------
PageStep(u) ==
  \/ ClickJoin(u) \/ Granted(u) \/ GrantedLate(u) \/ Denied(u)
  \/ Render(u) \/ LeaveVideo(u) \/ Move(u)
  \/ Peers(u) \/ PeerJoined(u) \/ PeerLeft(u)
  \/ Offer(u) \/ Answer(u) \/ Refused(u)
  \/ \E v \in Account \ {u} : ConnectionFails(u, v)

ServerStep(u) ==
  JoinCall(u) \/ LeaveCall(u) \/ LeaveChannel(u) \/ Relay(u) \/ Drop(u) \/ CleanUp(u)

VideoNext == \E u \in Account : PageStep(u) \/ ServerStep(u)

VideoSpec == VideoInit /\ [][VideoNext]_videoVars

-----------------------------------------------------------------------------
VideoTypeOK ==
  /\ page \in [Account -> Page]
  /\ camera \in [Account -> Camera]
  /\ \A u, v \in Account : pc[u][v] \in PeerConnection /\ made[u][v] \in Nat
  /\ \A u \in Account : \A m \in Range(outbox[u]) \cup Range(inbox[u]) : m \in Message
  /\ entry \in [Account -> {"none", "live", "dead"}]
  /\ channel \subseteq Account
  /\ closing \subseteq Account
  /\ joins \in 0..MaxJoins
  /\ turns \in 0..MaxTurns

(* Everything u has sent and is told is dealt with.                        *)
Settled(u) ==
  /\ outbox[u] = << >> /\ inbox[u] = << >>
  /\ page[u].seen = page[u].inCall
  /\ u \notin closing

(* When all is said, a page that shows the call is a participant, and no   *)
(* other is, except after a refusal, a lost socket, a second click, or an  *)
(* answer for the camera that comes when the tab is gone.                  *)
ShownIsIn ==
  \A u \in Account \ astray :
    Settled(u) => (entry[u] = "live" <=> page[u].inCall)

(* When all is said between two pages, the one that is in the call is      *)
(* connected with the other if that is in it too, both with the            *)
(* descriptions of the present connections, and has no connection to it    *)
(* otherwise; unless one of them went astray, or what was under way        *)
(* between them in an earlier call has met the present one.                *)
MeshIsComplete ==
  \A u, v \in Account \ astray :
    u # v /\ {<<u, v>>, <<v, u>>} \cap crossed = {} /\ Settled(u) /\ Settled(v) /\ page[u].inCall =>
      IF page[v].inCall THEN Paired(u, v) ELSE pc[u][v] = NoPc

(* The camera is off on a page that is not in a call and is not asking for *)
(* it, with the same exceptions.                                           *)
CameraOff ==
  \A u \in Account \ astray :
    ~page[u].inCall /\ page[u].stale = 0 => camera[u] = [held |-> FALSE, left |-> FALSE]
=============================================================================
