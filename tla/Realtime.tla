------------------------------ MODULE Realtime ------------------------------
(***************************************************************************)
(* The Socket.io server of backend/utils/socket.js: the life of a          *)
(* connection, the isOnline flag of its account in MongoDB, and the        *)
(* registry of the rooms' video calls (io._videoRooms), which is kept by   *)
(* account while connections come and go.                                  *)
(*                                                                         *)
(* A handler runs to its next await in one step.  The two writes of        *)
(* isOnline are awaited: the write and what follows it are separate steps. *)
(* fetchSockets of the in-memory adapter counts at once, so the disconnect *)
(* handler decides in the step in which the connection closes.             *)
(*                                                                         *)
(* A connection is used once: a client that reconnects has a new one.      *)
(* Chat, calls between two accounts and the messages sent to the clients   *)
(* of a room are not in this module.                                       *)
(***************************************************************************)
EXTENDS Naturals, FiniteSets

CONSTANTS
  Socket,     \* connections that may ever be made
  User,       \* accounts
  UserOf,     \* the account of each connection
  Room,       \* rooms
  NoSocket,   \* "not in the call"
  MaxPeers    \* participants of one call (6)

ASSUME Assumptions ==
  /\ IsFiniteSet(User)
  /\ UserOf \in [Socket -> User]
  /\ NoSocket \notin Socket
  /\ MaxPeers \in Nat \ {0}

VARIABLES
  phase,    \* where each connection, and its last handler, is
  online,   \* isOnline of each account
  open,     \* the rooms that are keys of the registry
  entry     \* entry[r][u]: the connection registered for u in r's call

vars == <<phase, online, open, entry>>

(***************************************************************************)
(* "new"      not made yet                                                 *)
(* "greeted"  made; the write of isOnline is under way                     *)
(* "online"   made; isOnline is written, the handlers are not registered   *)
(* "ready"    made; the handlers are registered                            *)
(* "leaving"  closed; the write that clears isOnline is under way          *)
(* "offline"  closed; isOnline is cleared, the registry is not cleaned up  *)
(* "closed"   closed; nothing is left to do                                *)
(***************************************************************************)
Phase == {"new", "greeted", "online", "ready", "leaving", "offline", "closed"}

Peers(r) == {u \in User : entry[r][u] # NoSocket}

Init ==
  /\ phase = [s \in Socket |-> "new"]
  /\ online = [u \in User |-> FALSE]
  /\ open = {}
  /\ entry = [r \in Room |-> [u \in User |-> NoSocket]]

GoTo(s, p) == phase' = [phase EXCEPT ![s] = p]

-----------------------------------------------------------------------------
(* The handler of "connection".                                            *)
Connect(s) ==
  /\ phase[s] = "new"
  /\ GoTo(s, "greeted")
  /\ UNCHANGED <<online, open, entry>>

OnlineWrite(s) ==
  /\ phase[s] = "greeted"
  /\ online' = [online EXCEPT ![UserOf[s]] = TRUE]
  /\ GoTo(s, "online")
  /\ UNCHANGED <<open, entry>>

Register(s) ==
  /\ phase[s] = "online"
  /\ GoTo(s, "ready")
  /\ UNCHANGED <<online, open, entry>>

(* The connection closes before the handlers are registered: nobody hears  *)
(* of it, and a write under way still lands.                               *)
DropEarly(s) ==
  /\ phase[s] \in {"greeted", "online"}
  /\ \/ online' = [online EXCEPT ![UserOf[s]] = TRUE]
     \/ phase[s] = "online" /\ UNCHANGED online
  /\ GoTo(s, "closed")
  /\ UNCHANGED <<open, entry>>

-----------------------------------------------------------------------------
(* Seeded fault: the call is full only beyond the limit.                   *)
FullBeyond(r, u) == Cardinality(Peers(r)) > MaxPeers /\ entry[r][u] = NoSocket

Full(r, u) == Cardinality(Peers(r)) >= MaxPeers /\ entry[r][u] = NoSocket

(* Seeded fault: the account is stored in place of the connection.         *)
JoinVideoByUser(s, r) ==
  /\ phase[s] = "ready"
  /\ ~Full(r, UserOf[s])
  /\ open' = open \cup {r}
  /\ entry' = [entry EXCEPT ![r][UserOf[s]] = UserOf[s]]
  /\ UNCHANGED <<phase, online>>

(* "room:video:join": the account's entry is made or replaced.             *)
JoinVideo(s, r) ==
  /\ phase[s] = "ready"
  /\ ~Full(r, UserOf[s])
  /\ open' = open \cup {r}
  /\ entry' = [entry EXCEPT ![r][UserOf[s]] = s]
  /\ UNCHANGED <<phase, online>>

(* The account u leaves the calls of R; a call without participants is     *)
(* taken out of the registry.                                              *)
Removed(R, u) ==
  [r \in Room |-> IF r \in R THEN [entry[r] EXCEPT ![u] = NoSocket]
                             ELSE entry[r]]

(* Seeded fault: a call stays in the registry when its last peer leaves.   *)
RemainingKept(R, u) == open

Remaining(R, u) == {r \in open : r \in R => Peers(r) \ {u} # {}}

(* "room:video:leave".                                                     *)
LeaveVideo(s, r) ==
  /\ phase[s] = "ready"
  /\ entry' = Removed({r}, UserOf[s])
  /\ open' = Remaining({r}, UserOf[s])
  /\ UNCHANGED <<phase, online>>

-----------------------------------------------------------------------------
(* The handler of "disconnect".  The connection has left its channels when *)
(* the handler counts the account's other connections.                     *)
OtherConnections(s) ==
  {q \in Socket \ {s} : phase[q] = "ready" /\ UserOf[q] = UserOf[s]}

CleanUp(s) ==
  /\ entry' = Removed(Room, UserOf[s])
  /\ open' = Remaining(Room, UserOf[s])
  /\ GoTo(s, "closed")

(* Seeded fault: the handler returns when the account is still connected.  *)
DisconnectReturns(s) ==
  /\ phase[s] = "ready"
  /\ GoTo(s, IF OtherConnections(s) = {} THEN "leaving" ELSE "closed")
  /\ UNCHANGED <<online, open, entry>>

Disconnect(s) ==
  /\ phase[s] = "ready"
  /\ IF OtherConnections(s) = {}
     THEN GoTo(s, "leaving") /\ UNCHANGED <<open, entry>>
     ELSE CleanUp(s)
  /\ UNCHANGED online

OfflineWrite(s) ==
  /\ phase[s] = "leaving"
  /\ online' = [online EXCEPT ![UserOf[s]] = FALSE]
  /\ GoTo(s, "offline")
  /\ UNCHANGED <<open, entry>>

(* Seeded fault: the registry is not cleaned up.                           *)
DisconnectEndsEarly(s) ==
  /\ phase[s] = "offline"
  /\ GoTo(s, "closed")
  /\ UNCHANGED <<online, open, entry>>

DisconnectEnds(s) ==
  /\ phase[s] = "offline"
  /\ CleanUp(s)
  /\ UNCHANGED online

(* The server stops and starts again.  What is in MongoDB stays.           *)
Restart ==
  /\ \E s \in Socket : phase[s] \notin {"new", "closed"}
  /\ phase' = [s \in Socket |-> IF phase[s] = "new" THEN "new" ELSE "closed"]
  /\ open' = {}
  /\ entry' = [r \in Room |-> [u \in User |-> NoSocket]]
  /\ UNCHANGED online

-----------------------------------------------------------------------------
Client(s) ==
  \/ Connect(s) \/ DropEarly(s) \/ Disconnect(s)
  \/ \E r \in Room : JoinVideo(s, r) \/ LeaveVideo(s, r)

Continue(s) ==
  OnlineWrite(s) \/ Register(s) \/ OfflineWrite(s) \/ DisconnectEnds(s)

Next == Restart \/ \E s \in Socket : Client(s) \/ Continue(s)

Spec == Init /\ [][Next]_vars

(* MongoDB answers, and Node runs what follows an await.                   *)
LiveSpec == Spec /\ \A s \in Socket : WF_vars(Continue(s))

-----------------------------------------------------------------------------
(* Types.                                                                  *)
TypeOK ==
  /\ phase \in [Socket -> Phase]
  /\ online \in [User -> BOOLEAN]
  /\ open \subseteq Room
  /\ entry \in [Room -> [User -> Socket \cup {NoSocket}]]

(* A call never has more participants than the mesh allows, with several   *)
(* connections of one account and entries that are about to be cleaned up. *)
CapKept == \A r \in Room : Cardinality(Peers(r)) <= MaxPeers

(* The registry holds exactly the calls that somebody is in: no leave and  *)
(* no disconnect of the last participant leaves an empty call behind.      *)
NoEmptyCall == open = {r \in Room : Peers(r) # {}}

(* An entry's connection is one of its own account, and is open or has its *)
(* disconnect handler still to finish: signals for a participant go to no  *)
(* one else, and to no connection that nobody will clean up after.         *)
EntryAccountedFor ==
  \A r \in Room, u \in User : entry[r][u] # NoSocket =>
    /\ UserOf[entry[r][u]] = u
    /\ phase[entry[r][u]] \in {"ready", "leaving", "offline"}

(* A participant whose connection has closed does not stay in the call.    *)
DeadEntryGoes ==
  \A r \in Room, s \in Socket :
    entry[r][UserOf[s]] = s /\ phase[s] # "ready" ~> entry[r][UserOf[s]] # s

(* No handler of an account's connections is running.                      *)
Quiet(u) ==
  \A s \in Socket : UserOf[s] = u => phase[s] \in {"new", "ready", "closed"}

(* "Check if user has other active connections before marking offline"     *)
(* (the disconnect handler): when its handlers are done, an account that   *)
(* is connected is not marked offline.                                     *)
ConnectedIsOnline ==
  \A s \in Socket : phase[s] = "ready" /\ Quiet(UserOf[s]) => online[UserOf[s]]

=============================================================================
