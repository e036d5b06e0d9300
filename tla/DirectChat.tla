----------------------------- MODULE DirectChat -----------------------------
(***************************************************************************)
(* The chat of two friends, as the page of one of them shows it: the       *)
(* handlers of messages (backend/controllers/messageController.js), the    *)
(* room of the socket (join_room and leave_room in                         *)
(* backend/utils/socket.js), and the chat itself                           *)
(* (frontend/src/components/modals/FriendsModal.jsx).                      *)
(*                                                                         *)
(* The page gets the history by a request and what follows by events of    *)
(* the room, which it is in only while the chat is open; it loads the      *)
(* history once.  A message is stored, sent to the room and answered, in   *)
(* steps of their own, and so is the note that messages were read: it may  *)
(* stop in between.  Nothing that fails is tried again.  A load or a       *)
(* sending that fails before it is served is one that never is.  The       *)
(* friend's page is not kept: the friend sends and reads at any time.      *)
(*                                                                         *)
(* Not here: more than 50 messages, what a message holds, files and GIFs,  *)
(* the count of unread messages, other chats, membership (both stay        *)
(* members of the room), deletion.                                         *)
(***************************************************************************)
EXTENDS Naturals, Sequences

CONSTANTS
  MaxMessages,  \* bound: messages that are sent
  MaxTurns      \* bound: how often the chat is opened or joined again, or the
                \* connection drops

ASSUME ChatAssumptions == MaxMessages \in Nat /\ MaxTurns \in Nat

VARIABLES
  author,     \* who wrote each message, by the order they were sent in
  phase,      \* how far the request that sends a message is
  stored,     \* the messages that are stored, in the order of createdAt
  read,       \* messages that the other one has read
  noted,      \* updates of the friend's reading whose event is to be sent
  joined,     \* is the socket in the room?
  toServer,   \* join_room and leave_room under way
  inbox,      \* events under way to the page
  open,       \* does the page show the chat?
  history,    \* the messages it shows, in their order
  loaded,     \* has it loaded the history?
  loads,      \* requests for the history under way
  awaited,    \* own messages whose answer the page waits for
  asked,      \* is a request of the page to mark as read under way? (one stands
              \* for several)
  turns,      \* how often the room was joined or the connection dropped so far
  untold,     \* messages whose event did not reach the page (history)
  missed,     \* messages the page could not be told of, or that a load took
              \* away again (history)
  ahead,      \* messages stored after an update whose event had not come to
              \* the page yet (history)
  unmarked    \* messages that the page's last request to mark as read was for,
              \* if that failed (history)

server == <<author, phase, stored, read, noted>>
wire == <<joined, toServer, inbox>>
page == <<open, history, loaded, loads, awaited, asked>>
chatVars == <<server, wire, page, turns, untold, missed, ahead, unmarked>>

Message == 1..MaxMessages

Shown == [id : Message, ticked : BOOLEAN]

Event == [kind : {"new"}, id : Message] \cup {[kind |-> "read"]}

New(m) == [kind |-> "new", id |-> m]

Elements(s) == {s[i] : i \in DOMAIN s}

ShownIds == {history[i].id : i \in DOMAIN history}

By(who) == {m \in Elements(stored) : author[m] = who}

ChatInit ==
  /\ author = << >>
  /\ phase = << >>
  /\ stored = << >>
  /\ read = {}
  /\ noted = 0
  /\ joined = FALSE
  /\ toServer = << >>
  /\ inbox = << >>
  /\ open = FALSE
  /\ history = << >>
  /\ loaded = FALSE
  /\ loads = << >>
  /\ awaited = {}
  /\ asked = FALSE
  /\ turns = 0
  /\ untold = {}
  /\ missed = {}
  /\ ahead = {}
  /\ unmarked = {}

-----------------------------------------------------------------------------
(* sendMessage: the message is created, then sent to the room, and         *)
(* answered at any time after it was created.                              *)
Store(m) ==
  /\ phase[m] = "posted"
  /\ phase' = [phase EXCEPT ![m] = "stored"]
  /\ stored' = Append(stored, m)
  /\ ahead' = IF noted > 0 \/ [kind |-> "read"] \in Elements(inbox) THEN ahead \cup {m} ELSE ahead
  /\ UNCHANGED <<author, read, noted, wire, page, untold, missed, turns, unmarked>>

EmitNew(m) ==
  /\ phase[m] = "stored"
  /\ phase' = [phase EXCEPT ![m] = "over"]
  /\ IF joined
     THEN inbox' = Append(inbox, New(m)) /\ UNCHANGED <<untold, missed>>
     ELSE /\ untold' = untold \cup {m}
          /\ missed' = missed \cup {m}
          /\ UNCHANGED inbox
  /\ UNCHANGED <<author, stored, read, noted, joined, toServer, page, ahead, turns, unmarked>>

(* The sender is not found (populate), the server stops, or the socket's   *)
(* module is not loaded (import, of which the answer takes no notice): the *)
(* room is never told.                                                     *)
EmitFails(m) ==
  /\ phase[m] = "stored"
  /\ phase' = [phase EXCEPT ![m] = "over"]
  /\ untold' = untold \cup {m}
  /\ missed' = missed \cup {m}
  /\ UNCHANGED <<author, stored, read, noted, wire, page, ahead, turns, unmarked>>

(* Seeded fault: what somebody wrote is marked, not what they got.         *)
Written(who) == By(who)

Received(who) == By(IF who = "me" THEN "friend" ELSE "me")

(* markAsRead, for this page (whose own event tells it nothing).           *)
MarkAsRead ==
  /\ asked
  /\ asked' = FALSE
  /\ read' = read \cup Received("me")
  /\ unmarked' = {}
  /\ UNCHANGED <<author, phase, stored, noted, wire, open, history, loaded, loads, awaited,
                 untold, missed, ahead, turns>>

(* The request fails, which the page takes no notice of.  (While another   *)
(* is under way, that changes nothing.)                                    *)
MarkFails ==
  /\ asked
  /\ asked' = FALSE
  /\ unmarked' = Received("me") \ read
  /\ UNCHANGED <<server, wire, open, history, loaded, loads, awaited, untold, missed, ahead,
                 turns>>

(* The same for the friend's: one update of all that are unread, and an    *)
(* event if there were any.                                                *)
FriendReads ==
  /\ ~(Received("friend") \subseteq read)
  /\ read' = read \cup Received("friend")
  /\ noted' = noted + 1
  /\ UNCHANGED <<author, phase, stored, wire, page, untold, missed, ahead, turns, unmarked>>

EmitRead ==
  /\ noted > 0
  /\ noted' = noted - 1
  /\ inbox' = IF joined THEN Append(inbox, [kind |-> "read"]) ELSE inbox
  /\ UNCHANGED <<author, phase, stored, read, joined, toServer, page, untold, missed, ahead,
                 turns, unmarked>>

(* The server stops before.                                                *)
EmitReadFails ==
  /\ noted > 0
  /\ noted' = noted - 1
  /\ UNCHANGED <<author, phase, stored, read, wire, page, untold, missed, ahead, turns, unmarked>>

(* Seeded fault: there is a list of readers, empty or not.                 *)
HasReaders(m) == author[m] = "me"

Marked(m) == author[m] = "me" /\ m \in read

(* getMessagesByRoom.                                                      *)
ReadHistory(i) ==
  /\ loads[i].step = "asked"
  /\ loads' = [loads EXCEPT ![i] =
       [step |-> "read",
        list |-> [k \in DOMAIN stored |->
                    [id |-> stored[k], ticked |-> Marked(stored[k])]]]]
  /\ UNCHANGED <<server, wire, open, history, loaded, awaited, asked, untold, missed, ahead,
                 turns, unmarked>>

(* join_room and leave_room.                                               *)
JoinOrLeave ==
  /\ toServer # << >>
  /\ toServer' = Tail(toServer)
  /\ joined' = (Head(toServer) = "join")
  /\ UNCHANGED <<server, inbox, page, untold, missed, ahead, turns, unmarked>>

(* The connection drops and comes back, in no room.  What the page sends   *)
(* meanwhile is kept for the new one.                                      *)
Drop ==
  LET lost == {m \in Message : New(m) \in Elements(inbox)} IN
  /\ turns < MaxTurns
  /\ turns' = turns + 1
  /\ joined' = FALSE
  /\ inbox' = << >>
  /\ untold' = untold \cup lost
  /\ missed' = missed \cup lost
  /\ UNCHANGED <<server, toServer, page, ahead, unmarked>>

-----------------------------------------------------------------------------
(* The effect of an open chat: the page joins the room, marks what it      *)
(* holds as read, and loads the history if it has not yet.  It is redone,  *)
(* after leaving, when the friend comes online or goes.                    *)
Enter(signals) ==
  /\ turns < MaxTurns
  /\ turns' = turns + 1
  /\ toServer' = toServer \o signals
  /\ asked' = TRUE
  /\ unmarked' = {}
  /\ loads' = IF loaded THEN loads ELSE Append(loads, [step |-> "asked", list |-> << >>])
  /\ UNCHANGED <<server, joined, inbox, history, loaded, awaited, untold, missed, ahead>>

OpenChat == ~open /\ open' = TRUE /\ Enter(<<"join">>)

StatusChange == open /\ UNCHANGED open /\ Enter(<<"leave", "join">>)

(* Back to the list of friends.                                            *)
CloseChat ==
  /\ open
  /\ open' = FALSE
  /\ toServer' = Append(toServer, "leave")
  /\ UNCHANGED <<server, joined, inbox, history, loaded, loads, awaited, asked, untold,
                 missed, ahead, turns, unmarked>>

Without(s, i) == [k \in 1..(Len(s) - 1) |-> IF k < i THEN s[k] ELSE s[k + 1]]

(* The answer to a load replaces what is shown, whatever came meanwhile.   *)
HistoryLoaded(i) ==
  LET ids == {m.id : m \in Elements(loads[i].list)} IN
  /\ loads[i].step = "read"
  /\ loads' = Without(loads, i)
  /\ history' = loads[i].list
  /\ loaded' = TRUE
  /\ missed' = (missed \ ids) \cup (ShownIds \ ids)
  /\ UNCHANGED <<server, wire, open, awaited, asked, untold, ahead, turns, unmarked>>

(* handleSendMessage, from an open chat; or the friend sends.              *)
Send(who) ==
  /\ who = "me" => open
  /\ Len(author) < MaxMessages
  /\ author' = Append(author, who)
  /\ phase' = Append(phase, "posted")
  /\ awaited' = IF who = "me" THEN awaited \cup {Len(author')} ELSE awaited
  /\ UNCHANGED <<stored, read, noted, wire, open, history, loaded, loads, asked, untold,
                 missed, ahead, turns, unmarked>>

(* Seeded fault: a message comes without the mark of being read.           *)
Unmarked(m) == [id |-> m]

Fresh(m) == [id |-> m, ticked |-> FALSE]

(* appendOptimisticMessage: it compares fields that no message has, and    *)
(* so adds a message only to a chat that shows none.                       *)
Answered(m) ==
  /\ m \in awaited
  /\ phase[m] # "posted"
  /\ awaited' = awaited \ {m}
  /\ history' = IF history = << >> THEN <<Fresh(m)>> ELSE history
  /\ missed' = IF history = << >> THEN missed \ {m} ELSE missed
  /\ UNCHANGED <<server, wire, open, loaded, loads, asked, untold, ahead, turns, unmarked>>

(* Seeded faults: a message that is shown is not recognised; one is taken  *)
(* to be shown if any is.                                                  *)
NeverSeen(m) == FALSE

AnyShown(m) == history # << >>

AlreadyShown(m) == m \in ShownIds

(* handleNewMessage: an open chat has it marked as read at once.           *)
NewMessage ==
  LET m == Head(inbox).id IN
  /\ inbox # << >>
  /\ Head(inbox).kind = "new"
  /\ inbox' = Tail(inbox)
  /\ history' = IF AlreadyShown(m) THEN history
                ELSE Append(history, Fresh(m))
  /\ asked' = (asked \/ open)
  /\ unmarked' = IF open THEN {} ELSE unmarked
  /\ missed' = missed \ {m}
  /\ UNCHANGED <<server, joined, toServer, open, loaded, loads, awaited, untold, ahead, turns>>

(* handleMessagesRead: all of one's own messages are ticked.               *)
MessagesRead ==
  /\ inbox # << >>
  /\ Head(inbox).kind = "read"
  /\ inbox' = Tail(inbox)
  /\ history' = [k \in DOMAIN history |->
                   [history[k] EXCEPT !.ticked = @ \/ author[history[k].id] = "me"]]
  /\ UNCHANGED <<server, joined, toServer, open, loaded, loads, awaited, asked, untold,
                 missed, ahead, turns, unmarked>>

(* The modal is closed: what it had of the chat is gone.                   *)
CloseModal ==
  /\ open \/ history # << >> \/ loads # << >> \/ loaded
  /\ toServer' = IF open THEN Append(toServer, "leave") ELSE toServer
  /\ open' = FALSE
  /\ history' = << >>
  /\ loaded' = FALSE
  /\ loads' = << >>
  /\ awaited' = {}
  /\ UNCHANGED <<server, joined, inbox, asked, untold, missed, ahead, turns, unmarked>>

-----------------------------------------------------------------------------
ChatNext ==
  \/ \E m \in DOMAIN author : Store(m) \/ EmitNew(m) \/ EmitFails(m) \/ Answered(m)
  \/ \E who \in {"me", "friend"} : Send(who)
  \/ OpenChat \/ StatusChange \/ CloseChat \/ CloseModal
  \/ MarkAsRead \/ MarkFails \/ FriendReads \/ EmitRead \/ EmitReadFails
  \/ \E i \in DOMAIN loads : ReadHistory(i) \/ HistoryLoaded(i)
  \/ JoinOrLeave \/ NewMessage \/ MessagesRead \/ Drop

ChatSpec == ChatInit /\ [][ChatNext]_chatVars

-----------------------------------------------------------------------------
ChatTypeOK ==
  /\ Len(author) <= MaxMessages
  /\ Elements(author) \subseteq {"me", "friend"}
  /\ DOMAIN phase = DOMAIN author
  /\ Elements(phase) \subseteq {"posted", "stored", "over"}
  /\ Elements(stored) \subseteq DOMAIN author
  /\ read \subseteq Message
  /\ noted \in Nat
  /\ joined \in BOOLEAN
  /\ Elements(toServer) \subseteq {"join", "leave"}
  /\ Elements(inbox) \subseteq Event
  /\ open \in BOOLEAN
  /\ Elements(history) \subseteq Shown
  /\ loaded \in BOOLEAN
  /\ \A i \in DOMAIN loads : /\ loads[i].step \in {"asked", "read"}
                             /\ Elements(loads[i].list) \subseteq Shown
  /\ awaited \subseteq DOMAIN author
  /\ asked \in BOOLEAN
  /\ turns \in 0..MaxTurns
  /\ untold \cup missed \cup ahead \cup unmarked \subseteq Message

(* No message is shown twice, though each is told by the history, by an    *)
(* event and by the answer to who sent it.                                 *)
NoneTwice == \A i, k \in DOMAIN history : history[i].id = history[k].id => i = k

(* An event that is to be sent, or under way.                              *)
Coming(m) == phase[m] = "stored" \/ New(m) \in Elements(inbox)

(* A chat that has loaded its history shows every message, except one that *)
(* the room was told of while the page was not in it, or never, or that    *)
(* the answer to a load took away again.                                   *)
NothingElseMissed ==
  loaded => \A m \in Elements(stored) : m \in ShownIds \cup missed \/ Coming(m)

(* A message that is ticked was read by the friend, unless it was stored   *)
(* when the event of an earlier update was still to come.                  *)
TicksAreTrue ==
  \A i \in DOMAIN history : history[i].ticked =>
    history[i].id \in read \cup ahead /\ author[history[i].id] = "me"

(* What an open chat shows of the friend's is read, or a request to mark   *)
(* it so is under way, unless that request failed and none was made since, *)
(* or the page was never told of the message by an event.                  *)
ShownIsRead ==
  open => \A m \in ShownIds \ untold :
    author[m] = "friend" => m \in read \cup unmarked \/ asked \/ Coming(m)

=============================================================================
