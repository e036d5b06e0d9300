---------------------------- MODULE ClientSession ----------------------------
(***************************************************************************)
(* The session of one browser (frontend/src/api/client.js,                 *)
(* context/AuthContext.jsx): its tabs share localStorage and the cookie,   *)
(* each tab has its own React state, default header and refresh in         *)
(* progress, and several API calls at a time.  A call answered 401 waits   *)
(* for the tab's refresh and is sent again, once.                          *)
(*                                                                         *)
(* A tab's script runs one callback at a time; the continuations of a      *)
(* promise that is settled run before the next callback, hence all calls   *)
(* that wait for a refresh go on in one step.                              *)
(*                                                                         *)
(* The server is modelled by what it answers: the steps of the rotation    *)
(* are those of RefreshTokens, seen from a client.  A handler goes on when *)
(* the connection of its request is lost or its page is loaded again, and  *)
(* any exception in it is answered 401.  The access token and the refresh  *)
(* token of one answer have one number.                                    *)
(***************************************************************************)
EXTENDS Naturals, Sequences, FiniteSets

CONSTANTS
  Tab,         \* tabs of the browser
  Slot,        \* API calls a tab can have at the same time
  MaxTokens,   \* bound of the model: tokens generated
  MaxLogins,   \* bound of the model: sessions created
  MaxLosses,   \* bound of the model: refreshes whose answer is lost
  MayLimit     \* whether the rate limiter may refuse a refresh

ASSUME Assumptions ==
  /\ IsFiniteSet(Tab)
  /\ MaxTokens \in Nat \ {0}
  /\ MaxLogins \in Nat \ {0}
  /\ MaxLosses \in Nat
  /\ Tab \cap (1 .. MaxLosses) = {}
  /\ MayLimit \in BOOLEAN

VARIABLES
  keeps,     \* whether the browser keeps the server's cookie
  cookie,    \* the refresh token in it
  stored,    \* userInfo in localStorage: the number of its two tokens
  user,      \* per tab, the tokens of the user in the React state
  header,    \* per tab, client.defaults.headers.common.Authorization
  dead,      \* per tab, client._sessionDead
  flight,    \* per tab, client._refreshPromise; and the handlers at the
             \* server that go on although nobody waits for them
  call,      \* per tab, the API calls
  server,    \* the session of each login, as the server has it
  issued,    \* the login each token was issued for
  lapsed,    \* how many access tokens, the first ones, are past their time
  alarm,     \* the server has seen a replaced token used again
  forked,    \* logins two of whose rotations overlapped (history)
  losses     \* how many answers to a refresh were lost

browser == <<keeps, cookie, stored>>
page == <<user, header, dead>>
service == <<server, issued, lapsed, alarm, forked>>
vars == <<browser, page, flight, call, service, losses>>

None == 0
Token == 1 .. MaxTokens
Login == 1 .. MaxLogins

(* The refresh of a tab with its handler, or, by the loss that separated   *)
(* the two, a handler alone.                                               *)
Handler == Tab \cup 1 .. MaxLosses

Op == {"call", "verify", "login", "logout"}
CallPhase == {"free", "sent", "ok", "denied", "waiting", "delayed"}

(* "auth" is the access token sent with a call to a protected route;       *)
(* "token" is the cookie sent with a logout, or the token answered to a    *)
(* login.                                                                  *)
CallRecord ==
  [phase : CallPhase, op : Op, auth : Token \cup {None},
   token : Token \cup {None}, retried : BOOLEAN]

(* "rejected" and "error" are 401s: the session is refused, or an exception*)
(* ended the handler.  "failed" is no answer, or none of the handler.      *)
Answer == {"none", "ok", "race", "limited", "rejected", "error", "failed"}

(* "token" is the token sent, and after the rotation the new one.          *)
FlightRecord ==
  [phase : {"none", "sent", "saving", "reply", "answered"},
   token : Token \cup {None}, answer : Answer]

(* "recent": it is valid and was rotated less than thirty seconds ago.     *)
SessionRecord ==
  [current : Token \cup {None}, previous : SUBSET Token,
   valid : BOOLEAN, recent : BOOLEAN]

NoCall ==
  [phase |-> "free", op |-> "call", auth |-> None, token |-> None,
   retried |-> FALSE]

NoFlight == [phase |-> "none", token |-> None, answer |-> "none"]

NoLogin ==
  [current |-> None, previous |-> {}, valid |-> FALSE, recent |-> FALSE]

NewLogin(t) ==
  [current |-> t, previous |-> {}, valid |-> TRUE, recent |-> FALSE]

Ended(doc) == [doc EXCEPT !.valid = FALSE, !.recent = FALSE]

(* The user has logged in once, in a browser that keeps cookies or blocks  *)
(* those of the API's site, and every tab has been loaded since.           *)
Init ==
  /\ keeps \in BOOLEAN
  /\ cookie = IF keeps THEN 1 ELSE None
  /\ stored = 1
  /\ user = [t \in Tab |-> 1]
  /\ header = [t \in Tab |-> None]
  /\ dead = [t \in Tab |-> FALSE]
  /\ flight = [h \in Handler |-> NoFlight]
  /\ call = [t \in Tab |-> [s \in Slot |-> NoCall]]
  /\ server = [l \in Login |-> IF l = 1 THEN NewLogin(1) ELSE NoLogin]
  /\ issued = <<1>>
  /\ lapsed = 0
  /\ alarm = FALSE
  /\ forked = {}
  /\ losses = 0

SetCookie(t) == cookie' = IF keeps THEN t ELSE None

SetCall(t, s, c) == call' = [call EXCEPT ![t][s] = c]

-----------------------------------------------------------------------------
(* Sending.  The default header, once a refresh has set it, has precedence *)
(* over localStorage; taking the token from localStorage revives the tab.  *)
Authorization(t) == IF header[t] # None THEN header[t] ELSE stored

Revived(t) == dead[t] /\ ~(header[t] = None /\ stored # None)

NewCall(t, op) ==
  [NoCall EXCEPT !.phase = "sent", !.op = op,
                 !.auth = IF op = "login" THEN None ELSE Authorization(t)]

(* A logged-in user's page calls the API; one without user shows the login.*)
Send(t, s, op) ==
  /\ call[t][s].phase = "free"
  /\ op \in IF user[t] # None THEN {"call"} ELSE {"login"}
  /\ SetCall(t, s, NewCall(t, op))
  /\ dead' = [dead EXCEPT ![t] = Revived(t)]
  /\ UNCHANGED <<browser, user, header, flight, service, losses>>

(* The connection of a tab's refresh is lost, and "f" is what the tab has  *)
(* then: the handler goes on alone, if it has not saved yet.               *)
Parts(t, f) ==
  /\ losses < MaxLosses
  /\ losses' = losses + 1
  /\ flight' = [flight EXCEPT
       ![t] = f,
       ![losses + 1] = IF flight[t].phase \in {"sent", "saving"} THEN flight[t]
                       ELSE NoFlight]

(* The page is loaded again: its user is the stored one, and the profile   *)
(* is fetched to verify the session.  The page forgets what was under way. *)
Reload(t, s) ==
  /\ call[t][s].phase = "free"
  /\ IF flight[t].phase = "none" THEN UNCHANGED <<flight, losses>>
     ELSE Parts(t, NoFlight)
  /\ user' = [user EXCEPT ![t] = stored]
  /\ header' = [header EXCEPT ![t] = None]
  /\ dead' = [dead EXCEPT ![t] = FALSE]
  /\ call' = [call EXCEPT ![t] =
       [r \in Slot |->
          IF r = s /\ stored # None
          THEN [NoCall EXCEPT !.phase = "sent", !.op = "verify",
                              !.auth = stored]
          ELSE NoCall]]
  /\ UNCHANGED <<browser, service>>

(* The user logs out.  The server is told only if a refresh token was      *)
(* stored; the body of the call is empty, as it is read from localStorage  *)
(* after that was cleared, so only the cookie names the session.           *)
Logout(t, s) ==
  /\ user[t] # None
  /\ call[t][s].phase = "free"
  /\ stored' = None
  /\ user' = [user EXCEPT ![t] = None]
  /\ IF stored # None
     THEN SetCall(t, s, [NoCall EXCEPT !.phase = "sent", !.op = "logout",
                                       !.token = cookie])
     ELSE UNCHANGED call
  /\ UNCHANGED <<keeps, cookie, header, dead, flight, service, losses>>

-----------------------------------------------------------------------------
(* The server answers a call.  The page does nothing with most answers; a  *)
(* change of the profile goes to updateUser.                               *)
Admits(a) == a > lapsed /\ server[issued[a]].valid

(* There is room for one more token: the bound of the model.               *)
Saving == {h \in Handler : flight[h].phase = "saving"}

Room == Len(issued) + Cardinality(Saving) < MaxTokens

Served(t, s, result, token) ==
  SetCall(t, s, [call[t][s] EXCEPT !.phase = result, !.token = token])

ServeProtected(t, s) ==
  /\ call[t][s].phase = "sent"
  /\ call[t][s].op \in {"call", "verify"}
  /\ IF Admits(call[t][s].auth)
     THEN \/ call[t][s].op = "call" /\ SetCall(t, s, NoCall)
          \/ Served(t, s, "ok", None)
     ELSE Served(t, s, "denied", None)
  /\ UNCHANGED <<browser, page, flight, service, losses>>

(* The right password creates a session, a wrong one is a 401 too.         *)
ServeLogin(t, s) ==
  /\ call[t][s].phase = "sent"
  /\ call[t][s].op = "login"
  /\ \/ /\ Served(t, s, "denied", None)
        /\ UNCHANGED service
     \/ \E l \in Login :
          /\ server[l].current = None
          /\ Room
          /\ Served(t, s, "ok", Len(issued) + 1)
          /\ server' = [server EXCEPT ![l] = NewLogin(Len(issued) + 1)]
          /\ issued' = Append(issued, l)
          /\ UNCHANGED <<lapsed, alarm, forked>>
  /\ UNCHANGED <<browser, page, flight, losses>>

(* The session whose current token the cookie has is revoked.              *)
ServeLogout(t, s) ==
  /\ call[t][s].phase = "sent"
  /\ call[t][s].op = "logout"
  /\ server' = [l \in Login |->
       IF call[t][s].token # None /\ server[l].current = call[t][s].token
       THEN Ended(server[l])
       ELSE server[l]]
  /\ Served(t, s, "ok", None)
  /\ UNCHANGED <<browser, page, flight, issued, lapsed, alarm, forked, losses>>

(* The call fails for another reason than its token.                       *)
Fails(t, s) ==
  /\ call[t][s].phase = "sent"
  /\ SetCall(t, s, NoCall)
  /\ UNCHANGED <<browser, page, flight, service, losses>>

-----------------------------------------------------------------------------
(* The client takes an answer.                                             *)
(* Seeded fault: updateUser writes back the tokens of its React state.     *)
LatestOfPage(t) == user[t]

(* updateUser prefers the tokens in localStorage to those of its state.    *)
Latest(t) == IF stored # None THEN stored ELSE user[t]

Accepted(t, s) ==
  LET c == call[t][s] IN
  /\ c.phase = "ok"
  /\ SetCall(t, s, NoCall)
  /\ CASE c.op \in {"call", "verify"} /\ user[t] # None ->
            /\ user' = [user EXCEPT ![t] = Latest(t)]
            /\ stored' = Latest(t)
            /\ UNCHANGED cookie
       [] c.op = "login" ->
            /\ user' = [user EXCEPT ![t] = c.token]
            /\ stored' = c.token
            /\ SetCookie(c.token)
       [] c.op = "logout" ->
            /\ SetCookie(None)
            /\ UNCHANGED <<user, stored>>
       [] OTHER -> UNCHANGED <<user, stored, cookie>>
  /\ UNCHANGED <<keeps, header, dead, flight, service, losses>>

(* UNAUTHORIZED: the tab's session is dead, and everybody's storage is     *)
(* cleared.                                                                *)
Unauthorized(t) ==
  /\ dead' = [dead EXCEPT ![t] = TRUE]
  /\ header' = [header EXCEPT ![t] = None]
  /\ user' = [user EXCEPT ![t] = None]
  /\ stored' = None

(* A 401 after the retry, or in a dead tab, is final.  The verification of *)
(* a page that was loaded then logs out, without telling the server.       *)
DeniedFinally(t, s) ==
  /\ call[t][s].phase = "denied"
  /\ call[t][s].retried \/ dead[t]
  /\ SetCall(t, s, NoCall)
  /\ IF call[t][s].op = "verify"
     THEN /\ stored' = None
          /\ user' = [user EXCEPT ![t] = None]
     ELSE UNCHANGED <<stored, user>>
  /\ UNCHANGED <<keeps, cookie, header, dead, flight, service, losses>>

DeniedFirst(t, s) ==
  call[t][s].phase = "denied" /\ ~call[t][s].retried /\ ~dead[t]

(* Without a stored refresh token the tab gives up.                        *)
GivesUp(t, s) ==
  /\ DeniedFirst(t, s)
  /\ flight[t].phase = "none"
  /\ stored = None
  /\ SetCall(t, s, NoCall)
  /\ Unauthorized(t)
  /\ UNCHANGED <<keeps, cookie, flight, service, losses>>

(* Seeded fault: the call is not marked as sent again.                     *)
WaitingUnmarked(c) == [c EXCEPT !.phase = "waiting"]

Waiting(c) == [c EXCEPT !.phase = "waiting", !.retried = TRUE]

(* The server takes the token of the cookie before that of the body.       *)
TokenSent == IF cookie # None THEN cookie ELSE stored

(* Calls that are denied wait for the refresh in progress; the first       *)
(* starts it.                                                              *)
AsksRefresh(t, s) ==
  /\ DeniedFirst(t, s)
  /\ flight[t].phase # "none" \/ stored # None
  /\ SetCall(t, s, Waiting(call[t][s]))
  /\ flight' = IF flight[t].phase # "none" THEN flight
               ELSE [flight EXCEPT ![t] =
                       [phase |-> "sent", token |-> TokenSent,
                        answer |-> "none"]]
  /\ UNCHANGED <<browser, page, service, losses>>

(* A call that was told to slow down is sent again with the stored token.  *)
Resent(c) ==
  [c EXCEPT !.phase = "sent", !.auth = IF stored # None THEN stored ELSE @]

Resume(t, s) ==
  /\ call[t][s].phase = "delayed"
  /\ SetCall(t, s, Resent(call[t][s]))
  /\ UNCHANGED <<browser, page, flight, service, losses>>

-----------------------------------------------------------------------------
(* A refresh at the server: found, saved, looked up, answered (RefreshFind,*)
(* RotateSave and RefreshReply of RefreshTokens).  A handler alone answers *)
(* nobody, and changes nothing once it has saved.                          *)
Answers(h, a, token) ==
  flight' = [flight EXCEPT ![h] =
    IF h \in Tab THEN [phase |-> "answered", token |-> token, answer |-> a]
    ELSE NoFlight]

Knows(l, token) == server[l].current = token \/ token \in server[l].previous

Usable(token) == \E l \in Login : Knows(l, token) /\ server[l].valid

RefreshRejected(h) ==
  /\ flight[h].phase = "sent"
  /\ ~Usable(flight[h].token)
  /\ Answers(h, "rejected", flight[h].token)
  /\ UNCHANGED <<browser, page, call, service, losses>>

RefreshRace(h) ==
  /\ flight[h].phase = "sent"
  /\ \E l \in Login :
       /\ flight[h].token \in server[l].previous
       /\ server[l].valid
       /\ server[l].recent
  /\ Answers(h, "race", None)
  /\ UNCHANGED <<browser, page, call, service, losses>>

(* A token replaced more than 30 seconds ago revokes every session.        *)
RefreshReuse(h) ==
  /\ flight[h].phase = "sent"
  /\ \E l \in Login :
       /\ flight[h].token \in server[l].previous
       /\ server[l].valid
       /\ ~server[l].recent
  /\ Answers(h, "rejected", flight[h].token)
  /\ server' = [l \in Login |-> Ended(server[l])]
  /\ alarm' = TRUE
  /\ UNCHANGED <<browser, page, call, issued, lapsed, forked, losses>>

RefreshFind(h) ==
  /\ flight[h].phase = "sent"
  /\ \E l \in Login : server[l].current = flight[h].token /\ server[l].valid
  /\ Room
  /\ flight' = [flight EXCEPT ![h].phase = "saving"]
  /\ UNCHANGED <<browser, page, call, service, losses>>

Rotated(doc, old, new) ==
  [doc EXCEPT !.current = new, !.recent = TRUE,
              !.previous = doc.previous \cup {old}]

RefreshSave(h) ==
  LET old == flight[h].token
      l == issued[old]
      new == Len(issued) + 1
  IN
  /\ flight[h].phase = "saving"
  /\ server' = [server EXCEPT ![l] = Rotated(server[l], old, new)]
  /\ issued' = Append(issued, l)
  /\ flight' = [flight EXCEPT ![h] =
       IF h \in Tab THEN [@ EXCEPT !.phase = "reply", !.token = new]
       ELSE NoFlight]
  /\ forked' = IF server[l].current = old THEN forked ELSE forked \cup {l}
  /\ UNCHANGED <<browser, page, call, lapsed, alarm, losses>>

RefreshReply(t) ==
  /\ flight[t].phase = "reply"
  /\ Answers(t, IF \E l \in Login : server[l].current = flight[t].token
                THEN "ok" ELSE "rejected", flight[t].token)
  /\ UNCHANGED <<browser, page, call, service, losses>>

(* A query or the save fails, the account is gone: whatever is thrown, the *)
(* answer is a 401 and the cookie is cleared.                              *)
RefreshBreaks(h) ==
  /\ flight[h].phase \in {"sent", "saving", "reply"}
  /\ Answers(h, "error", flight[h].token)
  /\ UNCHANGED <<browser, page, call, service, losses>>

(* The rate limiter, or a failure before the handler.                      *)
RefreshRefused(h) ==
  /\ flight[h].phase = "sent"
  /\ \/ MayLimit /\ Answers(h, "limited", None)
     \/ Answers(h, "failed", None)
  /\ UNCHANGED <<browser, page, call, service, losses>>

AnswerLost(t) ==
  /\ flight[t].phase # "none"
  /\ flight[t].answer # "failed"
  /\ Parts(t, [phase |-> "answered", token |-> None, answer |-> "failed"])
  /\ UNCHANGED <<browser, page, call, service>>

-----------------------------------------------------------------------------
(* The refresh is settled, and every call that waits for it goes on with   *)
(* what "next" says of it.                                                 *)
Released(t, next) ==
  /\ call' = [call EXCEPT ![t] =
       [s \in Slot |-> IF call[t][s].phase = "waiting"
                       THEN next[s]
                       ELSE call[t][s]]]
  /\ flight' = [flight EXCEPT ![t] = NoFlight]

Answered(t, a) == flight[t].phase = "answered" /\ flight[t].answer = a

SettleOk(t) ==
  /\ Answered(t, "ok")
  /\ LET new == flight[t].token IN
     /\ Released(t, [s \in Slot |->
          [call[t][s] EXCEPT !.phase = "sent", !.auth = new]])
     /\ stored' = IF stored # None THEN new ELSE None
     /\ SetCookie(new)
     /\ header' = [header EXCEPT ![t] = new]
  /\ dead' = [dead EXCEPT ![t] = FALSE]
  /\ UNCHANGED <<keeps, user, service, losses>>

(* Another tab has refreshed: whatever is stored now is tried.             *)
SettleRace(t) ==
  /\ Answered(t, "race")
  /\ Released(t, [s \in Slot |-> Resent(call[t][s])])
  /\ UNCHANGED <<browser, page, service, losses>>

(* Seeded fault: nobody wakes the calls of a refresh that was rate-limited.*)
SettleLimitedSilently(t) ==
  /\ Answered(t, "limited")
  /\ flight' = [flight EXCEPT ![t] = NoFlight]
  /\ UNCHANGED <<browser, page, call, service, losses>>

SettleLimited(t) ==
  /\ Answered(t, "limited")
  /\ Released(t, [s \in Slot |-> [call[t][s] EXCEPT !.phase = "delayed"]])
  /\ UNCHANGED <<browser, page, service, losses>>

(* Seeded fault: any failure of a refresh is taken for a rejection.        *)
DefinitiveWhenFailed(t) ==
  Answered(t, "rejected") \/ Answered(t, "error") \/ Answered(t, "failed")

(* Every 401 but that of a race is.                                        *)
Definitive(t) == Answered(t, "rejected") \/ Answered(t, "error")

SettleRejected(t) ==
  /\ Definitive(t)
  /\ Released(t, [s \in Slot |-> NoCall])
  /\ SetCookie(None)
  /\ Unauthorized(t)
  /\ UNCHANGED <<keeps, service, losses>>

SettleFailed(t) ==
  /\ Answered(t, "failed")
  /\ Released(t, [s \in Slot |-> NoCall])
  /\ UNCHANGED <<browser, page, service, losses>>

-----------------------------------------------------------------------------
(* The oldest access token passes its 15 minutes, which are longer than it *)
(* takes to deliver it and to send the waiting calls again.                *)
Fresh(a) ==
  \/ \E t \in Tab :
       flight[t].phase \in {"reply", "answered"} /\ flight[t].token = a
  \/ \E t \in Tab, s \in Slot :
       call[t][s].phase = "sent" /\ call[t][s].retried /\ call[t][s].auth = a

AccessLapses ==
  /\ lapsed < Len(issued)
  /\ ~Fresh(lapsed + 1)
  /\ lapsed' = lapsed + 1
  /\ UNCHANGED <<browser, page, flight, call, server, issued, alarm, forked,
                 losses>>

(* Thirty seconds pass since the session was last rotated.                 *)
GraceEnds(l) ==
  /\ server[l].recent
  /\ server' = [server EXCEPT ![l].recent = FALSE]
  /\ UNCHANGED <<browser, page, flight, call, issued, lapsed, alarm, forked,
                 losses>>

(* The session expires, or is revoked from another device.                 *)
SessionEnds(l) ==
  /\ server[l].valid
  /\ server' = [server EXCEPT ![l] = Ended(server[l])]
  /\ UNCHANGED <<browser, page, flight, call, issued, lapsed, alarm, forked,
                 losses>>

-----------------------------------------------------------------------------
UserActs(t, s) == Reload(t, s) \/ Logout(t, s) \/ \E op \in Op : Send(t, s, op)

CallStep(t, s) ==
  \/ ServeProtected(t, s) \/ ServeLogin(t, s) \/ ServeLogout(t, s)
  \/ Fails(t, s)
  \/ Accepted(t, s) \/ DeniedFinally(t, s) \/ GivesUp(t, s)
  \/ AsksRefresh(t, s) \/ Resume(t, s)

HandlerStep(h) ==
  \/ RefreshRejected(h) \/ RefreshRace(h) \/ RefreshReuse(h) \/ RefreshFind(h)
  \/ RefreshSave(h) \/ RefreshBreaks(h) \/ RefreshRefused(h)

FlightStep(t) ==
  \/ HandlerStep(t) \/ RefreshReply(t)
  \/ SettleOk(t) \/ SettleRace(t) \/ SettleLimited(t) \/ SettleRejected(t)
  \/ SettleFailed(t)

Environment ==
  \/ AccessLapses
  \/ \E l \in Login : GraceEnds(l) \/ SessionEnds(l)
  \/ \E t \in Tab : AnswerLost(t)

Next ==
  \/ Environment
  \/ \E n \in 1 .. MaxLosses : HandlerStep(n)
  \/ \E t \in Tab :
       \/ FlightStep(t)
       \/ \E s \in Slot : UserActs(t, s) \/ CallStep(t, s)

Spec == Init /\ [][Next]_vars

(* The server answers, or the connection fails, and the browser runs the   *)
(* continuation.  Nothing is assumed of users, of time, and of a handler   *)
(* nobody waits for.                                                       *)
LiveSpec ==
  /\ Spec
  /\ \A t \in Tab :
       /\ WF_vars(FlightStep(t))
       /\ \A s \in Slot : WF_vars(CallStep(t, s))

-----------------------------------------------------------------------------
TypeOK ==
  /\ keeps \in BOOLEAN
  /\ cookie \in Token \cup {None}
  /\ stored \in Token \cup {None}
  /\ user \in [Tab -> Token \cup {None}]
  /\ header \in [Tab -> Token \cup {None}]
  /\ dead \in [Tab -> BOOLEAN]
  /\ flight \in [Handler -> FlightRecord]
  /\ call \in [Tab -> [Slot -> CallRecord]]
  /\ server \in [Login -> SessionRecord]
  /\ issued \in Seq(Login)
  /\ Len(issued) <= MaxTokens
  /\ lapsed \in 0 .. Len(issued)
  /\ alarm \in BOOLEAN
  /\ forked \subseteq Login
  /\ losses \in 0 .. MaxLosses
  /\ \A t \in Tab, s \in Slot :
       call[t][s].phase = "waiting" => flight[t].phase # "none"

(* "Only emit UNAUTHORIZED for definitive server rejections                *)
(* (expired/revoked session)" (client.js): with any number of tabs, a tab  *)
(* declares its session dead only when nothing is stored or the session it *)
(* asked to refresh is not valid any more, with two exceptions: an error   *)
(* ended the handler of its refresh, or two rotations of the session       *)
(* overlapped, as those of two tabs do, or that of a page with one a lost  *)
(* connection left at the server.                                          *)
UnauthorizedIsDefinitive ==
  [][\A t \in Tab : (~dead[t] /\ dead'[t]) =>
       \/ stored = None
       \/ /\ flight[t].phase = "answered"
          /\ flight[t].token # None
          /\ \/ ~server[issued[flight[t].token]].valid
             \/ flight[t].answer = "error"
             \/ issued[flight[t].token] \in forked]_vars

(* The same without the two exceptions, as the comment has it: any         *)
(* exception in the handler of a refresh is a 401, so it does not hold.    *)
OnlyRejectionIsDefinitive ==
  [][\A t \in Tab : (~dead[t] /\ dead'[t]) =>
       \/ stored = None
       \/ /\ flight[t].phase = "answered"
          /\ flight[t].token # None
          /\ ~server[issued[flight[t].token]].valid]_vars

(* "Token reuse is a high-confidence indicator of theft" (tokenService.js):*)
(* every client here is an honest one, and the server sees a token that    *)
(* was replaced more than thirty seconds ago, and revokes all sessions,    *)
(* only after the answer to a refresh was lost.                            *)
ReuseMeansTheft == alarm => losses > 0

(* Every call is answered, however often its token is refused, refreshed,  *)
(* overtaken or rate-limited.                                              *)
EveryCallSettles ==
  \A t \in Tab, s \in Slot :
    call[t][s].phase # "free" ~> call[t][s].phase = "free"

(* "Allow a small window (30s) for race conditions (e.g. multi-tab         *)
(* refresh)" (tokenService.js): tabs that refresh together do not cost the *)
(* user the session.  localStorage is cleared by a logout, when the session*)
(* it names is not valid any more, or by an error of the server.           *)
ValidSessionKept ==
  [][(stored # None /\ stored' = None) =>
       \/ \E t \in Tab, s \in Slot : Logout(t, s)
       \/ ~server[issued[stored]].valid
       \/ \E t \in Tab : Answered(t, "error")]_vars

=============================================================================
