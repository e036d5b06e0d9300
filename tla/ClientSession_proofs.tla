------------------------ MODULE ClientSession_proofs ------------------------
(***************************************************************************)
(* Proofs about ClientSession.  The first part holds for any number of     *)
(* tabs: types, and that every token the browser or the server has was     *)
(* issued for the session that knows it.  So does the second: as long as   *)
(* no two rotations of a session overlap, the session remembers every      *)
(* token issued for it, and the token of a rotation that is about to be    *)
(* answered is current and known to nobody else; hence a refresh is        *)
(* rejected only when the session is not valid any more.  The third part   *)
(* is about a browser with one tab: there only a lost answer makes an      *)
(* honest client present a replaced token.                                 *)
(***************************************************************************)
EXTENDS ClientSession, FiniteSetTheorems, TLAPS

Some == 0 .. Len(issued)

Issued == 1 .. Len(issued)

GoodCall(c) == c \in CallRecord /\ c.auth \in Some /\ c.token \in Some

CallsGood ==
  /\ call \in [Tab -> [Slot -> CallRecord]]
  /\ \A u \in Tab : \A q \in Slot : GoodCall(call[u][q])

PageGood ==
  /\ keeps \in BOOLEAN
  /\ cookie \in Some
  /\ stored \in Some
  /\ user \in [Tab -> Some]
  /\ header \in [Tab -> Some]
  /\ dead \in [Tab -> BOOLEAN]

(* The refresh has a token that the server can look up.                    *)
Carries(f) ==
  \/ f.phase \in {"sent", "saving", "reply"}
  \/ f.phase = "answered" /\ f.answer \in {"ok", "rejected", "error"}

GoodFlight(f) ==
  f \in FlightRecord /\ f.token \in Some /\ (Carries(f) => f.token # None)

FlightsGood ==
  /\ flight \in [Handler -> FlightRecord]
  /\ \A u \in Handler : GoodFlight(flight[u])

WaitersFly ==
  \A u \in Tab : \A q \in Slot :
    call[u][q].phase = "waiting" => flight[u].phase # "none"

IssuedGood ==
  /\ issued \in Seq(Login)
  /\ Len(issued) <= MaxTokens
  /\ lapsed \in 0 .. Len(issued)

(* A session has only tokens that were issued for it, the current one      *)
(* apart from those it replaced.                                           *)
Known ==
  /\ server \in [Login -> SessionRecord]
  /\ \A l \in Login : \A a \in Token : Knows(l, a) => a \in Issued /\ issued[a] = l
  /\ \A l \in Login : server[l].current = None =>
       server[l].previous = {} /\ ~server[l].valid
  /\ \A l \in Login : server[l].current \notin server[l].previous

(* A handler that was left alone has not saved, and there is one for each  *)
(* lost answer at most.                                                    *)
LostGood ==
  \A n \in 1 .. MaxLosses :
    /\ flight[n].phase \in {"none", "sent", "saving"}
    /\ n > losses => flight[n].phase = "none"

(* Every save of a rotation that has begun has a token left.               *)
RoomKept == Len(issued) + Cardinality(Saving) <= MaxTokens

CountsGood == alarm \in BOOLEAN /\ forked \subseteq Login /\ losses \in 0 .. MaxLosses

Inv ==
  /\ CallsGood
  /\ PageGood
  /\ FlightsGood
  /\ WaitersFly
  /\ LostGood
  /\ IssuedGood
  /\ Known
  /\ RoomKept
  /\ CountsGood

-----------------------------------------------------------------------------
(* Records.                                                                *)
LEMMA WaitingCall ==
  ASSUME NEW c \in CallRecord
  PROVE /\ Waiting(c) \in CallRecord
        /\ Waiting(c).phase = "waiting"
        /\ Waiting(c).op = c.op
        /\ Waiting(c).auth = c.auth
        /\ Waiting(c).token = c.token
BY DEF CallRecord, Waiting, CallPhase

LEMMA NoCallFields ==
  /\ NoCall \in CallRecord
  /\ NoCall.phase = "free"
  /\ NoCall.op = "call"
  /\ NoCall.auth = None
  /\ NoCall.token = None
BY DEF NoCall, CallRecord, CallPhase, Op

LEMMA EndedDoc ==
  ASSUME NEW d \in SessionRecord
  PROVE /\ Ended(d) \in SessionRecord
        /\ Ended(d).current = d.current
        /\ Ended(d).previous = d.previous
        /\ Ended(d).valid = FALSE
BY DEF SessionRecord, Ended

LEMMA RotatedDoc ==
  ASSUME NEW d \in SessionRecord, NEW old \in Token, NEW new \in Token
  PROVE /\ Rotated(d, old, new) \in SessionRecord
        /\ Rotated(d, old, new).current = new
        /\ Rotated(d, old, new).previous = d.previous \cup {old}
        /\ Rotated(d, old, new).valid = d.valid
BY DEF SessionRecord, Rotated

LEMMA NewDoc ==
  ASSUME NEW t \in Token
  PROVE /\ NewLogin(t) \in SessionRecord
        /\ NewLogin(t).current = t
        /\ NewLogin(t).previous = {}
BY DEF SessionRecord, NewLogin

-----------------------------------------------------------------------------
(* Pointwise form of the operators that change calls and refreshes.        *)
LEMMA SetCallPointwise ==
  ASSUME call \in [Tab -> [Slot -> CallRecord]], NEW t \in Tab, NEW s \in Slot,
         NEW c \in CallRecord, SetCall(t, s, c)
  PROVE /\ call' \in [Tab -> [Slot -> CallRecord]]
        /\ \A u \in Tab : \A q \in Slot :
             call'[u][q] = IF u = t /\ q = s THEN c ELSE call[u][q]
BY DEF SetCall

LEMMA ReleasedPointwise ==
  ASSUME call \in [Tab -> [Slot -> CallRecord]], NEW t \in Tab,
         flight \in [Handler -> FlightRecord],
         NEW next \in [Slot -> CallRecord], Released(t, next)
  PROVE /\ call' \in [Tab -> [Slot -> CallRecord]]
        /\ \A u \in Tab : \A q \in Slot :
             call'[u][q] = IF u = t /\ call[t][q].phase = "waiting"
                           THEN next[q] ELSE call[u][q]
        /\ \A u \in Handler : flight'[u] = IF u = t THEN NoFlight ELSE flight[u]
        /\ flight' \in [Handler -> FlightRecord]
<1>1. NoFlight \in FlightRecord
  BY DEF NoFlight, FlightRecord, Answer
<1>2. t \in Handler
  BY DEF Handler
<1> QED
  BY <1>1, <1>2 DEF Released

-----------------------------------------------------------------------------
LEMMA Handlers ==
  /\ Tab \subseteq Handler
  /\ 1 .. MaxLosses \subseteq Handler
  /\ \A h \in Handler : h \notin Tab => h \in 1 .. MaxLosses
  /\ \A t \in Tab : t \notin 1 .. MaxLosses
  /\ IsFiniteSet(Handler)
<1>1. MaxLosses \in Nat /\ IsFiniteSet(Tab) /\ Tab \cap (1 .. MaxLosses) = {}
  BY Assumptions
<1>2. IsFiniteSet(1 .. MaxLosses)
  BY <1>1, FS_Interval
<1>3. IsFiniteSet(Tab \cup 1 .. MaxLosses)
  BY <1>1, <1>2, FS_Union
<1> QED
  BY <1>1, <1>3 DEF Handler

-----------------------------------------------------------------------------
(* Inv: what a step leaves alone keeps its part of the invariant.          *)
LEMMA Tokens ==
  ASSUME IssuedGood
  PROVE /\ Len(issued) \in Nat
        /\ MaxTokens \in Nat \ {0}
        /\ Some \subseteq Token \cup {None}
        /\ Issued \subseteq Token
        /\ None \in Some
        /\ \A a \in Some : a # None => a \in Issued /\ issued[a] \in Login
BY Assumptions DEF IssuedGood, Some, Issued, Token, None

LEMMA Stable ==
  /\ CallsGood /\ UNCHANGED <<call, issued>> => CallsGood'
  /\ PageGood /\ UNCHANGED <<browser, page, issued>> => PageGood'
  /\ FlightsGood /\ UNCHANGED <<flight, issued>> => FlightsGood'
  /\ WaitersFly /\ UNCHANGED <<call, flight>> => WaitersFly'
  /\ LostGood /\ UNCHANGED <<flight, losses>> => LostGood'
  /\ IssuedGood /\ UNCHANGED <<issued, lapsed>> => IssuedGood'
  /\ Known /\ UNCHANGED <<server, issued>> => Known'
  /\ RoomKept /\ UNCHANGED <<flight, issued>> => RoomKept'
  /\ CountsGood /\ UNCHANGED <<alarm, forked, losses>> => CountsGood'
BY DEF CallsGood, PageGood, FlightsGood, WaitersFly, LostGood, IssuedGood, Known,
       RoomKept, CountsGood, browser, page, GoodCall, GoodFlight, Carries, Some, Issued,
       Knows, Saving

LEMMA SavingCount ==
  /\ IsFiniteSet(Saving)
  /\ Cardinality(Saving) \in Nat
BY Handlers, FS_Subset, FS_CardinalityType DEF Saving

LEMMA CallsAfterSet ==
  ASSUME CallsGood, NEW t \in Tab, NEW s \in Slot, NEW c, GoodCall(c),
         SetCall(t, s, c), issued' = issued
  PROVE CallsGood'
<1>1. c \in CallRecord
  BY DEF GoodCall
<1>2. /\ call' \in [Tab -> [Slot -> CallRecord]]
      /\ \A u \in Tab : \A q \in Slot :
           call'[u][q] = IF u = t /\ q = s THEN c ELSE call[u][q]
  BY <1>1, SetCallPointwise DEF CallsGood
<1> QED
  BY <1>2 DEF CallsGood, GoodCall, Some

LEMMA WaitersAfterSet ==
  ASSUME CallsGood, WaitersFly, NEW t \in Tab, NEW s \in Slot,
         NEW c \in CallRecord, SetCall(t, s, c),
         c.phase = "waiting" => flight'[t].phase # "none",
         \A u \in Tab : flight[u].phase # "none" => flight'[u].phase # "none"
  PROVE WaitersFly'
<1>1. \A u \in Tab : \A q \in Slot :
        call'[u][q] = IF u = t /\ q = s THEN c ELSE call[u][q]
  BY SetCallPointwise DEF CallsGood
<1> QED
  BY <1>1 DEF WaitersFly

(* What a refresh may become.                                              *)
LEMMA FlightSet ==
  ASSUME FlightsGood, NEW t \in Handler, NEW f \in FlightRecord,
         flight' = [flight EXCEPT ![t] = f]
  PROVE /\ flight' \in [Handler -> FlightRecord]
        /\ \A u \in Handler : flight'[u] = IF u = t THEN f ELSE flight[u]
BY DEF FlightsGood

LEMMA NoFlightFields ==
  /\ NoFlight \in FlightRecord
  /\ NoFlight.phase = "none"
  /\ NoFlight.token = None
BY DEF NoFlight, FlightRecord, Answer

(* A handler that is not a tab's goes on until it has saved.               *)
LEMMA LostAfterSet ==
  ASSUME Inv, NEW t \in Handler, NEW f \in FlightRecord,
         t \in Tab \/ (/\ flight[t].phase # "none"
                       /\ f.phase \in {"none", "sent", "saving"}),
         flight' = [flight EXCEPT ![t] = f], losses' = losses
  PROVE LostGood'
<1>1. \A u \in Handler : flight'[u] = IF u = t THEN f ELSE flight[u]
  BY FlightSet DEF Inv
<1> QED
  BY <1>1, Handlers DEF Inv, LostGood

(* A step of one call that changes nothing else of the invariant's.        *)
LEMMA OneCall ==
  ASSUME Inv, NEW t \in Tab, NEW s \in Slot, NEW c, GoodCall(c),
         SetCall(t, s, c), c.phase # "waiting",
         UNCHANGED <<flight, service, losses>>, PageGood'
  PROVE Inv'
<1>1. UNCHANGED <<server, issued, lapsed, alarm, forked>>
  BY DEF service
<1>2. c \in CallRecord
  BY DEF GoodCall
<1>3. CallsGood'
  BY <1>1, CallsAfterSet DEF Inv
<1>4. WaitersFly'
  BY <1>2, WaitersAfterSet DEF Inv
<1> QED
  BY <1>1, <1>3, <1>4, Stable DEF Inv

LEMMA PageStable ==
  ASSUME Inv, UNCHANGED <<browser, page, service>>
  PROVE PageGood'
BY Stable DEF Inv, service

LEMMA SendStep ==
  ASSUME Inv, NEW t \in Tab, NEW s \in Slot, NEW op, Send(t, s, op)
  PROVE Inv'
<1>1. /\ Some \subseteq Token \cup {None}
      /\ None \in Some
  BY Tokens DEF Inv
<1>2. Authorization(t) \in Some
  BY DEF Authorization, Inv, PageGood
<1>3. op \in Op
  BY DEF Send, Op
<1>4. GoodCall(NewCall(t, op)) /\ NewCall(t, op).phase = "sent"
  <2> DEFINE a == IF op = "login" THEN None ELSE Authorization(t)
  <2>1. a \in Some /\ a \in Token \cup {None}
    BY <1>1, <1>2
  <2>2. NewCall(t, op) = [NoCall EXCEPT !.phase = "sent", !.op = op, !.auth = a]
    BY DEF NewCall
  <2> HIDE DEF a
  <2>3. LET d == [NoCall EXCEPT !.phase = "sent", !.op = op, !.auth = a] IN
        d \in CallRecord /\ d.phase = "sent" /\ d.auth = a /\ d.token = None
    BY <1>3, <2>1 DEF NoCall, CallRecord, CallPhase
  <2> QED
    BY <1>1, <2>1, <2>2, <2>3 DEF GoodCall
<1>5. PageGood'
  BY DEF Send, browser, service, Inv, PageGood, Revived, Some
<1> QED
  BY <1>4, <1>5, OneCall DEF Send

(* The handler of a lost connection goes on under the loss's number.       *)
LEMMA PartsFacts ==
  ASSUME Inv, NEW t \in Tab, NEW f, GoodFlight(f),
         f.phase \in {"none", "answered"}, Parts(t, f),
         UNCHANGED <<issued, alarm, forked>>
  PROVE /\ losses + 1 \in 1 .. MaxLosses /\ losses' = losses + 1
        /\ flight[losses + 1].phase = "none"
        /\ \A u \in Handler : flight'[u] =
             IF u = t THEN f
             ELSE IF u = losses + 1
                  THEN IF flight[t].phase \in {"sent", "saving"} THEN flight[t]
                       ELSE NoFlight
                  ELSE flight[u]
        /\ FlightsGood' /\ LostGood' /\ RoomKept' /\ CountsGood'
<1> DEFINE n == losses + 1
           g == IF flight[t].phase \in {"sent", "saving"} THEN flight[t]
                ELSE NoFlight
<1>1. /\ losses \in 0 .. MaxLosses /\ losses < MaxLosses /\ MaxLosses \in Nat
      /\ losses' = n
      /\ flight' = [flight EXCEPT ![t] = f, ![n] = g]
  BY Assumptions DEF Inv, CountsGood, Parts
<1>2. n \in 1 .. MaxLosses /\ n > losses /\ t # n /\ t \in Handler /\ n \in Handler
  BY <1>1, Handlers
<1>3. flight[n].phase = "none"
  BY <1>2 DEF Inv, LostGood
<1>4. f \in FlightRecord /\ GoodFlight(g) /\ g \in FlightRecord
  <2>1. GoodFlight(NoFlight)
    BY NoFlightFields, Tokens DEF GoodFlight, Carries, Inv
  <2> QED
    BY <1>2, <2>1 DEF GoodFlight, Inv, FlightsGood
<1>5. g.phase \in {"none", "sent", "saving"} /\ (g.phase = "saving" => flight[t].phase = "saving")
  BY NoFlightFields
<1> HIDE DEF g
<1>6. /\ flight' \in [Handler -> FlightRecord]
      /\ \A u \in Handler :
           flight'[u] = IF u = t THEN f ELSE IF u = n THEN g ELSE flight[u]
  <2>1. flight \in [Handler -> FlightRecord]
    BY DEF Inv, FlightsGood
  <2> HIDE DEF n
  <2> QED
    BY <1>1, <1>2, <1>4, <2>1
<1>7. FlightsGood'
  <2> HIDE DEF n
  <2> QED
    BY <1>4, <1>6 DEF Inv, FlightsGood, GoodFlight, Carries, Some
<1>8. LostGood'
  <2>1. \A m \in 1 .. MaxLosses : m # t /\ m \in Handler
    BY Handlers
  <2>2. \A m \in 1 .. MaxLosses : m > losses' => m > losses /\ m # n
    BY <1>1
  <2> HIDE DEF n
  <2> QED
    BY <1>5, <1>6, <2>1, <2>2 DEF Inv, LostGood
<1>9. RoomKept'
  <2>1. Saving' \subseteq (Saving \ {t}) \cup {n} /\ n \notin Saving
    BY <1>2, <1>3, <1>5, <1>6 DEF Saving
  <2>2. CASE flight[t].phase = "saving"
    <3>1. t \in Saving
      BY <1>2, <2>2 DEF Saving
    <3>2. Cardinality(Saving \ {t}) = Cardinality(Saving) - 1 /\ IsFiniteSet(Saving \ {t})
      BY <3>1, SavingCount, FS_RemoveElement
    <3>3. /\ IsFiniteSet((Saving \ {t}) \cup {n})
          /\ Cardinality((Saving \ {t}) \cup {n}) = Cardinality(Saving \ {t}) + 1
      BY <2>1, <3>2, FS_AddElement
    <3>4. Cardinality(Saving') <= Cardinality(Saving) /\ Cardinality(Saving') \in Nat
      BY <2>1, <3>2, <3>3, SavingCount, FS_Subset, FS_CardinalityType
    <3> QED
      BY <3>4, SavingCount, Tokens DEF Inv, RoomKept
  <2>3. CASE flight[t].phase # "saving"
    <3>1. Saving' \subseteq Saving
      BY <1>2, <1>5, <1>6, <2>3 DEF Saving
    <3>2. Cardinality(Saving') <= Cardinality(Saving) /\ Cardinality(Saving') \in Nat
      BY <3>1, SavingCount, FS_Subset, FS_CardinalityType
    <3> QED
      BY <3>2, SavingCount, Tokens DEF Inv, RoomKept
  <2> QED
    BY <2>2, <2>3
<1>10. CountsGood'
  BY <1>1 DEF Inv, CountsGood
<1> QED
  BY <1>1, <1>2, <1>3, <1>6, <1>7, <1>8, <1>9, <1>10 DEF g

LEMMA ReloadStep ==
  ASSUME Inv, NEW t \in Tab, NEW s \in Slot, Reload(t, s)
  PROVE Inv'
<1> DEFINE calls == [r \in Slot |->
          IF r = s /\ stored # None
          THEN [NoCall EXCEPT !.phase = "sent", !.op = "verify",
                              !.auth = stored]
          ELSE NoCall]
<1>1. /\ Some \subseteq Token \cup {None}
      /\ None \in Some
      /\ stored \in Some
  BY Tokens DEF Inv, PageGood
<1>2. \A r \in Slot : GoodCall(calls[r]) /\ calls[r].phase # "waiting"
  <2>1. GoodCall(NoCall) /\ NoCall.phase = "free"
    BY <1>1, NoCallFields DEF GoodCall
  <2>2. LET d == [NoCall EXCEPT !.phase = "sent", !.op = "verify", !.auth = stored]
        IN  d \in CallRecord /\ d.phase = "sent" /\ d.auth = stored /\ d.token = None
    BY <1>1 DEF NoCall, CallRecord, CallPhase, Op
  <2> QED
    BY <1>1, <2>1, <2>2 DEF GoodCall
<1>3. UNCHANGED <<browser, service>>
  BY DEF Reload
<1>4. UNCHANGED <<server, issued, lapsed, alarm, forked, keeps, cookie, stored>>
  BY <1>3 DEF service, browser
<1>5. calls \in [Slot -> CallRecord]
  BY <1>2 DEF GoodCall
<1>6. call' = [call EXCEPT ![t] = calls]
  BY DEF Reload
<1> HIDE DEF calls
<1>7. /\ call' \in [Tab -> [Slot -> CallRecord]]
      /\ \A u \in Tab : \A q \in Slot :
           call'[u][q] = IF u = t THEN calls[q] ELSE call[u][q]
  BY <1>5, <1>6 DEF Inv, CallsGood
<1>8. CallsGood'
  BY <1>2, <1>4, <1>7 DEF Inv, CallsGood, GoodCall, Some
<1>9. PageGood'
  BY <1>4 DEF Reload, Inv, PageGood, Some, None
<1>10. CASE flight[t].phase = "none"
  <2>1. UNCHANGED <<flight, losses>>
    BY <1>10 DEF Reload
  <2>2. WaitersFly'
    BY <1>2, <1>7, <2>1 DEF Inv, WaitersFly
  <2> QED
    BY <1>4, <1>8, <1>9, <2>1, <2>2, Stable DEF Inv
<1>11. CASE flight[t].phase # "none"
  <2>1. Parts(t, NoFlight)
    BY <1>11 DEF Reload
  <2>2. GoodFlight(NoFlight)
    BY <1>1, NoFlightFields DEF GoodFlight, Carries
  <2>3. /\ FlightsGood' /\ LostGood' /\ RoomKept' /\ CountsGood'
        /\ \A u \in Tab : u # t => flight'[u] = flight[u]
    BY <1>4, <2>1, <2>2, NoFlightFields, Handlers, PartsFacts
  <2>4. WaitersFly'
    BY <1>2, <1>7, <2>3 DEF Inv, WaitersFly
  <2> QED
    BY <1>4, <1>8, <1>9, <2>3, <2>4, Stable DEF Inv
<1> QED
  BY <1>10, <1>11

LEMMA LogoutStep ==
  ASSUME Inv, NEW t \in Tab, NEW s \in Slot, Logout(t, s)
  PROVE Inv'
<1> DEFINE c == [NoCall EXCEPT !.phase = "sent", !.op = "logout", !.token = cookie]
<1>1. /\ Some \subseteq Token \cup {None}
      /\ None \in Some
      /\ cookie \in Some
  BY Tokens DEF Inv, PageGood
<1>2. UNCHANGED <<keeps, cookie, header, dead, flight, service, losses>>
  BY DEF Logout
<1>3. PageGood'
  BY <1>1, <1>2 DEF Logout, Inv, PageGood, service, Some
<1>4. GoodCall(c) /\ c.phase # "waiting"
  <2>1. c \in CallRecord /\ c.phase = "sent" /\ c.auth = None /\ c.token = cookie
    BY <1>1 DEF NoCall, CallRecord, CallPhase, Op
  <2> QED
    BY <1>1, <2>1 DEF GoodCall
<1>5. CASE stored # None
  <2>1. SetCall(t, s, c)
    BY <1>5 DEF Logout
  <2> QED
    BY <1>2, <1>3, <1>4, <2>1, OneCall
<1>6. CASE stored = None
  <2>1. UNCHANGED call
    BY <1>6 DEF Logout
  <2>2. UNCHANGED <<server, issued, lapsed, alarm, forked>>
    BY <1>2 DEF service
  <2> QED
    BY <1>2, <1>3, <2>1, <2>2, Stable DEF Inv
<1> QED
  BY <1>5, <1>6

(* A call with its result, as an operator the provers need not look into.  *)
Result(c, p, a) == [c EXCEPT !.phase = p, !.token = a]

LEMMA ServedCall ==
  ASSUME Inv, NEW t \in Tab, NEW s \in Slot, NEW p \in {"ok", "denied"},
         NEW a \in Token \cup {None}
  PROVE /\ Result(call[t][s], p, a) \in CallRecord
        /\ Result(call[t][s], p, a).phase = p
        /\ Result(call[t][s], p, a).phase # "waiting"
        /\ Result(call[t][s], p, a).op = call[t][s].op
        /\ Result(call[t][s], p, a).token = a
        /\ Result(call[t][s], p, a).auth = call[t][s].auth
        /\ Result(call[t][s], p, a).auth \in Some
        /\ a \in Some => GoodCall(Result(call[t][s], p, a))
<1>1. call[t][s] \in CallRecord /\ call[t][s].auth \in Some
  BY DEF Inv, CallsGood, GoodCall
<1>2. p \in CallPhase /\ p # "waiting"
  BY DEF CallPhase
<1>3. /\ Result(call[t][s], p, a) \in CallRecord
      /\ Result(call[t][s], p, a).phase = p
      /\ Result(call[t][s], p, a).op = call[t][s].op
      /\ Result(call[t][s], p, a).token = a
      /\ Result(call[t][s], p, a).auth = call[t][s].auth
  BY <1>1, <1>2 DEF CallRecord, Result
<1> QED
  BY <1>1, <1>2, <1>3 DEF GoodCall

LEMMA ServeProtectedStep ==
  ASSUME Inv, NEW t \in Tab, NEW s \in Slot, ServeProtected(t, s)
  PROVE Inv'
<1>1. UNCHANGED <<browser, page, flight, service, losses>>
  BY DEF ServeProtected
<1>2. PageGood'
  BY <1>1, PageStable
<1>3. Some \subseteq Token \cup {None} /\ None \in Some
  BY Tokens DEF Inv
<1>4. GoodCall(NoCall) /\ NoCall.phase # "waiting"
  BY <1>3, NoCallFields DEF GoodCall
<1>5. ASSUME NEW p \in {"ok", "denied"}, Served(t, s, p, None)
      PROVE Inv'
  <2>1. SetCall(t, s, Result(call[t][s], p, None))
    BY <1>5 DEF Served, Result
  <2> QED
    BY <1>1, <1>2, <1>3, <2>1, ServedCall, OneCall
<1>6. \/ Served(t, s, "denied", None)
      \/ Served(t, s, "ok", None)
      \/ SetCall(t, s, NoCall)
  BY DEF ServeProtected
<1>7. CASE SetCall(t, s, NoCall)
  BY <1>1, <1>2, <1>4, <1>7, OneCall
<1> QED
  BY <1>5, <1>6, <1>7

LEMMA FailsStep ==
  ASSUME Inv, NEW t \in Tab, NEW s \in Slot, Fails(t, s)
  PROVE Inv'
<1>1. GoodCall(NoCall) /\ NoCall.phase # "waiting"
  BY Tokens, NoCallFields DEF GoodCall, Inv
<1> QED
  BY <1>1, PageStable, OneCall DEF Fails

(* A new token is issued, at most the last one there is room for.          *)
LEMMA Grows ==
  ASSUME IssuedGood, NEW l \in Login, issued' = Append(issued, l),
         Len(issued) + 1 <= MaxTokens, lapsed' = lapsed
  PROVE /\ IssuedGood'
        /\ Len(issued) \in Nat
        /\ Len(issued') = Len(issued) + 1
        /\ Len(issued) + 1 \in Token
        /\ issued'[Len(issued) + 1] = l
        /\ \A a \in Issued : issued'[a] = issued[a]
        /\ Some \subseteq Some'
BY DEF IssuedGood, Token, Issued, Some

LEMMA ServeLoginStep ==
  ASSUME Inv, NEW t \in Tab, NEW s \in Slot, ServeLogin(t, s)
  PROVE Inv'
<1>1. UNCHANGED <<browser, page, flight, losses>>
  BY DEF ServeLogin
<1>2. CASE Served(t, s, "denied", None) /\ UNCHANGED service
  <2>1. SetCall(t, s, Result(call[t][s], "denied", None))
    BY <1>2 DEF Served, Result
  <2>2. None \in Token \cup {None} /\ None \in Some
    BY Tokens DEF Inv
  <2> QED
    BY <1>1, <1>2, <2>1, <2>2, ServedCall, PageStable, OneCall
<1>3. ASSUME NEW l \in Login,
             server[l].current = None,
             Room,
             Served(t, s, "ok", Len(issued) + 1),
             server' = [server EXCEPT ![l] = NewLogin(Len(issued) + 1)],
             issued' = Append(issued, l),
             UNCHANGED <<lapsed, alarm, forked>>
      PROVE Inv'
  <2> DEFINE n == Len(issued) + 1
  <2> DEFINE d == Result(call[t][s], "ok", n)
  <2>1. Len(issued) + 1 <= MaxTokens /\ Len(issued) + 1 + Cardinality(Saving) <= MaxTokens
    BY <1>3, SavingCount, Tokens, Assumptions DEF Room, Inv
  <2>2. /\ IssuedGood'
        /\ Len(issued) \in Nat
        /\ Len(issued') = n
        /\ n \in Token
        /\ issued'[n] = l
        /\ \A a \in Issued : issued'[a] = issued[a]
        /\ Some \subseteq Some'
    BY <1>3, <2>1, Grows DEF Inv
  <2>3. SetCall(t, s, d)
    BY <1>3 DEF Served, Result
  <2>4. d \in CallRecord /\ d.phase # "waiting" /\ d.auth = call[t][s].auth /\ d.token = n
    BY <2>2, ServedCall
  <2> HIDE DEF d
  <2>5. CallsGood'
    <3>1. /\ call' \in [Tab -> [Slot -> CallRecord]]
          /\ \A u \in Tab : \A q \in Slot :
               call'[u][q] = IF u = t /\ q = s THEN d ELSE call[u][q]
      BY <2>3, <2>4, SetCallPointwise DEF Inv, CallsGood
    <3>2. n \in Some'
      BY <2>2 DEF Some
    <3> QED
      BY <2>2, <2>4, <3>1, <3>2 DEF Inv, CallsGood, GoodCall
  <2>6. PageGood'
    <3>1. UNCHANGED <<keeps, cookie, stored, user, header, dead>>
      BY <1>1 DEF browser, page
    <3> QED
      BY <2>2, <3>1 DEF Inv, PageGood
  <2>7. FlightsGood'
    BY <1>1, <2>2 DEF Inv, FlightsGood, GoodFlight, Carries
  <2>8. WaitersFly'
    BY <1>1, <2>3, <2>4, WaitersAfterSet DEF Inv
  <2>9. Known'
    <3>1. /\ NewLogin(n) \in SessionRecord
          /\ NewLogin(n).current = n
          /\ NewLogin(n).previous = {}
      BY <2>2, NewDoc
    <3>2. /\ server' \in [Login -> SessionRecord]
          /\ \A k \in Login : server'[k] = IF k = l THEN NewLogin(n) ELSE server[k]
      BY <1>3, <3>1 DEF Inv, Known
    <3>3. n # None /\ n \in Issued' /\ Issued \subseteq Issued'
      BY <2>2 DEF Issued, None
    <3> HIDE DEF n
    <3> QED
      BY <2>2, <3>1, <3>2, <3>3 DEF Inv, Known, Knows
  <2>10. RoomKept'
    <3>1. Saving' = Saving
      BY <1>1 DEF Saving
    <3> QED
      BY <2>1, <2>2, <3>1, SavingCount DEF RoomKept
  <2>11. CountsGood'
    BY <1>1, <1>3 DEF Inv, CountsGood
  <2> QED
    BY <1>1, <2>2, <2>5, <2>6, <2>7, <2>8, <2>9, <2>10, <2>11, Stable DEF Inv
<1> QED
  BY <1>2, <1>3 DEF ServeLogin

(* Ending some sessions.                                                   *)
LEMMA KnownAfterEnding ==
  ASSUME Known, issued' = issued, NEW S \in SUBSET Login,
         server' \in [Login -> SessionRecord],
         \A l \in Login : server'[l] = IF l \in S THEN Ended(server[l]) ELSE server[l]
  PROVE Known'
<1>1. \A l \in Login : /\ server'[l].current = server[l].current
                       /\ server'[l].previous = server[l].previous
                       /\ server'[l].valid => server[l].valid
  BY EndedDoc DEF Known
<1>2. Issued' = Issued
  BY DEF Issued
<1> QED
  BY <1>1, <1>2 DEF Known, Knows

LEMMA ServeLogoutStep ==
  ASSUME Inv, NEW t \in Tab, NEW s \in Slot, ServeLogout(t, s)
  PROVE Inv'
<1> DEFINE d == Result(call[t][s], "ok", None)
<1>1. UNCHANGED <<browser, page, flight, issued, lapsed, alarm, forked, losses>>
  BY DEF ServeLogout
<1>2. SetCall(t, s, d)
  BY DEF ServeLogout, Served, Result
<1>3. Some \subseteq Token \cup {None} /\ None \in Some
  BY Tokens DEF Inv
<1>5. GoodCall(d) /\ d.phase # "waiting" /\ d \in CallRecord
  BY <1>3, ServedCall
<1> HIDE DEF d
<1>6. CallsGood' /\ WaitersFly'
  BY <1>1, <1>2, <1>5, CallsAfterSet, WaitersAfterSet DEF Inv
<1>7. Known'
  <2> DEFINE S == {l \in Login : call[t][s].token # None
                                   /\ server[l].current = call[t][s].token}
  <2>1. server' = [l \in Login |-> IF l \in S THEN Ended(server[l]) ELSE server[l]]
    BY DEF ServeLogout
  <2>2. server' \in [Login -> SessionRecord]
    BY <2>1, EndedDoc DEF Inv, Known
  <2>3. S \in SUBSET Login
    OBVIOUS
  <2> HIDE DEF S
  <2> QED
    BY <1>1, <2>1, <2>2, <2>3, KnownAfterEnding DEF Inv
<1> QED
  BY <1>1, <1>6, <1>7, Stable DEF Inv

-----------------------------------------------------------------------------
(* Inv: the client takes an answer.                                        *)
LEMMA ResentCall ==
  ASSUME Inv, NEW u \in Tab, NEW q \in Slot
  PROVE /\ GoodCall(Resent(call[u][q]))
        /\ Resent(call[u][q]).phase = "sent"
        /\ Resent(call[u][q]).phase # "waiting"
        /\ Resent(call[u][q]).op = call[u][q].op
        /\ Resent(call[u][q]).token = call[u][q].token
<1> DEFINE a == IF stored # None THEN stored ELSE call[u][q].auth
<1>1. call[u][q] \in CallRecord /\ GoodCall(call[u][q])
  BY DEF Inv, CallsGood
<1>2. a \in Some /\ a \in Token \cup {None}
  BY <1>1, Tokens DEF Inv, PageGood, GoodCall
<1>3. Resent(call[u][q]) = [call[u][q] EXCEPT !.phase = "sent", !.auth = a]
  BY <1>1 DEF Resent, CallRecord
<1> HIDE DEF a
<1>4. /\ Resent(call[u][q]) \in CallRecord
      /\ Resent(call[u][q]).phase = "sent"
      /\ Resent(call[u][q]).op = call[u][q].op
      /\ Resent(call[u][q]).token = call[u][q].token
      /\ Resent(call[u][q]).auth = a
  BY <1>1, <1>2, <1>3 DEF CallRecord, CallPhase
<1> QED
  BY <1>1, <1>2, <1>4 DEF GoodCall

LEMMA AcceptedStep ==
  ASSUME Inv, NEW t \in Tab, NEW s \in Slot, Accepted(t, s)
  PROVE Inv'
<1>1. UNCHANGED <<keeps, header, dead, flight, service, losses>>
  BY DEF Accepted
<1>2. SetCall(t, s, NoCall)
  BY DEF Accepted
<1>3. GoodCall(NoCall) /\ NoCall.phase # "waiting"
  BY Tokens, NoCallFields DEF GoodCall, Inv
<1>4. PageGood'
  <2>1. Some' = Some /\ None \in Some
    BY <1>1, Tokens DEF service, Some, Inv
  <2>2. call[t][s].token \in Some
    BY DEF Inv, CallsGood, GoodCall
  <2>3. Latest(t) \in Some
    BY DEF Inv, PageGood, Latest
  <2> QED
    BY <1>1, <2>1, <2>2, <2>3 DEF Accepted, Inv, PageGood, SetCookie
<1> QED
  BY <1>1, <1>2, <1>3, <1>4, OneCall

LEMMA DeniedFinallyStep ==
  ASSUME Inv, NEW t \in Tab, NEW s \in Slot, DeniedFinally(t, s)
  PROVE Inv'
<1>1. UNCHANGED <<keeps, cookie, header, dead, flight, service, losses>>
  BY DEF DeniedFinally
<1>2. SetCall(t, s, NoCall)
  BY DEF DeniedFinally
<1>3. GoodCall(NoCall) /\ NoCall.phase # "waiting"
  BY Tokens, NoCallFields DEF GoodCall, Inv
<1>4. PageGood'
  <2>1. Some' = Some /\ None \in Some
    BY <1>1, Tokens DEF service, Some, Inv
  <2> QED
    BY <1>1, <2>1 DEF DeniedFinally, Inv, PageGood
<1> QED
  BY <1>1, <1>2, <1>3, <1>4, OneCall

LEMMA GivesUpStep ==
  ASSUME Inv, NEW t \in Tab, NEW s \in Slot, GivesUp(t, s)
  PROVE Inv'
<1>1. UNCHANGED <<keeps, cookie, flight, service, losses>>
  BY DEF GivesUp
<1>2. SetCall(t, s, NoCall) /\ Unauthorized(t)
  BY DEF GivesUp
<1>3. GoodCall(NoCall) /\ NoCall.phase # "waiting"
  BY Tokens, NoCallFields DEF GoodCall, Inv
<1>4. PageGood'
  <2>1. Some' = Some /\ None \in Some
    BY <1>1, Tokens DEF service, Some, Inv
  <2> QED
    BY <1>1, <1>2, <2>1 DEF Unauthorized, Inv, PageGood
<1> QED
  BY <1>1, <1>2, <1>3, <1>4, OneCall

LEMMA ResumeStep ==
  ASSUME Inv, NEW t \in Tab, NEW s \in Slot, Resume(t, s)
  PROVE Inv'
<1>1. UNCHANGED <<browser, page, flight, service, losses>>
  BY DEF Resume
<1>2. SetCall(t, s, Resent(call[t][s]))
  BY DEF Resume
<1>3. GoodCall(Resent(call[t][s])) /\ Resent(call[t][s]).phase # "waiting"
  BY ResentCall
<1> QED
  BY <1>1, <1>2, <1>3, PageStable, OneCall

LEMMA AsksRefreshStep ==
  ASSUME Inv, NEW t \in Tab, NEW s \in Slot, AsksRefresh(t, s)
  PROVE Inv'
<1> DEFINE f == [phase |-> "sent", token |-> TokenSent, answer |-> "none"]
<1> DEFINE c == Waiting(call[t][s])
<1>1. UNCHANGED <<keeps, cookie, stored, user, header, dead, server, issued,
                  lapsed, alarm, forked, losses>>
  BY DEF AsksRefresh, browser, page, service
<1>2. c \in CallRecord /\ GoodCall(c)
  BY WaitingCall DEF Inv, CallsGood, GoodCall
<1>3. SetCall(t, s, c)
  BY DEF AsksRefresh
<1>4. CallsGood'
  <2> HIDE DEF c
  <2> QED
    BY <1>1, <1>2, <1>3, CallsAfterSet DEF Inv
<1>5. CASE flight[t].phase # "none"
  <2>1. flight' = flight
    BY <1>5 DEF AsksRefresh
  <2>2. WaitersFly'
    <3> HIDE DEF c
    <3> QED
      BY <1>2, <1>3, <1>5, <2>1, WaitersAfterSet DEF Inv
  <2> QED
    BY <1>1, <1>4, <2>1, <2>2, Stable DEF Inv, browser, page
<1>6. CASE flight[t].phase = "none"
  <2>1. flight' = [flight EXCEPT ![t] = f] /\ stored # None
    BY <1>6 DEF AsksRefresh
  <2>2. TokenSent \in Some /\ TokenSent # None
    BY <2>1 DEF Inv, PageGood, TokenSent
  <2>3. /\ f \in FlightRecord /\ f.phase = "sent" /\ f.token \in Some
        /\ f.token # None
    BY <2>2, Tokens DEF FlightRecord, Answer, Inv
  <2> HIDE DEF f, c
  <2>4. /\ flight' \in [Handler -> FlightRecord]
        /\ \A u \in Handler : flight'[u] = IF u = t THEN f ELSE flight[u]
    BY <2>1, <2>3, Handlers, FlightSet DEF Inv
  <2>5. FlightsGood'
    BY <1>1, <2>3, <2>4 DEF Inv, FlightsGood, GoodFlight, Carries, Some
  <2>6. WaitersFly'
    BY <1>2, <1>3, <2>3, <2>4, Handlers, WaitersAfterSet DEF Inv
  <2>7. Saving' = Saving
    BY <1>6, <2>3, <2>4 DEF Saving
  <2>8. RoomKept'
    BY <1>1, <2>7 DEF Inv, RoomKept
  <2>9. LostGood'
    BY <1>1, <2>1, <2>3, Handlers, LostAfterSet
  <2> QED
    BY <1>1, <1>4, <2>5, <2>6, <2>8, <2>9, Stable DEF Inv, browser, page
<1> QED
  BY <1>5, <1>6

-----------------------------------------------------------------------------
(* Inv: the server.                                                        *)
(* A refresh goes on at the server, with nothing issued and no new save.   *)
LEMMA FlightOnly ==
  ASSUME Inv, NEW t \in Handler, NEW f, GoodFlight(f),
         t \in Tab => f.phase # "none",
         t \notin Tab => f.phase = "none",
         flight[t].phase # "none", f.phase # "saving",
         flight' = [flight EXCEPT ![t] = f],
         UNCHANGED <<browser, page, call, issued, lapsed, losses>>
  PROVE /\ CallsGood' /\ PageGood' /\ FlightsGood' /\ WaitersFly' /\ LostGood'
        /\ IssuedGood' /\ RoomKept'
<1>1. f \in FlightRecord
  BY DEF GoodFlight
<1>2. /\ flight' \in [Handler -> FlightRecord]
      /\ \A u \in Handler : flight'[u] = IF u = t THEN f ELSE flight[u]
  BY <1>1, FlightSet DEF Inv
<1>3. FlightsGood'
  BY <1>2 DEF Inv, FlightsGood, GoodFlight, Carries, Some
<1>4. WaitersFly'
  BY <1>2, Handlers DEF Inv, WaitersFly
<1>5. LostGood'
  BY <1>1, LostAfterSet
<1>6. RoomKept'
  <2>1. Saving' \subseteq Saving
    BY <1>2 DEF Saving
  <2>2. /\ Cardinality(Saving') <= Cardinality(Saving)
        /\ Cardinality(Saving') \in Nat
        /\ Cardinality(Saving) \in Nat
    BY <2>1, SavingCount, FS_Subset, FS_CardinalityType
  <2> QED
    BY <2>2, Tokens, Assumptions DEF Inv, RoomKept
<1> QED
  BY <1>3, <1>4, <1>5, <1>6, Stable DEF Inv

(* What an answer leaves of a refresh: a tab's has it, a handler alone is  *)
(* over.                                                                   *)
LEMMA AnswerRecord ==
  ASSUME Inv, NEW t \in Handler, NEW a \in Answer, NEW k \in Some,
         a \in {"ok", "rejected", "error"} => k # None, Answers(t, a, k)
  PROVE \E f : /\ GoodFlight(f)
               /\ t \in Tab => /\ f.phase = "answered"
                               /\ f.token = k
                               /\ f.answer = a
               /\ t \notin Tab => f = NoFlight
               /\ flight' = [flight EXCEPT ![t] = f]
<1> DEFINE f == IF t \in Tab THEN [phase |-> "answered", token |-> k, answer |-> a]
                ELSE NoFlight
<1>1. GoodFlight(f)
  BY Tokens, NoFlightFields DEF GoodFlight, FlightRecord, Carries, Inv
<1> QED
  BY <1>1 DEF Answers

LEMMA Answering ==
  ASSUME Inv, NEW t \in Handler, NEW a \in Answer, NEW k \in Some,
         flight[t].phase # "none",
         a \in {"ok", "rejected", "error"} => k # None, Answers(t, a, k),
         UNCHANGED <<browser, page, call, issued, lapsed, losses>>
  PROVE /\ CallsGood' /\ PageGood' /\ FlightsGood' /\ WaitersFly' /\ LostGood'
        /\ IssuedGood' /\ RoomKept'
<1>1. PICK f : /\ GoodFlight(f)
               /\ t \in Tab => f.phase = "answered"
               /\ t \notin Tab => f = NoFlight
               /\ flight' = [flight EXCEPT ![t] = f]
  BY AnswerRecord
<1> QED
  BY <1>1, NoFlightFields, FlightOnly

LEMMA RefreshRejectedStep ==
  ASSUME Inv, NEW t \in Handler, RefreshRejected(t)
  PROVE Inv'
<1>1. UNCHANGED <<browser, page, call, server, issued, lapsed, alarm, forked, losses>>
  BY DEF RefreshRejected, service
<1>2. /\ flight[t].phase # "none"
      /\ flight[t].token \in Some /\ flight[t].token # None
  BY DEF RefreshRejected, Inv, FlightsGood, GoodFlight, Carries
<1>3. "rejected" \in Answer
  BY DEF Answer
<1> QED
  BY <1>1, <1>2, <1>3, Answering, Stable DEF RefreshRejected, Inv

LEMMA RefreshBreaksStep ==
  ASSUME Inv, NEW t \in Handler, RefreshBreaks(t)
  PROVE Inv'
<1>1. UNCHANGED <<browser, page, call, server, issued, lapsed, alarm, forked, losses>>
  BY DEF RefreshBreaks, service
<1>2. /\ flight[t].phase # "none"
      /\ flight[t].token \in Some /\ flight[t].token # None
  BY DEF RefreshBreaks, Inv, FlightsGood, GoodFlight, Carries
<1>3. "error" \in Answer
  BY DEF Answer
<1> QED
  BY <1>1, <1>2, <1>3, Answering, Stable DEF RefreshBreaks, Inv

LEMMA RefreshRaceStep ==
  ASSUME Inv, NEW t \in Handler, RefreshRace(t)
  PROVE Inv'
<1>1. UNCHANGED <<browser, page, call, server, issued, lapsed, alarm, forked, losses>>
  BY DEF RefreshRace, service
<1>2. "race" \in Answer /\ None \in Some /\ flight[t].phase # "none"
  BY Tokens DEF Answer, Inv, RefreshRace
<1> QED
  BY <1>1, <1>2, Answering, Stable DEF RefreshRace, Inv

LEMMA RefreshRefusedStep ==
  ASSUME Inv, NEW t \in Handler, RefreshRefused(t)
  PROVE Inv'
<1>1. UNCHANGED <<browser, page, call, server, issued, lapsed, alarm, forked, losses>>
  BY DEF RefreshRefused, service
<1>2. /\ "limited" \in Answer /\ "failed" \in Answer /\ None \in Some
      /\ flight[t].phase # "none"
  BY Tokens DEF Answer, Inv, RefreshRefused
<1> QED
  BY <1>1, <1>2, Answering, Stable DEF RefreshRefused, Inv

LEMMA AnswerLostStep ==
  ASSUME Inv, NEW t \in Tab, AnswerLost(t)
  PROVE Inv'
<1> DEFINE f == [phase |-> "answered", token |-> None, answer |-> "failed"]
<1>1. UNCHANGED <<browser, page, call, server, issued, lapsed, alarm, forked>>
  BY DEF AnswerLost, service
<1>2. GoodFlight(f) /\ f.phase = "answered"
  BY Tokens DEF GoodFlight, FlightRecord, Answer, Carries, Inv
<1>3. Parts(t, f)
  BY DEF AnswerLost
<1> HIDE DEF f
<1>4. /\ FlightsGood' /\ LostGood' /\ RoomKept' /\ CountsGood'
      /\ \A u \in Tab : flight'[u] = IF u = t THEN f ELSE flight[u]
  BY <1>1, <1>2, <1>3, Handlers, PartsFacts
<1>5. WaitersFly'
  BY <1>1, <1>2, <1>4 DEF Inv, WaitersFly
<1> QED
  BY <1>1, <1>4, <1>5, Stable DEF Inv

LEMMA RefreshReuseStep ==
  ASSUME Inv, NEW t \in Handler, RefreshReuse(t)
  PROVE Inv'
<1>1. UNCHANGED <<browser, page, call, issued, lapsed, forked, losses>>
  BY DEF RefreshReuse
<1>0. flight[t].phase # "none"
  BY DEF RefreshReuse
<1>2. flight[t].token \in Some /\ flight[t].token # None
  BY DEF RefreshReuse, Inv, FlightsGood, GoodFlight, Carries
<1>3. "rejected" \in Answer
  BY DEF Answer
<1>4. /\ server' \in [Login -> SessionRecord]
      /\ \A l \in Login : server'[l] = IF l \in Login THEN Ended(server[l])
                                       ELSE server[l]
  BY EndedDoc DEF RefreshReuse, Inv, Known
<1>5. Known'
  BY <1>1, <1>4, KnownAfterEnding DEF Inv
<1>6. CountsGood'
  BY <1>1 DEF RefreshReuse, Inv, CountsGood
<1> QED
  BY <1>0, <1>1, <1>2, <1>3, <1>5, <1>6, Answering DEF RefreshReuse, Inv

LEMMA RefreshReplyStep ==
  ASSUME Inv, NEW t \in Tab, RefreshReply(t)
  PROVE Inv'
<1>1. UNCHANGED <<browser, page, call, server, issued, lapsed, alarm, forked, losses>>
  BY DEF RefreshReply, service
<1>2. flight[t].token \in Some /\ flight[t].token # None
  BY Handlers DEF RefreshReply, Inv, FlightsGood, GoodFlight, Carries
<1>3. PICK a \in {"ok", "rejected"} : Answers(t, a, flight[t].token)
  BY DEF RefreshReply
<1>4. a \in Answer
  BY DEF Answer
<1>5. t \in Handler /\ flight[t].phase # "none"
  BY Handlers DEF RefreshReply
<1> QED
  BY <1>1, <1>2, <1>3, <1>4, <1>5, Answering, Stable DEF Inv

(* The record of a refresh whose session was found.                        *)
LEMMA FoundFlight ==
  ASSUME Inv, NEW t \in Handler, RefreshFind(t)
  PROVE \E f : /\ GoodFlight(f)
               /\ f.phase = "saving" /\ f.token = flight[t].token
               /\ flight' = [flight EXCEPT ![t] = f]
<1> DEFINE f == [flight[t] EXCEPT !.phase = "saving"]
<1>1. GoodFlight(flight[t]) /\ flight[t].phase = "sent"
  BY DEF Inv, FlightsGood, RefreshFind
<1>2. f \in FlightRecord /\ f.phase = "saving" /\ f.token = flight[t].token
  BY <1>1 DEF GoodFlight, FlightRecord
<1>3. flight' = [flight EXCEPT ![t] = f]
  BY DEF RefreshFind
<1> HIDE DEF f
<1>4. GoodFlight(f)
  BY <1>1, <1>2 DEF GoodFlight, Carries
<1> QED
  BY <1>2, <1>3, <1>4

LEMMA RefreshFindStep ==
  ASSUME Inv, NEW t \in Handler, RefreshFind(t)
  PROVE Inv'
<1>1. UNCHANGED <<browser, page, call, server, issued, lapsed, alarm, forked, losses>>
  BY DEF RefreshFind, service
<1>2. PICK f : /\ GoodFlight(f)
               /\ f.phase = "saving"
               /\ flight' = [flight EXCEPT ![t] = f]
  BY FoundFlight
<1>3. /\ flight' \in [Handler -> FlightRecord]
      /\ \A u \in Handler : flight'[u] = IF u = t THEN f ELSE flight[u]
  BY <1>2, FlightSet DEF Inv, GoodFlight
<1>4. FlightsGood'
  BY <1>1, <1>2, <1>3 DEF Inv, FlightsGood, GoodFlight, Carries, Some
<1>5. WaitersFly'
  BY <1>1, <1>2, <1>3, Handlers DEF Inv, WaitersFly
<1>7. LostGood'
  BY <1>1, <1>2, LostAfterSet DEF RefreshFind, GoodFlight
<1>6. RoomKept'
  <2>1. Saving' = Saving \cup {t} /\ t \notin Saving
    BY <1>2, <1>3 DEF Saving, RefreshFind
  <2>2. Cardinality(Saving') = Cardinality(Saving) + 1
    BY <2>1, SavingCount, FS_AddElement
  <2>3. Len(issued) + Cardinality(Saving) < MaxTokens
    BY DEF RefreshFind, Room
  <2> QED
    BY <1>1, <2>2, <2>3, SavingCount, Tokens, Assumptions DEF RoomKept, Inv
<1> QED
  BY <1>1, <1>4, <1>5, <1>6, <1>7, Stable DEF Inv

LEMMA SavedFlight ==
  ASSUME Inv, NEW t \in Handler, RefreshSave(t), Len(issued) + 1 \in Token
  PROVE \E f : /\ f \in FlightRecord
               /\ t \in Tab => f.phase = "reply" /\ f.token = Len(issued) + 1
               /\ t \notin Tab => f.phase = "none" /\ f.token = None
               /\ flight' = [flight EXCEPT ![t] = f]
<1> DEFINE f == [flight[t] EXCEPT !.phase = "reply", !.token = Len(issued) + 1]
<1>1. flight[t] \in FlightRecord
  BY DEF Inv, FlightsGood
<1>2. f \in FlightRecord /\ f.phase = "reply" /\ f.token = Len(issued) + 1
  BY <1>1 DEF FlightRecord
<1>3. flight' = [flight EXCEPT ![t] = IF t \in Tab THEN f ELSE NoFlight]
  BY <1>1 DEF RefreshSave, Inv, FlightsGood
<1> HIDE DEF f
<1> QED
  BY <1>2, <1>3, NoFlightFields

(* What is left when a save has begun.                                     *)
LEMMA SaveHasRoom ==
  ASSUME Inv, NEW t \in Handler, flight[t].phase = "saving"
  PROVE /\ Len(issued) + 1 <= MaxTokens
        /\ flight[t].token \in Issued
        /\ flight[t].token \in Token
        /\ issued[flight[t].token] \in Login
<1>1. t \in Saving
  BY DEF Saving
<1>2. Cardinality(Saving) # 0
  BY <1>1, SavingCount, FS_EmptySet
<1>3. Len(issued) + 1 <= MaxTokens
  BY <1>2, SavingCount, Tokens, Assumptions DEF Inv, RoomKept
<1>4. flight[t].token \in Some /\ flight[t].token # None
  BY DEF Inv, FlightsGood, GoodFlight, Carries
<1> QED
  BY <1>3, <1>4, Tokens DEF Inv

LEMMA RefreshSaveStep ==
  ASSUME Inv, NEW t \in Handler, RefreshSave(t)
  PROVE Inv'
<1> DEFINE old == flight[t].token
<1> DEFINE l == issued[old]
<1> DEFINE n == Len(issued) + 1
<1>1. UNCHANGED <<browser, page, call, lapsed, alarm, losses>>
  BY DEF RefreshSave
<1>2. flight[t].phase = "saving"
  BY DEF RefreshSave
<1>3. n <= MaxTokens /\ old \in Issued /\ old \in Token /\ l \in Login
  BY <1>2, SaveHasRoom
<1>4. issued' = Append(issued, l)
  BY DEF RefreshSave
<1>5. /\ IssuedGood'
      /\ Len(issued) \in Nat
      /\ Len(issued') = n
      /\ n \in Token
      /\ issued'[n] = l
      /\ \A a \in Issued : issued'[a] = issued[a]
      /\ Some \subseteq Some'
  BY <1>1, <1>3, <1>4, Grows DEF Inv
<1>6. n # None /\ n \in Issued' /\ n \in Some' /\ Issued \subseteq Issued' /\ n \notin Issued
  BY <1>5 DEF Issued, Some, None
<1>7. PICK f : /\ f \in FlightRecord
               /\ t \in Tab => f.phase = "reply" /\ f.token = n
               /\ t \notin Tab => f.phase = "none" /\ f.token = None
               /\ flight' = [flight EXCEPT ![t] = f]
  BY <1>5, SavedFlight
<1>8. /\ flight' \in [Handler -> FlightRecord]
      /\ \A u \in Handler : flight'[u] = IF u = t THEN f ELSE flight[u]
  BY <1>7, FlightSet DEF Inv
<1>9. CallsGood'
  BY <1>1, <1>5 DEF Inv, CallsGood, GoodCall
<1>10. PageGood'
  <2>1. UNCHANGED <<keeps, cookie, stored, user, header, dead>>
    BY <1>1 DEF browser, page
  <2> QED
    BY <1>5, <2>1 DEF Inv, PageGood
<1>11. FlightsGood'
  <2> HIDE DEF n, l, old
  <2> QED
    BY <1>5, <1>6, <1>7, <1>8, Tokens DEF Inv, FlightsGood, GoodFlight, Carries
<1>12. WaitersFly'
  BY <1>1, <1>7, <1>8, Handlers DEF Inv, WaitersFly
<1>16. LostGood'
  BY <1>1, <1>2, <1>7, LostAfterSet
<1>13. Known'
  <2> DEFINE doc == Rotated(server[l], old, n)
  <2>1. /\ doc \in SessionRecord
        /\ doc.current = n
        /\ doc.previous = server[l].previous \cup {old}
    BY <1>3, <1>5, RotatedDoc DEF Inv, Known
  <2>2. server' = [server EXCEPT ![l] = doc]
    BY DEF RefreshSave
  <2> HIDE DEF doc
  <2>3. /\ server' \in [Login -> SessionRecord]
        /\ \A k \in Login : server'[k] = IF k = l THEN doc ELSE server[k]
    BY <1>3, <2>1, <2>2 DEF Inv, Known
  <2>4. l = issued[old]
    OBVIOUS
  <2>5. \A a \in server[l].previous : a \in Issued
    <3>1. server[l].previous \subseteq Token
      BY <1>3 DEF Inv, Known, SessionRecord
    <3> QED
      BY <1>3, <3>1 DEF Inv, Known, Knows
  <2> HIDE DEF n, l, old
  <2> QED
    BY <1>3, <1>5, <1>6, <2>1, <2>3, <2>4, <2>5 DEF Inv, Known, Knows
<1>14. RoomKept'
  <2>1. Saving' = Saving \ {t} /\ t \in Saving
    BY <1>2, <1>7, <1>8 DEF Saving
  <2>2. Cardinality(Saving') = Cardinality(Saving) - 1
    BY <2>1, SavingCount, FS_RemoveElement
  <2> QED
    BY <1>5, <2>2, SavingCount, Assumptions DEF Inv, RoomKept
<1>15. CountsGood'
  BY <1>1, <1>3 DEF RefreshSave, Inv, CountsGood
<1> QED
  BY <1>5, <1>9, <1>10, <1>11, <1>12, <1>13, <1>14, <1>15, <1>16
  DEF Inv

-----------------------------------------------------------------------------
(* Inv: the refresh is settled.                                            *)
(* "next" says what a call that waits becomes.                             *)
LEMMA Settling ==
  ASSUME Inv, NEW t \in Tab, NEW next \in [Slot -> CallRecord],
         \A q \in Slot : GoodCall(next[q]) /\ next[q].phase # "waiting",
         Released(t, next), PageGood', UNCHANGED <<service, losses>>
  PROVE Inv'
<1>1. UNCHANGED <<server, issued, lapsed, alarm, forked>>
  BY DEF service
<1>2. /\ call' \in [Tab -> [Slot -> CallRecord]]
      /\ \A u \in Tab : \A q \in Slot :
           call'[u][q] = IF u = t /\ call[t][q].phase = "waiting"
                         THEN next[q] ELSE call[u][q]
      /\ \A u \in Handler : flight'[u] = IF u = t THEN NoFlight ELSE flight[u]
      /\ flight' \in [Handler -> FlightRecord]
  BY ReleasedPointwise DEF Inv, CallsGood, FlightsGood
<1>3. CallsGood'
  BY <1>1, <1>2 DEF Inv, CallsGood, GoodCall, Some
<1>4. NoFlight.phase = "none" /\ NoFlight.token = None
  BY DEF NoFlight
<1>5. FlightsGood'
  BY <1>1, <1>2, <1>4, Tokens DEF Inv, FlightsGood, GoodFlight, Carries, Some
<1>6. WaitersFly'
  BY <1>2, <1>4, Handlers DEF Inv, WaitersFly
<1>8. LostGood'
  BY <1>1, <1>2, <1>4, Handlers DEF Inv, LostGood
<1>7. RoomKept'
  <2>1. Saving' \subseteq Saving
    BY <1>2, <1>4 DEF Saving
  <2>2. /\ Cardinality(Saving') <= Cardinality(Saving)
        /\ Cardinality(Saving') \in Nat
        /\ Cardinality(Saving) \in Nat
    BY <2>1, SavingCount, FS_Subset, FS_CardinalityType
  <2> QED
    BY <1>1, <2>2, Tokens, Assumptions DEF Inv, RoomKept
<1> QED
  BY <1>1, <1>3, <1>5, <1>6, <1>7, <1>8, Stable DEF Inv

LEMMA SettleOkStep ==
  ASSUME Inv, NEW t \in Tab, SettleOk(t)
  PROVE Inv'
<1> DEFINE new == flight[t].token
<1> DEFINE next == [s \in Slot |-> [call[t][s] EXCEPT !.phase = "sent", !.auth = new]]
<1>1. new \in Some /\ new \in Token \cup {None} /\ None \in Some
  BY Tokens, Handlers DEF Inv, FlightsGood, GoodFlight
<1>2. \A q \in Slot : /\ next[q] \in CallRecord
                      /\ next[q].phase = "sent"
                      /\ next[q].auth = new
                      /\ next[q].token = call[t][q].token
  <2> TAKE q \in Slot
  <2>1. call[t][q] \in CallRecord
    BY DEF Inv, CallsGood
  <2> HIDE DEF new
  <2> QED
    BY <1>1, <2>1 DEF CallRecord, CallPhase
<1>3. Released(t, next)
  BY DEF SettleOk
<1>4. next \in [Slot -> CallRecord]
  BY <1>2
<1> HIDE DEF next
<1>5. \A q \in Slot : GoodCall(next[q]) /\ next[q].phase # "waiting"
  BY <1>1, <1>2 DEF GoodCall, Inv, CallsGood
<1>6. PageGood'
  <2>1. Some' = Some
    BY DEF SettleOk, service, Some
  <2>2. stored' \in Some /\ cookie' \in Some
    BY <1>1 DEF SettleOk, SetCookie
  <2>3. /\ header' = [header EXCEPT ![t] = new]
        /\ dead' = [dead EXCEPT ![t] = FALSE]
        /\ UNCHANGED <<keeps, user>>
    BY DEF SettleOk
  <2> HIDE DEF new
  <2> QED
    BY <1>1, <2>1, <2>2, <2>3 DEF Inv, PageGood
<1> QED
  BY <1>3, <1>4, <1>5, <1>6, Settling DEF SettleOk

LEMMA SettleRaceStep ==
  ASSUME Inv, NEW t \in Tab, SettleRace(t)
  PROVE Inv'
<1> DEFINE next == [s \in Slot |-> Resent(call[t][s])]
<1>1. \A q \in Slot : GoodCall(next[q]) /\ next[q].phase # "waiting"
  BY ResentCall
<1>2. next \in [Slot -> CallRecord]
  BY <1>1 DEF GoodCall
<1>3. Released(t, next) /\ UNCHANGED <<browser, page, service, losses>>
  BY DEF SettleRace
<1> HIDE DEF next
<1> QED
  BY <1>1, <1>2, <1>3, PageStable, Settling

LEMMA SettleLimitedStep ==
  ASSUME Inv, NEW t \in Tab, SettleLimited(t)
  PROVE Inv'
<1> DEFINE next == [s \in Slot |-> [call[t][s] EXCEPT !.phase = "delayed"]]
<1>1. \A q \in Slot : /\ next[q] \in CallRecord
                      /\ next[q].phase = "delayed"
                      /\ next[q].auth = call[t][q].auth
                      /\ next[q].token = call[t][q].token
  <2> TAKE q \in Slot
  <2>1. call[t][q] \in CallRecord
    BY DEF Inv, CallsGood
  <2> QED
    BY <2>1 DEF CallRecord, CallPhase
<1>2. next \in [Slot -> CallRecord]
  BY <1>1
<1>3. Released(t, next) /\ UNCHANGED <<browser, page, service, losses>>
  BY DEF SettleLimited
<1> HIDE DEF next
<1>4. \A q \in Slot : GoodCall(next[q]) /\ next[q].phase # "waiting"
  BY <1>1 DEF GoodCall, Inv, CallsGood
<1> QED
  BY <1>2, <1>3, <1>4, PageStable, Settling

LEMMA AllReleased ==
  ASSUME Inv, NEW t \in Tab, Released(t, [s \in Slot |-> NoCall]), PageGood',
         UNCHANGED <<service, losses>>
  PROVE Inv'
<1> DEFINE next == [s \in Slot |-> NoCall]
<1>1. \A q \in Slot : GoodCall(next[q]) /\ next[q].phase # "waiting"
  BY Tokens, NoCallFields DEF GoodCall, Inv
<1>2. next \in [Slot -> CallRecord]
  BY NoCallFields
<1>3. Released(t, next)
  OBVIOUS
<1> HIDE DEF next
<1> QED
  BY <1>1, <1>2, <1>3, Settling

LEMMA SettleRejectedStep ==
  ASSUME Inv, NEW t \in Tab, SettleRejected(t)
  PROVE Inv'
<1>1. PageGood'
  <2>1. Some' = Some /\ None \in Some
    BY Tokens DEF SettleRejected, service, Some, Inv
  <2>2. /\ dead' = [dead EXCEPT ![t] = TRUE]
        /\ header' = [header EXCEPT ![t] = None]
        /\ user' = [user EXCEPT ![t] = None]
        /\ stored' = None
        /\ keeps' = keeps
    BY DEF SettleRejected, Unauthorized
  <2>3. cookie' \in Some
    BY <2>1 DEF SettleRejected, SetCookie
  <2> QED
    BY <2>1, <2>2, <2>3 DEF Inv, PageGood
<1> QED
  BY <1>1, AllReleased DEF SettleRejected

LEMMA SettleFailedStep ==
  ASSUME Inv, NEW t \in Tab, SettleFailed(t)
  PROVE Inv'
BY PageStable, AllReleased DEF SettleFailed

-----------------------------------------------------------------------------
(* Inv: time, and the whole.                                               *)
LEMMA AccessLapsesStep ==
  ASSUME Inv, AccessLapses
  PROVE Inv'
<1>1. UNCHANGED <<browser, page, flight, call, server, issued, alarm, forked, losses>>
  BY DEF AccessLapses
<1>2. IssuedGood'
  BY <1>1, Tokens DEF AccessLapses, Inv, IssuedGood
<1> QED
  BY <1>1, <1>2, Stable DEF Inv

LEMMA CalmDoc ==
  ASSUME NEW d \in SessionRecord
  PROVE LET c == [d EXCEPT !.recent = FALSE] IN
        /\ c \in SessionRecord
        /\ c.current = d.current
        /\ c.previous = d.previous
        /\ c.valid = d.valid
BY DEF SessionRecord

LEMMA GraceEndsStep ==
  ASSUME Inv, NEW l \in Login, GraceEnds(l)
  PROVE Inv'
<1>1. UNCHANGED <<browser, page, flight, call, issued, lapsed, alarm, forked, losses>>
  BY DEF GraceEnds
<1>2. Known'
  <2> DEFINE doc == [server[l] EXCEPT !.recent = FALSE]
  <2>1. /\ doc \in SessionRecord
        /\ doc.current = server[l].current
        /\ doc.previous = server[l].previous
        /\ doc.valid = server[l].valid
    BY CalmDoc DEF Inv, Known
  <2>2. server' = [server EXCEPT ![l] = doc]
    BY DEF GraceEnds, Inv, Known
  <2> HIDE DEF doc
  <2>3. /\ server' \in [Login -> SessionRecord]
        /\ \A k \in Login : server'[k] = IF k = l THEN doc ELSE server[k]
    BY <2>1, <2>2 DEF Inv, Known
  <2> QED
    BY <1>1, <2>1, <2>3 DEF Inv, Known, Knows, Issued
<1> QED
  BY <1>1, <1>2, Stable DEF Inv

LEMMA SessionEndsStep ==
  ASSUME Inv, NEW l \in Login, SessionEnds(l)
  PROVE Inv'
<1>1. UNCHANGED <<browser, page, flight, call, issued, lapsed, alarm, forked, losses>>
  BY DEF SessionEnds
<1>2. /\ server' \in [Login -> SessionRecord]
      /\ \A k \in Login : server'[k] = IF k \in {l} THEN Ended(server[k])
                                       ELSE server[k]
  BY EndedDoc DEF SessionEnds, Inv, Known
<1>3. Known'
  BY <1>1, <1>2, KnownAfterEnding DEF Inv
<1> QED
  BY <1>1, <1>3, Stable DEF Inv

LEMMA InitInv == Init => Inv
<1> SUFFICES ASSUME Init PROVE Inv
  OBVIOUS
<1>1. 1 \in Token /\ 1 \in Login /\ MaxTokens \in Nat /\ MaxTokens >= 1
  BY Assumptions DEF Token, Login
<1>2. /\ issued \in Seq(Login)
      /\ Len(issued) = 1
      /\ issued[1] = 1
  BY <1>1 DEF Init
<1>3. Some = {0, 1} /\ Issued = {1}
  BY <1>2 DEF Some, Issued
<1>4. CallsGood
  BY <1>3, NoCallFields DEF Init, CallsGood, GoodCall, None
<1>5. PageGood
  BY <1>3 DEF Init, PageGood, None
<1>6. NoFlight \in FlightRecord /\ NoFlight.phase = "none" /\ NoFlight.token = None
  BY NoFlightFields
<1>13. LostGood
  BY <1>6, Handlers DEF Init, LostGood
<1>7. FlightsGood
  BY <1>3, <1>6 DEF Init, FlightsGood, GoodFlight, Carries, None
<1>8. WaitersFly
  BY NoCallFields DEF Init, WaitersFly
<1>9. IssuedGood
  BY <1>1, <1>2 DEF Init, IssuedGood
<1>10. Known
  <2>1. /\ NewLogin(1) \in SessionRecord
        /\ NewLogin(1).current = 1
        /\ NewLogin(1).previous = {}
    BY <1>1, NewDoc
  <2>2. /\ NoLogin \in SessionRecord
        /\ NoLogin.current = None
        /\ NoLogin.previous = {}
        /\ NoLogin.valid = FALSE
    BY DEF NoLogin, SessionRecord
  <2>3. \A l \in Login : server[l] = IF l = 1 THEN NewLogin(1) ELSE NoLogin
    BY DEF Init
  <2>4. server \in [Login -> SessionRecord]
    BY <2>1, <2>2 DEF Init
  <2>5. \A a \in Token : a # None
    BY DEF Token, None
  <2> QED
    BY <1>2, <1>3, <2>1, <2>2, <2>3, <2>4, <2>5 DEF Known, Knows, None
<1>11. RoomKept
  <2>1. Saving = {}
    BY <1>6 DEF Init, Saving
  <2> QED
    BY <1>1, <1>2, <2>1, FS_EmptySet DEF RoomKept
<1>12. CountsGood
  <2>1. alarm \in BOOLEAN
    BY DEF Init
  <2>2. losses \in 0 .. MaxLosses
    BY Assumptions DEF Init
  <2>3. forked \subseteq Login
    BY DEF Init
  <2> QED
    BY <2>1, <2>2, <2>3 DEF CountsGood
<1> QED
  BY <1>4, <1>5, <1>7, <1>8, <1>9, <1>10, <1>11, <1>12, <1>13 DEF Inv

LEMMA NextInv == Inv /\ [Next]_vars => Inv'
<1> SUFFICES ASSUME Inv, [Next]_vars PROVE Inv'
  OBVIOUS
<1>1. CASE UNCHANGED vars
  BY <1>1, Stable DEF vars, service, Inv
<1>2. ASSUME NEW t \in Tab, NEW s \in Slot, CallStep(t, s) PROVE Inv'
  BY <1>2, ServeProtectedStep, ServeLoginStep, ServeLogoutStep, FailsStep,
     AcceptedStep, DeniedFinallyStep, GivesUpStep, AsksRefreshStep, ResumeStep
  DEF CallStep
<1>3. ASSUME NEW t \in Tab, NEW s \in Slot, UserActs(t, s) PROVE Inv'
  BY <1>3, ReloadStep, LogoutStep, SendStep DEF UserActs
<1>6. ASSUME NEW h \in Handler, HandlerStep(h) PROVE Inv'
  BY <1>6, RefreshRejectedStep, RefreshRaceStep, RefreshReuseStep,
     RefreshFindStep, RefreshSaveStep, RefreshBreaksStep, RefreshRefusedStep
  DEF HandlerStep
<1>4. ASSUME NEW t \in Tab, FlightStep(t) PROVE Inv'
  BY <1>4, <1>6, Handlers, RefreshReplyStep, SettleOkStep, SettleRaceStep,
     SettleLimitedStep, SettleRejectedStep, SettleFailedStep
  DEF FlightStep
<1>5. CASE Environment
  BY <1>5, AccessLapsesStep, GraceEndsStep, SessionEndsStep, AnswerLostStep
  DEF Environment
<1> QED
  BY <1>1, <1>2, <1>3, <1>4, <1>5, <1>6, Handlers DEF Next

LEMMA InvTypes == Inv => TypeOK
<1> SUFFICES ASSUME Inv PROVE TypeOK
  OBVIOUS
<1>1. Some \subseteq Token \cup {None}
  BY Tokens DEF Inv
<1> QED
  BY <1>1 DEF Inv, CallsGood, PageGood, FlightsGood, WaitersFly, IssuedGood,
              Known, CountsGood, TypeOK

LEMMA InvHolds == Spec => []Inv
BY InitInv, NextInv, PTL DEF Spec

(* The types of the client and of the server's sessions, and that a call   *)
(* waits only while its tab's refresh is in progress, so that somebody     *)
(* wakes it.                                                               *)
THEOREM TypeCorrect == Spec => []TypeOK
BY InvHolds, InvTypes, PTL

-----------------------------------------------------------------------------
(* The sessions, as long as no two rotations of one overlapped.            *)
Current(a) == server[issued[a]].current = a

Remembered ==
  \A a \in Issued : issued[a] \notin forked => Knows(issued[a], a)

Existing == \A a \in Issued : server[issued[a]].current # None

ReplyCurrent ==
  \A t \in Tab :
    flight[t].phase = "reply" /\ issued[flight[t].token] \notin forked =>
      Current(flight[t].token)

RejectedIsEnded ==
  \A t \in Tab : Answered(t, "rejected") =>
    \/ ~server[issued[flight[t].token]].valid
    \/ issued[flight[t].token] \in forked

(* The tokens somebody may still send or take.                             *)
Out(a) ==
  \/ a = cookie
  \/ a = stored
  \/ \E u \in Tab : user[u] = a
  \/ \E u \in Tab : \E q \in Slot : call[u][q].token = a

(* A new token that was not answered yet is known to its handler only.     *)
Unshared ==
  \A t \in Tab : flight[t].phase = "reply" =>
    /\ ~Out(flight[t].token)
    /\ \A g \in Handler : g # t => flight[g].token # flight[t].token

Core ==
  /\ Remembered
  /\ Existing
  /\ ReplyCurrent
  /\ RejectedIsEnded
  /\ Unshared

Public(a) ==
  Out(a) \/ \E g \in Handler : flight[g].phase # "reply" /\ flight[g].token = a

(* Sessions only end, and no token is issued.                              *)
OnlyEnding ==
  /\ issued' = issued
  /\ forked' = forked
  /\ \A l \in Login : /\ server'[l].current = server[l].current
                      /\ server'[l].previous = server[l].previous
                      /\ server'[l].valid => server[l].valid

(* No handler gets as far as its reply, a rejection is justified, and      *)
(* tokens come from where they were known.                                 *)
Quiet ==
  /\ \A t \in Tab : flight'[t].phase = "reply" => flight'[t] = flight[t]
  /\ \A t \in Tab :
       flight'[t].phase = "answered" /\ flight'[t].answer = "rejected" =>
         \/ flight'[t] = flight[t]
         \/ /\ flight'[t].token \in Issued
            /\ \/ ~server'[issued[flight'[t].token]].valid
               \/ issued[flight'[t].token] \in forked
  /\ \A g \in Handler :
       \/ flight'[g].token = flight[g].token
       \/ flight'[g].token = None
       \/ Public(flight'[g].token)

OutQuiet == \A x \in Issued : Out(x)' => Public(x)

LEMMA TokenOfFlight ==
  ASSUME Inv, NEW t \in Handler, Carries(flight[t])
  PROVE /\ flight[t].token \in Issued
        /\ flight[t].token \in Token
        /\ flight[t].token # None
        /\ issued[flight[t].token] \in Login
BY Tokens DEF Inv, FlightsGood, GoodFlight

LEMMA IssuedLogin ==
  ASSUME Inv, NEW a \in Issued
  PROVE issued[a] \in Login /\ a # None
BY DEF Inv, IssuedGood, Issued, None

LEMMA UnsharedKept ==
  ASSUME Inv, Unshared, Quiet, OutQuiet
  PROVE Unshared'
<1> SUFFICES ASSUME NEW t \in Tab, flight'[t].phase = "reply"
             PROVE  /\ ~Out(flight[t].token)'
                    /\ \A g \in Handler : g # t => flight'[g].token # flight'[t].token
  BY DEF Unshared
<1>1. PICK k : k = flight[t].token
  OBVIOUS
<1>2. flight[t].phase = "reply" /\ flight'[t].token = k /\ t \in Handler
  BY <1>1, Handlers DEF Quiet
<1>3. k \in Issued /\ k # None
  BY <1>1, <1>2, TokenOfFlight DEF Carries
<1>4. ~Public(k)
  BY <1>1, <1>2 DEF Unshared, Public
<1>5. ~Out(k)'
  BY <1>3, <1>4 DEF OutQuiet
<1>6. \A g \in Handler : g # t => flight'[g].token # k
  BY <1>1, <1>2, <1>3, <1>4 DEF Quiet, Unshared
<1> QED
  BY <1>2, <1>5, <1>6 DEF Out

LEMMA CoreKept ==
  ASSUME Inv, Core, OnlyEnding, Quiet, OutQuiet
  PROVE Core'
<1>1. \A a \in Issued : issued[a] \in Login
  BY IssuedLogin
<1>2. Issued' = Issued
  BY DEF OnlyEnding, Issued
<1>3. Remembered' /\ Existing'
  BY <1>1, <1>2 DEF Core, Remembered, Existing, Knows, OnlyEnding
<1>4. ReplyCurrent'
  <2> SUFFICES ASSUME NEW t \in Tab, flight'[t].phase = "reply",
                      issued'[flight'[t].token] \notin forked'
               PROVE  server'[issued'[flight'[t].token]].current = flight'[t].token
    BY DEF ReplyCurrent, Current
  <2>1. flight'[t] = flight[t] /\ t \in Handler
    BY Handlers DEF Quiet
  <2>2. issued[flight[t].token] \in Login
    BY <2>1, TokenOfFlight DEF Carries
  <2> QED
    BY <2>1, <2>2 DEF Core, ReplyCurrent, Current, OnlyEnding
<1>5. RejectedIsEnded'
  <2> SUFFICES ASSUME NEW t \in Tab, flight'[t].phase = "answered",
                      flight'[t].answer = "rejected"
               PROVE  \/ ~server'[issued'[flight'[t].token]].valid
                      \/ issued'[flight'[t].token] \in forked'
    BY DEF RejectedIsEnded, Answered
  <2>1. CASE flight'[t] = flight[t]
    <3>1. Carries(flight[t]) /\ t \in Handler
      BY <2>1, Handlers DEF Carries
    <3>2. issued[flight[t].token] \in Login
      BY <3>1, TokenOfFlight
    <3> QED
      BY <2>1, <3>2 DEF Core, RejectedIsEnded, Answered, OnlyEnding
  <2>2. CASE \/ ~server'[issued[flight'[t].token]].valid
             \/ issued[flight'[t].token] \in forked
    BY <2>2 DEF OnlyEnding
  <2> QED
    BY <2>1, <2>2 DEF Quiet
<1>6. Unshared'
  BY UnsharedKept DEF Core
<1> QED
  BY <1>3, <1>4, <1>5, <1>6 DEF Core

LEMMA NothingEnds ==
  UNCHANGED service => OnlyEnding
BY DEF OnlyEnding, service

LEMMA EndedOnly ==
  ASSUME Inv, UNCHANGED <<issued, forked>>, NEW S \in SUBSET Login,
         \A l \in Login : server'[l] = IF l \in S THEN Ended(server[l]) ELSE server[l]
  PROVE OnlyEnding
BY EndedDoc DEF OnlyEnding, Inv, Known

LEMMA GraceEndsOnly ==
  ASSUME Inv, NEW l \in Login, GraceEnds(l)
  PROVE OnlyEnding
<1> DEFINE doc == [server[l] EXCEPT !.recent = FALSE]
<1>1. /\ doc.current = server[l].current
      /\ doc.previous = server[l].previous
      /\ doc.valid = server[l].valid
  BY CalmDoc DEF Inv, Known
<1>2. server' = [server EXCEPT ![l] = doc] /\ UNCHANGED <<issued, forked>>
  BY DEF GraceEnds, Inv, Known
<1> HIDE DEF doc
<1>3. \A k \in Login : server'[k] = IF k = l THEN doc ELSE server[k]
  BY <1>2 DEF Inv, Known
<1> QED
  BY <1>1, <1>2, <1>3 DEF OnlyEnding

LEMMA SessionEndsOnly ==
  ASSUME Inv, NEW l \in Login, SessionEnds(l)
  PROVE OnlyEnding
<1>1. \A k \in Login : server'[k] = IF k \in {l} THEN Ended(server[k]) ELSE server[k]
  BY DEF SessionEnds, Inv, Known
<1> QED
  BY <1>1, EndedOnly DEF SessionEnds

LEMMA LogoutOnlyEnds ==
  ASSUME Inv, NEW t \in Tab, NEW s \in Slot, ServeLogout(t, s)
  PROVE OnlyEnding
<1> DEFINE S == {l \in Login : call[t][s].token # None
                                 /\ server[l].current = call[t][s].token}
<1>1. \A l \in Login : server'[l] = IF l \in S THEN Ended(server[l]) ELSE server[l]
  BY DEF ServeLogout
<1>2. S \in SUBSET Login /\ UNCHANGED <<issued, forked>>
  BY DEF ServeLogout
<1> HIDE DEF S
<1> QED
  BY <1>1, <1>2, EndedOnly

-----------------------------------------------------------------------------
(* Core: what the browser does with its tokens.                            *)
LEMMA CallChange ==
  ASSUME Inv, NEW t \in Tab, NEW s \in Slot, NEW c, SetCall(t, s, c)
  PROVE \A u \in Tab : \A q \in Slot :
          call'[u][q] = IF u = t /\ q = s THEN c ELSE call[u][q]
BY DEF Inv, CallsGood, SetCall

(* One call changes, and with it the tokens of the page.                   *)
LEMMA OutAfterCall ==
  ASSUME Inv, NEW t \in Tab, NEW s \in Slot, NEW c, SetCall(t, s, c),
         c.token = None \/ c.token = call[t][s].token \/ Out(c.token)
           \/ c.token \notin Issued,
         \A x \in Issued :
           (cookie' = x \/ stored' = x \/ \E u \in Tab : user'[u] = x) => Out(x)
  PROVE OutQuiet
<1> SUFFICES ASSUME NEW x \in Issued, Out(x)' PROVE Out(x)
  BY DEF OutQuiet, Public
<1>1. x # None
  BY IssuedLogin
<1>2. ASSUME NEW u \in Tab, NEW q \in Slot, call'[u][q].token = x PROVE Out(x)
  BY <1>1, <1>2, CallChange DEF Out
<1> QED
  BY <1>2 DEF Out

LEMMA OutSame ==
  ASSUME Inv, UNCHANGED <<cookie, stored, user, call>>
  PROVE OutQuiet
BY DEF OutQuiet, Out, Public

(* Every refresh is left alone.                                            *)
LEMMA QuietSame ==
  ASSUME UNCHANGED flight
  PROVE Quiet
BY DEF Quiet

(* One refresh changes.                                                    *)
LEMMA QuietOne ==
  ASSUME Inv, NEW t \in Handler, NEW f, flight' = [flight EXCEPT ![t] = f],
         f.phase # "reply",
         f.token = flight[t].token \/ f.token = None \/ Public(f.token),
         f.phase = "answered" /\ f.answer = "rejected" =>
           /\ f.token \in Issued
           /\ ~server'[issued[f.token]].valid \/ issued[f.token] \in forked
  PROVE Quiet
<1>1. \A u \in Handler : flight'[u] = IF u = t THEN f ELSE flight[u]
  BY DEF Inv, FlightsGood
<1> QED
  BY <1>1, Handlers DEF Quiet

LEMMA CoreCall ==
  ASSUME Inv, Core, NEW t \in Tab, NEW s \in Slot, NEW c, SetCall(t, s, c),
         UNCHANGED <<flight, service>>,
         c.token = None \/ c.token = call[t][s].token \/ Out(c.token)
           \/ c.token \notin Issued,
         \A x \in Issued :
           (cookie' = x \/ stored' = x \/ \E u \in Tab : user'[u] = x) => Out(x)
  PROVE Core'
BY OutAfterCall, QuietSame, NothingEnds, CoreKept

LEMMA CoreStill ==
  ASSUME Inv, Core, OnlyEnding, UNCHANGED <<flight, call, browser, page>>
  PROVE Core'
BY OutSame, QuietSame, CoreKept DEF browser, page

LEMMA CoreSend ==
  ASSUME Inv, Core, NEW t \in Tab, NEW s \in Slot, NEW op, Send(t, s, op)
  PROVE Core'
<1>1. NewCall(t, op).token = None
  BY DEF NewCall, NoCall
<1> QED
  BY <1>1, CoreCall DEF Send, browser, Out

LEMMA CoreReload ==
  ASSUME Inv, Core, NEW t \in Tab, NEW s \in Slot, Reload(t, s)
  PROVE Core'
<1> DEFINE calls == [r \in Slot |->
          IF r = s /\ stored # None
          THEN [NoCall EXCEPT !.phase = "sent", !.op = "verify",
                              !.auth = stored]
          ELSE NoCall]
<1>1. \A r \in Slot : calls[r].token = None
  BY DEF NoCall
<1>2. call' = [call EXCEPT ![t] = calls]
  BY DEF Reload
<1> HIDE DEF calls
<1>3. OutQuiet
  <2> SUFFICES ASSUME NEW x \in Issued, Out(x)' PROVE Out(x)
    BY DEF OutQuiet, Public
  <2>1. x # None
    BY IssuedLogin
  <2>2. ASSUME NEW u \in Tab, NEW q \in Slot, call'[u][q].token = x PROVE Out(x)
    BY <1>1, <1>2, <2>1, <2>2 DEF Inv, CallsGood, Out
  <2>3. ASSUME NEW u \in Tab, user'[u] = x PROVE Out(x)
    BY <2>3 DEF Reload, Inv, PageGood, Out
  <2> QED
    BY <2>2, <2>3 DEF Out, Reload, browser
<1>4. UNCHANGED service
  BY DEF Reload
<1>5. Quiet
  <2>1. CASE flight[t].phase = "none"
    BY <2>1, QuietSame DEF Reload
  <2>2. CASE flight[t].phase # "none"
    <3>1. Parts(t, NoFlight)
      BY <2>2 DEF Reload
    <3>2. GoodFlight(NoFlight)
      BY Tokens, NoFlightFields DEF GoodFlight, Carries, Inv
    <3>3. \A u \in Handler : flight'[u] =
             IF u = t THEN NoFlight
             ELSE IF u = losses + 1
                  THEN IF flight[t].phase \in {"sent", "saving"} THEN flight[t]
                       ELSE NoFlight
                  ELSE flight[u]
      BY <1>4, <3>1, <3>2, NoFlightFields, PartsFacts DEF service
    <3> QED
      BY <3>3, NoFlightFields, Handlers DEF Quiet, Public
  <2> QED
    BY <2>1, <2>2
<1> QED
  BY <1>3, <1>4, <1>5, NothingEnds, CoreKept

LEMMA CoreLogout ==
  ASSUME Inv, Core, NEW t \in Tab, NEW s \in Slot, Logout(t, s)
  PROVE Core'
<1> DEFINE c == [NoCall EXCEPT !.phase = "sent", !.op = "logout", !.token = cookie]
<1>1. \A x \in Issued :
        (cookie' = x \/ stored' = x \/ \E u \in Tab : user'[u] = x) => Out(x)
  BY IssuedLogin DEF Logout, Out, Inv, PageGood
<1>2. c.token = cookie
  BY DEF NoCall
<1>3. SetCall(t, s, c) \/ UNCHANGED call
  BY DEF Logout
<1>4. UNCHANGED <<flight, service>>
  BY DEF Logout
<1> HIDE DEF c
<1>5. CASE SetCall(t, s, c)
  BY <1>1, <1>2, <1>4, <1>5, CoreCall DEF Out
<1>6. CASE UNCHANGED call
  <2>1. OutQuiet
    BY <1>1, <1>6 DEF OutQuiet, Out, Public
  <2> QED
    BY <1>4, <2>1, QuietSame, NothingEnds, CoreKept
<1> QED
  BY <1>3, <1>5, <1>6

LEMMA CoreAccepted ==
  ASSUME Inv, Core, NEW t \in Tab, NEW s \in Slot, Accepted(t, s)
  PROVE Core'
<1>1. SetCall(t, s, NoCall) /\ NoCall.token = None
  BY NoCallFields DEF Accepted
<1>2. Out(call[t][s].token) /\ Out(Latest(t))
  BY DEF Out, Latest
<1>3. \A x \in Issued :
        (cookie' = x \/ stored' = x \/ \E u \in Tab : user'[u] = x) => Out(x)
  <2> SUFFICES ASSUME NEW x \in Issued,
                      cookie' = x \/ stored' = x \/ \E u \in Tab : user'[u] = x
               PROVE  Out(x)
    OBVIOUS
  <2>1. x # None
    BY IssuedLogin
  <2>2. stored' \in {stored, Latest(t), call[t][s].token}
    BY DEF Accepted
  <2>3. cookie' \in {cookie, None, call[t][s].token}
    BY DEF Accepted, SetCookie
  <2>4. \A u \in Tab : user'[u] \in {user[u], Latest(t), call[t][s].token}
    BY DEF Accepted, Inv, PageGood
  <2> QED
    BY <1>2, <2>1, <2>2, <2>3, <2>4 DEF Out
<1> QED
  BY <1>1, <1>3, CoreCall DEF Accepted

LEMMA CoreOtherCalls ==
  ASSUME Inv, Core, NEW t \in Tab, NEW s \in Slot,
         \/ ServeProtected(t, s) \/ Fails(t, s) \/ DeniedFinally(t, s)
         \/ GivesUp(t, s) \/ Resume(t, s)
  PROVE Core'
<1>1. \E c : SetCall(t, s, c) /\ (c.token = None \/ c.token = call[t][s].token)
  <2>1. NoCall.token = None
    BY NoCallFields
  <2>2. Resent(call[t][s]).token = call[t][s].token
    BY ResentCall
  <2>3. \A p \in {"ok", "denied"} :
          Served(t, s, p, None) => /\ SetCall(t, s, Result(call[t][s], p, None))
                                   /\ Result(call[t][s], p, None).token = None
    <3>1. TAKE p \in {"ok", "denied"}
    <3>2. Result(call[t][s], p, None).token = None
      BY ServedCall
    <3> QED
      BY <3>2 DEF Served, Result
  <2> QED
    BY <2>1, <2>2, <2>3
    DEF ServeProtected, Fails, DeniedFinally, GivesUp, Resume
<1>2. \A x \in Issued :
        (cookie' = x \/ stored' = x \/ \E u \in Tab : user'[u] = x) => Out(x)
  BY IssuedLogin
  DEF ServeProtected, Fails, DeniedFinally, GivesUp, Resume, Unauthorized,
      browser, page, Out, Inv, PageGood
<1>3. UNCHANGED <<flight, service>>
  BY DEF ServeProtected, Fails, DeniedFinally, GivesUp, Resume
<1> QED
  BY <1>1, <1>2, <1>3, CoreCall

LEMMA CoreServeLogout ==
  ASSUME Inv, Core, NEW t \in Tab, NEW s \in Slot, ServeLogout(t, s)
  PROVE Core'
<1>1. SetCall(t, s, Result(call[t][s], "ok", None))
  BY DEF ServeLogout, Served, Result
<1>2. Result(call[t][s], "ok", None).token = None
  BY ServedCall
<1>3. OutQuiet
  BY <1>1, <1>2, OutAfterCall DEF ServeLogout, browser, page, Out
<1> QED
  BY <1>3, LogoutOnlyEnds, QuietSame, CoreKept DEF ServeLogout

LEMMA CoreAsksRefresh ==
  ASSUME Inv, Core, NEW t \in Tab, NEW s \in Slot, AsksRefresh(t, s)
  PROVE Core'
<1> DEFINE f == [phase |-> "sent", token |-> TokenSent, answer |-> "none"]
<1>1. UNCHANGED <<browser, page, service>>
  BY DEF AsksRefresh
<1>2. OutQuiet
  <2>1. SetCall(t, s, Waiting(call[t][s]))
    BY DEF AsksRefresh
  <2>2. Waiting(call[t][s]).token = call[t][s].token
    BY WaitingCall DEF Inv, CallsGood
  <2> QED
    BY <1>1, <2>1, <2>2, OutAfterCall DEF browser, page, Out
<1>3. Quiet
  <2>1. CASE flight[t].phase # "none"
    BY <2>1, QuietSame DEF AsksRefresh
  <2>2. CASE flight[t].phase = "none"
    <3>1. flight' = [flight EXCEPT ![t] = f]
      BY <2>2 DEF AsksRefresh
    <3>2. f.phase = "sent" /\ f.token = TokenSent /\ Public(TokenSent)
      BY DEF TokenSent, Public, Out
    <3> HIDE DEF f
    <3> QED
      BY <3>1, <3>2, Handlers, QuietOne
  <2> QED
    BY <2>1, <2>2
<1> QED
  BY <1>1, <1>2, <1>3, NothingEnds, CoreKept

-----------------------------------------------------------------------------
(* Core: the steps of a refresh.                                           *)
(* A step of a handler that leaves the sessions and the page alone.        *)
LEMMA CoreFlight ==
  ASSUME Inv, Core, OnlyEnding, NEW t \in Handler, NEW f,
         flight' = [flight EXCEPT ![t] = f],
         UNCHANGED <<browser, page, call>>,
         f.phase # "reply",
         f.token = flight[t].token \/ f.token = None,
         f.phase = "answered" /\ f.answer = "rejected" =>
           /\ f.token \in Issued
           /\ ~server'[issued[f.token]].valid \/ issued[f.token] \in forked
  PROVE Core'
BY QuietOne, OutSame, CoreKept DEF browser, page

(* Answers that reject nobody.                                             *)
LEMMA CoreAnswers ==
  ASSUME Inv, Core, NEW t \in Handler, NEW a, NEW k, Answers(t, a, k),
         a # "rejected", k = None \/ k = flight[t].token,
         UNCHANGED <<browser, page, call, service>>
  PROVE Core'
<1>1. PICK f : f = IF t \in Tab
                   THEN [phase |-> "answered", token |-> k, answer |-> a]
                   ELSE NoFlight
  OBVIOUS
<1>2. flight' = [flight EXCEPT ![t] = f]
  BY <1>1 DEF Answers
<1>3. /\ f.phase # "reply"
      /\ f.token = flight[t].token \/ f.token = None
      /\ ~(f.phase = "answered" /\ f.answer = "rejected")
  BY <1>1, NoFlightFields
<1> QED
  BY <1>2, <1>3, NothingEnds, CoreFlight

(* A rejection of a token whose session is over.                           *)
LEMMA CoreRejects ==
  ASSUME Inv, Core, OnlyEnding, NEW t \in Handler, Carries(flight[t]),
         Answers(t, "rejected", flight[t].token),
         \/ ~server'[issued[flight[t].token]].valid
         \/ issued[flight[t].token] \in forked,
         UNCHANGED <<browser, page, call>>
  PROVE Core'
<1>1. PICK k : k = flight[t].token
  OBVIOUS
<1>2. k \in Issued
  BY <1>1, TokenOfFlight
<1>3. PICK f : f = IF t \in Tab
                   THEN [phase |-> "answered", token |-> k, answer |-> "rejected"]
                   ELSE NoFlight
  OBVIOUS
<1>4. flight' = [flight EXCEPT ![t] = f]
  BY <1>1, <1>3 DEF Answers
<1>5. CASE t \in Tab
  <2>1. f.phase = "answered" /\ f.token = k
    BY <1>3, <1>5
  <2> QED
    BY <1>1, <1>2, <1>4, <2>1, CoreFlight
<1>6. CASE t \notin Tab
  <2>1. f.phase = "none" /\ f.token = None
    BY <1>3, <1>6, NoFlightFields
  <2> QED
    BY <1>4, <2>1, CoreFlight
<1> QED
  BY <1>5, <1>6

(* A token that no valid session knows is one of a session that ended.     *)
LEMMA CoreRefreshRejected ==
  ASSUME Inv, Core, NEW t \in Handler, RefreshRejected(t)
  PROVE Core'
<1>1. PICK k : k = flight[t].token
  OBVIOUS
<1>2. k \in Issued /\ issued[k] \in Login /\ Carries(flight[t])
  BY <1>1, TokenOfFlight DEF RefreshRejected, Carries
<1>3. UNCHANGED service
  BY DEF RefreshRejected
<1>4. ~server[issued[k]].valid \/ issued[k] \in forked
  BY <1>1, <1>2 DEF RefreshRejected, Usable, Core, Remembered
<1>5. ~server'[issued[k]].valid \/ issued[k] \in forked
  BY <1>3, <1>4 DEF service
<1> QED
  BY <1>1, <1>2, <1>3, <1>5, NothingEnds, CoreRejects DEF RefreshRejected

LEMMA CoreRefreshReuse ==
  ASSUME Inv, Core, NEW t \in Handler, RefreshReuse(t)
  PROVE Core'
<1>1. PICK k : k = flight[t].token
  OBVIOUS
<1>2. k \in Issued /\ issued[k] \in Login /\ Carries(flight[t])
  BY <1>1, TokenOfFlight DEF RefreshReuse, Carries
<1>3. /\ UNCHANGED <<issued, forked>>
      /\ \A l \in Login : server'[l] = IF l \in Login THEN Ended(server[l])
                                       ELSE server[l]
  BY DEF RefreshReuse
<1>4. OnlyEnding
  BY <1>3, EndedOnly
<1>5. ~server'[issued[k]].valid
  <2>1. server'[issued[k]] = Ended(server[issued[k]])
    BY <1>2, <1>3
  <2>2. server[issued[k]] \in SessionRecord
    BY <1>2 DEF Inv, Known
  <2> QED
    BY <2>1, <2>2, EndedDoc
<1> QED
  BY <1>1, <1>2, <1>4, <1>5, CoreRejects DEF RefreshReuse

LEMMA CoreRefreshFind ==
  ASSUME Inv, Core, NEW t \in Handler, RefreshFind(t)
  PROVE Core'
<1>1. PICK f : /\ f.phase = "saving" /\ f.token = flight[t].token
               /\ flight' = [flight EXCEPT ![t] = f]
  BY FoundFlight
<1> QED
  BY <1>1, NothingEnds, CoreFlight DEF RefreshFind

(* The session that was saved is found by its new token, unless another    *)
(* rotation overlapped.                                                    *)
LEMMA CoreRefreshReply ==
  ASSUME Inv, Core, NEW t \in Tab, RefreshReply(t)
  PROVE Core'
<1>1. PICK k : k = flight[t].token
  OBVIOUS
<1>2. t \in Handler
  BY Handlers
<1>3. k \in Issued /\ issued[k] \in Login /\ Carries(flight[t])
  BY <1>1, <1>2, TokenOfFlight DEF RefreshReply, Carries
<1>4. UNCHANGED <<browser, page, call, service>>
  BY DEF RefreshReply
<1>5. CASE Answers(t, "ok", k)
  BY <1>1, <1>2, <1>4, <1>5, CoreAnswers
<1>6. CASE ~Answers(t, "ok", k)
  <2>1. /\ Answers(t, "rejected", k)
        /\ ~ \E l \in Login : server[l].current = k
    BY <1>1, <1>6 DEF RefreshReply
  <2>2. issued[k] \in forked
    BY <1>1, <1>3, <2>1 DEF RefreshReply, Core, ReplyCurrent, Current
  <2> QED
    BY <1>1, <1>2, <1>3, <1>4, <2>1, <2>2, NothingEnds, CoreRejects
<1> QED
  BY <1>5, <1>6

LEMMA CoreReleased ==
  ASSUME Inv, Core, NEW t \in Tab, NEW next, Released(t, next),
         next = [s \in Slot |-> next[s]],
         \A q \in Slot : \/ next[q].token = None
                         \/ next[q].token = call[t][q].token,
         \A x \in Issued :
           (cookie' = x \/ stored' = x \/ \E u \in Tab : user'[u] = x) => Public(x),
         UNCHANGED service
  PROVE Core'
<1>1. \A u \in Tab : \A q \in Slot :
        \/ call'[u][q].token = None
        \/ call'[u][q].token = call[u][q].token
  BY DEF Released, Inv, CallsGood
<1>2. OutQuiet
  <2> SUFFICES ASSUME NEW x \in Issued, Out(x)' PROVE Public(x)
    BY DEF OutQuiet
  <2>1. x # None
    BY IssuedLogin
  <2>2. ASSUME NEW u \in Tab, NEW q \in Slot, call'[u][q].token = x PROVE Out(x)
    BY <1>1, <2>1, <2>2 DEF Out
  <2> QED
    BY <2>2 DEF Out, Public
<1>3. Quiet
  <2>1. flight' = [flight EXCEPT ![t] = NoFlight] /\ t \in Handler
    BY Handlers DEF Released
  <2> QED
    BY <2>1, NoFlightFields, QuietOne
<1> QED
  BY <1>2, <1>3, NothingEnds, CoreKept

LEMMA CoreSettle ==
  ASSUME Inv, Core, NEW t \in Tab,
         \/ SettleOk(t) \/ SettleRace(t) \/ SettleLimited(t)
         \/ SettleRejected(t) \/ SettleFailed(t)
  PROVE Core'
<1>0. PICK k : k = flight[t].token
  OBVIOUS
<1>1. ASSUME NEW next, next = [s \in Slot |-> next[s]], Released(t, next),
             \A q \in Slot : \/ next[q].token = None
                             \/ next[q].token = call[t][q].token
      PROVE  Core'
  <2>1. \A x \in Issued :
          (cookie' = x \/ stored' = x \/ \E u \in Tab : user'[u] = x) => Public(x)
    <3> SUFFICES ASSUME NEW x \in Issued,
                        cookie' = x \/ stored' = x \/ \E u \in Tab : user'[u] = x
                 PROVE  Public(x)
      OBVIOUS
    <3>1. x # None
      BY IssuedLogin
    <3>2. cookie' \in {cookie, None} \/ (SettleOk(t) /\ cookie' = k)
      BY <1>0 DEF SettleOk, SettleRace, SettleLimited, SettleRejected,
                  SettleFailed, SetCookie, browser
    <3>3. stored' \in {stored, None} \/ (SettleOk(t) /\ stored' = k)
      BY <1>0 DEF SettleOk, SettleRace, SettleLimited, SettleRejected,
                  SettleFailed, Unauthorized, browser
    <3>4. \A u \in Tab : user'[u] \in {user[u], None}
      BY DEF SettleOk, SettleRace, SettleLimited, SettleRejected, SettleFailed,
             Unauthorized, page, Inv, PageGood
    <3>5. SettleOk(t) => Public(k)
      BY <1>0, Handlers DEF SettleOk, Answered, Public
    <3> QED
      BY <3>1, <3>2, <3>3, <3>4, <3>5 DEF Public, Out
  <2>2. UNCHANGED service
    BY DEF SettleOk, SettleRace, SettleLimited, SettleRejected, SettleFailed
  <2> QED
    BY <1>1, <2>1, <2>2, CoreReleased
<1>2. \A q \in Slot : call[t][q] \in CallRecord
  BY DEF Inv, CallsGood
<1>3. CASE SettleOk(t)
  <2> DEFINE next == [s \in Slot |-> [call[t][s] EXCEPT !.phase = "sent", !.auth = k]]
  <2>1. Released(t, next) /\ next = [s \in Slot |-> next[s]]
    BY <1>0, <1>3 DEF SettleOk
  <2>2. \A q \in Slot : next[q].token = call[t][q].token
    BY <1>2 DEF CallRecord
  <2> HIDE DEF next
  <2> QED
    BY <1>1, <2>1, <2>2
<1>4. CASE SettleRace(t)
  <2> DEFINE next == [s \in Slot |-> Resent(call[t][s])]
  <2>1. \A q \in Slot : next[q].token = call[t][q].token
    BY ResentCall
  <2>2. Released(t, next) /\ next = [s \in Slot |-> next[s]]
    BY <1>4 DEF SettleRace
  <2> HIDE DEF next
  <2> QED
    BY <1>1, <2>1, <2>2
<1>5. CASE SettleLimited(t)
  <2> DEFINE next == [s \in Slot |-> [call[t][s] EXCEPT !.phase = "delayed"]]
  <2>1. \A q \in Slot : next[q].token = call[t][q].token
    BY <1>2 DEF CallRecord
  <2>2. Released(t, next) /\ next = [s \in Slot |-> next[s]]
    BY <1>5 DEF SettleLimited
  <2> HIDE DEF next
  <2> QED
    BY <1>1, <2>1, <2>2
<1>6. CASE SettleRejected(t) \/ SettleFailed(t)
  <2> DEFINE next == [s \in Slot |-> NoCall]
  <2>1. \A q \in Slot : next[q].token = None
    BY NoCallFields
  <2>2. Released(t, next) /\ next = [s \in Slot |-> next[s]]
    BY <1>6 DEF SettleRejected, SettleFailed
  <2> HIDE DEF next
  <2> QED
    BY <1>1, <2>1, <2>2
<1> QED
  BY <1>3, <1>4, <1>5, <1>6

LEMMA CoreAnswerLost ==
  ASSUME Inv, Core, NEW t \in Tab, AnswerLost(t)
  PROVE Core'
<1> DEFINE f == [phase |-> "answered", token |-> None, answer |-> "failed"]
<1>1. UNCHANGED <<browser, page, call, service>>
  BY DEF AnswerLost
<1>2. GoodFlight(f) /\ f.phase = "answered" /\ f.answer = "failed" /\ f.token = None
  BY Tokens DEF GoodFlight, FlightRecord, Answer, Carries, Inv
<1>3. Parts(t, f)
  BY DEF AnswerLost
<1> HIDE DEF f
<1>4. \A u \in Handler : flight'[u] =
        IF u = t THEN f
        ELSE IF u = losses + 1
             THEN IF flight[t].phase \in {"sent", "saving"} THEN flight[t]
                  ELSE NoFlight
             ELSE flight[u]
  BY <1>1, <1>2, <1>3, PartsFacts DEF service
<1>5. Quiet
  BY <1>2, <1>4, NoFlightFields, Handlers DEF Quiet, Public
<1> QED
  BY <1>1, <1>5, NothingEnds, OutSame, CoreKept DEF browser, page

-----------------------------------------------------------------------------
(* What a login and a rotation do to the server.                           *)
Created(t, s, l) ==
  /\ server[l].current = None
  /\ Room
  /\ Served(t, s, "ok", Len(issued) + 1)
  /\ server' = [server EXCEPT ![l] = NewLogin(Len(issued) + 1)]
  /\ issued' = Append(issued, l)
  /\ UNCHANGED <<lapsed, alarm, forked, browser, page, flight, losses>>

LEMMA LoginKinds ==
  ASSUME NEW t \in Tab, NEW s \in Slot, ServeLogin(t, s)
  PROVE \/ Served(t, s, "denied", None)
             /\ UNCHANGED <<browser, page, flight, service, losses>>
        \/ \E l \in Login : Created(t, s, l)
BY DEF ServeLogin, Created

LEMMA CreatedFacts ==
  ASSUME Inv, NEW t \in Tab, NEW s \in Slot, NEW l \in Login, Created(t, s, l)
  PROVE /\ Len(issued) \in Nat
        /\ Len(issued) + 1 \in Token
        /\ Len(issued) + 1 # None
        /\ Len(issued) + 1 \notin Issued
        /\ Issued' = Issued \cup {Len(issued) + 1}
        /\ issued'[Len(issued) + 1] = l
        /\ \A a \in Issued : issued'[a] = issued[a]
        /\ server'[l].current = Len(issued) + 1
        /\ \A k \in Login : k # l => server'[k] = server[k]
<1>1. Len(issued) + 1 <= MaxTokens
  BY SavingCount, Tokens, Assumptions DEF Created, Room, Inv
<1>2. /\ IssuedGood'
      /\ Len(issued) \in Nat
      /\ Len(issued') = Len(issued) + 1
      /\ Len(issued) + 1 \in Token
      /\ issued'[Len(issued) + 1] = l
      /\ \A a \in Issued : issued'[a] = issued[a]
  BY <1>1, Grows DEF Created, Inv
<1>3. /\ Len(issued) + 1 # None
      /\ Len(issued) + 1 \notin Issued
      /\ Issued' = Issued \cup {Len(issued) + 1}
  BY <1>2 DEF Issued, None
<1>4. server' = [server EXCEPT ![l] = NewLogin(Len(issued) + 1)]
  BY DEF Created
<1>5. NewLogin(Len(issued) + 1).current = Len(issued) + 1
  BY DEF NewLogin
<1> QED
  BY <1>2, <1>3, <1>4, <1>5 DEF Inv, Known

LEMMA SavedFacts ==
  ASSUME Inv, NEW t \in Handler, RefreshSave(t)
  PROVE LET old == flight[t].token
            l == issued[old]
            n == Len(issued) + 1
        IN  /\ old \in Issued /\ l \in Login
            /\ n # None /\ n \notin Issued
            /\ Issued' = Issued \cup {n}
            /\ issued'[n] = l
            /\ \A a \in Issued : issued'[a] = issued[a]
            /\ server'[l].current = n
            /\ server'[l].previous = server[l].previous \cup {old}
            /\ server'[l].valid = server[l].valid
            /\ \A k \in Login : k # l => server'[k] = server[k]
            /\ t \in Tab => flight'[t].phase = "reply" /\ flight'[t].token = n
            /\ t \notin Tab => flight'[t].phase = "none" /\ flight'[t].token = None
            /\ \A u \in Handler : u # t => flight'[u] = flight[u]
            /\ forked \subseteq forked'
            /\ server[l].current # old => l \in forked'
            /\ server[l].current = old => forked' = forked
<1> DEFINE old == flight[t].token
<1> DEFINE l == issued[old]
<1> DEFINE n == Len(issued) + 1
<1>1. n <= MaxTokens /\ old \in Issued /\ old \in Token /\ l \in Login
  BY SaveHasRoom DEF RefreshSave
<1>2. issued' = Append(issued, l)
  BY DEF RefreshSave
<1>3. /\ IssuedGood'
      /\ Len(issued) \in Nat
      /\ Len(issued') = n
      /\ n \in Token
      /\ issued'[n] = l
      /\ \A a \in Issued : issued'[a] = issued[a]
  BY <1>1, <1>2, Grows DEF RefreshSave, Inv
<1>4. n # None /\ n \notin Issued /\ Issued' = Issued \cup {n}
  BY <1>3 DEF Issued, None
<1>5. PICK f : /\ f \in FlightRecord
               /\ t \in Tab => f.phase = "reply" /\ f.token = n
               /\ t \notin Tab => f.phase = "none" /\ f.token = None
               /\ flight' = [flight EXCEPT ![t] = f]
  BY <1>3, SavedFlight
<1>6. \A u \in Handler : flight'[u] = IF u = t THEN f ELSE flight[u]
  BY <1>5 DEF Inv, FlightsGood
<1> DEFINE doc == Rotated(server[l], old, n)
<1>7. /\ doc.current = n
      /\ doc.previous = server[l].previous \cup {old}
      /\ doc.valid = server[l].valid
  BY <1>1, <1>3, RotatedDoc DEF Inv, Known
<1>8. server' = [server EXCEPT ![l] = doc]
  BY DEF RefreshSave
<1> HIDE DEF doc
<1>9. /\ server'[l] = doc
      /\ \A k \in Login : k # l => server'[k] = server[k]
  BY <1>1, <1>8 DEF Inv, Known
<1>10. forked' = IF server[l].current = old THEN forked ELSE forked \cup {l}
  BY DEF RefreshSave
<1> QED
  BY <1>1, <1>3, <1>4, <1>5, <1>6, <1>7, <1>9, <1>10

(* Nothing was issued for a session that does not exist yet.               *)
LEMMA FreshLogin ==
  ASSUME Inv, Core, NEW l \in Login, server[l].current = None, NEW a \in Issued
  PROVE issued[a] # l
BY DEF Core, Existing

LEMMA CoreCreated ==
  ASSUME Inv, Core, NEW t \in Tab, NEW s \in Slot, NEW l \in Login, Created(t, s, l)
  PROVE Core'
<1> DEFINE n == Len(issued) + 1
<1>1. /\ n \in Token /\ n # None /\ n \notin Issued
      /\ Issued' = Issued \cup {n}
      /\ issued'[n] = l
      /\ \A a \in Issued : issued'[a] = issued[a]
      /\ server'[l].current = n
      /\ \A k \in Login : k # l => server'[k] = server[k]
  BY CreatedFacts
<1>2. \A a \in Issued : /\ server'[issued'[a]] = server[issued[a]]
                        /\ issued'[a] = issued[a]
  BY <1>1, FreshLogin, IssuedLogin DEF Created
<1>3. UNCHANGED <<flight, forked, cookie, stored, user>>
  BY DEF Created, browser, page
<1>4. SetCall(t, s, Result(call[t][s], "ok", n))
  BY DEF Created, Served, Result
<1>5. Result(call[t][s], "ok", n).token = n
  BY <1>1, ServedCall
<1> HIDE DEF n
<1>6. Remembered' /\ Existing'
  BY <1>1, <1>2, <1>3 DEF Core, Remembered, Existing, Knows
<1>7. ReplyCurrent'
  <2> SUFFICES ASSUME NEW u \in Tab, flight[u].phase = "reply",
                      issued'[flight[u].token] \notin forked
               PROVE  server'[issued'[flight[u].token]].current = flight[u].token
    BY <1>3 DEF ReplyCurrent, Current
  <2>1. flight[u].token \in Issued
    BY Handlers, TokenOfFlight DEF Carries
  <2> QED
    BY <1>2, <2>1 DEF Core, ReplyCurrent, Current
<1>8. RejectedIsEnded'
  <2> SUFFICES ASSUME NEW u \in Tab, Answered(u, "rejected")
               PROVE  \/ ~server'[issued'[flight[u].token]].valid
                      \/ issued'[flight[u].token] \in forked
    BY <1>3 DEF RejectedIsEnded, Answered
  <2>1. flight[u].token \in Issued
    BY Handlers, TokenOfFlight DEF Carries, Answered
  <2> QED
    BY <1>2, <2>1 DEF Core, RejectedIsEnded
<1>9. Unshared'
  <2>1. OutQuiet
    BY <1>1, <1>3, <1>4, <1>5, OutAfterCall DEF Out
  <2> QED
    BY <1>3, <2>1, QuietSame, UnsharedKept DEF Core
<1> QED
  BY <1>6, <1>7, <1>8, <1>9 DEF Core

(* A rotation: what it replaced is remembered, and another handler of the  *)
(* session that has saved before it did so in between.                     *)
LEMMA CoreRefreshSave ==
  ASSUME Inv, Core, NEW t \in Handler, RefreshSave(t)
  PROVE Core'
<1> DEFINE old == flight[t].token
<1> DEFINE l == issued[old]
<1> DEFINE n == Len(issued) + 1
<1>1. /\ old \in Issued /\ l \in Login
      /\ n # None /\ n \notin Issued
      /\ Issued' = Issued \cup {n}
      /\ issued'[n] = l
      /\ \A a \in Issued : issued'[a] = issued[a]
      /\ server'[l].current = n
      /\ server'[l].previous = server[l].previous \cup {old}
      /\ server'[l].valid = server[l].valid
      /\ \A k \in Login : k # l => server'[k] = server[k]
      /\ t \in Tab => flight'[t].phase = "reply" /\ flight'[t].token = n
      /\ t \notin Tab => flight'[t].phase = "none" /\ flight'[t].token = None
      /\ \A u \in Handler : u # t => flight'[u] = flight[u]
      /\ forked \subseteq forked'
      /\ server[l].current # old => l \in forked'
      /\ server[l].current = old => forked' = forked
  BY SavedFacts
<1>2. flight[t].phase = "saving"
  BY DEF RefreshSave
<1>3. UNCHANGED <<cookie, stored, user, call>>
  BY DEF RefreshSave, browser, page
<1>4. l = issued[old] /\ old = flight[t].token
  OBVIOUS
<1> HIDE DEF old, l, n
<1>5. Remembered' /\ Existing'
  BY <1>1, IssuedLogin DEF Core, Remembered, Existing, Knows
<1>6. ASSUME NEW u \in Tab, u # t, Carries(flight[u])
      PROVE  /\ flight[u].token \in Issued /\ flight'[u] = flight[u]
             /\ issued[flight[u].token] \in Login
  BY <1>1, <1>6, Handlers, TokenOfFlight
<1>7. ReplyCurrent'
  <2> SUFFICES ASSUME NEW u \in Tab, flight'[u].phase = "reply",
                      issued'[flight'[u].token] \notin forked'
               PROVE  server'[issued'[flight'[u].token]].current = flight'[u].token
    BY DEF ReplyCurrent, Current
  <2>1. CASE u = t
    BY <1>1, <2>1
  <2>2. CASE u # t
    <3>1. flight'[u] = flight[u]
      BY <1>1, <2>2, Handlers
    <3>2. PICK k : k = flight[u].token
      OBVIOUS
    <3>3. /\ k \in Issued /\ issued[k] \in Login
          /\ issued'[k] = issued[k] /\ issued[k] \notin forked
      BY <1>1, <1>6, <2>2, <3>1, <3>2 DEF Carries
    <3>4. server[issued[k]].current = k
      BY <3>1, <3>2, <3>3 DEF Core, ReplyCurrent, Current
    <3>5. k # old
      BY <1>4, <2>2, <3>1, <3>2, Handlers DEF Core, Unshared
    <3>6. issued[k] # l
      BY <1>1, <3>1, <3>2, <3>3, <3>4, <3>5
    <3> QED
      BY <1>1, <3>1, <3>2, <3>3, <3>4, <3>6
  <2> QED
    BY <2>1, <2>2
<1>8. RejectedIsEnded'
  <2> SUFFICES ASSUME NEW u \in Tab, flight'[u].phase = "answered",
                      flight'[u].answer = "rejected"
               PROVE  \/ ~server'[issued'[flight'[u].token]].valid
                      \/ issued'[flight'[u].token] \in forked'
    BY DEF RejectedIsEnded, Answered
  <2>1. u # t
    BY <1>1
  <2>2. flight'[u] = flight[u]
    BY <1>1, <2>1, Handlers
  <2>3. /\ flight[u].token \in Issued /\ issued[flight[u].token] \in Login
        /\ Answered(u, "rejected")
    BY <1>6, <2>1, <2>2 DEF Carries, Answered
  <2>4. \/ ~server[issued[flight[u].token]].valid
        \/ issued[flight[u].token] \in forked
    BY <2>3 DEF Core, RejectedIsEnded
  <2> QED
    BY <1>1, <2>2, <2>3, <2>4
<1>9. Unshared'
  <2> SUFFICES ASSUME NEW u \in Tab, flight'[u].phase = "reply"
               PROVE  /\ ~Out(flight[u].token)'
                      /\ \A g \in Handler : g # u => flight'[g].token # flight'[u].token
    BY DEF Unshared
  <2>1. CASE u = t
    <3>1. ~Out(n)
      BY <1>1, Tokens DEF Out, Inv, PageGood, CallsGood, GoodCall, Some, Issued, None
    <3>2. \A g \in Handler : flight[g].token # n
      BY <1>1, Tokens DEF Inv, FlightsGood, GoodFlight
    <3> QED
      BY <1>1, <1>3, <2>1, <3>1, <3>2 DEF Out
  <2>2. CASE u # t
    <3>1. flight'[u] = flight[u]
      BY <1>1, <2>2, Handlers
    <3>2. flight[u].token \in Issued
      BY <1>6, <2>2, <3>1 DEF Carries
    <3>3. /\ ~Out(flight[u].token)
          /\ \A g \in Handler : g # u => flight[g].token # flight[u].token
      BY <3>1 DEF Core, Unshared
    <3>4. ~Out(flight[u].token)'
      BY <1>3, <3>1, <3>3 DEF Out
    <3>5. flight'[t].token # flight[u].token
      BY <1>1, <3>2, IssuedLogin
    <3> QED
      BY <1>1, <3>1, <3>3, <3>4, <3>5
  <2> QED
    BY <2>1, <2>2
<1> QED
  BY <1>5, <1>7, <1>8, <1>9 DEF Core

LEMMA InitCore == Init => Core
<1> SUFFICES ASSUME Init PROVE Core
  OBVIOUS
<1>1. 1 \in Login /\ Issued = {1} /\ issued[1] = 1
  BY Assumptions DEF Init, Login, Issued
<1>2. server[1].current = 1
  BY <1>1 DEF Init, NewLogin
<1>3. \A t \in Tab : flight[t] = NoFlight
  BY Handlers DEF Init
<1> QED
  BY <1>1, <1>2, <1>3, NoFlightFields DEF Core, Remembered, Existing, Knows,
     ReplyCurrent, RejectedIsEnded, Unshared, Answered, None

LEMMA CallStepCore ==
  ASSUME Inv, Core, NEW t \in Tab, NEW s \in Slot, CallStep(t, s)
  PROVE Core'
<1>1. CASE ServeLogin(t, s)
  <2>1. CASE Served(t, s, "denied", None)
               /\ UNCHANGED <<browser, page, flight, service, losses>>
    <3>1. SetCall(t, s, Result(call[t][s], "denied", None))
      BY <2>1 DEF Served, Result
    <3>2. Result(call[t][s], "denied", None).token = None
      BY ServedCall
    <3> QED
      BY <2>1, <3>1, <3>2, CoreCall DEF browser, page, Out
  <2> QED
    BY <1>1, <2>1, LoginKinds, CoreCreated
<1> QED
  BY <1>1, CoreServeLogout, CoreAsksRefresh, CoreAccepted, CoreOtherCalls
  DEF CallStep

LEMMA HandlerStepCore ==
  ASSUME Inv, Core, NEW t \in Handler, HandlerStep(t)
  PROVE Core'
<1>1. CASE RefreshRace(t) \/ RefreshRefused(t)
  BY <1>1, CoreAnswers DEF RefreshRace, RefreshRefused
<1>2. CASE RefreshBreaks(t)
  BY <1>2, CoreAnswers DEF RefreshBreaks
<1> QED
  BY <1>1, <1>2, CoreRefreshRejected, CoreRefreshReuse, CoreRefreshFind,
     CoreRefreshSave
  DEF HandlerStep

LEMMA NextCore == Inv /\ Core /\ [Next]_vars => Core'
<1> SUFFICES ASSUME Inv, Core, [Next]_vars PROVE Core'
  OBVIOUS
<1>1. CASE UNCHANGED vars
  BY <1>1, NothingEnds, CoreStill DEF vars
<1>2. ASSUME NEW t \in Tab, NEW s \in Slot, UserActs(t, s) PROVE Core'
  BY <1>2, CoreReload, CoreLogout, CoreSend DEF UserActs
<1>3. ASSUME NEW t \in Tab, FlightStep(t) PROVE Core'
  BY <1>3, Handlers, HandlerStepCore, CoreRefreshReply, CoreSettle DEF FlightStep
<1>4. CASE Environment
  <2>1. CASE AccessLapses
    <3>1. OnlyEnding
      BY <2>1 DEF AccessLapses, OnlyEnding
    <3> QED
      BY <2>1, <3>1, CoreStill DEF AccessLapses
  <2>2. ASSUME NEW l \in Login, GraceEnds(l) PROVE Core'
    BY <2>2, GraceEndsOnly, CoreStill DEF GraceEnds
  <2>3. ASSUME NEW l \in Login, SessionEnds(l) PROVE Core'
    BY <2>3, SessionEndsOnly, CoreStill DEF SessionEnds
  <2> QED
    BY <1>4, <2>1, <2>2, <2>3, CoreAnswerLost DEF Environment
<1> QED
  BY <1>1, <1>2, <1>3, <1>4, Handlers, CallStepCore, HandlerStepCore DEF Next

-----------------------------------------------------------------------------
(* What makes a session dead.                                              *)
DeathsJustified ==
  \A t \in Tab : (~dead[t] /\ dead'[t]) =>
    \/ stored = None
    \/ /\ flight[t].phase = "answered"
       /\ flight[t].token # None
       /\ \/ ~server[issued[flight[t].token]].valid
          \/ flight[t].answer = "error"
          \/ issued[flight[t].token] \in forked

LEMMA SameDead == UNCHANGED dead => DeathsJustified
BY DEF DeathsJustified

LEMMA SettleRejectedJustified ==
  ASSUME Inv, Core, NEW t \in Tab, SettleRejected(t)
  PROVE DeathsJustified
<1>1. /\ Answered(t, "rejected") \/ Answered(t, "error")
      /\ dead' = [dead EXCEPT ![t] = TRUE]
  BY DEF SettleRejected, Definitive, Unauthorized
<1>2. flight[t].phase = "answered" /\ flight[t].token # None
  BY <1>1, Handlers, TokenOfFlight DEF Carries, Answered
<1>3. \/ ~server[issued[flight[t].token]].valid
      \/ flight[t].answer = "error"
      \/ issued[flight[t].token] \in forked
  BY <1>1 DEF Core, RejectedIsEnded, Answered
<1>4. \A u \in Tab : u # t => dead'[u] = dead[u]
  BY <1>1 DEF Inv, PageGood
<1> QED
  BY <1>2, <1>3, <1>4 DEF DeathsJustified

LEMMA OtherDeaths ==
  ASSUME Inv, NEW t \in Tab, NEW s \in Slot, NEW op,
         Send(t, s, op) \/ Reload(t, s) \/ GivesUp(t, s)
  PROVE DeathsJustified
<1>1. CASE GivesUp(t, s)
  BY <1>1 DEF GivesUp, DeathsJustified
<1>2. CASE Send(t, s, op)
  BY <1>2 DEF Send, Revived, DeathsJustified, Inv, PageGood
<1>3. CASE Reload(t, s)
  BY <1>3 DEF Reload, DeathsJustified, Inv, PageGood
<1> QED
  BY <1>1, <1>2, <1>3

LEMMA HandlerKeepsPage ==
  ASSUME NEW h, HandlerStep(h)
  PROVE UNCHANGED <<browser, page, call, losses>>
BY DEF HandlerStep, RefreshRejected, RefreshRace, RefreshReuse, RefreshFind,
       RefreshSave, RefreshBreaks, RefreshRefused

LEMMA NextDeaths == Inv /\ Core /\ [Next]_vars => DeathsJustified
<1> SUFFICES ASSUME Inv, Core, [Next]_vars PROVE DeathsJustified
  OBVIOUS
<1>1. ASSUME UNCHANGED page PROVE DeathsJustified
  BY <1>1, SameDead DEF page
<1>2. CASE UNCHANGED vars
  BY <1>1, <1>2 DEF vars
<1>3. ASSUME NEW t \in Tab, NEW s \in Slot, UserActs(t, s)
      PROVE  DeathsJustified
  <2>1. CASE Logout(t, s)
    BY <2>1, SameDead DEF Logout
  <2> QED
    BY <1>3, <2>1, OtherDeaths DEF UserActs
<1>4. ASSUME NEW t \in Tab, NEW s \in Slot, CallStep(t, s)
      PROVE  DeathsJustified
  <2>1. CASE GivesUp(t, s)
    BY <2>1, OtherDeaths
  <2>2. CASE Accepted(t, s) \/ DeniedFinally(t, s)
    BY <2>2, SameDead DEF Accepted, DeniedFinally
  <2>3. CASE \/ ServeProtected(t, s) \/ ServeLogin(t, s) \/ ServeLogout(t, s)
             \/ Fails(t, s) \/ AsksRefresh(t, s) \/ Resume(t, s)
    BY <1>1, <2>3 DEF ServeProtected, ServeLogin, ServeLogout, Fails,
                      AsksRefresh, Resume
  <2> QED
    BY <1>4, <2>1, <2>2, <2>3 DEF CallStep
<1>5. ASSUME NEW h \in Handler, HandlerStep(h) PROVE DeathsJustified
  BY <1>1, <1>5, HandlerKeepsPage
<1>6. ASSUME NEW t \in Tab, FlightStep(t) PROVE DeathsJustified
  <2>1. CASE SettleOk(t)
    <3>1. dead' = [dead EXCEPT ![t] = FALSE]
      BY <2>1 DEF SettleOk
    <3> QED
      BY <3>1 DEF DeathsJustified, Inv, PageGood
  <2>2. CASE SettleRejected(t)
    BY <2>2, SettleRejectedJustified
  <2>3. CASE \/ RefreshReply(t) \/ SettleRace(t) \/ SettleLimited(t)
             \/ SettleFailed(t)
    BY <1>1, <2>3 DEF RefreshReply, SettleRace, SettleLimited, SettleFailed
  <2> QED
    BY <1>5, <1>6, <2>1, <2>2, <2>3, Handlers DEF FlightStep
<1>7. CASE Environment
  BY <1>1, <1>7 DEF Environment, AccessLapses, GraceEnds, SessionEnds, AnswerLost
<1> QED
  BY <1>2, <1>3, <1>4, <1>5, <1>6, <1>7, Handlers DEF Next

(* With any number of tabs, whatever the server, the network and the calls *)
(* of the tabs do: a tab declares its session dead only when nothing is    *)
(* stored, when the session whose refresh was refused is not valid any     *)
(* more, when an error ended the handler, or when two rotations of the     *)
(* session overlapped.                                                     *)
THEOREM UnauthorizedIsDefinitiveProved == Spec => UnauthorizedIsDefinitive
<1>1. Spec => []Core
  BY NextCore, InvHolds, InitCore, PTL DEF Spec
<1>2. Inv /\ Core /\ [Next]_vars => [DeathsJustified]_vars
  BY NextDeaths
<1>3. Spec => [][DeathsJustified]_vars
  BY <1>1, <1>2, InvHolds, PTL DEF Spec
<1> QED
  BY <1>3 DEF UnauthorizedIsDefinitive, DeathsJustified

-----------------------------------------------------------------------------
(* One tab: no user without a stored token.                                *)
OneTab == \A t, u \in Tab : t = u

SignedOut == stored = None => \A t \in Tab : user[t] = None

LEMMA NextSignedOut == OneTab /\ Inv /\ SignedOut /\ [Next]_vars => SignedOut'
<1> SUFFICES ASSUME OneTab, Inv, SignedOut, [Next]_vars PROVE SignedOut'
  OBVIOUS
<1>1. ASSUME UNCHANGED <<browser, page>> PROVE SignedOut'
  BY <1>1 DEF browser, page, SignedOut
<1>2. CASE UNCHANGED vars
  BY <1>1, <1>2 DEF vars
<1>3. ASSUME NEW t \in Tab PROVE \A u \in Tab : u = t
  BY DEF OneTab
<1>4. ASSUME NEW t \in Tab, NEW v, stored' = v, user' = [user EXCEPT ![t] = v]
      PROVE  SignedOut'
  BY <1>3, <1>4 DEF SignedOut, Inv, PageGood
<1>5. ASSUME NEW t \in Tab, NEW s \in Slot, UserActs(t, s) PROVE SignedOut'
  <2>1. CASE Reload(t, s)
    BY <1>4, <2>1 DEF Reload, browser
  <2>2. CASE Logout(t, s)
    BY <1>4, <2>2 DEF Logout
  <2>3. CASE \E op \in Op : Send(t, s, op)
    BY <2>3 DEF Send, browser, SignedOut
  <2> QED
    BY <1>5, <2>1, <2>2, <2>3 DEF UserActs
<1>6. ASSUME NEW t \in Tab, NEW s \in Slot, CallStep(t, s) PROVE SignedOut'
  <2>1. CASE Accepted(t, s)
    <3>1. \/ UNCHANGED <<user, stored>>
          \/ \E v : stored' = v /\ user' = [user EXCEPT ![t] = v]
      BY <2>1 DEF Accepted
    <3>2. CASE UNCHANGED <<user, stored>>
      BY <3>2 DEF SignedOut
    <3> QED
      BY <1>4, <3>1, <3>2
  <2>2. CASE DeniedFinally(t, s)
    <3>1. CASE UNCHANGED <<user, stored>>
      BY <3>1 DEF SignedOut
    <3> QED
      BY <1>4, <2>2, <3>1 DEF DeniedFinally
  <2>3. CASE GivesUp(t, s)
    BY <1>4, <2>3 DEF GivesUp, Unauthorized
  <2>4. CASE \/ ServeProtected(t, s) \/ ServeLogin(t, s) \/ ServeLogout(t, s)
             \/ Fails(t, s) \/ AsksRefresh(t, s) \/ Resume(t, s)
    BY <1>1, <2>4 DEF ServeProtected, ServeLogin, ServeLogout, Fails,
                      AsksRefresh, Resume
  <2> QED
    BY <1>6, <2>1, <2>2, <2>3, <2>4 DEF CallStep
<1>7. ASSUME NEW h, HandlerStep(h) PROVE SignedOut'
  BY <1>1, <1>7, HandlerKeepsPage
<1>8. ASSUME NEW t \in Tab, FlightStep(t) PROVE SignedOut'
  <2>1. CASE SettleOk(t)
    <3>1. flight[t].token # None
      BY <2>1, Handlers, TokenOfFlight DEF SettleOk, Answered, Carries
    <3>2. stored' = None => stored = None
      BY <2>1, <3>1 DEF SettleOk
    <3> QED
      BY <2>1, <3>2 DEF SettleOk, SignedOut
  <2>2. CASE SettleRejected(t)
    BY <1>4, <2>2 DEF SettleRejected, Unauthorized
  <2>3. CASE \/ RefreshReply(t) \/ SettleRace(t) \/ SettleLimited(t)
             \/ SettleFailed(t)
    BY <1>1, <2>3 DEF RefreshReply, SettleRace, SettleLimited, SettleFailed
  <2> QED
    BY <1>7, <1>8, <2>1, <2>2, <2>3 DEF FlightStep
<1>9. CASE Environment
  BY <1>1, <1>9 DEF Environment, AccessLapses, GraceEnds, SessionEnds, AnswerLost
<1> QED
  BY <1>2, <1>5, <1>6, <1>7, <1>8, <1>9 DEF Next

-----------------------------------------------------------------------------
(* One tab: no answer lost.                                                *)
(* The refresh has saved, and the browser is to take its token; or an      *)
(* error ended its handler, and the browser is to drop what it keeps.      *)
Replacing(f) == f.phase = "reply" \/ (f.phase = "answered" /\ f.answer = "ok")

Broken(f) == f.phase = "answered" /\ f.answer = "error"

(* The refresh is the only one, so the token it has found current is       *)
(* current until it is replaced by that refresh.                           *)
FlightCurrent ==
  \A t \in Tab :
    (flight[t].phase = "saving" \/ Replacing(flight[t])) => Current(flight[t].token)

(* What the browser sends is current, and what it keeps is current, about  *)
(* to be replaced, or about to be dropped.                                 *)
SentCurrent ==
  \A t \in Tab : flight[t].phase = "sent" => Current(flight[t].token)

Kept(x) == x # None /\ (x = cookie \/ x = stored)

KeptCurrent ==
  \A x : Kept(x) =>
    \/ Current(x)
    \/ \E t \in Tab : Replacing(flight[t]) /\ issued[flight[t].token] = issued[x]
    \/ \E t \in Tab : Broken(flight[t])

(* A login that is answered but not taken yet: nobody else has its session.*)
Pending(c) == c.phase = "ok" /\ c.op = "login"

Apart(k, u, q) ==
  /\ k # None
  /\ Current(k)
  /\ \A x : Kept(x) => issued[x] # issued[k]
  /\ \A t \in Tab : Carries(flight[t]) => issued[flight[t].token] # issued[k]
  /\ \A v \in Tab : \A r \in Slot :
       Pending(call[v][r]) /\ ~(v = u /\ r = q) =>
         issued[call[v][r].token] # issued[k]

PendingApart ==
  \A u \in Tab : \A q \in Slot :
    Pending(call[u][q]) => Apart(call[u][q].token, u, q)

Undisturbed ==
  /\ SentCurrent
  /\ FlightCurrent
  /\ KeptCurrent
  /\ PendingApart
  /\ forked = {}
  /\ ~alarm

(* The calls answered to a login stay, and no other comes.                 *)
NoNewPending ==
  \A u \in Tab : \A q \in Slot :
    Pending(call'[u][q]) => call'[u][q] = call[u][q]

(* Nothing new is stored.                                                  *)
KeepsLess == cookie' \in {cookie, None} /\ stored' \in {stored, None}

(* A refresh goes on with the token it has, or begins with a current one   *)
(* that is kept; one that is replacing its token goes on to do so or       *)
(* breaks.                                                                 *)
GoesOn(t) ==
  /\ Carries(flight'[t]) =>
       \/ Carries(flight[t]) /\ flight'[t].token = flight[t].token
       \/ Kept(flight'[t].token)
  /\ Replacing(flight[t]) =>
       \/ Replacing(flight'[t]) /\ flight'[t].token = flight[t].token
       \/ Broken(flight'[t])
  /\ Broken(flight[t]) => Broken(flight'[t])
  /\ flight'[t].phase \in {"sent", "saving"} \/ Replacing(flight'[t]) =>
       flight'[t] = flight[t]
         \/ (flight'[t].token \in Issued /\ Current(flight'[t].token))

LEMMA KeptIssued ==
  ASSUME Inv, NEW x, Kept(x)
  PROVE x \in Issued /\ issued[x] \in Login
BY Tokens DEF Kept, Inv, PageGood

LEMMA CurrentStays ==
  ASSUME Inv, OnlyEnding, NEW a \in Issued, Current(a)
  PROVE Current(a)'
BY IssuedLogin DEF OnlyEnding, Current

LEMMA PendingToken ==
  ASSUME Inv, NEW u \in Tab, NEW q \in Slot, call[u][q].token # None
  PROVE call[u][q].token \in Issued
BY Tokens DEF Inv, CallsGood, GoodCall

LEMMA UndisturbedKept ==
  ASSUME Inv, Undisturbed, OnlyEnding, NoNewPending, KeepsLess, alarm' = alarm,
         \A t \in Tab : GoesOn(t)
  PROVE Undisturbed'
<1>0. ASSUME NEW t \in Tab,
             flight'[t].phase \in {"sent", "saving"} \/ Replacing(flight'[t])
      PROVE  server'[issued'[flight'[t].token]].current = flight'[t].token
  <2>1. CASE flight'[t] = flight[t]
    <3>1. Carries(flight[t]) /\ Current(flight[t].token)
      BY <1>0, <2>1
      DEF Undisturbed, SentCurrent, FlightCurrent, Carries, Replacing
    <3>2. issued[flight[t].token] \in Login
      BY <3>1, Handlers, TokenOfFlight
    <3> QED
      BY <2>1, <3>1, <3>2 DEF OnlyEnding, Current
  <2>2. CASE flight'[t].token \in Issued /\ Current(flight'[t].token)
    BY <2>2, IssuedLogin DEF OnlyEnding, Current
  <2> QED
    BY <1>0, <2>1, <2>2 DEF GoesOn
<1>1. SentCurrent' /\ FlightCurrent'
  BY <1>0 DEF SentCurrent, FlightCurrent, Current
<1>2. \A x : Kept(x)' => Kept(x)
  BY DEF Kept, KeepsLess
<1>3. issued' = issued
  BY DEF OnlyEnding
<1>4. KeptCurrent'
  <2> SUFFICES ASSUME NEW x, Kept(x)'
               PROVE \/ Current(x)'
                     \/ \E t \in Tab : /\ Replacing(flight'[t])
                                       /\ issued'[flight'[t].token] = issued'[x]
                     \/ \E t \in Tab : Broken(flight'[t])
    BY DEF KeptCurrent
  <2>1. Kept(x) /\ x \in Issued
    BY <1>2, KeptIssued
  <2>2. CASE Current(x)
    BY <2>1, <2>2, CurrentStays
  <2>3. ASSUME NEW t \in Tab, Replacing(flight[t]),
               issued[flight[t].token] = issued[x]
        PROVE  \/ Replacing(flight'[t]) /\ issued'[flight'[t].token] = issued'[x]
               \/ Broken(flight'[t])
    BY <1>3, <2>3 DEF GoesOn
  <2>4. ASSUME NEW t \in Tab, Broken(flight[t]) PROVE Broken(flight'[t])
    BY <2>4 DEF GoesOn
  <2> QED
    BY <2>1, <2>2, <2>3, <2>4 DEF Undisturbed, KeptCurrent
<1>5. PendingApart'
  <2> SUFFICES ASSUME NEW u \in Tab, NEW q \in Slot, Pending(call'[u][q])
               PROVE  Apart(call[u][q].token, u, q)'
    BY DEF PendingApart
  <2>1. Pending(call[u][q]) /\ call'[u][q] = call[u][q]
    BY DEF NoNewPending
  <2>2. PICK k : k = call[u][q].token
    OBVIOUS
  <2>3. k = call'[u][q].token
    BY <2>1, <2>2
  <2>4. Apart(k, u, q)
    BY <2>1, <2>2 DEF Undisturbed, PendingApart
  <2>5. k # None /\ k \in Issued
    BY <2>2, <2>4, PendingToken DEF Apart
  <2>6. Current(k)'
    BY <2>4, <2>5, CurrentStays DEF Apart
  <2>7. \A x : Kept(x)' => issued'[x] # issued'[k]
    BY <1>2, <1>3, <2>4 DEF Apart
  <2>8. \A t \in Tab : Carries(flight'[t]) => issued'[flight'[t].token] # issued'[k]
    BY <1>3, <2>4 DEF Apart, GoesOn
  <2>9. \A v \in Tab : \A r \in Slot :
          Pending(call'[v][r]) /\ ~(v = u /\ r = q) =>
            issued'[call'[v][r].token] # issued'[k]
    BY <1>3, <2>4 DEF Apart, NoNewPending
  <2> QED
    BY <2>3, <2>5, <2>6, <2>7, <2>8, <2>9 DEF Apart
<1> QED
  BY <1>1, <1>4, <1>5 DEF Undisturbed, OnlyEnding

LEMMA CallPending ==
  ASSUME Inv, NEW t \in Tab, NEW s \in Slot, NEW c, SetCall(t, s, c), ~Pending(c)
  PROVE NoNewPending
BY CallChange DEF NoNewPending

LEMMA UndisturbedStill ==
  ASSUME Inv, Undisturbed, OnlyEnding, NoNewPending, KeepsLess, alarm' = alarm,
         UNCHANGED flight
  PROVE Undisturbed'
BY UndisturbedKept DEF GoesOn, Carries

(* A call step that leaves everything but the page and the call alone.     *)
LEMMA UndisturbedCall ==
  ASSUME Inv, Undisturbed, NEW t \in Tab, NEW s \in Slot, NEW c,
         SetCall(t, s, c), ~Pending(c), KeepsLess, UNCHANGED <<flight, service>>
  PROVE Undisturbed'
BY CallPending, NothingEnds, UndisturbedStill DEF service

LEMMA NoCallNotPending == ~Pending(NoCall)
BY NoCallFields DEF Pending

LEMMA UndisturbedSend ==
  ASSUME Inv, Undisturbed, NEW t \in Tab, NEW s \in Slot, NEW op, Send(t, s, op)
  PROVE Undisturbed'
<1>1. NewCall(t, op).phase = "sent"
  BY DEF NewCall, NoCall
<1> QED
  BY <1>1, UndisturbedCall DEF Send, browser, KeepsLess, Pending

LEMMA UndisturbedLogout ==
  ASSUME Inv, Undisturbed, NEW t \in Tab, NEW s \in Slot, Logout(t, s)
  PROVE Undisturbed'
<1> DEFINE c == [NoCall EXCEPT !.phase = "sent", !.op = "logout", !.token = cookie]
<1>1. c.phase = "sent"
  BY DEF NoCall
<1>2. KeepsLess /\ UNCHANGED <<flight, service>>
  BY DEF Logout, KeepsLess
<1>3. SetCall(t, s, c) \/ UNCHANGED call
  BY DEF Logout
<1> HIDE DEF c
<1>4. CASE SetCall(t, s, c)
  BY <1>1, <1>2, <1>4, UndisturbedCall DEF Pending
<1>5. CASE UNCHANGED call
  BY <1>2, <1>5, NothingEnds, UndisturbedStill DEF NoNewPending, service
<1> QED
  BY <1>3, <1>4, <1>5

LEMMA UndisturbedServeLogout ==
  ASSUME Inv, Undisturbed, NEW t \in Tab, NEW s \in Slot, ServeLogout(t, s)
  PROVE Undisturbed'
<1>1. OnlyEnding
  BY LogoutOnlyEnds
<1>2. SetCall(t, s, Result(call[t][s], "ok", None))
  BY DEF ServeLogout, Served, Result
<1>3. Result(call[t][s], "ok", None).op = "logout"
  BY ServedCall DEF ServeLogout
<1>4. NoNewPending
  BY <1>2, <1>3, CallPending DEF Pending
<1> QED
  BY <1>1, <1>4, UndisturbedStill DEF ServeLogout, browser, KeepsLess

LEMMA UndisturbedServeProtected ==
  ASSUME Inv, Undisturbed, NEW t \in Tab, NEW s \in Slot, ServeProtected(t, s)
  PROVE Undisturbed'
<1>1. UNCHANGED <<flight, service>> /\ KeepsLess
  BY DEF ServeProtected, browser, KeepsLess
<1>2. call[t][s].op # "login"
  BY DEF ServeProtected
<1>3. ASSUME NEW p \in {"ok", "denied"}, Served(t, s, p, None)
      PROVE  Undisturbed'
  <2>1. SetCall(t, s, Result(call[t][s], p, None))
    BY <1>3 DEF Served, Result
  <2>2. Result(call[t][s], p, None).op # "login"
    BY <1>2, ServedCall
  <2> QED
    BY <1>1, <2>1, <2>2, UndisturbedCall DEF Pending
<1>4. CASE SetCall(t, s, NoCall)
  BY <1>1, <1>4, NoCallNotPending, UndisturbedCall
<1>5. \/ Served(t, s, "denied", None)
      \/ Served(t, s, "ok", None)
      \/ SetCall(t, s, NoCall)
  BY DEF ServeProtected
<1> QED
  BY <1>3, <1>4, <1>5

(* What the browser keeps is replaced by a current token, or dropped.      *)
LEMMA UndisturbedReplaced ==
  ASSUME Inv, Undisturbed, UNCHANGED service,
         \A x : Kept(x)' => x \in Issued /\ Current(x), NoNewPending,
         \A t \in Tab : flight'[t] = flight[t] \/ flight'[t] = NoFlight,
         \A x : Kept(x)' => \A u \in Tab : \A q \in Slot :
           Pending(call'[u][q]) => issued[call[u][q].token] # issued[x]
  PROVE Undisturbed'
<1>0. UNCHANGED <<server, issued, alarm, forked>>
  BY DEF service
<1>1. SentCurrent' /\ FlightCurrent'
  BY <1>0, NoFlightFields DEF Undisturbed, SentCurrent, FlightCurrent, Current, Replacing
<1>2. KeptCurrent'
  BY <1>0 DEF KeptCurrent, Current
<1>3. PendingApart'
  <2> SUFFICES ASSUME NEW u \in Tab, NEW q \in Slot, Pending(call'[u][q])
               PROVE  Apart(call[u][q].token, u, q)'
    BY DEF PendingApart
  <2>1. Pending(call[u][q]) /\ call'[u][q] = call[u][q]
    BY DEF NoNewPending
  <2>2. PICK a : a = call[u][q].token
    OBVIOUS
  <2>3. a = call'[u][q].token /\ \A x : Kept(x)' => issued'[x] # issued'[a]
    BY <1>0, <2>1, <2>2
  <2>4. Apart(a, u, q)
    BY <2>1, <2>2 DEF Undisturbed, PendingApart
  <2>5. \A v \in Tab : \A r \in Slot :
          Pending(call'[v][r]) /\ ~(v = u /\ r = q) =>
            issued'[call'[v][r].token] # issued'[a]
    BY <1>0, <2>4 DEF Apart, NoNewPending
  <2>6. \A t \in Tab : Carries(flight'[t]) => issued'[flight'[t].token] # issued'[a]
    BY <1>0, <2>4, NoFlightFields DEF Apart, Carries
  <2> QED
    BY <1>0, <2>3, <2>4, <2>5, <2>6 DEF Apart, Current
<1> QED
  BY <1>0, <1>1, <1>2, <1>3 DEF Undisturbed

(* A login is taken.                                                       *)
LEMMA UndisturbedLogin ==
  ASSUME Inv, Undisturbed, NEW t \in Tab, NEW s \in Slot, Accepted(t, s),
         call[t][s].op = "login"
  PROVE Undisturbed'
<1>1. Pending(call[t][s])
  BY DEF Accepted, Pending
<1>2. PICK k : k = call[t][s].token
  OBVIOUS
<1>3. Apart(k, t, s)
  BY <1>1, <1>2 DEF Undisturbed, PendingApart
<1>4. k \in Issued /\ Current(k)
  BY <1>2, <1>3, PendingToken DEF Apart
<1>5. stored' = k /\ cookie' \in {k, None}
  BY <1>2 DEF Accepted, SetCookie
<1>6. \A x : Kept(x)' => x = k
  BY <1>5 DEF Kept
<1>7. \A u \in Tab : \A q \in Slot :
        call'[u][q] = IF u = t /\ q = s THEN NoCall ELSE call[u][q]
  BY CallChange DEF Accepted
<1>8. \A u \in Tab : \A q \in Slot : Pending(call'[u][q]) =>
        issued[call[u][q].token] # issued[k]
  BY <1>3, <1>7, NoCallNotPending DEF Apart
<1>9. NoNewPending
  BY CallPending, NoCallNotPending DEF Accepted
<1>10. UNCHANGED <<flight, service>>
  BY DEF Accepted
<1> QED
  BY <1>4, <1>6, <1>8, <1>9, <1>10, UndisturbedReplaced

LEMMA UndisturbedAccepted ==
  ASSUME Inv, SignedOut, Undisturbed, NEW t \in Tab, NEW s \in Slot, Accepted(t, s)
  PROVE Undisturbed'
<1>1. CASE call[t][s].op = "login"
  BY <1>1, UndisturbedLogin
<1>2. CASE call[t][s].op # "login"
  <2>1. user[t] # None => Latest(t) = stored
    BY DEF Latest, SignedOut
  <2>2. stored' = stored
    BY <1>2, <2>1 DEF Accepted
  <2>3. cookie' \in {cookie, None}
    BY <1>2 DEF Accepted, SetCookie
  <2> QED
    BY <2>2, <2>3, NoCallNotPending, UndisturbedCall DEF Accepted, KeepsLess
<1> QED
  BY <1>1, <1>2

LEMMA UndisturbedCreated ==
  ASSUME Inv, Core, Undisturbed, NEW t \in Tab, NEW s \in Slot, NEW l \in Login,
         Created(t, s, l)
  PROVE Undisturbed'
<1>0. PICK n : n = Len(issued) + 1
  OBVIOUS
<1> DEFINE d == Result(call[t][s], "ok", n)
<1>1. /\ n \in Token /\ n # None
      /\ issued'[n] = l
      /\ \A a \in Issued : issued'[a] = issued[a]
      /\ server'[l].current = n
      /\ \A k \in Login : k # l => server'[k] = server[k]
  BY <1>0, CreatedFacts
<1>2. \A a \in Issued : /\ server'[issued'[a]] = server[issued[a]]
                        /\ issued'[a] = issued[a]
                        /\ issued[a] # l
  BY <1>1, FreshLogin, IssuedLogin DEF Created
<1>3. UNCHANGED <<cookie, stored, flight, alarm, forked>>
  BY DEF Created, browser
<1>4. SetCall(t, s, d)
  BY <1>0 DEF Created, Served, Result
<1>5. d.token = n
  BY <1>1, ServedCall
<1> HIDE DEF d
<1>6. \A u \in Tab : \A q \in Slot :
        call'[u][q] = IF u = t /\ q = s THEN d ELSE call[u][q]
  BY <1>4, CallChange
<1>7. \A x : Kept(x)' => Kept(x) /\ x \in Issued
  BY <1>3, KeptIssued DEF Kept
<1>8. \A u \in Tab : Carries(flight[u]) => flight[u].token \in Issued
  BY Handlers, TokenOfFlight
<1>9. SentCurrent' /\ FlightCurrent'
  BY <1>2, <1>3, <1>8
  DEF Undisturbed, SentCurrent, FlightCurrent, Replacing, Current, Carries
<1>10. KeptCurrent'
  <2>1. \A u \in Tab : Replacing(flight[u]) => Carries(flight[u])
    BY DEF Replacing, Carries
  <2> QED
    BY <1>2, <1>3, <1>7, <1>8, <2>1 DEF Undisturbed, KeptCurrent, Current
<1>11. \A u \in Tab : \A q \in Slot :
         Pending(call[u][q]) => Apart(call[u][q].token, u, q)
                                  /\ call[u][q].token \in Issued
  BY PendingToken DEF Undisturbed, PendingApart, Apart
<1>12. Apart(n, t, s)'
  <2>1. Current(n)'
    BY <1>1 DEF Current
  <2>2. \A v \in Tab : \A r \in Slot :
          Pending(call'[v][r]) /\ ~(v = t /\ r = s) =>
            issued'[call'[v][r].token] # issued'[n]
    BY <1>1, <1>2, <1>6, <1>11
  <2>3. \A x : Kept(x)' => issued'[x] # issued'[n]
    BY <1>1, <1>2, <1>7
  <2>4. \A v \in Tab : Carries(flight'[v]) => issued'[flight'[v].token] # issued'[n]
    BY <1>1, <1>2, <1>3, <1>8
  <2> QED
    BY <1>1, <2>1, <2>2, <2>3, <2>4 DEF Apart
<1>13. ASSUME NEW u \in Tab, NEW q \in Slot, ~(u = t /\ q = s),
              Pending(call'[u][q])
       PROVE  Apart(call[u][q].token, u, q)' /\ call'[u][q] = call[u][q]
  <2>1. call'[u][q] = call[u][q] /\ Pending(call[u][q])
    BY <1>6, <1>13
  <2>2. PICK k : k = call[u][q].token
    OBVIOUS
  <2>3. k = call'[u][q].token /\ k \in Issued /\ Apart(k, u, q) /\ k # None
    BY <1>11, <2>1, <2>2 DEF Apart
  <2>4. Current(k)'
    BY <1>2, <2>3 DEF Apart, Current
  <2>5. \A x : Kept(x)' => issued'[x] # issued'[k]
    BY <1>2, <1>7, <2>3 DEF Apart
  <2>6. \A v \in Tab : Carries(flight'[v]) => issued'[flight'[v].token] # issued'[k]
    BY <1>2, <1>3, <1>8, <2>3 DEF Apart
  <2>7. \A v \in Tab : \A r \in Slot :
          Pending(call'[v][r]) /\ ~(v = u /\ r = q) =>
            issued'[call'[v][r].token] # issued'[k]
    <3> SUFFICES ASSUME NEW v \in Tab, NEW r \in Slot, Pending(call'[v][r]),
                        ~(v = u /\ r = q)
                 PROVE  issued'[call'[v][r].token] # issued'[k]
      OBVIOUS
    <3>1. CASE v = t /\ r = s
      BY <1>1, <1>2, <1>5, <1>6, <2>3, <3>1
    <3>2. CASE ~(v = t /\ r = s)
      BY <1>2, <1>6, <1>11, <2>3, <3>2 DEF Apart
    <3> QED
      BY <3>1, <3>2
  <2> QED
    BY <2>1, <2>3, <2>4, <2>5, <2>6, <2>7 DEF Apart
<1>14. PendingApart'
  BY <1>5, <1>6, <1>12, <1>13 DEF PendingApart
<1> QED
  BY <1>3, <1>9, <1>10, <1>14 DEF Undisturbed

(* Steps of a refresh that leave the calls and the sessions alone.         *)
LEMMA UndisturbedFlight ==
  ASSUME Inv, Undisturbed, NEW t \in Tab, NEW f,
         flight' = [flight EXCEPT ![t] = f],
         UNCHANGED <<browser, call, service>>,
         f.phase # "sent",
         Replacing(flight[t]) =>
           (Replacing(f) /\ f.token = flight[t].token) \/ Broken(f),
         ~Broken(flight[t]),
         f.phase = "saving" \/ Replacing(f) =>
           f.token \in Issued /\ Current(f.token),
         Carries(f) => Carries(flight[t]) /\ f.token = flight[t].token
  PROVE Undisturbed'
<1>1. \A u \in Tab : flight'[u] = IF u = t THEN f ELSE flight[u]
  BY Handlers DEF Inv, FlightsGood
<1>2. \A u \in Tab : GoesOn(u)
  BY <1>1 DEF GoesOn
<1> QED
  BY <1>2, NothingEnds, UndisturbedKept DEF NoNewPending, KeepsLess, browser, service

LEMMA UndisturbedAnswer ==
  ASSUME Inv, Undisturbed, NEW t \in Tab, NEW a, NEW k, Answers(t, a, k),
         UNCHANGED <<browser, call, service>>,
         flight[t].phase = "sent" \/ (a = "error" /\ flight[t].phase \in {"saving", "reply"}),
         a # "ok", a \in {"rejected", "error"} => k = flight[t].token
  PROVE Undisturbed'
<1> DEFINE f == [phase |-> "answered", token |-> k, answer |-> a]
<1>1. f.phase = "answered" /\ f.answer = a /\ f.token = k
  OBVIOUS
<1>2. flight' = [flight EXCEPT ![t] = f]
  BY DEF Answers
<1> HIDE DEF f
<1> QED
  BY <1>1, <1>2, UndisturbedFlight DEF Carries, Replacing, Broken

LEMMA UndisturbedReply ==
  ASSUME Inv, Core, Undisturbed, NEW t \in Tab, RefreshReply(t)
  PROVE Undisturbed'
<1>1. PICK k : k = flight[t].token
  OBVIOUS
<1>2. flight[t].phase = "reply" /\ Carries(flight[t])
  BY DEF RefreshReply, Carries
<1>3. k \in Issued /\ issued[k] \in Login
  BY <1>1, <1>2, Handlers, TokenOfFlight
<1>4. Current(k)
  BY <1>1, <1>2 DEF Undisturbed, FlightCurrent, Replacing
<1> DEFINE f == [phase |-> "answered", token |-> k, answer |-> "ok"]
<1>5. f.phase = "answered" /\ f.token = k /\ f.answer = "ok"
  OBVIOUS
<1>6. Answers(t, "ok", k)
  BY <1>1, <1>3, <1>4 DEF RefreshReply, Current
<1>7. flight' = [flight EXCEPT ![t] = f]
  BY <1>6 DEF Answers
<1> HIDE DEF f
<1> QED
  BY <1>1, <1>2, <1>3, <1>4, <1>5, <1>7, UndisturbedFlight
  DEF RefreshReply, Carries, Replacing, Broken

LEMMA UndisturbedFind ==
  ASSUME Inv, Undisturbed, NEW t \in Tab, RefreshFind(t)
  PROVE Undisturbed'
<1>1. PICK f : /\ f.phase = "saving" /\ f.token = flight[t].token
               /\ flight' = [flight EXCEPT ![t] = f]
  BY Handlers, FoundFlight
<1>2. flight[t].phase = "sent" /\ Carries(flight[t])
  BY DEF RefreshFind, Carries
<1>3. flight[t].token \in Issued /\ Current(flight[t].token)
  BY <1>2, Handlers, TokenOfFlight DEF Undisturbed, SentCurrent
<1> QED
  BY <1>1, <1>2, <1>3, UndisturbedFlight DEF RefreshFind, Carries, Replacing, Broken

LEMMA UndisturbedAsksRefresh ==
  ASSUME OneTab, Inv, Undisturbed, NEW t \in Tab, NEW s \in Slot,
         AsksRefresh(t, s)
  PROVE Undisturbed'
<1>1. PICK k : k = TokenSent
  OBVIOUS
<1> DEFINE f == [phase |-> "sent", token |-> k, answer |-> "none"]
<1>2. NoNewPending
  <2>1. Waiting(call[t][s]).phase = "waiting"
    BY WaitingCall DEF Inv, CallsGood
  <2> QED
    BY <2>1, CallPending DEF AsksRefresh, Pending
<1>3. KeepsLess /\ OnlyEnding /\ alarm' = alarm
  BY NothingEnds DEF AsksRefresh, browser, service, KeepsLess
<1>4. CASE flight[t].phase # "none"
  BY <1>2, <1>3, <1>4, UndisturbedStill DEF AsksRefresh
<1>5. CASE flight[t].phase = "none"
  <2>1. flight' = [flight EXCEPT ![t] = f] /\ stored # None
    BY <1>1, <1>5 DEF AsksRefresh
  <2>2. Kept(k) /\ k \in Issued
    BY <1>1, <2>1, KeptIssued DEF TokenSent, Kept
  <2>3. \A u \in Tab : ~Replacing(flight[u]) /\ ~Broken(flight[u])
    BY <1>5 DEF OneTab, Replacing, Broken
  <2>4. Current(k)
    BY <2>2, <2>3 DEF Undisturbed, KeptCurrent
  <2>5. f.phase = "sent" /\ f.token = k
    OBVIOUS
  <2> HIDE DEF f
  <2>6. \A u \in Tab : flight'[u] = IF u = t THEN f ELSE flight[u]
    BY <2>1, Handlers DEF Inv, FlightsGood
  <2>7. \A u \in Tab : GoesOn(u)
    BY <2>2, <2>3, <2>4, <2>5, <2>6 DEF GoesOn, Carries
  <2> QED
    BY <1>2, <1>3, <2>7, UndisturbedKept
<1> QED
  BY <1>4, <1>5

LEMMA UndisturbedSave ==
  ASSUME OneTab, Inv, Core, Undisturbed, NEW t \in Tab, RefreshSave(t)
  PROVE Undisturbed'
<1>0. PICK old, l, n : /\ old = flight[t].token
                       /\ l = issued[old]
                       /\ n = Len(issued) + 1
  OBVIOUS
<1>1. /\ old \in Issued /\ l \in Login
      /\ issued'[n] = l
      /\ \A a \in Issued : issued'[a] = issued[a]
      /\ \A k \in Login : k # l => server'[k] = server[k]
      /\ server'[l].current = n
      /\ flight'[t].phase = "reply" /\ flight'[t].token = n
      /\ server[l].current = old => forked' = forked
  BY <1>0, Handlers, SavedFacts
<1>2. \A u \in Tab : u = t
  BY DEF OneTab
<1>3. UNCHANGED <<cookie, stored, call, alarm>>
  BY DEF RefreshSave, browser
<1>4. /\ Carries(flight[t]) /\ ~Replacing(flight[t]) /\ ~Broken(flight[t])
      /\ flight[t].phase = "saving"
  BY DEF RefreshSave, Carries, Replacing, Broken
<1>5. SentCurrent' /\ FlightCurrent'
  BY <1>1, <1>2 DEF SentCurrent, FlightCurrent, Current
<1>8. forked' = {}
  BY <1>0, <1>1, <1>4 DEF Undisturbed, FlightCurrent, Current
<1>6. KeptCurrent'
  <2> SUFFICES ASSUME NEW x, Kept(x)'
               PROVE \/ Current(x)'
                     \/ \E u \in Tab : /\ Replacing(flight'[u])
                                       /\ issued'[flight'[u].token] = issued'[x]
                     \/ \E u \in Tab : Broken(flight'[u])
    BY DEF KeptCurrent
  <2>1. Kept(x) /\ x \in Issued /\ issued[x] \in Login
    BY <1>3, KeptIssued DEF Kept
  <2>2. CASE issued[x] = l
    BY <1>1, <2>1, <2>2 DEF Replacing
  <2>3. CASE issued[x] # l
    <3>1. Current(x)
      BY <1>2, <1>4, <2>1 DEF Undisturbed, KeptCurrent
    <3> QED
      BY <1>1, <2>1, <2>3, <3>1 DEF Current
  <2> QED
    BY <2>2, <2>3
<1>7. PendingApart'
  <2> SUFFICES ASSUME NEW u \in Tab, NEW q \in Slot, Pending(call[u][q])
               PROVE  Apart(call[u][q].token, u, q)'
    BY <1>3 DEF PendingApart
  <2>1. PICK k : k = call[u][q].token
    OBVIOUS
  <2>2. k = call'[u][q].token /\ Apart(k, u, q)
    BY <1>3, <2>1 DEF Undisturbed, PendingApart
  <2>3. k # None /\ k \in Issued /\ issued[k] \in Login /\ issued[k] # l
    BY <1>0, <1>4, <2>1, <2>2, PendingToken, IssuedLogin DEF Apart
  <2>4. Current(k)'
    BY <1>1, <2>2, <2>3 DEF Apart, Current
  <2>5. \A x : Kept(x)' => issued'[x] # issued'[k]
    BY <1>1, <1>3, <2>2, <2>3, KeptIssued DEF Apart, Kept
  <2>6. \A v \in Tab : Carries(flight'[v]) => issued'[flight'[v].token] # issued'[k]
    BY <1>1, <1>2, <2>3
  <2>7. \A v \in Tab : \A r \in Slot :
          Pending(call'[v][r]) /\ ~(v = u /\ r = q) =>
            issued'[call'[v][r].token] # issued'[k]
    <3>1. \A v \in Tab : \A r \in Slot :
            Pending(call[v][r]) => call[v][r].token \in Issued
      BY PendingToken DEF Undisturbed, PendingApart, Apart
    <3> QED
      BY <1>1, <1>3, <2>2, <2>3, <3>1 DEF Apart
  <2> QED
    BY <2>2, <2>3, <2>4, <2>5, <2>6, <2>7 DEF Apart
<1> QED
  BY <1>3, <1>5, <1>6, <1>7, <1>8 DEF Undisturbed

(* A replaced token is not current, so nobody presents one.                *)
LEMMA NoReuse ==
  ASSUME Inv, Undisturbed, NEW t \in Tab, RefreshReuse(t)
  PROVE FALSE
<1>1. PICK l \in Login : flight[t].token \in server[l].previous
  BY DEF RefreshReuse
<1>2. flight[t].token \in Token
  BY Handlers, TokenOfFlight DEF RefreshReuse, Carries
<1>3. issued[flight[t].token] = l
  BY <1>1, <1>2 DEF Inv, Known, Knows
<1>4. server[l].current = flight[t].token
  BY <1>3 DEF RefreshReuse, Undisturbed, SentCurrent, Current
<1> QED
  BY <1>1, <1>4 DEF Inv, Known

(* The refresh is settled.                                                 *)
LEMMA ReleasedCalls ==
  ASSUME Inv, NEW t \in Tab, NEW next, next = [s \in Slot |-> next[s]],
         Released(t, next), \A q \in Slot : ~Pending(next[q])
  PROVE NoNewPending
BY DEF Released, Inv, CallsGood, NoNewPending

LEMMA UndisturbedReleased ==
  ASSUME Inv, Undisturbed, NEW t \in Tab, NEW next,
         next = [s \in Slot |-> next[s]], Released(t, next),
         \A q \in Slot : ~Pending(next[q]), KeepsLess, UNCHANGED service,
         ~Replacing(flight[t]), ~Broken(flight[t])
  PROVE Undisturbed'
<1>1. NoNewPending
  BY ReleasedCalls
<1>2. \A u \in Tab : flight'[u] = IF u = t THEN NoFlight ELSE flight[u]
  BY Handlers DEF Released, Inv, FlightsGood
<1>3. \A u \in Tab : GoesOn(u)
  BY <1>2, NoFlightFields DEF GoesOn, Carries, Replacing
<1> QED
  BY <1>1, <1>3, NothingEnds, UndisturbedKept DEF service

LEMMA UndisturbedSettleOk ==
  ASSUME Inv, Core, Undisturbed, NEW t \in Tab, SettleOk(t)
  PROVE Undisturbed'
<1>1. PICK k : k = flight[t].token
  OBVIOUS
<1> DEFINE next == [s \in Slot |-> [call[t][s] EXCEPT !.phase = "sent", !.auth = k]]
<1>2. Carries(flight[t]) /\ Replacing(flight[t])
  BY DEF SettleOk, Answered, Carries, Replacing
<1>3. k \in Issued /\ Current(k)
  BY <1>1, <1>2, Handlers, TokenOfFlight DEF Undisturbed, FlightCurrent
<1>4. Released(t, next)
  BY <1>1 DEF SettleOk
<1>5. \A q \in Slot : ~Pending(next[q])
  <2> TAKE q \in Slot
  <2>1. call[t][q] \in CallRecord
    BY DEF Inv, CallsGood
  <2>2. next[q].phase = "sent"
    BY <2>1 DEF CallRecord
  <2> QED
    BY <2>2 DEF Pending
<1>6. next = [s \in Slot |-> next[s]]
  OBVIOUS
<1> HIDE DEF next
<1>7. NoNewPending
  BY <1>4, <1>5, <1>6, ReleasedCalls
<1>8. \A u \in Tab : flight'[u] = flight[u] \/ flight'[u] = NoFlight
  BY <1>4, Handlers DEF Released, Inv, FlightsGood
<1>9. \A x : Kept(x)' => x = k
  BY <1>1 DEF SettleOk, SetCookie, Kept
<1>10. \A u \in Tab : \A q \in Slot : Pending(call'[u][q]) =>
         issued[call[u][q].token] # issued[k]
  BY <1>1, <1>2, <1>7 DEF NoNewPending, Undisturbed, PendingApart, Apart
<1> QED
  BY <1>3, <1>7, <1>8, <1>9, <1>10, UndisturbedReplaced DEF SettleOk

(* The browser drops what it keeps.                                        *)
LEMMA UndisturbedRejected ==
  ASSUME Inv, Undisturbed, NEW t \in Tab, SettleRejected(t)
  PROVE Undisturbed'
<1> DEFINE next == [s \in Slot |-> NoCall]
<1>1. \A q \in Slot : ~Pending(next[q])
  BY NoCallNotPending
<1>2. Released(t, next) /\ next = [s \in Slot |-> next[s]]
  BY DEF SettleRejected
<1> HIDE DEF next
<1>3. NoNewPending
  BY <1>1, <1>2, ReleasedCalls
<1>4. \A u \in Tab : flight'[u] = flight[u] \/ flight'[u] = NoFlight
  BY <1>2, Handlers DEF Released, Inv, FlightsGood
<1>5. \A x : ~Kept(x)'
  BY DEF SettleRejected, Unauthorized, SetCookie, Kept
<1> QED
  BY <1>3, <1>4, <1>5, UndisturbedReplaced DEF SettleRejected

LEMMA UndisturbedSettle ==
  ASSUME Inv, Undisturbed, NEW t \in Tab,
         SettleRace(t) \/ SettleLimited(t) \/ SettleFailed(t)
  PROVE Undisturbed'
<1>1. ~Replacing(flight[t]) /\ ~Broken(flight[t])
  BY DEF SettleRace, SettleLimited, SettleFailed, Answered, Replacing, Broken
<1>2. KeepsLess /\ UNCHANGED service
  BY DEF SettleRace, SettleLimited, SettleFailed, KeepsLess, browser
<1>3. ASSUME NEW next, next = [s \in Slot |-> next[s]], Released(t, next),
             \A q \in Slot : ~Pending(next[q])
      PROVE  Undisturbed'
  BY <1>1, <1>2, <1>3, UndisturbedReleased
<1>4. CASE SettleRace(t)
  <2> DEFINE next == [s \in Slot |-> Resent(call[t][s])]
  <2>1. \A q \in Slot : ~Pending(next[q])
    BY ResentCall DEF Pending
  <2>2. Released(t, next) /\ next = [s \in Slot |-> next[s]]
    BY <1>4 DEF SettleRace
  <2> HIDE DEF next
  <2> QED
    BY <1>3, <2>1, <2>2
<1>5. CASE SettleLimited(t)
  <2> DEFINE next == [s \in Slot |-> [call[t][s] EXCEPT !.phase = "delayed"]]
  <2>1. \A q \in Slot : ~Pending(next[q])
    <3> TAKE q \in Slot
    <3>1. call[t][q] \in CallRecord
      BY DEF Inv, CallsGood
    <3>2. next[q].phase = "delayed"
      BY <3>1 DEF CallRecord
    <3> QED
      BY <3>2 DEF Pending
  <2>2. Released(t, next) /\ next = [s \in Slot |-> next[s]]
    BY <1>5 DEF SettleLimited
  <2> HIDE DEF next
  <2> QED
    BY <1>3, <2>1, <2>2
<1>6. CASE SettleFailed(t)
  <2> DEFINE next == [s \in Slot |-> NoCall]
  <2>1. \A q \in Slot : ~Pending(next[q])
    BY NoCallNotPending
  <2>2. Released(t, next) /\ next = [s \in Slot |-> next[s]]
    BY <1>6 DEF SettleFailed
  <2> HIDE DEF next
  <2> QED
    BY <1>3, <2>1, <2>2
<1> QED
  BY <1>4, <1>5, <1>6

(* Without a lost answer, a page is loaded again between refreshes.        *)
LEMMA UndisturbedReload ==
  ASSUME Inv, Undisturbed, NEW t \in Tab, NEW s \in Slot, Reload(t, s),
         flight[t].phase = "none"
  PROVE Undisturbed'
<1> DEFINE calls == [r \in Slot |->
          IF r = s /\ stored # None
          THEN [NoCall EXCEPT !.phase = "sent", !.op = "verify",
                              !.auth = stored]
          ELSE NoCall]
<1>1. \A r \in Slot : ~Pending(calls[r])
  BY DEF NoCall, Pending
<1>2. call' = [call EXCEPT ![t] = calls]
  BY DEF Reload
<1>3. calls = [r \in Slot |-> calls[r]]
  OBVIOUS
<1> HIDE DEF calls
<1>4. NoNewPending
  BY <1>1, <1>2, <1>3 DEF Inv, CallsGood, NoNewPending
<1> QED
  BY <1>4, NothingEnds, UndisturbedStill DEF Reload, KeepsLess, browser, service

NoLossInv == losses = 0 => Undisturbed

LEMMA LossCounted ==
  ASSUME Inv, NEW t \in Tab, NEW f, Parts(t, f)
  PROVE losses' # 0
BY Assumptions DEF Parts, Inv, CountsGood

LEMMA NextUndisturbed ==
  ASSUME OneTab, Inv, Core, SignedOut, Undisturbed, [Next]_vars,
         losses = 0, losses' = 0
  PROVE Undisturbed'
<1>1. CASE UNCHANGED vars
  BY <1>1, NothingEnds, UndisturbedStill
  DEF vars, browser, service, NoNewPending, KeepsLess
<1>2. ASSUME NEW t \in Tab, NEW s \in Slot, UserActs(t, s) PROVE Undisturbed'
  <2>1. CASE Reload(t, s)
    <3>1. flight[t].phase = "none"
      BY <2>1, LossCounted DEF Reload
    <3> QED
      BY <2>1, <3>1, UndisturbedReload
  <2> QED
    BY <1>2, <2>1, UndisturbedLogout, UndisturbedSend DEF UserActs
<1>3. ASSUME NEW t \in Tab, NEW s \in Slot, CallStep(t, s) PROVE Undisturbed'
  <2>1. CASE ServeLogin(t, s)
    <3>1. CASE Served(t, s, "denied", None)
                 /\ UNCHANGED <<browser, page, flight, service, losses>>
      <4>1. SetCall(t, s, Result(call[t][s], "denied", None))
        BY <3>1 DEF Served, Result
      <4>2. Result(call[t][s], "denied", None).phase = "denied"
        BY ServedCall
      <4> QED
        BY <3>1, <4>1, <4>2, UndisturbedCall DEF Pending, KeepsLess, browser
    <3> QED
      BY <2>1, <3>1, LoginKinds, UndisturbedCreated
  <2>2. CASE Fails(t, s)
    BY <2>2, NoCallNotPending, UndisturbedCall DEF Fails, KeepsLess, browser
  <2>3. CASE DeniedFinally(t, s)
    BY <2>3, NoCallNotPending, UndisturbedCall DEF DeniedFinally, KeepsLess
  <2>4. CASE GivesUp(t, s)
    BY <2>4, NoCallNotPending, UndisturbedCall
    DEF GivesUp, Unauthorized, KeepsLess
  <2>5. CASE Resume(t, s)
    BY <2>5, ResentCall, UndisturbedCall DEF Resume, KeepsLess, Pending, browser
  <2> QED
    BY <1>3, <2>1, <2>2, <2>3, <2>4, <2>5, UndisturbedServeProtected,
       UndisturbedServeLogout, UndisturbedAccepted, UndisturbedAsksRefresh
    DEF CallStep
<1>4. ASSUME NEW t \in Tab, FlightStep(t) PROVE Undisturbed'
  <2>1. CASE \/ RefreshRejected(t) \/ RefreshRace(t) \/ RefreshBreaks(t)
             \/ RefreshRefused(t)
    <3>1. \E a, k :
            /\ Answers(t, a, k)
            /\ a # "ok"
            /\ a \in {"rejected", "error"} => k = flight[t].token
            /\ \/ flight[t].phase = "sent"
               \/ a = "error" /\ flight[t].phase \in {"saving", "reply"}
      BY <2>1 DEF RefreshRejected, RefreshRace, RefreshBreaks, RefreshRefused
    <3>2. UNCHANGED <<browser, call, service>>
      BY <2>1 DEF RefreshRejected, RefreshRace, RefreshBreaks, RefreshRefused
    <3> QED
      BY <3>1, <3>2, UndisturbedAnswer
  <2>2. CASE RefreshReuse(t)
    BY <2>2, NoReuse
  <2> QED
    BY <1>4, <2>1, <2>2, UndisturbedReply, UndisturbedFind, UndisturbedSave,
       UndisturbedSettleOk, UndisturbedRejected, UndisturbedSettle
    DEF FlightStep, HandlerStep
<1>6. ASSUME NEW n \in 1 .. MaxLosses PROVE ~HandlerStep(n)
  <2>1. n > losses
    BY Assumptions
  <2>2. flight[n].phase = "none"
    BY <2>1 DEF Inv, LostGood
  <2> QED
    BY <2>2 DEF HandlerStep, RefreshRejected, RefreshRace, RefreshReuse,
       RefreshFind, RefreshSave, RefreshBreaks, RefreshRefused
<1>5. CASE Environment
  <2>1. CASE AccessLapses
    <3>1. OnlyEnding
      BY <2>1 DEF AccessLapses, OnlyEnding
    <3> QED
      BY <2>1, <3>1, UndisturbedStill
      DEF AccessLapses, browser, NoNewPending, KeepsLess
  <2>2. CASE \E l \in Login : GraceEnds(l)
    <3>1. PICK l \in Login : GraceEnds(l)
      BY <2>2
    <3> QED
      BY <3>1, GraceEndsOnly, UndisturbedStill
      DEF GraceEnds, browser, NoNewPending, KeepsLess
  <2>3. CASE \E l \in Login : SessionEnds(l)
    <3>1. PICK l \in Login : SessionEnds(l)
      BY <2>3
    <3> QED
      BY <3>1, SessionEndsOnly, UndisturbedStill
      DEF SessionEnds, browser, NoNewPending, KeepsLess
  <2>4. CASE \E t \in Tab : AnswerLost(t)
    BY <2>4, LossCounted DEF AnswerLost
  <2> QED
    BY <1>5, <2>1, <2>2, <2>3, <2>4 DEF Environment
<1> QED
  BY <1>1, <1>2, <1>3, <1>4, <1>5, <1>6 DEF Next

LEMMA LossesGrow ==
  ASSUME Inv, [Next]_vars, losses' = 0
  PROVE losses = 0
<1>1. losses \in Nat
  BY Assumptions DEF Inv, CountsGood
<1>2. \/ losses' = losses \/ losses' = losses + 1
  <2>1. CASE \E t \in Tab, s \in Slot : Reload(t, s)
    BY <1>1, <2>1 DEF Reload, Parts
  <2>2. CASE \E t \in Tab : AnswerLost(t)
    BY <2>2 DEF AnswerLost, Parts
  <2>3. CASE \E t \in Tab, s \in Slot :
               Logout(t, s) \/ (\E op \in Op : Send(t, s, op)) \/ CallStep(t, s)
    BY <2>3 DEF Logout, Send, CallStep, ServeProtected, ServeLogin, ServeLogout,
       Fails, Accepted, DeniedFinally, GivesUp, AsksRefresh, Resume
  <2>7. CASE \E h \in Handler : HandlerStep(h)
    BY <2>7, HandlerKeepsPage
  <2>4. CASE \E t \in Tab : FlightStep(t)
    <3>1. PICK t \in Tab : FlightStep(t)
      BY <2>4
    <3>2. CASE HandlerStep(t)
      BY <3>2, HandlerKeepsPage
    <3> QED
      BY <3>1, <3>2 DEF FlightStep, RefreshReply, SettleOk, SettleRace,
         SettleLimited, SettleRejected, SettleFailed
  <2>5. CASE AccessLapses \/ \E l \in Login : GraceEnds(l) \/ SessionEnds(l)
    BY <2>5 DEF AccessLapses, GraceEnds, SessionEnds
  <2>6. CASE UNCHANGED vars
    BY <2>6 DEF vars
  <2> QED
    BY <2>1, <2>2, <2>3, <2>4, <2>5, <2>6, <2>7, Handlers
    DEF Next, Environment, UserActs
<1> QED
  BY <1>1, <1>2

LEMMA NextNoLoss ==
  OneTab /\ Inv /\ Core /\ SignedOut /\ NoLossInv /\ [Next]_vars => NoLossInv'
BY NextUndisturbed, LossesGrow DEF NoLossInv

LEMMA InitUndisturbed == Init => SignedOut /\ Undisturbed
<1> SUFFICES ASSUME Init PROVE SignedOut /\ Undisturbed
  OBVIOUS
<1>1. 1 \in Login /\ issued[1] = 1
  BY Assumptions DEF Init, Login
<1>2. server[1].current = 1
  BY <1>1 DEF Init, NewLogin
<1>3. \A t \in Tab : flight[t] = NoFlight
  BY Handlers DEF Init
<1>4. \A x : Kept(x) => x = 1
  BY DEF Kept, Init
<1>5. \A u \in Tab : \A q \in Slot : ~Pending(call[u][q])
  BY NoCallNotPending DEF Init
<1>6. SignedOut
  BY DEF Init, SignedOut, None
<1>7. SentCurrent /\ FlightCurrent
  BY <1>3, NoFlightFields DEF SentCurrent, FlightCurrent, Replacing
<1>8. KeptCurrent
  BY <1>1, <1>2, <1>4 DEF KeptCurrent, Current
<1>9. PendingApart
  BY <1>5 DEF PendingApart
<1> QED
  BY <1>6, <1>7, <1>8, <1>9 DEF Undisturbed, Init

(* In a browser with one tab the server takes an honest client for a thief *)
(* only after the answer to a refresh was lost.                            *)
THEOREM ReuseMeansTheftProved ==
  ASSUME OneTab
  PROVE  Spec => []ReuseMeansTheft
<1>2. Spec => []Core
  BY NextCore, InvHolds, InitCore, PTL DEF Spec
<1>3. Inv /\ SignedOut /\ [Next]_vars => SignedOut'
  BY NextSignedOut
<1>4. Spec => []SignedOut
  BY <1>3, InvHolds, InitUndisturbed, PTL DEF Spec
<1>5. Inv /\ Core /\ SignedOut /\ NoLossInv /\ [Next]_vars => NoLossInv'
  BY NextNoLoss
<1>6. Init => NoLossInv
  BY InitUndisturbed DEF NoLossInv
<1>7. Spec => []NoLossInv
  BY <1>2, <1>4, <1>5, <1>6, InvHolds, PTL DEF Spec
<1>8. Inv /\ NoLossInv => ReuseMeansTheft
  <2> SUFFICES ASSUME Inv, NoLossInv, alarm PROVE losses > 0
    BY DEF ReuseMeansTheft
  <2>1. losses \in Nat
    BY Assumptions DEF Inv, CountsGood
  <2>2. losses # 0
    BY DEF NoLossInv, Undisturbed
  <2> QED
    BY <2>1, <2>2
<1> QED
  BY <1>7, <1>8, InvHolds, PTL

=============================================================================
