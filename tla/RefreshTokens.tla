--------------------------- MODULE RefreshTokens ---------------------------
(***************************************************************************)
(* Refresh-token rotation of one account: the Session documents in         *)
(* MongoDB and the requests that rotate, log out, revoke or clean them up  *)
(* (backend/utils/tokenService.js, the session handlers of                 *)
(* authController.js and sessionController.js, the clean-up jobs).         *)
(*                                                                         *)
(* Node runs one callback at a time, so the code between two awaits is one *)
(* step.  A handler that awaits a find and then awaits a save is two       *)
(* actions here, and every other request may run in between, on this       *)
(* server or on another one.  The account's sessions are independent of    *)
(* every other account's, so one account is modelled.                      *)
(*                                                                         *)
(* A token stands for the random string and for its hash alike; tokens are *)
(* numbered in the order they are generated.                               *)
(***************************************************************************)
EXTENDS Naturals, Sequences, FiniteSets, Functions

CONSTANTS
  Session,      \* Session documents that may ever be created
  NoSession,    \* "no document": the target of an idle request
  Request,      \* requests being served at the same time
  History,      \* how many replaced tokens a session remembers (5)
  MaxRefresh,   \* refreshes allowed to one session (50)
  MaxTokens     \* bound of the model: refresh tokens generated

ASSUME Assumptions ==
  /\ NoSession \notin Session
  /\ IsFiniteSet(Request)
  /\ Request # {}
  /\ History \in Nat \ {0}
  /\ MaxRefresh \in Nat
  /\ MaxTokens \in Nat

VARIABLES
  session,   \* the stored documents
  minted,    \* number of refresh tokens generated so far
  held,      \* tokens a client has received in a response
  pc,        \* what each request does next
  target,    \* the document each request has read
  read       \* that request's copy of the document

vars == <<session, minted, held, pc, target, read>>

Token == 1 .. minted

(***************************************************************************)
(* One Session document.  "recent" is gap < 30000 of the rotation code,    *)
(* "expired" is expiresAt < now, "version" is mongoose's __v, and token 0  *)
(* is "none yet".                                                          *)
(***************************************************************************)
SessionDoc ==
  [status   : {"none", "stored", "deleted"},
   valid    : BOOLEAN,
   current  : Nat,
   previous : Seq(Nat),
   count    : Nat,
   recent   : BOOLEAN,
   expired  : BOOLEAN,
   version  : Nat]

EmptyDoc ==
  [status |-> "none", valid |-> FALSE, current |-> 0, previous |-> <<>>,
   count |-> 0, recent |-> FALSE, expired |-> FALSE, version |-> 0]

(* Seeded fault: the hash of the token is not stored.                      *)
NewDocWithoutToken(t) == [EmptyDoc EXCEPT !.status = "stored", !.valid = TRUE]

NewDoc(t) ==
  [EmptyDoc EXCEPT !.status = "stored", !.valid = TRUE, !.current = t,
                   !.recent = TRUE]

DeletedDoc == [EmptyDoc EXCEPT !.status = "deleted"]

Revoked(doc) == [doc EXCEPT !.valid = FALSE, !.recent = TRUE]

Aged(doc) == [doc EXCEPT !.recent = FALSE]

Expired(doc) == [doc EXCEPT !.expired = TRUE]

Stored(s) == session[s].status = "stored"

Knows(s, t) == session[s].current = t \/ t \in Range(session[s].previous)

Init ==
  /\ session = [s \in Session |-> EmptyDoc]
  /\ minted = 0
  /\ held = {}
  /\ pc = [r \in Request |-> "idle"]
  /\ target = [r \in Request |-> NoSession]
  /\ read = [r \in Request |-> EmptyDoc]

(***************************************************************************)
(* Moving a request: it goes on to step p with the document it has read,   *)
(* or it ends.                                                             *)
(***************************************************************************)
GoTo(r, p, s) ==
  /\ pc' = [pc EXCEPT ![r] = p]
  /\ target' = [target EXCEPT ![r] = s]
  /\ read' = [read EXCEPT ![r] = session[s]]

End(r) ==
  /\ pc' = [pc EXCEPT ![r] = "idle"]
  /\ target' = [target EXCEPT ![r] = NoSession]
  /\ read' = [read EXCEPT ![r] = EmptyDoc]

(* A slot for a request is free before the first, after an answer, and     *)
(* when the server has stopped under its request, whose client is told     *)
(* nothing.                                                                *)
Free(r) == pc[r] \in {"idle", "lost"}

-----------------------------------------------------------------------------
(* A login, by password or by Google, stores a session and answers its     *)
(* token.                                                                  *)
Login(s) ==
  /\ session[s].status = "none"
  /\ minted < MaxTokens
  /\ minted' = minted + 1
  /\ session' = [session EXCEPT ![s] = NewDoc(minted + 1)]
  /\ held' = held \cup {minted + 1}
  /\ UNCHANGED <<pc, target, read>>

(* What rotateRefreshToken decides from the document it found, before its  *)
(* next await.  A token of the history that was replaced less than 30      *)
(* seconds ago is answered AUTH_ROTATION_RACE and changes nothing.         *)
RefreshDecision(doc, t) ==
  IF t \in Range(doc.previous)
  THEN IF doc.recent THEN "race" ELSE "reuse"
  ELSE IF doc.count + 1 > MaxRefresh THEN "excess" ELSE "rotate"

RefreshFind(r, t) ==
  /\ Free(r)
  /\ t \in held
  /\ \E s \in Session :
       /\ Stored(s)
       /\ Knows(s, t)
       /\ session[s].valid
       /\ ~session[s].expired
       /\ RefreshDecision(session[s], t) # "race"
       /\ GoTo(r, RefreshDecision(session[s], t), s)
  /\ UNCHANGED <<session, minted, held>>

(* Up to History entries the save appends to the stored list.  Beyond, the *)
(* shift() makes mongoose write the whole list it has in memory, and only  *)
(* if nobody has changed the list since it was read.                       *)
WritesWholeHistory(doc) == Len(doc.previous) >= History

SaveAccepted(r) ==
  /\ Stored(target[r])
  /\ WritesWholeHistory(read[r]) =>
       session[target[r]].version = read[r].version

(* Seeded fault: the oldest entry is never dropped.                        *)
NextHistoryUnbounded(stored, doc) == Append(stored, doc.current)

NextHistory(stored, doc) ==
  IF WritesWholeHistory(doc)
  THEN Tail(Append(doc.previous, doc.current))
  ELSE Append(stored, doc.current)

(* Seeded faults: the history receives the new token, not the replaced     *)
(* one; the whole document that was read is written back.                  *)
RotatedRecordsNewToken(stored, doc, t) ==
  [stored EXCEPT !.current = t, !.previous = Append(stored.previous, t)]

RotatedWholeDocument(stored, doc, t) ==
  [doc EXCEPT !.current = t, !.previous = NextHistory(stored.previous, doc)]

Rotated(stored, doc, t) ==
  [stored EXCEPT !.current = t,
                 !.previous = NextHistory(stored.previous, doc),
                 !.count = doc.count + 1,
                 !.recent = TRUE,
                 !.expired = FALSE,
                 !.version = stored.version + 1]

RotateSave(r) ==
  /\ pc[r] = "rotate"
  /\ SaveAccepted(r)
  /\ minted < MaxTokens
  /\ minted' = minted + 1
  /\ session' = [session EXCEPT ![target[r]] =
                   Rotated(session[target[r]], read[r], minted + 1)]
  /\ pc' = [pc EXCEPT ![r] = "reply"]
  /\ read' = [read EXCEPT ![r] = [@ EXCEPT !.current = minted + 1]]
  /\ UNCHANGED <<held, target>>

(* The save is refused: the list has changed (VersionError) or the         *)
(* document is gone.  The client is told AUTH_INVALID.                     *)
RotateRefused(r) ==
  /\ pc[r] = "rotate"
  /\ ~SaveAccepted(r)
  /\ End(r)
  /\ UNCHANGED <<session, minted, held>>

(* refreshAccessToken looks its new token up and answers it, or fails when *)
(* another rotation has replaced it already.                               *)
RefreshReply(r) ==
  /\ pc[r] = "reply"
  /\ held' = IF \E s \in Session :
                  Stored(s) /\ session[s].current = read[r].current
             THEN held \cup {read[r].current}
             ELSE held
  /\ End(r)
  /\ UNCHANGED <<session, minted>>

(* The documents of S marked invalid, as a save of one or an updateMany.   *)
Invalidate(S) ==
  [s \in Session |->
     IF s \in S /\ Stored(s) THEN Revoked(session[s]) ELSE session[s]]

(* Reuse of a replaced token: the session is revoked ...                   *)
ReuseSave(r) ==
  /\ pc[r] = "reuse"
  /\ session' = Invalidate({target[r]})
  /\ IF Stored(target[r])
     THEN /\ pc' = [pc EXCEPT ![r] = "family"]
          /\ UNCHANGED <<target, read>>
     ELSE End(r)
  /\ UNCHANGED <<minted, held>>

(* Seeded fault: the rest of the family is left alone.                     *)
FamilySpared(r) ==
  /\ pc[r] = "family"
  /\ End(r)
  /\ UNCHANGED <<session, minted, held>>

(* ... and then every other session of the account.                        *)
FamilyRevoke(r) ==
  /\ pc[r] = "family"
  /\ session' = Invalidate({s \in Session : session[s].valid})
  /\ End(r)
  /\ UNCHANGED <<minted, held>>

(* The limit is passed: the session is revoked, its count saved.           *)
Exhausted(stored, doc) ==
  [stored EXCEPT !.valid = FALSE, !.recent = TRUE, !.count = doc.count + 1]

ExcessSave(r) ==
  /\ pc[r] = "excess"
  /\ session' = [s \in Session |->
                   IF s = target[r] /\ Stored(s)
                   THEN Exhausted(session[s], read[r])
                   ELSE session[s]]
  /\ End(r)
  /\ UNCHANGED <<minted, held>>

-----------------------------------------------------------------------------
(* Logout looks for the session whose current token the client sent; with  *)
(* a token that has been replaced it finds none and changes nothing.       *)
LogoutFind(r, t) ==
  /\ Free(r)
  /\ t \in held
  /\ \E s \in Session :
       /\ Stored(s)
       /\ session[s].current = t
       /\ GoTo(r, "revoke", s)
  /\ UNCHANGED <<session, minted, held>>

(* "Revoke this device": the document is found by its id.                  *)
RevokeFind(r, s) ==
  /\ Free(r)
  /\ Stored(s)
  /\ GoTo(r, "revoke", s)
  /\ UNCHANGED <<session, minted, held>>

RevokeSave(r) ==
  /\ pc[r] = "revoke"
  /\ session' = Invalidate({target[r]})
  /\ End(r)
  /\ UNCHANGED <<minted, held>>

(* The updateMany of logout-all, password reset, password change in the    *)
(* profile and deactivation.                                               *)
RevokeAll ==
  /\ \E s \in Session : Stored(s) /\ session[s].valid
  /\ session' = Invalidate({s \in Session : session[s].valid})
  /\ UNCHANGED <<minted, held, pc, target, read>>

-----------------------------------------------------------------------------
(* Thirty seconds pass since the last write to s.                          *)
GraceEnds(s) ==
  /\ Stored(s) /\ session[s].recent
  /\ session' = [session EXCEPT ![s] = Aged(session[s])]
  /\ UNCHANGED <<minted, held, pc, target, read>>

(* Seven days pass since s was last rotated.                               *)
Expire(s) ==
  /\ Stored(s) /\ ~session[s].recent /\ ~session[s].expired
  /\ session' = [session EXCEPT ![s] = Expired(session[s])]
  /\ UNCHANGED <<minted, held, pc, target, read>>

(* The TTL index, or a clean-up job once s was revoked for 30 days.        *)
Delete(s) ==
  /\ Stored(s) /\ session[s].expired
  /\ session' = [session EXCEPT ![s] = DeletedDoc]
  /\ UNCHANGED <<minted, held, pc, target, read>>

(* The server stops and starts again: requests being served are lost.      *)
Restart ==
  /\ \E r \in Request : ~Free(r)
  /\ pc' = [r \in Request |-> IF Free(r) THEN pc[r] ELSE "lost"]
  /\ target' = [r \in Request |-> NoSession]
  /\ read' = [r \in Request |-> EmptyDoc]
  /\ UNCHANGED <<session, minted, held>>

-----------------------------------------------------------------------------
Begin(r) ==
  \/ \E t \in held : RefreshFind(r, t) \/ LogoutFind(r, t)
  \/ \E s \in Session : RevokeFind(r, s)

Continue(r) ==
  \/ RotateSave(r)
  \/ RotateRefused(r)
  \/ RefreshReply(r)
  \/ ReuseSave(r)
  \/ FamilyRevoke(r)
  \/ ExcessSave(r)
  \/ RevokeSave(r)

Environment ==
  \/ \E s \in Session : Login(s) \/ GraceEnds(s) \/ Expire(s) \/ Delete(s)
  \/ RevokeAll

Next ==
  \/ Environment
  \/ \E r \in Request : Begin(r) \/ Continue(r)
  \/ Restart

Spec == Init /\ [][Next]_vars

(***************************************************************************)
(* As long as the server runs, MongoDB answers every query of a request    *)
(* and Node runs its continuation; it may stop and start at any time.      *)
(***************************************************************************)
LiveSpec == Init /\ [][Next]_vars /\ \A r \in Request : WF_vars(Continue(r))

-----------------------------------------------------------------------------
(* Types.  A stored session's tokens are tokens that were generated, and a *)
(* request has read a document exactly while it is being served.           *)
TypeOK ==
  /\ session \in [Session -> SessionDoc]
  /\ minted \in 0 .. MaxTokens
  /\ held \subseteq Token
  /\ pc \in [Request -> {"idle", "rotate", "reply", "reuse", "family",
                          "excess", "revoke", "lost"}]
  /\ target \in [Request -> Session \cup {NoSession}]
  /\ read \in [Request -> SessionDoc]
  /\ \A r \in Request : Free(r) <=> target[r] = NoSession
  /\ \A s \in Session : Stored(s) =>
       /\ session[s].current \in Token
       /\ session[s].previous \in Seq(Token)

(* What the other invariants rest on: a document that is not stored is     *)
(* empty, and a request that rotates or answers has read generated tokens. *)
Shape ==
  /\ \A s \in Session : ~Stored(s) =>
       /\ session[s].current = 0
       /\ session[s].previous = <<>>
       /\ ~session[s].valid
  /\ \A r \in Request : pc[r] \in {"rotate", "reply"} =>
       /\ read[r].current \in Token
       /\ read[r].previous \in Seq(Token)

(* The history is meant to hold the last History replaced tokens.  Two     *)
(* rotations of the same session may both read a history with one free     *)
(* place and both append, and nothing ever takes the extra entry out       *)
(* again; but it never grows by more than one entry per request that runs  *)
(* beside the first (rotateRefreshToken).                                  *)
HistoryBounded ==
  \A s \in Session :
    Len(session[s].previous) <= History - 1 + Cardinality(Request)

(* The current token of a session is in no session's history, and is the   *)
(* current token of no other session.  Otherwise the client that holds it  *)
(* would be taken for the user of a replaced token, and its honest refresh *)
(* would revoke every session of the account.                              *)
CurrentTokenIsFresh ==
  \A s, q \in Session : Stored(s) =>
    /\ session[s].current \notin Range(session[q].previous)
    /\ s # q => session[s].current # session[q].current

(* A session that has been revoked never becomes valid again, whichever    *)
(* rotation, with a copy read while it was valid, is saved afterwards.     *)
RevocationIsFinal ==
  [][\A s \in Session :
       (Stored(s) /\ ~session[s].valid) => ~session'[s].valid]_vars

(* When a replaced token is used again after the grace period, every       *)
(* session the account has at that moment ends up revoked, unless the      *)
(* server stops half-way and the request is lost.                          *)
ReuseEndsFamily ==
  \A r \in Request, s \in Session :
    (pc[r] = "family" /\ Stored(s)) ~> (~session[s].valid \/ pc[r] = "lost")

=============================================================================
