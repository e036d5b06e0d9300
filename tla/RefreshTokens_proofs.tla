----------------------- MODULE RefreshTokens_proofs -----------------------
(***************************************************************************)
(* Theorems about RefreshTokens, for every set of sessions and requests,   *)
(* every length of the history and every limit.                            *)
(***************************************************************************)
EXTENDS RefreshTokens, FiniteSetTheorems, TLAPS

TypeInv == TypeOK /\ Shape

-----------------------------------------------------------------------------
(* Lists of tokens.                                                        *)
LEMMA RangeOfAppend ==
  ASSUME NEW S, NEW q \in Seq(S), NEW e \in S
  PROVE  /\ Append(q, e) \in Seq(S)
         /\ Len(Append(q, e)) = Len(q) + 1
         /\ Range(Append(q, e)) = Range(q) \cup {e}
<1>1. Append(q, e) \in Seq(S) /\ Len(Append(q, e)) = Len(q) + 1
  OBVIOUS
<1>2. \A i \in 1 .. Len(q) : Append(q, e)[i] = q[i]
  OBVIOUS
<1>3. Append(q, e)[Len(q) + 1] = e
  OBVIOUS
<1>4. DOMAIN Append(q, e) = 1 .. (Len(q) + 1) /\ DOMAIN q = 1 .. Len(q)
  OBVIOUS
<1>5. Range(Append(q, e)) \subseteq Range(q) \cup {e}
  BY <1>2, <1>3, <1>4 DEF Range
<1>6. Range(q) \cup {e} \subseteq Range(Append(q, e))
  BY <1>2, <1>3, <1>4 DEF Range
<1> QED
  BY <1>1, <1>5, <1>6

LEMMA SeqOfSuperset ==
  ASSUME NEW S, NEW T, S \subseteq T, NEW q \in Seq(S)
  PROVE  q \in Seq(T)
OBVIOUS

LEMMA RangeOfTail ==
  ASSUME NEW S, NEW q \in Seq(S), q # <<>>
  PROVE  /\ Tail(q) \in Seq(S)
         /\ Len(Tail(q)) = Len(q) - 1
         /\ Range(Tail(q)) \subseteq Range(q)
<1>1. Tail(q) \in Seq(S) /\ Len(Tail(q)) = Len(q) - 1
  OBVIOUS
<1>2. \A i \in 1 .. (Len(q) - 1) : Tail(q)[i] = q[i + 1]
  OBVIOUS
<1>3. DOMAIN Tail(q) = 1 .. (Len(q) - 1) /\ DOMAIN q = 1 .. Len(q)
  OBVIOUS
<1> QED
  BY <1>1, <1>2, <1>3 DEF Range

(* What a rotation stores: a list of the tokens it knew, no longer than    *)
(* the list that was there plus one.                                       *)
LEMMA NextHistoryFacts ==
  ASSUME NEW S, NEW stored \in Seq(S), NEW doc \in SessionDoc,
         doc.previous \in Seq(S), doc.current \in S
  PROVE  /\ NextHistory(stored, doc) \in Seq(S)
         /\ WritesWholeHistory(doc) =>
              /\ Len(NextHistory(stored, doc)) = Len(doc.previous)
              /\ Range(NextHistory(stored, doc))
                   \subseteq Range(doc.previous) \cup {doc.current}
         /\ ~WritesWholeHistory(doc) =>
              /\ Len(NextHistory(stored, doc)) = Len(stored) + 1
              /\ Range(NextHistory(stored, doc))
                   \subseteq Range(stored) \cup {doc.current}
<1>1. CASE WritesWholeHistory(doc)
  <2> DEFINE whole == Append(doc.previous, doc.current)
  <2>1. /\ whole \in Seq(S)
        /\ Len(whole) = Len(doc.previous) + 1
        /\ Range(whole) = Range(doc.previous) \cup {doc.current}
    BY RangeOfAppend
  <2>2. Len(doc.previous) \in Nat
    OBVIOUS
  <2> HIDE DEF whole
  <2>3. /\ Tail(whole) \in Seq(S)
        /\ Len(Tail(whole)) = Len(whole) - 1
        /\ Range(Tail(whole)) \subseteq Range(whole)
    <3>1. whole # <<>>
      BY <2>1, <2>2
    <3> QED
      BY <2>1, <3>1, RangeOfTail
  <2> QED
    BY <1>1, <2>1, <2>2, <2>3 DEF NextHistory, whole
<1>2. CASE ~WritesWholeHistory(doc)
  BY <1>2, RangeOfAppend DEF NextHistory
<1> QED
  BY <1>1, <1>2

-----------------------------------------------------------------------------
(* The documents the actions write.                                        *)
LEMMA EmptyDocFacts ==
  /\ EmptyDoc \in SessionDoc
  /\ EmptyDoc.status = "none"
  /\ EmptyDoc.current = 0
  /\ EmptyDoc.previous = <<>>
  /\ EmptyDoc.valid = FALSE
  /\ EmptyDoc.version = 0
BY DEF EmptyDoc, SessionDoc

LEMMA DeletedDocFacts ==
  /\ DeletedDoc \in SessionDoc
  /\ DeletedDoc.status = "deleted"
  /\ DeletedDoc.current = 0
  /\ DeletedDoc.previous = <<>>
  /\ DeletedDoc.valid = FALSE
BY EmptyDocFacts DEF DeletedDoc, SessionDoc

LEMMA NewDocFacts ==
  ASSUME NEW t \in Nat
  PROVE  /\ NewDoc(t) \in SessionDoc
         /\ NewDoc(t).status = "stored"
         /\ NewDoc(t).current = t
         /\ NewDoc(t).previous = <<>>
BY EmptyDocFacts DEF NewDoc, SessionDoc

(* Marking a document changes neither its tokens nor its version, and      *)
(* never makes it valid.                                                   *)
SameTokens(new, old) ==
  /\ new \in SessionDoc
  /\ new.status = old.status
  /\ new.current = old.current
  /\ new.previous = old.previous
  /\ new.version = old.version
  /\ ~old.valid => ~new.valid

LEMMA MarkedFacts ==
  ASSUME NEW d \in SessionDoc, NEW e \in SessionDoc
  PROVE  /\ SameTokens(d, d)
         /\ SameTokens(Revoked(d), d)
         /\ SameTokens(Aged(d), d)
         /\ SameTokens(Expired(d), d)
         /\ SameTokens(Exhausted(d, e), d)
<1>1. SameTokens(d, d)
  BY DEF SameTokens
<1>2. SameTokens(Revoked(d), d)
  BY DEF SameTokens, Revoked, SessionDoc
<1>3. SameTokens(Aged(d), d)
  BY DEF SameTokens, Aged, SessionDoc
<1>4. SameTokens(Expired(d), d)
  BY DEF SameTokens, Expired, SessionDoc
<1>5. SameTokens(Exhausted(d, e), d)
  <2>1. e.count + 1 \in Nat
    BY DEF SessionDoc
  <2> QED
    BY <2>1 DEF SameTokens, Exhausted, SessionDoc
<1> QED
  BY <1>1, <1>2, <1>3, <1>4, <1>5

LEMMA RotatedFacts ==
  ASSUME NEW stored \in SessionDoc, NEW doc \in SessionDoc, NEW t \in Nat,
         NextHistory(stored.previous, doc) \in Seq(Nat)
  PROVE  /\ Rotated(stored, doc, t) \in SessionDoc
         /\ Rotated(stored, doc, t).status = stored.status
         /\ Rotated(stored, doc, t).valid = stored.valid
         /\ Rotated(stored, doc, t).current = t
         /\ Rotated(stored, doc, t).previous
              = NextHistory(stored.previous, doc)
         /\ Rotated(stored, doc, t).version = stored.version + 1
<1>1. doc.count + 1 \in Nat /\ stored.version + 1 \in Nat
  BY DEF SessionDoc
<1>2. Rotated(stored, doc, t) \in SessionDoc
  BY <1>1 DEF Rotated, SessionDoc
<1>3. /\ Rotated(stored, doc, t).status = stored.status
      /\ Rotated(stored, doc, t).valid = stored.valid
      /\ Rotated(stored, doc, t).current = t
      /\ Rotated(stored, doc, t).previous
           = NextHistory(stored.previous, doc)
      /\ Rotated(stored, doc, t).version = stored.version + 1
  BY DEF Rotated, SessionDoc
<1> QED
  BY <1>2, <1>3

-----------------------------------------------------------------------------
(* Five kinds of step.  A calm step changes no token of a document: it     *)
(* marks documents, and every request stays where it is, ends, or goes     *)
(* from the revocation of one session to that of the family.               *)
Steps == {"idle", "rotate", "reply", "reuse", "family", "excess", "revoke", "lost"}

CalmRequest(r) ==
  \/ /\ pc'[r] = pc[r]
     /\ target'[r] = target[r]
     /\ read'[r] = read[r]
  \/ /\ pc'[r] \in {"idle", "lost"}
     /\ target'[r] = NoSession
     /\ read'[r] = EmptyDoc
  \/ /\ pc[r] = "reuse"
     /\ pc'[r] = "family"
     /\ target'[r] = target[r]
     /\ read'[r] = read[r]

Calm ==
  /\ session' \in [Session -> SessionDoc]
  /\ \A s \in Session : SameTokens(session'[s], session[s])
  /\ minted' = minted
  /\ held' \subseteq Token
  /\ pc' \in [Request -> Steps]
  /\ target' \in [Request -> Session \cup {NoSession}]
  /\ read' \in [Request -> SessionDoc]
  /\ \A r \in Request : CalmRequest(r)

(* A request that was idle has found a stored document.                    *)
Found(r, p, s) ==
  /\ Free(r)
  /\ p \in {"rotate", "reuse", "excess", "revoke"}
  /\ Stored(s)
  /\ GoTo(r, p, s)
  /\ UNCHANGED <<session, minted, held>>

LEMMA InvalidateFacts ==
  ASSUME session \in [Session -> SessionDoc], NEW S
  PROVE  /\ Invalidate(S) \in [Session -> SessionDoc]
         /\ \A s \in Session : SameTokens(Invalidate(S)[s], session[s])
<1>1. \A s \in Session :
        SameTokens(Invalidate(S)[s], session[s])
  BY MarkedFacts DEF Invalidate
<1>2. \A s \in Session : Invalidate(S)[s] \in SessionDoc
  BY <1>1 DEF SameTokens
<1>3. Invalidate(S) = [s \in Session |-> Invalidate(S)[s]]
  BY DEF Invalidate
<1> QED
  BY <1>1, <1>2, <1>3


LEMMA EndIsCalm ==
  ASSUME TypeInv, NEW r \in Request, End(r)
  PROVE  /\ pc' \in [Request -> Steps]
         /\ target' \in [Request -> Session \cup {NoSession}]
         /\ read' \in [Request -> SessionDoc]
         /\ \A q \in Request : CalmRequest(q)
BY EmptyDocFacts DEF TypeInv, TypeOK, End, CalmRequest, Steps

LEMMA StillRequests ==
  ASSUME TypeInv, UNCHANGED <<pc, target, read>>
  PROVE  /\ pc' \in [Request -> Steps]
         /\ target' \in [Request -> Session \cup {NoSession}]
         /\ read' \in [Request -> SessionDoc]
         /\ \A q \in Request : CalmRequest(q)
BY DEF TypeInv, TypeOK, CalmRequest, Steps

LEMMA StillSessions ==
  ASSUME TypeInv, UNCHANGED session
  PROVE  /\ session' \in [Session -> SessionDoc]
         /\ \A s \in Session : SameTokens(session'[s], session[s])
BY MarkedFacts DEF TypeInv, TypeOK

(* Storing, under the name of one session, a marked copy of its document.  *)
LEMMA MarkOne ==
  ASSUME TypeInv, NEW s \in Session, NEW d,
         SameTokens(d, session[s]), session' = [session EXCEPT ![s] = d]
  PROVE  /\ session' \in [Session -> SessionDoc]
         /\ \A q \in Session : SameTokens(session'[q], session[q])
<1>1. d \in SessionDoc
  BY DEF SameTokens
<1>2. \A q \in Session : session[q] \in SessionDoc
  BY DEF TypeInv, TypeOK
<1>3. \A q \in Session : SameTokens(session[q], session[q])
  BY <1>2, MarkedFacts
<1> QED
  BY <1>1, <1>3 DEF TypeInv, TypeOK

LEMMA ContinueKinds ==
  ASSUME TypeInv, NEW r \in Request, Continue(r)
  PROVE  Calm \/ RotateSave(r)
<1>0. held \subseteq Token /\ session \in [Session -> SessionDoc]
  BY DEF TypeInv, TypeOK
<1>1. CASE RotateSave(r)
  BY <1>1
<1>2. CASE RotateRefused(r)
  BY <1>0, <1>2, EndIsCalm, StillSessions DEF RotateRefused, Calm
<1>3. CASE RefreshReply(r)
  <2>1. read[r].current \in Token
    BY <1>3 DEF TypeInv, Shape, RefreshReply
  <2>2. held' \subseteq Token
    BY <1>0, <1>3, <2>1 DEF RefreshReply
  <2>3. End(r) /\ UNCHANGED <<session, minted>>
    BY <1>3 DEF RefreshReply
  <2> QED
    BY <2>2, <2>3, EndIsCalm, StillSessions DEF Calm
<1>4. CASE ReuseSave(r)
  <2>1. CASE Stored(target[r])
    <3>1. /\ pc' = [pc EXCEPT ![r] = "family"]
          /\ UNCHANGED <<target, read, minted, held>>
          /\ pc[r] = "reuse"
      BY <1>4, <2>1 DEF ReuseSave
    <3>2. /\ pc' \in [Request -> Steps]
          /\ target' \in [Request -> Session \cup {NoSession}]
          /\ read' \in [Request -> SessionDoc]
          /\ \A q \in Request : CalmRequest(q)
      BY <3>1 DEF TypeInv, TypeOK, CalmRequest, Steps
    <3> QED
      BY <1>0, <1>4, <3>1, <3>2, InvalidateFacts DEF ReuseSave, Calm
  <2>2. CASE ~Stored(target[r])
    BY <1>0, <1>4, <2>2, EndIsCalm, InvalidateFacts DEF ReuseSave, Calm
  <2> QED
    BY <2>1, <2>2
<1>5. CASE FamilyRevoke(r)
  BY <1>0, <1>5, EndIsCalm, InvalidateFacts DEF FamilyRevoke, Calm
<1>6. CASE ExcessSave(r)
  <2>1. \A s \in Session : SameTokens(session'[s], session[s])
    BY <1>6, MarkedFacts DEF ExcessSave, TypeInv, TypeOK
  <2>2. session' \in [Session -> SessionDoc]
    <3>1. \A s \in Session : session'[s] \in SessionDoc
      BY <2>1 DEF SameTokens
    <3> QED
      BY <1>6, <3>1 DEF ExcessSave
  <2> QED
    BY <1>0, <1>6, <2>1, <2>2, EndIsCalm DEF ExcessSave, Calm
<1>7. CASE RevokeSave(r)
  BY <1>0, <1>7, EndIsCalm, InvalidateFacts DEF RevokeSave, Calm
<1> QED
  BY <1>1, <1>2, <1>3, <1>4, <1>5, <1>6, <1>7 DEF Continue

LEMMA StepKinds ==
  ASSUME TypeInv, [Next]_vars
  PROVE  \/ Calm
         \/ \E s \in Session : Login(s) \/ Delete(s)
         \/ \E r \in Request, s \in Session, p \in Steps : Found(r, p, s)
         \/ \E r \in Request : RotateSave(r)
<1>0. held \subseteq Token /\ session \in [Session -> SessionDoc]
  BY DEF TypeInv, TypeOK
<1>1. CASE UNCHANGED vars
  BY <1>0, <1>1, StillRequests, StillSessions DEF vars, Calm
<1>2. ASSUME NEW r \in Request, Continue(r)
      PROVE  Calm \/ RotateSave(r)
  BY <1>2, ContinueKinds
<1>3. ASSUME NEW r \in Request, Begin(r)
      PROVE  \E s \in Session, p \in Steps : Found(r, p, s)
  <2>1. ASSUME NEW t \in held, RefreshFind(r, t)
        PROVE  \E s \in Session, p \in Steps : Found(r, p, s)
    BY <2>1 DEF RefreshFind, RefreshDecision, Found, Steps
  <2>2. ASSUME NEW t \in held, LogoutFind(r, t)
        PROVE  \E s \in Session, p \in Steps : Found(r, p, s)
    BY <2>2 DEF LogoutFind, Found, Steps
  <2>3. ASSUME NEW s \in Session, RevokeFind(r, s)
        PROVE  \E q \in Session, p \in Steps : Found(r, p, q)
    BY <2>3 DEF RevokeFind, Found, Steps
  <2> QED
    BY <1>3, <2>1, <2>2, <2>3 DEF Begin
<1>4. ASSUME NEW s \in Session, GraceEnds(s)
      PROVE  Calm
  <2>1. SameTokens(Aged(session[s]), session[s])
    BY <1>0, MarkedFacts
  <2> QED
    BY <1>0, <1>4, <2>1, MarkOne, StillRequests DEF GraceEnds, Calm
<1>5. ASSUME NEW s \in Session, Expire(s)
      PROVE  Calm
  <2>1. SameTokens(Expired(session[s]), session[s])
    BY <1>0, MarkedFacts
  <2> QED
    BY <1>0, <1>5, <2>1, MarkOne, StillRequests DEF Expire, Calm
<1>6. CASE RevokeAll
  BY <1>0, <1>6, InvalidateFacts, StillRequests DEF RevokeAll, Calm
<1>7. CASE Restart
  <2>1. /\ pc' \in [Request -> Steps]
        /\ target' \in [Request -> Session \cup {NoSession}]
        /\ read' \in [Request -> SessionDoc]
        /\ \A q \in Request : CalmRequest(q)
    BY <1>7, EmptyDocFacts DEF Free, Restart, CalmRequest, Steps
  <2> QED
    BY <1>0, <1>7, <2>1, StillSessions DEF Restart, Calm
<1> QED
  BY <1>1, <1>2, <1>3, <1>4, <1>5, <1>6, <1>7
     DEF Next, Environment

-----------------------------------------------------------------------------
(* Type correctness.                                                       *)
LEMMA InitTypes == Init => TypeInv
<1> SUFFICES ASSUME Init PROVE TypeInv
  OBVIOUS
<1>1. TypeOK
  BY EmptyDocFacts, Assumptions DEF Free, Init, TypeOK, Token, Stored
<1>2. Shape
  BY EmptyDocFacts DEF Init, Shape, Stored
<1> QED
  BY <1>1, <1>2 DEF TypeInv

LEMMA CalmTypes ==
  ASSUME TypeInv, Calm
  PROVE  TypeInv'
<1>1. Token' = Token
  BY DEF Calm, Token
<1>2. TypeOK'
  <2>1. \A r \in Request : Free(r)' <=> target'[r] = NoSession
    BY DEF Free, TypeInv, TypeOK, Calm, CalmRequest
  <2>2. \A s \in Session : Stored(s)' =>
          /\ session'[s].current \in Token
          /\ session'[s].previous \in Seq(Token)
    BY DEF TypeInv, TypeOK, Calm, SameTokens, Stored
  <2> QED
    BY <1>1, <2>1, <2>2 DEF TypeInv, TypeOK, Calm, Steps
<1>3. Shape'
  <2>1. \A s \in Session : ~Stored(s)' =>
          /\ session'[s].current = 0
          /\ session'[s].previous = <<>>
          /\ ~session'[s].valid
    BY DEF TypeInv, Shape, Calm, SameTokens, Stored
  <2>2. \A r \in Request : pc'[r] \in {"rotate", "reply"} =>
          /\ read'[r].current \in Token
          /\ read'[r].previous \in Seq(Token)
    BY DEF TypeInv, Shape, Calm, CalmRequest
  <2> QED
    BY <1>1, <2>1, <2>2 DEF Shape
<1> QED
  BY <1>2, <1>3 DEF TypeInv

(* A longer list of generated tokens: what was a token still is one.       *)
LEMMA TokensGrow ==
  ASSUME TypeInv, minted' = minted + 1
  PROVE  /\ Token \subseteq Token'
         /\ minted + 1 \in Token'
         /\ minted + 1 \notin Token
         /\ 0 \notin Token'
         /\ \A q \in Seq(Token) : q \in Seq(Token')
         /\ minted \in Nat
BY Assumptions DEF TypeInv, TypeOK, Token

LEMMA LoginTypes ==
  ASSUME TypeInv, NEW s \in Session, Login(s)
  PROVE  TypeInv'
<1>1. /\ NewDoc(minted + 1) \in SessionDoc
      /\ NewDoc(minted + 1).status = "stored"
      /\ NewDoc(minted + 1).current = minted + 1
      /\ NewDoc(minted + 1).previous = <<>>
  BY NewDocFacts DEF TypeInv, TypeOK
<1>2. /\ Token \subseteq Token'
      /\ minted + 1 \in Token'
      /\ \A q \in Seq(Token) : q \in Seq(Token')
  BY TokensGrow DEF Login
<1>3. \A q \in Session : session'[q] = IF q = s THEN NewDoc(minted + 1)
                                              ELSE session[q]
  BY DEF Login, TypeInv, TypeOK
<1>4. TypeOK'
  <2>1. session' \in [Session -> SessionDoc]
    BY <1>1 DEF Login, TypeInv, TypeOK
  <2>2. minted' \in 0 .. MaxTokens
    BY Assumptions DEF Login, TypeInv, TypeOK
  <2>3. held' \subseteq Token'
    BY <1>2 DEF Login, TypeInv, TypeOK
  <2>4. \A q \in Session : Stored(q)' =>
          /\ session'[q].current \in Token'
          /\ session'[q].previous \in Seq(Token')
    <3> SUFFICES ASSUME NEW q \in Session, Stored(q)'
                 PROVE  /\ session'[q].current \in Token'
                        /\ session'[q].previous \in Seq(Token')
      OBVIOUS
    <3>1. CASE q = s
      <4>1. <<>> \in Seq(Token')
        OBVIOUS
      <4> QED
        BY <1>1, <1>2, <1>3, <3>1, <4>1
    <3>2. CASE q # s
      <4>1. Stored(q) /\ session'[q] = session[q]
        BY <1>3, <3>2 DEF Stored
      <4> QED
        BY <1>2, <4>1 DEF TypeInv, TypeOK
    <3> QED
      BY <3>1, <3>2
  <2> QED
    BY <2>1, <2>2, <2>3, <2>4 DEF Free, Login, TypeInv, TypeOK
<1>5. Shape'
  BY <1>1, <1>2, <1>3 DEF Login, TypeInv, Shape, Stored
<1> QED
  BY <1>4, <1>5 DEF TypeInv

LEMMA DeleteTypes ==
  ASSUME TypeInv, NEW s \in Session, Delete(s)
  PROVE  TypeInv'
<1>1. \A q \in Session : session'[q] = IF q = s THEN DeletedDoc
                                              ELSE session[q]
  BY DEF Delete, TypeInv, TypeOK
<1>2. Token' = Token
  BY DEF Delete, Token
<1>3. TypeOK'
  BY <1>1, <1>2, DeletedDocFacts DEF Free, Delete, TypeInv, TypeOK, Stored
<1>4. Shape'
  BY <1>1, <1>2, DeletedDocFacts DEF Delete, TypeInv, Shape, Stored
<1> QED
  BY <1>3, <1>4 DEF TypeInv

LEMMA FoundTypes ==
  ASSUME TypeInv, NEW r \in Request, NEW s \in Session, NEW p \in Steps,
         Found(r, p, s)
  PROVE  TypeInv'
<1>1. Token' = Token
  BY DEF Found, Token
<1>2. TypeOK'
  BY <1>1, Assumptions DEF Free, Found, GoTo, TypeInv, TypeOK, Steps, Stored
<1>3. Shape'
  BY <1>1 DEF Found, GoTo, TypeInv, TypeOK, Shape, Stored
<1> QED
  BY <1>2, <1>3 DEF TypeInv

(* What the save of a rotation does, in one place.                         *)
LEMMA RotateSaveFacts ==
  ASSUME TypeInv, NEW r \in Request, RotateSave(r)
  PROVE  LET s == target[r]
             h == NextHistory(session[s].previous, read[r])
         IN  /\ s \in Session
             /\ Stored(s)
             /\ h \in Seq(Token)
             /\ session' = [session EXCEPT ![s] =
                               Rotated(session[s], read[r], minted + 1)]
             /\ Rotated(session[s], read[r], minted + 1) \in SessionDoc
             /\ session'[s].status = "stored"
             /\ session'[s].valid = session[s].valid
             /\ session'[s].current = minted + 1
             /\ session'[s].previous = h
             /\ session'[s].version = session[s].version + 1
             /\ \A q \in Session : q # s => session'[q] = session[q]
<1> DEFINE s == target[r]
           h == NextHistory(session[s].previous, read[r])
<1>1. s \in Session
  BY DEF Free, RotateSave, TypeInv, TypeOK
<1>2. Stored(s)
  BY DEF RotateSave, SaveAccepted
<1>3. /\ session[s] \in SessionDoc
      /\ read[r] \in SessionDoc
      /\ session[s].previous \in Seq(Token)
      /\ minted + 1 \in Nat
      /\ Token \subseteq Nat
  BY <1>1, <1>2 DEF TypeInv, TypeOK, Token
<1>4. read[r].current \in Token /\ read[r].previous \in Seq(Token)
  BY DEF RotateSave, TypeInv, Shape
<1>5. h \in Seq(Token)
  BY <1>3, <1>4, NextHistoryFacts
<1> HIDE DEF h
<1>6. h \in Seq(Nat)
  BY <1>3, <1>5, SeqOfSuperset
<1>7. /\ Rotated(session[s], read[r], minted + 1) \in SessionDoc
      /\ Rotated(session[s], read[r], minted + 1).status
           = session[s].status
      /\ Rotated(session[s], read[r], minted + 1).valid = session[s].valid
      /\ Rotated(session[s], read[r], minted + 1).current = minted + 1
      /\ Rotated(session[s], read[r], minted + 1).previous = h
      /\ Rotated(session[s], read[r], minted + 1).version
           = session[s].version + 1
  BY <1>3, <1>6, RotatedFacts DEF h
<1>8. session' = [session EXCEPT ![s] =
                    Rotated(session[s], read[r], minted + 1)]
  BY DEF RotateSave
<1>9. /\ session'[s] = Rotated(session[s], read[r], minted + 1)
      /\ \A q \in Session : q # s => session'[q] = session[q]
  BY <1>1, <1>8 DEF TypeInv, TypeOK
<1> QED
  BY <1>1, <1>2, <1>5, <1>7, <1>8, <1>9 DEF Stored, h

LEMMA RotateSaveTypes ==
  ASSUME TypeInv, NEW r \in Request, RotateSave(r)
  PROVE  TypeInv'
<1> DEFINE s == target[r]
           h == NextHistory(session[s].previous, read[r])
<1>1. /\ s \in Session
      /\ Stored(s)
      /\ h \in Seq(Token)
      /\ session' = [session EXCEPT ![s] =
                        Rotated(session[s], read[r], minted + 1)]
      /\ Rotated(session[s], read[r], minted + 1) \in SessionDoc
      /\ session'[s].status = "stored"
      /\ session'[s].current = minted + 1
      /\ session'[s].previous = h
      /\ \A q \in Session : q # s => session'[q] = session[q]
  BY RotateSaveFacts
<1>2. /\ Token \subseteq Token'
      /\ minted + 1 \in Token'
      /\ minted + 1 \in Nat
      /\ \A q \in Seq(Token) : q \in Seq(Token')
  BY TokensGrow DEF RotateSave
<1> HIDE DEF s, h
<1>3. [read[r] EXCEPT !.current = minted + 1] \in SessionDoc
  <2>1. read[r] \in SessionDoc
    BY DEF TypeInv, TypeOK
  <2> QED
    BY <1>2, <2>1 DEF SessionDoc
<1>4. /\ [read[r] EXCEPT !.current = minted + 1].current = minted + 1
      /\ [read[r] EXCEPT !.current = minted + 1].previous
           = read[r].previous
  <2>1. read[r] \in SessionDoc
    BY DEF TypeInv, TypeOK
  <2> QED
    BY <2>1 DEF SessionDoc
<1>5. /\ read' = [read EXCEPT ![r] = [read[r] EXCEPT !.current = minted + 1]]
      /\ pc' = [pc EXCEPT ![r] = "reply"]
      /\ UNCHANGED <<held, target>>
      /\ pc[r] = "rotate"
      /\ minted' = minted + 1 /\ minted < MaxTokens
  BY DEF RotateSave
<1>6. TypeOK'
  <2>1. session' \in [Session -> SessionDoc]
    BY <1>1 DEF TypeInv, TypeOK
  <2>2. read' \in [Request -> SessionDoc]
    BY <1>3, <1>5 DEF TypeInv, TypeOK
  <2>3. minted' \in 0 .. MaxTokens
    BY <1>5, Assumptions DEF TypeInv, TypeOK
  <2>4. \A q \in Session : Stored(q)' =>
          /\ session'[q].current \in Token'
          /\ session'[q].previous \in Seq(Token')
    BY <1>1, <1>2 DEF TypeInv, TypeOK, Stored
  <2>5. held' \subseteq Token'
    BY <1>2, <1>5 DEF TypeInv, TypeOK
  <2>6. /\ pc' \in [Request -> Steps]
        /\ target' \in [Request -> Session \cup {NoSession}]
        /\ \A q \in Request : Free(q)' <=> target'[q] = NoSession
    BY <1>5 DEF Free, TypeInv, TypeOK, Steps
  <2> QED
    BY <2>1, <2>2, <2>3, <2>4, <2>5, <2>6 DEF TypeOK, Steps
<1>7. Shape'
  <2>1. \A q \in Session : ~Stored(q)' =>
          /\ session'[q].current = 0
          /\ session'[q].previous = <<>>
          /\ ~session'[q].valid
    BY <1>1 DEF TypeInv, Shape, Stored
  <2>2. \A q \in Request : pc'[q] \in {"rotate", "reply"} =>
          /\ read'[q].current \in Token'
          /\ read'[q].previous \in Seq(Token')
    <3> SUFFICES ASSUME NEW q \in Request, pc'[q] \in {"rotate", "reply"}
                 PROVE  /\ read'[q].current \in Token'
                        /\ read'[q].previous \in Seq(Token')
      OBVIOUS
    <3>1. CASE q = r
      <4>1. read'[r] = [read[r] EXCEPT !.current = minted + 1]
        BY <1>5 DEF TypeInv, TypeOK
      <4>2. read[r].previous \in Seq(Token)
        BY <1>5 DEF TypeInv, Shape
      <4> QED
        BY <1>2, <1>4, <3>1, <4>1, <4>2
    <3>2. CASE q # r
      BY <1>2, <1>5, <3>2 DEF TypeInv, TypeOK, Shape
    <3> QED
      BY <3>1, <3>2
  <2> QED
    BY <2>1, <2>2 DEF Shape
<1> QED
  BY <1>6, <1>7 DEF TypeInv

LEMMA NextTypes == TypeInv /\ [Next]_vars => TypeInv'
<1> SUFFICES ASSUME TypeInv, [Next]_vars PROVE TypeInv'
  OBVIOUS
<1> QED
  BY StepKinds, CalmTypes, LoginTypes, DeleteTypes, FoundTypes,
     RotateSaveTypes

(* Every reachable state is well typed: tokens that are stored, read or    *)
(* held were generated, and a request has a document while it is served.   *)
THEOREM TypeCorrect == Spec => [](TypeOK /\ Shape)
<1>1. Spec => []TypeInv
  BY InitTypes, NextTypes, PTL DEF Spec
<1> QED
  BY <1>1, PTL DEF TypeInv

-----------------------------------------------------------------------------
(* Revocation is final.                                                    *)
Final(s) == (Stored(s) /\ ~session[s].valid) => ~session'[s].valid

LEMMA StepIsFinal ==
  ASSUME TypeInv, [Next]_vars, NEW s \in Session
  PROVE  Final(s)
<1>1. CASE Calm
  BY <1>1 DEF Final, Calm, SameTokens
<1>2. ASSUME NEW q \in Session, Login(q) \/ Delete(q)
      PROVE  Final(s)
  <2>1. CASE q = s
    BY <1>2, <2>1, DeletedDocFacts
       DEF Final, Login, Delete, Stored, TypeInv, TypeOK
  <2>2. CASE q # s
    BY <1>2, <2>2 DEF Final, Login, Delete, TypeInv, TypeOK
  <2> QED
    BY <2>1, <2>2
<1>3. ASSUME NEW r \in Request, NEW q \in Session, NEW p \in Steps,
             Found(r, p, q)
      PROVE  Final(s)
  BY <1>3 DEF Final, Found
<1>4. ASSUME NEW r \in Request, RotateSave(r)
      PROVE  Final(s)
  <2>1. /\ session'[target[r]].valid = session[target[r]].valid
        /\ \A q \in Session : q # target[r] => session'[q] = session[q]
    BY <1>4, RotateSaveFacts
  <2> QED
    BY <2>1 DEF Final
<1> QED
  BY <1>1, <1>2, <1>3, <1>4, StepKinds

(* No step makes a revoked session valid: not even the save of a rotation  *)
(* that had read it while it was valid.                                    *)
THEOREM RevocationIsFinalProved == Spec => RevocationIsFinal
<1>1. TypeInv /\ [Next]_vars =>
        [\A s \in Session :
           (Stored(s) /\ ~session[s].valid) => ~session'[s].valid]_vars
  BY StepIsFinal DEF Final
<1>2. Spec => []TypeInv
  BY InitTypes, NextTypes, PTL DEF Spec
<1> QED
  BY <1>1, <1>2, PTL DEF Spec, RevocationIsFinal

-----------------------------------------------------------------------------
(* Tokens.  A token is known to one session only, counting the tokens that *)
(* a rotation under way has read as known to its session; and the current  *)
(* token of a session is not in its history.                               *)
Reads(r, t) ==
  /\ pc[r] = "rotate"
  /\ read[r].current = t \/ t \in Range(read[r].previous)

OneOwner ==
  /\ \A t \in Token, s, q \in Session : Knows(s, t) /\ Knows(q, t) => s = q
  /\ \A t \in Token, r \in Request, s \in Session :
       Reads(r, t) /\ Knows(s, t) => target[r] = s
  /\ \A t \in Token, r, w \in Request :
       Reads(r, t) /\ Reads(w, t) => target[r] = target[w]

CurrentNotReplaced ==
  \A s \in Session :
    Stored(s) => session[s].current \notin Range(session[s].previous)

TokenInv == OneOwner /\ CurrentNotReplaced

LEMMA EmptyRange == Range(<<>>) = {}
BY DEF Range

(* Only generated tokens are known or read.                                *)
LEMMA KnownAreTokens ==
  ASSUME TypeInv, NEW s \in Session, NEW t, Knows(s, t)
  PROVE  t \in Token \/ (~Stored(s) /\ t = 0)
<1>1. CASE Stored(s)
  <2>1. session[s].current \in Token /\ session[s].previous \in Seq(Token)
    BY <1>1 DEF TypeInv, TypeOK
  <2> QED
    BY <2>1 DEF Knows, Range
<1>2. CASE ~Stored(s)
  BY <1>2, EmptyRange DEF TypeInv, Shape, Knows
<1> QED
  BY <1>1, <1>2

LEMMA ReadAreTokens ==
  ASSUME TypeInv, NEW r \in Request, NEW t, Reads(r, t)
  PROVE  t \in Token
<1>1. read[r].current \in Token /\ read[r].previous \in Seq(Token)
  BY DEF TypeInv, Shape, Reads
<1> QED
  BY <1>1 DEF Reads, Range

LEMMA InitTokens == Init => TokenInv
<1> SUFFICES ASSUME Init PROVE TokenInv
  OBVIOUS
<1>1. Token = {}
  BY DEF Init, Token
<1>2. \A s \in Session : ~Stored(s)
  BY EmptyDocFacts DEF Init, Stored
<1> QED
  BY <1>1, <1>2 DEF TokenInv, OneOwner, CurrentNotReplaced

(* A step under which every session knows and every rotation reads no more *)
(* than before.                                                            *)
LEMMA NoNewKnowledge ==
  ASSUME TokenInv,
         Token' = Token,
         \A s \in Session, t \in Token : Knows(s, t)' => Knows(s, t),
         \A r \in Request, t \in Token : Reads(r, t)' =>
           /\ target'[r] = target[r]
           /\ Reads(r, t),
         \A s \in Session : Stored(s)' =>
           \/ /\ Stored(s)
              /\ session'[s].current = session[s].current
              /\ session'[s].previous = session[s].previous
           \/ session'[s].previous = <<>>
  PROVE  TokenInv'
<1>1. OneOwner'
  BY DEF TokenInv, OneOwner
<1>2. CurrentNotReplaced'
  BY EmptyRange DEF TokenInv, CurrentNotReplaced
<1> QED
  BY <1>1, <1>2 DEF TokenInv

LEMMA CalmTokens ==
  ASSUME TypeInv, TokenInv, Calm
  PROVE  TokenInv'
<1>1. Token' = Token
  BY DEF Calm, Token
<1>2. \A s \in Session, t \in Token : Knows(s, t)' => Knows(s, t)
  BY DEF Calm, SameTokens, Knows
<1>3. \A r \in Request, t \in Token : Reads(r, t)' =>
        /\ target'[r] = target[r]
        /\ Reads(r, t)
  BY DEF Calm, CalmRequest, Reads
<1>4. \A s \in Session : Stored(s)' =>
        /\ Stored(s)
        /\ session'[s].current = session[s].current
        /\ session'[s].previous = session[s].previous
  BY DEF Calm, SameTokens, Stored
<1> QED
  BY <1>1, <1>2, <1>3, <1>4, NoNewKnowledge

LEMMA DeleteTokens ==
  ASSUME TypeInv, TokenInv, NEW s \in Session, Delete(s)
  PROVE  TokenInv'
<1>0. \A q \in Session : session'[q] = IF q = s THEN DeletedDoc
                                              ELSE session[q]
  BY DEF Delete, TypeInv, TypeOK
<1>1. Token' = Token /\ 0 \notin Token
  BY DEF Delete, Token
<1>2. \A q \in Session, t \in Token : Knows(q, t)' => Knows(q, t)
  BY <1>0, <1>1, DeletedDocFacts, EmptyRange DEF Knows
<1>3. \A r \in Request, t \in Token : Reads(r, t)' =>
        /\ target'[r] = target[r]
        /\ Reads(r, t)
  BY DEF Delete, Reads
<1>4. \A q \in Session : Stored(q)' =>
        /\ Stored(q)
        /\ session'[q].current = session[q].current
        /\ session'[q].previous = session[q].previous
  BY <1>0, DeletedDocFacts DEF Stored
<1> QED
  BY <1>1, <1>2, <1>3, <1>4, NoNewKnowledge

LEMMA FoundTokens ==
  ASSUME TypeInv, TokenInv, NEW r \in Request, NEW s \in Session,
         NEW p \in Steps, Found(r, p, s)
  PROVE  TokenInv'
<1>1. Token' = Token /\ session' = session
  BY DEF Found, Token
<1>2. \A t : \A q \in Session : Knows(q, t)' <=> Knows(q, t)
  BY <1>1 DEF Knows
<1>3. \A t : \A w \in Request : Reads(w, t)' =>
        \/ w # r /\ Reads(w, t) /\ target'[w] = target[w]
        \/ w = r /\ Knows(s, t) /\ target'[w] = s
  BY DEF Found, GoTo, Reads, Knows, TypeInv, TypeOK
<1>4. OneOwner'
  <2>1. \A t \in Token, a, q \in Session :
          Knows(a, t)' /\ Knows(q, t)' => a = q
    BY <1>2 DEF TokenInv, OneOwner
  <2>2. \A t \in Token, w \in Request, q \in Session :
          Reads(w, t)' /\ Knows(q, t)' => target'[w] = q
    BY <1>2, <1>3 DEF TokenInv, OneOwner
  <2>3. \A t \in Token, w, v \in Request :
          Reads(w, t)' /\ Reads(v, t)' => target'[w] = target'[v]
    BY <1>3 DEF TokenInv, OneOwner
  <2> QED
    BY <1>1, <2>1, <2>2, <2>3 DEF OneOwner
<1>5. CurrentNotReplaced'
  BY <1>1 DEF TokenInv, CurrentNotReplaced, Stored
<1> QED
  BY <1>4, <1>5 DEF TokenInv

LEMMA LoginTokens ==
  ASSUME TypeInv, TokenInv, NEW s \in Session, Login(s)
  PROVE  TokenInv'
<1>1. /\ minted + 1 \notin Token
      /\ Token' = Token \cup {minted + 1}
      /\ 0 \notin Token
      /\ minted + 1 \in Nat
  BY Assumptions DEF Login, TypeInv, TypeOK, Token
<1>2. /\ NewDoc(minted + 1).current = minted + 1
      /\ NewDoc(minted + 1).previous = <<>>
  BY <1>1, NewDocFacts
<1>3. \A q \in Session : session'[q] = IF q = s THEN NewDoc(minted + 1)
                                              ELSE session[q]
  BY DEF Login, TypeInv, TypeOK
<1>4. \A q \in Session, t \in Token' : Knows(q, t)' =>
        \/ q = s /\ t = minted + 1
        \/ q # s /\ t \in Token /\ Knows(q, t)
  <2> SUFFICES ASSUME NEW q \in Session, NEW t \in Token', Knows(q, t)'
               PROVE  \/ q = s /\ t = minted + 1
                      \/ q # s /\ t \in Token /\ Knows(q, t)
    OBVIOUS
  <2>1. CASE q = s
    BY <1>2, <1>3, <2>1, EmptyRange DEF Knows
  <2>2. CASE q # s
    <3>1. Knows(q, t)
      BY <1>3, <2>2 DEF Knows
    <3>2. t # 0
      BY <1>1 DEF Token
    <3> QED
      BY <2>2, <3>1, <3>2, KnownAreTokens
  <2> QED
    BY <2>1, <2>2
<1>5. \A t : \A w \in Request : Reads(w, t)' =>
        /\ Reads(w, t)
        /\ t \in Token
        /\ target'[w] = target[w]
  <2>1. \A t : \A w \in Request : Reads(w, t)' =>
          Reads(w, t) /\ target'[w] = target[w]
    BY DEF Login, Reads
  <2> QED
    BY <2>1, ReadAreTokens
<1>6. OneOwner'
  BY <1>1, <1>4, <1>5 DEF TokenInv, OneOwner
<1>7. CurrentNotReplaced'
  <2> SUFFICES ASSUME NEW q \in Session, Stored(q)'
               PROVE  session'[q].current \notin Range(session'[q].previous)
    BY DEF CurrentNotReplaced
  <2>1. CASE q = s
    BY <1>2, <1>3, <2>1, EmptyRange
  <2>2. CASE q # s
    BY <1>3, <2>2 DEF TokenInv, CurrentNotReplaced, Stored
  <2> QED
    BY <2>1, <2>2
<1> QED
  BY <1>6, <1>7 DEF TokenInv

LEMMA RotateSaveTokens ==
  ASSUME TypeInv, TokenInv, NEW r \in Request, RotateSave(r)
  PROVE  TokenInv'
<1> DEFINE s == target[r]
           h == NextHistory(session[s].previous, read[r])
<1>1. /\ s \in Session
      /\ Stored(s)
      /\ session'[s].current = minted + 1
      /\ session'[s].previous = h
      /\ h \in Seq(Token)
      /\ \A q \in Session : q # s => session'[q] = session[q]
  BY RotateSaveFacts
<1>2. /\ minted + 1 \notin Token
      /\ Token' = Token \cup {minted + 1}
      /\ 0 \notin Token
      /\ 0 \notin Token'
  BY Assumptions DEF RotateSave, TypeInv, TypeOK, Token
<1>3. Range(h) \subseteq
        Range(session[s].previous) \cup Range(read[r].previous)
          \cup {read[r].current}
  <2>1. session[s].previous \in Seq(Token) /\ read[r] \in SessionDoc
    BY <1>1 DEF TypeInv, TypeOK
  <2>2. read[r].previous \in Seq(Token) /\ read[r].current \in Token
    BY DEF RotateSave, TypeInv, Shape
  <2> QED
    BY <2>1, <2>2, NextHistoryFacts
<1>4. Range(h) \subseteq Token
  BY <1>1 DEF Range
<1> HIDE DEF s, h
<1>5. \A t \in Range(h) : Knows(s, t) \/ Reads(r, t)
  BY <1>3 DEF Knows, Reads, RotateSave
<1>6. \A q \in Session, t \in Token' : Knows(q, t)' =>
        \/ q = s /\ t = minted + 1
        \/ t \in Token /\ Knows(q, t)
        \/ q = s /\ t \in Token /\ Reads(r, t)
  <2> SUFFICES ASSUME NEW q \in Session, NEW t \in Token', Knows(q, t)'
               PROVE  \/ q = s /\ t = minted + 1
                      \/ t \in Token /\ Knows(q, t)
                      \/ q = s /\ t \in Token /\ Reads(r, t)
    OBVIOUS
  <2>1. CASE q = s
    BY <1>1, <1>4, <1>5, <2>1 DEF Knows
  <2>2. CASE q # s
    <3>1. Knows(q, t)
      BY <1>1, <2>2 DEF Knows
    <3> QED
      BY <1>2, <3>1, KnownAreTokens
  <2> QED
    BY <2>1, <2>2
<1>7. \A t : \A w \in Request : Reads(w, t)' =>
        /\ Reads(w, t)
        /\ t \in Token
        /\ target'[w] = target[w]
  <2>1. \A t : \A w \in Request : Reads(w, t)' =>
          Reads(w, t) /\ target'[w] = target[w]
    BY DEF RotateSave, Reads, TypeInv, TypeOK
  <2> QED
    BY <2>1, ReadAreTokens
<1>8. \A t : Reads(r, t) => target[r] = s
  BY DEF s
<1>9. OneOwner'
  <2>1. \A t \in Token', a, q \in Session :
          Knows(a, t)' /\ Knows(q, t)' => a = q
    BY <1>1, <1>2, <1>6, <1>8 DEF TokenInv, OneOwner
  <2>2. \A t \in Token', w \in Request, q \in Session :
          Reads(w, t)' /\ Knows(q, t)' => target'[w] = q
    BY <1>2, <1>6, <1>7, <1>8 DEF TokenInv, OneOwner
  <2>3. \A t \in Token', w, v \in Request :
          Reads(w, t)' /\ Reads(v, t)' => target'[w] = target'[v]
    BY <1>7 DEF TokenInv, OneOwner
  <2> QED
    BY <2>1, <2>2, <2>3 DEF OneOwner
<1>10. CurrentNotReplaced'
  <2> SUFFICES ASSUME NEW q \in Session, Stored(q)'
               PROVE  session'[q].current \notin Range(session'[q].previous)
    BY DEF CurrentNotReplaced
  <2>1. CASE q = s
    BY <1>1, <1>2, <1>4, <2>1
  <2>2. CASE q # s
    BY <1>1, <2>2 DEF TokenInv, CurrentNotReplaced, Stored
  <2> QED
    BY <2>1, <2>2
<1> QED
  BY <1>9, <1>10 DEF TokenInv

LEMMA NextTokens == TypeInv /\ TokenInv /\ [Next]_vars => TokenInv'
<1> SUFFICES ASSUME TypeInv, TokenInv, [Next]_vars PROVE TokenInv'
  OBVIOUS
<1> QED
  BY StepKinds, CalmTokens, LoginTokens, DeleteTokens, FoundTokens,
     RotateSaveTokens

LEMMA TokensAreFresh == TypeInv /\ TokenInv => CurrentTokenIsFresh
<1> SUFFICES ASSUME TypeInv, TokenInv, NEW s \in Session, NEW q \in Session,
                    Stored(s)
             PROVE  /\ session[s].current \notin Range(session[q].previous)
                    /\ s # q => session[s].current # session[q].current
  BY DEF CurrentTokenIsFresh
<1>1. session[s].current \in Token /\ Knows(s, session[s].current)
  BY DEF TypeInv, TypeOK, Knows
<1>2. CASE q = s
  BY <1>2 DEF TokenInv, CurrentNotReplaced
<1>3. CASE q # s
  BY <1>1, <1>3 DEF TokenInv, OneOwner, Knows
<1> QED
  BY <1>2, <1>3

(* The token a client must use next is never one that would be taken for a *)
(* replaced token, in its own session or in another.                       *)
THEOREM CurrentTokenIsFreshProved == Spec => []CurrentTokenIsFresh
<1>1. Spec => []TypeInv
  BY InitTypes, NextTypes, PTL DEF Spec
<1>2. Spec => []TokenInv
  BY <1>1, InitTokens, NextTokens, PTL DEF Spec
<1> QED
  BY <1>1, <1>2, TokensAreFresh, PTL

-----------------------------------------------------------------------------
(* The length of a history.  A rotation that writes the whole list has     *)
(* read the list that is stored, or its save is refused.                   *)
VersionInv ==
  \A r \in Request : pc[r] = "rotate" =>
    /\ session[target[r]].status # "none"
    /\ Stored(target[r]) =>
         /\ read[r].version <= session[target[r]].version
         /\ read[r].version = session[target[r]].version =>
              read[r].previous = session[target[r]].previous

(* The rotations under way that will append to the history of s.           *)
Pushers(s) ==
  {r \in Request : /\ pc[r] = "rotate"
                   /\ target[r] = s
                   /\ ~WritesWholeHistory(read[r])}

RoomInv ==
  \A s \in Session :
    Len(session[s].previous) + Cardinality(Pushers(s))
      <= History - 1 + Cardinality(Request)

HistoryInv == VersionInv /\ RoomInv

LEMMA PushersFinite ==
  ASSUME NEW s
  PROVE  /\ IsFiniteSet(Pushers(s))
         /\ Cardinality(Pushers(s)) \in Nat
         /\ Cardinality(Pushers(s)) <= Cardinality(Request)
         /\ Cardinality(Request) \in Nat
         /\ \A P \in SUBSET Pushers(s) :
              /\ Cardinality(P) \in Nat
              /\ Cardinality(P) <= Cardinality(Pushers(s))
<1>1. Pushers(s) \subseteq Request
  BY DEF Pushers
<1>2. IsFiniteSet(Pushers(s)) /\ Cardinality(Pushers(s)) <= Cardinality(Request)
  BY <1>1, Assumptions, FS_Subset
<1>3. \A P \in SUBSET Pushers(s) :
        IsFiniteSet(P) /\ Cardinality(P) <= Cardinality(Pushers(s))
  BY <1>2, FS_Subset
<1> QED
  BY <1>2, <1>3, Assumptions, FS_CardinalityType

LEMMA LengthType ==
  ASSUME TypeInv, NEW s \in Session
  PROVE  Len(session[s].previous) \in Nat
BY DEF TypeInv, TypeOK, SessionDoc

LEMMA InitHistory == Init => HistoryInv
<1> SUFFICES ASSUME Init PROVE HistoryInv
  OBVIOUS
<1>1. VersionInv
  BY DEF Init, VersionInv
<1>2. RoomInv
  <2> SUFFICES ASSUME NEW s \in Session
               PROVE  Len(session[s].previous) + Cardinality(Pushers(s))
                        <= History - 1 + Cardinality(Request)
    BY DEF RoomInv
  <2>1. Len(session[s].previous) = 0
    BY EmptyDocFacts DEF Init
  <2> QED
    BY <2>1, PushersFinite, Assumptions
<1> QED
  BY <1>1, <1>2 DEF HistoryInv

(* A step after which no history is longer and no rotation is new.         *)
LEMMA NoNewPushers ==
  ASSUME TypeInv, RoomInv,
         \A s \in Session : Pushers(s)' \subseteq Pushers(s),
         \A s \in Session :
           \/ session'[s].previous = session[s].previous
           \/ session'[s].previous = <<>>
  PROVE  RoomInv'
<1> SUFFICES ASSUME NEW s \in Session
             PROVE  Len(session'[s].previous) + Cardinality(Pushers(s)')
                      <= History - 1 + Cardinality(Request)
  BY DEF RoomInv
<1>1. /\ Cardinality(Pushers(s)') \in Nat
      /\ Cardinality(Pushers(s)') <= Cardinality(Pushers(s))
      /\ Cardinality(Pushers(s)) \in Nat
      /\ Cardinality(Request) \in Nat
  BY PushersFinite
<1>2. Len(session[s].previous) \in Nat
  BY LengthType
<1>3. Len(session[s].previous) + Cardinality(Pushers(s))
        <= History - 1 + Cardinality(Request)
  BY DEF RoomInv
<1>4. Len(session'[s].previous) <= Len(session[s].previous)
      /\ Len(session'[s].previous) \in Nat
  <2>1. Len(<<>>) = 0
    OBVIOUS
  <2> QED
    BY <1>2, <2>1
<1> QED
  BY <1>1, <1>2, <1>3, <1>4, Assumptions

LEMMA CalmHistory ==
  ASSUME TypeInv, HistoryInv, Calm
  PROVE  HistoryInv'
<1>1. \A r \in Request : pc'[r] = "rotate" =>
        pc[r] = "rotate" /\ target'[r] = target[r] /\ read'[r] = read[r]
  BY DEF Calm, CalmRequest
<1>2. VersionInv'
  BY <1>1 DEF Free, HistoryInv, VersionInv, Calm, SameTokens, Stored,
              TypeInv, TypeOK
<1>3. \A s \in Session : Pushers(s)' \subseteq Pushers(s)
  BY <1>1 DEF Pushers, WritesWholeHistory
<1>4. \A s \in Session : session'[s].previous = session[s].previous
  BY DEF Calm, SameTokens
<1> QED
  BY <1>2, <1>3, <1>4, NoNewPushers DEF HistoryInv

LEMMA LoginHistory ==
  ASSUME TypeInv, HistoryInv, NEW s \in Session, Login(s)
  PROVE  HistoryInv'
<1>1. ~Stored(s) /\ session[s].previous = <<>>
  BY DEF Login, Stored, TypeInv, Shape
<1>2. NewDoc(minted + 1).previous = <<>>
  <2>1. minted + 1 \in Nat
    BY Assumptions DEF TypeInv, TypeOK
  <2> QED
    BY <2>1, NewDocFacts
<1>3. \A q \in Session : session'[q] = IF q = s THEN NewDoc(minted + 1)
                                              ELSE session[q]
  BY DEF Login, TypeInv, TypeOK
<1>4. UNCHANGED <<pc, target, read>>
  BY DEF Login
<1>5. VersionInv'
  <2> SUFFICES ASSUME NEW r \in Request, pc'[r] = "rotate"
               PROVE  session'[target[r]] = session[target[r]]
    BY <1>4 DEF HistoryInv, VersionInv, Stored
  <2>1. target[r] # s
    BY <1>4 DEF HistoryInv, VersionInv, Login
  <2>2. target[r] \in Session
    BY <1>4 DEF Free, TypeInv, TypeOK
  <2> QED
    BY <1>3, <2>1, <2>2
<1>6. \A q \in Session : Pushers(q)' \subseteq Pushers(q)
  BY <1>4 DEF Pushers, WritesWholeHistory
<1>7. \A q \in Session : session'[q].previous = session[q].previous
  BY <1>1, <1>2, <1>3
<1> QED
  BY <1>5, <1>6, <1>7, NoNewPushers DEF HistoryInv

LEMMA DeleteHistory ==
  ASSUME TypeInv, HistoryInv, NEW s \in Session, Delete(s)
  PROVE  HistoryInv'
<1>1. \A q \in Session : session'[q] = IF q = s THEN DeletedDoc
                                              ELSE session[q]
  BY DEF Delete, TypeInv, TypeOK
<1>2. UNCHANGED <<pc, target, read>>
  BY DEF Delete
<1>3. VersionInv'
  <2> SUFFICES ASSUME NEW r \in Request, pc'[r] = "rotate"
               PROVE  \/ session'[target[r]] = session[target[r]]
                      \/ session'[target[r]].status = "deleted"
    BY <1>2 DEF HistoryInv, VersionInv, Stored
  <2>1. target[r] \in Session
    BY <1>2 DEF Free, TypeInv, TypeOK
  <2> QED
    BY <1>1, <2>1, DeletedDocFacts
<1>4. \A q \in Session : Pushers(q)' \subseteq Pushers(q)
  BY <1>2 DEF Pushers, WritesWholeHistory
<1>5. \A q \in Session :
        \/ session'[q].previous = session[q].previous
        \/ session'[q].previous = <<>>
  BY <1>1, DeletedDocFacts
<1> QED
  BY <1>3, <1>4, <1>5, NoNewPushers DEF HistoryInv

LEMMA FoundHistory ==
  ASSUME TypeInv, HistoryInv, NEW r \in Request, NEW s \in Session,
         NEW p \in Steps, Found(r, p, s)
  PROVE  HistoryInv'
<1>1. /\ session' = session
      /\ pc'[r] = p /\ target'[r] = s /\ read'[r] = session[s]
      /\ \A w \in Request : w # r =>
           pc'[w] = pc[w] /\ target'[w] = target[w] /\ read'[w] = read[w]
  BY DEF Found, GoTo, TypeInv, TypeOK
<1>2. VersionInv'
  <2>1. session[s].status = "stored" /\ session[s].version \in Nat
    BY DEF Found, Stored, TypeInv, TypeOK, SessionDoc
  <2> QED
    BY <1>1, <2>1 DEF HistoryInv, VersionInv, Stored
<1>3. RoomInv'
  <2> SUFFICES ASSUME NEW q \in Session
               PROVE  Len(session'[q].previous) + Cardinality(Pushers(q)')
                        <= History - 1 + Cardinality(Request)
    BY DEF RoomInv
  <2>1. /\ Len(session[q].previous) + Cardinality(Pushers(q))
             <= History - 1 + Cardinality(Request)
        /\ Len(session[q].previous) \in Nat
    BY LengthType DEF HistoryInv, RoomInv
  <2>2. CASE q = s /\ ~WritesWholeHistory(session[s])
    <3>1. Len(session[q].previous) <= History - 1
      BY <2>1, <2>2, Assumptions DEF WritesWholeHistory
    <3>2. /\ Cardinality(Pushers(q)') \in Nat
          /\ Cardinality(Pushers(q)') <= Cardinality(Request)
          /\ Cardinality(Request) \in Nat
      <4>1. Pushers(q)' \subseteq Request
        BY DEF Pushers
      <4> QED
        BY <4>1, Assumptions, FS_Subset, FS_CardinalityType
    <3> QED
      BY <1>1, <2>1, <3>1, <3>2, Assumptions
  <2>3. CASE ~(q = s /\ ~WritesWholeHistory(session[s]))
    <3>1. Pushers(q)' \subseteq Pushers(q)
      BY <1>1, <2>3 DEF Pushers, WritesWholeHistory
    <3>2. /\ Cardinality(Pushers(q)') \in Nat
          /\ Cardinality(Pushers(q)') <= Cardinality(Pushers(q))
          /\ Cardinality(Pushers(q)) \in Nat
          /\ Cardinality(Request) \in Nat
      BY <3>1, PushersFinite
    <3> QED
      BY <1>1, <2>1, <3>2, Assumptions
  <2> QED
    BY <2>2, <2>3
<1> QED
  BY <1>2, <1>3 DEF HistoryInv

LEMMA RotateSaveHistory ==
  ASSUME TypeInv, HistoryInv, NEW r \in Request, RotateSave(r)
  PROVE  HistoryInv'
<1> DEFINE s == target[r]
           h == NextHistory(session[s].previous, read[r])
<1>1. /\ s \in Session
      /\ Stored(s)
      /\ session'[s].status = "stored"
      /\ session'[s].previous = h
      /\ session'[s].version = session[s].version + 1
      /\ \A q \in Session : q # s => session'[q] = session[q]
  BY RotateSaveFacts
<1>2. /\ pc[r] = "rotate"
      /\ pc'[r] = "reply"
      /\ target' = target
      /\ \A w \in Request : w # r => pc'[w] = pc[w] /\ read'[w] = read[w]
  BY DEF RotateSave, TypeInv, TypeOK
<1>3. /\ WritesWholeHistory(read[r]) =>
           Len(h) = Len(read[r].previous)
      /\ ~WritesWholeHistory(read[r]) =>
           Len(h) = Len(session[s].previous) + 1
  <2>1. session[s].previous \in Seq(Token) /\ read[r] \in SessionDoc
    BY <1>1 DEF TypeInv, TypeOK
  <2>2. read[r].previous \in Seq(Token) /\ read[r].current \in Token
    BY <1>2 DEF TypeInv, Shape
  <2> QED
    BY <2>1, <2>2, NextHistoryFacts
<1>4. WritesWholeHistory(read[r]) =>
        read[r].previous = session[s].previous
  BY <1>1, <1>2 DEF RotateSave, SaveAccepted, HistoryInv, VersionInv
<1> HIDE DEF h
<1>5. VersionInv'
  <2> SUFFICES ASSUME NEW w \in Request, pc'[w] = "rotate"
               PROVE  /\ session'[target[w]].status # "none"
                      /\ Stored(target[w])' =>
                           /\ read'[w].version <= session'[target[w]].version
                           /\ read'[w].version = session'[target[w]].version =>
                                read'[w].previous = session'[target[w]].previous
    BY <1>2 DEF VersionInv, Stored
  <2>1. /\ w # r
        /\ pc[w] = "rotate"
        /\ read'[w] = read[w]
        /\ target[w] \in Session
    BY <1>2 DEF Free, TypeInv, TypeOK
  <2>2. CASE target[w] = s
    <3>1. read[w].version <= session[s].version
      BY <1>1, <2>1, <2>2 DEF HistoryInv, VersionInv
    <3>2. read[w].version \in Nat /\ session[s].version \in Nat
      BY <1>1 DEF TypeInv, TypeOK, SessionDoc
    <3> QED
      BY <1>1, <2>1, <2>2, <3>1, <3>2
  <2>3. CASE target[w] # s
    BY <1>1, <1>2, <2>1, <2>3 DEF HistoryInv, VersionInv, Stored
  <2> QED
    BY <2>2, <2>3
<1>6. RoomInv'
  <2> SUFFICES ASSUME NEW q \in Session
               PROVE  Len(session'[q].previous) + Cardinality(Pushers(q)')
                        <= History - 1 + Cardinality(Request)
    BY DEF RoomInv
  <2>1. /\ Len(session[q].previous) + Cardinality(Pushers(q))
             <= History - 1 + Cardinality(Request)
        /\ Len(session[q].previous) \in Nat
    BY LengthType DEF HistoryInv, RoomInv
  <2>2. Pushers(q)' \subseteq Pushers(q) \ {r}
    BY <1>2 DEF Pushers, WritesWholeHistory
  <2>3. /\ Cardinality(Pushers(q)') \in Nat
        /\ Cardinality(Pushers(q)') <= Cardinality(Pushers(q))
        /\ Cardinality(Pushers(q)) \in Nat
        /\ Cardinality(Request) \in Nat
    BY <2>2, PushersFinite
  <2>4. CASE q = s /\ ~WritesWholeHistory(read[r])
    <3>1. r \in Pushers(q)
      BY <1>2, <2>4 DEF Pushers
    <3>2. Cardinality(Pushers(q) \ {r}) = Cardinality(Pushers(q)) - 1
      BY <3>1, PushersFinite, FS_RemoveElement
    <3>3. Cardinality(Pushers(q)') <= Cardinality(Pushers(q) \ {r})
      <4>1. IsFiniteSet(Pushers(q) \ {r})
        BY PushersFinite, FS_RemoveElement
      <4> QED
        BY <2>2, <4>1, FS_Subset
    <3>4. Len(session'[q].previous) = Len(session[q].previous) + 1
      BY <1>1, <1>3, <2>4
    <3> QED
      BY <2>1, <2>3, <3>2, <3>3, <3>4, Assumptions
  <2>5. CASE ~(q = s /\ ~WritesWholeHistory(read[r]))
    <3>1. Len(session'[q].previous) = Len(session[q].previous)
      BY <1>1, <1>3, <1>4, <2>5
    <3> QED
      BY <2>1, <2>3, <3>1, Assumptions
  <2> QED
    BY <2>4, <2>5
<1> QED
  BY <1>5, <1>6 DEF HistoryInv

LEMMA NextHistoryInv == TypeInv /\ HistoryInv /\ [Next]_vars => HistoryInv'
<1> SUFFICES ASSUME TypeInv, HistoryInv, [Next]_vars PROVE HistoryInv'
  OBVIOUS
<1> QED
  BY StepKinds, CalmHistory, LoginHistory, DeleteHistory, FoundHistory,
     RotateSaveHistory

LEMMA RoomIsEnough == TypeInv /\ HistoryInv => HistoryBounded
<1> SUFFICES ASSUME TypeInv, HistoryInv, NEW s \in Session
             PROVE  Len(session[s].previous)
                      <= History - 1 + Cardinality(Request)
  BY DEF HistoryBounded
<1>1. Len(session[s].previous) + Cardinality(Pushers(s))
        <= History - 1 + Cardinality(Request)
  BY DEF HistoryInv, RoomInv
<1> QED
  BY <1>1, LengthType, PushersFinite, Assumptions

(* A session never remembers more replaced tokens than the limit and one   *)
(* more for each request that can run beside the first.                    *)
THEOREM HistoryBoundedProved == Spec => []HistoryBounded
<1>1. Spec => []TypeInv
  BY InitTypes, NextTypes, PTL DEF Spec
<1>2. Spec => []HistoryInv
  BY <1>1, InitHistory, NextHistoryInv, PTL DEF Spec
<1> QED
  BY <1>1, <1>2, RoomIsEnough, PTL

=============================================================================
