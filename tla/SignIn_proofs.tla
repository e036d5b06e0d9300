--------------------------- MODULE SignIn_proofs ---------------------------
(***************************************************************************)
(* Theorems about SignIn, for any number of requests, attempts and changes *)
(* of the password.                                                        *)
(*                                                                         *)
(* The argument: how an account is made and that it is verified never      *)
(* changes, so what a request has read of it still holds when it writes.   *)
(* What may be stale is the password.  When a change revokes the sessions, *)
(* everything under way is late, and what starts from then on too; so when *)
(* its save ends a password, no session that rests on it goes unmarked.    *)
(***************************************************************************)
EXTENDS SignIn, Integers, FiniteSetTheorems, TLAPS

(* Changes that revoke, of which the save is still to come and will be     *)
(* accepted.                                                               *)
Ending(j) ==
  /\ j.op \in {"profile", "reset"}
  /\ j.step = "save"
  /\ j.copy.password = user.password

SomeEnding == \E q \in Request : Ending(job[q])

(* A request that is about to let somebody in by a password.               *)
Opening(j) == j.step = "session" /\ j.op # "google"

UserInv ==
  /\ user.by = "google" => user.verified
  /\ user.by = "nobody" => user.password = 0 /\ ~user.verified

(* What a request knows of the account.                                    *)
JobOK(j) ==
  /\ j.op = "none" => j.step = "idle"
  /\ j.step = "session" => j.op \in {"google", "login", "profile"}
  /\ j.step = "create" => j.op \in {"register", "google"}
  /\ j.step = "revoke" => j.op \in {"profile", "reset"}
  /\ j.step = "save" => j.op \in {"change", "profile", "reset"}
  /\ j.step = "verify" => j.op = "verify"
  /\ j.step \in {"count", "open"} => j.op = "login"
  /\ j.op \in {"verify", "login", "change", "profile", "reset"} => user.by = "password"
  /\ j.op \in {"login", "profile"} => user.verified
  /\ j.op = "google" /\ j.step = "session" => user.by = "google"
  /\ j.copy.password <= user.password
  /\ Opening(j) /\ j.copy.password < ended => j.late

JobsInv == \A r \in Request : JobOK(job[r])

EndingInv ==
  SomeEnding =>
    /\ \A s \in session : s.by = "password" => s.late
    /\ \A r \in Request : Opening(job[r]) => job[r].late

Inv ==
  /\ TypeOK
  /\ OneWayIn
  /\ EndedPasswordIsLate
  /\ UserInv
  /\ JobsInv
  /\ EndingInv

-----------------------------------------------------------------------------
LEMMA BlankFacts == Blank \in Copy /\ Blank.password = 0
BY DEF Blank, Copy, Lock

LEMMA IdleFacts ==
  /\ Idle \in Job
  /\ Idle.op = "none"
  /\ Idle.step = "idle"
  /\ Idle.copy.password = 0
BY BlankFacts DEF Idle, Job

LEMMA IdleIsOK ==
  ASSUME user.password \in Nat
  PROVE  JobOK(Idle) /\ ~Ending(Idle) /\ ~Opening(Idle)
BY IdleFacts DEF JobOK, Ending, Opening

LEMMA TypeFacts ==
  ASSUME Inv
  PROVE  /\ user \in User
         /\ user.password \in Nat
         /\ session \subseteq Session
         /\ job \in [Request -> Job]
         /\ \A r \in Request : job[r] \in Job /\ JobOK(job[r])
         /\ ended \in Nat
         /\ ended <= user.password
         /\ guesses \in Nat
<1>1. user \in User /\ user.password \in Nat
  BY DEF Inv, TypeOK, User
<1> QED
  BY <1>1 DEF Inv, TypeOK, JobsInv

(* Nobody has a session, and only the two ways to make an account are      *)
(* under way, while there is none.                                         *)
LEMMA NobodyFacts ==
  ASSUME Inv, user.by = "nobody"
  PROVE  session = {} /\ ~SomeEnding
<1>1. session = {}
  BY TypeFacts DEF Inv, OneWayIn, Session
<1>2. ~SomeEnding
  BY TypeFacts DEF SomeEnding, Ending, JobOK
<1> QED
  BY <1>1, <1>2

(* A step that ends no password: how the account was made stays, once it   *)
(* is, and so does its verification.                                       *)
Settled ==
  /\ user' \in User
  /\ user'.password = user.password
  /\ ended' = ended
  /\ user.by # "nobody" => user'.by = user.by
  /\ user.verified => user'.verified

LEMMA SettledKeepsJobs ==
  ASSUME Inv, Settled, NEW j, JobOK(j)
  PROVE  JobOK(j)' /\ (Ending(j)' <=> Ending(j)) /\ (Opening(j)' <=> Opening(j))
<1>1. JobOK(j)'
  BY DEF Settled, JobOK, Opening
<1> QED
  BY <1>1 DEF Settled, Ending, Opening

(* One request goes on to j, which ends no password, and lets nobody in    *)
(* unmarked while another does.                                            *)
LEMMA OneJob ==
  ASSUME Inv, Settled, NEW r \in Request, NEW j \in Job,
         job' = [job EXCEPT ![r] = j],
         JobOK(j)', ~Ending(j)', Opening(j) /\ SomeEnding => j.late,
         \A s \in session' \ session : s.by = "password" /\ SomeEnding => s.late
  PROVE  job' \in [Request -> Job] /\ JobsInv' /\ EndingInv'
<1>1. \A q \in Request : job'[q] = IF q = r THEN j ELSE job[q]
  BY TypeFacts
<1>2. job' \in [Request -> Job]
  BY TypeFacts
<1>3. ASSUME NEW q \in Request, q # r
      PROVE  JobOK(job[q])' /\ (Ending(job[q])' <=> Ending(job[q]))
  <2>1. PICK k : k = job[q]
    OBVIOUS
  <2>2. JobOK(k)' /\ (Ending(k)' <=> Ending(k))
    BY <2>1, TypeFacts, SettledKeepsJobs
  <2>3. job'[q] = k
    BY <1>1, <1>3, <2>1
  <2> QED
    BY <2>1, <2>2, <2>3 DEF JobOK, Ending, Opening
<1>4. JobOK(job[r])' /\ ~Ending(job[r])'
  BY <1>1 DEF JobOK, Ending, Opening
<1>5. SomeEnding' => SomeEnding
  BY <1>3, <1>4 DEF SomeEnding
<1>6. EndingInv'
  <2> SUFFICES ASSUME SomeEnding'
               PROVE  /\ \A s \in session' : s.by = "password" => s.late
                      /\ \A q \in Request : Opening(job'[q]) => job'[q].late
    BY DEF EndingInv, Opening
  <2>1. SomeEnding
    BY <1>5
  <2>2. /\ \A s \in session : s.by = "password" => s.late
        /\ \A q \in Request : Opening(job[q]) => job[q].late
    BY <2>1 DEF Inv, EndingInv
  <2> QED
    BY <1>1, <2>1, <2>2
<1> QED
  BY <1>2, <1>3, <1>4, <1>6 DEF JobsInv

LEMMA FinishFacts ==
  ASSUME Inv, Settled, NEW r \in Request, Finish(r),
         \A s \in session' \ session : s.by = "password" /\ SomeEnding => s.late
  PROVE  job' \in [Request -> Job] /\ JobsInv' /\ EndingInv'
<1>1. user'.password \in Nat
  BY TypeFacts DEF Settled
<1>2. JobOK(Idle)' /\ ~Ending(Idle)' /\ ~Opening(Idle)
  BY <1>1, IdleFacts DEF JobOK, Ending, Opening, Idle
<1> QED
  BY <1>2, IdleFacts, OneJob DEF Finish

(* The request itself does not change, but for its step.                   *)
LEMMA GoesFacts ==
  ASSUME Inv, NEW r \in Request, NEW s \in {"session", "open"}, Goes(r, s)
  PROVE  \E j \in Job : /\ job' = [job EXCEPT ![r] = j]
                        /\ j.step = s
                        /\ j.op = job[r].op
                        /\ j.copy = job[r].copy
                        /\ j.late = job[r].late
<1> DEFINE j == [job[r] EXCEPT !.step = s]
<1>1. job[r] \in Job
  BY TypeFacts
<1>2. /\ j \in Job
      /\ j.step = s
      /\ j.op = job[r].op
      /\ j.copy = job[r].copy
      /\ j.late = job[r].late
  BY <1>1 DEF Job
<1>3. job' = [job EXCEPT ![r] = j]
  BY TypeFacts DEF Goes
<1> HIDE DEF j
<1> QED
  BY <1>2, <1>3

-----------------------------------------------------------------------------
(* A request starts, with what it has read of the account.                 *)
LEMMA FindKeeps ==
  ASSUME Inv, NEW r \in Request,
         NEW op \in {"register", "google", "verify", "login", "change", "profile", "reset"},
         NEW step \in {"create", "verify", "session", "count", "revoke", "save"},
         NEW copy \in Copy, Find(r, op, step, copy),
         step = "session" => op \in {"google", "login"},
         step = "create" => op \in {"register", "google"},
         step = "revoke" => op \in {"profile", "reset"},
         step = "save" => op = "change",
         step = "verify" => op = "verify",
         step = "count" => op = "login",
         op \in {"verify", "login", "change", "profile", "reset"} => user.by = "password",
         op \in {"login", "profile"} => user.verified,
         op = "google" /\ step = "session" => user.by = "google",
         copy.password <= user.password,
         step = "session" /\ op # "google" => copy.password = user.password
  PROVE  Inv'
<1>1. UNCHANGED <<user, session, ended, guesses>>
  BY DEF Find
<1>2. PICK j \in Job : /\ j.op = op /\ j.step = step /\ j.copy = copy
                       /\ j.late = Revoking
                       /\ job' = [job EXCEPT ![r] = j]
  <2> DEFINE e == [op |-> op, step |-> step, copy |-> copy, late |-> Revoking]
  <2>1. e \in Job /\ e.op = op /\ e.step = step /\ e.copy = copy /\ e.late = Revoking
    BY DEF Job, Revoking
  <2>2. job' = [job EXCEPT ![r] = e]
    BY DEF Find
  <2> HIDE DEF e
  <2> QED
    BY <2>1, <2>2
<1>3. Opening(j) /\ SomeEnding => j.late
  BY <1>2 DEF SomeEnding, Ending, Revoking
<1>4. Settled
  BY <1>1, TypeFacts DEF Settled
<1>5. JobOK(j)'
  BY <1>1, <1>2, TypeFacts DEF JobOK, Opening, Copy
<1>6. ~Ending(j)'
  BY <1>2 DEF Ending
<1>7. job' \in [Request -> Job] /\ JobsInv' /\ EndingInv'
  BY <1>1, <1>2, <1>3, <1>4, <1>5, <1>6, OneJob
<1> QED
  BY <1>1, <1>7 DEF Inv, TypeOK, OneWayIn, EndedPasswordIsLate, UserInv

LEMMA StartsKeep ==
  ASSUME Inv, NEW r \in Request,
         \/ \E op \in {"register", "google"} : RegisterFind(r, op)
         \/ GoogleFind(r)
         \/ VerifyFind(r)
         \/ \E right \in BOOLEAN : LoginFind(r, right)
         \/ \E op \in {"change", "profile", "reset"} : ChangeFind(r, op)
  PROVE  Inv'
<1>1. user.password \in Nat /\ user \in User
  BY TypeFacts
<1>2. \A n \in Nat : LET c == [Blank EXCEPT !.password = n]
                     IN  c \in Copy /\ c.password = n
  BY DEF Blank, Copy, Lock
<1>3. ASSUME NEW op \in {"register", "google"}, RegisterFind(r, op)
      PROVE  Inv'
  <2>1. Find(r, op, "create", Blank)
    BY <1>3 DEF RegisterFind
  <2> QED
    BY <1>1, <2>1, BlankFacts, FindKeeps
<1>4. CASE GoogleFind(r)
  <2>1. Find(r, "google", "session", Blank) /\ user.by = "google"
    BY <1>4 DEF GoogleFind
  <2> QED
    BY <1>1, <2>1, BlankFacts, FindKeeps
<1>5. CASE VerifyFind(r)
  <2>1. Find(r, "verify", "verify", Blank) /\ user.by = "password"
    BY <1>5 DEF VerifyFind, Inv, TypeOK
  <2> QED
    BY <1>1, <2>1, BlankFacts, FindKeeps
<1>6. ASSUME NEW right \in BOOLEAN, LoginFind(r, right)
      PROVE  Inv'
  <2>1. user.by = "password" /\ user.verified
    BY <1>6 DEF LoginFind
  <2> DEFINE read == [password |-> user.password, attempts |-> user.attempts,
                      lock |-> user.lock]
  <2>2. CASE right
    <3>1. PICK c \in Copy : /\ c.password = user.password
                            /\ Find(r, "login", "session", c)
      BY <1>1, <1>2, <1>6, <2>2 DEF LoginFind
    <3> QED
      BY <1>1, <2>1, <3>1, FindKeeps
  <2>3. CASE ~right
    <3>1. PICK c \in Copy : /\ c.password = 0
                            /\ Find(r, "login", "count", c)
      <4>1. [read EXCEPT !.password = 0] \in Copy /\ [read EXCEPT !.password = 0].password = 0
        BY <1>1 DEF User, Copy
      <4> QED
        BY <1>6, <2>3, <4>1 DEF LoginFind
    <3> QED
      BY <1>1, <2>1, <3>1, FindKeeps
  <2> QED
    BY <2>2, <2>3
<1>7. ASSUME NEW op \in {"change", "profile", "reset"}, ChangeFind(r, op)
      PROVE  Inv'
  <2>1. user.by = "password"
    BY <1>7 DEF ChangeFind
  <2>2. op = "profile" => user.verified
    BY <1>7 DEF ChangeFind, Inv, OneWayIn
  <2>3. PICK c \in Copy : /\ c.password = user.password
                          /\ Find(r, op, IF op = "change" THEN "save" ELSE "revoke", c)
    BY <1>1, <1>2, <1>7 DEF ChangeFind
  <2>4. CASE op = "change"
    BY <1>1, <2>1, <2>3, <2>4, FindKeeps
  <2>5. CASE op # "change"
    BY <1>1, <2>1, <2>2, <2>3, <2>5, FindKeeps
  <2> QED
    BY <2>4, <2>5
<1> QED
  BY <1>3, <1>4, <1>5, <1>6, <1>7

-----------------------------------------------------------------------------
(* The account changes, but not its password, and no session is added.     *)
LEMMA SettledKeeps ==
  ASSUME Inv, Settled, UserInv', session' = session,
         user'.link => user'.by = "password" /\ ~user'.verified,
         guesses' \in Nat,
         job' \in [Request -> Job], JobsInv', EndingInv'
  PROVE  Inv'
<1>1. TypeOK'
  <2>1. ended' \in 0 .. user'.password
    BY DEF Inv, TypeOK, Settled
  <2> QED
    BY <2>1 DEF Inv, TypeOK, Settled
<1>2. OneWayIn'
  <2>1. \A s \in session : s.by # "nobody"
    BY TypeFacts DEF Session
  <2> QED
    BY <2>1 DEF Inv, OneWayIn, Settled
<1>3. EndedPasswordIsLate'
  BY DEF Inv, EndedPasswordIsLate, Settled
<1> QED
  BY <1>1, <1>2, <1>3 DEF Inv

LEMMA StoredFacts ==
  ASSUME Inv, NEW new \in User, new.password = 0,
         new.link => new.by = "password" /\ ~new.verified,
         new.by # "nobody", new.by = "google" => new.verified,
         user' = Stored(new), ended' = ended
  PROVE  /\ Settled
         /\ UserInv'
         /\ user'.link => user'.by = "password" /\ ~user'.verified
<1>1. CASE user.by = "nobody"
  <2>1. user' = new
    BY <1>1 DEF Stored
  <2> QED
    BY <1>1, <2>1, TypeFacts DEF Settled, UserInv, Inv
<1>2. CASE user.by # "nobody"
  <2>1. user' = user
    BY <1>2 DEF Stored
  <2> QED
    BY <2>1, TypeFacts DEF Settled, UserInv, Inv, TypeOK
<1> QED
  BY <1>1, <1>2

LEMMA RegisterCreateKeeps ==
  ASSUME Inv, NEW r \in Request, RegisterCreate(r)
  PROVE  Inv'
<1> DEFINE new == [NewUser EXCEPT !.by = "password", !.link = TRUE]
<1>1. /\ new \in User
      /\ new.by = "password" /\ new.password = 0 /\ ~new.verified
  BY DEF NewUser, User, Lock
<1>2. /\ user' = Stored(new)
      /\ Finish(r)
      /\ UNCHANGED <<session, ended, guesses>>
  BY DEF RegisterCreate
<1> HIDE DEF new
<1>3. /\ Settled
      /\ UserInv'
      /\ user'.link => user'.by = "password" /\ ~user'.verified
  BY <1>1, <1>2, StoredFacts
<1>4. job' \in [Request -> Job] /\ JobsInv' /\ EndingInv'
  BY <1>2, <1>3, FinishFacts
<1> QED
  BY <1>2, <1>3, <1>4, TypeFacts, SettledKeeps

LEMMA GoogleCreateKeeps ==
  ASSUME Inv, NEW r \in Request, GoogleCreate(r)
  PROVE  Inv'
<1> DEFINE new == [NewUser EXCEPT !.by = "google", !.verified = TRUE]
<1>1. /\ new \in User
      /\ new.by = "google" /\ new.password = 0 /\ new.verified /\ ~new.link
  BY DEF NewUser, User, Lock
<1>2. /\ user' = Stored(new)
      /\ job[r].op = "google"
      /\ UNCHANGED <<session, ended, guesses>>
      /\ IF user.by = "nobody" THEN Goes(r, "session") ELSE Finish(r)
  BY DEF GoogleCreate
<1> HIDE DEF new
<1>3. /\ Settled
      /\ UserInv'
      /\ user'.link => user'.by = "password" /\ ~user'.verified
  BY <1>1, <1>2, StoredFacts
<1>4. job' \in [Request -> Job] /\ JobsInv' /\ EndingInv'
  <2>1. CASE user.by = "nobody"
    <3>1. PICK j \in Job : /\ job' = [job EXCEPT ![r] = j]
                           /\ j.step = "session"
                           /\ j.op = "google"
                           /\ j.copy = job[r].copy
      BY <1>2, <2>1, GoesFacts
    <3>2. user' = new
      BY <1>2, <2>1 DEF Stored
    <3>3. job[r].copy.password <= user'.password
      BY <1>3, TypeFacts DEF JobOK, Settled
    <3>4. JobOK(j)' /\ ~Ending(j)' /\ ~Opening(j)
      BY <1>1, <3>1, <3>2, <3>3 DEF JobOK, Ending, Opening
    <3> QED
      BY <1>2, <1>3, <3>1, <3>4, OneJob
  <2>2. CASE user.by # "nobody"
    BY <1>2, <1>3, <2>2, FinishFacts
  <2> QED
    BY <2>1, <2>2
<1> QED
  BY <1>2, <1>3, <1>4, TypeFacts, SettledKeeps

LEMMA VerifySaveKeeps ==
  ASSUME Inv, NEW r \in Request, VerifySave(r)
  PROVE  Inv'
<1>1. /\ user' = Verified(user)
      /\ Finish(r)
      /\ UNCHANGED <<session, ended, guesses>>
  BY DEF VerifySave
<1>2. user.by = "password"
  BY TypeFacts DEF VerifySave, JobOK
<1>3. /\ user' \in User
      /\ user'.by = user.by /\ user'.password = user.password
      /\ user'.verified /\ ~user'.link
  BY <1>1, TypeFacts DEF Verified, User
<1>4. Settled /\ UserInv'
  BY <1>1, <1>2, <1>3 DEF Settled, UserInv
<1>5. job' \in [Request -> Job] /\ JobsInv' /\ EndingInv'
  BY <1>1, <1>4, FinishFacts
<1> QED
  BY <1>1, <1>3, <1>4, <1>5, TypeFacts, SettledKeeps

(* The account changes in what no other request goes by, and no request    *)
(* goes on.                                                                *)
LEMMA ExpiryKeeps ==
  ASSUME Inv, LinkExpires \/ LockExpires
  PROVE  Inv'
<1>1. /\ user' \in User
      /\ user'.by = user.by /\ user'.password = user.password
      /\ user'.verified = user.verified
      /\ user'.link => user.link
  BY TypeFacts DEF LinkExpires, LockExpires, User, Lock
<1>2. UNCHANGED <<session, job, ended>> /\ guesses' \in Nat
  BY TypeFacts DEF LinkExpires, LockExpires
<1>3. Settled /\ UserInv'
  BY <1>1, <1>2 DEF Settled, UserInv, Inv
<1>4. job' \in [Request -> Job] /\ JobsInv' /\ EndingInv'
  BY <1>1, <1>2 DEF Inv, TypeOK, JobsInv, JobOK, Opening, EndingInv, SomeEnding, Ending
<1>5. user'.link => user'.by = "password" /\ ~user'.verified
  BY <1>1 DEF Inv, TypeOK
<1> QED
  BY <1>2, <1>3, <1>4, <1>5, SettledKeeps

(* A login ends: the count of wrong passwords is reset or goes up.         *)
LEMMA AttemptsKeep ==
  ASSUME Inv, NEW r \in Request, ResetLoginAttempts(r) \/ IncLoginAttempts(r)
  PROVE  Inv'
<1>1. Finish(r) /\ UNCHANGED <<session, ended>> /\ guesses' \in Nat
  BY TypeFacts DEF ResetLoginAttempts, IncLoginAttempts
<1>2. PICK n \in Nat, l \in Lock : user' = [user EXCEPT !.attempts = n, !.lock = l]
  <2>1. user \in User /\ user.attempts \in Nat /\ user.lock \in Lock
    BY TypeFacts DEF User
  <2>2. CASE ResetLoginAttempts(r)
    BY <2>2 DEF ResetLoginAttempts, Lock
  <2>3. CASE IncLoginAttempts(r)
    <3> DEFINE n == user.attempts + 1
               l == IF job[r].copy.attempts + 1 >= MaxAttempts THEN "active" ELSE user.lock
    <3>1. n \in Nat /\ l \in Lock
      BY <2>1 DEF Lock
    <3>2. \/ user' = [user EXCEPT !.attempts = 1, !.lock = "none"]
          \/ user' = [user EXCEPT !.attempts = n, !.lock = l]
      BY <2>1, <2>3 DEF IncLoginAttempts, Counted, User
    <3> HIDE DEF n, l
    <3> QED
      BY <3>1, <3>2 DEF Lock
  <2> QED
    BY <2>2, <2>3
<1>3. /\ user' \in User
      /\ user'.by = user.by /\ user'.password = user.password
      /\ user'.verified = user.verified
      /\ user'.link = user.link
  BY <1>2, TypeFacts DEF User
<1>4. Settled /\ UserInv'
  BY <1>1, <1>3 DEF Settled, UserInv, Inv
<1>5. job' \in [Request -> Job] /\ JobsInv' /\ EndingInv'
  BY <1>1, <1>4, FinishFacts
<1>6. user'.link => user'.by = "password" /\ ~user'.verified
  BY <1>3 DEF Inv, TypeOK
<1> QED
  BY <1>1, <1>4, <1>5, <1>6, SettledKeeps

LEMMA FailKeeps ==
  ASSUME Inv, NEW r \in Request, Fail(r)
  PROVE  Inv'
<1>1. Finish(r) /\ UNCHANGED <<user, session, ended, guesses>>
  BY DEF Fail
<1>2. Settled
  BY <1>1, TypeFacts DEF Settled
<1>3. job' \in [Request -> Job] /\ JobsInv' /\ EndingInv'
  BY <1>1, <1>2, FinishFacts
<1> QED
  BY <1>1, <1>3 DEF Inv, TypeOK, OneWayIn, EndedPasswordIsLate, UserInv

LEMMA SessionEndsKeeps ==
  ASSUME Inv, NEW s \in session, SessionEnds(s)
  PROVE  Inv'
<1>1. UNCHANGED <<user, job, ended, guesses>> /\ session' \subseteq session
  BY DEF SessionEnds
<1> QED
  BY <1>1 DEF Inv, TypeOK, OneWayIn, EndedPasswordIsLate, UserInv, JobsInv, JobOK,
     Opening, EndingInv, SomeEnding, Ending

LEMMA CreateSessionKeeps ==
  ASSUME Inv, NEW r \in Request, CreateSession(r)
  PROVE  Inv'
<1> DEFINE j == job[r]
<1>1. /\ j \in Job /\ JobOK(j)
      /\ j.step = "session"
      /\ j.op \in {"google", "login", "profile"}
      /\ j.copy \in Copy
  BY TypeFacts DEF CreateSession, JobOK, Job
<1>2. UNCHANGED <<user, ended, guesses>>
  BY DEF CreateSession
<1>3. PICK s \in Session :
        /\ s.by = IF j.op = "google" THEN "google" ELSE "password"
        /\ s.password = j.copy.password
        /\ s.late = j.late
        /\ session' = session \cup {s}
  <2> DEFINE e == [by |-> IF j.op = "google" THEN "google" ELSE "password",
                   password |-> j.copy.password, late |-> j.late]
  <2>1. /\ e \in Session
        /\ e.by = IF j.op = "google" THEN "google" ELSE "password"
        /\ e.password = j.copy.password
        /\ e.late = j.late
    BY <1>1 DEF Session, Job, Copy
  <2>2. session' = session \cup {e}
    BY DEF CreateSession
  <2> HIDE DEF e
  <2> QED
    BY <2>1, <2>2
<1>4. s.by = user.by /\ user.verified
  BY <1>1, <1>3 DEF JobOK, Inv, UserInv
<1>5. s.by = "password" => Opening(j)
  BY <1>1, <1>3 DEF Opening
<1>6. Settled
  BY <1>2, TypeFacts DEF Settled
<1>7. \A x \in session' \ session : x.by = "password" /\ SomeEnding => x.late
  BY <1>3, <1>5 DEF Inv, EndingInv
<1>8. job' \in [Request -> Job] /\ JobsInv' /\ EndingInv'
  <2>1. CASE j.op = "login"
    <3>1. PICK k \in Job : /\ job' = [job EXCEPT ![r] = k]
                           /\ k.step = "open"
                           /\ k.op = j.op
                           /\ k.copy = j.copy
      BY <2>1, GoesFacts DEF CreateSession
    <3>2. JobOK(k)' /\ ~Ending(k)' /\ ~Opening(k)
      BY <1>1, <1>2, <2>1, <3>1 DEF JobOK, Ending, Opening
    <3> QED
      BY <1>6, <1>7, <3>1, <3>2, OneJob
  <2>2. CASE j.op # "login"
    BY <1>6, <1>7, <2>2, FinishFacts DEF CreateSession
  <2> QED
    BY <2>1, <2>2
<1>9. TypeOK'
  BY <1>2, <1>3, <1>8 DEF Inv, TypeOK
<1>10. OneWayIn'
  BY <1>2, <1>3, <1>4 DEF Inv, OneWayIn
<1>11. EndedPasswordIsLate'
  BY <1>1, <1>2, <1>3, <1>5 DEF Inv, EndedPasswordIsLate, JobOK
<1>12. UserInv'
  BY <1>2 DEF Inv, UserInv
<1> QED
  BY <1>8, <1>9, <1>10, <1>11, <1>12 DEF Inv

-----------------------------------------------------------------------------
(* Nobody is left, and whoever is about to come in is late.                *)
LEMMA RevokeKeeps ==
  ASSUME Inv, NEW r \in Request, Revoke(r)
  PROVE  Inv'
<1>1. UNCHANGED <<user, ended, guesses>> /\ session' = {}
  BY DEF Revoke, RevokeAll
<1>2. ASSUME NEW q \in Request
      PROVE  /\ job'[q] \in Job
             /\ JobOK(job[q])'
             /\ Opening(job'[q]) => job'[q].late
  <2>1. job[q] \in Job /\ JobOK(job[q])
    BY TypeFacts
  <2>2. CASE q = r
    <3>1. job'[q] = [job[q] EXCEPT !.step = "save"]
      BY <2>2 DEF Revoke
    <3>2. /\ job'[q] \in Job
          /\ job'[q].step = "save" /\ job'[q].op = job[q].op
          /\ job'[q].copy = job[q].copy
      BY <2>1, <3>1 DEF Job
    <3>3. job[q].step = "revoke"
      BY <2>2 DEF Revoke
    <3> QED
      BY <1>1, <2>1, <3>2, <3>3 DEF JobOK, Opening
  <2>3. CASE q # r
    <3>1. job'[q] = [job[q] EXCEPT !.late = job[q].op # "none"]
      BY <2>3 DEF Revoke
    <3>2. PICK b \in BOOLEAN : b = (job[q].op # "none")
      OBVIOUS
    <3>3. /\ job'[q] \in Job
          /\ job'[q].step = job[q].step /\ job'[q].op = job[q].op
          /\ job'[q].copy = job[q].copy /\ job'[q].late = b
      BY <2>1, <3>1, <3>2 DEF Job
    <3>4. Opening(job'[q]) => job'[q].late
      BY <2>1, <3>2, <3>3 DEF Opening, JobOK
    <3> QED
      BY <1>1, <2>1, <3>3, <3>4 DEF JobOK, Opening
  <2> QED
    BY <2>2, <2>3
<1>3. job' = [q \in Request |-> job'[q]]
  BY DEF Revoke
<1>4. job' \in [Request -> Job]
  BY <1>2, <1>3
<1>5. JobsInv'
  BY <1>2 DEF JobsInv
<1>6. EndingInv'
  BY <1>1, <1>2 DEF EndingInv, Opening
<1> QED
  BY <1>1, <1>4, <1>5, <1>6 DEF Inv, TypeOK, OneWayIn, EndedPasswordIsLate, UserInv

(* The password is saved: every other change has read the one before, and  *)
(* if this one ends it, whoever came in by it is late.                     *)
LEMMA SavePasswordKeeps ==
  ASSUME Inv, NEW r \in Request, SavePassword(r)
  PROVE  Inv'
<1>1. PICK j \in Job : j = job[r]
  BY TypeFacts
<1>2. PICK new \in Nat : new = user.password + 1
  BY TypeFacts
<1>3. /\ j.step = "save"
      /\ j.op \in {"change", "profile", "reset"}
      /\ j.copy.password = user.password
      /\ user' = [user EXCEPT !.password = new]
      /\ ended' = IF j.op = "change" THEN ended ELSE new
      /\ UNCHANGED <<session, guesses>>
  BY <1>1, <1>2, TypeFacts DEF SavePassword, JobOK
<1>4. /\ user' \in User
      /\ user'.by = user.by /\ user'.verified = user.verified
      /\ user'.link = user.link /\ user'.password = new
  BY <1>3, TypeFacts DEF User
<1>5. user.by = "password" /\ (j.op = "profile" => user.verified)
  BY <1>1, <1>3, TypeFacts DEF JobOK
<1>6. PICK k \in Job : /\ job' = [job EXCEPT ![r] = k]
                       /\ k = Idle \/ (/\ k.op = "profile" /\ j.op = "profile"
                                       /\ k.step = "session"
                                       /\ k.copy.password = new)
  <2>1. CASE j.op = "profile"
    <3> DEFINE e == [j EXCEPT !.step = "session", !.copy.password = new, !.late = FALSE]
    <3>1. j.copy \in Copy
      BY DEF Job
    <3>2. PICK c \in Copy : c = [j.copy EXCEPT !.password = new] /\ c.password = new
      <4>1. /\ [j.copy EXCEPT !.password = new] \in Copy
            /\ [j.copy EXCEPT !.password = new].password = new
        BY <3>1 DEF Copy
      <4> QED
        BY <4>1
    <3>3. e = [j EXCEPT !.step = "session", !.copy = c, !.late = FALSE]
      BY <3>2 DEF Job
    <3>4. e \in Job /\ e.op = "profile" /\ e.step = "session" /\ e.copy = c
      <4> HIDE DEF e
      <4> QED
        BY <2>1, <3>3 DEF Job
    <3>5. job' = [job EXCEPT ![r] = e]
      BY <1>1, <1>2, <2>1 DEF SavePassword
    <3> HIDE DEF e
    <3> QED
      BY <2>1, <3>2, <3>4, <3>5
  <2>2. CASE j.op # "profile"
    BY <1>1, <2>2, IdleFacts DEF SavePassword
  <2> QED
    BY <2>1, <2>2
<1>7. \A q \in Request : job'[q] = IF q = r THEN k ELSE job[q]
  BY <1>6, TypeFacts
<1>8. job' \in [Request -> Job]
  BY <1>6, TypeFacts
<1>9. j.op # "change" => SomeEnding
  BY <1>1, <1>3 DEF SomeEnding, Ending
<1>10. j.op # "change" =>
         /\ \A s \in session : s.by = "password" => s.late
         /\ \A q \in Request : Opening(job[q]) => job[q].late
  BY <1>9 DEF Inv, EndingInv
<1>11. ASSUME NEW q \in Request
       PROVE  JobOK(job[q])' /\ ~Ending(job[q])'
  <2>1. CASE q = r
    <3>1. job'[q] = k
      BY <1>7, <2>1
    <3>2. ended' <= new /\ ended' \in Nat
      BY <1>2, <1>3, TypeFacts
    <3>3. CASE k = Idle
      BY <1>4, <3>1, <3>3, IdleFacts DEF JobOK, Ending, Opening
    <3>4. CASE k # Idle
      BY <1>4, <1>5, <1>6, <3>1, <3>2, <3>4 DEF JobOK, Ending, Opening
    <3> QED
      BY <3>3, <3>4
  <2>2. CASE q # r
    <3>1. job'[q] = job[q]
      BY <1>7, <2>2
    <3>2. job[q] \in Job /\ JobOK(job[q]) /\ job[q].copy.password \in Nat
      BY TypeFacts DEF Job, Copy
    <3>3. job[q].copy.password < new /\ job[q].copy.password <= new
      BY <1>2, <3>2, TypeFacts DEF JobOK
    <3>4. ~Ending(job[q])'
      BY <1>4, <3>1, <3>2, <3>3 DEF Ending
    <3>5. Opening(job[q]) /\ job[q].copy.password < ended' => job[q].late
      BY <1>3, <1>10, <3>2 DEF JobOK
    <3> QED
      BY <1>4, <3>1, <3>2, <3>3, <3>4, <3>5 DEF JobOK, Opening
  <2> QED
    BY <2>1, <2>2
<1>12. JobsInv' /\ EndingInv'
  BY <1>11 DEF JobsInv, EndingInv, SomeEnding
<1>13. TypeOK'
  <2>1. ended' \in 0 .. user'.password
    BY <1>2, <1>3, <1>4, TypeFacts
  <2> QED
    BY <1>3, <1>4, <1>8, <2>1 DEF Inv, TypeOK
<1>14. OneWayIn' /\ UserInv'
  BY <1>3, <1>4, <1>5 DEF Inv, OneWayIn, UserInv
<1>15. EndedPasswordIsLate'
  BY <1>3, <1>10 DEF Inv, EndedPasswordIsLate
<1> QED
  BY <1>12, <1>13, <1>14, <1>15 DEF Inv

-----------------------------------------------------------------------------
LEMMA InitHolds == Init => Inv
<1> SUFFICES ASSUME Init
             PROVE  Inv
  OBVIOUS
<1>1. /\ user \in User
      /\ user.by = "nobody" /\ user.password = 0 /\ ~user.verified /\ ~user.link
  BY DEF Init, NewUser, User, Lock
<1>2. \A r \in Request : job[r] = Idle
  BY DEF Init
<1>3. \A r \in Request : JobOK(job[r]) /\ ~Ending(job[r])
  BY <1>1, <1>2, IdleIsOK
<1>4. TypeOK
  BY <1>1, IdleFacts DEF Init, TypeOK
<1>5. OneWayIn /\ EndedPasswordIsLate
  BY DEF Init, OneWayIn, EndedPasswordIsLate
<1>6. UserInv /\ JobsInv /\ EndingInv
  BY <1>1, <1>3 DEF UserInv, JobsInv, EndingInv, SomeEnding
<1> QED
  BY <1>4, <1>5, <1>6 DEF Inv

LEMMA NextKeeps == Inv /\ [Next]_vars => Inv'
<1> SUFFICES ASSUME Inv, [Next]_vars
             PROVE  Inv'
  OBVIOUS
<1>1. CASE UNCHANGED vars
  BY <1>1 DEF vars, Inv, TypeOK, OneWayIn, EndedPasswordIsLate, UserInv, JobsInv, JobOK,
     Opening, EndingInv, SomeEnding, Ending
<1> QED
  BY <1>1, StartsKeep, RegisterCreateKeeps, GoogleCreateKeeps, VerifySaveKeeps,
     CreateSessionKeeps, AttemptsKeep, RevokeKeeps, SavePasswordKeeps, FailKeeps,
     ExpiryKeeps, SessionEndsKeeps DEF Next

(* Every step of every request keeps Inv.                                  *)
THEOREM Invariance == Spec => []Inv
<1> QED
  BY InitHolds, NextKeeps, PTL DEF Spec

(* The account and the requests stay well formed: a verification link      *)
(* works only for an account with a password that is not verified, and no  *)
(* password is ended that is still to come.                                *)
THEOREM TypeCorrect == Spec => []TypeOK
<1>1. Inv => TypeOK
  BY DEF Inv
<1> QED
  BY <1>1, Invariance, PTL

(* Whoever is in came the way the account was made, and after its address  *)
(* was verified, whichever registrations, links and logins overlapped.     *)
THEOREM OneWayInProved == Spec => []OneWayIn
<1>1. Inv => OneWayIn
  BY DEF Inv
<1> QED
  BY <1>1, Invariance, PTL

(* A password that a reset or a change in the profile has ended lets       *)
(* nobody in, but whom it was letting in when that change revoked.         *)
THEOREM EndedPasswordIsLateProved == Spec => []EndedPasswordIsLate
<1>1. Inv => EndedPasswordIsLate
  BY DEF Inv
<1> QED
  BY <1>1, Invariance, PTL

-----------------------------------------------------------------------------
(* Now the guesses.  A request that counts a wrong password goes by the    *)
(* copy it has read: with a lock in it that had expired, it will open the  *)
(* account again and start the count anew; with a count that reaches the   *)
(* limit, it will lock the account; otherwise it only counts.  What is     *)
(* still to come is bounded by these requests, those not under way, and    *)
(* what the stored count leaves.                                           *)
N == Cardinality(Request)

Reaches(copy) == copy.attempts + 1 >= MaxAttempts

Forgiving == {r \in Request : job[r].step = "count" /\ job[r].copy.lock = "expired"}

Locking == {r \in Request : /\ job[r].step = "count"
                            /\ job[r].copy.lock # "expired"
                            /\ Reaches(job[r].copy)}

Counting == {r \in Request : /\ job[r].step = "count"
                             /\ job[r].copy.lock # "expired"
                             /\ ~Reaches(job[r].copy)}

(* What e forgiving requests can make possible, each in its turn.          *)
Most(e) == e * (MaxAttempts + 2 * N - e - 1)

(* What is possible before the next of them, if c requests count and l     *)
(* lock.                                                                   *)
Left(lock, attempts, e, c, l) ==
  IF lock = "active" THEN c + l
  ELSE IF attempts + 1 < MaxAttempts THEN (MaxAttempts - 1 - attempts) + 2 * (N - e) - 1
  ELSE c + (N - e)

Within(g, lock, attempts, e, c, l) ==
  g + Left(lock, attempts, e, c, l) + Most(e) <= Most(N)

GuessInv ==
  /\ user.by = "nobody" => user.attempts = 0 /\ user.lock = "none"
  /\ user.lock = "expired" => guesses = 0 /\ Locking = {} /\ Counting = {}
  /\ Request = {} => guesses = 0
  /\ Request # {} /\ user.lock # "expired" =>
       Within(guesses, user.lock, user.attempts,
              Cardinality(Forgiving), Cardinality(Counting), Cardinality(Locking))

LEMMA Sized == N \in Nat /\ MaxAttempts \in Nat /\ MaxAttempts >= 2 /\ (Request # {} => N >= 1)
BY Assumptions, FS_CardinalityType, FS_EmptySet DEF N

LEMMA MostStep ==
  ASSUME NEW e \in Nat
  PROVE  /\ Most(e) \in Int
         /\ Most(e + 1) = Most(e) + MaxAttempts + 2 * (N - e) - 2
<1>1. PICK m \in Nat, k \in Nat : m = MaxAttempts /\ k = N
  BY Sized
<1>2. (e + 1) * (m + 2 * k - (e + 1) - 1) = e * (m + 2 * k - e - 1) + m + 2 * (k - e) - 2
  BY <1>1, SMT
<1>3. e * (m + 2 * k - e - 1) \in Int
  BY <1>1
<1> QED
  BY <1>1, <1>2, <1>3 DEF Most

LEMMA MostGrows ==
  ASSUME NEW e \in Nat, e <= N
  PROVE  Most(e) <= Most(N)
<1>1. PICK m \in Nat, d \in Nat : m + 1 = MaxAttempts /\ d = N - e
  BY Sized
<1>2. Most(N) = (e + d) * (m + e + d)
  BY <1>1, Sized DEF Most
<1>3. Most(e) = e * (m + e + 2 * d)
  BY <1>1, Sized DEF Most
<1>4. (e + d) * (m + e + d) = e * (m + e + 2 * d) + d * m + d * d
  BY <1>1, SMT
<1>5. d * m \in Nat /\ d * d \in Nat
  BY <1>1
<1>6. e * (m + e + 2 * d) \in Nat
  BY <1>1
<1> QED
  BY <1>2, <1>3, <1>4, <1>5, <1>6

LEMMA OneLess ==
  ASSUME NEW S, NEW x, IsFiniteSet(S)
  PROVE  /\ Cardinality(S \ {x}) \in Nat
         /\ Cardinality(S \ {x}) <= Cardinality(S)
         /\ x \in S => Cardinality(S \ {x}) + 1 = Cardinality(S)
         /\ x \notin S => Cardinality(S \ {x}) = Cardinality(S)
<1>1. /\ IsFiniteSet(S \ {x})
      /\ Cardinality(S \ {x}) = IF x \in S THEN Cardinality(S) - 1 ELSE Cardinality(S)
  BY FS_RemoveElement
<1>2. Cardinality(S) \in Nat /\ Cardinality(S \ {x}) \in Nat
  BY <1>1, FS_CardinalityType
<1> QED
  BY <1>1, <1>2

LEMMA Apart ==
  ASSUME NEW S, NEW T, IsFiniteSet(S), IsFiniteSet(T), S \cap T = {}
  PROVE  Cardinality(S \cup T) = Cardinality(S) + Cardinality(T)
<1>1. Cardinality(S \cup T) = Cardinality(S) + Cardinality(T) - Cardinality(S \cap T)
  BY FS_Union
<1>2. Cardinality(S \cap T) = 0
  BY FS_EmptySet
<1>3. Cardinality(S) \in Nat /\ Cardinality(T) \in Nat
  BY FS_CardinalityType
<1> QED
  BY <1>1, <1>2, <1>3

(* The numbers of the three kinds of requests, now and after the step.     *)
LEMMA Numbers ==
  /\ IsFiniteSet(Forgiving) /\ IsFiniteSet(Counting) /\ IsFiniteSet(Locking)
  /\ Cardinality(Forgiving) \in Nat
  /\ Cardinality(Counting) \in Nat
  /\ Cardinality(Locking) \in Nat
  /\ Cardinality(Forgiving) + Cardinality(Counting) + Cardinality(Locking) <= N
<1>1. IsFiniteSet(Request) /\ Forgiving \subseteq Request /\ Counting \subseteq Request
      /\ Locking \subseteq Request
  BY Assumptions DEF Forgiving, Counting, Locking
<1>2. IsFiniteSet(Forgiving) /\ IsFiniteSet(Counting) /\ IsFiniteSet(Locking)
  BY <1>1, FS_Subset
<1>3. Forgiving \cap Counting = {} /\ (Forgiving \cup Counting) \cap Locking = {}
  BY DEF Forgiving, Counting, Locking
<1>4. IsFiniteSet(Forgiving \cup Counting)
  BY <1>2, FS_Union
<1>5. Cardinality(Forgiving \cup Counting) = Cardinality(Forgiving) + Cardinality(Counting)
  BY <1>2, <1>3, Apart
<1>6. Cardinality((Forgiving \cup Counting) \cup Locking)
        = Cardinality(Forgiving \cup Counting) + Cardinality(Locking)
  BY <1>2, <1>3, <1>4, Apart
<1>7. Cardinality((Forgiving \cup Counting) \cup Locking) <= N
  BY <1>1, FS_Subset DEF N
<1> QED
  BY <1>2, <1>5, <1>6, <1>7, FS_CardinalityType

(* An answer takes its request out of the three.                           *)
LEMMA FinishLeaves ==
  ASSUME Inv, NEW r \in Request, Finish(r)
  PROVE  /\ Forgiving' = Forgiving \ {r}
         /\ Counting' = Counting \ {r}
         /\ Locking' = Locking \ {r}
<1>1. \A q \in Request : job'[q] = IF q = r THEN Idle ELSE job[q]
  BY TypeFacts DEF Finish
<1>2. Idle.step # "count"
  BY IdleFacts
<1> QED
  BY <1>1, <1>2 DEF Forgiving, Counting, Locking, Reaches

(* No request begins or ends to count.                                     *)
LEMMA SameCounts ==
  ASSUME \A q \in Request : \/ job'[q] = job[q]
                            \/ job'[q].step # "count" /\ job[q].step # "count"
                            \/ job'[q].step = job[q].step /\ job'[q].copy = job[q].copy
  PROVE  Forgiving' = Forgiving /\ Counting' = Counting /\ Locking' = Locking
BY DEF Forgiving, Counting, Locking, Reaches

-----------------------------------------------------------------------------
(* The account is not touched, and some requests may have been answered.   *)
LEMMA FewerKeep ==
  ASSUME Inv, GuessInv, guesses' = guesses,
         user'.attempts = user.attempts, user'.lock = user.lock,
         user'.by = "nobody" => user.by = "nobody",
         NEW r,
         /\ Forgiving' = Forgiving \ {r}
         /\ Counting' = Counting \ {r}
         /\ Locking' = Locking \ {r}
  PROVE  GuessInv'
<1> DEFINE e == Cardinality(Forgiving)
           c == Cardinality(Counting)
           l == Cardinality(Locking)
           e2 == Cardinality(Forgiving \ {r})
           c2 == Cardinality(Counting \ {r})
           l2 == Cardinality(Locking \ {r})
<1>1. /\ e \in Nat /\ c \in Nat /\ l \in Nat /\ e + c + l <= N
      /\ e2 \in Nat /\ c2 \in Nat /\ l2 \in Nat
      /\ c2 <= c /\ l2 <= l /\ (e2 = e \/ e2 + 1 = e)
  BY Numbers, OneLess
<1>2. user.attempts \in Nat /\ user.lock \in Lock /\ guesses \in Nat
  BY TypeFacts DEF User
<1>3. ASSUME Within(guesses, user.lock, user.attempts, e, c, l)
      PROVE  Within(guesses, user.lock, user.attempts, e2, c2, l2)
  <2> HIDE DEF e, c, l, e2, c2, l2
  <2>1. Most(N) \in Int /\ Most(e) \in Int /\ Most(e2) \in Int
    BY <1>1, Sized, MostStep
  <2>2. CASE e2 = e
    BY <1>1, <1>2, <1>3, <2>1, <2>2, Sized DEF Within, Left
  <2>3. CASE e2 + 1 = e
    <3>1. Most(e) = Most(e2) + MaxAttempts + 2 * (N - e2) - 2
      BY <1>1, <2>3, MostStep
    <3> QED
      BY <1>1, <1>2, <1>3, <2>1, <2>3, <3>1, Sized DEF Within, Left
  <2> QED
    BY <1>1, <2>2, <2>3
<1>4. user.lock = "expired" => Locking' = {} /\ Counting' = {}
  BY DEF GuessInv
<1> QED
  BY <1>3, <1>4 DEF GuessInv

(* A request begins to count: with a copy of the account as it is.         *)
LEMMA LoginFindWithin ==
  ASSUME Inv, GuessInv, NEW r \in Request, NEW right \in BOOLEAN, LoginFind(r, right)
  PROVE  GuessInv'
<1>1. /\ UNCHANGED <<user, session, ended, guesses>>
      /\ job[r] = Idle
      /\ user.lock # "active"
      /\ user.by # "nobody"
  BY DEF LoginFind, Find
<1>2. job[r].step # "count"
  BY <1>1, IdleFacts
<1>3. user.attempts \in Nat /\ user.lock \in Lock /\ guesses \in Nat
  BY TypeFacts DEF User
<1>4. CASE right
  <2>1. PICK c \in Copy : Find(r, "login", "session", c)
    BY <1>4, TypeFacts DEF LoginFind, Blank, Copy, Lock, User
  <2>2. \A q \in Request : \/ job'[q] = job[q]
                           \/ job'[q].step # "count" /\ job[q].step # "count"
    BY <1>2, <2>1, TypeFacts DEF Find
  <2>3. Forgiving' = Forgiving /\ Counting' = Counting /\ Locking' = Locking
    BY <2>2, SameCounts
  <2> QED
    BY <1>1, <2>3 DEF GuessInv
<1>5. CASE ~right
  <2>1. PICK c \in Copy : /\ c.attempts = user.attempts /\ c.lock = user.lock
                          /\ Find(r, "login", "count", c)
    <3> DEFINE read == [password |-> user.password, attempts |-> user.attempts,
                        lock |-> user.lock]
               c == [read EXCEPT !.password = 0]
    <3>1. c \in Copy /\ c.attempts = user.attempts /\ c.lock = user.lock
      BY <1>3, TypeFacts DEF Copy
    <3>2. Find(r, "login", "count", c)
      BY <1>5 DEF LoginFind
    <3> HIDE DEF c
    <3> QED
      BY <3>1, <3>2
  <2>2. /\ job'[r].step = "count" /\ job'[r].copy = c
        /\ \A q \in Request : q # r => job'[q] = job[q]
    BY <2>1, TypeFacts DEF Find
  <2>3. r \notin Forgiving /\ r \notin Counting /\ r \notin Locking
    BY <1>2 DEF Forgiving, Counting, Locking
  <2>4. CASE user.lock = "expired"
    <3>1. Counting' = Counting /\ Locking' = Locking
      BY <2>1, <2>2, <2>3, <2>4 DEF Counting, Locking, Reaches
    <3> QED
      BY <1>1, <2>4, <3>1 DEF GuessInv
  <2>5. CASE user.lock = "none"
    <3>1. Forgiving' = Forgiving
      BY <2>1, <2>2, <2>3, <2>5 DEF Forgiving
    <3>2. CASE user.attempts + 1 < MaxAttempts
      BY <1>1, <1>3, <2>5, <3>1, <3>2 DEF GuessInv, Within, Left
    <3>3. CASE ~(user.attempts + 1 < MaxAttempts)
      <4>1. Reaches(c)
        BY <1>3, <2>1, <3>3, Sized DEF Reaches
      <4>2. Counting' = Counting
        BY <2>1, <2>2, <2>3, <4>1 DEF Counting, Reaches
      <4> QED
        BY <1>1, <1>3, <2>5, <3>1, <3>3, <4>2 DEF GuessInv, Within, Left
    <3> QED
      BY <3>2, <3>3
  <2> QED
    BY <1>1, <1>3, <2>4, <2>5 DEF Lock
<1> QED
  BY <1>4, <1>5

(* A request that had read an expired lock opens the account again, and    *)
(* starts the count anew.                                                  *)
LEMMA ForgivingWithin ==
  ASSUME Inv, GuessInv, NEW r \in Forgiving, IncLoginAttempts(r)
  PROVE  GuessInv'
<1>1. /\ r \in Request /\ r \notin Counting /\ r \notin Locking
      /\ job[r].copy.lock = "expired"
  BY DEF Forgiving, Counting, Locking
<1>2. /\ Forgiving' = Forgiving \ {r}
      /\ Counting' = Counting
      /\ Locking' = Locking
  BY <1>1, FinishLeaves DEF IncLoginAttempts
<1>3. PICK e \in Nat, c \in Nat : /\ e + 1 = Cardinality(Forgiving)
                                  /\ e = Cardinality(Forgiving')
                                  /\ c = Cardinality(Counting)
                                  /\ e + 1 + c <= N
  <2>1. /\ Cardinality(Forgiving \ {r}) \in Nat
        /\ Cardinality(Forgiving \ {r}) + 1 = Cardinality(Forgiving)
    BY Numbers, OneLess
  <2>2. /\ Cardinality(Counting) \in Nat /\ N \in Nat
        /\ Cardinality(Forgiving) + Cardinality(Counting) <= N
    BY Numbers, Sized
  <2> QED
    BY <1>2, <2>1, <2>2
<1>4. /\ user'.attempts = 1 /\ user'.lock = "none" /\ user'.by = user.by
      /\ guesses' = guesses + 1
      /\ user.by # "nobody"
  <2>1. user.by # "nobody"
    BY <1>1, TypeFacts DEF IncLoginAttempts, JobOK
  <2>2. user' = [user EXCEPT !.attempts = 1, !.lock = "none"]
    BY <1>1 DEF IncLoginAttempts, Counted
  <2> QED
    BY <2>1, <2>2, TypeFacts DEF IncLoginAttempts, User
<1>5. user.attempts \in Nat /\ user.lock \in Lock /\ guesses \in Nat
  BY TypeFacts DEF User
<1>6. PICK l \in Nat : l = Cardinality(Locking)
  BY Numbers
<1>7. /\ Most(N) \in Int /\ Most(e) \in Int /\ Most(e + 1) \in Int
      /\ Most(e + 1) = Most(e) + MaxAttempts + 2 * (N - e) - 2
      /\ Most(e + 1) <= Most(N)
  BY <1>3, MostStep, MostGrows, Sized
<1>8. guesses + Most(e + 1) <= Most(N)
  <2>1. CASE user.lock = "expired"
    BY <1>7, <2>1 DEF GuessInv
  <2>2. CASE user.lock # "expired"
    <3>1. Within(guesses, user.lock, user.attempts, e + 1, c, l)
      BY <1>1, <1>3, <1>6, <2>2 DEF GuessInv
    <3>2. Left(user.lock, user.attempts, e + 1, c, l) \in Nat
      BY <1>3, <1>5, <1>6, Sized DEF Left
    <3> QED
      BY <1>5, <1>7, <3>1, <3>2 DEF Within
  <2> QED
    BY <2>1, <2>2
<1>9. guesses' + Left("none", 1, e, c, l) + Most(e) <= Most(N)
  <2>1. N \in Nat /\ MaxAttempts \in Nat /\ MaxAttempts >= 2
    BY Sized
  <2>2. Left("none", 1, e, c, l) <= MaxAttempts + 2 * (N - e) - 3
    BY <1>3, <2>1 DEF Left
  <2>3. Left("none", 1, e, c, l) \in Int
    BY <1>3, <2>1 DEF Left
  <2> QED
    BY <1>3, <1>4, <1>5, <1>7, <1>8, <2>1, <2>2, <2>3
<1> QED
  BY <1>1, <1>2, <1>3, <1>4, <1>6, <1>9 DEF GuessInv, Within

(* The other requests add to the stored count, and lock the account if     *)
(* the count they had read reaches the limit.                              *)
LEMMA CountingWithin ==
  ASSUME Inv, GuessInv, NEW r \in Request, r \notin Forgiving, IncLoginAttempts(r)
  PROVE  GuessInv'
<1> DEFINE lock == IF Reaches(job[r].copy) THEN "active" ELSE user.lock
<1>1. job[r].step = "count" /\ job[r].copy.lock # "expired"
  BY DEF IncLoginAttempts, Forgiving
<1>2. /\ Forgiving' = Forgiving
      /\ Counting' = Counting \ {r}
      /\ Locking' = Locking \ {r}
  BY FinishLeaves DEF IncLoginAttempts
<1>3. PICK a \in Nat, g \in Nat : /\ a = user.attempts /\ g = guesses
                                  /\ user.lock \in Lock
  BY TypeFacts DEF User
<1>4. /\ user'.attempts = a + 1 /\ user'.lock = lock /\ user'.by = user.by
      /\ guesses' = g + 1
      /\ user.by # "nobody"
  <2>1. user.by # "nobody"
    BY <1>1, TypeFacts DEF JobOK
  <2>2. user' = [user EXCEPT !.attempts = @ + 1, !.lock = lock]
    BY <1>1 DEF IncLoginAttempts, Counted, Reaches
  <2> QED
    BY <1>3, <2>1, <2>2, TypeFacts DEF IncLoginAttempts, User
<1>5. PICK e \in Nat, c \in Nat, l \in Nat, c2 \in Nat, l2 \in Nat :
         /\ e = Cardinality(Forgiving)
         /\ c = Cardinality(Counting) /\ c2 = Cardinality(Counting')
         /\ l = Cardinality(Locking) /\ l2 = Cardinality(Locking')
         /\ e + c + l <= N
         /\ IF Reaches(job[r].copy) THEN c2 = c /\ l2 + 1 = l ELSE c2 + 1 = c /\ l2 = l
  <2>1. IF Reaches(job[r].copy) THEN r \in Locking /\ r \notin Counting
        ELSE r \in Counting /\ r \notin Locking
    BY <1>1 DEF Counting, Locking
  <2>2. /\ Cardinality(Forgiving) \in Nat
        /\ Cardinality(Counting) \in Nat
        /\ Cardinality(Locking) \in Nat
        /\ Cardinality(Forgiving) + Cardinality(Counting) + Cardinality(Locking) <= N
    BY Numbers
  <2>3. /\ Cardinality(Counting') \in Nat
        /\ IF r \in Counting THEN Cardinality(Counting') + 1 = Cardinality(Counting)
                             ELSE Cardinality(Counting') = Cardinality(Counting)
    BY <1>2, Numbers, OneLess
  <2>4. /\ Cardinality(Locking') \in Nat
        /\ IF r \in Locking THEN Cardinality(Locking') + 1 = Cardinality(Locking)
                            ELSE Cardinality(Locking') = Cardinality(Locking)
    BY <1>2, Numbers, OneLess
  <2> QED
    BY <2>1, <2>2, <2>3, <2>4
<1>6. user.lock # "expired"
  BY <1>1 DEF GuessInv, Counting, Locking
<1>7. Within(g, user.lock, a, e, c, l)
  BY <1>3, <1>5, <1>6 DEF GuessInv
<1>8. Within(g + 1, lock, a + 1, e, c2, l2)
  <2>1. Most(N) \in Int /\ Most(e) \in Int
    BY MostStep, Sized
  <2>2. user.lock \in {"none", "active"}
    BY <1>3, <1>6 DEF Lock
  <2>3. CASE Reaches(job[r].copy)
    BY <1>3, <1>5, <1>7, <2>1, <2>2, <2>3, Sized DEF Within, Left
  <2>4. CASE ~Reaches(job[r].copy)
    BY <1>3, <1>5, <1>7, <2>1, <2>2, <2>4, Sized DEF Within, Left
  <2> QED
    BY <2>3, <2>4
<1>9. lock # "expired"
  BY <1>6
<1> QED
  BY <1>2, <1>4, <1>5, <1>8, <1>9 DEF GuessInv

(* Somebody gets in: the count starts anew, and so does what is counted    *)
(* here.  The request itself forgives nothing, so there are others for all *)
(* that do.                                                                *)
LEMMA ResetWithin ==
  ASSUME Inv, GuessInv, NEW r \in Request, ResetLoginAttempts(r)
  PROVE  GuessInv'
<1>1. job[r].step = "open" /\ user.by # "nobody"
  BY TypeFacts DEF ResetLoginAttempts, JobOK
<1>2. /\ user'.attempts = 0 /\ user'.lock = "none" /\ user'.by = user.by
      /\ guesses' = 0
  BY TypeFacts DEF ResetLoginAttempts, User
<1>3. r \notin Forgiving /\ r \notin Counting /\ r \notin Locking
  BY <1>1 DEF Forgiving, Counting, Locking
<1>4. Forgiving' = Forgiving /\ Counting' = Counting /\ Locking' = Locking
  BY <1>3, FinishLeaves DEF ResetLoginAttempts
<1>5. PICK e \in Nat : e = Cardinality(Forgiving) /\ e + 1 <= N
  <2>1. Forgiving \subseteq Request /\ IsFiniteSet(Request)
    BY Assumptions DEF Forgiving
  <2>2. Cardinality(Forgiving) <= Cardinality(Request) /\ Forgiving # Request
    BY <1>3, <2>1, FS_Subset
  <2>3. Cardinality(Forgiving) # Cardinality(Request)
    BY <2>1, <2>2, FS_Subset
  <2> QED
    BY <2>2, <2>3, Numbers, Sized DEF N
<1>6. PICK c \in Nat, l \in Nat : c = Cardinality(Counting) /\ l = Cardinality(Locking)
  BY Numbers
<1>7. /\ Most(N) \in Int /\ Most(e) \in Int
      /\ Most(e + 1) = Most(e) + MaxAttempts + 2 * (N - e) - 2
      /\ Most(e + 1) <= Most(N)
  BY <1>5, MostStep, MostGrows, Sized
<1>8. Left("none", 0, e, c, l) = MaxAttempts + 2 * (N - e) - 2
  BY <1>5, <1>6, Sized DEF Left
<1>9. Within(0, "none", 0, e, c, l)
  <2>1. N \in Nat /\ MaxAttempts \in Nat
    BY Sized
  <2> QED
    BY <1>5, <1>7, <1>8, <2>1 DEF Within
<1> QED
  BY <1>1, <1>2, <1>4, <1>5, <1>6, <1>9 DEF GuessInv

LEMMA LockExpiresWithin ==
  ASSUME Inv, GuessInv, LockExpires
  PROVE  GuessInv'
<1>1. /\ user'.lock = "expired" /\ user'.attempts = user.attempts /\ user'.by = user.by
      /\ guesses' = 0 /\ user.lock = "active"
  BY TypeFacts DEF LockExpires, User
<1>2. Counting' = {} /\ Locking' = {}
  BY DEF LockExpires, Counting, Locking
<1> QED
  BY <1>1, <1>2 DEF GuessInv

(* The steps that neither count nor open or lock the account.              *)
LEMMA OthersWithin ==
  ASSUME Inv, GuessInv, guesses' = guesses,
         user'.attempts = user.attempts, user'.lock = user.lock,
         user'.by = "nobody" => user.by = "nobody",
         \A q \in Request : \/ job'[q] = job[q]
                            \/ job'[q].step # "count" /\ job[q].step # "count"
                            \/ job'[q].step = job[q].step /\ job'[q].copy = job[q].copy
  PROVE  GuessInv'
BY SameCounts DEF GuessInv

(* An account is made where nobody has one, or is left as it is.           *)
LEMMA CreateWithin ==
  ASSUME Inv, GuessInv, NEW r \in Request, RegisterCreate(r) \/ GoogleCreate(r)
  PROVE  GuessInv'
<1>1. /\ guesses' = guesses
      /\ job[r].step = "create"
      /\ Finish(r) \/ Goes(r, "session")
  BY DEF RegisterCreate, GoogleCreate
<1>2. /\ user'.attempts = user.attempts /\ user'.lock = user.lock
      /\ user'.by = "nobody" => user.by = "nobody"
  <2>1. CASE user.by = "nobody"
    <3>1. user'.attempts = 0 /\ user'.lock = "none" /\ user'.by # "nobody"
      BY <2>1 DEF RegisterCreate, GoogleCreate, Stored, NewUser
    <3> QED
      BY <2>1, <3>1 DEF GuessInv
  <2>2. CASE user.by # "nobody"
    BY <2>2 DEF RegisterCreate, GoogleCreate, Stored
  <2> QED
    BY <2>1, <2>2
<1>3. CASE Finish(r)
  BY <1>1, <1>2, <1>3, FinishLeaves, FewerKeep
<1>4. CASE Goes(r, "session")
  <2>1. PICK j \in Job : job' = [job EXCEPT ![r] = j] /\ j.step = "session"
    BY <1>4, GoesFacts
  <2>2. \A q \in Request : \/ job'[q] = job[q]
                           \/ job'[q].step # "count" /\ job[q].step # "count"
    BY <1>1, <2>1, TypeFacts
  <2> QED
    BY <1>1, <1>2, <2>2, OthersWithin
<1> QED
  BY <1>1, <1>3, <1>4

LEMMA FindWithin ==
  ASSUME Inv, GuessInv, NEW r \in Request, NEW op, NEW step, NEW copy,
         Find(r, op, step, copy), step # "count"
  PROVE  GuessInv'
<1>1. UNCHANGED <<user, guesses>> /\ job[r] = Idle
  BY DEF Find
<1>2. /\ job'[r].step = step
      /\ \A q \in Request : q # r => job'[q] = job[q]
  BY TypeFacts DEF Find
<1> QED
  BY <1>1, <1>2, IdleFacts, OthersWithin

LEMMA CreateSessionWithin ==
  ASSUME Inv, GuessInv, NEW r \in Request, CreateSession(r)
  PROVE  GuessInv'
<1>1. UNCHANGED <<user, guesses>> /\ job[r].step = "session"
  BY DEF CreateSession
<1>2. CASE Finish(r)
  BY <1>1, <1>2, FinishLeaves, FewerKeep
<1>3. CASE Goes(r, "open")
  <2>1. PICK j \in Job : job' = [job EXCEPT ![r] = j] /\ j.step = "open"
    BY <1>3, GoesFacts
  <2>2. \A q \in Request : \/ job'[q] = job[q]
                           \/ job'[q].step # "count" /\ job[q].step # "count"
    BY <1>1, <2>1, TypeFacts
  <2> QED
    BY <1>1, <2>2, OthersWithin
<1> QED
  BY <1>2, <1>3 DEF CreateSession

LEMMA RevokeWithin ==
  ASSUME Inv, GuessInv, NEW r \in Request, Revoke(r)
  PROVE  GuessInv'
<1>1. UNCHANGED <<user, guesses>> /\ job[r].step = "revoke"
  BY DEF Revoke
<1>2. ASSUME NEW q \in Request
      PROVE  \/ job'[q].step # "count" /\ job[q].step # "count"
             \/ job'[q].step = job[q].step /\ job'[q].copy = job[q].copy
  <2>1. job[q] \in Job
    BY TypeFacts
  <2>2. CASE q = r
    <3>1. job'[q] = [job[q] EXCEPT !.step = "save"]
      BY <2>2 DEF Revoke
    <3> QED
      BY <1>1, <2>1, <2>2, <3>1 DEF Job
  <2>3. CASE q # r
    <3>1. job'[q] = [job[q] EXCEPT !.late = job[q].op # "none"]
      BY <2>3 DEF Revoke
    <3> QED
      BY <2>1, <3>1 DEF Job
  <2> QED
    BY <2>2, <2>3
<1> QED
  BY <1>1, <1>2, OthersWithin

LEMMA SavePasswordWithin ==
  ASSUME Inv, GuessInv, NEW r \in Request, SavePassword(r)
  PROVE  GuessInv'
<1>1. /\ user'.attempts = user.attempts /\ user'.lock = user.lock /\ user'.by = user.by
      /\ guesses' = guesses
  BY TypeFacts DEF SavePassword, User
<1>2. job[r].step = "save" /\ job[r] \in Job
  BY TypeFacts DEF SavePassword
<1>3. /\ job'[r].step # "count"
      /\ \A q \in Request : q # r => job'[q] = job[q]
  <2>1. \A q \in Request : q # r => job'[q] = job[q]
    BY TypeFacts DEF SavePassword
  <2>2. CASE job[r].op = "profile"
    <3>1. job'[r] = [job[r] EXCEPT !.step = "session",
                                   !.copy.password = user.password + 1, !.late = FALSE]
      BY <2>2, TypeFacts DEF SavePassword
    <3> QED
      BY <1>2, <2>1, <3>1 DEF Job
  <2>3. CASE job[r].op # "profile"
    BY <2>1, <2>3, TypeFacts, IdleFacts DEF SavePassword
  <2> QED
    BY <2>2, <2>3
<1> QED
  BY <1>1, <1>2, <1>3, OthersWithin

-----------------------------------------------------------------------------
LEMMA GuessInit == Init => GuessInv
<1> SUFFICES ASSUME Init
             PROVE  GuessInv
  OBVIOUS
<1>1. user.attempts = 0 /\ user.lock = "none" /\ guesses = 0
  BY DEF Init, NewUser
<1>2. Forgiving = {} /\ Counting = {} /\ Locking = {}
  BY IdleFacts DEF Init, Forgiving, Counting, Locking
<1>3. ASSUME Request # {}
      PROVE  Within(0, "none", 0, 0, 0, 0)
  <2>1. N \in Nat /\ N >= 1 /\ MaxAttempts \in Nat /\ MaxAttempts >= 2
    BY <1>3, Sized
  <2>2. Left("none", 0, 0, 0, 0) = MaxAttempts + 2 * N - 2
    BY <2>1 DEF Left
  <2>3. Most(0) = 0
    BY <2>1 DEF Most
  <2>4. Most(1) = MaxAttempts + 2 * N - 2 /\ Most(1) <= Most(N)
    BY <2>1, MostGrows DEF Most
  <2> QED
    BY <2>1, <2>2, <2>3, <2>4 DEF Within
<1> QED
  BY <1>1, <1>2, <1>3, FS_EmptySet DEF GuessInv

LEMMA GuessNext == Inv /\ GuessInv /\ [Next]_vars => GuessInv'
<1> SUFFICES ASSUME Inv, GuessInv, [Next]_vars
             PROVE  GuessInv'
  OBVIOUS
<1>1. CASE UNCHANGED vars
  BY <1>1, OthersWithin DEF vars
<1>2. ASSUME NEW r \in Request,
             \/ \E op \in {"register", "google"} : RegisterFind(r, op)
             \/ GoogleFind(r)
             \/ VerifyFind(r)
             \/ \E op \in {"change", "profile", "reset"} : ChangeFind(r, op)
      PROVE  GuessInv'
  BY <1>2, FindWithin DEF RegisterFind, GoogleFind, VerifyFind, ChangeFind
<1>3. ASSUME NEW r \in Request, VerifySave(r)
      PROVE  GuessInv'
  <2>1. /\ user'.attempts = user.attempts /\ user'.lock = user.lock /\ user'.by = user.by
        /\ guesses' = guesses
    BY <1>3, TypeFacts DEF VerifySave, Verified, User
  <2> QED
    BY <1>3, <2>1, FinishLeaves, FewerKeep DEF VerifySave
<1>4. ASSUME NEW r \in Request, Fail(r)
      PROVE  GuessInv'
  BY <1>4, FinishLeaves, FewerKeep DEF Fail
<1>5. ASSUME NEW r \in Request, IncLoginAttempts(r)
      PROVE  GuessInv'
  BY <1>5, ForgivingWithin, CountingWithin
<1>6. CASE LinkExpires
  <2>1. /\ user'.attempts = user.attempts /\ user'.lock = user.lock /\ user'.by = user.by
        /\ guesses' = guesses /\ job' = job
    BY <1>6, TypeFacts DEF LinkExpires, User
  <2> QED
    BY <2>1, OthersWithin
<1>7. ASSUME NEW s \in session, SessionEnds(s)
      PROVE  GuessInv'
  BY <1>7, OthersWithin DEF SessionEnds
<1> QED
  BY <1>1, <1>2, <1>3, <1>4, <1>5, <1>6, <1>7, CreateWithin, LoginFindWithin,
     CreateSessionWithin, ResetWithin, RevokeWithin, SavePasswordWithin,
     LockExpiresWithin DEF Next

LEMMA GuessesAreWithin == Inv /\ GuessInv => GuessesBounded
<1> SUFFICES ASSUME Inv, GuessInv
             PROVE  GuessesBounded
  OBVIOUS
<1>1. N \in Nat /\ MaxAttempts \in Nat /\ MaxAttempts >= 2
  BY Sized
<1>2. Most(N) = N * (MaxAttempts + N - 1) /\ Most(N) \in Nat
  <2>1. PICK n \in Nat, m \in Nat : n = N /\ m + 1 = MaxAttempts
    BY <1>1
  <2>2. n * (m + n) \in Nat
    BY <2>1
  <2> QED
    BY <2>1, <2>2 DEF Most
<1>3. CASE guesses = 0
  BY <1>1, <1>2, <1>3 DEF GuessesBounded, N
<1>4. CASE guesses # 0
  <2>1. PICK e \in Nat, c \in Nat, l \in Nat :
           /\ e + c + l <= N
           /\ Within(guesses, user.lock, user.attempts, e, c, l)
    BY <1>4, Numbers DEF GuessInv
  <2>2. user.attempts \in Nat /\ user.lock \in Lock /\ guesses \in Nat
    BY TypeFacts DEF User
  <2>3. Left(user.lock, user.attempts, e, c, l) \in Nat
    BY <1>1, <2>1, <2>2 DEF Left
  <2>4. Most(e) \in Nat
    <3>1. PICK m \in Nat, d \in Nat : m + 1 = MaxAttempts /\ d = N - e
      BY <1>1, <2>1
    <3>2. e * (m + e + 2 * d) \in Nat
      BY <3>1
    <3> QED
      BY <1>1, <3>1, <3>2 DEF Most
  <2>5. guesses <= Most(N)
    BY <1>2, <2>1, <2>2, <2>3, <2>4 DEF Within
  <2> QED
    BY <1>2, <2>5 DEF GuessesBounded, N
<1> QED
  BY <1>3, <1>4

(* However many requests try wrong passwords at the same time, and whatever*)
(* copy of the count and of the lock each goes by, no more are tried before*)
(* a lock lasts than the limit and the number of requests allow.           *)
THEOREM GuessesBoundedProved == Spec => []GuessesBounded
<1>1. Spec => [](Inv /\ GuessInv)
  BY InitHolds, GuessInit, NextKeeps, GuessNext, PTL DEF Spec
<1> QED
  BY <1>1, GuessesAreWithin, PTL

=============================================================================
