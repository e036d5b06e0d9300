------------------------------- MODULE SignIn -------------------------------
(***************************************************************************)
(* One e-mail address and everything that lets somebody in under it:       *)
(* registration, the verification link, the password and the lock against  *)
(* guessing it, Google, and the changes of password that throw everybody   *)
(* out (backend/controllers/authController.js, backend/models/User.js).    *)
(*                                                                         *)
(* A login decides on the copy of the account it has read, while bcrypt    *)
(* takes its time, and every write is an update of its own: other logins,  *)
(* a reset of the password, the second registration come in between.       *)
(*                                                                         *)
(* A password is the number of changes that led to it.  How it is saved is *)
(* the module Account, how a session lives on is RefreshTokens.  Not here: *)
(* the captcha, which lets a request pass when it is not solved, the mails,*)
(* the number of locks, which only decides on a mail, deletion of accounts.*)
(***************************************************************************)
EXTENDS Naturals, FiniteSets

CONSTANTS
  Request,     \* requests being served at the same time
  MaxAttempts, \* wrong passwords that lock the account (5)
  MaxPassword  \* bound of the model: changes of the password

(* The limit is 5; a limit of 1 would never be reached by a count that     *)
(* starts anew at 1.                                                       *)
ASSUME Assumptions ==
  /\ IsFiniteSet(Request)
  /\ MaxAttempts \in Nat \ {0, 1}
  /\ MaxPassword \in Nat

VARIABLES
  user,     \* the account with this address
  session,  \* its valid sessions, those of a kind counted once
  job,      \* what each request has read and does next
  ended,    \* a change that revokes has ended the passwords before this one (history)
  guesses   \* wrong passwords tried since the account was last open (history)

vars == <<user, session, job, ended, guesses>>

Lock == {"none", "active", "expired"}

User == [by : {"nobody", "password", "google"},   \* how it was made; "nobody": not yet
         verified : BOOLEAN,
         link : BOOLEAN,                          \* does the verification link work?
         password : Nat, attempts : Nat, lock : Lock]

NewUser == [by |-> "nobody", verified |-> FALSE, link |-> FALSE,
            password |-> 0, attempts |-> 0, lock |-> "none"]

(* "late": a change of password that revokes was under way while the       *)
(* request that made the session was.                                      *)
Session == [by : {"password", "google"}, password : Nat, late : BOOLEAN]

(* What a request goes by, of the account it has read.                     *)
Copy == [password : Nat, attempts : Nat, lock : Lock]

Blank == [password |-> 0, attempts |-> 0, lock |-> "none"]

Job == [op : {"none", "register", "google", "verify", "login", "change", "profile", "reset"},
        step : {"idle", "create", "verify", "session", "open", "count", "revoke", "save"},
        copy : Copy,
        late : BOOLEAN]

Idle == [op |-> "none", step |-> "idle", copy |-> Blank, late |-> FALSE]

Init ==
  /\ user = NewUser
  /\ session = {}
  /\ job = [r \in Request |-> Idle]
  /\ ended = 0
  /\ guesses = 0

Goes(r, step) == job' = [job EXCEPT ![r].step = step]

Finish(r) == job' = [job EXCEPT ![r] = Idle]

(* A change has revoked the sessions and has not saved the password.       *)
Revoking == \E q \in Request : job[q].op \in {"profile", "reset"} /\ job[q].step = "save"

Find(r, op, step, copy) ==
  /\ job[r] = Idle
  /\ job' = [job EXCEPT ![r] = [op |-> op, step |-> step, copy |-> copy, late |-> Revoking]]
  /\ UNCHANGED <<user, session, ended, guesses>>

-----------------------------------------------------------------------------
(* registerUser, and googleLogin for an address that nobody has.           *)
RegisterFind(r, op) ==
  /\ user.by = "nobody"
  /\ Find(r, op, "create", Blank)

(* Seeded fault: the address is not unique, the later account is found.    *)
StoredTwice(new) == new

(* The index on the address refuses the second one.                        *)
Stored(new) == IF user.by = "nobody" THEN new ELSE user

RegisterCreate(r) ==
  /\ job[r].op = "register" /\ job[r].step = "create"
  /\ user' = Stored([NewUser EXCEPT !.by = "password", !.link = TRUE])
  /\ Finish(r)
  /\ UNCHANGED <<session, ended, guesses>>

GoogleCreate(r) ==
  /\ job[r].op = "google" /\ job[r].step = "create"
  /\ user' = Stored([NewUser EXCEPT !.by = "google", !.verified = TRUE])
  /\ IF user.by = "nobody" THEN Goes(r, "session") ELSE Finish(r)
  /\ UNCHANGED <<session, ended, guesses>>

(* An account made with a password is not opened by Google.                *)
GoogleFind(r) ==
  /\ user.by = "google"
  /\ Find(r, "google", "session", Blank)

VerifyFind(r) ==
  /\ user.link
  /\ Find(r, "verify", "verify", Blank)

(* Seeded fault: the link is left as it is.                                *)
VerifiedOnly(doc) == [doc EXCEPT !.verified = TRUE]

Verified(doc) == [doc EXCEPT !.verified = TRUE, !.link = FALSE]

VerifySave(r) ==
  /\ job[r].step = "verify"
  /\ user' = Verified(user)
  /\ Finish(r)
  /\ UNCHANGED <<session, ended, guesses>>

(* Twenty-four hours; another link is never sent.                          *)
LinkExpires ==
  /\ user.link
  /\ user' = [user EXCEPT !.link = FALSE]
  /\ UNCHANGED <<session, job, ended, guesses>>

-----------------------------------------------------------------------------
(* loginUser: the password is compared with the one in the copy.  Without  *)
(* a password, in an account of Google, the comparison throws.             *)
LoginFind(r, right) ==
  /\ user.by = "password"
  /\ user.verified
  /\ user.lock # "active"
  /\ LET copy == [password |-> user.password, attempts |-> user.attempts, lock |-> user.lock]
     IN IF right THEN Find(r, "login", "session", [Blank EXCEPT !.password = copy.password])
        ELSE Find(r, "login", "count", [copy EXCEPT !.password = 0])

(* Also the last step of googleLogin and of a change in the profile.       *)
CreateSession(r) ==
  LET j == job[r] IN
  /\ j.step = "session"
  /\ session' = session \cup {[by |-> IF j.op = "google" THEN "google" ELSE "password",
                               password |-> j.copy.password, late |-> j.late]}
  /\ IF j.op = "login" THEN Goes(r, "open") ELSE Finish(r)
  /\ UNCHANGED <<user, ended, guesses>>

ResetLoginAttempts(r) ==
  /\ job[r].step = "open"
  /\ user' = [user EXCEPT !.attempts = 0, !.lock = "none"]
  /\ guesses' = 0
  /\ Finish(r)
  /\ UNCHANGED <<session, ended>>

(* Seeded fault: the count that was read is sent, plus one.                *)
CountedFromCopy(copy) ==
  [user EXCEPT !.attempts = copy.attempts + 1,
               !.lock = IF copy.attempts + 1 >= MaxAttempts THEN "active" ELSE @]

(* A lock that had expired when the account was read is removed, and the   *)
(* count starts again; otherwise the stored count goes up, and the account *)
(* is locked if the count that was read reaches the limit.                 *)
Counted(copy) ==
  IF copy.lock = "expired"
  THEN [user EXCEPT !.attempts = 1, !.lock = "none"]
  ELSE [user EXCEPT !.attempts = @ + 1,
                    !.lock = IF copy.attempts + 1 >= MaxAttempts THEN "active" ELSE @]

IncLoginAttempts(r) ==
  /\ job[r].step = "count"
  /\ user' = Counted(job[r].copy)
  /\ guesses' = guesses + 1
  /\ Finish(r)
  /\ UNCHANGED <<session, ended>>

(* Thirty minutes, longer than any login takes that began before the lock. *)
LockExpires ==
  /\ user.lock = "active"
  /\ \A r \in Request : job[r].step # "count"
  /\ user' = [user EXCEPT !.lock = "expired"]
  /\ guesses' = 0
  /\ UNCHANGED <<session, job, ended>>

-----------------------------------------------------------------------------
(* changePassword and updateUserProfile by somebody with a session,        *)
(* resetPassword by somebody with a link.  An account of Google has no     *)
(* password to compare the new one with: that throws.                      *)
ChangeFind(r, op) ==
  /\ user.by = "password"
  /\ user.password < MaxPassword
  /\ op = "reset" \/ session # {}
  /\ Find(r, op, IF op = "change" THEN "save" ELSE "revoke",
          [Blank EXCEPT !.password = user.password])

(* Seeded fault: those are looked for that are no longer valid.            *)
RevokeNone == session

RevokeAll == {}

(* Sessions are revoked before the password is saved.                      *)
Revoke(r) ==
  /\ job[r].step = "revoke"
  /\ session' = RevokeAll
  /\ job' = [q \in Request |-> IF q = r THEN [job[q] EXCEPT !.step = "save"]
                               ELSE [job[q] EXCEPT !.late = job[q].op # "none"]]
  /\ UNCHANGED <<user, ended, guesses>>

(* Only a change that has read the stored password can be saved.  That of  *)
(* a profile goes on to a session, which is late only if another change    *)
(* revokes after this one.                                                 *)
SavePassword(r) ==
  LET j == job[r]
      new == user.password + 1
  IN
  /\ j.step = "save"
  /\ j.copy.password = user.password
  /\ user' = [user EXCEPT !.password = new]
  /\ ended' = IF j.op = "change" THEN ended ELSE new
  /\ job' = [job EXCEPT ![r] =
               IF j.op = "profile"
               THEN [j EXCEPT !.step = "session", !.copy.password = new, !.late = FALSE]
               ELSE Idle]
  /\ UNCHANGED <<session, guesses>>

(* Another list of the document was saved meanwhile, or the server stops:  *)
(* the sessions remain revoked.                                            *)
Fail(r) ==
  /\ job[r] # Idle
  /\ Finish(r)
  /\ UNCHANGED <<user, session, ended, guesses>>

(* A logout, or seven days.                                                *)
SessionEnds(s) ==
  /\ session' = session \ {s}
  /\ UNCHANGED <<user, job, ended, guesses>>

-----------------------------------------------------------------------------
Next ==
  \/ \E r \in Request :
       \/ \E op \in {"register", "google"} : RegisterFind(r, op)
       \/ RegisterCreate(r)
       \/ GoogleCreate(r)
       \/ GoogleFind(r)
       \/ VerifyFind(r)
       \/ VerifySave(r)
       \/ \E right \in BOOLEAN : LoginFind(r, right)
       \/ CreateSession(r)
       \/ ResetLoginAttempts(r)
       \/ IncLoginAttempts(r)
       \/ \E op \in {"change", "profile", "reset"} : ChangeFind(r, op)
       \/ Revoke(r)
       \/ SavePassword(r)
       \/ Fail(r)
  \/ LinkExpires
  \/ LockExpires
  \/ \E s \in session : SessionEnds(s)

Spec == Init /\ [][Next]_vars

-----------------------------------------------------------------------------
TypeOK ==
  /\ user \in User
  /\ user.link => user.by = "password" /\ ~user.verified
  /\ session \subseteq Session
  /\ job \in [Request -> Job]
  /\ ended \in 0 .. user.password
  /\ guesses \in Nat

(* Nobody is in who did not come the way the account was made, and nobody  *)
(* with a password before the address was verified, although registrations *)
(* in both ways look first and create later.                               *)
OneWayIn == \A s \in session : s.by = user.by /\ user.verified

(* A session that was opened with a password which a reset or a change in  *)
(* the profile has ended, was opened while that change was under way.      *)
EndedPasswordIsLate ==
  \A s \in session : s.by = "password" /\ s.password < ended => s.late

(* Requests that try wrong passwords at the same time go by the count and  *)
(* the lock they have read, may pass the limit together, and may remove a  *)
(* lock they do not know of: yet until it lasts only so many are tried as  *)
(* the limit and the number of requests allow, with one request the limit. *)
GuessesBounded ==
  LET n == Cardinality(Request) IN guesses <= n * (MaxAttempts + n - 1)

(* "All sessions are immediately invalidated upon password change"         *)
(* (docs/DATA_RETENTION.md:29), but for those opened with the new one.     *)
SessionsEndWithPassword ==
  [][user'.password # user.password => \A s \in session' : s.password = user'.password]_vars

=============================================================================
