------------------------------ MODULE Account ------------------------------
(***************************************************************************)
(* The credentials of one account, as one User document: its password, the *)
(* passwords it replaced, the version of its access tokens and its         *)
(* password-reset link (backend/controllers/authController.js,             *)
(* backend/controllers/adminController.js, backend/models/User.js).        *)
(*                                                                         *)
(* A change of password reads the document, lets the pre-save hook read    *)
(* the stored password again, hashes, and saves: three steps, with every   *)
(* other request in between.  The save writes the whole list of replaced   *)
(* passwords, so mongoose makes it conditional on the revision (__v) that  *)
(* was read.  The other writers depend on nothing they have read, and are  *)
(* one step each.                                                          *)
(*                                                                         *)
(* A password stands for its text and its hash alike.  A job that fails a  *)
(* test (wrong current password, a weak, breached or recent new one)       *)
(* changes nothing and is not started.                                     *)
(***************************************************************************)
EXTENDS Naturals, Sequences, FiniteSets, Functions

CONSTANTS
  Password,     \* passwords that pass the strength tests
  Request,      \* changes of password being served at the same time
  History,      \* replaced passwords that are remembered (5)
  MaxVersion,   \* bound of the model: logouts from all devices
  MaxRevision,  \* bound of the model: revisions of the document
  MaxLinks      \* bound of the model: reset links mailed

ASSUME Assumptions ==
  /\ History \in Nat \ {0}
  /\ MaxVersion \in Nat
  /\ MaxRevision \in Nat
  /\ MaxLinks \in Nat

VARIABLES
  password,   \* the stored password
  previous,   \* the replaced ones, the latest first (previousPasswords)
  version,    \* what an access token must carry (tokenVersion)
  revision,   \* mongoose's __v
  link,       \* the reset link that works, 0 for none
  mailed,     \* number of reset links mailed so far
  uses,       \* how often each link has changed the password
  job         \* what each request has read and does next

vars == <<password, previous, version, revision, link, mailed, uses, job>>

Link == 1 .. MaxLinks

Job ==
  [step : {"hook", "save"},
   new : Password,             \* the password to be stored
   previous : Seq(Password),   \* the list in memory
   version : Nat,              \* the version in memory, 0 if not selected
   link : Nat,                 \* the link that is used, 0 for none
   revision : Nat]             \* the revision read

Idle == [step |-> "idle"]

Recent == {password} \cup Range(previous)

Init ==
  /\ password \in Password
  /\ previous = <<>>
  /\ version = 0
  /\ revision = 0
  /\ link = 0
  /\ mailed = 0
  /\ uses = [l \in Link |-> 0]
  /\ job = [r \in Request |-> Idle]

-----------------------------------------------------------------------------
(* A change starts: p is none of the recent passwords in the copy read.    *)
Start(r, p, v, l) ==
  /\ job[r] = Idle
  /\ revision < MaxRevision
  /\ p \notin Recent
  /\ job' = [job EXCEPT ![r] =
               [step |-> "hook", new |-> p, previous |-> previous,
                version |-> v, link |-> l, revision |-> revision]]
  /\ UNCHANGED <<password, previous, version, revision, link, mailed, uses>>

(* changePassword and updateUserProfile.                                   *)
ChangeFind(r, p) == Start(r, p, version, 0)

(* resetPassword finds the account by the link, and does not select the    *)
(* version of its tokens.                                                  *)
ResetFind(r, p) == link # 0 /\ Start(r, p, 0, link)

(* Seeded faults: the list is never shortened; the replaced password goes  *)
(* to its end.                                                             *)
RememberedForever(old, list) ==
  [i \in 1 .. Len(list) + 1 |-> IF i = 1 THEN old ELSE list[i - 1]]

RememberedLast(old, list) ==
  [i \in 1 .. IF Len(list) < History THEN Len(list) + 1 ELSE History |->
     IF i <= Len(list) THEN list[i] ELSE old]

(* unshift, and pop when the list has become too long.                     *)
Remembered(old, list) ==
  [i \in 1 .. IF Len(list) < History THEN Len(list) + 1 ELSE History |->
     IF i = 1 THEN old ELSE list[i - 1]]

(* The pre-save hook puts the stored password, which it reads again, into  *)
(* the list in memory.                                                     *)
Hooked(j, stored) ==
  [j EXCEPT !.step = "save",
            !.previous = Remembered(stored, j.previous),
            !.version = j.version + 1]

PasswordHook(r) ==
  /\ job[r].step = "hook"
  /\ job' = [job EXCEPT ![r] = Hooked(job[r], password)]
  /\ UNCHANGED <<password, previous, version, revision, link, mailed, uses>>

(* Seeded fault: the revision is not compared.                             *)
SaveAcceptedAnyRevision(r) == TRUE

SaveAccepted(r) == job[r].revision = revision

(* Seeded fault: the link stays in the document after it was used.         *)
LinkKept(r) == link

(* What the save leaves of the link: a reset takes out the stored one.     *)
LinkAfter(r) == IF job[r].link # 0 THEN 0 ELSE link

PasswordSave(r) ==
  /\ job[r].step = "save"
  /\ SaveAccepted(r)
  /\ password' = job[r].new
  /\ previous' = job[r].previous
  /\ version' = job[r].version
  /\ revision' = revision + 1
  /\ link' = LinkAfter(r)
  /\ uses' = [l \in Link |-> IF l = job[r].link THEN uses[l] + 1 ELSE uses[l]]
  /\ job' = [job EXCEPT ![r] = Idle]
  /\ UNCHANGED mailed

(* Another revision was saved meanwhile: VersionError, nothing is changed. *)
PasswordRefused(r) ==
  /\ job[r].step = "save"
  /\ ~SaveAccepted(r)
  /\ job' = [job EXCEPT ![r] = Idle]
  /\ UNCHANGED <<password, previous, version, revision, link, mailed, uses>>

-----------------------------------------------------------------------------
(* A new link is mailed, and is the only one that works.                   *)
ForgotPassword ==
  /\ mailed < MaxLinks
  /\ mailed' = mailed + 1
  /\ link' = mailed + 1
  /\ UNCHANGED <<password, previous, version, revision, uses, job>>

(* Fifteen minutes pass.                                                   *)
LinkExpires ==
  /\ link # 0
  /\ link' = 0
  /\ UNCHANGED <<password, previous, version, revision, mailed, uses, job>>

(* The $inc of logoutAllDevices.                                           *)
LogoutAll ==
  /\ version < MaxVersion
  /\ version' = version + 1
  /\ UNCHANGED <<password, previous, revision, link, mailed, uses, job>>

(* An administrator changes the role or bans the user, without having      *)
(* selected the version: what is stored is one more than nothing.          *)
Moderate ==
  /\ version' = 1
  /\ UNCHANGED <<password, previous, revision, link, mailed, uses, job>>

(* A save that changes another list of the document: friends, skills.      *)
OtherSave ==
  /\ revision < MaxRevision
  /\ revision' = revision + 1
  /\ UNCHANGED <<password, previous, version, link, mailed, uses, job>>

(* The server restarts: requests being served are lost.                    *)
Restart ==
  /\ \E r \in Request : job[r] # Idle
  /\ job' = [r \in Request |-> Idle]
  /\ UNCHANGED <<password, previous, version, revision, link, mailed, uses>>

-----------------------------------------------------------------------------
Serve(r) ==
  \/ \E p \in Password : ChangeFind(r, p) \/ ResetFind(r, p)
  \/ PasswordHook(r) \/ PasswordSave(r) \/ PasswordRefused(r)

Elsewhere ==
  \/ ForgotPassword \/ LinkExpires \/ LogoutAll \/ Moderate \/ OtherSave

Next == Elsewhere \/ Restart \/ \E r \in Request : Serve(r)

Spec == Init /\ [][Next]_vars

-----------------------------------------------------------------------------
(* Types.                                                                  *)
TypeOK ==
  /\ password \in Password
  /\ previous \in Seq(Password) /\ Len(previous) <= History
  /\ version \in Nat
  /\ revision \in Nat
  /\ link \in 0 .. mailed
  /\ mailed \in 0 .. MaxLinks
  /\ uses \in [Link -> Nat]
  /\ job \in [Request -> Job \cup {Idle}]

(* "You cannot reuse a recent password": the stored password and those     *)
(* remembered are all different, although the test is made on a copy that  *)
(* may be stale when the new password is saved.                            *)
RecentPasswordsDiffer ==
  /\ password \notin Range(previous)
  /\ IsInjective(previous)

(* Whatever password a change replaces, also one that was stored after the *)
(* change had read the document, is remembered first, and no password that *)
(* was remembered is forgotten before its turn.                            *)
ReplacedIsRemembered ==
  [][password' # password =>
       /\ previous'[1] = password
       /\ \A i \in DOMAIN previous : i < History => previous'[i + 1] = previous[i]
    ]_vars

(* A reset link changes the password at most once, with two requests that  *)
(* present it at the same time and with a new link mailed in between.      *)
ResetLinkOnce == \A l \in Link : uses[l] <= 1

(* Every change of the password happens as if it were made at once, at the *)
(* moment of its save, and a refused one as if it had not been made: the   *)
(* version check of the save makes up for the time since the read.         *)
Policy == INSTANCE CredentialPolicy
            WITH Password <- Password, History <- History, MaxLinks <- MaxLinks,
                 password <- password, previous <- previous,
                 mailed <- mailed, uses <- uses

AtomicChanges == Policy!Spec

(* "Increment tokenVersion to revoke all existing JWTs on password change" *)
(* (the pre-save hook): the tokens that were valid before a change carry   *)
(* another version than the one stored by it.                              *)
ChangeRevokesTokens ==
  [][password' # password => version' # version]_vars

=============================================================================
