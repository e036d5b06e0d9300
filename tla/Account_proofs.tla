--------------------------- MODULE Account_proofs ---------------------------
(***************************************************************************)
(* Theorems about Account, for any number of passwords, requests, links    *)
(* and remembered passwords.                                               *)
(*                                                                         *)
(* The argument is optimistic locking: a change that has read the current  *)
(* revision has read the current passwords, and the link it uses has not   *)
(* been used; a change that has read an older one will be refused.         *)
(***************************************************************************)
EXTENDS Account, SequenceTheorems, TLAPS

(* What a change with the current revision knows.                          *)
UpToDate(j) ==
  /\ j.new \notin Recent
  /\ j.step = "hook" => j.previous = previous
  /\ j.step = "save" => j.previous = Remembered(password, previous)
  /\ j.link # 0 => uses[j.link] = 0

JobOK(j) ==
  /\ j.revision <= revision
  /\ j.link <= mailed
  /\ Len(j.previous) <= History
  /\ j.revision = revision => UpToDate(j)

JobsInv == \A r \in Request : job[r] = Idle \/ JobOK(job[r])

(* The link that works, and those not mailed yet, have not been used.      *)
LinksInv ==
  /\ link # 0 => uses[link] = 0
  /\ \A l \in Link : l > mailed => uses[l] = 0

Inv ==
  /\ TypeOK
  /\ RecentPasswordsDiffer
  /\ ResetLinkOnce
  /\ LinksInv
  /\ JobsInv

-----------------------------------------------------------------------------
(* What unshift and pop make of a list.                                    *)
LEMMA RememberedType ==
  ASSUME NEW old \in Password, NEW list \in Seq(Password),
         Len(list) <= History
  PROVE  /\ Remembered(old, list) \in Seq(Password)
         /\ Len(Remembered(old, list)) <= History
         /\ DOMAIN Remembered(old, list) =
              1 .. Len(Remembered(old, list))
         /\ Remembered(old, list)[1] = old
         /\ \A i \in DOMAIN list :
              i < History => Remembered(old, list)[i + 1] = list[i]
         /\ \A i \in DOMAIN Remembered(old, list) :
              i # 1 => /\ i - 1 \in DOMAIN list
                       /\ Remembered(old, list)[i] = list[i - 1]
<1> DEFINE n == IF Len(list) < History THEN Len(list) + 1 ELSE History
<1>1. /\ Len(list) \in Nat
      /\ DOMAIN list = 1 .. Len(list)
      /\ \A i \in DOMAIN list : list[i] \in Password
  BY LenProperties, ElementOfSeq
<1>2. n \in Nat /\ n >= 1 /\ n <= History /\ n <= Len(list) + 1
  BY <1>1, Assumptions
<1>3. \A i \in Nat : i >= 1 /\ i <= Len(list) /\ i < History => i + 1 <= n
  BY <1>1, Assumptions
<1>4. Remembered(old, list) =
        [i \in 1 .. n |-> IF i = 1 THEN old ELSE list[i - 1]]
  BY DEF Remembered
<1> HIDE DEF n
<1>5. \A i \in 1 .. n : i # 1 => i - 1 \in DOMAIN list
  BY <1>1, <1>2
<1>6. Remembered(old, list) \in [1 .. n -> Password]
  BY <1>1, <1>4, <1>5
<1>7. Remembered(old, list) \in Seq(Password)
  BY <1>2, <1>6, SeqDef
<1>8. Len(Remembered(old, list)) = n
  BY <1>2, <1>6, <1>7, LenProperties
<1>9. Remembered(old, list)[1] = old
  BY <1>2, <1>4
<1>10. ASSUME NEW i \in DOMAIN list, i < History
       PROVE  Remembered(old, list)[i + 1] = list[i]
  <2>1. i + 1 \in 1 .. n /\ i + 1 # 1 /\ (i + 1) - 1 = i
    BY <1>1, <1>2, <1>3, <1>10
  <2> QED
    BY <2>1, <1>4
<1>11. ASSUME NEW i \in 1 .. n, i # 1
       PROVE  Remembered(old, list)[i] = list[i - 1]
  BY <1>4, <1>11
<1> QED
  BY <1>2, <1>5, <1>6, <1>7, <1>8, <1>9, <1>10, <1>11

(* A list without repetitions, and without the password put before it,     *)
(* stays one.                                                              *)
LEMMA RememberedDiffer ==
  ASSUME NEW old \in Password, NEW list \in Seq(Password),
         Len(list) <= History,
         old \notin Range(list), IsInjective(list)
  PROVE  /\ IsInjective(Remembered(old, list))
         /\ Range(Remembered(old, list)) \subseteq {old} \cup Range(list)
<1> DEFINE new == Remembered(old, list)
<1>1. /\ new[1] = old
      /\ \A i \in DOMAIN new :
           i # 1 => i - 1 \in DOMAIN list /\ new[i] = list[i - 1]
      /\ DOMAIN new \subseteq Nat
  BY RememberedType, LenProperties
<1> HIDE DEF new
<1>2. \A i \in DOMAIN new : i # 1 => new[i] \in Range(list)
  BY <1>1 DEF Range
<1>3. ASSUME NEW i \in DOMAIN new, NEW k \in DOMAIN new, new[i] = new[k]
      PROVE  i = k
  <2>1. CASE i # 1 /\ k # 1
    <3>1. i - 1 = k - 1
      BY <1>1, <1>3, <2>1 DEF IsInjective
    <3> QED
      BY <3>1, <1>1
  <2>2. CASE i = 1 \/ k = 1
    BY <1>1, <1>2, <1>3, <2>2
  <2> QED
    BY <2>1, <2>2
<1>4. Range(new) \subseteq {old} \cup Range(list)
  BY <1>1, <1>2 DEF Range
<1> QED
  BY <1>3, <1>4 DEF new, IsInjective

-----------------------------------------------------------------------------
LEMMA InitHolds == Init => Inv
<1> SUFFICES ASSUME Init PROVE Inv
  OBVIOUS
<1>1. /\ <<>> \in Seq(Password)
      /\ Len(<<>>) = 0
      /\ Range(<<>>) = {}
      /\ IsInjective(<<>>)
  BY DEF Range, IsInjective
<1>2. \A l \in Link : uses[l] = 0
  BY DEF Init
<1>3. TypeOK
  BY <1>1, Assumptions DEF Init, TypeOK, Link
<1>4. RecentPasswordsDiffer
  BY <1>1 DEF Init, RecentPasswordsDiffer
<1>5. ResetLinkOnce /\ LinksInv
  BY <1>2 DEF Init, ResetLinkOnce, LinksInv
<1>6. JobsInv
  BY DEF Init, JobsInv
<1> QED
  BY <1>3, <1>4, <1>5, <1>6 DEF Inv

(* A job is a record, so it is none of the idle ones.                      *)
LEMMA NotIdle ==
  ASSUME Inv, NEW r \in Request, job[r].step \in {"hook", "save"}
  PROVE  job[r] \in Job /\ JobOK(job[r])
<1>1. job[r] # Idle
  BY DEF Idle
<1> QED
  BY <1>1 DEF Inv, TypeOK, JobsInv

(* Only the document's passwords, its revision and the links matter to a   *)
(* job: it stays in order while these stay or grow.                        *)
LEMMA JobKept ==
  ASSUME Inv, NEW j \in Job, JobOK(j),
         revision' \in Nat, revision' >= revision,
         mailed' \in Nat, mailed' >= mailed,
         revision' = revision =>
           UNCHANGED <<password, previous, uses>>
  PROVE  JobOK(j)'
<1>1. /\ j.revision \in Nat /\ j.link \in Nat /\ revision \in Nat
      /\ mailed \in Nat
  BY DEF Inv, TypeOK, Job
<1>2. j.revision <= revision' /\ j.link <= mailed'
  BY <1>1 DEF JobOK
<1>3. ASSUME j.revision = revision' PROVE UpToDate(j)'
  <2>1. revision' = revision
    BY <1>1, <1>3 DEF JobOK
  <2>2. UpToDate(j) /\ UNCHANGED <<password, previous, uses>>
    BY <1>3, <2>1 DEF JobOK
  <2>3. Recent' = Recent /\ Remembered(password, previous)' = Remembered(password, previous)
    BY <2>2 DEF Recent, Remembered
  <2> QED
    BY <2>2, <2>3 DEF UpToDate
<1> QED
  BY <1>2, <1>3 DEF JobOK

-----------------------------------------------------------------------------
(* A step that leaves the passwords, the links and the jobs alone.         *)
LEMMA ElsewhereKeeps ==
  ASSUME Inv,
         LogoutAll \/ Moderate \/ OtherSave \/ Restart \/ UNCHANGED vars
  PROVE  Inv'
<1>1. UNCHANGED <<password, previous, link, mailed, uses>>
  BY DEF LogoutAll, Moderate, OtherSave, Restart, vars
<1>2. /\ revision \in Nat /\ revision' \in Nat /\ revision' >= revision
      /\ mailed \in Nat
  BY DEF Inv, TypeOK, LogoutAll, Moderate, OtherSave, Restart, vars
<1>3. version' \in Nat
  BY DEF Inv, TypeOK, LogoutAll, Moderate, OtherSave, Restart, vars
<1>4. job' = job \/ job' = [r \in Request |-> Idle]
  BY DEF LogoutAll, Moderate, OtherSave, Restart, vars
<1>5. job' \in [Request -> Job \cup {Idle}]
  BY <1>4 DEF Inv, TypeOK
<1>6. TypeOK'
  BY <1>1, <1>2, <1>3, <1>5 DEF Inv, TypeOK
<1>7. RecentPasswordsDiffer' /\ ResetLinkOnce' /\ LinksInv'
  BY <1>1 DEF Inv, RecentPasswordsDiffer, ResetLinkOnce, LinksInv
<1>8. ASSUME NEW r \in Request, job'[r] # Idle PROVE JobOK(job[r])'
  <2>1. job'[r] = job[r] /\ job[r] \in Job /\ JobOK(job[r])
    BY <1>4, <1>8 DEF Inv, TypeOK, JobsInv
  <2>2. \A j \in Job : JobOK(j) => JobOK(j)'
    BY <1>1, <1>2, JobKept
  <2> QED
    BY <2>1, <2>2 DEF JobOK, UpToDate
<1> QED
  BY <1>6, <1>7, <1>8 DEF Inv, JobsInv

LEMMA LinkStepsKeep ==
  ASSUME Inv, ForgotPassword \/ LinkExpires
  PROVE  Inv'
<1>1. UNCHANGED <<password, previous, version, revision, uses, job>>
  BY DEF ForgotPassword, LinkExpires
<1>2. /\ mailed \in Nat /\ mailed' \in 0 .. MaxLinks /\ mailed' >= mailed
      /\ link' \in 0 .. mailed'
      /\ link' # 0 => link' \in Link /\ link' > mailed
  BY Assumptions DEF Inv, TypeOK, ForgotPassword, LinkExpires, Link
<1>3. TypeOK'
  BY <1>1, <1>2 DEF Inv, TypeOK
<1>4. RecentPasswordsDiffer' /\ ResetLinkOnce'
  BY <1>1 DEF Inv, RecentPasswordsDiffer, ResetLinkOnce
<1>5. \A l \in Link : l > mailed => uses[l] = 0
  BY DEF Inv, LinksInv
<1>6. \A l \in Link : l > mailed' => l > mailed
  BY <1>2 DEF Link
<1>7. LinksInv'
  BY <1>1, <1>2, <1>5, <1>6 DEF LinksInv
<1>8. revision \in Nat
  BY DEF Inv, TypeOK
<1>9. \A j \in Job : JobOK(j) => JobOK(j)'
  BY <1>1, <1>2, <1>8, JobKept
<1>10. JobsInv'
  <2> SUFFICES ASSUME NEW r \in Request, job[r] # Idle PROVE JobOK(job[r])'
    BY <1>1 DEF JobsInv
  <2>1. job[r] \in Job /\ JobOK(job[r])
    BY DEF Inv, TypeOK, JobsInv
  <2> QED
    BY <2>1, <1>1, <1>9 DEF JobOK, UpToDate
<1> QED
  BY <1>3, <1>4, <1>7, <1>10 DEF Inv

-----------------------------------------------------------------------------
(* A job begins, or goes on, or ends, and the document is left alone.      *)
LEMMA JobStepKeeps ==
  ASSUME Inv, NEW r \in Request,
         NEW j \in Job \cup {Idle}, j = Idle \/ JobOK(j),
         job' = [job EXCEPT ![r] = j],
         UNCHANGED <<password, previous, version, revision, link, mailed, uses>>
  PROVE  Inv'
<1>1. job' \in [Request -> Job \cup {Idle}]
  BY DEF Inv, TypeOK
<1>2. \A q \in Request : job'[q] = IF q = r THEN j ELSE job[q]
  BY DEF Inv, TypeOK
<1>3. TypeOK'
  BY <1>1 DEF Inv, TypeOK
<1>4. RecentPasswordsDiffer' /\ ResetLinkOnce' /\ LinksInv'
  BY DEF Inv, RecentPasswordsDiffer, ResetLinkOnce, LinksInv
<1>5. \A q \in Request : job'[q] = Idle \/ JobOK(job'[q])
  BY <1>2 DEF Inv, JobsInv
<1>6. Recent' = Recent /\ Remembered(password, previous)' = Remembered(password, previous)
  BY DEF Recent, Remembered
<1>7. JobsInv'
  BY <1>5, <1>6 DEF JobsInv, JobOK, UpToDate
<1> QED
  BY <1>3, <1>4, <1>7 DEF Inv

LEMMA StartKeeps ==
  ASSUME Inv, NEW r \in Request, NEW p \in Password,
         NEW v \in Nat, NEW l \in 0 .. mailed, l # 0 => uses[l] = 0,
         Start(r, p, v, l)
  PROVE  Inv'
<1> DEFINE j == [step |-> "hook", new |-> p, previous |-> previous,
                 version |-> v, link |-> l, revision |-> revision]
<1>1. /\ previous \in Seq(Password) /\ Len(previous) <= History
      /\ revision \in Nat /\ mailed \in Nat
  BY DEF Inv, TypeOK
<1>2. j \in Job
  BY <1>1 DEF Job
<1>3. JobOK(j)
  BY <1>1 DEF JobOK, UpToDate, Start
<1>4. job' = [job EXCEPT ![r] = j]
  BY DEF Start
<1>5. UNCHANGED <<password, previous, version, revision, link, mailed, uses>>
  BY DEF Start
<1> HIDE DEF j
<1> QED
  BY <1>2, <1>3, <1>4, <1>5, JobStepKeeps

(* A job after the hook.                                                   *)
LEMMA HookedType ==
  ASSUME NEW j \in Job, NEW old \in Password,
         Remembered(old, j.previous) \in Seq(Password)
  PROVE  /\ Hooked(j, old) \in Job
         /\ Hooked(j, old).step = "save"
         /\ Hooked(j, old).previous = Remembered(old, j.previous)
         /\ Hooked(j, old).new = j.new
         /\ Hooked(j, old).link = j.link
         /\ Hooked(j, old).revision = j.revision
<1> DEFINE list == Remembered(old, j.previous)
           v == j.version + 1
<1>1. v \in Nat
  BY DEF Job
<1>2. Hooked(j, old) = [j EXCEPT !.step = "save", !.previous = list, !.version = v]
  BY DEF Hooked
<1>3. list \in Seq(Password)
  OBVIOUS
<1> HIDE DEF list, v
<1>4. Hooked(j, old) =
        [step |-> "save", new |-> j.new, previous |-> list, version |-> v,
         link |-> j.link, revision |-> j.revision]
  BY <1>2, Zenon DEF Job
<1>5. /\ j.new \in Password /\ j.link \in Nat /\ j.revision \in Nat
  BY DEF Job
<1> QED
  BY <1>1, <1>3, <1>4, <1>5 DEF Job, list

LEMMA HookKeeps ==
  ASSUME Inv, NEW r \in Request, PasswordHook(r)
  PROVE  Inv'
<1> DEFINE list == Remembered(password, job[r].previous)
           j == Hooked(job[r], password)
<1>1. job[r].step = "hook" /\ job[r] \in Job /\ JobOK(job[r])
  BY NotIdle DEF PasswordHook
<1>2. /\ password \in Password
      /\ job[r].previous \in Seq(Password)
      /\ Len(job[r].previous) <= History
  BY <1>1 DEF Inv, TypeOK, Job, JobOK
<1>3. list \in Seq(Password) /\ Len(list) <= History
  BY <1>2, RememberedType
<1>4. /\ j \in Job
      /\ j.step = "save" /\ j.previous = list
      /\ j.new = job[r].new /\ j.link = job[r].link
      /\ j.revision = job[r].revision
  BY <1>1, <1>2, <1>3, HookedType
<1>5. UpToDate(job[r]) =>
        /\ job[r].new \notin Recent
        /\ list = Remembered(password, previous)
        /\ job[r].link # 0 => uses[job[r].link] = 0
  BY <1>1 DEF UpToDate
<1>6. job' = [job EXCEPT ![r] = j]
  BY DEF PasswordHook
<1>7. UNCHANGED <<password, previous, version, revision, link, mailed, uses>>
  BY DEF PasswordHook
<1> HIDE DEF j, list
<1>8. JobOK(j)
  BY <1>1, <1>3, <1>4, <1>5 DEF JobOK, UpToDate
<1> QED
  BY <1>4, <1>6, <1>7, <1>8, JobStepKeeps

(* An accepted save: what it stores.                                       *)
LEMMA SaveStores ==
  ASSUME Inv, NEW r \in Request, PasswordSave(r)
  PROVE  /\ job[r] \in Job /\ JobOK(job[r]) /\ UpToDate(job[r])
         /\ password' = job[r].new
         /\ password' \notin Recent
         /\ previous' = Remembered(password, previous)
<1>1. job[r].step = "save" /\ job[r] \in Job /\ JobOK(job[r])
  BY NotIdle DEF PasswordSave
<1>2. job[r].revision = revision
  BY DEF PasswordSave, SaveAccepted
<1> QED
  BY <1>1, <1>2 DEF JobOK, UpToDate, PasswordSave

LEMMA SaveKeeps ==
  ASSUME Inv, NEW r \in Request, PasswordSave(r)
  PROVE  Inv'
<1>1. /\ job[r] \in Job /\ JobOK(job[r]) /\ UpToDate(job[r])
      /\ password' = job[r].new
      /\ password' \notin Recent
      /\ previous' = Remembered(password, previous)
  BY SaveStores
<1>2. /\ password \in Password /\ previous \in Seq(Password)
      /\ Len(previous) <= History /\ revision \in Nat /\ mailed \in 0 .. MaxLinks
      /\ link \in 0 .. mailed
  BY DEF Inv, TypeOK
<1>3. password' \in Password /\ version' \in Nat /\ revision' = revision + 1
  BY <1>1 DEF PasswordSave, Job
<1>4. previous' \in Seq(Password) /\ Len(previous') <= History
  BY <1>1, <1>2, RememberedType
<1>5. RecentPasswordsDiffer'
  <2>1. password \notin Range(previous) /\ IsInjective(previous)
    BY DEF Inv, RecentPasswordsDiffer
  <2>2. /\ IsInjective(Remembered(password, previous))
        /\ Range(Remembered(password, previous)) \subseteq Recent
    BY <1>2, <2>1, RememberedDiffer DEF Recent
  <2> QED
    BY <1>1, <2>2 DEF RecentPasswordsDiffer
<1>6. /\ mailed' = mailed
      /\ link' = 0 \/ (link' = link /\ job[r].link = 0)
  BY DEF PasswordSave, LinkAfter
<1>7. \A q \in Request : job'[q] = IF q = r THEN Idle ELSE job[q]
  BY DEF PasswordSave, Inv, TypeOK
<1>8. job' \in [Request -> Job \cup {Idle}]
  BY DEF PasswordSave, Inv, TypeOK
<1>9. /\ uses \in [Link -> Nat]
      /\ uses' = [l \in Link |-> IF l = job[r].link THEN uses[l] + 1 ELSE uses[l]]
  BY DEF PasswordSave, Inv, TypeOK
<1>10. /\ job[r].link \in Nat /\ job[r].link <= mailed
       /\ job[r].link # 0 => uses[job[r].link] = 0
  BY <1>1 DEF Job, JobOK, UpToDate
<1>11. uses' \in [Link -> Nat]
  BY <1>9
<1>12. TypeOK'
  BY <1>2, <1>3, <1>4, <1>6, <1>8, <1>11 DEF TypeOK
<1>13. ResetLinkOnce'
  BY <1>9, <1>10 DEF ResetLinkOnce, Link, Inv
<1>14. LinksInv'
  <2>1. \A l \in Link : l > mailed => l # job[r].link
    BY <1>2, <1>10 DEF Link
  <2>2. link # 0 => link \in Link
    BY <1>2, Assumptions DEF Link
  <2>3. (link # 0 => uses[link] = 0) /\ \A l \in Link : l > mailed => uses[l] = 0
    BY DEF Inv, LinksInv
  <2> QED
    BY <1>6, <1>9, <2>1, <2>2, <2>3 DEF LinksInv
<1>15. JobsInv'
  <2> SUFFICES ASSUME NEW q \in Request, job'[q] # Idle PROVE JobOK(job[q])'
    BY DEF JobsInv
  <2>1. job'[q] = job[q] /\ job[q] \in Job /\ JobOK(job[q])
    BY <1>7 DEF Inv, TypeOK, JobsInv
  <2>2. \A j \in Job : JobOK(j) => JobOK(j)'
    BY <1>2, <1>3, <1>6, JobKept
  <2> QED
    BY <2>1, <2>2 DEF JobOK, UpToDate
<1> QED
  BY <1>5, <1>12, <1>13, <1>14, <1>15 DEF Inv

LEMMA ServeKeeps ==
  ASSUME Inv, NEW r \in Request, Serve(r)
  PROVE  Inv'
<1>1. ASSUME NEW p \in Password, ChangeFind(r, p) PROVE Inv'
  <2>1. version \in Nat /\ 0 \in 0 .. mailed
    BY DEF Inv, TypeOK
  <2> QED
    BY <1>1, <2>1, StartKeeps DEF ChangeFind
<1>2. ASSUME NEW p \in Password, ResetFind(r, p) PROVE Inv'
  <2>1. link \in 0 .. mailed /\ (link # 0 => uses[link] = 0)
    BY DEF Inv, TypeOK, LinksInv
  <2> QED
    BY <1>2, <2>1, StartKeeps DEF ResetFind
<1>3. CASE PasswordHook(r)
  BY <1>3, HookKeeps
<1>4. CASE PasswordSave(r)
  BY <1>4, SaveKeeps
<1>5. CASE PasswordRefused(r)
  BY <1>5, JobStepKeeps DEF PasswordRefused
<1> QED
  BY <1>1, <1>2, <1>3, <1>4, <1>5 DEF Serve

LEMMA NextKeeps == Inv /\ [Next]_vars => Inv'
<1> SUFFICES ASSUME Inv, [Next]_vars PROVE Inv'
  OBVIOUS
<1>1. CASE Elsewhere
  BY <1>1, ElsewhereKeeps, LinkStepsKeep DEF Elsewhere
<1>2. CASE Restart \/ UNCHANGED vars
  BY <1>2, ElsewhereKeeps
<1>3. ASSUME NEW r \in Request, Serve(r) PROVE Inv'
  BY <1>3, ServeKeeps
<1> QED
  BY <1>1, <1>2, <1>3 DEF Next

THEOREM Invariance == Spec => []Inv
BY InitHolds, NextKeeps, PTL DEF Spec

(* Type correctness (the User document and the changes of its password).   *)
THEOREM TypeCorrect == Spec => []TypeOK
<1>1. Inv => TypeOK
  BY DEF Inv
<1> QED
  BY <1>1, Invariance, PTL

(* The stored and the remembered passwords are all different, whichever    *)
(* changes run at the same time (isPasswordPreviouslyUsed, the hook).      *)
THEOREM RecentPasswordsDifferProved == Spec => []RecentPasswordsDiffer
<1>1. Inv => RecentPasswordsDiffer
  BY DEF Inv
<1> QED
  BY <1>1, Invariance, PTL

(* A reset link changes the password at most once (resetPassword).         *)
THEOREM ResetLinkOnceProved == Spec => []ResetLinkOnce
<1>1. Inv => ResetLinkOnce
  BY DEF Inv
<1> QED
  BY <1>1, Invariance, PTL

(* The replaced password is the first that is remembered (the hook).       *)
THEOREM ReplacedIsRememberedProved == Spec => ReplacedIsRemembered
<1> DEFINE Kept ==
      password' # password =>
        /\ previous'[1] = password
        /\ \A i \in DOMAIN previous :
             i < History => previous'[i + 1] = previous[i]
<1>1. ASSUME Inv, [Next]_vars PROVE Kept
  <2>1. CASE \E r \in Request : PasswordSave(r)
    <3>1. previous' = Remembered(password, previous)
      BY <1>1, <2>1, SaveStores
    <3>2. /\ password \in Password /\ previous \in Seq(Password)
          /\ Len(previous) <= History
      BY <1>1 DEF Inv, TypeOK
    <3> QED
      BY <3>1, <3>2, RememberedType
  <2>2. CASE ~ \E r \in Request : PasswordSave(r)
    <3>1. UNCHANGED password
      BY <1>1, <2>2 DEF Next, Elsewhere, Serve, vars, ForgotPassword,
         LinkExpires, LogoutAll, Moderate, OtherSave, Restart, ChangeFind,
         ResetFind, Start, PasswordHook, PasswordRefused
    <3> QED
      BY <3>1
  <2> QED
    BY <2>1, <2>2
<1>2. Inv /\ [Next]_vars => [Kept]_vars
  BY <1>1
<1> QED
  BY <1>2, Invariance, PTL DEF Spec, ReplacedIsRemembered

-----------------------------------------------------------------------------
(* unshift and pop store what the policy asks for.                         *)
LEMMA RememberedIsLatest ==
  ASSUME NEW old \in Password, NEW list \in Seq(Password),
         Len(list) <= History
  PROVE  Remembered(old, list) = Policy!Latest(History, <<old>> \o list)
<1> DEFINE all == <<old>> \o list
           new == Remembered(old, list)
<1>1. /\ all \in Seq(Password) /\ Len(all) = Len(list) + 1
      /\ \A i \in 1 .. Len(list) + 1 :
           all[i] = IF i = 1 THEN old ELSE list[i - 1]
      /\ Len(list) \in Nat
  OBVIOUS
<1>2. CASE Len(list) < History
  <2>1. /\ new \in Seq(Password) /\ Len(new) = Len(list) + 1
        /\ \A i \in 1 .. Len(list) + 1 : new[i] = all[i]
    <3>1. new = [i \in 1 .. Len(list) + 1 |-> IF i = 1 THEN old ELSE list[i - 1]]
      BY <1>2 DEF Remembered
    <3>2. new \in Seq(Password) /\ DOMAIN new = 1 .. Len(new) /\ Len(new) \in Nat
      BY RememberedType, LenProperties
    <3> QED
      BY <1>1, <3>1, <3>2
  <2>2. new = all
    BY <1>1, <2>1, SeqEqual
  <2>3. Len(all) <= History
    BY <1>1, <1>2, Assumptions
  <2> QED
    BY <2>2, <2>3 DEF Policy!Latest
<1>3. CASE Len(list) = History
  <2>1. new = [i \in 1 .. History |-> IF i = 1 THEN old ELSE list[i - 1]]
    BY <1>3 DEF Remembered
  <2>2. SubSeq(all, 1, History) = [i \in 1 .. History |-> all[i]]
    BY <1>1, <1>3, Assumptions
  <2>3. \A i \in 1 .. History : all[i] = IF i = 1 THEN old ELSE list[i - 1]
    BY <1>1, <1>3, Assumptions
  <2>4. ~(Len(all) <= History)
    BY <1>1, <1>3
  <2> QED
    BY <2>1, <2>2, <2>3, <2>4 DEF Policy!Latest
<1> QED
  BY <1>1, <1>2, <1>3, Assumptions

LEMMA FirstUse ==
  ASSUME NEW f \in [Link -> Nat], NEW k \in Link, f[k] = 0
  PROVE  [l \in Link |-> IF l = k THEN f[l] + 1 ELSE f[l]] =
           [f EXCEPT ![k] = 1]
<1>1. f[k] + 1 = 1
  OBVIOUS
<1> QED
  BY <1>1

(* A save of a change is the policy's change, or its reset.                *)
LEMMA SaveImplements ==
  ASSUME Inv, NEW r \in Request, PasswordSave(r)
  PROVE  Policy!Next
<1>1. /\ job[r] \in Job /\ JobOK(job[r]) /\ UpToDate(job[r])
      /\ password' = job[r].new
      /\ password' \notin Recent
      /\ previous' = Remembered(password, previous)
  BY SaveStores
<1>2. /\ password \in Password /\ previous \in Seq(Password)
      /\ Len(previous) <= History /\ mailed \in 0 .. MaxLinks
      /\ uses \in [Link -> Nat]
  BY DEF Inv, TypeOK
<1>3. job[r].new \in Password /\ job[r].link \in Nat /\ job[r].link <= mailed
  BY <1>1 DEF Job, JobOK
<1>4. Policy!Replace(job[r].new)
  BY <1>1, <1>2, RememberedIsLatest
  DEF Policy!Replace, Recent, Range, Policy!Range, PasswordSave
<1>5. uses' = [l \in Link |-> IF l = job[r].link THEN uses[l] + 1 ELSE uses[l]]
  BY DEF PasswordSave
<1>6. CASE job[r].link = 0
  <2>1. \A l \in Link : l # 0
    BY DEF Link
  <2>2. uses' = uses
    BY <1>2, <1>5, <1>6, <2>1
  <2> QED
    BY <1>3, <1>4, <2>2 DEF Policy!Next, Policy!Change
<1>7. CASE job[r].link # 0
  <2>1. job[r].link \in Link
    BY <1>2, <1>3, <1>7, Assumptions DEF Link
  <2>2. uses[job[r].link] = 0
    BY <1>1, <1>7 DEF UpToDate
  <2>3. uses' = [uses EXCEPT ![job[r].link] = 1]
    BY <1>2, <1>5, <2>1, <2>2, FirstUse
  <2>4. Policy!Reset(job[r].new, job[r].link)
    BY <1>3, <1>4, <2>2, <2>3 DEF Policy!Reset
  <2> QED
    BY <1>3, <2>1, <2>4 DEF Policy!Next, Policy!Link, Link
<1> QED
  BY <1>6, <1>7

LEMMA StepImplements ==
  ASSUME Inv, [Next]_vars
  PROVE  [Policy!Next]_(Policy!vars)
<1>1. CASE \E r \in Request : PasswordSave(r)
  BY <1>1, SaveImplements
<1>2. CASE ForgotPassword
  BY <1>2 DEF ForgotPassword, Policy!Next, Policy!Mail
<1>3. CASE ~ForgotPassword /\ ~ \E r \in Request : PasswordSave(r)
  <2>1. UNCHANGED <<password, previous, mailed, uses>>
    BY <1>3 DEF Next, Elsewhere, Serve, vars, LinkExpires, LogoutAll, Moderate,
       OtherSave, Restart, ChangeFind, ResetFind, Start, PasswordHook,
       PasswordRefused
  <2> QED
    BY <2>1 DEF Policy!vars
<1> QED
  BY <1>1, <1>2, <1>3

(* The changes of password, which read, hash and save with other requests  *)
(* in between, are as good as changes made at once (changePassword,        *)
(* updateUserProfile, resetPassword, the pre-save hook).                   *)
THEOREM AtomicChangesProved == Spec => AtomicChanges
<1>1. Init => Policy!Init
  BY DEF Init, Policy!Init, Link, Policy!Link
<1>2. Inv /\ [Next]_vars => [Policy!Next]_(Policy!vars)
  BY StepImplements
<1> QED
  BY <1>1, <1>2, Invariance, PTL DEF Spec, AtomicChanges, Policy!Spec

=============================================================================
