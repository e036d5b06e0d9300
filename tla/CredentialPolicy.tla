-------------------------- MODULE CredentialPolicy --------------------------
(***************************************************************************)
(* What the changes of one account's password promise, as if each were     *)
(* made at once: the new password is none of the recent ones, the one it   *)
(* replaces is remembered in front of the others, of which the last is     *)
(* forgotten when there are too many, and a reset uses up a link that has  *)
(* been mailed and not used.                                               *)
(*                                                                         *)
(* Account, in which a change reads, hashes and saves with other requests  *)
(* in between, implements it.                                              *)
(***************************************************************************)
EXTENDS Naturals, Sequences, Functions

CONSTANTS
  Password,   \* passwords that pass the strength tests
  History,    \* replaced passwords that are remembered
  MaxLinks    \* reset links that are mailed at most

VARIABLES
  password,   \* the password that opens the account
  previous,   \* the replaced ones, the latest first
  mailed,     \* number of reset links mailed so far
  uses        \* how often each link has changed the password

vars == <<password, previous, mailed, uses>>

Link == 1 .. MaxLinks

Init ==
  /\ password \in Password
  /\ previous = <<>>
  /\ mailed = 0
  /\ uses = [l \in Link |-> 0]

Latest(n, list) == IF Len(list) <= n THEN list ELSE SubSeq(list, 1, n)

Replace(p) ==
  /\ p # password
  /\ p \notin Range(previous)
  /\ password' = p
  /\ previous' = Latest(History, <<password>> \o previous)
  /\ UNCHANGED mailed

(* By somebody who is logged in.                                           *)
Change(p) == Replace(p) /\ UNCHANGED uses

(* By somebody who has been mailed link l.                                 *)
Reset(p, l) ==
  /\ l <= mailed
  /\ uses[l] = 0
  /\ uses' = [uses EXCEPT ![l] = 1]
  /\ Replace(p)

Mail ==
  /\ mailed < MaxLinks
  /\ mailed' = mailed + 1
  /\ UNCHANGED <<password, previous, uses>>

Next ==
  \/ Mail
  \/ \E p \in Password : Change(p) \/ \E l \in Link : Reset(p, l)

Spec == Init /\ [][Next]_vars

=============================================================================
