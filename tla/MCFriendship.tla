---------------------------- MODULE MCFriendship ----------------------------
(* Two accounts and two HTTP requests at a time.                           *)
EXTENDS Friendship, TLC

CONSTANTS a, b, r1, r2

Accounts == {a, b}
Requests == {r1, r2}

Symmetry == Permutations(Accounts) \cup Permutations(Requests)

=============================================================================
