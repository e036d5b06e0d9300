---------------------------- MODULE MCDirectCall ----------------------------
(* Two accounts that place two calls, one flow of a page at a time.         *)
EXTENDS DirectCall, TLC

CONSTANTS a, b, s1

Accounts == {a, b}
Slots == {s1}

Symmetry == Permutations(Accounts)

=============================================================================
