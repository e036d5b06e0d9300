------------------------------ MODULE MCSignIn ------------------------------
(* Two requests at a time.                                                 *)
EXTENDS SignIn, TLC

CONSTANTS r1, r2

TwoRequests == {r1, r2}

Symmetry == Permutations(Request)

=============================================================================
