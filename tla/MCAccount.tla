----------------------------- MODULE MCAccount -----------------------------
(* A small instance of Account for TLC.                                    *)
EXTENDS Account, TLC

CONSTANTS p1, p2, p3, p4, r1, r2

FourPasswords == {p1, p2, p3, p4}

TwoRequests == {r1, r2}

Symmetry == Permutations(FourPasswords) \cup Permutations(TwoRequests)

=============================================================================
