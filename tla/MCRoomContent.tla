--------------------------- MODULE MCRoomContent ---------------------------
(* A small instance of RoomContent for TLC.                                *)
EXTENDS RoomContent, TLC

CONSTANTS owner, u1, nobody, m1, t1, s1, nothing, r1, r2

Accounts == {owner, u1}
Messages == {m1}
Tasks == {t1}
Resources == {s1}
TwoRequests == {r1, r2}
Symmetry == Permutations(TwoRequests)

=============================================================================
