------------------------- MODULE MCRoomMembership -------------------------
(* A small instance of RoomMembership for TLC.                             *)
EXTENDS RoomMembership, TLC

CONSTANTS owner, u1, u2, u3, nobody, r1, r2

Accounts == {owner, u1, u2, u3}

(* u3 does not know the code of the room.                                  *)
CodeHolders == {owner, u1, u2}

TwoRequests == {r1, r2}

Symmetry == Permutations({u1, u2}) \cup Permutations(TwoRequests)

=============================================================================
