---------------------------- MODULE MCRoomVideo ----------------------------
(* Small instances of RoomVideo.                                           *)
EXTENDS RoomVideo, TLC

CONSTANTS amy, bob, cat

Accounts == {amy, bob, cat}

Symmetry == Permutations(Accounts)
=============================================================================
