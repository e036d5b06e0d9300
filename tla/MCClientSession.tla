--------------------------- MODULE MCClientSession ---------------------------
(* A small instance of ClientSession for TLC.                              *)
EXTENDS ClientSession

CONSTANTS t1, s1, s2

OneTab == {t1}

TwoSlots == {s1, s2}

=============================================================================
