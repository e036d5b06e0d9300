-------------------------- MODULE MCRefreshTokens --------------------------
(* A small instance of RefreshTokens for TLC.                              *)
EXTENDS RefreshTokens

CONSTANTS s1, s2, r1, r2, none

TwoSessions == {s1, s2}
TwoRequests == {r1, r2}

=============================================================================
