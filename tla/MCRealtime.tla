---------------------------- MODULE MCRealtime ----------------------------
(* A small instance of Realtime for TLC: Ann connects up to three times    *)
(* (windows or reconnections), Bob and Cy once.                            *)
EXTENDS Realtime

CONSTANTS a1, a2, a3, b1, c1, ann, bob, cy, v1, v2, none

Connections == {a1, a2, a3, b1, c1}

Accounts == {ann, bob, cy}

AccountOf ==
  [s \in Connections |-> CASE s \in {a1, a2, a3} -> ann
                           [] s = b1 -> bob
                           [] s = c1 -> cy]

FewConnections == {a1, a2, b1}

FewAccounts == {ann, bob}

FewAccountOf == [s \in FewConnections |-> IF s = b1 THEN bob ELSE ann]

OneRoom == {v1}

TwoRooms == {v1, v2}

=============================================================================
