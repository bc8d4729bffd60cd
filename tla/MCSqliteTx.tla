---------------------------- MODULE MCSqliteTx ----------------------------
(* SqliteTx with two users and two connections.                             *)
EXTENDS SqliteTx, TLC

CONSTANTS u1, u2, c1, c2

Symmetry == Permutations({u1, u2}) \cup Permutations({c1, c2})
=============================================================================
