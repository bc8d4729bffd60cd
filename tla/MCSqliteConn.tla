--------------------------- MODULE MCSqliteConn ---------------------------
(* SqliteConn with two statements, two Rows, two watchers and one context   *)
(* that can be cancelled beside Background.                                 *)
EXTENDS SqliteConn, TLC

CONSTANTS s1, s2, r1, r2, w1, w2

Symmetry == Permutations({s1, s2}) \cup Permutations({r1, r2}) \cup Permutations({w1, w2})
=============================================================================
