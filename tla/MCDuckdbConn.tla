--------------------------- MODULE MCDuckdbConn ---------------------------
(* DuckdbConn with two statements, two Rows, a watcher beside the call's    *)
(* own, and results of up to two chunks of up to two rows.                  *)
EXTENDS DuckdbConn, TLC

CONSTANTS s1, s2, r1, r2, w1, w2

Symmetry == Permutations({s1, s2}) \cup Permutations({r1, r2}) \cup Permutations({w1, w2})
=============================================================================
