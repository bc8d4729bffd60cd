-------------------------- MODULE MCForeignCalls --------------------------
(* ForeignCalls with two goroutines and two blocks of C memory: one         *)
(* goroutine's early free can become the other's block.                     *)
EXTENDS ForeignCalls, TLC

CONSTANTS g1, g2, b1, b2

Symmetry == Permutations({g1, g2}) \cup Permutations({b1, b2})
=============================================================================
