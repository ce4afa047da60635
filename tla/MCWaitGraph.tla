---------------------------- MODULE MCWaitGraph -----------------------------
(* Instances of WaitGraph for TLC. *)
EXTENDS WaitGraph, TLC

CONSTANTS a, b, c, d, i1, i2, i3, i4

Symmetry == Permutations(Blocks) \cup Permutations(Attempts)
=============================================================================
