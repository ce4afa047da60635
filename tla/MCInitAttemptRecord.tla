------------------------ MODULE MCInitAttemptRecord -------------------------
(* Instances of InitAttemptRecord for TLC. *)
EXTENDS InitAttemptRecord, TLC

CONSTANTS r1, r2, r3, d1, d2

\* r1's Init reaches r2's, and r2's reaches r3's.
Nested == (r1 :> NoRecord) @@ (r2 :> r1) @@ (r3 :> r2)

CallSymmetry == Permutations(Calls)
=============================================================================
