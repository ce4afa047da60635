--------------------------- MODULE MCInitPipeline ---------------------------
(* Instances of InitPipeline for TLC. *)
EXTENDS InitPipeline, TLC

CONSTANTS blkA, blkB, c1, c2, c3, c4

\* blkA's Init calls blkB and blkB's calls blkA: the two-block cycle.
MutualCalls == (blkA :> {blkB}) @@ (blkB :> {blkA})

\* blkA retries until it is ready, blkB is ready or fails for good.
OkOrRetry == (blkA :> {"ok", "transient"}) @@ (blkB :> {"ok", "permanent"})
\* blkA's failures are its own, for good, or its budget's; blkB's pass.
FailOrRetry == (blkA :> {"ok", "permanent"}) @@ (blkB :> {"ok", "transient"})
OkOnly    == [x \in Blocks |-> {"ok"}]

(* Every call on its way to a ready block is answered or dropped.  Neither *)
(* Init, Next nor Fairness tells the calls apart, so renaming the calls of *)
(* a behaviour that never answers one gives a behaviour that never answers *)
(* c1: what holds of c1 holds of every call.                               *)
EveryCallEnds == CallEnds(c1)

CallSymmetry == Permutations(Calls)
=============================================================================
