------------------------------ MODULE LazyInit ------------------------------
(***************************************************************************)
(* What the runtime promises of a block's initialisation, as a health      *)
(* probe sees it (`BlockInitState`): Init runs when the block is first     *)
(* needed, succeeds or fails at most once for good, and may be retried     *)
(* after a transient failure, which is reported until an attempt settles.  *)
(* A cancelled attempt leaves the block as it found it.  `Retrying` is two *)
(* states: "Retrying" with time left to wait, "RetryDue" with none.        *)
(***************************************************************************)
CONSTANT Blocks
VARIABLES
  state,    \* what a health probe is told
  failed    \* the last attempt to settle failed transiently

vars == <<state, failed>>

InitStates ==
  {"NotInitialized", "Initializing", "Retrying", "RetryDue", "Ready", "Failed"}

Init ==
  /\ state = [b \in Blocks |-> "NotInitialized"]
  /\ failed = [b \in Blocks |-> FALSE]

\* Where a block without an attempt under way and without a window stands.
AtRest(b) == IF failed[b] THEN "RetryDue" ELSE "NotInitialized"

Move(b, from, to) == state[b] = from /\ state' = [state EXCEPT ![b] = to]

Note(b, failure) == failed' = [failed EXCEPT ![b] = failure]

\* A dispatch finds the block unsettled and runs its Init.
Start(b)   == Move(b, AtRest(b), "Initializing") /\ UNCHANGED failed
Succeed(b) == Move(b, "Initializing", "Ready") /\ Note(b, FALSE)
\* A deterministic failure is final.
Fail(b)    == Move(b, "Initializing", "Failed") /\ Note(b, FALSE)
\* A transient one is retried, not before its backoff has run out.
BackOff(b) == Move(b, "Initializing", "Retrying") /\ Note(b, TRUE)
Elapse(b)  == Move(b, "Retrying", "RetryDue") /\ UNCHANGED failed
\* The attempt was cancelled.
Abandon(b) == Move(b, "Initializing", AtRest(b)) /\ UNCHANGED failed

Next ==
  \E b \in Blocks :
    Start(b) \/ Succeed(b) \/ Fail(b) \/ BackOff(b) \/ Elapse(b) \/ Abandon(b)

Spec == Init /\ [][Next]_vars
=============================================================================
