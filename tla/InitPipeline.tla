---------------------------- MODULE InitPipeline ----------------------------
(***************************************************************************)
(* Lazy block initialisation: every dispatch that reaches a block whose    *)
(* `lifecycle(Init)` has not settled runs it, or waits for the run already *)
(* in flight.  The module composes                                         *)
(*   - `BlockSlot::get_or_init`: the attempt lock, the outcome, the        *)
(*     transient backoff and the in-flight flag (runtime/slot.rs);         *)
(*   - `InitWaits`: the runtime-wide wait-for graph that refuses the wait  *)
(*     closing an init cycle (runtime/init_waits.rs);                      *)
(*   - `run_init_pipeline` and `run_resolved`: the order in which the two  *)
(*     are used, the init budget, and the `InitWait` modes                 *)
(*     (runtime.rs, runtime/runner.rs).                                    *)
(*                                                                         *)
(* A call is one pass through `run_resolved` or `Wafer::init_block`, and,  *)
(* since the pipeline creates one `InitAttempt` per pass, also the identity*)
(* of that attempt.  Each critical section of the code is one action, so   *)
(* steps of calls on other threads fall between any two of them.           *)
(***************************************************************************)
EXTENDS Naturals, Sequences

CONSTANTS
  Blocks,       \* registered blocks
  Calls,        \* identities of calls (and of the attempts they create)
  NoCall,       \* not a call: a free lock, an unowned block, no outer Init
  InitCalls,    \* block -> the blocks its Init may call
  InitResults,  \* block -> how its Init can return
  Deferring,    \* blocks whose Init leaves work behind that uses its context
  Budgeted,     \* blocks with an init budget (declared, or capped)
  InitWait,     \* "Await" or "Refuse"
  Entries,      \* how the host reaches blocks: "run_block", "init_block"
  HostMayDrop,  \* futures may be dropped part-way
  HostMayStop   \* the host stops requests without running destructors

Results == {"ok", "permanent", "transient"}

ASSUME ConstantsAssumption ==
  /\ Blocks # {}
  /\ NoCall \notin Calls
  /\ InitCalls \in [Blocks -> SUBSET Blocks]
  /\ InitResults \in [Blocks -> SUBSET Results]
  /\ Deferring \subseteq Blocks
  /\ Budgeted \subseteq Blocks
  /\ Entries \subseteq {"run_block", "init_block"}
  /\ HostMayDrop \in BOOLEAN
  /\ InitWait \in {"Await", "Refuse"}
  \* `Await` is for hosts where a dispatch that stops part-way still
  \* releases the attempt lock.
  /\ HostMayStop \in BOOLEAN
  /\ HostMayStop => InitWait = "Refuse"

VARIABLES
  \* BlockSlot, per block
  outcome,    \* SlotState.outcome: "none", "ok" or "permanent"
  backoff,    \* SlotState.backoff: "none"; "waiting" while now < retry_at,
              \* then "due" until an attempt settles
  inFlight,   \* SlotState.in_flight
  holder,     \* the call holding the attempt lock
  queue,      \* the calls waiting for it, in FIFO order (tokio::sync::Mutex)
  \* InitWaits
  owners,     \* WaitGraph.owners
  edges,      \* WaitGraph.waits: the calls whose WaitGuard is alive
  \* calls
  pc,         \* where the call stands
  via,        \* how it was made
  target,     \* the block it needs
  parent,     \* template.init_attempt: the attempt it runs on behalf of
  chain,      \* the calls whose future contains its own (dropped with them)
  begun,      \* attempts whose Init context exists
  called,     \* the blocks an attempt's Init has called so far
  late,       \* the attempt's deadline has passed
  answer,     \* what its Init produced, then what the call returns
  stopped     \* requests the host stopped without running destructors

slotVars  == <<outcome, backoff, inFlight>>
lockVars  == <<holder, queue>>
graphVars == <<owners, edges>>
callVars  == <<via, target, parent, chain>>
runVars   == <<begun, called, late>>
vars == <<slotVars, lockVars, graphVars, pc, callVars, runVars, answer, stopped>>

CallOrNone == Calls \cup {NoCall}
Outcomes   == {"none", "ok", "permanent"}
Backoffs   == {"none", "waiting", "due"}
Answers    == {"none", "ok", "permanent", "transient", "dropped"}

(* Where a call can stand.  The states at which the code awaits, so that   *)
(* its future can be dropped, are "queued", "locked" (the lock was handed  *)
(* over and the task not polled yet), "running" and "serving"; every other *)
(* state is inside a synchronous section.                                  *)
Resting  == {"idle", "done"}
Awaiting == {"queued", "locked", "running", "serving"}
\* Between `own` and the OwnerGuard's drop.
Owning   == {"running", "returning", "expired", "dropping"}
\* Between marking the attempt in flight and recording its outcome.
Attempting == Owning \cup {"starting", "recording", "abandoning"}
Holding    == Attempting \cup {"locked", "releasing"}
Waiting    == Holding \cup {"joined", "queued", "leaving"}
States     == Resting \cup Waiting \cup {"unsettled", "piping", "serving"}

-----------------------------------------------------------------------------
(* Derived state *)

\* SlotState::settled: the answer a caller gets without running init.
Settled(b) == outcome[b] # "none" \/ backoff[b] = "waiting"

\* The live calls whose futures are inside c's.
Inner(c) == {d \in Calls : c \in chain[d] /\ pc[d] \notin Resting}

\* c's task is between polls: c's future and all inside it are at an await.
AtAwait(c) == \A d \in Inner(c) : pc[d] \in Awaiting

\* A future around c's is being dropped: c is never polled again.
Doomed(c) == \E a \in chain[c] : pc[a] \in {"expired", "dropping"}

\* The host stopped the request c belongs to: c is neither polled nor dropped.
Frozen(c) == c \in stopped \/ chain[c] \cap stopped # {}

Polled(c) == ~Doomed(c) /\ ~Frozen(c)

\* InitWaits::is_running on the attempt the call's context carries.
InsideRunningInit(c) ==
  /\ parent[c] # NoCall
  /\ owners[target[parent[c]]] = parent[c]

(* WaitGraph.waits[a], as the set of owners of the blocks a waits for.     *)
WaitedOwners(a) == {owners[target[d]] : d \in {e \in edges : parent[e] = a}}

\* R holds every owner its members wait for.
ClosedUnderWaits(R) == \A a \in R : WaitedOwners(a) \cap Calls \subseteq R

\* Mutant: only the block's own owner is looked at, not what it waits for.
ReachesOwnerOnly(block, goal) == owners[block] = goal

(* WaitGraph::reaches: the walk from block's owner along the recorded waits*)
(* arrives at goal, that is, goal is in every set that holds the owner and *)
(* is closed under waits.  WaitGraph.tla relates it to the code's search.  *)
Reaches(block, goal) ==
  /\ owners[block] # NoCall
  /\ \A R \in SUBSET Calls :
       owners[block] \in R /\ ClosedUnderWaits(R) => goal \in R

-----------------------------------------------------------------------------
AnyBlock == CHOOSE b \in Blocks : TRUE

Init ==
  /\ outcome  = [b \in Blocks |-> "none"]
  /\ backoff  = [b \in Blocks |-> "none"]
  /\ inFlight = [b \in Blocks |-> FALSE]
  /\ holder   = [b \in Blocks |-> NoCall]
  /\ queue    = [b \in Blocks |-> <<>>]
  /\ owners   = [b \in Blocks |-> NoCall]
  /\ edges    = {}
  /\ pc       = [c \in Calls |-> "idle"]
  /\ via      = [c \in Calls |-> "run_block"]
  /\ target   = [c \in Calls |-> AnyBlock]
  /\ parent   = [c \in Calls |-> NoCall]
  /\ chain    = [c \in Calls |-> {}]
  /\ begun    = {}
  /\ called   = [c \in Calls |-> {}]
  /\ late     = [c \in Calls |-> FALSE]
  /\ answer   = [c \in Calls |-> "none"]
  /\ stopped  = {}

-----------------------------------------------------------------------------
(* A call ends, and its locals with it.  Of an attempt whose Init left work*)
(* behind, the context stays: the block, the deadline and the calls made.  *)
(* Attempt identities are never reused in the code; here one is, as soon   *)
(* as nothing refers to it.                                                *)
Kept(c) == c \in begun /\ target[c] \in Deferring

Return(c) ==
  /\ pc' = [pc EXCEPT ![c] = IF Kept(c) THEN "done" ELSE "idle"]
  /\ target' = [target EXCEPT ![c] = IF Kept(c) THEN @ ELSE AnyBlock]
  /\ begun' = IF Kept(c) THEN begun ELSE begun \ {c}
  /\ called' = [called EXCEPT ![c] = IF Kept(c) THEN @ ELSE {}]
  /\ late' = [late EXCEPT ![c] = Kept(c) /\ @]
  /\ via' = [via EXCEPT ![c] = "run_block"]
  /\ parent' = [parent EXCEPT ![c] = NoCall]
  /\ chain' = [chain EXCEPT ![c] = {}]
  /\ answer' = [answer EXCEPT ![c] = "none"]

\* A call on b comes under way at `at`, on behalf of attempt p, its future
\* inside those of `around`.
Enter(c, at, how, b, p, around) ==
  /\ pc' = [pc EXCEPT ![c] = at]
  /\ via' = [via EXCEPT ![c] = how]
  /\ target' = [target EXCEPT ![c] = b]
  /\ parent' = [parent EXCEPT ![c] = p]
  /\ chain' = [chain EXCEPT ![c] = around]

(* run_resolved looks at the slot first (BlockSlot::try_cached): a ready   *)
(* block is run, a failed or backing-off one is answered with its error,   *)
(* for any other the call goes on.                                         *)
Dispatch(c, how, b, p, around) ==
  /\ pc[c] = "idle"
  /\ \/ outcome[b] = "ok" /\ Enter(c, "serving", how, b, p, around)
     \/ outcome[b] # "ok" /\ Settled(b) /\ UNCHANGED <<pc, callVars>>
     \/ ~Settled(b) /\ Enter(c, "unsettled", how, b, p, around)
  /\ UNCHANGED <<slotVars, lockVars, graphVars, begun, late, answer, stopped>>

-----------------------------------------------------------------------------
(* Calls are made *)

\* A dispatch outside every Init: Wafer::run_block, a flow step, or a
\* `call_block` made by a handler such a dispatch runs.
RunBlock(c, b) ==
  /\ "run_block" \in Entries
  /\ Dispatch(c, "run_block", b, NoCall, {})
  /\ UNCHANGED called

\* Wafer::init_block goes to the pipeline without looking at the slot.
InitBlock(c, b) ==
  /\ "init_block" \in Entries
  /\ pc[c] = "idle"
  /\ Enter(c, "joined", "init_block", b, NoCall, {})
  /\ UNCHANGED <<slotVars, lockVars, graphVars, runVars, answer, stopped>>

\* Bound: an attempt's context calls each block at most once.
OncePerAttempt(p, b) == b \notin called[p]

(* A context of attempt p admits a call on b: its deadline is the          *)
(* attempt's, and a call made past it is refused.  The gates before and    *)
(* after that one (depth, `requires`, capabilities, registration, action)  *)
(* do not depend on this state: InitCalls holds what they let through.     *)
Admit(p, b) ==
  /\ p \in begun /\ ~late[p]
  /\ b \in InitCalls[target[p]] /\ OncePerAttempt(p, b)
  /\ called' = [called EXCEPT ![p] = @ \cup {b}]

\* `call_block` awaited by p's Init.
CallBlock(c, p, b) ==
  /\ Admit(p, b)
  /\ pc[p] = "running" /\ Polled(p) /\ AtAwait(p)
  /\ Dispatch(c, "call_block", b, p, chain[p] \cup {p})

\* `call_block` by deferred work, through a clone (`clone_arc`) of p's
\* context that may outlive p's Init.
DeferredCall(c, p, b) ==
  /\ Admit(p, b)
  /\ target[p] \in Deferring
  /\ Dispatch(c, "call_block", b, p, {})

-----------------------------------------------------------------------------
(* run_resolved and run_init_pipeline, up to the attempt lock *)

(* Under InitWait::Refuse an unsettled block is answered at once, unless   *)
(* the call is made from inside a running Init.                            *)
Refuse(c) ==
  /\ pc[c] = "unsettled" /\ Polled(c)
  /\ InitWait = "Refuse" /\ ~InsideRunningInit(c)
  /\ Return(c)
  /\ UNCHANGED <<slotVars, lockVars, graphVars, stopped>>

\* Mutant: a request waits for init under Refuse too.
ProceedAlways(c) ==
  /\ pc[c] = "unsettled" /\ Polled(c)
  /\ pc' = [pc EXCEPT ![c] = IF parent[c] = NoCall THEN "joined" ELSE "piping"]
  /\ UNCHANGED <<slotVars, lockVars, graphVars, callVars, runVars, answer, stopped>>

\* The call enters the pipeline; outside every Init it adds no edge.
Proceed(c) ==
  /\ pc[c] = "unsettled" /\ Polled(c)
  /\ InitWait = "Await" \/ InsideRunningInit(c)
  /\ pc' = [pc EXCEPT ![c] = IF parent[c] = NoCall THEN "joined" ELSE "piping"]
  /\ UNCHANGED <<slotVars, lockVars, graphVars, callVars, runVars, answer, stopped>>

\* Mutant: the wait is recorded without looking for a cycle.
WaitForUnchecked(c) ==
  /\ pc[c] = "piping" /\ Polled(c)
  /\ edges' = edges \cup {c}
  /\ pc' = [pc EXCEPT ![c] = "joined"]
  /\ UNCHANGED <<slotVars, lockVars, owners, callVars, runVars, answer, stopped>>

\* InitWaits::wait_for: the attempt's wait is recorded ...
WaitFor(c) ==
  /\ pc[c] = "piping" /\ Polled(c)
  /\ ~Reaches(target[c], parent[c])
  /\ edges' = edges \cup {c}
  /\ pc' = [pc EXCEPT ![c] = "joined"]
  /\ UNCHANGED <<slotVars, lockVars, owners, callVars, runVars, answer, stopped>>

\* ... or refused, when it would close a cycle.
RefuseCycle(c) ==
  /\ pc[c] = "piping" /\ Polled(c)
  /\ Reaches(target[c], parent[c])
  /\ Return(c)
  /\ UNCHANGED <<slotVars, lockVars, graphVars, stopped>>

-----------------------------------------------------------------------------
(* get_or_init *)

\* `self.attempt.lock().await` is polled for the first time.
Enqueue(c) ==
  /\ pc[c] = "joined" /\ Polled(c)
  /\ queue' = [queue EXCEPT ![target[c]] = Append(@, c)]
  /\ pc' = [pc EXCEPT ![c] = "queued"]
  /\ UNCHANGED <<slotVars, holder, graphVars, callVars, runVars, answer, stopped>>

\* Mutant: the lock's guard is not kept (`let _ = self.attempt.lock().await`).
AcquireUnheld(c) ==
  LET b == target[c] IN
  /\ pc[c] = "queued"
  /\ holder[b] = NoCall
  /\ queue[b] # <<>> /\ Head(queue[b]) = c
  /\ queue' = [queue EXCEPT ![b] = Tail(@)]
  /\ pc' = [pc EXCEPT ![c] = "locked"]
  /\ UNCHANGED <<slotVars, holder, graphVars, callVars, runVars, answer, stopped>>

(* The lock is handed to the waiter that queued first, whether or not its  *)
(* task will ever be polled again.                                         *)
Acquire(c) ==
  LET b == target[c] IN
  /\ pc[c] = "queued"
  /\ holder[b] = NoCall
  /\ queue[b] # <<>> /\ Head(queue[b]) = c
  /\ holder' = [holder EXCEPT ![b] = c]
  /\ queue' = [queue EXCEPT ![b] = Tail(@)]
  /\ pc' = [pc EXCEPT ![c] = "locked"]
  /\ UNCHANGED <<slotVars, graphVars, callVars, runVars, answer, stopped>>

\* Under the attempt lock, the slot is looked at again: an outcome settled
\* meanwhile is taken ...
TakeSettled(c) ==
  LET b == target[c] IN
  /\ pc[c] = "locked" /\ Polled(c)
  /\ Settled(b)
  /\ answer' = [answer EXCEPT ![c] = IF outcome[b] # "none" THEN outcome[b] ELSE "transient"]
  /\ pc' = [pc EXCEPT ![c] = "releasing"]
  /\ UNCHANGED <<slotVars, lockVars, graphVars, callVars, runVars, stopped>>

\* Mutant: no second look at the slot under the lock.
BeginAttemptUnchecked(c) ==
  /\ pc[c] = "locked" /\ Polled(c)
  /\ inFlight' = [inFlight EXCEPT ![target[c]] = TRUE]
  /\ pc' = [pc EXCEPT ![c] = "starting"]
  /\ UNCHANGED <<outcome, backoff, lockVars, graphVars, callVars, runVars, answer, stopped>>

\* ... and otherwise the attempt is marked in flight.
BeginAttempt(c) ==
  /\ pc[c] = "locked" /\ Polled(c)
  /\ ~Settled(target[c])
  /\ inFlight' = [inFlight EXCEPT ![target[c]] = TRUE]
  /\ pc' = [pc EXCEPT ![c] = "starting"]
  /\ UNCHANGED <<outcome, backoff, lockVars, graphVars, callVars, runVars, answer, stopped>>

\* InitWaits::own; the Init context and the budget's deadline exist from here.
Own(c) ==
  /\ pc[c] = "starting" /\ Polled(c)
  /\ owners' = [owners EXCEPT ![target[c]] = c]
  /\ begun' = begun \cup {c}
  /\ pc' = [pc EXCEPT ![c] = "running"]
  /\ UNCHANGED <<slotVars, lockVars, edges, callVars, called, late, answer, stopped>>

-----------------------------------------------------------------------------
(* The attempt: config load and lifecycle(Init) raced against the budget *)

DeadlinePasses(c) ==
  /\ pc[c] = "running" /\ target[c] \in Budgeted /\ ~late[c]
  /\ late' = [late EXCEPT ![c] = TRUE]
  /\ UNCHANGED <<slotVars, lockVars, graphVars, pc, callVars, begun, called, answer, stopped>>

\* Mutant: a failure past the deadline counts as the block's own.
InitReturnsIgnoringDeadline(c, r) ==
  /\ pc[c] = "running" /\ Polled(c)
  /\ Inner(c) = {} /\ r \in InitResults[target[c]]
  /\ answer' = [answer EXCEPT ![c] = r]
  /\ pc' = [pc EXCEPT ![c] = "returning"]
  /\ UNCHANGED <<slotVars, lockVars, graphVars, callVars, runVars, stopped>>

(* The attempt finishes before the budget's timer is polled.  A failure    *)
(* past the deadline is the budget's, hence transient; a success counts.   *)
InitReturns(c, r) ==
  /\ pc[c] = "running" /\ Polled(c)
  /\ Inner(c) = {} /\ r \in InitResults[target[c]]
  /\ answer' = [answer EXCEPT ![c] = IF r # "ok" /\ late[c] THEN "transient" ELSE r]
  /\ pc' = [pc EXCEPT ![c] = "returning"]
  /\ UNCHANGED <<slotVars, lockVars, graphVars, callVars, runVars, stopped>>

\* Mutant: the attempt is not raced against a timer.
TimerFiresNever(c) == FALSE

\* The timer is polled first: the attempt's future is dropped.
TimerFires(c) ==
  /\ pc[c] = "running" /\ Polled(c)
  /\ late[c] /\ AtAwait(c)
  /\ answer' = [answer EXCEPT ![c] = "transient"]
  /\ pc' = [pc EXCEPT ![c] = "expired"]
  /\ UNCHANGED <<slotVars, lockVars, graphVars, callVars, runVars, stopped>>

\* OwnerGuard::drop, at the end of the init closure.
Disown(c) ==
  /\ pc[c] \in {"returning", "expired"}
  /\ Inner(c) = {}
  /\ owners' = IF owners[target[c]] = c THEN [owners EXCEPT ![target[c]] = NoCall] ELSE owners
  /\ pc' = [pc EXCEPT ![c] = "recording"]
  /\ UNCHANGED <<slotVars, lockVars, edges, callVars, runVars, answer, stopped>>

\* Mutant: a transient failure is cached like any other outcome.
RecordTransient(c) ==
  LET b == target[c] IN
  /\ pc[c] = "recording"
  /\ inFlight' = [inFlight EXCEPT ![b] = FALSE]
  /\ outcome' = [outcome EXCEPT ![b] = answer[c]]
  /\ backoff' = [backoff EXCEPT ![b] = IF answer[c] = "transient" THEN "waiting" ELSE "none"]
  /\ pc' = [pc EXCEPT ![c] = "releasing"]
  /\ UNCHANGED <<lockVars, graphVars, callVars, runVars, answer, stopped>>

(* One critical section clears the in-flight flag and records the outcome: *)
(* Ok and Permanent are kept for good and end any backoff, Transient opens *)
(* a new window.                                                           *)
Record(c) ==
  LET b == target[c] IN
  /\ pc[c] = "recording"
  /\ inFlight' = [inFlight EXCEPT ![b] = FALSE]
  /\ outcome' = [outcome EXCEPT ![b] = IF answer[c] = "transient" THEN @ ELSE answer[c]]
  /\ backoff' = [backoff EXCEPT ![b] = IF answer[c] = "transient" THEN "waiting" ELSE "none"]
  /\ pc' = [pc EXCEPT ![c] = "releasing"]
  /\ UNCHANGED <<lockVars, graphVars, callVars, runVars, answer, stopped>>

\* The attempt lock's guard drops.
Release(c) ==
  /\ pc[c] = "releasing"
  /\ holder' = [holder EXCEPT ![target[c]] = NoCall]
  /\ pc' = [pc EXCEPT ![c] = "leaving"]
  /\ UNCHANGED <<slotVars, queue, graphVars, callVars, runVars, answer, stopped>>

\* Mutant: the wait edge is not removed.
DropWaitKeepsEdge(c) ==
  /\ pc[c] = "leaving"
  /\ UNCHANGED <<slotVars, lockVars, graphVars, stopped>>

\* WaitGuard::drop, at the end of the pipeline.
DropWait(c) ==
  /\ pc[c] = "leaving"
  /\ edges' = edges \ {c}
  /\ UNCHANGED <<slotVars, lockVars, owners, stopped>>

\* Mutant: the handler runs whatever the pipeline answered.
ServeWhateverAnswered(c) ==
  /\ DropWait(c)
  /\ via[c] # "init_block"
  /\ pc' = [pc EXCEPT ![c] = "serving"]
  /\ UNCHANGED <<callVars, runVars, answer>>

\* A dispatch to a block now ready goes on to its handler ...
Serve(c) ==
  /\ DropWait(c)
  /\ answer[c] = "ok" /\ via[c] # "init_block"
  /\ pc' = [pc EXCEPT ![c] = "serving"]
  /\ UNCHANGED <<callVars, runVars, answer>>

\* ... every other call returns.
Leave(c) ==
  /\ DropWait(c)
  /\ answer[c] # "ok" \/ via[c] = "init_block"
  /\ Return(c)

\* The block's `handle` returns, or its future is dropped.
HandleEnds(c) ==
  /\ pc[c] = "serving" /\ ~Frozen(c)
  /\ Return(c)
  /\ UNCHANGED <<slotVars, lockVars, graphVars, stopped>>

-----------------------------------------------------------------------------
(* Futures are dropped *)

(* c's future is dropped at one of its awaits: by the code awaiting it, or *)
(* because a future around it is being dropped.  Its guards then drop,     *)
(* innermost first.                                                        *)
Dropped(c, at, to) ==
  /\ pc[c] = at /\ AtAwait(c) /\ ~Frozen(c)
  /\ HostMayDrop \/ Doomed(c)
  /\ pc' = [pc EXCEPT ![c] = to]
  /\ answer' = [answer EXCEPT ![c] = "dropped"]
  /\ UNCHANGED <<slotVars, holder, graphVars, callVars, runVars, stopped>>

\* tokio takes a dropped waiter out of the lock's queue ...
DropQueued(c) ==
  LET q == queue[target[c]] IN
  /\ Dropped(c, "queued", "leaving")
  /\ \E i \in 1..Len(q) :
       /\ q[i] = c
       /\ queue' = [queue EXCEPT ![target[c]] =
                      SubSeq(q, 1, i - 1) \o SubSeq(q, i + 1, Len(q))]

\* ... and a lock already handed to it is passed on.
DropLocked(c) == Dropped(c, "locked", "releasing") /\ UNCHANGED queue

\* The attempt's future goes first, with every future inside it.
DropRunning(c) == Dropped(c, "running", "dropping") /\ UNCHANGED queue

Drop(c) == DropQueued(c) \/ DropLocked(c) \/ DropRunning(c)

\* OwnerGuard::drop, once every future inside the attempt's is gone.
DropOwner(c) ==
  /\ pc[c] = "dropping"
  /\ Inner(c) = {}
  /\ owners' = IF owners[target[c]] = c THEN [owners EXCEPT ![target[c]] = NoCall] ELSE owners
  /\ pc' = [pc EXCEPT ![c] = "abandoning"]
  /\ UNCHANGED <<slotVars, lockVars, edges, callVars, runVars, answer, stopped>>

\* Mutant: a cancelled attempt leaves its in-flight flag set.
AbandonKeepsFlag(c) ==
  /\ pc[c] = "abandoning"
  /\ pc' = [pc EXCEPT ![c] = "releasing"]
  /\ UNCHANGED <<slotVars, lockVars, graphVars, callVars, runVars, answer, stopped>>

\* InFlight::drop: nothing is recorded, the next caller runs init again; the
\* failure before a cancelled retry is not forgotten.
Abandon(c) ==
  /\ pc[c] = "abandoning"
  /\ inFlight' = [inFlight EXCEPT ![target[c]] = FALSE]
  /\ pc' = [pc EXCEPT ![c] = "releasing"]
  /\ UNCHANGED <<outcome, backoff, lockVars, graphVars, callVars, runVars, answer, stopped>>

-----------------------------------------------------------------------------
(* The environment *)

\* The host stops a request at an await: nothing it holds is released.
StopRequest(c) ==
  /\ HostMayStop
  /\ via[c] = "run_block" /\ c \notin stopped
  /\ pc[c] \in Awaiting /\ AtAwait(c)
  /\ stopped' = stopped \cup {c}
  /\ UNCHANGED <<slotVars, lockVars, graphVars, pc, callVars, runVars, answer>>

\* The backoff window of b ends (`now` reaches `retry_at`).
Elapse(b) ==
  /\ backoff[b] = "waiting"
  /\ backoff' = [backoff EXCEPT ![b] = "due"]
  /\ UNCHANGED <<outcome, inFlight, lockVars, graphVars, pc, callVars, runVars, answer, stopped>>

\* The last context of an ended attempt is dropped, or a stopped handler,
\* which holds nothing of this module's state, is lost with its isolate.
Forget(c) ==
  /\ pc[c] = "done" \/ (pc[c] = "serving" /\ c \in stopped)
  /\ \A d \in Calls : parent[d] # c
  /\ pc' = [pc EXCEPT ![c] = "idle"]
  /\ target' = [target EXCEPT ![c] = AnyBlock]
  /\ via' = [via EXCEPT ![c] = "run_block"]
  /\ parent' = [parent EXCEPT ![c] = NoCall]
  /\ chain' = [chain EXCEPT ![c] = {}]
  /\ begun' = begun \ {c}
  /\ called' = [called EXCEPT ![c] = {}]
  /\ late' = [late EXCEPT ![c] = FALSE]
  /\ answer' = [answer EXCEPT ![c] = "none"]
  /\ stopped' = stopped \ {c}
  /\ UNCHANGED <<slotVars, lockVars, graphVars>>

-----------------------------------------------------------------------------
\* What the runtime does for a call it polls or drops.
Step(c) ==
  \/ Refuse(c) \/ Proceed(c) \/ WaitFor(c) \/ RefuseCycle(c)
  \/ Enqueue(c) \/ Acquire(c) \/ TakeSettled(c) \/ BeginAttempt(c) \/ Own(c)
  \/ Disown(c) \/ Record(c) \/ Release(c) \/ Serve(c) \/ Leave(c)
  \/ DropOwner(c) \/ Abandon(c)

Next ==
  \/ \E c \in Calls :
       \/ \E b \in Blocks : RunBlock(c, b) \/ InitBlock(c, b)
       \/ \E p \in Calls, b \in Blocks : CallBlock(c, p, b) \/ DeferredCall(c, p, b)
       \/ Step(c)
       \/ DeadlinePasses(c) \/ TimerFires(c)
       \/ \E r \in Results : InitReturns(c, r)
       \/ HandleEnds(c) \/ Drop(c) \/ StopRequest(c) \/ Forget(c)
  \/ \E b \in Blocks : Elapse(b)

Spec == Init /\ [][Next]_vars

(* What is bound to happen to a call under way: the executor polls a woken *)
(* task, and a drop once started runs to its end; a timer fires; a handler *)
(* returns; an Init without a budget returns once its own calls have been  *)
(* answered.  An Init with a budget may hang for ever.                     *)
Progress(c) ==
  \/ Step(c)
  \/ Doomed(c) /\ Drop(c)
  \/ DeadlinePasses(c) \/ TimerFires(c)
  \/ HandleEnds(c)
  \/ target[c] \notin Budgeted /\ \E r \in Results : InitReturns(c, r)

Fairness == \A c \in Calls : WF_vars(Progress(c))

FairSpec == Spec /\ Fairness

-----------------------------------------------------------------------------
(* Properties *)

\* Mutant: an elapsed backoff is reported as if Init had never been tried.
InitStateForgetting(b) ==
  CASE outcome[b] = "ok"        -> "Ready"
    [] outcome[b] = "permanent" -> "Failed"
    [] outcome[b] = "none" /\ backoff[b] = "waiting" -> "Retrying"
    [] outcome[b] = "none" /\ backoff[b] # "waiting" /\ inFlight[b] -> "Initializing"
    [] OTHER -> "NotInitialized"

(* BlockSlot::init_state: what a health read reports.  A window still open *)
(* comes before the in-flight flag, an elapsed one after it: "RetryDue" is *)
(* Retrying with nothing left to wait.                                     *)
InitState(b) ==
  CASE outcome[b] = "ok"        -> "Ready"
    [] outcome[b] = "permanent" -> "Failed"
    [] outcome[b] = "none" /\ backoff[b] = "waiting" -> "Retrying"
    [] outcome[b] = "none" /\ backoff[b] # "waiting" /\ inFlight[b] -> "Initializing"
    [] outcome[b] = "none" /\ backoff[b] = "due" /\ ~inFlight[b] -> "RetryDue"
    [] OTHER -> "NotInitialized"

(* What health reads promise: each block walks the life cycle of LazyInit. *)
(* None is seen Ready, Failed or Retrying but straight from Initializing,  *)
(* so no reader sees an attempt over before its outcome; and a block that  *)
(* failed is reported as retrying until an attempt settles it, also when   *)
(* the window has elapsed or a retry was cancelled part-way.               *)
Health ==
  INSTANCE LazyInit WITH
    state <- [b \in Blocks |-> InitState(b)],
    failed <- [b \in Blocks |-> backoff[b] # "none"]

ReportsLifeCycle == Health!Spec

\* Every variable has its type.
TypeOK ==
  /\ outcome \in [Blocks -> Outcomes]
  /\ backoff \in [Blocks -> Backoffs]
  /\ inFlight \in [Blocks -> BOOLEAN]
  /\ holder \in [Blocks -> CallOrNone]
  /\ queue \in [Blocks -> Seq(Calls)]
  /\ owners \in [Blocks -> CallOrNone]
  /\ edges \subseteq Calls
  /\ pc \in [Calls -> States]
  /\ via \in [Calls -> {"run_block", "init_block", "call_block"}]
  /\ target \in [Calls -> Blocks]
  /\ parent \in [Calls -> CallOrNone]
  /\ chain \in [Calls -> SUBSET Calls]
  /\ begun \subseteq Calls
  /\ called \in [Calls -> SUBSET Blocks]
  /\ late \in [Calls -> BOOLEAN]
  /\ answer \in [Calls -> Answers]
  /\ stopped \subseteq Calls

(* An attempt p cannot finish before q lets go of an attempt lock: p's Init *)
(* awaits a call that needs the lock q holds (q may be that very call).    *)
Blocked(p, q) ==
  \E c \in Calls :
    /\ parent[c] = p /\ p \in chain[c]
    /\ pc[c] \in Waiting
    /\ holder[target[c]] = q

(* No init deadlock: in every group of attempts one is not blocked by a    *)
(* member of the group, so no circle of Inits ever waits on its own locks, *)
(* whether the Inits nest in one dispatch or run in several.  This is what *)
(* the graph of init_waits.rs is for, stated on the locks themselves.      *)
NoInitDeadlock ==
  \A S \in SUBSET Calls :
    S # {} => \E p \in S : \A q \in S : ~Blocked(p, q)

(* The recorded graph itself never closes: following owners and waits from *)
(* any attempt does not come back.  Deferred work counts here too.         *)
WaitGraphAcyclic ==
  \A S \in SUBSET Calls :
    S # {} => \E p \in S : WaitedOwners(p) \cap S = {}

(* lifecycle(Init) runs for a block only while its slot is unsettled and   *)
(* outside the backoff window, so a block that is ready or failed for good *)
(* is never initialised again, whatever waited for the lock meanwhile.     *)
InitOnlyWhenUnsettled ==
  \A c \in Calls : pc[c] \in Attempting => ~Settled(target[c])

(* At most one attempt per block, and the graph's owner of a block is the  *)
(* holder of its attempt lock ("one owner per block at a time").           *)
OneAttemptPerBlock ==
  /\ \A c, d \in Calls :
       pc[c] \in Attempting /\ pc[d] \in Attempting /\ target[c] = target[d] => c = d
  /\ \A b \in Blocks : owners[b] # NoCall => holder[b] = owners[b]

(* The in-flight flag a health read reports is set exactly while an attempt*)
(* is under way, cancelled ones included.                                  *)
InFlightExact ==
  \A b \in Blocks :
    inFlight[b] <=> \E c \in Calls : target[c] = b /\ pc[c] \in Attempting

(* A handler runs only on a block whose Init has succeeded.                *)
ServedOnlyReady ==
  \A c \in Calls : pc[c] = "serving" => outcome[target[c]] = "ok"

(* Nothing outlives the calls: when none is under way, no lock is held, no *)
(* one queues, and the graph is empty.                                     *)
NothingLeaks ==
  (\A c \in Calls : pc[c] \in Resting) =>
    /\ \A b \in Blocks : holder[b] = NoCall /\ queue[b] = <<>> /\ owners[b] = NoCall
    /\ edges = {}

(* Under InitWait::Refuse a request never holds nor waits for an attempt   *)
(* lock, so that stopping it without destructors blocks nobody.            *)
RequestsHoldNoLock ==
  InitWait = "Refuse" =>
    \A c \in Calls : via[c] = "run_block" => pc[c] \notin Waiting

(* Ready and permanently failed are final: no later attempt, cancellation  *)
(* or timeout changes a recorded outcome.                                  *)
SettledForGood ==
  [][\A b \in Blocks : outcome[b] # "none" => outcome'[b] = outcome[b]]_vars

(* A block is failed for good only by an Init that returned its failure    *)
(* within the budget: a timeout, and a failure caused by it, is transient. *)
TimeoutIsTransient ==
  [][\A b \in Blocks :
       outcome[b] = "none" /\ outcome'[b] = "permanent" =>
         ~(holder[b] \in Calls /\ late[holder[b]])]_vars

(* Every call on its way to a ready block, a dispatch or an `init_block`,  *)
(* is answered or dropped, whatever Init does inside its budget, unless the*)
(* host stopped the request it belongs to.                                 *)
CallEnds(c) ==
  pc[c] \in {"unsettled", "joined"} ~> pc[c] \in {"serving", "done", "idle"} \/ Frozen(c)
=============================================================================
