-------------------------- MODULE InitPipelineInv ---------------------------
(***************************************************************************)
(* The inductive invariant of InitPipeline, and the proofs that every step *)
(* preserves its parts about types, locks, owners and edges.  Nothing is   *)
(* assumed of the number of blocks and calls, of which Inits call which    *)
(* blocks, of budgets, drops, stopped requests or deferred work.           *)
(***************************************************************************)
EXTENDS InitPipeline, TLAPS

-----------------------------------------------------------------------------
(* The inductive invariant *)

\* The attempt lock: its holder is the one call between Acquire and Release.
LockInv ==
  /\ \A c \in Calls : pc[c] \in Holding => holder[target[c]] = c
  /\ \A b \in Blocks : holder[b] # NoCall =>
       pc[holder[b]] \in Holding /\ target[holder[b]] = b

\* The graph's owner is the one call between Own and its guard's drop.
OwnerInv ==
  /\ \A c \in Calls : pc[c] \in Owning => owners[target[c]] = c
  /\ \A b \in Blocks : owners[b] # NoCall =>
       pc[owners[b]] \in Owning /\ target[owners[b]] = b

\* Edges belong to the calls made for an attempt that are in the pipeline.
EdgeInv ==
  /\ \A c \in Calls : c \in edges <=> pc[c] \in Waiting /\ parent[c] # NoCall
  /\ \A c \in Calls : pc[c] = "piping" => parent[c] # NoCall

\* Where an attempt whose context exists can stand.
Begun == Owning \cup {"recording", "abandoning", "releasing", "leaving", "serving", "done"}

(* A call is made on behalf of an attempt whose context exists; when that  *)
(* attempt's future contains the call's, it is still running or unwinding. *)
ParentInv ==
  /\ \A c \in Calls : c \in begun => pc[c] \in Begun
  /\ \A c \in Calls : pc[c] \in Owning => c \in begun
  /\ \A c \in Calls : pc[c] \in Resting => parent[c] = NoCall /\ chain[c] = {}
  /\ \A c \in Calls : parent[c] # NoCall =>
       /\ parent[c] \in begun
       /\ parent[c] \in chain[c] \/ target[parent[c]] \in Deferring
  /\ \A c, a \in Calls : a \in chain[c] => pc[a] \in {"running", "expired", "dropping"}

\* The slot of a block being initialised is unsettled and marked in flight.
SlotInv ==
  /\ InitOnlyWhenUnsettled
  /\ \A b \in Blocks :
       inFlight[b] <=> holder[b] # NoCall /\ pc[holder[b]] \in Attempting

\* What a call is about to record or return agrees with the slot.
AnswerInv ==
  /\ \A c \in Calls : pc[c] \in {"returning", "expired", "recording"} => answer[c] \in Results
  /\ \A c \in Calls : pc[c] \in {"dropping", "abandoning"} => answer[c] = "dropped"
  /\ \A c \in Calls : pc[c] \in {"releasing", "leaving"} /\ answer[c] = "ok"
       => outcome[target[c]] = "ok"
  /\ ServedOnlyReady

\* A failure about to be recorded for good was returned within the budget.
BudgetInv ==
  \A c \in Calls :
    pc[c] \in {"returning", "expired", "recording"} /\ answer[c] = "permanent" => ~late[c]

\* Requests run outside every Init; under Refuse none enters the pipeline.
RequestInv ==
  /\ \A c \in Calls : via[c] = "run_block" => parent[c] = NoCall
  /\ RequestsHoldNoLock

IndInv ==
  /\ TypeOK
  /\ LockInv
  /\ OwnerInv
  /\ EdgeInv
  /\ ParentInv
  /\ SlotInv
  /\ AnswerInv
  /\ BudgetInv
  /\ RequestInv
  /\ WaitGraphAcyclic

-----------------------------------------------------------------------------
(* Type correctness *)

\* What a returning call leaves behind has its type.
LEMMA ReturnType ==
  ASSUME TypeOK, NEW c \in Calls, Return(c)
  PROVE  /\ pc' \in [Calls -> States]
         /\ via' \in [Calls -> {"run_block", "init_block", "call_block"}]
         /\ target' \in [Calls -> Blocks]
         /\ parent' \in [Calls -> CallOrNone]
         /\ chain' \in [Calls -> SUBSET Calls]
         /\ begun' \subseteq Calls
         /\ called' \in [Calls -> SUBSET Blocks]
         /\ late' \in [Calls -> BOOLEAN]
         /\ answer' \in [Calls -> Answers]
<1> USE
  DEF TypeOK, slotVars, lockVars, graphVars, callVars, runVars, States, Waiting, Holding,
      Attempting, Owning, Resting, CallOrNone, Outcomes, Backoffs, Answers, Results
<1>1. AnyBlock \in Blocks
  BY ConstantsAssumption DEF AnyBlock
<1>2. CASE Kept(c)
  BY <1>2 DEF Return
<1>3. CASE ~Kept(c)
  BY <1>1, <1>3 DEF Return
<1>q. QED
  BY <1>2, <1>3

\* Every step keeps the types; Record needs that a result is there to record.
LEMMA TypeStep ==
  ASSUME TypeOK, AnswerInv, [Next]_vars
  PROVE  TypeOK'
<1> USE ConstantsAssumption
  DEF TypeOK, slotVars, lockVars, graphVars, callVars, runVars, States, Waiting, Holding,
      Attempting, Owning, Resting, CallOrNone, Outcomes, Backoffs, Answers, Results
<1>0. AnyBlock \in Blocks
  BY DEF AnyBlock
<1>1. ASSUME NEW c \in Calls, NEW b \in Blocks, RunBlock(c, b)
      PROVE  TypeOK'
  <2>1. Dispatch(c, "run_block", b, NoCall, {})
    BY <1>1 DEF RunBlock
  <2>2. called' \in [Calls -> SUBSET Blocks]
    BY <1>1 DEF RunBlock
  <2>3. CASE UNCHANGED <<pc, callVars>>
    BY <2>1, <2>2, <2>3 DEF Dispatch
  <2>4. ASSUME NEW at \in {"serving", "unsettled"}, Enter(c, at, "run_block", b, NoCall, {})
        PROVE  TypeOK'
    BY <2>1, <2>2, <2>4 DEF Dispatch, Enter
  <2>q. QED
    BY <2>1, <2>3, <2>4 DEF Dispatch
<1>2. ASSUME NEW c \in Calls, NEW b \in Blocks, InitBlock(c, b)
      PROVE  TypeOK'
  BY <1>2 DEF InitBlock, Enter
<1>3. ASSUME NEW c \in Calls, NEW p \in Calls, NEW b \in Blocks, CallBlock(c, p, b)
      PROVE  TypeOK'
  <2>1. Dispatch(c, "call_block", b, p, chain[p] \cup {p})
    BY <1>3 DEF CallBlock
  <2>2. called' \in [Calls -> SUBSET Blocks]
    BY <1>3 DEF CallBlock, Admit
  <2>3. CASE UNCHANGED <<pc, callVars>>
    BY <2>1, <2>2, <2>3 DEF Dispatch
  <2>4. ASSUME NEW at \in {"serving", "unsettled"}, Enter(c, at, "call_block", b, p, chain[p] \cup {p})
        PROVE  TypeOK'
    BY <2>1, <2>2, <2>4 DEF Dispatch, Enter
  <2>q. QED
    BY <2>1, <2>3, <2>4 DEF Dispatch
<1>4. ASSUME NEW c \in Calls, NEW p \in Calls, NEW b \in Blocks, DeferredCall(c, p, b)
      PROVE  TypeOK'
  <2>1. Dispatch(c, "call_block", b, p, {})
    BY <1>4 DEF DeferredCall
  <2>2. called' \in [Calls -> SUBSET Blocks]
    BY <1>4 DEF DeferredCall, Admit
  <2>3. CASE UNCHANGED <<pc, callVars>>
    BY <2>1, <2>2, <2>3 DEF Dispatch
  <2>4. ASSUME NEW at \in {"serving", "unsettled"}, Enter(c, at, "call_block", b, p, {})
        PROVE  TypeOK'
    BY <2>1, <2>2, <2>4 DEF Dispatch, Enter
  <2>q. QED
    BY <2>1, <2>3, <2>4 DEF Dispatch
<1>5. ASSUME NEW c \in Calls, Refuse(c)
      PROVE  TypeOK'
  BY <1>5, ReturnType DEF Refuse
<1>6. ASSUME NEW c \in Calls, Proceed(c)
      PROVE  TypeOK'
  BY <1>6 DEF Proceed
<1>7. ASSUME NEW c \in Calls, WaitFor(c)
      PROVE  TypeOK'
  BY <1>7 DEF WaitFor
<1>8. ASSUME NEW c \in Calls, RefuseCycle(c)
      PROVE  TypeOK'
  BY <1>8, ReturnType DEF RefuseCycle
<1>9. ASSUME NEW c \in Calls, Enqueue(c)
      PROVE  TypeOK'
  BY <1>9 DEF Enqueue
<1>10. ASSUME NEW c \in Calls, Acquire(c)
      PROVE  TypeOK'
  BY <1>10 DEF Acquire
<1>11. ASSUME NEW c \in Calls, TakeSettled(c)
      PROVE  TypeOK'
  <2>1. PICK o \in Answers : answer' = [answer EXCEPT ![c] = o]
    BY <1>11 DEF TakeSettled
  <2>2. answer' \in [Calls -> Answers]
    BY <2>1
  <2>q. QED
    BY <1>11, <2>2 DEF TakeSettled
<1>12. ASSUME NEW c \in Calls, BeginAttempt(c)
      PROVE  TypeOK'
  BY <1>12 DEF BeginAttempt
<1>13. ASSUME NEW c \in Calls, Own(c)
      PROVE  TypeOK'
  BY <1>13 DEF Own
<1>14. ASSUME NEW c \in Calls, DeadlinePasses(c)
      PROVE  TypeOK'
  BY <1>14 DEF DeadlinePasses
<1>15. ASSUME NEW c \in Calls, TimerFires(c)
      PROVE  TypeOK'
  BY <1>15 DEF TimerFires
<1>16. ASSUME NEW c \in Calls, NEW r \in Results, InitReturns(c, r)
      PROVE  TypeOK'
  BY <1>16 DEF InitReturns
<1>17. ASSUME NEW c \in Calls, Disown(c)
      PROVE  TypeOK'
  BY <1>17 DEF Disown
<1>18. ASSUME NEW c \in Calls, Record(c)
      PROVE  TypeOK'
  <2>1. answer[c] \in Results
    BY <1>18 DEF Record, AnswerInv
  <2>q. QED
    BY <1>18, <2>1 DEF Record
<1>19. ASSUME NEW c \in Calls, Release(c)
      PROVE  TypeOK'
  BY <1>19 DEF Release
<1>20. ASSUME NEW c \in Calls, Serve(c)
      PROVE  TypeOK'
  BY <1>20 DEF Serve, DropWait
<1>21. ASSUME NEW c \in Calls, Leave(c)
      PROVE  TypeOK'
  BY <1>21, ReturnType DEF Leave, DropWait
<1>22. ASSUME NEW c \in Calls, HandleEnds(c)
      PROVE  TypeOK'
  BY <1>22, ReturnType DEF HandleEnds
<1>23. ASSUME NEW c \in Calls, DropQueued(c)
      PROVE  TypeOK'
  <2>1. queue' \in [Blocks -> Seq(Calls)]
    <3>1. PICK i \in 1..Len(queue[target[c]]) :
            queue' = [queue EXCEPT ![target[c]] =
                        SubSeq(queue[target[c]], 1, i - 1)
                          \o SubSeq(queue[target[c]], i + 1, Len(queue[target[c]]))]
      BY <1>23 DEF DropQueued
    <3>2. queue[target[c]] \in Seq(Calls)
      OBVIOUS
    <3>3. /\ SubSeq(queue[target[c]], 1, i - 1) \in Seq(Calls)
          /\ SubSeq(queue[target[c]], i + 1, Len(queue[target[c]])) \in Seq(Calls)
      BY <3>2
    <3>q. QED
      BY <3>1, <3>3
  <2>2. Dropped(c, "queued", "leaving")
    BY <1>23 DEF DropQueued
  <2>q. QED
    BY <2>1, <2>2 DEF Dropped
<1>24. ASSUME NEW c \in Calls, DropLocked(c)
      PROVE  TypeOK'
  BY <1>24 DEF DropLocked, Dropped
<1>25. ASSUME NEW c \in Calls, DropRunning(c)
      PROVE  TypeOK'
  BY <1>25 DEF DropRunning, Dropped
<1>26. ASSUME NEW c \in Calls, DropOwner(c)
      PROVE  TypeOK'
  BY <1>26 DEF DropOwner
<1>27. ASSUME NEW c \in Calls, Abandon(c)
      PROVE  TypeOK'
  BY <1>27 DEF Abandon
<1>28. ASSUME NEW c \in Calls, StopRequest(c)
      PROVE  TypeOK'
  BY <1>28 DEF StopRequest
<1>29. ASSUME NEW c \in Calls, Forget(c)
      PROVE  TypeOK'
  BY <1>29, <1>0 DEF Forget
<1>30. ASSUME NEW b \in Blocks, Elapse(b)
      PROVE  TypeOK'
  BY <1>30 DEF Elapse
<1>31. CASE UNCHANGED vars
  BY <1>31 DEF vars
<1> HIDE
  DEF TypeOK, slotVars, lockVars, graphVars, callVars, runVars, States, Waiting, Holding,
      Attempting, Owning, Resting, CallOrNone, Outcomes, Backoffs, Answers, Results
<1>q. QED
  BY <1>1, <1>2, <1>3, <1>4, <1>5, <1>6, <1>7, <1>8, <1>9, <1>10, <1>11, <1>12,
     <1>13, <1>14, <1>15, <1>16, <1>17, <1>18, <1>19, <1>20, <1>21, <1>22, <1>23, <1>24,
     <1>25, <1>26, <1>27, <1>28, <1>29, <1>30, <1>31
  DEF Next, Step, Drop

-----------------------------------------------------------------------------
(* The attempt lock: mutual exclusion, and what the lock's holder is doing. *)

\* Every step of Next preserves it.
LEMMA LockStep ==
  ASSUME TypeOK, LockInv, [Next]_vars
  PROVE  LockInv'
<1>t. /\ pc \in [Calls -> States]
      /\ target \in [Calls -> Blocks]
      /\ holder \in [Blocks -> CallOrNone]
  BY DEF TypeOK
<1> USE ConstantsAssumption
  DEF slotVars, lockVars, graphVars, callVars, runVars, Resting, Owning, Attempting,
      Holding, CallOrNone
<1>1. ASSUME NEW c \in Calls, NEW b \in Blocks, RunBlock(c, b)
      PROVE  LockInv'
  <2>1. Dispatch(c, "run_block", b, NoCall, {})
    BY <1>1 DEF RunBlock
  <2>2. CASE UNCHANGED <<pc, callVars>>
    BY <1>t, <2>1, <2>2 DEF Dispatch, LockInv
  <2>3. ASSUME NEW at \in {"serving", "unsettled"}, Enter(c, at, "run_block", b, NoCall, {})
        PROVE  LockInv'
    BY <1>t, <2>1, <2>3 DEF Dispatch, Enter, LockInv
  <2>q. QED
    BY <2>1, <2>2, <2>3 DEF Dispatch
<1>2. ASSUME NEW c \in Calls, NEW b \in Blocks, InitBlock(c, b)
      PROVE  LockInv'
  BY <1>2, <1>t DEF InitBlock, Enter, LockInv
<1>3. ASSUME NEW c \in Calls, NEW p \in Calls, NEW b \in Blocks, CallBlock(c, p, b)
      PROVE  LockInv'
  <2>1. Dispatch(c, "call_block", b, p, chain[p] \cup {p})
    BY <1>3 DEF CallBlock
  <2>2. CASE UNCHANGED <<pc, callVars>>
    BY <1>t, <2>1, <2>2 DEF Dispatch, LockInv
  <2>3. ASSUME NEW at \in {"serving", "unsettled"}, Enter(c, at, "call_block", b, p, chain[p] \cup {p})
        PROVE  LockInv'
    BY <1>t, <2>1, <2>3 DEF Dispatch, Enter, LockInv
  <2>q. QED
    BY <2>1, <2>2, <2>3 DEF Dispatch
<1>4. ASSUME NEW c \in Calls, NEW p \in Calls, NEW b \in Blocks, DeferredCall(c, p, b)
      PROVE  LockInv'
  <2>1. Dispatch(c, "call_block", b, p, {})
    BY <1>4 DEF DeferredCall
  <2>2. CASE UNCHANGED <<pc, callVars>>
    BY <1>t, <2>1, <2>2 DEF Dispatch, LockInv
  <2>3. ASSUME NEW at \in {"serving", "unsettled"}, Enter(c, at, "call_block", b, p, {})
        PROVE  LockInv'
    BY <1>t, <2>1, <2>3 DEF Dispatch, Enter, LockInv
  <2>q. QED
    BY <2>1, <2>2, <2>3 DEF Dispatch
<1>5. ASSUME NEW c \in Calls, Refuse(c)
      PROVE  LockInv'
  BY <1>5, <1>t DEF Refuse, Return, LockInv
<1>6. ASSUME NEW c \in Calls, Proceed(c)
      PROVE  LockInv'
  BY <1>6, <1>t DEF Proceed, LockInv
<1>7. ASSUME NEW c \in Calls, WaitFor(c)
      PROVE  LockInv'
  BY <1>7, <1>t DEF WaitFor, LockInv
<1>8. ASSUME NEW c \in Calls, RefuseCycle(c)
      PROVE  LockInv'
  BY <1>8, <1>t DEF RefuseCycle, Return, LockInv
<1>9. ASSUME NEW c \in Calls, Enqueue(c)
      PROVE  LockInv'
  BY <1>9, <1>t DEF Enqueue, LockInv
<1>10. ASSUME NEW c \in Calls, Acquire(c)
      PROVE  LockInv'
  BY <1>10, <1>t DEF Acquire, LockInv
<1>11. ASSUME NEW c \in Calls, TakeSettled(c)
      PROVE  LockInv'
  BY <1>11, <1>t DEF TakeSettled, LockInv
<1>12. ASSUME NEW c \in Calls, BeginAttempt(c)
      PROVE  LockInv'
  BY <1>12, <1>t DEF BeginAttempt, LockInv
<1>13. ASSUME NEW c \in Calls, Own(c)
      PROVE  LockInv'
  BY <1>13, <1>t DEF Own, LockInv
<1>14. ASSUME NEW c \in Calls, DeadlinePasses(c)
      PROVE  LockInv'
  BY <1>14, <1>t DEF DeadlinePasses, LockInv
<1>15. ASSUME NEW c \in Calls, TimerFires(c)
      PROVE  LockInv'
  BY <1>15, <1>t DEF TimerFires, LockInv
<1>16. ASSUME NEW c \in Calls, NEW r \in Results, InitReturns(c, r)
      PROVE  LockInv'
  BY <1>16, <1>t DEF InitReturns, LockInv
<1>17. ASSUME NEW c \in Calls, Disown(c)
      PROVE  LockInv'
  BY <1>17, <1>t DEF Disown, LockInv
<1>18. ASSUME NEW c \in Calls, Record(c)
      PROVE  LockInv'
  BY <1>18, <1>t DEF Record, LockInv
<1>19. ASSUME NEW c \in Calls, Release(c)
      PROVE  LockInv'
  BY <1>19, <1>t DEF Release, LockInv
<1>20. ASSUME NEW c \in Calls, Serve(c)
      PROVE  LockInv'
  BY <1>20, <1>t DEF Serve, DropWait, LockInv
<1>21. ASSUME NEW c \in Calls, Leave(c)
      PROVE  LockInv'
  BY <1>21, <1>t DEF Leave, DropWait, Return, LockInv
<1>22. ASSUME NEW c \in Calls, HandleEnds(c)
      PROVE  LockInv'
  BY <1>22, <1>t DEF HandleEnds, Return, LockInv
<1>23. ASSUME NEW c \in Calls, DropQueued(c)
      PROVE  LockInv'
  <2>1. Dropped(c, "queued", "leaving")
    BY <1>23 DEF DropQueued
  <2>q. QED
    BY <1>t, <2>1 DEF Dropped, LockInv
<1>24. ASSUME NEW c \in Calls, DropLocked(c)
      PROVE  LockInv'
  BY <1>24, <1>t DEF DropLocked, Dropped, LockInv
<1>25. ASSUME NEW c \in Calls, DropRunning(c)
      PROVE  LockInv'
  BY <1>25, <1>t DEF DropRunning, Dropped, LockInv
<1>26. ASSUME NEW c \in Calls, DropOwner(c)
      PROVE  LockInv'
  BY <1>26, <1>t DEF DropOwner, LockInv
<1>27. ASSUME NEW c \in Calls, Abandon(c)
      PROVE  LockInv'
  BY <1>27, <1>t DEF Abandon, LockInv
<1>28. ASSUME NEW c \in Calls, StopRequest(c)
      PROVE  LockInv'
  BY <1>28, <1>t DEF StopRequest, LockInv
<1>29. ASSUME NEW c \in Calls, Forget(c)
      PROVE  LockInv'
  BY <1>29, <1>t DEF Forget, LockInv
<1>30. ASSUME NEW b \in Blocks, Elapse(b)
      PROVE  LockInv'
  BY <1>30, <1>t DEF Elapse, LockInv
<1>31. CASE UNCHANGED vars
  BY <1>31, <1>t DEF vars, LockInv
<1> HIDE
  DEF slotVars, lockVars, graphVars, callVars, runVars, Resting, Owning, Attempting,
      Holding, CallOrNone
<1>q. QED
  BY <1>1, <1>2, <1>3, <1>4, <1>5, <1>6, <1>7, <1>8, <1>9, <1>10, <1>11, <1>12,
     <1>13, <1>14, <1>15, <1>16, <1>17, <1>18, <1>19, <1>20, <1>21, <1>22, <1>23, <1>24,
     <1>25, <1>26, <1>27, <1>28, <1>29, <1>30, <1>31
  DEF Next, Step, Drop

-----------------------------------------------------------------------------
(* The graph's owner of a block is the call running its Init. *)

\* Every step of Next preserves it.
LEMMA OwnerStep ==
  ASSUME TypeOK, LockInv, OwnerInv, [Next]_vars
  PROVE  OwnerInv'
<1>t. /\ pc \in [Calls -> States]
      /\ target \in [Calls -> Blocks]
      /\ owners \in [Blocks -> CallOrNone]
  BY DEF TypeOK
<1> USE ConstantsAssumption
  DEF slotVars, lockVars, graphVars, callVars, runVars, Resting, Owning, Attempting,
      Holding, CallOrNone
<1>1. ASSUME NEW c \in Calls, NEW b \in Blocks, RunBlock(c, b)
      PROVE  OwnerInv'
  <2>1. Dispatch(c, "run_block", b, NoCall, {})
    BY <1>1 DEF RunBlock
  <2>2. CASE UNCHANGED <<pc, callVars>>
    BY <1>t, <2>1, <2>2 DEF Dispatch, OwnerInv
  <2>3. ASSUME NEW at \in {"serving", "unsettled"}, Enter(c, at, "run_block", b, NoCall, {})
        PROVE  OwnerInv'
    BY <1>t, <2>1, <2>3 DEF Dispatch, Enter, OwnerInv
  <2>q. QED
    BY <2>1, <2>2, <2>3 DEF Dispatch
<1>2. ASSUME NEW c \in Calls, NEW b \in Blocks, InitBlock(c, b)
      PROVE  OwnerInv'
  BY <1>2, <1>t DEF InitBlock, Enter, OwnerInv
<1>3. ASSUME NEW c \in Calls, NEW p \in Calls, NEW b \in Blocks, CallBlock(c, p, b)
      PROVE  OwnerInv'
  <2>1. Dispatch(c, "call_block", b, p, chain[p] \cup {p})
    BY <1>3 DEF CallBlock
  <2>2. CASE UNCHANGED <<pc, callVars>>
    BY <1>t, <2>1, <2>2 DEF Dispatch, OwnerInv
  <2>3. ASSUME NEW at \in {"serving", "unsettled"}, Enter(c, at, "call_block", b, p, chain[p] \cup {p})
        PROVE  OwnerInv'
    BY <1>t, <2>1, <2>3 DEF Dispatch, Enter, OwnerInv
  <2>q. QED
    BY <2>1, <2>2, <2>3 DEF Dispatch
<1>4. ASSUME NEW c \in Calls, NEW p \in Calls, NEW b \in Blocks, DeferredCall(c, p, b)
      PROVE  OwnerInv'
  <2>1. Dispatch(c, "call_block", b, p, {})
    BY <1>4 DEF DeferredCall
  <2>2. CASE UNCHANGED <<pc, callVars>>
    BY <1>t, <2>1, <2>2 DEF Dispatch, OwnerInv
  <2>3. ASSUME NEW at \in {"serving", "unsettled"}, Enter(c, at, "call_block", b, p, {})
        PROVE  OwnerInv'
    BY <1>t, <2>1, <2>3 DEF Dispatch, Enter, OwnerInv
  <2>q. QED
    BY <2>1, <2>2, <2>3 DEF Dispatch
<1>5. ASSUME NEW c \in Calls, Refuse(c)
      PROVE  OwnerInv'
  BY <1>5, <1>t DEF Refuse, Return, OwnerInv
<1>6. ASSUME NEW c \in Calls, Proceed(c)
      PROVE  OwnerInv'
  BY <1>6, <1>t DEF Proceed, OwnerInv
<1>7. ASSUME NEW c \in Calls, WaitFor(c)
      PROVE  OwnerInv'
  BY <1>7, <1>t DEF WaitFor, OwnerInv
<1>8. ASSUME NEW c \in Calls, RefuseCycle(c)
      PROVE  OwnerInv'
  BY <1>8, <1>t DEF RefuseCycle, Return, OwnerInv
<1>9. ASSUME NEW c \in Calls, Enqueue(c)
      PROVE  OwnerInv'
  BY <1>9, <1>t DEF Enqueue, OwnerInv
<1>10. ASSUME NEW c \in Calls, Acquire(c)
      PROVE  OwnerInv'
  BY <1>10, <1>t DEF Acquire, OwnerInv
<1>11. ASSUME NEW c \in Calls, TakeSettled(c)
      PROVE  OwnerInv'
  BY <1>11, <1>t DEF TakeSettled, OwnerInv
<1>12. ASSUME NEW c \in Calls, BeginAttempt(c)
      PROVE  OwnerInv'
  BY <1>12, <1>t DEF BeginAttempt, OwnerInv
<1>13. ASSUME NEW c \in Calls, Own(c)
      PROVE  OwnerInv'
  BY <1>13, <1>t DEF Own, OwnerInv, LockInv
<1>14. ASSUME NEW c \in Calls, DeadlinePasses(c)
      PROVE  OwnerInv'
  BY <1>14, <1>t DEF DeadlinePasses, OwnerInv
<1>15. ASSUME NEW c \in Calls, TimerFires(c)
      PROVE  OwnerInv'
  BY <1>15, <1>t DEF TimerFires, OwnerInv
<1>16. ASSUME NEW c \in Calls, NEW r \in Results, InitReturns(c, r)
      PROVE  OwnerInv'
  BY <1>16, <1>t DEF InitReturns, OwnerInv
<1>17. ASSUME NEW c \in Calls, Disown(c)
      PROVE  OwnerInv'
  BY <1>17, <1>t DEF Disown, OwnerInv
<1>18. ASSUME NEW c \in Calls, Record(c)
      PROVE  OwnerInv'
  BY <1>18, <1>t DEF Record, OwnerInv
<1>19. ASSUME NEW c \in Calls, Release(c)
      PROVE  OwnerInv'
  BY <1>19, <1>t DEF Release, OwnerInv
<1>20. ASSUME NEW c \in Calls, Serve(c)
      PROVE  OwnerInv'
  BY <1>20, <1>t DEF Serve, DropWait, OwnerInv
<1>21. ASSUME NEW c \in Calls, Leave(c)
      PROVE  OwnerInv'
  BY <1>21, <1>t DEF Leave, DropWait, Return, OwnerInv
<1>22. ASSUME NEW c \in Calls, HandleEnds(c)
      PROVE  OwnerInv'
  BY <1>22, <1>t DEF HandleEnds, Return, OwnerInv
<1>23. ASSUME NEW c \in Calls, DropQueued(c)
      PROVE  OwnerInv'
  <2>1. Dropped(c, "queued", "leaving")
    BY <1>23 DEF DropQueued
  <2>q. QED
    BY <1>t, <2>1 DEF Dropped, OwnerInv
<1>24. ASSUME NEW c \in Calls, DropLocked(c)
      PROVE  OwnerInv'
  BY <1>24, <1>t DEF DropLocked, Dropped, OwnerInv
<1>25. ASSUME NEW c \in Calls, DropRunning(c)
      PROVE  OwnerInv'
  BY <1>25, <1>t DEF DropRunning, Dropped, OwnerInv
<1>26. ASSUME NEW c \in Calls, DropOwner(c)
      PROVE  OwnerInv'
  BY <1>26, <1>t DEF DropOwner, OwnerInv
<1>27. ASSUME NEW c \in Calls, Abandon(c)
      PROVE  OwnerInv'
  BY <1>27, <1>t DEF Abandon, OwnerInv
<1>28. ASSUME NEW c \in Calls, StopRequest(c)
      PROVE  OwnerInv'
  BY <1>28, <1>t DEF StopRequest, OwnerInv
<1>29. ASSUME NEW c \in Calls, Forget(c)
      PROVE  OwnerInv'
  BY <1>29, <1>t DEF Forget, OwnerInv
<1>30. ASSUME NEW b \in Blocks, Elapse(b)
      PROVE  OwnerInv'
  BY <1>30, <1>t DEF Elapse, OwnerInv
<1>31. CASE UNCHANGED vars
  BY <1>31, <1>t DEF vars, OwnerInv
<1> HIDE
  DEF slotVars, lockVars, graphVars, callVars, runVars, Resting, Owning, Attempting,
      Holding, CallOrNone
<1>q. QED
  BY <1>1, <1>2, <1>3, <1>4, <1>5, <1>6, <1>7, <1>8, <1>9, <1>10, <1>11, <1>12,
     <1>13, <1>14, <1>15, <1>16, <1>17, <1>18, <1>19, <1>20, <1>21, <1>22, <1>23, <1>24,
     <1>25, <1>26, <1>27, <1>28, <1>29, <1>30, <1>31
  DEF Next, Step, Drop

-----------------------------------------------------------------------------
(* The graph's edges are those of the calls in the pipeline. *)

\* Every step of Next preserves it.
LEMMA EdgeStep ==
  ASSUME TypeOK, EdgeInv, [Next]_vars
  PROVE  EdgeInv'
<1>t. /\ pc \in [Calls -> States]
      /\ parent \in [Calls -> CallOrNone]
  BY DEF TypeOK
<1> USE ConstantsAssumption
  DEF slotVars, lockVars, graphVars, callVars, runVars, Resting, Owning, Attempting,
      Holding, Waiting
<1>1. ASSUME NEW c \in Calls, NEW b \in Blocks, RunBlock(c, b)
      PROVE  EdgeInv'
  <2>1. Dispatch(c, "run_block", b, NoCall, {})
    BY <1>1 DEF RunBlock
  <2>2. CASE UNCHANGED <<pc, callVars>>
    BY <1>t, <2>1, <2>2 DEF Dispatch, EdgeInv
  <2>3. ASSUME NEW at \in {"serving", "unsettled"}, Enter(c, at, "run_block", b, NoCall, {})
        PROVE  EdgeInv'
    BY <1>t, <2>1, <2>3 DEF Dispatch, Enter, EdgeInv
  <2>q. QED
    BY <2>1, <2>2, <2>3 DEF Dispatch
<1>2. ASSUME NEW c \in Calls, NEW b \in Blocks, InitBlock(c, b)
      PROVE  EdgeInv'
  BY <1>2, <1>t DEF InitBlock, Enter, EdgeInv
<1>3. ASSUME NEW c \in Calls, NEW p \in Calls, NEW b \in Blocks, CallBlock(c, p, b)
      PROVE  EdgeInv'
  <2>1. Dispatch(c, "call_block", b, p, chain[p] \cup {p})
    BY <1>3 DEF CallBlock
  <2>2. CASE UNCHANGED <<pc, callVars>>
    BY <1>t, <2>1, <2>2 DEF Dispatch, EdgeInv
  <2>3. ASSUME NEW at \in {"serving", "unsettled"}, Enter(c, at, "call_block", b, p, chain[p] \cup {p})
        PROVE  EdgeInv'
    BY <1>t, <2>1, <2>3 DEF Dispatch, Enter, EdgeInv
  <2>q. QED
    BY <2>1, <2>2, <2>3 DEF Dispatch
<1>4. ASSUME NEW c \in Calls, NEW p \in Calls, NEW b \in Blocks, DeferredCall(c, p, b)
      PROVE  EdgeInv'
  <2>1. Dispatch(c, "call_block", b, p, {})
    BY <1>4 DEF DeferredCall
  <2>2. CASE UNCHANGED <<pc, callVars>>
    BY <1>t, <2>1, <2>2 DEF Dispatch, EdgeInv
  <2>3. ASSUME NEW at \in {"serving", "unsettled"}, Enter(c, at, "call_block", b, p, {})
        PROVE  EdgeInv'
    BY <1>t, <2>1, <2>3 DEF Dispatch, Enter, EdgeInv
  <2>q. QED
    BY <2>1, <2>2, <2>3 DEF Dispatch
<1>5. ASSUME NEW c \in Calls, Refuse(c)
      PROVE  EdgeInv'
  BY <1>5, <1>t DEF Refuse, Return, EdgeInv
<1>6. ASSUME NEW c \in Calls, Proceed(c)
      PROVE  EdgeInv'
  BY <1>6, <1>t DEF Proceed, EdgeInv
<1>7. ASSUME NEW c \in Calls, WaitFor(c)
      PROVE  EdgeInv'
  BY <1>7, <1>t DEF WaitFor, EdgeInv
<1>8. ASSUME NEW c \in Calls, RefuseCycle(c)
      PROVE  EdgeInv'
  BY <1>8, <1>t DEF RefuseCycle, Return, EdgeInv
<1>9. ASSUME NEW c \in Calls, Enqueue(c)
      PROVE  EdgeInv'
  BY <1>9, <1>t DEF Enqueue, EdgeInv
<1>10. ASSUME NEW c \in Calls, Acquire(c)
      PROVE  EdgeInv'
  BY <1>10, <1>t DEF Acquire, EdgeInv
<1>11. ASSUME NEW c \in Calls, TakeSettled(c)
      PROVE  EdgeInv'
  BY <1>11, <1>t DEF TakeSettled, EdgeInv
<1>12. ASSUME NEW c \in Calls, BeginAttempt(c)
      PROVE  EdgeInv'
  BY <1>12, <1>t DEF BeginAttempt, EdgeInv
<1>13. ASSUME NEW c \in Calls, Own(c)
      PROVE  EdgeInv'
  BY <1>13, <1>t DEF Own, EdgeInv
<1>14. ASSUME NEW c \in Calls, DeadlinePasses(c)
      PROVE  EdgeInv'
  BY <1>14, <1>t DEF DeadlinePasses, EdgeInv
<1>15. ASSUME NEW c \in Calls, TimerFires(c)
      PROVE  EdgeInv'
  BY <1>15, <1>t DEF TimerFires, EdgeInv
<1>16. ASSUME NEW c \in Calls, NEW r \in Results, InitReturns(c, r)
      PROVE  EdgeInv'
  BY <1>16, <1>t DEF InitReturns, EdgeInv
<1>17. ASSUME NEW c \in Calls, Disown(c)
      PROVE  EdgeInv'
  BY <1>17, <1>t DEF Disown, EdgeInv
<1>18. ASSUME NEW c \in Calls, Record(c)
      PROVE  EdgeInv'
  BY <1>18, <1>t DEF Record, EdgeInv
<1>19. ASSUME NEW c \in Calls, Release(c)
      PROVE  EdgeInv'
  BY <1>19, <1>t DEF Release, EdgeInv
<1>20. ASSUME NEW c \in Calls, Serve(c)
      PROVE  EdgeInv'
  BY <1>20, <1>t DEF Serve, DropWait, EdgeInv
<1>21. ASSUME NEW c \in Calls, Leave(c)
      PROVE  EdgeInv'
  BY <1>21, <1>t DEF Leave, DropWait, Return, EdgeInv
<1>22. ASSUME NEW c \in Calls, HandleEnds(c)
      PROVE  EdgeInv'
  BY <1>22, <1>t DEF HandleEnds, Return, EdgeInv
<1>23. ASSUME NEW c \in Calls, DropQueued(c)
      PROVE  EdgeInv'
  <2>1. Dropped(c, "queued", "leaving")
    BY <1>23 DEF DropQueued
  <2>q. QED
    BY <1>t, <2>1 DEF Dropped, EdgeInv
<1>24. ASSUME NEW c \in Calls, DropLocked(c)
      PROVE  EdgeInv'
  BY <1>24, <1>t DEF DropLocked, Dropped, EdgeInv
<1>25. ASSUME NEW c \in Calls, DropRunning(c)
      PROVE  EdgeInv'
  BY <1>25, <1>t DEF DropRunning, Dropped, EdgeInv
<1>26. ASSUME NEW c \in Calls, DropOwner(c)
      PROVE  EdgeInv'
  BY <1>26, <1>t DEF DropOwner, EdgeInv
<1>27. ASSUME NEW c \in Calls, Abandon(c)
      PROVE  EdgeInv'
  BY <1>27, <1>t DEF Abandon, EdgeInv
<1>28. ASSUME NEW c \in Calls, StopRequest(c)
      PROVE  EdgeInv'
  BY <1>28, <1>t DEF StopRequest, EdgeInv
<1>29. ASSUME NEW c \in Calls, Forget(c)
      PROVE  EdgeInv'
  BY <1>29, <1>t DEF Forget, EdgeInv
<1>30. ASSUME NEW b \in Blocks, Elapse(b)
      PROVE  EdgeInv'
  BY <1>30, <1>t DEF Elapse, EdgeInv
<1>31. CASE UNCHANGED vars
  BY <1>31, <1>t DEF vars, EdgeInv
<1> HIDE
  DEF slotVars, lockVars, graphVars, callVars, runVars, Resting, Owning, Attempting,
      Holding, Waiting
<1>q. QED
  BY <1>1, <1>2, <1>3, <1>4, <1>5, <1>6, <1>7, <1>8, <1>9, <1>10, <1>11, <1>12,
     <1>13, <1>14, <1>15, <1>16, <1>17, <1>18, <1>19, <1>20, <1>21, <1>22, <1>23, <1>24,
     <1>25, <1>26, <1>27, <1>28, <1>29, <1>30, <1>31
  DEF Next, Step, Drop
=============================================================================
