------------------------- MODULE InitPipelineCalls --------------------------
(***************************************************************************)
(* Every step of InitPipeline preserves the parts of the inductive         *)
(* invariant about calls and the attempts they run for, about slots and    *)
(* about answers, the init budget and requests.                            *)
(***************************************************************************)
EXTENDS InitPipelineInv

-----------------------------------------------------------------------------
(* Attempts outlive the calls made on their behalf that they await. *)

\* A call that returns and is kept by nobody was the parent of no call.
LEMMA ReturnKeepsParents ==
  ASSUME TypeOK, ParentInv, NEW c \in Calls, Return(c),
         c \notin begun \/ pc[c] \in {"leaving", "serving"},
         \A d \in Calls : c \notin chain[d]
  PROVE  ParentInv'
<1>t. /\ pc \in [Calls -> States]
      /\ target \in [Calls -> Blocks]
      /\ parent \in [Calls -> CallOrNone]
      /\ chain \in [Calls -> SUBSET Calls]
      /\ begun \subseteq Calls
  BY DEF TypeOK
<1> USE ConstantsAssumption DEF Resting, Owning, CallOrNone
<1>1. CASE Kept(c)
  BY <1>t, <1>1 DEF Return, Kept, ParentInv, Begun
<1>2. CASE ~Kept(c)
  <2>1. \A d \in Calls : parent[d] # c
    BY <1>2 DEF Kept, ParentInv
  <2>q. QED
    BY <1>t, <1>2, <2>1 DEF Return, ParentInv, Begun
<1>q. QED
  BY <1>1, <1>2

\* Every step of Next preserves it.
LEMMA ParentStep ==
  ASSUME TypeOK, ParentInv, [Next]_vars
  PROVE  ParentInv'
<1>t. /\ pc \in [Calls -> States]
      /\ target \in [Calls -> Blocks]
      /\ parent \in [Calls -> CallOrNone]
      /\ chain \in [Calls -> SUBSET Calls]
  BY DEF TypeOK
<1> USE ConstantsAssumption
  DEF slotVars, lockVars, graphVars, callVars, runVars, Resting, Owning, CallOrNone
<1>1. ASSUME NEW c \in Calls, NEW b \in Blocks, RunBlock(c, b)
      PROVE  ParentInv'
  <2>1. Dispatch(c, "run_block", b, NoCall, {})
    BY <1>1 DEF RunBlock
  <2>2. CASE UNCHANGED <<pc, callVars>>
    BY <1>t, <2>1, <2>2 DEF Dispatch, ParentInv, Begun
  <2>3. ASSUME NEW at \in {"serving", "unsettled"}, Enter(c, at, "run_block", b, NoCall, {})
        PROVE  ParentInv'
    BY <1>t, <2>1, <2>3 DEF Dispatch, Enter, ParentInv, Begun
  <2>q. QED
    BY <2>1, <2>2, <2>3 DEF Dispatch
<1>2. ASSUME NEW c \in Calls, NEW b \in Blocks, InitBlock(c, b)
      PROVE  ParentInv'
  <2>1. c \notin begun
    BY <1>2 DEF InitBlock, ParentInv, Begun
  <2>2. \A d \in Calls : parent[d] # c
    BY <2>1 DEF ParentInv
  <2>3. \A d \in Calls : c \notin chain[d]
    BY <1>2 DEF InitBlock, ParentInv
  <2>q. QED
    BY <1>2, <1>t, <2>1, <2>2, <2>3 DEF InitBlock, Enter, ParentInv, Begun
<1>3. ASSUME NEW c \in Calls, NEW p \in Calls, NEW b \in Blocks, CallBlock(c, p, b)
      PROVE  ParentInv'
  <2>1. Dispatch(c, "call_block", b, p, chain[p] \cup {p})
    BY <1>3 DEF CallBlock
  <2>2. p \in begun /\ p # c /\ pc[p] = "running"
    BY <1>3 DEF CallBlock, Admit, Dispatch, ParentInv, Begun
  <2>3. CASE UNCHANGED <<pc, callVars>>
    BY <1>t, <2>1, <2>3 DEF Dispatch, ParentInv, Begun
  <2>4. ASSUME NEW at \in {"serving", "unsettled"}, Enter(c, at, "call_block", b, p, chain[p] \cup {p})
        PROVE  ParentInv'
    BY <1>t, <2>1, <2>2, <2>4 DEF Dispatch, Enter, ParentInv, Begun
  <2>q. QED
    BY <2>1, <2>3, <2>4 DEF Dispatch
<1>4. ASSUME NEW c \in Calls, NEW p \in Calls, NEW b \in Blocks, DeferredCall(c, p, b)
      PROVE  ParentInv'
  <2>1. Dispatch(c, "call_block", b, p, {})
    BY <1>4 DEF DeferredCall
  <2>2. p \in begun /\ p # c /\ target[p] \in Deferring
    BY <1>4 DEF DeferredCall, Admit, Dispatch, ParentInv, Begun
  <2>3. CASE UNCHANGED <<pc, callVars>>
    BY <1>t, <2>1, <2>3 DEF Dispatch, ParentInv, Begun
  <2>4. ASSUME NEW at \in {"serving", "unsettled"}, Enter(c, at, "call_block", b, p, {})
        PROVE  ParentInv'
    BY <1>t, <2>1, <2>2, <2>4 DEF Dispatch, Enter, ParentInv, Begun
  <2>q. QED
    BY <2>1, <2>3, <2>4 DEF Dispatch
<1>5. ASSUME NEW c \in Calls, Refuse(c)
      PROVE  ParentInv'
  <2>1. c \notin begun \/ pc[c] \in {"leaving", "serving"}
    BY <1>5 DEF Refuse, ParentInv, Begun
  <2>2. \A d \in Calls : c \notin chain[d]
    BY <1>5 DEF Refuse, ParentInv
  <2>3. Return(c)
    BY <1>5 DEF Refuse
  <2>q. QED
    BY <1>t, <2>1, <2>2, <2>3, ReturnKeepsParents
<1>6. ASSUME NEW c \in Calls, Proceed(c)
      PROVE  ParentInv'
  BY <1>6, <1>t DEF Proceed, ParentInv, Begun
<1>7. ASSUME NEW c \in Calls, WaitFor(c)
      PROVE  ParentInv'
  BY <1>7, <1>t DEF WaitFor, ParentInv, Begun
<1>8. ASSUME NEW c \in Calls, RefuseCycle(c)
      PROVE  ParentInv'
  <2>1. c \notin begun \/ pc[c] \in {"leaving", "serving"}
    BY <1>8 DEF RefuseCycle, ParentInv, Begun
  <2>2. \A d \in Calls : c \notin chain[d]
    BY <1>8 DEF RefuseCycle, ParentInv
  <2>3. Return(c)
    BY <1>8 DEF RefuseCycle
  <2>q. QED
    BY <1>t, <2>1, <2>2, <2>3, ReturnKeepsParents
<1>9. ASSUME NEW c \in Calls, Enqueue(c)
      PROVE  ParentInv'
  BY <1>9, <1>t DEF Enqueue, ParentInv, Begun
<1>10. ASSUME NEW c \in Calls, Acquire(c)
      PROVE  ParentInv'
  BY <1>10, <1>t DEF Acquire, ParentInv, Begun
<1>11. ASSUME NEW c \in Calls, TakeSettled(c)
      PROVE  ParentInv'
  BY <1>11, <1>t DEF TakeSettled, ParentInv, Begun
<1>12. ASSUME NEW c \in Calls, BeginAttempt(c)
      PROVE  ParentInv'
  BY <1>12, <1>t DEF BeginAttempt, ParentInv, Begun
<1>13. ASSUME NEW c \in Calls, Own(c)
      PROVE  ParentInv'
  BY <1>13, <1>t DEF Own, ParentInv, Begun
<1>14. ASSUME NEW c \in Calls, DeadlinePasses(c)
      PROVE  ParentInv'
  BY <1>14, <1>t DEF DeadlinePasses, ParentInv, Begun
<1>15. ASSUME NEW c \in Calls, TimerFires(c)
      PROVE  ParentInv'
  BY <1>15, <1>t DEF TimerFires, ParentInv, Begun
<1>16. ASSUME NEW c \in Calls, NEW r \in Results, InitReturns(c, r)
      PROVE  ParentInv'
  <2>1. \A d \in Calls : c \notin chain[d]
    BY <1>16 DEF InitReturns, Inner, ParentInv
  <2>q. QED
    BY <1>16, <1>t, <2>1 DEF InitReturns, ParentInv, Begun
<1>17. ASSUME NEW c \in Calls, Disown(c)
      PROVE  ParentInv'
  <2>1. \A d \in Calls : c \notin chain[d]
    BY <1>17 DEF Disown, Inner, ParentInv
  <2>q. QED
    BY <1>17, <1>t, <2>1 DEF Disown, ParentInv, Begun
<1>18. ASSUME NEW c \in Calls, Record(c)
      PROVE  ParentInv'
  BY <1>18, <1>t DEF Record, ParentInv, Begun
<1>19. ASSUME NEW c \in Calls, Release(c)
      PROVE  ParentInv'
  BY <1>19, <1>t DEF Release, ParentInv, Begun
<1>20. ASSUME NEW c \in Calls, Serve(c)
      PROVE  ParentInv'
  BY <1>20, <1>t DEF Serve, DropWait, ParentInv, Begun
<1>21. ASSUME NEW c \in Calls, Leave(c)
      PROVE  ParentInv'
  <2>1. c \notin begun \/ pc[c] \in {"leaving", "serving"}
    BY <1>21 DEF Leave, DropWait, ParentInv, Begun
  <2>2. \A d \in Calls : c \notin chain[d]
    BY <1>21 DEF Leave, DropWait, ParentInv
  <2>3. Return(c)
    BY <1>21 DEF Leave
  <2>q. QED
    BY <1>t, <2>1, <2>2, <2>3, ReturnKeepsParents
<1>22. ASSUME NEW c \in Calls, HandleEnds(c)
      PROVE  ParentInv'
  <2>1. c \notin begun \/ pc[c] \in {"leaving", "serving"}
    BY <1>22 DEF HandleEnds, ParentInv, Begun
  <2>2. \A d \in Calls : c \notin chain[d]
    BY <1>22 DEF HandleEnds, ParentInv
  <2>3. Return(c)
    BY <1>22 DEF HandleEnds
  <2>q. QED
    BY <1>t, <2>1, <2>2, <2>3, ReturnKeepsParents
<1>23. ASSUME NEW c \in Calls, DropQueued(c)
      PROVE  ParentInv'
  <2>1. Dropped(c, "queued", "leaving")
    BY <1>23 DEF DropQueued
  <2>q. QED
    BY <1>t, <2>1 DEF Dropped, ParentInv, Begun
<1>24. ASSUME NEW c \in Calls, DropLocked(c)
      PROVE  ParentInv'
  BY <1>24, <1>t DEF DropLocked, Dropped, ParentInv, Begun
<1>25. ASSUME NEW c \in Calls, DropRunning(c)
      PROVE  ParentInv'
  BY <1>25, <1>t DEF DropRunning, Dropped, ParentInv, Begun
<1>26. ASSUME NEW c \in Calls, DropOwner(c)
      PROVE  ParentInv'
  <2>1. \A d \in Calls : c \notin chain[d]
    BY <1>26 DEF DropOwner, Inner, ParentInv
  <2>q. QED
    BY <1>26, <1>t, <2>1 DEF DropOwner, ParentInv, Begun
<1>27. ASSUME NEW c \in Calls, Abandon(c)
      PROVE  ParentInv'
  BY <1>27, <1>t DEF Abandon, ParentInv, Begun
<1>28. ASSUME NEW c \in Calls, StopRequest(c)
      PROVE  ParentInv'
  BY <1>28, <1>t DEF StopRequest, ParentInv, Begun
<1>29. ASSUME NEW c \in Calls, Forget(c)
      PROVE  ParentInv'
  BY <1>29, <1>t DEF Forget, ParentInv, Begun
<1>30. ASSUME NEW b \in Blocks, Elapse(b)
      PROVE  ParentInv'
  BY <1>30, <1>t DEF Elapse, ParentInv, Begun
<1>31. CASE UNCHANGED vars
  BY <1>31, <1>t DEF vars, ParentInv, Begun
<1> HIDE DEF slotVars, lockVars, graphVars, callVars, runVars, Resting, Owning, CallOrNone
<1>q. QED
  BY <1>1, <1>2, <1>3, <1>4, <1>5, <1>6, <1>7, <1>8, <1>9, <1>10, <1>11, <1>12,
     <1>13, <1>14, <1>15, <1>16, <1>17, <1>18, <1>19, <1>20, <1>21, <1>22, <1>23, <1>24,
     <1>25, <1>26, <1>27, <1>28, <1>29, <1>30, <1>31
  DEF Next, Step, Drop

-----------------------------------------------------------------------------
(* The slot of a block under initialisation: the re-check under the lock. *)

\* Every step of Next preserves it.
LEMMA SlotStep ==
  ASSUME TypeOK, LockInv, SlotInv, [Next]_vars
  PROVE  SlotInv'
<1>t. /\ outcome \in [Blocks -> Outcomes]
      /\ backoff \in [Blocks -> Backoffs]
      /\ inFlight \in [Blocks -> BOOLEAN]
      /\ holder \in [Blocks -> CallOrNone]
      /\ pc \in [Calls -> States]
      /\ target \in [Calls -> Blocks]
  BY DEF TypeOK
<1> USE ConstantsAssumption
  DEF slotVars, lockVars, graphVars, callVars, runVars, Resting, Owning, Attempting,
      Holding, CallOrNone
<1>1. ASSUME NEW c \in Calls, NEW b \in Blocks, RunBlock(c, b)
      PROVE  SlotInv'
  <2>1. Dispatch(c, "run_block", b, NoCall, {})
    BY <1>1 DEF RunBlock
  <2>2. CASE UNCHANGED <<pc, callVars>>
    BY <1>t, <2>1, <2>2 DEF Dispatch, SlotInv, InitOnlyWhenUnsettled, Settled, LockInv
  <2>3. ASSUME NEW at \in {"serving", "unsettled"}, Enter(c, at, "run_block", b, NoCall, {})
        PROVE  SlotInv'
    BY <1>t, <2>1, <2>3
      DEF Dispatch, Enter, SlotInv, InitOnlyWhenUnsettled, Settled, LockInv
  <2>q. QED
    BY <2>1, <2>2, <2>3 DEF Dispatch
<1>2. ASSUME NEW c \in Calls, NEW b \in Blocks, InitBlock(c, b)
      PROVE  SlotInv'
  BY <1>2, <1>t DEF InitBlock, Enter, SlotInv, InitOnlyWhenUnsettled, Settled, LockInv
<1>3. ASSUME NEW c \in Calls, NEW p \in Calls, NEW b \in Blocks, CallBlock(c, p, b)
      PROVE  SlotInv'
  <2>1. Dispatch(c, "call_block", b, p, chain[p] \cup {p})
    BY <1>3 DEF CallBlock
  <2>2. CASE UNCHANGED <<pc, callVars>>
    BY <1>t, <2>1, <2>2 DEF Dispatch, SlotInv, InitOnlyWhenUnsettled, Settled, LockInv
  <2>3. ASSUME NEW at \in {"serving", "unsettled"}, Enter(c, at, "call_block", b, p, chain[p] \cup {p})
        PROVE  SlotInv'
    BY <1>t, <2>1, <2>3
      DEF Dispatch, Enter, SlotInv, InitOnlyWhenUnsettled, Settled, LockInv
  <2>q. QED
    BY <2>1, <2>2, <2>3 DEF Dispatch
<1>4. ASSUME NEW c \in Calls, NEW p \in Calls, NEW b \in Blocks, DeferredCall(c, p, b)
      PROVE  SlotInv'
  <2>1. Dispatch(c, "call_block", b, p, {})
    BY <1>4 DEF DeferredCall
  <2>2. CASE UNCHANGED <<pc, callVars>>
    BY <1>t, <2>1, <2>2 DEF Dispatch, SlotInv, InitOnlyWhenUnsettled, Settled, LockInv
  <2>3. ASSUME NEW at \in {"serving", "unsettled"}, Enter(c, at, "call_block", b, p, {})
        PROVE  SlotInv'
    BY <1>t, <2>1, <2>3
      DEF Dispatch, Enter, SlotInv, InitOnlyWhenUnsettled, Settled, LockInv
  <2>q. QED
    BY <2>1, <2>2, <2>3 DEF Dispatch
<1>5. ASSUME NEW c \in Calls, Refuse(c)
      PROVE  SlotInv'
  BY <1>5, <1>t DEF Refuse, Return, SlotInv, InitOnlyWhenUnsettled, Settled, LockInv
<1>6. ASSUME NEW c \in Calls, Proceed(c)
      PROVE  SlotInv'
  BY <1>6, <1>t DEF Proceed, SlotInv, InitOnlyWhenUnsettled, Settled, LockInv
<1>7. ASSUME NEW c \in Calls, WaitFor(c)
      PROVE  SlotInv'
  BY <1>7, <1>t DEF WaitFor, SlotInv, InitOnlyWhenUnsettled, Settled, LockInv
<1>8. ASSUME NEW c \in Calls, RefuseCycle(c)
      PROVE  SlotInv'
  BY <1>8, <1>t DEF RefuseCycle, Return, SlotInv, InitOnlyWhenUnsettled, Settled, LockInv
<1>9. ASSUME NEW c \in Calls, Enqueue(c)
      PROVE  SlotInv'
  BY <1>9, <1>t DEF Enqueue, SlotInv, InitOnlyWhenUnsettled, Settled, LockInv
<1>10. ASSUME NEW c \in Calls, Acquire(c)
      PROVE  SlotInv'
  BY <1>10, <1>t DEF Acquire, SlotInv, InitOnlyWhenUnsettled, Settled, LockInv
<1>11. ASSUME NEW c \in Calls, TakeSettled(c)
      PROVE  SlotInv'
  BY <1>11, <1>t DEF TakeSettled, SlotInv, InitOnlyWhenUnsettled, Settled, LockInv
<1>12. ASSUME NEW c \in Calls, BeginAttempt(c)
      PROVE  SlotInv'
  BY <1>12, <1>t DEF BeginAttempt, SlotInv, InitOnlyWhenUnsettled, Settled, LockInv
<1>13. ASSUME NEW c \in Calls, Own(c)
      PROVE  SlotInv'
  BY <1>13, <1>t DEF Own, SlotInv, InitOnlyWhenUnsettled, Settled, LockInv
<1>14. ASSUME NEW c \in Calls, DeadlinePasses(c)
      PROVE  SlotInv'
  BY <1>14, <1>t DEF DeadlinePasses, SlotInv, InitOnlyWhenUnsettled, Settled, LockInv
<1>15. ASSUME NEW c \in Calls, TimerFires(c)
      PROVE  SlotInv'
  BY <1>15, <1>t DEF TimerFires, SlotInv, InitOnlyWhenUnsettled, Settled, LockInv
<1>16. ASSUME NEW c \in Calls, NEW r \in Results, InitReturns(c, r)
      PROVE  SlotInv'
  BY <1>16, <1>t DEF InitReturns, SlotInv, InitOnlyWhenUnsettled, Settled, LockInv
<1>17. ASSUME NEW c \in Calls, Disown(c)
      PROVE  SlotInv'
  BY <1>17, <1>t DEF Disown, SlotInv, InitOnlyWhenUnsettled, Settled, LockInv
<1>18. ASSUME NEW c \in Calls, Record(c)
      PROVE  SlotInv'
  BY <1>18, <1>t DEF Record, SlotInv, InitOnlyWhenUnsettled, Settled, LockInv
<1>19. ASSUME NEW c \in Calls, Release(c)
      PROVE  SlotInv'
  BY <1>19, <1>t DEF Release, SlotInv, InitOnlyWhenUnsettled, Settled, LockInv
<1>20. ASSUME NEW c \in Calls, Serve(c)
      PROVE  SlotInv'
  BY <1>20, <1>t DEF Serve, DropWait, SlotInv, InitOnlyWhenUnsettled, Settled, LockInv
<1>21. ASSUME NEW c \in Calls, Leave(c)
      PROVE  SlotInv'
  BY <1>21, <1>t
    DEF Leave, DropWait, Return, SlotInv, InitOnlyWhenUnsettled, Settled, LockInv
<1>22. ASSUME NEW c \in Calls, HandleEnds(c)
      PROVE  SlotInv'
  BY <1>22, <1>t DEF HandleEnds, Return, SlotInv, InitOnlyWhenUnsettled, Settled, LockInv
<1>23. ASSUME NEW c \in Calls, DropQueued(c)
      PROVE  SlotInv'
  <2>1. Dropped(c, "queued", "leaving")
    BY <1>23 DEF DropQueued
  <2>q. QED
    BY <1>t, <2>1 DEF Dropped, SlotInv, InitOnlyWhenUnsettled, Settled, LockInv
<1>24. ASSUME NEW c \in Calls, DropLocked(c)
      PROVE  SlotInv'
  BY <1>24, <1>t DEF DropLocked, Dropped, SlotInv, InitOnlyWhenUnsettled, Settled, LockInv
<1>25. ASSUME NEW c \in Calls, DropRunning(c)
      PROVE  SlotInv'
  BY <1>25, <1>t DEF DropRunning, Dropped, SlotInv, InitOnlyWhenUnsettled, Settled, LockInv
<1>26. ASSUME NEW c \in Calls, DropOwner(c)
      PROVE  SlotInv'
  BY <1>26, <1>t DEF DropOwner, SlotInv, InitOnlyWhenUnsettled, Settled, LockInv
<1>27. ASSUME NEW c \in Calls, Abandon(c)
      PROVE  SlotInv'
  BY <1>27, <1>t DEF Abandon, SlotInv, InitOnlyWhenUnsettled, Settled, LockInv
<1>28. ASSUME NEW c \in Calls, StopRequest(c)
      PROVE  SlotInv'
  BY <1>28, <1>t DEF StopRequest, SlotInv, InitOnlyWhenUnsettled, Settled, LockInv
<1>29. ASSUME NEW c \in Calls, Forget(c)
      PROVE  SlotInv'
  BY <1>29, <1>t DEF Forget, SlotInv, InitOnlyWhenUnsettled, Settled, LockInv
<1>30. ASSUME NEW b \in Blocks, Elapse(b)
      PROVE  SlotInv'
  BY <1>30, <1>t DEF Elapse, SlotInv, InitOnlyWhenUnsettled, Settled, LockInv
<1>31. CASE UNCHANGED vars
  BY <1>31, <1>t DEF vars, SlotInv, InitOnlyWhenUnsettled, Settled, LockInv
<1> HIDE
  DEF slotVars, lockVars, graphVars, callVars, runVars, Resting, Owning, Attempting,
      Holding, CallOrNone
<1>q. QED
  BY <1>1, <1>2, <1>3, <1>4, <1>5, <1>6, <1>7, <1>8, <1>9, <1>10, <1>11, <1>12,
     <1>13, <1>14, <1>15, <1>16, <1>17, <1>18, <1>19, <1>20, <1>21, <1>22, <1>23, <1>24,
     <1>25, <1>26, <1>27, <1>28, <1>29, <1>30, <1>31
  DEF Next, Step, Drop

-----------------------------------------------------------------------------
(* Answers agree with the slot. *)

\* Every step of Next preserves it.
LEMMA AnswerStep ==
  ASSUME TypeOK, LockInv, SlotInv, AnswerInv, [Next]_vars
  PROVE  AnswerInv'
<1>t. /\ outcome \in [Blocks -> Outcomes]
      /\ pc \in [Calls -> States]
      /\ target \in [Calls -> Blocks]
      /\ answer \in [Calls -> Answers]
  BY DEF TypeOK
<1> USE ConstantsAssumption
  DEF slotVars, lockVars, graphVars, callVars, runVars, Outcomes, Results
<1>1. ASSUME NEW c \in Calls, NEW b \in Blocks, RunBlock(c, b)
      PROVE  AnswerInv'
  <2>1. Dispatch(c, "run_block", b, NoCall, {})
    BY <1>1 DEF RunBlock
  <2>2. CASE UNCHANGED <<pc, callVars>>
    BY <1>t, <2>1, <2>2 DEF Dispatch, AnswerInv, ServedOnlyReady
  <2>3. ASSUME NEW at \in {"serving", "unsettled"}, Enter(c, at, "run_block", b, NoCall, {})
        PROVE  AnswerInv'
    BY <1>t, <2>1, <2>3 DEF Dispatch, Enter, AnswerInv, ServedOnlyReady
  <2>q. QED
    BY <2>1, <2>2, <2>3 DEF Dispatch
<1>2. ASSUME NEW c \in Calls, NEW b \in Blocks, InitBlock(c, b)
      PROVE  AnswerInv'
  BY <1>2, <1>t DEF InitBlock, Enter, AnswerInv, ServedOnlyReady
<1>3. ASSUME NEW c \in Calls, NEW p \in Calls, NEW b \in Blocks, CallBlock(c, p, b)
      PROVE  AnswerInv'
  <2>1. Dispatch(c, "call_block", b, p, chain[p] \cup {p})
    BY <1>3 DEF CallBlock
  <2>2. CASE UNCHANGED <<pc, callVars>>
    BY <1>t, <2>1, <2>2 DEF Dispatch, AnswerInv, ServedOnlyReady
  <2>3. ASSUME NEW at \in {"serving", "unsettled"}, Enter(c, at, "call_block", b, p, chain[p] \cup {p})
        PROVE  AnswerInv'
    BY <1>t, <2>1, <2>3 DEF Dispatch, Enter, AnswerInv, ServedOnlyReady
  <2>q. QED
    BY <2>1, <2>2, <2>3 DEF Dispatch
<1>4. ASSUME NEW c \in Calls, NEW p \in Calls, NEW b \in Blocks, DeferredCall(c, p, b)
      PROVE  AnswerInv'
  <2>1. Dispatch(c, "call_block", b, p, {})
    BY <1>4 DEF DeferredCall
  <2>2. CASE UNCHANGED <<pc, callVars>>
    BY <1>t, <2>1, <2>2 DEF Dispatch, AnswerInv, ServedOnlyReady
  <2>3. ASSUME NEW at \in {"serving", "unsettled"}, Enter(c, at, "call_block", b, p, {})
        PROVE  AnswerInv'
    BY <1>t, <2>1, <2>3 DEF Dispatch, Enter, AnswerInv, ServedOnlyReady
  <2>q. QED
    BY <2>1, <2>2, <2>3 DEF Dispatch
<1>5. ASSUME NEW c \in Calls, Refuse(c)
      PROVE  AnswerInv'
  BY <1>5, <1>t DEF Refuse, Return, AnswerInv, ServedOnlyReady
<1>6. ASSUME NEW c \in Calls, Proceed(c)
      PROVE  AnswerInv'
  BY <1>6, <1>t DEF Proceed, AnswerInv, ServedOnlyReady
<1>7. ASSUME NEW c \in Calls, WaitFor(c)
      PROVE  AnswerInv'
  BY <1>7, <1>t DEF WaitFor, AnswerInv, ServedOnlyReady
<1>8. ASSUME NEW c \in Calls, RefuseCycle(c)
      PROVE  AnswerInv'
  BY <1>8, <1>t DEF RefuseCycle, Return, AnswerInv, ServedOnlyReady
<1>9. ASSUME NEW c \in Calls, Enqueue(c)
      PROVE  AnswerInv'
  BY <1>9, <1>t DEF Enqueue, AnswerInv, ServedOnlyReady
<1>10. ASSUME NEW c \in Calls, Acquire(c)
      PROVE  AnswerInv'
  BY <1>10, <1>t DEF Acquire, AnswerInv, ServedOnlyReady
<1>11. ASSUME NEW c \in Calls, TakeSettled(c)
      PROVE  AnswerInv'
  BY <1>11, <1>t DEF TakeSettled, AnswerInv, ServedOnlyReady
<1>12. ASSUME NEW c \in Calls, BeginAttempt(c)
      PROVE  AnswerInv'
  BY <1>12, <1>t DEF BeginAttempt, AnswerInv, ServedOnlyReady
<1>13. ASSUME NEW c \in Calls, Own(c)
      PROVE  AnswerInv'
  BY <1>13, <1>t DEF Own, AnswerInv, ServedOnlyReady
<1>14. ASSUME NEW c \in Calls, DeadlinePasses(c)
      PROVE  AnswerInv'
  BY <1>14, <1>t DEF DeadlinePasses, AnswerInv, ServedOnlyReady
<1>15. ASSUME NEW c \in Calls, TimerFires(c)
      PROVE  AnswerInv'
  BY <1>15, <1>t DEF TimerFires, AnswerInv, ServedOnlyReady
<1>16. ASSUME NEW c \in Calls, NEW r \in Results, InitReturns(c, r)
      PROVE  AnswerInv'
  BY <1>16, <1>t DEF InitReturns, AnswerInv, ServedOnlyReady
<1>17. ASSUME NEW c \in Calls, Disown(c)
      PROVE  AnswerInv'
  BY <1>17, <1>t DEF Disown, AnswerInv, ServedOnlyReady
<1>18. ASSUME NEW c \in Calls, Record(c)
      PROVE  AnswerInv'
  BY <1>18, <1>t
    DEF Record, AnswerInv, ServedOnlyReady, SlotInv, LockInv, InitOnlyWhenUnsettled,
        Settled, Attempting, Owning, Holding
<1>19. ASSUME NEW c \in Calls, Release(c)
      PROVE  AnswerInv'
  BY <1>19, <1>t DEF Release, AnswerInv, ServedOnlyReady
<1>20. ASSUME NEW c \in Calls, Serve(c)
      PROVE  AnswerInv'
  BY <1>20, <1>t DEF Serve, DropWait, AnswerInv, ServedOnlyReady
<1>21. ASSUME NEW c \in Calls, Leave(c)
      PROVE  AnswerInv'
  BY <1>21, <1>t DEF Leave, DropWait, Return, AnswerInv, ServedOnlyReady
<1>22. ASSUME NEW c \in Calls, HandleEnds(c)
      PROVE  AnswerInv'
  BY <1>22, <1>t DEF HandleEnds, Return, AnswerInv, ServedOnlyReady
<1>23. ASSUME NEW c \in Calls, DropQueued(c)
      PROVE  AnswerInv'
  <2>1. Dropped(c, "queued", "leaving")
    BY <1>23 DEF DropQueued
  <2>q. QED
    BY <1>t, <2>1 DEF Dropped, AnswerInv, ServedOnlyReady
<1>24. ASSUME NEW c \in Calls, DropLocked(c)
      PROVE  AnswerInv'
  BY <1>24, <1>t DEF DropLocked, Dropped, AnswerInv, ServedOnlyReady
<1>25. ASSUME NEW c \in Calls, DropRunning(c)
      PROVE  AnswerInv'
  BY <1>25, <1>t DEF DropRunning, Dropped, AnswerInv, ServedOnlyReady
<1>26. ASSUME NEW c \in Calls, DropOwner(c)
      PROVE  AnswerInv'
  BY <1>26, <1>t DEF DropOwner, AnswerInv, ServedOnlyReady
<1>27. ASSUME NEW c \in Calls, Abandon(c)
      PROVE  AnswerInv'
  BY <1>27, <1>t DEF Abandon, AnswerInv, ServedOnlyReady
<1>28. ASSUME NEW c \in Calls, StopRequest(c)
      PROVE  AnswerInv'
  BY <1>28, <1>t DEF StopRequest, AnswerInv, ServedOnlyReady
<1>29. ASSUME NEW c \in Calls, Forget(c)
      PROVE  AnswerInv'
  BY <1>29, <1>t DEF Forget, AnswerInv, ServedOnlyReady
<1>30. ASSUME NEW b \in Blocks, Elapse(b)
      PROVE  AnswerInv'
  BY <1>30, <1>t DEF Elapse, AnswerInv, ServedOnlyReady
<1>31. CASE UNCHANGED vars
  BY <1>31, <1>t DEF vars, AnswerInv, ServedOnlyReady
<1> HIDE DEF slotVars, lockVars, graphVars, callVars, runVars, Outcomes, Results
<1>q. QED
  BY <1>1, <1>2, <1>3, <1>4, <1>5, <1>6, <1>7, <1>8, <1>9, <1>10, <1>11, <1>12,
     <1>13, <1>14, <1>15, <1>16, <1>17, <1>18, <1>19, <1>20, <1>21, <1>22, <1>23, <1>24,
     <1>25, <1>26, <1>27, <1>28, <1>29, <1>30, <1>31
  DEF Next, Step, Drop

-----------------------------------------------------------------------------
(* Failures within the budget *)

\* Every step of Next preserves it.
LEMMA BudgetStep ==
  ASSUME TypeOK, BudgetInv, [Next]_vars
  PROVE  BudgetInv'
<1>t. /\ pc \in [Calls -> States]
      /\ answer \in [Calls -> Answers]
      /\ late \in [Calls -> BOOLEAN]
  BY DEF TypeOK
<1> USE ConstantsAssumption DEF slotVars, lockVars, graphVars, callVars, runVars, Resting
<1>1. ASSUME NEW c \in Calls, NEW b \in Blocks, RunBlock(c, b)
      PROVE  BudgetInv'
  <2>1. Dispatch(c, "run_block", b, NoCall, {})
    BY <1>1 DEF RunBlock
  <2>2. CASE UNCHANGED <<pc, callVars>>
    BY <1>t, <2>1, <2>2 DEF Dispatch, BudgetInv
  <2>3. ASSUME NEW at \in {"serving", "unsettled"}, Enter(c, at, "run_block", b, NoCall, {})
        PROVE  BudgetInv'
    BY <1>t, <2>1, <2>3 DEF Dispatch, Enter, BudgetInv
  <2>q. QED
    BY <2>1, <2>2, <2>3 DEF Dispatch
<1>2. ASSUME NEW c \in Calls, NEW b \in Blocks, InitBlock(c, b)
      PROVE  BudgetInv'
  BY <1>2, <1>t DEF InitBlock, Enter, BudgetInv
<1>3. ASSUME NEW c \in Calls, NEW p \in Calls, NEW b \in Blocks, CallBlock(c, p, b)
      PROVE  BudgetInv'
  <2>1. Dispatch(c, "call_block", b, p, chain[p] \cup {p})
    BY <1>3 DEF CallBlock
  <2>2. CASE UNCHANGED <<pc, callVars>>
    BY <1>t, <2>1, <2>2 DEF Dispatch, BudgetInv
  <2>3. ASSUME NEW at \in {"serving", "unsettled"}, Enter(c, at, "call_block", b, p, chain[p] \cup {p})
        PROVE  BudgetInv'
    BY <1>t, <2>1, <2>3 DEF Dispatch, Enter, BudgetInv
  <2>q. QED
    BY <2>1, <2>2, <2>3 DEF Dispatch
<1>4. ASSUME NEW c \in Calls, NEW p \in Calls, NEW b \in Blocks, DeferredCall(c, p, b)
      PROVE  BudgetInv'
  <2>1. Dispatch(c, "call_block", b, p, {})
    BY <1>4 DEF DeferredCall
  <2>2. CASE UNCHANGED <<pc, callVars>>
    BY <1>t, <2>1, <2>2 DEF Dispatch, BudgetInv
  <2>3. ASSUME NEW at \in {"serving", "unsettled"}, Enter(c, at, "call_block", b, p, {})
        PROVE  BudgetInv'
    BY <1>t, <2>1, <2>3 DEF Dispatch, Enter, BudgetInv
  <2>q. QED
    BY <2>1, <2>2, <2>3 DEF Dispatch
<1>5. ASSUME NEW c \in Calls, Refuse(c)
      PROVE  BudgetInv'
  BY <1>5, <1>t DEF Refuse, Return, BudgetInv
<1>6. ASSUME NEW c \in Calls, Proceed(c)
      PROVE  BudgetInv'
  BY <1>6, <1>t DEF Proceed, BudgetInv
<1>7. ASSUME NEW c \in Calls, WaitFor(c)
      PROVE  BudgetInv'
  BY <1>7, <1>t DEF WaitFor, BudgetInv
<1>8. ASSUME NEW c \in Calls, RefuseCycle(c)
      PROVE  BudgetInv'
  BY <1>8, <1>t DEF RefuseCycle, Return, BudgetInv
<1>9. ASSUME NEW c \in Calls, Enqueue(c)
      PROVE  BudgetInv'
  BY <1>9, <1>t DEF Enqueue, BudgetInv
<1>10. ASSUME NEW c \in Calls, Acquire(c)
      PROVE  BudgetInv'
  BY <1>10, <1>t DEF Acquire, BudgetInv
<1>11. ASSUME NEW c \in Calls, TakeSettled(c)
      PROVE  BudgetInv'
  BY <1>11, <1>t DEF TakeSettled, BudgetInv
<1>12. ASSUME NEW c \in Calls, BeginAttempt(c)
      PROVE  BudgetInv'
  BY <1>12, <1>t DEF BeginAttempt, BudgetInv
<1>13. ASSUME NEW c \in Calls, Own(c)
      PROVE  BudgetInv'
  BY <1>13, <1>t DEF Own, BudgetInv
<1>14. ASSUME NEW c \in Calls, DeadlinePasses(c)
      PROVE  BudgetInv'
  BY <1>14, <1>t DEF DeadlinePasses, BudgetInv
<1>15. ASSUME NEW c \in Calls, TimerFires(c)
      PROVE  BudgetInv'
  BY <1>15, <1>t DEF TimerFires, BudgetInv
<1>16. ASSUME NEW c \in Calls, NEW r \in Results, InitReturns(c, r)
      PROVE  BudgetInv'
  BY <1>16, <1>t DEF InitReturns, BudgetInv
<1>17. ASSUME NEW c \in Calls, Disown(c)
      PROVE  BudgetInv'
  BY <1>17, <1>t DEF Disown, BudgetInv
<1>18. ASSUME NEW c \in Calls, Record(c)
      PROVE  BudgetInv'
  BY <1>18, <1>t DEF Record, BudgetInv
<1>19. ASSUME NEW c \in Calls, Release(c)
      PROVE  BudgetInv'
  BY <1>19, <1>t DEF Release, BudgetInv
<1>20. ASSUME NEW c \in Calls, Serve(c)
      PROVE  BudgetInv'
  BY <1>20, <1>t DEF Serve, DropWait, BudgetInv
<1>21. ASSUME NEW c \in Calls, Leave(c)
      PROVE  BudgetInv'
  BY <1>21, <1>t DEF Leave, DropWait, Return, BudgetInv
<1>22. ASSUME NEW c \in Calls, HandleEnds(c)
      PROVE  BudgetInv'
  BY <1>22, <1>t DEF HandleEnds, Return, BudgetInv
<1>23. ASSUME NEW c \in Calls, DropQueued(c)
      PROVE  BudgetInv'
  <2>1. Dropped(c, "queued", "leaving")
    BY <1>23 DEF DropQueued
  <2>q. QED
    BY <1>t, <2>1 DEF Dropped, BudgetInv
<1>24. ASSUME NEW c \in Calls, DropLocked(c)
      PROVE  BudgetInv'
  BY <1>24, <1>t DEF DropLocked, Dropped, BudgetInv
<1>25. ASSUME NEW c \in Calls, DropRunning(c)
      PROVE  BudgetInv'
  BY <1>25, <1>t DEF DropRunning, Dropped, BudgetInv
<1>26. ASSUME NEW c \in Calls, DropOwner(c)
      PROVE  BudgetInv'
  BY <1>26, <1>t DEF DropOwner, BudgetInv
<1>27. ASSUME NEW c \in Calls, Abandon(c)
      PROVE  BudgetInv'
  BY <1>27, <1>t DEF Abandon, BudgetInv
<1>28. ASSUME NEW c \in Calls, StopRequest(c)
      PROVE  BudgetInv'
  BY <1>28, <1>t DEF StopRequest, BudgetInv
<1>29. ASSUME NEW c \in Calls, Forget(c)
      PROVE  BudgetInv'
  BY <1>29, <1>t DEF Forget, BudgetInv
<1>30. ASSUME NEW b \in Blocks, Elapse(b)
      PROVE  BudgetInv'
  BY <1>30, <1>t DEF Elapse, BudgetInv
<1>31. CASE UNCHANGED vars
  BY <1>31, <1>t DEF vars, BudgetInv
<1> HIDE DEF slotVars, lockVars, graphVars, callVars, runVars, Resting
<1>q. QED
  BY <1>1, <1>2, <1>3, <1>4, <1>5, <1>6, <1>7, <1>8, <1>9, <1>10, <1>11, <1>12,
     <1>13, <1>14, <1>15, <1>16, <1>17, <1>18, <1>19, <1>20, <1>21, <1>22, <1>23, <1>24,
     <1>25, <1>26, <1>27, <1>28, <1>29, <1>30, <1>31
  DEF Next, Step, Drop

-----------------------------------------------------------------------------
(* Requests stay out of the pipeline under Refuse *)

\* Every step of Next preserves it.
LEMMA RequestStep ==
  ASSUME TypeOK, EdgeInv, RequestInv, [Next]_vars
  PROVE  RequestInv'
<1>t. /\ pc \in [Calls -> States]
      /\ via \in [Calls -> {"run_block", "init_block", "call_block"}]
      /\ parent \in [Calls -> CallOrNone]
  BY DEF TypeOK
<1> USE ConstantsAssumption
  DEF slotVars, lockVars, graphVars, callVars, runVars, Resting, Owning, Attempting,
      Holding, Waiting, CallOrNone
<1>1. ASSUME NEW c \in Calls, NEW b \in Blocks, RunBlock(c, b)
      PROVE  RequestInv'
  <2>1. Dispatch(c, "run_block", b, NoCall, {})
    BY <1>1 DEF RunBlock
  <2>2. CASE UNCHANGED <<pc, callVars>>
    BY <1>t, <2>1, <2>2 DEF Dispatch, RequestInv, RequestsHoldNoLock
  <2>3. ASSUME NEW at \in {"serving", "unsettled"}, Enter(c, at, "run_block", b, NoCall, {})
        PROVE  RequestInv'
    BY <1>t, <2>1, <2>3 DEF Dispatch, Enter, RequestInv, RequestsHoldNoLock
  <2>q. QED
    BY <2>1, <2>2, <2>3 DEF Dispatch
<1>2. ASSUME NEW c \in Calls, NEW b \in Blocks, InitBlock(c, b)
      PROVE  RequestInv'
  BY <1>2, <1>t DEF InitBlock, Enter, RequestInv, RequestsHoldNoLock
<1>3. ASSUME NEW c \in Calls, NEW p \in Calls, NEW b \in Blocks, CallBlock(c, p, b)
      PROVE  RequestInv'
  <2>1. Dispatch(c, "call_block", b, p, chain[p] \cup {p})
    BY <1>3 DEF CallBlock
  <2>2. CASE UNCHANGED <<pc, callVars>>
    BY <1>t, <2>1, <2>2 DEF Dispatch, RequestInv, RequestsHoldNoLock
  <2>3. ASSUME NEW at \in {"serving", "unsettled"}, Enter(c, at, "call_block", b, p, chain[p] \cup {p})
        PROVE  RequestInv'
    BY <1>t, <2>1, <2>3 DEF Dispatch, Enter, RequestInv, RequestsHoldNoLock
  <2>q. QED
    BY <2>1, <2>2, <2>3 DEF Dispatch
<1>4. ASSUME NEW c \in Calls, NEW p \in Calls, NEW b \in Blocks, DeferredCall(c, p, b)
      PROVE  RequestInv'
  <2>1. Dispatch(c, "call_block", b, p, {})
    BY <1>4 DEF DeferredCall
  <2>2. CASE UNCHANGED <<pc, callVars>>
    BY <1>t, <2>1, <2>2 DEF Dispatch, RequestInv, RequestsHoldNoLock
  <2>3. ASSUME NEW at \in {"serving", "unsettled"}, Enter(c, at, "call_block", b, p, {})
        PROVE  RequestInv'
    BY <1>t, <2>1, <2>3 DEF Dispatch, Enter, RequestInv, RequestsHoldNoLock
  <2>q. QED
    BY <2>1, <2>2, <2>3 DEF Dispatch
<1>5. ASSUME NEW c \in Calls, Refuse(c)
      PROVE  RequestInv'
  BY <1>5, <1>t DEF Refuse, Return, RequestInv, RequestsHoldNoLock
<1>6. ASSUME NEW c \in Calls, Proceed(c)
      PROVE  RequestInv'
  BY <1>6, <1>t DEF Proceed, RequestInv, RequestsHoldNoLock, InsideRunningInit
<1>7. ASSUME NEW c \in Calls, WaitFor(c)
      PROVE  RequestInv'
  BY <1>7, <1>t DEF WaitFor, RequestInv, RequestsHoldNoLock, EdgeInv
<1>8. ASSUME NEW c \in Calls, RefuseCycle(c)
      PROVE  RequestInv'
  BY <1>8, <1>t DEF RefuseCycle, Return, RequestInv, RequestsHoldNoLock
<1>9. ASSUME NEW c \in Calls, Enqueue(c)
      PROVE  RequestInv'
  BY <1>9, <1>t DEF Enqueue, RequestInv, RequestsHoldNoLock
<1>10. ASSUME NEW c \in Calls, Acquire(c)
      PROVE  RequestInv'
  BY <1>10, <1>t DEF Acquire, RequestInv, RequestsHoldNoLock
<1>11. ASSUME NEW c \in Calls, TakeSettled(c)
      PROVE  RequestInv'
  BY <1>11, <1>t DEF TakeSettled, RequestInv, RequestsHoldNoLock
<1>12. ASSUME NEW c \in Calls, BeginAttempt(c)
      PROVE  RequestInv'
  BY <1>12, <1>t DEF BeginAttempt, RequestInv, RequestsHoldNoLock
<1>13. ASSUME NEW c \in Calls, Own(c)
      PROVE  RequestInv'
  BY <1>13, <1>t DEF Own, RequestInv, RequestsHoldNoLock
<1>14. ASSUME NEW c \in Calls, DeadlinePasses(c)
      PROVE  RequestInv'
  BY <1>14, <1>t DEF DeadlinePasses, RequestInv, RequestsHoldNoLock
<1>15. ASSUME NEW c \in Calls, TimerFires(c)
      PROVE  RequestInv'
  BY <1>15, <1>t DEF TimerFires, RequestInv, RequestsHoldNoLock
<1>16. ASSUME NEW c \in Calls, NEW r \in Results, InitReturns(c, r)
      PROVE  RequestInv'
  BY <1>16, <1>t DEF InitReturns, RequestInv, RequestsHoldNoLock
<1>17. ASSUME NEW c \in Calls, Disown(c)
      PROVE  RequestInv'
  BY <1>17, <1>t DEF Disown, RequestInv, RequestsHoldNoLock
<1>18. ASSUME NEW c \in Calls, Record(c)
      PROVE  RequestInv'
  BY <1>18, <1>t DEF Record, RequestInv, RequestsHoldNoLock
<1>19. ASSUME NEW c \in Calls, Release(c)
      PROVE  RequestInv'
  BY <1>19, <1>t DEF Release, RequestInv, RequestsHoldNoLock
<1>20. ASSUME NEW c \in Calls, Serve(c)
      PROVE  RequestInv'
  BY <1>20, <1>t DEF Serve, DropWait, RequestInv, RequestsHoldNoLock
<1>21. ASSUME NEW c \in Calls, Leave(c)
      PROVE  RequestInv'
  BY <1>21, <1>t DEF Leave, DropWait, Return, RequestInv, RequestsHoldNoLock
<1>22. ASSUME NEW c \in Calls, HandleEnds(c)
      PROVE  RequestInv'
  BY <1>22, <1>t DEF HandleEnds, Return, RequestInv, RequestsHoldNoLock
<1>23. ASSUME NEW c \in Calls, DropQueued(c)
      PROVE  RequestInv'
  <2>1. Dropped(c, "queued", "leaving")
    BY <1>23 DEF DropQueued
  <2>q. QED
    BY <1>t, <2>1 DEF Dropped, RequestInv, RequestsHoldNoLock
<1>24. ASSUME NEW c \in Calls, DropLocked(c)
      PROVE  RequestInv'
  BY <1>24, <1>t DEF DropLocked, Dropped, RequestInv, RequestsHoldNoLock
<1>25. ASSUME NEW c \in Calls, DropRunning(c)
      PROVE  RequestInv'
  BY <1>25, <1>t DEF DropRunning, Dropped, RequestInv, RequestsHoldNoLock
<1>26. ASSUME NEW c \in Calls, DropOwner(c)
      PROVE  RequestInv'
  BY <1>26, <1>t DEF DropOwner, RequestInv, RequestsHoldNoLock
<1>27. ASSUME NEW c \in Calls, Abandon(c)
      PROVE  RequestInv'
  BY <1>27, <1>t DEF Abandon, RequestInv, RequestsHoldNoLock
<1>28. ASSUME NEW c \in Calls, StopRequest(c)
      PROVE  RequestInv'
  BY <1>28, <1>t DEF StopRequest, RequestInv, RequestsHoldNoLock
<1>29. ASSUME NEW c \in Calls, Forget(c)
      PROVE  RequestInv'
  BY <1>29, <1>t DEF Forget, RequestInv, RequestsHoldNoLock
<1>30. ASSUME NEW b \in Blocks, Elapse(b)
      PROVE  RequestInv'
  BY <1>30, <1>t DEF Elapse, RequestInv, RequestsHoldNoLock
<1>31. CASE UNCHANGED vars
  BY <1>31, <1>t DEF vars, RequestInv, RequestsHoldNoLock
<1> HIDE
  DEF slotVars, lockVars, graphVars, callVars, runVars, Resting, Owning, Attempting,
      Holding, Waiting, CallOrNone
<1>q. QED
  BY <1>1, <1>2, <1>3, <1>4, <1>5, <1>6, <1>7, <1>8, <1>9, <1>10, <1>11, <1>12,
     <1>13, <1>14, <1>15, <1>16, <1>17, <1>18, <1>19, <1>20, <1>21, <1>22, <1>23, <1>24,
     <1>25, <1>26, <1>27, <1>28, <1>29, <1>30, <1>31
  DEF Next, Step, Drop
=============================================================================
