------------------------- MODULE InitPipelineProofs -------------------------
(***************************************************************************)
(* The theorems about InitPipeline: the wait-for graph stays acyclic, the  *)
(* invariant is inductive, and what follows from it.                       *)
(***************************************************************************)
EXTENDS InitPipelineCalls

-----------------------------------------------------------------------------
(* The wait-for graph stays acyclic. *)

(* Removing waits and owners closes no cycle. *)
LEMMA FewerWaits ==
  ASSUME TypeOK, WaitGraphAcyclic,
         \A e \in edges' : e \in edges /\ parent'[e] = parent[e] /\ target'[e] = target[e],
         \A b \in Blocks : owners'[b] \in {owners[b], NoCall}
  PROVE  WaitGraphAcyclic'
<1>1. SUFFICES ASSUME NEW S \in SUBSET Calls, S # {}
               PROVE  \E p \in S : WaitedOwners(p)' \cap S = {}
  BY DEF WaitGraphAcyclic
<1>2. PICK p \in S : WaitedOwners(p) \cap S = {}
  BY <1>1 DEF WaitGraphAcyclic
<1>3. ASSUME NEW q \in WaitedOwners(p)', q \in S
      PROVE  FALSE
  <2>1. PICK e \in edges' : parent'[e] = p /\ q = owners'[target'[e]]
    BY <1>3 DEF WaitedOwners
  <2>2. e \in edges /\ parent[e] = p /\ target[e] \in Blocks /\ q = owners'[target[e]]
    BY <2>1 DEF TypeOK
  <2>3. q = owners[target[e]]
    BY <1>3, <2>2, ConstantsAssumption
  <2>q. QED
    BY <1>2, <1>3, <2>2, <2>3 DEF WaitedOwners
<1>q. QED
  BY <1>3

(* A wait that wait_for accepts closes no cycle: the walk from the target's*)
(* owner, which does not arrive at the waiter, stays in a closed set R; a  *)
(* cycle through the new wait would have a part inside R, closed already.  *)
LEMMA WaitForAcyclic ==
  ASSUME TypeOK, EdgeInv, ParentInv, WaitGraphAcyclic, NEW c \in Calls, WaitFor(c)
  PROVE  WaitGraphAcyclic'
<1> DEFINE w == parent[c]
           o == owners[target[c]]
<1>1. /\ w \in Calls /\ o \in CallOrNone
      /\ edges' = edges \cup {c}
      /\ UNCHANGED <<owners, parent, target>>
      /\ ~Reaches(target[c], w)
  BY DEF WaitFor, TypeOK, EdgeInv, CallOrNone, callVars
<1>2. \A p : WaitedOwners(p)' \subseteq WaitedOwners(p) \cup {o}
  BY <1>1 DEF WaitedOwners
<1>3. \A p \in Calls : p # w => WaitedOwners(p)' \subseteq WaitedOwners(p)
  BY <1>1 DEF WaitedOwners
<1> HIDE DEF w, o
<1>4. SUFFICES ASSUME NEW S \in SUBSET Calls, S # {},
                      \A p \in S : WaitedOwners(p)' \cap S # {}
               PROVE  FALSE
  BY DEF WaitGraphAcyclic
<1>5. CASE o \notin S
  <2>1. \A p \in S : WaitedOwners(p) \cap S # {}
    BY <1>2, <1>4, <1>5
  <2>q. QED
    BY <1>4, <2>1 DEF WaitGraphAcyclic
<1>6. CASE o \in S
  <2>1. PICK R \in SUBSET Calls : o \in R /\ ClosedUnderWaits(R) /\ w \notin R
    BY <1>1, <1>6, ConstantsAssumption DEF Reaches, o
  <2>2. ASSUME NEW p \in S \cap R
        PROVE  WaitedOwners(p) \cap (S \cap R) # {}
    <3>1. PICK q \in S : q \in WaitedOwners(p)
      BY <1>3, <1>4, <2>1, <2>2
    <3>2. q \in R
      BY <2>1, <2>2, <3>1 DEF ClosedUnderWaits
    <3>q. QED
      BY <3>1, <3>2
  <2>3. S \cap R \in SUBSET Calls /\ S \cap R # {}
    BY <1>6, <2>1
  <2>q. QED
    BY <2>2, <2>3 DEF WaitGraphAcyclic
<1>q. QED
  BY <1>5, <1>6

(* An attempt that becomes an owner waits for nothing yet, so it is on no  *)
(* cycle, and it only replaces an owner elsewhere.                         *)
LEMMA OwnAcyclic ==
  ASSUME TypeOK, EdgeInv, ParentInv, WaitGraphAcyclic, NEW c \in Calls, Own(c)
  PROVE  WaitGraphAcyclic'
<1>1. /\ owners' = [owners EXCEPT ![target[c]] = c]
      /\ UNCHANGED <<edges, parent, target>>
  BY DEF Own, callVars
<1>2. c \notin begun
  BY DEF Own, ParentInv, Begun, Owning
<1>3. \A e \in edges : parent[e] \in begun
  BY DEF EdgeInv, ParentInv, TypeOK
<1>4. WaitedOwners(c)' = {}
  BY <1>1, <1>2, <1>3 DEF WaitedOwners
<1>5. \A p \in Calls : WaitedOwners(p)' \subseteq WaitedOwners(p) \cup {c}
  BY <1>1 DEF WaitedOwners, TypeOK
<1>6. SUFFICES ASSUME NEW S \in SUBSET Calls, S # {},
                      \A p \in S : WaitedOwners(p)' \cap S # {}
               PROVE  FALSE
  BY DEF WaitGraphAcyclic
<1>7. c \notin S
  BY <1>4, <1>6
<1>8. \A p \in S : WaitedOwners(p) \cap S # {}
  BY <1>5, <1>6, <1>7
<1>q. QED
  BY <1>6, <1>8 DEF WaitGraphAcyclic

\* Every step of Next preserves it.
LEMMA AcyclicStep ==
  ASSUME TypeOK, EdgeInv, ParentInv, WaitGraphAcyclic, [Next]_vars
  PROVE  WaitGraphAcyclic'
<1> USE ConstantsAssumption
  DEF slotVars, lockVars, graphVars, callVars, runVars, Resting, Owning, Attempting,
      Holding, Waiting
<1>1. ASSUME NEW c \in Calls, NEW b \in Blocks, RunBlock(c, b)
      PROVE  WaitGraphAcyclic'
  <2>1. \A e \in edges : e # c
    BY <1>1 DEF RunBlock, Dispatch, EdgeInv
  <2>2. edges' = edges /\ owners' = owners
    BY <1>1 DEF RunBlock, Dispatch
  <2>3. \A e \in edges : parent'[e] = parent[e] /\ target'[e] = target[e]
    BY <1>1, <2>1 DEF RunBlock, Dispatch, Enter, TypeOK
  <2>q. QED
    BY <2>2, <2>3, FewerWaits
<1>2. ASSUME NEW c \in Calls, NEW b \in Blocks, InitBlock(c, b)
      PROVE  WaitGraphAcyclic'
  <2>1. \A e \in edges' : e # c /\ e \in edges
    BY <1>2 DEF InitBlock, Enter, EdgeInv
  <2>q. QED
    BY <1>2, <2>1, FewerWaits DEF InitBlock, Enter, TypeOK
<1>3. ASSUME NEW c \in Calls, NEW p \in Calls, NEW b \in Blocks, CallBlock(c, p, b)
      PROVE  WaitGraphAcyclic'
  <2>1. \A e \in edges : e # c
    BY <1>3 DEF CallBlock, Dispatch, EdgeInv
  <2>2. edges' = edges /\ owners' = owners
    BY <1>3 DEF CallBlock, Dispatch
  <2>3. \A e \in edges : parent'[e] = parent[e] /\ target'[e] = target[e]
    BY <1>3, <2>1 DEF CallBlock, Dispatch, Enter, TypeOK
  <2>q. QED
    BY <2>2, <2>3, FewerWaits
<1>4. ASSUME NEW c \in Calls, NEW p \in Calls, NEW b \in Blocks, DeferredCall(c, p, b)
      PROVE  WaitGraphAcyclic'
  <2>1. \A e \in edges : e # c
    BY <1>4 DEF DeferredCall, Dispatch, EdgeInv
  <2>2. edges' = edges /\ owners' = owners
    BY <1>4 DEF DeferredCall, Dispatch
  <2>3. \A e \in edges : parent'[e] = parent[e] /\ target'[e] = target[e]
    BY <1>4, <2>1 DEF DeferredCall, Dispatch, Enter, TypeOK
  <2>q. QED
    BY <2>2, <2>3, FewerWaits
<1>5. ASSUME NEW c \in Calls, Refuse(c)
      PROVE  WaitGraphAcyclic'
  <2>1. \A e \in edges' : e # c /\ e \in edges
    BY <1>5 DEF Refuse, EdgeInv
  <2>q. QED
    BY <1>5, <2>1, FewerWaits DEF Refuse, Return, TypeOK
<1>6. ASSUME NEW c \in Calls, Proceed(c)
      PROVE  WaitGraphAcyclic'
  BY <1>6, FewerWaits DEF Proceed
<1>7. ASSUME NEW c \in Calls, WaitFor(c)
      PROVE  WaitGraphAcyclic'
  BY <1>7, WaitForAcyclic
<1>8. ASSUME NEW c \in Calls, RefuseCycle(c)
      PROVE  WaitGraphAcyclic'
  <2>1. \A e \in edges' : e # c /\ e \in edges
    BY <1>8 DEF RefuseCycle, EdgeInv
  <2>q. QED
    BY <1>8, <2>1, FewerWaits DEF RefuseCycle, Return, TypeOK
<1>9. ASSUME NEW c \in Calls, Enqueue(c)
      PROVE  WaitGraphAcyclic'
  BY <1>9, FewerWaits DEF Enqueue
<1>10. ASSUME NEW c \in Calls, Acquire(c)
      PROVE  WaitGraphAcyclic'
  BY <1>10, FewerWaits DEF Acquire
<1>11. ASSUME NEW c \in Calls, TakeSettled(c)
      PROVE  WaitGraphAcyclic'
  BY <1>11, FewerWaits DEF TakeSettled
<1>12. ASSUME NEW c \in Calls, BeginAttempt(c)
      PROVE  WaitGraphAcyclic'
  BY <1>12, FewerWaits DEF BeginAttempt
<1>13. ASSUME NEW c \in Calls, Own(c)
      PROVE  WaitGraphAcyclic'
  BY <1>13, OwnAcyclic
<1>14. ASSUME NEW c \in Calls, DeadlinePasses(c)
      PROVE  WaitGraphAcyclic'
  BY <1>14, FewerWaits DEF DeadlinePasses
<1>15. ASSUME NEW c \in Calls, TimerFires(c)
      PROVE  WaitGraphAcyclic'
  BY <1>15, FewerWaits DEF TimerFires
<1>16. ASSUME NEW c \in Calls, NEW r \in Results, InitReturns(c, r)
      PROVE  WaitGraphAcyclic'
  BY <1>16, FewerWaits DEF InitReturns
<1>17. ASSUME NEW c \in Calls, Disown(c)
      PROVE  WaitGraphAcyclic'
  BY <1>17, FewerWaits DEF Disown
<1>18. ASSUME NEW c \in Calls, Record(c)
      PROVE  WaitGraphAcyclic'
  BY <1>18, FewerWaits DEF Record
<1>19. ASSUME NEW c \in Calls, Release(c)
      PROVE  WaitGraphAcyclic'
  BY <1>19, FewerWaits DEF Release
<1>20. ASSUME NEW c \in Calls, Serve(c)
      PROVE  WaitGraphAcyclic'
  BY <1>20, FewerWaits DEF Serve, DropWait
<1>21. ASSUME NEW c \in Calls, Leave(c)
      PROVE  WaitGraphAcyclic'
  <2>1. \A e \in edges' : e # c /\ e \in edges
    BY <1>21 DEF Leave, DropWait, EdgeInv
  <2>q. QED
    BY <1>21, <2>1, FewerWaits DEF Leave, DropWait, Return, TypeOK
<1>22. ASSUME NEW c \in Calls, HandleEnds(c)
      PROVE  WaitGraphAcyclic'
  <2>1. \A e \in edges' : e # c /\ e \in edges
    BY <1>22 DEF HandleEnds, EdgeInv
  <2>q. QED
    BY <1>22, <2>1, FewerWaits DEF HandleEnds, Return, TypeOK
<1>23. ASSUME NEW c \in Calls, DropQueued(c)
      PROVE  WaitGraphAcyclic'
  BY <1>23, FewerWaits DEF DropQueued, Dropped
<1>24. ASSUME NEW c \in Calls, DropLocked(c)
      PROVE  WaitGraphAcyclic'
  BY <1>24, FewerWaits DEF DropLocked, Dropped
<1>25. ASSUME NEW c \in Calls, DropRunning(c)
      PROVE  WaitGraphAcyclic'
  BY <1>25, FewerWaits DEF DropRunning, Dropped
<1>26. ASSUME NEW c \in Calls, DropOwner(c)
      PROVE  WaitGraphAcyclic'
  BY <1>26, FewerWaits DEF DropOwner
<1>27. ASSUME NEW c \in Calls, Abandon(c)
      PROVE  WaitGraphAcyclic'
  BY <1>27, FewerWaits DEF Abandon
<1>28. ASSUME NEW c \in Calls, StopRequest(c)
      PROVE  WaitGraphAcyclic'
  BY <1>28, FewerWaits DEF StopRequest
<1>29. ASSUME NEW c \in Calls, Forget(c)
      PROVE  WaitGraphAcyclic'
  <2>1. \A e \in edges' : e # c /\ e \in edges
    BY <1>29 DEF Forget, EdgeInv
  <2>q. QED
    BY <1>29, <2>1, FewerWaits DEF Forget, TypeOK
<1>30. ASSUME NEW b \in Blocks, Elapse(b)
      PROVE  WaitGraphAcyclic'
  BY <1>30, FewerWaits DEF Elapse
<1>31. CASE UNCHANGED vars
  BY <1>31, FewerWaits DEF vars
<1> HIDE
  DEF slotVars, lockVars, graphVars, callVars, runVars, Resting, Owning, Attempting,
      Holding, Waiting
<1>q. QED
  BY <1>1, <1>2, <1>3, <1>4, <1>5, <1>6, <1>7, <1>8, <1>9, <1>10, <1>11, <1>12,
     <1>13, <1>14, <1>15, <1>16, <1>17, <1>18, <1>19, <1>20, <1>21, <1>22, <1>23, <1>24,
     <1>25, <1>26, <1>27, <1>28, <1>29, <1>30, <1>31
  DEF Next, Step, Drop

-----------------------------------------------------------------------------
(* The invariant *)

\* The initial state satisfies the invariant.
LEMMA InitInv ==
  ASSUME Init
  PROVE  IndInv
<1> USE ConstantsAssumption
    DEF Init, Resting, Awaiting, Owning, Attempting, Holding, Waiting, States, CallOrNone
<1>1. TypeOK
  <2>1. AnyBlock \in Blocks
    BY DEF AnyBlock
  <2>q. QED
    BY <2>1 DEF TypeOK, Outcomes, Backoffs, Answers
<1>2. LockInv /\ OwnerInv /\ EdgeInv
  BY DEF LockInv, OwnerInv, EdgeInv
<1>3. ParentInv
  BY DEF ParentInv, Begun
<1>4. SlotInv
  BY DEF SlotInv, InitOnlyWhenUnsettled
<1>5. AnswerInv /\ BudgetInv /\ RequestInv
  BY DEF AnswerInv, ServedOnlyReady, BudgetInv, RequestInv, RequestsHoldNoLock
<1>6. WaitGraphAcyclic
  BY DEF WaitGraphAcyclic, WaitedOwners
<1>q. QED
  BY <1>1, <1>2, <1>3, <1>4, <1>5, <1>6 DEF IndInv

\* The invariant is inductive.
LEMMA InvStep ==
  ASSUME IndInv, [Next]_vars
  PROVE  IndInv'
<1>1. TypeOK'
  BY TypeStep DEF IndInv
<1>2. LockInv'
  BY LockStep DEF IndInv
<1>3. OwnerInv'
  BY OwnerStep DEF IndInv
<1>4. EdgeInv'
  BY EdgeStep DEF IndInv
<1>5. ParentInv'
  BY ParentStep DEF IndInv
<1>6. SlotInv'
  BY SlotStep DEF IndInv
<1>7. AnswerInv'
  BY AnswerStep DEF IndInv
<1>8. BudgetInv'
  BY BudgetStep DEF IndInv
<1>9. RequestInv'
  BY RequestStep DEF IndInv
<1>10. WaitGraphAcyclic'
  BY AcyclicStep DEF IndInv
<1>q. QED
  BY <1>1, <1>2, <1>3, <1>4, <1>5, <1>6, <1>7, <1>8, <1>9, <1>10 DEF IndInv

\* Every reachable state of the pipeline satisfies the invariant.
THEOREM Invariance == Spec => []IndInv
<1>1. Init => IndInv
  BY InitInv
<1>2. IndInv /\ [Next]_vars => IndInv'
  BY InvStep
<1>q. QED
  BY <1>1, <1>2, PTL DEF Spec

-----------------------------------------------------------------------------
(* What follows from it *)

\* Every variable keeps its type.
THEOREM TypeCorrectness == Spec => []TypeOK
<1>1. IndInv => TypeOK
  BY DEF IndInv
<1>q. QED
  BY <1>1, Invariance, PTL

(* A circle of blocked attempts is a cycle of the recorded graph: each of  *)
(* its members is running, hence the recorded owner of the lock it holds,  *)
(* and each awaited call that needs such a lock has recorded its wait.     *)
LEMMA NoDeadlockFromGraph ==
  ASSUME IndInv
  PROVE  NoInitDeadlock
<1> USE DEF IndInv
<1>1. SUFFICES ASSUME NEW S \in SUBSET Calls, S # {},
                      \A p \in S : \E q \in S : Blocked(p, q)
               PROVE  FALSE
  BY DEF NoInitDeadlock
<1>2. ASSUME NEW p \in S
      PROVE  pc[p] \in Owning
  BY <1>1, <1>2 DEF Blocked, ParentInv, Owning
<1>3. ASSUME NEW p \in S
      PROVE  WaitedOwners(p) \cap S # {}
  <2>1. PICK q \in S, c \in Calls :
          parent[c] = p /\ pc[c] \in Waiting /\ holder[target[c]] = q
    BY <1>1, <1>3 DEF Blocked
  <2>2. c \in edges
    BY <1>3, <2>1, ConstantsAssumption DEF EdgeInv
  <2>3. target[q] = target[c]
    BY <2>1, ConstantsAssumption DEF LockInv, TypeOK
  <2>4. owners[target[c]] = q
    BY <1>2, <2>3 DEF OwnerInv
  <2>q. QED
    BY <2>1, <2>2, <2>4 DEF WaitedOwners
<1>q. QED
  BY <1>1, <1>3 DEF WaitGraphAcyclic

(* No circle of Inits ever waits on its own attempt locks, for any number  *)
(* of blocks and concurrent dispatches and any pattern of calls between    *)
(* Inits: what InitWaits::wait_for refuses is enough.                      *)
THEOREM DeadlockFreedom == Spec => []NoInitDeadlock
<1>1. IndInv => NoInitDeadlock
  BY NoDeadlockFromGraph
<1>q. QED
  BY <1>1, Invariance, PTL

\* The graph that wait_for walks never closes, deferred waits included.
THEOREM GraphAcyclic == Spec => []WaitGraphAcyclic
<1>1. IndInv => WaitGraphAcyclic
  BY DEF IndInv
<1>q. QED
  BY <1>1, Invariance, PTL

\* At most one Init of a block runs at a time, and the graph's owner of the
\* block is the call that holds its attempt lock.
THEOREM MutualExclusion == Spec => []OneAttemptPerBlock
<1>1. IndInv => OneAttemptPerBlock
  <2>1. SUFFICES ASSUME IndInv
                 PROVE  OneAttemptPerBlock
    OBVIOUS
  <2>2. \A c \in Calls : pc[c] \in Attempting => holder[target[c]] = c
    BY <2>1 DEF IndInv, LockInv, Holding
  <2>3. \A b \in Blocks : owners[b] # NoCall => holder[b] = owners[b]
    <3>1. SUFFICES ASSUME NEW b \in Blocks, owners[b] # NoCall
                   PROVE  holder[b] = owners[b]
      OBVIOUS
    <3>2. /\ owners[b] \in Calls
          /\ pc[owners[b]] \in Owning
          /\ target[owners[b]] = b
      BY <2>1, <3>1 DEF IndInv, TypeOK, OwnerInv, CallOrNone
    <3>q. QED
      BY <2>2, <3>2 DEF Attempting
  <2>q. QED
    BY <2>2, <2>3 DEF OneAttemptPerBlock
<1>q. QED
  BY <1>1, Invariance, PTL

\* A block that is ready, failed for good or backing off is never
\* initialised: get_or_init's second look at the slot is enough.
THEOREM InitAtMostOnce == Spec => []InitOnlyWhenUnsettled
<1>1. IndInv => InitOnlyWhenUnsettled
  BY DEF IndInv, SlotInv
<1>q. QED
  BY <1>1, Invariance, PTL

\* Health reads see a block in flight exactly while an attempt is under way.
THEOREM InFlightIsExact == Spec => []InFlightExact
<1>1. IndInv => InFlightExact
  <2>1. SUFFICES ASSUME IndInv, NEW b \in Blocks
                 PROVE  inFlight[b] <=> \E c \in Calls : target[c] = b /\ pc[c] \in Attempting
    BY DEF InFlightExact
  <2>2. ASSUME inFlight[b]
        PROVE  \E c \in Calls : target[c] = b /\ pc[c] \in Attempting
    BY <2>1, <2>2 DEF IndInv, SlotInv, LockInv, TypeOK, CallOrNone
  <2>3. ASSUME NEW c \in Calls, target[c] = b, pc[c] \in Attempting
        PROVE  inFlight[b]
    BY <2>1, <2>3, ConstantsAssumption DEF IndInv, SlotInv, LockInv, Holding
  <2>q. QED
    BY <2>2, <2>3
<1>q. QED
  BY <1>1, Invariance, PTL

\* No handler runs on a block whose Init has not succeeded.
THEOREM HandlersRunOnReadyBlocks == Spec => []ServedOnlyReady
<1>1. IndInv => ServedOnlyReady
  BY DEF IndInv, AnswerInv
<1>q. QED
  BY <1>1, Invariance, PTL

\* Under InitWait::Refuse no request holds, or queues for, an attempt lock.
THEOREM RefusedRequestsHoldNoLock == Spec => []RequestsHoldNoLock
<1>1. IndInv => RequestsHoldNoLock
  BY DEF IndInv, RequestInv
<1>q. QED
  BY <1>1, Invariance, PTL

-----------------------------------------------------------------------------
(* What may happen to a slot *)

\* The actions that touch a slot at all.
LEMMA SlotMoves ==
  ASSUME [Next]_vars
  PROVE  \/ UNCHANGED slotVars
         \/ \E c \in Calls : BeginAttempt(c) \/ Record(c) \/ Abandon(c)
         \/ \E b \in Blocks : Elapse(b)
<1>1. ASSUME NEW c \in Calls, NEW b \in Blocks, RunBlock(c, b) \/ InitBlock(c, b)
      PROVE  UNCHANGED slotVars
  BY <1>1 DEF RunBlock, InitBlock, Dispatch
<1>2. ASSUME NEW c \in Calls, NEW p \in Calls, NEW b \in Blocks,
             CallBlock(c, p, b) \/ DeferredCall(c, p, b)
      PROVE  UNCHANGED slotVars
  BY <1>2 DEF CallBlock, DeferredCall, Dispatch
<1>3. ASSUME NEW c \in Calls, Step(c), ~BeginAttempt(c), ~Record(c), ~Abandon(c)
      PROVE  UNCHANGED slotVars
  BY <1>3 DEF Step, Refuse, Proceed, WaitFor, RefuseCycle, Enqueue, Acquire, TakeSettled,
       Own, Disown, Release, Serve, Leave, DropWait, DropOwner
<1>4. ASSUME NEW c \in Calls, DeadlinePasses(c) \/ TimerFires(c) \/ HandleEnds(c)
      PROVE  UNCHANGED slotVars
  BY <1>4 DEF DeadlinePasses, TimerFires, HandleEnds
<1>5. ASSUME NEW c \in Calls, NEW r \in Results, InitReturns(c, r)
      PROVE  UNCHANGED slotVars
  BY <1>5 DEF InitReturns
<1>6. ASSUME NEW c \in Calls, Drop(c) \/ StopRequest(c) \/ Forget(c)
      PROVE  UNCHANGED slotVars
  BY <1>6 DEF Drop, DropQueued, DropLocked, DropRunning, Dropped, StopRequest, Forget
<1>7. CASE UNCHANGED vars
  BY <1>7 DEF vars
<1>q. QED
  BY <1>1, <1>2, <1>3, <1>4, <1>5, <1>6, <1>7 DEF Next, Step

(* A recorded outcome is final: only Record writes one, under the attempt  *)
(* lock and after a look at the slot that found it unsettled.              *)
THEOREM OutcomesAreFinal == Spec => SettledForGood
<1>1. ASSUME IndInv, [Next]_vars
      PROVE  \A b \in Blocks : outcome[b] # "none" => outcome'[b] = outcome[b]
  <2>t. outcome \in [Blocks -> Outcomes] /\ target \in [Calls -> Blocks]
    BY <1>1 DEF IndInv, TypeOK
  <2>1. CASE UNCHANGED slotVars
    BY <2>1 DEF slotVars
  <2>2. ASSUME NEW c \in Calls, BeginAttempt(c) \/ Abandon(c)
        PROVE  UNCHANGED outcome
    BY <2>2 DEF BeginAttempt, Abandon
  <2>3. ASSUME NEW c \in Calls, Record(c)
        PROVE  \A b \in Blocks : outcome[b] # "none" => outcome'[b] = outcome[b]
    <3>1. outcome[target[c]] = "none"
      BY <1>1, <2>3 DEF Record, IndInv, SlotInv, InitOnlyWhenUnsettled, Settled, Attempting
    <3>q. QED
      BY <2>t, <2>3, <3>1 DEF Record
  <2>4. ASSUME NEW b \in Blocks, Elapse(b)
        PROVE  UNCHANGED outcome
    BY <2>4 DEF Elapse
  <2>q. QED
    BY <1>1, <2>1, <2>2, <2>3, <2>4, SlotMoves
<1>q. QED
  BY <1>1, Invariance, PTL DEF Spec, SettledForGood

(* No attempt that outlived its budget fails its block for good.           *)
THEOREM TimeoutsAreTransient == Spec => TimeoutIsTransient
<1>1. ASSUME IndInv, [Next]_vars
      PROVE  \A b \in Blocks :
               outcome[b] = "none" /\ outcome'[b] = "permanent" =>
                 ~(holder[b] \in Calls /\ late[holder[b]])
  <2>t. outcome \in [Blocks -> Outcomes] /\ target \in [Calls -> Blocks]
    BY <1>1 DEF IndInv, TypeOK
  <2>1. CASE UNCHANGED slotVars
    BY <2>1 DEF slotVars
  <2>2. ASSUME NEW c \in Calls, BeginAttempt(c) \/ Abandon(c)
        PROVE  UNCHANGED outcome
    BY <2>2 DEF BeginAttempt, Abandon
  <2>3. ASSUME NEW c \in Calls, Record(c), NEW b \in Blocks,
               outcome[b] = "none", outcome'[b] = "permanent"
        PROVE  ~late[holder[b]]
    <3>1. b = target[c] /\ answer[c] = "permanent"
      BY <2>t, <2>3 DEF Record
    <3>2. holder[b] = c
      BY <1>1, <2>3, <3>1 DEF Record, IndInv, LockInv, Holding, Attempting
    <3>3. ~late[c]
      BY <1>1, <2>3, <3>1 DEF Record, IndInv, BudgetInv
    <3>q. QED
      BY <3>2, <3>3
  <2>4. ASSUME NEW b \in Blocks, Elapse(b)
        PROVE  UNCHANGED outcome
    BY <2>4 DEF Elapse
  <2>q. QED
    BY <1>1, <2>1, <2>2, <2>3, <2>4, SlotMoves
<1>q. QED
  BY <1>1, Invariance, PTL DEF Spec, TimeoutIsTransient

-----------------------------------------------------------------------------
(* The pipeline implements LazyInit *)

\* What LazyInit is told of the blocks.
Reported == [x \in Blocks |-> InitState(x)]
FailedLast == [x \in Blocks |-> backoff[x] # "none"]

\* Every block but b keeps its slot.
OthersKeepSlot(b) ==
  \A x \in Blocks \ {b} :
    outcome'[x] = outcome[x] /\ backoff'[x] = backoff[x] /\ inFlight'[x] = inFlight[x]

\* A step on the slot of one block moves its reported state alone.
LEMMA OneBlockMoves ==
  ASSUME NEW b \in Blocks, OthersKeepSlot(b)
  PROVE  /\ Reported' = [Reported EXCEPT ![b] = InitState(b)']
         /\ FailedLast' = [FailedLast EXCEPT ![b] = (backoff'[b] # "none")]
<1>1. \A x \in Blocks \ {b} : InitState(x)' = InitState(x)
  BY DEF InitState, OthersKeepSlot
<1>2. Reported' = [Reported EXCEPT ![b] = InitState(b)']
  BY <1>1 DEF Reported
<1>3. FailedLast' = [FailedLast EXCEPT ![b] = (backoff'[b] # "none")]
  BY DEF FailedLast, OthersKeepSlot
<1>q. QED
  BY <1>2, <1>3

\* ... and what LazyInit remembers of it only if its backoff comes or goes.
LEMMA OneBlockRemembers ==
  ASSUME NEW b \in Blocks, OthersKeepSlot(b), backoff'[b] # "none" <=> backoff[b] # "none"
  PROVE  FailedLast' = FailedLast
<1>1. \A x \in Blocks : (backoff'[x] # "none") = (backoff[x] # "none")
  BY DEF OthersKeepSlot
<1>q. QED
  BY <1>1 DEF FailedLast

\* LazyInit's step of one block, in terms of the reports.
LEMMA HealthMove ==
  ASSUME NEW b \in Blocks, NEW to, NEW failure \in BOOLEAN,
         OthersKeepSlot(b), InitState(b)' = to, failure <=> backoff'[b] # "none"
  PROVE  /\ Health!Move(b, InitState(b), to)
         /\ Health!Note(b, failure)
<1>1. Reported' = [Reported EXCEPT ![b] = to] /\ Reported[b] = InitState(b)
  BY OneBlockMoves DEF Reported
<1>2. FailedLast' = [FailedLast EXCEPT ![b] = failure]
  <2>1. (backoff'[b] # "none") = failure
    OBVIOUS
  <2>q. QED
    BY <2>1, OneBlockMoves
<1>q. QED
  BY <1>1, <1>2 DEF Health!Move, Health!Note, Reported, FailedLast

(* Every step of the pipeline is a step of the reported life cycle, or     *)
(* leaves the reports alone.                                               *)
LEMMA HealthStep ==
  ASSUME IndInv, [Next]_vars
  PROVE  Health!Next \/ UNCHANGED <<Reported, FailedLast>>
<1>t. /\ outcome \in [Blocks -> Outcomes]
      /\ backoff \in [Blocks -> Backoffs]
      /\ inFlight \in [Blocks -> BOOLEAN]
      /\ target \in [Calls -> Blocks]
  BY DEF IndInv, TypeOK
<1>1. CASE UNCHANGED slotVars
  BY <1>1 DEF slotVars, InitState, Reported, FailedLast
<1>2. ASSUME NEW c \in Calls, NEW b \in Blocks, target[c] = b, BeginAttempt(c)
      PROVE  Health!Next
  <2>1. /\ outcome[b] = "none" /\ backoff[b] \in {"none", "due"}
        /\ inFlight[b] = FALSE
    <3>1. holder[b] = c /\ pc[c] \notin Attempting
      BY <1>2 DEF BeginAttempt, IndInv, LockInv, Holding, Attempting, Owning
    <3>q. QED
      BY <1>t, <1>2, <3>1 DEF BeginAttempt, IndInv, SlotInv, Settled, Backoffs
  <2>2. InitState(b)' = "Initializing" /\ InitState(b) = Health!AtRest(b)
    <3>1. InitState(b)' = "Initializing"
      BY <1>t, <1>2, <2>1 DEF BeginAttempt, InitState
    <3>2. InitState(b) = IF backoff[b] # "none" THEN "RetryDue" ELSE "NotInitialized"
      BY <2>1 DEF InitState
    <3>q. QED
      BY <3>1, <3>2 DEF Health!AtRest
  <2>3. OthersKeepSlot(b) /\ backoff'[b] = backoff[b]
    BY <1>t, <1>2 DEF BeginAttempt, OthersKeepSlot
  <2>4. Health!Start(b)
    BY <2>2, <2>3, HealthMove, OneBlockRemembers DEF Health!Start, FailedLast
  <2>q. QED
    BY <2>4 DEF Health!Next
<1>3. ASSUME NEW c \in Calls, NEW b \in Blocks, target[c] = b, Record(c) \/ Abandon(c)
      PROVE  Health!Next
  <2>1. /\ outcome[b] = "none" /\ backoff[b] \in {"none", "due"}
        /\ inFlight[b] = TRUE
    <3>1. pc[c] \in Attempting /\ pc[c] \in Holding
      BY <1>3 DEF Record, Abandon, Attempting, Holding
    <3>2. holder[b] = c /\ c # NoCall
      BY <1>3, <3>1, ConstantsAssumption DEF IndInv, LockInv
    <3>q. QED
      BY <1>t, <1>3, <3>1, <3>2
        DEF IndInv, SlotInv, InitOnlyWhenUnsettled, Settled, Backoffs
  <2>2. InitState(b) = "Initializing"
    BY <2>1 DEF InitState
  <2>3. OthersKeepSlot(b)
    BY <1>t, <1>3 DEF Record, Abandon, OthersKeepSlot
  <2>4. CASE Abandon(c)
    <3>1. InitState(b)' = Health!AtRest(b)
      <4>1. InitState(b)' = IF backoff[b] # "none" THEN "RetryDue" ELSE "NotInitialized"
        BY <1>t, <1>3, <2>1, <2>4 DEF Abandon, InitState
      <4>q. QED
        BY <4>1 DEF Health!AtRest
    <3>2. backoff'[b] = backoff[b]
      BY <2>4 DEF Abandon
    <3>3. Health!Abandon(b)
      BY <2>2, <2>3, <3>1, <3>2, HealthMove, OneBlockRemembers DEF Health!Abandon, FailedLast
    <3>q. QED
      BY <3>3 DEF Health!Next
  <2>5. CASE Record(c)
    <3>1. answer[c] \in Results
      BY <2>5 DEF Record, IndInv, AnswerInv
    <3>2. CASE answer[c] = "ok"
      <4>1. InitState(b)' = "Ready" /\ backoff'[b] = "none"
        BY <1>t, <1>3, <2>5, <3>2 DEF Record, InitState
      <4>2. Health!Succeed(b)
        BY <2>2, <2>3, <4>1, HealthMove DEF Health!Succeed
      <4>q. QED
        BY <4>2 DEF Health!Next
    <3>3. CASE answer[c] = "permanent"
      <4>1. InitState(b)' = "Failed" /\ backoff'[b] = "none"
        BY <1>t, <1>3, <2>5, <3>3 DEF Record, InitState
      <4>2. Health!Fail(b)
        BY <2>2, <2>3, <4>1, HealthMove DEF Health!Fail
      <4>q. QED
        BY <4>2 DEF Health!Next
    <3>4. CASE answer[c] = "transient"
      <4>1. InitState(b)' = "Retrying" /\ backoff'[b] = "waiting"
        BY <1>t, <1>3, <2>1, <2>5, <3>4 DEF Record, InitState
      <4>2. Health!BackOff(b)
        BY <2>2, <2>3, <4>1, HealthMove DEF Health!BackOff
      <4>q. QED
        BY <4>2 DEF Health!Next
    <3>q. QED
      BY <3>1, <3>2, <3>3, <3>4 DEF Results
  <2>q. QED
    BY <1>3, <2>4, <2>5
<1>4. ASSUME NEW b \in Blocks, Elapse(b)
      PROVE  Health!Next \/ UNCHANGED <<Reported, FailedLast>>
  <2>1. /\ OthersKeepSlot(b)
        /\ backoff[b] = "waiting" /\ backoff'[b] = "due"
    BY <1>t, <1>4 DEF Elapse, OthersKeepSlot
  <2>m. FailedLast' = FailedLast
    BY <2>1, OneBlockRemembers
  <2>2. CASE outcome[b] = "none"
    \* The window was open, so no attempt is in flight.
    <3>1. inFlight[b] = FALSE
      <4>1. ASSUME holder[b] # NoCall, pc[holder[b]] \in Attempting
            PROVE  FALSE
        <5>1. holder[b] \in Calls /\ target[holder[b]] = b
          BY <4>1 DEF IndInv, TypeOK, CallOrNone, LockInv
        <5>q. QED
          BY <1>4, <4>1, <5>1 DEF Elapse, IndInv, SlotInv, InitOnlyWhenUnsettled, Settled
      <4>q. QED
        BY <1>t, <4>1 DEF IndInv, SlotInv
    <3>2. InitState(b) = "Retrying" /\ InitState(b)' = "RetryDue"
      BY <1>t, <1>4, <2>1, <2>2, <3>1 DEF Elapse, InitState
    <3>3. Health!Elapse(b)
      BY <2>1, <2>m, <3>2, HealthMove DEF Health!Elapse, FailedLast
    <3>q. QED
      BY <3>3 DEF Health!Next
  <2>3. CASE outcome[b] # "none"
    <3>1. InitState(b)' = InitState(b)
      BY <1>t, <1>4, <2>3 DEF Elapse, InitState, Outcomes
    <3>2. Reported' = Reported
      BY <2>1, <3>1, OneBlockMoves DEF Reported
    <3>q. QED
      BY <2>m, <3>2
  <2>q. QED
    BY <2>2, <2>3
<1>q. QED
  BY <1>t, <1>1, <1>2, <1>3, <1>4, SlotMoves

(* The pipeline implements LazyInit: whatever the interleaving, a health   *)
(* probe sees every block walk the promised life cycle, a transient        *)
(* failure reported until an attempt settles the block.                    *)
THEOREM PipelineImplementsLazyInit == Spec => ReportsLifeCycle
<1>1. ASSUME Init
      PROVE  Health!Init
  <2>1. \A b \in Blocks : InitState(b) = "NotInitialized"
    BY <1>1 DEF Init, InitState
  <2>2. \A b \in Blocks : (backoff[b] # "none") = FALSE
    BY <1>1 DEF Init
  <2>q. QED
    BY <2>1, <2>2 DEF Health!Init
<1>2. ASSUME IndInv, [Next]_vars
      PROVE  Health!Next \/ UNCHANGED Health!vars
  <2>1. CASE Health!Next
    BY <2>1
  <2>2. CASE UNCHANGED <<Reported, FailedLast>>
    BY <2>2 DEF Health!vars, Reported, FailedLast
  <2>q. QED
    BY <1>2, <2>1, <2>2, HealthStep
<1>q. QED
  BY <1>1, <1>2, Invariance, PTL DEF Spec, ReportsLifeCycle, Health!Spec
=============================================================================
