------------------------- MODULE InitAttemptRecord --------------------------
(***************************************************************************)
(* What an init attempt's database calls saw (wafer-block/init_attempt.rs):*)
(* one record per attempt, nested like the attempts, each with a mutex of  *)
(* its own.  Database calls, made on any thread by the attempt or by work  *)
(* it left behind, are counted in flight and note their failures in the    *)
(* record they run under and in every record around it; the attempt reads  *)
(* the record when its budget runs out and closes it when it settles.      *)
(* One action per mutex section, so that other threads run between the     *)
(* records of one lineage.                                                 *)
(***************************************************************************)
EXTENDS Naturals, FiniteSets, FiniteSetsExt

CONSTANTS
  Records,    \* attempts, and their records
  Parent,     \* record -> the record it runs inside, or NoRecord
  Calls,      \* database calls
  Failures,   \* the answers a call can fail with
  NoRecord,
  NoActor     \* a free mutex

Actors == Records \cup Calls

\* DatabaseAnswer in order of precedence, 0 for none.
Contended == 1
CallBudgetExhausted == 2
Unavailable == 3

ASSUME FailuresAssumption == Failures \subseteq {Contended, CallBudgetExhausted, Unavailable}

VARIABLES
  worst, inFlight, closed,   \* RecordState
  lock,      \* record -> the actor holding its mutex across several steps
  pc,        \* where calls and attempts stand
  rec,       \* DatabaseCall.record; an attempt's own record
  counted,   \* DatabaseCall.counted
  noted,     \* the answer being noted
  at         \* the next record of the lineage to visit

vars == <<worst, inFlight, closed, lock, pc, rec, counted, noted, at>>

AnyRecord == CHOOSE r \in Records : Parent[r] = NoRecord

Init ==
  /\ worst    = [r \in Records |-> 0]
  /\ inFlight = [r \in Records |-> 0]
  /\ closed   = [r \in Records |-> FALSE]
  /\ lock     = [r \in Records |-> NoActor]
  /\ pc       = [x \in Actors |-> IF x \in Records THEN "running" ELSE "idle"]
  /\ rec      = [x \in Actors |-> IF x \in Records THEN x ELSE AnyRecord]
  /\ counted  = [c \in Calls |-> FALSE]
  /\ noted    = [x \in Actors |-> 0]
  /\ at       = [x \in Actors |-> NoRecord]

-----------------------------------------------------------------------------
(* update_lineage, for the two updates there are *)

\* The update applied to an open record: a call in flight, or an answer.
Update(kind, answer, r) ==
  /\ inFlight' = [inFlight EXCEPT ![r] = IF kind = "calling" THEN @ + 1 ELSE @]
  /\ worst'    = [worst EXCEPT ![r] = IF kind = "noting" THEN Max({@, answer}) ELSE @]

\* Mutant: the own record's mutex is not held across the outer records.
BeginUpdateUnlocked(x, r, kind, answer) ==
  /\ lock[r] = NoActor /\ ~closed[r]
  /\ Update(kind, answer, r)
  /\ pc' = [pc EXCEPT ![x] = kind]
  /\ at' = [at EXCEPT ![x] = Parent[r]]
  /\ UNCHANGED <<closed, lock>>

\* Mutant: the records around it are not told.
BeginUpdateOwnOnly(x, r, kind, answer) ==
  /\ lock[r] = NoActor /\ ~closed[r]
  /\ Update(kind, answer, r)
  /\ lock' = [lock EXCEPT ![r] = x]
  /\ pc' = [pc EXCEPT ![x] = kind]
  /\ at' = [at EXCEPT ![x] = NoRecord]
  /\ UNCHANGED closed

\* The own record is locked, found open and updated; the lock stays.
BeginUpdate(x, r, kind, answer) ==
  /\ lock[r] = NoActor /\ ~closed[r]
  /\ Update(kind, answer, r)
  /\ lock' = [lock EXCEPT ![r] = x]
  /\ pc' = [pc EXCEPT ![x] = kind]
  /\ at' = [at EXCEPT ![x] = Parent[r]]
  /\ UNCHANGED closed

\* The loop over the outer records.
UpdateOuter(x) ==
  /\ pc[x] \in {"calling", "noting"} /\ at[x] # NoRecord
  /\ lock[at[x]] = NoActor
  /\ \/ ~closed[at[x]] /\ Update(pc[x], noted[x], at[x])
     \/ closed[at[x]] /\ UNCHANGED <<inFlight, worst>>
  /\ at' = [at EXCEPT ![x] = Parent[@]]
  /\ UNCHANGED <<closed, lock, pc, rec, counted, noted>>

\* The own record's guard drops.
EndUpdate(x) ==
  /\ pc[x] \in {"calling", "noting"} /\ at[x] = NoRecord
  /\ lock' = [lock EXCEPT ![rec[x]] = NoActor]
  /\ pc' = [pc EXCEPT ![x] = IF x \in Records THEN "settling"
                             ELSE IF pc[x] = "calling" THEN "waiting" ELSE "answered"]
  /\ noted' = [noted EXCEPT ![x] = 0]
  /\ UNCHANGED <<worst, inFlight, closed, rec, counted, at>>

-----------------------------------------------------------------------------
(* Database calls *)

\* InitAttemptRecord::call on an open record ...
Call(c, r) ==
  /\ pc[c] = "idle"
  /\ BeginUpdate(c, r, "calling", 0)
  /\ rec' = [rec EXCEPT ![c] = r]
  /\ counted' = [counted EXCEPT ![c] = TRUE]
  /\ UNCHANGED noted

\* Mutant: a call through a settled attempt gives back what it never took.
CallSettledCounted(c, r) ==
  /\ pc[c] = "idle"
  /\ lock[r] = NoActor /\ closed[r]
  /\ rec' = [rec EXCEPT ![c] = r]
  /\ counted' = [counted EXCEPT ![c] = TRUE]
  /\ pc' = [pc EXCEPT ![c] = "waiting"]
  /\ UNCHANGED <<worst, inFlight, closed, lock, noted, at>>

\* ... and on a closed one, by work kept past its attempt.
CallSettled(c, r) ==
  /\ pc[c] = "idle"
  /\ lock[r] = NoActor /\ closed[r]
  /\ rec' = [rec EXCEPT ![c] = r]
  /\ counted' = [counted EXCEPT ![c] = FALSE]
  /\ pc' = [pc EXCEPT ![c] = "waiting"]
  /\ UNCHANGED <<worst, inFlight, closed, lock, noted, at>>

\* The call fails: InitAttemptRecord::note, while the call is still counted.
Note(c, answer) ==
  /\ pc[c] = "waiting"
  /\ \/ BeginUpdate(c, rec[c], "noting", answer) /\ noted' = [noted EXCEPT ![c] = answer]
     \/ /\ lock[rec[c]] = NoActor /\ closed[rec[c]]
        /\ pc' = [pc EXCEPT ![c] = "answered"]
        /\ UNCHANGED <<worst, inFlight, closed, lock, noted, at>>
  /\ UNCHANGED <<rec, counted>>

(* DatabaseCall::drop: the call was answered, or its future was dropped.   *)
(* A call that was counted is given back to every record of its lineage.   *)
Answered(c) ==
  /\ pc[c] \in {"waiting", "answered"}
  /\ pc' = [pc EXCEPT ![c] = IF counted[c] THEN "dropping" ELSE "idle"]
  /\ at' = [at EXCEPT ![c] = IF counted[c] THEN rec[c] ELSE NoRecord]
  /\ rec' = [rec EXCEPT ![c] = AnyRecord]
  /\ counted' = [counted EXCEPT ![c] = FALSE]
  /\ UNCHANGED <<worst, inFlight, closed, lock, noted>>

GiveBack(c) ==
  /\ pc[c] = "dropping"
  /\ lock[at[c]] = NoActor
  /\ inFlight' = [inFlight EXCEPT ![at[c]] = IF @ = 0 THEN 0 ELSE @ - 1]
  /\ at' = [at EXCEPT ![c] = Parent[@]]
  /\ pc' = [pc EXCEPT ![c] = IF Parent[at[c]] = NoRecord THEN "idle" ELSE @]
  /\ UNCHANGED <<worst, closed, lock, rec, counted, noted>>

-----------------------------------------------------------------------------
(* The attempt: the end of run_init_pipeline's closure *)

\* Init returns within the budget.
Returns(r) ==
  /\ pc[r] = "running"
  /\ pc' = [pc EXCEPT ![r] = "settling"]
  /\ UNCHANGED <<worst, inFlight, closed, lock, rec, counted, noted, at>>

\* The budget's timer fires; note_unanswered looks for calls in flight ...
Expire(r) ==
  /\ pc[r] = "running"
  /\ lock[r] = NoActor
  /\ pc' = [pc EXCEPT ![r] = IF inFlight[r] > 0 THEN "unanswered" ELSE "settling"]
  /\ UNCHANGED <<worst, inFlight, closed, lock, rec, counted, noted, at>>

\* ... and, in a second section, notes the database as unavailable.
NoteUnanswered(r) ==
  /\ pc[r] = "unanswered"
  /\ BeginUpdate(r, r, "noting", Unavailable)
  /\ noted' = [noted EXCEPT ![r] = Unavailable]
  /\ UNCHANGED <<rec, counted>>

\* settle_attempt closes the record; how it words the outcome by what the
\* record saw is left out.
Close(r) ==
  /\ pc[r] = "settling"
  /\ lock[r] = NoActor
  /\ closed' = [closed EXCEPT ![r] = TRUE]
  /\ pc' = [pc EXCEPT ![r] = "settled"]
  /\ UNCHANGED <<worst, inFlight, lock, rec, counted, noted, at>>

\* The attempt's future is dropped: its record is never closed.
Cancel(r) ==
  /\ pc[r] = "running"
  /\ pc' = [pc EXCEPT ![r] = "cancelled"]
  /\ UNCHANGED <<worst, inFlight, closed, lock, rec, counted, noted, at>>

Next ==
  \/ \E c \in Calls :
       \/ \E r \in Records : Call(c, r) \/ CallSettled(c, r)
       \/ \E answer \in Failures : Note(c, answer)
       \/ Answered(c) \/ GiveBack(c)
  \/ \E x \in Actors : UpdateOuter(x) \/ EndUpdate(x)
  \/ \E r \in Records :
       Returns(r) \/ Expire(r) \/ NoteUnanswered(r) \/ Close(r) \/ Cancel(r)

Spec == Init /\ [][Next]_vars

-----------------------------------------------------------------------------
(* Properties *)

\* r and the records around it: the least set closed under Parent.
Around(r) ==
  {o \in Records : \A R \in SUBSET Records :
     r \in R /\ (\A x \in R : Parent[x] # NoRecord => Parent[x] \in R) => o \in R}

\* No walk over a lineage is under way.
Quiet == \A x \in Actors : pc[x] \notin {"calling", "noting", "dropping"}

(* An update under way belongs to an attempt that has not settled: no call *)
(* made or answered through a settled attempt reaches the attempts around  *)
(* it, although the update visits their records one by one.                *)
UpdatesComeFromOpen ==
  \A x \in Actors : pc[x] \in {"calling", "noting"} => ~closed[rec[x]]

(* Between walks an open record counts exactly the unanswered calls made   *)
(* through it and the attempts inside it: a budget that runs out then finds*)
(* a call in flight exactly if one is still waiting for the database.      *)
InFlightCounts ==
  Quiet => \A r \in Records : ~closed[r] =>
    inFlight[r] =
      Cardinality({c \in Calls : pc[c] \in {"waiting", "answered"} /\ counted[c]
                                   /\ r \in Around(rec[c])})

(* What an attempt's calls saw, the attempts around it saw: the worst      *)
(* answer of an open record is at least that of every record inside it.    *)
OuterSawInner ==
  Quiet => \A r \in Records : \A o \in Around(r) : ~closed[o] => worst[r] <= worst[o]
=============================================================================
