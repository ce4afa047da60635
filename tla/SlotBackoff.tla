---------------------------- MODULE SlotBackoff -----------------------------
(***************************************************************************)
(* The transient-failure backoff of one BlockSlot against the clock        *)
(* (runtime/slot.rs), and the Retry-After a refused dispatch is answered   *)
(* with (runtime/runner.rs, runtime.rs).  InitPipeline has the rest of the *)
(* slot; there a backoff window simply ends at some point.  Dispatches run *)
(* concurrently: the failure one is answered with, and the delay it names, *)
(* are read in two sections, and attempts of others fall between.  The     *)
(* dispatches are InitWait::Await ones, the only ones a delay is named to; *)
(* a permanent failure ends the retries as success does and is left out.   *)
(***************************************************************************)
EXTENDS Naturals, FiniteSetsExt

CONSTANTS
  Clients,    \* dispatchers, each retrying when told to
  NoClient,
  Base,       \* TRANSIENT_RETRY_BASE, in ticks
  MaxDelay,   \* TRANSIENT_RETRY_MAX, in ticks
  Second,     \* ticks in a second
  MaxTime,    \* bound: the clock stops here
  MaxFailures \* bound: consecutive transient failures

ASSUME TimesAssumption == {Base, Second, MaxDelay} \subseteq Nat \ {0} /\ Base <= MaxDelay

VARIABLES
  now,
  ready,      \* SlotState.outcome is Ok
  failures,   \* SlotState.backoff: consecutive transient failures, 0 for none
  retryAt,    \* no attempt runs before this instant
  holder,     \* the client holding the attempt lock
  pc,         \* where each client stands
  told,       \* the last Retry-After a client got: until when, at how many failures
  failedAt,   \* when the last transient failure was recorded
  startedAt   \* when the attempt under way started

vars == <<now, ready, failures, retryAt, holder, pc, told, failedAt, startedAt>>

Untold == [until |-> 0, failures |-> 0]

Init ==
  /\ now = 0 /\ ready = FALSE
  /\ failures = 0 /\ retryAt = 0
  /\ holder = NoClient
  /\ pc = [c \in Clients |-> "idle"]
  /\ told = [c \in Clients |-> Untold]
  /\ failedAt = 0 /\ startedAt = 0

-----------------------------------------------------------------------------
\* TransientBackoff::delay
Delay(n) == Min({Base * 2^Min({n - 1, 16}), MaxDelay})

\* TransientBackoff::pending
Pending == now < retryAt

\* Mutant: whole seconds, rounded down.
RetryAfterFloor(t) == Max({t \div Second, 1})

\* retry_after_meta: whole seconds, rounded up, at least one.
RetryAfter(t) == Max({(t + Second - 1) \div Second, 1})

-----------------------------------------------------------------------------
(* A dispatch looks at the slot: a pending failure is taken, otherwise the *)
(* call goes for the attempt lock.  A client told to wait does wait.       *)
TryCached(c) ==
  /\ pc[c] = "idle" /\ now >= told[c].until
  /\ pc' = [pc EXCEPT ![c] = IF ready THEN "idle" ELSE IF Pending THEN "failed" ELSE "waiting"]
  /\ told' = [told EXCEPT ![c] = IF ready THEN Untold ELSE @]
  /\ UNCHANGED <<now, ready, failures, retryAt, holder, failedAt, startedAt>>

\* Mutant: the lock's holder runs init without looking at the backoff again.
GetOrInitUnchecked(c) ==
  /\ pc[c] = "waiting" /\ holder = NoClient
  /\ pc' = [pc EXCEPT ![c] = "running"]
  /\ holder' = c /\ startedAt' = now
  /\ UNCHANGED <<now, ready, failures, retryAt, told, failedAt>>

\* get_or_init, once the attempt lock is free: settled meanwhile, or it runs.
GetOrInit(c) ==
  /\ pc[c] = "waiting" /\ holder = NoClient
  /\ \/ /\ ready \/ Pending
        /\ pc' = [pc EXCEPT ![c] = IF ready THEN "idle" ELSE "failed"]
        /\ told' = [told EXCEPT ![c] = IF ready THEN Untold ELSE @]
        /\ UNCHANGED <<holder, startedAt>>
     \/ /\ ~ready /\ ~Pending
        /\ pc' = [pc EXCEPT ![c] = "running"]
        /\ holder' = c /\ startedAt' = now
        /\ UNCHANGED told
  /\ UNCHANGED <<now, ready, failures, retryAt, failedAt>>

\* The attempt succeeds: the backoff is forgotten.
InitOk(c) ==
  /\ pc[c] = "running"
  /\ ready' = TRUE /\ failures' = 0 /\ retryAt' = 0
  /\ holder' = NoClient /\ startedAt' = 0
  /\ pc' = [pc EXCEPT ![c] = "idle"]
  /\ told' = [told EXCEPT ![c] = Untold]
  /\ UNCHANGED <<now, failedAt>>

\* The attempt fails transiently.
InitTransient(c) ==
  /\ pc[c] = "running" /\ failures < MaxFailures
  /\ failures' = failures + 1
  /\ retryAt' = now + Delay(failures + 1)
  /\ failedAt' = now
  /\ holder' = NoClient /\ startedAt' = 0
  /\ pc' = [pc EXCEPT ![c] = "failed"]
  /\ UNCHANGED <<now, ready, told>>

\* The attempt is cancelled: nothing is recorded.
Cancelled(c) ==
  /\ pc[c] = "running"
  /\ holder' = NoClient /\ startedAt' = 0
  /\ pc' = [pc EXCEPT ![c] = "idle"]
  /\ told' = [told EXCEPT ![c] = Untold]
  /\ UNCHANGED <<now, ready, failures, retryAt, failedAt>>

(* init_failure: the pending backoff, read again (pending_retry_in), is    *)
(* named as the Retry-After; none is when it has just elapsed.             *)
Answer(c) ==
  /\ pc[c] = "failed"
  /\ pc' = [pc EXCEPT ![c] = "idle"]
  /\ told' = [told EXCEPT ![c] =
       IF ~ready /\ Pending
         THEN [until |-> now + Second * RetryAfter(retryAt - now), failures |-> failures]
         ELSE Untold]
  /\ UNCHANGED <<now, ready, failures, retryAt, holder, failedAt, startedAt>>

Tick ==
  /\ now < MaxTime
  /\ now' = now + 1
  /\ UNCHANGED <<ready, failures, retryAt, holder, pc, told, failedAt, startedAt>>

Next ==
  \/ \E c \in Clients :
       \/ TryCached(c) \/ GetOrInit(c) \/ Answer(c)
       \/ InitOk(c) \/ InitTransient(c) \/ Cancelled(c)
  \/ Tick

Spec == Init /\ [][Next]_vars

-----------------------------------------------------------------------------
(* Properties *)

\* The documented delay: the base, doubled per failure after the first, capped.
Documented[n \in Nat] ==
  IF n <= 1 THEN Base ELSE Min({2 * Documented[n - 1], MaxDelay})

(* Attempts keep their distance: one started after n consecutive transient *)
(* failures started the n-th documented delay after the last of them, and  *)
(* cancelled attempts in between shorten nothing.                          *)
AttemptsSpaced ==
  /\ failures > 0 => retryAt = failedAt + Documented[failures]
  /\ holder # NoClient /\ failures > 0 => startedAt >= failedAt + Documented[failures]

(* A client that waited as long as it was told is refused again only for a *)
(* failure recorded after its answer, never for the one it waited out.     *)
RetryAfterIsEnough ==
  [][\A c \in Clients :
       pc[c] = "idle" /\ pc'[c] = "failed" /\ told[c] # Untold
         => failures > told[c].failures]_vars
=============================================================================
