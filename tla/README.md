# WAFER in TLA+

TLA+ specifications of the WAFER runtime (`src/crates`), checked with TLC on
small instances and, for the core, proved with TLAPS for every size. WAFER runs
*blocks* (native or WASM components with a handler and a `lifecycle(Init)`) in
*flows*; a host process registers blocks, seals the runtime and dispatches
messages to blocks and flows, and blocks call each other through their context.

Paths below are relative to `src/crates`.

## 1. Inventory

| part | state | operations | what is hard |
|---|---|---|---|
| **Block slot** `wafer-run/src/runtime/slot.rs` | outcome, transient backoff, in-flight flag, attempt lock | `try_cached`, `get_or_init`, `init_state`, `pending_retry_in` | callers queueing while the outcome settles; cancellation between any two steps; backoff against the clock |
| **Init waits** `runtime/init_waits.rs` | owner of each block, waits of each attempt | `attempt`, `own`, `wait_for`, `is_running`, guard drops | cycles over several dispatches; several waits of one attempt; deferred work |
| **Init pipeline** `runtime.rs`, `runtime/runner.rs` | contexts that carry an attempt, budgets | `run_init_pipeline`, `run_resolved`, `init_block` | the order of slot, graph and timer; hosts that stop requests without destructors |
| **Init attempt record** `wafer-block/src/init_attempt.rs` | worst answer, calls in flight, closed flag, per nested attempt | `call`, `note`, `note_unanswered`, `close`, drops | lineage visited lock by lock while attempts settle |
| **Schema cache** `wafer-core/.../database/schema_cache.rs`, `exec.rs`, the SQLite and Postgres services | generation, entry per table | lookups, write-backs, `invalidate`, `clear`, the DDL operations around them | database round-trips between the sections; cancelled DDL; other processes |
| **Call gates, contexts** `runtime/call_gates.rs`, `context.rs` | depth, deadline, caller, attempt | `admit_call`, `call_block` | gates in the right order on every path |
| **Flow executor** `wafer-run/src/waferflow/executor.rs` | step budget, cancel flag, transfer chain, scopes | steps, `each`, `parallel`, transfers | budget and cancellation shared by concurrent branches |
| **Streams** `wafer-block/src/streams/output.rs` | bounded channel with a reserved terminal slot | send, terminals, drop, collect | exactly one terminal whatever is dropped |
| **Registration and seal** `runtime/registration.rs`, `seal.rs`, `lifecycle.rs` | registry, aliases, grants, seal state | register, alias, seal, start, bind, shutdown | once-only seal, failure part-way |
| **WRAP access** `wafer-block/src/wrap.rs` | grants | `check_access` | pattern precedence |
| **WASM pool, host streams** `wafer-run/src/wasm` | idle instances per set; stream phases | lease, return; write, finish, read, close | recycling limits; stores dropped with streams open |
| **IP rate limiter** `wafer-block-ip-rate-limit` | sharded buckets | `record`, eviction | full shards, window edges |
| **HTTP listener** `wafer-block-http-listener` | connection permits, shutdown signal | accept, serve, drain | grace period against late completions |
| **Worker threads** SQLite worker, embedding batcher, crypto offload | queues, permits | run, coalesce, offload | callers gone, panicking jobs |
| **CLI** `wafer-cli` | package cache, lockfile | install, update | concurrent installs, crashes between steps |
| flow parser, SQL builders, middleware blocks, storage, network, bindings, clients | none or none shared | | text, bytes and I/O |

`PROJECT.json` lists every part with its status, and the hazards of each at the
line where they bite.

## 2. Modules

| module | models | correspondence |
|---|---|---|
| `InitPipeline` | slot, graph, pipeline, `run_resolved`, composed | a *call* is one pass through `run_resolved` or `init_block`, and the attempt it creates; one action per critical section, in the code's order |
| `LazyInit` | what `BlockInitState` promises a health reader | abstract specification; `InitPipeline` implements it through `InitState`. `Retrying` is split by whether `retry_in` is zero |
| `WaitGraph` | `InitWaits` alone, with the code's depth-first search, lists and paths | recursive, for TLC only |
| `InitAttemptRecord` | `InitAttemptRecord` | one action per mutex section |
| `SlotBackoff` | backoff and Retry-After against a clock | `InitPipeline` keeps only whether a transient failure is on record and whether its window is open or elapsed (`backoff`) |
| `SchemaCache` | cache, fills and invalidations | a schema is a version, with column names and a primary key that versions may share; the database is a variable that moves between the sections |
| `MC*` | instances for TLC | |
| `InitPipelineInv`, `InitPipelineCalls`, `InitPipelineProofs` | invariant; preservation of its lock and graph part; of its call part; theorems | |
| `SchemaCacheProofs` | invariants and theorems of `SchemaCache` | |

### InitPipeline

A dispatch (`RunBlock`, `InitBlock`, or `CallBlock` from a running Init, or
`DeferredCall` from work an Init left behind) reads the slot; when unsettled it
is refused (`Refuse`) or proceeds to the pipeline: `WaitFor` or `RefuseCycle`,
`Enqueue`, `Acquire`, `TakeSettled` or `BeginAttempt`, `Own`, the Init itself
(`InitReturns`, or `TimerFires` when the budget is over), `Disown`, `Record`,
`Release`, `Leave`, and `Serve`. Futures can be dropped at every await (`Drop*`,
then `DropOwner` and `Abandon`), together with the futures inside them, innermost
guards first. `StopRequest` is a host that stops a request for good without
destructors, which `InitWait::Refuse` exists for.

What the model shows of the code beyond its properties:

- A context kept by deferred work carries its ended attempt. Its edges are
  recorded and harmless: nobody waits for an attempt that owns no block.
- A refused wait that Init passes on as its error is an ordinary permanent
  failure of the block, cached like any other.
- `RuntimeHandle::run_block` used inside an Init adds no edge: it is a top-level
  dispatch to the graph. Such an Init waits on whatever it dispatches, which the
  model excludes by letting Inits reach blocks through their context only.
- A cycle refusal can be conservative: a call that a running Init has detached
  and does not await still counts as a wait.

### SchemaCache

A reader's operation is: lookup, snapshot of the generation, one or two probes of
the database, the write-back, and for `require_columns` a second introspection
with an eviction. A changer's is: the awaited statements (`Apply`, any number),
invalidations between the statements (`Invalidates`), and the one at the end
(`Returns`), or none (`Fails`, `Cancel`).

## 3. Runs

| run | asks | bounds |
|---|---|---|
| `InitPipelineAwait` | are slot, lock, graph and reports consistent with drops at any await? | 2 blocks whose Inits call each other, 3 calls, one budget, deferred work |
| `InitPipelineCycle` | can Inits deadlock across dispatches? | 4 calls, so both Inits start at top level and call each other; `blkA` can fail for good, `blkB` transiently, here and in `InitPipelineAwait` |
| `InitPipelineLive` | is every call answered? | 3 calls, fairness, one Init may hang within its budget; checked for one call (below) |
| `InitPipelineRefuse` | does a stopped request block anyone? | 3 calls, requests and `init_block`, both required to end; checked for one call |
| `WaitGraph` | is the search with one shared seen set exact? | 4 blocks, 4 attempts, 4 live waits: repeated waits, diamonds and 4-cycles occur |
| `InitAttemptRecord` | can settled attempts' calls reach outer ones? | 3 nested attempts, 2 calls |
| `SlotBackoff` | do attempts keep their distance, is Retry-After enough? | 2 clients, clock to 18, a second of 4 ticks, delays 1, 2, 4, 6 (the cap) |
| `SchemaCache` | is the cache current for tables not changed since forgotten? | 1 table, 2 readers, 2 changers, 2 invalidations, cancellation and replicas; a table without and with a key, the columns the same |
| `SchemaCacheChanges` | does every completed change leave no stale entry? | 2 tables, changes of one or both; two keys, different columns |
| `SchemaCacheReplicas` | do other processes make facts stale? | 1 table, 2 readers, 3 versions |
| `SchemaCacheCancel` | the same as `SchemaCacheChanges` with dropped futures: violated | 1 reader, 1 changer |
| `SchemaCacheNoKey` | is "missing" never memoized?: violated | 1 reader |

Bounds that are not sets: an Init calls each block at most once
(`OncePerAttempt`); `MaxWaits` (the waits alive at one time, of all attempts),
`MaxGeneration`, `MaxTime`, `MaxFailures`. The last four stop counters the code
does not bound (lists, u64, the clock, u32); the interesting orders all happen below
them, since a reader spans at most a few invalidations and the backoff reaches
its cap at the fourth failure. Only `SlotBackoff` turns the deadlock check off: its clock ends.

`EveryCallEnds` is checked for one call. The calls are interchangeable: nothing in
the specification names one, and the fairness is the same for each, so a behaviour
in which another call is never answered is, renamed, one in which this one is not.
Its antecedent covers both ways in: a dispatch that found the slot unsettled, and
`init_block`, which goes straight to the pipeline.

**Fairness** (`FairSpec`) is weak and per call: the executor polls a woken task, a
started drop finishes, timers fire, handlers return, and an Init without a budget
returns once its calls are answered. A budgeted Init has none. Nothing is assumed
of the host, of new calls, or of the end of a backoff window.

### Findings

- `SchemaCacheCancel`: the invalidation follows the awaited DDL, so a change whose
  future is dropped there is applied and not invalidated. The entry stays stale
  until the table's next invalidation (`CacheFresh` holds throughout).
- `SchemaCacheNoKey`: `get_primary_key` asks for the key and then for the table, in
  two queries; a table created between them is remembered as having no key.

## 4. Proofs

All theorems hold for every value of the constants allowed by the named
assumptions (`ConstantsAssumption`, `SchemaAssumption`): any number of blocks,
calls, tables and tasks, any call relation between Inits.

**InitPipeline.** The safety properties alone are not inductive: that the owner of
a block holds its lock needs to know which control states own and hold
(`LockInv`, `OwnerInv`), and that the graph stays acyclic needs the edges to be
exactly the calls in the pipeline (`EdgeInv`) made for attempts that have begun
(`ParentInv`). `IndInv` joins these with `SlotInv`, `AnswerInv`, `BudgetInv`,
`RequestInv` and acyclicity itself. The key step is `WaitFor`: a new edge is added
only if no walk from the target's owner reaches the waiter, so a set of attempts
each waiting for another, after the step, would have been one before it or would
contain such a walk. `Own` is the other step that adds arcs, from those already
waiting for the block to its new owner, which waits for nothing yet.
`NoInitDeadlock` follows: every member of a circle of blocked attempts is running,
so it owns the block whose lock it holds, and each call it awaits has recorded its
wait, so the circle would be one of the graph. The refinement of
`LazyInit` maps its `state` to what `init_state` returns and its `failed` to the
presence of a backoff on the slot, and goes step by step: an attempt that settles
replaces both, while an elapsed window or a cancelled retry leaves the failure on
record, and so reported.

**SchemaCache.** `CacheFresh` needs that what a reader is about to write back is
current unless the generation has moved or the table is dirty (`ReadInv`), and
that no snapshot is ahead of the generation (`GenInv`). `NoStaleEntry`, proved for
a process that has the database to itself and cancels no change, adds that a dirty
table is one some task will still invalidate (`DirtyInv`). `NoStaleFacts`, proved
with other processes creating tables, replaces that by `SeenInv`: what a reader
is about to store is current or "missing", which is never kept.

**Model-checked only.** Liveness (`EveryCallEnds`); `NothingLeaks`, which needs an
invariant on the queues; everything in `WaitGraph` (recursive),
`InitAttemptRecord` and `SlotBackoff`.

## 5. Plan

1. Flow executor: steps, `each`, parallel branches, transfers; budget,
   cancellation and deadline; an abstract sequential flow it implements.
2. Streams: sink, channel, consumer; exactly one terminal.
3. Call gates and contexts, composed with the executor's call depth.
4. WASM instance pool and host streams.
5. Registration, aliases, grants and seal; WRAP access as pure operators against a
   reference definition.
6. Rate limiter; SQLite worker, batcher and offload; listener shutdown; CLI install.
7. Proofs: `NothingLeaks` with the queue invariant, spacing of attempts, counts of
   `InitAttemptRecord`, the stream's terminal, the pool's limits.

## 6. Not modelled

Message contents, metadata, error wording, logging and metrics; the flow parser
and expression language; SQL generation; wire encodings; storage and network I/O;
language bindings and macros. Configuration loading appears only as a way for Init
to fail. Scheduling and `tokio::sync::Mutex` (FIFO hand-over) are modelled from how
the runtime uses them.
