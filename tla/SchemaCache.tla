---------------------------- MODULE SchemaCache -----------------------------
(***************************************************************************)
(* The schema-introspection cache of a SQL backend                         *)
(* (wafer-core/interfaces/database/schema_cache.rs) and the operations of  *)
(* exec.rs that fill and invalidate it.  Filling an entry is a dance of    *)
(* several critical sections with database round-trips between them, and   *)
(* schema changes of other tasks, or of other processes, fall in the gaps; *)
(* the generation counter is to drop what was read before such a change.   *)
(*                                                                         *)
(* A table's schema is a version: column names, a primary key or none, and *)
(* whatever else an introspection tells (JSON columns, the id policy), so  *)
(* versions can share names or keys.  Rows and statements are left out.    *)
(***************************************************************************)
EXTENDS Naturals, Sequences, FiniteSets

CONSTANTS
  Tables,
  Versions,        \* schemas a table can have
  Missing,         \* not a version: the table does not exist
  ColumnsOf,       \* version -> its column names, in order
  KeyOf,           \* version -> its primary key
  Keys,            \* primary keys with at least one column
  NoKey,           \* the empty key
  Unprobed,        \* not a key: TableSchema.primary_key is None
  Readers,         \* tasks that need a fact about a table
  Changers,        \* tasks that change schemas
  MaxGeneration,   \* bound: invalidations after which no schema changes
  MayCancel,       \* a change's future can be dropped, or its answer lost
  OthersCreate     \* another process creates tables

ASSUME SchemaAssumption ==
  /\ Tables # {}
  /\ Missing \notin Versions
  /\ NoKey \notin Keys /\ Unprobed \notin Keys \cup {NoKey}
  /\ KeyOf \in [Versions -> Keys \cup {NoKey}]
  /\ \A v \in Versions : ColumnsOf[v] # <<>>
  /\ MaxGeneration \in Nat
  /\ MayCancel \in BOOLEAN /\ OthersCreate \in BOOLEAN

Schemas == Versions \cup {Missing}

\* What the introspections answer: of a missing table, nothing.
Names(schema) == IF schema = Missing THEN <<>> ELSE ColumnsOf[schema]
KeyFound(schema) == IF schema = Missing THEN NoKey ELSE KeyOf[schema]

\* The facts told by a column-list or an id-policy introspection: both tell
\* a missing table apart, so each is the version it was read from.
Facts == {"columns", "id_policy"}

VARIABLES
  db,          \* the schema each table has in the database
  \* SchemaCache.inner
  generation,
  present,     \* TableSchema.present
  known,       \* TableSchema.columns and .id_policy; Missing for None
  key,         \* TableSchema.primary_key
  \* readers
  pc, op, table, gen0,
  seen,        \* the schema its last introspection found
  \* changers
  change,      \* "idle", "running" or "cancelled"
  targets,     \* the tables its statements are about
  touched,     \* the tables it changed and is still to invalidate
  \* history
  dirty        \* the tables changed since the cache last forgot them

cacheVars  == <<generation, present, known, key>>
readerVars == <<pc, op, table, gen0, seen>>
changeVars == <<change, targets, touched>>
vars == <<db, cacheVars, readerVars, changeVars, dirty>>

AnyTable == CHOOSE t \in Tables : TRUE

Init ==
  /\ db \in [Tables -> Schemas]
  /\ generation = 0
  /\ present = [t \in Tables |-> FALSE]
  /\ known = [t \in Tables |-> [f \in Facts |-> Missing]]
  /\ key = [t \in Tables |-> Unprobed]
  /\ pc = [r \in Readers |-> "idle"]
  /\ op = [r \in Readers |-> "columns"]
  /\ table = [r \in Readers |-> AnyTable]
  /\ gen0 = [r \in Readers |-> 0]
  /\ seen = [r \in Readers |-> Missing]
  /\ change = [m \in Changers |-> "idle"]
  /\ targets = [m \in Changers |-> {}]
  /\ touched = [m \in Changers |-> {}]
  /\ dirty = {}

-----------------------------------------------------------------------------
(* The cache *)

\* Mutant: an invalidation does not bump the generation.
ForgetSilently(T) ==
  /\ present' = [t \in Tables |-> present[t] /\ t \notin T]
  /\ known' = [t \in Tables |-> IF t \in T THEN [f \in Facts |-> Missing] ELSE known[t]]
  /\ key' = [t \in Tables |-> IF t \in T THEN Unprobed ELSE key[t]]
  /\ dirty' = dirty \ T
  /\ UNCHANGED generation

\* SchemaCache::invalidate, for one table, and clear, for all.
Forget(T) ==
  /\ present' = [t \in Tables |-> present[t] /\ t \notin T]
  /\ known' = [t \in Tables |-> IF t \in T THEN [f \in Facts |-> Missing] ELSE known[t]]
  /\ key' = [t \in Tables |-> IF t \in T THEN Unprobed ELSE key[t]]
  /\ generation' = generation + 1
  /\ dirty' = dirty \ T

\* Mutant: the fact is stored, and the table's presence is not.
SetFactOnly(t, f, version, g) ==
  IF version # Missing /\ g = generation
    THEN /\ known' = [known EXCEPT ![t][f] = version]
         /\ UNCHANGED <<generation, present, key>>
    ELSE UNCHANGED cacheVars

\* Mutant: the fact is stored whatever was invalidated since it was read.
SetFactOfAnyGeneration(t, f, version, g) ==
  IF version # Missing
    THEN /\ present' = [present EXCEPT ![t] = TRUE]
         /\ known' = [known EXCEPT ![t][f] = version]
         /\ UNCHANGED <<generation, key>>
    ELSE UNCHANGED cacheVars

\* set_columns_if_gen and set_id_policy_if_gen: a missing table is not kept.
SetFact(t, f, version, g) ==
  IF version # Missing /\ g = generation
    THEN /\ present' = [present EXCEPT ![t] = TRUE]
         /\ known' = [known EXCEPT ![t][f] = version]
         /\ UNCHANGED <<generation, key>>
    ELSE UNCHANGED cacheVars

\* mark_table_present_if_gen
MarkPresent(t, g) ==
  /\ present' = [present EXCEPT ![t] = @ \/ g = generation]
  /\ UNCHANGED <<generation, known, key>>

\* set_primary_key_if_gen: an empty key only of a table known to exist.
SetKey(t, version, g) ==
  IF g = generation /\ (KeyFound(version) # NoKey \/ present[t])
    THEN /\ present' = [present EXCEPT ![t] = TRUE]
         /\ key' = [key EXCEPT ![t] = KeyFound(version)]
         /\ UNCHANGED <<generation, known>>
    ELSE UNCHANGED cacheVars

-----------------------------------------------------------------------------
(* Readers: table_columns ("columns"), id_policy, get_primary_key ("key")  *)
(* and require_columns ("require").  Each lookup, snapshot and write-back  *)
(* is a critical section of its own; a probe takes effect in the database. *)

Goto(r, label) == pc' = [pc EXCEPT ![r] = label]

\* The operation has returned, and its locals are gone.
Done(r) ==
  /\ Goto(r, "idle")
  /\ op' = [op EXCEPT ![r] = "columns"]
  /\ table' = [table EXCEPT ![r] = AnyTable]
  /\ gen0' = [gen0 EXCEPT ![r] = 0]
  /\ seen' = [seen EXCEPT ![r] = Missing]

Fact(o) == IF o = "id_policy" THEN "id_policy" ELSE "columns"

Hit(t, o) == IF o = "key" THEN key[t] # Unprobed ELSE known[t][Fact(o)] # Missing

\* A hit answers at once, which changes nothing, unless require_columns
\* misses a name in the cached list: it then reads the list uncached.
Lookup(r, t, o) ==
  /\ pc[r] = "idle"
  /\ IF Hit(t, o)
       THEN /\ o = "require"
            /\ Goto(r, "recheck")
            /\ seen' = [seen EXCEPT ![r] = known[t]["columns"]]
       ELSE /\ Goto(r, "snapshot")
            /\ UNCHANGED seen
  /\ op' = [op EXCEPT ![r] = o]
  /\ table' = [table EXCEPT ![r] = t]
  /\ UNCHANGED <<db, cacheVars, gen0, changeVars, dirty>>

Snapshot(r) ==
  /\ pc[r] = "snapshot"
  /\ gen0' = [gen0 EXCEPT ![r] = generation]
  /\ Goto(r, "probe")
  /\ UNCHANGED <<db, cacheVars, op, table, seen, changeVars, dirty>>

Probe(r) ==
  /\ pc[r] = "probe"
  /\ seen' = [seen EXCEPT ![r] = db[table[r]]]
  /\ Goto(r, IF op[r] = "key" THEN "probed" ELSE "store")
  /\ UNCHANGED <<db, cacheVars, op, table, gen0, changeVars, dirty>>

\* get_primary_key: an empty key of a table not known to exist costs an
\* existence probe.
KeyProbed(r) ==
  /\ pc[r] = "probed"
  /\ Goto(r, IF KeyFound(seen[r]) = NoKey /\ ~present[table[r]] THEN "exists" ELSE "store")
  /\ UNCHANGED <<db, cacheVars, op, table, gen0, seen, changeVars, dirty>>

Exists(r) ==
  /\ pc[r] = "exists"
  /\ Goto(r, IF db[table[r]] # Missing THEN "mark" ELSE "store")
  /\ UNCHANGED <<db, cacheVars, op, table, gen0, seen, changeVars, dirty>>

Mark(r) ==
  /\ pc[r] = "mark"
  /\ MarkPresent(table[r], gen0[r])
  /\ Goto(r, "store")
  /\ UNCHANGED <<db, op, table, gen0, seen, changeVars, dirty>>

\* The write-back.  require_columns goes on to an uncached read when the
\* list is empty, or lacks a name.
Store(r) ==
  /\ pc[r] = "store"
  /\ IF op[r] = "key"
       THEN SetKey(table[r], seen[r], gen0[r])
       ELSE SetFact(table[r], Fact(op[r]), seen[r], gen0[r])
  /\ \/ /\ op[r] = "require"
        /\ Goto(r, "recheck")
        /\ UNCHANGED <<op, table, gen0, seen>>
     \/ /\ op[r] = "require" => seen[r] # Missing
        /\ Done(r)
  /\ UNCHANGED <<db, changeVars, dirty>>

\* require_columns: introspect_columns, then invalidate if the names differ.
Recheck(r) ==
  /\ pc[r] = "recheck"
  /\ IF Names(db[table[r]]) # Names(seen[r])
       THEN Goto(r, "evict") /\ UNCHANGED <<op, table, gen0, seen>>
       ELSE Done(r)
  /\ UNCHANGED <<db, cacheVars, changeVars, dirty>>

Evict(r) ==
  /\ pc[r] = "evict"
  /\ Forget({table[r]})
  /\ Done(r)
  /\ UNCHANGED <<db, changeVars>>

\* A probe fails, or the reader's future is dropped at its await.
Abort(r) ==
  /\ pc[r] \in {"probe", "exists", "recheck"}
  /\ Done(r)
  /\ UNCHANGED <<db, cacheVars, changeVars, dirty>>

-----------------------------------------------------------------------------
(* Schema changes: ensure_schema_table, schema_add_column and              *)
(* schema_drop_table, of one table; exec_raw and exec_raw_transaction, of  *)
(* any.  The database applies the statements while the caller awaits.      *)

BeginChange(m, T) ==
  /\ change[m] = "idle"
  /\ generation < MaxGeneration
  /\ change' = [change EXCEPT ![m] = "running"]
  /\ targets' = [targets EXCEPT ![m] = T]
  /\ UNCHANGED <<db, cacheVars, readerVars, touched, dirty>>

Apply(m, t, schema) ==
  /\ change[m] \in {"running", "cancelled"}
  /\ t \in targets[m]
  /\ schema # db[t]
  /\ generation < MaxGeneration
  /\ db' = [db EXCEPT ![t] = schema]
  /\ touched' = [touched EXCEPT ![m] =
                    IF change[m] = "running" THEN @ \cup {t} ELSE @]
  /\ dirty' = dirty \cup {t}
  /\ UNCHANGED <<cacheVars, readerVars, change, targets>>

\* run_schema_table_ddl and add_column_checked invalidate after the CREATE
\* and after each ALTER, and go on.
Invalidates(m) ==
  /\ change[m] = "running"
  /\ \E t \in Tables : targets[m] = {t}
  /\ generation < MaxGeneration
  /\ Forget(targets[m])
  /\ touched' = [touched EXCEPT ![m] = {}]
  /\ UNCHANGED <<db, readerVars, change, targets>>

EndChange(m) ==
  /\ change' = [change EXCEPT ![m] = "idle"]
  /\ targets' = [targets EXCEPT ![m] = {}]
  /\ touched' = [touched EXCEPT ![m] = {}]
  /\ UNCHANGED <<db, readerVars>>

\* Mutant: exec_raw invalidates one table of those it may have changed.
ReturnsForgettingOne(m) ==
  /\ change[m] = "running"
  /\ \E t \in targets[m] : Forget({t})
  /\ EndChange(m)

\* The statements have returned; the caller invalidates what they name.
Returns(m) ==
  /\ change[m] = "running"
  /\ Forget(targets[m])
  /\ EndChange(m)

\* exec_raw, and SQLite's schema_drop_table and schema_add_column, return a
\* failure without invalidating: a failed statement changed nothing.
Fails(m) ==
  /\ change[m] = "running"
  /\ touched[m] = {}
  /\ EndChange(m)
  /\ UNCHANGED <<cacheVars, dirty>>

\* The caller's future is dropped at its await (or the answer is lost and
\* exec_raw returns the error).  A queued statement still runs.
Cancel(m) ==
  /\ MayCancel
  /\ change[m] = "running"
  /\ change' = [change EXCEPT ![m] = "cancelled"]
  /\ touched' = [touched EXCEPT ![m] = {}]
  /\ UNCHANGED <<db, cacheVars, readerVars, targets, dirty>>

CancelledEnds(m) ==
  /\ change[m] = "cancelled"
  /\ EndChange(m)
  /\ UNCHANGED <<cacheVars, dirty>>

\* A second replica, or a migration run out of band.
OtherCreates(t, schema) ==
  /\ OthersCreate
  /\ db[t] = Missing
  /\ generation < MaxGeneration
  /\ db' = [db EXCEPT ![t] = schema]
  /\ dirty' = dirty \cup {t}
  /\ UNCHANGED <<cacheVars, readerVars, change, targets, touched>>

Next ==
  \/ \E r \in Readers :
       \/ \E t \in Tables, o \in Facts \cup {"key", "require"} : Lookup(r, t, o)
       \/ Snapshot(r) \/ Probe(r) \/ KeyProbed(r) \/ Exists(r) \/ Mark(r)
       \/ Store(r) \/ Recheck(r) \/ Evict(r) \/ Abort(r)
  \/ \E m \in Changers :
       \/ \E T \in {{t} : t \in Tables} \cup {Tables} : BeginChange(m, T)
       \/ \E t \in Tables, schema \in Schemas : Apply(m, t, schema)
       \/ Invalidates(m) \/ Returns(m) \/ Fails(m) \/ Cancel(m) \/ CancelledEnds(m)
  \/ \E t \in Tables, schema \in Versions : OtherCreates(t, schema)

Spec == Init /\ [][Next]_vars

-----------------------------------------------------------------------------
(* Properties *)

Labels ==
  {"idle", "snapshot", "probe", "probed", "exists", "mark", "store", "recheck", "evict"}

\* The types of the state; and nothing is known of a table that is not also
\* known to exist (what the setters' presence-set keeps).
TypeOK ==
  /\ db \in [Tables -> Schemas]
  /\ generation \in Nat
  /\ present \in [Tables -> BOOLEAN]
  /\ known \in [Tables -> [Facts -> Schemas]]
  /\ key \in [Tables -> Keys \cup {NoKey, Unprobed}]
  /\ pc \in [Readers -> Labels]
  /\ op \in [Readers -> Facts \cup {"key", "require"}]
  /\ table \in [Readers -> Tables]
  /\ gen0 \in [Readers -> Nat]
  /\ seen \in [Readers -> Schemas]
  /\ change \in [Changers -> {"idle", "running", "cancelled"}]
  /\ targets \in [Changers -> SUBSET Tables]
  /\ touched \in [Changers -> SUBSET Tables]
  /\ dirty \subseteq Tables
  /\ \A t \in Tables :
       (key[t] # Unprobed \/ \E f \in Facts : known[t][f] # Missing) => present[t]

FreshFacts(t) == \A f \in Facts : known[t][f] \in {Missing, db[t]}

FreshKey(t) == key[t] # Unprobed => db[t] # Missing /\ key[t] = KeyOf[db[t]]

Fresh(t) == FreshFacts(t) /\ FreshKey(t) /\ (present[t] => db[t] # Missing)

\* Some task of this process changed t and is still to invalidate it.
BeingChanged(t) == \E m \in Changers : t \in touched[m]

\* Once the cache has forgotten a table, it holds nothing of it but what the
\* database says, until the table changes again: a probe that began before
\* the invalidation is never written back after it, whichever tasks probe,
\* store and invalidate in between, and even if earlier changes were
\* cancelled or made by another process.
CacheFresh == \A t \in Tables \ dirty : Fresh(t)

\* With no cancelled change and no other process, a table that no task is in
\* the middle of changing has no stale entry: every mutation of the schema
\* is followed by an invalidation.
NoStaleEntry == \A t \in Tables : BeingChanged(t) \/ Fresh(t)

\* With no cancelled change, but with another process that creates tables,
\* a cached column list or id policy is still never out of date: only what
\* is known of an existing table is kept.
NoStaleFacts == \A t \in Tables : BeingChanged(t) \/ FreshFacts(t)

\* That a table was missing is never kept as "no primary key": a table
\* another process creates with a key is not listed without one.
MissingNeverMemoized ==
  \A t \in Tables : BeingChanged(t) \/ (key[t] = NoKey => KeyFound(db[t]) = NoKey)
=============================================================================
