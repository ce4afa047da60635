------------------------- MODULE SchemaCacheProofs --------------------------
(***************************************************************************)
(* What SchemaCache promises, for every set of tables, schemas, readers    *)
(* and changers.                                                           *)
(***************************************************************************)
EXTENDS SchemaCache, TLAPS

\* r has probed, and what it read will be stored unless the cache forgets.
Current(r) ==
  pc[r] \in {"probed", "exists", "mark", "store"} /\ gen0[r] = generation

\* No snapshot is ahead of the generation, so an invalidation outdates all.
GenInv == \A r \in Readers : gen0[r] <= generation

\* What a reader is about to store of a table is what the database says,
\* unless the table has changed since the cache forgot it.
ReadInv ==
  \A r \in Readers :
    Current(r) /\ table[r] \notin dirty =>
      /\ seen[r] = db[table[r]]
      /\ pc[r] = "mark" => db[table[r]] # Missing

\* A change touches only its targets, and nothing once it is over.
TouchInv ==
  \A m \in Changers :
    /\ touched[m] \subseteq targets[m]
    /\ change[m] # "running" => touched[m] = {}

FreshInv == TypeOK /\ GenInv /\ ReadInv /\ TouchInv /\ CacheFresh

LEMMA AnyTableType == AnyTable \in Tables
  BY SchemaAssumption DEF AnyTable

\* The types of the three groups of variables.
CacheTypes ==
  /\ generation \in Nat
  /\ present \in [Tables -> BOOLEAN]
  /\ known \in [Tables -> [Facts -> Schemas]]
  /\ key \in [Tables -> Keys \cup {NoKey, Unprobed}]
  /\ \A t \in Tables :
       (key[t] # Unprobed \/ \E f \in Facts : known[t][f] # Missing) => present[t]

ReaderTypes ==
  /\ pc \in [Readers -> Labels]
  /\ op \in [Readers -> Facts \cup {"key", "require"}]
  /\ table \in [Readers -> Tables]
  /\ gen0 \in [Readers -> Nat]
  /\ seen \in [Readers -> Schemas]

\* A reader that has returned keeps the types.
LEMMA DoneTypes ==
  ASSUME ReaderTypes, NEW r \in Readers, Done(r)
  PROVE  ReaderTypes'
  BY AnyTableType DEF ReaderTypes, Done, Goto, Labels, Facts, Schemas

\* A key introspection answers with a key, empty or not.
LEMMA KeyFoundType ==
  ASSUME NEW schema \in Schemas
  PROVE  KeyFound(schema) \in Keys \cup {NoKey}
  BY SchemaAssumption DEF KeyFound, Schemas

\* A write-back: of a fact, of a key, or of nothing when the cache has moved
\* on or the table is missing.
LEMMA StoreCases ==
  ASSUME TypeOK, NEW r \in Readers, Store(r)
  PROVE  \/ \E f \in Facts :
              /\ seen[r] # Missing /\ gen0[r] = generation
              /\ present' = [present EXCEPT ![table[r]] = TRUE]
              /\ known' = [known EXCEPT ![table[r]] = [@ EXCEPT ![f] = seen[r]]]
              /\ UNCHANGED <<generation, key>>
         \/ /\ gen0[r] = generation
            /\ KeyFound(seen[r]) # NoKey \/ present[table[r]]
            /\ present' = [present EXCEPT ![table[r]] = TRUE]
            /\ key' = [key EXCEPT ![table[r]] = KeyFound(seen[r])]
            /\ UNCHANGED <<generation, known>>
         \/ UNCHANGED cacheVars
<1>1. Fact(op[r]) \in Facts
  BY DEF Fact, Facts
<1>2. CASE op[r] = "key"
  BY <1>2 DEF Store, SetKey
<1>3. CASE op[r] # "key"
  BY <1>1, <1>3 DEF Store, SetFact
<1> QED
  BY <1>2, <1>3

\* A write-back keeps the types of the cache.
LEMMA StoreTypes ==
  ASSUME TypeOK, NEW r \in Readers, Store(r)
  PROVE  CacheTypes'
<1>t. table[r] \in Tables /\ seen[r] \in Schemas
  BY DEF TypeOK
<1>1. ASSUME NEW f \in Facts,
             present' = [present EXCEPT ![table[r]] = TRUE],
             known' = [known EXCEPT ![table[r]] = [@ EXCEPT ![f] = seen[r]]],
             UNCHANGED <<generation, key>>
      PROVE  CacheTypes'
  BY <1>t, <1>1 DEF TypeOK, CacheTypes
<1>2. CASE /\ present' = [present EXCEPT ![table[r]] = TRUE]
           /\ key' = [key EXCEPT ![table[r]] = KeyFound(seen[r])]
           /\ UNCHANGED <<generation, known>>
  <2>1. KeyFound(seen[r]) \in Keys \cup {NoKey, Unprobed}
    BY <1>t, KeyFoundType
  <2> QED
    BY <1>t, <1>2, <2>1 DEF TypeOK, CacheTypes
<1>3. CASE UNCHANGED cacheVars
  BY <1>3 DEF TypeOK, CacheTypes, cacheVars
<1> QED
  BY <1>1, <1>2, <1>3, StoreCases

\* Every step keeps the types.
LEMMA TypeStep ==
  ASSUME TypeOK, [Next]_vars
  PROVE  TypeOK'
<1>1. CASE UNCHANGED vars
  BY <1>1 DEF TypeOK, Labels, Facts, Schemas, vars, cacheVars, readerVars,
     changeVars
<1>2. ASSUME NEW r \in Readers, NEW t \in Tables, NEW o \in Facts \cup {"key", "require"},
             Lookup(r, t, o)
      PROVE  TypeOK'
  <2>1. CacheTypes'
    BY <1>2 DEF TypeOK, CacheTypes, Lookup, cacheVars
  <2>2. ReaderTypes
    BY DEF TypeOK, ReaderTypes
  <2>3. known[t]["columns"] \in Schemas
    BY DEF TypeOK, Facts
  <2>4. ASSUME Hit(t, o) PROVE ReaderTypes'
    BY <1>2, <2>2, <2>3, <2>4 DEF ReaderTypes, Labels, Lookup, Goto
  <2>5. ASSUME ~Hit(t, o) PROVE ReaderTypes'
    BY <1>2, <2>2, <2>5 DEF ReaderTypes, Labels, Lookup, Goto
  <2> QED
    BY <1>2, <2>1, <2>4, <2>5 DEF TypeOK, CacheTypes, ReaderTypes, Lookup,
       changeVars
<1>3. ASSUME NEW r \in Readers, Snapshot(r)
      PROVE  TypeOK'
  BY <1>3, AnyTableType, SchemaAssumption DEF TypeOK, Labels, Facts, Schemas,
     Snapshot, Goto, cacheVars, readerVars, changeVars
<1>4. ASSUME NEW r \in Readers, Probe(r)
      PROVE  TypeOK'
  BY <1>4, AnyTableType, SchemaAssumption DEF TypeOK, Labels, Facts, Schemas, Probe,
     Goto, cacheVars, readerVars, changeVars
<1>5. ASSUME NEW r \in Readers, KeyProbed(r)
      PROVE  TypeOK'
  BY <1>5, AnyTableType, SchemaAssumption DEF TypeOK, Labels, Facts, Schemas,
     KeyProbed, Goto, cacheVars, readerVars, changeVars
<1>6. ASSUME NEW r \in Readers, Exists(r)
      PROVE  TypeOK'
  BY <1>6, AnyTableType, SchemaAssumption DEF TypeOK, Labels, Facts, Schemas,
     Exists, Goto, cacheVars, readerVars, changeVars
<1>7. ASSUME NEW r \in Readers, Mark(r)
      PROVE  TypeOK'
  BY <1>7, AnyTableType, SchemaAssumption DEF TypeOK, Labels, Facts, Schemas, Mark,
     Goto, MarkPresent, cacheVars, readerVars, changeVars
<1>8. ASSUME NEW r \in Readers, Store(r)
      PROVE  TypeOK'
  <2>1. ReaderTypes
    BY DEF TypeOK, ReaderTypes
  <2>2. CASE Done(r)
    BY <1>8, <2>1, <2>2, DoneTypes, StoreTypes DEF TypeOK, CacheTypes,
       ReaderTypes, Store, changeVars
  <2>3. CASE Goto(r, "recheck") /\ UNCHANGED <<op, table, gen0, seen>>
    <3>1. ReaderTypes'
      BY <2>1, <2>3 DEF ReaderTypes, Goto, Labels
    <3> QED
      BY <1>8, <3>1, StoreTypes DEF TypeOK, CacheTypes, ReaderTypes, Store,
         changeVars
  <2> QED
    BY <1>8, <2>2, <2>3 DEF Store
<1>9. ASSUME NEW r \in Readers, Recheck(r)
      PROVE  TypeOK'
  <2>1. ReaderTypes
    BY DEF TypeOK, ReaderTypes
  <2>2. ReaderTypes'
    <3>1. CASE Done(r)
      BY <2>1, <3>1, DoneTypes
    <3>2. CASE Goto(r, "evict") /\ UNCHANGED <<op, table, gen0, seen>>
      BY <2>1, <3>2 DEF ReaderTypes, Goto, Labels
    <3> QED
      BY <1>9, <3>1, <3>2 DEF Recheck
  <2> QED
    BY <1>9, <2>2 DEF TypeOK, ReaderTypes, Recheck, cacheVars, changeVars
<1>10. ASSUME NEW r \in Readers, Evict(r)
      PROVE  TypeOK'
  BY <1>10, AnyTableType, SchemaAssumption DEF TypeOK, Labels, Facts, Schemas,
     Evict, Goto, Done, Forget, cacheVars, readerVars, changeVars
<1>11. ASSUME NEW r \in Readers, Abort(r)
      PROVE  TypeOK'
  BY <1>11, AnyTableType, SchemaAssumption DEF TypeOK, Labels, Facts, Schemas,
     Abort, Goto, Done, cacheVars, readerVars, changeVars
<1>12. ASSUME NEW m \in Changers, NEW T \in {{t} : t \in Tables} \cup {Tables},
             BeginChange(m, T)
      PROVE  TypeOK'
  BY <1>12, AnyTableType, SchemaAssumption DEF TypeOK, Labels, Facts, Schemas,
     BeginChange, cacheVars, readerVars, changeVars
<1>13. ASSUME NEW m \in Changers, NEW t \in Tables, NEW schema \in Schemas,
             Apply(m, t, schema)
      PROVE  TypeOK'
  BY <1>13, AnyTableType, SchemaAssumption DEF TypeOK, Labels, Facts, Schemas,
     Apply, cacheVars, readerVars, changeVars
<1>14a. ASSUME NEW m \in Changers, Invalidates(m)
      PROVE  TypeOK'
  BY <1>14a, AnyTableType, SchemaAssumption DEF TypeOK, Labels, Facts, Schemas,
     Invalidates, Forget, cacheVars, readerVars, changeVars
<1>14. ASSUME NEW m \in Changers, Returns(m)
      PROVE  TypeOK'
  BY <1>14, AnyTableType, SchemaAssumption DEF TypeOK, Labels, Facts, Schemas,
     Returns, EndChange, Forget, cacheVars, readerVars, changeVars
<1>15. ASSUME NEW m \in Changers, Fails(m)
      PROVE  TypeOK'
  BY <1>15, AnyTableType, SchemaAssumption DEF TypeOK, Labels, Facts, Schemas,
     Fails, EndChange, cacheVars, readerVars, changeVars
<1>16. ASSUME NEW m \in Changers, Cancel(m)
      PROVE  TypeOK'
  BY <1>16, AnyTableType, SchemaAssumption DEF TypeOK, Labels, Facts, Schemas,
     Cancel, cacheVars, readerVars, changeVars
<1>17. ASSUME NEW m \in Changers, CancelledEnds(m)
      PROVE  TypeOK'
  BY <1>17, AnyTableType, SchemaAssumption DEF TypeOK, Labels, Facts, Schemas,
     CancelledEnds, EndChange, cacheVars, readerVars, changeVars
<1>18. ASSUME NEW t \in Tables, NEW schema \in Versions, OtherCreates(t, schema)
      PROVE  TypeOK'
  BY <1>18, AnyTableType, SchemaAssumption DEF TypeOK, Labels, Facts, Schemas,
     OtherCreates, cacheVars, readerVars, changeVars
<1> QED
  BY <1>1, <1>2, <1>3, <1>4, <1>5, <1>6, <1>7, <1>8, <1>9, <1>10, <1>11, <1>12,
     <1>13, <1>14, <1>14a, <1>15, <1>16, <1>17, <1>18 DEF Next

\* Every step keeps the snapshots behind the generation.
LEMMA GenStep ==
  ASSUME TypeOK, GenInv, [Next]_vars
  PROVE  GenInv'
<1>1. CASE UNCHANGED vars
  BY <1>1 DEF TypeOK, GenInv, vars, cacheVars, readerVars, changeVars
<1>2. ASSUME NEW r \in Readers, NEW t \in Tables, NEW o \in Facts \cup {"key", "require"},
             Lookup(r, t, o)
      PROVE  GenInv'
  BY <1>2 DEF TypeOK, GenInv, Lookup, Goto, cacheVars, readerVars, changeVars
<1>3. ASSUME NEW r \in Readers, Snapshot(r)
      PROVE  GenInv'
  BY <1>3 DEF TypeOK, GenInv, Snapshot, Goto, cacheVars, readerVars, changeVars
<1>4. ASSUME NEW r \in Readers, Probe(r)
      PROVE  GenInv'
  BY <1>4 DEF TypeOK, GenInv, Probe, Goto, cacheVars, readerVars, changeVars
<1>5. ASSUME NEW r \in Readers, KeyProbed(r)
      PROVE  GenInv'
  BY <1>5 DEF TypeOK, GenInv, KeyProbed, Goto, cacheVars, readerVars, changeVars
<1>6. ASSUME NEW r \in Readers, Exists(r)
      PROVE  GenInv'
  BY <1>6 DEF TypeOK, GenInv, Exists, Goto, cacheVars, readerVars, changeVars
<1>7. ASSUME NEW r \in Readers, Mark(r)
      PROVE  GenInv'
  BY <1>7 DEF TypeOK, GenInv, Mark, MarkPresent
<1>8. ASSUME NEW r \in Readers, Store(r)
      PROVE  GenInv'
  <2>1. generation' = generation
    BY <1>8, StoreCases DEF cacheVars
  <2>2. gen0' = gen0 \/ gen0' = [gen0 EXCEPT ![r] = 0]
    BY <1>8 DEF Store, Done
  <2> QED
    BY <2>1, <2>2 DEF TypeOK, GenInv
<1>9. ASSUME NEW r \in Readers, Recheck(r)
      PROVE  GenInv'
  <2>1. gen0' = gen0 \/ gen0' = [gen0 EXCEPT ![r] = 0]
    BY <1>9 DEF Recheck, Done
  <2>2. generation' = generation
    BY <1>9 DEF Recheck, cacheVars
  <2> QED
    BY <2>1, <2>2 DEF TypeOK, GenInv
<1>10. ASSUME NEW r \in Readers, Evict(r)
      PROVE  GenInv'
  BY <1>10 DEF TypeOK, GenInv, Evict, Goto, Done, Forget, cacheVars, readerVars,
     changeVars
<1>11. ASSUME NEW r \in Readers, Abort(r)
      PROVE  GenInv'
  BY <1>11 DEF TypeOK, GenInv, Abort, Goto, Done, cacheVars, readerVars, changeVars
<1>12. ASSUME NEW m \in Changers, NEW T \in {{t} : t \in Tables} \cup {Tables},
             BeginChange(m, T)
      PROVE  GenInv'
  BY <1>12 DEF TypeOK, GenInv, BeginChange, cacheVars, readerVars, changeVars
<1>13. ASSUME NEW m \in Changers, NEW t \in Tables, NEW schema \in Schemas,
             Apply(m, t, schema)
      PROVE  GenInv'
  BY <1>13 DEF TypeOK, GenInv, Apply, cacheVars, readerVars, changeVars
<1>14a. ASSUME NEW m \in Changers, Invalidates(m)
      PROVE  GenInv'
  BY <1>14a DEF TypeOK, GenInv, Invalidates, Forget, cacheVars, readerVars,
     changeVars
<1>14. ASSUME NEW m \in Changers, Returns(m)
      PROVE  GenInv'
  BY <1>14 DEF TypeOK, GenInv, Returns, EndChange, Forget, cacheVars, readerVars,
     changeVars
<1>15. ASSUME NEW m \in Changers, Fails(m)
      PROVE  GenInv'
  BY <1>15 DEF TypeOK, GenInv, Fails, EndChange, cacheVars, readerVars, changeVars
<1>16. ASSUME NEW m \in Changers, Cancel(m)
      PROVE  GenInv'
  BY <1>16 DEF TypeOK, GenInv, Cancel, cacheVars, readerVars, changeVars
<1>17. ASSUME NEW m \in Changers, CancelledEnds(m)
      PROVE  GenInv'
  BY <1>17 DEF TypeOK, GenInv, CancelledEnds, EndChange, cacheVars, readerVars,
     changeVars
<1>18. ASSUME NEW t \in Tables, NEW schema \in Versions, OtherCreates(t, schema)
      PROVE  GenInv'
  BY <1>18 DEF TypeOK, GenInv, OtherCreates, cacheVars, readerVars, changeVars
<1> QED
  BY <1>1, <1>2, <1>3, <1>4, <1>5, <1>6, <1>7, <1>8, <1>9, <1>10, <1>11, <1>12,
     <1>13, <1>14, <1>14a, <1>15, <1>16, <1>17, <1>18 DEF Next

\* Every step keeps a change to its targets.
LEMMA TouchStep ==
  ASSUME TypeOK, TouchInv, [Next]_vars
  PROVE  TouchInv'
<1>1. CASE UNCHANGED vars
  BY <1>1 DEF TypeOK, TouchInv, vars, cacheVars, readerVars, changeVars
<1>2. ASSUME NEW r \in Readers,
             \/ \E t \in Tables, o \in Facts \cup {"key", "require"} : Lookup(r, t, o)
             \/ Snapshot(r) \/ Probe(r) \/ KeyProbed(r) \/ Exists(r) \/ Mark(r)
             \/ Store(r) \/ Recheck(r) \/ Evict(r) \/ Abort(r)
      PROVE  TouchInv'
  BY <1>2 DEF TouchInv, Lookup, Snapshot, Probe, KeyProbed, Exists, Mark, Store,
     Recheck, Evict, Abort, changeVars
<1>3. ASSUME NEW m \in Changers, NEW T \in {{t} : t \in Tables} \cup {Tables},
             BeginChange(m, T)
      PROVE  TouchInv'
  BY <1>3 DEF TypeOK, TouchInv, BeginChange, changeVars
<1>4. ASSUME NEW m \in Changers, NEW t \in Tables, NEW schema \in Schemas,
             Apply(m, t, schema)
      PROVE  TouchInv'
  BY <1>4 DEF TypeOK, TouchInv, Apply, changeVars
<1>5a. ASSUME NEW m \in Changers, Invalidates(m)
      PROVE  TouchInv'
  BY <1>5a DEF TypeOK, TouchInv, Invalidates, Forget, changeVars
<1>5. ASSUME NEW m \in Changers, Returns(m)
      PROVE  TouchInv'
  BY <1>5 DEF TypeOK, TouchInv, Returns, EndChange, Forget, changeVars
<1>6. ASSUME NEW m \in Changers, Fails(m)
      PROVE  TouchInv'
  BY <1>6 DEF TypeOK, TouchInv, Fails, EndChange, changeVars
<1>7. ASSUME NEW m \in Changers, Cancel(m)
      PROVE  TouchInv'
  BY <1>7 DEF TypeOK, TouchInv, Cancel, changeVars
<1>8. ASSUME NEW m \in Changers, CancelledEnds(m)
      PROVE  TouchInv'
  BY <1>8 DEF TypeOK, TouchInv, CancelledEnds, EndChange, changeVars
<1>9. ASSUME NEW t \in Tables, NEW schema \in Versions, OtherCreates(t, schema)
      PROVE  TouchInv'
  BY <1>9 DEF TypeOK, TouchInv, OtherCreates, changeVars
<1> QED
  BY <1>1, <1>2, <1>3, <1>4, <1>5, <1>5a, <1>6, <1>7, <1>8, <1>9 DEF Next

\* A reader that stores or rechecks is not about to store any more, and
\* leaves the other readers, the database and the generation alone.
LEMMA LeavesCurrent ==
  ASSUME TypeOK, NEW r \in Readers, Store(r) \/ Recheck(r)
  PROVE  /\ UNCHANGED <<db, generation, touched, dirty>>
         /\ \A q \in Readers :
              Current(q)' => /\ Current(q)
                             /\ UNCHANGED <<pc[q], table[q], seen[q]>>
<1>1. UNCHANGED <<db, generation, touched, dirty>>
  BY StoreCases DEF Store, Recheck, cacheVars, changeVars
<1>2. CASE Done(r)
  BY <1>1, <1>2 DEF TypeOK, Current, Done, Goto
<1>3. CASE /\ Goto(r, "recheck") \/ Goto(r, "evict")
           /\ UNCHANGED <<op, table, gen0, seen>>
  BY <1>1, <1>3 DEF TypeOK, Current, Goto
<1> QED
  BY <1>1, <1>2, <1>3 DEF Store, Recheck

\* Every step keeps what the readers are about to store.
LEMMA ReadStep ==
  ASSUME TypeOK, GenInv, ReadInv, [Next]_vars
  PROVE  ReadInv'
<1>1. CASE UNCHANGED vars
  BY <1>1 DEF TypeOK, ReadInv, Current, vars, cacheVars, readerVars, changeVars
<1>2. ASSUME NEW r \in Readers, NEW t \in Tables, NEW o \in Facts \cup {"key", "require"},
             Lookup(r, t, o)
      PROVE  ReadInv'
  BY <1>2 DEF TypeOK, ReadInv, Current, Lookup, Goto, cacheVars, readerVars,
     changeVars
<1>3. ASSUME NEW r \in Readers, Snapshot(r)
      PROVE  ReadInv'
  BY <1>3 DEF TypeOK, ReadInv, Current, Snapshot, Goto, cacheVars, readerVars,
     changeVars
<1>4. ASSUME NEW r \in Readers, Probe(r)
      PROVE  ReadInv'
  BY <1>4 DEF TypeOK, ReadInv, Current, Probe, Goto, cacheVars, readerVars,
     changeVars
<1>5. ASSUME NEW r \in Readers, KeyProbed(r)
      PROVE  ReadInv'
  BY <1>5 DEF TypeOK, ReadInv, Current, KeyProbed, Goto, cacheVars, readerVars,
     changeVars
<1>6. ASSUME NEW r \in Readers, Exists(r)
      PROVE  ReadInv'
  BY <1>6 DEF TypeOK, ReadInv, Current, Exists, Goto, cacheVars, readerVars,
     changeVars
<1>7. ASSUME NEW r \in Readers, Mark(r)
      PROVE  ReadInv'
  BY <1>7 DEF TypeOK, ReadInv, Current, Mark, Goto, MarkPresent, cacheVars,
     readerVars, changeVars
<1>8. ASSUME NEW r \in Readers, Store(r)
      PROVE  ReadInv'
  BY <1>8, LeavesCurrent DEF ReadInv
<1>9. ASSUME NEW r \in Readers, Recheck(r)
      PROVE  ReadInv'
  BY <1>9, LeavesCurrent DEF ReadInv
<1>10. ASSUME NEW r \in Readers, Evict(r)
      PROVE  ReadInv'
  BY <1>10 DEF TypeOK, GenInv, ReadInv, Current, Evict, Goto, Done, Forget,
     cacheVars, readerVars, changeVars
<1>11. ASSUME NEW r \in Readers, Abort(r)
      PROVE  ReadInv'
  BY <1>11 DEF TypeOK, ReadInv, Current, Abort, Goto, Done, cacheVars, readerVars,
     changeVars
<1>12. ASSUME NEW m \in Changers, NEW T \in {{t} : t \in Tables} \cup {Tables},
             BeginChange(m, T)
      PROVE  ReadInv'
  BY <1>12 DEF TypeOK, ReadInv, Current, BeginChange, cacheVars, readerVars,
     changeVars
<1>13. ASSUME NEW m \in Changers, NEW t \in Tables, NEW schema \in Schemas,
             Apply(m, t, schema)
      PROVE  ReadInv'
  BY <1>13 DEF TypeOK, ReadInv, Current, Apply, cacheVars, readerVars, changeVars
<1>14a. ASSUME NEW m \in Changers, Invalidates(m)
      PROVE  ReadInv'
  BY <1>14a DEF TypeOK, GenInv, ReadInv, Current, Invalidates, Forget,
     cacheVars, readerVars, changeVars
<1>14. ASSUME NEW m \in Changers, Returns(m)
      PROVE  ReadInv'
  BY <1>14 DEF TypeOK, GenInv, ReadInv, Current, Returns, EndChange, Forget,
     cacheVars, readerVars, changeVars
<1>15. ASSUME NEW m \in Changers, Fails(m)
      PROVE  ReadInv'
  BY <1>15 DEF TypeOK, ReadInv, Current, Fails, EndChange, cacheVars, readerVars,
     changeVars
<1>16. ASSUME NEW m \in Changers, Cancel(m)
      PROVE  ReadInv'
  BY <1>16 DEF TypeOK, ReadInv, Current, Cancel, cacheVars, readerVars, changeVars
<1>17. ASSUME NEW m \in Changers, CancelledEnds(m)
      PROVE  ReadInv'
  BY <1>17 DEF TypeOK, ReadInv, Current, CancelledEnds, EndChange, cacheVars,
     readerVars, changeVars
<1>18. ASSUME NEW t \in Tables, NEW schema \in Versions, OtherCreates(t, schema)
      PROVE  ReadInv'
  BY <1>18 DEF TypeOK, ReadInv, Current, OtherCreates, cacheVars, readerVars,
     changeVars
<1> QED
  BY <1>1, <1>2, <1>3, <1>4, <1>5, <1>6, <1>7, <1>8, <1>9, <1>10, <1>11, <1>12,
     <1>13, <1>14, <1>14a, <1>15, <1>16, <1>17, <1>18 DEF Next

\* Every step keeps the cache fresh.
LEMMA FreshStep ==
  ASSUME TypeOK, ReadInv, CacheFresh, [Next]_vars
  PROVE  CacheFresh'
<1>1. CASE UNCHANGED vars
  BY <1>1 DEF TypeOK, CacheFresh, Fresh, FreshFacts, FreshKey, Schemas, Facts, vars,
     cacheVars, changeVars
<1>2. ASSUME NEW r \in Readers, NEW t \in Tables, NEW o \in Facts \cup {"key", "require"},
             Lookup(r, t, o)
      PROVE  CacheFresh'
  BY <1>2, SchemaAssumption DEF TypeOK, CacheFresh, Fresh, FreshFacts, FreshKey,
     Schemas, Facts, Lookup, cacheVars, changeVars
<1>3. ASSUME NEW r \in Readers, Snapshot(r)
      PROVE  CacheFresh'
  BY <1>3, SchemaAssumption DEF TypeOK, CacheFresh, Fresh, FreshFacts, FreshKey,
     Schemas, Facts, Snapshot, cacheVars, changeVars
<1>4. ASSUME NEW r \in Readers, Probe(r)
      PROVE  CacheFresh'
  BY <1>4, SchemaAssumption DEF TypeOK, CacheFresh, Fresh, FreshFacts, FreshKey,
     Schemas, Facts, Probe, cacheVars, changeVars
<1>5. ASSUME NEW r \in Readers, KeyProbed(r)
      PROVE  CacheFresh'
  BY <1>5, SchemaAssumption DEF TypeOK, CacheFresh, Fresh, FreshFacts, FreshKey,
     Schemas, Facts, KeyProbed, cacheVars, changeVars
<1>6. ASSUME NEW r \in Readers, Exists(r)
      PROVE  CacheFresh'
  BY <1>6, SchemaAssumption DEF TypeOK, CacheFresh, Fresh, FreshFacts, FreshKey,
     Schemas, Facts, Exists, cacheVars, changeVars
<1>7. ASSUME NEW r \in Readers, Mark(r)
      PROVE  CacheFresh'
  BY <1>7, SchemaAssumption DEF TypeOK, ReadInv, Current, CacheFresh, Fresh,
     FreshFacts, FreshKey, Schemas, Facts, Mark, MarkPresent, cacheVars, readerVars,
     changeVars
<1>8. ASSUME NEW r \in Readers, Store(r)
      PROVE  CacheFresh'
  <2> SUFFICES ASSUME NEW t \in Tables \ dirty
               PROVE  Fresh(t)'
    BY <1>8 DEF CacheFresh, Store
  <2>1. Fresh(t) /\ db' = db /\ pc[r] = "store"
    BY <1>8 DEF CacheFresh, Store
  <2>2. table[r] \in Tables /\ seen[r] \in Schemas
    BY DEF TypeOK
  <2>3. gen0[r] = generation /\ t = table[r] => seen[r] = db[t]
    BY <2>1 DEF ReadInv, Current
  <2>4. ASSUME NEW f \in Facts, seen[r] # Missing, gen0[r] = generation,
               present' = [present EXCEPT ![table[r]] = TRUE],
               known' = [known EXCEPT ![table[r]] = [@ EXCEPT ![f] = seen[r]]],
               UNCHANGED <<generation, key>>
        PROVE  Fresh(t)'
    BY <2>1, <2>2, <2>3, <2>4 DEF TypeOK, Fresh, FreshFacts, FreshKey
  <2>5. CASE /\ gen0[r] = generation
             /\ KeyFound(seen[r]) # NoKey \/ present[table[r]]
             /\ present' = [present EXCEPT ![table[r]] = TRUE]
             /\ key' = [key EXCEPT ![table[r]] = KeyFound(seen[r])]
             /\ UNCHANGED <<generation, known>>
    <3>1. CASE t # table[r]
      BY <2>1, <2>2, <2>5, <3>1 DEF TypeOK, Fresh, FreshFacts, FreshKey
    <3>2. CASE t = table[r]
      \* Nothing is stored of a table that is missing: it has no key, and
      \* is not known to exist.
      <4>1. seen[r] = db[t] /\ db[t] # Missing
        BY <2>1, <2>3, <2>5, <3>2 DEF Fresh, KeyFound
      <4>2. key'[t] = KeyOf[db[t]] /\ present'[t] = TRUE
        BY <2>2, <2>5, <3>2, <4>1 DEF TypeOK, KeyFound
      <4> QED
        BY <2>1, <2>5, <4>1, <4>2 DEF Fresh, FreshFacts, FreshKey
    <3> QED
      BY <3>1, <3>2
  <2>6. CASE UNCHANGED cacheVars
    BY <2>1, <2>6 DEF Fresh, FreshFacts, FreshKey, cacheVars
  <2> QED
    BY <1>8, <2>4, <2>5, <2>6, StoreCases
<1>9. ASSUME NEW r \in Readers, Recheck(r)
      PROVE  CacheFresh'
  BY <1>9, SchemaAssumption DEF TypeOK, CacheFresh, Fresh, FreshFacts, FreshKey,
     Schemas, Facts, Recheck, cacheVars, changeVars
<1>10. ASSUME NEW r \in Readers, Evict(r)
      PROVE  CacheFresh'
  BY <1>10, SchemaAssumption DEF TypeOK, CacheFresh, Fresh, FreshFacts, FreshKey,
     Schemas, Facts, Evict, Forget, cacheVars, changeVars
<1>11. ASSUME NEW r \in Readers, Abort(r)
      PROVE  CacheFresh'
  BY <1>11, SchemaAssumption DEF TypeOK, CacheFresh, Fresh, FreshFacts, FreshKey,
     Schemas, Facts, Abort, cacheVars, changeVars
<1>12. ASSUME NEW m \in Changers, NEW T \in {{t} : t \in Tables} \cup {Tables},
             BeginChange(m, T)
      PROVE  CacheFresh'
  BY <1>12, SchemaAssumption DEF TypeOK, CacheFresh, Fresh, FreshFacts, FreshKey,
     Schemas, Facts, BeginChange, cacheVars, changeVars
<1>13. ASSUME NEW m \in Changers, NEW t \in Tables, NEW schema \in Schemas,
             Apply(m, t, schema)
      PROVE  CacheFresh'
  BY <1>13, SchemaAssumption DEF TypeOK, CacheFresh, Fresh, FreshFacts, FreshKey,
     Schemas, Facts, Apply, cacheVars, changeVars
<1>14a. ASSUME NEW m \in Changers, Invalidates(m)
      PROVE  CacheFresh'
  BY <1>14a, SchemaAssumption DEF TypeOK, CacheFresh, Fresh, FreshFacts, FreshKey,
     Schemas, Facts, Invalidates, Forget, cacheVars, changeVars
<1>14. ASSUME NEW m \in Changers, Returns(m)
      PROVE  CacheFresh'
  BY <1>14, SchemaAssumption DEF TypeOK, CacheFresh, Fresh, FreshFacts, FreshKey,
     Schemas, Facts, Returns, EndChange, Forget, cacheVars, changeVars
<1>15. ASSUME NEW m \in Changers, Fails(m)
      PROVE  CacheFresh'
  BY <1>15, SchemaAssumption DEF TypeOK, CacheFresh, Fresh, FreshFacts, FreshKey,
     Schemas, Facts, Fails, EndChange, cacheVars, changeVars
<1>16. ASSUME NEW m \in Changers, Cancel(m)
      PROVE  CacheFresh'
  BY <1>16, SchemaAssumption DEF TypeOK, CacheFresh, Fresh, FreshFacts, FreshKey,
     Schemas, Facts, Cancel, cacheVars, changeVars
<1>17. ASSUME NEW m \in Changers, CancelledEnds(m)
      PROVE  CacheFresh'
  BY <1>17, SchemaAssumption DEF TypeOK, CacheFresh, Fresh, FreshFacts, FreshKey,
     Schemas, Facts, CancelledEnds, EndChange, cacheVars, changeVars
<1>18. ASSUME NEW t \in Tables, NEW schema \in Versions, OtherCreates(t, schema)
      PROVE  CacheFresh'
  BY <1>18, SchemaAssumption DEF TypeOK, CacheFresh, Fresh, FreshFacts, FreshKey,
     Schemas, Facts, OtherCreates, cacheVars, changeVars
<1> QED
  BY <1>1, <1>2, <1>3, <1>4, <1>5, <1>6, <1>7, <1>8, <1>9, <1>10, <1>11, <1>12,
     <1>13, <1>14, <1>14a, <1>15, <1>16, <1>17, <1>18 DEF Next

\* The initial states satisfy the invariant.
LEMMA FreshInit ==
  ASSUME Init
  PROVE  FreshInv
<1>1. TypeOK
  BY AnyTableType DEF Init, TypeOK, Labels, Facts, Schemas
<1>2. GenInv /\ ReadInv /\ TouchInv
  BY <1>1 DEF Init, TypeOK, GenInv, ReadInv, Current, TouchInv
<1>3. CacheFresh
  BY DEF Init, CacheFresh, Fresh, FreshFacts, FreshKey
<1> QED
  BY <1>1, <1>2, <1>3 DEF FreshInv

\* The invariant holds in every state: what a reader is about to store is
\* what the database says, or will be dropped by the generation check of the
\* *_if_gen setters, or is of a table whose invalidation is still to come.
THEOREM CacheInvariance == Spec => []FreshInv
<1>1. FreshInv /\ [Next]_vars => FreshInv'
  BY TypeStep, GenStep, TouchStep, ReadStep, FreshStep DEF FreshInv
<1> QED
  BY <1>1, FreshInit, PTL DEF Spec

\* The types of the cache and of its users.
THEOREM CacheTypeCorrectness == Spec => []TypeOK
  BY CacheInvariance, PTL DEF FreshInv

\* Once the cache has forgotten a table it holds only what the database says
\* of it, until the table changes: invalidation and write-back linearize.
THEOREM CacheIsFresh == Spec => []CacheFresh
  BY CacheInvariance, PTL DEF FreshInv

-----------------------------------------------------------------------------
(* Without cancelled changes *)

\* A table changed since the cache forgot it is one a task has yet to
\* invalidate.
DirtyInv == \A t \in dirty : BeingChanged(t)

\* No change is ever cancelled, when none may be.
NoneCancelled == \A m \in Changers : change[m] # "cancelled"

\* What a reader is about to store of a table that no task is changing is
\* current, or that the table was missing (which is not kept).
SeenInv ==
  \A r \in Readers :
    Current(r) => BeingChanged(table[r]) \/ seen[r] \in {Missing, db[table[r]]}

\* With no cancellation, no change becomes a cancelled one.
LEMMA NoneCancelledStep ==
  ASSUME ~MayCancel, TypeOK, NoneCancelled, [Next]_vars
  PROVE  NoneCancelled'
<1>1. CASE UNCHANGED vars
  BY <1>1 DEF TypeOK, NoneCancelled, vars, changeVars
<1>2. ASSUME NEW r \in Readers,
             \/ \E t \in Tables, o \in Facts \cup {"key", "require"} : Lookup(r, t, o)
             \/ Snapshot(r) \/ Probe(r) \/ KeyProbed(r) \/ Exists(r) \/ Mark(r)
             \/ Store(r) \/ Recheck(r) \/ Evict(r) \/ Abort(r)
      PROVE  NoneCancelled'
  BY <1>2 DEF TypeOK, NoneCancelled, Lookup, Snapshot, Probe, KeyProbed, Exists,
     Mark, Store,
              Recheck, Evict, Abort, Forget, changeVars
<1>3. ASSUME NEW m \in Changers, NEW T \in {{t} : t \in Tables} \cup {Tables},
             BeginChange(m, T)
      PROVE  NoneCancelled'
  BY <1>3 DEF TypeOK, NoneCancelled, BeginChange, changeVars
<1>4. ASSUME NEW m \in Changers, NEW t \in Tables, NEW schema \in Schemas,
             Apply(m, t, schema)
      PROVE  NoneCancelled'
  BY <1>4 DEF TypeOK, NoneCancelled, Apply, changeVars
<1>5a. ASSUME NEW m \in Changers, Invalidates(m)
      PROVE  NoneCancelled'
  BY <1>5a DEF TypeOK, NoneCancelled, Invalidates, Forget, changeVars
<1>5. ASSUME NEW m \in Changers, Returns(m)
      PROVE  NoneCancelled'
  BY <1>5 DEF TypeOK, NoneCancelled, Returns, EndChange, Forget, changeVars
<1>6. ASSUME NEW m \in Changers, Fails(m)
      PROVE  NoneCancelled'
  BY <1>6 DEF TypeOK, NoneCancelled, Fails, EndChange, changeVars
<1>7. ASSUME NEW m \in Changers, Cancel(m)
      PROVE  NoneCancelled'
  BY <1>7 DEF TypeOK, NoneCancelled, Cancel, changeVars
<1>8. ASSUME NEW m \in Changers, CancelledEnds(m)
      PROVE  NoneCancelled'
  BY <1>8 DEF TypeOK, NoneCancelled, CancelledEnds, EndChange, changeVars
<1>9. ASSUME NEW t \in Tables, NEW schema \in Versions, OtherCreates(t, schema)
      PROVE  NoneCancelled'
  BY <1>9 DEF TypeOK, NoneCancelled, OtherCreates, changeVars
<1> QED
  BY <1>1, <1>2, <1>3, <1>4, <1>5, <1>5a, <1>6, <1>7, <1>8, <1>9 DEF Next

\* Alone and uncancelled, every change is invalidated by the task that made it.
LEMMA DirtyStep ==
  ASSUME ~MayCancel, ~OthersCreate, TypeOK, TouchInv, NoneCancelled, DirtyInv, [Next]_vars
  PROVE  DirtyInv'
<1>1. CASE UNCHANGED vars
  BY <1>1 DEF TypeOK, TouchInv, NoneCancelled, DirtyInv, BeingChanged, vars,
     changeVars
<1>2. ASSUME NEW r \in Readers,
             \/ \E t \in Tables, o \in Facts \cup {"key", "require"} : Lookup(r, t, o)
             \/ Snapshot(r) \/ Probe(r) \/ KeyProbed(r) \/ Exists(r) \/ Mark(r)
             \/ Store(r) \/ Recheck(r) \/ Evict(r) \/ Abort(r)
      PROVE  DirtyInv'
  BY <1>2 DEF DirtyInv, BeingChanged, Lookup, Snapshot, Probe, KeyProbed, Exists,
     Mark, Store,
              Recheck, Evict, Abort, Forget, changeVars
<1>3. ASSUME NEW m \in Changers, NEW T \in {{t} : t \in Tables} \cup {Tables},
             BeginChange(m, T)
      PROVE  DirtyInv'
  BY <1>3 DEF TypeOK, TouchInv, NoneCancelled, DirtyInv, BeingChanged, BeginChange,
     changeVars
<1>4. ASSUME NEW m \in Changers, NEW t \in Tables, NEW schema \in Schemas,
             Apply(m, t, schema)
      PROVE  DirtyInv'
  BY <1>4 DEF TypeOK, TouchInv, NoneCancelled, DirtyInv, BeingChanged, Apply,
     changeVars
<1>5a. ASSUME NEW m \in Changers, Invalidates(m)
      PROVE  DirtyInv'
  BY <1>5a DEF TypeOK, TouchInv, NoneCancelled, DirtyInv, BeingChanged, Invalidates,
     Forget, changeVars
<1>5. ASSUME NEW m \in Changers, Returns(m)
      PROVE  DirtyInv'
  BY <1>5 DEF TypeOK, TouchInv, NoneCancelled, DirtyInv, BeingChanged, Returns,
     EndChange, Forget, changeVars
<1>6. ASSUME NEW m \in Changers, Fails(m)
      PROVE  DirtyInv'
  BY <1>6 DEF TypeOK, TouchInv, NoneCancelled, DirtyInv, BeingChanged, Fails,
     EndChange, changeVars
<1>7. ASSUME NEW m \in Changers, Cancel(m)
      PROVE  DirtyInv'
  BY <1>7 DEF TypeOK, TouchInv, NoneCancelled, DirtyInv, BeingChanged, Cancel,
     changeVars
<1>8. ASSUME NEW m \in Changers, CancelledEnds(m)
      PROVE  DirtyInv'
  BY <1>8 DEF TypeOK, TouchInv, NoneCancelled, DirtyInv, BeingChanged,
     CancelledEnds, EndChange, changeVars
<1>9. ASSUME NEW t \in Tables, NEW schema \in Versions, OtherCreates(t, schema)
      PROVE  DirtyInv'
  BY <1>9 DEF TypeOK, TouchInv, NoneCancelled, DirtyInv, BeingChanged, OtherCreates,
     changeVars
<1> QED
  BY <1>1, <1>2, <1>3, <1>4, <1>5, <1>5a, <1>6, <1>7, <1>8, <1>9 DEF Next

\* Uncancelled, but not alone: what a reader saw is current, or that the table was missing.
LEMMA SeenStep ==
  ASSUME ~MayCancel, TypeOK, GenInv, TouchInv, NoneCancelled, SeenInv, [Next]_vars
  PROVE  SeenInv'
<1>1. CASE UNCHANGED vars
  BY <1>1 DEF TypeOK, SeenInv, BeingChanged, Current, vars, cacheVars, readerVars,
     changeVars
<1>2. ASSUME NEW r \in Readers, NEW t \in Tables,
             NEW o \in Facts \cup {"key", "require"}, Lookup(r, t, o)
      PROVE  SeenInv'
  BY <1>2 DEF TypeOK, SeenInv, BeingChanged, Current, Lookup, Goto, cacheVars,
     readerVars, changeVars
<1>3. ASSUME NEW r \in Readers, Snapshot(r)
      PROVE  SeenInv'
  BY <1>3 DEF TypeOK, SeenInv, BeingChanged, Current, Snapshot, Goto, cacheVars,
     readerVars, changeVars
<1>4. ASSUME NEW r \in Readers, Probe(r)
      PROVE  SeenInv'
  BY <1>4 DEF TypeOK, SeenInv, BeingChanged, Current, Probe, Goto, cacheVars,
     readerVars, changeVars
<1>5. ASSUME NEW r \in Readers, KeyProbed(r)
      PROVE  SeenInv'
  BY <1>5 DEF TypeOK, SeenInv, BeingChanged, Current, KeyProbed, Goto, cacheVars,
     readerVars, changeVars
<1>6. ASSUME NEW r \in Readers, Exists(r)
      PROVE  SeenInv'
  BY <1>6 DEF TypeOK, SeenInv, BeingChanged, Current, Exists, Goto, cacheVars,
     readerVars, changeVars
<1>7. ASSUME NEW r \in Readers, Mark(r)
      PROVE  SeenInv'
  BY <1>7 DEF TypeOK, SeenInv, BeingChanged, Current, Mark, Goto, MarkPresent,
     changeVars
<1>8. ASSUME NEW r \in Readers, Store(r)
      PROVE  SeenInv'
  BY <1>8, LeavesCurrent DEF SeenInv, BeingChanged
<1>9. ASSUME NEW r \in Readers, Recheck(r)
      PROVE  SeenInv'
  BY <1>9, LeavesCurrent DEF SeenInv, BeingChanged
<1>10. ASSUME NEW r \in Readers, Evict(r)
      PROVE  SeenInv'
  BY <1>10 DEF TypeOK, GenInv, SeenInv, BeingChanged, Current, Evict, Goto, Done,
     Forget, cacheVars, readerVars, changeVars
<1>11. ASSUME NEW r \in Readers, Abort(r)
      PROVE  SeenInv'
  BY <1>11 DEF TypeOK, SeenInv, BeingChanged, Current, Abort, Goto, Done, cacheVars,
     readerVars, changeVars
<1>12. ASSUME NEW m \in Changers, NEW T \in {{t} : t \in Tables} \cup {Tables},
             BeginChange(m, T)
      PROVE  SeenInv'
  BY <1>12 DEF TypeOK, SeenInv, BeingChanged, Current, BeginChange, cacheVars,
     readerVars, changeVars
<1>13. ASSUME NEW m \in Changers, NEW t \in Tables, NEW schema \in Schemas,
             Apply(m, t, schema)
      PROVE  SeenInv'
  BY <1>13 DEF TypeOK, TouchInv, NoneCancelled, SeenInv, BeingChanged, Current,
     Apply, cacheVars, readerVars, changeVars
<1>14a. ASSUME NEW m \in Changers, Invalidates(m)
      PROVE  SeenInv'
  BY <1>14a DEF TypeOK, GenInv, TouchInv, NoneCancelled, SeenInv, BeingChanged,
     Current, Invalidates, Forget, cacheVars, readerVars, changeVars
<1>14. ASSUME NEW m \in Changers, Returns(m)
      PROVE  SeenInv'
  BY <1>14 DEF TypeOK, GenInv, TouchInv, NoneCancelled, SeenInv, BeingChanged,
     Current, Returns, EndChange, Forget, cacheVars, readerVars, changeVars
<1>15. ASSUME NEW m \in Changers, Fails(m)
      PROVE  SeenInv'
  BY <1>15 DEF TypeOK, TouchInv, NoneCancelled, SeenInv, BeingChanged, Current,
     Fails, EndChange, cacheVars, readerVars, changeVars
<1>16. ASSUME NEW m \in Changers, Cancel(m)
      PROVE  SeenInv'
  BY <1>16 DEF TypeOK, TouchInv, NoneCancelled, SeenInv, BeingChanged, Current,
     Cancel, cacheVars, readerVars, changeVars
<1>17. ASSUME NEW m \in Changers, CancelledEnds(m)
      PROVE  SeenInv'
  BY <1>17 DEF TypeOK, TouchInv, NoneCancelled, SeenInv, BeingChanged, Current,
     CancelledEnds, EndChange, cacheVars, readerVars, changeVars
<1>18. ASSUME NEW t \in Tables, NEW schema \in Versions, OtherCreates(t, schema)
      PROVE  SeenInv'
  BY <1>18 DEF TypeOK, SeenInv, BeingChanged, Current, OtherCreates, cacheVars,
     readerVars, changeVars
<1> QED
  BY <1>1, <1>2, <1>3, <1>4, <1>5, <1>6, <1>7, <1>8, <1>9, <1>10, <1>11, <1>12,
     <1>13, <1>14, <1>14a, <1>15, <1>16, <1>17, <1>18 DEF Next

\* Uncancelled, but not alone: what is kept of a table is current.
LEMMA FactsStep ==
  ASSUME ~MayCancel, TypeOK, TouchInv, NoneCancelled, SeenInv, NoStaleFacts, [Next]_vars
  PROVE  NoStaleFacts'
<1>1. CASE UNCHANGED vars
  BY <1>1 DEF TypeOK, NoStaleFacts, FreshFacts, BeingChanged, vars, cacheVars,
     readerVars, changeVars
<1>2. ASSUME NEW r \in Readers, NEW t \in Tables,
             NEW o \in Facts \cup {"key", "require"}, Lookup(r, t, o)
      PROVE  NoStaleFacts'
  BY <1>2 DEF TypeOK, NoStaleFacts, FreshFacts, BeingChanged, Lookup, cacheVars,
     changeVars
<1>3. ASSUME NEW r \in Readers, Snapshot(r)
      PROVE  NoStaleFacts'
  BY <1>3 DEF TypeOK, NoStaleFacts, FreshFacts, BeingChanged, Snapshot, cacheVars,
     changeVars
<1>4. ASSUME NEW r \in Readers, Probe(r)
      PROVE  NoStaleFacts'
  BY <1>4 DEF TypeOK, NoStaleFacts, FreshFacts, BeingChanged, Probe, cacheVars,
     changeVars
<1>5. ASSUME NEW r \in Readers, KeyProbed(r)
      PROVE  NoStaleFacts'
  BY <1>5 DEF TypeOK, NoStaleFacts, FreshFacts, BeingChanged, KeyProbed, cacheVars,
     changeVars
<1>6. ASSUME NEW r \in Readers, Exists(r)
      PROVE  NoStaleFacts'
  BY <1>6 DEF TypeOK, NoStaleFacts, FreshFacts, BeingChanged, Exists, cacheVars,
     changeVars
<1>7. ASSUME NEW r \in Readers, Mark(r)
      PROVE  NoStaleFacts'
  BY <1>7 DEF TypeOK, NoStaleFacts, FreshFacts, BeingChanged, Mark, MarkPresent,
     cacheVars, changeVars
<1>8. ASSUME NEW r \in Readers, Store(r)
      PROVE  NoStaleFacts'
  <2> SUFFICES ASSUME NEW t \in Tables, ~BeingChanged(t)', NEW f \in Facts
               PROVE  known'[t][f] \in {Missing, db[t]}
    BY <1>8 DEF NoStaleFacts, FreshFacts, Store
  <2>1. ~BeingChanged(t) /\ pc[r] = "store"
    BY <1>8 DEF BeingChanged, Store, changeVars
  <2>2. known[t][f] \in {Missing, db[t]}
    BY <2>1 DEF NoStaleFacts, FreshFacts
  <2>3. gen0[r] = generation /\ t = table[r] => seen[r] \in {Missing, db[t]}
    BY <2>1 DEF SeenInv, Current
  <2>4. ASSUME NEW g \in Facts, gen0[r] = generation,
               known' = [known EXCEPT ![table[r]] = [@ EXCEPT ![g] = seen[r]]]
        PROVE  known'[t][f] \in {Missing, db[t]}
    BY <2>2, <2>3, <2>4 DEF TypeOK
  <2>5. CASE UNCHANGED known
    BY <2>2, <2>5
  <2> QED
    BY <1>8, <2>4, <2>5, StoreCases DEF cacheVars
<1>9. ASSUME NEW r \in Readers, Recheck(r)
      PROVE  NoStaleFacts'
  BY <1>9 DEF TypeOK, NoStaleFacts, FreshFacts, BeingChanged, Recheck, cacheVars,
     changeVars
<1>10. ASSUME NEW r \in Readers, Evict(r)
      PROVE  NoStaleFacts'
  BY <1>10 DEF TypeOK, NoStaleFacts, FreshFacts, BeingChanged, Evict, Forget,
     cacheVars, changeVars
<1>11. ASSUME NEW r \in Readers, Abort(r)
      PROVE  NoStaleFacts'
  BY <1>11 DEF TypeOK, NoStaleFacts, FreshFacts, BeingChanged, Abort, cacheVars,
     changeVars
<1>12. ASSUME NEW m \in Changers, NEW T \in {{t} : t \in Tables} \cup {Tables},
             BeginChange(m, T)
      PROVE  NoStaleFacts'
  BY <1>12 DEF TypeOK, NoStaleFacts, FreshFacts, BeingChanged, BeginChange,
     cacheVars, readerVars, changeVars
<1>13. ASSUME NEW m \in Changers, NEW t \in Tables, NEW schema \in Schemas,
             Apply(m, t, schema)
      PROVE  NoStaleFacts'
  <2> SUFFICES ASSUME NEW u \in Tables, ~BeingChanged(u)'
               PROVE  FreshFacts(u)'
    BY DEF NoStaleFacts
  <2>1. touched[m] \cup {t} = touched'[m]
    BY <1>13 DEF NoneCancelled, Apply, TypeOK
  <2>2. u # t
    BY <2>1 DEF BeingChanged
  <2>3. ~BeingChanged(u)
    BY <1>13, <2>1 DEF BeingChanged, Apply, TypeOK
  <2> QED
    BY <1>13, <2>2, <2>3 DEF NoStaleFacts, FreshFacts, Apply, TypeOK, cacheVars
<1>14a. ASSUME NEW m \in Changers, Invalidates(m)
      PROVE  NoStaleFacts'
  BY <1>14a DEF TypeOK, TouchInv, NoneCancelled, NoStaleFacts, FreshFacts,
     BeingChanged, Invalidates, Forget, cacheVars, readerVars, changeVars
<1>14. ASSUME NEW m \in Changers, Returns(m)
      PROVE  NoStaleFacts'
  BY <1>14 DEF TypeOK, TouchInv, NoneCancelled, NoStaleFacts, FreshFacts,
     BeingChanged, Returns, EndChange, Forget, cacheVars, readerVars, changeVars
<1>15. ASSUME NEW m \in Changers, Fails(m)
      PROVE  NoStaleFacts'
  BY <1>15 DEF TypeOK, TouchInv, NoneCancelled, NoStaleFacts, FreshFacts,
     BeingChanged, Fails, EndChange, cacheVars, readerVars, changeVars
<1>16. ASSUME NEW m \in Changers, Cancel(m)
      PROVE  NoStaleFacts'
  BY <1>16 DEF TypeOK, TouchInv, NoneCancelled, NoStaleFacts, FreshFacts,
     BeingChanged, Cancel, cacheVars, readerVars, changeVars
<1>17. ASSUME NEW m \in Changers, CancelledEnds(m)
      PROVE  NoStaleFacts'
  BY <1>17 DEF TypeOK, TouchInv, NoneCancelled, NoStaleFacts, FreshFacts,
     BeingChanged, CancelledEnds, EndChange, cacheVars, readerVars, changeVars
<1>18. ASSUME NEW t \in Tables, NEW schema \in Versions, OtherCreates(t, schema)
      PROVE  NoStaleFacts'
  <2> SUFFICES ASSUME NEW u \in Tables, ~BeingChanged(u)'
               PROVE  FreshFacts(u)'
    BY DEF NoStaleFacts
  <2>1. FreshFacts(u)
    BY <1>18 DEF NoStaleFacts, BeingChanged, OtherCreates
  <2>2. CASE u = t
    BY <1>18, <2>1, <2>2 DEF FreshFacts, OtherCreates, TypeOK, cacheVars
  <2>3. CASE u # t
    BY <1>18, <2>1, <2>3 DEF FreshFacts, OtherCreates, TypeOK, cacheVars
  <2> QED
    BY <2>2, <2>3
<1> QED
  BY <1>1, <1>2, <1>3, <1>4, <1>5, <1>6, <1>7, <1>8, <1>9, <1>10, <1>11, <1>12,
     <1>13, <1>14, <1>14a, <1>15, <1>16, <1>17, <1>18 DEF Next

\* In a process that has the database to itself and whose schema changes are
\* not cancelled, a table no task is in the middle of changing has no stale
\* entry: ensure_schema_table, schema_add_column, schema_drop_table, exec_raw
\* and exec_raw_transaction leave none behind.
THEOREM EveryChangeInvalidates ==
  ASSUME ~MayCancel, ~OthersCreate
  PROVE  Spec => []NoStaleEntry
<1>1. Init => NoneCancelled /\ DirtyInv
  BY DEF Init, NoneCancelled, DirtyInv
<1>2. /\ FreshInv
      /\ NoneCancelled /\ DirtyInv
      /\ [Next]_vars
      => (NoneCancelled /\ DirtyInv)'
  BY NoneCancelledStep, DirtyStep DEF FreshInv
<1>3. FreshInv /\ DirtyInv => NoStaleEntry
  BY DEF FreshInv, DirtyInv, CacheFresh, NoStaleEntry
<1> QED
  BY <1>1, <1>2, <1>3, CacheInvariance, PTL DEF Spec

\* Whatever tables another process creates, no cached column list or id
\* policy is out of date once this process's own changes have returned.
THEOREM FactsStayCurrent ==
  ASSUME ~MayCancel
  PROVE  Spec => []NoStaleFacts
<1>1. Init => NoneCancelled /\ SeenInv /\ NoStaleFacts
  BY DEF Init, NoneCancelled, SeenInv, Current, NoStaleFacts, FreshFacts
<1>2. /\ FreshInv
      /\ NoneCancelled /\ SeenInv /\ NoStaleFacts
      /\ [Next]_vars
      => (NoneCancelled /\ SeenInv /\ NoStaleFacts)'
  BY NoneCancelledStep, SeenStep, FactsStep DEF FreshInv
<1> QED
  BY <1>1, <1>2, CacheInvariance, PTL DEF Spec
=============================================================================
