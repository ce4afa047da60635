----------------------------- MODULE WaitGraph ------------------------------
(***************************************************************************)
(* The wait-for graph of in-flight inits at the level of its data          *)
(* structures (runtime/init_waits.rs): a map from blocks to the attempts   *)
(* running their Init, and for every attempt the LIST of the blocks it     *)
(* waits for, one entry per live WaitGuard.  InitPipeline uses the graph   *)
(* through what `reaches` answers; here the depth-first search itself is   *)
(* modelled, with the `seen` set its branches share and the path it builds.*)
(* Every operation is one critical section of `InitWaits.graph`.           *)
(***************************************************************************)
EXTENDS Naturals, Sequences, SequencesExt

CONSTANTS
  Blocks,     \* registered blocks
  Attempts,   \* attempt ids
  NoOwner,    \* not an attempt
  NoBlock,    \* not a block: an attempt not created yet
  MaxWaits    \* bound: live waits, of all attempts together

VARIABLES
  owners,   \* WaitGraph.owners
  waits,    \* WaitGraph.waits; an attempt without entry has the empty list
  block,    \* InitAttempt.block
  phase,    \* "new", "running" while the OwnerGuard lives, then "ended"
  guards    \* attempt -> block -> live WaitGuards

vars == <<owners, waits, block, phase, guards>>

Init ==
  /\ owners = [b \in Blocks |-> NoOwner]
  /\ waits  = [a \in Attempts |-> <<>>]
  /\ block  = [a \in Attempts |-> NoBlock]
  /\ phase  = [a \in Attempts |-> "new"]
  /\ guards = [a \in Attempts |-> [b \in Blocks |-> 0]]

-----------------------------------------------------------------------------
(* WaitGraph::reaches.  The result holds the answer and what the search did*)
(* to its two `&mut` arguments.                                            *)

\* Mutant: an attempt met before ends the search, not just its branch.
RECURSIVE ReachesUntilSeen(_, _, _, _)
ReachesUntilSeen(from, goal, path, seen) ==
  LET owner == owners[from]
      Found(yes, s) == [found |-> yes, path |-> path, seen |-> s, over |-> yes]
      Try(r, next) ==
        IF r.over THEN r
        ELSE LET deeper == ReachesUntilSeen(next, goal, Append(r.path, next), r.seen)
             IN  IF deeper.found THEN deeper ELSE [deeper EXCEPT !.path = Front(@)]
  IN
  IF owner = NoOwner THEN Found(FALSE, seen)
  ELSE IF owner = goal THEN Found(TRUE, seen)
  ELSE IF owner \in seen THEN [Found(FALSE, seen) EXCEPT !.over = TRUE]
  ELSE FoldLeft(Try, Found(FALSE, seen \cup {owner}), waits[owner])

\* Mutant: a branch that fails leaves its block on the path.
RECURSIVE ReachesWithoutPop(_, _, _, _)
ReachesWithoutPop(from, goal, path, seen) ==
  LET owner == owners[from]
      Try(r, next) ==
        IF r.found THEN r ELSE ReachesWithoutPop(next, goal, Append(r.path, next), r.seen)
  IN
  IF owner \in {NoOwner} \cup seen THEN [found |-> FALSE, path |-> path, seen |-> seen]
  ELSE IF owner = goal THEN [found |-> TRUE, path |-> path, seen |-> seen]
  ELSE FoldLeft(Try, [found |-> FALSE, path |-> path, seen |-> seen \cup {owner}], waits[owner])

RECURSIVE Reaches(_, _, _, _)
Reaches(from, goal, path, seen) ==
  LET owner == owners[from]
      Found(yes, s) == [found |-> yes, path |-> path, seen |-> s]
      \* One turn of the loop over the owner's waits.
      Try(r, next) ==
        IF r.found THEN r
        ELSE LET deeper == Reaches(next, goal, Append(r.path, next), r.seen)
             IN  IF deeper.found THEN deeper ELSE [deeper EXCEPT !.path = Front(@)]
  IN
  IF owner = NoOwner THEN Found(FALSE, seen)
  ELSE IF owner = goal THEN Found(TRUE, seen)
  ELSE IF owner \in seen THEN Found(FALSE, seen)
  ELSE FoldLeft(Try, Found(FALSE, seen \cup {owner}), waits[owner])

\* What wait_for asks, and the path it returns when it refuses.
Search(a, target) == Reaches(target, a, <<block[a], target>>, {})

-----------------------------------------------------------------------------
(* The operations *)

(* InitWaits::attempt, before the attempt lock is asked for, and own, under*)
(* it.  An attempt has no context to wait with before it owns its block, so*)
(* the two count as one step; of the lock, what matters is that no other   *)
(* attempt at the block is running.                                        *)
Own(a, b) ==
  /\ phase[a] = "new"
  /\ \A x \in Attempts : phase[x] = "running" => block[x] # b
  /\ block' = [block EXCEPT ![a] = b]
  /\ owners' = [owners EXCEPT ![b] = a]
  /\ phase' = [phase EXCEPT ![a] = "running"]
  /\ UNCHANGED <<waits, guards>>

\* OwnerGuard::drop
DropOwner(a) ==
  /\ phase[a] = "running"
  /\ owners' = IF owners[block[a]] = a THEN [owners EXCEPT ![block[a]] = NoOwner] ELSE owners
  /\ phase' = [phase EXCEPT ![a] = "ended"]
  /\ UNCHANGED <<waits, block, guards>>

LiveWaits == FoldFunction(LAMBDA list, n : Len(list) + n, 0, waits)

\* Mutant: no search before the edge is added.
WaitForUnchecked(a, target) ==
  /\ phase[a] # "new"
  /\ LiveWaits < MaxWaits
  /\ waits' = [waits EXCEPT ![a] = Append(@, target)]
  /\ guards' = [guards EXCEPT ![a][target] = @ + 1]
  /\ UNCHANGED <<owners, block, phase>>

(* InitWaits::wait_for, by a context of a running attempt or one kept past *)
(* it.  A refused wait leaves the graph as it is.                          *)
WaitFor(a, target) ==
  /\ phase[a] # "new"
  /\ LiveWaits < MaxWaits
  /\ ~Search(a, target).found
  /\ waits' = [waits EXCEPT ![a] = Append(@, target)]
  /\ guards' = [guards EXCEPT ![a][target] = @ + 1]
  /\ UNCHANGED <<owners, block, phase>>

\* Vec::swap_remove
SwapRemove(s, i) ==
  IF i = Len(s) THEN Front(s) ELSE [Front(s) EXCEPT ![i] = Last(s)]

\* Mutant: every wait on the block goes with the first guard (`retain`).
DropWaitAll(a, target) ==
  /\ guards[a][target] > 0
  /\ waits' = [waits EXCEPT ![a] = SelectSeq(@, LAMBDA t : t # target)]
  /\ guards' = [guards EXCEPT ![a][target] = @ - 1]
  /\ UNCHANGED <<owners, block, phase>>

\* WaitGuard::drop
DropWait(a, target) ==
  /\ guards[a][target] > 0
  /\ waits' = [waits EXCEPT ![a] =
                 IF Contains(@, target) THEN SwapRemove(@, SelectInSeq(@, LAMBDA t : t = target))
                 ELSE @]
  /\ guards' = [guards EXCEPT ![a][target] = @ - 1]
  /\ UNCHANGED <<owners, block, phase>>

Next ==
  \E a \in Attempts :
    \/ \E b \in Blocks : Own(a, b) \/ WaitFor(a, b) \/ DropWait(a, b)
    \/ DropOwner(a)

Spec == Init /\ [][Next]_vars

-----------------------------------------------------------------------------
(* Properties *)

\* The attempts that exist, hence may ask.
Created == {a \in Attempts : phase[a] # "new"}

\* The attempts a waits for.
WaitedOwners(a) == {owners[t] : t \in ToSet(waits[a])} \ {NoOwner}

\* Reachability by closed sets: the form InitPipeline uses.
Reachable(from, goal) ==
  /\ owners[from] # NoOwner
  /\ \A R \in SUBSET Attempts :
       owners[from] \in R /\ (\A a \in R : WaitedOwners(a) \subseteq R) => goal \in R

(* The search answers exactly reachability, in every graph the operations  *)
(* build: the seen set shared by all branches never hides a path (diamonds,*)
(* repeated waits), and the order of the lists does not matter.            *)
SearchExact ==
  \A a \in Created, t \in Blocks : Search(a, t).found <=> Reachable(t, a)

(* A refusal names a real cycle: it starts at the waiter's block, each     *)
(* block's owner waits for the next, the last block is the waiter's own,   *)
(* and only the first and last coincide.                                   *)
RefusalsNameCycles ==
  \A a \in Created, t \in Blocks :
    LET found == Search(a, t).found
        path  == Search(a, t).path
    IN  found =>
          /\ Head(path) = block[a] /\ Last(path) = block[a] /\ owners[Last(path)] = a
          /\ path[2] = t
          /\ \A i \in 2..(Len(path) - 1) :
               owners[path[i]] # NoOwner /\ Contains(waits[owners[path[i]]], path[i + 1])
          /\ IsInjective(Tail(path))

(* The lists hold one entry per live guard, whatever guards were dropped in*)
(* which order: sibling waits of one attempt are counted apart.            *)
WaitsMatchGuards ==
  \A a \in Attempts, t \in Blocks :
    Len(SelectSeq(waits[a], LAMBDA x : x = t)) = guards[a][t]

(* The graph never closes, waits of ended attempts included: a new owner   *)
(* has no waits yet, and wait_for refuses the edge that would close it.    *)
Acyclic ==
  \A S \in SUBSET Attempts :
    S # {} => \E a \in S : WaitedOwners(a) \cap S = {}
=============================================================================
