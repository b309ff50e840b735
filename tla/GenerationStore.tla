-------------------------- MODULE GenerationStore --------------------------
(***************************************************************************)
(* Generations on disk: the serve loop publishes one per cycle             *)
(* (publish_batch) and, every so many cycles, prunes the oldest against a  *)
(* tombstone (retention.rs).  Rows of the history tables go with their     *)
(* generation (ON DELETE CASCADE).  Rows of the collectors' current-state  *)
(* tables hold theirs (REFERENCES without an action); those of the         *)
(* witnesses (zfs, smart, gpu) carry its number only, and outlive it.      *)
(*                                                                         *)
(* A second process, nq-monitor probe, adds history rows to a generation   *)
(* that it read earlier.                                                   *)
(*                                                                         *)
(* What later stages of a cycle add to the new generation (observations of *)
(* findings, features, the seal) is there before the cycle prunes, and is  *)
(* not told apart from what publish_batch writes.                          *)
(***************************************************************************)
EXTENDS Naturals, FiniteSets, FiniteSetsExt

CONSTANTS
  Reporters,       \* hosts whose collectors may report
  Witnesses,       \* hosts whose witness (zfs, smart, gpu) may report
  MaxGenerations,  \* retention.max_generations
  PruneEvery,      \* retention.prune_every_n_cycles
  MaxIssued,       \* bound on the generations of a behaviour
  MaxRows          \* bound on the history rows of one generation

ASSUME StoreAssumption ==
  /\ IsFiniteSet(Reporters)
  /\ IsFiniteSet(Witnesses)
  /\ MaxGenerations \in Nat \ {0}
  /\ PruneEvery \in Nat \ {0}
  /\ MaxIssued \in Nat
  /\ MaxRows \in Nat

VARIABLES
  gens,       \* generations: id -> number of history rows that reference it
  current,    \* as_of_generation of each host in a collector's current-state table
  witnessed,  \* as_of_generation of each host in a witness's current-state table
  tombs,      \* evidence_tombstones
  cycle,      \* the loop's cycle counter, modulo PruneEvery; lost on restart
  storePhase, \* where the loop is
  sweep,      \* generations as the pruning transaction read them, {} outside it
  probe,      \* generation a running probe will write to, 0 for none
  issued,     \* history: generations ever committed
  inserted    \* history: id -> history rows ever committed with it

storeVars == <<gens, current, witnessed, tombs, cycle, storePhase, sweep, probe, issued, inserted>>

Ids == DOMAIN gens

StoreTypeOK ==
  /\ Ids \subseteq Nat
  /\ IsFiniteSet(Ids)
  /\ gens \in [Ids -> Nat]
  /\ DOMAIN current \subseteq Reporters
  /\ current \in [DOMAIN current -> Nat]
  /\ DOMAIN witnessed \subseteq Witnesses
  /\ witnessed \in [DOMAIN witnessed -> Nat]
  /\ \A t \in tombs : t.low \in Nat /\ t.high \in Nat /\ t.count \in Nat
  /\ cycle \in 0 .. PruneEvery - 1
  /\ storePhase \in {"pull", "publish", "prune", "sweep"}
  /\ storePhase # "sweep" => sweep = {}
  /\ probe \in Nat
  /\ issued \in Nat
  /\ inserted \in [1 .. issued -> Nat]

StoreInit ==
  /\ gens = [g \in {} |-> 0]
  /\ current = [h \in {} |-> 0]
  /\ witnessed = [h \in {} |-> 0]
  /\ tombs = {}
  /\ cycle = 0
  /\ storePhase = "pull"
  /\ sweep = {}
  /\ probe = 0
  /\ issued = 0
  /\ inserted = [g \in {} |-> 0]
-----------------------------------------------------------------------------
(***************************************************************************)
(* A cycle of the serve loop.                                              *)
(***************************************************************************)

\* pull_all failed: the cycle counts, and no pruning happens in it.
PullFails ==
  /\ storePhase = "pull"
  /\ cycle' = (cycle + 1) % PruneEvery
  /\ UNCHANGED <<gens, current, witnessed, tombs, storePhase, sweep, probe, issued, inserted>>

PullAll ==
  /\ storePhase = "pull"
  /\ cycle' = (cycle + 1) % PruneEvery
  /\ storePhase' = "publish"
  /\ UNCHANGED <<gens, current, witnessed, tombs, sweep, probe, issued, inserted>>

\* Mutant: ids are counted, not continued.
NextIdCounted == Cardinality(Ids) + 1

\* INTEGER PRIMARY KEY without AUTOINCREMENT: one more than the largest id.
NextId == IF Ids = {} THEN 1 ELSE Max(Ids) + 1

\* The rows of a current-state table once the hosts of heard are replaced.
Replaced(rows, heard) ==
  [h \in DOMAIN rows \cup heard |-> IF h \in heard THEN NextId ELSE rows[h]]

\* publish_batch commits a generation in which the collectors of up and the
\* witnesses of seen reported: the run records, which are written whatever was
\* collected and count as one row, and a history and a current-state row per
\* report.
PublishBatch(up, seen) ==
  LET written == 1 + Cardinality(up) + Cardinality(seen) IN
  /\ storePhase = "publish"
  /\ issued < MaxIssued
  /\ gens' = [g \in Ids \cup {NextId} |-> IF g = NextId THEN written ELSE gens[g]]
  /\ current' = Replaced(current, up)
  /\ witnessed' = Replaced(witnessed, seen)
  /\ issued' = issued + 1
  /\ inserted' = [g \in 1 .. issued' |-> IF g = issued' THEN written ELSE inserted[g]]
  /\ storePhase' = "prune"
  /\ UNCHANGED <<tombs, cycle, sweep, probe>>

\* The transaction rolled back; pruning is still considered.
PublishFails ==
  /\ storePhase = "publish"
  /\ storePhase' = "prune"
  /\ UNCHANGED <<gens, current, witnessed, tombs, cycle, sweep, probe, issued, inserted>>
-----------------------------------------------------------------------------
(***************************************************************************)
(* Pruning.                                                                *)
(***************************************************************************)
Excess == Cardinality(Ids) - MaxGenerations

\* The cycle is not one in which to prune, or there is nothing to prune.
SkipPrune ==
  /\ storePhase = "prune"
  /\ cycle # 0 \/ Cardinality(Ids) <= MaxGenerations
  /\ storePhase' = "pull"
  /\ UNCHANGED <<gens, current, witnessed, tombs, cycle, sweep, probe, issued, inserted>>

\* The transaction's first read fixes what it sees.
BeginSweep ==
  /\ storePhase = "prune"
  /\ cycle = 0
  /\ Cardinality(Ids) > MaxGenerations
  /\ sweep' = {<<g, gens[g]>> : g \in Ids}
  /\ storePhase' = "sweep"
  /\ UNCHANGED <<gens, current, witnessed, tombs, cycle, probe, issued, inserted>>

\* Mutant: one generation too many.
DoomedOneMore == {g \in Ids : Cardinality({x \in Ids : x < g}) <= Excess}

\* ORDER BY generation_id ASC LIMIT to_prune.
Doomed == {g \in Ids : Cardinality({x \in Ids : x < g}) < Excess}

\* Mutant: foreign keys are not enforced.
PinnedNever(low, high) == FALSE

\* A collector's current-state row references a generation of the range.
Pinned(low, high) == \E h \in DOMAIN current : low <= current[h] /\ current[h] <= high

\* Mutant: the rows counted before another commit are written down after it.
SnapshotCurrentAny == TRUE

\* No other process has committed since the transaction's first read; if one
\* has, the tombstone cannot be inserted (SQLITE_BUSY_SNAPSHOT).
SnapshotCurrent == sweep = {<<g, gens[g]>> : g \in Ids}

\* The history rows of the generations in a range, where numbers has their number.
RowsBetween(numbers, low, high) ==
  UNION {{x[1]} \X (1 .. x[2]) : x \in {y \in numbers : low <= y[1] /\ y[1] <= high}}

\* The rows the tombstone counts, from the transaction's snapshot.
CountedRows(low, high) == Cardinality(RowsBetween(sweep, low, high))

\* Tombstone and deletion commit together.
CommitSweep(low, high) ==
  /\ storePhase = "sweep"
  /\ \A g \in Doomed : low <= g /\ g <= high
  /\ SnapshotCurrent
  /\ ~Pinned(low, high)
  /\ tombs' = tombs \cup {[low |-> low, high |-> high, count |-> Excess,
                           rows |-> CountedRows(low, high)]}
  /\ gens' = [g \in {x \in Ids : ~(low <= x /\ x <= high)} |-> gens[g]]
  /\ sweep' = {}
  /\ storePhase' = "pull"
  /\ UNCHANGED <<current, witnessed, cycle, probe, issued, inserted>>

\* The sweep failed and rolled back, tombstone included.
FailSweep(low, high) ==
  /\ storePhase = "sweep"
  /\ \A g \in Doomed : low <= g /\ g <= high
  /\ ~SnapshotCurrent \/ Pinned(low, high)
  /\ sweep' = {}
  /\ storePhase' = "pull"
  /\ UNCHANGED <<gens, current, witnessed, tombs, cycle, probe, issued, inserted>>
-----------------------------------------------------------------------------
(***************************************************************************)
(* The probe, and crashes of the loop.                                     *)
(***************************************************************************)

\* read_latest_generation_id: the latest by completed_at, a wall-clock time, so
\* any generation if the clock was set back.  The query that follows may take
\* seconds.
ProbeStart(g) ==
  /\ probe = 0
  /\ probe' = g
  /\ UNCHANGED <<gens, current, witnessed, tombs, cycle, storePhase, sweep, issued, inserted>>

\* insert_dns_observation; without its generation the row is refused.
ProbeRecord ==
  /\ probe # 0
  /\ probe \in Ids => gens[probe] < MaxRows
  /\ gens' = IF probe \in Ids THEN [gens EXCEPT ![probe] = @ + 1] ELSE gens
  /\ inserted' = IF probe \in Ids THEN [inserted EXCEPT ![probe] = @ + 1] ELSE inserted
  /\ probe' = 0
  /\ UNCHANGED <<current, witnessed, tombs, cycle, storePhase, sweep, issued>>

\* The process dies and is restarted; open transactions roll back and the
\* cycle counter starts over.
Crash ==
  /\ storePhase' = "pull"
  /\ cycle' = 0
  /\ sweep' = {}
  /\ UNCHANGED <<gens, current, witnessed, tombs, probe, issued, inserted>>

StoreNext ==
  \/ PullFails
  \/ PullAll
  \/ \E up \in SUBSET Reporters, seen \in SUBSET Witnesses : PublishBatch(up, seen)
  \/ PublishFails
  \/ SkipPrune
  \/ BeginSweep
  \/ \E low, high \in Doomed : CommitSweep(low, high)
  \/ \E low, high \in Doomed : FailSweep(low, high)
  \/ \E g \in Ids : ProbeStart(g)
  \/ ProbeRecord
  \/ Crash

StoreSpec == StoreInit /\ [][StoreNext]_storeVars
-----------------------------------------------------------------------------
(***************************************************************************)
(* Properties that hold.                                                   *)
(***************************************************************************)
Covers(t, g) == t.low <= g /\ g <= t.high

\* No silent purge: every generation ever committed is kept, or is named by
\* exactly one tombstone, whose count is the number of ids it names; an id is
\* never issued twice (publish_batch, prune).
Accounted ==
  /\ \A g \in 1 .. issued : g \in Ids <=> ~\E t \in tombs : Covers(t, g)
  /\ \A t \in tombs, u \in tombs : t # u => t.high < u.low \/ u.high < t.low
  /\ \A t \in tombs : t.count = t.high - t.low + 1

\* A tombstone counts exactly the history rows that were ever committed with the
\* generations it names, and the generations that are kept have all of theirs,
\* whatever a probe writes while a sweep is under way (prune).
ReceiptsExact ==
  /\ \A g \in Ids : gens[g] = inserted[g]
  /\ \A t \in tombs :
       t.rows = Cardinality(RowsBetween({<<g, inserted[g]>> : g \in 1 .. issued}, t.low, t.high))

\* No current-state row is left with a generation nobody can account for.  That of
\* a collector's row is kept; that of a witness's row is kept, or it is older than
\* every generation kept and a tombstone names it.  The latest generation, which
\* every staleness view compares with, is never pruned (publish_batch, prune).
CurrentResolves ==
  /\ \A h \in DOMAIN current : current[h] \in Ids
  /\ \A h \in DOMAIN witnessed :
       \/ witnessed[h] \in Ids
       \/ /\ \A g \in Ids : witnessed[h] < g
          /\ \E t \in tombs : Covers(t, witnessed[h])
  /\ issued # 0 => issued \in Ids

\* The store implements the abstract log.
Log == INSTANCE EvidenceLog WITH
         live <- Ids,
         receipts <- {[low |-> t.low, high |-> t.high] : t \in tombs}

\* Publication appends, pruning forgets, and nothing else touches the log.
RefinesLog == Log!Spec
-----------------------------------------------------------------------------
(***************************************************************************)
(* What a document says and the code does not do.                          *)
(***************************************************************************)

\* OPERATOR_GUIDE: retention.max_generations bounds retained history rows.
\* Here: a sweep that no concurrent commit disturbs leaves no more than that.
SweepBounds ==
  [][\A low, high \in Doomed :
       FailSweep(low, high) /\ SnapshotCurrent => Cardinality(Ids') <= MaxGenerations]_storeVars
=============================================================================
