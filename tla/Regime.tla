------------------------------- MODULE Regime -------------------------------
(***************************************************************************)
(* The classifiers of crates/nq-db/src/regime.rs: what the last            *)
(* generations of a metric or of a finding amount to.  A series is a       *)
(* sequence of [gen, value] in the order of the generations, with gaps     *)
(* where nothing was reported; the presence of a finding is the set of     *)
(* generations it was observed in.                                         *)
(*                                                                         *)
(* Values are whole numbers; ratios and slopes are compared by cross       *)
(* multiplication, so nothing is rounded.  The constants of the source are *)
(* parameters here, the numeric factors are the source's own.              *)
(***************************************************************************)
EXTENDS Integers, FiniteSets, SequencesExt

CONSTANTS
  TrajectoryMinSamples,   \* 6 in the code
  TrajectoryWindow,       \* 12
  PersistenceWindow,      \* 50
  EntrenchedStreak,       \* 50
  ShortStreak,            \* 5
  ManyInterruptions,      \* 3
  RecoveryLookback,       \* 500
  MinRunLength,           \* 2
  MinCycles,              \* 2
  NormalFactor,           \* 2
  SlowFactor,             \* 5
  ResolutionWindow,       \* 50
  ResolutionMinSamples,   \* 10
  CoOccurrenceMinDepth,   \* 5
  CoOccurrenceLookback    \* 50

RegimeAssumption ==
  /\ \A c \in {TrajectoryMinSamples, TrajectoryWindow, PersistenceWindow,
               EntrenchedStreak, RecoveryLookback, MinRunLength, MinCycles,
               NormalFactor, SlowFactor, ResolutionWindow,
               ResolutionMinSamples, CoOccurrenceMinDepth, CoOccurrenceLookback} :
       c \in Nat \ {0}
  /\ ShortStreak \in Nat /\ ManyInterruptions \in Nat
  /\ NormalFactor <= SlowFactor

Least(a, b) == IF a < b THEN a ELSE b
Greatest(a, b) == IF a < b THEN b ELSE a
Abs(x) == IF x < 0 THEN -x ELSE x
Values(s) == {s[i].value : i \in DOMAIN s}

\* The part of a series that is younger than w generations at generation g.
Recent(s, g, w) == SelectSeq(s, LAMBDA x : x.gen > g - w)
-----------------------------------------------------------------------------
(***************************************************************************)
(* Trajectory and resolution of a metric.                                  *)
(***************************************************************************)

\* Sum over a series.
Total(s, Of(_)) == FoldLeft(LAMBDA acc, x : acc + Of(x), 0, s)

\* Least squares: the slope per generation is rise over run.
Rise(s) == Len(s) * Total(s, LAMBDA x : x.gen * x.value)
           - Total(s, LAMBDA x : x.gen) * Total(s, LAMBDA x : x.value)
Run(s) == LET sum == Total(s, LAMBDA x : x.gen)
          IN  Len(s) * Total(s, LAMBDA x : x.gen * x.gen) - sum * sum

\* Standard deviation above 1, that is 2 * FLAT_SLOPE_THRESHOLD * 10.
Spread(s) == LET sum == Total(s, LAMBDA x : x.value)
             IN  Len(s) * Total(s, LAMBDA x : x.value * x.value) - sum * sum
                 > Len(s) * Len(s)

\* build_trajectory; flat is below 0.05 per generation, and too short a series
\* is called flat.
Direction(s) ==
  IF Len(s) < TrajectoryMinSamples THEN "flat"
  ELSE IF 20 * Abs(Rise(s)) < Run(s) \/ Run(s) = 0
       THEN IF Spread(s) THEN "oscillating" ELSE "flat"
  ELSE IF Rise(s) > 0 THEN "rising" ELSE "falling"

\* Within 5 percent of the current value, or 0.05 near zero.
OnPlateau(v, current) == 100 * Abs(v - current) <= 5 * Greatest(Abs(current), 1)

\* plateau_depth: from the newest sample back to the first one off the plateau.
PlateauDepth(s) ==
  FoldRight(LAMBDA x, acc :
              IF acc.on /\ OnPlateau(x.value, Last(s).value)
              THEN [on |-> TRUE, depth |-> acc.depth + 1]
              ELSE [acc EXCEPT !.on = FALSE],
            s, [on |-> TRUE, depth |-> 0]).depth

\* A peak at least 10 percent above the current value was visible.
PriorPressure(s) == \E v \in Values(s) : 10 * v > 10 * Last(s).value + Abs(Last(s).value)

\* classify_recovery_phase
RecoveryPhase(direction) ==
  CASE direction = "falling" -> "improving"
    [] direction = "flat"    -> "settling"
    [] OTHER                 -> "acute"

\* The phase is told from the newest samples only.
ResolutionPhase(s) ==
  RecoveryPhase(Direction(SubSeq(s, Greatest(1, Len(s) - TrajectoryWindow + 1), Len(s))))
-----------------------------------------------------------------------------
(***************************************************************************)
(* Persistence and recovery of a finding.                                  *)
(***************************************************************************)

\* classify_persistence: below a fifth is transient, nine tenths entrenched.
PersistenceClass(streak, seen, window) ==
  IF streak < ShortStreak /\ window - seen >= ManyInterruptions THEN "transient"
  ELSE IF 5 * seen < window THEN "transient"
  ELSE IF 10 * seen >= 9 * window /\ streak >= EntrenchedStreak
          /\ window >= EntrenchedStreak THEN "entrenched"
  ELSE "persistent"

Persistence(present, streak, g) ==
  PersistenceClass(streak,
                   Cardinality({x \in present : x > g - PersistenceWindow}),
                   Least(PersistenceWindow, g))

\* Push one generation, or one run, onto a list of runs.
PushRun(runs, r) ==
  IF runs # <<>> /\ Last(runs).present = r.present
  THEN [runs EXCEPT ![Len(runs)].length = @ + r.length]
  ELSE Append(runs, r)

\* build_runs over the generations from..to.
BuildRuns(present, from, to) ==
  FoldLeft(PushRun, <<>>,
           [i \in 1..Greatest(0, to - from + 1) |->
              [present |-> (from + i - 1) \in present, length |-> 1]])

\* Mutant: what is left of the runs is not put together again.
CleanRunsUnmerged(runs) == SelectSeq(runs, LAMBDA r : r.length >= MinRunLength)

\* filter_short_and_merge_runs
CleanRuns(runs) ==
  FoldLeft(PushRun, <<>>, SelectSeq(runs, LAMBDA r : r.length >= MinRunLength))

\* Lengths of the runs at the given positions, oldest first.
LengthsAt(runs, At(_)) ==
  LET at == SetToSortSeq({i \in DOMAIN runs : At(i)}, <)
  IN  [j \in DOMAIN at |-> runs[at[j]].length]

\* extract_cycle_samples: presence that ended, absence between presences.
RecoveryLags(runs) ==
  LengthsAt(runs, LAMBDA i : /\ runs[i].present
                             /\ i < Len(runs)
                             /\ ~runs[i + 1].present)

RecurrenceIntervals(runs) ==
  LengthsAt(runs, LAMBDA i : /\ ~runs[i].present
                             /\ i > 1 /\ i < Len(runs)
                             /\ runs[i - 1].present /\ runs[i + 1].present)

\* median_i64, of a sequence that is not empty.
Median(s) ==
  LET sorted == SortSeq(s, <)
      n == Len(s)
  IN  IF n % 2 = 1 THEN sorted[n \div 2 + 1]
      ELSE (sorted[n \div 2] + sorted[n \div 2 + 1]) \div 2

\* classify_recovery_lag: the last closed cycle against the median of the ones
\* before it.  A run is never empty, so neither is the median zero.
LagClass(lags) ==
  IF Len(lags) <= MinCycles THEN "insufficient_history"
  ELSE IF Last(lags) <= NormalFactor * Median(Front(lags)) THEN "normal"
  ELSE IF Last(lags) <= SlowFactor * Median(Front(lags)) THEN "slow"
  ELSE "pathological"

\* The window begins after generation 0 or RecoveryLookback generations back.
FindingRuns(present, g) ==
  CleanRuns(BuildRuns(present, Greatest(0, g - RecoveryLookback) + 1, g))
Recovery(present, g) == LagClass(RecoveryLags(FindingRuns(present, g)))
-----------------------------------------------------------------------------
(***************************************************************************)
(* Co-occurrence of the findings of a host.                                *)
(***************************************************************************)
Signatures ==
  [accumulation |-> {{"disk_pressure", "wal_bloat"}, {"disk_pressure", "freelist_bloat"},
                     {"freelist_bloat", "wal_bloat"}},
   pressure |-> {{"disk_pressure", "mem_pressure"}, {"mem_pressure", "metric_signal"},
                 {"check_failed", "service_status"}},
   observability_failure |-> {{"log_silence", "signal_dropout"}, {"signal_dropout", "stale_host"},
                              {"scrape_regime_shift", "signal_dropout"}},
   entrenchment |-> {{"check_failed", "service_flap"}, {"service_flap", "stale_service"}},
   durability_degrading |-> {{"zfs_error_count_increased", "zfs_pool_degraded"},
                             {"zfs_error_count_increased", "zfs_vdev_faulted"}}]

\* lookup_regime_hint
RegimeHint(pair) ==
  IF \E h \in DOMAIN Signatures : pair \in Signatures[h]
  THEN CHOOSE h \in DOMAIN Signatures : pair \in Signatures[h]
  ELSE "none"

\* pair_overlap_depth: back from g to the first generation without both.
OverlapDepth(a, b, g) ==
  LET floor == Greatest(1, g - CoOccurrenceLookback + 1)
      depth[x \in 0..g] ==
        IF x >= floor /\ x \in a \cap b THEN 1 + depth[x - 1] ELSE 0
  IN  depth[g]

\* A named regime before an unnamed one, then the deeper, then the first by
\* name; rank is the place of the pair in the order of its names.
Better(c, d) ==
  IF (c.hint = "none") # (d.hint = "none") THEN d.hint = "none"
  ELSE IF c.depth # d.depth THEN c.depth > d.depth
  ELSE c.rank < d.rank

\* The loop over all pairs, in any order: the best seen so far is kept.
Dominant(candidates) ==
  FoldLeft(LAMBDA best, c : IF best = {} \/ \A d \in best : Better(c, d) THEN {c} ELSE best,
           {}, SelectSeq(candidates, LAMBDA c : c.depth >= CoOccurrenceMinDepth))
-----------------------------------------------------------------------------
\* derive_regime_badge; phases are those of the host's metrics, and a class
\* that was never computed is "none".
Badge(persistence, recovery, phases) ==
  IF recovery = "pathological" \/ "acute" \in phases THEN "worsening"
  ELSE IF phases \cap {"improving", "settling"} # {} THEN "resolving"
  ELSE IF persistence = "entrenched" /\ recovery \in {"normal", "slow"} THEN "stable"
  ELSE "none"
=============================================================================
