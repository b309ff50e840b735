---------------------------- MODULE MCDetection ----------------------------
(***************************************************************************)
(* The detectors (DetectorFleet) and the features computed from what they  *)
(* find (RegimeFeatures), for TLC.  A behaviour is one of one of the two:  *)
(* part says which, and the variables of the other are off.  The windows   *)
(* of the trend detectors (12 generations in the code) and of the features *)
(* are scaled down together.                                               *)
(***************************************************************************)
EXTENDS DetectorFleet

CONSTANTS
  h1, nohost, a, b,
  \* of RegimeFeatures
  RegimeHosts, RegimeKinds, RegimeSource, RegimeWarn, RegimeCritical,
  TrajectoryMinSamples, TrajectoryWindow, PersistenceWindow, EntrenchedStreak, ShortStreak,
  ManyInterruptions, RecoveryLookback, MinRunLength, MinCycles, NormalFactor, SlowFactor,
  ResolutionWindow, ResolutionMinSamples, CoOccurrenceMinDepth, CoOccurrenceLookback,
  Inputs, NoValue, KindOrder, PastKind, PastGens, PastSeries, MaxRegimeGen

VARIABLES part, rgen, stage, firing, series, asOf, present, warnings, features

Features == INSTANCE RegimeFeatures WITH
  Hosts <- RegimeHosts, Kinds <- RegimeKinds, SourceOf <- RegimeSource,
  WarnAfter <- RegimeWarn, CriticalAfter <- RegimeCritical,
  MaxGen <- MaxRegimeGen, gen <- rgen

ASSUME RegimeAssumption == Features!RegimeAssumption
ASSUME InputsAssumption == Features!InputsAssumption

featureVars == <<rgen, stage, firing, series, asOf, present, warnings, features>>
detectionVars == <<part, vars, featureVars>>

\* A variable of a machine that does not run.
IsOff(x) == x = "off"
FleetOff ==
  /\ IsOff(family) /\ IsOff(gen) /\ IsOff(now) /\ IsOff(source) /\ IsOff(host)
  /\ IsOff(current) /\ IsOff(history) /\ IsOff(rows) /\ IsOff(phase) /\ IsOff(heard)
  /\ IsOff(collected)
FeaturesOff ==
  /\ IsOff(rgen) /\ IsOff(stage) /\ IsOff(firing) /\ IsOff(series) /\ IsOff(asOf)
  /\ IsOff(present) /\ IsOff(warnings) /\ IsOff(features)

DetectionInit ==
  \/ part = "detectors" /\ Init /\ FeaturesOff
  \/ part = "features" /\ Features!Init /\ FleetOff

DetectionNext ==
  /\ UNCHANGED part
  /\ \/ part = "detectors" /\ Next /\ UNCHANGED featureVars
     \/ part = "features" /\ Features!Next /\ UNCHANGED vars

DetectionSpec == DetectionInit /\ [][DetectionNext]_detectionVars
-----------------------------------------------------------------------------
\* Values of the detectors.

MCSourceOf == [k \in Keys |-> None]
MCKinds == {"stale_host", "source_error"} \cup UNION {FamilyKinds[f] : f \in DOMAIN FamilyKinds}

MCConfig ==
  [walPct |-> 500, walFloor |-> 2, walSmall |-> 10, freePct |-> 2000, freeFloor |-> 2,
   pinFloor |-> 2, pinStall |-> 1, stale |-> 2, fresh |-> 1, silent |-> 2, scrub |-> 2]

MCWindows ==
  [span |-> 2, driftGens |-> 3, driftRows |-> 3, driftSamples |-> 2, flapGens |-> 2,
   flaps |-> 1, dropoutGens |-> 2, logGens |-> 2, logSamples |-> 1, logLines |-> 5,
   errors |-> 25, shiftGens |-> 2, shiftSeries |-> 0]

MCIdleHost == [disk |-> 50, mem |-> 40, cpu |-> 5]

Pool(status, tags, state, n) ==
  [status |-> status, tags |-> tags, pool |-> state, size |-> 10, alloc |-> 2 * n,
   free |-> Null, vdev |-> IF n > 4 THEN "FAULTED" ELSE "ONLINE", scrubbed |-> 0,
   scanning |-> n < 4, spare |-> n > 4, counters |-> <<0, n, Null>>]
ZfsTags ==
  {"pool_state", "pool_capacity", "vdev_state", "vdev_error_counters", "scrub_completion", "spare_state"}

Device(status, tags, n) ==
  [status |-> status, tags |-> tags, passed |-> TRUE, uncorrected |-> <<Null, 0, n>>,
   media |-> n, used |-> 20 * n, spare |-> 50 - 10 * n, warning |-> n,
   temperature |-> 30 + 10 * n, class |-> "nvme", reallocated |-> n]
SmartTags ==
  {"smart_overall_status", "scsi_error_counters", "nvme_health_log", "temperature",
   "ata_smart_attributes"}

MCData ==
  [host     |-> {MCIdleHost, [disk |-> 95, mem |-> 90, cpu |-> 40]},
   services |-> {[status |-> s] : s \in {"up", "down", "absent"}},
   sqlite   |-> {[size |-> 10, wal |-> 0, free |-> 0, dbMtime |-> 1, walMtime |-> 1],
                 [size |-> 10, wal |-> 4, free |-> 4, dbMtime |-> 1, walMtime |-> 2],
                 [size |-> 0, wal |-> 3, free |-> Null, dbMtime |-> Null, walMtime |-> 2]},
   metrics  |-> {[values |-> v] :
                   v \in {[s \in {} |-> "number"], [s \in {a} |-> "number"],
                          [s \in {a, b} |-> IF s = b THEN "nan" ELSE "number"]}},
   logs     |-> {[lines |-> 0, errors |-> 0, fetch |-> "ok"],
                 [lines |-> 8, errors |-> 0, fetch |-> "ok"],
                 [lines |-> 8, errors |-> 4, fetch |-> "ok"]},
   zfs      |-> {Pool("ok", ZfsTags, "ONLINE", 1), Pool("ok", ZfsTags, "DEGRADED", 5),
                 Pool("partial", ZfsTags \ {"vdev_state"}, "SUSPENDED", 5),
                 Pool("failed", {}, "none", 0)},
   smart    |-> {Device("ok", SmartTags, 0), Device("ok", SmartTags, 4),
                 Device("partial", SmartTags \ {"nvme_health_log"}, 4), Device("failed", {}, 0)},
   checks   |-> {[mode |-> "non_empty", threshold |-> Null, result |-> <<>>],
                 [mode |-> "non_empty", threshold |-> Null, result |-> <<1>>],
                 [mode |-> "broken", threshold |-> Null, result |-> <<>>],
                 [mode |-> "threshold", threshold |-> 3, result |-> <<Null, 5>>]}]
-----------------------------------------------------------------------------
\* Values of the features.

MCKindOrder == <<"check_failed", "disk_pressure", "stale_host", "wal_bloat">>
MCRegimeKinds == ToSet(MCKindOrder)
MCRegimeSource == [k \in {"h"} \X MCRegimeKinds |-> None]

\* Calm, a little more, pressure, and silence with and without an explanation.
MCInputs ==
  {[value |-> 20, fires |-> {"wal_bloat"}],
   [value |-> 21, fires |-> {}],
   [value |-> 40, fires |-> {"check_failed", "disk_pressure", "wal_bloat"}],
   [value |-> NoValue, fires |-> {"stale_host"}],
   [value |-> NoValue, fires |-> {"disk_pressure"}]}

MCPastSeries == {<<>>} \cup [1..4 -> {20, 21, 40, NoValue}]
-----------------------------------------------------------------------------
(***************************************************************************)
(* Properties.                                                             *)
(***************************************************************************)

\* A finding of a detector that does not forget is cleared only if the
\* collector behind it has testified since it last fired (run_all).
NoReportNoRecovery == [][part = "detectors" => ClearedByTestimony]_vars

\* While an unobservable node counts as observed, the row of the witness that
\* fell silent is there (detect_node_unobservable).
UnobservableHasCause == part = "detectors" => CauseIsThere

\* Lags, recurrences, plateaus, trends and the dominant companion are what their
\* definitions by quantifier say, over every history (regime.rs), and the badge a
\* page gets rests on features of this very generation (the order of the stages
\* in serve.rs).
FeaturesAsDefined ==
  part = "features" =>
    /\ Features!LagsAreEpisodes /\ Features!SeriesIsRead /\ Features!DominantIsBest
    /\ Features!AnnotatedFresh
=============================================================================
