----------------------------- MODULE Detectors -----------------------------
(***************************************************************************)
(* What makes each detector of crates/nq-db/src/detect.rs fire.  A current *)
(* row is a record of the columns the detectors read; a history is the     *)
(* sequence of the rows of one subject, oldest first, each with the        *)
(* generation gen it was written in.  Messages, diagnoses and the value    *)
(* column, which no stage of the lifecycle reads, are left out.            *)
(*                                                                         *)
(* Levels read current rows, edges the two newest history rows, trends a   *)
(* window of history rows.                                                 *)
(***************************************************************************)
EXTENDS Integers, FiniteSets, Sequences, SequencesExt

CONSTANTS
  Config,   \* DetectorConfig; percentages in hundredths
  Windows   \* the literals of the trend detectors, to be scaled together

\* The SQL NULL of a numeric column.
Null == -1

ASSUME DetectorsAssumption ==
  /\ Config \in [walPct : Nat, walFloor : Nat, walSmall : Nat, freePct : Nat,
                 freeFloor : Nat, pinFloor : Nat, pinStall : Nat, stale : Nat,
                 fresh : Nat, silent : Nat, scrub : Nat]
  /\ Windows \in [span : Nat, driftGens : Nat, driftRows : Nat, driftSamples : Nat,
                  flapGens : Nat, flaps : Nat, dropoutGens : Nat, logGens : Nat,
                  logSamples : Nat, logLines : Nat, errors : Nat,
                  shiftGens : Nat, shiftSeries : Nat]
-----------------------------------------------------------------------------
(***************************************************************************)
(* Monitored SQLite databases.                                             *)
(***************************************************************************)

\* v_sqlite_dbs: part as a percentage of size in hundredths, rounded to one;
\* 0 where the view has NULL, as the detectors read it.
Percent(part, size) ==
  IF size = 0 \/ part = Null THEN 0 ELSE (2 * 10000 * part + size) \div (2 * size)

WalBloat(d) ==
  /\ d.wal > 0
  /\ \/ Percent(d.wal, d.size) > Config.walPct
     \/ d.size < Config.walSmall /\ d.wal > Config.walFloor

\* Large, and written to while the main file is not.
PinnedWal(d, now) ==
  /\ d.wal # Null /\ d.wal > Config.pinFloor
  /\ d.dbMtime # Null /\ d.walMtime # Null
  /\ now - d.dbMtime > Config.pinStall
  /\ d.walMtime > d.dbMtime

FreelistBloat(d) ==
  /\ d.free # Null
  /\ Percent(d.free, d.size) > Config.freePct
  /\ d.free > Config.freeFloor
-----------------------------------------------------------------------------
(***************************************************************************)
(* Hosts and services.                                                     *)
(***************************************************************************)
Stale(asOf, g) == g - asOf > Config.stale
Fresh(asOf, g) == g - asOf <= Config.fresh

DiskPressure(h, asOf, g) == h.disk > 90 /\ Fresh(asOf, g)
MemPressure(h, asOf, g) == h.mem > 85 /\ Fresh(asOf, g)

ServiceStatus(s) == s.status \notin {"up", "unknown"}

\* A service that is down is an incident, which floors its severity.
Incident(s) == s.status \in {"down", "failed", "dead"}

\* Rows of a history that are no older than the window.
Recent(hist, g) == SelectSeq(hist, LAMBDA r : r.gen >= g - Windows.span)

Total(f(_), rows) == FoldLeft(LAMBDA n, r : n + f(r), 0, rows)

\* A value v against the average of the rows before it, by margin and floor.
Above(v, col(_), rows, margin, floor) ==
  LET known == SelectSeq(rows, LAMBDA r : col(r) # Null) IN
  /\ v # Null /\ known # <<>>
  /\ v * Len(known) > Total(col, known) + margin * Len(known)
  /\ v > floor

\* The newest row against up to driftRows - 1 before it.  The rows are the
\* newest there are, however old.  Load is in tenths.
ResourceDrift(hist) ==
  LET rows == SubSeq(hist, IF Len(hist) > Windows.driftRows
                           THEN Len(hist) - Windows.driftRows + 1 ELSE 1, Len(hist))
      last == Last(rows)
      prior == Front(rows)
      loads == SelectSeq(prior, LAMBDA r : r.cpu # Null)
      load == Total(LAMBDA r : r.cpu, loads)
  IN  /\ Len(hist) >= Windows.driftGens
      /\ Len(prior) >= Windows.driftSamples
      /\ \/ Above(last.disk, LAMBDA r : r.disk, prior, 5, 70)
         \/ Above(last.mem, LAMBDA r : r.mem, prior, 10, 60)
         \/ load > Len(loads) /\ last.cpu * Len(loads) > 2 * load /\ last.cpu > 20

ServiceFlap(hist, g) ==
  LET rows == Recent(hist, g) IN
  /\ Len(hist) >= Windows.flapGens
  /\ Cardinality({i \in 1 .. Len(rows) - 1 : rows[i].status # rows[i + 1].status}) >= Windows.flaps

\* Often there in the window and not there now: a service or a series.
SignalDropout(hist, g, present) ==
  /\ Len(hist) >= Windows.dropoutGens
  /\ Len(Recent(hist, g)) >= Windows.dropoutGens
  /\ ~present
-----------------------------------------------------------------------------
(***************************************************************************)
(* Metrics and logs.                                                       *)
(***************************************************************************)
MetricSignal(value) == value \in {"nan", "inf"}

\* series: the dictionary, first and last generation of each series.
ScrapeRegimeShift(series, g) ==
  LET active == {s \in DOMAIN series : series[s].last = g}
      fresh == {s \in DOMAIN series : series[s].first = g}
      vanished == {s \in DOMAIN series : series[s].last < g /\ series[s].last >= g - 2}
      total == Cardinality(active)
  IN  /\ g >= Windows.shiftGens
      /\ total > Windows.shiftSeries
      /\ Cardinality(fresh) > total \div 5 \/ Cardinality(vanished) > total \div 10

\* The window before the generation: what is usual.
Baseline(hist, g) == SelectSeq(Recent(hist, g), LAMBDA r : r.gen < g)

LogSilence(l, hist, g) ==
  LET usual == Baseline(hist, g) IN
  /\ Len(hist) >= Windows.logGens
  /\ l.lines = 0 /\ l.fetch \in {"ok", "source_quiet"}
  /\ Len(usual) >= Windows.logSamples
  /\ Total(LAMBDA r : r.lines, usual) > Windows.logLines * Len(usual)

\* Average error ratio of the rows, as <<numerator, denominator>>.
ErrorRatio(rows) ==
  LET spoken == SelectSeq(rows, LAMBDA r : r.lines > 0)
      common == FoldLeft(LAMBDA n, r : n * r.lines, 1, spoken)
  IN  <<Total(LAMBDA r : r.errors * (common \div r.lines), spoken), common * Len(rows)>>

\* Many errors, or three times and five points above the usual ratio.
ErrorShift(l, hist, g) ==
  LET usual == Baseline(hist, g)
      n == ErrorRatio(usual)[1]
      d == ErrorRatio(usual)[2]
  IN  /\ Len(hist) >= Windows.logGens
      /\ l.lines > 0
      /\ \/ l.errors >= Windows.errors
         \/ /\ Len(usual) >= Windows.logSamples
            /\ l.errors * d >= 3 * n * l.lines
            /\ 20 * l.errors * d >= (20 * n + d) * l.lines
-----------------------------------------------------------------------------
(***************************************************************************)
(* Witnesses.  w is the witness row with its coverage; every detector but  *)
(* the one for silence needs its tags in w.tags, the tags the newest       *)
(* report can testify to.                                                  *)
(***************************************************************************)
WitnessSilent(w, received, now) == w.status = "failed" \/ now - received > Config.silent

ZfsPoolDegraded(w) == "pool_state" \in w.tags /\ w.pool = "DEGRADED"
ZfsPoolSuspended(w) == "pool_state" \in w.tags /\ w.pool = "SUSPENDED"

\* alloc, or size - free where only free was testified to.
ZfsPoolCapacityPressure(w) ==
  /\ "pool_capacity" \in w.tags
  /\ w.size > 0
  /\ w.alloc # Null \/ w.free # Null
  /\ (IF w.alloc # Null THEN w.alloc ELSE w.size - w.free) * 100 >= 80 * w.size

ZfsVdevFaulted(w) == "vdev_state" \in w.tags /\ w.vdev \in {"FAULTED", "UNAVAIL"}

ZfsScrubOverdue(w, now) ==
  /\ "scrub_completion" \in w.tags
  /\ w.scrubbed # Null /\ ~w.scanning
  /\ now - w.scrubbed > Config.scrub

\* The two newest history rows, whatever their generations.
Edge(hist, changed(_, _)) ==
  Len(hist) >= 2 /\ changed(hist[Len(hist) - 1], hist[Len(hist)])

ZfsPoolHealthChanged(w, hist) ==
  "pool_state" \in w.tags /\ Edge(hist, LAMBDA a, b : a.pool # b.pool)

ZfsSpareActivated(w, hist) ==
  "spare_state" \in w.tags /\ Edge(hist, LAMBDA a, b : ~a.spare /\ b.spare)

\* signed_delta: an unread counter counts as 0.
Delta(a, b) == (IF b = Null THEN 0 ELSE b) - (IF a = Null THEN 0 ELSE a)

\* Some counter rose and none fell.
ZfsErrorCountIncreased(w, hist) ==
  /\ {"vdev_state", "vdev_error_counters"} \subseteq w.tags
  /\ Edge(hist, LAMBDA a, b :
            LET deltas == {Delta(a.counters[i], b.counters[i]) : i \in DOMAIN a.counters}
            IN  (\A x \in deltas : x >= 0) /\ (\E x \in deltas : x > 0))

\* Errors the device's class of counters can testify to.
UncorrectedErrors(w) ==
  \/ "scsi_error_counters" \in w.tags /\ \E i \in DOMAIN w.uncorrected : w.uncorrected[i] > 0
  \/ "nvme_health_log" \in w.tags /\ w.media > 0

SmartStatusLies(w) ==
  "smart_overall_status" \in w.tags /\ w.passed /\ UncorrectedErrors(w)

SmartNvmePercentageUsed(w) == "nvme_health_log" \in w.tags /\ w.used # Null /\ w.used >= 80
SmartNvmeAvailableSpareLow(w) == "nvme_health_log" \in w.tags /\ w.spare # Null /\ w.spare <= 10
SmartNvmeCriticalWarning(w) == "nvme_health_log" \in w.tags /\ w.warning # Null /\ w.warning # 0

SmartTemperatureHigh(w) ==
  /\ "temperature" \in w.tags
  /\ w.temperature # Null
  /\ w.class \in {"nvme", "scsi", "ata"}
  /\ w.temperature >= CASE w.class = "nvme" -> 70 [] w.class = "scsi" -> 55 [] OTHER -> 50

SmartReallocatedSectorsRising(w, hist) ==
  /\ "ata_smart_attributes" \in w.tags
  /\ Edge(hist, LAMBDA a, b : Delta(a.reallocated, b.reallocated) > 0)
-----------------------------------------------------------------------------
(***************************************************************************)
(* Saved checks.  A result is the rows of the query, at most 100, each the *)
(* value of the check's column or Null where it is no number.              *)
(***************************************************************************)
ThresholdExceeded(result, threshold) ==
  \E i \in DOMAIN result : result[i] # Null /\ result[i] > threshold

CheckFailed(check) ==
  \/ check.mode = "non_empty" /\ check.result # <<>>
  \/ check.mode = "empty" /\ check.result = <<>>
  \/ /\ check.mode = "threshold"
     /\ check.threshold # Null
     /\ ThresholdExceeded(check.result, check.threshold)
=============================================================================
