--------------------------- MODULE DetectorFleet ---------------------------
(***************************************************************************)
(* Every detector over the evidence of one host, through outages of its    *)
(* source, of its host collector and of the collector the detectors read.  *)
(* Each cycle publishes a generation and then runs detectors and lifecycle *)
(* pass in a second transaction, which may be lost.                        *)
(*                                                                         *)
(* The collectors of a host do not read each other's tables: detectors of  *)
(* two of them meet only in the rows that mask a whole host.  A behaviour  *)
(* therefore has the host collector and one other, its family.  A family   *)
(* has one subject (a service, a pool, a device, ...); only the metrics    *)
(* family has several series.                                              *)
(*                                                                         *)
(* The question is what becomes of a finding when its evidence stops, for  *)
(* levels, edges and trends alike.  Nothing here prunes history            *)
(* (GenerationStore does).                                                 *)
(***************************************************************************)
EXTENDS FindingRows, Detectors

CONSTANTS
  Host,      \* the host
  NoHost,    \* the empty host of findings about no host
  Families,  \* the collectors to choose from
  IdleHost,  \* what the host collector reports in other families
  Data,      \* what each family may report
  Kept,      \* metric series whose history the policy keeps
  Elapses,   \* time from one generation to the next
  MaxGen     \* bound on the generations of a behaviour

FamilyKinds ==
  [host     |-> {"disk_pressure", "mem_pressure", "resource_drift"},
   services |-> {"stale_service", "service_status", "service_flap", "signal_dropout"},
   sqlite   |-> {"wal_bloat", "pinned_wal", "freelist_bloat"},
   metrics  |-> {"metric_signal", "signal_dropout", "scrape_regime_shift"},
   logs     |-> {"log_silence", "error_shift"},
   zfs      |-> ZfsKinds \cup {"node_unobservable"},
   smart    |-> SmartKinds \cup {"node_unobservable"},
   checks   |-> {"check_failed", "check_error"}]

Witnesses == {"zfs", "smart"}
Hostless == {"scrape_regime_shift", "check_failed", "check_error"}

ASSUME FleetAssumption ==
  /\ Hosts = {Host, NoHost} /\ Host # NoHost
  /\ Families \subseteq DOMAIN FamilyKinds
  /\ "host" \in DOMAIN Data
  /\ Families \subseteq DOMAIN Data
  /\ {"stale_host", "source_error"} \subseteq Kinds
  /\ \A f \in Families \cup {"host"} : FamilyKinds[f] \subseteq Kinds
  /\ "sqlite" \in Families => \A d \in Data["sqlite"] : d.dbMtime \in Int
  /\ "zfs" \in Families => \A w \in Data["zfs"] : w.scrubbed \in Int
  /\ Elapses \subseteq Nat \ {0}
  /\ MaxGen \in Nat

VARIABLES
  family,   \* the collector of this behaviour besides the host collector
  gen,      \* the latest generation
  now,      \* the time of its pass
  source,   \* status of the source's latest run, None before the first
  host,     \* hosts_current: no row or one, with the generation it is of
  current,  \* current tables of the family: nothing or the latest report
  history,  \* history table of the subject, oldest row first
  rows,     \* warning_state
  phase,    \* "idle", or "published" while the pass is due
  heard,    \* history: kinds whose collector testified since they last fired
  collected \* history: rows entity GC took since they last fired

evidence == <<source, host, current, history>>
vars == <<family, gen, now, evidence, rows, phase, heard, collected>>

HostData == IF family = "host" THEN Data["host"] ELSE {IdleHost}

AtMostOne(S) == {<<>>} \cup {<<x>> : x \in S}

Init ==
  /\ family \in Families
  /\ gen = 0
  /\ now = 0
  /\ source = None
  /\ host = <<>>
  /\ current = <<>>
  /\ history = <<>>
  /\ rows = [k \in {} |-> FreshRow(k, [hash |-> None, incident |-> FALSE], 0, {})]
  /\ phase = "idle"
  /\ heard = {}
  /\ collected = {}
-----------------------------------------------------------------------------
(***************************************************************************)
(* Publishing.  A source that fails delivers nothing; a collector that     *)
(* fails leaves its tables as they were.                                   *)
(***************************************************************************)
Report ==
  [source : {"ok", "error"}, host : AtMostOne(HostData),
   data : AtMostOne(IF family = "host" THEN {} ELSE Data[family]), elapsed : Elapses]

\* A saved check is no collector: its query runs over the store in every pass.
Plausible(r) ==
  /\ r.source = "error" => r.host = <<>> /\ (r.data = <<>> \/ family = "checks")
  /\ family = "checks" => r.data # <<>>

\* The report's subject, unless its status is one that leaves no history.
Listed(r, statuses) ==
  IF r.data # <<>> /\ Head(r.data).status \notin statuses THEN r.data ELSE <<>>

\* What a report leaves in the history table of its family.
HostsHistory(r, g) ==
  [i \in DOMAIN r.host |-> [gen |-> g, disk |-> r.host[i].disk, mem |-> r.host[i].mem, cpu |-> r.host[i].cpu]]

ServicesHistory(r, g) ==
  LET listed == Listed(r, {"absent"})
  IN  [i \in DOMAIN listed |-> [gen |-> g, status |-> listed[i].status]]

\* Which series were scraped; Kept says of which the values are kept.
MetricsHistory(r, g) ==
  [i \in DOMAIN r.data |-> [gen |-> g, present |-> DOMAIN r.data[i].values]]

LogObservations(r, g) ==
  [i \in DOMAIN r.data |-> [gen |-> g, lines |-> r.data[i].lines, errors |-> r.data[i].errors]]

\* A witness that failed has no observations.
Observed(r) == Listed(r, {"failed"})

PublishZfsWitness(r, g) ==
  LET seen == Observed(r)
  IN  [i \in DOMAIN seen |-> [gen |-> g, pool |-> seen[i].pool, spare |-> seen[i].spare,
                              counters |-> seen[i].counters]]

PublishSmartWitness(r, g) ==
  LET seen == Observed(r)
  IN  [i \in DOMAIN seen |-> [gen |-> g, reallocated |-> seen[i].reallocated]]

HistoryRows(r, g) ==
  CASE family = "host" -> HostsHistory(r, g)
    [] family = "services" -> ServicesHistory(r, g)
    [] family = "metrics" -> MetricsHistory(r, g)
    [] family = "logs" -> LogObservations(r, g)
    [] family = "zfs" -> PublishZfsWitness(r, g)
    [] family = "smart" -> PublishSmartWitness(r, g)
    [] family \in {"sqlite", "checks"} -> <<>>

\* publish_batch: one transaction.
Publish(r) ==
  /\ phase = "idle"
  /\ gen < MaxGen
  /\ gen' = gen + 1
  /\ now' = now + r.elapsed
  /\ source' = r.source
  /\ host' = IF r.host = <<>> THEN host
             ELSE <<[data |-> Head(r.host), asOf |-> gen', received |-> now']>>
  /\ current' = IF r.data = <<>> THEN current
                ELSE <<[data |-> Head(r.data), asOf |-> gen', received |-> now']>>
  /\ history' = history \o HistoryRows(r, gen')
  /\ phase' = "published"
  /\ UNCHANGED <<family, rows, heard, collected>>
-----------------------------------------------------------------------------
(***************************************************************************)
(* Detecting.                                                              *)
(***************************************************************************)
HostFires(kind) ==
  /\ host # <<>>
  /\ LET c == Head(host) IN
     \/ kind = "stale_host" /\ Stale(c.asOf, gen)
     \/ kind = "disk_pressure" /\ DiskPressure(c.data, c.asOf, gen)
     \/ kind = "mem_pressure" /\ MemPressure(c.data, c.asOf, gen)
     \/ kind = "resource_drift" /\ family = "host" /\ ResourceDrift(history)

\* Mutant: a service row that is stale has nothing to say.
ServicesFireFresh(kind, c) ==
  \/ /\ c.data.status # "absent"
     /\ \/ kind = "stale_service" /\ Stale(c.asOf, gen)
        \/ kind = "service_status" /\ ServiceStatus(c.data) /\ Fresh(c.asOf, gen)
  \/ kind = "service_flap" /\ ServiceFlap(history, gen)
  \/ kind = "signal_dropout" /\ SignalDropout(history, gen, c.data.status # "absent")

ServicesFire(kind, c) ==
  \/ /\ c.data.status # "absent"
     /\ \/ kind = "stale_service" /\ Stale(c.asOf, gen)
        \/ kind = "service_status" /\ ServiceStatus(c.data)
  \/ kind = "service_flap" /\ ServiceFlap(history, gen)
  \/ kind = "signal_dropout" /\ SignalDropout(history, gen, c.data.status # "absent")

SqliteFires(kind, c) ==
  \/ kind = "wal_bloat" /\ WalBloat(c.data)
  \/ kind = "pinned_wal" /\ PinnedWal(c.data, now)
  \/ kind = "freelist_bloat" /\ FreelistBloat(c.data)

\* The dictionary of series: first and last generation of each.
Seen(s) == SelectSeq(history, LAMBDA r : s \in r.present)
SeriesDictionary ==
  [s \in UNION {history[i].present : i \in DOMAIN history} |->
     [first |-> Head(Seen(s)).gen, last |-> Last(Seen(s)).gen]]

MetricsFire(kind, c) ==
  \/ kind = "metric_signal" /\ \E s \in DOMAIN c.data.values : MetricSignal(c.data.values[s])
  \/ kind = "signal_dropout"
     /\ \E s \in Kept : SignalDropout(Seen(s), gen, s \in DOMAIN c.data.values)
  \/ kind = "scrape_regime_shift" /\ ScrapeRegimeShift(SeriesDictionary, gen)

LogsFire(kind, c) ==
  \/ kind = "log_silence" /\ LogSilence(c.data, history, gen)
  \/ kind = "error_shift" /\ ErrorShift(c.data, history, gen)

\* Mutant: a node is unobservable when its witness has reported nothing for
\* long, not when it reports its own failure.
ZfsFiresUnpaired(kind, c) ==
  LET w == c.data IN
  \/ kind = "zfs_witness_silent" /\ WitnessSilent(w, c.received, now)
  \/ kind = "node_unobservable" /\ now - c.received + 1 > Config.silent

ZfsFires(kind, c) ==
  LET w == c.data IN
  \/ kind \in {"zfs_witness_silent", "node_unobservable"} /\ WitnessSilent(w, c.received, now)
  \/ kind = "zfs_pool_degraded" /\ ZfsPoolDegraded(w)
  \/ kind = "zfs_pool_suspended" /\ ZfsPoolSuspended(w)
  \/ kind = "zfs_pool_capacity_pressure" /\ ZfsPoolCapacityPressure(w)
  \/ kind = "zfs_vdev_faulted" /\ ZfsVdevFaulted(w)
  \/ kind = "zfs_scrub_overdue" /\ ZfsScrubOverdue(w, now)
  \/ kind = "zfs_pool_health_changed" /\ ZfsPoolHealthChanged(w, history)
  \/ kind = "zfs_spare_activated" /\ ZfsSpareActivated(w, history)
  \/ kind = "zfs_error_count_increased" /\ ZfsErrorCountIncreased(w, history)

SmartFires(kind, c) ==
  LET w == c.data IN
  \/ kind \in {"smart_witness_silent", "node_unobservable"} /\ WitnessSilent(w, c.received, now)
  \/ kind = "smart_status_lies" /\ SmartStatusLies(w)
  \/ kind = "smart_uncorrected_errors_nonzero" /\ UncorrectedErrors(w)
  \/ kind = "smart_nvme_percentage_used" /\ SmartNvmePercentageUsed(w)
  \/ kind = "smart_nvme_available_spare_low" /\ SmartNvmeAvailableSpareLow(w)
  \/ kind = "smart_nvme_critical_warning_set" /\ SmartNvmeCriticalWarning(w)
  \/ kind = "smart_temperature_high" /\ SmartTemperatureHigh(w)
  \/ kind = "smart_reallocated_sectors_rising" /\ SmartReallocatedSectorsRising(w, history)

ChecksFire(kind, c) ==
  \/ kind = "check_error" /\ c.data.mode = "broken"
  \/ kind = "check_failed" /\ c.data.mode # "broken" /\ CheckFailed(c.data)

FamilyFires(kind) ==
  /\ current # <<>>
  /\ LET c == Head(current) IN
     \/ family = "services" /\ ServicesFire(kind, c)
     \/ family = "sqlite" /\ SqliteFires(kind, c)
     \/ family = "metrics" /\ MetricsFire(kind, c)
     \/ family = "logs" /\ LogsFire(kind, c)
     \/ family = "zfs" /\ ZfsFires(kind, c)
     \/ family = "smart" /\ SmartFires(kind, c)
     \/ family = "checks" /\ ChecksFire(kind, c)

Fires(k) ==
  /\ HostOf(k) = IF KindOf(k) \in Hostless THEN NoHost ELSE Host
  /\ \/ KindOf(k) = "source_error" /\ source \notin {None, "ok"}
     \/ HostFires(KindOf(k))
     \/ FamilyFires(KindOf(k))

\* run_all.  The rule hash of a saved check does not change here.
Detected ==
  [k \in {x \in Keys : Fires(x)} |->
     [hash |-> None,
      incident |-> /\ KindOf(k) = "service_status"
                   /\ Incident(Head(current).data)]]
-----------------------------------------------------------------------------
(***************************************************************************)
(* The lifecycle pass.                                                     *)
(***************************************************************************)

\* Hosts in hosts_current or services_current, and with the metrics and logs
\* tables; entity GC leaves findings about no host alone.
ReportedHosts ==
  {NoHost} \cup (IF \/ host # <<>>
                    \/ /\ family = "services" /\ current # <<>>
                       /\ Head(current).data.status # "absent"
                 THEN {Host} ELSE {})
PresentHosts ==
  ReportedHosts \cup
    (IF \/ family = "logs" /\ current # <<>>
        \/ family = "metrics" /\ current # <<>> /\ DOMAIN Head(current).data.values # {}
     THEN {Host} ELSE {})

\* Kinds whose collector testified in this generation.
Testified ==
  {"source_error"}
    \cup (IF host # <<>> /\ Head(host).asOf = gen
          THEN FamilyKinds["host"] \cup {"stale_host"} ELSE {})
    \cup (IF /\ current # <<>> /\ Head(current).asOf = gen
             /\ family \in Witnesses => Head(current).data.status # "failed"
          THEN FamilyKinds[family] ELSE {})

FiredKinds == {KindOf(k) : k \in DOMAIN Detected}

\* Rows that leave the table while no current table knows their host.
LeftUnknown ==
  {k \in (DOMAIN rows \cup DOMAIN Detected) \ DOMAIN rows' : HostOf(k) \notin PresentHosts}

UpdateWarningState ==
  /\ phase = "published"
  /\ rows' = Lifecycle(rows, Detected, gen, {}, 0, PresentHosts, ReportedHosts, <<>>, {})
  /\ phase' = "idle"
  /\ heard' = (heard \cup Testified) \ FiredKinds
  /\ collected' = (collected \ DOMAIN Detected) \cup LeftUnknown
  /\ UNCHANGED <<family, gen, now, evidence>>

LoseUpdate ==
  /\ phase = "published"
  /\ phase' = "idle"
  /\ heard' = heard \cup Testified
  /\ UNCHANGED <<family, gen, now, evidence, rows, collected>>

\* The bound on generations is reached and the behaviour may end.
AtBound == gen = MaxGen /\ phase = "idle" /\ UNCHANGED vars

Next ==
  \/ \E r \in Report : Plausible(r) /\ Publish(r)
  \/ UpdateWarningState
  \/ LoseUpdate
  \/ AtBound

Spec == Init /\ [][Next]_vars
-----------------------------------------------------------------------------
(***************************************************************************)
(* Properties.                                                             *)
(***************************************************************************)

\* Trends over a window of generations: as the window moves on they forget,
\* also while nothing is reported.
Forgetful == {"service_flap", "signal_dropout", "scrape_regime_shift", "log_silence", "error_shift"}

\* No report, no recovery: while some current table knows its host, a finding
\* of any other detector is cleared only if the collector behind it has
\* testified since it last fired.
\* A source that fails, a collector that fails beside a live host, a host
\* that goes stale, a witness that fails or falls silent never clear one:
\* either the detector goes on firing from the last row, or something masks
\* the row before its recovery window ends.
ClearedByTestimony ==
  \A k \in DOMAIN rows \ DOMAIN rows' :
    KindOf(k) \notin Forgetful /\ HostOf(k) \in PresentHosts =>
      KindOf(k) \in heard \cup Testified

SilenceKinds == {"zfs_witness_silent", "smart_witness_silent"}

\* An unobservable node points at the finding that says why: while its row
\* counts as observed, the witness' own row is there, unless entity GC took
\* it on a host that only the witness reports of.  The two are masked
\* differently - a witness' silence is a parent and never masked - so they
\* age apart when the whole host is dark.
CauseIsThere ==
  \A k \in DOMAIN rows :
    KindOf(k) = "node_unobservable" /\ rows[k].vis = "observed" =>
      \E p \in DOMAIN rows \cup collected :
        HostOf(p) = HostOf(k) /\ KindOf(p) \in SilenceKinds
=============================================================================
