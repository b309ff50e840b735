-------------------------- MODULE FindingLifecycle --------------------------
(***************************************************************************)
(* From evidence to findings.  Each cycle of the serve loop publishes one  *)
(* generation (publish_batch) and then, in a second transaction, runs the  *)
(* detectors over the current-state tables and moves every lifecycle row   *)
(* (update_warning_state).  The second transaction can be lost: a detector *)
(* or the update fails and is only logged, or the process dies in between. *)
(*                                                                         *)
(* The current-state tables hold the latest known good: a collector that   *)
(* fails leaves its rows as they were, and detectors read what is there.   *)
(* The module asks what NQ makes of a host it has stopped hearing from.    *)
(***************************************************************************)
EXTENDS FindingRows, Sequences

CONSTANTS
  StaleGenerations,  \* detectors.stale_generations of the configuration
  FreshGenerations,  \* generations v_hosts calls a row fresh for (2 in the view)
  Reports,           \* what one source may contribute to one generation
  DeclarationFiles,  \* contents the operator may give the declarations file
  MaxGen             \* bound on the generations of a behaviour

\* What a source contributes: the outcome of the pull, and of each collector.
\* zfs "overdue": nothing new, and the last report is past its age threshold.
ReportShapes ==
  [source  : {"ok", "error", "unpolled"},
   host    : {None, "fine", "full"},
   zfs     : {None, "online", "degraded", "failed", "overdue"},
   metrics : {None, "some", "empty"}]

ASSUME LifecycleAssumption ==
  /\ StaleGenerations \in Nat
  /\ FreshGenerations \in Nat
  /\ MaxGen \in Nat
  /\ Reports \subseteq ReportShapes
  /\ \A r \in Reports : r.source # "ok" => r.host = None /\ r.metrics = None
                                           /\ r.zfs \in {None, "overdue"}
  /\ DeclarationFiles \subseteq Seq(Declaration)

VARIABLES
  gen,      \* id of the latest published generation, 0 before the first
  hosts,    \* hosts_current: host -> generation and disk state of its row
  source,   \* latest source_runs status of each source that was ever polled
  witness,  \* zfs_witness_current and the pool rows of the same report
  metrics,  \* hosts with rows in metrics_current or log_observations_current
  rows,     \* warning_state
  file,     \* the declarations file
  loaded,   \* the declarations the last lifecycle pass used
  phase,    \* "idle", or "published" while the lifecycle pass is due
  cut       \* history: k's condition was seen absent, or a pass was lost,
            \* since k last fired

evidence == <<hosts, source, witness, metrics>>
vars == <<gen, evidence, rows, file, loaded, phase, cut>>

TypeOK ==
  /\ gen \in Nat
  /\ DOMAIN hosts \subseteq Hosts
  /\ hosts \in [DOMAIN hosts -> [asOf : Nat, full : BOOLEAN]]
  /\ \A h \in DOMAIN hosts : hosts[h].asOf <= gen
  /\ DOMAIN source \subseteq Hosts
  /\ source \in [DOMAIN source -> {"ok", "error"}]
  /\ DOMAIN witness \subseteq Hosts
  /\ witness \in [DOMAIN witness ->
                    [failed : BOOLEAN, degraded : BOOLEAN, overdue : BOOLEAN]]
  /\ metrics \subseteq Hosts
  /\ IsTable(rows)
  /\ file \in Seq(Declaration)
  /\ loaded \in Seq(Declaration)
  /\ phase \in {"idle", "published"}
  /\ cut \in [Keys -> BOOLEAN]

Init ==
  /\ gen = 0
  /\ hosts = [h \in {} |-> [asOf |-> 0, full |-> FALSE]]
  /\ source = [h \in {} |-> "ok"]
  /\ witness = [h \in {} |-> [failed |-> FALSE, degraded |-> FALSE, overdue |-> FALSE]]
  /\ metrics = {}
  /\ rows = [k \in {} |-> FreshRow(k, [hash |-> None, incident |-> FALSE], 0, {})]
  /\ file = <<>>
  /\ loaded = <<>>
  /\ phase = "idle"
  /\ cut = [k \in Keys |-> FALSE]
-----------------------------------------------------------------------------
(***************************************************************************)
(* Publishing a generation.                                                *)
(***************************************************************************)

\* hosts_current is upserted for the host rows of the batch.
HostsAfter(rep, g) ==
  [h \in DOMAIN hosts \cup {x \in Hosts : rep[x].host # None} |->
     IF rep[h].host = None THEN hosts[h]
     ELSE [asOf |-> g, full |-> rep[h].host = "full"]]

\* v_sources: the status of the latest run of each source.
SourceAfter(rep) ==
  [h \in DOMAIN source \cup {x \in Hosts : rep[x].source # "unpolled"} |->
     IF rep[h].source = "unpolled" THEN source[h] ELSE rep[h].source]

\* A witness report replaces the witness row, its coverage and its pools; a
\* failed witness testifies to nothing.
WitnessAfter(rep) ==
  LET reporting == {h \in Hosts : rep[h].zfs \in {"online", "degraded", "failed"}}
  IN  [h \in DOMAIN witness \cup reporting |->
         IF h \in reporting
         THEN [failed   |-> rep[h].zfs = "failed",
               degraded |-> rep[h].zfs = "degraded",
               overdue  |-> FALSE]
         ELSE [witness[h] EXCEPT !.overdue = @ \/ rep[h].zfs = "overdue"]]

\* metrics_current is replaced per host whose collector succeeded.
MetricsAfter(rep) ==
  (metrics \ {h \in Hosts : rep[h].metrics = "empty"})
    \cup {h \in Hosts : rep[h].metrics = "some"}

Publish(rep) ==
  /\ phase = "idle"
  /\ gen < MaxGen
  /\ gen' = gen + 1
  /\ hosts' = HostsAfter(rep, gen + 1)
  /\ source' = SourceAfter(rep)
  /\ witness' = WitnessAfter(rep)
  /\ metrics' = MetricsAfter(rep)
  /\ phase' = "published"
  /\ UNCHANGED <<rows, file, loaded, cut>>
-----------------------------------------------------------------------------
(***************************************************************************)
(* Detectors.                                                              *)
(***************************************************************************)
Behind(h) == gen - hosts[h].asOf

StaleHost(h) == h \in DOMAIN hosts /\ Behind(h) > StaleGenerations
SourceError(h) == h \in DOMAIN source /\ source[h] # "ok"
DiskPressure(h) ==
  h \in DOMAIN hosts /\ hosts[h].full /\ Behind(h) <= FreshGenerations
ZfsWitnessSilent(h) ==
  h \in DOMAIN witness /\ (witness[h].failed \/ witness[h].overdue)
ZfsPoolDegraded(h) == h \in DOMAIN witness /\ witness[h].degraded

Fires(k) ==
  \/ KindOf(k) = "stale_host" /\ StaleHost(HostOf(k))
  \/ KindOf(k) = "source_error" /\ SourceError(HostOf(k))
  \/ KindOf(k) = "disk_pressure" /\ DiskPressure(HostOf(k))
  \/ KindOf(k) = "zfs_witness_silent" /\ ZfsWitnessSilent(HostOf(k))
  \/ KindOf(k) = "zfs_pool_degraded" /\ ZfsPoolDegraded(HostOf(k))

\* run_all: none of these kinds carries a rule hash or the incident floor.
Detected ==
  [k \in {x \in Keys : Fires(x)} |-> [hash |-> None, incident |-> FALSE]]
-----------------------------------------------------------------------------
(***************************************************************************)
(* The lifecycle pass, and losing it.                                      *)
(***************************************************************************)

\* The evidence positively says that the condition of k is absent.
SeenAbsent(k) ==
  \/ /\ KindOf(k) = "disk_pressure"
     /\ HostOf(k) \in DOMAIN hosts
     /\ ~hosts[HostOf(k)].full
  \/ /\ KindOf(k) = "zfs_pool_degraded"
     /\ HostOf(k) \in DOMAIN witness
     /\ ~witness[HostOf(k)].degraded
     /\ ~ZfsWitnessSilent(HostOf(k))

UpdateWarningState ==
  /\ phase = "published"
  /\ rows' = Lifecycle(rows, Detected, gen, {}, 0,
                       DOMAIN hosts \cup metrics, DOMAIN hosts, file, {})
  /\ loaded' = file
  /\ phase' = "idle"
  /\ cut' = [k \in Keys |-> IF Fires(k) THEN FALSE ELSE cut[k] \/ SeenAbsent(k)]
  /\ UNCHANGED <<gen, evidence, file>>

\* "detector run failed", "warning state update failed", or a crash: the
\* generation stays published and no row moves.
LoseUpdate ==
  /\ phase = "published"
  /\ phase' = "idle"
  /\ cut' = [k \in Keys |-> TRUE]
  /\ UNCHANGED <<gen, evidence, rows, file, loaded>>

EditDeclarations(f) ==
  /\ f # file
  /\ file' = f
  /\ UNCHANGED <<gen, evidence, rows, loaded, phase, cut>>

\* The bound on generations is reached and the behaviour may end.
AtBound == gen = MaxGen /\ phase = "idle" /\ UNCHANGED vars

Next ==
  \/ \E rep \in [Hosts -> Reports] : Publish(rep)
  \/ UpdateWarningState
  \/ LoseUpdate
  \/ \E f \in DeclarationFiles : EditDeclarations(f)
  \/ AtBound

Spec == Init /\ [][Next]_vars
-----------------------------------------------------------------------------
(***************************************************************************)
(* Properties that hold.                                                   *)
(***************************************************************************)

\* Kinds whose detectors read evidence that can go dark.
EvidenceKinds == {"disk_pressure", "zfs_pool_degraded"}

\* A row about a host's condition is cleared only when the evidence says that
\* the condition is absent, or when entity GC gave up on a host that no
\* current-state table knows.  Silence alone never clears it: the masking and
\* recovery stages of update_warning_state_inner must agree with the freshness
\* the detectors apply (migration 024: loss of observability must reduce
\* confidence, not fabricate health).
ClearStep ==
  \A k \in DOMAIN rows \ DOMAIN rows' :
    KindOf(k) \in EvidenceKinds =>
      \/ SeenAbsent(k)
      \/ HostOf(k) \notin DOMAIN hosts \cup metrics
ClearedOnlyOnEvidence == [][ClearStep]_vars

\* Blindness does not restart persistence: while a row lives, its streak drops
\* only if, since it last fired, its condition was seen absent or a lifecycle
\* pass was lost.  An outage of any length alone (host dark, source failing,
\* witness silent, host withdrawn and released) keeps the streak
\* (publish.rs: suppression was our blindness, not an interruption).
StreakStep ==
  \A k \in DOMAIN rows \cap DOMAIN rows' :
    KindOf(k) \in EvidenceKinds /\ rows'[k].streak < rows[k].streak => cut[k]
BlindnessKeepsStreak == [][StreakStep]_vars

\* A revoked, expired or removed declaration lets go of every row: after a
\* pass, no row is attributed to a declaration the pass did not load, even
\* though the upsert leaves the attribution columns in place.
ReleasedWithDeclaration ==
  \A k \in DOMAIN rows :
    rows[k].skind = "operator_declaration" => rows[k].sdecl \in ActiveIds(loaded)
=============================================================================
