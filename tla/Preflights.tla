----------------------------- MODULE Preflights -----------------------------
(***************************************************************************)
(* The preflight evaluators (crates/nq-db/src): what the rows of one       *)
(* target let the monitor say of it at a given time, and the receipt that  *)
(* From<PreflightResult> (crates/nq-core/src/receipt.rs) makes of it.      *)
(*                                                                         *)
(* rows is the sequence of rows of one target in the order of their ids.   *)
(* A row has its time and what it says: a set of words of its kind.  Of a  *)
(* generation, got is when the last failed source was received; of a WAL   *)
(* observation it is the mtime of the main file; else it is None.  For     *)
(* disk_state a row is what one lifecycle pass left: the findings of the   *)
(* host as <<detector, subject, admissibility>>; only the last is read.    *)
(* For nq_sql_contract_state a row is a version of the artifact file.      *)
(*                                                                         *)
(* Projection of a row into a packet fails only on empty identities and    *)
(* unparseable times, which no writer of these tables produces.            *)
(***************************************************************************)
EXTENDS Claims, Sequences

CONSTANTS
  Stale,           \* *_STALE_THRESHOLD_SECONDS
  Drift,           \* TIME_BASIS_DRIFT_THRESHOLD_MS
  Window,          \* SQLITE_WAL_STATE_WINDOW_DURATION_SECONDS
  ElevatedSpan, SevereSpan, ElevatedSamples, SevereSamples,
  DiskTargets      \* what a disk_state request may be narrowed to, or "host"

ASSUME PreflightsAssumption ==
  /\ {Stale, Window, ElevatedSpan, SevereSpan, ElevatedSamples, SevereSamples} \subseteq Nat \ {0}
  /\ Stale < Window
  /\ Drift \in Nat

Timed == {"dns_state", "ingest_state", "service_state", "sqlite_wal_state"}
Untimed ==
  {"disk_state", "nq_evaluator_state", "nq_binary_mtime_state", "nq_sql_contract_state"}

-----------------------------------------------------------------------------
(* The skeleton of a result.                                               *)

\* The refusals of a kind, in order, and the claims their statements name: a
\* refusal covers a claim when its statement contains the claim's name.
Refusals(kinds, names) == [kinds |-> kinds, names |-> names]

IngestRefusals == Refusals(
  <<"environmental", "future", "above", "environmental", "consequence", "self_audit", "future">>, {})
DnsRefusals == Refusals(
  <<"above", "above", "jurisdiction", "jurisdiction", "environmental", "future", "future",
    "kind", "above", "kind", "below", "future", "consequence">>, {})
WalRefusals == Refusals(
  <<"above", "above", "above", "jurisdiction", "future", "below", "absence", "above", "below",
    "consequence">>, {})
BinaryRefusals == Refusals(
  <<"below", "below", "jurisdiction", "jurisdiction", "kind", "consequence", "self_audit">>, {})
EvaluatorRefusals == Refusals(
  <<"kind", "jurisdiction", "jurisdiction", "jurisdiction", "future", "jurisdiction",
    "self_audit", "future", "kind", "consequence">>, {"nq_binary_mtime_state"})
ContractRefusals == Refusals(
  <<"kind", "above", "kind", "jurisdiction", "jurisdiction", "above", "kind", "jurisdiction",
    "self_audit", "consequence">>, {"nq_binary_mtime_state"})
ServiceRefusals == Refusals(
  <<"kind", "above", "above", "jurisdiction", "future", "kind", "consequence", "consequence">>, {})
DiskRefusals == Refusals(
  <<"kind", "consequence", "kind", "above", "future", "consequence", "consequence">>, {})

\* PreflightResult::skeleton: whatever the verdict, the refusals of the kind.
CannotTestify ==
  [dns_state |-> DnsRefusals, ingest_state |-> IngestRefusals, service_state |-> ServiceRefusals,
   sqlite_wal_state |-> WalRefusals, disk_state |-> DiskRefusals,
   nq_evaluator_state |-> EvaluatorRefusals, nq_binary_mtime_state |-> BinaryRefusals,
   nq_sql_contract_state |-> ContractRefusals]

\* compute_time_basis: an observation too far ahead of the evaluator's clock
\* is noted, and changes no verdict.
TimeBasis(supports, now) ==
  IF \E s \in supports : s[2] - now > Drift THEN "suspect" ELSE "unknown"

\* What is admitted: the supports as <<row, time>> and what each says, the
\* standing of each witness family, what is excluded and why, and signals.
Result(target, verdict, supports, says, coverage, excludes, signals, basis) ==
  [target |-> target, verdict |-> verdict, supports |-> supports, says |-> says,
   coverage |-> coverage, excludes |-> excludes, signals |-> signals, basis |-> basis]

-----------------------------------------------------------------------------
(* Kinds that read the newest row.                                         *)

\* ORDER BY observed_at DESC, observation_id DESC.
Newest(rows) ==
  CHOOSE i \in DOMAIN rows :
    \A j \in DOMAIN rows : rows[j].at < rows[i].at \/ (rows[j].at = rows[i].at /\ j <= i)

TooOld(at, now) == now - at > Stale

\* One row of one witness, cited or not.
Latest(kind, witness, standing, verdict, rows, cited, now) ==
  LET supports == {<<i, rows[i].at>> : i \in cited}
  IN Result(kind, verdict, supports, [s \in supports |-> rows[s[1]].says],
            {<<witness, standing>>}, {}, None, TimeBasis(supports, now))

\* ResponseKind, and the arm of a fresh row of each.
Answered == {"success", "nodata", "nxdomain", "servfail", "refused"}
DnsArm(response) ==
  CASE response \in Answered -> <<"observable", "admissible_with_scope">>
    [] response = "timeout" -> <<"silent", "insufficient_coverage">>
    [] response = "transport_error" -> <<"unreachable", "cannot_testify">>
    [] OTHER -> <<"observable", "contradictory_testimony">>    \* validation_failure

DnsState(rows, now) ==
  IF rows = <<>>
  THEN Latest("dns_state", "dns_resolver", "absent", "insufficient_coverage", rows, {}, now)
  ELSE LET i == Newest(rows)
           response == CHOOSE w \in rows[i].says : TRUE
           arm == IF TooOld(rows[i].at, now) THEN <<"stale", "stale_testimony">> ELSE DnsArm(response)
           cited == IF arm[1] \in {"silent", "unreachable"} THEN {} ELSE {i}
       IN Latest("dns_state", "dns_resolver", arm[1], arm[2], rows, cited, now)

\* Absence of a row is no witness; a state is quoted and never judged.
ServiceState(rows, now) ==
  IF rows = <<>>
  THEN Latest("service_state", "service_manager", "absent", "insufficient_coverage", rows, {}, now)
  ELSE LET i == Newest(rows)
           arm == IF TooOld(rows[i].at, now) THEN <<"stale", "stale_testimony">>
                  ELSE <<"observable", "admissible_with_scope">>
       IN Latest("service_state", "service_manager", arm[1], arm[2], rows, {i}, now)

\* load_failed_source_runs: a failed source of generation i is cited as row -i.
FailedSources(rows, i) == IF rows[i].got = None THEN {} ELSE {<<-i, rows[i].got>>}

\* Failed sources change the note, not the verdict.
IngestVerdict(at, now) == IF TooOld(at, now) THEN "stale_testimony" ELSE "admissible_with_scope"

\* The generation read is the one with the greatest completed_at; among
\* several SQLite may return any.
IngestState(rows, now, i) ==
  IF rows = <<>>
  THEN Latest("ingest_state", "ingest_pulse", "absent", "insufficient_coverage", rows, {}, now)
  ELSE LET supports == {<<i, rows[i].at>>} \cup FailedSources(rows, i)
       IN Result("ingest_state", IngestVerdict(rows[i].at, now), supports,
                 [s \in supports |-> IF s[1] > 0 THEN rows[i].says ELSE {"failed"}],
                 {<<"ingest_pulse", "observable">>}, {}, None, TimeBasis(supports, now))

-----------------------------------------------------------------------------
(* NQ about itself: the row written last, or a file; nothing is cited, no  *)
(* coverage named and no time basis computed.                              *)

\* The signals of the newest row: its age, and in which shape it is told.
SelfSignals(samples, age, shape) == [samples |-> samples, age |-> age, shape |-> shape]

Self(kind, verdict, signals) == Result(kind, verdict, {}, <<>>, {}, {}, signals, "none")

\* nq_evaluator_state.
EvaluatorState(rows, now) ==
  IF rows = <<>>
  THEN Self("nq_evaluator_state", "insufficient_coverage", SelfSignals(0, None, "none"))
  ELSE LET o == rows[Len(rows)]
           shape == IF TooOld(o.at, now) THEN "stale"
                    ELSE IF "shape_valid" \in o.says THEN "observed" ELSE "error"
       IN Self("nq_evaluator_state",
               IF shape = "observed" THEN "admissible_with_scope" ELSE "cannot_testify",
               SelfSignals(1, now - o.at, shape))

\* nq_binary_mtime_state: load_latest_nq_binary_observation orders by id.
BinaryState(rows, now) ==
  IF rows = <<>>
  THEN Self("nq_binary_mtime_state", "insufficient_coverage", SelfSignals(0, None, "none"))
  ELSE LET o == rows[Len(rows)]
           shape == IF TooOld(o.at, now) THEN "stale"
                    ELSE IF "observed" \in o.says THEN "observed" ELSE "error"
       IN Self("nq_binary_mtime_state",
               IF shape = "observed" THEN "admissible_with_scope" ELSE "cannot_testify",
               SelfSignals(1, now - o.at, shape))

\* nq_sql_contract_state, classify: the artifact is read whenever it is asked.
ContractState(rows) ==
  LET artifact == IF rows = <<>> THEN "missing" ELSE CHOOSE w \in rows[Len(rows)].says : TRUE
      verdict == CASE artifact \in {"missing", "not_json", "no_result", "odd_result"} -> "cannot_testify"
                   [] artifact \in {"no_schema", "other_schema"} -> "insufficient_coverage"
                   [] artifact = "pass" -> "admissible_with_scope"
                   [] artifact = "fail" -> "unsupported_as_stated"
  IN Self("nq_sql_contract_state", verdict, SelfSignals(1, None, artifact))

-----------------------------------------------------------------------------
(* disk_state.                                                             *)

SubstrateDetectors == {"zfs_pool_degraded", "zfs_vdev_faulted", "smart_status_lies"}
StandingDetectors == {"zfs_witness_silent", "smart_witness_silent", "node_unobservable"}

\* subject_matches_target: the target, what lies below it, or no subject.
SubjectMatches(subject, target) ==
  target = "host" \/ subject = target \/ subject = ""
  \/ (target = "pool" /\ subject = "pool/vdev")

\* Findings of the request, of one list of detectors.
Relevant(found, detectors, target) ==
  {f \in found : f[1] \in detectors /\ SubjectMatches(f[2], target)}

Shown(found, detector) == \E f \in found : f[1] = detector /\ f[3] = "observable"

\* compute_coverage.
DiskCoverage(standing) ==
  LET lost(d) == IF Shown(standing, "node_unobservable") THEN "node_unobservable"
                 ELSE IF Shown(standing, d) THEN "silent" ELSE "observable"
  IN {<<"zfs_witness", lost("zfs_witness_silent")>>, <<"smart_witness", lost("smart_witness_silent")>>,
      <<"disk_pressure", lost("none")>>}

\* compute_verdict, over the observable findings.
DiskVerdict(substrate, standing) ==
  IF Shown(substrate, "smart_status_lies") THEN "contradictory_testimony"
  ELSE IF Shown(standing, "node_unobservable") THEN "cannot_testify"
  ELSE IF Shown(standing, "zfs_witness_silent") /\ Shown(standing, "smart_witness_silent")
  THEN "cannot_testify"
  ELSE IF \A f \in substrate : f[3] # "observable" THEN "insufficient_coverage"
  ELSE "admissible_with_scope"

\* make_exclusion.
ExclusionOf(f) == <<f[1], f[3]>>

\* evaluate_disk_state_preflight.  An observable finding supports, any other is
\* excluded with what makes it inadmissible.
DiskState(rows, target, now) ==
  LET n == Len(rows)
      found == IF rows = <<>> THEN {} ELSE rows[n].says
      substrate == Relevant(found, SubstrateDetectors, target)
      standing == Relevant(found, StandingDetectors, target)
      good == {f \in substrate : f[3] = "observable"}
      supports == {<<f[1], rows[n].at>> : f \in good}
  IN Result(target, DiskVerdict(substrate, standing), supports, [s \in supports |-> {s[1]}],
            DiskCoverage(standing), {ExclusionOf(f) : f \in substrate \ good}, None,
            TimeBasis(supports, now))

-----------------------------------------------------------------------------
(* sqlite_wal_state.                                                       *)

\* load_recent_wal_observations.
Recent(rows, now) == {i \in DOMAIN rows : rows[i].at >= now - Window}

\* ObservationStatus of a row that observed nothing.
Unobserved == {"target_missing", "permission_denied", "stat_error"}

\* first_inaccessible_db and first_contradiction.
Inaccessible(rows, w) == \E i \in w : rows[i].says \cap Unobserved # {}
Contradictory(rows, w) == \E i \in w : rows[i].got > rows[i].at \/ "wal_ahead" \in rows[i].says

\* all_elevated: over 2 GB throughout; all_severe: over 10 GB throughout, or
\* over half of the main file throughout.
AllElevated(rows, w) == \A i \in w : "over_2g" \in rows[i].says
AllSevere(rows, w) ==
  (\A i \in w : "over_10g" \in rows[i].says) \/ (\A i \in w : "over_half" \in rows[i].says)

\* compute_window_duration_seconds.
Span(rows, w) == LET at == {rows[i].at : i \in w} IN Max(at) - Min(at)

\* classify_window: a row of the window that could not be read, or whose
\* mtime is ahead of it, decides before anything else.
ClassifyWindow(rows, now) ==
  LET w == Recent(rows, now) IN
     IF Inaccessible(rows, w) THEN "inaccessible_db"
     ELSE IF Contradictory(rows, w) THEN "contradictory"
     ELSE IF w = {} THEN "no_rows_in_window"
     ELSE IF TooOld(Max({rows[i].at : i \in w}), now) THEN "latest_row_stale"
     ELSE IF Cardinality(w) < ElevatedSamples THEN "insufficient_samples"
     ELSE IF Cardinality(w) >= SevereSamples /\ Span(rows, w) >= SevereSpan /\ AllSevere(rows, w)
     THEN "severe_sustained"
     ELSE IF Span(rows, w) >= ElevatedSpan /\ AllElevated(rows, w) THEN "elevated_sustained"
     ELSE "bounded_wal"

\* map_classification_to_verdict.
WalVerdict(class) ==
  CASE class \in {"no_rows_in_window", "insufficient_samples"} -> "insufficient_coverage"
    [] class = "latest_row_stale" -> "stale_testimony"
    [] class = "inaccessible_db" -> "cannot_testify"
    [] class = "contradictory" -> "contradictory_testimony"
    [] class \in {"bounded_wal", "elevated_sustained", "severe_sustained"} -> "admissible_with_scope"

\* emit_supports_and_packets: a row per sample, or none at all; rows of a
\* broken window are excluded one by one.
WalSupports(class, rows, w) ==
  IF class \in {"no_rows_in_window", "inaccessible_db", "contradictory"} THEN {}
  ELSE {<<i, rows[i].at>> : i \in w}
WalExcludes(class, w) ==
  IF class \in {"inaccessible_db", "contradictory"} THEN {<<i, class>> : i \in w} ELSE {}

\* compute_signals: whether the main file stood still for as long as the window
\* is, and what the samples that looked say of a pinned reader.
IdleThroughout(rows, w) == \A i \in w : rows[i].at - rows[i].got >= Span(rows, w)
PinnedReader(rows, w) ==
  LET looked == {i \in w : rows[i].says \cap {"pinned", "unpinned"} # {}}
  IN IF looked = {} THEN "unobserved"
     ELSE IF \E i \in looked : "pinned" \in rows[i].says THEN "present" ELSE "absent"

\* build_signals.
WalSignals(class, rows, w) ==
  IF class \in {"bounded_wal", "elevated_sustained", "severe_sustained"}
  THEN [band |-> class, span |-> Span(rows, w),
        idle |-> IF IdleThroughout(rows, w) THEN "yes" ELSE "no", pinned |-> PinnedReader(rows, w)]
  ELSE [band |-> "unclassified", span |-> None, idle |-> "null", pinned |-> "unobserved"]

WalState(rows, now) ==
  LET class == ClassifyWindow(rows, now)
      w == Recent(rows, now)
      supports == WalSupports(class, rows, w)
      standing == IF class = "no_rows_in_window" THEN "absent"
                  ELSE IF class = "latest_row_stale" THEN "stale" ELSE "observable"
  IN Result("sqlite_wal_state", WalVerdict(class), supports, [s \in supports |-> rows[s[1]].says],
            {<<"sqlite_wal_probe", standing>>}, WalExcludes(class, w),
            WalSignals(class, rows, w), TimeBasis(supports, now))

-----------------------------------------------------------------------------
\* load_latest_generation: ORDER BY completed_at alone.
LatestGenerations(rows) ==
  {i \in DOMAIN rows : \A j \in DOMAIN rows : rows[j].at <= rows[i].at}

\* The answers an evaluator may give; the caller of disk_state chooses a target.
Preflight(kind, rows, now) ==
  CASE kind = "dns_state" -> {DnsState(rows, now)}
    [] kind = "service_state" -> {ServiceState(rows, now)}
    [] kind = "ingest_state" ->
         {IngestState(rows, now, i) : i \in (IF rows = <<>> THEN {0} ELSE LatestGenerations(rows))}
    [] kind = "disk_state" -> {DiskState(rows, t, now) : t \in DiskTargets}
    [] kind = "sqlite_wal_state" -> {WalState(rows, now)}
    [] kind = "nq_evaluator_state" -> {EvaluatorState(rows, now)}
    [] kind = "nq_binary_mtime_state" -> {BinaryState(rows, now)}
    [] kind = "nq_sql_contract_state" -> {ContractState(rows)}

\* Mutant: the horizon runs from the oldest observation.
FreshnessHorizonOldest(kind, seen) ==
  IF kind \in Untimed \/ seen = {} THEN None ELSE Min(seen) + Stale

\* freshness_horizon_from(observed_at_max, threshold), for the kinds that
\* set it.
FreshnessHorizon(kind, seen) ==
  IF kind \in Untimed \/ seen = {} THEN None ELSE Max(seen) + Stale

-----------------------------------------------------------------------------
(* Packets and the receipt.                                                *)

\* A packet recovered from a row: of which witness, and what the row holds.
Recovered(witness, kind, row, at, says, made) ==
  [witness |-> witness, kind |-> kind, row |-> row, at |-> at, says |-> says, made |-> made,
   basis |-> "legacy_projection"]
ProjectDns(row, at, says, made) == Recovered("dns_resolver", "dns_state", row, at, says, made)
ProjectService(row, at, says, made) ==
  Recovered("service_manager", "service_state", row, at, says, made)
ProjectWal(row, at, says, made) == Recovered("sqlite_wal", "sqlite_wal_state", row, at, says, made)
ProjectGeneration(row, at, says, made) ==
  Recovered("ingest_generation", "ingest_state", row, at, says, made)
ProjectSource(row, at, says, made) == Recovered("ingest_source", "ingest_state", row, at, says, made)
ProjectDisk(row, at, says, made) == Recovered("finding", "disk_state", row, at, says, made)

Project(kind, s, says, made) ==
  CASE kind = "dns_state" -> ProjectDns(s[1], s[2], says, made)
    [] kind = "service_state" -> ProjectService(s[1], s[2], says, made)
    [] kind = "sqlite_wal_state" -> ProjectWal(s[1], s[2], says, made)
    [] kind = "disk_state" -> ProjectDisk(s[1], s[2], says, made)
    [] kind = "ingest_state" -> IF s[1] > 0 THEN ProjectGeneration(s[1], s[2], says, made)
                                ELSE ProjectSource(s[1], s[2], says, made)

\* map_verdict.
MapVerdict(verdict, claims, excludes) ==
  CASE verdict = "admissible_with_scope" ->
         Finding("verified", {"all_requirements_verified"}, claims, excludes, claims)
    [] verdict = "unsupported_as_stated" ->
         Finding("not_verified", {"missing_required_claim"}, {}, excludes, {})
    [] verdict = "insufficient_coverage" ->
         Finding("needs_more_evidence", {"missing_required_claim"}, {}, excludes, {})
    [] verdict = "stale_testimony" ->
         Finding("needs_more_evidence", {"stale_observation"}, {}, excludes, {})
    [] verdict = "contradictory_testimony" ->
         Finding("not_verified", {"contradictory_observation"}, {}, excludes, {})
    [] OTHER ->    \* cannot_testify
         Finding("not_verified", {"non_mintable"}, {}, excludes, {})

\* The claim text of a support: what was said, and when.
ClaimText(s, says) == <<says, s[2]>>

\* From<PreflightResult>: an admitted observation becomes a reference with
\* the digest of its packet; without one, each family becomes a reference
\* without digest.  The time basis is left behind.
FromPreflight(kind, res, made) ==
  LET seen == {s[2] : s \in res.supports}
      refs == IF res.supports # {}
              THEN SetToBag({Project(kind, s, res.says[s], made) : s \in res.supports})
              ELSE [d \in (IF res.coverage = {} THEN {} ELSE {NoDigest}) |-> Cardinality(res.coverage)]
      claims == {ClaimText(s, res.says[s]) : s \in res.supports}
  IN Seal(Body(kind, res.target, MapVerdict(res.verdict, claims, res.excludes), refs, seen,
               CannotTestify[kind], FreshnessHorizon(kind, seen), res.signals, kind, made))
=============================================================================
