---------------------------- MODULE FindingRows ----------------------------
(***************************************************************************)
(* The row algebra of warning_state, the table NQ keeps one lifecycle row  *)
(* per finding identity in.  Every operator of this module is one stage of *)
(* the lifecycle transaction of crates/nq-db/src/publish.rs: it takes the  *)
(* table as the previous stage left it and returns the table it leaves.    *)
(*                                                                         *)
(* A table is a function whose domain is the set of identities that have a *)
(* row; deleting a row removes its identity from the domain.  An identity  *)
(* is <<host, kind>>: the subject column, which only tells rows of one     *)
(* host and kind apart, is left out.                                       *)
(*                                                                         *)
(* State machines that own such a table extend this module.                *)
(***************************************************************************)
EXTENDS Naturals, FiniteSets

CONSTANTS
  Hosts,             \* monitored hosts (a source has its host's name)
  Kinds,             \* finding kinds the detectors of the instance emit
  Declarations,      \* ids an operator may use in the declarations file
  Sources,           \* evidence sources a finding can be based on
  SourceOf,          \* the source behind a finding, None where a detector names none
  RuleHashes,        \* hashes of saved-check definitions
  RecoveryWindow,    \* clean generations before a row is cleared (3 in the code)
  EntityGcThreshold, \* generations an entity may be gone (10 in the code)
  WarnAfter,         \* escalation.warn_after_gens
  CriticalAfter      \* escalation.critical_after_gens

\* The SQL NULL of a text column.
None == "none"

Keys == Hosts \X Kinds
HostOf(k) == k[1]
KindOf(k) == k[2]

ASSUME ConstantsAssumption ==
  /\ IsFiniteSet(Hosts)
  /\ IsFiniteSet(Kinds)
  /\ None \notin Declarations \cup Sources \cup RuleHashes
  /\ SourceOf \in [Keys -> Sources \cup {None}]
  /\ RecoveryWindow \in Nat \ {0}
  /\ EntityGcThreshold \in Nat
  /\ WarnAfter \in Nat
  /\ CriticalAfter \in Nat

Severities == {"info", "warning", "critical"}
Rank == [s \in Severities |->
           CASE s = "info" -> 1 [] s = "warning" -> 2 [] s = "critical" -> 3]

\* Work states an operator can put a finding in, and those that mute it.
WorkStates == {"new", "acknowledged", "watching", "quiesced", "closed", "suppressed"}
Paused == {"quiesced", "suppressed", "closed"}

\* What a detector says about an identity in one generation, beyond firing.
Emissions == [hash : RuleHashes \cup {None}, incident : BOOLEAN]

\* suppression_reason values the masking rules write.
Reasons == {"host_unreachable", "source_unreachable", "witness_unobservable"}

Row ==
  [streak   : Nat,                     \* consecutive_gens
   lastSeen : Nat,                     \* last_seen_gen
   absent   : Nat,                     \* absent_gens
   gone     : Nat,                     \* entity_gone_gens
   vis      : {"observed", "suppressed"},
   skind    : {None, "ancestor_loss", "operator_declaration"},
   sdecl    : Declarations \cup {None},
   reason   : Reasons \cup {None},
   since    : Nat,                     \* suppressed_since_gen, 0 for NULL
   hash     : RuleHashes \cup {None},
   sev      : Severities,
   basis    : {"live", "unknown", "retired"},
   work     : WorkStates,
   expires  : Nat,                     \* ack_expires_at, 0 for NULL
   acked    : BOOLEAN,
   notified : Severities \cup {None},
   maint    : {None, "covered", "overrun"}]

IsTable(t) ==
  /\ DOMAIN t \subseteq Keys
  /\ t \in [DOMAIN t -> Row]
-----------------------------------------------------------------------------
(***************************************************************************)
(* Upsert of the findings of the generation.                               *)
(***************************************************************************)

\* compute_severity: thresholds are exceeded, not reached; a service that is
\* down is never below warning.
Severity(k, e, streak) ==
  IF streak > CriticalAfter THEN "critical"
  ELSE IF streak > WarnAfter THEN "warning"
  ELSE IF KindOf(k) = "service_status" /\ e.incident THEN "warning"
  ELSE "info"

\* A saved check whose definition changed is a new condition.
HashChanged(r, e) == r.hash # None /\ e.hash # None /\ r.hash # e.hash

\* Mutant: only strictly adjacent generations continue a streak.
NextStreakAdjacent(r, e, g) ==
  IF ~HashChanged(r, e) /\ r.lastSeen + 1 = g THEN r.streak + 1 ELSE 1

\* consecutive_gens of a row that fires in generation g.  A suppressed row
\* continues its streak: suppression was blindness, not an interruption.
NextStreak(r, e, g) ==
  IF ~HashChanged(r, e) /\ (r.vis = "suppressed" \/ r.lastSeen + 1 = g)
  THEN r.streak + 1
  ELSE 1

\* Mutant: a source that still reports makes its findings live again.
BasisOfLive(k, retired) == IF SourceOf[k] = None THEN "unknown" ELSE "live"

\* Evidence of a retired source stays retired; no source, no live claim.
BasisOf(k, retired) ==
  IF SourceOf[k] = None THEN "unknown"
  ELSE IF SourceOf[k] \in retired THEN "retired"
  ELSE "live"

FreshRow(k, e, g, retired) ==
  [streak |-> 1, lastSeen |-> g, absent |-> 0, gone |-> 0,
   vis |-> "observed", skind |-> None, sdecl |-> None, reason |-> None,
   since |-> 0, hash |-> e.hash, sev |-> Severity(k, e, 1),
   basis |-> BasisOf(k, retired), work |-> "new", expires |-> 0,
   acked |-> FALSE, notified |-> None, maint |-> None]

\* The ON CONFLICT branch.  It lifts the suppression but leaves
\* suppression_kind and suppression_declaration_id as they are.
Refire(r, k, e, g, retired) ==
  [r EXCEPT !.streak   = NextStreak(r, e, g),
            !.sev      = Severity(k, e, NextStreak(r, e, g)),
            !.lastSeen = g,
            !.absent   = 0,
            !.vis      = "observed",
            !.reason   = None,
            !.since    = 0,
            !.hash     = e.hash,
            !.basis    = BasisOf(k, retired)]

\* fired maps the identities that fire in generation g to their emissions.
Upserted(t, fired, g, retired) ==
  [k \in DOMAIN t \cup DOMAIN fired |->
     IF k \notin DOMAIN fired THEN t[k]
     ELSE IF k \in DOMAIN t THEN Refire(t[k], k, fired[k], g, retired)
     ELSE FreshRow(k, fired[k], g, retired)]
-----------------------------------------------------------------------------
(***************************************************************************)
(* Masking and recovery of the rows that did not fire.                     *)
(***************************************************************************)

\* MASKING_RULES in their order; a kind prefix is the set of kinds that has it.
SmartKinds ==
  {"smart_witness_silent", "smart_status_lies", "smart_uncorrected_errors_nonzero",
   "smart_nvme_percentage_used", "smart_nvme_available_spare_low",
   "smart_nvme_critical_warning_set", "smart_temperature_high",
   "smart_reallocated_sectors_rising"}
ZfsKinds ==
  {"zfs_witness_silent", "zfs_pool_degraded", "zfs_pool_suspended",
   "zfs_pool_capacity_pressure", "zfs_vdev_faulted", "zfs_scrub_overdue",
   "zfs_pool_health_changed", "zfs_spare_activated", "zfs_error_count_increased"}
MaskingRules ==
  <<[parent |-> "stale_host",           reason |-> "host_unreachable",     kinds |-> Kinds],
    [parent |-> "source_error",         reason |-> "source_unreachable",   kinds |-> Kinds],
    [parent |-> "smart_witness_silent", reason |-> "witness_unobservable", kinds |-> SmartKinds],
    [parent |-> "zfs_witness_silent",   reason |-> "witness_unobservable", kinds |-> ZfsKinds]>>

ParentKinds == {"stale_host", "source_error", "smart_witness_silent", "zfs_witness_silent"}

\* The rules that mask identity k in table u: their parent row, on the same
\* host, is observed.  A parent kind is never masked.
RulesFor(u, k) ==
  IF KindOf(k) \in ParentKinds THEN {}
  ELSE {i \in 1..4 :
          /\ KindOf(k) \in MaskingRules[i].kinds
          /\ <<HostOf(k), MaskingRules[i].parent>> \in DOMAIN u
          /\ u[<<HostOf(k), MaskingRules[i].parent>>].vis = "observed"}

Masked(u, k) == RulesFor(u, k) # {}
MaskingReason(u, k) ==
  MaskingRules[CHOOSE i \in RulesFor(u, k) : \A j \in RulesFor(u, k) : i <= j].reason

\* suppression_declaration_id is not written here.
SuppressRow(r, reason, g) ==
  [r EXCEPT !.vis    = "suppressed",
            !.skind  = "ancestor_loss",
            !.reason = reason,
            !.since  = IF r.since = 0 THEN g ELSE r.since]

\* Mutant: the recovery counter runs on while the row is masked.
ClearedBlind(u, fired, k) ==
  k \notin DOMAIN fired /\ u[k].absent + 1 >= RecoveryWindow

\* A missing row is masked, cleared at the end of its recovery window, or
\* counted absent once more; rows that fired are left alone.
Cleared(u, fired, k) ==
  k \notin DOMAIN fired /\ ~Masked(u, k) /\ u[k].absent + 1 >= RecoveryWindow

Aged(u, fired, g) ==
  [k \in {x \in DOMAIN u : ~Cleared(u, fired, x)} |->
     IF k \in DOMAIN fired THEN u[k]
     ELSE IF Masked(u, k) THEN SuppressRow(u[k], MaskingReason(u, k), g)
     ELSE [u[k] EXCEPT !.absent = @ + 1]]
-----------------------------------------------------------------------------
(***************************************************************************)
(* Work-state expiry and entity garbage collection.                        *)
(***************************************************************************)

TtlExpired(r, now) ==
  /\ r.expires # 0
  /\ r.expires < now
  /\ r.work \in {"acknowledged", "quiesced", "suppressed"}

ExpireRow(r, now) ==
  IF TtlExpired(r, now)
  THEN [r EXCEPT !.work    = "new",
                 !.acked   = IF r.work = "acknowledged" THEN FALSE ELSE r.acked,
                 !.expires = 0]
  ELSE r

\* present: hosts found in any of the four current-state tables;
\* reported: hosts found in hosts_current or services_current.
GoneGens(r, h, present, reported) ==
  IF h \in reported THEN 0
  ELSE IF r.vis = "observed" /\ h \notin present THEN r.gone + 1
  ELSE r.gone

Collected(t, present, reported) ==
  LET gone(k) == GoneGens(t[k], HostOf(k), present, reported)
  IN  [k \in {x \in DOMAIN t : gone(x) <= EntityGcThreshold} |->
         [t[k] EXCEPT !.gone = gone(k)]]

\* update_warning_state_inner: the table before the overlays.
Inner(t, fired, g, retired, now, present, reported) ==
  LET aged == Aged(Upserted(t, fired, g, retired), fired, g)
  IN  Collected([k \in DOMAIN aged |-> ExpireRow(aged[k], now)], present, reported)

-----------------------------------------------------------------------------
(***************************************************************************)
(* Operator declarations.  active is the list of declarations in force, in *)
(* the order of the declarations file.                                     *)
(***************************************************************************)
Declaration == [id : Declarations, host : Hosts, mode : {"withdrawn", "quiesced"}]

ActiveIds(active) == {active[i].id : i \in DOMAIN active}

\* Mutant: only rows that are still suppressed are released.
ReleaseRowHidden(r, active) ==
  IF /\ r.vis = "suppressed"
     /\ r.skind = "operator_declaration"
     /\ r.sdecl \notin ActiveIds(active)
  THEN [r EXCEPT !.vis = "observed", !.skind = None, !.sdecl = None,
                 !.reason = None, !.since = 0]
  ELSE r

ReleaseRow(r, active) ==
  IF r.skind = "operator_declaration" /\ r.sdecl \notin ActiveIds(active)
  THEN [r EXCEPT !.vis = "observed", !.skind = None, !.sdecl = None,
                 !.reason = None, !.since = 0]
  ELSE r

\* Positions of the declarations that withdraw host h; the last one applied
\* names the row.
Withdrawing(active, h) ==
  {i \in DOMAIN active : active[i].host = h /\ active[i].mode = "withdrawn"}

WithdrawRow(r, d, g) ==
  [r EXCEPT !.vis    = "suppressed",
            !.skind  = "operator_declaration",
            !.sdecl  = d,
            !.reason = None,
            !.since  = IF r.since = 0 THEN g ELSE r.since]

DeclarationOverlay(t, active, g) ==
  [k \in DOMAIN t |->
     LET r == ReleaseRow(t[k], active)
         w == Withdrawing(active, HostOf(k))
     IN  IF w = {} THEN r
         ELSE WithdrawRow(r, active[CHOOSE i \in w : \A j \in w : j <= i].id, g)]
-----------------------------------------------------------------------------
(***************************************************************************)
(* Maintenance declarations annotate rows and hide nothing.                *)
(***************************************************************************)

\* windows: declared windows [host, kind, start, end].
MaintenanceOverlay(t, windows, now) ==
  [k \in DOMAIN t |->
     LET scope == {w \in windows : w.host = HostOf(k) /\ w.kind = KindOf(k)}
     IN  [t[k] EXCEPT !.maint =
            IF \E w \in scope : w.start <= now /\ now <= w.end THEN "covered"
            ELSE IF \E w \in scope : w.end < now THEN "overrun"
            ELSE None]]

\* update_warning_state_with_origin_mode: the whole transaction.
Lifecycle(t, fired, g, retired, now, present, reported, active, windows) ==
  MaintenanceOverlay(
    DeclarationOverlay(
      Inner(t, fired, g, retired, now, present, reported), active, g),
    windows, now)
=============================================================================
