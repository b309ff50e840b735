--------------------------- MODULE FindingExchange ---------------------------
(***************************************************************************)
(* Findings leaving and entering the store: nq-db export.rs and import.rs, *)
(* with the drill command (cmd/drill.rs) and the parts of publish.rs that  *)
(* write what is exported.  A consumer outside the repository keeps a      *)
(* watermark and asks for what changed since (docs/working/gaps/           *)
(* FINDING_EXPORT_GAP.md).  A generation and the rows of its pass are two  *)
(* transactions; an import is one statement per finding, each committed by *)
(* itself; an export reads the generation in one statement and the rows in *)
(* another.  Retention deletes a generation and, by cascade, what was      *)
(* observed in it; the rows of warning_state stay.  ingest_finding_import  *)
(* has no caller yet: it is called here between two cycles, with the       *)
(* latest generation.                                                      *)
(***************************************************************************)
EXTENDS Naturals, FiniteSets, Sequences, FiniteSetsExt, SequencesExt

CONSTANTS
  None,
  Findings,      \* identities <<kind, subject>> of one host, of detectors and producers
  Parent,        \* its stale_host, which masks the others
  Manifests,     \* what a producer may send
  Modes,         \* VALID_ORIGIN_MODES
  RecoveryGens,  \* absences after which a row is deleted
  Kept,          \* retention.max_generations
  MaxGenerations \* bound: generations

VARIABLES
  committed,     \* MAX(generation_id)
  due,           \* what the pass of that generation is to write, None after it
  table,         \* warning_state: identity -> row, None without one
  inbox,         \* the import under way: [manifest, left], or None
  reading,       \* the export under way: [since, suppressed, generation], or None
  consumer,      \* [mark, has]: its watermark, and last_seen_gen by identity
  observations,  \* finding_observations: identity -> generations of its rows
  pruned,        \* generations up to it are deleted
  found          \* history: identity -> generations whose pass found it

exchangeVars ==
  <<committed, due, table, inbox, reading, consumer, observations, pruned, found>>
-----------------------------------------------------------------------------
Runs == {mf.run : mf \in Manifests}

\* Rows NQ writes about a producer rather than for it.
Refusal(run) == <<"inbound_export_unparsable", run>>
Staleness(run) == <<"extraction_stale", run>>
Own == {Refusal(r) : r \in Runs} \cup {Staleness(r) : r \in Runs}
Identities == Findings \cup Own

\* The findings a producer may send.
Sendable == UNION {{mf.findings[i].key : i \in DOMAIN mf.findings} : mf \in Manifests}

Rows ==
  [first : Nat, last : Nat, absent : Nat, why : {None, "host_unreachable", "operator_declaration"},
   source : {"nq", "import"}, run : {None} \cup Runs, mode : Modes \cup {"observed", "drill"}]

\* No producer sends NQ's own rows, and no detector finds them.
ExchangeAssumption ==
  /\ Parent \in Findings /\ Sendable \subseteq Findings /\ Findings \cap Own = {}
  /\ IsFiniteSet(Findings) /\ IsFiniteSet(Manifests)
  /\ \A mf \in Manifests : mf.findings \in Seq(Range(mf.findings))
  /\ RecoveryGens \in Nat /\ MaxGenerations \in Nat /\ Kept \in Nat \ {0}
  /\ None \notin Rows \cup Runs \cup Findings \cup {"host_unreachable", "operator_declaration"}

\* A new row; why is what suppresses it, None while it is observed.
\* consecutive_gens begins at 1 and only grows or returns to 1, so the export's
\* filter on it holds of every row and the column is left out.
NewRow(run, mode, source) ==
  [first |-> committed, last |-> committed, absent |-> 0, why |-> None,
   source |-> source, run |-> run, mode |-> mode]

\* The upsert of update_warning_state_with_origin_mode: it stamps origin_mode
\* and never the other origin columns.
Fired(row, mode) ==
  IF row = None THEN NewRow(None, mode, "nq")
                ELSE [row EXCEPT !.last = committed, !.absent = 0, !.why = None,
                                 !.mode = mode]

\* A row the pass did not find: masked, or one generation closer to deletion.
NotFired(row, masked) ==
  IF row = None THEN None
  ELSE IF masked THEN [row EXCEPT !.why = "host_unreachable"]
  ELSE IF row.absent + 1 >= RecoveryGens THEN None
  ELSE [row EXCEPT !.absent = @ + 1]

Observed(row) == row # None /\ row.why = None

\* apply_declaration_overlay, for the rows of the host.
Overlaid(row, withdrawn) ==
  IF row = None THEN None
  ELSE IF withdrawn THEN [row EXCEPT !.why = "operator_declaration"]
  ELSE IF row.why = "operator_declaration" THEN [row EXCEPT !.why = None] ELSE row

\* The pass: upserts, then the rows that did not fire, masked by a parent that
\* fired or still lingers in its recovery window, then declarations.
Passed(t, pass) ==
  LET fired == [k \in Identities |-> IF k \in pass.fires THEN Fired(t[k], pass.mode) ELSE t[k]]
      masked(k) == k \in Findings \ {Parent} /\ Observed(fired[Parent])
      aged(k) == IF k \in pass.fires THEN fired[k] ELSE NotFired(fired[k], masked(k))
  IN [k \in Identities |-> IF k \in Findings THEN Overlaid(aged(k), pass.withdrawn) ELSE aged(k)]

\* emit_refusal_finding and maybe_emit_extraction_stale.
OwnRow(row) == IF row = None THEN NewRow(None, "observed", "nq")
                             ELSE [row EXCEPT !.last = committed]

\* insert_imported_finding: ON CONFLICT leaves first_seen_gen, absent_gens and
\* visibility_state as they are.
Imported(row, mf, f) ==
  LET mode == IF f.mode = None THEN "observed" ELSE f.mode IN
  IF row = None THEN NewRow(mf.run, mode, "import")
                ELSE [row EXCEPT !.last = committed, !.source = "import",
                                 !.run = mf.run, !.mode = mode]

\* ingest_finding_import: shape, version and every origin_mode are looked at
\* before the first finding is written.
Acceptable(mf) ==
  /\ mf.shape = "ok"
  /\ \A i \in DOMAIN mf.findings : mf.findings[i].mode \in Modes \cup {None}

\* Mutant: the filter looks at the generation a finding was first seen in.
ChangedSinceFirst(row, filter) ==
  row # None /\ row.first > filter.since /\ (filter.suppressed \/ row.why = None)
\* The filter of an export.
ChangedSince(row, filter) ==
  row # None /\ row.last > filter.since /\ (filter.suppressed \/ row.why = None)

\* derive_condition_state; no row has a streak of 0, so none is "clear".
ConditionState(row) == IF row.why # None THEN "suppressed" ELSE "open"

\* resolve_ancestor_finding_key: the masking parent, if it is still observed.
ResolveAncestor == IF Observed(table[Parent]) THEN Parent ELSE None

\* build_admissibility.
Admissibility(row) ==
  CASE row.why = None -> [state |-> "observable", ancestor |-> None]
    [] row.why = "operator_declaration" -> [state |-> "suppressed_by_declaration", ancestor |-> None]
    [] row.why = "host_unreachable" -> [state |-> "suppressed_by_ancestor", ancestor |-> ResolveAncestor]

\* load_observations_summary.
Observations(k) ==
  [total |-> Cardinality(observations[k]),
   newest |-> IF observations[k] = {} THEN 0 ELSE Max(observations[k])]

\* A finding snapshot, all of it read while the statement over the rows is open.
Snapshot(k) ==
  [last |-> table[k].last, condition |-> ConditionState(table[k]),
   admissibility |-> Admissibility(table[k]), observations |-> Observations(k),
   origin |-> IF table[k].source = "import" THEN table[k].run ELSE None, mode |-> table[k].mode]
-----------------------------------------------------------------------------
ExchangeInit ==
  /\ committed = 0 /\ due = None /\ inbox = None /\ reading = None
  /\ table = [k \in Identities |-> None]
  /\ consumer = [mark |-> 0, has |-> [k \in Identities |-> 0]]
  /\ observations = [k \in Identities |-> {}]
  /\ pruned = 0 /\ found = [k \in Identities |-> {}]

\* publish_batch commits the generation.  A pass that was due is lost: the
\* process died before it, or it failed.
PublishBatch ==
  /\ committed < MaxGenerations
  /\ inbox = None
  /\ committed' = committed + 1
  /\ \E fires \in SUBSET Findings, withdrawn \in BOOLEAN, mode \in {"observed", "drill"} :
       due' = [fires |-> fires, withdrawn |-> withdrawn, mode |-> mode]
  /\ UNCHANGED <<table, inbox, reading, consumer, observations, pruned, found>>

\* The pass adds an observation of each finding it found.
Written(log) ==
  [k \in Identities |-> IF k \in due.fires THEN log[k] \cup {committed} ELSE log[k]]

\* update_warning_state, or the drill's, in one transaction.
UpdateWarningState ==
  /\ due # None
  /\ due' = None
  /\ table' = Passed(table, due)
  /\ observations' = Written(observations) /\ found' = Written(found)
  /\ UNCHANGED <<committed, inbox, reading, consumer, pruned>>

\* prune: the oldest generations go, and the observations made in them.
Prune ==
  /\ committed - pruned > Kept
  /\ pruned' = committed - Kept
  /\ observations' = [k \in Identities |-> {g \in observations[k] : g > pruned'}]
  /\ UNCHANGED <<committed, due, table, inbox, reading, consumer, found>>

IngestRefuse ==
  /\ inbox = None /\ due = None /\ committed > 0
  /\ \E mf \in Manifests :
       /\ ~Acceptable(mf)
       /\ table' = [table EXCEPT ![Refusal(mf.run)] = OwnRow(@)]
  /\ UNCHANGED <<committed, due, inbox, reading, consumer, observations, pruned, found>>

IngestBegin ==
  /\ inbox = None /\ due = None /\ committed > 0
  /\ \E mf \in Manifests :
       Acceptable(mf) /\ inbox' = [manifest |-> mf, left |-> mf.findings]
  /\ UNCHANGED <<committed, due, table, reading, consumer, observations, pruned, found>>

IngestInsert ==
  /\ inbox # None /\ inbox.left # <<>>
  /\ LET f == Head(inbox.left) IN
       table' = [table EXCEPT ![f.key] = Imported(@, inbox.manifest, f)]
  /\ inbox' = [inbox EXCEPT !.left = Tail(@)]
  /\ UNCHANGED <<committed, due, reading, consumer, observations, pruned, found>>

IngestEnd ==
  /\ inbox # None /\ inbox.left = <<>>
  /\ inbox' = None
  /\ table' = IF inbox.manifest.old
              THEN [table EXCEPT ![Staleness(inbox.manifest.run)] = OwnRow(@)]
              ELSE table
  /\ UNCHANGED <<committed, due, reading, consumer, observations, pruned, found>>

\* A statement fails or the process dies: what was inserted stays.
IngestStops ==
  /\ inbox # None
  /\ inbox' = None
  /\ UNCHANGED <<committed, due, table, reading, consumer, observations, pruned, found>>

\* findings export --changed-since: MAX(generation_id) ...
ExportBegin ==
  /\ reading = None
  /\ \E suppressed \in BOOLEAN :
       reading' = [since |-> consumer.mark, suppressed |-> suppressed, generation |-> committed]
  /\ UNCHANGED <<committed, due, table, inbox, consumer, observations, pruned, found>>

\* ... and then the rows.  The consumer keeps the newest last_seen_gen it got.
ExportRows ==
  /\ reading # None
  /\ reading' = None
  /\ LET sent == {k \in Identities : ChangedSince(table[k], reading)}
         shots == [k \in sent |-> Snapshot(k)]
     IN consumer' = [mark |-> Max({consumer.mark} \cup {shots[k].last : k \in sent}),
                     has |-> [k \in Identities |-> IF k \in sent THEN shots[k].last ELSE consumer.has[k]]]
  /\ UNCHANGED <<committed, due, table, inbox, observations, pruned, found>>

ExchangeNext ==
  \/ PublishBatch \/ UpdateWarningState \/ Prune
  \/ IngestRefuse \/ IngestBegin \/ IngestInsert \/ IngestEnd \/ IngestStops
  \/ ExportBegin \/ ExportRows
-----------------------------------------------------------------------------
\* A consumer that asks for what changed since the newest last_seen_gen it has
\* does not miss a finding that fires: one that the pass of a generation up to
\* its watermark found, that is visible and not absent, was delivered as of
\* that generation, although generation, rows and imports are committed apart.
WatermarkMissesNoFiring ==
  \A k \in Identities :
    /\ Observed(table[k]) /\ table[k].absent = 0
    /\ table[k].last \in found[k]
    /\ table[k].last <= consumer.mark
    => consumer.has[k] = table[k].last

\* A snapshot's parts, which are read from several rows and two tables, agree:
\* the newest observation of a finding no producer sent is the one it was last
\* seen in, and if that generation is deleted there is no other; a finding open
\* for the consumer is one an export without suppressed findings selects; and an
\* ancestor it is suppressed by was found or sent at some time, whether or not
\* the export can still name it.
SnapshotAgrees ==
  \A k \in {f \in Findings : table[f] # None} :
    LET s == Snapshot(k) IN
    /\ s.origin = None => s.observations.newest = IF s.last > pruned THEN s.last ELSE 0
    /\ s.condition = "open" <=> ChangedSince(table[k], [since |-> 0, suppressed |-> FALSE])
    /\ s.admissibility.state = "suppressed_by_ancestor" =>
         /\ found[Parent] # {} \/ Parent \in Sendable
         /\ s.admissibility.ancestor # None => Snapshot(Parent).condition = "open"

\* A refused manifest leaves one row of NQ's own and none of its findings: a row
\* of a run is of a finding that some manifest of that run id carries whose every
\* finding is valid.  A run id may be given twice.
RefusedLeavesNothing ==
  \A k \in Identities :
    table[k] # None /\ table[k].source = "import" =>
      \E mf \in Manifests :
        /\ mf.run = table[k].run /\ mf.shape = "ok"
        /\ \E i \in DOMAIN mf.findings : mf.findings[i].key = k
        /\ \A i \in DOMAIN mf.findings : mf.findings[i].mode \in Modes \cup {None}
=============================================================================
