------------------------- MODULE ComponentTestimony -------------------------
(***************************************************************************)
(* What NQ says about itself.  An operator declares in a file that the     *)
(* observation loop is to be heard of; once per cycle the loop brings the  *)
(* coverage_rules table in line with the file (coverage_rules.rs), writes  *)
(* one heartbeat under the rule in force, asks whether heartbeats are      *)
(* missing, and records a coverage_testimony_absent finding when they are  *)
(* (component_testimony.rs).  The finding is a row of warning_state like   *)
(* any other, so the lifecycle pass of the next cycle (FindingRows) ages   *)
(* it; no detector fires it.                                               *)
(*                                                                         *)
(* Every stage of a cycle commits on its own and may fail on its own; a    *)
(* failure is logged and the cycle goes on.                                *)
(***************************************************************************)
EXTENDS FindingRows, Sequences, SequencesExt

CONSTANTS
  Tuples,       \* (component, subject, claim kind) a rule may expect
  OwnTuple,     \* the one of the observation loop
  Files,        \* contents the coverage file may have
  KeepGens,     \* retention.max_generations
  MaxTime,      \* bound: clock
  MaxGen,       \* bound: generations
  MaxRules      \* bound: rows of coverage_rules

\* A declaration; window is expected_interval_s times grace_multiplier, and
\* until is 0 where valid_until is null.
Declared == [tuple : Tuples, window : Nat, start : Nat, until : Nat]

CoverageAssumption ==
  /\ OwnTuple \in Tuples
  /\ \A f \in Files : f \in Seq(Declared)
  /\ KeepGens \in Nat \ {0}
  /\ MaxTime \in Nat /\ MaxGen \in Nat /\ MaxRules \in Nat
  /\ Cardinality(Hosts) = 1 /\ Cardinality(Kinds) = 1
  /\ \A k \in Keys : SourceOf[k] = None
  /\ WarnAfter > 0 /\ CriticalAfter > 0

\* The identity of the finding: component nq.local, its one subject.
Absence == CHOOSE k \in Keys : TRUE

VARIABLES
  now,        \* the clock
  gen,        \* latest generation
  stage,      \* the last stage of the cycle that was carried out, or "idle"
  rules,      \* coverage_rules: [decl, until], a row's position is its id
  beats,      \* observation_loop_alive_observations: [gen, at, expires, rule, decl]
  warnings,   \* warning_state
  details,    \* coverage_testimony_absence_details, at most one: [state, rule]
  applied,    \* history: what the last committed reconcile was given
  heard       \* history: expires_at of the last heartbeat, 0 before the first

vars == <<now, gen, stage, rules, beats, warnings, details, applied, heard>>

AbsenceStates == {"never_observed", "previously_observed_expired"}
-----------------------------------------------------------------------------
(***************************************************************************)
(* The coverage file and the rules it leaves.                              *)
(***************************************************************************)

\* validate; the texts that must not be empty are left out.
Valid(d) == d.window > 0 /\ (d.until = 0 \/ d.until > d.start)

\* load_coverage_rules: of several declarations of one tuple the first one
\* counts, even when it is the invalid one.
Loaded(f) ==
  {f[i] : i \in {j \in DOMAIN f :
                   /\ Valid(f[j])
                   /\ \A h \in 1..(j - 1) : f[h].tuple # f[j].tuple}}

InForce == {i \in DOMAIN rules : rules[i].until = 0}

\* Rows in force that the file no longer declares with the same content (the
\* hash covers everything but the notes).
ToRetire(decls) == {i \in InForce : rules[i].decl \notin decls}

\* Mutant: a declaration that was ever in the table is not inserted again.
ToInsertOnce(decls) == {d \in decls : \A i \in DOMAIN rules : rules[i].decl # d}

\* Declarations without a row in force of the same content.
ToInsert(decls) == {d \in decls : \A i \in InForce : rules[i].decl # d}

\* CHECK (valid_until > coverage_start) of the table, on the rows the
\* reconcile closes.
ClosesInOrder(closed) == \A i \in closed : now > rules[i].decl.start

Closed(closed) ==
  [i \in DOMAIN rules |->
     IF i \in closed THEN [rules[i] EXCEPT !.until = now] ELSE rules[i]]

\* insert_rule: valid_until of the declaration is the row's.
NewRows(decls) ==
  LET fresh == SetToSeq(ToInsert(decls))
  IN  [i \in DOMAIN fresh |-> [decl |-> fresh[i], until |-> fresh[i].until]]

\* The file is read once a cycle, with whatever the operator left there;
\* reconcile_coverage_rules is one transaction.
ReconcileRules ==
  /\ stage = "judged"
  /\ \E f \in Files :
       LET decls == Loaded(f) IN
         /\ ClosesInOrder(ToRetire(decls))
         /\ Len(rules) + Cardinality(ToInsert(decls)) <= MaxRules
         /\ rules' = Closed(ToRetire(decls)) \o NewRows(decls)
         /\ applied' = decls
  /\ stage' = "reconciled"
  /\ UNCHANGED <<now, gen, beats, warnings, details, heard>>

\* Coverage is disabled, the file is missing or unreadable, or the transaction
\* fails, on the CHECK or for a reason of the database's.
LeaveRules ==
  /\ stage = "judged"
  /\ stage' = "reconciled"
  /\ UNCHANGED <<now, gen, rules, beats, warnings, details, applied, heard>>
-----------------------------------------------------------------------------
(***************************************************************************)
(* Heartbeats.                                                             *)
(***************************************************************************)

\* lookup_active_rule at time t: at most one, by the unique index.
ActiveRules(t) ==
  {i \in InForce : rules[i].decl.tuple = OwnTuple /\ rules[i].decl.start <= t}

BeatUnder(i) ==
  [gen |-> gen, at |-> now, expires |-> now + rules[i].decl.window,
   rule |-> i, decl |-> rules[i].decl]

\* try_emit_observation_loop_alive
Emit ==
  /\ stage = "reconciled"
  /\ \E i \in ActiveRules(now) :
       /\ beats' = beats \cup {BeatUnder(i)}
       /\ heard' = now + rules[i].decl.window
  /\ stage' = "emitted"
  /\ UNCHANGED <<now, gen, rules, warnings, details, applied>>

\* No rule is in force, or the insert fails.
EmitNothing ==
  /\ stage = "reconciled"
  /\ stage' = "emitted"
  /\ UNCHANGED <<now, gen, rules, beats, warnings, details, applied, heard>>
-----------------------------------------------------------------------------
(***************************************************************************)
(* Absence.                                                                *)
(***************************************************************************)
\* ORDER BY observed_at DESC, emission_id DESC; the id begins with the generation.
LatestBeat ==
  CHOOSE b \in beats : \A c \in beats : c.at < b.at \/ (c.at = b.at /\ c.gen <= b.gen)

\* classify_absence at time t.  The latest heartbeat counts whichever rule it
\* was written under, to the end of the window it was given then.
Classification(t) ==
  IF ActiveRules(t) = {} THEN "coverage_unknown"
  ELSE IF beats = {} THEN "never_observed"
  ELSE IF LatestBeat.expires >= t THEN "active"
  ELSE "previously_observed_expired"

\* evaluate_observation_loop_alive_preflight, what the HTTP route answers.
Verdict(t) ==
  CASE Classification(t) = "active" -> "admissible_with_scope"
    [] Classification(t) = "previously_observed_expired" -> "stale_testimony"
    [] OTHER -> "insufficient_coverage"

\* Mutant: a finding that is there is left as it is.
RecordedRowOnce ==
  IF Absence \in DOMAIN warnings THEN warnings[Absence]
  ELSE FreshRow(Absence, [hash |-> None, incident |-> FALSE], gen, {})

\* The upsert of record_coverage_testimony_absent_finding: a row there is
\* bumped, absent_gens is left as the lifecycle passes counted it.
RecordedRow ==
  IF Absence \in DOMAIN warnings
  THEN [warnings[Absence] EXCEPT !.lastSeen = gen, !.streak = @ + 1]
  ELSE FreshRow(Absence, [hash |-> None, incident |-> FALSE], gen, {})

\* Finding and detail are written in one transaction.
Record ==
  /\ stage = "emitted"
  /\ Classification(now) \in AbsenceStates
  /\ warnings' = [k \in Keys |-> RecordedRow]
  /\ \E i \in ActiveRules(now) :
       details' = {[state |-> Classification(now), rule |-> i]}
  /\ stage' = "recorded"
  /\ UNCHANGED <<now, gen, rules, beats, applied, heard>>

\* Nothing is missing, or the classification or the transaction failed.
RecordNothing ==
  /\ stage = "emitted"
  /\ Classification(now) \notin AbsenceStates
  /\ stage' = "recorded"
  /\ UNCHANGED <<now, gen, rules, beats, warnings, details, applied, heard>>

RecordFails ==
  /\ stage = "emitted"
  /\ Classification(now) \in AbsenceStates
  /\ stage' = "idle"
  /\ UNCHANGED <<now, gen, rules, beats, warnings, details, applied, heard>>
-----------------------------------------------------------------------------
(***************************************************************************)
(* The rest of the cycle.                                                  *)
(***************************************************************************)

\* publish_batch
Publish ==
  /\ stage \in {"idle", "recorded"}
  /\ gen < MaxGen
  /\ gen' = gen + 1
  /\ stage' = "published"
  /\ UNCHANGED <<now, rules, beats, warnings, details, applied, heard>>

\* The lifecycle pass.  The finding is not among those the detectors fired,
\* and nq.local is in no current-state table.
UpdateWarningState ==
  /\ stage = "published"
  /\ warnings' = Inner(warnings, <<>>, gen, {}, now, {}, {})
  /\ stage' = "judged"
  /\ UNCHANGED <<now, gen, rules, beats, details, applied, heard>>

\* The pass fails; the cycle goes on.
LoseUpdate ==
  /\ stage = "published"
  /\ stage' = "judged"
  /\ UNCHANGED <<now, gen, rules, beats, warnings, details, applied, heard>>

\* prune, at the end of a cycle, one that published nothing included:
\* heartbeats go with their generation.
Prune ==
  /\ stage \in {"idle", "recorded"}
  /\ \E b \in beats : b.gen + KeepGens <= gen
  /\ beats' = {b \in beats : b.gen + KeepGens > gen}
  /\ stage' = "idle"
  /\ UNCHANGED <<now, gen, rules, warnings, details, applied, heard>>

\* The process dies between two stages and is started again.
Restart ==
  /\ stage \notin {"idle", "recorded"}
  /\ stage' = "idle"
  /\ UNCHANGED <<now, gen, rules, beats, warnings, details, applied, heard>>

Tick ==
  /\ now < MaxTime
  /\ now' = now + 1
  /\ UNCHANGED <<gen, stage, rules, beats, warnings, details, applied, heard>>

Init ==
  /\ now = 1
  /\ gen = 0
  /\ stage = "idle"
  /\ rules = <<>>
  /\ beats = {}
  /\ warnings = [k \in {} |-> 0]
  /\ details = {}
  /\ applied = {}
  /\ heard = 0

Next ==
  \/ Publish \/ UpdateWarningState \/ LoseUpdate
  \/ ReconcileRules \/ LeaveRules
  \/ Emit \/ EmitNothing
  \/ Record \/ RecordNothing \/ RecordFails
  \/ Prune \/ Restart \/ Tick

Spec == Init /\ [][Next]_vars
-----------------------------------------------------------------------------
(***************************************************************************)
(* Properties.                                                             *)
(***************************************************************************)

\* The rules in force are exactly the open-ended ones the file declared when the
\* last reconcile committed: edits, failed transactions, files that cannot be
\* read and restarts never leave a rule that was dropped or lose one that
\* stands, and no tuple has two rules in force, so the index
\* idx_coverage_rules_active never rejects what reconcile writes.  A declaration
\* with a valid_until is never in force, before its end or after, and one that
\* replaces an open-ended rule of its tuple leaves the tuple without a rule.
InForceAsDeclared ==
  /\ {rules[i].decl : i \in InForce} = {d \in applied : d.until = 0}
  /\ \A i, j \in InForce : rules[i].decl.tuple = rules[j].decl.tuple => i = j

\* At the end of a cycle whose stages were carried out, a loop that is expected
\* to be heard of and whose last heartbeat has run out, by what was really
\* written and not by what retention left, has its finding and the detail that
\* says under which rule: the pass that clears the row and the stage that
\* records it do not cancel out.
SilenceIsRecorded ==
  (/\ stage = "emitted" /\ stage' = "recorded"
   /\ ActiveRules(now) # {} /\ heard < now)
  => /\ Absence \in DOMAIN warnings'
     /\ warnings'[Absence].lastSeen = gen
     /\ \E d \in details' : d.rule \in ActiveRules(now)

\* The absence finding is only recorded while nothing was heard within the
\* window the loop was last given, or retention has deleted every heartbeat.
AlarmIsJust == Record => heard < now \/ beats = {}

\* A loop that the HTTP route calls admissible was heard, within the window of
\* the heartbeat last written and whatever happened to its rule since.
AdmissibleWasHeard == Verdict(now) = "admissible_with_scope" => heard >= now

\* Rows of coverage_rules are history: none is removed, none changes what it
\* says, and a row that is closed stays as it is.  A row is added only for what
\* the file declares, and for an open-ended declaration only when it has no row
\* in force.
RulesAreHistory ==
  /\ Len(rules) <= Len(rules')
  /\ \A i \in DOMAIN rules :
       /\ rules'[i].decl = rules[i].decl
       /\ rules[i].until # 0 => rules'[i] = rules[i]
  /\ \A i \in DOMAIN rules' \ DOMAIN rules :
       /\ rules'[i].decl \in applied'
       /\ rules'[i].decl.until = 0 => \A j \in InForce : rules[j].decl # rules'[i].decl
-----------------------------------------------------------------------------
(* What the migration and the loader say and the code does not do.         *)

\* "Active" in the words of migration 051: valid_until is NULL or not yet passed.
Active(i) == rules[i].until = 0 \/ now < rules[i].until

\* Migration 051: "at most one ACTIVE rule per (component, subject, claim_kind)
\* tuple"; coverage_rules.rs: "A rule whose coverage_rule_hash matches an active
\* row is a no-op".
OneActiveRule ==
  \A i, j \in DOMAIN rules :
    Active(i) /\ Active(j) /\ rules[i].decl.tuple = rules[j].decl.tuple => i = j
=============================================================================
