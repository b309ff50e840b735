--------------------------- MODULE EvaluatorSweep ---------------------------
(***************************************************************************)
(* NQ probes its own evaluators (crates/nq-monitor/src/                    *)
(* nq_evaluator_probe.rs, called at the end of each cycle of serve.rs):    *)
(* each is run once against a fixture, what became of it is classified and *)
(* inserted, and a preflight reads the latest row of a kind                *)
(* (crates/nq-db/src/nq_evaluator_state.rs).  An evaluator may panic, fail,*)
(* answer for another kind, answer without a schema or answer late; an     *)
(* insert may fail; the process may stop anywhere in between.              *)
(***************************************************************************)
EXTENDS Naturals, Sequences

CONSTANTS
  Nil,
  Fixtures,      \* ALL_FIXTURES: a sequence of kinds
  Refused,       \* kinds invoke_for_fixture has no adapter for
  Stale,         \* NQ_EVALUATOR_STATE_STALE_THRESHOLD_SECONDS, in cycles
  MaxCycles,     \* bound: sweeps
  MaxClock       \* bound: the wall clock

ASSUME SweepAssumption ==
  /\ Fixtures \in Seq(STRING) /\ Fixtures # <<>>
  /\ Stale \in Nat /\ MaxCycles \in Nat /\ MaxClock \in Nat

VARIABLES
  cycle, next,   \* sweeps begun; fixture the sweep is at, 0 outside a sweep
  sweepAt,       \* "now" of the sweep
  time,          \* wall clock
  evaluations,   \* nq_evaluator_observations, in order of insertion
  ran,           \* history: what each kind's evaluator did last, and when
  unstored       \* history: kinds whose latest observation could not be inserted

sweepVars == <<cycle, next, sweepAt, time, evaluations, ran, unstored>>

Kinds == {Fixtures[i] : i \in DOMAIN Fixtures}
Outcomes == {"panicked", "substrate_unreachable", "kind_mismatch", "shape_invalid", "timed_out", "shape_valid"}

\* What an evaluator may do: panic, return an error, or return a result with a
\* kind, a schema and a duration.
Behaviours ==
  {b \in [how : {"panic", "error", "returned"}, kind : {"own", "foreign"}, schema : BOOLEAN,
          slow : BOOLEAN] :
     b.how # "returned" => b.kind = "own" /\ b.schema /\ ~b.slow}

\* Rows of the table, and what the history keeps of a run.
TableRows == [kind : Kinds, outcome : Outcomes, at : 0..MaxClock, cycle : 0..MaxCycles, timed : BOOLEAN]
Runs == [did : Behaviours, at : 0..MaxClock, cycle : 0..MaxCycles]
-----------------------------------------------------------------------------
\* classify_outcome, classify_returned.
Classify(b) ==
  IF b.how = "panic" THEN "panicked"
  ELSE IF b.how = "error" THEN "substrate_unreachable"
  ELSE IF b.kind # "own" THEN "kind_mismatch"
  ELSE IF ~b.schema THEN "shape_invalid"
  ELSE IF b.slow THEN "timed_out" ELSE "shape_valid"

\* Mutant: a failing kind ends the sweep.
AfterFixtureStop(outcome) ==
  IF next = Len(Fixtures) \/ outcome \in {"panicked", "uninserted"} THEN 0 ELSE next + 1

\* The loop of run_probe_sweep goes on whatever became of a fixture.
AfterFixture(outcome) == IF next = Len(Fixtures) THEN 0 ELSE next + 1

BeginSweep ==
  /\ next = 0 /\ cycle < MaxCycles
  /\ cycle' = cycle + 1 /\ next' = 1 /\ sweepAt' = time
  /\ UNCHANGED <<time, evaluations, ran, unstored>>

\* The adapter refuses the kind: a warning, and on.
SkipFixture ==
  /\ next > 0 /\ Fixtures[next] \in Refused
  /\ next' = AfterFixture("refused")
  /\ UNCHANGED <<cycle, sweepAt, time, evaluations, ran, unstored>>

\* run_probe, into_db_row and the insert; timing is kept of those that returned
\* in shape, for another kind or late.
ProbeFixture ==
  /\ next > 0 /\ Fixtures[next] \notin Refused
  /\ \E b \in Behaviours, stored \in BOOLEAN :
       LET k == Fixtures[next]
           row == [kind |-> k, outcome |-> Classify(b), at |-> sweepAt, cycle |-> cycle,
                   timed |-> Classify(b) \in {"shape_valid", "kind_mismatch", "timed_out"}]
       IN /\ evaluations' = IF stored THEN Append(evaluations, row) ELSE evaluations
          /\ ran' = [ran EXCEPT ![k] = [did |-> b, at |-> sweepAt, cycle |-> cycle]]
          /\ unstored' = IF stored THEN unstored \ {k} ELSE unstored \cup {k}
          /\ next' = AfterFixture(IF stored THEN Classify(b) ELSE "uninserted")
  /\ UNCHANGED <<cycle, sweepAt, time>>

\* The process stops and starts again; the sweep is not resumed.
Crash ==
  /\ next > 0
  /\ next' = 0
  /\ unstored' = unstored \cup {k \in Kinds \ Refused : ran[k] = Nil \/ ran[k].cycle < cycle}
  /\ UNCHANGED <<cycle, sweepAt, time, evaluations, ran>>

\* The wall clock goes on, or is set back.
Clock ==
  /\ \E t \in 0..MaxClock : t # time /\ t \in {time - 1, time + 1} /\ time' = t
  /\ UNCHANGED <<cycle, next, sweepAt, evaluations, ran, unstored>>

Init ==
  /\ cycle = 0 /\ next = 0 /\ sweepAt = 0 /\ time = 0 /\ evaluations = <<>>
  /\ ran = [k \in Kinds |-> Nil] /\ unstored = {}

Next == BeginSweep \/ SkipFixture \/ ProbeFixture \/ Crash \/ Clock

Spec == Init /\ [][Next]_sweepVars
-----------------------------------------------------------------------------
\* load_latest_nq_evaluator_observation: the largest observation id of the kind.
LatestRow(k) ==
  LET own == {i \in DOMAIN evaluations : evaluations[i].kind = k}
  IN  IF own = {} THEN Nil ELSE evaluations[CHOOSE i \in own : \A j \in own : j <= i]

\* evaluate_nq_evaluator_state_preflight_at.
Verdict(k) ==
  LET r == LatestRow(k) IN
  IF r = Nil THEN "insufficient_coverage"
  ELSE IF time > r.at + Stale \/ r.outcome # "shape_valid" THEN "cannot_testify"
  ELSE "admissible_with_scope"
-----------------------------------------------------------------------------
(***************************************************************************)
(* Properties.                                                             *)
(***************************************************************************)
Sound(b) == b.how = "returned" /\ b.kind = "own" /\ b.schema /\ ~b.slow

\* Between two sweeps the verdict on a kind is about its latest run: admissible
\* only if that run was sound and is not too old, not admissible if it was not,
\* unless its row was lost; and every kind with an adapter was run in the latest
\* sweep, whatever became of the others (run_probe_sweep, classify_outcome,
\* evaluate_nq_evaluator_state_preflight_at).
VerdictsAreLatest ==
  next = 0 /\ cycle > 0 =>
    \A k \in Kinds \ Refused :
      k \notin unstored =>
        /\ ran[k] # Nil /\ ran[k].cycle = cycle
        /\ (Verdict(k) = "admissible_with_scope") <=> (Sound(ran[k].did) /\ time <= ran[k].at + Stale)
=============================================================================
