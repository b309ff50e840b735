------------------------------ MODULE MCClaims ------------------------------
(***************************************************************************)
(* What NQ will and will not claim, for TLC: receipts and reliance         *)
(* (ClaimDesk), and coverage rules with the testimony they expect          *)
(* (ComponentTestimony).  A behaviour is one of one of the two: part says  *)
(* which, and the variables of the other are off.                          *)
(***************************************************************************)
EXTENDS ClaimDesk

CONSTANTS
  \* of ComponentTestimony
  Hosts, Kinds, Declarations, Sources, SourceOf, RuleHashes, RecoveryWindow,
  EntityGcThreshold, WarnAfter, CriticalAfter,
  Tuples, OwnTuple, CoverageFiles, KeepGens, MaxCoverageTime, MaxGen, MaxRules

VARIABLES part, cnow, gen, stage, rules, beats, warnings, details, applied, heard

Testimony == INSTANCE ComponentTestimony WITH
  Files <- CoverageFiles, MaxTime <- MaxCoverageTime, now <- cnow

ASSUME CoverageAssumption == Testimony!CoverageAssumption

testimonyVars == <<cnow, gen, stage, rules, beats, warnings, details, applied, heard>>
claimsVars == <<part, vars, testimonyVars>>

\* A variable of a machine that does not run.
IsOff(x) == x = "off"
DeskOff ==
  /\ IsOff(desk) /\ IsOff(now) /\ IsOff(back) /\ IsOff(rows) /\ IsOff(files)
  /\ IsOff(book)
TestimonyOff ==
  /\ IsOff(cnow) /\ IsOff(gen) /\ IsOff(stage) /\ IsOff(rules) /\ IsOff(beats)
  /\ IsOff(warnings) /\ IsOff(details) /\ IsOff(applied) /\ IsOff(heard)

ClaimsInit ==
  \/ part = "desk" /\ Init /\ TestimonyOff
  \/ part = "testimony" /\ Testimony!Init /\ DeskOff

ClaimsNext ==
  /\ UNCHANGED part
  /\ \/ part = "desk" /\ Next /\ UNCHANGED testimonyVars
     \/ part = "testimony" /\ Testimony!Next /\ UNCHANGED vars

ClaimsSpec == ClaimsInit /\ [][ClaimsNext]_claimsVars
-----------------------------------------------------------------------------
\* Values of the desk.

Packet(type, subject, obs, at, basis, valid) ==
  [type |-> type, subject |-> subject, obs |-> obs, at |-> at, basis |-> basis, valid |-> valid]

MCDrafts ==
  {Packet("git_status", "repo", {"holds"}, 1, "native_observation", TRUE),
   Packet("git_status", "repo", {"fails"}, 2, "native_observation", TRUE),
   Packet("pytest", "repo", {"holds"}, 1, "undeclared", TRUE),
   Packet("diff_scope", "repo", {"holds"}, 2, "native_observation", TRUE),
   Packet("git_status", "fork", {"holds"}, 2, "native_observation", TRUE),
   Packet("pytest", "repo", {}, 2, "native_observation", FALSE)}

MCQuestions == {"repo_clean", "ready_for_review", "safe_to_merge"}

MCSays ==
  [dns_state |-> {{"success"}, {"timeout"}, {"transport_error"}},
   ingest_state |-> {{"complete"}, {"partial"}},
   service_state |-> {{"active"}, {"failed"}},
   sqlite_wal_state |-> {{}, {"over_half", "pinned"}, {"over_2g", "over_10g", "unpinned"}, {"stat_error"}},
   nq_evaluator_state |-> {{"shape_valid"}, {"evaluator_error"}},
   nq_binary_mtime_state |-> {{"observed"}, {"permission_denied"}},
   nq_sql_contract_state |-> {{"pass"}, {"fail"}, {"not_json"}, {"other_schema"}},
   disk_state |->
     {{}, {<<"smart_status_lies", "sda", "observable">>},
      {<<"zfs_pool_degraded", "pool", "observable">>, <<"zfs_witness_silent", "zfs", "observable">>},
      {<<"zfs_vdev_faulted", "pool/vdev", "suppressed_by_ancestor">>,
       <<"zfs_witness_silent", "zfs", "observable">>, <<"smart_witness_silent", "smart", "observable">>},
      {<<"zfs_pool_degraded", "pool", "observable">>, <<"node_unobservable", "zfs", "observable">>}},
   claim_registry |-> {}]

Profile(known, claims, bases, maxAge, refuse, required) ==
  [known |-> known, claims |-> claims, purposes |-> {"review"}, bases |-> bases, maxAge |-> maxAge,
   refuseContradiction |-> refuse, refusePremise |-> refuse, refuseResidual |-> refuse,
   required |-> required]

MCProfiles ==
  {Profile(TRUE, MCQuestions \cup Timed \cup Untimed, {"native_observation", "legacy_projection"}, 2,
           FALSE, {}),
   Profile(TRUE, {"ready_for_review"}, {"native_observation", "undeclared"}, 1, TRUE, {"repo_clean"}),
   Profile(FALSE, {}, {}, 0, TRUE, {})}

Context(age, supportAge, flaw) ==
  [age |-> age, supportAge |-> supportAge, contradicted |-> flaw, premise |-> flaw, residual |-> flaw]

MCRequests ==
  {[claim |-> "ready_for_review", purpose |-> "review"], [claim |-> "dns_state", purpose |-> "act"]}

MCContexts == {Context(1, None, FALSE), Context(None, None, FALSE), Context(3, 1, TRUE)}
-----------------------------------------------------------------------------
\* Values of the coverage rules.

MCHosts == {"nq.local"}
MCKinds == {"coverage_testimony_absent"}
MCSourceOf == [k \in MCHosts \X MCKinds |-> "none"]

Open(t, w, s) == [tuple |-> t, window |-> w, start |-> s, until |-> 0]
Own1 == Open("loop", 1, 0)
Own2 == Open("loop", 3, 2)
Broken == Open("loop", 0, 0)
Other1 == Open("other", 1, 0)
Other5 == Open("other", 1, 5)

Ending == [Own1 EXCEPT !.until = 4]

\* Edits of a rule, a rule that has not begun, a declaration that is invalid,
\* two of one tuple, and one that ends: alone, beside another, and in place of
\* the open-ended one.
MCCoverageFiles ==
  {<<>>, <<Own1>>, <<Own2, Other1>>, <<Own1, Other5>>,
   <<Broken, Own1>>, <<Own2, Own1>>, <<Ending>>, <<Ending, Other1>>}
-----------------------------------------------------------------------------
(***************************************************************************)
(* Properties.                                                             *)
(***************************************************************************)

\* check --fresh and the evaluator, asked again, draw one boundary.
HorizonAgrees == part = "desk" => StaleTogether

\* Replay and check tell exactly the receipts that stand on the files they are
\* given (receipt_replay.rs, receipt_check.rs).
ReceiptsAgree == part = "desk" => ReplayReproduces /\ CheckTellsTheFiles

\* Reliance is authorised only on receipts that stand (decide_reliance).
RelianceIsGrounded == part = "desk" => AuthorizedStands

\* What is authorised is reliance on the claim that was verified, which is what
\* CONSUMER_RELIANCE.md says and reliance.rs does not do.
RelianceIsOnTheClaim == part = "desk" => AuthorizedClaimIsVerified

\* The rules in force are the open-ended ones last declared, and the table is
\* only added to and closed, by what was declared (reconcile_coverage_rules).
RulesAreKept ==
  /\ [](part = "testimony" => Testimony!InForceAsDeclared)
  /\ [][part = "testimony" => Testimony!RulesAreHistory]_testimonyVars

\* No tuple has two active rules, which is what migration 051 says and reconcile
\* does not do.
RulesAreSingle == part = "testimony" => Testimony!OneActiveRule

\* A loop called admissible was heard, the absence finding is recorded only of
\* one that was not, and is recorded whenever the loop's time has run out
\* (classify, record_observation_loop_absence).
TestimonyIsJust ==
  /\ [](part = "testimony" => Testimony!AdmissibleWasHeard)
  /\ [][part = "testimony" => Testimony!AlarmIsJust /\ Testimony!SilenceIsRecorded]_testimonyVars
=============================================================================
