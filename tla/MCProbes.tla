------------------------------ MODULE MCProbes ------------------------------
(***************************************************************************)
(* The probes for TLC: of firewall boxes (BoxProbes), of resolvers         *)
(* (DnsProbe) and of NQ's own evaluators (EvaluatorSweep).  They share no  *)
(* state, so a behaviour is one of one of them: probe says which, and the  *)
(* variables of the others are off.                                        *)
(***************************************************************************)
EXTENDS EvaluatorSweep

CONSTANTS
  BoxKinds, MaxReadings, MaxChanges,   \* of BoxProbes
  Queries, Ids                         \* of DnsProbe

VARIABLES
  probe,
  kind, options, world, changes, pc, at, got, receipt, combined, seen, sent,
  query, idOf, dnsPc, wire, open, dnsRows, truth

Box == INSTANCE BoxProbes WITH None <- Nil, Kinds <- BoxKinds, MaxTime <- MaxReadings
Dns == INSTANCE DnsProbe WITH None <- Nil

ASSUME BoxAssumption == Box!BoxAssumption
ASSUME DnsAssumption == Dns!DnsAssumption
ASSUME NoneAssumption ==
  /\ Nil \notin Dns!Replies \cup TableRows \cup Runs \cup Ids
  /\ Nil \notin {"present", "absent", "reached", "not_reached", "fine", "lost", "isc", "kea",
                  "corroborated", "divergent"}

boxVars == <<kind, options, world, changes, pc, at, got, receipt, combined, seen, sent>>
dnsVars == <<query, idOf, dnsPc, wire, open, dnsRows, truth>>
probeVars == <<probe, boxVars, dnsVars, sweepVars>>

\* A variable of a machine that does not run.
NotRun(x) == x = "off"
BoxOff ==
  /\ NotRun(kind) /\ NotRun(options) /\ NotRun(world) /\ NotRun(changes) /\ NotRun(pc)
  /\ NotRun(at) /\ NotRun(got) /\ NotRun(receipt) /\ NotRun(combined) /\ NotRun(seen)
  /\ NotRun(sent)
DnsOff ==
  /\ NotRun(query) /\ NotRun(idOf) /\ NotRun(dnsPc) /\ NotRun(wire) /\ NotRun(open)
  /\ NotRun(dnsRows) /\ NotRun(truth)
SweepOff ==
  /\ NotRun(cycle) /\ NotRun(next) /\ NotRun(sweepAt) /\ NotRun(time) /\ NotRun(evaluations)
  /\ NotRun(ran) /\ NotRun(unstored)

ProbesInit ==
  \/ probe = "box" /\ Box!Init /\ DnsOff /\ SweepOff
  \/ probe = "dns" /\ Dns!Init /\ BoxOff /\ SweepOff
  \/ probe = "sweep" /\ Init /\ BoxOff /\ DnsOff

ProbesNext ==
  /\ UNCHANGED probe
  /\ \/ probe = "box" /\ Box!Next /\ UNCHANGED <<dnsVars, sweepVars>>
     \/ probe = "dns" /\ Dns!Next /\ UNCHANGED <<boxVars, sweepVars>>
     \/ probe = "sweep" /\ Next /\ UNCHANGED <<boxVars, dnsVars>>

ProbesSpec == ProbesInit /\ [][ProbesNext]_probeVars

MCFixtures == <<"disk_state", "ingest_state", "nq_sql_contract_state">>
-----------------------------------------------------------------------------
(***************************************************************************)
(* Properties.                                                             *)
(***************************************************************************)

\* The verdict of a probe of a box rests on what was so while it was under way
\* (compute_verdict and evaluate_* of the three probes).
VerdictIsWitnessed == probe = "box" => Box!VerdictIsWitnessed

\* A row of the DNS probe is about the reply to a query of its own id
\* (parse_response).
RowTellsTheReply == probe = "dns" => Dns!RowTellsTheReply

\* The verdict on an evaluator is about its latest run, and each is run in each
\* sweep (run_probe_sweep, evaluate_nq_evaluator_state_preflight_at).
SweepTellsEach == probe = "sweep" => VerdictsAreLatest
=============================================================================
