----------------------------- MODULE MCInquiry -----------------------------
(***************************************************************************)
(* Inquiries for TLC: about stored findings (ReportInquiry), about         *)
(* certificates on the network (TlsInquiry), and the plans and preflights  *)
(* of both (InquiryPlans).  A behaviour is one of one of them: part says   *)
(* which, and the variables of the others are off.                         *)
(***************************************************************************)
EXTENDS ReportInquiry

CONSTANTS
  h1, s1, d1,
  \* of TlsInquiry
  Targets, MaxDepth, Numeric, AddressNames, Grants, Remainders, PerTarget, Total,
  TicksPerMs, ReserveDivisor, ReserveCap, MaxTicks,
  \* of InquiryPlans
  Absent, Plans, Intents, Catalogs, Envelopes, MaxFileEdits, MaxInquiries

VARIABLES
  part,
  stage, plan, grant, clock, current, seen, receipt, position, admitted, moves, wire,
  planFile, catalogFile, grantFile, process, compiled, preflight, answer, escalation,
  fileEdits, inquiries

Planning == INSTANCE InquiryPlans WITH None <- Absent, Targets <- {}
Tls == INSTANCE TlsInquiry WITH MaxTime <- MaxTicks

ASSUME GrantsAssumption == Tls!GrantsAssumption
ASSUME TlsAssumption == Tls!TlsAssumption
ASSUME PlansAssumption == Planning!PlansAssumption

tlsVars == <<stage, plan, grant, clock, current, seen, receipt, position, admitted, moves, wire>>
plansVars ==
  <<planFile, catalogFile, grantFile, process, compiled, preflight, answer, escalation, fileEdits,
    inquiries>>
inquiryVars == <<part, vars, tlsVars, plansVars>>

\* A variable of a machine that does not run.
IsOff(x) == x = "off"
ReportOff ==
  /\ IsOff(now) /\ IsOff(generations) /\ IsOff(rows) /\ IsOff(marks) /\ IsOff(evidence)
  /\ IsOff(retired) /\ IsOff(phase) /\ IsOff(passes)
TlsOff ==
  /\ IsOff(stage) /\ IsOff(plan) /\ IsOff(grant) /\ IsOff(clock) /\ IsOff(current)
  /\ IsOff(seen) /\ IsOff(receipt) /\ IsOff(position) /\ IsOff(admitted)
  /\ IsOff(moves) /\ IsOff(wire)
PlansOff ==
  /\ IsOff(planFile) /\ IsOff(catalogFile) /\ IsOff(grantFile) /\ IsOff(process)
  /\ IsOff(compiled) /\ IsOff(preflight) /\ IsOff(answer) /\ IsOff(escalation) /\ IsOff(fileEdits)
  /\ IsOff(inquiries)

InquiriesInit ==
  \/ part = "report" /\ Init /\ TlsOff /\ PlansOff
  \/ part = "tls" /\ Tls!Init /\ ReportOff /\ PlansOff
  \/ part = "plans" /\ Planning!PlansInit /\ ReportOff /\ TlsOff

InquiriesNext ==
  /\ UNCHANGED part
  /\ \/ part = "report" /\ Next /\ UNCHANGED <<tlsVars, plansVars>>
     \/ part = "tls" /\ Tls!Next /\ UNCHANGED <<vars, plansVars>>
     \/ part = "plans" /\ Planning!PlansNext /\ UNCHANGED <<vars, tlsVars>>

\* The fairness of TlsInquiry.
InquiriesSpec ==
  InquiriesInit /\ [][InquiriesNext]_inquiryVars /\ WF_tlsVars(part = "tls" /\ Tls!Execute)
-----------------------------------------------------------------------------
MCSourceOf == [k \in Keys |-> s1]

Envelope(n, ms) ==
  [dns |-> n, connections |-> n, handshakes |-> n, completed |-> n, checks |-> n,
   wall |-> ms, work |-> 4 * n]

\* Exact grants, one that is a millisecond short, one that has the work units
\* but no second handshake, one that is too shallow, one for another class.
MCGrants ==
  {[scope |-> Targets, depth |-> 2, envelope |-> Envelope(2, Total), classes |-> {"tls_cert_probe"}],
   [scope |-> {1}, depth |-> 1, envelope |-> Envelope(1, Total), classes |-> {"tls_cert_probe"}],
   [scope |-> Targets, depth |-> 1, envelope |-> Envelope(2, Total - 1), classes |-> {"tls_cert_probe"}],
   [scope |-> Targets, depth |-> 1, envelope |-> [Envelope(2, Total) EXCEPT !["handshakes"] = 1],
    classes |-> {"tls_cert_probe"}],
   [scope |-> Targets, depth |-> 0, envelope |-> Envelope(2, Total), classes |-> {"tls_cert_probe"}],
   [scope |-> Targets, depth |-> 1, envelope |-> Envelope(2, Total), classes |-> {}]}

MCRemainders == {Envelope(2, Total), Envelope(1, Total), Envelope(1, 1), Envelope(0, 0), Envelope(3, Total)}

\* Targets: a2 has a's id at another endpoint.
Target(id, endpoint) == [id |-> id, endpoint |-> endpoint, whole |-> TRUE]
a == Target("a", 1)
a2 == Target("a", 2)
b == Target("b", 1)
nobody == [a EXCEPT !.whole = FALSE]

\* Profiles at the limits of their bounds.
Survey(targets, per, total) ==
  [declared |-> targets, maxTargets |-> Len(targets), concurrency |-> 1,
   perTarget |-> per, total |-> total, horizon |-> 3650]
Certs ==
  [id |-> "certs", aliases |-> <<"tls", "edge">>, kind |-> "tls", selector |-> Absent,
   maxAge |-> 0, limit |-> 0, tls |-> Survey(<<a, b>>, 60000, 120000), coverage |-> <<"c">>,
   cannot |-> <<"consequence_authority", "discovery">>]
Report ==
  [Certs EXCEPT !.id = "report", !.aliases = <<>>, !.kind = "report", !.selector = "disk",
                !.maxAge = 1, !.limit = 1000, !.tls = Absent]
\* The same profile written down in another order, with another endpoint, with
\* less time, with a time that does not do, and with a name that is taken.
MCCatalogs ==
  {<<Certs, Report>>,
   <<Report, [Certs EXCEPT !.aliases = <<"edge", "tls">>, !.tls.declared = <<b, a>>]>>,
   <<[Certs EXCEPT !.tls.declared = <<a2, b>>]>>,
   <<[Certs EXCEPT !.tls.total = 120001, !.tls.maxTargets = 32]>>,
   <<[Certs EXCEPT !.tls.total = 119999]>>,
   <<Certs, [Report EXCEPT !.aliases = <<"tls">>]>>,
   <<[Certs EXCEPT !.cannot = <<"discovery">>]>>,
   <<Certs, [Certs EXCEPT !.id = "spare", !.aliases = <<>>]>>}
Ask(profile, time, targets) ==
  [schema |-> TRUE, profile |-> profile, asOf |-> time, targets |-> targets]
MCPlans ==
  {Ask("tls", "t", <<>>), Ask("certs", "t", <<b, a>>), Ask("edge", "t", <<a>>), Ask("tls", "t", <<a2>>),
   Ask("tls", "t", <<a, a2>>), Ask("tls", "t", <<nobody>>), Ask("tls", "garbled", <<>>),
   Ask("report", "t", <<>>), Ask("report", "t", <<a>>), Ask("other", "t", <<>>),
   Ask("report", "latest", <<>>), Ask("tls", "latest", <<>>)}
\* By a name, by a question, for declared and undeclared targets.
Intent(by, selector, time, ids) == [by |-> by, selector |-> selector, asOf |-> time, targetIds |-> ids]
MCIntents ==
  {Intent("profile", "edge", "t", {"b"}), Intent("profile", "other", "t", {}),
   Intent("question", "tls", "t", {}), Intent("question", "tls", "garbled", {"a"}),
   Intent("question", "report", "latest", {}), Intent("question", "report", "t", {"a"})}
Citing(targets, findings, scope) == [targets |-> targets, findings |-> findings, scope |-> scope]
MCEnvelopes ==
  {Citing({}, {}, {a, b}), Citing({a}, {}, {a, b}), Citing({a2}, {}, {a, b}),
   Citing({a}, {}, {a, a2}), Citing({}, {"disk"}, {a, b})}
-----------------------------------------------------------------------------
(***************************************************************************)
(* Properties.                                                             *)
(***************************************************************************)

\* A report inquiry answers exactly about the newest generation, complete and
\* sealed, and no other step than a seal lets it (classify_disposition).
AnswerIsRight ==
  /\ [](part = "report" => ActiveIsCurrent /\ AnswersWhenItCan)
  /\ [][part = "report" => StandingBeginsSealed]_vars

\* Network work is within the grant at every moment and ends with the first bound
\* that cannot be honoured (execute_target), and later positions only use up what
\* was admitted (authorize_same_grant_transition).
WireWithinGrant ==
  /\ [](part = "tls" => Tls!WireWithinGrant /\ Tls!RatchetRunsDown)
  /\ [][part = "tls" => Tls!NoWorkAfterRefusedBound]_tlsVars

\* A sealed receipt accounts for the work exactly, and none is missing but for a
\* deadline overrun or two judges of one certificate (seal, verify).
ReceiptTellsTheWire ==
  part = "tls" => Tls!ReceiptTellsTheWire /\ Tls!SealFailsOnlyLate

\* A preflight foretells its inquiry: a grant for what it asks is enough, bounds
\* never fail a valid profile, and no edit of the files in between leads outside
\* the grant; a plan compiled from an intent asks for what was meant (render, admit,
\* verify_envelope, compile_inquiry_intent, emit_escalation).
PreflightForetells ==
  part = "plans" =>
    /\ Planning!GrantedAsForetold
    /\ Planning!ExecutedWithinGrant
    /\ Planning!BoundsAgree
    /\ Planning!IntentIsAsked
    /\ Planning!EscalationCites

\* An invocation ends, whatever the network does.
InvocationEnds == stage = "acquiring" ~> stage \in {"sealed", "failed"}
=============================================================================
