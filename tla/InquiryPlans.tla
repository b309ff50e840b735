---------------------------- MODULE InquiryPlans ----------------------------
(***************************************************************************)
(* What comes before and after the work of an inquiry: `nq inquire` reads  *)
(* a plan and then a catalog of profiles, resolves and admits the request, *)
(* and either renders a preflight or executes                              *)
(* (crates/nq-monitor/src/cmd/inquire.rs over nq-core/src/inquiry.rs);     *)
(* `nq intent` compiles an utterance into a plan (cmd/intent.rs);          *)
(* `nq emit-escalation` asks for a wider grant on the strength of a        *)
(* receipt.  Between the preflight and the execution an authority outside  *)
(* mints the grant, and anybody may edit the files.                        *)
(*                                                                         *)
(* The acquisition itself is TlsInquiry's and the reading of the store     *)
(* ReportInquiry's: here an execution ends with what was granted for it.   *)
(* Lists are sequences as in the files; what the code sorts is a set from  *)
(* there on.  A digest is the value it digests.                            *)
(***************************************************************************)
EXTENDS Grants, Sequences, SequencesExt

CONSTANTS
  None,           \* a model value: an optional field or file that is not there
  Plans,          \* plan files
  Intents,        \* utterances
  Catalogs,       \* catalog files: sequences of profiles
  Envelopes,      \* envelope files of an escalation
  MaxFileEdits,   \* bound on edits
  MaxInquiries    \* bound on invocations

\* The documents, as they parse.  A profile's lists are sequences in a file
\* and sets once they are put in order.
Instants == {"t", "latest", "garbled"}
TlsTarget == [id : STRING, endpoint : Nat, whole : BOOLEAN]
TlsCertProfile(targets) ==
  [declared : targets, maxTargets : Nat, concurrency : Nat, perTarget : Nat, total : Nat,
   horizon : Nat]
Profile(names, targets) ==
  [id : STRING, aliases : names, kind : {"report", "tls"}, selector : STRING \cup {None},
   maxAge : Nat, limit : Nat, tls : TlsCertProfile(targets) \cup {None},
   coverage : names, cannot : names]
ProfileFile == Profile(Seq(STRING), Seq(TlsTarget))
ProfileDigested == Profile(SUBSET STRING, SUBSET TlsTarget)
CandidatePlan ==
  [schema : BOOLEAN, profile : STRING \cup {None}, asOf : Instants, targets : Seq(TlsTarget)]
Request == [profile : ProfileDigested, asOf : Instants, targets : SUBSET TlsTarget]
Witness ==
  [targets : SUBSET TlsTarget, maxTargets : Nat, concurrency : Nat, perTarget : Nat,
   total : Nat, horizon : Nat, attempts : Nat, work : Nat]
Needs ==
  [scope : SUBSET TlsTarget, depth : Nat, envelope : Spend, classes : SUBSET {"tls_cert_probe"}]
InquiryIntent ==
  [by : {"profile", "question"}, selector : STRING, asOf : Instants, targetIds : SUBSET STRING]

PlansAssumption ==
  /\ Plans \subseteq CandidatePlan
  /\ Catalogs \subseteq Seq(ProfileFile)
  /\ Intents \subseteq InquiryIntent
  /\ None \notin STRING \cup TlsCertProfile(SUBSET TlsTarget) \cup ProfileDigested
                   \cup Request \cup Witness \cup Needs

VARIABLES
  planFile, catalogFile, grantFile,  \* files
  process,      \* the running invocation
  compiled,     \* the last resolution of an intent
  preflight,    \* the last preflight rendered
  answer,       \* the last receipt
  escalation,   \* the last escalation request, with the receipt it names
  fileEdits, inquiries

plansVars ==
  <<planFile, catalogFile, grantFile, process, compiled, preflight, answer, escalation,
    fileEdits, inquiries>>
-----------------------------------------------------------------------------
(***************************************************************************)
(* Validation.                                                             *)
(***************************************************************************)

\* Bounds, the same where a profile and where a witness plan is checked.
TargetCounts == 1..32
TargetDeadlines == 100..60000
TotalDeadlines == 1..300000
Horizons == 1..3650

\* InquiryTlsTargetV0::validate, and no id twice.
UniqueTargets(ts) ==
  /\ \A i \in DOMAIN ts : ts[i].whole
  /\ \A i, j \in DOMAIN ts : ts[i].id = ts[j].id => i = j

\* validate_ratchet_scope.
ScopeValid(scope) ==
  /\ \A t \in scope : t.whole
  /\ \A t, u \in scope : t.id = u.id => t = u

\* CandidateInquiryPlanV0::validate; a garbled time does not parse.
PlanValid(p) == p.schema /\ p.profile # None /\ p.asOf # "garbled" /\ UniqueTargets(p.targets)

\* InquiryTlsCertProfileV0::validate.
TlsProfileValid(t) ==
  /\ t.declared # <<>> /\ Len(t.declared) <= t.maxTargets
  /\ t.maxTargets \in TargetCounts
  /\ t.concurrency = 1
  /\ t.perTarget \in TargetDeadlines
  /\ t.total \in TotalDeadlines /\ t.total >= t.perTarget * Len(t.declared)
  /\ t.horizon \in Horizons
  /\ UniqueTargets(t.declared)

\* InquiryProfileV0::validate.
ProfileValid(p) ==
  /\ IF p.kind = "report"
     THEN p.selector # None /\ p.maxAge > 0 /\ p.limit \in 1..1000 /\ p.tls = None
     ELSE /\ p.selector = None /\ p.maxAge = 0 /\ p.limit = 0
          /\ p.tls # None /\ TlsProfileValid(p.tls)
          /\ \E i \in DOMAIN p.cannot : p.cannot[i] = "consequence_authority"
  /\ p.coverage # <<>> /\ p.cannot # <<>>
  /\ \A s \in {p.aliases, p.coverage, p.cannot} : \A i, j \in DOMAIN s : s[i] = s[j] => i = j
  /\ \A i \in DOMAIN p.aliases : p.aliases[i] # p.id

NamesOf(p) == {p.id} \cup ToSet(p.aliases)

\* InquiryProfileCatalogV0::validate: no name has two owners.
CatalogValid(c) ==
  /\ c # <<>>
  /\ \A i \in DOMAIN c : ProfileValid(c[i])
  /\ \A i, j \in DOMAIN c : i # j => NamesOf(c[i]) \cap NamesOf(c[j]) = {}

\* InquiryProfileV0::normalized: what is digested has its lists in order.
Normalized(p) ==
  [p EXCEPT !.aliases = ToSet(@), !.coverage = ToSet(@), !.cannot = ToSet(@),
            !.tls = IF @ = None THEN None
                    ELSE [p.tls EXCEPT !.declared = ToSet(p.tls.declared)]]

\* InquiryProfileCatalogV0::resolve.
Resolve(c, name) ==
  LET named == {i \in DOMAIN c : name \in NamesOf(c[i])} IN
  IF CatalogValid(c) /\ Cardinality(named) = 1
  THEN Normalized(c[CHOOSE i \in named : TRUE]) ELSE None
-----------------------------------------------------------------------------
(***************************************************************************)
(* Admission and the witness plan.                                         *)
(***************************************************************************)
Wanted(p, profile) ==
  IF p.targets = <<>> THEN profile.tls.declared ELSE ToSet(p.targets)

\* AdmittedInquiryRequestV0::admit; the alias that was used is forgotten.
Admit(p, profile) ==
  LET fits == IF profile.kind = "report" THEN p.targets = <<>>
              ELSE /\ Cardinality(Wanted(p, profile)) <= profile.tls.maxTargets
                   /\ Wanted(p, profile) \subseteq profile.tls.declared
  IN IF PlanValid(p) /\ p.profile \in {profile.id} \cup profile.aliases /\ fits
     THEN [profile |-> profile, asOf |-> p.asOf,
           targets |-> IF profile.kind = "report" THEN {} ELSE Wanted(p, profile)]
     ELSE None

\* Mutant: bounds for as many targets as the profile may have.
WitnessPlanOfProfile(request) ==
  LET t == request.profile.tls
  IN [targets |-> request.targets, maxTargets |-> t.maxTargets, concurrency |-> t.concurrency,
      perTarget |-> t.perTarget, total |-> t.total, horizon |-> t.horizon,
      attempts |-> Cardinality(t.declared), work |-> 4 * Cardinality(t.declared)]

\* InquiryWitnessPlanV0::resolve.  attempts stands for the four counts that
\* are all the number of admitted targets; redirects and the like are nought.
WitnessPlan(request) ==
  LET t == request.profile.tls
      n == Cardinality(request.targets)
  IN [targets |-> request.targets, maxTargets |-> t.maxTargets, concurrency |-> t.concurrency,
      perTarget |-> t.perTarget, total |-> t.total, horizon |-> t.horizon,
      attempts |-> n, work |-> 4 * n]

\* InquiryWitnessPlanV0::verify_envelope: the bounds as a reader of the
\* document has them.
EnvelopeValid(w) ==
  LET n == Cardinality(w.targets) IN
  /\ n > 0 /\ n <= w.maxTargets /\ w.maxTargets \in TargetCounts
  /\ w.concurrency = 1
  /\ w.perTarget \in TargetDeadlines
  /\ w.total \in TotalDeadlines /\ w.total >= w.perTarget * n
  /\ w.horizon \in Horizons
  /\ w.attempts = n /\ w.work = 4 * n
  /\ ScopeValid(w.targets)

\* acquisition_envelope_from_bounds.
EnvelopeOf(w) ==
  [d \in Dimensions |-> CASE d = "wall" -> w.total [] d = "work" -> w.work [] OTHER -> w.attempts]

\* InquiryPreflightV0::validate: what a grant has to cover is what is rendered.
PreflightValid(p) ==
  IF p.witness = None
  THEN p.needs = [scope |-> {}, depth |-> 0, envelope |-> NoSpend, classes |-> {}]
  ELSE /\ EnvelopeValid(p.witness)
       /\ p.needs = [scope |-> p.witness.targets, depth |-> 1, envelope |-> EnvelopeOf(p.witness),
                     classes |-> {"tls_cert_probe"}]

\* InquiryPreflightV0::render: no spend, and what a grant would have to cover.
Render(request) ==
  LET active == request.profile.kind = "tls"
      w == IF active THEN WitnessPlan(request) ELSE None
  IN [request |-> request, witness |-> w,
      needs |-> [scope |-> request.targets,
                 depth |-> IF active THEN 1 ELSE 0,
                 envelope |-> IF active THEN EnvelopeOf(w) ELSE NoSpend,
                 classes |-> IF active THEN {"tls_cert_probe"} ELSE {}]]

\* A latest question has no request yet that a preflight could name.
UnresolvedLatest == [request |-> None, witness |-> None, needs |-> None]

NoGrant == [kind |-> "grant_required"]
BadGrant == [kind |-> "grant_malformed"]

\* The refusal before acquisition (execute_inquiry_with,
\* execute_tls_cert_inquiry_with), "none" when the grant covers the plan.
Refusal(grant, needs) ==
  LET p == [scope |-> needs.scope, depth |-> needs.depth, remaining |-> needs.envelope] IN
  IF grant \in {NoGrant, BadGrant} THEN grant.kind
  ELSE IF ~ScopeValid(grant.scope) THEN "grant_malformed"
  ELSE IF AdmissionRefusal(grant, p) # "none" THEN AdmissionRefusal(grant, p)
  ELSE IF ~(needs.classes \subseteq grant.classes) THEN "grant_witness_class_not_permitted"
  ELSE "none"
-----------------------------------------------------------------------------
(***************************************************************************)
(* Invocations.                                                            *)
(***************************************************************************)
Idle == [pc |-> "idle"]
Failed(why) == [status |-> "error", why |-> why]

PlansInit ==
  /\ planFile \in Plans
  /\ catalogFile \in Catalogs
  /\ grantFile = None
  /\ process = Idle
  /\ compiled = None
  /\ preflight = None
  /\ answer = None
  /\ escalation = None
  /\ fileEdits = 0
  /\ inquiries = 0

\* The plan is read and, when its time is given, checked.
ReadPlan ==
  /\ process = Idle
  /\ inquiries < MaxInquiries
  /\ inquiries' = inquiries + 1
  /\ \E rendering \in BOOLEAN, granted \in BOOLEAN :
       IF planFile.asOf = "latest" \/ PlanValid(planFile)
       THEN /\ process' = [pc |-> "planned", rendering |-> rendering, granted |-> granted,
                           plan |-> planFile]
            /\ UNCHANGED answer
       ELSE process' = Idle /\ answer' = Failed("plan")
  /\ UNCHANGED <<planFile, catalogFile, grantFile, compiled, preflight, escalation, fileEdits>>

\* The catalog is read, and resolved by the plan's name.
ReadCatalog ==
  /\ process.pc = "planned"
  /\ LET profile == Resolve(catalogFile, process.plan.profile) IN
     IF profile = None THEN process' = Idle /\ answer' = Failed("profile")
     ELSE /\ process' = [pc |-> "resolved", rendering |-> process.rendering,
                         granted |-> process.granted, plan |-> process.plan,
                         profile |-> profile]
          /\ UNCHANGED answer
  /\ UNCHANGED <<planFile, catalogFile, grantFile, compiled, preflight, escalation, fileEdits, inquiries>>

\* A receipt; grant is the grant it binds.
Receipt(status, why, request, w, grant) ==
  [status |-> status, why |-> why, request |-> request, witness |-> w, grant |-> grant]

\* verify_pre_acquisition_grant_refusal and verify_grant_binding.
BindingValid(r) ==
  /\ r.why \in {NoGrant.kind, BadGrant.kind} => r.grant = None
  /\ r.grant # None /\ r.status = "answered" => AtMost(EnvelopeOf(r.witness), r.grant.envelope)

\* seal_pre_acquisition_refusal: a grant that could be read is bound.
Refused(why, request, w) ==
  Receipt("refused", why, request, w,
          IF why \in {NoGrant.kind, BadGrant.kind} THEN None ELSE grantFile)

\* refuse_passive_grant_invocation.
PassiveRefusal(request) == Receipt("refused", "grant_not_applicable", request, None, None)

\* execute_inquiry_with over a store that answers and a network that does:
\* the grant is read now.
Execute(request) ==
  IF request.profile.kind = "report" THEN Receipt("answered", "none", request, None, None)
  ELSE LET p == Render(request)
           held == IF ~process.granted THEN NoGrant
                   ELSE IF grantFile = None THEN BadGrant ELSE grantFile
           why == Refusal(held, p.needs)
           r == IF why = "none" THEN Receipt("answered", why, request, p.witness, grantFile)
                ELSE Refused(why, request, p.witness)
       IN IF PreflightValid(p) /\ BindingValid(r) THEN r ELSE Failed("envelope")

\* execute_latest_inquiry: the newest generation gives the time.
ExecuteLatest(profile) ==
  Receipt("answered", "none", Admit([process.plan EXCEPT !.asOf = "newest"], profile), None, None)

\* prepare_inquiry: a plan with its time.
Prepare ==
  /\ process.pc = "resolved" /\ process.plan.asOf # "latest"
  /\ LET request == Admit(process.plan, process.profile) IN
     IF request = None THEN answer' = Failed("admission") /\ UNCHANGED preflight
     ELSE IF request.profile.kind = "report" /\ process.granted
     THEN answer' = PassiveRefusal(request) /\ UNCHANGED preflight
     ELSE IF ~process.rendering
     THEN answer' = Execute(request) /\ UNCHANGED preflight
     ELSE IF PreflightValid(Render(request))
     THEN preflight' = Render(request) /\ UNCHANGED answer
     ELSE answer' = Failed("envelope") /\ UNCHANGED preflight
  /\ process' = Idle
  /\ UNCHANGED <<planFile, catalogFile, grantFile, compiled, escalation, fileEdits, inquiries>>

\* prepare_latest_inquiry: only a report has a latest answer.
PrepareLatest ==
  /\ process.pc = "resolved" /\ process.plan.asOf = "latest"
  /\ IF \/ process.profile.kind # "report"
        \/ ~process.plan.schema \/ process.plan.targets # <<>>
        \/ process.granted
     THEN answer' = Failed("latest") /\ UNCHANGED preflight
     ELSE IF process.rendering
     THEN preflight' = UnresolvedLatest /\ UNCHANGED answer
     ELSE answer' = ExecuteLatest(process.profile) /\ UNCHANGED preflight
  /\ process' = Idle
  /\ UNCHANGED <<planFile, catalogFile, grantFile, compiled, escalation, fileEdits, inquiries>>

\* disposition_for_resolved: only declared targets may be cited, by their ids,
\* and who composed the intent does not enter the plan.
ForResolved(intent, profile) ==
  LET declared == IF profile.tls = None THEN {} ELSE profile.tls.declared
      cited == {t \in declared : t.id \in intent.targetIds}
  IN IF intent.targetIds \subseteq {t.id : t \in declared}
     THEN [kind |-> "resolved", profile |-> profile,
           plan |-> [schema |-> TRUE, profile |-> profile.id, asOf |-> intent.asOf,
                     targets |-> SetToSeq(cited)]]
     ELSE [kind |-> "refused", why |-> "target_undeclared"]

\* compile_inquiry_intent over a catalog that validates: by the name of a
\* profile, or by a question that one profile answers.
Compile(intent, c) ==
  LET able == {Resolve(c, c[i].id) : i \in {j \in DOMAIN c : c[j].kind = intent.selector}} IN
  IF intent.by = "profile"
  THEN IF Resolve(c, intent.selector) = None
       THEN [kind |-> "refused", why |-> "selector_unresolved"]
       ELSE ForResolved(intent, Resolve(c, intent.selector))
  ELSE IF able = {} THEN [kind |-> "refused", why |-> "question_unanswerable"]
  ELSE IF Cardinality(able) > 1 THEN [kind |-> "clarification", options |-> able]
  ELSE ForResolved(intent, CHOOSE p \in able : TRUE)

\* nq intent: only a resolved intent is written down as a plan.
CompileIntent(intent, emit) ==
  /\ process = Idle
  /\ inquiries < MaxInquiries
  /\ inquiries' = inquiries + 1
  /\ CatalogValid(catalogFile)
  /\ LET d == Compile(intent, catalogFile) IN
     /\ emit => d.kind = "resolved"
     /\ compiled' = [intent |-> intent, disposition |-> d]
     /\ planFile' = IF emit THEN d.plan ELSE planFile
  /\ UNCHANGED <<catalogFile, grantFile, process, preflight, answer, escalation, fileEdits>>

\* EscalationRequestCandidateV0::bind: a sealed receipt, and something cited.
Bindable(receipt, e) ==
  /\ receipt # None /\ receipt.status # "error"
  /\ e.targets # {} \/ e.findings # {}
  /\ ScopeValid(e.scope)

\* validate_receipt_local_citations: the finding of the receipt or its targets.
Citable(receipt, e) ==
  /\ receipt.status = "answered"
  /\ e.targets \subseteq (IF receipt.witness = None THEN {} ELSE receipt.witness.targets)
  /\ \A f \in e.findings : receipt.witness = None /\ f = receipt.request.profile.selector

\* emit_escalation: the request binds the receipt; it is no grant.
EmitEscalation(e) ==
  /\ Bindable(answer, e) /\ Citable(answer, e)
  /\ escalation' = [source |-> answer, envelope |-> e]
  /\ UNCHANGED <<planFile, catalogFile, grantFile, process, compiled, preflight, answer, fileEdits,
                 inquiries>>

\* The authority outside grants what a preflight says is needed.
Mint ==
  /\ preflight # None /\ preflight.needs # None
  /\ grantFile # preflight.needs
  /\ grantFile' = preflight.needs
  /\ UNCHANGED <<planFile, catalogFile, process, compiled, preflight, answer, escalation, fileEdits,
                 inquiries>>

\* An editor replaces one of the files.
Edit ==
  /\ fileEdits < MaxFileEdits
  /\ fileEdits' = fileEdits + 1
  /\ \/ planFile' \in Plans \ {planFile} /\ UNCHANGED catalogFile
     \/ catalogFile' \in Catalogs \ {catalogFile} /\ UNCHANGED planFile
  /\ UNCHANGED <<grantFile, process, compiled, preflight, answer, escalation, inquiries>>

PlansNext ==
  \/ ReadPlan \/ ReadCatalog \/ Prepare \/ PrepareLatest
  \/ \E e \in Envelopes : EmitEscalation(e)
  \/ \E i \in Intents, emit \in BOOLEAN : CompileIntent(i, emit)
  \/ Mint \/ Edit
-----------------------------------------------------------------------------
(***************************************************************************)
(* Properties.                                                             *)
(***************************************************************************)

\* A grant minted after a preflight is enough for the request of that
\* preflight, which is executed with the bounds that were foretold.
GrantedAsForetold ==
  /\ answer # None /\ preflight # None
  /\ answer.status \in {"answered", "refused"}
  /\ answer.request = preflight.request
  /\ answer.request.profile.kind = "tls"
  /\ answer.grant = preflight.needs
  => answer.status = "answered" /\ answer.witness = preflight.witness

\* Whatever was edited in between, what is executed is within the grant it was
\* executed with, exactly declared, and bounded by its own targets.
ExecutedWithinGrant ==
  answer # None /\ answer.status = "answered" /\ answer.witness # None =>
    /\ answer.witness.targets \subseteq answer.grant.scope
    /\ answer.witness.targets \subseteq answer.request.profile.tls.declared
    /\ AtMost(EnvelopeOf(answer.witness), answer.grant.envelope)
    /\ EnvelopeOf(answer.witness)["wall"] >=
         answer.witness.perTarget * Cardinality(answer.witness.targets)

\* A profile that validates has no request that fails on its bounds: the three
\* checks of them, of the profile, of the preflight and of the receipt, agree.
BoundsAgree == answer # None => answer # Failed("envelope")

\* As long as its profile is declared as it was, a compiled plan whose time can be
\* read is admitted, for the targets that were cited or else for all; and every
\* option of a clarification can be chosen.
IntentIsAsked ==
  compiled # None =>
    LET d == compiled.disposition
        cited == compiled.intent.targetIds
    IN /\ d.kind = "resolved" /\ d.plan.asOf = "t"
          /\ Resolve(catalogFile, d.plan.profile) = d.profile
          => LET request == Admit(d.plan, d.profile) IN
             /\ request # None
             /\ d.profile.kind = "tls" =>
                  {t.id : t \in request.targets} =
                    (IF cited = {} THEN {t.id : t \in d.profile.tls.declared} ELSE cited)
       /\ d.kind = "clarification" =>
            \A p \in d.options :
              Resolve(catalogFile, p.id) = p =>
                LET chosen == [compiled.intent EXCEPT !.by = "profile", !.selector = p.id,
                                                      !.targetIds = {}]
                IN Compile(chosen, catalogFile).profile = p

\* A request for a wider grant cites targets only of work that was granted.
EscalationCites ==
  escalation # None =>
    \A t \in escalation.envelope.targets :
      escalation.source.witness # None /\ t \in escalation.source.grant.scope
=============================================================================
