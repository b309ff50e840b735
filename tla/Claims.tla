------------------------------- MODULE Claims -------------------------------
(***************************************************************************)
(* Claim receipts (crates/nq-core/src): the registry that evaluates a      *)
(* claim over witness packets (claim_registry.rs), the sealed receipt      *)
(* (receipt.rs), and the two readers of a receipt file, check              *)
(* (receipt_check.rs) and replay (receipt_replay.rs).  A third reader      *)
(* decides whether a consumer may rely on one (crates/nq/src/reliance.rs). *)
(*                                                                         *)
(* A packet is its content: type, subject, time, custody basis, whether    *)
(* its envelope is valid, and obs, which of its observations of the        *)
(* expected type meet ("holds") or miss ("fails") the condition of the     *)
(* leaf that reads that type.  Its digest is the packet itself and the     *)
(* content hash of a receipt is its body: SHA-256 is taken to be           *)
(* injective.  Lists whose order no reader uses are bags and sets; every   *)
(* document is of the schema and version of this build.                    *)
(***************************************************************************)
EXTENDS Integers, Sequences, FiniteSets, FiniteSetsExt, Bags

None == -1                       \* an absent time
NoDigest == [absent |-> TRUE]    \* a witness reference without digest
Unsealed == [absent |-> TRUE]    \* a receipt without content_hash

-----------------------------------------------------------------------------
(* The starter registry.                                                   *)

WitnessType ==
  [repo_clean |-> "git_status", tests_passed |-> "pytest",
   diff_scope_matches_claim |-> "diff_scope",
   continuity_rely_eligible |-> "continuity_rely_record",
   docket_attempt_settled |-> "docket_attempt_dossier"]
Leaves == DOMAIN WitnessType
Requires == [ready_for_review |-> {"repo_clean", "tests_passed", "diff_scope_matches_claim"}]
Composites == DOMAIN Requires
Weaker == [safe_to_merge |-> {"ready_for_review"}]
NonMintables == DOMAIN Weaker

Finding(status, reasons, verified, unverified, weaker) ==
  [status |-> status, reasons |-> reasons, verified |-> verified,
   unverified |-> unverified, weaker |-> weaker]

Verified(names) == Finding("verified", {"all_requirements_verified"}, names, {}, {})

\* Mutant: one observation that meets the condition is enough.
ResolveLeafAny(c, ps) ==
  LET seen == UNION {p.obs : p \in {q \in ps : q.type = WitnessType[c]}}
  IN IF seen = {} THEN Finding("needs_more_evidence", {"missing_required_claim"}, {},
                               {<<c, "no_applicable_observation">>}, {})
     ELSE IF "holds" \in seen THEN Verified({c})
     ELSE Finding("not_verified", {"claim_condition_failed"}, {}, {<<c, "condition_failed">>}, {})

\* resolve_leaf: all matching observations must meet the condition.
ResolveLeaf(c, ps) ==
  LET seen == UNION {p.obs : p \in {q \in ps : q.type = WitnessType[c]}}
  IN IF seen = {} THEN Finding("needs_more_evidence", {"missing_required_claim"}, {},
                               {<<c, "no_applicable_observation">>}, {})
     ELSE IF seen = {"holds"} THEN Verified({c})
     ELSE Finding("not_verified", {"claim_condition_failed"}, {}, {<<c, "condition_failed">>}, {})

\* resolve_composite.
ResolveComposite(c, ps) ==
  LET sub == [q \in Requires[c] |-> ResolveLeaf(q, ps)]
      good == {q \in Requires[c] : sub[q].status = "verified"}
      needsMore == \E q \in Requires[c] : sub[q].status = "needs_more_evidence"
      unverified == {<<q, sub[q].status>> : q \in Requires[c] \ good}
  IN IF unverified = {} THEN Verified(good)
     ELSE IF good = {} /\ needsMore
     THEN Finding("needs_more_evidence", {"missing_required_claim"}, {}, unverified, {})
     ELSE Finding("partially_verified",
                  {"partial_composite"} \cup (IF needsMore THEN {"missing_required_claim"} ELSE {}),
                  good, unverified, {})

\* resolve_non_mintable: never verified, and what is supported is named.
ResolveNonMintable(c, ps) ==
  LET sub == [w \in Weaker[c] |-> ResolveComposite(w, ps)]
      offered == {w \in Weaker[c] : sub[w].status \in {"verified", "partially_verified"}}
  IN Finding("not_verified",
             {"non_mintable"} \cup (IF offered = {} THEN {} ELSE {"suggested_weaker_claim_available"}),
             UNION {sub[w].verified : w \in Weaker[c]}, {}, offered)

\* resolve, and the arm of evaluate for a name the registry does not know.
Resolve(c, ps) ==
  IF c \in Leaves THEN ResolveLeaf(c, ps)
  ELSE IF c \in Composites THEN ResolveComposite(c, ps)
  ELSE IF c \in NonMintables THEN ResolveNonMintable(c, ps)
  ELSE Finding("invalid_evidence", {"invalid_witness"}, {}, {<<c, "unknown_claim">>}, {})

-----------------------------------------------------------------------------
(* Receipts.                                                               *)

\* The cannot_testify list of a receipt of the registry.
NoRefusals == [kinds |-> << >>, names |-> {}]

Body(c, subject, finding, refs, seen, refuses, horizon, signals, evaluator, made) ==
  [claim |-> c, subject |-> subject, finding |-> finding, refs |-> refs,
   first |-> IF seen = {} THEN None ELSE Min(seen),
   last |-> IF seen = {} THEN None ELSE Max(seen),
   refuses |-> refuses, horizon |-> horizon, signals |-> signals, evaluator |-> evaluator,
   made |-> made]

\* Receipt::seal: the hash covers the evaluator binding.
Seal(body) == [body |-> body, hash |-> body]

\* The packets of a subject; each copy of one becomes a reference.
Of(supply, subject) ==
  LET kept == {p \in BagToSet(supply) : p.subject = subject}
  IN [p \in kept |-> supply[p]]

\* claim_registry::evaluate.  A packet that fails validation ends it with a
\* receipt that is not sealed and names no evaluator.
Evaluate(c, subject, supply, made) ==
  LET mine == Of(supply, subject)
      ps == BagToSet(mine)
      invalid == Finding("invalid_evidence", {"invalid_witness"}, {}, {<<c, "invalid_witness">>}, {})
  IN IF \E p \in BagToSet(supply) : ~p.valid
     THEN [body |-> Body(c, subject, invalid, EmptyBag, {}, NoRefusals, None, None, "none", made), hash |-> Unsealed]
     ELSE Seal(Body(c, subject, Resolve(c, ps), mine, {p.at : p \in ps}, NoRefusals, None,
                    None, "claim_registry", made))

-----------------------------------------------------------------------------
(* check_receipt and its exit code.                                        *)

HashOutcome(r) ==
  IF r.hash = Unsealed THEN "receipt_not_anchored"
  ELSE IF r.hash = r.body THEN "ok" ELSE "broken_content_hash"

Anchored(body) == BagToSet(body.refs) \ {NoDigest}

\* The first copy that matches a reference is used; every other one is extra.
WitnessOutcomes(body, supply) ==
  (IF NoDigest \in BagToSet(body.refs) THEN {"witness_not_anchored"} ELSE {})
  \cup (IF Anchored(body) \subseteq BagToSet(supply) THEN {} ELSE {"missing_witness_packet"})
  \cup (IF \E p \in BagToSet(supply) : supply[p] > (IF p \in Anchored(body) THEN 1 ELSE 0)
        THEN {"extra_witness_packet"} ELSE {})

\* asOf is None when --fresh was not asked for.
FreshOutcome(body, asOf) ==
  IF asOf = None THEN "ok"
  ELSE IF body.horizon = None THEN "freshness_not_applicable"
  ELSE IF asOf < body.horizon THEN "ok" ELSE "stale"

CheckReceipt(r, supply, asOf) ==
  {HashOutcome(r), FreshOutcome(r.body, asOf)} \cup WitnessOutcomes(r.body, supply)

\* exit_code_for; a packet that is not valid is bad input to the command.
CheckExit(r, supply, asOf, strict) ==
  LET outcomes == CheckReceipt(r, supply, asOf) IN
  IF \E p \in BagToSet(supply) : ~p.valid THEN 64
  ELSE IF "broken_content_hash" \in outcomes THEN 2
  ELSE IF "stale" \in outcomes \/ (strict /\ outcomes # {"ok"}) THEN 1
  ELSE 0

-----------------------------------------------------------------------------
(* replay_receipt and its exit code.                                       *)

\* Mutant: the packets are evaluated as they are supplied.
DedupeNone(supply) == supply

\* dedupe_by_digest.
Dedupe(supply) == SetToBag(BagToSet(supply))

\* semantic_diff leaves out the horizon, the binding and the time it was
\* made, which the replay takes from the receipt.
SemanticDiff(body, again) == {f \in {"finding", "refs", "first", "last"} : again[f] # body[f]}

\* replay_track_b.
ReplayTrackB(body, supply) ==
  LET again == Evaluate(body.claim, body.subject, Dedupe(supply), body.made).body
  IN IF ~(Anchored(body) \subseteq BagToSet(supply)) THEN "missing_witness_material"
     ELSE IF SemanticDiff(body, again) = {} THEN "ok" ELSE "mismatch"

ReplayStatus(r, supply) ==
  IF HashOutcome(r) = "broken_content_hash" THEN "structural_failure"
  ELSE IF r.body.evaluator = "none" THEN "policy_unspecified"
  ELSE IF r.body.evaluator = "claim_registry" THEN ReplayTrackB(r.body, supply)
  ELSE IF r.body.evaluator \in {"disk_state", "ingest_state", "dns_state"} THEN "not_applicable"
  ELSE "unsupported_evaluator"

ReplayExit(r, supply, asOf) ==
  LET status == ReplayStatus(r, supply) IN
  IF \E p \in BagToSet(supply) : ~p.valid THEN 64
  ELSE IF status = "structural_failure" THEN 2
  ELSE IF FreshOutcome(r.body, asOf) = "stale" \/ status # "ok" THEN 1
  ELSE 0

-----------------------------------------------------------------------------
(***************************************************************************)
(* Reliance decisions (crates/nq/src/reliance.rs): whether a consumer may  *)
(* rely on a sealed receipt for a purpose.  decide reads the receipt, the  *)
(* supporting receipts the request binds by hash, a context the caller     *)
(* states (ages, contradictions, premises, residuals), and the profile of  *)
(* the consumer.  It recomputes no hash and evaluates no packet, and it    *)
(* compares the claim of the request with the profile, and with what the   *)
(* receipt refuses, but not with the claim of the receipt.                 *)
(*                                                                         *)
(* A refusal covers a claim when its statement contains the claim's name.  *)
(***************************************************************************)

\* custody_basis of a reference, "undeclared" where it has none.
BasisOf(ref) ==
  IF ref = NoDigest THEN "undeclared"
  ELSE IF "basis" \in DOMAIN ref THEN ref.basis ELSE "legacy_projection"

\* What one bound supporting evaluation of a required claim is refused for.
SupportRefusal(s, claim, profile) ==
  LET f == s.body.finding IN
  IF claim \in s.body.refuses.names THEN "cannot_testify"
  ELSE IF "stale_observation" \in f.reasons THEN "stale_evidence"
  ELSE IF "contradictory_observation" \in f.reasons /\ profile.refuseContradiction
  THEN "contradiction_retained"
  ELSE IF f.status # "verified" THEN "coverage_insufficient"
  ELSE "none"

BoundFor(body, supporting, claim) ==
  {s \in supporting : s.body.claim = claim /\ s.body.subject = body.subject}

\* The binding fences, in both directions.
Substituted(request, supporting) ==
  \/ \E s \in supporting : s.hash = Unsealed \/ s.hash \notin request.bound
  \/ \E h \in request.bound : \A s \in supporting : s.hash # h

\* Which of several refusals of required claims is named depends on the order
\* of the lists; here it is any of them.
RequiredRefusal(body, supporting, profile) ==
  LET refusals ==
        {"coverage_insufficient" : c \in {q \in profile.required : BoundFor(body, supporting, q) = {}}}
        \cup UNION {{SupportRefusal(s, c, profile) : s \in BoundFor(body, supporting, c)}
                      : c \in profile.required}
      found == refusals \ {"none"}
  IN IF found = {} THEN "none" ELSE CHOOSE x \in found : TRUE

\* An age the caller does not state passes.
Older(age, limit) == age # None /\ age > limit

\* Grounds of refusal, in order: of the request, before anything is read of
\* what the receipt says; of the receipt's own finding; and of what supports it.
RequestGrounds(request, r, profile) == <<
  <<r.hash = Unsealed \/ r.hash # request.receipt, "malformed_request">>,
  <<~profile.known, "consumer_unknown">>,
  <<request.claim \notin profile.claims, "claim_not_authorized_for_consumer">>,
  <<request.purpose \notin profile.purposes, "purpose_not_authorized">>,
  <<request.claim \in r.body.refuses.names, "cannot_testify">> >>
FindingGrounds(f, context, profile) == <<
  <<"non_mintable" \in f.reasons, "claim_non_mintable">>,
  <<f.status # "verified", "claim_not_verified">>,
  <<profile.refuseContradiction /\ ("contradictory_observation" \in f.reasons \/ context.contradicted),
    "contradiction_retained">> >>
EvidenceGrounds(request, body, supporting, context, profile) ==
  LET required == RequiredRefusal(body, supporting, profile) IN <<
  <<\E ref \in BagToSet(body.refs) : BasisOf(ref) \notin profile.bases, "custody_basis_not_accepted">>,
  <<Substituted(request, supporting), "malformed_request">>,
  <<required # "none", required>>,
  <<profile.required # {} /\ Older(context.supportAge, profile.maxAge), "stale_evidence">>,
  <<profile.refusePremise /\ context.premise, "premise_not_accepted">>,
  <<profile.refuseResidual /\ context.residual, "residual_obligation_blocks">>,
  <<"stale_observation" \in body.finding.reasons, "stale_evidence">>,
  <<Older(context.age, profile.maxAge), "stale_evidence">>,
  <<"missing_required_claim" \in body.finding.reasons, "coverage_insufficient">> >>

Holds(grounds) == {i \in DOMAIN grounds : grounds[i][1]}
First(grounds) == grounds[Min(Holds(grounds))][2]

\* evaluate: the first ground that holds is the outcome.
Decide(request, r, supporting, context, profile) ==
  LET asked == RequestGrounds(request, r, profile)
      found == FindingGrounds(r.body.finding, context, profile)
      stood == EvidenceGrounds(request, r.body, supporting, context, profile)
  IN IF Holds(asked) # {} THEN First(asked)
     ELSE IF Holds(found) # {} THEN First(found)
     ELSE IF Holds(stood) # {} THEN First(stood)
     ELSE "authorized_reliance"
=============================================================================
