------------------------------- MODULE Grants -------------------------------
(***************************************************************************)
(* Grants of active inquiries and the same-grant ratchet                   *)
(* (crates/nq-core/src/inquiry.rs).  A grant names the targets it admits,  *)
(* a depth, and an envelope: how much of each dimension of acquisition     *)
(* work may be spent.  A position is a point in the consumption of a       *)
(* grant; its envelope is what remains.                                    *)
(*                                                                         *)
(* Schema strings and digests are left out: every document here is of the  *)
(* right schema, and a document that is not is "malformed".                *)
(***************************************************************************)
EXTENDS Naturals, FiniteSets

CONSTANTS
  Targets,   \* TLS targets a scope may name
  MaxDepth   \* bound on the depths that are asked for

GrantsAssumption ==
  /\ IsFiniteSet(Targets)
  /\ MaxDepth \in Nat

\* InquiryAcquisitionSpendV0.
Dimensions == {"dns", "connections", "handshakes", "completed", "checks", "wall", "work"}
Spend == [Dimensions -> Nat]
NoSpend == [d \in Dimensions |-> 0]

\* work_units is the sum of what is counted; completed handshakes and time
\* are not.
CountedWork(s) == s["dns"] + s["connections"] + s["handshakes"] + s["checks"]

\* spend_is_pointwise_at_most.
AtMost(a, b) == \A d \in Dimensions : a[d] <= b[d]

\* admit_initial_position: containment, in the order of the refusals.
AdmissionRefusal(grant, p) ==
  IF ~(p.scope \subseteq grant.scope) THEN "grant_scope_insufficient"
  ELSE IF p.depth > grant.depth THEN "grant_depth_insufficient"
  ELSE IF ~AtMost(p.remaining, grant.envelope) THEN "grant_envelope_insufficient"
  ELSE "none"

\* authorize_same_grant_transition.
Authorized(grant, cur, req) ==
  /\ req.scope \subseteq cur.scope
  /\ req.depth >= cur.depth
  /\ AtMost(req.remaining, cur.remaining)
  /\ AdmissionRefusal(grant, cur) = "none"
  /\ AdmissionRefusal(grant, req) = "none"
  /\ req.depth > cur.depth => req.scope # cur.scope
  /\ req.scope # cur.scope \/ req.remaining # cur.remaining
=============================================================================
