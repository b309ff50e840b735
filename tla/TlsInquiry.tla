----------------------------- MODULE TlsInquiry -----------------------------
(***************************************************************************)
(* The active inquiry of `nq inquire`: one bounded look at the TLS         *)
(* certificates of declared targets, under a grant.  The executor is       *)
(* crates/nq-monitor/src/inquiry.rs over tls_cert_transport.rs; the        *)
(* receipt it fills in is verified once more, against its own arithmetic,  *)
(* when core seals it (nq-core/src/inquiry.rs).                            *)
(*                                                                         *)
(* Targets are acquired one after the other, in their sorted order.  The   *)
(* monotonic clock runs while the executor waits for the network and while *)
(* it computes: nothing keeps a step from ending after its deadline.  The  *)
(* clock counts TicksPerMs to a millisecond, the unit of wall_ms, which is *)
(* rounded down.                                                           *)
(*                                                                         *)
(* When the receipt is out, the holder of the grant may ask for further    *)
(* positions under it (the ratchet).                                       *)
(***************************************************************************)
EXTENDS Grants, Integers, Sequences, SequencesExt

CONSTANTS
  Numeric,        \* targets whose host is an IP address
  AddressNames,   \* targets whose SNI is an IP address
  Grants,         \* grants an operator may hold
  Remainders,     \* envelopes a holder may ask to keep
  PerTarget,      \* per_target_deadline_ms
  Total,          \* total_deadline_ms
  TicksPerMs,     \* resolution of the monotonic clock
  ReserveDivisor, \* part of the remaining time kept for processing (10)
  ReserveCap,     \* ... and its bound (50 ms)
  MaxTime         \* bound on the clock

TlsAssumption ==
  /\ Targets \subseteq Nat \ {0}
  /\ Numeric \subseteq Targets
  /\ AddressNames \subseteq Targets
  /\ Grants \subseteq [scope : SUBSET Targets, depth : Nat, envelope : Spend,
                       classes : SUBSET {"tls_cert_probe"}]
  /\ Remainders \subseteq Spend
  /\ PerTarget \in Nat \ {0}
  /\ Total \in Nat /\ Total >= PerTarget * Cardinality(Targets)
  /\ TicksPerMs \in Nat \ {0}
  /\ ReserveDivisor \in Nat \ {0}
  /\ ReserveCap \in Nat
  /\ MaxTime \in Nat

VARIABLES
  stage,    \* where the invocation is
  plan,     \* admitted targets still to be acquired, in order
  grant,    \* the grant of the invocation, or why there is none
  clock,    \* ticks since the acquisition began
  current,  \* the target being acquired
  seen,     \* observations so far
  receipt,  \* the sealed receipt
  position, \* the position of the grant's holder
  admitted, \* history: the position the inquiry was admitted with
  moves,    \* history: transitions the holder was authorized to make
  wire      \* history: network work really done, by target and dimension: resolver
            \* and kernel asked, first record of a handshake written, handshake over

vars == <<stage, plan, grant, clock, current, seen, receipt, position, admitted, moves, wire>>
invocation == <<stage, plan, clock, current, seen, receipt, wire>>

Refusing ==
  {"resolution_failed", "connection_failed", "tls_handshake_failed",
   "no_certificate_presented", "acquisition_bound_refused"}

\* What a peer presents: whether a certificate of the chain parses, whether
\* it bears the name, when it expires, whether a root vouches for it, and
\* whether it expires within the horizon.
Certificate ==
  [parsed : BOOLEAN, named : BOOLEAN, expired : {"no", "this_second", "yes"},
   trusted : BOOLEAN, soon : BOOLEAN]

\* No target is being acquired.
Idle ==
  [target |-> 0, started |-> 0, deadline |-> 0, io |-> 0, spend |-> NoSpend,
   verdict |-> "none", validation |-> "not_attempted", certificate |-> FALSE, late |-> FALSE]
NoReceipt == [status |-> "none", refusal |-> "none", spend |-> NoSpend, observations |-> <<>>]
NoGrant == [kind |-> "grant_required"]
BadGrant == [kind |-> "grant_malformed"]

OnWire == {"dns", "connections", "handshakes", "completed"}

Init ==
  /\ stage = "idle"
  /\ plan = <<>>
  /\ grant = NoGrant
  /\ clock = 0
  /\ current = Idle
  /\ seen = <<>>
  /\ receipt = NoReceipt
  /\ position = [scope |-> {}, depth |-> 0, remaining |-> NoSpend]
  /\ admitted = position
  /\ moves = 0
  /\ wire = [t \in Targets |-> [d \in OnWire |-> 0]]
-----------------------------------------------------------------------------
(***************************************************************************)
(* The grant.                                                              *)
(***************************************************************************)

\* The bounds of a plan for n targets, and the position it starts from
\* (InquiryWitnessPlanV0::resolve, InquiryPreflightV0::render).
Bounds(n) ==
  [d \in Dimensions |-> CASE d = "wall" -> Total [] d = "work" -> 4 * n [] OTHER -> n]
Needed(targets) ==
  [scope |-> targets, depth |-> 1, remaining |-> Bounds(Cardinality(targets))]

\* Mutant: a grant that has the targets will do.
GrantRefusalScopeOnly(g, targets) ==
  IF g \in {NoGrant, BadGrant} THEN g.kind
  ELSE IF ~(targets \subseteq g.scope) THEN "grant_scope_insufficient"
  ELSE "none"

\* The refusal before acquisition, "none" when the grant covers the plan.
GrantRefusal(g, targets) ==
  IF g \in {NoGrant, BadGrant} THEN g.kind
  ELSE IF AdmissionRefusal(g, Needed(targets)) # "none" THEN AdmissionRefusal(g, Needed(targets))
  ELSE IF "tls_cert_probe" \notin g.classes THEN "grant_witness_class_not_permitted"
  ELSE "none"

\* The admitted targets in the order of their ids.
Sorted(targets) ==
  CHOOSE s \in SetToSeqs(targets) : \A i, j \in DOMAIN s : i < j => s[i] < s[j]

\* Nothing is acquired under a grant that does not cover the plan: the
\* refusal is sealed with no spend.
Invoke(g, targets) ==
  /\ stage = "idle"
  /\ grant' = g
  /\ IF GrantRefusal(g, targets) = "none"
     THEN /\ stage' = "acquiring"
          /\ plan' = Sorted(targets)
          /\ position' = Needed(targets)
          /\ admitted' = Needed(targets)
          /\ UNCHANGED receipt
     ELSE /\ stage' = "refused"
          /\ receipt' = [status |-> "refused", refusal |-> GrantRefusal(g, targets),
                         spend |-> NoSpend, observations |-> <<>>]
          /\ UNCHANGED <<plan, position, admitted>>
  /\ UNCHANGED <<clock, current, seen, moves, wire>>
-----------------------------------------------------------------------------
(***************************************************************************)
(* One target (execute_target and probe_tls_cert_resolved).                *)
(***************************************************************************)
Elapsed(since) == (clock - since) \div TicksPerMs

\* The target that is next in the plan: one bound check, its clock started.
Fresh(t) ==
  LET own == clock + PerTarget * TicksPerMs IN
  [Idle EXCEPT !.target   = t,
               !.started  = clock,
               !.deadline = IF own < Total * TicksPerMs THEN own ELSE Total * TicksPerMs,
               !.spend    = [NoSpend EXCEPT !["checks"] = 1, !["work"] = 1]]

\* One attempt on the network, charged as it begins.
Charged(c, d) == [c EXCEPT !.spend[d] = 1, !.spend["work"] = @ + 1]
Sent(t, d) == wire' = [wire EXCEPT ![t][d] = @ + 1]

\* The target is over.
End(c, outcome, addressed) ==
  /\ seen' = Append(seen, [target |-> c.target, outcome |-> outcome,
                           validation |-> c.validation, certificate |-> c.certificate,
                           addressed |-> addressed,
                           spend |-> [c.spend EXCEPT !["wall"] = Elapsed(c.started)]])
  /\ plan' = Tail(plan)
  /\ current' = Idle
  /\ stage' = "acquiring"

\* A bound that could not be honoured halts the rest of the acquisition.
Halted == seen # <<>> /\ Last(seen).outcome = "acquisition_bound_refused"

\* Mutant: the target that is passed over stays in the plan.
SkipTargetInPlace ==
  /\ stage = "acquiring" /\ plan # <<>>
  /\ Halted
  /\ UNCHANGED vars

SkipTarget ==
  /\ stage = "acquiring" /\ plan # <<>>
  /\ Halted
  /\ End(Fresh(Head(plan)), "acquisition_bound_refused", FALSE)
  /\ UNCHANGED <<grant, clock, receipt, position, admitted, moves, wire>>

\* The bound check; then the one resolution, of a numeric host only.
BeginTarget ==
  /\ stage = "acquiring" /\ plan # <<>>
  /\ ~Halted
  /\ LET c == Fresh(Head(plan)) IN
     IF c.deadline < clock \/ c.target \notin Numeric
     THEN End(c, "acquisition_bound_refused", FALSE) /\ UNCHANGED wire
     ELSE /\ current' = Charged(c, "dns")
          /\ Sent(c.target, "dns")
          /\ stage' = "resolving"
          /\ UNCHANGED <<plan, seen>>
  /\ UNCHANGED <<grant, clock, receipt, position, admitted, moves>>

\* Part of the time that is left is kept for what follows the network.
Reserve(left) ==
  IF left \div ReserveDivisor < ReserveCap * TicksPerMs
  THEN left \div ReserveDivisor ELSE ReserveCap * TicksPerMs

\* Mutant: a resolution that failed is not charged.
ResolvedFree(ok) ==
  /\ stage = "resolving"
  /\ IF ~ok THEN End(Fresh(current.target), "resolution_failed", FALSE)
     ELSE IF clock >= current.deadline THEN End(current, "acquisition_bound_refused", FALSE)
     ELSE /\ current' = [current EXCEPT !.io = current.deadline - Reserve(current.deadline - clock)]
          /\ stage' = "resolved"
          /\ UNCHANGED <<plan, seen>>
  /\ UNCHANGED <<grant, clock, receipt, position, admitted, moves, wire>>

Resolved(ok) ==
  /\ stage = "resolving"
  /\ IF ~ok THEN End(current, "resolution_failed", FALSE)
     ELSE IF clock >= current.deadline THEN End(current, "acquisition_bound_refused", FALSE)
     ELSE /\ current' = [current EXCEPT !.io = current.deadline - Reserve(current.deadline - clock)]
          /\ stage' = "resolved"
          /\ UNCHANGED <<plan, seen>>
  /\ UNCHANGED <<grant, clock, receipt, position, admitted, moves, wire>>

\* The transport returns with a verdict; late is its deadline_exhausted.
Return(c, verdict, late) ==
  /\ current' = [c EXCEPT !.verdict = verdict, !.late = late]
  /\ stage' = "reached"

Connect ==
  /\ stage = "resolved"
  /\ IF clock >= current.io
     THEN Return(current, "connection_failed", TRUE) /\ UNCHANGED wire
     ELSE /\ current' = Charged(current, "connections")
          /\ Sent(current.target, "connections")
          /\ stage' = "connecting"
  /\ UNCHANGED <<plan, grant, clock, seen, receipt, position, admitted, moves>>

\* A connected socket goes on to observe_chain, and whatever becomes of it the
\* receipt is charged a handshake.
Connected(ok) ==
  /\ stage = "connecting"
  /\ IF ok
     THEN current' = Charged(current, "handshakes") /\ stage' = "opening"
     ELSE Return(current, "connection_failed", clock >= current.io)
  /\ UNCHANGED <<plan, grant, clock, seen, receipt, position, admitted, moves, wire>>

\* The first write, unless the deadline has passed by then.
BeginHandshake ==
  /\ stage = "opening"
  /\ clock < current.io
  /\ Sent(current.target, "handshakes")
  /\ stage' = "handshaking"
  /\ UNCHANGED <<plan, grant, clock, current, seen, receipt, position, admitted, moves>>

\* observe_chain returns an error: before its first write (the SNI is no name,
\* the deadline has passed) or after it.
HandshakeFailed ==
  /\ stage \in {"opening", "handshaking"}
  /\ Return(current, "tls_handshake_failed", clock >= current.io)
  /\ UNCHANGED <<plan, grant, clock, seen, receipt, position, admitted, moves, wire>>

\* WebPKI validates at the whole second; it knows names and addresses.
Validates(cert) == cert.parsed /\ cert.named /\ cert.trusted /\ cert.expired # "yes"

\* compute_verdict: the earliest failing rung wins.  Names are compared as DNS
\* names and the expiry with the full resolution of the clock.
Verdict(cert, t) ==
  IF ~cert.parsed THEN "no_certificate_presented"
  ELSE IF ~cert.named \/ t \in AddressNames THEN "name_mismatch"
  ELSE IF cert.expired # "no" THEN "expired_under_acquisition_clock"
  ELSE IF ~Validates(cert) THEN "chain_invalid"
  ELSE IF cert.soon THEN "valid_within_horizon"
  ELSE "valid_beyond_horizon"

HandshakeDone(cert) ==
  /\ stage = "handshaking"
  /\ Return([current EXCEPT !.spend["completed"] = 1,
                            !.validation = IF Validates(cert) THEN "valid" ELSE "invalid",
                            !.certificate = cert.parsed],
            Verdict(cert, current.target), FALSE)
  /\ Sent(current.target, "completed")
  /\ UNCHANGED <<plan, grant, clock, seen, receipt, position, admitted, moves>>

\* map_probe_receipt: an answer that came too late is a refused bound.
MapProbeReceipt ==
  /\ stage = "reached"
  /\ End(current, IF current.late \/ clock >= current.deadline
                  THEN "acquisition_bound_refused" ELSE current.verdict, TRUE)
  /\ UNCHANGED <<grant, clock, receipt, position, admitted, moves, wire>>
-----------------------------------------------------------------------------
(***************************************************************************)
(* The receipt.                                                            *)
(***************************************************************************)

\* The sum of a dimension over the observations.
Summed(d) == FoldLeft(LAMBDA n, o : n + o.spend[d], 0, seen)

\* The aggregate: counters are summed, the time is all the time elapsed.
Acquisition == [d \in Dimensions |-> IF d = "wall" THEN Elapsed(0) ELSE Summed(d)]

Status == IF \E i \in DOMAIN seen : seen[i].outcome \in Refusing THEN "refused" ELSE "answered"

\* InquiryTlsObservationV0::verify_shape: the outcome agrees with the evidence.
ShapeValid(o) ==
  CASE o.outcome = "resolution_failed" ->
         /\ o.spend["connections"] = 0 /\ ~o.addressed
         /\ ~o.certificate /\ o.validation = "not_attempted"
    [] o.outcome = "connection_failed" ->
         /\ o.spend["connections"] = 1 /\ o.spend["handshakes"] = 0 /\ o.addressed
         /\ ~o.certificate /\ o.validation = "not_attempted"
    [] o.outcome = "tls_handshake_failed" ->
         /\ o.spend["handshakes"] = 1 /\ o.spend["completed"] = 0 /\ o.addressed
         /\ ~o.certificate /\ o.validation = "not_attempted"
    [] o.outcome = "no_certificate_presented" ->
         o.spend["completed"] = 1 /\ ~o.certificate /\ o.addressed
    [] o.outcome \in {"name_mismatch", "expired_under_acquisition_clock", "chain_invalid"} ->
         o.spend["completed"] = 1 /\ o.certificate /\ o.addressed /\ o.validation = "invalid"
    [] o.outcome \in {"valid_within_horizon", "valid_beyond_horizon"} ->
         o.spend["completed"] = 1 /\ o.certificate /\ o.addressed /\ o.validation = "valid"
    [] o.outcome = "acquisition_bound_refused" -> TRUE

\* One attempt of each kind, each after the one before it, within the time.
SpendValid(s) ==
  /\ s["work"] = CountedWork(s)
  /\ s["completed"] <= s["handshakes"]
  /\ s["handshakes"] <= s["connections"]
  /\ s["connections"] <= s["dns"]
  /\ s["dns"] <= 1 /\ s["checks"] <= 1
  /\ s["wall"] <= PerTarget

\* verify_tls_envelope and verify_grant_binding.
Verified(a) ==
  /\ a["work"] # 0 /\ a["work"] = CountedWork(a)
  /\ AtMost(a, Bounds(Len(seen)))
  /\ \A i \in DOMAIN seen : ShapeValid(seen[i]) /\ SpendValid(seen[i].spend)
  /\ Summed("wall") <= a["wall"]
  /\ AtMost(a, grant.envelope)

\* A receipt that does not verify is an error: the invocation ends without one.
Seal ==
  /\ stage = "acquiring" /\ plan = <<>>
  /\ IF Verified(Acquisition)
     THEN /\ receipt' = [status |-> Status, refusal |-> "none",
                         spend |-> Acquisition, observations |-> seen]
          /\ stage' = "sealed"
     ELSE stage' = "failed" /\ UNCHANGED receipt
  /\ UNCHANGED <<plan, grant, clock, current, seen, position, admitted, moves, wire>>

\* authorize_same_grant_transition, on behalf of the holder of the grant.
Transition(req) ==
  /\ stage = "sealed"
  /\ Authorized(grant, position, req)
  /\ position' = req
  /\ moves' = moves + 1
  /\ UNCHANGED <<grant, admitted, invocation>>

\* Time passes in every wait and between any two steps.
Tick ==
  /\ stage \in {"acquiring", "resolving", "resolved", "connecting", "opening", "handshaking",
                "reached"}
  /\ clock < MaxTime
  /\ clock' = clock + 1
  /\ UNCHANGED <<stage, plan, grant, current, seen, receipt, position, admitted, moves, wire>>

Requests == [scope : SUBSET Targets, depth : 0 .. MaxDepth, remaining : Remainders]

\* A step of the executor.  The network may fail whenever it is waited for.
Execute ==
  \/ SkipTarget
  \/ BeginTarget
  \/ \E ok \in BOOLEAN : Resolved(ok)
  \/ Connect
  \/ \E ok \in BOOLEAN : Connected(ok)
  \/ BeginHandshake
  \/ HandshakeFailed
  \/ \E cert \in Certificate : HandshakeDone(cert)
  \/ MapProbeReceipt
  \/ Seal

Next ==
  \/ \E g \in Grants \cup {NoGrant, BadGrant}, ts \in (SUBSET Targets) \ {{}} : Invoke(g, ts)
  \/ Execute
  \/ \E req \in Requests : Transition(req)
  \/ Tick

Spec == Init /\ [][Next]_vars

\* Every wait has a timeout and nothing else is waited for.
FairSpec == Spec /\ WF_vars(Execute)
-----------------------------------------------------------------------------
(***************************************************************************)
(* Properties.                                                             *)
(***************************************************************************)

\* Whatever becomes of the receipt, the network work that was really done
\* is within the grant at every moment: no target outside its scope is
\* touched, none more than once in any dimension, and no dimension of the
\* envelope is exceeded; without a covering grant there is none at all
\* (README: "refuses at zero spend, before DNS").
WireWithinGrant ==
  \A t \in Targets, d \in OnWire :
    wire[t][d] # 0 =>
      /\ grant \in Grants
      /\ t \in grant.scope
      /\ "tls_cert_probe" \in grant.classes
      /\ wire[t][d] = 1
      /\ Cardinality({x \in Targets : wire[x][d] # 0}) <= grant.envelope[d]

\* What is charged against what was done: resolutions, connections and completed
\* handshakes exactly; a handshake never too little, and one too many only where
\* none was completed.
Tells(spend, done) ==
  /\ \A d \in OnWire \ {"handshakes"} : spend[d] = done[d]
  /\ done["handshakes"] <= spend["handshakes"]
  /\ done["handshakes"] = spend["handshakes"] \/ spend["completed"] = 0

\* A sealed receipt accounts for the work: what it says was spent on a target is
\* what was done for it, a failed or late attempt included; only a handshake that
\* ended before its first write (observe_chain: no valid SNI, deadline passed) is
\* charged and was not begun; and a target it does not mention was not touched.
\* No answer about a certificate is given after the deadline of its target: one
\* whose acquisition took its whole allowance is refused.
ReceiptTellsTheWire ==
  stage = "sealed" =>
    /\ \A i \in DOMAIN receipt.observations :
         Tells(receipt.observations[i].spend, wire[receipt.observations[i].target])
    /\ \A t \in Targets :
         t \notin {receipt.observations[i].target : i \in DOMAIN receipt.observations}
         => wire[t] = [d \in OnWire |-> 0]
    /\ \A i \in DOMAIN receipt.observations :
         receipt.observations[i].outcome \notin Refusing =>
           receipt.observations[i].spend["wall"] < PerTarget

\* The executor and the verifier in core agree.  Work that was spent goes
\* without a receipt only when the clock ran a millisecond past a deadline, or
\* when the two clocks or the two readings of names that judge a certificate
\* disagree: it expired within the current second, or the SNI is an address.
SealFailsOnlyLate ==
  stage = "failed" =>
    \/ Elapsed(0) > Total
    \/ \E i \in DOMAIN seen :
         \/ seen[i].spend["wall"] > PerTarget
         \/ /\ seen[i].validation = "valid"
            /\ \/ seen[i].outcome = "name_mismatch" /\ seen[i].target \in AddressNames
               \/ seen[i].outcome = "expired_under_acquisition_clock"

\* Once a bound could not be honoured, nothing more goes over the wire in
\* this invocation.
NoWorkAfterRefusedBound ==
  (\E i \in DOMAIN seen : seen[i].outcome = "acquisition_bound_refused") => wire' = wire

\* A grant cannot be ratcheted for ever: every authorized transition uses up
\* scope or envelope, whatever happens to the depth, so their number is
\* bounded by what the inquiry was admitted with.
Budget(p) ==
  Cardinality(p.scope) + p.remaining["dns"] + p.remaining["connections"]
    + p.remaining["handshakes"] + p.remaining["completed"] + p.remaining["checks"]
    + p.remaining["wall"] + p.remaining["work"]

RatchetRunsDown == moves + Budget(position) <= Budget(admitted)
=============================================================================
