---------------------------- MODULE OperatorWork ----------------------------
(***************************************************************************)
(* What operators do to findings while the serve loop runs: guarded        *)
(* work-state transitions over HTTP (finding_actions.rs), retirement of    *)
(* sources from the command line (source_retirement.rs), and the pages the *)
(* loop sends (notify.rs, send_notifications of cmd/serve.rs).             *)
(*                                                                         *)
(* Three processes meet here.  The serve loop takes the write connection's *)
(* mutex for the whole of a cycle and gives it up between cycles; an HTTP  *)
(* transition needs the same mutex; the command line opens a connection of *)
(* its own and may commit between any two statements of the loop.  Pages   *)
(* are sent under await from a snapshot of the table, and marked as sent   *)
(* one rollup later.                                                       *)
(*                                                                         *)
(* What fires in a generation is any set of identities: the detectors are  *)
(* the business of FindingLifecycle.                                       *)
(***************************************************************************)
EXTENDS FindingRows

CONSTANTS
  LaneOf,        \* lane_order of a kind's state_kind: incidents first
  MinSeverity,   \* notifications.min_severity
  Cooldown,      \* COOLDOWN_HOURS (24 in the code)
  Ttls,          \* expiries an operator may ask for, in hours
  MaxGen,        \* bound on the generations of a behaviour
  MaxTime        \* bound on the clock

ASSUME OperatorAssumption ==
  /\ LaneOf \in [Kinds -> 0 .. 4]
  /\ MinSeverity \in Severities
  /\ Cooldown \in Nat \ {0}
  /\ Ttls \subseteq Nat \ {0}
  /\ MaxGen \in Nat
  /\ MaxTime \in Nat

VARIABLES
  now,       \* the clock, in hours
  gen,       \* latest generation
  complete,  \* its status is "complete"
  stamped,   \* its completed_at
  rows,      \* warning_state
  retired,   \* sources_retired
  history,   \* notification_history: last_notified_at and _severity
  phase,     \* where the serve loop is in its cycle
  pending,   \* find_pending's snapshot, less the rollups already handled
  rollup,    \* the rollup that was sent and is being marked
  form,      \* the row an operator reviewed and is about to act on, if any
  lastPage,  \* history: the latest page of each identity
  born       \* history: the generation each row was inserted in

vars == <<now, gen, complete, stamped, rows, retired, history, phase, pending,
          rollup, form, lastPage, born>>

Pages == [key : Keys, sev : Severities]
Forms == [key : Keys, work : WorkStates, gen : Nat, born : Nat]

TypeOK ==
  /\ now \in Nat
  /\ gen \in Nat
  /\ complete \in BOOLEAN
  /\ stamped \in Nat
  /\ IsTable(rows)
  /\ retired \subseteq Sources
  /\ DOMAIN history \subseteq Keys
  /\ history \in [DOMAIN history -> [at : Nat, sev : Severities]]
  /\ phase \in {"idle", "published", "updated", "notifying", "marking"}
  /\ pending \subseteq Pages
  /\ rollup \subseteq Pages
  /\ form \subseteq Forms
  /\ DOMAIN lastPage \subseteq Keys
  /\ lastPage \in [DOMAIN lastPage -> [at : Nat, sev : Severities, marked : BOOLEAN]]
  /\ born \in [Keys -> Nat]

Init ==
  /\ now = 0
  /\ gen = 0
  /\ complete = FALSE
  /\ stamped = 0
  /\ rows = [k \in {} |-> FreshRow(k, [hash |-> None, incident |-> FALSE], 0, {})]
  /\ retired = {}
  /\ history = [k \in {} |-> [at |-> 0, sev |-> "info"]]
  /\ phase = "idle"
  /\ pending = {}
  /\ rollup = {}
  /\ form = {}
  /\ lastPage = [k \in {} |-> [at |-> 0, sev |-> "info", marked |-> FALSE]]
  /\ born = [k \in Keys |-> 0]
-----------------------------------------------------------------------------
(***************************************************************************)
(* The serve loop up to the notifications.                                 *)
(***************************************************************************)
Publish ==
  /\ phase = "idle"
  /\ gen < MaxGen
  /\ gen' = gen + 1
  /\ complete' \in BOOLEAN
  /\ stamped' = now
  /\ phase' = "published"
  /\ UNCHANGED <<now, rows, retired, history, pending, rollup, form, lastPage, born>>

\* The retired sources are read inside the lifecycle transaction.  Hosts are
\* all known here, so entity GC keeps out.
UpdateWarningState(fired) ==
  /\ phase = "published"
  /\ rows' = Lifecycle(rows, fired, gen, retired, now, Hosts, Hosts, <<>>, {})
  /\ born' = [k \in Keys |-> IF k \in DOMAIN rows' \ DOMAIN rows THEN gen ELSE born[k]]
  /\ phase' = "updated"
  /\ UNCHANGED <<now, gen, complete, stamped, retired, history, pending, rollup, form, lastPage>>

\* The update failed and was logged; the cycle goes on with the old rows.
LoseUpdate ==
  /\ phase = "published"
  /\ phase' = "updated"
  /\ UNCHANGED <<now, gen, complete, stamped, rows, retired, history, pending, rollup,
                 form, lastPage, born>>
-----------------------------------------------------------------------------
(***************************************************************************)
(* Notifications.                                                          *)
(***************************************************************************)

\* Mutant: the history is kept but not asked.
AnnouncedAlways(k) == TRUE

\* The durable history decides: an escalation is announced, anything else
\* waits for the cooldown.
Announced(k) ==
  k \in DOMAIN history =>
    \/ Rank[rows[k].sev] > Rank[history[k].sev]
    \/ now - history[k].at >= Cooldown

Eligible(k) ==
  /\ rows[k].notified # rows[k].sev
  /\ rows[k].work \notin Paused
  /\ rows[k].vis = "observed"
  /\ rows[k].basis # "retired"
  /\ Announced(k)
  /\ Rank[rows[k].sev] >= Rank[MinSeverity]

FindPending ==
  /\ phase = "updated"
  /\ pending' = {[key |-> k, sev |-> rows[k].sev] : k \in {x \in DOMAIN rows : Eligible(x)}}
  /\ phase' = "notifying"
  /\ UNCHANGED <<now, gen, complete, stamped, rows, retired, history, rollup, form,
                 lastPage, born>>

\* detector_family, of the kinds the instances use.
Family(kind) ==
  CASE kind \in ZfsKinds -> "zfs"
    [] kind \in {"stale_host", "disk_pressure"} -> "host"
    [] kind = "service_status" -> "service"
    [] kind = "source_error" -> "source"
    [] OTHER -> "other"

\* lane_order of LegacyUnclassified.
LegacyLane == 4

Together(p, q) ==
  /\ HostOf(q.key) = HostOf(p.key)
  /\ LaneOf[KindOf(q.key)] = LaneOf[KindOf(p.key)]
  /\ Family(KindOf(q.key)) = Family(KindOf(p.key))
  /\ LaneOf[KindOf(p.key)] = LegacyLane => q.key = p.key

\* rollup_pending: one card per host, lane and family, a card of its own for
\* each legacy finding; lanes in order.
Rollups ==
  {{q \in pending : Together(p, q)} :
     p \in {x \in pending : \A y \in pending :
              LaneOf[KindOf(x.key)] <= LaneOf[KindOf(y.key)]}}

\* One rollup goes out to every channel; a failed send is only logged.
SendRollup(r) ==
  /\ phase = "notifying"
  /\ lastPage' = [k \in DOMAIN lastPage \cup {p.key : p \in r} |->
                    IF \E p \in r : p.key = k
                    THEN [at |-> now, sev |-> (CHOOSE p \in r : p.key = k).sev, marked |-> FALSE]
                    ELSE lastPage[k]]
  /\ rollup' = r
  /\ pending' = pending \ r
  /\ phase' = "marking"
  /\ UNCHANGED <<now, gen, complete, stamped, rows, retired, history, form, born>>

\* mark_notified: the row, then the durable history.  Either statement may
\* fail; the error is logged and the loop goes on.
MarkNotified(p, outcome) ==
  /\ phase = "marking"
  /\ rows' = IF outcome # "none" /\ p.key \in DOMAIN rows
             THEN [rows EXCEPT ![p.key].notified = p.sev]
             ELSE rows
  /\ history' = IF outcome = "both"
                THEN [k \in DOMAIN history \cup {p.key} |->
                        IF k = p.key THEN [at |-> now, sev |-> p.sev] ELSE history[k]]
                ELSE history
  /\ lastPage' = [lastPage EXCEPT ![p.key].marked = (outcome = "both")]
  /\ rollup' = rollup \ {p}
  /\ phase' = IF rollup' = {} THEN "notifying" ELSE "marking"
  /\ UNCHANGED <<now, gen, complete, stamped, retired, pending, form, born>>

\* Nothing is left to send: the cycle ends and the mutex is released.
EndCycle ==
  /\ phase = "notifying"
  /\ pending = {}
  /\ phase' = "idle"
  /\ UNCHANGED <<now, gen, complete, stamped, rows, retired, history, pending, rollup,
                 form, lastPage, born>>

\* The process dies and is restarted; what was not committed is gone.
Crash ==
  /\ phase # "idle"
  /\ phase' = "idle"
  /\ pending' = {}
  /\ rollup' = {}
  /\ UNCHANGED <<now, gen, complete, stamped, rows, retired, history, form, lastPage, born>>
-----------------------------------------------------------------------------
(***************************************************************************)
(* Operators.                                                              *)
(***************************************************************************)

\* The dashboard shows a row, from the read-only connection, at any time.
Review(k) ==
  /\ k \in DOMAIN rows
  /\ form' = {[key |-> k, work |-> rows[k].work, gen |-> rows[k].lastSeen, born |-> born[k]]}
  /\ UNCHANGED <<now, gen, complete, stamped, rows, retired, history, phase, pending,
                 rollup, lastPage, born>>

TargetWorkState ==
  [acknowledge |-> "acknowledged", watch |-> "watching", quiesce |-> "quiesced",
   close |-> "closed", suppress |-> "suppressed", reset |-> "new"]

\* validate_request: 0 stands for no TTL.
ValidTtl(a, ttl) == ttl # 0 => a \in {"acknowledge", "quiesce", "suppress"}

\* Mutant: the reviewed generation is not compared.
ActionableAnyGen(f) ==
  /\ f.key \in DOMAIN rows
  /\ rows[f.key].work = f.work
  /\ rows[f.key].vis = "observed"
  /\ rows[f.key].absent = 0
  /\ rows[f.key].basis = "live"
  /\ complete
  /\ rows[f.key].lastSeen = gen
  /\ stamped = now

\* resolve_and_validate, in the order of its checks.  FINDING_ACTION_MAX_AGE
\* is five minutes: a generation of an earlier hour is too old.
Actionable(f) ==
  /\ f.key \in DOMAIN rows
  /\ rows[f.key].work = f.work
  /\ rows[f.key].lastSeen = f.gen
  /\ rows[f.key].vis = "observed"
  /\ rows[f.key].absent = 0
  /\ rows[f.key].basis = "live"
  /\ complete
  /\ rows[f.key].lastSeen = gen
  /\ stamped = now

\* Mutant: the handlers use a connection of their own.
OwnConnection == TRUE

\* The handlers share the loop's write connection and wait for its mutex.
WriteDbFree == phase = "idle"

\* Mutant: an action without TTL keeps the date of the one before.
ExpiresAtKept(r, ttl) == IF ttl = 0 THEN r.expires ELSE now + ttl

\* expiration_at: every action sets or clears the date.
ExpiresAt(r, ttl) == IF ttl = 0 THEN 0 ELSE now + ttl

\* transition_finding_action.  A refused request changes nothing.
TransitionFinding(f, a, ttl) ==
  /\ WriteDbFree
  /\ ValidTtl(a, ttl)
  /\ Actionable(f)
  /\ rows' = [rows EXCEPT ![f.key].work    = TargetWorkState[a],
                          ![f.key].expires = ExpiresAt(rows[f.key], ttl),
                          ![f.key].acked   = IF a = "acknowledge" THEN TRUE
                                             ELSE IF a = "reset" THEN FALSE ELSE @]
  /\ form' = {}
  /\ UNCHANGED <<now, gen, complete, stamped, retired, history, phase, pending, rollup,
                 lastPage, born>>

\* The command line, in a process and a transaction of its own.
RetireSource(s) ==
  /\ s \notin retired
  /\ retired' = retired \cup {s}
  /\ rows' = [k \in DOMAIN rows |->
                IF SourceOf[k] = s THEN [rows[k] EXCEPT !.basis = "retired"] ELSE rows[k]]
  /\ UNCHANGED <<now, gen, complete, stamped, history, phase, pending, rollup, form,
                 lastPage, born>>

\* The reversal never makes a row live: the next pass that sees it does.
UnretireSource(s) ==
  /\ s \in retired
  /\ retired' = retired \ {s}
  /\ rows' = [k \in DOMAIN rows |->
                IF SourceOf[k] = s /\ rows[k].basis = "retired"
                THEN [rows[k] EXCEPT !.basis = "unknown"] ELSE rows[k]]
  /\ UNCHANGED <<now, gen, complete, stamped, history, phase, pending, rollup, form,
                 lastPage, born>>

Tick ==
  /\ now < MaxTime
  /\ now' = now + 1
  /\ UNCHANGED <<gen, complete, stamped, rows, retired, history, phase, pending, rollup,
                 form, lastPage, born>>

AtBound == gen = MaxGen /\ now = MaxTime /\ phase = "idle" /\ UNCHANGED vars

Firings == UNION {[S -> Emissions] : S \in SUBSET Keys}

Next ==
  \/ Publish
  \/ \E fired \in Firings : UpdateWarningState(fired)
  \/ LoseUpdate
  \/ FindPending
  \/ \E r \in Rollups : SendRollup(r)
  \/ \E p \in rollup, outcome \in {"both", "row", "none"} : MarkNotified(p, outcome)
  \/ EndCycle
  \/ Crash
  \/ \E k \in Keys : Review(k)
  \/ \E f \in form, a \in DOMAIN TargetWorkState, ttl \in Ttls \cup {0} :
       TransitionFinding(f, a, ttl)
  \/ \E s \in Sources : RetireSource(s)
  \/ \E s \in Sources : UnretireSource(s)
  \/ Tick
  \/ AtBound

Spec == Init /\ [][Next]_vars
-----------------------------------------------------------------------------
(***************************************************************************)
(* Properties that hold.                                                   *)
(***************************************************************************)

\* Pages are sent in this step.
Sent == IF phase = "notifying" /\ phase' = "marking" THEN rollup' ELSE {}

\* An operator's pause and a page cannot cross: no page leaves for a finding
\* that is acknowledged as paused, although the snapshot it was built from is
\* older than the send (the write mutex of cmd/serve.rs and http/routes.rs).
NoPageForPaused ==
  [][\A p \in Sent : p.key \in DOMAIN rows => rows[p.key].work \notin Paused]_vars

\* Within the cooldown the pages of one finding climb in severity, through
\* flapping, clearing and re-creation of its row, edited checks and operator
\* actions; only a page that was never recorded may be repeated.
PagesClimb ==
  [][\A p \in Sent :
       p.key \in DOMAIN lastPage /\ lastPage[p.key].marked
         /\ now - lastPage[p.key].at < Cooldown
       => Rank[p.sev] > Rank[lastPage[p.key].sev]]_vars

\* An action lands on the row the operator reviewed, never on a later row of
\* the same identity (expected_work_state and expected_last_seen_gen).
ActsOnReviewedRow ==
  [][\A k \in DOMAIN rows \cap DOMAIN rows' :
       phase = "idle" /\ rows'[k].work # rows[k].work =>
         \E f \in form : f.key = k /\ f.born = born[k]]_vars

\* The basis of a row and the list of retired sources agree at every commit,
\* in whatever order cycles, retirements and reversals come.
RetiredBasisAgrees ==
  \A k \in DOMAIN rows : rows[k].basis = "retired" <=> SourceOf[k] \in retired

\* An expiry date stands only on a work state that the lifecycle pass lets
\* expire: no pause is stranded with a date nobody honours, and no closed or
\* watched finding reopens by an old date.
ExpiryIsHonoured ==
  \A k \in DOMAIN rows :
    rows[k].expires # 0 => rows[k].work \in {"acknowledged", "quiesced", "suppressed"}
-----------------------------------------------------------------------------
\* Values of constants for small instances: one source, one lane.
OneSource == [k \in Keys |-> CHOOSE s \in Sources : TRUE]
OneLane == [k \in Kinds |-> 1]
=============================================================================
