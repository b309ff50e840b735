--------------------------- MODULE ReportInquiry ---------------------------
(***************************************************************************)
(* The passive inquiry `nq inquire` over the store: is this finding        *)
(* operationally active?  (crates/nq-db/src/inquiry.rs.)                   *)
(*                                                                         *)
(* A generation reaches the store in three transactions of the serve loop: *)
(* its row, the lifecycle pass with its evidence rows, and the seal of its *)
(* summary hash.  Either of the last two may fail, and the process may die *)
(* between them.  The inquiry runs in a process of its own, on a read-only *)
(* connection, and pins one SQLite snapshot with its first read: it may    *)
(* pin the database between any two of those transactions, and what it     *)
(* reads later is still that snapshot.                                     *)
(*                                                                         *)
(* Time is the wall clock in ticks, TicksPerSecond to a second, and may    *)
(* step back.  Rows that were imported or minted by a drill are never      *)
(* written to a serving database; the refusals about a row's origin are    *)
(* left out with them.  So is the sweep of old evidence (GenerationStore). *)
(***************************************************************************)
EXTENDS FindingRows, Sequences, SequencesExt

CONSTANTS
  TicksPerSecond,  \* clock resolution
  MaxSnapshotAge,  \* the profile's max_snapshot_age_seconds
  EvidenceLimit,   \* the profile's evidence_limit
  MaxGen,          \* bound on the generations of a behaviour
  MaxTime          \* bound on the clock

ASSUME InquiryAssumption ==
  /\ IsFiniteSet(Sources)
  /\ TicksPerSecond \in Nat \ {0}
  /\ MaxSnapshotAge \in Nat
  /\ EvidenceLimit \in Nat \ {0}
  /\ MaxGen \in Nat
  /\ MaxTime \in Nat

VARIABLES
  now,          \* the wall clock
  generations,  \* rows of the table of that name, generation_id = position
  rows,         \* warning_state
  marks,        \* its last_seen_at, last_basis_generation and basis_state_at
  evidence,     \* finding_observations, in the order of their ids
  retired,      \* sources_retired: the retired sources' retired_at
  phase,        \* where the serve loop is in its cycle
  passes        \* history: what fired in each generation's pass, and when

vars == <<now, generations, rows, marks, evidence, retired, phase, passes>>

Time == 0 .. MaxTime

Generation == [completed : Time, ok : Nat, failed : Nat, sealed : BOOLEAN]
Mark == [seenAt : Time, basisGen : Nat, basisAt : Time]
Observation == [key : Keys, gen : Nat, at : Time]
Pass == [keys : SUBSET Keys, hidden : SUBSET Hosts, at : Time, ran : BOOLEAN]

TypeOK ==
  /\ now \in Time
  /\ generations \in Seq(Generation)
  /\ Len(generations) <= MaxGen
  /\ IsTable(rows)
  /\ DOMAIN marks = DOMAIN rows
  /\ marks \in [DOMAIN rows -> Mark]
  /\ evidence \in Seq(Observation)
  /\ DOMAIN retired \subseteq Sources
  /\ retired \in [DOMAIN retired -> Time]
  /\ phase \in {"idle", "published", "updated"}
  /\ passes \in Seq(Pass)
  /\ Len(passes) = Len(generations)

Init ==
  /\ now = 0
  /\ generations = <<>>
  /\ rows = [k \in {} |-> FreshRow(k, [hash |-> None, incident |-> FALSE], 0, {})]
  /\ marks = [k \in {} |-> [seenAt |-> 0, basisGen |-> 0, basisAt |-> 0]]
  /\ evidence = <<>>
  /\ retired = [s \in {} |-> 0]
  /\ phase = "idle"
  /\ passes = <<>>
-----------------------------------------------------------------------------
(***************************************************************************)
(* The serve loop.                                                         *)
(***************************************************************************)

\* publish_batch.  completed_at was read when the last source answered.
Publish(failed) ==
  /\ phase = "idle"
  /\ Len(generations) < MaxGen
  /\ generations' =
       Append(generations, [completed |-> now, ok |-> Cardinality(Sources \ failed),
                            failed |-> Cardinality(failed), sealed |-> FALSE])
  /\ passes' = Append(passes, [keys |-> {}, hidden |-> {}, at |-> 0, ran |-> FALSE])
  /\ phase' = "published"
  /\ UNCHANGED <<now, rows, marks, evidence, retired>>

\* Stamps of a row the pass of generation g wrote.  Only a live basis names
\* the generation; an unknown one has no instant (0 stands for NULL).
MarkOf(k, g) ==
  LET basis == BasisOf(k, DOMAIN retired) IN
  [seenAt   |-> now,
   basisGen |-> IF basis = "live" THEN g ELSE 0,
   basisAt  |-> CASE basis = "retired" -> retired[SourceOf[k]]
                  [] basis = "live" -> now
                  [] basis = "unknown" -> 0]

UpdateWarningState(emitted, active) ==
  LET g == Len(generations) IN
  /\ phase = "published"
  /\ rows' = Lifecycle(rows, emitted, g, DOMAIN retired, now, Hosts, Hosts, active, {})
  /\ marks' = [k \in DOMAIN rows' |-> IF k \in DOMAIN emitted THEN MarkOf(k, g) ELSE marks[k]]
  /\ evidence' = evidence \o SetToSeq({[key |-> k, gen |-> g, at |-> now] : k \in DOMAIN emitted})
  /\ passes' = [passes EXCEPT ![g] =
                  [keys |-> DOMAIN emitted, at |-> now, ran |-> TRUE,
                   hidden |-> {h \in Hosts : Withdrawing(active, h) # {}}]]
  /\ phase' = "updated"
  /\ UNCHANGED <<now, generations, retired>>

\* A detector or the pass failed: it is logged and the cycle goes on.
LoseUpdate ==
  /\ phase = "published"
  /\ phase' = "updated"
  /\ UNCHANGED <<now, generations, rows, marks, evidence, retired, passes>>

\* seal_generation, of the generation this cycle published.
Seal ==
  /\ phase = "updated"
  /\ generations' = [generations EXCEPT ![Len(generations)].sealed = TRUE]
  /\ phase' = "idle"
  /\ UNCHANGED <<now, rows, marks, evidence, retired, passes>>

\* The seal failed, or the process died in its cycle: the next cycle has a
\* generation of its own and never comes back to this one.
Abandon ==
  /\ phase # "idle"
  /\ phase' = "idle"
  /\ UNCHANGED <<now, generations, rows, marks, evidence, retired, passes>>
-----------------------------------------------------------------------------
(***************************************************************************)
(* Retirement, from a process of its own.                                  *)
(***************************************************************************)
\* The rows of a source change their basis, stamped with the instant.
Rebase(keys, basis) ==
  /\ rows' = [k \in DOMAIN rows |->
                IF k \in keys THEN [rows[k] EXCEPT !.basis = basis] ELSE rows[k]]
  /\ marks' = [k \in DOMAIN rows |->
                IF k \in keys THEN [marks[k] EXCEPT !.basisAt = now] ELSE marks[k]]

RetireSource(s) ==
  /\ s \notin DOMAIN retired
  /\ retired' = [x \in DOMAIN retired \cup {s} |-> IF x = s THEN now ELSE retired[x]]
  /\ Rebase({k \in DOMAIN rows : SourceOf[k] = s /\ rows[k].basis # "retired"}, "retired")
  /\ UNCHANGED <<now, generations, evidence, phase, passes>>

UnretireSource(s) ==
  /\ s \in DOMAIN retired
  /\ retired' = [x \in DOMAIN retired \ {s} |-> retired[x]]
  /\ Rebase({k \in DOMAIN rows : SourceOf[k] = s /\ rows[k].basis = "retired"}, "unknown")
  /\ UNCHANGED <<now, generations, evidence, phase, passes>>
-----------------------------------------------------------------------------
(***************************************************************************)
(* The inquiry.  It writes nothing and, reading one pinned snapshot, is a  *)
(* function of a reachable database: the states of this specification,     *)
(* those in the middle of a cycle included.                                *)
(***************************************************************************)

\* Mutant: a newest generation that is still on its way is passed over.
SnapshotSealed ==
  LET sealed == {g \in DOMAIN generations : generations[g].sealed}
  IN  IF sealed = {} THEN Len(generations) ELSE Max(sealed)

\* load_latest_snapshot: the newest generation, sealed or not; 0 for none.
Snapshot == Len(generations)

\* load_evidence_tail: the newest rows of the identity, by their ids, and the
\* first of them.
Newer(i, j) ==
  evidence[i].gen > evidence[j].gen \/ (evidence[i].gen = evidence[j].gen /\ i > j)
EvidenceTail(k) ==
  LET own == {i \in DOMAIN evidence : evidence[i].key = k /\ evidence[i].gen <= Snapshot}
  IN  {i \in own : Cardinality({j \in own : Newer(j, i)}) < EvidenceLimit}
LatestOf(tail) == CHOOSE i \in tail : \A j \in tail : ~Newer(j, i)

\* The age is in whole seconds and must exceed the horizon.
TooOld(at, asOf) == (asOf - at) \div TicksPerSecond > MaxSnapshotAge

\* The refusal a generation calls for, None when it can carry an answer.
SnapshotRefusal(g, asOf) ==
  IF ~g.sealed THEN "snapshot_unsealed"
  ELSE IF g.failed # 0 \/ g.ok # Cardinality(Sources) THEN "snapshot_incomplete"
  ELSE IF g.completed > asOf THEN "snapshot_after_as_of"
  ELSE IF TooOld(g.completed, asOf) THEN "snapshot_too_old"
  ELSE None

BasisCurrent(k) ==
  rows[k].basis = "live" /\ SourceOf[k] # None /\ marks[k].basisGen = Snapshot

FiringNow(k) ==
  rows[k].lastSeen = Snapshot /\ rows[k].absent = 0 /\ rows[k].streak >= 1

\* What a row and its evidence tail support.
RowVerdict(k, tail, asOf) ==
  IF marks[k].seenAt > asOf THEN "snapshot_after_as_of"
  ELSE IF rows[k].vis # "observed" THEN "evidence_suppressed"
  ELSE IF ~BasisCurrent(k) THEN "evidence_not_current"
  ELSE IF marks[k].basisAt > asOf THEN "snapshot_after_as_of"
  ELSE IF ~FiringNow(k) THEN "evidence_not_current"
  ELSE IF tail = {} THEN "evidence_absent"
  ELSE IF evidence[LatestOf(tail)].gen # Snapshot THEN "evidence_not_current"
  ELSE IF evidence[LatestOf(tail)].at > asOf THEN "snapshot_after_as_of"
  ELSE IF evidence[LatestOf(tail)].at # marks[k].seenAt THEN "evidence_not_current"
  ELSE IF \E i \in tail : evidence[i].at > asOf THEN "snapshot_after_as_of"
  ELSE "operationally_active"

\* classify_disposition.  Everything but operationally_active is a refusal,
\* named by its kind.
Disposition(k, asOf) ==
  IF Snapshot = 0 THEN "snapshot_unavailable"
  ELSE LET refusal == SnapshotRefusal(generations[Snapshot], asOf) IN
       IF refusal # None THEN refusal
       ELSE IF k \notin DOMAIN rows THEN "evidence_absent"
       ELSE RowVerdict(k, EvidenceTail(k), asOf)

\* execute_report_inquiry: a plan may freeze as_of at any instant, and
\* execute_latest_report_inquiry takes the completion of the newest
\* generation, which is one of them.
Active(k, asOf) == Disposition(k, asOf) = "operationally_active"
-----------------------------------------------------------------------------
Tick ==
  /\ now < MaxTime
  /\ now' = now + 1
  /\ UNCHANGED <<generations, rows, marks, evidence, retired, phase, passes>>

\* The wall clock is corrected backwards.
StepBack ==
  /\ now > 0
  /\ now' = now - 1
  /\ UNCHANGED <<generations, rows, marks, evidence, retired, phase, passes>>

\* The inquiry reads neither rule hashes nor severities: one emission will do.
Firings == UNION {[S -> {[hash |-> None, incident |-> FALSE]}] : S \in SUBSET Keys}
ActiveLists == {<<>>} \cup {<<d>> : d \in {x \in Declaration : x.mode = "withdrawn"}}

Next ==
  \/ \E failed \in SUBSET Sources : Publish(failed)
  \/ \E emitted \in Firings, active \in ActiveLists : UpdateWarningState(emitted, active)
  \/ LoseUpdate
  \/ Seal
  \/ Abandon
  \/ \E s \in Sources : RetireSource(s) \/ UnretireSource(s)
  \/ Tick
  \/ StepBack

Spec == Init /\ [][Next]_vars
-----------------------------------------------------------------------------
(***************************************************************************)
(* Properties.                                                             *)
(***************************************************************************)

\* An active answer is the truth about the newest generation of the store,
\* and about no older one: all three transactions of that generation are in,
\* every source answered, the detectors emitted the finding in it, nothing
\* hides or retires it, every instant behind the answer is at or before
\* as_of, and as_of is within the horizon.  It must hold wherever the
\* reader's snapshot falls between the transactions of the serve loop, also
\* when a lifecycle pass or a seal was lost or the clock stepped back.
ActiveIsCurrent ==
  \A k \in Keys, t \in Time :
    Active(k, t) =>
      LET g == generations[Len(generations)]
          p == passes[Len(generations)]
      IN  /\ g.sealed /\ g.failed = 0
          /\ p.ran /\ k \in p.keys /\ HostOf(k) \notin p.hidden
          /\ SourceOf[k] \notin DOMAIN retired
          /\ g.completed <= t /\ p.at <= t
          /\ t < g.completed + (MaxSnapshotAge + 1) * TicksPerSecond

\* The converse: the executor does not refuse what it could answer.  Its
\* guards compare the row with the snapshot, the basis and the evidence in
\* several redundant ways; they never disagree about a finding that fired in
\* a sealed, complete generation and still has its live basis, at any as_of
\* that is not before one of its receipts.
AnswersWhenItCan ==
  \A k \in DOMAIN rows, t \in Time :
    LET g == generations[Len(generations)]
        p == passes[Len(generations)]
    IN  (/\ g.sealed /\ g.failed = 0
         /\ p.ran /\ k \in p.keys /\ HostOf(k) \notin p.hidden
         /\ rows[k].basis = "live"
         /\ g.completed <= t /\ t <= g.completed + MaxSnapshotAge * TicksPerSecond
         /\ \A i \in DOMAIN passes : k \in passes[i].keys => passes[i].at <= t)
        => Active(k, t)

\* Standing begins with a seal: no other step - a pass, a restart, the
\* reversal of a retirement, a clock step - makes an inquiry answerable that
\* was not, at any as_of.
StandingBeginsSealed ==
  \A k \in Keys :
    (\E t \in Time : Active(k, t)') /\ ~(\E t \in Time : Active(k, t))
    => phase = "updated" /\ generations'[Len(generations)].sealed
=============================================================================
