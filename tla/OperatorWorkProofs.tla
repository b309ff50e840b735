------------------------- MODULE OperatorWorkProofs -------------------------
(***************************************************************************)
(* Theorems about OperatorWork: for every set of hosts, kinds and sources, *)
(* every firing, every cooldown and every TTL.                             *)
(***************************************************************************)
EXTENDS OperatorWork, FindingRowsProofs

-----------------------------------------------------------------------------
(***************************************************************************)
(* Type correctness.                                                       *)
(***************************************************************************)

\* A set of identities that fire, with what the detectors say of them.
LEMMA FiringsType ==
  ASSUME NEW fired \in Firings
  PROVE  IsFiring(fired)
BY DEF Firings, IsFiring

\* What a lifecycle pass leaves of the columns operators and pages depend on.
LEMMA PassWork ==
  ASSUME TypeOK, NEW fired \in Firings, UpdateWarningState(fired)
  PROVE  /\ IsTable(rows')
         /\ \A k \in DOMAIN rows' :
              /\ k \in Keys
              /\ k \in DOMAIN rows \/ k \in DOMAIN fired
              /\ Upserted(rows, fired, gen, retired)[k] \in Row
              /\ SameWork(rows'[k], ExpireRow(Upserted(rows, fired, gen, retired)[k], now))
<1> DEFINE n == Lifecycle(rows, fired, gen, retired, now, Hosts, Hosts, <<>>, {})
           u == Upserted(rows, fired, gen, retired)
<1>1. IsTable(rows) /\ gen \in Nat
  BY DEF TypeOK
<1>2. IsFiring(fired)
  BY FiringsType
<1>3. <<>> \in Seq(Declaration)
  OBVIOUS
<1>4. IsTable(n)
  BY <1>1, <1>2, <1>3, LifecycleFacts
<1>5. IsTable(u) /\ DOMAIN u = DOMAIN rows \cup DOMAIN fired
  <2>1. IsTable(u)
    BY <1>1, <1>2, UpsertedTable
  <2> QED BY <2>1 DEF Upserted
<1> HIDE DEF u
<1>6. ASSUME NEW k \in DOMAIN n
      PROVE  k \in DOMAIN rows \cup DOMAIN fired /\ SameWork(n[k], ExpireRow(u[k], now))
  BY <1>1, <1>2, <1>3, LifecycleWork DEF u
<1>7. \A k \in DOMAIN n : u[k] \in Row /\ k \in Keys
  BY <1>5, <1>6, TableRow
<1>8. rows' = n
  BY DEF UpdateWarningState
<1> HIDE DEF n
<1>9. \A k \in DOMAIN n : SameWork(n[k], ExpireRow(u[k], now))
  BY <1>6
<1>10. \A k \in DOMAIN n : k \in DOMAIN rows \/ k \in DOMAIN fired
  BY <1>6
<1> QED BY <1>4, <1>7, <1>8, <1>9, <1>10 DEF u

\* The first state is well typed.
LEMMA InitType == Init => TypeOK
<1> SUFFICES ASSUME Init PROVE TypeOK
  OBVIOUS
<1>1. IsTable(rows)
  BY DEF Init, IsTable
<1>2. /\ DOMAIN history \subseteq Keys
      /\ history \in [DOMAIN history -> [at : Nat, sev : Severities]]
      /\ DOMAIN lastPage \subseteq Keys
      /\ lastPage \in [DOMAIN lastPage -> [at : Nat, sev : Severities, marked : BOOLEAN]]
  BY DEF Init
<1>3. born \in [Keys -> Nat]
  BY DEF Init
<1> QED BY <1>1, <1>2, <1>3 DEF Init, TypeOK

\* A rollup is part of what is pending.
LEMMA RollupPending ==
  ASSUME NEW r \in Rollups
  PROVE  r \subseteq pending
BY DEF Rollups

\* Every step keeps the types.
LEMMA NextType == TypeOK /\ [Next]_vars => TypeOK'
<1> SUFFICES ASSUME TypeOK, [Next]_vars PROVE TypeOK'
  OBVIOUS
<1>0. IsTable(rows) /\ gen \in Nat /\ now \in Nat
  BY DEF TypeOK
<1>1. CASE Publish
  BY <1>1 DEF TypeOK, Publish
<1>2. ASSUME NEW fired \in Firings, UpdateWarningState(fired)
      PROVE  TypeOK'
  <2>1. IsTable(rows')
    BY <1>2, PassWork
  <2>2. born' \in [Keys -> Nat]
    BY <1>2 DEF UpdateWarningState, TypeOK
  <2>3. phase' = "updated" /\ UNCHANGED <<now, gen, complete, stamped, retired, history,
                                          pending, rollup, form, lastPage>>
    BY <1>2 DEF UpdateWarningState
  <2> QED BY <2>1, <2>2, <2>3 DEF TypeOK
<1>3. CASE LoseUpdate
  BY <1>3 DEF TypeOK, LoseUpdate
<1>4. CASE FindPending
  <2>1. \A k \in DOMAIN rows : k \in Keys /\ rows[k].sev \in Severities
    BY <1>0, TableRow DEF Row
  <2>2. pending' \subseteq Pages
    BY <1>4, <2>1 DEF FindPending, Pages
  <2> QED BY <1>4, <2>2 DEF TypeOK, FindPending
<1>5. ASSUME NEW r \in Rollups, SendRollup(r)
      PROVE  TypeOK'
  <2>1. r \subseteq Pages
    BY RollupPending DEF TypeOK
  <2>2. \A p \in r : p.key \in Keys /\ p.sev \in Severities
    BY <2>1 DEF Pages
  <2>3. DOMAIN lastPage' = DOMAIN lastPage \cup {p.key : p \in r}
    BY <1>5 DEF SendRollup
  <2>4. DOMAIN lastPage' \subseteq Keys
    BY <2>2, <2>3 DEF TypeOK
  <2>5. ASSUME NEW k \in DOMAIN lastPage'
        PROVE  lastPage'[k] \in [at : Nat, sev : Severities, marked : BOOLEAN]
    <3>1. CASE \E p \in r : p.key = k
      <4>1. (CHOOSE p \in r : p.key = k).sev \in Severities
        BY <3>1, <2>2
      <4>2. lastPage'[k] = [at |-> now, sev |-> (CHOOSE p \in r : p.key = k).sev,
                            marked |-> FALSE]
        BY <1>5, <3>1 DEF SendRollup
      <4> QED BY <1>0, <4>1, <4>2
    <3>2. CASE ~\E p \in r : p.key = k
      <4>1. k \in DOMAIN lastPage /\ lastPage'[k] = lastPage[k]
        BY <1>5, <3>2, <2>3 DEF SendRollup
      <4> QED BY <4>1 DEF TypeOK
    <3> QED BY <3>1, <3>2
  <2>6. lastPage' \in [DOMAIN lastPage' -> [at : Nat, sev : Severities, marked : BOOLEAN]]
    BY <1>5, <2>5 DEF SendRollup
  <2>7. rollup' \subseteq Pages /\ pending' \subseteq Pages
    BY <1>5, <2>1 DEF SendRollup, TypeOK
  <2> QED BY <1>5, <2>4, <2>6, <2>7 DEF TypeOK, SendRollup
<1>6. ASSUME NEW p \in rollup, NEW outcome \in {"both", "row", "none"},
             MarkNotified(p, outcome)
      PROVE  TypeOK'
  <2>1. p.key \in Keys /\ p.sev \in Severities
    BY DEF TypeOK, Pages
  <2>2. IsTable(rows')
    <3>1. CASE outcome # "none" /\ p.key \in DOMAIN rows
      <4>1. rows' = [rows EXCEPT ![p.key].notified = p.sev]
        BY <1>6, <3>1 DEF MarkNotified
      <4>2. [rows[p.key] EXCEPT !.notified = p.sev] \in Row
        BY <1>0, <2>1, <3>1, TableRow DEF Row
      <4> QED BY <1>0, <4>1, <4>2 DEF IsTable
    <3>2. CASE ~(outcome # "none" /\ p.key \in DOMAIN rows)
      BY <1>6, <1>0, <3>2 DEF MarkNotified
    <3> QED BY <3>1, <3>2
  <2>3. /\ DOMAIN history' \subseteq Keys
        /\ history' \in [DOMAIN history' -> [at : Nat, sev : Severities]]
    <3>1. CASE outcome = "both"
      <4>1. [at |-> now, sev |-> p.sev] \in [at : Nat, sev : Severities]
        BY <1>0, <2>1
      <4>2. history' = [k \in DOMAIN history \cup {p.key} |->
                          IF k = p.key THEN [at |-> now, sev |-> p.sev] ELSE history[k]]
        BY <1>6, <3>1 DEF MarkNotified
      <4> QED BY <4>1, <4>2, <2>1 DEF TypeOK
    <3>2. CASE outcome # "both"
      BY <1>6, <3>2 DEF MarkNotified, TypeOK
    <3> QED BY <3>1, <3>2
  <2>4. lastPage' = [lastPage EXCEPT ![p.key].marked = (outcome = "both")]
    BY <1>6 DEF MarkNotified
  <2>5. /\ DOMAIN lastPage' \subseteq Keys
        /\ lastPage' \in [DOMAIN lastPage' -> [at : Nat, sev : Severities, marked : BOOLEAN]]
    BY <2>4 DEF TypeOK
  <2>6. rollup' \subseteq Pages
    BY <1>6 DEF MarkNotified, TypeOK
  <2>7. phase' \in {"notifying", "marking"}
    BY <1>6 DEF MarkNotified
  <2>8. UNCHANGED <<now, gen, complete, stamped, retired, pending, form, born>>
    BY <1>6 DEF MarkNotified
  <2> QED BY <2>2, <2>3, <2>5, <2>6, <2>7, <2>8 DEF TypeOK
<1>7. CASE EndCycle
  BY <1>7 DEF TypeOK, EndCycle
<1>8. CASE Crash
  BY <1>8 DEF TypeOK, Crash
<1>9. ASSUME NEW k \in Keys, Review(k)
      PROVE  TypeOK'
  <2>1. rows[k].work \in WorkStates /\ rows[k].lastSeen \in Nat
    BY <1>0, <1>9, TableRow DEF Review, Row
  <2>2. form' \subseteq Forms
    BY <1>9, <2>1 DEF Review, Forms, TypeOK
  <2> QED BY <1>9, <2>2 DEF TypeOK, Review
<1>10. ASSUME NEW f \in form, NEW a \in DOMAIN TargetWorkState, NEW ttl \in Ttls \cup {0},
              TransitionFinding(f, a, ttl)
       PROVE  TypeOK'
  <2>1. f.key \in Keys /\ f.key \in DOMAIN rows
    BY <1>10 DEF TransitionFinding, Actionable, TypeOK, Forms
  <2>2. TargetWorkState[a] \in WorkStates
    BY DEF TargetWorkState, WorkStates
  <2>3. ExpiresAt(rows[f.key], ttl) \in Nat
    BY <1>0, OperatorAssumption DEF ExpiresAt
  <2>4. rows[f.key] \in Row
    BY <1>0, <2>1, TableRow
  <2> DEFINE ack == IF a = "acknowledge" THEN TRUE
                    ELSE IF a = "reset" THEN FALSE ELSE rows[f.key].acked
             r == [rows[f.key] EXCEPT !.work = TargetWorkState[a],
                                      !.expires = ExpiresAt(rows[f.key], ttl),
                                      !.acked = ack]
  <2>5. ack \in BOOLEAN
    BY <2>4 DEF Row
  <2>6. r \in Row
    <3> HIDE DEF ack
    <3> QED BY <2>2, <2>3, <2>4, <2>5 DEF Row
  <2>7. rows' = [rows EXCEPT ![f.key] = r]
    BY <1>10, <2>1 DEF TransitionFinding
  <2>8. IsTable(rows')
    <3> HIDE DEF r
    <3> QED BY <1>0, <2>6, <2>7 DEF IsTable
  <2> QED BY <1>10, <2>8 DEF TypeOK, TransitionFinding
<1>11. ASSUME NEW s \in Sources, RetireSource(s)
       PROVE  TypeOK'
  <2>1. \A k \in DOMAIN rows : rows[k] \in Row /\ [rows[k] EXCEPT !.basis = "retired"] \in Row
    BY <1>0, TableRow DEF Row
  <2>2. IsTable(rows')
    BY <1>11, <1>0, <2>1 DEF RetireSource, IsTable
  <2> QED BY <1>11, <2>2 DEF TypeOK, RetireSource
<1>12. ASSUME NEW s \in Sources, UnretireSource(s)
       PROVE  TypeOK'
  <2>1. \A k \in DOMAIN rows : rows[k] \in Row /\ [rows[k] EXCEPT !.basis = "unknown"] \in Row
    BY <1>0, TableRow DEF Row
  <2>2. IsTable(rows')
    BY <1>12, <1>0, <2>1 DEF UnretireSource, IsTable
  <2> QED BY <1>12, <2>2 DEF TypeOK, UnretireSource
<1>13. CASE Tick
  BY <1>13 DEF TypeOK, Tick
<1>14. CASE UNCHANGED vars
  BY <1>14 DEF TypeOK, vars
<1> QED BY <1>1, <1>2, <1>3, <1>4, <1>5, <1>6, <1>7, <1>8, <1>9, <1>10, <1>11, <1>12,
           <1>13, <1>14 DEF Next, AtBound

\* The tables, the loop's snapshots and the operators' forms are well typed in
\* every reachable state.
THEOREM TypeCorrect == Spec => []TypeOK
BY InitType, NextType, PTL DEF Spec
-----------------------------------------------------------------------------
(***************************************************************************)
(* Retirement and the evidence basis.                                      *)
(***************************************************************************)

\* What the upsert leaves of a row, and what its expiry leaves of that.
LEMMA UpsertedWork ==
  ASSUME NEW t, IsTable(t), NEW fired, IsFiring(fired), NEW g \in Nat, NEW ret, NEW time,
         NEW k, k \in DOMAIN t \/ k \in DOMAIN fired
  PROVE  LET u == Upserted(t, fired, g, ret)[k]
             x == ExpireRow(u, time)
         IN  /\ k \in DOMAIN fired => x.basis = BasisOf(k, ret) /\ x.lastSeen = g
             /\ k \notin DOMAIN fired => x.basis = t[k].basis /\ x.lastSeen = t[k].lastSeen
             /\ k \notin DOMAIN t => x.work = "new" /\ x.expires = 0
             /\ k \in DOMAIN t => \/ x.work = t[k].work /\ x.expires = t[k].expires
                                  \/ x.work = "new" /\ x.expires = 0
<1> DEFINE u == Upserted(t, fired, g, ret)[k]
<1>1. u \in Row
  <2>1. IsTable(Upserted(t, fired, g, ret))
    BY UpsertedTable
  <2>2. k \in DOMAIN Upserted(t, fired, g, ret)
    BY DEF Upserted
  <2> QED BY <2>1, <2>2, TableRow
<1>2. /\ k \in DOMAIN fired => u.basis = BasisOf(k, ret) /\ u.lastSeen = g
      /\ k \notin DOMAIN fired => u = t[k]
      /\ k \notin DOMAIN t => u.work = "new" /\ u.expires = 0
      /\ k \in DOMAIN t => u.work = t[k].work /\ u.expires = t[k].expires
  <2>1. CASE k \notin DOMAIN fired
    BY <2>1 DEF Upserted
  <2>2. CASE k \in DOMAIN fired /\ k \notin DOMAIN t
    <3>1. u = FreshRow(k, fired[k], g, ret)
      BY <2>2 DEF Upserted
    <3> QED BY <2>2, <3>1 DEF FreshRow
  <2>3. CASE k \in DOMAIN fired /\ k \in DOMAIN t
    <3>1. u = Refire(t[k], k, fired[k], g, ret)
      BY <2>3 DEF Upserted
    <3>2. t[k] \in Row
      BY <2>3, TableRow
    <3> QED BY <2>3, <3>1, <3>2 DEF Refire, Row
  <2> QED BY <2>1, <2>2, <2>3
<1> HIDE DEF u
<1>3. LET x == ExpireRow(u, time)
      IN  /\ x.basis = u.basis /\ x.lastSeen = u.lastSeen
          /\ \/ x.work = u.work /\ x.expires = u.expires
             \/ x.work = "new" /\ x.expires = 0
  <2>1. CASE TtlExpired(u, time)
    <3>1. ExpireRow(u, time) =
            [u EXCEPT !.work = "new",
                      !.acked = IF u.work = "acknowledged" THEN FALSE ELSE u.acked,
                      !.expires = 0]
      BY <2>1 DEF ExpireRow
    <3> QED BY <1>1, <3>1 DEF Row
  <2>2. CASE ~TtlExpired(u, time)
    BY <2>2 DEF ExpireRow
  <2> QED BY <2>1, <2>2
<1>4. k \notin DOMAIN t => ExpireRow(u, time).work = "new" /\ ExpireRow(u, time).expires = 0
  BY <1>2, <1>3
<1> QED BY <1>2, <1>3, <1>4 DEF u

\* The same of a whole pass, in the terms of OperatorWork.
LEMMA PassColumns ==
  ASSUME TypeOK, NEW fired \in Firings, UpdateWarningState(fired), NEW k \in DOMAIN rows'
  PROVE  /\ k \in Keys
         /\ k \in DOMAIN rows \/ k \in DOMAIN fired
         /\ k \in DOMAIN fired => rows'[k].basis = BasisOf(k, retired) /\ rows'[k].lastSeen = gen
         /\ k \notin DOMAIN fired =>
              rows'[k].basis = rows[k].basis /\ rows'[k].lastSeen = rows[k].lastSeen
         /\ k \notin DOMAIN rows => rows'[k].work = "new" /\ rows'[k].expires = 0
         /\ k \in DOMAIN rows => \/ rows'[k].work = rows[k].work /\ rows'[k].expires = rows[k].expires
                                 \/ rows'[k].work = "new" /\ rows'[k].expires = 0
<1>1. IsTable(rows) /\ gen \in Nat
  BY DEF TypeOK
<1>2. IsFiring(fired)
  BY FiringsType
<1> DEFINE x == ExpireRow(Upserted(rows, fired, gen, retired)[k], now)
<1>3. /\ k \in Keys
      /\ k \in DOMAIN rows \/ k \in DOMAIN fired
      /\ SameWork(rows'[k], x)
  BY PassWork
<1>4. /\ k \in DOMAIN fired => x.basis = BasisOf(k, retired) /\ x.lastSeen = gen
      /\ k \notin DOMAIN fired => x.basis = rows[k].basis /\ x.lastSeen = rows[k].lastSeen
      /\ k \notin DOMAIN rows => x.work = "new" /\ x.expires = 0
      /\ k \in DOMAIN rows => \/ x.work = rows[k].work /\ x.expires = rows[k].expires
                              \/ x.work = "new" /\ x.expires = 0
  BY <1>1, <1>2, <1>3, UpsertedWork
<1> HIDE DEF x
<1> QED BY <1>3, <1>4 DEF SameWork

\* A commit of either process keeps basis and retirements in agreement.
LEMMA NextBasis == TypeOK /\ RetiredBasisAgrees /\ [Next]_vars => RetiredBasisAgrees'
<1> SUFFICES ASSUME TypeOK, RetiredBasisAgrees, [Next]_vars,
                    NEW k \in DOMAIN rows'
             PROVE  rows'[k].basis = "retired" <=> SourceOf[k] \in retired'
  BY DEF RetiredBasisAgrees
<1>0. IsTable(rows)
  BY DEF TypeOK
<1>1. CASE k \in DOMAIN rows /\ rows'[k].basis = rows[k].basis /\ retired' = retired
  BY <1>1 DEF RetiredBasisAgrees
<1>2. ASSUME NEW fired \in Firings, UpdateWarningState(fired)
      PROVE  rows'[k].basis = "retired" <=> SourceOf[k] \in retired'
  <2>1. retired' = retired
    BY <1>2 DEF UpdateWarningState
  <2>2. CASE k \in DOMAIN fired
    <3>1. rows'[k].basis = BasisOf(k, retired)
      BY <1>2, <2>2, PassColumns
    <3>2. None \notin retired
      BY ConstantsAssumption DEF TypeOK
    <3> QED BY <2>1, <3>1, <3>2 DEF BasisOf
  <2>3. CASE k \notin DOMAIN fired
    <3>1. k \in DOMAIN rows /\ rows'[k].basis = rows[k].basis
      BY <1>2, <2>3, PassColumns
    <3> QED BY <1>1, <2>1, <3>1
  <2> QED BY <2>2, <2>3
<1>3. ASSUME NEW p \in rollup, NEW outcome \in {"both", "row", "none"},
             MarkNotified(p, outcome)
      PROVE  rows'[k].basis = "retired" <=> SourceOf[k] \in retired'
  <2>1. k \in DOMAIN rows /\ rows'[k].basis = rows[k].basis /\ retired' = retired
    <3>1. retired' = retired /\ (rows' = rows \/ rows' = [rows EXCEPT ![p.key].notified = p.sev])
      BY <1>3 DEF MarkNotified
    <3>2. CASE rows' = rows BY <3>1, <3>2
    <3>3. CASE rows' = [rows EXCEPT ![p.key].notified = p.sev]
      <4>1. k \in DOMAIN rows /\ rows[k] \in Row
        BY <1>0, <3>3, TableRow
      <4> QED BY <3>1, <3>3, <4>1 DEF Row
    <3> QED BY <3>1, <3>2, <3>3
  <2> QED BY <1>1, <2>1
<1>4. ASSUME NEW f \in form, NEW a \in DOMAIN TargetWorkState, NEW ttl \in Ttls \cup {0},
             TransitionFinding(f, a, ttl)
      PROVE  rows'[k].basis = "retired" <=> SourceOf[k] \in retired'
  <2>1. k \in DOMAIN rows /\ rows[k] \in Row
    BY <1>4, <1>0, TableRow DEF TransitionFinding
  <2>2. rows'[k].basis = rows[k].basis /\ retired' = retired
    BY <1>4, <2>1 DEF TransitionFinding, Row
  <2> QED BY <1>1, <2>1, <2>2
<1>5. ASSUME NEW s \in Sources, RetireSource(s)
      PROVE  rows'[k].basis = "retired" <=> SourceOf[k] \in retired'
  <2>1. k \in DOMAIN rows /\ rows[k] \in Row
    BY <1>5, <1>0, TableRow DEF RetireSource
  <2>2. rows'[k].basis = IF SourceOf[k] = s THEN "retired" ELSE rows[k].basis
    BY <1>5, <2>1 DEF RetireSource, Row
  <2>3. retired' = retired \cup {s}
    BY <1>5 DEF RetireSource
  <2> QED BY <2>1, <2>2, <2>3 DEF RetiredBasisAgrees
<1>6. ASSUME NEW s \in Sources, UnretireSource(s)
      PROVE  rows'[k].basis = "retired" <=> SourceOf[k] \in retired'
  <2>1. k \in DOMAIN rows /\ rows[k] \in Row
    BY <1>6, <1>0, TableRow DEF UnretireSource
  <2>2. rows'[k].basis = IF SourceOf[k] = s /\ rows[k].basis = "retired"
                         THEN "unknown" ELSE rows[k].basis
    BY <1>6, <2>1 DEF UnretireSource, Row
  <2>3. retired' = retired \ {s} /\ s \in retired
    BY <1>6 DEF UnretireSource
  <2> QED BY <2>1, <2>2, <2>3 DEF RetiredBasisAgrees
<1>7. CASE rows' = rows /\ retired' = retired
  BY <1>1, <1>7
<1> QED BY <1>2, <1>3, <1>4, <1>5, <1>6, <1>7
        DEF Next, vars, AtBound, Publish, LoseUpdate, FindPending, SendRollup, EndCycle,
            Crash, Review, Tick

\* The basis of every row and the list of retired sources agree at every commit
\* (publish.rs reads the list inside the lifecycle transaction;
\* source_retirement.rs rewrites the rows inside its own).
THEOREM RetirementSticks == Spec => []RetiredBasisAgrees
<1>1. Init => RetiredBasisAgrees
  BY DEF Init, RetiredBasisAgrees
<1> QED BY <1>1, NextBasis, TypeCorrect, PTL DEF Spec
-----------------------------------------------------------------------------
(***************************************************************************)
(* Expiry dates, pauses and reviews.                                       *)
(***************************************************************************)

\* A step that is neither a pass nor an action leaves the work columns alone.
LEMMA QuietSteps ==
  ASSUME TypeOK, [Next]_vars, NEW k \in DOMAIN rows',
         ~\E fired \in Firings : UpdateWarningState(fired),
         ~\E f \in form, a \in DOMAIN TargetWorkState, ttl \in Ttls \cup {0} :
            TransitionFinding(f, a, ttl)
  PROVE  /\ k \in DOMAIN rows
         /\ DOMAIN rows' = DOMAIN rows
         /\ rows'[k].work = rows[k].work
         /\ rows'[k].expires = rows[k].expires
         /\ rows'[k].lastSeen = rows[k].lastSeen
<1> DEFINE Goal == /\ k \in DOMAIN rows
                   /\ DOMAIN rows' = DOMAIN rows
                   /\ rows'[k].work = rows[k].work
                   /\ rows'[k].expires = rows[k].expires
                   /\ rows'[k].lastSeen = rows[k].lastSeen
<1>0. IsTable(rows)
  BY DEF TypeOK
<1>1. CASE rows' = rows
  BY <1>1
<1>2. ASSUME NEW p \in rollup, NEW outcome \in {"both", "row", "none"},
             MarkNotified(p, outcome)
      PROVE  Goal
  <2>1. CASE rows' = [rows EXCEPT ![p.key].notified = p.sev]
    <3>1. k \in DOMAIN rows /\ rows[k] \in Row
      BY <1>0, <2>1, TableRow
    <3> QED BY <2>1, <3>1 DEF Row
  <2> QED BY <1>1, <1>2, <2>1 DEF MarkNotified
<1>3. ASSUME NEW s \in Sources, RetireSource(s)
      PROVE  Goal
  <2>1. k \in DOMAIN rows /\ rows[k] \in Row /\ DOMAIN rows' = DOMAIN rows
    BY <1>3, <1>0, TableRow DEF RetireSource
  <2> QED BY <1>3, <2>1 DEF RetireSource, Row
<1>4. ASSUME NEW s \in Sources, UnretireSource(s)
      PROVE  Goal
  <2>1. k \in DOMAIN rows /\ rows[k] \in Row /\ DOMAIN rows' = DOMAIN rows
    BY <1>4, <1>0, TableRow DEF UnretireSource
  <2> QED BY <1>4, <2>1 DEF UnretireSource, Row
<1> QED BY <1>1, <1>2, <1>3, <1>4
        DEF Next, vars, AtBound, Publish, LoseUpdate, FindPending, SendRollup, EndCycle,
            Crash, Review, Tick

\* What an accepted action writes.
LEMMA ActionColumns ==
  ASSUME TypeOK, NEW f \in form, NEW a \in DOMAIN TargetWorkState, NEW ttl \in Ttls \cup {0},
         TransitionFinding(f, a, ttl), NEW k \in DOMAIN rows'
  PROVE  /\ k \in DOMAIN rows
         /\ rows'[k].lastSeen = rows[k].lastSeen
         /\ k # f.key => rows'[k] = rows[k]
         /\ k = f.key => /\ rows'[k].work = TargetWorkState[a]
                         /\ rows'[k].expires = ExpiresAt(rows[k], ttl)
<1>1. IsTable(rows)
  BY DEF TypeOK
<1>2. k \in DOMAIN rows /\ rows[k] \in Row
  BY <1>1, TableRow DEF TransitionFinding
<1> QED BY <1>2 DEF TransitionFinding, Row

\* Every step leaves expiry dates only where a pass honours them.
LEMMA NextExpiry == TypeOK /\ ExpiryIsHonoured /\ [Next]_vars => ExpiryIsHonoured'
<1> SUFFICES ASSUME TypeOK, ExpiryIsHonoured, [Next]_vars,
                    NEW k \in DOMAIN rows', rows'[k].expires # 0
             PROVE  rows'[k].work \in {"acknowledged", "quiesced", "suppressed"}
  BY DEF ExpiryIsHonoured
<1>1. CASE /\ k \in DOMAIN rows
           /\ rows'[k].work = rows[k].work
           /\ rows'[k].expires = rows[k].expires
  BY <1>1 DEF ExpiryIsHonoured
<1>2. ASSUME NEW fired \in Firings, UpdateWarningState(fired)
      PROVE  rows'[k].work \in {"acknowledged", "quiesced", "suppressed"}
  BY <1>1, <1>2, PassColumns
<1>3. ASSUME NEW f \in form, NEW a \in DOMAIN TargetWorkState, NEW ttl \in Ttls \cup {0},
             TransitionFinding(f, a, ttl)
      PROVE  rows'[k].work \in {"acknowledged", "quiesced", "suppressed"}
  <2>1. CASE k # f.key
    BY <1>1, <1>3, <2>1, ActionColumns
  <2>2. CASE k = f.key
    <3>1. rows'[k].work = TargetWorkState[a] /\ rows'[k].expires = ExpiresAt(rows[k], ttl)
      BY <1>3, <2>2, ActionColumns
    <3>2. ttl # 0
      BY <3>1 DEF ExpiresAt
    <3>3. a \in {"acknowledge", "quiesce", "suppress"}
      BY <1>3, <3>2 DEF TransitionFinding, ValidTtl
    <3> QED BY <3>1, <3>3 DEF TargetWorkState
  <2> QED BY <2>1, <2>2
<1> QED BY <1>1, <1>2, <1>3, QuietSteps

\* No pause is stranded with a date nobody honours (transition_finding_action,
\* expiration_at and the TTL stage of update_warning_state_inner).
THEOREM ExpiryDatesHonoured == Spec => []ExpiryIsHonoured
<1>1. Init => ExpiryIsHonoured
  BY DEF Init, ExpiryIsHonoured
<1> QED BY <1>1, NextExpiry, TypeCorrect, PTL DEF Spec

\* What the loop is about to send is not paused: the handlers wait for its mutex.
PendingUnpaused ==
  phase \in {"notifying", "marking"} =>
    \A p \in pending : p.key \in DOMAIN rows => rows[p.key].work \notin Paused

LEMMA NextUnpaused == TypeOK /\ PendingUnpaused /\ [Next]_vars => PendingUnpaused'
<1> SUFFICES ASSUME TypeOK, PendingUnpaused, [Next]_vars,
                    phase' \in {"notifying", "marking"},
                    NEW p \in pending', p.key \in DOMAIN rows'
             PROVE  rows'[p.key].work \notin Paused
  BY DEF PendingUnpaused
<1>1. ASSUME NEW fired \in Firings, UpdateWarningState(fired)
      PROVE  FALSE
  BY <1>1 DEF UpdateWarningState
<1>2. ASSUME NEW f \in form, NEW a \in DOMAIN TargetWorkState, NEW ttl \in Ttls \cup {0},
             TransitionFinding(f, a, ttl)
      PROVE  FALSE
  BY <1>2 DEF TransitionFinding, WriteDbFree
<1>3. p.key \in DOMAIN rows /\ rows'[p.key].work = rows[p.key].work
  BY <1>1, <1>2, QuietSteps
<1>4. CASE FindPending
  BY <1>3, <1>4 DEF FindPending, Eligible
<1>5. CASE phase \in {"notifying", "marking"} /\ p \in pending
  BY <1>3, <1>5 DEF PendingUnpaused
<1> QED BY <1>1, <1>2, <1>4, <1>5
        DEF Next, vars, AtBound, Publish, LoseUpdate, SendRollup, EndCycle, Crash, Review,
            MarkNotified, RetireSource, UnretireSource, Tick

\* A pause and a page cannot cross (send_notifications runs under the mutex that
\* api_finding_action takes).
THEOREM PauseStopsPages == Spec => NoPageForPaused
<1> DEFINE A == \A p \in Sent : p.key \in DOMAIN rows => rows[p.key].work \notin Paused
<1>1. Init => PendingUnpaused
  BY DEF Init, PendingUnpaused
<1>2. TypeOK /\ PendingUnpaused /\ [Next]_vars => [A]_vars
  <2> SUFFICES ASSUME TypeOK, PendingUnpaused, Next, NEW p \in Sent, p.key \in DOMAIN rows
               PROVE  rows[p.key].work \notin Paused
    OBVIOUS
  <2>1. phase = "notifying" /\ phase' = "marking" /\ p \in rollup'
    BY DEF Sent
  <2>2. \E r \in Rollups : SendRollup(r)
    BY <2>1 DEF Next, AtBound, vars, Publish, UpdateWarningState, LoseUpdate, FindPending,
         MarkNotified, EndCycle, Crash, Review, TransitionFinding, RetireSource,
         UnretireSource, Tick
  <2>3. p \in pending
    BY <2>1, <2>2, RollupPending DEF SendRollup
  <2> QED BY <2>1, <2>3 DEF PendingUnpaused
<1> QED BY <1>1, <1>2, NextUnpaused, TypeCorrect, PTL DEF Spec, NoPageForPaused
-----------------------------------------------------------------------------
(***************************************************************************)
(* Actions land on the reviewed row.                                       *)
(***************************************************************************)

\* A row is not older than its insertion nor newer than the latest generation,
\* and nothing in the table carries a generation whose pass is still to come.
RowAges ==
  \A k \in DOMAIN rows :
    /\ born[k] <= rows[k].lastSeen
    /\ rows[k].lastSeen <= gen
    /\ phase = "published" => rows[k].lastSeen < gen

\* A form describes the row that is there, or one older than it.
FormAges ==
  \A f \in form :
    /\ f.gen <= gen
    /\ phase = "published" => f.gen < gen
    /\ f.key \in DOMAIN rows => born[f.key] = f.born \/ f.gen < born[f.key]

Ages == RowAges /\ FormAges

LEMMA NextRowAges == TypeOK /\ Ages /\ [Next]_vars => RowAges'
<1> SUFFICES ASSUME TypeOK, Ages, [Next]_vars, NEW k \in DOMAIN rows'
             PROVE  /\ born'[k] <= rows'[k].lastSeen
                    /\ rows'[k].lastSeen <= gen'
                    /\ phase' = "published" => rows'[k].lastSeen < gen'
  BY DEF RowAges
<1>0. IsTable(rows) /\ gen \in Nat /\ born \in [Keys -> Nat]
  BY DEF TypeOK
<1>1. CASE \E fired \in Firings : UpdateWarningState(fired)
  <2> PICK fired \in Firings : UpdateWarningState(fired)
    BY <1>1
  <2>1. gen' = gen /\ phase' = "updated" /\ phase = "published"
    BY DEF UpdateWarningState
  <2>2. k \in Keys
    BY PassColumns
  <2>3. born'[k] = IF k \in DOMAIN rows' \ DOMAIN rows THEN gen ELSE born[k]
    BY <2>2 DEF UpdateWarningState
  <2>4. CASE k \in DOMAIN fired
    <3>1. rows'[k].lastSeen = gen
      BY <2>4, PassColumns
    <3>2. CASE k \in DOMAIN rows
      <4>1. rows[k].lastSeen \in Nat /\ born[k] \in Nat
        BY <1>0, <2>2, <3>2, TableRow DEF Row
      <4> QED BY <1>0, <2>1, <2>3, <3>1, <3>2, <4>1 DEF Ages, RowAges
    <3>3. CASE k \notin DOMAIN rows
      BY <1>0, <2>1, <2>3, <3>1, <3>3
    <3> QED BY <3>2, <3>3
  <2>5. CASE k \notin DOMAIN fired
    <3>1. k \in DOMAIN rows /\ rows'[k].lastSeen = rows[k].lastSeen
      BY <2>5, PassColumns
    <3> QED BY <2>1, <2>3, <3>1 DEF Ages, RowAges
  <2> QED BY <2>4, <2>5
<1>2. CASE ~\E fired \in Firings : UpdateWarningState(fired)
  <2>1. k \in DOMAIN rows /\ rows'[k].lastSeen = rows[k].lastSeen
    <3>1. CASE \E f \in form, a \in DOMAIN TargetWorkState, ttl \in Ttls \cup {0} :
                 TransitionFinding(f, a, ttl)
      BY <3>1, ActionColumns
    <3> QED BY <1>2, <3>1, QuietSteps
  <2>2. born' = born
    BY <1>2 DEF Next, AtBound, vars, Publish, LoseUpdate, FindPending, SendRollup,
         MarkNotified, EndCycle, Crash, Review, TransitionFinding, RetireSource,
         UnretireSource, Tick
  <2>3. rows[k].lastSeen \in Nat
    BY <1>0, <2>1, TableRow DEF Row
  <2>4. \/ gen' = gen + 1
        \/ gen' = gen /\ (phase' = "published" => phase = "published")
    BY <1>2 DEF Next, AtBound, vars, Publish, LoseUpdate, FindPending, SendRollup,
         MarkNotified, EndCycle, Crash, Review, TransitionFinding, RetireSource,
         UnretireSource, Tick
  <2> QED BY <1>0, <2>1, <2>2, <2>3, <2>4 DEF Ages, RowAges
<1> QED BY <1>1, <1>2

LEMMA NextFormAges == TypeOK /\ Ages /\ [Next]_vars => FormAges'
<1> SUFFICES ASSUME TypeOK, Ages, [Next]_vars, NEW f \in form'
             PROVE  /\ f.gen <= gen'
                    /\ phase' = "published" => f.gen < gen'
                    /\ f.key \in DOMAIN rows' => born'[f.key] = f.born \/ f.gen < born'[f.key]
  BY DEF FormAges
<1>0. IsTable(rows) /\ gen \in Nat /\ born \in [Keys -> Nat] /\ form \subseteq Forms
  BY DEF TypeOK
<1>1. CASE \E fired \in Firings : UpdateWarningState(fired)
  <2> PICK fired \in Firings : UpdateWarningState(fired)
    BY <1>1
  <2>1. gen' = gen /\ phase' = "updated" /\ phase = "published" /\ form' = form
    BY DEF UpdateWarningState
  <2>2. f.gen \in Nat /\ f.gen < gen
    BY <1>0, <2>1 DEF Ages, FormAges, Forms
  <2>3. ASSUME f.key \in DOMAIN rows'
        PROVE  born'[f.key] = f.born \/ f.gen < born'[f.key]
    <3>1. f.key \in Keys
      BY <2>3, PassColumns
    <3>2. born'[f.key] = IF f.key \in DOMAIN rows' \ DOMAIN rows THEN gen ELSE born[f.key]
      BY <3>1 DEF UpdateWarningState
    <3> QED BY <2>1, <2>2, <2>3, <3>2 DEF Ages, FormAges
  <2> QED BY <1>0, <2>1, <2>2, <2>3
<1>2. CASE \E k \in Keys : Review(k)
  <2> PICK k \in Keys : Review(k)
    BY <1>2
  <2>1. f = [key |-> k, work |-> rows[k].work, gen |-> rows[k].lastSeen, born |-> born[k]]
    BY DEF Review
  <2>2. k \in DOMAIN rows /\ UNCHANGED <<gen, phase, rows, born>>
    BY DEF Review
  <2> QED BY <2>1, <2>2 DEF Ages, RowAges
<1>3. CASE form' = {}
  BY <1>3
<1>4. CASE /\ form' = form
           /\ ~\E fired \in Firings : UpdateWarningState(fired)
  <2>1. born' = born /\ DOMAIN rows' = DOMAIN rows
    BY <1>4 DEF Next, AtBound, vars, Publish, LoseUpdate, FindPending, SendRollup,
         MarkNotified, EndCycle, Crash, Review, TransitionFinding, RetireSource,
         UnretireSource, Tick
  <2>2. \/ gen' = gen + 1
        \/ gen' = gen /\ (phase' = "published" => phase = "published")
    BY <1>4 DEF Next, AtBound, vars, Publish, LoseUpdate, FindPending, SendRollup,
         MarkNotified, EndCycle, Crash, Review, TransitionFinding, RetireSource,
         UnretireSource, Tick
  <2>3. f.gen \in Nat
    BY <1>0, <1>4 DEF Forms
  <2> QED BY <1>0, <1>4, <2>1, <2>2, <2>3 DEF Ages, FormAges
<1> QED BY <1>1, <1>2, <1>3, <1>4
        DEF Next, AtBound, vars, Publish, LoseUpdate, FindPending, SendRollup,
            MarkNotified, EndCycle, Crash, TransitionFinding, RetireSource,
            UnretireSource, Tick

\* An action lands on the row the operator reviewed (resolve_and_validate
\* compares work state and last_seen_gen).  The argument: a row re-created after
\* the review was born in a later generation than the one the form carries.
THEOREM ReviewedRowOnly == Spec => ActsOnReviewedRow
<1> DEFINE A == \A k \in DOMAIN rows \cap DOMAIN rows' :
                  phase = "idle" /\ rows'[k].work # rows[k].work =>
                    \E f \in form : f.key = k /\ f.born = born[k]
<1>1. Init => Ages
  BY DEF Init, Ages, RowAges, FormAges
<1>2. TypeOK /\ Ages /\ [Next]_vars => Ages'
  BY NextRowAges, NextFormAges DEF Ages
<1>3. TypeOK /\ Ages /\ [Next]_vars => [A]_vars
  <2> SUFFICES ASSUME TypeOK, Ages, [Next]_vars, NEW k \in DOMAIN rows, k \in DOMAIN rows',
                      phase = "idle", rows'[k].work # rows[k].work
               PROVE  \E f \in form : f.key = k /\ f.born = born[k]
    OBVIOUS
  <2>1. ASSUME NEW fired \in Firings, UpdateWarningState(fired)
        PROVE  FALSE
    BY <2>1 DEF UpdateWarningState
  <2>2. PICK f \in form, a \in DOMAIN TargetWorkState, ttl \in Ttls \cup {0} :
          TransitionFinding(f, a, ttl)
    BY <2>1, QuietSteps
  <2>3. k = f.key
    BY <2>2, ActionColumns
  <2>4. rows[k].lastSeen = f.gen
    BY <2>2, <2>3 DEF TransitionFinding, Actionable
  <2>5. f.gen \in Nat /\ born[k] \in Nat
    BY <2>3 DEF TypeOK, Forms
  <2> QED BY <2>3, <2>4, <2>5 DEF Ages, RowAges, FormAges
<1> QED BY <1>1, <1>2, <1>3, TypeCorrect, PTL DEF Spec, ActsOnReviewedRow
-----------------------------------------------------------------------------
(***************************************************************************)
(* Pages climb.                                                            *)
(***************************************************************************)

\* Nothing is being marked outside the marking phase; an identity stands once
\* in what is pending or being marked.
OnePagePerKey ==
  /\ phase # "marking" => rollup = {}
  /\ \A p \in pending : p \notin rollup
  /\ \A p \in pending \cup rollup, q \in pending \cup rollup : p.key = q.key => p = q

\* The page being marked is the latest page of its identity.
RollupSent ==
  \A p \in rollup : p.key \in DOMAIN lastPage /\ lastPage[p.key].sev = p.sev

\* No page is from the future, and the durable history knows every marked one.
PagesPast == \A k \in DOMAIN lastPage : lastPage[k].at <= now

HistoryKnows ==
  \A k \in DOMAIN lastPage :
    lastPage[k].marked =>
      /\ k \in DOMAIN history
      /\ history[k].sev = lastPage[k].sev
      /\ lastPage[k].at <= history[k].at

\* What is pending outranks the last marked page, or the cooldown has passed.
PendingClimbs ==
  phase \in {"notifying", "marking"} =>
    \A p \in pending :
      p.key \in DOMAIN lastPage /\ lastPage[p.key].marked
        /\ now - lastPage[p.key].at < Cooldown
      => Rank[p.sev] > Rank[lastPage[p.key].sev]

PageInv == OnePagePerKey /\ RollupSent /\ PagesPast /\ HistoryKnows /\ PendingClimbs

\* Steps that leave the pages alone; the clock and the phase may move on.
LEMMA PagesIdle ==
  ASSUME TypeOK, PageInv, UNCHANGED <<pending, rollup, lastPage, history>>,
         now' \in Nat, now <= now',
         phase' = phase \/ (phase # "marking" /\ phase' \in {"idle", "published", "updated"})
  PROVE  PageInv'
<1>1. OnePagePerKey' /\ RollupSent' /\ HistoryKnows'
  BY DEF PageInv, OnePagePerKey, RollupSent, HistoryKnows
<1>2. PendingClimbs'
  <2> SUFFICES ASSUME phase' \in {"notifying", "marking"}, NEW p \in pending,
                      p.key \in DOMAIN lastPage, lastPage[p.key].marked,
                      now' - lastPage[p.key].at < Cooldown
               PROVE  Rank[p.sev] > Rank[lastPage[p.key].sev]
    BY DEF PendingClimbs
  <2>1. lastPage[p.key].at \in Nat /\ now \in Nat
    BY DEF TypeOK
  <2>2. now - lastPage[p.key].at < Cooldown
    BY <2>1, OperatorAssumption
  <2> QED BY <2>2 DEF PageInv, PendingClimbs
<1>3. PagesPast'
  BY DEF PageInv, PagesPast, TypeOK
<1> QED BY <1>1, <1>2, <1>3 DEF PageInv

LEMMA NextPages == TypeOK /\ PageInv /\ [Next]_vars => PageInv'
<1> SUFFICES ASSUME TypeOK, PageInv, [Next]_vars PROVE PageInv'
  OBVIOUS
<1>0. now \in Nat /\ IsTable(rows)
  BY DEF TypeOK
<1>1. CASE FindPending
  <2>1. phase = "updated" /\ phase' = "notifying" /\ UNCHANGED <<now, rollup, lastPage, history>>
    BY <1>1 DEF FindPending
  <2>2. rollup = {}
    BY <2>1 DEF PageInv, OnePagePerKey
  <2>3. \A p \in pending' : \E k \in DOMAIN rows :
          Eligible(k) /\ p = [key |-> k, sev |-> rows[k].sev]
    BY <1>1 DEF FindPending
  <2>4. OnePagePerKey'
    BY <2>1, <2>2, <2>3 DEF OnePagePerKey
  <2>5. RollupSent' /\ HistoryKnows'
    BY <2>1 DEF PageInv, RollupSent, HistoryKnows
  <2>6. PendingClimbs'
    <3> SUFFICES ASSUME NEW p \in pending', p.key \in DOMAIN lastPage, lastPage[p.key].marked,
                        now - lastPage[p.key].at < Cooldown
                 PROVE  Rank[p.sev] > Rank[lastPage[p.key].sev]
      BY <2>1 DEF PendingClimbs
    <3>1. PICK k \in DOMAIN rows : Eligible(k) /\ p = [key |-> k, sev |-> rows[k].sev]
      BY <2>3
    <3>2. /\ k \in DOMAIN history
          /\ history[k].sev = lastPage[k].sev
          /\ lastPage[k].at <= history[k].at
      BY <3>1 DEF PageInv, HistoryKnows
    <3>3. history[k].at \in Nat /\ lastPage[k].at \in Nat
      BY <3>1, <3>2 DEF TypeOK
    <3>4. \/ Rank[rows[k].sev] > Rank[history[k].sev]
          \/ now - history[k].at >= Cooldown
      BY <3>1, <3>2 DEF Eligible, Announced
    <3>5. ~(now - history[k].at >= Cooldown)
      BY <1>0, <3>1, <3>2, <3>3, OperatorAssumption
    <3> QED BY <3>1, <3>2, <3>4, <3>5
  <2>7. PagesPast'
    BY <2>1 DEF PageInv, PagesPast
  <2> QED BY <2>4, <2>5, <2>6, <2>7 DEF PageInv
<1>2. ASSUME NEW r \in Rollups, SendRollup(r)
      PROVE  PageInv'
  <2>1. /\ phase = "notifying" /\ phase' = "marking"
        /\ rollup' = r /\ pending' = pending \ r
        /\ UNCHANGED <<now, history>>
    BY <1>2 DEF SendRollup
  <2>2. r \subseteq pending
    BY RollupPending
  <2>3. OnePagePerKey'
    BY <2>1, <2>2 DEF PageInv, OnePagePerKey
  <2>4. ASSUME NEW p \in r
        PROVE  /\ p.key \in DOMAIN lastPage'
               /\ lastPage'[p.key].at = now
               /\ lastPage'[p.key].sev = p.sev
               /\ lastPage'[p.key].marked = FALSE
    <3>1. (CHOOSE q \in r : q.key = p.key) = p
      BY <2>2 DEF PageInv, OnePagePerKey
    <3>2. /\ p.key \in DOMAIN lastPage'
          /\ lastPage'[p.key] = [at |-> now, sev |-> p.sev, marked |-> FALSE]
      BY <1>2, <3>1 DEF SendRollup
    <3> QED BY <3>2
  <2>5. ASSUME NEW k \in DOMAIN lastPage', ~\E p \in r : p.key = k
        PROVE  k \in DOMAIN lastPage /\ lastPage'[k] = lastPage[k]
    BY <1>2, <2>5 DEF SendRollup
  <2>6. RollupSent'
    BY <2>1, <2>4 DEF RollupSent
  <2>7. HistoryKnows'
    <3> SUFFICES ASSUME NEW k \in DOMAIN lastPage', lastPage'[k].marked
                 PROVE  /\ k \in DOMAIN history
                        /\ history[k].sev = lastPage'[k].sev
                        /\ lastPage'[k].at <= history[k].at
      BY <2>1 DEF HistoryKnows
    <3>1. ~\E p \in r : p.key = k
      BY <2>4
    <3> QED BY <2>5, <3>1 DEF PageInv, HistoryKnows
  <2>8. PendingClimbs'
    <3> SUFFICES ASSUME NEW p \in pending', p.key \in DOMAIN lastPage', lastPage'[p.key].marked,
                        now - lastPage'[p.key].at < Cooldown
                 PROVE  Rank[p.sev] > Rank[lastPage'[p.key].sev]
      BY <2>1 DEF PendingClimbs
    <3>1. p \in pending /\ p \notin r
      BY <2>1
    <3>2. ~\E q \in r : q.key = p.key
      BY <2>2, <3>1 DEF PageInv, OnePagePerKey
    <3> QED BY <2>1, <2>5, <3>1, <3>2 DEF PageInv, PendingClimbs
  <2>9. PagesPast'
    <3> SUFFICES ASSUME NEW k \in DOMAIN lastPage'
                 PROVE  lastPage'[k].at <= now
      BY <2>1 DEF PagesPast
    <3>1. CASE \E p \in r : p.key = k
      <4> PICK p \in r : p.key = k
        BY <3>1
      <4>1. lastPage'[p.key].at = now
        BY <2>4
      <4>2. lastPage'[k].at = now
        BY <4>1
      <4> QED BY <1>0, <4>2
    <3>2. CASE ~\E p \in r : p.key = k
      BY <2>5, <3>2 DEF PageInv, PagesPast
    <3> QED BY <3>1, <3>2
  <2> QED BY <2>3, <2>6, <2>7, <2>8, <2>9 DEF PageInv
<1>3. ASSUME NEW p \in rollup, NEW outcome \in {"both", "row", "none"},
             MarkNotified(p, outcome)
      PROVE  PageInv'
  <2>1. /\ phase = "marking"
        /\ phase' = (IF rollup' = {} THEN "notifying" ELSE "marking")
        /\ rollup' = rollup \ {p}
        /\ UNCHANGED <<now, pending>>
        /\ lastPage' = [lastPage EXCEPT ![p.key].marked = (outcome = "both")]
    BY <1>3 DEF MarkNotified
  <2>2. p.key \in DOMAIN lastPage /\ lastPage[p.key].sev = p.sev
    BY DEF PageInv, RollupSent
  <2>3. /\ DOMAIN lastPage' = DOMAIN lastPage
        /\ \A k \in DOMAIN lastPage : k # p.key => lastPage'[k] = lastPage[k]
    BY <2>1
  <2>4. /\ lastPage'[p.key].sev = p.sev
        /\ lastPage'[p.key].at = lastPage[p.key].at
        /\ lastPage'[p.key].marked <=> outcome = "both"
    <3>1. lastPage[p.key] \in [at : Nat, sev : Severities, marked : BOOLEAN]
      BY <2>2 DEF TypeOK
    <3>2. lastPage'[p.key] = [lastPage[p.key] EXCEPT !.marked = (outcome = "both")]
      BY <2>1, <2>2
    <3> QED BY <2>2, <3>1, <3>2
  <2>5. OnePagePerKey'
    BY <2>1 DEF PageInv, OnePagePerKey
  <2>6. RollupSent'
    BY <2>1, <2>3, <2>4 DEF PageInv, RollupSent
  <2>7. HistoryKnows'
    <3> SUFFICES ASSUME NEW k \in DOMAIN lastPage, lastPage'[k].marked
                 PROVE  /\ k \in DOMAIN history'
                        /\ history'[k].sev = lastPage'[k].sev
                        /\ lastPage'[k].at <= history'[k].at
      BY <2>3 DEF HistoryKnows
    <3>1. CASE k = p.key
      <4>1. outcome = "both"
        BY <2>4, <3>1
      <4>2. k \in DOMAIN history' /\ history'[k] = [at |-> now, sev |-> p.sev]
        BY <1>3, <3>1, <4>1 DEF MarkNotified
      <4>3. lastPage[k].at <= now
        BY DEF PageInv, PagesPast
      <4> QED BY <2>4, <3>1, <4>2, <4>3
    <3>2. CASE k # p.key
      <4>1. k \in DOMAIN history /\ history[k].sev = lastPage[k].sev
              /\ lastPage[k].at <= history[k].at
        BY <2>3, <3>2 DEF PageInv, HistoryKnows
      <4>2. k \in DOMAIN history' /\ history'[k] = history[k]
        BY <1>3, <3>2, <4>1 DEF MarkNotified
      <4> QED BY <2>3, <3>2, <4>1, <4>2
    <3> QED BY <3>1, <3>2
  <2>8. PendingClimbs'
    <3> SUFFICES ASSUME NEW q \in pending, q.key \in DOMAIN lastPage, lastPage'[q.key].marked,
                        now - lastPage'[q.key].at < Cooldown
                 PROVE  Rank[q.sev] > Rank[lastPage'[q.key].sev]
      BY <2>1, <2>3 DEF PendingClimbs
    <3>1. q.key # p.key
      BY DEF PageInv, OnePagePerKey
    <3> QED BY <2>1, <2>3, <3>1 DEF PageInv, PendingClimbs
  <2>9. PagesPast'
    BY <2>1, <2>3, <2>4 DEF PageInv, PagesPast
  <2> QED BY <2>5, <2>6, <2>7, <2>8, <2>9 DEF PageInv
<1>4. CASE Crash
  BY <1>4 DEF Crash, PageInv, OnePagePerKey, RollupSent, PagesPast, HistoryKnows, PendingClimbs
<1>5. CASE /\ UNCHANGED <<pending, rollup, lastPage, history>>
           /\ now' \in Nat /\ now <= now'
           /\ \/ phase' = phase
              \/ phase # "marking" /\ phase' \in {"idle", "published", "updated"}
  BY <1>5, PagesIdle
<1>6. CASE Publish \/ LoseUpdate \/ EndCycle
  BY <1>0, <1>5, <1>6 DEF Publish, LoseUpdate, EndCycle
<1>7. CASE \E fired \in Firings : UpdateWarningState(fired)
  BY <1>0, <1>5, <1>7 DEF UpdateWarningState
<1>8. CASE \E f \in form, a \in DOMAIN TargetWorkState, ttl \in Ttls \cup {0} :
             TransitionFinding(f, a, ttl)
  BY <1>0, <1>5, <1>8 DEF TransitionFinding
<1>9. CASE \E k \in Keys : Review(k)
  BY <1>0, <1>5, <1>9 DEF Review
<1>10. CASE \E s \in Sources : RetireSource(s) \/ UnretireSource(s)
  BY <1>0, <1>5, <1>10 DEF RetireSource, UnretireSource
<1>11. CASE Tick
  <2>1. now' = now + 1 /\ UNCHANGED <<pending, rollup, lastPage, history, phase>>
    BY <1>11 DEF Tick
  <2> QED BY <1>0, <1>5, <2>1
<1>12. CASE UNCHANGED vars
  BY <1>0, <1>5, <1>12 DEF vars
<1> QED BY <1>1, <1>2, <1>3, <1>4, <1>6, <1>7, <1>8, <1>9, <1>10, <1>11, <1>12
        DEF Next, AtBound

\* Within the cooldown the recorded pages of a finding climb in severity
\* (find_pending, send_notifications, mark_notified).  The durable history alone
\* carries the argument: rows may be cleared and re-created in between.
THEOREM RecordedPagesClimb == Spec => PagesClimb
<1> DEFINE A == \A p \in Sent :
                  p.key \in DOMAIN lastPage /\ lastPage[p.key].marked
                    /\ now - lastPage[p.key].at < Cooldown
                  => Rank[p.sev] > Rank[lastPage[p.key].sev]
<1>1. Init => PageInv
  BY DEF Init, PageInv, OnePagePerKey, RollupSent, PagesPast, HistoryKnows, PendingClimbs
<1>2. TypeOK /\ PageInv /\ [Next]_vars => [A]_vars
  <2> SUFFICES ASSUME TypeOK, PageInv, Next, NEW p \in Sent,
                      p.key \in DOMAIN lastPage, lastPage[p.key].marked,
                      now - lastPage[p.key].at < Cooldown
               PROVE  Rank[p.sev] > Rank[lastPage[p.key].sev]
    OBVIOUS
  <2>1. phase = "notifying" /\ phase' = "marking" /\ p \in rollup'
    BY DEF Sent
  <2>2. \E r \in Rollups : SendRollup(r)
    BY <2>1 DEF Next, AtBound, vars, Publish, UpdateWarningState, LoseUpdate, FindPending,
         MarkNotified, EndCycle, Crash, Review, TransitionFinding, RetireSource,
         UnretireSource, Tick
  <2>3. p \in pending
    BY <2>1, <2>2, RollupPending DEF SendRollup
  <2> QED BY <2>1, <2>3 DEF PageInv, PendingClimbs
<1> QED BY <1>1, <1>2, NextPages, TypeCorrect, PTL DEF Spec, PagesClimb
=============================================================================
