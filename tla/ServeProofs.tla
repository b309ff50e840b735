---------------------------- MODULE ServeProofs ----------------------------
(***************************************************************************)
(* Theorems about what the serve loop keeps: about FindingLifecycle, for   *)
(* every set of hosts, every set of reports, every content of the          *)
(* declarations file and every value of the thresholds; about              *)
(* GenerationStore, for every set of hosts, every retention window of at   *)
(* least one generation and every pruning interval; and about Sentinel,    *)
(* which watches the store's artifact.  The three are state machines of    *)
(* their own, and no theorem relates two of them.                          *)
(***************************************************************************)
EXTENDS FindingLifecycle, GenerationStore, Sentinel, FindingRowsProofs

\* What the two theorems about blindness assume of the configuration: the host
\* is called stale no later than its readings are called stale, and the
\* detectors of lost observability are part of the run.
AgreedFreshness ==
  /\ StaleGenerations <= FreshGenerations
  /\ "stale_host" \in Kinds
  /\ "zfs_witness_silent" \in Kinds

\* The evidence a row was made from is still in a current-state table.
RowsHaveEvidence ==
  \A k \in DOMAIN rows :
    /\ KindOf(k) = "disk_pressure" => HostOf(k) \in DOMAIN hosts
    /\ KindOf(k) = "zfs_pool_degraded" => HostOf(k) \in DOMAIN witness

\* Entity GC leaves no row past its threshold.
GoneBound == \A k \in DOMAIN rows : rows[k].gone <= EntityGcThreshold

\* An uninterrupted row was seen by the latest pass, or is hidden.
SeenOrHidden ==
  \A k \in DOMAIN rows :
    KindOf(k) \in EvidenceKinds /\ ~cut[k] =>
      \/ rows[k].vis = "suppressed"
      \/ phase = "idle" /\ rows[k].lastSeen = gen
      \/ phase = "published" /\ rows[k].lastSeen + 1 = gen
-----------------------------------------------------------------------------
(***************************************************************************)
(* Type correctness.                                                       *)
(***************************************************************************)

\* run_all hands over findings of known identities.
LEMMA DetectedType == IsFiring(Detected)
<1>1. [hash |-> None, incident |-> FALSE] \in Emissions
  BY DEF Emissions
<1> QED BY <1>1 DEF Detected, IsFiring

\* The first state is well typed.
LEMMA InitType == Init => TypeOK
<1> SUFFICES ASSUME Init PROVE TypeOK
  OBVIOUS
<1>1. IsTable(rows)
  BY DEF Init, IsTable
<1>2. <<>> \in Seq(Declaration)
  OBVIOUS
<1>3. cut \in [Keys -> BOOLEAN]
  BY DEF Init
<1> QED BY <1>1, <1>2, <1>3 DEF Init, TypeOK

\* Every step keeps the types.
LEMMA NextType == TypeOK /\ [Next]_vars => TypeOK'
<1> SUFFICES ASSUME TypeOK, [Next]_vars PROVE TypeOK'
  OBVIOUS
<1>1. ASSUME NEW rep \in [Hosts -> Reports], Publish(rep)
      PROVE  TypeOK'
  <2>1. gen' = gen + 1 /\ gen' \in Nat
    BY <1>1 DEF Publish, TypeOK
  <2>2. DOMAIN hosts' \subseteq Hosts
    BY <1>1 DEF Publish, TypeOK, HostsAfter
  <2>3. ASSUME NEW h \in DOMAIN hosts'
        PROVE  hosts'[h] \in [asOf : Nat, full : BOOLEAN] /\ hosts'[h].asOf <= gen'
    <3>1. CASE rep[h].host = None
      <4>1. h \in DOMAIN hosts /\ hosts'[h] = hosts[h]
        BY <1>1, <3>1 DEF Publish, HostsAfter
      <4> QED BY <4>1, <2>1 DEF TypeOK
    <3>2. CASE rep[h].host # None
      <4>1. hosts'[h] = [asOf |-> gen', full |-> rep[h].host = "full"]
        BY <1>1, <3>2, <2>1 DEF Publish, HostsAfter
      <4>2. (rep[h].host = "full") \in BOOLEAN
        OBVIOUS
      <4> QED BY <4>1, <4>2, <2>1
    <3> QED BY <3>1, <3>2
  <2>4. hosts' \in [DOMAIN hosts' -> [asOf : Nat, full : BOOLEAN]]
    BY <1>1, <2>3 DEF Publish, HostsAfter
  <2>5. DOMAIN source' \subseteq Hosts /\ source' \in [DOMAIN source' -> {"ok", "error"}]
    <3>1. \A h \in Hosts : rep[h].source \in {"ok", "error", "unpolled"}
      BY LifecycleAssumption DEF ReportShapes
    <3> QED BY <1>1, <3>1 DEF Publish, TypeOK, SourceAfter
  <2>6. /\ DOMAIN witness' \subseteq Hosts
        /\ witness' \in [DOMAIN witness' ->
                           [failed : BOOLEAN, degraded : BOOLEAN, overdue : BOOLEAN]]
    BY <1>1 DEF Publish, TypeOK, WitnessAfter
  <2>7. metrics' \subseteq Hosts
    BY <1>1 DEF Publish, TypeOK, MetricsAfter
  <2>8. phase' = "published" /\ UNCHANGED <<rows, file, loaded, cut>>
    BY <1>1 DEF Publish
  <2> QED BY <2>1, <2>2, <2>3, <2>4, <2>5, <2>6, <2>7, <2>8 DEF TypeOK
<1>2. CASE UpdateWarningState
  <2>1. IsTable(rows) /\ gen \in Nat /\ file \in Seq(Declaration)
    BY DEF TypeOK
  <2>2. IsTable(rows')
    BY <1>2, <2>1, DetectedType, LifecycleFacts DEF UpdateWarningState
  <2>3. cut' \in [Keys -> BOOLEAN]
    <3>1. \A k \in Keys : (IF Fires(k) THEN FALSE ELSE cut[k] \/ SeenAbsent(k)) \in BOOLEAN
      OBVIOUS
    <3> QED BY <1>2, <3>1 DEF UpdateWarningState
  <2>4. phase' = "idle" /\ loaded' = file /\ UNCHANGED <<gen, evidence, file>>
    BY <1>2 DEF UpdateWarningState
  <2> QED BY <2>1, <2>2, <2>3, <2>4 DEF TypeOK, evidence
<1>3. CASE LoseUpdate
  BY <1>3 DEF LoseUpdate, TypeOK, evidence
<1>4. ASSUME NEW f \in DeclarationFiles, EditDeclarations(f)
      PROVE  TypeOK'
  BY <1>4, LifecycleAssumption DEF EditDeclarations, TypeOK, evidence
<1>5. CASE UNCHANGED vars
  BY <1>5 DEF TypeOK, vars, evidence
<1> QED BY <1>1, <1>2, <1>3, <1>4, <1>5 DEF Next, AtBound

\* The current-state tables, warning_state and the history variables keep
\* their types whatever is published, lost or edited (publish_batch,
\* update_warning_state_with_origin_mode).
THEOREM TypeCorrect == Spec => []TypeOK
<1> QED BY InitType, NextType, PTL DEF Spec
-----------------------------------------------------------------------------
(***************************************************************************)
(* Declarations let go.                                                    *)
(***************************************************************************)

\* The lifecycle transaction as the step of this machine.
LEMMA PassFacts ==
  ASSUME TypeOK, UpdateWarningState
  PROVE  LET u == Upserted(rows, Detected, gen, {})
         IN  /\ IsTable(rows')
             /\ DOMAIN rows' \subseteq DOMAIN rows \cup DOMAIN Detected
             /\ \A k \in DOMAIN rows' :
                  /\ rows'[k].gone <= EntityGcThreshold
                  /\ rows'[k].streak = u[k].streak
                  /\ k \in DOMAIN Detected => rows'[k].lastSeen = gen
                  /\ k \notin DOMAIN Detected /\ Masked(u, k) => rows'[k].vis = "suppressed"
                  /\ rows'[k].skind = "operator_declaration" => rows'[k].sdecl \in ActiveIds(file)
             /\ \A k \in (DOMAIN rows \cup DOMAIN Detected) \ DOMAIN rows' :
                  \/ Cleared(u, Detected, k)
                  \/ u[k].gone <= EntityGcThreshold => HostOf(k) \notin DOMAIN hosts \cup metrics
<1>1. IsTable(rows) /\ gen \in Nat /\ file \in Seq(Declaration)
  BY DEF TypeOK
<1> DEFINE present == DOMAIN hosts \cup metrics
           n == Lifecycle(rows, Detected, gen, {}, 0, present, DOMAIN hosts, file, {})
           u == Upserted(rows, Detected, gen, {})
<1>2. rows' = n
  BY DEF UpdateWarningState
<1> HIDE DEF present
<1>3. /\ IsTable(n)
      /\ DOMAIN n \subseteq DOMAIN rows \cup DOMAIN Detected
      /\ \A k \in DOMAIN n :
           /\ n[k].gone <= EntityGcThreshold
           /\ n[k].streak = u[k].streak
           /\ k \in DOMAIN Detected => n[k].lastSeen = gen
           /\ k \notin DOMAIN Detected /\ Masked(u, k) => n[k].vis = "suppressed"
           /\ n[k].skind = "operator_declaration" => n[k].sdecl \in ActiveIds(file)
      /\ \A k \in (DOMAIN rows \cup DOMAIN Detected) \ DOMAIN n :
           Cleared(u, Detected, k) \/ (u[k].gone <= EntityGcThreshold => HostOf(k) \notin present)
  BY <1>1, DetectedType, LifecycleFacts
<1> HIDE DEF n
<1> QED BY <1>2, <1>3 DEF present

\* After every pass, and until the next, no row is attributed to a declaration
\* that the pass did not load: a revoked, expired or edited-away withdrawal
\* never keeps a finding hidden (apply_declaration_overlay).
THEOREM DeclarationsLetGo == Spec => []ReleasedWithDeclaration
<1>1. Init => ReleasedWithDeclaration
  BY DEF Init, ReleasedWithDeclaration
<1>2. TypeOK /\ ReleasedWithDeclaration /\ [Next]_vars => ReleasedWithDeclaration'
  <2> SUFFICES ASSUME TypeOK, ReleasedWithDeclaration, [Next]_vars
               PROVE  ReleasedWithDeclaration'
    OBVIOUS
  <2>1. CASE UpdateWarningState
    <3>1. loaded' = file
      BY <2>1 DEF UpdateWarningState
    <3> QED BY <2>1, <3>1, PassFacts DEF ReleasedWithDeclaration
  <2>2. CASE UNCHANGED <<rows, loaded>>
    BY <2>2 DEF ReleasedWithDeclaration
  <2> QED BY <2>1, <2>2 DEF Next, Publish, LoseUpdate, EditDeclarations, AtBound, vars
<1> QED BY <1>1, <1>2, TypeCorrect, PTL DEF Spec
-----------------------------------------------------------------------------
(***************************************************************************)
(* Silence is not recovery.                                                *)
(***************************************************************************)

\* Rows keep evidence behind them, and entity GC its bound.
LEMMA Support == Spec => [](RowsHaveEvidence /\ GoneBound)
<1>1. Init => RowsHaveEvidence /\ GoneBound
  BY DEF Init, RowsHaveEvidence, GoneBound
<1>2. TypeOK /\ RowsHaveEvidence /\ GoneBound /\ [Next]_vars => (RowsHaveEvidence /\ GoneBound)'
  <2> SUFFICES ASSUME TypeOK, RowsHaveEvidence, GoneBound, [Next]_vars
               PROVE  RowsHaveEvidence' /\ GoneBound'
    OBVIOUS
  <2>1. ASSUME NEW rep \in [Hosts -> Reports], Publish(rep)
        PROVE  RowsHaveEvidence' /\ GoneBound'
    <3>1. DOMAIN hosts \subseteq DOMAIN hosts' /\ DOMAIN witness \subseteq DOMAIN witness'
      BY <2>1 DEF Publish, HostsAfter, WitnessAfter
    <3>2. rows' = rows
      BY <2>1 DEF Publish
    <3> QED BY <3>1, <3>2 DEF RowsHaveEvidence, GoneBound
  <2>2. CASE UpdateWarningState
    <3>1. hosts' = hosts /\ witness' = witness
      BY <2>2 DEF UpdateWarningState, evidence
    <3>2. \A k \in DOMAIN Detected :
            /\ KindOf(k) = "disk_pressure" => HostOf(k) \in DOMAIN hosts
            /\ KindOf(k) = "zfs_pool_degraded" => HostOf(k) \in DOMAIN witness
      BY DEF Detected, Fires, DiskPressure, ZfsPoolDegraded
    <3>3. RowsHaveEvidence'
      BY <2>2, <3>1, <3>2, PassFacts DEF RowsHaveEvidence
    <3>4. GoneBound'
      BY <2>2, PassFacts DEF GoneBound
    <3> QED BY <3>3, <3>4
  <2>3. CASE UNCHANGED <<rows, hosts, witness>>
    BY <2>3 DEF RowsHaveEvidence, GoneBound
  <2> QED BY <2>1, <2>2, <2>3 DEF Next, LoseUpdate, EditDeclarations, AtBound, vars, evidence
<1> QED BY <1>1, <1>2, TypeCorrect, PTL DEF Spec

\* The heart of the matter: a row about a host's condition that does not fire
\* although the condition was not seen absent is masked, because a detector of
\* lost observability fires on its host.
LEMMA BlindIsMasked ==
  ASSUME AgreedFreshness, TypeOK, RowsHaveEvidence,
         NEW k \in DOMAIN rows, KindOf(k) \in EvidenceKinds,
         ~Fires(k), ~SeenAbsent(k)
  PROVE  Masked(Upserted(rows, Detected, gen, {}), k)
<1> DEFINE u == Upserted(rows, Detected, gen, {})
           h == HostOf(k)
<1>1. k \in Keys /\ h \in Hosts /\ KindOf(k) \in Kinds
  BY TableRow DEF TypeOK, Keys, HostOf, KindOf
<1>2. IsTable(rows) /\ gen \in Nat
  BY DEF TypeOK
<1>3. ASSUME NEW p \in Kinds, Fires(<<h, p>>)
      PROVE  <<h, p>> \in DOMAIN u /\ u[<<h, p>>].vis = "observed"
  <2>1. <<h, p>> \in DOMAIN Detected
    BY <1>1, <1>3 DEF Detected, Keys
  <2> QED BY <1>2, <2>1, DetectedType, UpsertedFired
<1> HIDE DEF u
<1>4. CASE KindOf(k) = "disk_pressure"
  <2>1. h \in DOMAIN hosts /\ hosts[h].full
    BY <1>4 DEF RowsHaveEvidence, SeenAbsent
  <2>2. ~(Behind(h) <= FreshGenerations)
    BY <1>4, <2>1 DEF Fires, DiskPressure
  <2>3. StaleHost(h)
    <3>1. Behind(h) \in Int /\ StaleGenerations \in Nat /\ FreshGenerations \in Nat
      BY <2>1, LifecycleAssumption DEF Behind, TypeOK
    <3> QED BY <2>1, <2>2, <3>1 DEF StaleHost, AgreedFreshness
  <2>4. Fires(<<h, "stale_host">>)
    BY <2>3 DEF Fires, KindOf, HostOf
  <2>5. <<h, "stale_host">> \in DOMAIN u /\ u[<<h, "stale_host">>].vis = "observed"
    BY <1>3, <2>4 DEF AgreedFreshness
  <2>6. 1 \in RulesFor(u, k)
    BY <1>1, <1>4, <2>5 DEF RulesFor, MaskingRules, ParentKinds
  <2> QED BY <2>6 DEF Masked, u
<1>5. CASE KindOf(k) = "zfs_pool_degraded"
  <2>1. ZfsWitnessSilent(h)
    BY <1>5 DEF RowsHaveEvidence, SeenAbsent, Fires, ZfsPoolDegraded
  <2>2. Fires(<<h, "zfs_witness_silent">>)
    BY <2>1 DEF Fires, KindOf, HostOf
  <2>3. /\ <<h, "zfs_witness_silent">> \in DOMAIN u
        /\ u[<<h, "zfs_witness_silent">>].vis = "observed"
    BY <1>3, <2>2 DEF AgreedFreshness
  <2>4. 4 \in RulesFor(u, k)
    BY <1>1, <1>5, <2>3 DEF RulesFor, MaskingRules, ParentKinds, ZfsKinds
  <2> QED BY <2>4 DEF Masked, u
<1> QED BY <1>4, <1>5 DEF EvidenceKinds

\* A row about a host's condition is cleared only on evidence that the
\* condition is absent, or by entity GC of a host no table knows, provided
\* that the configured staleness agrees with the freshness of the views
\* (update_warning_state_inner, detect_stale_hosts, v_hosts).
THEOREM SilenceIsNotRecovery ==
  ASSUME AgreedFreshness
  PROVE  Spec => ClearedOnlyOnEvidence
<1>1. TypeOK /\ RowsHaveEvidence /\ GoneBound /\ [Next]_vars => [ClearStep]_vars
  <2> SUFFICES ASSUME TypeOK, RowsHaveEvidence, GoneBound, Next,
                      NEW k \in DOMAIN rows \ DOMAIN rows', KindOf(k) \in EvidenceKinds
               PROVE  SeenAbsent(k) \/ HostOf(k) \notin DOMAIN hosts \cup metrics
    BY DEF ClearStep
  <2> DEFINE u == Upserted(rows, Detected, gen, {})
  <2>1. UpdateWarningState
    BY DEF Next, Publish, LoseUpdate, EditDeclarations, AtBound, vars
  <2>2. \/ Cleared(u, Detected, k)
        \/ u[k].gone <= EntityGcThreshold => HostOf(k) \notin DOMAIN hosts \cup metrics
    BY <2>1, PassFacts
  <2>3. CASE Cleared(u, Detected, k)
    <3>1. k \notin DOMAIN Detected /\ ~Masked(u, k)
      BY <2>3 DEF Cleared
    <3>2. ~Fires(k)
      BY <3>1, TableRow DEF Detected, TypeOK
    <3> QED BY <3>1, <3>2, BlindIsMasked
  <2>4. u[k].gone <= EntityGcThreshold
    <3>1. /\ k \in DOMAIN Detected => u[k] = Refire(rows[k], k, Detected[k], gen, {})
          /\ k \notin DOMAIN Detected => u[k] = rows[k]
      BY UpsertedOld
    <3>2. rows[k] \in Row /\ k \in Keys /\ gen \in Nat
      BY TableRow DEF TypeOK
    <3>3. k \in DOMAIN Detected => Detected[k] \in Emissions
      BY DetectedType DEF IsFiring
    <3>4. rows[k].gone <= EntityGcThreshold
      BY DEF GoneBound
    <3> HIDE DEF u
    <3> QED BY <3>1, <3>2, <3>3, <3>4, RefireFacts
  <2> QED BY <2>2, <2>3, <2>4
<1> QED BY <1>1, TypeCorrect, Support, PTL DEF Spec, ClearedOnlyOnEvidence
-----------------------------------------------------------------------------
(***************************************************************************)
(* Blindness does not interrupt persistence.                               *)
(***************************************************************************)

\* An uninterrupted row was seen by the latest pass, or is hidden.
LEMMA NeverUnseen ==
  ASSUME AgreedFreshness
  PROVE  Spec => []SeenOrHidden
<1>1. Init => SeenOrHidden
  BY DEF Init, SeenOrHidden
<1>2. TypeOK /\ RowsHaveEvidence /\ SeenOrHidden /\ [Next]_vars => SeenOrHidden'
  <2> SUFFICES ASSUME TypeOK, RowsHaveEvidence, SeenOrHidden, [Next]_vars
               PROVE  SeenOrHidden'
    OBVIOUS
  <2>1. ASSUME NEW rep \in [Hosts -> Reports], Publish(rep)
        PROVE  SeenOrHidden'
    BY <2>1 DEF Publish, SeenOrHidden
  <2>2. CASE UpdateWarningState
    <3> SUFFICES ASSUME NEW k \in DOMAIN rows', KindOf(k) \in EvidenceKinds, ~cut'[k]
                 PROVE  rows'[k].vis = "suppressed" \/ rows'[k].lastSeen = gen
      BY <2>2 DEF SeenOrHidden, UpdateWarningState
    <3>1. CASE k \in DOMAIN Detected
      BY <2>2, <3>1, PassFacts
    <3>2. CASE k \notin DOMAIN Detected
      <4>1. k \in DOMAIN rows
        BY <2>2, <3>2, PassFacts
      <4>2. k \in Keys /\ ~Fires(k)
        BY <3>2, <4>1, TableRow DEF Detected, TypeOK
      <4>3. ~SeenAbsent(k)
        BY <2>2, <4>2 DEF UpdateWarningState
      <4>4. Masked(Upserted(rows, Detected, gen, {}), k)
        BY <4>1, <4>2, <4>3, BlindIsMasked
      <4> QED BY <2>2, <3>2, <4>4, PassFacts
    <3> QED BY <3>1, <3>2
  <2>3. CASE LoseUpdate
    <3>1. \A k \in DOMAIN rows' : cut'[k] = TRUE
      BY <2>3 DEF LoseUpdate, TypeOK, IsTable
    <3> QED BY <3>1 DEF SeenOrHidden
  <2>4. CASE UNCHANGED <<rows, gen, phase, cut>>
    BY <2>4 DEF SeenOrHidden
  <2> QED BY <2>1, <2>2, <2>3, <2>4 DEF Next, EditDeclarations, AtBound, vars
<1> QED BY <1>1, <1>2, TypeCorrect, Support, PTL DEF Spec

\* While a row about a host's condition lives, its streak drops only if its
\* condition was seen absent, or a pass was lost, since it last fired; an
\* outage of any length does not restart it (the streak rule of
\* update_warning_state_inner).
THEOREM StreakSurvivesBlindness ==
  ASSUME AgreedFreshness
  PROVE  Spec => BlindnessKeepsStreak
<1>1. TypeOK /\ SeenOrHidden /\ [Next]_vars => [StreakStep]_vars
  <2> SUFFICES ASSUME TypeOK, SeenOrHidden, Next,
                      NEW k \in DOMAIN rows \cap DOMAIN rows', KindOf(k) \in EvidenceKinds,
                      rows'[k].streak < rows[k].streak, ~cut[k]
               PROVE  FALSE
    BY TableRow DEF StreakStep, TypeOK
  <2> DEFINE u == Upserted(rows, Detected, gen, {})
  <2>0. rows[k] \in Row /\ k \in Keys /\ gen \in Nat
    BY TableRow DEF TypeOK
  <2>1. UpdateWarningState
    <3>1. rows[k].streak \in Nat
      BY <2>0 DEF Row
    <3>2. rows' # rows
      BY <3>1
    <3> QED BY <3>2 DEF Next, Publish, LoseUpdate, EditDeclarations, AtBound, vars
  <2>2. rows'[k].streak = u[k].streak
    BY <2>1, PassFacts
  <2>3. /\ k \in DOMAIN Detected => u[k] = Refire(rows[k], k, Detected[k], gen, {})
        /\ k \notin DOMAIN Detected => u[k] = rows[k]
    BY UpsertedOld
  <2> HIDE DEF u
  <2>4. k \in DOMAIN Detected
    <3>1. rows[k].streak \in Nat
      BY <2>0 DEF Row
    <3> QED BY <3>1, <2>2, <2>3
  <2>5. Detected[k] \in Emissions /\ Detected[k].hash = None
    BY <2>4, DetectedType DEF IsFiring, Detected
  <2>6. rows'[k].streak = NextStreak(rows[k], Detected[k], gen)
    BY <2>0, <2>2, <2>3, <2>4, <2>5, RefireFacts
  <2>7. rows[k].vis = "suppressed" \/ rows[k].lastSeen + 1 = gen
    BY <2>1 DEF SeenOrHidden, UpdateWarningState
  <2>8. rows'[k].streak = rows[k].streak + 1
    BY <2>5, <2>6, <2>7 DEF NextStreak, HashChanged
  <2>9. rows[k].streak \in Nat
    BY <2>0 DEF Row
  <2> QED BY <2>8, <2>9
<1> QED BY <1>1, TypeCorrect, NeverUnseen, PTL DEF Spec, BlindnessKeepsStreak
-----------------------------------------------------------------------------
(***************************************************************************)
(* The generation store.                                                   *)
(***************************************************************************)

\* What is kept is a run of the newest ids, and tombstones lie below it.
Newest ==
  /\ Ids \subseteq 1 .. issued
  /\ issued # 0 => issued \in Ids
  /\ \A g \in 1 .. issued, x \in Ids : g \notin Ids => g < x
  /\ \A t \in tombs, x \in Ids : t.high < x
  /\ \A t \in tombs : t.high < issued

StoreInv == StoreTypeOK /\ Newest /\ Accounted
-----------------------------------------------------------------------------
(***************************************************************************)
(* The ids that publication takes and pruning frees.                       *)
(***************************************************************************)

\* The largest id kept is the last one issued.
LEMMA MaxIsIssued ==
  ASSUME StoreTypeOK, Newest, Ids # {}
  PROVE  Max(Ids) = issued
<1>1. issued \in Ids /\ issued \in Nat /\ \A y \in Ids : y \in Nat /\ issued >= y
  BY DEF StoreTypeOK, Newest
<1>2. \A x \in Ids : (\A y \in Ids : x >= y) => x = issued
  BY <1>1
<1> QED BY <1>1, <1>2 DEF Max

\* SQLite's next id is the next number never issued.
LEMMA NextIdFresh ==
  ASSUME StoreTypeOK, Newest
  PROVE  NextId = issued + 1
<1>1. CASE Ids = {}
  BY <1>1 DEF StoreTypeOK, Newest, NextId
<1>2. CASE Ids # {}
  BY <1>2, MaxIsIssued DEF NextId
<1> QED BY <1>1, <1>2

\* The doomed generations are the oldest run of ids, the range from low to high
\* is exactly that run, and the newest generation is not part of it.
LEMMA SweepRange ==
  ASSUME StoreTypeOK, Newest, NEW low \in Doomed, NEW high \in Doomed,
         \A g \in Doomed : low <= g /\ g <= high
  PROVE  /\ low \in Ids /\ high \in Ids /\ low \in Nat /\ high \in Nat
         /\ \A x \in Ids : low <= x
         /\ high < issued
         /\ Excess = high - low + 1
<1>1. IsFiniteSet(Ids) /\ Ids \subseteq Nat /\ issued \in Nat
  BY DEF StoreTypeOK
<1>2. low \in Ids /\ high \in Ids /\ low \in Nat /\ high \in Nat
  BY <1>1 DEF Doomed
<1>3. Cardinality(Ids) \in Nat /\ Excess \in Int
  BY <1>1, FS_CardinalityType, StoreAssumption DEF Excess
<1>4. \A g \in Ids : /\ IsFiniteSet({x \in Ids : x < g})
                     /\ Cardinality({x \in Ids : x < g}) \in Nat
  <2> TAKE g \in Ids
  <2>1. {x \in Ids : x < g} \in SUBSET Ids
    OBVIOUS
  <2>2. IsFiniteSet({x \in Ids : x < g})
    BY <1>1, <2>1, FS_Subset
  <2> QED BY <2>2, FS_CardinalityType
<1>5. \A x \in Ids : low <= x
  <2> SUFFICES ASSUME NEW x \in Ids, x < low PROVE FALSE
    BY <1>1, <1>2
  <2>1. {y \in Ids : y < x} \in SUBSET {y \in Ids : y < low}
    <3>1. ASSUME NEW y \in Ids, y < x PROVE y < low
      BY <1>1, <1>2, <3>1
    <3> QED BY <3>1
  <2>2. Cardinality({y \in Ids : y < x}) <= Cardinality({y \in Ids : y < low})
    BY <1>2, <1>4, <2>1, FS_Subset
  <2>3. Cardinality({y \in Ids : y < low}) < Excess
    BY DEF Doomed
  <2>4. Cardinality({y \in Ids : y < x}) < Excess
    BY <1>2, <1>3, <1>4, <2>2, <2>3
  <2>5. x \in Doomed
    BY <2>4 DEF Doomed
  <2> QED BY <1>1, <1>2, <2>5
<1>6. Ids = low .. issued
  <2>1. \A g \in 1 .. issued : g \notin Ids => g < low
    BY <1>2 DEF Newest
  <2>2. 1 <= low /\ \A x \in Ids : x <= issued
    BY <1>1, <1>2 DEF Newest
  <2>3. ASSUME NEW g \in Ids PROVE g \in low .. issued
    BY <1>1, <1>2, <1>5, <2>2
  <2>4. ASSUME NEW g \in low .. issued PROVE g \in Ids
    <3>1. g \in 1 .. issued /\ ~(g < low)
      BY <1>1, <1>2, <2>2
    <3> QED BY <2>1, <3>1
  <2> QED BY <2>3, <2>4
<1>7. Cardinality(Ids) = issued - low + 1
  BY <1>1, <1>2, <1>6, FS_Interval
<1>8. \A g \in Ids : Cardinality({x \in Ids : x < g}) = g - low
  <2> TAKE g \in Ids
  <2>1. {x \in Ids : x < g} = low .. (g - 1)
    BY <1>1, <1>2, <1>6
  <2>2. low <= g /\ g \in Nat
    BY <1>1, <1>5
  <2>3. low \in Int /\ g - 1 \in Int
    BY <1>2, <2>2
  <2>4. Cardinality(low .. (g - 1)) = IF low > g - 1 THEN 0 ELSE (g - 1) - low + 1
    BY <2>3, FS_Interval
  <2>5. (IF low > g - 1 THEN 0 ELSE (g - 1) - low + 1) = g - low
    BY <1>2, <2>2
  <2> QED BY <2>1, <2>4, <2>5
<1>9. Excess = issued - low + 1 - MaxGenerations
  BY <1>1, <1>2, <1>7, StoreAssumption DEF Excess
<1>10. MaxGenerations \in Nat /\ MaxGenerations # 0
  BY StoreAssumption
<1>11. high - low < Excess
  BY <1>2, <1>8 DEF Doomed
<1>12. high < issued
  BY <1>1, <1>2, <1>9, <1>10, <1>11
<1>13. high - low + 1 >= Excess
  <2> SUFFICES ASSUME high - low + 1 < Excess PROVE FALSE
    BY <1>2, <1>3
  <2>1. high + 1 \in Ids
    BY <1>1, <1>2, <1>5, <1>6, <1>12
  <2>2. Cardinality({x \in Ids : x < high + 1}) = (high + 1) - low
    BY <1>8, <2>1
  <2>3. high + 1 \in Doomed
    BY <1>2, <2>1, <2>2 DEF Doomed
  <2> QED BY <1>2, <2>3
<1> QED BY <1>2, <1>3, <1>5, <1>11, <1>12, <1>13
-----------------------------------------------------------------------------
(***************************************************************************)
(* The inductive invariant.                                                *)
(***************************************************************************)

\* The empty store satisfies the invariant.
LEMMA InitInv == StoreInit => StoreInv
<1> SUFFICES ASSUME StoreInit PROVE StoreInv
  OBVIOUS
<1>1. Ids = {}
  BY DEF StoreInit, Ids
<1>2. IsFiniteSet({})
  BY FS_EmptySet
<1>3. StoreTypeOK
  BY <1>1, <1>2, StoreAssumption DEF StoreInit, StoreTypeOK, Ids
<1>4. Newest /\ Accounted
  BY <1>1 DEF StoreInit, Newest, Accounted
<1> QED BY <1>3, <1>4 DEF StoreInv

\* Steps that leave the generations and the tombstones alone, or add a row.
LEMMA SameIds ==
  ASSUME Newest, Accounted, Ids' = Ids, tombs' = tombs, issued' = issued
  PROVE  Newest' /\ Accounted'
BY DEF Newest, Accounted, Covers

\* Publication appends the next id.
LEMMA PublishStep ==
  ASSUME StoreTypeOK, Newest, Accounted, NEW up \in SUBSET Reporters,
         NEW seen \in SUBSET Witnesses, PublishBatch(up, seen)
  PROVE  StoreTypeOK' /\ Newest' /\ Accounted' /\ Ids' = Ids \cup {issued + 1}
<1>1. NextId = issued + 1
  BY NextIdFresh
<1>2. issued \in Nat /\ IsFiniteSet(Ids) /\ Ids \subseteq Nat
  BY DEF StoreTypeOK
<1>3. Cardinality(up) \in Nat /\ Cardinality(seen) \in Nat
  <2>1. IsFiniteSet(up) /\ IsFiniteSet(seen)
    BY StoreAssumption, FS_Subset
  <2> QED BY <2>1, FS_CardinalityType
<1>4. Ids' = Ids \cup {issued + 1} /\ issued' = issued + 1 /\ tombs' = tombs
  BY <1>1 DEF PublishBatch, Ids
<1>5. IsFiniteSet(Ids')
  BY <1>2, <1>4, FS_AddElement
<1>6. gens' \in [Ids' -> Nat]
  BY <1>1, <1>3, <1>4 DEF PublishBatch, StoreTypeOK, Ids
<1>7. DOMAIN current' \subseteq Reporters /\ current' \in [DOMAIN current' -> Nat]
  BY <1>1, <1>2 DEF PublishBatch, Replaced, StoreTypeOK
<1>7w. DOMAIN witnessed' \subseteq Witnesses /\ witnessed' \in [DOMAIN witnessed' -> Nat]
  BY <1>1, <1>2 DEF PublishBatch, Replaced, StoreTypeOK
<1>8. inserted' \in [1 .. issued' -> Nat]
  <2>1. inserted \in [1 .. issued -> Nat] /\ issued' = issued + 1
    BY DEF PublishBatch, StoreTypeOK
  <2>2. ASSUME NEW g \in 1 .. issued', g # issued' PROVE inserted[g] \in Nat
    BY <1>2, <2>1, <2>2
  <2> QED BY <1>3, <2>2 DEF PublishBatch
<1>9. /\ storePhase' = "prune"
      /\ UNCHANGED <<tombs, cycle, sweep, probe>>
      /\ storePhase = "publish"
  BY DEF PublishBatch
<1>10. StoreTypeOK'
  BY <1>2, <1>4, <1>5, <1>6, <1>7, <1>7w, <1>8, <1>9 DEF StoreTypeOK
<1>11. \A t \in tombs : t.high < issued + 1
  BY <1>2 DEF Newest, StoreTypeOK
<1>12. Newest'
  BY <1>2, <1>4, <1>11 DEF Newest
<1>13. Accounted'
  <2>1. \A g \in 1 .. issued' : g \in Ids' <=> ~\E t \in tombs : Covers(t, g)
    <3> TAKE g \in 1 .. issued'
    <3>1. CASE g = issued + 1
      BY <1>2, <1>4, <1>11, <3>1 DEF Covers, StoreTypeOK
    <3>2. CASE g \in 1 .. issued
      <4>1. g # issued + 1
        BY <1>2, <3>2
      <4> QED BY <1>4, <3>2, <4>1 DEF Accounted
    <3> QED BY <1>2, <1>4, <3>1, <3>2
  <2> QED BY <1>4, <2>1 DEF Accounted, Covers
<1> QED BY <1>4, <1>10, <1>12, <1>13

\* A sweep moves the oldest run of ids from the table to one tombstone.
LEMMA SweepStep ==
  ASSUME StoreTypeOK, Newest, Accounted, NEW low \in Doomed, NEW high \in Doomed,
         CommitSweep(low, high)
  PROVE  /\ StoreTypeOK' /\ Newest' /\ Accounted'
         /\ Ids' = {g \in Ids : g > high}
         /\ low \in Ids /\ high \in Ids /\ high < issued
         /\ \A g \in Ids : low <= g
<1> DEFINE tomb == [low |-> low, high |-> high, count |-> Excess, rows |-> CountedRows(low, high)]
<1>1. /\ low \in Ids /\ high \in Ids /\ low \in Nat /\ high \in Nat
      /\ \A x \in Ids : low <= x
      /\ high < issued
      /\ Excess = high - low + 1
  BY SweepRange DEF CommitSweep
<1>2. issued \in Nat /\ IsFiniteSet(Ids) /\ Ids \subseteq Nat
  BY DEF StoreTypeOK
<1>3. Ids' = {x \in Ids : ~(low <= x /\ x <= high)}
  BY DEF CommitSweep, Ids
<1>4. Ids' = {g \in Ids : g > high}
  <2>1. ASSUME NEW g \in Ids PROVE ~(low <= g /\ g <= high) <=> g > high
    BY <1>1, <1>2
  <2> QED BY <1>3, <2>1
<1>5. /\ tomb.low = low /\ tomb.high = high /\ tomb.count = high - low + 1
      /\ tombs' = tombs \cup {tomb}
  BY <1>1 DEF CommitSweep
<1>6. low <= high
  BY <1>1
<1> HIDE DEF tomb
<1>7. /\ sweep' = {} /\ storePhase' = "pull"
      /\ UNCHANGED <<current, witnessed, cycle, probe, issued, inserted>>
  BY DEF CommitSweep
<1>8. IsFiniteSet(Ids')
  <2>1. Ids' \in SUBSET Ids
    BY <1>4
  <2> QED BY <1>2, <2>1, FS_Subset
<1>9. gens' \in [Ids' -> Nat]
  BY <1>3 DEF CommitSweep, StoreTypeOK, Ids
<1>10. \A t \in tombs' : t.low \in Nat /\ t.high \in Nat /\ t.count \in Nat
  BY <1>1, <1>5, <1>6 DEF StoreTypeOK
<1>11. Ids' \subseteq Nat
  BY <1>2, <1>4
<1>12. StoreTypeOK'
  BY <1>7, <1>8, <1>9, <1>10, <1>11 DEF StoreTypeOK
<1>13. \A t \in tombs : t.high \in Nat /\ t.high < low
  BY <1>1 DEF StoreTypeOK, Newest
<1>14. Newest'
  <2>1. Ids' \subseteq 1 .. issued' /\ (issued' # 0 => issued' \in Ids')
    BY <1>1, <1>2, <1>4, <1>7 DEF Newest
  <2>2. ASSUME NEW g \in 1 .. issued, NEW x \in Ids', g \notin Ids'
        PROVE  g < x
    <3>1. x \in Ids /\ x > high /\ x \in Nat
      BY <1>2, <1>4
    <3>2. CASE g \in Ids
      <4>1. g <= high /\ g \in Nat
        BY <1>1, <1>2, <1>4, <2>2, <3>2
      <4> QED BY <1>1, <3>1, <4>1
    <3>3. CASE g \notin Ids
      BY <3>1, <3>3 DEF Newest
    <3> QED BY <3>2, <3>3
  <2>3. \A t \in tombs', x \in Ids' : t.high < x
    BY <1>1, <1>2, <1>4, <1>5 DEF Newest
  <2>4. \A t \in tombs' : t.high < issued'
    BY <1>1, <1>5, <1>7 DEF Newest
  <2> QED BY <1>7, <2>1, <2>2, <2>3, <2>4 DEF Newest
<1>15. Accounted'
  <2>1. ASSUME NEW g \in 1 .. issued
        PROVE  g \in Ids' <=> ~\E t \in tombs' : Covers(t, g)
    <3>1. g \in Ids <=> ~\E t \in tombs : Covers(t, g)
      BY DEF Accounted
    <3>2. Covers(tomb, g) <=> low <= g /\ g <= high
      BY <1>5 DEF Covers
    <3>3. CASE g \in Ids
      <4>1. g \in Ids' <=> g > high
        BY <1>4, <3>3
      <4>2. low <= g
        BY <1>1, <3>3
      <4> QED BY <1>1, <1>2, <1>5, <3>1, <3>2, <3>3, <4>1, <4>2
    <3>4. CASE g \notin Ids
      BY <1>4, <1>5, <3>1, <3>4
    <3> QED BY <3>3, <3>4
  <2>2. \A t \in tombs', u \in tombs' : t # u => t.high < u.low \/ u.high < t.low
    BY <1>5, <1>13 DEF Accounted
  <2>3. \A t \in tombs' : t.count = t.high - t.low + 1
    BY <1>5 DEF Accounted
  <2> QED BY <1>7, <2>1, <2>2, <2>3 DEF Accounted, Covers
<1> QED BY <1>1, <1>4, <1>12, <1>14, <1>15

\* What every step other than publication and a successful sweep leaves alone.
LEMMA OtherSteps ==
  ASSUME StoreTypeOK, Newest, [StoreNext]_storeVars,
         ~\E up \in SUBSET Reporters, seen \in SUBSET Witnesses : PublishBatch(up, seen),
         ~\E low, high \in Doomed : CommitSweep(low, high)
  PROVE  StoreTypeOK' /\ Ids' = Ids /\ tombs' = tombs /\ issued' = issued
         /\ current' = current /\ witnessed' = witnessed
<1> DEFINE Goal == StoreTypeOK' /\ Ids' = Ids /\ tombs' = tombs /\ issued' = issued
                     /\ current' = current /\ witnessed' = witnessed
<1>1. CASE PullFails \/ PullAll
  <2>1. cycle' \in 0 .. PruneEvery - 1
    BY <1>1, StoreAssumption DEF PullFails, PullAll, StoreTypeOK
  <2> QED BY <1>1, <2>1 DEF PullFails, PullAll, StoreTypeOK, Ids
<1>2. CASE PublishFails \/ SkipPrune
  BY <1>2 DEF PublishFails, SkipPrune, StoreTypeOK, Ids
<1>3. CASE BeginSweep
  BY <1>3 DEF BeginSweep, StoreTypeOK, Ids
<1>4. ASSUME NEW low \in Doomed, NEW high \in Doomed, FailSweep(low, high)
      PROVE  Goal
  BY <1>4 DEF FailSweep, StoreTypeOK, Ids
<1>5. ASSUME NEW g \in Ids, ProbeStart(g)
      PROVE  Goal
  <2>1. g \in Nat
    BY DEF StoreTypeOK
  <2> QED BY <1>5, <2>1 DEF ProbeStart, StoreTypeOK, Ids
<1>6. CASE ProbeRecord
  <2>1. CASE probe \in Ids
    <3>1. probe \in 1 .. issued
      BY <2>1 DEF Newest
    <3> QED BY <1>6, <2>1, <3>1 DEF ProbeRecord, StoreTypeOK, Ids
  <2>2. CASE probe \notin Ids
    BY <1>6, <2>2 DEF ProbeRecord, StoreTypeOK, Ids
  <2> QED BY <2>1, <2>2
<1>7. CASE Crash
  BY <1>7, StoreAssumption DEF Crash, StoreTypeOK, Ids
<1>8. CASE UNCHANGED storeVars
  BY <1>8 DEF storeVars, StoreTypeOK, Ids
<1> QED BY <1>1, <1>2, <1>3, <1>4, <1>5, <1>6, <1>7, <1>8 DEF StoreNext

\* Every step keeps the invariant.
LEMMA NextInv == StoreInv /\ [StoreNext]_storeVars => StoreInv'
<1> SUFFICES ASSUME StoreInv, [StoreNext]_storeVars PROVE StoreInv'
  OBVIOUS
<1>0. StoreTypeOK /\ Newest /\ Accounted
  BY DEF StoreInv
<1>1. CASE \E up \in SUBSET Reporters, seen \in SUBSET Witnesses : PublishBatch(up, seen)
  BY <1>0, <1>1, PublishStep DEF StoreInv
<1>2. CASE \E low, high \in Doomed : CommitSweep(low, high)
  BY <1>0, <1>2, SweepStep DEF StoreInv
<1>3. CASE /\ ~\E up \in SUBSET Reporters, seen \in SUBSET Witnesses : PublishBatch(up, seen)
           /\ ~\E low, high \in Doomed : CommitSweep(low, high)
  <2>1. StoreTypeOK' /\ Ids' = Ids /\ tombs' = tombs /\ issued' = issued
    BY <1>0, <1>3, OtherSteps
  <2> QED BY <1>0, <2>1, SameIds DEF StoreInv
<1> QED BY <1>1, <1>2, <1>3

\* The invariant of the store holds throughout.
LEMMA Invariance == StoreSpec => []StoreInv
BY InitInv, NextInv, PTL DEF StoreSpec

\* The store is well typed in every reachable state.
THEOREM StoreTypeCorrect == StoreSpec => []StoreTypeOK
BY Invariance, PTL DEF StoreInv

\* No silent purge and no id issued twice (publish_batch, prune): the comment of
\* retention.rs that the range selects the doomed set exactly is SweepRange.
THEOREM NoSilentPurge == StoreSpec => []Accounted
BY Invariance, PTL DEF StoreInv
-----------------------------------------------------------------------------
(***************************************************************************)
(* Current-state rows, and the abstract log.                               *)
(***************************************************************************)

\* A collector's current-state row always resolves; a witness's row resolves or is
\* older than every generation kept, and is named by a tombstone; the latest
\* generation is kept (publish_batch, prune).
THEOREM CurrentRowsResolve == StoreSpec => []CurrentResolves
<1> DEFINE Held == \A h \in DOMAIN current : current[h] \in Ids
           Told == \A h \in DOMAIN witnessed : witnessed[h] \in 1 .. issued
<1>1. StoreInit => Held /\ Told
  BY DEF StoreInit
<1>2. StoreInv /\ Held /\ Told /\ [StoreNext]_storeVars => Held' /\ Told'
  <2> SUFFICES ASSUME StoreInv, Held, Told, [StoreNext]_storeVars
               PROVE  Held' /\ Told'
    OBVIOUS
  <2>0. StoreTypeOK /\ Newest /\ Accounted /\ issued \in Nat
    BY DEF StoreInv, StoreTypeOK
  <2>1. ASSUME NEW up \in SUBSET Reporters, NEW seen \in SUBSET Witnesses, PublishBatch(up, seen)
        PROVE  Held' /\ Told'
    <3>1. Ids' = Ids \cup {issued + 1} /\ NextId = issued + 1
      BY <2>0, <2>1, PublishStep, NextIdFresh
    <3>2. Held'
      BY <2>1, <3>1 DEF PublishBatch, Replaced
    <3>3. issued' = issued + 1 /\ witnessed' = Replaced(witnessed, seen)
      BY <2>1 DEF PublishBatch
    <3>4. Told'
      BY <2>0, <3>1, <3>3 DEF Replaced
    <3> QED BY <3>2, <3>4
  <2>2. ASSUME NEW low \in Doomed, NEW high \in Doomed, CommitSweep(low, high)
        PROVE  Held' /\ Told'
    <3>1. current' = current /\ ~Pinned(low, high) /\ witnessed' = witnessed /\ issued' = issued
      BY <2>2 DEF CommitSweep
    <3>2. Ids' = {x \in Ids : ~(low <= x /\ x <= high)}
      BY <2>2 DEF CommitSweep, Ids
    <3> QED BY <3>1, <3>2 DEF Pinned
  <2>3. CASE /\ ~\E up \in SUBSET Reporters, seen \in SUBSET Witnesses : PublishBatch(up, seen)
             /\ ~\E low, high \in Doomed : CommitSweep(low, high)
    BY <2>0, <2>3, OtherSteps
  <2> QED BY <2>1, <2>2, <2>3
<1>3. StoreInv /\ Held /\ Told => CurrentResolves
  <2> SUFFICES ASSUME StoreInv, Held, Told PROVE CurrentResolves
    OBVIOUS
  <2>0. Newest /\ Accounted
    BY DEF StoreInv
  <2>1. ASSUME NEW h \in DOMAIN witnessed, witnessed[h] \notin Ids
        PROVE  /\ \A g \in Ids : witnessed[h] < g
               /\ \E t \in tombs : Covers(t, witnessed[h])
    <3>1. witnessed[h] \in 1 .. issued
      OBVIOUS
    <3>2. \E t \in tombs : Covers(t, witnessed[h])
      BY <2>0, <2>1, <3>1 DEF Accounted
    <3> QED BY <2>0, <2>1, <3>1, <3>2 DEF Newest
  <2> QED BY <2>0, <2>1 DEF Newest, CurrentResolves
<1> QED BY <1>1, <1>2, <1>3, Invariance, PTL DEF StoreSpec

\* The store implements the log: publication appends, pruning forgets the oldest
\* against a receipt, and every other step stutters.
THEOREM ImplementsLog == StoreSpec => RefinesLog
<1>1. StoreInit => Log!Init
  BY DEF StoreInit, Log!Init, Ids
<1>2. StoreInv /\ [StoreNext]_storeVars => [Log!Next]_(Log!vars)
  <2> SUFFICES ASSUME StoreInv, [StoreNext]_storeVars PROVE [Log!Next]_(Log!vars)
    OBVIOUS
  <2>0. StoreTypeOK /\ Newest /\ Accounted
    BY DEF StoreInv
  <2>1. ASSUME NEW up \in SUBSET Reporters, NEW seen \in SUBSET Witnesses, PublishBatch(up, seen)
        PROVE  Log!Append
    <3>1. Ids' = Ids \cup {issued + 1}
      BY <2>0, <2>1, PublishStep
    <3>2. issued' = issued + 1 /\ tombs' = tombs
      BY <2>1 DEF PublishBatch
    <3> QED BY <3>1, <3>2 DEF Log!Append
  <2>2. ASSUME NEW low \in Doomed, NEW high \in Doomed, CommitSweep(low, high)
        PROVE  low \in Ids /\ high \in Ids /\ Log!Forget(low, high)
    <3>1. /\ Ids' = {g \in Ids : g > high}
          /\ low \in Ids /\ high \in Ids /\ high < issued
          /\ \A g \in Ids : low <= g
      BY <2>0, <2>2, SweepStep
    <3> DEFINE tomb == [low |-> low, high |-> high, count |-> Excess,
                       rows |-> CountedRows(low, high)]
               range(t) == [low |-> t.low, high |-> t.high]
    <3>2. issued' = issued /\ tombs' = tombs \cup {tomb}
      BY <2>2 DEF CommitSweep
    <3>3. {range(t) : t \in tombs'} = {range(t) : t \in tombs} \cup {[low |-> low, high |-> high]}
      <4>1. range(tomb) = [low |-> low, high |-> high]
        OBVIOUS
      <4> HIDE DEF tomb, range
      <4>2. {range(t) : t \in tombs'} = {range(t) : t \in tombs} \cup {range(tomb)}
        BY <3>2
      <4> QED BY <4>1, <4>2
    <3> QED BY <3>1, <3>2, <3>3 DEF Log!Forget
  <2>3. CASE /\ ~\E up \in SUBSET Reporters, seen \in SUBSET Witnesses : PublishBatch(up, seen)
             /\ ~\E low, high \in Doomed : CommitSweep(low, high)
    <3>1. Ids' = Ids /\ tombs' = tombs /\ issued' = issued
      BY <2>0, <2>3, OtherSteps
    <3> QED BY <3>1 DEF Log!vars
  <2> QED BY <2>1, <2>2, <2>3 DEF Log!Next
<1> QED BY <1>1, <1>2, Invariance, PTL DEF StoreSpec, RefinesLog, Log!Spec
-----------------------------------------------------------------------------
(***************************************************************************)
(* What the tombstones count.                                              *)
(***************************************************************************)

\* Two numberings that agree within a range have the same rows in it.
LEMMA RowsAgree ==
  ASSUME NEW M, NEW N, NEW low, NEW high,
         \A x \in M : low <= x[1] /\ x[1] <= high => x \in N,
         \A x \in N : low <= x[1] /\ x[1] <= high => x \in M
  PROVE  RowsBetween(M, low, high) = RowsBetween(N, low, high)
<1>1. {y \in M : low <= y[1] /\ y[1] <= high} = {y \in N : low <= y[1] /\ y[1] <= high}
  OBVIOUS
<1> QED BY <1>1, Zenon DEF RowsBetween

\* Everything a generation of a range was ever given: what a tombstone must count.
Written(low, high) == RowsBetween({<<g, inserted[g]>> : g \in 1 .. issued}, low, high)

\* Rows committed with generations above a range are none of its rows.
LEMMA WrittenStands ==
  ASSUME NEW low \in Nat, NEW high \in Nat, issued \in Nat, issued' \in Nat, high < issued,
         issued <= issued',
         \A g \in 1 .. issued : g <= high => inserted'[g] = inserted[g]
  PROVE  Written(low, high)' = Written(low, high)
<1> DEFINE M == {<<g, inserted[g]>> : g \in 1 .. issued}
           N == {<<g, inserted'[g]>> : g \in 1 .. issued'}
<1>1. ASSUME NEW x \in M, low <= x[1] /\ x[1] <= high PROVE x \in N
  <2>1. PICK g \in 1 .. issued : x = <<g, inserted[g]>>
    OBVIOUS
  <2>2. g \in 1 .. issued' /\ inserted'[g] = inserted[g]
    BY <1>1, <2>1
  <2> QED BY <2>1, <2>2
<1>2. ASSUME NEW x \in N, low <= x[1] /\ x[1] <= high PROVE x \in M
  <2>1. PICK g \in 1 .. issued' : x = <<g, inserted'[g]>>
    OBVIOUS
  <2>2. g \in 1 .. issued /\ inserted'[g] = inserted[g]
    BY <1>2, <2>1
  <2> QED BY <2>1, <2>2
<1>3. RowsBetween(M, low, high) = RowsBetween(N, low, high)
  <2> HIDE DEF M, N
  <2> QED BY <1>1, <1>2, RowsAgree
<1>4. Written(low, high)' = RowsBetween(N, low, high)
  BY DEF Written, RowsBetween
<1> QED BY <1>3, <1>4 DEF Written

\* Every tombstone counts exactly the history rows that were ever committed with
\* the generations it names, and no row of a generation that is kept is lost: a
\* probe that writes during a sweep makes the sweep fail (prune, record_probe).
THEOREM ReceiptsCountAll == StoreSpec => []ReceiptsExact
<1> DEFINE Kept == \A g \in Ids : gens[g] = inserted[g]
           Counted == \A t \in tombs : t.rows = Cardinality(Written(t.low, t.high))
<1>1. StoreInit => Kept /\ Counted
  BY DEF StoreInit, Ids
<1>2. StoreInv /\ Kept /\ Counted /\ [StoreNext]_storeVars => Kept' /\ Counted'
  <2> SUFFICES ASSUME StoreInv, Kept, Counted, [StoreNext]_storeVars PROVE Kept' /\ Counted'
    OBVIOUS
  <2>0. StoreTypeOK /\ Newest /\ Accounted /\ issued \in Nat
    BY DEF StoreInv, StoreTypeOK
  \* a step that gives rows to kept or new generations only
  <2>1. ASSUME issued' \in Nat, issued <= issued',
               \A g \in 1 .. issued : g \notin Ids => inserted'[g] = inserted[g],
               NEW t \in tombs
        PROVE  t.rows = Cardinality(Written(t.low, t.high)')
    <3>1. t.low \in Nat /\ t.high \in Nat /\ t.high < issued
      BY <2>0 DEF StoreTypeOK, Newest
    <3>2. ASSUME NEW g \in 1 .. issued, g <= t.high PROVE g \notin Ids
      BY <2>0, <3>1, <3>2 DEF Newest
    <3>3. Written(t.low, t.high)' = Written(t.low, t.high)
      BY <2>0, <2>1, <3>1, <3>2, WrittenStands
    <3> QED BY <3>3
  <2>2. ASSUME NEW up \in SUBSET Reporters, NEW seen \in SUBSET Witnesses, PublishBatch(up, seen)
        PROVE  Kept' /\ Counted'
    <3>1. NextId = issued + 1 /\ issued' = issued + 1 /\ tombs' = tombs
      BY <2>0, <2>2, NextIdFresh DEF PublishBatch
    <3>2. inserted' = [g \in 1 .. issued + 1 |->
                         IF g = issued + 1 THEN 1 + Cardinality(up) + Cardinality(seen) ELSE inserted[g]]
      BY <2>2, <3>1 DEF PublishBatch
    <3>3. gens' = [g \in Ids \cup {issued + 1} |->
                     IF g = issued + 1 THEN 1 + Cardinality(up) + Cardinality(seen) ELSE gens[g]]
      BY <2>2, <3>1 DEF PublishBatch
    <3>4. Ids \subseteq 1 .. issued /\ Ids' = Ids \cup {issued + 1}
      BY <2>0, <2>2, PublishStep DEF Newest
    <3>5. Kept'
      BY <2>0, <3>2, <3>3, <3>4
    <3>6. Counted'
      BY <2>0, <2>1, <3>1, <3>2
    <3> QED BY <3>5, <3>6
  <2>3. ASSUME NEW low \in Doomed, NEW high \in Doomed, CommitSweep(low, high)
        PROVE  Kept' /\ Counted'
    <3> DEFINE tomb == [low |-> low, high |-> high, count |-> Excess,
                       rows |-> CountedRows(low, high)]
    <3>1. /\ tombs' = tombs \cup {tomb}
          /\ gens' = [g \in {x \in Ids : ~(low <= x /\ x <= high)} |-> gens[g]]
          /\ inserted' = inserted /\ issued' = issued
          /\ sweep = {<<g, gens[g]>> : g \in Ids}
      BY <2>3 DEF CommitSweep, SnapshotCurrent
    <3>2. Kept'
      BY <3>1 DEF Ids
    <3>3. /\ low \in Ids /\ Ids \subseteq 1 .. issued /\ low \in Nat
          /\ \A g \in 1 .. issued : g \notin Ids => g < low
      BY <2>0, <2>3, SweepStep DEF Newest, StoreTypeOK
    <3>4. RowsBetween(sweep, low, high) = Written(low, high)
      <4> DEFINE N == {<<g, inserted[g]>> : g \in 1 .. issued}
      <4>1. ASSUME NEW x \in sweep PROVE x \in N
        BY <3>1, <3>3
      <4>2. ASSUME NEW x \in N, low <= x[1] PROVE x \in sweep
        <5>1. PICK g \in 1 .. issued : x = <<g, inserted[g]>>
          OBVIOUS
        <5>2. g \in Ids
          BY <2>0, <3>3, <4>2, <5>1
        <5> QED BY <3>1, <5>1, <5>2
      <4>3. RowsBetween(sweep, low, high) = RowsBetween(N, low, high)
        <5> HIDE DEF N
        <5> QED BY <4>1, <4>2, RowsAgree
      <4> QED BY <4>3 DEF Written
    <3>5. tomb.low = low /\ tomb.high = high /\ tomb.rows = Cardinality(Written(low, high))
      BY <3>4 DEF CountedRows
    <3> HIDE DEF tomb
    <3>6. \A t \in tombs : Written(t.low, t.high)' = Written(t.low, t.high)
      BY <3>1 DEF Written, RowsBetween
    <3>7. Written(low, high)' = Written(low, high)
      BY <3>1 DEF Written, RowsBetween
    <3>8. Counted'
      BY <3>1, <3>5, <3>6, <3>7
    <3> QED BY <3>2, <3>8
  <2>4. CASE ProbeRecord
    <3>1. tombs' = tombs /\ issued' = issued
      BY <2>4 DEF ProbeRecord
    <3>2. CASE probe \in Ids
      <4>1. /\ gens' = [gens EXCEPT ![probe] = @ + 1]
            /\ inserted' = [inserted EXCEPT ![probe] = @ + 1]
            /\ probe \in 1 .. issued /\ Ids' = Ids
            /\ inserted \in [1 .. issued -> Nat] /\ Ids \subseteq 1 .. issued
        BY <2>0, <2>4, <3>2 DEF ProbeRecord, Newest, StoreTypeOK, Ids
      <4>2. Kept'
        BY <4>1 DEF Ids
      <4>3. \A g \in 1 .. issued : g \notin Ids => inserted'[g] = inserted[g]
        BY <3>2, <4>1
      <4> QED BY <2>0, <2>1, <3>1, <4>2, <4>3
    <3>3. CASE probe \notin Ids
      <4>1. gens' = gens /\ inserted' = inserted
        BY <2>4, <3>3 DEF ProbeRecord
      <4> QED BY <2>0, <2>1, <3>1, <4>1 DEF Ids
    <3> QED BY <3>2, <3>3
  <2>5. CASE UNCHANGED <<gens, tombs, issued, inserted>>
    BY <2>0, <2>1, <2>5 DEF Ids
  <2> QED BY <2>2, <2>3, <2>4, <2>5
          DEF StoreNext, storeVars, PullFails, PullAll, PublishFails, SkipPrune, BeginSweep, FailSweep,
              ProbeStart, Crash
<1>3. Kept /\ Counted => ReceiptsExact
  BY DEF ReceiptsExact, Written
<1> QED BY <1>1, <1>2, <1>3, Invariance, PTL DEF StoreSpec
-----------------------------------------------------------------------------
(***************************************************************************)
(* The watcher of the store's liveness artifact, for every choice of its   *)
(* four thresholds.                                                        *)
(***************************************************************************)
\* While the id that stalled is still the one on file, the age rule or the stuck
\* rule keeps firing on it.
StillStalled == stalled /\ ~new => age > MaxAge \/ run >= StuckAfter

WatchInv == SentinelTypeOK /\ StillStalled /\ NoFalseRecovery

\* What a poll computes is in range.
LEMMA PollTypes ==
  ASSUME SentinelTypeOK
  PROVE  RunAfter \in 0 .. StuckAfter /\ Observed \in States
<1>1. RunAfter \in 0 .. StuckAfter
  BY SentinelAssumption DEF SentinelTypeOK, RunAfter
<1>2. Classify \in States
  BY DEF Classify, States, Unhealthy
<1> QED BY <1>1, <1>2 DEF Observed, States

\* An alert is red, green or none.
LEMMA AlertType ==
  ASSUME NEW prev, NEW next
  PROVE  Alert(prev, next) \in {"nothing", "red", "green"}
BY DEF Alert

\* A sentinel that starts satisfies the invariant.
LEMMA WatchInit == SentinelInit => WatchInv
<1> SUFFICES ASSUME SentinelInit PROVE WatchInv
  OBVIOUS
<1>1. 0 \in 0 .. StuckAfter /\ 0 \in 0 .. Grace /\ 0 \in 0 .. PollEvery
  BY SentinelAssumption
<1>2. SentinelTypeOK
  BY <1>1 DEF SentinelInit, SentinelTypeOK, States
<1>3. StillStalled /\ NoFalseRecovery
  BY DEF SentinelInit, StillStalled, NoFalseRecovery
<1> QED BY <1>2, <1>3 DEF WatchInv

\* Every step of the sentinel, and of what it watches, is well typed.
LEMMA WatchTypes ==
  ASSUME SentinelTypeOK, [SentinelNext]_sentinelVars
  PROVE  SentinelTypeOK'
<1>1. CASE Write
  BY <1>1, SentinelAssumption DEF Write, SentinelTypeOK, Found, Ages
<1>2. CASE \E found \in Found : Disturb(found)
  BY <1>2 DEF Disturb, SentinelTypeOK
<1>3. CASE \E a \in Ages : ClockStep(a)
  BY <1>3 DEF ClockStep, SentinelTypeOK
<1>4. CASE ChannelFlips
  BY <1>4 DEF ChannelFlips, SentinelTypeOK
<1>5. CASE Tick
  <2>1. age' \in Ages /\ elapsed' \in 0 .. Grace /\ wait' \in 0 .. PollEvery
    BY <1>5, SentinelAssumption DEF Tick, SentinelTypeOK, Ages
  <2> QED BY <1>5, <2>1 DEF Tick, SentinelTypeOK
<1>6. CASE Poll
  <2>1. run' \in 0 .. StuckAfter /\ state' \in States
    BY <1>6, PollTypes DEF Poll
  <2>2. told' \in {"nothing", "red", "green"}
    BY <1>6, AlertType DEF Poll, SentinelTypeOK
  <2>3. new' \in BOOLEAN /\ stalled' \in BOOLEAN
    BY <1>6 DEF Poll, SentinelTypeOK
  <2>4. wait' \in 0 .. PollEvery
    BY <1>6, SentinelAssumption DEF Poll
  <2>5. UNCHANGED <<reach, age, elapsed, channel>>
    BY <1>6 DEF Poll
  <2> QED BY <2>1, <2>2, <2>3, <2>4, <2>5 DEF SentinelTypeOK
<1>7. CASE Restart
  <2>1. 0 \in 0 .. StuckAfter /\ 0 \in 0 .. Grace /\ 0 \in 0 .. PollEvery
    BY SentinelAssumption
  <2> QED BY <1>7, <2>1 DEF Restart, SentinelTypeOK, States
<1>8. CASE UNCHANGED sentinelVars
  BY <1>8 DEF sentinelVars, SentinelTypeOK
<1> QED BY <1>1, <1>2, <1>3, <1>4, <1>5, <1>6, <1>7, <1>8 DEF SentinelNext

\* A poll that reads a stalled id calls it stalled again.
LEMMA PollStep ==
  ASSUME SentinelTypeOK, StillStalled, stalled => state # "Healthy", Poll
  PROVE  StillStalled' /\ (stalled' => state' # "Healthy")
<1>1. /\ run' = RunAfter /\ state' = Observed /\ age' = age /\ reach' = reach
      /\ new' = (IF reach = "ok" THEN FALSE ELSE new)
      /\ stalled' = (\/ Observed \in {"Stale", "Stuck"}
                     \/ stalled /\ ~(reach = "ok" /\ new))
  BY DEF Poll
<1>2. age \in Nat /\ MaxAge \in Nat /\ run \in 0 .. StuckAfter /\ StuckAfter \in Nat \ {0}
  BY SentinelAssumption DEF SentinelTypeOK, Ages
<1>3. CASE reach # "ok"
  <2>1. Observed \in {"Starting", "Missing", "Malformed"}
    BY <1>3 DEF Observed, Classify, InGrace, SentinelTypeOK, Found
  <2>2. run' = run /\ new' = new /\ stalled' = stalled
    BY <1>1, <1>3, <2>1 DEF RunAfter, SentinelTypeOK
  <2> QED BY <1>1, <2>1, <2>2 DEF StillStalled
<1>4. CASE reach = "ok"
  <2>1. Observed = Classify
    BY <1>4 DEF Observed, InGrace
  <2>2. CASE age > MaxAge
    <3>1. Observed = "Stale"
      BY <1>2, <1>4, <2>1, <2>2 DEF Classify
    <3> QED BY <1>1, <2>2, <3>1 DEF StillStalled
  <2>3. CASE age <= MaxAge /\ RunAfter >= StuckAfter
    <3>1. Observed = "Stuck"
      BY <1>2, <1>4, <2>1, <2>3 DEF Classify
    <3> QED BY <1>1, <2>3, <3>1 DEF StillStalled
  <2>4. CASE age <= MaxAge /\ ~(RunAfter >= StuckAfter)
    <3>1. Observed = "Healthy"
      BY <1>2, <1>4, <2>1, <2>4 DEF Classify
    <3>2. CASE new
      <4>1. stalled' = FALSE
        BY <1>1, <1>4, <3>1, <3>2
      <4> QED BY <4>1 DEF StillStalled
    <3>3. CASE ~new
      <4>1. ~(run >= StuckAfter)
        BY <1>2, <1>4, <2>4, <3>3 DEF RunAfter
      <4>2. ~stalled
        BY <1>2, <2>4, <3>3, <4>1 DEF StillStalled
      <4>3. stalled' = FALSE
        BY <1>1, <3>1, <4>2
      <4> QED BY <4>3 DEF StillStalled
    <3> QED BY <3>2, <3>3
  <2> QED BY <1>2, <2>2, <2>3, <2>4
<1> QED BY <1>3, <1>4

\* Every step keeps the invariant of the sentinel.
LEMMA WatchStep == WatchInv /\ [SentinelNext]_sentinelVars => WatchInv'
<1> SUFFICES ASSUME WatchInv, [SentinelNext]_sentinelVars PROVE WatchInv'
  OBVIOUS
<1>0. SentinelTypeOK /\ SentinelTypeOK'
  BY WatchTypes DEF WatchInv
<1> SUFFICES StillStalled' /\ (stalled' => state' # "Healthy")
  BY <1>0 DEF WatchInv, NoFalseRecovery
<1>a. StillStalled /\ (stalled => state # "Healthy")
  BY DEF WatchInv, NoFalseRecovery
<1>1. CASE Write
  BY <1>1, <1>a DEF Write, StillStalled
<1>2. CASE \E found \in Found : Disturb(found)
  BY <1>2, <1>a DEF Disturb, StillStalled
<1>3. CASE \E a \in Ages : ClockStep(a)
  BY <1>3 DEF ClockStep, StillStalled
<1>4. CASE ChannelFlips
  BY <1>4, <1>a DEF ChannelFlips, StillStalled
<1>5. CASE Tick
  <2>1. age > MaxAge => age' > MaxAge
    BY <1>5 DEF Tick
  <2> QED BY <1>5, <1>a, <2>1 DEF Tick, StillStalled
<1>6. CASE Poll
  BY <1>0, <1>6, <1>a, PollStep
<1>7. CASE Restart
  BY <1>7 DEF Restart, StillStalled
<1>8. CASE UNCHANGED sentinelVars
  BY <1>8, <1>a DEF sentinelVars, StillStalled
<1> QED BY <1>1, <1>2, <1>3, <1>4, <1>5, <1>6, <1>7, <1>8 DEF SentinelNext

\* The invariant of the sentinel holds throughout.
LEMMA WatchInvariance == SentinelSpec => []WatchInv
BY WatchInit, WatchStep, PTL DEF SentinelSpec

\* The sentinel's state is well typed.
THEOREM WatchTypeCorrect == SentinelSpec => []SentinelTypeOK
BY WatchInvariance, PTL DEF WatchInv

\* No false recovery (run, classify): for every max age, grace period, poll
\* interval and stuck threshold, silence that was noticed stays noticed until a
\* new generation id is read.
THEOREM SilenceStaysNoticed == SentinelSpec => []NoFalseRecovery
BY WatchInvariance, PTL DEF WatchInv
=============================================================================
