------------------------- MODULE FindingRowsProofs -------------------------
(***************************************************************************)
(* Lemmas about the stages of the lifecycle transaction: each one returns  *)
(* a table of lifecycle rows, says which rows survive it, and what it may  *)
(* change in them.                                                         *)
(***************************************************************************)
EXTENDS FindingRows, Sequences, FiniteSetTheorems, WellFoundedInduction, TLAPS

\* What the detectors hand to the lifecycle pass.
IsFiring(fired) ==
  /\ DOMAIN fired \subseteq Keys
  /\ fired \in [DOMAIN fired -> Emissions]
-----------------------------------------------------------------------------
(***************************************************************************)
(* Rows.                                                                   *)
(***************************************************************************)

\* compute_severity returns one of the three severities.
LEMMA SeverityType ==
  ASSUME NEW k, NEW e, NEW streak
  PROVE  Severity(k, e, streak) \in Severities
BY DEF Severity, Severities

\* An inserted row is observed and stamped with its generation.
LEMMA FreshRowFacts ==
  ASSUME NEW k \in Keys, NEW e \in Emissions, NEW g \in Nat, NEW retired
  PROVE  /\ FreshRow(k, e, g, retired) \in Row
         /\ FreshRow(k, e, g, retired).vis = "observed"
         /\ FreshRow(k, e, g, retired).lastSeen = g
         /\ FreshRow(k, e, g, retired).gone = 0
<1>1. BasisOf(k, retired) \in {"live", "unknown", "retired"}
  BY DEF BasisOf
<1>2. e.hash \in RuleHashes \cup {None}
  BY DEF Emissions
<1>3. FreshRow(k, e, g, retired) \in Row
  BY <1>1, <1>2, SeverityType DEF FreshRow, Row, WorkStates
<1> QED BY <1>3 DEF FreshRow

\* So is an updated row; its streak is NextStreak.
LEMMA RefireFacts ==
  ASSUME NEW r \in Row, NEW k \in Keys, NEW e \in Emissions, NEW g \in Nat, NEW retired
  PROVE  /\ Refire(r, k, e, g, retired) \in Row
         /\ Refire(r, k, e, g, retired).vis = "observed"
         /\ Refire(r, k, e, g, retired).lastSeen = g
         /\ Refire(r, k, e, g, retired).gone = r.gone
         /\ Refire(r, k, e, g, retired).streak = NextStreak(r, e, g)
<1>1. NextStreak(r, e, g) \in Nat
  BY DEF NextStreak, Row
<1>2. BasisOf(k, retired) \in {"live", "unknown", "retired"}
  BY DEF BasisOf
<1>3. e.hash \in RuleHashes \cup {None}
  BY DEF Emissions
<1> QED BY <1>1, <1>2, <1>3, SeverityType DEF Refire, Row

\* Masking hides a row under its ancestor and touches no counter.
LEMMA SuppressRowFacts ==
  ASSUME NEW r \in Row, NEW g \in Nat,
         NEW reason \in Reasons
  PROVE  /\ SuppressRow(r, reason, g) \in Row
         /\ SuppressRow(r, reason, g).vis = "suppressed"
         /\ SuppressRow(r, reason, g).skind = "ancestor_loss"
         /\ SuppressRow(r, reason, g).streak = r.streak
         /\ SuppressRow(r, reason, g).lastSeen = r.lastSeen
         /\ SuppressRow(r, reason, g).gone = r.gone
<1>1. (IF r.since = 0 THEN g ELSE r.since) \in Nat
  BY DEF Row
<1> QED BY <1>1 DEF SuppressRow, Row

\* A released row is well typed.
LEMMA ReleaseRowType ==
  ASSUME NEW r \in Row, NEW active
  PROVE  ReleaseRow(r, active) \in Row
<1>1. CASE r.skind = "operator_declaration" /\ r.sdecl \notin ActiveIds(active)
  BY <1>1 DEF ReleaseRow, Row
<1>2. CASE ~(r.skind = "operator_declaration" /\ r.sdecl \notin ActiveIds(active))
  BY <1>2 DEF ReleaseRow
<1> QED BY <1>1, <1>2

\* A withdrawn row is well typed.
LEMMA WithdrawRowType ==
  ASSUME NEW r \in Row, NEW d \in Declarations, NEW g \in Nat
  PROVE  WithdrawRow(r, d, g) \in Row
BY DEF WithdrawRow, Row

\* TTL expiry touches the work columns only.
LEMMA ExpireRowFacts ==
  ASSUME NEW r \in Row, NEW now
  PROVE  /\ ExpireRow(r, now) \in Row
         /\ ExpireRow(r, now).vis = r.vis
         /\ ExpireRow(r, now).streak = r.streak
         /\ ExpireRow(r, now).lastSeen = r.lastSeen
         /\ ExpireRow(r, now).skind = r.skind
         /\ ExpireRow(r, now).gone = r.gone
<1>0. (IF r.work = "acknowledged" THEN FALSE ELSE r.acked) \in BOOLEAN
  BY DEF Row
<1>1. CASE TtlExpired(r, now)
  <2>1. ASSUME NEW b \in BOOLEAN
        PROVE  LET x == [r EXCEPT !.work = "new", !.acked = b, !.expires = 0]
               IN  /\ x \in Row
                   /\ x.vis = r.vis /\ x.streak = r.streak /\ x.lastSeen = r.lastSeen
                   /\ x.skind = r.skind /\ x.gone = r.gone
    BY DEF Row, WorkStates
  <2> QED BY <1>0, <1>1, <2>1 DEF ExpireRow
<1>2. CASE ~TtlExpired(r, now)
  BY <1>2 DEF ExpireRow
<1> QED BY <1>1, <1>2
-----------------------------------------------------------------------------
(***************************************************************************)
(* Tables.                                                                 *)
(***************************************************************************)

\* A row of a table is a row.
LEMMA TableRow ==
  ASSUME NEW t, IsTable(t), NEW k \in DOMAIN t
  PROVE  t[k] \in Row /\ k \in Keys
BY DEF IsTable

\* The upsert returns a table.
LEMMA UpsertedTable ==
  ASSUME NEW t, IsTable(t), NEW fired, IsFiring(fired), NEW g \in Nat, NEW retired
  PROVE  IsTable(Upserted(t, fired, g, retired))
<1> DEFINE u == Upserted(t, fired, g, retired)
<1>1. DOMAIN u = DOMAIN t \cup DOMAIN fired
  BY DEF Upserted
<1>2. \A k \in DOMAIN fired : fired[k] \in Emissions /\ k \in Keys
  BY DEF IsFiring
<1>3. ASSUME NEW k \in DOMAIN u
      PROVE  u[k] \in Row
  <2>1. CASE k \notin DOMAIN fired
    BY <1>1, <2>1, TableRow DEF Upserted
  <2>2. CASE k \in DOMAIN fired /\ k \in DOMAIN t
    BY <1>2, <2>2, TableRow, RefireFacts DEF Upserted
  <2>3. CASE k \in DOMAIN fired /\ k \notin DOMAIN t
    BY <1>2, <2>3, FreshRowFacts DEF Upserted
  <2> QED BY <1>1, <2>1, <2>2, <2>3
<1>4. DOMAIN u \subseteq Keys
  BY <1>1 DEF IsTable, IsFiring
<1>5. u \in [DOMAIN u -> Row]
  BY <1>3 DEF Upserted
<1> QED BY <1>4, <1>5 DEF IsTable

\* A fired identity has an observed row, stamped with the generation.
LEMMA UpsertedFired ==
  ASSUME NEW t, IsTable(t), NEW fired, IsFiring(fired), NEW g \in Nat, NEW retired,
         NEW k \in DOMAIN fired
  PROVE  /\ k \in DOMAIN Upserted(t, fired, g, retired)
         /\ Upserted(t, fired, g, retired)[k].vis = "observed"
         /\ Upserted(t, fired, g, retired)[k].lastSeen = g
<1>1. fired[k] \in Emissions /\ k \in Keys
  BY DEF IsFiring
<1>2. CASE k \in DOMAIN t
  BY <1>1, <1>2, TableRow, RefireFacts DEF Upserted
<1>3. CASE k \notin DOMAIN t
  BY <1>1, <1>3, FreshRowFacts DEF Upserted
<1> QED BY <1>2, <1>3

\* A row that was there is updated if it fired, and kept if it did not.
LEMMA UpsertedOld ==
  ASSUME NEW t, NEW fired, NEW g, NEW retired, NEW k \in DOMAIN t
  PROVE  /\ k \notin DOMAIN fired => Upserted(t, fired, g, retired)[k] = t[k]
         /\ k \in DOMAIN fired =>
              Upserted(t, fired, g, retired)[k] = Refire(t[k], k, fired[k], g, retired)
BY DEF Upserted

\* A masked identity has a first matching rule, and its reason is one of ours.
LEMMA MaskingReasonType ==
  ASSUME NEW u, NEW k, Masked(u, k)
  PROVE  MaskingReason(u, k) \in Reasons
<1> DEFINE S == RulesFor(u, k)
           first == CHOOSE i \in S : \A j \in S : i <= j
<1>1. S \subseteq {1, 2, 3, 4} /\ S # {}
  BY DEF Masked, RulesFor
<1>2. \E i \in S : \A j \in S : i <= j
  <2> HIDE DEF S
  <2>1. CASE 1 \in S BY <2>1, <1>1
  <2>2. CASE 1 \notin S /\ 2 \in S BY <2>2, <1>1
  <2>3. CASE 1 \notin S /\ 2 \notin S /\ 3 \in S BY <2>3, <1>1
  <2>4. CASE S = {4} BY <2>4
  <2> QED BY <1>1, <2>1, <2>2, <2>3, <2>4
<1>3. first \in S
  <2> HIDE DEF S
  <2> QED BY <1>2
<1>4. first \in {1, 2, 3, 4}
  <2> HIDE DEF first, S
  <2> QED BY <1>1, <1>3
<1>5. \A i \in {1, 2, 3, 4} : MaskingRules[i].reason \in Reasons
  BY DEF MaskingRules, Reasons
<1> QED BY <1>4, <1>5 DEF MaskingReason

\* Masking and recovery: which rows survive, and that no counter but
\* absent_gens moves.
LEMMA AgedFacts ==
  ASSUME NEW u, IsTable(u), NEW fired, NEW g \in Nat
  PROVE  LET a == Aged(u, fired, g)
         IN  /\ IsTable(a)
             /\ \A k : k \in DOMAIN a <=> k \in DOMAIN u /\ ~Cleared(u, fired, k)
             /\ \A k \in DOMAIN a :
                  /\ a[k].streak = u[k].streak
                  /\ a[k].lastSeen = u[k].lastSeen
                  /\ a[k].gone = u[k].gone
                  /\ k \in DOMAIN fired => a[k] = u[k]
                  /\ k \notin DOMAIN fired /\ Masked(u, k) =>
                       a[k].vis = "suppressed" /\ a[k].skind = "ancestor_loss"
<1> DEFINE a == Aged(u, fired, g)
<1>1. \A k : k \in DOMAIN a <=> k \in DOMAIN u /\ ~Cleared(u, fired, k)
  BY DEF Aged
<1>2. ASSUME NEW k \in DOMAIN a
      PROVE  /\ a[k] \in Row
             /\ a[k].streak = u[k].streak
             /\ a[k].lastSeen = u[k].lastSeen
             /\ a[k].gone = u[k].gone
             /\ k \in DOMAIN fired => a[k] = u[k]
             /\ k \notin DOMAIN fired /\ Masked(u, k) =>
                  a[k].vis = "suppressed" /\ a[k].skind = "ancestor_loss"
  <2>0. u[k] \in Row /\ k \in DOMAIN u
    BY <1>1, TableRow
  <2>1. CASE k \in DOMAIN fired
    <3>1. a[k] = u[k]
      BY <2>1, <1>1 DEF Aged
    <3> QED BY <3>1, <2>0, <2>1
  <2>2. CASE k \notin DOMAIN fired /\ Masked(u, k)
    <3>1. a[k] = SuppressRow(u[k], MaskingReason(u, k), g)
      BY <2>2, <1>1 DEF Aged
    <3> QED BY <3>1, <2>0, <2>2, MaskingReasonType, SuppressRowFacts
  <2>3. CASE k \notin DOMAIN fired /\ ~Masked(u, k)
    <3>1. a[k] = [u[k] EXCEPT !.absent = u[k].absent + 1]
      BY <2>3, <1>1 DEF Aged
    <3>2. ASSUME NEW r \in Row
          PROVE  LET x == [r EXCEPT !.absent = r.absent + 1]
                 IN  /\ x \in Row /\ x.streak = r.streak
                     /\ x.lastSeen = r.lastSeen /\ x.gone = r.gone
      BY DEF Row
    <3> QED BY <3>1, <3>2, <2>0, <2>3
  <2> QED BY <2>1, <2>2, <2>3
<1>3. IsTable(a)
  <2>1. DOMAIN a \subseteq Keys
    BY <1>1 DEF IsTable
  <2>2. a \in [DOMAIN a -> Row]
    BY <1>2 DEF Aged
  <2> QED BY <2>1, <2>2 DEF IsTable
<1> QED BY <1>1, <1>2, <1>3

\* Entity GC deletes the rows past the threshold and changes only the counter
\* of the others.
LEMMA CollectedFacts ==
  ASSUME NEW t, IsTable(t), NEW present, NEW reported
  PROVE  LET c == Collected(t, present, reported)
             gone(k) == GoneGens(t[k], HostOf(k), present, reported)
         IN  /\ IsTable(c)
             /\ \A k : k \in DOMAIN c <=> k \in DOMAIN t /\ gone(k) <= EntityGcThreshold
             /\ \A k \in DOMAIN c :
                  /\ c[k].gone = gone(k)
                  /\ c[k].streak = t[k].streak
                  /\ c[k].lastSeen = t[k].lastSeen
                  /\ c[k].vis = t[k].vis
                  /\ c[k].skind = t[k].skind
<1> DEFINE c == Collected(t, present, reported)
           gone(k) == GoneGens(t[k], HostOf(k), present, reported)
<1>1. \A k : k \in DOMAIN c <=> k \in DOMAIN t /\ gone(k) <= EntityGcThreshold
  BY DEF Collected
<1>2. ASSUME NEW r \in Row, NEW n \in Nat
      PROVE  LET x == [r EXCEPT !.gone = n]
             IN  /\ x \in Row /\ x.gone = n /\ x.streak = r.streak
                 /\ x.lastSeen = r.lastSeen /\ x.vis = r.vis /\ x.skind = r.skind
  BY DEF Row
<1>3. \A k \in DOMAIN t : gone(k) \in Nat
  <2>1. ASSUME NEW k \in DOMAIN t
        PROVE  gone(k) \in Nat
    <3>1. t[k].gone \in Nat
      BY TableRow DEF Row
    <3> QED BY <3>1 DEF GoneGens
  <2> QED BY <2>1
<1>4. \A k \in DOMAIN c : k \in DOMAIN t /\ c[k] = [t[k] EXCEPT !.gone = gone(k)]
  BY DEF Collected
<1>5. ASSUME NEW k \in DOMAIN c
      PROVE  /\ c[k] \in Row /\ c[k].gone = gone(k) /\ c[k].streak = t[k].streak
             /\ c[k].lastSeen = t[k].lastSeen /\ c[k].vis = t[k].vis
             /\ c[k].skind = t[k].skind
  <2>1. k \in DOMAIN t /\ t[k] \in Row /\ gone(k) \in Nat
    BY <1>3, <1>4, TableRow
  <2>2. c[k] = [t[k] EXCEPT !.gone = gone(k)]
    BY <1>4
  <2> HIDE DEF c, gone
  <2> QED BY <2>1, <2>2, <1>2
<1>6. IsTable(c)
  <2>1. DOMAIN c \subseteq Keys
    BY <1>1 DEF IsTable
  <2>2. c \in [DOMAIN c -> Row]
    BY <1>5 DEF Collected
  <2> QED BY <2>1, <2>2 DEF IsTable
<1> QED BY <1>1, <1>5, <1>6

\* The whole inner pass: which rows survive, and what it tells of them.
LEMMA InnerFacts ==
  ASSUME NEW t, IsTable(t), NEW fired, IsFiring(fired), NEW g \in Nat,
         NEW retired, NEW now, NEW present, NEW reported
  PROVE  LET n == Inner(t, fired, g, retired, now, present, reported)
             u == Upserted(t, fired, g, retired)
         IN  /\ IsTable(n)
             /\ DOMAIN n \subseteq DOMAIN t \cup DOMAIN fired
             /\ \A k \in DOMAIN n :
                  /\ n[k].gone <= EntityGcThreshold
                  /\ n[k].streak = u[k].streak
                  /\ k \in DOMAIN fired => n[k].lastSeen = g
                  /\ k \notin DOMAIN fired /\ Masked(u, k) =>
                       n[k].vis = "suppressed" /\ n[k].skind = "ancestor_loss"
             /\ \A k \in (DOMAIN t \cup DOMAIN fired) \ DOMAIN n :
                  Cleared(u, fired, k) \/ (u[k].gone <= EntityGcThreshold => HostOf(k) \notin present)
<1> DEFINE u == Upserted(t, fired, g, retired)
           a == Aged(u, fired, g)
           x == [k \in DOMAIN a |-> ExpireRow(a[k], now)]
           n == Collected(x, present, reported)
           gone(k) == GoneGens(x[k], HostOf(k), present, reported)
<1>1. /\ IsTable(u)
      /\ DOMAIN u = DOMAIN t \cup DOMAIN fired
      /\ \A k \in DOMAIN fired : u[k].lastSeen = g
  <2>1. IsTable(u)
    BY UpsertedTable
  <2>2. DOMAIN u = DOMAIN t \cup DOMAIN fired
    BY DEF Upserted
  <2>3. ASSUME NEW k \in DOMAIN fired PROVE u[k].lastSeen = g
    BY UpsertedFired
  <2> QED BY <2>1, <2>2, <2>3
<1> HIDE DEF u
<1>2. /\ IsTable(a)
      /\ \A k : k \in DOMAIN a <=> k \in DOMAIN u /\ ~Cleared(u, fired, k)
      /\ \A k \in DOMAIN a :
           /\ a[k].streak = u[k].streak
           /\ a[k].lastSeen = u[k].lastSeen
           /\ a[k].gone = u[k].gone
           /\ k \in DOMAIN fired => a[k] = u[k]
           /\ k \notin DOMAIN fired /\ Masked(u, k) =>
                a[k].vis = "suppressed" /\ a[k].skind = "ancestor_loss"
  <2>1. IsTable(u)
    BY <1>1
  <2> QED BY <2>1, AgedFacts
<1> HIDE DEF a
<1>3. ASSUME NEW k \in DOMAIN a
      PROVE  /\ x[k] \in Row /\ x[k].vis = a[k].vis /\ x[k].streak = a[k].streak
             /\ x[k].lastSeen = a[k].lastSeen /\ x[k].skind = a[k].skind
             /\ x[k].gone = a[k].gone
  BY <1>2, TableRow, ExpireRowFacts
<1>4. IsTable(x) /\ DOMAIN x = DOMAIN a
  BY <1>2, <1>3 DEF IsTable
<1> HIDE DEF x
<1>5. /\ IsTable(n)
      /\ \A k : k \in DOMAIN n <=> k \in DOMAIN x /\ gone(k) <= EntityGcThreshold
      /\ \A k \in DOMAIN n :
           /\ n[k].gone = gone(k)
           /\ n[k].streak = x[k].streak
           /\ n[k].lastSeen = x[k].lastSeen
           /\ n[k].vis = x[k].vis
           /\ n[k].skind = x[k].skind
  <2>1. IsTable(x)
    BY <1>4
  <2> QED BY <2>1, CollectedFacts
<1>6. Inner(t, fired, g, retired, now, present, reported) = n
  BY DEF Inner, x, a, u
<1>7. ASSUME NEW k \in DOMAIN x, u[k].gone <= EntityGcThreshold, HostOf(k) \in present
      PROVE  gone(k) <= EntityGcThreshold
  BY <1>2, <1>3, <1>4, <1>7, ConstantsAssumption DEF GoneGens
<1> HIDE DEF n, gone
<1>8. \A k \in DOMAIN n :
        /\ n[k].gone <= EntityGcThreshold
        /\ n[k].streak = u[k].streak
        /\ k \in DOMAIN fired => n[k].lastSeen = g
        /\ k \notin DOMAIN fired /\ Masked(u, k) =>
             n[k].vis = "suppressed" /\ n[k].skind = "ancestor_loss"
  BY <1>1, <1>2, <1>3, <1>4, <1>5
<1>9. \A k \in (DOMAIN t \cup DOMAIN fired) \ DOMAIN n :
        Cleared(u, fired, k) \/ (u[k].gone <= EntityGcThreshold => HostOf(k) \notin present)
  BY <1>1, <1>2, <1>4, <1>5, <1>7
<1> QED BY <1>1, <1>2, <1>4, <1>5, <1>6, <1>8, <1>9 DEF u

\* A nonempty set of positions of a sequence has a last one.
LEMMA LastPosition ==
  ASSUME NEW n \in Nat, NEW w \in SUBSET (1..n), w # {}
  PROVE  \E i \in w : \A j \in w : j <= i
<1> DEFINE T == {n - i : i \in w}
<1>1. T \subseteq Nat /\ T # {}
  <2>1. \A i \in w : n - i \in Nat
    OBVIOUS
  <2> QED BY <2>1
<1>2. \E m \in T : \A y \in T : ~(<<y, m>> \in OpToRel(<, Nat))
  BY <1>1, WFMin, NatLessThanWellFounded
<1>3. PICK m \in T : \A y \in T : ~(<<y, m>> \in OpToRel(<, Nat))
  BY <1>2
<1>4. \A y \in T : m <= y
  <2>1. \A y, z \in Nat : y < z => <<y, z>> \in OpToRel(<, Nat)
    BY DEF OpToRel
  <2>2. \A y \in T : y \in Nat /\ m \in Nat /\ ~(y < m)
    BY <1>1, <1>3, <2>1
  <2> QED BY <2>2
<1>5. PICK i \in w : m = n - i
  OBVIOUS
<1>6. \A j \in w : n - i <= n - j
  BY <1>4, <1>5
<1> QED BY <1>6

\* The declaration overlay keeps the rows and their counters, lifts no
\* suppression but its own, and attributes a row only to a declaration of
\* the list it was given.
LEMMA OverlayFacts ==
  ASSUME NEW t, IsTable(t), NEW active \in Seq(Declaration), NEW g \in Nat
  PROVE  LET o == DeclarationOverlay(t, active, g)
         IN  /\ IsTable(o)
             /\ DOMAIN o = DOMAIN t
             /\ \A k \in DOMAIN t :
                  /\ o[k].streak = t[k].streak
                  /\ o[k].lastSeen = t[k].lastSeen
                  /\ o[k].gone = t[k].gone
                  /\ t[k].vis = "suppressed" /\ t[k].skind = "ancestor_loss" =>
                       o[k].vis = "suppressed"
                  /\ o[k].skind = "operator_declaration" => o[k].sdecl \in ActiveIds(active)
<1> DEFINE o == DeclarationOverlay(t, active, g)
<1>1. DOMAIN o = DOMAIN t
  BY DEF DeclarationOverlay
<1>2. ASSUME NEW r \in Row
      PROVE  LET x == ReleaseRow(r, active)
             IN  /\ x \in Row
                 /\ x.streak = r.streak /\ x.lastSeen = r.lastSeen /\ x.gone = r.gone
                 /\ r.vis = "suppressed" /\ r.skind = "ancestor_loss" => x.vis = "suppressed"
                 /\ x.skind = "operator_declaration" => x.sdecl \in ActiveIds(active)
  <2>1. CASE r.skind = "operator_declaration" /\ r.sdecl \notin ActiveIds(active)
    <3> DEFINE x == [r EXCEPT !.vis = "observed", !.skind = None, !.sdecl = None,
                              !.reason = None, !.since = 0]
    <3>1. ReleaseRow(r, active) = x
      BY <2>1 DEF ReleaseRow
    <3>2. x.streak = r.streak /\ x.lastSeen = r.lastSeen /\ x.gone = r.gone /\ x.skind = None
      BY DEF Row
    <3> HIDE DEF x
    <3> QED BY <2>1, <3>1, <3>2, ReleaseRowType DEF None
  <2>2. CASE ~(r.skind = "operator_declaration" /\ r.sdecl \notin ActiveIds(active))
    BY <2>2 DEF ReleaseRow
  <2> QED BY <2>1, <2>2
<1>3. ASSUME NEW r \in Row, NEW d \in Declarations
      PROVE  LET x == WithdrawRow(r, d, g)
             IN  /\ x \in Row
                 /\ x.streak = r.streak /\ x.lastSeen = r.lastSeen /\ x.gone = r.gone
                 /\ x.vis = "suppressed" /\ x.sdecl = d
  <2>1. WithdrawRow(r, d, g) \in Row
    BY WithdrawRowType
  <2> QED BY <2>1 DEF WithdrawRow, Row
<1>4. ASSUME NEW k \in DOMAIN t
      PROVE  /\ o[k] \in Row
             /\ o[k].streak = t[k].streak
             /\ o[k].lastSeen = t[k].lastSeen
             /\ o[k].gone = t[k].gone
             /\ t[k].vis = "suppressed" /\ t[k].skind = "ancestor_loss" =>
                  o[k].vis = "suppressed"
             /\ o[k].skind = "operator_declaration" => o[k].sdecl \in ActiveIds(active)
  <2> DEFINE w == Withdrawing(active, HostOf(k))
             last == CHOOSE i \in w : \A j \in w : j <= i
             r == ReleaseRow(t[k], active)
  <2>0. t[k] \in Row
    BY TableRow
  <2>1. CASE w = {}
    <3>1. o[k] = r
      BY <2>1 DEF DeclarationOverlay
    <3> QED BY <2>0, <3>1, <1>2
  <2>2. CASE w # {}
    <3>1. o[k] = WithdrawRow(r, active[last].id, g)
      BY <2>2 DEF DeclarationOverlay
    <3>2. Len(active) \in Nat /\ w \in SUBSET (1..Len(active))
      BY DEF Withdrawing
    <3>3. last \in w
      <4>1. \E i \in w : \A j \in w : j <= i
        BY <3>2, <2>2, LastPosition
      <4> HIDE DEF w
      <4> QED BY <4>1
    <3>4. last \in DOMAIN active
      BY <3>3 DEF Withdrawing
    <3>5. active[last].id \in Declarations /\ active[last].id \in ActiveIds(active)
      <4> HIDE DEF last
      <4>1. active[last] \in Declaration
        BY <3>4
      <4> QED BY <3>4, <4>1 DEF ActiveIds, Declaration
    <3> HIDE DEF last, w, o
    <3> QED BY <2>0, <3>1, <3>5, <1>2, <1>3
  <2> QED BY <2>1, <2>2
<1>5. IsTable(o)
  <2>1. o \in [DOMAIN o -> Row]
    BY <1>1, <1>4 DEF DeclarationOverlay
  <2> QED BY <1>1, <2>1 DEF IsTable
<1> QED BY <1>1, <1>4, <1>5

\* The maintenance overlay writes its own column only.
LEMMA MaintenanceFacts ==
  ASSUME NEW t, IsTable(t), NEW windows, NEW now
  PROVE  LET o == MaintenanceOverlay(t, windows, now)
         IN  /\ IsTable(o)
             /\ DOMAIN o = DOMAIN t
             /\ \A k \in DOMAIN t :
                  /\ o[k].streak = t[k].streak /\ o[k].lastSeen = t[k].lastSeen
                  /\ o[k].gone = t[k].gone /\ o[k].vis = t[k].vis
                  /\ o[k].skind = t[k].skind /\ o[k].sdecl = t[k].sdecl
<1> DEFINE o == MaintenanceOverlay(t, windows, now)
<1>1. DOMAIN o = DOMAIN t
  BY DEF MaintenanceOverlay
<1>2. \A k \in DOMAIN t : \E v \in {None, "covered", "overrun"} :
        o[k] = [t[k] EXCEPT !.maint = v]
  BY DEF MaintenanceOverlay
<1> HIDE DEF o
<1>4. ASSUME NEW k \in DOMAIN t
      PROVE  /\ o[k] \in Row
             /\ o[k].streak = t[k].streak /\ o[k].lastSeen = t[k].lastSeen
             /\ o[k].gone = t[k].gone /\ o[k].vis = t[k].vis
             /\ o[k].skind = t[k].skind /\ o[k].sdecl = t[k].sdecl
  <2>1. PICK v \in {None, "covered", "overrun"} : o[k] = [t[k] EXCEPT !.maint = v]
    BY <1>2
  <2>2. t[k] \in Row
    BY TableRow
  <2> DEFINE r == t[k]
  <2>3. r \in Row /\ o[k] = [r EXCEPT !.maint = v]
    BY <2>1, <2>2
  <2> HIDE DEF r
  <2>4. /\ [r EXCEPT !.maint = v] \in Row
        /\ [r EXCEPT !.maint = v].streak = r.streak
        /\ [r EXCEPT !.maint = v].lastSeen = r.lastSeen
        /\ [r EXCEPT !.maint = v].gone = r.gone
        /\ [r EXCEPT !.maint = v].vis = r.vis
        /\ [r EXCEPT !.maint = v].skind = r.skind
        /\ [r EXCEPT !.maint = v].sdecl = r.sdecl
    BY <2>3 DEF Row
  <2> QED BY <2>3, <2>4 DEF r
<1>5. IsTable(o)
  <2>1. o \in [DOMAIN o -> Row]
    BY <1>1, <1>4 DEF MaintenanceOverlay, o
  <2> QED BY <1>1, <2>1 DEF IsTable
<1> QED BY <1>1, <1>4, <1>5 DEF o

\* Everything the lifecycle transaction guarantees about the table it leaves.
LEMMA LifecycleFacts ==
  ASSUME NEW t, IsTable(t), NEW fired, IsFiring(fired), NEW g \in Nat,
         NEW retired, NEW now, NEW present, NEW reported,
         NEW active \in Seq(Declaration), NEW windows
  PROVE  LET n == Lifecycle(t, fired, g, retired, now, present, reported, active, windows)
             u == Upserted(t, fired, g, retired)
         IN  /\ IsTable(n)
             /\ DOMAIN n \subseteq DOMAIN t \cup DOMAIN fired
             /\ \A k \in DOMAIN n :
                  /\ n[k].gone <= EntityGcThreshold
                  /\ n[k].streak = u[k].streak
                  /\ k \in DOMAIN fired => n[k].lastSeen = g
                  /\ k \notin DOMAIN fired /\ Masked(u, k) => n[k].vis = "suppressed"
                  /\ n[k].skind = "operator_declaration" => n[k].sdecl \in ActiveIds(active)
             /\ \A k \in (DOMAIN t \cup DOMAIN fired) \ DOMAIN n :
                  Cleared(u, fired, k) \/ (u[k].gone <= EntityGcThreshold => HostOf(k) \notin present)
<1> DEFINE u == Upserted(t, fired, g, retired)
           i == Inner(t, fired, g, retired, now, present, reported)
           o == DeclarationOverlay(i, active, g)
           n == MaintenanceOverlay(o, windows, now)
<1>1. /\ IsTable(i)
      /\ DOMAIN i \subseteq DOMAIN t \cup DOMAIN fired
      /\ \A k \in DOMAIN i :
           /\ i[k].gone <= EntityGcThreshold
           /\ i[k].streak = u[k].streak
           /\ k \in DOMAIN fired => i[k].lastSeen = g
           /\ k \notin DOMAIN fired /\ Masked(u, k) =>
                i[k].vis = "suppressed" /\ i[k].skind = "ancestor_loss"
      /\ \A k \in (DOMAIN t \cup DOMAIN fired) \ DOMAIN i :
           Cleared(u, fired, k) \/ (u[k].gone <= EntityGcThreshold => HostOf(k) \notin present)
  BY InnerFacts
<1> HIDE DEF i, u
<1>2. /\ IsTable(o) /\ DOMAIN o = DOMAIN i
      /\ \A k \in DOMAIN i :
           /\ o[k].streak = i[k].streak
           /\ o[k].lastSeen = i[k].lastSeen
           /\ o[k].gone = i[k].gone
           /\ i[k].vis = "suppressed" /\ i[k].skind = "ancestor_loss" => o[k].vis = "suppressed"
           /\ o[k].skind = "operator_declaration" => o[k].sdecl \in ActiveIds(active)
  BY <1>1, OverlayFacts
<1> HIDE DEF o
<1>3. /\ IsTable(n) /\ DOMAIN n = DOMAIN o
      /\ \A k \in DOMAIN o :
           /\ n[k].streak = o[k].streak /\ n[k].lastSeen = o[k].lastSeen
           /\ n[k].gone = o[k].gone /\ n[k].vis = o[k].vis
           /\ n[k].skind = o[k].skind /\ n[k].sdecl = o[k].sdecl
  BY <1>2, MaintenanceFacts
<1>4. Lifecycle(t, fired, g, retired, now, present, reported, active, windows) = n
  BY DEF Lifecycle, o, i
<1> HIDE DEF n
<1>5. \A k \in DOMAIN n :
        /\ n[k].gone <= EntityGcThreshold
        /\ n[k].streak = u[k].streak
        /\ k \in DOMAIN fired => n[k].lastSeen = g
        /\ k \notin DOMAIN fired /\ Masked(u, k) => n[k].vis = "suppressed"
        /\ n[k].skind = "operator_declaration" => n[k].sdecl \in ActiveIds(active)
  BY <1>1, <1>2, <1>3
<1> QED BY <1>1, <1>2, <1>3, <1>4, <1>5 DEF u
-----------------------------------------------------------------------------
(***************************************************************************)
(* Operator columns: only the upsert and TTL expiry touch them.            *)
(***************************************************************************)
SameWork(r, s) ==
  /\ r.work = s.work
  /\ r.expires = s.expires
  /\ r.basis = s.basis
  /\ r.lastSeen = s.lastSeen

\* Masking and recovery leave the operator columns alone.
LEMMA AgedWork ==
  ASSUME NEW u, IsTable(u), NEW fired, NEW g \in Nat, NEW k \in DOMAIN Aged(u, fired, g)
  PROVE  SameWork(Aged(u, fired, g)[k], u[k])
<1> DEFINE a == Aged(u, fired, g)
<1>1. k \in DOMAIN u /\ u[k] \in Row
  BY TableRow DEF Aged
<1>2. ASSUME NEW r \in Row, NEW reason \in Reasons
      PROVE  SameWork(SuppressRow(r, reason, g), r)
  BY DEF SameWork, SuppressRow, Row
<1>3. ASSUME NEW r \in Row
      PROVE  SameWork([r EXCEPT !.absent = r.absent + 1], r) /\ SameWork(r, r)
  BY DEF SameWork, Row
<1>4. CASE k \in DOMAIN fired
  BY <1>1, <1>3, <1>4 DEF Aged
<1>5. CASE k \notin DOMAIN fired /\ Masked(u, k)
  <2>1. a[k] = SuppressRow(u[k], MaskingReason(u, k), g)
    BY <1>5 DEF Aged
  <2> HIDE DEF a
  <2>2. SameWork(a[k], u[k])
    BY <1>1, <1>2, <1>5, <2>1, MaskingReasonType
  <2> QED BY <2>2 DEF a
<1>6. CASE k \notin DOMAIN fired /\ ~Masked(u, k)
  <2>1. a[k] = [u[k] EXCEPT !.absent = u[k].absent + 1]
    BY <1>6 DEF Aged
  <2> HIDE DEF a
  <2>2. SameWork(a[k], u[k])
    BY <1>1, <1>3, <2>1
  <2> QED BY <2>2 DEF a
<1> QED BY <1>4, <1>5, <1>6

\* TTL expiry depends on the operator columns alone.
LEMMA ExpireWork ==
  ASSUME NEW r \in Row, NEW s \in Row, SameWork(r, s), NEW now
  PROVE  SameWork(ExpireRow(r, now), ExpireRow(s, now))
<1>1. ASSUME NEW x \in Row, TtlExpired(x, now)
      PROVE  /\ ExpireRow(x, now).work = "new" /\ ExpireRow(x, now).expires = 0
             /\ ExpireRow(x, now).basis = x.basis /\ ExpireRow(x, now).lastSeen = x.lastSeen
  BY <1>1 DEF ExpireRow, Row
<1>2. ASSUME NEW x \in Row, ~TtlExpired(x, now)
      PROVE  ExpireRow(x, now) = x
  BY <1>2 DEF ExpireRow
<1>3. TtlExpired(r, now) <=> TtlExpired(s, now)
  BY DEF TtlExpired, SameWork
<1> QED BY <1>1, <1>2, <1>3 DEF SameWork

\* Entity GC leaves the operator columns alone.
LEMMA CollectedWork ==
  ASSUME NEW t, IsTable(t), NEW present, NEW reported,
         NEW k \in DOMAIN Collected(t, present, reported)
  PROVE  k \in DOMAIN t /\ SameWork(Collected(t, present, reported)[k], t[k])
<1>1. k \in DOMAIN t /\ t[k] \in Row
  BY TableRow DEF Collected
<1>2. PICK n : Collected(t, present, reported)[k] = [t[k] EXCEPT !.gone = n]
  BY DEF Collected
<1>3. ASSUME NEW r \in Row
      PROVE  SameWork([r EXCEPT !.gone = n], r)
  BY DEF SameWork, Row
<1> QED BY <1>1, <1>2, <1>3

\* The declaration overlay leaves the operator columns alone.
LEMMA OverlayWork ==
  ASSUME NEW t, IsTable(t), NEW active, NEW g, NEW k \in DOMAIN t
  PROVE  SameWork(DeclarationOverlay(t, active, g)[k], t[k])
<1> DEFINE r0 == ReleaseRow(t[k], active)
<1>1. t[k] \in Row
  BY TableRow
<1>2. ASSUME NEW r \in Row
      PROVE  ReleaseRow(r, active) \in Row /\ SameWork(ReleaseRow(r, active), r)
  <2>1. CASE r.skind = "operator_declaration" /\ r.sdecl \notin ActiveIds(active)
    <3> DEFINE x == [r EXCEPT !.vis = "observed", !.skind = None, !.sdecl = None,
                              !.reason = None, !.since = 0]
    <3>1. ReleaseRow(r, active) = x
      BY <2>1 DEF ReleaseRow
    <3>2. SameWork(x, r)
      BY DEF SameWork, Row
    <3> QED BY <3>1, <3>2, ReleaseRowType
  <2>2. CASE ~(r.skind = "operator_declaration" /\ r.sdecl \notin ActiveIds(active))
    BY <2>2 DEF ReleaseRow, SameWork
  <2> QED BY <2>1, <2>2
<1>3. ASSUME NEW r \in Row, NEW d
      PROVE  SameWork(WithdrawRow(r, d, g), r)
  BY DEF SameWork, WithdrawRow, Row
<1>4. \/ DeclarationOverlay(t, active, g)[k] = r0
      \/ \E d : DeclarationOverlay(t, active, g)[k] = WithdrawRow(r0, d, g)
  BY DEF DeclarationOverlay
<1>5. r0 \in Row /\ SameWork(r0, t[k])
  BY <1>1, <1>2
<1> HIDE DEF r0
<1> QED BY <1>3, <1>4, <1>5 DEF SameWork

\* So does the maintenance overlay.
LEMMA MaintenanceWork ==
  ASSUME NEW t, IsTable(t), NEW windows, NEW now, NEW k \in DOMAIN t
  PROVE  SameWork(MaintenanceOverlay(t, windows, now)[k], t[k])
<1>1. t[k] \in Row
  BY TableRow
<1>2. PICK v : MaintenanceOverlay(t, windows, now)[k] = [t[k] EXCEPT !.maint = v]
  BY DEF MaintenanceOverlay
<1>3. ASSUME NEW r \in Row
      PROVE  SameWork([r EXCEPT !.maint = v], r)
  BY DEF SameWork, Row
<1> QED BY <1>1, <1>2, <1>3

\* The operator columns after the lifecycle transaction: those of the upserted
\* row, expired if their time has come.
LEMMA LifecycleWork ==
  ASSUME NEW t, IsTable(t), NEW fired, IsFiring(fired), NEW g \in Nat,
         NEW retired, NEW now, NEW present, NEW reported,
         NEW active \in Seq(Declaration), NEW windows,
         NEW k \in DOMAIN Lifecycle(t, fired, g, retired, now, present, reported, active, windows)
  PROVE  /\ k \in DOMAIN t \cup DOMAIN fired
         /\ SameWork(Lifecycle(t, fired, g, retired, now, present, reported, active, windows)[k],
                     ExpireRow(Upserted(t, fired, g, retired)[k], now))
<1> DEFINE u == Upserted(t, fired, g, retired)
           a == Aged(u, fired, g)
           x == [y \in DOMAIN a |-> ExpireRow(a[y], now)]
           i == Collected(x, present, reported)
           o == DeclarationOverlay(i, active, g)
           n == MaintenanceOverlay(o, windows, now)
<1>1. IsTable(u) /\ DOMAIN u = DOMAIN t \cup DOMAIN fired
  <2>1. IsTable(u)
    BY UpsertedTable
  <2> QED BY <2>1 DEF Upserted
<1>2. Lifecycle(t, fired, g, retired, now, present, reported, active, windows) = n
  BY DEF Lifecycle, Inner
<1> HIDE DEF u
<1>3. IsTable(a) /\ DOMAIN a \subseteq DOMAIN u
  <2>1. IsTable(a)
    BY <1>1, AgedFacts
  <2> QED BY <2>1 DEF Aged
<1>4. \A y \in DOMAIN a : SameWork(a[y], u[y])
  BY <1>1, AgedWork
<1> HIDE DEF a
<1>5. IsTable(x) /\ DOMAIN x = DOMAIN a
  <2>1. \A y \in DOMAIN a : ExpireRow(a[y], now) \in Row
    BY <1>3, TableRow, ExpireRowFacts
  <2> QED BY <1>3, <2>1 DEF IsTable
<1>6. \A y \in DOMAIN a : SameWork(x[y], ExpireRow(u[y], now))
  BY <1>1, <1>3, <1>4, TableRow, ExpireWork
<1> HIDE DEF x
<1>7. IsTable(i)
  BY <1>5, CollectedFacts
<1>8. \A y \in DOMAIN i : y \in DOMAIN x /\ SameWork(i[y], x[y])
  BY <1>5, CollectedWork
<1> HIDE DEF i
<1>9. IsTable(o) /\ DOMAIN o = DOMAIN i
  <2>1. IsTable(o)
    BY <1>7, OverlayFacts
  <2> QED BY <2>1 DEF DeclarationOverlay
<1>10. \A y \in DOMAIN i : SameWork(o[y], i[y])
  BY <1>7, OverlayWork
<1> HIDE DEF o
<1>11. DOMAIN n = DOMAIN o
  BY DEF MaintenanceOverlay
<1>12. \A y \in DOMAIN o : SameWork(n[y], o[y])
  BY <1>9, MaintenanceWork
<1> HIDE DEF n
<1>13. k \in DOMAIN n
  BY <1>2
<1>14. /\ k \in DOMAIN o /\ k \in DOMAIN i /\ k \in DOMAIN x /\ k \in DOMAIN a /\ k \in DOMAIN u
  BY <1>13, <1>11, <1>9, <1>8, <1>5, <1>3
<1>15. SameWork(n[k], ExpireRow(u[k], now))
  BY <1>14, <1>6, <1>8, <1>10, <1>12 DEF SameWork
<1> QED BY <1>1, <1>2, <1>14, <1>15 DEF u
-----------------------------------------------------------------------------
(***************************************************************************)
(* What the transaction shows: a row that fired is observed and not absent *)
(* unless a declaration withdraws its host, and a withdrawn host hides all *)
(* its rows.                                                               *)
(***************************************************************************)

\* A row that fired is observed, with its absence and streak begun.
LEMMA UpsertedShown ==
  ASSUME NEW t, IsTable(t), NEW fired, IsFiring(fired), NEW g \in Nat, NEW retired,
         NEW k \in DOMAIN fired
  PROVE  LET u == Upserted(t, fired, g, retired) IN
         /\ k \in DOMAIN u
         /\ u[k].vis = "observed" /\ u[k].absent = 0 /\ u[k].streak \in Nat \ {0}
         /\ u[k].basis = BasisOf(k, retired)
<1>1. fired[k] \in Emissions /\ k \in Keys
  BY DEF IsFiring
<1>2. CASE k \in DOMAIN t
  <2>1. t[k] \in Row
    BY <1>2, TableRow
  <2>2. ASSUME NEW r \in Row, NEW e
        PROVE  /\ Refire(r, k, e, g, retired).vis = "observed"
               /\ Refire(r, k, e, g, retired).absent = 0
               /\ Refire(r, k, e, g, retired).streak \in Nat \ {0}
               /\ Refire(r, k, e, g, retired).basis = BasisOf(k, retired)
    <3>1. NextStreak(r, e, g) \in Nat \ {0}
      BY DEF NextStreak, Row
    <3> QED BY <3>1 DEF Refire, Row
  <2> QED BY <1>2, <2>1, <2>2 DEF Upserted
<1>3. CASE k \notin DOMAIN t
  BY <1>3 DEF Upserted, FreshRow
<1> QED BY <1>2, <1>3

\* What the overlays leave of row r of the aged table.
Overlaid(n, r, active, k) ==
  /\ n[k].absent = r.absent
  /\ Withdrawing(active, HostOf(k)) # {} => n[k].vis = "suppressed"
  /\ Withdrawing(active, HostOf(k)) = {} /\ (r.vis = "observed" \/ r.skind # "operator_declaration") =>
       n[k].vis = r.vis

\* Every row a pass leaves is one of the aged table with its absence; whether
\* it is seen is changed by declarations alone.
LEMMA LifecycleAged ==
  ASSUME NEW t, IsTable(t), NEW fired, IsFiring(fired), NEW g \in Nat,
         NEW retired, NEW now, NEW present, NEW reported,
         NEW active \in Seq(Declaration), NEW windows,
         NEW n, n = Lifecycle(t, fired, g, retired, now, present, reported, active, windows),
         NEW k \in DOMAIN n
  PROVE  LET a == Aged(Upserted(t, fired, g, retired), fired, g)
         IN  k \in DOMAIN a /\ Overlaid(n, a[k], active, k)
<1> DEFINE u == Upserted(t, fired, g, retired)
           a == Aged(u, fired, g)
           x == [y \in DOMAIN a |-> ExpireRow(a[y], now)]
           i == Collected(x, present, reported)
           o == DeclarationOverlay(i, active, g)
           z == MaintenanceOverlay(o, windows, now)
           w == Withdrawing(active, HostOf(k))
<1>1. IsTable(u) /\ DOMAIN u = DOMAIN t \cup DOMAIN fired
  <2>1. IsTable(u)
    BY UpsertedTable
  <2> QED BY <2>1 DEF Upserted
<1>3. n = z
  BY DEF Lifecycle, Inner
<1> HIDE DEF u
<1>4. IsTable(a)
  BY <1>1, AgedFacts
<1> HIDE DEF a
<1>6. IsTable(x) /\ DOMAIN x = DOMAIN a
  <2>1. \A y \in DOMAIN a : ExpireRow(a[y], now) \in Row
    BY <1>4, TableRow, ExpireRowFacts
  <2> QED BY <1>4, <2>1 DEF IsTable
<1>7. k \in DOMAIN a => x[k].vis = a[k].vis /\ x[k].absent = a[k].absent /\ x[k].skind = a[k].skind
  <2>1. ASSUME NEW r \in Row
        PROVE  /\ ExpireRow(r, now).vis = r.vis /\ ExpireRow(r, now).absent = r.absent
               /\ ExpireRow(r, now).skind = r.skind
    BY DEF ExpireRow, Row
  <2> QED BY <1>4, <2>1, TableRow
<1> HIDE DEF x
<1>8. IsTable(i) /\ DOMAIN i \subseteq DOMAIN x
  <2>1. IsTable(i)
    BY <1>6, CollectedFacts
  <2> QED BY <2>1 DEF Collected
<1>9. k \in DOMAIN i => i[k].vis = x[k].vis /\ i[k].absent = x[k].absent /\ i[k].skind = x[k].skind
  <2> SUFFICES ASSUME k \in DOMAIN i PROVE i[k].vis = x[k].vis /\ i[k].absent = x[k].absent /\ i[k].skind = x[k].skind
    OBVIOUS
  <2>1. PICK m : i[k] = [x[k] EXCEPT !.gone = m]
    BY DEF Collected
  <2>2. x[k] \in Row
    BY <1>6, <1>8, TableRow
  <2> QED BY <2>1, <2>2 DEF Row
<1> HIDE DEF i
<1>10. IsTable(o) /\ DOMAIN o = DOMAIN i
  <2>1. IsTable(o)
    BY <1>8, OverlayFacts
  <2> QED BY <2>1 DEF DeclarationOverlay
<1>11. k \in DOMAIN i =>
         /\ o[k].absent = i[k].absent
         /\ w # {} => o[k].vis = "suppressed"
         /\ w = {} /\ (i[k].vis = "observed" \/ i[k].skind # "operator_declaration") =>
              o[k].vis = i[k].vis
  <2> SUFFICES ASSUME k \in DOMAIN i
               PROVE  /\ o[k].absent = i[k].absent
                      /\ w # {} => o[k].vis = "suppressed"
                      /\ w = {} /\ (i[k].vis = "observed" \/ i[k].skind # "operator_declaration") =>
                           o[k].vis = i[k].vis
    OBVIOUS
  <2> DEFINE r0 == ReleaseRow(i[k], active)
  <2>1. i[k] \in Row
    BY <1>8, TableRow
  <2>2. ASSUME NEW r \in Row
        PROVE  /\ ReleaseRow(r, active) \in Row /\ ReleaseRow(r, active).absent = r.absent
               /\ r.vis = "observed" \/ r.skind # "operator_declaration" =>
                    ReleaseRow(r, active).vis = r.vis
    <3>1. CASE r.skind = "operator_declaration" /\ r.sdecl \notin ActiveIds(active)
      <4> DEFINE y == [r EXCEPT !.vis = "observed", !.skind = None, !.sdecl = None,
                                !.reason = None, !.since = 0]
      <4>1. ReleaseRow(r, active) = y
        BY <3>1 DEF ReleaseRow
      <4>2. y.absent = r.absent /\ y.vis = "observed"
        BY DEF Row
      <4> QED BY <3>1, <4>1, <4>2, ReleaseRowType
    <3>2. CASE ~(r.skind = "operator_declaration" /\ r.sdecl \notin ActiveIds(active))
      BY <3>2 DEF ReleaseRow
    <3> QED BY <3>1, <3>2
  <2>3. ASSUME NEW r \in Row, NEW d
        PROVE  WithdrawRow(r, d, g).absent = r.absent /\ WithdrawRow(r, d, g).vis = "suppressed"
    BY DEF WithdrawRow, Row
  <2>4. /\ w = {} => o[k] = r0
        /\ w # {} => \E d : o[k] = WithdrawRow(r0, d, g)
    BY DEF DeclarationOverlay
  <2>5. /\ r0 \in Row /\ r0.absent = i[k].absent
        /\ i[k].vis = "observed" \/ i[k].skind # "operator_declaration" => r0.vis = i[k].vis
    BY <2>1, <2>2
  <2> HIDE DEF r0, w, o
  <2> QED BY <2>3, <2>4, <2>5
<1> HIDE DEF o
<1>12. DOMAIN z = DOMAIN o
  BY DEF MaintenanceOverlay
<1>13. k \in DOMAIN o => z[k].vis = o[k].vis /\ z[k].absent = o[k].absent
  <2> SUFFICES ASSUME k \in DOMAIN o PROVE z[k].vis = o[k].vis /\ z[k].absent = o[k].absent
    OBVIOUS
  <2>1. PICK v : z[k] = [o[k] EXCEPT !.maint = v]
    BY DEF MaintenanceOverlay
  <2>2. o[k] \in Row
    BY <1>10, TableRow
  <2> QED BY <2>1, <2>2 DEF Row
<1> HIDE DEF z
<1>14. k \in DOMAIN z
  BY <1>3
<1>15. k \in DOMAIN o /\ k \in DOMAIN i /\ k \in DOMAIN x /\ k \in DOMAIN a
  BY <1>6, <1>8, <1>10, <1>12, <1>14
<1> HIDE DEF w
<1>16. Overlaid(z, a[k], active, k)
  BY <1>7, <1>9, <1>11, <1>13, <1>15 DEF Overlaid, w
<1> QED BY <1>3, <1>15, <1>16 DEF a, u

Shown(t, fired, active, k) ==
  /\ Withdrawing(active, HostOf(k)) # {} => t[k].vis = "suppressed"
  /\ k \in DOMAIN fired =>
       /\ Withdrawing(active, HostOf(k)) = {} => t[k].vis = "observed"
       /\ t[k].absent = 0

\* A pass hides the rows of a withdrawn host, shows the other ones it saw,
\* and starts their absence anew.
LEMMA LifecycleShown ==
  ASSUME NEW t, IsTable(t), NEW fired, IsFiring(fired), NEW g \in Nat,
         NEW retired, NEW now, NEW present, NEW reported,
         NEW active \in Seq(Declaration), NEW windows,
         NEW n, n = Lifecycle(t, fired, g, retired, now, present, reported, active, windows),
         NEW k \in DOMAIN n
  PROVE  Shown(n, fired, active, k)
<1> DEFINE u == Upserted(t, fired, g, retired)
           a == Aged(u, fired, g)
<1>1. k \in DOMAIN a /\ Overlaid(n, a[k], active, k)
  BY LifecycleAged
<1>2. k \in DOMAIN fired => u[k].vis = "observed" /\ u[k].absent = 0
  BY UpsertedShown
<1> HIDE DEF u
<1>3. k \in DOMAIN fired => a[k] = u[k]
  BY <1>1 DEF Aged
<1> HIDE DEF a
<1> QED BY <1>1, <1>2, <1>3 DEF Shown, Overlaid

\* What a pass makes of a row it did not see, u being the upserted table.
Unseen(n, t, u, active, k) ==
  /\ k \in DOMAIN t
  /\ Masked(u, k) => /\ n[k].absent = t[k].absent
                     /\ n[k].vis = "suppressed"
  /\ ~Masked(u, k) => /\ n[k].absent = t[k].absent + 1
                      /\ t[k].absent + 1 < RecoveryWindow
                      /\ /\ Withdrawing(active, HostOf(k)) = {}
                         /\ t[k].skind # "operator_declaration"
                         => n[k].vis = t[k].vis

\* A row a pass did not see and left is masked, its absence standing still, or
\* absent once more, which did not end its recovery window.
LEMMA LifecycleUnseen ==
  ASSUME NEW t, IsTable(t), NEW fired, IsFiring(fired), NEW g \in Nat,
         NEW retired, NEW now, NEW present, NEW reported,
         NEW active \in Seq(Declaration), NEW windows,
         NEW n, n = Lifecycle(t, fired, g, retired, now, present, reported, active, windows),
         NEW u, u = Upserted(t, fired, g, retired),
         NEW k \in DOMAIN n, k \notin DOMAIN fired
  PROVE  Unseen(n, t, u, active, k)
<1> DEFINE a == Aged(u, fired, g)
<1>1. k \in DOMAIN a /\ Overlaid(n, a[k], active, k)
  BY LifecycleAged
<1>2. k \in DOMAIN t /\ u[k] = t[k] /\ t[k] \in Row
  <2>1. k \in DOMAIN t
    BY <1>1 DEF Aged, Upserted
  <2> QED BY <2>1, TableRow DEF Upserted
<1>3. ~Cleared(u, fired, k)
  BY <1>1 DEF Aged
<1>4. IsTable(u)
  BY UpsertedTable
<1>5. CASE Masked(u, k)
  <2>1. a[k] = SuppressRow(t[k], MaskingReason(u, k), g)
    BY <1>1, <1>2, <1>5 DEF Aged
  <2>2. ASSUME NEW r \in Row, NEW reason
        PROVE  /\ SuppressRow(r, reason, g).absent = r.absent
               /\ SuppressRow(r, reason, g).vis = "suppressed"
               /\ SuppressRow(r, reason, g).skind = "ancestor_loss"
    BY DEF SuppressRow, Row
  <2>3. a[k].absent = t[k].absent /\ a[k].vis = "suppressed" /\ a[k].skind = "ancestor_loss"
    BY <1>2, <2>1, <2>2
  <2> HIDE DEF a
  <2> QED BY <1>1, <1>2, <1>5, <2>3 DEF Overlaid, Unseen
<1>6. CASE ~Masked(u, k)
  <2>1. a[k] = [t[k] EXCEPT !.absent = t[k].absent + 1]
    BY <1>1, <1>2, <1>6 DEF Aged
  <2>2. a[k].absent = t[k].absent + 1 /\ a[k].vis = t[k].vis /\ a[k].skind = t[k].skind
    BY <1>2, <2>1 DEF Row
  <2>3. t[k].absent + 1 < RecoveryWindow
    BY <1>2, <1>3, <1>6, ConstantsAssumption DEF Cleared, Row
  <2> HIDE DEF a
  <2> QED BY <1>1, <1>2, <1>6, <2>2, <2>3 DEF Overlaid, Unseen
<1> QED BY <1>5, <1>6
=============================================================================
