---------------------------- MODULE ClaimsProofs ----------------------------
(***************************************************************************)
(* Theorems about what NQ will and will not claim (MCClaims): for every    *)
(* coverage file, retention window and clock, and every set of packets,    *)
(* questions, profiles and contexts.                                       *)
(***************************************************************************)
EXTENDS MCClaims, FiniteSetTheorems, WellFoundedInduction, TLAPS
-----------------------------------------------------------------------------
(***************************************************************************)
(* Coverage rules.                                                         *)
(***************************************************************************)
BeatFields == {"gen", "at", "expires", "rule", "decl"}
RuleRows == [decl : Testimony!Declared, until : Nat]

\* Heartbeats are written in the order of the generations and of the clock, the
\* last one is the newest there is, and heard is its end.
NewestIsHeard ==
  beats # {} =>
    \E b \in beats :
      /\ b.expires = heard
      /\ \A c \in beats : /\ c.gen <= b.gen /\ c.at <= b.at
                          /\ c.gen = b.gen => c = b

BeatsInOrder ==
  /\ \A b \in beats : /\ b.gen \in Nat /\ b.at \in Nat /\ b.expires \in Nat
                      /\ b.at <= cnow /\ b.gen <= gen
  /\ stage \in {"published", "judged", "reconciled"} => \A b \in beats : b.gen < gen

CoverageType ==
  /\ cnow \in Nat \ {0} /\ gen \in Nat /\ heard \in Nat
  /\ rules \in Seq(RuleRows)
  /\ \A k \in DOMAIN warnings : "lastSeen" \in DOMAIN warnings[k]

CoverageInv == CoverageType /\ BeatsInOrder /\ NewestIsHeard
ClaimsCoverageInv == part = "testimony" => CoverageInv

\* The finding is about one host and of one kind.
LEMMA OneFinding == Testimony!Keys # {}
<1>1. Testimony!Cardinality(Hosts) = 1 /\ Testimony!Cardinality(Kinds) = 1
  BY CoverageAssumption DEF Testimony!CoverageAssumption
<1>2. Cardinality(Hosts) = 1 /\ Cardinality(Kinds) = 1
  <2>1. ASSUME NEW S PROVE Testimony!Cardinality(S) = Cardinality(S)
    BY Zenon DEF Testimony!Cardinality, Cardinality
  <2> QED BY <1>1, <2>1
<1>3. Hosts # {} /\ Kinds # {}
  BY <1>2, FS_EmptySet
<1>4. PICK h \in Hosts, k \in Kinds : TRUE
  BY <1>3
<1>5. <<h, k>> \in Testimony!Keys
  BY DEF Testimony!Keys
<1> QED BY <1>5

\* The latest heartbeat, as the code orders them, is the one written last.
LEMMA LatestIsHeard ==
  ASSUME CoverageInv, beats # {}
  PROVE  Testimony!LatestBeat.expires = heard
<1>1. PICK b \in beats : /\ b.expires = heard
                         /\ \A c \in beats : c.gen <= b.gen /\ c.at <= b.at
                                              /\ (c.gen = b.gen => c = b)
  BY DEF CoverageInv, NewestIsHeard
<1>2. \A c \in beats : c.gen \in Nat /\ c.at \in Nat
  BY DEF CoverageInv, BeatsInOrder
<1>3. \A c \in beats : c.at < b.at \/ (c.at = b.at /\ c.gen <= b.gen)
  BY <1>1, <1>2
<1>4. ASSUME NEW x \in beats, \A c \in beats : c.at < x.at \/ (c.at = x.at /\ c.gen <= x.gen)
      PROVE  x = b
  BY <1>1, <1>2, <1>4
<1>5. Testimony!LatestBeat = b
  BY <1>3, <1>4 DEF Testimony!LatestBeat
<1> QED BY <1>1, <1>5

\* The lifecycle pass removes rows and changes columns, never what columns a row has.
LEMMA PassKeepsColumns ==
  ASSUME NEW t, NEW g, NEW time, NEW k,
         k \in DOMAIN Testimony!Inner(t, <<>>, g, {}, time, {}, {})
  PROVE  k \in DOMAIN t /\ DOMAIN Testimony!Inner(t, <<>>, g, {}, time, {}, {})[k] = DOMAIN t[k]
<1> DEFINE u == Testimony!Upserted(t, <<>>, g, {})
           a == Testimony!Aged(u, <<>>, g)
           e == [j \in DOMAIN a |-> Testimony!ExpireRow(a[j], time)]
           n == Testimony!Collected(e, {}, {})
<1>1. Testimony!Inner(t, <<>>, g, {}, time, {}, {}) = n
  BY DEF Testimony!Inner
<1>2. DOMAIN u = DOMAIN t /\ \A j \in DOMAIN t : u[j] = t[j]
  BY DEF Testimony!Upserted
<1> HIDE DEF u
<1>3. \A j \in DOMAIN a : j \in DOMAIN u /\ DOMAIN a[j] = DOMAIN u[j]
  BY DEF Testimony!Aged, Testimony!SuppressRow
<1> HIDE DEF a
<1>4. DOMAIN e = DOMAIN a /\ \A j \in DOMAIN a : DOMAIN e[j] = DOMAIN a[j]
  BY DEF Testimony!ExpireRow
<1> HIDE DEF e
<1>5. \A j \in DOMAIN n : j \in DOMAIN e /\ DOMAIN n[j] = DOMAIN e[j]
  BY DEF Testimony!Collected
<1> HIDE DEF n
<1> QED BY <1>1, <1>2, <1>3, <1>4, <1>5

\* A declaration file is loaded into finitely many declarations, one of a tuple.
LEMMA LoadedFacts ==
  ASSUME NEW f \in CoverageFiles
  PROVE  /\ IsFiniteSet(Testimony!Loaded(f)) /\ Testimony!Loaded(f) \subseteq Testimony!Declared
         /\ \A d \in Testimony!Loaded(f) : \E i \in DOMAIN f : d = f[i]
         /\ \A c, d \in Testimony!Loaded(f) : c.tuple = d.tuple => c = d
<1>1. f \in Seq(Testimony!Declared)
  BY CoverageAssumption DEF Testimony!CoverageAssumption
<1>2. PICK n \in Nat : DOMAIN f = 1..n /\ \A i \in 1..n : f[i] \in Testimony!Declared
  BY <1>1
<1>3. Testimony!Loaded(f) \subseteq {f[i] : i \in 1..n}
  BY <1>2 DEF Testimony!Loaded
<1>4. IsFiniteSet({f[i] : i \in 1..n})
  <2> DEFINE R == {f[i] : i \in 1..n}
             h == [i \in 1..n |-> f[i]]
  <2>1. h \in Surjection(1..n, R)
    BY DEF Surjection
  <2> HIDE DEF h, R
  <2>2. IsFiniteSet(1..n)
    BY FS_Interval
  <2>3. IsFiniteSet(R)
    BY <2>1, <2>2, FS_Surjection
  <2> QED BY <2>3 DEF R
<1>5. ASSUME NEW c \in Testimony!Loaded(f), NEW d \in Testimony!Loaded(f), c.tuple = d.tuple
      PROVE  c = d
  <2>1. PICK i \in 1..n : c = f[i] /\ \A h \in 1..(i - 1) : f[h].tuple # f[i].tuple
    BY <1>2 DEF Testimony!Loaded
  <2>2. PICK j \in 1..n : d = f[j] /\ \A h \in 1..(j - 1) : f[h].tuple # f[j].tuple
    BY <1>2 DEF Testimony!Loaded
  <2>3. ~(i < j) /\ ~(j < i)
    BY <1>5, <2>1, <2>2
  <2> QED BY <2>1, <2>2, <2>3
<1>6. IsFiniteSet(Testimony!Loaded(f))
  BY <1>3, <1>4, FS_Subset
<1> QED BY <1>2, <1>3, <1>5, <1>6

\* SetToSeq lists a finite set, each element once.
LEMMA ListsOnce ==
  ASSUME NEW S, IsFiniteSet(S)
  PROVE  \E n \in Nat : LET s == Testimony!SetToSeq(S) IN
           /\ s \in [1..n -> S]
           /\ \A i, j \in 1..n : s[i] = s[j] => i = j
           /\ \A x \in S : \E i \in 1..n : s[i] = x
<1> DEFINE n == Cardinality(S)
           s == Testimony!SetToSeq(S)
<1>1. Testimony!Cardinality(S) = n
  BY Zenon DEF Testimony!Cardinality, Cardinality
<1>2. n \in Nat /\ ExistsBijection(1..n, S)
  BY FS_CardinalityType
<1>3. IsFiniteSet(1..n) /\ Cardinality(1..n) = n
  BY <1>2, FS_Interval
<1>4. s = CHOOSE f \in [1..n -> S] : Testimony!IsInjective(f)
  BY <1>1 DEF Testimony!SetToSeq
<1> HIDE DEF n, s
<1>5. \E f \in [1..n -> S] : Testimony!IsInjective(f)
  BY <1>2 DEF ExistsBijection, Bijection, Injection, IsInjective, Testimony!IsInjective
<1>6. s \in [1..n -> S] /\ Testimony!IsInjective(s)
  BY <1>4, <1>5
<1>7. s \in Injection(1..n, S)
  BY <1>6 DEF Injection, IsInjective, Testimony!IsInjective
<1>8. s \in Surjection(1..n, S)
  BY <1>3, <1>7, FS_Injection DEF n
<1>9. \A x \in S : \E i \in 1..n : s[i] = x
  BY <1>8 DEF Surjection
<1>10. \A i, j \in 1..n : s[i] = s[j] => i = j
  BY <1>6 DEF Testimony!IsInjective
<1> QED BY <1>2, <1>6, <1>9, <1>10 DEF s

\* What a concatenation is made of.
LEMMA Joined ==
  ASSUME NEW S, NEW a \in Seq(S), NEW b \in Seq(S)
  PROVE  /\ a \o b \in Seq(S) /\ Len(a \o b) = Len(a) + Len(b)
         /\ \A i \in 1..Len(a) : (a \o b)[i] = a[i]
         /\ \A j \in 1..Len(b) : (a \o b)[Len(a) + j] = b[j]
OBVIOUS

\* What a reconcile writes: the rows before it in their places, those that were
\* dropped closed now, and one row more for each new declaration.
LEMMA ReconcileFacts ==
  ASSUME CoverageType, Testimony!ReconcileRules
  PROVE  \E f \in CoverageFiles : \E n, m \in Nat : \E s :
           LET decls == Testimony!Loaded(f)
               new == Testimony!ToInsert(decls)
               gone == Testimony!ToRetire(decls) IN
           /\ applied' = decls /\ DOMAIN rules = 1..n
           /\ rules' \in Seq(RuleRows) /\ Len(rules) = n /\ Len(rules') = n + m
           /\ \A i \in 1..n : /\ rules'[i].decl = rules[i].decl
                              /\ i \in gone => rules'[i].until = cnow
                              /\ i \notin gone => rules'[i] = rules[i]
           /\ \A j \in 1..m : rules'[n + j].decl = s[j] /\ rules'[n + j].until = s[j].until
           /\ s \in [1..m -> new]
           /\ \A i, j \in 1..m : s[i] = s[j] => i = j
           /\ \A x \in new : \E i \in 1..m : s[i] = x
<1>1. PICK f \in CoverageFiles :
        /\ rules' = Testimony!Closed(Testimony!ToRetire(Testimony!Loaded(f)))
                      \o Testimony!NewRows(Testimony!Loaded(f))
        /\ applied' = Testimony!Loaded(f)
  BY DEF Testimony!ReconcileRules
<1> DEFINE decls == Testimony!Loaded(f)
           new == Testimony!ToInsert(decls)
           gone == Testimony!ToRetire(decls)
           s == Testimony!SetToSeq(new)
           kept == Testimony!Closed(gone)
           added == Testimony!NewRows(decls)
<1>2. IsFiniteSet(decls) /\ decls \subseteq Testimony!Declared
  BY LoadedFacts
<1>3. new \in SUBSET decls
  BY DEF Testimony!ToInsert
<1>4. IsFiniteSet(new)
  BY <1>2, <1>3, FS_Subset
<1>5. PICK m \in Nat : /\ s \in [1..m -> new]
                       /\ \A i, j \in 1..m : s[i] = s[j] => i = j
                       /\ \A x \in new : \E i \in 1..m : s[i] = x
  BY <1>4, ListsOnce
<1>6. PICK n \in Nat : n = Len(rules) /\ DOMAIN rules = 1..n /\ \A i \in 1..n : rules[i] \in RuleRows
  BY DEF CoverageType
<1>7. added = [i \in 1..m |-> [decl |-> s[i], until |-> s[i].until]]
  BY <1>5 DEF Testimony!NewRows
<1>8. kept = [i \in 1..n |-> IF i \in gone THEN [rules[i] EXCEPT !.until = cnow] ELSE rules[i]]
  BY <1>6 DEF Testimony!Closed
<1> HIDE DEF s, new, gone, decls, kept, added
<1>9. cnow \in Nat
  BY DEF CoverageType
<1>10. \A i \in 1..n : /\ kept[i] \in RuleRows /\ kept[i].decl = rules[i].decl
                       /\ i \in gone => kept[i].until = cnow
                       /\ i \notin gone => kept[i] = rules[i]
  BY <1>6, <1>8, <1>9 DEF RuleRows
<1>11. \A j \in 1..m : s[j] \in Testimony!Declared
  BY <1>2, <1>3, <1>5
<1>12. \A j \in 1..m : added[j] \in RuleRows /\ added[j].decl = s[j] /\ added[j].until = s[j].until
  BY <1>7, <1>11 DEF RuleRows, Testimony!Declared
<1>13. kept \in Seq(RuleRows) /\ Len(kept) = n
  BY <1>6, <1>8, <1>10
<1>14. added \in Seq(RuleRows) /\ Len(added) = m
  BY <1>5, <1>7, <1>12
<1>15. rules' = kept \o added
  BY <1>1 DEF kept, added, gone, decls
<1>16. /\ rules' \in Seq(RuleRows) /\ Len(rules') = n + m
       /\ \A i \in 1..n : rules'[i] = kept[i]
       /\ \A j \in 1..m : rules'[n + j] = added[j]
  <2>1. /\ kept \o added \in Seq(RuleRows) /\ Len(kept \o added) = Len(kept) + Len(added)
        /\ \A i \in 1..Len(kept) : (kept \o added)[i] = kept[i]
        /\ \A j \in 1..Len(added) : (kept \o added)[Len(kept) + j] = added[j]
    <3>1. kept \in Seq(RuleRows) /\ added \in Seq(RuleRows)
      BY <1>13, <1>14
    <3> QED BY <3>1, Joined
  <2> QED BY <1>13, <1>14, <1>15, <2>1
<1>17. /\ applied' = decls /\ DOMAIN rules = 1..n
       /\ rules' \in Seq(RuleRows) /\ Len(rules) = n /\ Len(rules') = n + m
       /\ \A i \in 1..n : /\ rules'[i].decl = rules[i].decl
                          /\ i \in gone => rules'[i].until = cnow
                          /\ i \notin gone => rules'[i] = rules[i]
       /\ \A j \in 1..m : rules'[n + j].decl = s[j] /\ rules'[n + j].until = s[j].until
       /\ s \in [1..m -> new]
       /\ \A i, j \in 1..m : s[i] = s[j] => i = j
       /\ \A x \in new : \E i \in 1..m : s[i] = x
  BY <1>1, <1>5, <1>6, <1>10, <1>12, <1>16 DEF decls
<1> QED
  <2> WITNESS f \in CoverageFiles
  <2> WITNESS n \in Nat, m \in Nat
  <2> WITNESS s
  <2> QED BY <1>17 DEF decls, new, gone
-----------------------------------------------------------------------------
\* Nothing is declared and nothing was heard.
LEMMA CoverageStart == Testimony!Init => CoverageInv
<1> SUFFICES ASSUME Testimony!Init PROVE CoverageInv
  OBVIOUS
<1>1. cnow = 1 /\ gen = 0 /\ rules = <<>> /\ beats = {} /\ DOMAIN warnings = {} /\ heard = 0
  BY DEF Testimony!Init
<1> QED BY <1>1 DEF CoverageInv, CoverageType, BeatsInOrder, NewestIsHeard

\* The stages of a cycle that write no heartbeat.
LEMMA CoverageStages ==
  ASSUME CoverageInv,
         \/ Testimony!Publish \/ Testimony!LoseUpdate \/ Testimony!LeaveRules
         \/ Testimony!EmitNothing \/ Testimony!RecordNothing \/ Testimony!RecordFails
         \/ Testimony!Restart \/ Testimony!Tick
  PROVE  CoverageInv'
<1>1. /\ UNCHANGED <<rules, beats, warnings, heard>>
      /\ cnow' \in {cnow, cnow + 1} /\ gen' \in {gen, gen + 1}
      /\ \/ gen' = gen + 1
         \/ gen' = gen /\ (stage' \in {"published", "judged", "reconciled"} =>
                             stage \in {"published", "judged", "reconciled"})
  BY DEF Testimony!Publish, Testimony!LoseUpdate, Testimony!LeaveRules, Testimony!EmitNothing,
         Testimony!RecordNothing, Testimony!RecordFails, Testimony!Restart, Testimony!Tick
<1>2. CoverageType' /\ NewestIsHeard'
  BY <1>1 DEF CoverageInv, CoverageType, NewestIsHeard
<1>3. BeatsInOrder'
  BY <1>1 DEF CoverageInv, CoverageType, BeatsInOrder
<1> QED BY <1>2, <1>3 DEF CoverageInv

\* Reconcile, the lifecycle pass and the record of an absence leave the heartbeats.
LEMMA CoverageWrites ==
  ASSUME CoverageInv,
         Testimony!ReconcileRules \/ Testimony!UpdateWarningState \/ Testimony!Record
  PROVE  CoverageInv'
<1>1. /\ UNCHANGED <<cnow, gen, beats, heard>>
      /\ stage' \in {"published", "judged", "reconciled"} =>
           stage \in {"published", "judged", "reconciled"}
  BY DEF Testimony!ReconcileRules, Testimony!UpdateWarningState, Testimony!Record
<1>2. rules' \in Seq(RuleRows)
  <2>1. CASE Testimony!ReconcileRules
    BY <2>1, ReconcileFacts DEF CoverageInv
  <2>2. CASE Testimony!UpdateWarningState \/ Testimony!Record
    BY <2>2 DEF Testimony!UpdateWarningState, Testimony!Record, CoverageInv, CoverageType
  <2> QED BY <2>1, <2>2
<1>3. \A k \in DOMAIN warnings' : "lastSeen" \in DOMAIN warnings'[k]
  <2>1. CASE Testimony!ReconcileRules
    BY <2>1 DEF Testimony!ReconcileRules, CoverageInv, CoverageType
  <2>2. CASE Testimony!UpdateWarningState
    BY <2>2, PassKeepsColumns DEF Testimony!UpdateWarningState, CoverageInv, CoverageType
  <2>3. CASE Testimony!Record
    <3>1. warnings' = [k \in Testimony!Keys |-> Testimony!RecordedRow]
      BY <2>3 DEF Testimony!Record
    <3>2. "lastSeen" \in DOMAIN Testimony!RecordedRow
      BY DEF Testimony!RecordedRow, Testimony!FreshRow, CoverageInv, CoverageType
    <3> QED BY <3>1, <3>2
  <2> QED BY <2>1, <2>2, <2>3
<1>4. CoverageType'
  BY <1>1, <1>2, <1>3 DEF CoverageInv, CoverageType
<1>5. BeatsInOrder' /\ NewestIsHeard'
  BY <1>1 DEF CoverageInv, BeatsInOrder, NewestIsHeard
<1> QED BY <1>4, <1>5 DEF CoverageInv

\* A heartbeat is newer than every other.
LEMMA CoverageEmit ==
  ASSUME CoverageInv, Testimony!Emit
  PROVE  CoverageInv'
<1>1. /\ stage = "reconciled" /\ stage' = "emitted"
      /\ UNCHANGED <<cnow, gen, rules, warnings>>
  BY DEF Testimony!Emit
<1>2. PICK i \in Testimony!ActiveRules(cnow) :
        beats' = beats \cup {Testimony!BeatUnder(i)} /\ heard' = cnow + rules[i].decl.window
  BY Zenon DEF Testimony!Emit
<1>3. rules[i].decl.window \in Nat
  <2>1. i \in DOMAIN rules
    BY DEF Testimony!ActiveRules, Testimony!InForce
  <2>2. rules[i] \in RuleRows
    BY <2>1 DEF CoverageInv, CoverageType
  <2> QED BY <2>2 DEF RuleRows, Testimony!Declared
<1> DEFINE b == Testimony!BeatUnder(i)
<1>4. b.gen = gen /\ b.at = cnow /\ b.expires = cnow + rules[i].decl.window
  BY DEF Testimony!BeatUnder
<1> HIDE DEF b
<1>5. /\ cnow \in Nat /\ gen \in Nat
      /\ \A c \in beats : c.gen \in Nat /\ c.at \in Nat /\ c.gen < gen /\ c.at <= cnow
  BY <1>1 DEF CoverageInv, CoverageType, BeatsInOrder
<1>6. CoverageType'
  BY <1>1, <1>2, <1>3 DEF CoverageInv, CoverageType
<1>7. BeatsInOrder'
  BY <1>1, <1>2, <1>3, <1>4, <1>5 DEF CoverageInv, BeatsInOrder, b
<1>8. \A c \in beats' : c.gen <= b.gen /\ c.at <= b.at /\ (c.gen = b.gen => c = b)
  BY <1>2, <1>4, <1>5 DEF b
<1>9. NewestIsHeard'
  BY <1>2, <1>4, <1>8 DEF NewestIsHeard, b
<1> QED BY <1>6, <1>7, <1>9 DEF CoverageInv

\* Retention takes the oldest heartbeats first.
LEMMA CoveragePrune ==
  ASSUME CoverageInv, Testimony!Prune
  PROVE  CoverageInv'
<1>1. /\ beats' = {b \in beats : b.gen + KeepGens > gen} /\ stage' = "idle"
      /\ UNCHANGED <<cnow, gen, rules, warnings, heard>>
  BY DEF Testimony!Prune
<1>2. CoverageType' /\ BeatsInOrder'
  BY <1>1 DEF CoverageInv, CoverageType, BeatsInOrder
<1>3. ASSUME beats' # {} PROVE NewestIsHeard'
  <2>1. PICK b \in beats : /\ b.expires = heard
                           /\ \A c \in beats : c.gen <= b.gen /\ c.at <= b.at
                                                /\ (c.gen = b.gen => c = b)
    BY <1>1, <1>3 DEF CoverageInv, NewestIsHeard
  <2>2. PICK c \in beats : c.gen + KeepGens > gen
    BY <1>1, <1>3
  <2>3. b.gen \in Nat /\ c.gen \in Nat /\ gen \in Nat /\ KeepGens \in Nat
    BY CoverageAssumption
    DEF CoverageInv, CoverageType, BeatsInOrder, Testimony!CoverageAssumption
  <2>4. b \in beats'
    BY <1>1, <2>1, <2>2, <2>3
  <2> QED BY <1>1, <2>1, <2>4 DEF NewestIsHeard
<1> QED BY <1>2, <1>3 DEF CoverageInv, NewestIsHeard

LEMMA CoverageInvariance == ClaimsSpec => []ClaimsCoverageInv
<1>1. ClaimsInit => ClaimsCoverageInv
  BY CoverageStart DEF ClaimsInit, ClaimsCoverageInv
<1>2. ClaimsCoverageInv /\ [ClaimsNext]_claimsVars => ClaimsCoverageInv'
  <2> SUFFICES ASSUME ClaimsCoverageInv, [ClaimsNext]_claimsVars, part' = "testimony"
               PROVE  CoverageInv'
    BY DEF ClaimsCoverageInv
  <2>1. part = "testimony" /\ CoverageInv
    BY DEF ClaimsCoverageInv, ClaimsNext, claimsVars
  <2>2. CASE UNCHANGED claimsVars
    BY <2>1, <2>2
    DEF claimsVars, testimonyVars, CoverageInv, CoverageType, BeatsInOrder, NewestIsHeard
  <2>3. CASE ClaimsNext
    <3>1. Testimony!Next
      BY <2>1, <2>3 DEF ClaimsNext
    <3> QED BY <2>1, <3>1, CoverageStages, CoverageWrites, CoverageEmit, CoveragePrune
            DEF Testimony!Next
  <2> QED BY <2>2, <2>3
<1> QED BY <1>1, <1>2, PTL DEF ClaimsSpec

\* A loop called admissible was heard, the absence finding is recorded only of one
\* that was not, and is recorded whenever the loop's time has run out: for every
\* coverage file, retention window and clock (classify, emit, record).
THEOREM TestimonyStands == ClaimsSpec => TestimonyIsJust
<1>1. ClaimsCoverageInv => (part = "testimony" => Testimony!AdmissibleWasHeard)
  <2> SUFFICES ASSUME CoverageInv, Testimony!Verdict(cnow) = "admissible_with_scope"
               PROVE  heard >= cnow
    BY DEF ClaimsCoverageInv, Testimony!AdmissibleWasHeard
  <2>1. Testimony!Classification(cnow) = "active"
    BY DEF Testimony!Verdict
  <2>2. beats # {} /\ Testimony!LatestBeat.expires >= cnow
    BY <2>1 DEF Testimony!Classification
  <2> QED BY <2>2, LatestIsHeard
<1>2. ASSUME CoverageInv PROVE Testimony!AlarmIsJust
  <2> SUFFICES ASSUME Testimony!Record, beats # {} PROVE heard < cnow
    BY DEF Testimony!AlarmIsJust
  <2>1. ~(Testimony!LatestBeat.expires >= cnow)
    BY DEF Testimony!Record, Testimony!Classification, Testimony!AbsenceStates
  <2>2. Testimony!LatestBeat.expires = heard /\ heard \in Nat /\ cnow \in Nat
    BY <1>2, LatestIsHeard DEF CoverageInv, CoverageType
  <2> QED BY <2>1, <2>2
<1>3. ASSUME CoverageInv, Testimony!Next PROVE Testimony!SilenceIsRecorded
  <2> SUFFICES ASSUME stage = "emitted", stage' = "recorded", Testimony!ActiveRules(cnow) # {},
                      heard < cnow
               PROVE  /\ Testimony!Absence \in DOMAIN warnings'
                      /\ warnings'[Testimony!Absence].lastSeen = gen
                      /\ \E d \in details' : d.rule \in Testimony!ActiveRules(cnow)
    BY DEF Testimony!SilenceIsRecorded
  <2>1. Testimony!Record \/ Testimony!RecordNothing
    BY <1>3
    DEF Testimony!Next, Testimony!Publish, Testimony!UpdateWarningState, Testimony!LoseUpdate,
        Testimony!ReconcileRules, Testimony!LeaveRules, Testimony!Emit, Testimony!EmitNothing,
        Testimony!RecordFails, Testimony!Prune, Testimony!Restart, Testimony!Tick
  <2>2. CASE Testimony!RecordNothing
    <3>1. beats # {} /\ Testimony!LatestBeat.expires >= cnow
      BY <2>2 DEF Testimony!RecordNothing, Testimony!Classification, Testimony!AbsenceStates
    <3>2. heard >= cnow /\ heard \in Nat /\ cnow \in Nat
      BY <1>3, <3>1, LatestIsHeard DEF CoverageInv, CoverageType
    <3> QED BY <3>2
  <2>3. CASE Testimony!Record
    <3>1. Testimony!Absence \in Testimony!Keys
      BY OneFinding DEF Testimony!Absence
    <3>2. warnings' = [k \in Testimony!Keys |-> Testimony!RecordedRow]
      BY <2>3 DEF Testimony!Record
    <3>3. Testimony!RecordedRow.lastSeen = gen
      BY <1>3 DEF Testimony!RecordedRow, Testimony!FreshRow, CoverageInv, CoverageType
    <3>4. \E d \in details' : d.rule \in Testimony!ActiveRules(cnow)
      BY <2>3 DEF Testimony!Record
    <3> QED BY <3>1, <3>2, <3>3, <3>4
  <2> QED BY <2>1, <2>2, <2>3
<1>4. ClaimsCoverageInv /\ [ClaimsNext]_claimsVars =>
        [part = "testimony" => Testimony!AlarmIsJust /\ Testimony!SilenceIsRecorded]_testimonyVars
  BY <1>2, <1>3 DEF ClaimsCoverageInv, ClaimsNext, claimsVars
<1> QED BY <1>1, <1>4, CoverageInvariance, PTL DEF ClaimsSpec, TestimonyIsJust
-----------------------------------------------------------------------------
RulesInv == Testimony!InForceAsDeclared
ClaimsRulesInv == part = "testimony" => CoverageInv /\ RulesInv

\* A reconcile leaves exactly the open-ended rules of the file in force, one of
\* a tuple.
LEMMA ReconcileKeeps ==
  ASSUME CoverageType, RulesInv, Testimony!ReconcileRules
  PROVE  RulesInv'
<1>1. PICK f \in CoverageFiles : \E n, m \in Nat : \E s :
           LET decls == Testimony!Loaded(f)
               new == Testimony!ToInsert(decls)
               gone == Testimony!ToRetire(decls) IN
           /\ applied' = decls /\ DOMAIN rules = 1..n
           /\ rules' \in Seq(RuleRows) /\ Len(rules) = n /\ Len(rules') = n + m
           /\ \A i \in 1..n : /\ rules'[i].decl = rules[i].decl
                              /\ i \in gone => rules'[i].until = cnow
                              /\ i \notin gone => rules'[i] = rules[i]
           /\ \A j \in 1..m : rules'[n + j].decl = s[j] /\ rules'[n + j].until = s[j].until
           /\ s \in [1..m -> new]
           /\ \A i, j \in 1..m : s[i] = s[j] => i = j
           /\ \A x \in new : \E i \in 1..m : s[i] = x
  BY ReconcileFacts
<1> DEFINE decls == Testimony!Loaded(f)
           new == Testimony!ToInsert(decls)
           gone == Testimony!ToRetire(decls)
           old == Testimony!InForce
<1>2. PICK n \in Nat, m \in Nat : \E s :
           /\ applied' = decls /\ DOMAIN rules = 1..n
           /\ rules' \in Seq(RuleRows) /\ Len(rules) = n /\ Len(rules') = n + m
           /\ \A i \in 1..n : /\ rules'[i].decl = rules[i].decl
                              /\ i \in gone => rules'[i].until = cnow
                              /\ i \notin gone => rules'[i] = rules[i]
           /\ \A j \in 1..m : rules'[n + j].decl = s[j] /\ rules'[n + j].until = s[j].until
           /\ s \in [1..m -> new]
           /\ \A i, j \in 1..m : s[i] = s[j] => i = j
           /\ \A x \in new : \E i \in 1..m : s[i] = x
  BY <1>1
<1>2s. PICK s :
           /\ \A j \in 1..m : rules'[n + j].decl = s[j] /\ rules'[n + j].until = s[j].until
           /\ s \in [1..m -> new]
           /\ \A i, j \in 1..m : s[i] = s[j] => i = j
           /\ \A x \in new : \E i \in 1..m : s[i] = x
  BY <1>2
<1>3. /\ old = {i \in 1..n : rules[i].until = 0}
      /\ gone = {i \in old : rules[i].decl \notin decls}
      /\ new = {d \in decls : \A i \in old : rules[i].decl # d}
  BY <1>2 DEF Testimony!InForce, Testimony!ToInsert, Testimony!ToRetire
<1>4. \A c, d \in decls : c.tuple = d.tuple => c = d
  BY LoadedFacts
<1>5. /\ \A i, j \in old : rules[i].decl.tuple = rules[j].decl.tuple => i = j
      /\ \A i \in old : rules[i].decl.until = 0
  BY DEF RulesInv, Testimony!InForceAsDeclared
<1>6. cnow \in Nat \ {0}
  BY DEF CoverageType
<1> DEFINE now2 == {i \in 1..(n + m) : rules'[i].until = 0}
<1>7. Testimony!InForce' = now2
  <2>1. DOMAIN rules' = 1..(n + m)
    BY <1>2
  <2> QED BY <2>1 DEF Testimony!InForce
<1> HIDE DEF decls, new, gone, old
<1>8. \A i \in 1..n : i \in now2 <=> i \in old /\ rules[i].decl \in decls
  BY <1>2, <1>3, <1>6
<1>9. \A i \in (n + 1)..(n + m) : /\ i \in now2 <=> rules'[i].decl.until = 0
                                  /\ rules'[i].decl \in new
                                  /\ \A j \in (n + 1)..(n + m) :
                                       rules'[i].decl = rules'[j].decl => i = j
  <2> SUFFICES ASSUME NEW i \in (n + 1)..(n + m)
               PROVE  /\ i \in now2 <=> rules'[i].decl.until = 0
                      /\ rules'[i].decl \in new
                      /\ \A j \in (n + 1)..(n + m) : rules'[i].decl = rules'[j].decl => i = j
    OBVIOUS
  <2>1. /\ \A j \in 1..m : rules'[n + j].decl = s[j] /\ rules'[n + j].until = s[j].until
        /\ s \in [1..m -> new]
        /\ \A h, j \in 1..m : s[h] = s[j] => h = j
    BY <1>2s
  <2>2. \A j \in (n + 1)..(n + m) : /\ j - n \in 1..m /\ n + (j - n) = j
                                    /\ rules'[j].decl = s[j - n] /\ rules'[j].until = s[j - n].until
    BY <2>1
  <2>3. s[i - n] \in new
    BY <2>1, <2>2
  <2>4. ASSUME NEW j \in (n + 1)..(n + m), rules'[i].decl = rules'[j].decl PROVE i = j
    <3>1. i - n = j - n
      BY <2>1, <2>2, <2>4
    <3> QED BY <3>1
  <2> QED BY <2>2, <2>3, <2>4
<1>10. \A x \in new : \E i \in (n + 1)..(n + m) : rules'[i].decl = x
  <2> SUFFICES ASSUME NEW x \in new PROVE \E i \in (n + 1)..(n + m) : rules'[i].decl = x
    OBVIOUS
  <2>1. PICK j \in 1..m : s[j] = x
    BY <1>2s
  <2>2. rules'[n + j].decl = s[j]
    BY <1>2s, <2>1
  <2>3. n + j \in (n + 1)..(n + m) /\ rules'[n + j].decl = x
    BY <2>1, <2>2
  <2> QED BY <2>3
<1>11. \A i \in 1..n : rules'[i].decl = rules[i].decl
  BY <1>2
<1>12. \A i \in now2 : i \in 1..n \/ i \in (n + 1)..(n + m)
  OBVIOUS
<1>13. old \subseteq 1..n /\ 1..n \subseteq 1..(n + m)
  BY <1>3
<1> HIDE DEF now2
<1>14. {rules'[i].decl : i \in now2} = {d \in decls : d.until = 0}
  <2>1. ASSUME NEW i \in now2 PROVE rules'[i].decl \in decls /\ rules'[i].decl.until = 0
    BY <1>3, <1>5, <1>8, <1>9, <1>11, <1>12
  <2>2. ASSUME NEW d \in decls, d.until = 0 PROVE \E i \in now2 : rules'[i].decl = d
    <3>1. CASE d \in new
      BY <1>9, <1>10, <2>2, <3>1 DEF now2
    <3>2. CASE d \notin new
      <4>1. PICK i \in old : rules[i].decl = d
        BY <1>3, <3>2
      <4> QED BY <1>8, <1>11, <1>13, <4>1
    <3> QED BY <3>1, <3>2
  <2> QED BY <2>1, <2>2
<1>15. ASSUME NEW i \in now2, NEW j \in now2, rules'[i].decl.tuple = rules'[j].decl.tuple
       PROVE  i = j
  <2>1. rules'[i].decl = rules'[j].decl
    BY <1>4, <1>14, <1>15
  <2>2. CASE i \in 1..n /\ j \in 1..n
    BY <1>5, <1>8, <1>11, <1>15, <2>2
  <2>3. CASE i \in (n + 1)..(n + m) /\ j \in (n + 1)..(n + m)
    BY <1>9, <2>1, <2>3
  <2>4. ASSUME NEW h \in 1..n, NEW k \in (n + 1)..(n + m), h \in now2,
               rules'[h].decl = rules'[k].decl
        PROVE  FALSE
    BY <1>3, <1>8, <1>9, <1>11, <2>4
  <2> QED BY <1>12, <2>1, <2>2, <2>3, <2>4
<1>16. applied' = decls
  BY <1>2
<1> QED BY <1>7, <1>14, <1>15, <1>16 DEF RulesInv, Testimony!InForceAsDeclared

\* Only a reconcile touches the table, and it removes and rewrites nothing.
LEMMA OnlyReconcileWrites ==
  ASSUME Testimony!Next, ~Testimony!ReconcileRules
  PROVE  UNCHANGED <<rules, applied>>
BY DEF Testimony!Next, Testimony!Publish, Testimony!UpdateWarningState, Testimony!LoseUpdate,
       Testimony!LeaveRules, Testimony!Emit, Testimony!EmitNothing, Testimony!Record,
       Testimony!RecordNothing, Testimony!RecordFails, Testimony!Prune, Testimony!Restart,
       Testimony!Tick

LEMMA RowsAreHistory ==
  ASSUME CoverageType, Testimony!Next
  PROVE  Testimony!RulesAreHistory
<1>1. CASE Testimony!ReconcileRules
  <2>1. PICK f \in CoverageFiles, n \in Nat, m \in Nat : \E s :
          /\ applied' = Testimony!Loaded(f)
          /\ DOMAIN rules = 1..n /\ Len(rules) = n /\ Len(rules') = n + m
          /\ rules' \in Seq(RuleRows)
          /\ \A i \in 1..n : /\ rules'[i].decl = rules[i].decl
                             /\ i \notin Testimony!ToRetire(Testimony!Loaded(f)) =>
                                  rules'[i] = rules[i]
          /\ \A j \in 1..m : rules'[n + j].decl = s[j]
          /\ s \in [1..m -> Testimony!ToInsert(Testimony!Loaded(f))]
    BY <1>1, ReconcileFacts
  <2>2. \A i \in 1..n : rules[i].until # 0 => i \notin Testimony!ToRetire(Testimony!Loaded(f))
    BY DEF Testimony!ToRetire, Testimony!InForce
  <2>3. ASSUME NEW i \in DOMAIN rules' \ DOMAIN rules
        PROVE  /\ rules'[i].decl \in applied'
               /\ \A j \in Testimony!InForce : rules[j].decl # rules'[i].decl
    <3>1. DOMAIN rules' = 1..(n + m)
      BY <2>1
    <3>2. i - n \in 1..m /\ n + (i - n) = i
      BY <2>1, <2>3, <3>1
    <3>3. rules'[i].decl \in Testimony!ToInsert(Testimony!Loaded(f))
      BY <2>1, <3>2
    <3> QED BY <2>1, <3>3 DEF Testimony!ToInsert
  <2> QED BY <2>1, <2>2, <2>3 DEF Testimony!RulesAreHistory
<1>2. CASE ~Testimony!ReconcileRules
  <2>1. UNCHANGED rules /\ Len(rules) \in Nat
    BY <1>2, OnlyReconcileWrites DEF CoverageType
  <2> QED BY <2>1 DEF Testimony!RulesAreHistory
<1> QED BY <1>1, <1>2

\* The rules in force are exactly the open-ended ones last declared, one of a
\* tuple, and the table never forgets or rewrites a row, and is given no second
\* row for an open-ended declaration in force: for all coverage files, with
\* declarations that end and that do not, edited, lost or unreadable between any
\* two cycles, and any clock (reconcile_coverage_rules).
THEOREM RulesStand == ClaimsSpec => RulesAreKept
<1>1. ClaimsInit => ClaimsRulesInv
  <2> SUFFICES ASSUME Testimony!Init PROVE CoverageInv /\ RulesInv
    BY DEF ClaimsInit, ClaimsRulesInv
  <2>1. rules = <<>> /\ applied = {}
    BY DEF Testimony!Init
  <2> QED BY <2>1, CoverageStart DEF RulesInv, Testimony!InForceAsDeclared, Testimony!InForce
<1>2. ClaimsRulesInv /\ ClaimsCoverageInv' /\ [ClaimsNext]_claimsVars => ClaimsRulesInv'
  <2> SUFFICES ASSUME ClaimsRulesInv, ClaimsCoverageInv', [ClaimsNext]_claimsVars,
                      part' = "testimony"
               PROVE  RulesInv'
    BY DEF ClaimsRulesInv, ClaimsCoverageInv
  <2>1. part = "testimony" /\ CoverageInv /\ RulesInv
    BY DEF ClaimsRulesInv, ClaimsNext, claimsVars
  <2>2. CASE Testimony!ReconcileRules
    BY <2>1, <2>2, ReconcileKeeps DEF CoverageInv
  <2>3. CASE UNCHANGED <<rules, applied>>
    <3>1. Testimony!InForce' = Testimony!InForce
      BY <2>3 DEF Testimony!InForce
    <3> QED BY <2>1, <2>3, <3>1 DEF RulesInv, Testimony!InForceAsDeclared
  <2>4. Testimony!Next \/ UNCHANGED <<rules, applied>>
    BY <2>1 DEF ClaimsNext, claimsVars, testimonyVars
  <2> QED BY <2>2, <2>3, <2>4, OnlyReconcileWrites
<1>3. ClaimsRulesInv /\ [ClaimsNext]_claimsVars =>
        [part = "testimony" => Testimony!RulesAreHistory]_testimonyVars
  BY RowsAreHistory DEF ClaimsRulesInv, CoverageInv, ClaimsNext, claimsVars
<1>4. ClaimsRulesInv => (part = "testimony" => Testimony!InForceAsDeclared)
  BY DEF ClaimsRulesInv, RulesInv
<1> QED BY <1>1, <1>2, <1>3, <1>4, CoverageInvariance, PTL DEF ClaimsSpec, RulesAreKept
-----------------------------------------------------------------------------
(***************************************************************************)
(* The desk.                                                               *)
(***************************************************************************)
TargetRows == [at : 0..MaxTime, says : Says[desk], got : Int]

\* What verify wrote of an entry, and what an evaluator answered.
Written(e) == Evaluate(e.body.claim, Subject, e.supply, e.body.made)
Seen(e) == SubSeq(rows, 1, e.from)

\* The receipt of a registry desk is what verify wrote over packets on disk, or
\* that with another finding under the old seal or a new one.
VerifiedEntry(e) ==
  /\ {"body", "hash", "supply", "edited"} \subseteq DOMAIN e
  /\ BagToSet(e.supply) \subseteq Drafts
  /\ ~e.edited => e.body = Written(e).body /\ e.hash = Written(e).hash
  /\ e.edited =>
       /\ e.body = [Written(e).body EXCEPT !.finding = Verified({e.body.claim})]
       /\ e.hash \in {Written(e).hash, e.body}

\* The receipt of a preflight desk is an answer over rows that are still there.
AnsweredEntry(e) ==
  /\ ~e.edited /\ e.supply = EmptyBag /\ e.hash = e.body
  /\ e.from \in Nat /\ e.from <= Len(rows) /\ e.body.made \in Nat
  /\ \E res \in Preflight(desk, Seen(e), e.body.made) :
       e.body = FromPreflight(desk, res, e.body.made).body

DeskInv ==
  /\ desk \in Desks /\ now \in 0..MaxTime /\ files \subseteq Drafts
  /\ rows \in Seq(TargetRows)
  /\ \A e \in book : IF Registry THEN VerifiedEntry(e) ELSE AnsweredEntry(e)
ClaimsDeskInv == part = "desk" => DeskInv

\* What is named on a command line is on disk, each file once or twice.
LEMMA NamedIsOnDisk ==
  ASSUME NEW ps, NEW supply \in Supplies(ps)
  PROVE  /\ supply \in [ps -> {1, 2}] /\ BagToSet(supply) = ps
BY DEF Supplies, SetToBag, BagToSet

\* What a receipt of the registry says of itself.
LEMMA WrittenFacts ==
  ASSUME NEW c, NEW supply, NEW made, NEW b, b = Evaluate(c, Subject, supply, made).body
  PROVE  /\ b.claim = c /\ b.made = made /\ b.subject = Subject /\ b.horizon = None
         /\ {"claim", "subject", "finding", "refs", "first", "last", "horizon", "evaluator", "made"}
              \subseteq DOMAIN b
BY DEF Evaluate, Seal, Body

\* Rows that were there are there still.
LEMMA SeenStays ==
  ASSUME NEW S, NEW s \in Seq(S), NEW x \in S, NEW n \in Nat, n <= Len(s)
  PROVE  SubSeq(Append(s, x), 1, n) = SubSeq(s, 1, n)
OBVIOUS

\* A desk starts without rows, files and receipts.
LEMMA DeskStart == Init => DeskInv
BY ClaimDeskAssumption DEF Init, DeskInv, ClaimDeskAssumption

\* The clock and the files touch no receipt.
LEMMA DeskClock ==
  ASSUME DeskInv, Tick \/ SetBack \/ Collect
  PROVE  DeskInv'
<1>1. UNCHANGED <<desk, rows, book>> /\ now' \in 0..MaxTime /\ files' \subseteq Drafts
  BY ClaimDeskAssumption DEF Tick, SetBack, Collect, DeskInv, ClaimDeskAssumption
<1>2. \A e \in book : /\ VerifiedEntry(e)' <=> VerifiedEntry(e)
                      /\ AnsweredEntry(e)' <=> AnsweredEntry(e)
  BY <1>1 DEF VerifiedEntry, AnsweredEntry, Written, Seen
<1>3. Registry' <=> Registry
  BY <1>1 DEF Registry
<1>4. rows' \in Seq(TargetRows')
  BY <1>1 DEF DeskInv, TargetRows
<1>5. \A e \in book' : IF Registry' THEN VerifiedEntry(e)' ELSE AnsweredEntry(e)'
  BY <1>1, <1>2, <1>3 DEF DeskInv
<1> QED BY <1>1, <1>4, <1>5 DEF DeskInv

\* A row more changes nothing of what an earlier answer was made from.
LEMMA DeskObserve ==
  ASSUME DeskInv, Observe
  PROVE  DeskInv'
<1>1. PICK says \in Says[desk] : \E got \in Got(says) :
        rows' = Append(rows, [at |-> now, says |-> says, got |-> got])
  BY DEF Observe
<1>2. PICK got \in Got(says) : rows' = Append(rows, [at |-> now, says |-> says, got |-> got])
  BY <1>1
<1>3. UNCHANGED <<desk, now, files, book>> /\ ~Registry /\ ~Registry'
  BY DEF Observe, Registry
<1>4. got \in Int
  BY ClaimDeskAssumption DEF Got, None, DeskInv, ClaimDeskAssumption
<1> DEFINE row == [at |-> now, says |-> says, got |-> got]
<1>5. row \in TargetRows /\ TargetRows' = TargetRows
  BY <1>3, <1>4 DEF TargetRows, DeskInv
<1> HIDE DEF row
<1>6. rows \in Seq(TargetRows) /\ rows' = Append(rows, row)
  BY <1>2 DEF DeskInv, row
<1>7. rows' \in Seq(TargetRows) /\ Len(rows') = Len(rows) + 1 /\ Len(rows) \in Nat
  BY <1>5, <1>6
<1>8. ASSUME NEW e \in book PROVE AnsweredEntry(e)'
  <2>1. AnsweredEntry(e)
    BY <1>3 DEF DeskInv
  <2>2. SubSeq(rows', 1, e.from) = SubSeq(rows, 1, e.from)
    BY <1>5, <1>6, <2>1, SeenStays DEF AnsweredEntry
  <2>3. e.from <= Len(rows')
    BY <1>7, <2>1 DEF AnsweredEntry
  <2> QED BY <1>3, <2>1, <2>2, <2>3 DEF AnsweredEntry, Seen
<1> QED BY <1>3, <1>5, <1>7, <1>8 DEF DeskInv

\* What an evaluator answers is over all rows there are.
LEMMA DeskAnswer ==
  ASSUME DeskInv, Answer
  PROVE  DeskInv'
<1>1. /\ UNCHANGED <<desk, now, rows, files>> /\ ~Registry /\ ~Registry'
      /\ TargetRows' = TargetRows
  BY DEF Answer, Registry, TargetRows
<1>2. PICK res \in Preflight(desk, rows, now) :
        book' = book \cup {Entry(FromPreflight(desk, res, now), EmptyBag)}
  BY DEF Answer
<1> DEFINE new == Entry(FromPreflight(desk, res, now), EmptyBag)
<1>3. /\ ~new.edited /\ new.supply = EmptyBag /\ new.hash = new.body /\ new.from = Len(rows)
      /\ new.body = FromPreflight(desk, res, now).body
  BY DEF Entry, FromPreflight, Seal
<1>4. new.body.made = now
  BY DEF Entry, FromPreflight, Seal, Body
<1> HIDE DEF new
<1>5. SubSeq(rows, 1, Len(rows)) = rows /\ Len(rows) \in Nat
  BY DEF DeskInv
<1>6. AnsweredEntry(new)
  <2>1. Seen(new) = rows /\ new.body.made \in Nat /\ new.from \in Nat /\ new.from <= Len(rows)
    BY <1>3, <1>4, <1>5 DEF Seen, DeskInv
  <2>2. \E r \in Preflight(desk, rows, now) : new.body = FromPreflight(desk, r, now).body
    BY <1>3
  <2> QED BY <1>3, <1>4, <2>1, <2>2, Zenon DEF AnsweredEntry
<1>7. ASSUME NEW e, AnsweredEntry(e) PROVE AnsweredEntry(e)'
  BY <1>1, <1>7 DEF AnsweredEntry, Seen
<1>8. \A e \in book' : AnsweredEntry(e)'
  <2>1. \A e \in book' : AnsweredEntry(e)
    BY <1>1, <1>2, <1>6 DEF DeskInv, new
  <2> QED BY <1>7, <2>1
<1> QED BY <1>1, <1>8 DEF DeskInv

\* verify writes what the registry says of packets on disk.
LEMMA DeskVerify ==
  ASSUME DeskInv, Verify
  PROVE  DeskInv'
<1>1. /\ UNCHANGED <<desk, now, rows, files>> /\ Registry /\ Registry'
      /\ TargetRows' = TargetRows
  BY DEF Verify, Registry, TargetRows
<1>2. PICK c \in Questions, supply \in Supplies(files) :
        book' = book \cup {Entry(Evaluate(c, Subject, supply, now), supply)}
  BY DEF Verify
<1> DEFINE new == Entry(Evaluate(c, Subject, supply, now), supply)
<1>3. /\ ~new.edited /\ new.supply = supply
      /\ new.body = Evaluate(c, Subject, supply, now).body
      /\ new.hash = Evaluate(c, Subject, supply, now).hash
      /\ DOMAIN new = {"body", "hash", "supply", "from", "edited"}
  BY DEF Entry
<1>4. new.body.claim = c /\ new.body.made = now
  BY <1>3, WrittenFacts
<1> HIDE DEF new
<1>5. BagToSet(supply) \subseteq Drafts
  BY NamedIsOnDisk DEF DeskInv
<1>6. VerifiedEntry(new)
  BY <1>3, <1>4, <1>5 DEF VerifiedEntry, Written
<1>7. \A e \in book' : VerifiedEntry(e)
  BY <1>1, <1>2, <1>6 DEF DeskInv, new
<1>8. ASSUME NEW e, VerifiedEntry(e) PROVE VerifiedEntry(e)'
  BY <1>8 DEF VerifiedEntry, Written
<1>9. \A e \in book' : VerifiedEntry(e)'
  BY <1>7, <1>8
<1> QED BY <1>1, <1>9 DEF DeskInv

\* An altered file says verified, under the old seal or a new one.
LEMMA DeskAlter ==
  ASSUME DeskInv, Alter
  PROVE  DeskInv'
<1>1. PICK e \in book, reseal \in BOOLEAN :
        LET body == [e.body EXCEPT !.finding = Verified({e.body.claim})] IN
        /\ Registry /\ e.body # body /\ \A x \in book : ~x.edited
        /\ book' = (book \ {e}) \cup
               {[e EXCEPT !.body = body, !.hash = IF reseal THEN body ELSE @, !.edited = TRUE]}
        /\ UNCHANGED <<desk, now, back, rows, files>>
  BY DEF Alter
<1> DEFINE body == [e.body EXCEPT !.finding = Verified({e.body.claim})]
           new == [e EXCEPT !.body = body, !.hash = IF reseal THEN body ELSE @, !.edited = TRUE]
<1>2. Registry /\ Registry' /\ ~e.edited /\ UNCHANGED <<desk, now, rows, files>>
      /\ TargetRows' = TargetRows
  BY <1>1 DEF Registry, TargetRows
<1>3. VerifiedEntry(e)
  BY <1>2 DEF DeskInv
<1>4. VerifiedEntry(new)
  <2>1. e.body = Written(e).body /\ e.hash = Written(e).hash
    BY <1>2, <1>3 DEF VerifiedEntry
  <2>2. /\ new.body = body /\ new.hash \in {e.hash, body} /\ new.edited /\ new.supply = e.supply
        /\ DOMAIN new = DOMAIN e
    BY <1>3 DEF VerifiedEntry
  <2>3. {"finding", "claim", "made"} \subseteq DOMAIN e.body
    BY <2>1, WrittenFacts DEF Written
  <2>4. body.claim = e.body.claim /\ body.made = e.body.made
    BY <2>3
  <2> HIDE DEF new, body
  <2>5. Written(new) = Written(e)
    BY <2>2, <2>4 DEF Written
  <2>6. new.body = [Written(e).body EXCEPT !.finding = Verified({new.body.claim})]
    BY <2>1, <2>2, <2>4 DEF body
  <2> QED BY <1>3, <2>1, <2>2, <2>5, <2>6 DEF VerifiedEntry
<1>5. \A x \in book' : VerifiedEntry(x)
  BY <1>1, <1>2, <1>4 DEF DeskInv, new
<1>6. ASSUME NEW x, VerifiedEntry(x) PROVE VerifiedEntry(x)'
  BY <1>6 DEF VerifiedEntry, Written
<1>7. \A x \in book' : VerifiedEntry(x)'
  BY <1>5, <1>6
<1> QED BY <1>2, <1>7 DEF DeskInv

LEMMA DeskInvariance == ClaimsSpec => []ClaimsDeskInv
<1>1. ClaimsInit => ClaimsDeskInv
  BY DeskStart DEF ClaimsInit, ClaimsDeskInv
<1>2. ClaimsDeskInv /\ [ClaimsNext]_claimsVars => ClaimsDeskInv'
  <2> SUFFICES ASSUME ClaimsDeskInv, [ClaimsNext]_claimsVars, part' = "desk"
               PROVE  DeskInv'
    BY DEF ClaimsDeskInv
  <2>1. part = "desk" /\ DeskInv
    BY DEF ClaimsDeskInv, ClaimsNext, claimsVars
  <2>2. CASE UNCHANGED claimsVars
    <3>1. UNCHANGED <<desk, now, rows, files, book>>
      BY <2>2 DEF claimsVars, vars
    <3> QED BY <2>1, <3>1 DEF DeskInv, TargetRows, Registry, VerifiedEntry, AnsweredEntry, Written, Seen
  <2>3. CASE ClaimsNext
    <3>1. Next
      BY <2>1, <2>3 DEF ClaimsNext
    <3> QED BY <2>1, <3>1, DeskClock, DeskObserve, DeskAnswer, DeskVerify, DeskAlter DEF Next
  <2> QED BY <2>2, <2>3
<1> QED BY <1>1, <1>2, PTL DEF ClaimsSpec
-----------------------------------------------------------------------------
\* A set of numbers has a least one, and Min is it.
LEMMA MinIsLeast ==
  ASSUME NEW S \in SUBSET Nat, S # {}
  PROVE  Min(S) \in S /\ \A y \in S : Min(S) <= y
<1>1. PICK m \in S : \A y \in S : ~(<<y, m>> \in OpToRel(<, Nat))
  BY WFMin, NatLessThanWellFounded
<1>2. \A y \in S : m <= y
  <2>1. \A y, z \in Nat : y < z => <<y, z>> \in OpToRel(<, Nat)
    BY DEF OpToRel
  <2>2. \A y \in S : y \in Nat /\ m \in Nat /\ ~(y < m)
    BY <1>1, <2>1
  <2> QED BY <2>2
<1> QED BY <1>2 DEF Min

\* The outcome of grounds of which one holds is one of theirs.
LEMMA FirstIsNamed ==
  ASSUME NEW n \in Nat, NEW g, DOMAIN g = 1..n, Holds(g) # {}
  PROVE  \E i \in 1..n : g[i][1] /\ First(g) = g[i][2]
<1>1. Holds(g) \in SUBSET Nat /\ \A i \in Holds(g) : i \in 1..n /\ g[i][1]
  BY DEF Holds
<1>2. Min(Holds(g)) \in 1..n /\ g[Min(Holds(g))][1]
  BY <1>1, MinIsLeast
<1> QED BY <1>2 DEF First

Outcomes ==
  {"malformed_request", "consumer_unknown", "claim_not_authorized_for_consumer",
   "purpose_not_authorized", "cannot_testify", "claim_non_mintable", "claim_not_verified",
   "contradiction_retained", "custody_basis_not_accepted", "stale_evidence",
   "premise_not_accepted", "residual_obligation_blocks", "coverage_insufficient"}

\* What the required claims are refused for is a refusal, and without one each
\* is supported by verified receipts about the same subject.
LEMMA RequiredFacts ==
  ASSUME NEW body, NEW supporting, NEW profile
  PROVE  LET why == RequiredRefusal(body, supporting, profile) IN
         /\ why \in Outcomes \cup {"none"}
         /\ why = "none" =>
              \A c \in profile.required :
                /\ BoundFor(body, supporting, c) # {}
                /\ \A s \in BoundFor(body, supporting, c) : s.body.finding.status = "verified"
<1> DEFINE missing == {"coverage_insufficient" :
                         c \in {q \in profile.required : BoundFor(body, supporting, q) = {}}}
           refused == UNION {{SupportRefusal(s, c, profile) : s \in BoundFor(body, supporting, c)}
                               : c \in profile.required}
           found == (missing \cup refused) \ {"none"}
           why == RequiredRefusal(body, supporting, profile)
<1>1. ASSUME NEW s, NEW c
      PROVE  /\ SupportRefusal(s, c, profile) \in Outcomes \cup {"none"}
             /\ SupportRefusal(s, c, profile) = "none" => s.body.finding.status = "verified"
  BY DEF SupportRefusal, Outcomes
<1>2. why = IF found = {} THEN "none" ELSE CHOOSE x \in found : TRUE
  BY DEF RequiredRefusal
<1>3. found \subseteq Outcomes /\ "none" \notin found
  <2>1. missing \subseteq Outcomes
    BY DEF Outcomes
  <2>2. refused \subseteq Outcomes \cup {"none"}
    BY <1>1
  <2> QED BY <2>1, <2>2
<1>4. ASSUME found = {}, NEW c \in profile.required
      PROVE  /\ BoundFor(body, supporting, c) # {}
             /\ \A s \in BoundFor(body, supporting, c) : s.body.finding.status = "verified"
  <2>1. ASSUME BoundFor(body, supporting, c) = {} PROVE FALSE
    <3>1. "coverage_insufficient" \in missing
      BY <2>1
    <3> QED BY <1>4, <3>1
  <2>2. ASSUME NEW s \in BoundFor(body, supporting, c)
        PROVE  s.body.finding.status = "verified"
    <3>1. SupportRefusal(s, c, profile) \in refused
      OBVIOUS
    <3>2. SupportRefusal(s, c, profile) = "none"
      BY <1>4, <3>1
    <3> QED BY <1>1, <3>2
  <2> QED BY <2>1, <2>2
<1> HIDE DEF found, why
<1>5. CASE found = {}
  BY <1>2, <1>4, <1>5 DEF why
<1>6. CASE found # {}
  <2>1. why \in found
    BY <1>2, <1>6
  <2> QED BY <1>3, <2>1 DEF why
<1> QED BY <1>5, <1>6

\* None of the grounds holds of what is relied on.
LEMMA ReliedOn ==
  ASSUME NEW request, NEW r, NEW supporting, NEW context, NEW profile,
         Decide(request, r, supporting, context, profile) = "authorized_reliance"
  PROVE  /\ r.body.finding.status = "verified"
         /\ \A ref \in BagToSet(r.body.refs) : BasisOf(ref) \in profile.bases
         /\ RequiredRefusal(r.body, supporting, profile) = "none"
         /\ ~Older(context.age, profile.maxAge)
         /\ request.claim \in profile.claims /\ request.claim \notin r.body.refuses.names
<1> DEFINE asked == RequestGrounds(request, r, profile)
           found == FindingGrounds(r.body.finding, context, profile)
           stood == EvidenceGrounds(request, r.body, supporting, context, profile)
           required == RequiredRefusal(r.body, supporting, profile)
<1>1. "authorized_reliance" \notin Outcomes
  BY DEF Outcomes
<1>2. DOMAIN asked = 1..5 /\ \A i \in 1..5 : asked[i][2] \in Outcomes
  BY DEF RequestGrounds, Outcomes
<1>3. DOMAIN found = 1..3 /\ \A i \in 1..3 : found[i][2] \in Outcomes
  BY DEF FindingGrounds, Outcomes
<1>4. /\ DOMAIN stood = 1..9
      /\ stood[3][1] <=> required # "none"
      /\ stood[3][2] = required
  <2>1. DOMAIN stood = 1..9
    BY DEF EvidenceGrounds
  <2>2. stood[3][1] <=> required # "none"
    BY DEF EvidenceGrounds
  <2>3. stood[3][2] = required
    BY DEF EvidenceGrounds
  <2> HIDE DEF stood, required
  <2> QED BY <2>1, <2>2, <2>3
<1>5a. \A i \in 1..9 : i # 3 => stood[i][2] \in Outcomes
  <2>1. /\ stood[1][2] \in Outcomes /\ stood[2][2] \in Outcomes /\ stood[4][2] \in Outcomes
        /\ stood[5][2] \in Outcomes /\ stood[6][2] \in Outcomes /\ stood[7][2] \in Outcomes
        /\ stood[8][2] \in Outcomes /\ stood[9][2] \in Outcomes
    BY DEF EvidenceGrounds, Outcomes
  <2> HIDE DEF stood
  <2> QED BY <2>1
<1>5. required \in Outcomes \cup {"none"}
  BY RequiredFacts
<1>6. /\ found[2][1] <=> r.body.finding.status # "verified"
      /\ stood[1][1] <=> \E ref \in BagToSet(r.body.refs) : BasisOf(ref) \notin profile.bases
      /\ stood[8][1] <=> Older(context.age, profile.maxAge)
  BY DEF FindingGrounds, EvidenceGrounds
<1>6a. /\ asked[3][1] <=> request.claim \notin profile.claims
       /\ asked[5][1] <=> request.claim \in r.body.refuses.names
  BY DEF RequestGrounds
<1>7. Holds(asked) = {}
  BY <1>1, <1>2, FirstIsNamed DEF Decide
<1>8. Holds(found) = {}
  BY <1>1, <1>3, <1>7, FirstIsNamed DEF Decide
<1>9. Holds(stood) = {}
  <2>1. ASSUME Holds(stood) # {} PROVE FALSE
    <3>1. Decide(request, r, supporting, context, profile) = First(stood)
      BY <1>7, <1>8, <2>1 DEF Decide
    <3>2. PICK i \in 1..9 : stood[i][1] /\ First(stood) = stood[i][2]
      BY <1>4, <2>1, FirstIsNamed
    <3>3. stood[i][2] \in Outcomes
      <4> HIDE DEF stood, required
      <4> QED BY <1>4, <1>5, <1>5a, <3>2
    <3> QED BY <1>1, <3>1, <3>2, <3>3
  <2> QED BY <2>1
<1> HIDE DEF asked, found, stood
<1>10. ~found[2][1] /\ ~stood[1][1] /\ ~stood[3][1] /\ ~stood[8][1]
  BY <1>3, <1>4, <1>8, <1>9 DEF Holds
<1>11. ~asked[3][1] /\ ~asked[5][1]
  BY <1>2, <1>7 DEF Holds
<1> QED BY <1>4, <1>6, <1>6a, <1>10, <1>11 DEF required

\* The packets of the subject an entry was evaluated over.
Mine(e) == {p \in BagToSet(e.supply) : p.subject = e.body.subject}

\* A leaf is verified by packets that all meet its condition, and at least one.
LEMMA LeafStands ==
  ASSUME NEW c, NEW ps, \A p \in ps : p.obs \subseteq {"holds", "fails"},
         ResolveLeaf(c, ps).status = "verified"
  PROVE  LET heard_ == {p \in ps : p.type = WitnessType[c]} IN
         /\ \E p \in heard_ : "holds" \in p.obs
         /\ \A p \in heard_ : "fails" \notin p.obs
<1> DEFINE heard_ == {p \in ps : p.type = WitnessType[c]}
           seen == UNION {p.obs : p \in heard_}
<1>1. seen = {"holds"}
  BY DEF ResolveLeaf, Finding
<1>2. \A p \in heard_ : p.obs \subseteq {"holds"}
  BY <1>1
<1>3. "holds" \in seen
  BY <1>1
<1>4. PICK p \in heard_ : "holds" \in p.obs
  BY <1>3
<1> QED BY <1>2, <1>4

\* A claim of the registry is verified by all its leaves, or not at all.
LEMMA ClaimStands ==
  ASSUME NEW c, NEW ps, Resolve(c, ps).status = "verified"
  PROVE  /\ c \in Leaves \cup Composites
         /\ \A leaf \in LeavesOf(c) : ResolveLeaf(leaf, ps).status = "verified"
<1>1. CASE c \in Leaves
  <2>1. c \notin Composites
    BY <1>1 DEF Leaves, Composites, WitnessType, Requires
  <2> QED BY <1>1, <2>1 DEF Resolve, LeavesOf
<1>2. CASE c \notin Leaves /\ c \in Composites
  <2> DEFINE sub == [q \in Requires[c] |-> ResolveLeaf(q, ps)]
             good == {q \in Requires[c] : sub[q].status = "verified"}
             unverified == {<<q, sub[q].status>> : q \in Requires[c] \ good}
  <2>1. ResolveComposite(c, ps).status = "verified"
    BY <1>2 DEF Resolve
  <2>2. unverified = {}
    BY <2>1 DEF ResolveComposite, Finding
  <2>3. \A q \in Requires[c] : ResolveLeaf(q, ps).status = "verified"
    BY <2>2
  <2> QED BY <1>2, <2>3 DEF LeavesOf
<1>3. CASE c \notin Leaves /\ c \notin Composites
  BY <1>3 DEF Resolve, ResolveNonMintable, Finding
<1> QED BY <1>1, <1>2, <1>3

\* What the registry wrote over valid packets.
\* The earliest and the latest time of packets.
Times(ps) == {p.at : p \in ps}
Earliest(ps) == IF Times(ps) = {} THEN None ELSE Min(Times(ps))
Newly(ps) == IF Times(ps) = {} THEN None ELSE Max(Times(ps))
OfSubject(ps) == {p \in ps : p.subject = Subject}

LEMMA WrittenOver ==
  ASSUME NEW e, e.body.subject = Subject
  PROVE  /\ (\E p \in BagToSet(e.supply) : ~p.valid) =>
              /\ Written(e).body.finding.status = "invalid_evidence"
              /\ Written(e).body.evaluator = "none"
              /\ Written(e).hash = Unsealed
         /\ (\A p \in BagToSet(e.supply) : p.valid) =>
              /\ Written(e).body.finding = Resolve(e.body.claim, Mine(e))
              /\ Written(e).body.refs = [p \in Mine(e) |-> e.supply[p]]
              /\ Written(e).body.first = Earliest(Mine(e))
              /\ Written(e).body.last = Newly(Mine(e))
              /\ Written(e).body.evaluator = "claim_registry"
              /\ Written(e).hash = Written(e).body
<1>1. /\ BagToSet(Of(e.supply, Subject)) = Mine(e)
      /\ Of(e.supply, Subject) = [p \in Mine(e) |-> e.supply[p]]
  BY DEF BagToSet, Of, Mine
<1>2. ASSUME \E p \in BagToSet(e.supply) : ~p.valid
      PROVE  /\ Written(e).body.finding.status = "invalid_evidence"
             /\ Written(e).body.evaluator = "none"
             /\ Written(e).hash = Unsealed
  BY <1>2 DEF Written, Evaluate, Body, Finding
<1>3. ASSUME \A p \in BagToSet(e.supply) : p.valid
      PROVE  /\ Written(e).body.finding = Resolve(e.body.claim, Mine(e))
             /\ Written(e).body.refs = [p \in Mine(e) |-> e.supply[p]]
             /\ Written(e).body.evaluator = "claim_registry"
             /\ Written(e).hash = Written(e).body
  BY <1>1, <1>3 DEF Written, Evaluate, Body, Seal
<1>4. ASSUME \A p \in BagToSet(e.supply) : p.valid
      PROVE  /\ Written(e).body.first = Earliest(Mine(e))
             /\ Written(e).body.last = Newly(Mine(e))
  <2> DEFINE seen == Times(Mine(e))
  <2>1. PICK refs, finding : Written(e).body =
          Body(e.body.claim, Subject, finding, refs, seen, NoRefusals, None, None,
               "claim_registry", e.body.made)
    BY <1>1, <1>4 DEF Written, Evaluate, Seal, Times
  <2> QED BY <2>1 DEF Body, Earliest, Newly
<1> QED BY <1>2, <1>3, <1>4

\* A receipt that says verified, and was not altered, stands on what it says.
LEMMA VerifiedStands ==
  ASSUME DeskInv, NEW e \in book, ~e.edited, e.body.finding.status = "verified"
  PROVE  /\ Grounded(e)
         /\ e.body.evaluator = "sqlite_wal_state" => e.body.signals.band # "unclassified"
         /\ \A p \in Mine(e) : p \in BagToSet(e.body.refs) /\ BasisOf(p) = p.basis
<1>1. CASE Registry
  <2>1. VerifiedEntry(e) /\ e.body = Written(e).body
    BY <1>1 DEF DeskInv, VerifiedEntry
  <2>2. e.body.subject = Subject
    BY <2>1, WrittenFacts DEF Written
  <2>3. /\ e.body.finding = Resolve(e.body.claim, Mine(e)) /\ e.body.evaluator = "claim_registry"
        /\ e.body.refs = [p \in Mine(e) |-> e.supply[p]]
    <3>1. \A p \in BagToSet(e.supply) : p.valid
      BY <2>1, <2>2, WrittenOver
    <3> QED BY <2>1, <2>2, <3>1, WrittenOver
  <2>4. \A p \in Mine(e) : /\ p.obs \subseteq {"holds", "fails"} /\ "basis" \in DOMAIN p
    BY <2>1, ClaimDeskAssumption DEF Mine, VerifiedEntry, ClaimDeskAssumption
  <2>5. /\ e.body.claim \in Leaves \cup Composites
        /\ \A leaf \in LeavesOf(e.body.claim) : ResolveLeaf(leaf, Mine(e)).status = "verified"
    BY <2>3, ClaimStands
  <2>6. \A leaf \in LeavesOf(e.body.claim) :
          LET heard_ == {p \in Mine(e) : p.type = WitnessType[leaf]} IN
          /\ \E p \in heard_ : "holds" \in p.obs
          /\ \A p \in heard_ : "fails" \notin p.obs
    BY <2>4, <2>5, LeafStands
  <2>7. Grounded(e)
    BY <2>3, <2>5, <2>6 DEF Grounded, Mine
  <2>8. \A p \in Mine(e) : p # NoDigest /\ BasisOf(p) = p.basis
    BY <2>4 DEF NoDigest, BasisOf
  <2>9. BagToSet(e.body.refs) = Mine(e)
    BY <2>3 DEF BagToSet
  <2> QED BY <2>3, <2>7, <2>8, <2>9
<1>2. CASE ~Registry
  <2>1. AnsweredEntry(e)
    BY <1>2 DEF DeskInv
  <2>2. PICK res \in Preflight(desk, Seen(e), e.body.made) :
          e.body = FromPreflight(desk, res, e.body.made).body
    BY <2>1 DEF AnsweredEntry
  <2>3. /\ e.body.evaluator = desk /\ e.body.subject = res.target /\ e.body.signals = res.signals
        /\ \E claims : e.body.finding = MapVerdict(res.verdict, claims, res.excludes)
    BY <2>2 DEF FromPreflight, Seal, Body
  <2>4. res.verdict = "admissible_with_scope"
    BY <2>3 DEF MapVerdict, Finding
  <2>5. Grounded(e)
    BY <1>2, <2>2, <2>3, <2>4 DEF Grounded, Registry, Seen
  <2>6. ASSUME desk = "sqlite_wal_state" PROVE res.signals.band # "unclassified"
    <3>1. res = WalState(Seen(e), e.body.made)
      BY <2>2, <2>6 DEF Preflight
    <3> DEFINE class == ClassifyWindow(Seen(e), e.body.made)
               w == Recent(Seen(e), e.body.made)
    <3>2. res.verdict = WalVerdict(class) /\ res.signals = WalSignals(class, Seen(e), w)
      BY <3>1 DEF WalState, Result
    <3>3. class \in {"inaccessible_db", "contradictory", "no_rows_in_window", "latest_row_stale",
                     "insufficient_samples", "severe_sustained", "elevated_sustained", "bounded_wal"}
      BY DEF ClassifyWindow
    <3> HIDE DEF class, w
    <3>4. class \in {"bounded_wal", "elevated_sustained", "severe_sustained"}
      BY <2>4, <3>2, <3>3 DEF WalVerdict
    <3> QED BY <3>2, <3>4 DEF WalSignals
  <2>7. Mine(e) = {}
    BY <2>1 DEF Mine, AnsweredEntry, EmptyBag, SetToBag, BagToSet
  <2> QED BY <2>3, <2>5, <2>6, <2>7
<1> QED BY <1>1, <1>2

\* Reliance is authorised only on receipts that stand: for every set of packets,
\* questions, preflight rows, profiles and contexts, and any altered file
\* (decide_reliance).
THEOREM RelianceStands == ClaimsSpec => []RelianceIsGrounded
<1>1. DeskInv => AuthorizedStands
  <2> SUFFICES ASSUME DeskInv, NEW e \in book, ~e.edited, NEW profile \in Profiles,
                      NEW context \in Contexts, NEW q \in RequestsOf(e),
                      NEW supporting \in SUBSET book,
                      Decide(RequestFor(e, q, supporting), e, supporting, context, profile)
                        = "authorized_reliance"
               PROVE  /\ Grounded(e)
                      /\ e.body.evaluator = "sqlite_wal_state" => e.body.signals.band # "unclassified"
                      /\ \A p \in Mine(e) : p.basis \in profile.bases
                      /\ context.age = None \/ context.age <= profile.maxAge
                      /\ q.claim \in profile.claims /\ q.claim \notin e.body.refuses.names
                      /\ \A c \in profile.required : \E s \in supporting :
                           /\ s.body.claim = c /\ s.body.subject = e.body.subject
                           /\ s.edited \/ Grounded(s)
    BY Zenon DEF AuthorizedStands, Mine
  <2>1. /\ e.body.finding.status = "verified"
        /\ \A ref \in BagToSet(e.body.refs) : BasisOf(ref) \in profile.bases
        /\ RequiredRefusal(e.body, supporting, profile) = "none"
        /\ ~Older(context.age, profile.maxAge)
        /\ RequestFor(e, q, supporting).claim \in profile.claims
        /\ RequestFor(e, q, supporting).claim \notin e.body.refuses.names
    BY ReliedOn
  <2>2. /\ Grounded(e)
        /\ e.body.evaluator = "sqlite_wal_state" => e.body.signals.band # "unclassified"
        /\ \A p \in Mine(e) : p.basis \in profile.bases
    BY <2>1, VerifiedStands
  <2>3. /\ context.age = None \/ context.age <= profile.maxAge
        /\ q.claim \in profile.claims /\ q.claim \notin e.body.refuses.names
    <3>1. context.age \in Nat \cup {None} /\ profile.maxAge \in Nat
      BY ClaimDeskAssumption DEF ClaimDeskAssumption
    <3>2. RequestFor(e, q, supporting).claim = q.claim
      BY DEF RequestFor
    <3> QED BY <2>1, <3>1, <3>2 DEF Older
  <2>4. ASSUME NEW c \in profile.required
        PROVE  \E s \in supporting : /\ s.body.claim = c /\ s.body.subject = e.body.subject
                                     /\ s.edited \/ Grounded(s)
    <3>1. PICK s \in BoundFor(e.body, supporting, c) : s.body.finding.status = "verified"
      BY <2>1, RequiredFacts
    <3>2. s \in supporting /\ s \in book /\ s.body.claim = c /\ s.body.subject = e.body.subject
      BY DEF BoundFor
    <3>3. s.edited \/ Grounded(s)
      BY <3>1, <3>2, VerifiedStands
    <3> QED BY <3>2, <3>3
  <2> QED BY <2>2, <2>3, <2>4
<1>2. ClaimsDeskInv => RelianceIsGrounded
  BY <1>1 DEF ClaimsDeskInv, RelianceIsGrounded
<1> QED BY <1>2, DeskInvariance, PTL
-----------------------------------------------------------------------------
\* What the registry says of a set of packets, each named once.
LEMMA EvaluatedOnce ==
  ASSUME NEW c, NEW S, NEW made, \A p \in S : p.valid, NEW b,
         b = Evaluate(c, Subject, SetToBag(S), made).body
  PROVE  /\ b.finding = Resolve(c, OfSubject(S)) /\ b.refs = SetToBag(OfSubject(S))
         /\ b.first = Earliest(OfSubject(S)) /\ b.last = Newly(OfSubject(S))
<1> DEFINE e == [body |-> [claim |-> c, subject |-> Subject, made |-> made], supply |-> SetToBag(S)]
           m == OfSubject(S)
<1>1. BagToSet(e.supply) = S
  BY DEF BagToSet, SetToBag
<1>2. Written(e).body = b
  BY DEF Written
<1>3. Mine(e) = m /\ e.body.claim = c /\ e.body.subject = Subject
  BY <1>1 DEF Mine, OfSubject
<1>4. [p \in m |-> e.supply[p]] = SetToBag(m)
  BY DEF SetToBag, OfSubject
<1> HIDE DEF e, m
<1>5. /\ b.finding = Resolve(c, m) /\ b.refs = [p \in m |-> e.supply[p]]
      /\ b.first = Earliest(m) /\ b.last = Newly(m)
  BY <1>1, <1>2, <1>3, WrittenOver
<1> QED BY <1>4, <1>5 DEF m

\* A receipt that names the registry: altered or not, its references are the
\* packets of the subject it was evaluated over, and it is sealed.
LEMMA RegistryReceipt ==
  ASSUME DeskInv, NEW e \in book, e.body.evaluator = "claim_registry"
  PROVE  /\ VerifiedEntry(e) /\ e.body.subject = Subject /\ e.hash # Unsealed
         /\ \A p \in BagToSet(e.supply) : p.valid
         /\ e.body.refs = [p \in Mine(e) |-> e.supply[p]]
         /\ Anchored(e.body) = Mine(e) /\ NoDigest \notin BagToSet(e.body.refs)
         /\ e.body.first = Earliest(Mine(e))
         /\ e.body.last = Newly(Mine(e))
         /\ ~e.edited => e.body.finding = Resolve(e.body.claim, Mine(e)) /\ e.hash = e.body
<1> DEFINE w == Written(e).body
<1>1. Registry
  <2> SUFFICES ASSUME ~Registry PROVE FALSE
    OBVIOUS
  <2>1. PICK res : e.body = FromPreflight(desk, res, e.body.made).body
    BY DEF DeskInv, AnsweredEntry
  <2>2. e.body.evaluator = desk
    BY <2>1 DEF FromPreflight, Seal, Body
  <2> QED BY <2>2 DEF Registry
<1>2. VerifiedEntry(e)
  BY <1>1 DEF DeskInv
<1>3. /\ w.subject = Subject
      /\ {"subject", "finding", "refs", "first", "last", "evaluator"} \subseteq DOMAIN w
  BY WrittenFacts DEF Written
<1>4. e.body = w \/ e.body = [w EXCEPT !.finding = Verified({e.body.claim})]
  BY <1>2 DEF VerifiedEntry
<1> HIDE DEF w
<1>5. /\ e.body.subject = w.subject /\ e.body.refs = w.refs /\ e.body.first = w.first
      /\ e.body.last = w.last /\ e.body.evaluator = w.evaluator /\ DOMAIN e.body = DOMAIN w
  BY <1>3, <1>4
<1>6. e.body.subject = Subject
  BY <1>3, <1>5
<1>7. \A p \in BagToSet(e.supply) : p.valid
  BY <1>5, <1>6, WrittenOver DEF w
<1>9. /\ w.finding = Resolve(e.body.claim, Mine(e)) /\ w.refs = [p \in Mine(e) |-> e.supply[p]]
      /\ w.first = Earliest(Mine(e)) /\ w.last = Newly(Mine(e))
  BY <1>6, <1>7, WrittenOver DEF w
<1>10. BagToSet(e.body.refs) = Mine(e)
  BY <1>5, <1>9 DEF BagToSet
<1>11. \A p \in Mine(e) : p # NoDigest
  <2>1. \A p \in Mine(e) : "basis" \in DOMAIN p
    BY <1>2, ClaimDeskAssumption DEF Mine, VerifiedEntry, ClaimDeskAssumption
  <2> QED BY <2>1 DEF NoDigest
<1>12. Anchored(e.body) = Mine(e) /\ NoDigest \notin BagToSet(e.body.refs)
  BY <1>10, <1>11 DEF Anchored
<1>13. e.hash # Unsealed /\ (~e.edited => e.hash = e.body /\ e.body = w)
  <2>1. Written(e).hash = w
    BY <1>6, <1>7, WrittenOver DEF w
  <2>2. "finding" \in DOMAIN w
    BY <1>3
  <2>3. w # Unsealed /\ e.body # Unsealed
    BY <1>5, <2>2 DEF Unsealed
  <2> QED BY <1>2, <2>1, <2>3 DEF VerifiedEntry, w
<1> QED BY <1>2, <1>5, <1>6, <1>7, <1>9, <1>12, <1>13

\* What a replay that says ok compared.
LEMMA ReplayFacts ==
  ASSUME NEW e, NEW ps, NEW supply \in Supplies(ps)
  PROVE  LET again == Evaluate(e.body.claim, e.body.subject, SetToBag(ps), e.body.made).body IN
         ReplayExit(e, supply, None) = 0 <=>
           /\ \A p \in ps : p.valid
           /\ e.hash = Unsealed \/ e.hash = e.body
           /\ e.body.evaluator = "claim_registry"
           /\ Anchored(e.body) \subseteq ps
           /\ again.finding = e.body.finding /\ again.refs = e.body.refs
           /\ again.first = e.body.first /\ again.last = e.body.last
<1> DEFINE again == Evaluate(e.body.claim, e.body.subject, SetToBag(ps), e.body.made).body
<1>1. BagToSet(supply) = ps /\ Dedupe(supply) = SetToBag(ps)
  BY NamedIsOnDisk DEF Dedupe
<1>2. SemanticDiff(e.body, again) = {} <=>
        /\ again.finding = e.body.finding /\ again.refs = e.body.refs
        /\ again.first = e.body.first /\ again.last = e.body.last
  <2> HIDE DEF again
  <2> QED BY DEF SemanticDiff
<1>3. ReplayTrackB(e.body, supply) = "ok" <=>
        Anchored(e.body) \subseteq ps /\ SemanticDiff(e.body, again) = {}
  BY <1>1 DEF ReplayTrackB
<1>4. HashOutcome(e) = "broken_content_hash" <=> ~(e.hash = Unsealed \/ e.hash = e.body)
  BY DEF HashOutcome
<1>5. FreshOutcome(e.body, None) = "ok"
  BY DEF FreshOutcome
<1>6. ReplayStatus(e, supply) = "ok" <=>
        /\ HashOutcome(e) # "broken_content_hash" /\ e.body.evaluator = "claim_registry"
        /\ ReplayTrackB(e.body, supply) = "ok"
  BY DEF ReplayStatus
<1>7. ReplayExit(e, supply, None) = 0 <=>
        (\A p \in ps : p.valid) /\ ReplayStatus(e, supply) = "ok"
  BY <1>1, <1>5 DEF ReplayExit
<1> HIDE DEF again
<1> QED BY <1>2, <1>3, <1>4, <1>6, <1>7 DEF again

\* Replay tells the packets a receipt stands on.
LEMMA ReplayTells == DeskInv => ReplayReproduces
<1> SUFFICES ASSUME DeskInv, NEW e \in book, NEW ps \in SUBSET files, NEW supply \in Supplies(ps)
             PROVE  LET mine == {p \in ps : p.subject = e.body.subject}
                        ok == ReplayExit(e, supply, None) = 0
                    IN /\ (/\ ~e.edited
                           /\ e.body.evaluator = "claim_registry"
                           /\ \A p \in BagToSet(e.supply) : e.supply[p] = 1
                           /\ \A p \in ps : p.valid) => (ok <=> mine = Anchored(e.body))
                       /\ ok => Evaluate(e.body.claim, e.body.subject, SetToBag(Anchored(e.body)), None)
                                  .body.finding = e.body.finding
  BY Zenon DEF ReplayReproduces
<1> DEFINE mine == {p \in ps : p.subject = e.body.subject}
           ok == ReplayExit(e, supply, None) = 0
           again == Evaluate(e.body.claim, e.body.subject, SetToBag(ps), e.body.made).body
           anew == Evaluate(e.body.claim, e.body.subject, SetToBag(Anchored(e.body)), None).body
<1>1. ok <=> /\ \A p \in ps : p.valid
             /\ e.hash = Unsealed \/ e.hash = e.body
             /\ e.body.evaluator = "claim_registry"
             /\ Anchored(e.body) \subseteq ps
             /\ again.finding = e.body.finding /\ again.refs = e.body.refs
             /\ again.first = e.body.first /\ again.last = e.body.last
  BY ReplayFacts
<1>2. ASSUME e.body.evaluator = "claim_registry"
      PROVE  /\ e.body.subject = Subject
             /\ \A p \in BagToSet(e.supply) : p.valid
             /\ e.body.refs = [p \in Mine(e) |-> e.supply[p]] /\ Anchored(e.body) = Mine(e)
             /\ e.body.first = Earliest(Mine(e))
             /\ e.body.last = Newly(Mine(e))
             /\ ~e.edited => e.body.finding = Resolve(e.body.claim, Mine(e)) /\ e.hash = e.body
  BY <1>2, RegistryReceipt
<1>3. ASSUME \A p \in ps : p.valid, e.body.subject = Subject
      PROVE  /\ again.finding = Resolve(e.body.claim, mine) /\ again.refs = SetToBag(mine)
             /\ again.first = Earliest(mine)
             /\ again.last = Newly(mine)
  <2>1. mine = OfSubject(ps) /\ again = Evaluate(e.body.claim, Subject, SetToBag(ps), e.body.made).body
    BY <1>3 DEF OfSubject
  <2> HIDE DEF mine, again
  <2> QED BY <1>3, <2>1, EvaluatedOnce
<1>4. ASSUME e.body.evaluator = "claim_registry"
      PROVE  anew.finding = Resolve(e.body.claim, Mine(e))
  <2>1. /\ \A p \in Mine(e) : p.valid
        /\ OfSubject(Mine(e)) = Mine(e)
    BY <1>2, <1>4 DEF Mine, OfSubject
  <2>2. anew = Evaluate(e.body.claim, Subject, SetToBag(Mine(e)), None).body
    BY <1>2, <1>4
  <2> HIDE DEF anew
  <2> QED BY <2>1, <2>2, EvaluatedOnce
<1> HIDE DEF mine, again, anew, ok
<1>5. ASSUME ok PROVE mine = Mine(e) /\ mine = Anchored(e.body) /\ anew.finding = e.body.finding
  <2>1. SetToBag(mine) = [p \in Mine(e) |-> e.supply[p]]
    BY <1>1, <1>2, <1>3, <1>5
  <2>2. mine = Mine(e)
    BY <2>1 DEF SetToBag
  <2> QED BY <1>1, <1>2, <1>3, <1>4, <1>5, <2>2
<1>6. ASSUME ~e.edited, e.body.evaluator = "claim_registry",
             \A p \in BagToSet(e.supply) : e.supply[p] = 1, \A p \in ps : p.valid,
             mine = Anchored(e.body)
      PROVE  ok
  <2>1. mine = Mine(e) /\ mine \subseteq ps
    BY <1>2, <1>6 DEF mine
  <2>2. SetToBag(mine) = [p \in Mine(e) |-> e.supply[p]]
    BY <1>6, <2>1 DEF Mine, SetToBag
  <2> QED BY <1>1, <1>2, <1>3, <1>6, <2>1, <2>2
<1> QED BY <1>5, <1>6 DEF mine, ok, anew

\* A check tells an altered file, and a strict one the packets.
LEMMA CheckTells == DeskInv => CheckTellsTheFiles
<1> SUFFICES ASSUME DeskInv, NEW e \in book, NEW ps \in SUBSET files, NEW supply \in Supplies(ps),
                    \A p \in ps : p.valid
             PROVE  LET altered == e.edited /\ e.hash # e.body /\ e.hash # Unsealed IN
                    /\ CheckExit(e, supply, None, TRUE) = 2 <=> altered
                    /\ e.body.evaluator = "claim_registry" =>
                         (CheckExit(e, supply, None, TRUE) = 0 <=>
                            (~altered /\ supply = SetToBag(Mine(e))))
  BY Zenon DEF CheckTellsTheFiles, Mine
<1> DEFINE altered == e.edited /\ e.hash # e.body /\ e.hash # Unsealed
           witness == WitnessOutcomes(e.body, supply)
           outcomes == CheckReceipt(e, supply, None)
           code == CheckExit(e, supply, None, TRUE)
<1>1. BagToSet(supply) = ps /\ supply \in [ps -> {1, 2}]
  BY NamedIsOnDisk
<1>2. outcomes = {HashOutcome(e), "ok"} \cup witness
  BY DEF CheckReceipt, FreshOutcome
<1>3. witness \subseteq {"witness_not_anchored", "missing_witness_packet", "extra_witness_packet"}
  BY DEF WitnessOutcomes
<1>4. /\ HashOutcome(e) \in {"receipt_not_anchored", "ok", "broken_content_hash"}
      /\ HashOutcome(e) = "broken_content_hash" <=> e.hash # Unsealed /\ e.hash # e.body
      /\ HashOutcome(e) = "ok" <=> e.hash # Unsealed /\ e.hash = e.body
  BY DEF HashOutcome
<1>5. /\ code = IF "broken_content_hash" \in outcomes THEN 2
                ELSE IF "stale" \in outcomes \/ outcomes # {"ok"} THEN 1 ELSE 0
  BY <1>1 DEF CheckExit
<1> HIDE DEF witness, outcomes, code
<1>6. /\ code = 2 <=> HashOutcome(e) = "broken_content_hash"
      /\ code = 0 <=> HashOutcome(e) = "ok" /\ witness = {}
  <2>1. "broken_content_hash" \in outcomes <=> HashOutcome(e) = "broken_content_hash"
    BY <1>2, <1>3
  <2>2. outcomes = {"ok"} <=> HashOutcome(e) = "ok" /\ witness = {}
    <3>1. "ok" \notin witness
      BY <1>3
    <3> QED BY <1>2, <3>1
  <2>3. "stale" \notin outcomes
    BY <1>2, <1>3, <1>4
  <2> QED BY <1>5, <2>1, <2>2, <2>3
<1>7. ~e.edited => e.hash = Unsealed \/ e.hash = e.body
  <2>1. CASE Registry
    <3>1. ASSUME ~e.edited PROVE e.hash = Written(e).hash /\ e.body = Written(e).body
      BY <2>1, <3>1 DEF DeskInv, VerifiedEntry
    <3>2. Written(e).hash \in {Unsealed, Written(e).body}
      BY DEF Written, Evaluate, Seal
    <3> QED BY <3>1, <3>2
  <2>2. CASE ~Registry
    BY <2>2 DEF DeskInv, AnsweredEntry
  <2> QED BY <2>1, <2>2
<1>8. ASSUME e.body.evaluator = "claim_registry"
      PROVE  witness = {} <=> supply = SetToBag(Mine(e))
  <2>1. Anchored(e.body) = Mine(e) /\ NoDigest \notin BagToSet(e.body.refs)
    BY <1>8, RegistryReceipt
  <2>2. witness = {} <=> /\ Mine(e) \subseteq ps
                         /\ \A p \in ps : ~(supply[p] > (IF p \in Mine(e) THEN 1 ELSE 0))
    BY <1>1, <2>1 DEF witness, WitnessOutcomes
  <2>3. (\A p \in ps : ~(supply[p] > (IF p \in Mine(e) THEN 1 ELSE 0)))
          <=> \A p \in ps : p \in Mine(e) /\ supply[p] = 1
    BY <1>1
  <2>4. (Mine(e) \subseteq ps /\ \A p \in ps : p \in Mine(e) /\ supply[p] = 1)
          <=> supply = SetToBag(Mine(e))
    BY <1>1 DEF SetToBag
  <2> QED BY <2>2, <2>3, <2>4
<1>9. e.body.evaluator = "claim_registry" => e.hash # Unsealed
  BY RegistryReceipt
<1> QED BY <1>4, <1>6, <1>7, <1>8, <1>9 DEF code

\* Replay and check tell exactly the receipts that stand on the files they are
\* given: for every set of packets, however often a file is named on the command
\* line, and whatever was altered on disk (receipt_replay.rs, receipt_check.rs).
THEOREM ReceiptsStand == ClaimsSpec => []ReceiptsAgree
<1>1. ClaimsDeskInv => ReceiptsAgree
  BY ReplayTells, CheckTells DEF ClaimsDeskInv, ReceiptsAgree
<1> QED BY <1>1, DeskInvariance, PTL
-----------------------------------------------------------------------------
\* A bounded set of numbers has a largest one, and Max is it.
LEMMA MaxIsLargest ==
  ASSUME NEW n \in Nat, NEW S \in SUBSET (0..n), S # {}
  PROVE  Max(S) \in S /\ \A y \in S : y <= Max(S)
<1> DEFINE T == {n - x : x \in S}
<1>1. T \in SUBSET Nat /\ T # {}
  <2>1. \A x \in S : n - x \in Nat
    OBVIOUS
  <2> QED BY <2>1
<1>2. Min(T) \in T /\ \A y \in T : Min(T) <= y
  <2> HIDE DEF T
  <2> QED BY <1>1, MinIsLeast
<1>3. PICK x \in S : Min(T) = n - x
  BY <1>2
<1>4. \A y \in S : n - x <= n - y
  BY <1>2, <1>3
<1>5. \A y \in S : x >= y
  BY <1>4
<1>6. Max(S) \in S /\ \A y \in S : Max(S) >= y
  BY <1>5 DEF Max
<1> QED BY <1>6

\* Rows of a target, and the times of some of them.
LEMMA RowTimes ==
  ASSUME NEW s \in Seq(TargetRows)
  PROVE  /\ DOMAIN s = 1..Len(s) /\ Len(s) \in Nat
         /\ \A i \in 1..Len(s) : s[i].at \in 0..MaxTime /\ s[i].got \in Int
         /\ MaxTime \in Nat
<1>1. MaxTime \in Nat
  BY ClaimDeskAssumption DEF ClaimDeskAssumption
<1>2. DOMAIN s = 1..Len(s) /\ Len(s) \in Nat /\ \A i \in 1..Len(s) : s[i] \in TargetRows
  OBVIOUS
<1>3. \A r \in TargetRows : r.at \in 0..MaxTime /\ r.got \in Int
  BY DEF TargetRows
<1> QED BY <1>1, <1>2, <1>3

\* The newest row is there.
LEMMA NewestIsThere ==
  ASSUME NEW s \in Seq(TargetRows), s # <<>>
  PROVE  Newest(s) \in DOMAIN s
<1> DEFINE ats == {s[i].at : i \in DOMAIN s}
           last == {i \in DOMAIN s : s[i].at = Max(ats)}
<1>1. /\ DOMAIN s = 1..Len(s) /\ Len(s) \in Nat /\ Len(s) # 0
      /\ \A i \in 1..Len(s) : s[i].at \in 0..MaxTime
      /\ MaxTime \in Nat
  BY RowTimes
<1>2. ats \in SUBSET (0..MaxTime) /\ ats # {}
  BY <1>1
<1>3. Max(ats) \in ats /\ \A y \in ats : y <= Max(ats)
  <2> HIDE DEF ats
  <2> QED BY <1>1, <1>2, MaxIsLargest
<1>4. last \in SUBSET (0..Len(s)) /\ last # {}
  <2>1. last \subseteq 1..Len(s)
    BY <1>1
  <2>2. PICK i \in last : TRUE
    BY <1>3
  <2>3. 1..Len(s) \subseteq 0..Len(s)
    BY <1>1
  <2> HIDE DEF last
  <2> QED BY <2>1, <2>2, <2>3
<1>5. Max(last) \in last /\ \A y \in last : y <= Max(last)
  <2> HIDE DEF last
  <2> QED BY <1>1, <1>4, MaxIsLargest
<1> DEFINE i == Max(last)
<1>6. i \in DOMAIN s /\ s[i].at = Max(ats)
  BY <1>5
<1>7. ASSUME NEW j \in DOMAIN s PROVE s[j].at < s[i].at \/ (s[j].at = s[i].at /\ j <= i)
  <2>1. s[j].at <= s[i].at /\ s[j].at \in Nat /\ s[i].at \in Nat
    BY <1>1, <1>3, <1>6
  <2>2. s[j].at = s[i].at => j <= i
    BY <1>5, <1>6
  <2> QED BY <2>1, <2>2
<1> HIDE DEF i
<1> QED BY <1>6, <1>7 DEF Newest

\* The end of a receipt's time and the evaluator's boundary are one, kind by kind.
Meets(h, verdict) ==
  /\ now < h => verdict # "stale_testimony"
  /\ now > h => verdict # "admissible_with_scope"

\* The times of what a result admits.
AdmittedAt(res) == {x[2] : x \in res.supports}

\* Of one time, or of two of which the other is not later.
LEMMA OneTime ==
  ASSUME NEW x \in Int, NEW S, S = {x} \/ \E y \in Int : y <= x /\ S = {x, y}
  PROVE  Max(S) = x
<1>1. x \in S /\ \A y \in S : y \in Int /\ x >= y
  OBVIOUS
<1>2. Max(S) \in S /\ \A y \in S : Max(S) >= y
  BY <1>1 DEF Max
<1> QED BY <1>1, <1>2

LEMMA NewestMeets ==
  ASSUME now \in Nat, NEW at \in Nat, NEW fresh, fresh # "stale_testimony",
         NEW verdict, verdict = IF TooOld(at, now) THEN "stale_testimony" ELSE fresh
  PROVE  Meets(at + Stale, verdict)
BY PreflightsAssumption DEF Meets, TooOld, PreflightsAssumption

LEMMA DnsMeets ==
  ASSUME now \in Nat, NEW s \in Seq(TargetRows), NEW made,
         NEW seen, seen = AdmittedAt(DnsState(s, made)), seen # {}
  PROVE  Meets(Max(seen) + Stale, DnsState(s, now).verdict)
<1>1. s # <<>>
  BY DEF DnsState, Latest, Result, AdmittedAt
<1> DEFINE i == Newest(s)
           response == CHOOSE w \in s[i].says : TRUE
<1>2. i \in DOMAIN s
  BY <1>1, NewestIsThere
<1>3. PICK at \in Nat : at = s[i].at
  BY <1>2, RowTimes
<1>4. PICK cited \in {{}, {i}} : DnsState(s, made).supports = {<<j, s[j].at>> : j \in cited}
  BY <1>1 DEF DnsState, Latest, Result
<1>5. DnsState(s, now).verdict =
        IF TooOld(s[i].at, now) THEN "stale_testimony" ELSE DnsArm(response)[2]
  BY <1>1 DEF DnsState, Latest, Result
<1> HIDE DEF i
<1>6. seen = {s[i].at}
  <2>1. cited = {i}
    BY <1>4 DEF AdmittedAt
  <2>2. DnsState(s, made).supports = {<<i, s[i].at>>}
    BY <1>4, <2>1
  <2> QED BY <2>2 DEF AdmittedAt
<1>7. DnsArm(response)[2] # "stale_testimony"
  BY DEF DnsArm
<1> HIDE DEF response
<1>8. Max(seen) = at
  <2>1. seen = {at} /\ at \in Int
    BY <1>3, <1>6
  <2> QED BY <2>1, OneTime
<1> QED
  <2>1. DnsState(s, now).verdict = IF TooOld(at, now) THEN "stale_testimony" ELSE DnsArm(response)[2]
    BY <1>3, <1>5
  <2>2. Meets(at + Stale, DnsState(s, now).verdict)
    BY <1>7, <2>1, PreflightsAssumption DEF Meets, TooOld, PreflightsAssumption
  <2> QED BY <1>8, <2>2

LEMMA ServiceMeets ==
  ASSUME now \in Nat, NEW s \in Seq(TargetRows), NEW made,
         NEW seen, seen = AdmittedAt(ServiceState(s, made)), seen # {}
  PROVE  Meets(Max(seen) + Stale, ServiceState(s, now).verdict)
<1>1. s # <<>>
  BY DEF ServiceState, Latest, Result, AdmittedAt
<1> DEFINE i == Newest(s)
<1>2. i \in DOMAIN s
  BY <1>1, NewestIsThere
<1>3. PICK at \in Nat : at = s[i].at
  BY <1>2, RowTimes
<1>4. ServiceState(s, made).supports = {<<i, s[i].at>>}
  <2>1. ServiceState(s, made).supports = {<<j, s[j].at>> : j \in {i}}
    BY <1>1 DEF ServiceState, Latest, Result
  <2> HIDE DEF i
  <2> QED BY <2>1
<1>5. ServiceState(s, now).verdict =
        IF TooOld(s[i].at, now) THEN "stale_testimony" ELSE "admissible_with_scope"
  BY <1>1 DEF ServiceState, Latest, Result
<1> HIDE DEF i
<1>6. seen = {s[i].at}
  BY <1>4 DEF AdmittedAt
<1>7. Max(seen) = at
  <2>1. seen = {at} /\ at \in Int
    BY <1>3, <1>6
  <2> QED BY <2>1, OneTime
<1> QED
  <2>1. ServiceState(s, now).verdict = IF TooOld(at, now) THEN "stale_testimony" ELSE "admissible_with_scope"
    BY <1>3, <1>5
  <2>2. Meets(at + Stale, ServiceState(s, now).verdict)
    BY <2>1, NewestMeets
  <2> QED BY <1>7, <2>2

LEMMA IngestMeets ==
  ASSUME now \in Nat, NEW s \in Seq(TargetRows), s # <<>>, \A i \in DOMAIN s : s[i].got <= s[i].at,
         NEW i \in LatestGenerations(s), NEW j \in LatestGenerations(s), NEW made,
         NEW seen, seen = AdmittedAt(IngestState(s, made, i))
  PROVE  Meets(Max(seen) + Stale, IngestState(s, now, j).verdict)
<1>1. /\ i \in DOMAIN s /\ j \in DOMAIN s /\ s[i].at <= s[j].at /\ s[j].at <= s[i].at
      /\ s[i].at \in Nat /\ s[j].at \in Nat /\ s[i].got \in Int /\ s[i].got <= s[i].at
  BY RowTimes DEF LatestGenerations
<1>2. IngestState(s, made, i).supports = {<<i, s[i].at>>} \cup FailedSources(s, i)
  BY DEF IngestState, Result
<1>3. seen = {s[i].at} \/ seen = {s[i].at, s[i].got}
  <2>1. CASE s[i].got = None
    <3>1. IngestState(s, made, i).supports = {<<i, s[i].at>>}
      BY <1>2, <2>1 DEF FailedSources
    <3> QED BY <3>1 DEF AdmittedAt
  <2>2. CASE s[i].got # None
    <3>1. IngestState(s, made, i).supports = {<<i, s[i].at>>, <<-i, s[i].got>>}
      BY <1>2, <2>2 DEF FailedSources
    <3> QED BY <3>1 DEF AdmittedAt
  <2> QED BY <2>1, <2>2
<1>7. PICK at \in Nat, got \in Int : at = s[i].at /\ got = s[i].got /\ got <= at
  BY <1>1
<1>4. Max(seen) = at
  <2>1. at \in Int /\ (seen = {at} \/ seen = {at, got})
    BY <1>3, <1>7
  <2> QED BY <1>7, <2>1, OneTime
<1>5. IngestState(s, now, j).verdict =
        IF TooOld(s[j].at, now) THEN "stale_testimony" ELSE "admissible_with_scope"
  BY DEF IngestState, Result, IngestVerdict
<1>6. s[i].at = s[j].at
  BY <1>1
<1> QED
  <2>1. IngestState(s, now, j).verdict = IF TooOld(at, now) THEN "stale_testimony" ELSE "admissible_with_scope"
    BY <1>5, <1>6, <1>7
  <2>2. Meets(at + Stale, IngestState(s, now, j).verdict)
    BY <2>1, NewestMeets
  <2> QED BY <1>4, <2>2

\* Of the samples a window admitted, the newest is the newest there is, so the
\* window of a later question begins no later than it and tells its age.
LEMMA WalMeets ==
  ASSUME now \in Nat, NEW s \in Seq(TargetRows), NEW made \in Nat,
         NEW seen, seen = AdmittedAt(WalState(s, made)), seen # {}
  PROVE  Meets(Max(seen) + Stale, WalState(s, now).verdict)
<1> DEFINE w == Recent(s, made)
           v == Recent(s, now)
           ats(x) == {s[i].at : i \in x}
           class == ClassifyWindow(s, now)
<1>1. WalState(s, made).supports \in {{}, {<<i, s[i].at>> : i \in w}}
  BY DEF WalState, Result, WalSupports
<1>2. seen = ats(w)
  <2>1. WalState(s, made).supports = {<<i, s[i].at>> : i \in w}
    BY <1>1 DEF AdmittedAt
  <2> HIDE DEF w
  <2>2. \A i \in w : <<i, s[i].at>> \in WalState(s, made).supports /\ <<i, s[i].at>>[2] = s[i].at
    BY <2>1
  <2>3. \A x \in WalState(s, made).supports : \E i \in w : x[2] = s[i].at
    BY <2>1
  <2>4. \A a : a \in seen <=> \E x \in WalState(s, made).supports : a = x[2]
    BY DEF AdmittedAt
  <2>5. \A a : a \in seen <=> \E i \in w : a = s[i].at
    <3>1. ASSUME NEW i \in w PROVE s[i].at \in seen
      BY <2>2, <2>4
    <3>2. ASSUME NEW a \in seen PROVE \E i \in w : a = s[i].at
      BY <2>3, <2>4
    <3> QED BY <3>1, <3>2
  <2> QED BY <2>5
<1>3. /\ \A i \in DOMAIN s : s[i].at \in Nat /\ s[i].at \in 0..MaxTime
      /\ MaxTime \in Nat
  BY RowTimes
<1>4. /\ w = {i \in DOMAIN s : s[i].at >= made - Window}
      /\ v = {i \in DOMAIN s : s[i].at >= now - Window}
  BY DEF Recent
<1>5. Stale \in Nat /\ Window \in Nat /\ Stale < Window
  BY PreflightsAssumption DEF PreflightsAssumption
<1>6. WalState(s, now).verdict = WalVerdict(class)
  BY DEF WalState, Result
<1> HIDE DEF w, v
<1>7. seen \in SUBSET (0..MaxTime)
  BY <1>2, <1>3, <1>4
<1>8. Max(seen) \in seen /\ \A y \in seen : y <= Max(seen)
  BY <1>3, <1>7, MaxIsLargest
<1>9. PICK i \in w : s[i].at = Max(seen)
  BY <1>2, <1>8
<1> DEFINE m == Max(seen)
<1> HIDE DEF m
<1>10. m \in Nat /\ i \in DOMAIN s /\ s[i].at = m /\ m >= made - Window
  BY <1>3, <1>4, <1>9 DEF m
<1>11. \A j \in DOMAIN s : s[j].at <= m
  <2> SUFFICES ASSUME NEW j \in DOMAIN s, ~(s[j].at <= m) PROVE FALSE
    OBVIOUS
  <2>1. s[j].at \in Nat /\ s[j].at >= made - Window
    BY <1>3, <1>5, <1>10
  <2>2. s[j].at \in seen
    BY <1>2, <1>4, <2>1
  <2> QED BY <1>8, <2>2 DEF m
<1>12. class = "latest_row_stale" => v # {} /\ TooOld(Max(ats(v)), now)
  BY DEF ClassifyWindow, v
<1>13. class \in {"bounded_wal", "elevated_sustained", "severe_sustained"} =>
         v # {} /\ ~TooOld(Max(ats(v)), now)
  BY DEF ClassifyWindow, v
<1>14. class \in {"inaccessible_db", "contradictory", "no_rows_in_window", "latest_row_stale",
                  "insufficient_samples", "severe_sustained", "elevated_sustained", "bounded_wal"}
  BY DEF ClassifyWindow
<1>15. ASSUME v # {} PROVE Max(ats(v)) \in Nat /\ Max(ats(v)) <= m /\ (i \in v => Max(ats(v)) = m)
  <2>1. ats(v) \in SUBSET (0..MaxTime) /\ ats(v) # {}
    BY <1>3, <1>4, <1>15
  <2>2. Max(ats(v)) \in ats(v) /\ \A y \in ats(v) : y <= Max(ats(v))
    <3> HIDE DEF ats
    <3> QED BY <1>3, <2>1, MaxIsLargest
  <2>3. PICK j \in v : s[j].at = Max(ats(v))
    BY <2>2
  <2>4. Max(ats(v)) \in Nat /\ Max(ats(v)) <= m
    BY <1>3, <1>4, <1>11, <2>3
  <2>5. ASSUME i \in v PROVE m <= Max(ats(v))
    BY <1>10, <2>2, <2>5
  <2> QED BY <1>10, <2>4, <2>5
<1> HIDE DEF class, ats
<1>16. ASSUME now < m + Stale PROVE class # "latest_row_stale"
  <2>1. i \in v
    BY <1>4, <1>5, <1>10, <1>16
  <2>2. Max(ats(v)) = m
    BY <1>15, <2>1
  <2> QED BY <1>5, <1>10, <1>12, <1>16, <2>2 DEF TooOld
<1>17. ASSUME now > m + Stale
       PROVE  class \notin {"bounded_wal", "elevated_sustained", "severe_sustained"}
  BY <1>5, <1>10, <1>13, <1>15, <1>17 DEF TooOld
<1>18. Meets(m + Stale, WalVerdict(class))
  BY <1>14, <1>16, <1>17 DEF Meets, WalVerdict
<1> QED BY <1>6, <1>18 DEF m

\* check --fresh and the evaluator, asked again over the same rows, draw one
\* boundary, to the second: for every kind with a horizon, every sequence of
\* rows, window and threshold, and a clock that runs and is set back
\* (freshness_horizon_from, the evaluators).
THEOREM HorizonsAgree == ClaimsSpec => []HorizonAgrees
<1>1. DeskInv => StaleTogether
  <2> SUFFICES ASSUME DeskInv, NEW e \in book, e.body.horizon # None,
                      \A i \in DOMAIN Seen(e) : Seen(e)[i].got <= Seen(e)[i].at,
                      NEW again \in Preflight(desk, Seen(e), now)
               PROVE  /\ FreshOutcome(e.body, now) = "ok" => again.verdict # "stale_testimony"
                      /\ now > e.body.horizon => again.verdict # "admissible_with_scope"
    BY DEF StaleTogether, Seen
  <2>1. now \in Nat /\ desk \in {"claim_registry"} \cup Timed \cup Untimed
    BY ClaimDeskAssumption DEF DeskInv, ClaimDeskAssumption
  <2>2. ~Registry
    <3> SUFFICES ASSUME Registry PROVE FALSE
      OBVIOUS
    <3>1. VerifiedEntry(e)
      BY DEF DeskInv
    <3>2. Written(e).body.horizon = None /\ "horizon" \in DOMAIN Written(e).body
      BY WrittenFacts DEF Written
    <3> QED BY <3>1, <3>2 DEF VerifiedEntry
  <2>3. AnsweredEntry(e)
    BY <2>2 DEF DeskInv
  <2>4. PICK res \in Preflight(desk, Seen(e), e.body.made) :
          e.body = FromPreflight(desk, res, e.body.made).body
    BY <2>3 DEF AnsweredEntry
  <2> DEFINE s == Seen(e)
             made == e.body.made
             seen == AdmittedAt(res)
  <2>5. e.body.horizon = FreshnessHorizon(desk, seen)
    <3>1. PICK finding, refs :
            FromPreflight(desk, res, made) =
              Seal(Body(desk, res.target, finding, refs, seen, CannotTestify[desk],
                        FreshnessHorizon(desk, seen), res.signals, desk, made))
      BY Zenon DEF FromPreflight, AdmittedAt
    <3> HIDE DEF seen
    <3> QED BY <2>4, <3>1 DEF Seal, Body
  <2>6. desk \in Timed /\ seen # {} /\ e.body.horizon = Max(seen) + Stale
    BY <2>1, <2>2, <2>5 DEF FreshnessHorizon, Registry
  <2>7. s \in Seq(TargetRows) /\ made \in Nat
    BY <2>3 DEF DeskInv, AnsweredEntry, Seen
  <2> HIDE DEF s, made, seen
  <2>8. Meets(Max(seen) + Stale, again.verdict)
    <3>1. CASE desk = "dns_state"
      <4>1. res = DnsState(s, made) /\ again = DnsState(s, now)
        BY <2>4, <3>1 DEF Preflight, s, made
      <4> QED BY <2>1, <2>6, <2>7, <4>1, DnsMeets DEF seen
    <3>2. CASE desk = "service_state"
      <4>1. res = ServiceState(s, made) /\ again = ServiceState(s, now)
        BY <2>4, <3>2 DEF Preflight, s, made
      <4> QED BY <2>1, <2>6, <2>7, <4>1, ServiceMeets DEF seen
    <3>3. CASE desk = "sqlite_wal_state"
      <4>1. res = WalState(s, made) /\ again = WalState(s, now)
        BY <2>4, <3>3 DEF Preflight, s, made
      <4> QED BY <2>1, <2>6, <2>7, <4>1, WalMeets DEF seen
    <3>4. CASE desk = "ingest_state"
      <4>1. /\ \E i \in IF s = <<>> THEN {0} ELSE LatestGenerations(s) : res = IngestState(s, made, i)
            /\ \E i \in IF s = <<>> THEN {0} ELSE LatestGenerations(s) : again = IngestState(s, now, i)
        BY <2>4, <3>4 DEF Preflight, s, made
      <4>2. s # <<>>
        BY <2>6, <4>1 DEF seen, AdmittedAt, IngestState, Latest, Result
      <4>3. \A i \in DOMAIN s : s[i].got <= s[i].at
        BY DEF s
      <4>4. PICK i \in LatestGenerations(s), j \in LatestGenerations(s) :
              res = IngestState(s, made, i) /\ again = IngestState(s, now, j)
        BY <4>1, <4>2
      <4> QED BY <2>1, <2>7, <4>2, <4>3, <4>4, IngestMeets DEF seen
    <3> QED BY <2>6, <3>1, <3>2, <3>3, <3>4 DEF Timed
  <2>9. FreshOutcome(e.body, now) = "ok" => now < e.body.horizon
    BY <2>1 DEF FreshOutcome, None
  <2> QED BY <2>6, <2>8, <2>9 DEF Meets
<1>2. ClaimsDeskInv => HorizonAgrees
  BY <1>1 DEF ClaimsDeskInv, HorizonAgrees
<1> QED BY <1>2, DeskInvariance, PTL
=============================================================================
