--------------------------- MODULE RegimeFeatures ---------------------------
(***************************************************************************)
(* The regime features of one host: every cycle publishes a generation,    *)
(* runs the lifecycle pass (FindingRows) and then compute_features         *)
(* (crates/nq-db/src/regime.rs), each in a transaction of its own that may *)
(* fail and leave the others standing.  Notifications and pages read the   *)
(* newest row of each feature, whichever generation wrote it, so only that *)
(* row is kept here.                                                       *)
(*                                                                         *)
(* The host has one metric: the three the code knows are treated alike.    *)
(* Which findings fire is an input (Detectors has the detectors).          *)
(***************************************************************************)
EXTENDS FindingRows, Regime

CONSTANTS
  Inputs,      \* what a generation can bring: [value, fires], NoValue when silent
  NoValue,     \* the host did not report
  KindOrder,   \* the kinds of the instance, in alphabetical order
  PastKind,    \* a kind with a history before the first step
  PastGens,    \* length of that history
  PastSeries,  \* values the host may have reported in the last of them
  MaxGen       \* bound: generations

InputsAssumption ==
  /\ Cardinality(Hosts) = 1
  /\ ToSet(KindOrder) = Kinds /\ Len(KindOrder) = Cardinality(Kinds)
  /\ \A v \in PastSeries : Len(v) <= PastGens
  /\ PastKind \in Kinds /\ PastGens \in Nat /\ MaxGen \in Nat
  /\ \A i \in Inputs : i.fires \subseteq Kinds /\ i.value \in Nat \cup {NoValue}

VARIABLES
  gen,        \* latest generation
  stage,      \* "idle", "published", "judged" or "computed"
  firing,     \* kinds the detectors find in this generation
  series,     \* hosts_history of the metric
  asOf,       \* as_of_generation of hosts_current, 0 without a row
  present,    \* finding_observations: generations a kind was observed in
  warnings,   \* warning_state
  features    \* newest row of regime_features per feature and subject

vars == <<gen, stage, firing, series, asOf, present, warnings, features>>

TheHost == CHOOSE h \in Hosts : TRUE
Key(kind) == <<TheHost, kind>>
-----------------------------------------------------------------------------
(***************************************************************************)
(* What compute_features writes for the generation.                        *)
(***************************************************************************)
Observed == {k \in Kinds : Key(k) \in DOMAIN warnings /\ warnings[Key(k)].vis = "observed"}

\* All pairs of observed findings with their overlap, in the order of the loop.
Candidates ==
  LET pairs == {p \in (DOMAIN KindOrder) \X (DOMAIN KindOrder) :
                  p[1] < p[2] /\ {KindOrder[p[1]], KindOrder[p[2]]} \subseteq Observed}
      rank(p) == (p[1] - 1) * Len(KindOrder) + p[2]
      sorted == SetToSortSeq(pairs, LAMBDA p, q : rank(p) < rank(q))
      of(p) == {KindOrder[p[1]], KindOrder[p[2]]}
  IN  [i \in DOMAIN sorted |->
         [pair |-> of(sorted[i]), hint |-> RegimeHint(of(sorted[i])),
          depth |-> OverlapDepth(present[KindOrder[sorted[i][1]]],
                                 present[KindOrder[sorted[i][2]]], gen),
          rank |-> rank(sorted[i])]]

Covering == {"stale_host", "smart_witness_silent", "zfs_witness_silent"}

\* compute_host_observability
EvidenceBasis ==
  IF asOf = gen THEN "direct"
  ELSE IF Observed \cap Covering # {} THEN "inferred"
  ELSE "missing"

ResolutionSeries == Recent(series, gen, ResolutionWindow)

\* Subjects a row is written for; the others keep the row they have.
Written ==
  (IF Recent(series, gen, TrajectoryWindow) = <<>> THEN {} ELSE {<<"trajectory", "metric">>})
  \cup {<<"persistence", k>> : k \in Observed}
  \cup {<<"recovery", k>> : k \in {x \in Kinds : \E g \in present[x] : g > gen - RecoveryLookback}}
  \cup (IF Observed = {} THEN {} ELSE {<<"co_occurrence", "host">>})
  \cup (IF Len(ResolutionSeries) >= ResolutionMinSamples /\ PriorPressure(ResolutionSeries)
        THEN {<<"resolution", "metric">>} ELSE {})
  \cup (IF asOf = 0 THEN {} ELSE {<<"observability", "host">>})

Says(x) ==
  CASE x[1] = "trajectory"    -> Direction(Recent(series, gen, TrajectoryWindow))
    [] x[1] = "persistence"   -> Persistence(present[x[2]], warnings[Key(x[2])].streak, gen)
    [] x[1] = "recovery"      -> Recovery(present[x[2]], gen)
    [] x[1] = "co_occurrence" -> Dominant(Candidates)
    [] x[1] = "resolution"    -> ResolutionPhase(ResolutionSeries)
    [] x[1] = "observability" -> EvidenceBasis

\* compute_features, one transaction.
ComputeFeatures ==
  /\ stage = "judged"
  /\ features' = [x \in DOMAIN features \cup Written |->
                    IF x \in Written THEN [gen |-> gen, says |-> Says(x)] ELSE features[x]]
  /\ stage' = "computed"
  /\ UNCHANGED <<gen, firing, series, asOf, present, warnings>>

\* The transaction fails; the cycle goes on to the notifications.
LoseFeatures ==
  /\ stage = "judged"
  /\ stage' = "idle"
  /\ UNCHANGED <<gen, firing, series, asOf, present, warnings, features>>

\* compute_regime_annotation: the badge of a finding, from the newest rows.
Newest(x) == IF x \in DOMAIN features THEN features[x].says ELSE "none"
Annotation(k) ==
  Badge(Newest(<<"persistence", k>>), Newest(<<"recovery", k>>),
        {Newest(<<"resolution", "metric">>)})
-----------------------------------------------------------------------------
(***************************************************************************)
(* The rest of the cycle.                                                  *)
(***************************************************************************)
Publish ==
  /\ stage \in {"idle", "computed"}
  /\ gen < MaxGen
  /\ gen' = gen + 1
  /\ \E i \in Inputs :
       /\ firing' = i.fires
       /\ series' = IF i.value = NoValue THEN series
                    ELSE Append(series, [gen |-> gen + 1, value |-> i.value])
       /\ asOf' = IF i.value = NoValue THEN asOf ELSE gen + 1
  /\ stage' = "published"
  /\ UNCHANGED <<present, warnings, features>>

\* An emission without a rule and without an incident.
Plain == [hash |-> None, incident |-> FALSE]

\* The lifecycle pass writes an observation for every finding that fires.
ObservedIn(k) == present[k] \cup (IF k \in firing THEN {gen} ELSE {})

UpdateWarningState ==
  /\ stage = "published"
  /\ warnings' = Inner(warnings, [k \in {Key(x) : x \in firing} |-> Plain],
                       gen, {}, 0, Hosts, Hosts)
  /\ present' = [k \in Kinds |-> ObservedIn(k)]
  /\ stage' = "judged"
  /\ UNCHANGED <<gen, firing, series, asOf, features>>

LoseUpdate ==
  /\ stage = "published"
  /\ stage' = "judged"
  /\ UNCHANGED <<gen, firing, series, asOf, present, warnings, features>>

\* The row the lifecycle passes leave for a finding observed in generations p.
PastRow(p) ==
  LET last == CHOOSE g \in p : \A x \in p : x <= g
      streak == Cardinality({g \in p : g..last \subseteq p})
  IN  [FreshRow(Key(PastKind), Plain, last, {}) EXCEPT
         !.streak = streak, !.absent = PastGens - last,
         !.sev = Severity(Key(PastKind), Plain, streak)]

Lingers(p) == \E g \in p : g > PastGens - RecoveryWindow

\* A series that ends with generation PastGens.
Dated(values) ==
  LET dated == [i \in DOMAIN values |->
                  [gen |-> PastGens - Len(values) + i, value |-> values[i]]]
  IN  SelectSeq(dated, LAMBDA x : x.value # NoValue)

\* A store with PastGens generations, in which one finding came and went or the
\* host reported for a while.
Init ==
  /\ gen = PastGens
  /\ stage = "idle"
  /\ firing = {}
  /\ \E p \in SUBSET (1..PastGens), values \in PastSeries :
       /\ p = {} \/ values = <<>>
       /\ series = Dated(values)
       /\ asOf = IF series = <<>> THEN 0 ELSE Last(series).gen
       /\ present = [k \in Kinds |-> IF k = PastKind THEN p ELSE {}]
       /\ warnings = [x \in IF Lingers(p) THEN {Key(PastKind)} ELSE {} |-> PastRow(p)]
  /\ features = [x \in {} |-> 0]

Next ==
  \/ Publish \/ UpdateWarningState \/ LoseUpdate
  \/ ComputeFeatures \/ LoseFeatures

Spec == Init /\ [][Next]_vars
-----------------------------------------------------------------------------
(***************************************************************************)
(* Properties.                                                             *)
(***************************************************************************)

\* The order of the stages in serve.rs: when notifications go out after a pass
\* that computed its features, the badge of a finding that fires in it rests on
\* persistence and recovery of this generation, and counts this generation.  A
\* badge of "stable" is then given only to a finding that has lasted and that
\* had recovered before.
AnnotatedFresh ==
  stage = "computed" =>
    \A k \in Kinds :
      (Key(k) \in DOMAIN warnings /\ warnings[Key(k)].lastSeen = gen)
      => /\ gen \in present[k]
         /\ \A f \in {"persistence", "recovery"} :
              <<f, k>> \in DOMAIN features /\ features[<<f, k>>].gen = gen
         /\ Annotation(k) = "stable" =>
              /\ warnings[Key(k)].streak >= EntrenchedStreak
              /\ RecoveryLags(FindingRuns(present[k], gen)) # <<>>

\* Stretches of at least MinRunLength generations with or without k.
Stretches(k, there) ==
  LET first == Greatest(0, gen - RecoveryLookback) + 1
      same(g) == (g \in present[k]) = there
  IN  {s \in (first..gen) \X (first..gen) :
         /\ s[2] - s[1] + 1 >= MinRunLength
         /\ \A g \in s[1]..s[2] : same(g)
         /\ s[1] = first \/ ~same(s[1] - 1)
         /\ s[2] = gen \/ ~same(s[2] + 1)}

\* The stretches of presence that the stretch of absence a ends.
Episode(k, a) ==
  {s \in Stretches(k, TRUE) :
     s[2] < a[1] /\ \A b \in Stretches(k, FALSE) : b[1] > s[2] => b[1] >= a[1]}

\* Recovery lags are the lengths of the episodes of a finding: for every
\* lasting absence, the lasting presence since the one before it.  The pipeline
\* of build_runs, filter_short_and_merge_runs and extract_cycle_samples loses
\* none, invents none and keeps their order, and the class of the last one is
\* told from the ones before it alone.  Recurrence intervals lie between
\* episodes: one less than episodes while the finding is away, as many when it
\* is back.
LagsAreEpisodes ==
  stage = "judged" => \A k \in Kinds :
    LET ends == SetToSortSeq({a \in Stretches(k, FALSE) : Episode(k, a) # {}},
                             LAMBDA a, b : a[1] < b[1])
        length(i) == FoldLeft(LAMBDA n, s : n + s[2] - s[1] + 1, 0,
                              SetToSeq(Episode(k, ends[i])))
        lags == [i \in DOMAIN ends |-> length(i)]
        prior == SortSeq(SubSeq(lags, 1, Len(lags) - 1), <)
        cycles == Len(lags) - 1
        runs == FindingRuns(present[k], gen)
    IN  /\ RecoveryLags(runs) = lags
        /\ lags # <<>> =>
             Len(RecurrenceIntervals(runs)) = (IF Last(runs).present THEN cycles + 1 ELSE cycles)
        /\ Recovery(present[k], gen) = "pathological" =>
             /\ cycles >= MinCycles
             /\ Last(lags) > SlowFactor * prior[(cycles + 1) \div 2]

\* The series is read as it is: plateau_depth is its longest tail within the
\* tolerance; a series that never falls is not called falling, one that never
\* rises is not called rising; and read backwards a trend turns around.
SeriesIsRead ==
  stage = "published" =>
    LET s == Recent(series, gen, TrajectoryWindow)
        back == [i \in DOMAIN s |-> [gen |-> gen - s[Len(s) - i + 1].gen,
                                     value |-> s[Len(s) - i + 1].value]]
        tails == {d \in DOMAIN series :
                    \A i \in (Len(series) - d + 1)..Len(series) :
                      OnPlateau(series[i].value, Last(series).value)}
    IN  /\ series # <<>> => /\ PlateauDepth(series) \in tails
                            /\ \A d \in tails : d <= PlateauDepth(series)
        /\ (\A i \in 1..(Len(s) - 1) : s[i].value <= s[i + 1].value) => Direction(s) # "falling"
        /\ (\A i \in 1..(Len(s) - 1) : s[i].value >= s[i + 1].value) => Direction(s) # "rising"
        /\ Direction(s) = "rising" => Direction(back) = "falling"

\* The dominant pair does not depend on the order of the loop: no pair that
\* lasted long enough is named where it is not, deeper among equals, or first
\* by name among those; and none is dominant when none lasted.
DominantIsBest ==
  LET lasting == {c \in ToSet(Candidates) : c.depth >= CoOccurrenceMinDepth}
      best == Dominant(Candidates)
      named(c) == c.hint # "none"
  IN  stage = "judged" =>
      /\ best \subseteq lasting
      /\ best = {} <=> lasting = {}
      /\ \A b \in best, c \in lasting :
           /\ named(c) => named(b)
           /\ named(c) = named(b) =>
                c.depth < b.depth \/ (c.depth = b.depth /\ b.rank <= c.rank)
=============================================================================
