-------------------------- MODULE DetectionProofs --------------------------
(***************************************************************************)
(* No report, no recovery, and an unobservable node's cause, for every     *)
(* family of detectors, every report and every number of generations.      *)
(***************************************************************************)
EXTENDS MCDetection, FindingRowsProofs, SequenceTheorems

\* What keeps a finding of the host collector: its row, or the trend of its
\* history.  A level of a host that is no longer fresh still holds.
HostHolds(kind) ==
  /\ host # <<>>
  /\ \/ kind = "stale_host" /\ Stale(Head(host).asOf, gen)
     \/ kind = "disk_pressure" /\ Head(host).data.disk > 90
     \/ kind = "mem_pressure" /\ Head(host).data.mem > 85
     \/ kind = "resource_drift" /\ family = "host" /\ ResourceDrift(history)

\* What keeps a finding of the family: it fires, or its witness has failed.
FamilyHolds(kind) ==
  /\ current # <<>>
  /\ \/ FamilyFires(kind)
     \/ /\ family \in Witnesses /\ kind \in FamilyKinds[family]
        /\ Head(current).data.status = "failed"

Holds(kind) == HostHolds(kind) \/ FamilyHolds(kind)

\* Kinds whose collector has testified since they last fired.
Excused ==
  Forgetful \cup {"source_error"} \cup heard \cup (IF phase = "published" THEN Testified ELSE {})

Levels == {"disk_pressure", "mem_pressure"}

\* Passes in which a level may have been missed: those since its host is no
\* longer fresh.
Missed == (IF phase = "published" THEN gen - 1 ELSE gen) - Head(host).asOf - Config.fresh

PlaceOf(kind) == IF kind \in Hostless THEN NoHost ELSE Host
Cause == <<Host, IF family = "zfs" THEN "zfs_witness_silent" ELSE "smart_witness_silent">>

FleetTypes ==
  /\ family \in Families
  /\ gen \in Nat /\ now \in Nat
  /\ IsTable(rows)
  /\ \E S : history \in Seq(S)
  /\ host # <<>> => Head(host).asOf \in Nat /\ Head(host).asOf <= gen
  /\ current # <<>> => /\ Head(current).asOf \in Nat /\ Head(current).asOf <= gen
                       /\ Head(current).received \in Nat
                       /\ Head(current).data \in Data[family]

RowsKept ==
  \A k \in DOMAIN rows :
    /\ HostOf(k) = PlaceOf(KindOf(k))
    /\ rows[k].gone <= EntityGcThreshold
    /\ rows[k].skind # "operator_declaration"

RowsHeld == \A k \in DOMAIN rows : KindOf(k) \notin Excused => Holds(KindOf(k))

LevelsMissed ==
  \A k \in DOMAIN rows :
    KindOf(k) \in Levels \ Excused => rows[k].absent = 0 \/ rows[k].absent <= Missed

CausesKept ==
  \A k \in DOMAIN rows :
    KindOf(k) = "node_unobservable" /\ rows[k].vis = "observed" =>
      /\ family \in Witnesses
      /\ \/ Cause \in collected
         \/ Cause \in DOMAIN rows /\ rows[Cause].absent = rows[k].absent

FleetInv == FleetTypes /\ RowsKept /\ RowsHeld /\ LevelsMissed /\ CausesKept
-----------------------------------------------------------------------------
(***************************************************************************)
(* What fires.                                                             *)
(***************************************************************************)

\* A row fires at the place of its kind, and not for the host's sake alone.
LEMMA FiringFacts ==
  /\ IsFiring(Detected)
  /\ \A k : k \in DOMAIN Detected <=> k \in Keys /\ Fires(k)
<1>1. \A k : k \in DOMAIN Detected <=> k \in Keys /\ Fires(k)
  BY DEF Detected
<1>2. ASSUME NEW k \in DOMAIN Detected
      PROVE  Detected[k] \in Emissions
  <2>1. /\ Detected[k] = [hash |-> None, incident |-> Detected[k].incident]
        /\ Detected[k].incident = (KindOf(k) = "service_status" /\ Incident(Head(current).data))
    BY DEF Detected
  <2>2. Detected[k].incident \in BOOLEAN
    BY <2>1, Zenon
  <2>3. ASSUME NEW x \in BOOLEAN PROVE [hash |-> None, incident |-> x] \in Emissions
    BY DEF Emissions
  <2> QED BY <2>1, <2>2, <2>3
<1>3. Detected \in [DOMAIN Detected -> Emissions]
  BY <1>2 DEF Detected
<1> QED BY <1>1, <1>3 DEF IsFiring

\* The kinds a host detector may fire.
LEMMA HostKind ==
  ASSUME NEW kind, HostHolds(kind)
  PROVE  kind \in FamilyKinds["host"] \cup {"stale_host"}
BY DEF HostHolds, FamilyKinds

\* The kinds a detector of the family may fire are those of the family.
LEMMA FamilyKind ==
  ASSUME NEW kind, FamilyHolds(kind)
  PROVE  kind \in FamilyKinds[family]
<1>1. CASE family \in Witnesses /\ kind \in FamilyKinds[family]
  BY <1>1
<1>2. CASE FamilyFires(kind)
  <2>1. CASE family = "services" /\ ServicesFire(kind, Head(current))
    BY <2>1 DEF ServicesFire, FamilyKinds
  <2>2. CASE family = "sqlite" /\ SqliteFires(kind, Head(current))
    BY <2>2 DEF SqliteFires, FamilyKinds
  <2>3. CASE family = "metrics" /\ MetricsFire(kind, Head(current))
    BY <2>3 DEF MetricsFire, FamilyKinds
  <2>4. CASE family = "logs" /\ LogsFire(kind, Head(current))
    BY <2>4 DEF LogsFire, FamilyKinds
  <2>5. CASE family = "zfs" /\ ZfsFires(kind, Head(current))
    BY <2>5 DEF ZfsFires, FamilyKinds, ZfsKinds
  <2>6. CASE family = "smart" /\ SmartFires(kind, Head(current))
    BY <2>6 DEF SmartFires, FamilyKinds, SmartKinds
  <2>7. CASE family = "checks" /\ ChecksFire(kind, Head(current))
    BY <2>7 DEF ChecksFire, FamilyKinds
  <2> QED BY <1>2, <2>1, <2>2, <2>3, <2>4, <2>5, <2>6, <2>7 DEF FamilyFires
<1> QED BY <1>1, <1>2 DEF FamilyHolds

\* What fires holds: a source error aside.
LEMMA FiresHolds ==
  ASSUME NEW k, Fires(k), KindOf(k) # "source_error"
  PROVE  Holds(KindOf(k)) /\ HostOf(k) = PlaceOf(KindOf(k))
<1>1. HostFires(KindOf(k)) => HostHolds(KindOf(k))
  BY DEF HostFires, HostHolds, DiskPressure, MemPressure
<1>2. FamilyFires(KindOf(k)) => FamilyHolds(KindOf(k))
  BY DEF FamilyHolds, FamilyFires
<1> QED BY <1>1, <1>2 DEF Fires, Holds, PlaceOf
-----------------------------------------------------------------------------
(***************************************************************************)
(* Publishing.                                                             *)
(***************************************************************************)

\* A detector that does not forget goes on firing while its evidence stays
\* as it is and time passes.
LEMMA FiresOn ==
  ASSUME FleetTypes, gen' \in Nat, now' \in Nat, gen' >= gen, now' >= now,
         UNCHANGED <<family, current, history>>,
         NEW kind, kind \notin Forgetful, FamilyFires(kind)
  PROVE  FamilyFires(kind)'
<1> DEFINE c == Head(current)
<1>0. /\ current # <<>> /\ current' = current /\ family' = family /\ history' = history
      /\ c.asOf \in Nat /\ c.received \in Nat /\ c.data \in Data[family]
      /\ family \in Families /\ gen \in Nat /\ now \in Nat
  BY DEF FamilyFires, FleetTypes
<1>1. /\ Config.stale \in Nat /\ Config.silent \in Nat /\ Config.pinStall \in Nat
      /\ Config.scrub \in Nat
  BY DetectorsAssumption
<1>2. WitnessSilent(c.data, c.received, now) => WitnessSilent(c.data, c.received, now')
  BY <1>0, <1>1 DEF WitnessSilent
<1>3. CASE family = "services" /\ ServicesFire(kind, c)
  <2>1. ServicesFire(kind, c)'
    BY <1>0, <1>1, <1>3 DEF ServicesFire, Forgetful, Stale
  <2> QED BY <1>0, <1>3, <2>1 DEF FamilyFires
<1>4. CASE family = "sqlite" /\ SqliteFires(kind, c)
  <2>1. c.data.dbMtime \in Int
    BY <1>0, <1>4, FleetAssumption
  <2>2. PinnedWal(c.data, now) => PinnedWal(c.data, now')
    BY <1>0, <1>1, <2>1 DEF PinnedWal
  <2>3. SqliteFires(kind, c)'
    BY <1>0, <1>4, <2>2 DEF SqliteFires
  <2> QED BY <1>0, <1>4, <2>3 DEF FamilyFires
<1>5. CASE family = "metrics" /\ MetricsFire(kind, c)
  <2>1. MetricsFire(kind, c)'
    BY <1>0, <1>5 DEF MetricsFire, Forgetful
  <2> QED BY <1>0, <1>5, <2>1 DEF FamilyFires
<1>6. CASE family = "logs" /\ LogsFire(kind, c)
  BY <1>6 DEF LogsFire, Forgetful
<1>7. CASE family = "zfs" /\ ZfsFires(kind, c)
  <2>1. c.data.scrubbed \in Int
    BY <1>0, <1>7, FleetAssumption
  <2>2. ZfsScrubOverdue(c.data, now) => ZfsScrubOverdue(c.data, now')
    BY <1>0, <1>1, <2>1 DEF ZfsScrubOverdue
  <2>3. ZfsFires(kind, c)'
    BY <1>0, <1>2, <1>7, <2>2 DEF ZfsFires
  <2> QED BY <1>0, <1>7, <2>3 DEF FamilyFires
<1>8. CASE family = "smart" /\ SmartFires(kind, c)
  <2>1. SmartFires(kind, c)'
    BY <1>0, <1>2, <1>8 DEF SmartFires
  <2> QED BY <1>0, <1>8, <2>1 DEF FamilyFires
<1>9. CASE family = "checks" /\ ChecksFire(kind, c)
  <2>1. ChecksFire(kind, c)'
    BY <1>0, <1>9 DEF ChecksFire
  <2> QED BY <1>0, <1>9, <2>1 DEF FamilyFires
<1> QED BY <1>3, <1>4, <1>5, <1>6, <1>7, <1>8, <1>9 DEF FamilyFires

\* A function over the first n numbers is a sequence.
LEMMA IsSequence ==
  ASSUME NEW f, NEW n \in Nat, f = [i \in 1 .. n |-> f[i]]
  PROVE  \E T : f \in Seq(T)
<1>1. f \in [1 .. n -> {f[i] : i \in 1 .. n}]
  OBVIOUS
<1>2. f \in Seq({f[i] : i \in 1 .. n})
  BY <1>1
<1> QED BY <1>2

\* A family's history gains at most the row of a report, none without one.
LEMMA HistoryGains ==
  ASSUME family \in Families, NEW r \in Report, NEW g
  PROVE  /\ \E T : HistoryRows(r, g) \in Seq(T)
         /\ r.host = <<>> /\ r.data = <<>> => HistoryRows(r, g) = <<>>
         /\ family = "host" /\ r.host = <<>> => HistoryRows(r, g) = <<>>
         /\ family # "host" /\ r.data = <<>> => HistoryRows(r, g) = <<>>
<1> DEFINE Short(s) == s = <<>> \/ \E x : s = <<x>>
<1>0. ASSUME NEW s, Short(s), NEW f, DOMAIN f = DOMAIN s, f = [i \in DOMAIN s |-> f[i]]
      PROVE  (\E T : f \in Seq(T)) /\ (s = <<>> => f = <<>>)
  <2>1. CASE s = <<>>
    <3>1. DOMAIN s = 1 .. 0
      BY <2>1
    <3>2. f = <<>>
      BY <1>0, <2>1
    <3> QED BY <1>0, <3>1, <3>2, IsSequence
  <2>2. CASE \E x : s = <<x>>
    <3>1. DOMAIN s = 1 .. 1 /\ s # <<>>
      BY <2>2
    <3> QED BY <1>0, <3>1, IsSequence
  <2> QED BY <1>0, <2>1, <2>2
<1>1. Short(r.host) /\ Short(r.data) /\ Short(<<>>)
  BY DEF Report, AtMostOne
<1>2. \A statuses : Listed(r, statuses) = r.data \/ Listed(r, statuses) = <<>>
  BY DEF Listed
<1>3. r.data = <<>> => \A statuses : Listed(r, statuses) = <<>>
  BY <1>2
<1> HIDE DEF Short
<1>4. CASE family = "host"
  <2>1. HistoryRows(r, g) = HostsHistory(r, g)
    BY <1>4 DEF HistoryRows
  <2>2. (\E T : HostsHistory(r, g) \in Seq(T)) /\ (r.host = <<>> => HostsHistory(r, g) = <<>>)
    <3>1. /\ DOMAIN HostsHistory(r, g) = DOMAIN r.host
          /\ HostsHistory(r, g) = [i \in DOMAIN r.host |-> HostsHistory(r, g)[i]]
      BY DEF HostsHistory
    <3>2. Short(r.host)
      BY <1>1
    <3> QED BY <1>0, <3>1, <3>2
  <2> QED BY <1>4, <2>1, <2>2
<1>5. CASE family = "services"
  <2>1. HistoryRows(r, g) = ServicesHistory(r, g)
    BY <1>5 DEF HistoryRows
  <2>2. LET s == Listed(r, {"absent"}) IN
        (\E T : ServicesHistory(r, g) \in Seq(T)) /\ (s = <<>> => ServicesHistory(r, g) = <<>>)
    <3>1. /\ DOMAIN ServicesHistory(r, g) = DOMAIN Listed(r, {"absent"})
          /\ ServicesHistory(r, g) = [i \in DOMAIN Listed(r, {"absent"}) |-> ServicesHistory(r, g)[i]]
      BY DEF ServicesHistory
    <3>2. Short(Listed(r, {"absent"}))
      BY <1>2, <1>1
    <3> QED BY <1>0, <3>1, <3>2
  <2> QED BY <1>3, <1>5, <2>1, <2>2
<1>6. CASE family = "metrics"
  <2>1. HistoryRows(r, g) = MetricsHistory(r, g)
    BY <1>6 DEF HistoryRows
  <2>2. (\E T : MetricsHistory(r, g) \in Seq(T)) /\ (r.data = <<>> => MetricsHistory(r, g) = <<>>)
    <3>1. /\ DOMAIN MetricsHistory(r, g) = DOMAIN r.data
          /\ MetricsHistory(r, g) = [i \in DOMAIN r.data |-> MetricsHistory(r, g)[i]]
      BY DEF MetricsHistory
    <3>2. Short(r.data)
      BY <1>1
    <3> QED BY <1>0, <3>1, <3>2
  <2> QED BY <1>6, <2>1, <2>2
<1>7. CASE family = "logs"
  <2>1. HistoryRows(r, g) = LogObservations(r, g)
    BY <1>7 DEF HistoryRows
  <2>2. (\E T : LogObservations(r, g) \in Seq(T)) /\ (r.data = <<>> => LogObservations(r, g) = <<>>)
    <3>1. /\ DOMAIN LogObservations(r, g) = DOMAIN r.data
          /\ LogObservations(r, g) = [i \in DOMAIN r.data |-> LogObservations(r, g)[i]]
      BY DEF LogObservations
    <3>2. Short(r.data)
      BY <1>1
    <3> QED BY <1>0, <3>1, <3>2
  <2> QED BY <1>7, <2>1, <2>2
<1>8. CASE family = "zfs"
  <2>1. HistoryRows(r, g) = PublishZfsWitness(r, g)
    BY <1>8 DEF HistoryRows
  <2>2. LET s == Listed(r, {"failed"}) IN
        (\E T : PublishZfsWitness(r, g) \in Seq(T)) /\ (s = <<>> => PublishZfsWitness(r, g) = <<>>)
    <3>1. /\ DOMAIN PublishZfsWitness(r, g) = DOMAIN Listed(r, {"failed"})
          /\ PublishZfsWitness(r, g) = [i \in DOMAIN Listed(r, {"failed"}) |-> PublishZfsWitness(r, g)[i]]
      BY DEF PublishZfsWitness, Observed
    <3>2. Short(Listed(r, {"failed"}))
      BY <1>2, <1>1
    <3> QED BY <1>0, <3>1, <3>2
  <2> QED BY <1>3, <1>8, <2>1, <2>2
<1>9. CASE family = "smart"
  <2>1. HistoryRows(r, g) = PublishSmartWitness(r, g)
    BY <1>9 DEF HistoryRows
  <2>2. LET s == Listed(r, {"failed"}) IN
        (\E T : PublishSmartWitness(r, g) \in Seq(T)) /\ (s = <<>> => PublishSmartWitness(r, g) = <<>>)
    <3>1. /\ DOMAIN PublishSmartWitness(r, g) = DOMAIN Listed(r, {"failed"})
          /\ PublishSmartWitness(r, g) = [i \in DOMAIN Listed(r, {"failed"}) |-> PublishSmartWitness(r, g)[i]]
      BY DEF PublishSmartWitness, Observed
    <3>2. Short(Listed(r, {"failed"}))
      BY <1>2, <1>1
    <3> QED BY <1>0, <3>1, <3>2
  <2> QED BY <1>3, <1>9, <2>1, <2>2
<1>10. CASE family \in {"sqlite", "checks"}
  <2>1. HistoryRows(r, g) = <<>>
    BY <1>10 DEF HistoryRows
  <2>2. \E T : <<>> \in Seq(T)
    OBVIOUS
  <2> QED BY <2>1, <2>2
<1> QED BY <1>4, <1>5, <1>6, <1>7, <1>8, <1>9, <1>10, FleetAssumption DEF FamilyKinds

\* What a generation changes of the evidence: a collector that did not report
\* leaves its table, and a report is of this generation.
LEMMA PublishFacts ==
  ASSUME FleetTypes, NEW r \in Report, Publish(r)
  PROVE  /\ FleetTypes'
         /\ gen' = gen + 1 /\ now' >= now
         /\ \/ r.host = <<>> /\ host' = host
            \/ host' # <<>> /\ Head(host').asOf = gen'
         /\ \/ r.data = <<>> /\ current' = current
            \/ current' # <<>> /\ Head(current').asOf = gen'
         /\ HistoryRows(r, gen') = <<>> => history' = history
<1>0. /\ gen' = gen + 1 /\ now' = now + r.elapsed /\ family' = family /\ rows' = rows
      /\ history' = history \o HistoryRows(r, gen')
  BY DEF Publish
<1>1. r.elapsed \in Nat \ {0}
  BY FleetAssumption DEF Report
<1>2. gen' \in Nat /\ now' \in Nat /\ now' >= now /\ gen' >= gen
  BY <1>0, <1>1 DEF FleetTypes
<1>3. \/ r.host = <<>> /\ host' = host
      \/ host' # <<>> /\ Head(host').asOf = gen'
  BY DEF Publish
<1>4. \/ r.data = <<>> /\ current' = current
      \/ /\ current' # <<>> /\ Head(current').asOf = gen'
         /\ Head(current').received = now' /\ Head(current').data \in Data[family]
  <2>1. CASE r.data = <<>>
    BY <2>1 DEF Publish
  <2>2. CASE r.data # <<>>
    <3>1. Head(r.data) \in Data[family]
      BY <2>2 DEF Report, AtMostOne
    <3>2. current' = <<[data |-> Head(r.data), asOf |-> gen', received |-> now']>>
      BY <2>2 DEF Publish
    <3> QED BY <3>1, <3>2
  <2> QED BY <2>1, <2>2
<1>5. PICK S : history \in Seq(S)
  BY DEF FleetTypes
<1>6. PICK T : HistoryRows(r, gen') \in Seq(T)
  BY HistoryGains DEF FleetTypes
<1>7. history' \in Seq(S \cup T)
  <2>1. history \in Seq(S \cup T) /\ HistoryRows(r, gen') \in Seq(S \cup T)
    BY <1>5, <1>6
  <2> QED BY <1>0, <2>1, ConcatProperties
<1>8. HistoryRows(r, gen') = <<>> => history' = history
  BY <1>0, <1>5, ConcatEmptySeq
<1>9. FleetTypes'
  <2>1. host' # <<>> => Head(host').asOf \in Nat /\ Head(host').asOf <= gen'
    BY <1>2, <1>3 DEF FleetTypes
  <2>2. current' # <<>> => /\ Head(current').asOf \in Nat /\ Head(current').asOf <= gen'
                           /\ Head(current').received \in Nat
                           /\ Head(current').data \in Data[family']
    BY <1>0, <1>2, <1>4 DEF FleetTypes
  <2>3. \E Z : history' \in Seq(Z)
    BY <1>7
  <2>4. family' \in Families /\ IsTable(rows')
    BY <1>0 DEF FleetTypes
  <2> QED BY <1>2, <2>1, <2>2, <2>3, <2>4 DEF FleetTypes
<1> QED BY <1>0, <1>2, <1>3, <1>4, <1>8, <1>9

\* A kind whose collector was not heard in the new generation keeps what
\* held it.
LEMMA HeldOn ==
  ASSUME FleetTypes, NEW r \in Report, Publish(r),
         NEW kind, kind \notin Forgetful \cup Testified', Holds(kind)
  PROVE  Holds(kind)'
<1>0. /\ FleetTypes'
      /\ gen' = gen + 1 /\ gen \in Nat /\ gen' \in Nat /\ now \in Nat /\ now' \in Nat
      /\ now' >= now /\ gen' >= gen
      /\ family' = family /\ family \in Families
  BY PublishFacts DEF FleetTypes, Publish
<1>1. CASE HostHolds(kind)
  <2>1. kind \in FamilyKinds["host"] \cup {"stale_host"}
    BY <1>1, HostKind
  <2>2. ~(host' # <<>> /\ Head(host').asOf = gen')
    BY <2>1 DEF Testified
  <2>3. r.host = <<>> /\ host' = host
    BY <2>2, PublishFacts
  <2>4. family = "host" => history' = history
    BY <1>0, <2>3, PublishFacts, HistoryGains
  <2>5. Stale(Head(host).asOf, gen) /\ host # <<>> => Stale(Head(host).asOf, gen')
    <3>1. Config.stale \in Nat
      BY DetectorsAssumption
    <3>2. host # <<>> => Head(host).asOf \in Nat
      BY DEF FleetTypes
    <3> QED BY <1>0, <3>1, <3>2 DEF Stale
  <2> QED BY <1>0, <1>1, <2>3, <2>4, <2>5 DEF HostHolds, Holds
<1>2. CASE FamilyHolds(kind)
  <2>1. kind \in FamilyKinds[family] /\ family # "host"
    <3>1. family # "host"
      BY <1>2 DEF FamilyHolds, FamilyFires, Witnesses
    <3> QED BY <1>2, <3>1, FamilyKind
  <2>2. CASE r.data = <<>>
    <3>1. current' = current
      BY <2>2 DEF Publish
    <3>2. history' = history
      BY <1>0, <2>1, <2>2, PublishFacts, HistoryGains
    <3>3. FamilyFires(kind) => FamilyFires(kind)'
      BY <1>0, <3>1, <3>2, FiresOn
    <3> QED BY <1>0, <1>2, <3>1, <3>3 DEF FamilyHolds, Holds
  <2>3. CASE r.data # <<>>
    <3>1. current' # <<>> /\ Head(current').asOf = gen'
      BY <2>3, PublishFacts
    <3>2. family \in Witnesses /\ Head(current').data.status = "failed"
      BY <1>0, <2>1, <3>1 DEF Testified
    <3> QED BY <1>0, <2>1, <3>1, <3>2 DEF FamilyHolds, Holds
  <2> QED BY <2>2, <2>3
<1> QED BY <1>1, <1>2 DEF Holds

\* publish_batch keeps the invariant.
LEMMA PublishInv ==
  ASSUME FleetInv, NEW r \in Report, Publish(r)
  PROVE  FleetInv'
<1>0. /\ FleetTypes /\ FleetTypes' /\ rows' = rows /\ family' = family
      /\ collected' = collected /\ heard' = heard /\ phase = "idle" /\ phase' = "published"
      /\ gen' = gen + 1 /\ gen \in Nat
  BY PublishFacts DEF FleetInv, FleetTypes, Publish
<1>1. /\ Excused = Forgetful \cup {"source_error"} \cup heard
      /\ Excused' = Excused \cup Testified'
  BY <1>0 DEF Excused
<1>2. RowsKept'
  BY <1>0 DEF FleetInv, RowsKept
<1>3. RowsHeld'
  <2>1. ASSUME NEW k \in DOMAIN rows, KindOf(k) \notin Excused'
        PROVE  Holds(KindOf(k))'
    <3>1. KindOf(k) \notin Excused /\ KindOf(k) \notin Forgetful \cup Testified'
      BY <1>1, <2>1
    <3>2. Holds(KindOf(k))
      BY <3>1 DEF FleetInv, RowsHeld
    <3> HIDE DEF Holds, Testified, Forgetful
    <3> QED BY <1>0, <3>1, <3>2, HeldOn
  <2> QED BY <1>0, <2>1 DEF RowsHeld
<1>4. LevelsMissed'
  <2>1. ASSUME NEW k \in DOMAIN rows, KindOf(k) \in Levels, KindOf(k) \notin Excused'
        PROVE  rows[k].absent = 0 \/ rows[k].absent <= Missed'
    <3>1. KindOf(k) \notin Excused /\ KindOf(k) \notin Testified'
      BY <1>1, <2>1
    <3>2. ~(host' # <<>> /\ Head(host').asOf = gen')
      BY <2>1, <3>1 DEF Testified, FamilyKinds, Levels
    <3>3. host' = host
      BY <1>0, <3>2, PublishFacts
    <3>4. Missed' = Missed
      <4>1. gen' - 1 = gen
        BY <1>0
      <4> QED BY <1>0, <3>3, <4>1 DEF Missed
    <3> QED BY <2>1, <3>1, <3>4 DEF FleetInv, LevelsMissed
  <2> QED BY <1>0, <2>1 DEF LevelsMissed
<1>5. CausesKept'
  BY <1>0 DEF FleetInv, CausesKept, Cause
<1> QED BY <1>0, <1>2, <1>3, <1>4, <1>5 DEF FleetInv
-----------------------------------------------------------------------------
(***************************************************************************)
(* The pass.                                                               *)
(***************************************************************************)
Upsert == Upserted(rows, Detected, gen, {})

\* What a pass does to the rows: those it saw start anew, those it did not see
\* wait, and those that leave are cleared or of a host no table knows.
LEMMA PassFacts ==
  ASSUME FleetTypes, RowsKept, UpdateWarningState
  PROVE  /\ IsTable(rows')
         /\ \A k \in DOMAIN rows' :
              /\ rows'[k].gone <= EntityGcThreshold
              /\ rows'[k].skind # "operator_declaration"
              /\ k \in DOMAIN Detected =>
                   rows'[k].absent = 0 /\ rows'[k].vis = "observed"
              /\ k \notin DOMAIN Detected => Unseen(rows', rows, Upsert, <<>>, k)
         /\ \A k \in (DOMAIN rows \cup DOMAIN Detected) \ DOMAIN rows' :
              Cleared(Upsert, Detected, k) \/ HostOf(k) \notin PresentHosts
<1> DEFINE n == Lifecycle(rows, Detected, gen, {}, 0, PresentHosts, ReportedHosts, <<>>, {})
<1>0. /\ IsTable(rows) /\ IsFiring(Detected) /\ gen \in Nat /\ rows' = n
      /\ <<>> \in Seq(Declaration)
  BY FiringFacts DEF FleetTypes, UpdateWarningState
<1>1. /\ IsTable(n)
      /\ \A k \in DOMAIN n :
           /\ n[k].gone <= EntityGcThreshold
           /\ n[k].skind = "operator_declaration" => n[k].sdecl \in ActiveIds(<<>>)
      /\ \A k \in (DOMAIN rows \cup DOMAIN Detected) \ DOMAIN n :
           \/ Cleared(Upsert, Detected, k)
           \/ Upsert[k].gone <= EntityGcThreshold => HostOf(k) \notin PresentHosts
  BY <1>0, LifecycleFacts DEF Upsert
<1>2. ActiveIds(<<>>) = {} /\ \A h : Withdrawing(<<>>, h) = {}
  BY DEF ActiveIds, Withdrawing
<1>3. ASSUME NEW k \in DOMAIN n
      PROVE  k \in DOMAIN Detected => n[k].absent = 0 /\ n[k].vis = "observed"
  <2>1. Shown(n, Detected, <<>>, k)
    BY <1>0, LifecycleShown
  <2> HIDE DEF n
  <2> QED BY <1>2, <2>1 DEF Shown
<1>4. ASSUME NEW k \in DOMAIN n, k \notin DOMAIN Detected
      PROVE  Unseen(n, rows, Upsert, <<>>, k)
  <2>1. n = Lifecycle(rows, Detected, gen, {}, 0, PresentHosts, ReportedHosts, <<>>, {})
    OBVIOUS
  <2>2. Upsert = Upserted(rows, Detected, gen, {})
    BY DEF Upsert
  <2> HIDE DEF n
  <2> QED BY <1>0, <1>4, <2>1, <2>2, LifecycleUnseen
<1>5. ASSUME NEW k \in DOMAIN rows \cup DOMAIN Detected
      PROVE  Upsert[k].gone <= EntityGcThreshold
  <2>0. EntityGcThreshold \in Nat
    BY ConstantsAssumption
  <2>1. CASE k \notin DOMAIN Detected
    BY <2>1 DEF Upsert, Upserted, RowsKept
  <2>2. CASE k \in DOMAIN Detected /\ k \in DOMAIN rows
    <3>1. Detected[k] \in Emissions /\ k \in Keys
      BY <1>0, <2>2 DEF IsFiring
    <3>2. Refire(rows[k], k, Detected[k], gen, {}).gone = rows[k].gone
      BY <1>0, <2>2, <3>1, TableRow, RefireFacts
    <3> QED BY <2>2, <3>2 DEF Upsert, Upserted, RowsKept
  <2>3. CASE k \in DOMAIN Detected /\ k \notin DOMAIN rows
    <3>1. Upsert[k] = FreshRow(k, Detected[k], gen, {})
      BY <2>3 DEF Upsert, Upserted
    <3>2. Upsert[k].gone = 0
      BY <3>1 DEF FreshRow
    <3> QED BY <2>0, <3>2
  <2> QED BY <2>1, <2>2, <2>3
<1> HIDE DEF n
<1> QED BY <1>0, <1>1, <1>2, <1>3, <1>4, <1>5

\* Two rows of one kind are one row, and so are two findings.
LEMMA OneRow ==
  ASSUME NEW j \in Keys, NEW k \in Keys, KindOf(j) = KindOf(k), HostOf(j) = HostOf(k)
  PROVE  j = k
BY DEF Keys, KindOf, HostOf

\* A kind the pass did not see has no finding.
LEMMA NotFired ==
  ASSUME FleetTypes, RowsKept, NEW k \in DOMAIN rows, k \notin DOMAIN Detected
  PROVE  KindOf(k) \notin FiredKinds
<1> SUFFICES ASSUME NEW j \in DOMAIN Detected, KindOf(j) = KindOf(k)
             PROVE  FALSE
  BY DEF FiredKinds
<1>1. j \in Keys /\ Fires(j)
  BY FiringFacts
<1>2. HostOf(j) = PlaceOf(KindOf(j)) /\ HostOf(k) = PlaceOf(KindOf(k))
  BY <1>1 DEF Fires, PlaceOf, RowsKept
<1>3. k \in Keys
  BY DEF FleetTypes, IsTable
<1> QED BY <1>1, <1>2, <1>3, OneRow

\* The levels are findings of the host collector.
LEMMA HostLevel ==
  ASSUME FleetTypes, NEW kind \in Levels
  PROVE  ~FamilyHolds(kind)
<1> SUFFICES ASSUME FamilyHolds(kind) PROVE FALSE
  OBVIOUS
<1>1. family # "host" /\ family \in DOMAIN FamilyKinds
  BY FleetAssumption DEF FamilyHolds, FamilyFires, Witnesses, FleetTypes
<1>2. kind \in FamilyKinds[family]
  BY FamilyKind
<1> QED BY <1>1, <1>2 DEF FamilyKinds, Levels, ZfsKinds, SmartKinds

\* A level that holds and was not seen is one of a host that is not fresh.
LEMMA LevelUnseen ==
  ASSUME FleetTypes, RowsKept, RowsHeld, NEW k \in DOMAIN rows, k \notin DOMAIN Detected,
         KindOf(k) \in Levels \ Excused
  PROVE  host # <<>> /\ Head(host).asOf \in Nat /\ gen - Head(host).asOf > Config.fresh
<1>1. Holds(KindOf(k))
  BY DEF RowsHeld
<1>2. ~FamilyHolds(KindOf(k))
  BY HostLevel
<1>3. HostHolds(KindOf(k))
  BY <1>1, <1>2 DEF Holds
<1>4. k \in Keys /\ HostOf(k) = PlaceOf(KindOf(k))
  BY DEF FleetTypes, IsTable, RowsKept
<1>5. ~HostFires(KindOf(k))
  BY <1>4, FiringFacts DEF Fires, PlaceOf
<1>6. host # <<>> /\ ~Fresh(Head(host).asOf, gen)
  BY <1>3, <1>5 DEF HostHolds, HostFires, DiskPressure, MemPressure, Levels
<1>7. Head(host).asOf \in Nat /\ gen \in Nat /\ Config.fresh \in Nat
  BY <1>6, DetectorsAssumption DEF FleetTypes
<1> QED BY <1>6, <1>7 DEF Fresh

\* The cause of an unobservable node and the node fire together.
LEMMA FireTogether ==
  ASSUME FleetTypes, NEW k \in Keys, KindOf(k) = "node_unobservable", HostOf(k) = Host
  PROVE  /\ k \in DOMAIN Detected => family \in Witnesses
         /\ family \in Witnesses => (k \in DOMAIN Detected <=> Cause \in DOMAIN Detected)
<1>1. /\ k \in DOMAIN Detected <=> Fires(k)
      /\ Cause \in DOMAIN Detected <=> Cause \in Keys /\ Fires(Cause)
  BY FiringFacts
<1>2. Fires(k) <=> FamilyFires("node_unobservable")
  BY DEF Fires, Hostless, HostFires
<1>3. FamilyFires("node_unobservable") =>
        /\ family \in Witnesses
        /\ WitnessSilent(Head(current).data, Head(current).received, now)
  BY DEF FamilyFires, ServicesFire, SqliteFires, MetricsFire, LogsFire, ZfsFires, SmartFires,
         ChecksFire, Witnesses
<1>4. ASSUME family \in Witnesses
      PROVE  /\ Cause \in Keys
             /\ FamilyFires("node_unobservable") <=> FamilyFires(KindOf(Cause))
             /\ Fires(Cause) <=> FamilyFires(KindOf(Cause))
  <2>1. Cause \in Keys
    <3>1. Host \in Hosts /\ FamilyKinds[family] \subseteq Kinds
      BY FleetAssumption DEF FleetTypes
    <3>2. KindOf(Cause) \in FamilyKinds[family]
      BY <1>4 DEF Witnesses, FamilyKinds, KindOf, Cause, ZfsKinds, SmartKinds
    <3> QED BY <3>1, <3>2 DEF Cause, Keys, KindOf
  <2>2. CASE family = "zfs"
    <3>1. KindOf(Cause) = "zfs_witness_silent" /\ HostOf(Cause) = Host
      BY <2>2 DEF Cause, KindOf, HostOf
    <3>2. FamilyFires("node_unobservable") <=> FamilyFires("zfs_witness_silent")
      BY <2>2 DEF FamilyFires, ZfsFires
    <3> QED BY <2>1, <3>1, <3>2 DEF Fires, Hostless, HostFires
  <2>3. CASE family = "smart"
    <3>1. KindOf(Cause) = "smart_witness_silent" /\ HostOf(Cause) = Host
      BY <2>3 DEF Cause, KindOf, HostOf
    <3>2. FamilyFires("node_unobservable") <=> FamilyFires("smart_witness_silent")
      BY <2>3 DEF FamilyFires, SmartFires
    <3> QED BY <2>1, <3>1, <3>2 DEF Fires, Hostless, HostFires
  <2> QED BY <1>4, <2>2, <2>3 DEF Witnesses
<1> QED BY <1>1, <1>2, <1>3, <1>4

\* The lifecycle pass keeps the invariant.
LEMMA UpdateInv ==
  ASSUME FleetInv, UpdateWarningState
  PROVE  FleetInv'
<1>0. /\ FleetTypes /\ RowsKept /\ RowsHeld /\ LevelsMissed /\ CausesKept
      /\ phase = "published" /\ phase' = "idle"
      /\ UNCHANGED <<family, gen, now, source, host, current, history>>
      /\ heard' = (heard \cup Testified) \ FiredKinds
      /\ collected' = (collected \ DOMAIN Detected) \cup LeftUnknown
      /\ gen \in Nat
  BY DEF FleetInv, UpdateWarningState, evidence, FleetTypes
<1>1. /\ IsTable(rows')
      /\ \A k \in DOMAIN rows' :
           /\ rows'[k].gone <= EntityGcThreshold
           /\ rows'[k].skind # "operator_declaration"
           /\ k \in DOMAIN Detected => rows'[k].absent = 0 /\ rows'[k].vis = "observed"
           /\ k \notin DOMAIN Detected => Unseen(rows', rows, Upsert, <<>>, k)
      /\ \A k \in (DOMAIN rows \cup DOMAIN Detected) \ DOMAIN rows' :
           Cleared(Upsert, Detected, k) \/ HostOf(k) \notin PresentHosts
  BY <1>0, PassFacts
<1>2. /\ Excused = Forgetful \cup {"source_error"} \cup heard \cup Testified
      /\ Excused' = Forgetful \cup {"source_error"} \cup ((heard \cup Testified) \ FiredKinds)
  BY <1>0 DEF Excused
<1>3. FleetTypes'
  BY <1>0, <1>1 DEF FleetTypes
<1>4. ASSUME NEW k \in DOMAIN rows', k \notin DOMAIN Detected
      PROVE  k \in DOMAIN rows /\ KindOf(k) \notin FiredKinds
  BY <1>0, <1>1, <1>4, NotFired DEF Unseen
<1>5. RowsKept'
  <2>1. ASSUME NEW k \in DOMAIN rows' PROVE HostOf(k) = PlaceOf(KindOf(k))
    <3>1. CASE k \in DOMAIN Detected
      BY <3>1, FiringFacts DEF Fires, PlaceOf
    <3>2. CASE k \notin DOMAIN Detected
      BY <1>0, <1>4, <3>2 DEF RowsKept
    <3> QED BY <3>1, <3>2
  <2> QED BY <1>1, <2>1 DEF RowsKept
<1>6. RowsHeld'
  <2>1. ASSUME NEW k \in DOMAIN rows', KindOf(k) \notin Excused' PROVE Holds(KindOf(k))'
    <3>1. Holds(KindOf(k)) => Holds(KindOf(k))'
      <4>1. gen' \in Nat /\ now' \in Nat /\ gen' >= gen /\ now' >= now
        BY <1>0 DEF FleetTypes
      <4>2. FamilyFires(KindOf(k)) => FamilyFires(KindOf(k))'
        BY <1>0, <1>2, <2>1, <4>1, FiresOn
      <4> QED BY <1>0, <4>2 DEF Holds, HostHolds, FamilyHolds
    <3>2. CASE k \in DOMAIN Detected
      <4>1. Fires(k) /\ KindOf(k) # "source_error"
        BY <1>2, <2>1, <3>2, FiringFacts
      <4> QED BY <3>1, <4>1, FiresHolds
    <3>3. CASE k \notin DOMAIN Detected
      <4>1. k \in DOMAIN rows /\ KindOf(k) \notin Excused
        BY <1>2, <1>4, <2>1, <3>3
      <4> QED BY <1>0, <3>1, <4>1 DEF RowsHeld
    <3> QED BY <3>2, <3>3
  <2> QED BY <2>1 DEF RowsHeld
<1>7. LevelsMissed'
  <2>1. ASSUME NEW k \in DOMAIN rows', KindOf(k) \in Levels, KindOf(k) \notin Excused'
        PROVE  rows'[k].absent = 0 \/ rows'[k].absent <= Missed'
    <3>1. CASE k \in DOMAIN Detected
      BY <1>1, <3>1
    <3>2. CASE k \notin DOMAIN Detected
      <4>1. k \in DOMAIN rows /\ KindOf(k) \in Levels \ Excused
        BY <1>2, <1>4, <2>1, <3>2
      <4>2. Head(host).asOf \in Nat /\ gen - Head(host).asOf > Config.fresh
        BY <1>0, <3>2, <4>1, LevelUnseen
      <4>3. rows[k].absent = 0 \/ rows[k].absent <= Missed
        BY <1>0, <4>1 DEF LevelsMissed
      <4>4. rows'[k].absent = rows[k].absent \/ rows'[k].absent = rows[k].absent + 1
        BY <1>1, <3>2 DEF Unseen
      <4>5. /\ Missed = gen - 1 - Head(host).asOf - Config.fresh
            /\ Missed' = gen - Head(host).asOf - Config.fresh
        BY <1>0 DEF Missed
      <4>6. rows[k].absent \in Nat /\ Config.fresh \in Nat
        BY <1>0, <4>1, TableRow, DetectorsAssumption DEF FleetTypes, Row
      <4> QED BY <1>0, <4>2, <4>3, <4>4, <4>5, <4>6
    <3> QED BY <3>1, <3>2
  <2> QED BY <2>1 DEF LevelsMissed
<1>8. CausesKept'
  <2>1. ASSUME NEW k \in DOMAIN rows', KindOf(k) = "node_unobservable", rows'[k].vis = "observed"
        PROVE  /\ family \in Witnesses
               /\ \/ Cause \in collected'
                  \/ Cause \in DOMAIN rows' /\ rows'[Cause].absent = rows'[k].absent
    <3>1. k \in Keys /\ HostOf(k) = Host /\ HostOf(Cause) = Host
      BY <1>1, <1>5, <2>1 DEF IsTable, RowsKept, PlaceOf, Hostless, Cause, HostOf
    <3>2. CASE k \in DOMAIN Detected
      <4>1. family \in Witnesses /\ Cause \in DOMAIN Detected
        BY <1>0, <2>1, <3>1, <3>2, FireTogether
      <4>2. ~Cleared(Upsert, Detected, Cause)
        BY <4>1 DEF Cleared
      <4>3. Cause \notin DOMAIN rows' => Cause \in LeftUnknown
        BY <1>1, <4>1, <4>2 DEF LeftUnknown
      <4> QED BY <1>0, <1>1, <3>2, <4>1, <4>3
    <3>3. CASE k \notin DOMAIN Detected
      <4>1. k \in DOMAIN rows /\ Unseen(rows', rows, Upsert, <<>>, k)
        BY <1>1, <3>3 DEF Unseen
      <4>2. Withdrawing(<<>>, HostOf(k)) = {} /\ rows[k].skind # "operator_declaration"
        BY <1>0, <4>1 DEF Withdrawing, RowsKept
      <4>3. /\ rows'[k].absent = rows[k].absent + 1 /\ rows[k].absent + 1 < RecoveryWindow
            /\ rows[k].vis = "observed"
        BY <2>1, <4>1, <4>2 DEF Unseen
      <4>4. /\ family \in Witnesses
            /\ Cause \in collected \/ (Cause \in DOMAIN rows /\ rows[Cause].absent = rows[k].absent)
        BY <1>0, <2>1, <4>1, <4>3 DEF CausesKept
      <4>5. Cause \notin DOMAIN Detected
        BY <1>0, <2>1, <3>1, <3>3, <4>4, FireTogether
      <4>6. CASE Cause \in collected
        BY <1>0, <4>4, <4>5, <4>6
      <4>7. CASE Cause \in DOMAIN rows /\ rows[Cause].absent = rows[k].absent
        <5>1. ~Masked(Upsert, Cause)
          BY DEF Masked, RulesFor, ParentKinds, Cause, KindOf
        <5>2. Upsert[Cause] = rows[Cause]
          BY <4>5, <4>7 DEF Upsert, Upserted
        <5>3. ~Cleared(Upsert, Detected, Cause)
          <6>1. rows[k].absent \in Nat /\ RecoveryWindow \in Nat
            BY <1>0, <4>1, TableRow, ConstantsAssumption DEF FleetTypes, Row
          <6> QED BY <4>3, <4>7, <5>2, <6>1 DEF Cleared
        <5>4. Cause \notin DOMAIN rows' => Cause \in LeftUnknown
          BY <1>1, <4>7, <5>3 DEF LeftUnknown
        <5>5. Cause \in DOMAIN rows' => rows'[Cause].absent = rows[Cause].absent + 1
          BY <1>1, <4>5, <5>1 DEF Unseen
        <5> QED BY <1>0, <4>3, <4>4, <4>7, <5>4, <5>5
      <4> QED BY <4>4, <4>6, <4>7
    <3> QED BY <3>2, <3>3
  <2>2. Cause' = Cause /\ family' = family
    BY <1>0 DEF Cause
  <2> QED BY <2>1, <2>2 DEF CausesKept
<1> QED BY <1>3, <1>5, <1>6, <1>7, <1>8 DEF FleetInv

\* A pass that is lost keeps the invariant.
LEMMA LoseInv ==
  ASSUME FleetInv, LoseUpdate
  PROVE  FleetInv'
<1>0. /\ FleetTypes /\ phase = "published" /\ phase' = "idle"
      /\ UNCHANGED <<family, gen, now, source, host, current, history, rows, collected>>
      /\ heard' = heard \cup Testified
      /\ gen \in Nat
  BY DEF FleetInv, LoseUpdate, evidence, FleetTypes
<1>1. Excused' = Excused
  BY <1>0 DEF Excused
<1>2. FleetTypes' /\ RowsKept' /\ CausesKept'
  BY <1>0 DEF FleetInv, FleetTypes, RowsKept, CausesKept, Cause
<1>3. RowsHeld'
  <2>1. ASSUME NEW k \in DOMAIN rows, KindOf(k) \notin Excused PROVE Holds(KindOf(k))'
    <3>1. Holds(KindOf(k)) /\ KindOf(k) \notin Forgetful
      BY <2>1 DEF FleetInv, RowsHeld, Excused
    <3>2. gen' \in Nat /\ now' \in Nat /\ gen' >= gen /\ now' >= now
      BY <1>0 DEF FleetTypes
    <3>3. FamilyFires(KindOf(k)) => FamilyFires(KindOf(k))'
      BY <1>0, <3>1, <3>2, FiresOn
    <3> QED BY <1>0, <3>1, <3>3 DEF Holds, HostHolds, FamilyHolds
  <2> QED BY <1>0, <1>1, <2>1 DEF RowsHeld
<1>4. LevelsMissed'
  <2>1. ASSUME NEW k \in DOMAIN rows, KindOf(k) \in Levels \ Excused
        PROVE  rows[k].absent = 0 \/ rows[k].absent <= Missed'
    <3>1. rows[k].absent = 0 \/ rows[k].absent <= Missed
      BY <2>1 DEF FleetInv, LevelsMissed
    <3>2. host # <<>> /\ Head(host).asOf \in Nat
      <4>1. Holds(KindOf(k))
        BY <2>1 DEF FleetInv, RowsHeld
      <4>2. HostHolds(KindOf(k))
        BY <2>1, <4>1, HostLevel DEF Holds, FleetInv
      <4> QED BY <4>2 DEF HostHolds, FleetInv, FleetTypes
    <3>3. /\ Missed = gen - 1 - Head(host).asOf - Config.fresh
          /\ Missed' = gen - Head(host).asOf - Config.fresh
      BY <1>0 DEF Missed
    <3>4. rows[k].absent \in Nat /\ Config.fresh \in Nat
      BY <1>0, TableRow, DetectorsAssumption DEF FleetTypes, Row
    <3> QED BY <1>0, <3>1, <3>2, <3>3, <3>4
  <2> QED BY <1>0, <1>1, <2>1 DEF LevelsMissed
<1> QED BY <1>2, <1>3, <1>4 DEF FleetInv
-----------------------------------------------------------------------------
(***************************************************************************)
(* No report, no recovery.                                                 *)
(***************************************************************************)

\* The parent of masking rule i fires on the host of k.
Under(k, i) ==
  /\ KindOf(k) \notin ParentKinds /\ KindOf(k) \in MaskingRules[i].kinds
  /\ <<HostOf(k), MaskingRules[i].parent>> \in DOMAIN Detected

\* A finding whose parent fires on its host is not cleared.
LEMMA NotClearedUnder ==
  ASSUME FleetTypes, NEW k \in DOMAIN rows, NEW i \in 1 .. 4, Under(k, i)
  PROVE  ~Cleared(Upsert, Detected, k)
<1> DEFINE p == <<HostOf(k), MaskingRules[i].parent>>
<1>1. p \in DOMAIN Upsert /\ Upsert[p].vis = "observed"
  BY FiringFacts, UpsertedFired DEF FleetTypes, Upsert, Under
<1>2. i \in RulesFor(Upsert, k)
  <2> HIDE DEF Upsert
  <2> QED BY <1>1 DEF RulesFor, Under
<1> QED BY <1>2 DEF Masked, Cleared

\* What was not heard of is not cleared: a detector fires, or it is masked, or
\* its level has been missed for less than the recovery window.
LEMMA UnheardStays ==
  ASSUME Config.stale < Config.fresh + RecoveryWindow,
         FleetInv, phase = "published", NEW k \in DOMAIN rows, KindOf(k) \notin Excused
  PROVE  ~Cleared(Upsert, Detected, k)
<1>0. FleetTypes /\ RowsKept /\ RowsHeld /\ LevelsMissed /\ Holds(KindOf(k))
  BY DEF FleetInv, RowsHeld
<1>1. k \in Keys /\ HostOf(k) = PlaceOf(KindOf(k)) /\ KindOf(k) \in Kinds
  BY <1>0 DEF FleetTypes, IsTable, RowsKept, Keys, KindOf
<1>2. CASE k \in DOMAIN Detected
  BY <1>2 DEF Cleared
<1>3. CASE k \notin DOMAIN Detected /\ HostHolds(KindOf(k))
  <2>1. ~HostFires(KindOf(k))
    BY <1>1, <1>3, FiringFacts DEF Fires, PlaceOf
  <2>2. KindOf(k) \in Levels
    BY <1>3, <2>1 DEF HostHolds, HostFires, Levels
  <2>3. host # <<>> /\ Head(host).asOf \in Nat /\ gen - Head(host).asOf > Config.fresh
    BY <1>0, <1>3, <2>2, LevelUnseen
  <2>4. HostOf(k) = Host /\ KindOf(k) \notin ParentKinds
    BY <1>1, <2>2 DEF PlaceOf, Hostless, Levels, ParentKinds
  <2>5. CASE Stale(Head(host).asOf, gen)
    <3>1. <<Host, "stale_host">> \in Keys
      BY FleetAssumption DEF Keys
    <3>2. HostFires("stale_host")
      BY <2>3, <2>5 DEF HostFires
    <3>3. <<Host, "stale_host">> \in DOMAIN Detected
      BY <3>1, <3>2, FiringFacts DEF Fires, HostOf, KindOf, Hostless
    <3>4. MaskingRules[1].parent = "stale_host" /\ MaskingRules[1].kinds = Kinds
      BY DEF MaskingRules
    <3>5. 1 \in 1 .. 4 /\ Under(k, 1)
      BY <1>1, <2>4, <3>3, <3>4 DEF Under
    <3> QED BY <1>0, <3>5, NotClearedUnder
  <2>6. CASE ~Stale(Head(host).asOf, gen)
    <3>1. /\ rows[k].absent \in Nat /\ Config.fresh \in Nat /\ Config.stale \in Nat
          /\ RecoveryWindow \in Nat \ {0} /\ gen \in Nat
      BY <1>0, TableRow, DetectorsAssumption, ConstantsAssumption DEF FleetTypes, Row
    <3>2. rows[k].absent = 0 \/ rows[k].absent <= gen - 1 - Head(host).asOf - Config.fresh
      BY <1>0, <2>2 DEF LevelsMissed, Missed
    <3>3. gen - Head(host).asOf <= Config.stale
      BY <2>3, <2>6, <3>1 DEF Stale
    <3>4. rows[k].absent + 1 < RecoveryWindow
      <4>1. ASSUME NEW x \in Nat, NEW y \in Nat, NEW f \in Nat, NEW t \in Nat, NEW w \in Nat,
                   NEW n \in Nat, t < f + w, n - y > f, n - y <= t, x = 0 \/ x <= n - 1 - y - f
            PROVE  x + 1 < w
        BY <4>1
      <4> QED BY <2>3, <3>1, <3>2, <3>3, <4>1
    <3>5. Upsert[k] = rows[k]
      BY <1>3 DEF Upsert, Upserted
    <3> QED BY <3>1, <3>4, <3>5 DEF Cleared
  <2> QED BY <2>5, <2>6
<1>4. CASE k \notin DOMAIN Detected /\ FamilyHolds(KindOf(k))
  <2>1. ~FamilyFires(KindOf(k))
    BY <1>1, <1>4, FiringFacts DEF Fires, PlaceOf
  <2>2. /\ current # <<>> /\ Head(current).data.status = "failed"
        /\ family \in Witnesses /\ KindOf(k) \in FamilyKinds[family]
    BY <1>4, <2>1 DEF FamilyHolds
  <2>3. FamilyKinds[family] \subseteq Kinds /\ Host \in Hosts
    BY <1>0, FleetAssumption DEF FleetTypes
  <2>4. CASE family = "zfs"
    <3>1. FamilyFires("zfs_witness_silent") /\ FamilyFires("node_unobservable")
      BY <2>2, <2>4 DEF FamilyFires, ZfsFires, WitnessSilent
    <3>2. KindOf(k) \in ZfsKinds \ {"zfs_witness_silent"}
      BY <2>1, <2>2, <2>4, <3>1 DEF FamilyKinds
    <3>3. KindOf(k) \notin ParentKinds /\ HostOf(k) = Host
      BY <1>1, <3>2 DEF ParentKinds, ZfsKinds, PlaceOf, Hostless
    <3>4. <<Host, "zfs_witness_silent">> \in DOMAIN Detected
      <4>1. "zfs_witness_silent" \in Kinds
        BY <2>3, <2>4 DEF FamilyKinds, ZfsKinds
      <4> QED BY <2>3, <3>1, <4>1, FiringFacts DEF Fires, HostOf, KindOf, Hostless, Keys
    <3>5. MaskingRules[4].parent = "zfs_witness_silent" /\ MaskingRules[4].kinds = ZfsKinds
      BY DEF MaskingRules
    <3>6. 4 \in 1 .. 4 /\ Under(k, 4)
      BY <3>2, <3>3, <3>4, <3>5 DEF Under
    <3> QED BY <1>0, <3>6, NotClearedUnder
  <2>5. CASE family = "smart"
    <3>1. FamilyFires("smart_witness_silent") /\ FamilyFires("node_unobservable")
      BY <2>2, <2>5 DEF FamilyFires, SmartFires, WitnessSilent
    <3>2. KindOf(k) \in SmartKinds \ {"smart_witness_silent"}
      BY <2>1, <2>2, <2>5, <3>1 DEF FamilyKinds
    <3>3. KindOf(k) \notin ParentKinds /\ HostOf(k) = Host
      BY <1>1, <3>2 DEF ParentKinds, SmartKinds, PlaceOf, Hostless
    <3>4. <<Host, "smart_witness_silent">> \in DOMAIN Detected
      <4>1. "smart_witness_silent" \in Kinds
        BY <2>3, <2>5 DEF FamilyKinds, SmartKinds
      <4> QED BY <2>3, <3>1, <4>1, FiringFacts DEF Fires, HostOf, KindOf, Hostless, Keys
    <3>5. MaskingRules[3].parent = "smart_witness_silent" /\ MaskingRules[3].kinds = SmartKinds
      BY DEF MaskingRules
    <3>6. 3 \in 1 .. 4 /\ Under(k, 3)
      BY <3>2, <3>3, <3>4, <3>5 DEF Under
    <3> QED BY <1>0, <3>6, NotClearedUnder
  <2> QED BY <2>2, <2>4, <2>5 DEF Witnesses
<1> QED BY <1>0, <1>2, <1>3, <1>4 DEF Holds
-----------------------------------------------------------------------------
(***************************************************************************)
(* The theorems.                                                           *)
(***************************************************************************)
DetectionInv ==
  /\ part \in {"detectors", "features"}
  /\ part = "detectors" => FleetInv

\* The invariant holds at first.
LEMMA DetectionStart ==
  ASSUME DetectionInit
  PROVE  DetectionInv
<1>1. CASE part = "detectors" /\ Init
  <2>0. DOMAIN rows = {} /\ rows = [k \in {} |-> FreshRow(k, [hash |-> None, incident |-> FALSE], 0, {})]
    BY <1>1 DEF Init
  <2>1. FleetTypes
    <3>1. IsTable(rows)
      BY <2>0 DEF IsTable
    <3>2. history \in Seq({})
      BY <1>1 DEF Init
    <3> QED BY <1>1, <3>1, <3>2 DEF Init, FleetTypes
  <2> QED BY <1>1, <2>0, <2>1 DEF FleetInv, RowsKept, RowsHeld, LevelsMissed, CausesKept, DetectionInv
<1>2. CASE part = "features"
  BY <1>2 DEF DetectionInv
<1> QED BY <1>1, <1>2 DEF DetectionInit

\* The invariant depends on the variables of the fleet alone.
LEMMA FleetIdle ==
  ASSUME FleetInv, UNCHANGED vars
  PROVE  FleetInv'
<1>0. UNCHANGED <<family, gen, now, source, host, current, history, rows, phase, heard, collected>>
  BY DEF vars, evidence
<1>1. FleetTypes' /\ RowsKept' /\ CausesKept'
  BY <1>0 DEF FleetInv, FleetTypes, RowsKept, CausesKept, Cause
<1>2. Excused' = Excused /\ Missed' = Missed
  BY <1>0 DEF Excused, Missed, Testified
<1>3. RowsHeld'
  <2>1. ASSUME NEW k \in DOMAIN rows, KindOf(k) \notin Excused PROVE Holds(KindOf(k))'
    <3>1. Holds(KindOf(k)) /\ KindOf(k) \notin Forgetful
      BY <2>1 DEF FleetInv, RowsHeld, Excused
    <3>2. FleetTypes /\ gen' \in Nat /\ now' \in Nat /\ gen' >= gen /\ now' >= now
      BY <1>0 DEF FleetInv, FleetTypes
    <3>3. FamilyFires(KindOf(k)) => FamilyFires(KindOf(k))'
      BY <1>0, <3>1, <3>2, FiresOn
    <3> QED BY <1>0, <3>1, <3>3 DEF Holds, HostHolds, FamilyHolds
  <2> QED BY <1>0, <1>2, <2>1 DEF RowsHeld
<1>4. LevelsMissed'
  BY <1>0, <1>2 DEF FleetInv, LevelsMissed
<1> QED BY <1>1, <1>3, <1>4 DEF FleetInv

\* Every step keeps the invariant.
LEMMA DetectionStep ==
  ASSUME DetectionInv, [DetectionNext]_detectionVars
  PROVE  DetectionInv'
<1>1. part' = part
  BY DEF DetectionNext, detectionVars
<1>2. ASSUME part = "detectors" PROVE FleetInv'
  <2>0. FleetInv
    BY <1>2 DEF DetectionInv
  <2>1. Next \/ UNCHANGED vars
    BY <1>2 DEF DetectionNext, detectionVars
  <2>2. ASSUME NEW r \in Report, Publish(r) PROVE FleetInv'
    BY <2>0, <2>2, PublishInv
  <2>3. ASSUME UpdateWarningState PROVE FleetInv'
    BY <2>0, <2>3, UpdateInv
  <2>4. ASSUME LoseUpdate PROVE FleetInv'
    BY <2>0, <2>4, LoseInv
  <2>5. ASSUME UNCHANGED vars PROVE FleetInv'
    BY <2>0, <2>5, FleetIdle
  <2> QED BY <2>1, <2>2, <2>3, <2>4, <2>5 DEF Next, AtBound
<1> QED BY <1>1, <1>2 DEF DetectionInv

\* The invariant of the fleet holds throughout.
THEOREM DetectionCorrect == DetectionSpec => []DetectionInv
<1>1. DetectionInit => DetectionInv
  BY DetectionStart
<1>2. DetectionInv /\ [DetectionNext]_detectionVars => DetectionInv'
  BY DetectionStep
<1> QED BY <1>1, <1>2, PTL DEF DetectionSpec

\* An unobservable node that counts as observed has the row of the witness
\* that fell silent (detect_node_unobservable), for every family, report and
\* history, unless entity GC took it.
THEOREM CauseKnown == DetectionSpec => []UnobservableHasCause
<1>1. ASSUME DetectionInv PROVE UnobservableHasCause
  <2> SUFFICES ASSUME part = "detectors", NEW k \in DOMAIN rows,
                      KindOf(k) = "node_unobservable", rows[k].vis = "observed"
               PROVE  \E p \in DOMAIN rows \cup collected :
                        HostOf(p) = HostOf(k) /\ KindOf(p) \in SilenceKinds
    BY DEF UnobservableHasCause, CauseIsThere
  <2>1. Cause \in DOMAIN rows \cup collected
    BY <1>1 DEF DetectionInv, FleetInv, CausesKept
  <2>2. HostOf(k) = Host
    BY <1>1 DEF DetectionInv, FleetInv, RowsKept, PlaceOf, Hostless
  <2>3. HostOf(Cause) = Host /\ KindOf(Cause) \in SilenceKinds
    BY DEF Cause, HostOf, KindOf, SilenceKinds
  <2> QED BY <2>1, <2>2, <2>3
<1> QED BY <1>1, DetectionCorrect, PTL

\* A step clears no finding its collector has not testified about (the masking
\* of publish.rs over the detectors of detect.rs).
LEMMA ClearedOnlyByTestimony ==
  ASSUME Config.stale < Config.fresh + RecoveryWindow,
         FleetInv, Next \/ UNCHANGED vars
  PROVE  ClearedByTestimony
<1> SUFFICES ASSUME NEW k \in DOMAIN rows \ DOMAIN rows', KindOf(k) \notin Forgetful,
                    HostOf(k) \in PresentHosts, KindOf(k) \notin heard \cup Testified
             PROVE  FALSE
  BY DEF ClearedByTestimony
<1>1. UpdateWarningState
  BY DEF Next, Publish, LoseUpdate, AtBound, vars
<1>2. phase = "published" /\ KindOf(k) \notin Excused
  <2>1. phase = "published"
    BY <1>1 DEF UpdateWarningState
  <2>2. "source_error" \in Testified
    BY DEF Testified
  <2> QED BY <2>1, <2>2 DEF Excused
<1>3. ~Cleared(Upsert, Detected, k)
  BY <1>2, UnheardStays
<1>4. Cleared(Upsert, Detected, k) \/ HostOf(k) \notin PresentHosts
  BY <1>1, PassFacts DEF FleetInv
<1> QED BY <1>3, <1>4

\* No report, no recovery, for every family, report and history: a finding of
\* a detector that does not forget is cleared only if the collector behind it
\* has testified since it last fired.  The condition relates a threshold of
\* the configuration to constants of the code: stale_generations (2 unless
\* set) decides when stale_host masks, the literal 2 of the views when a level
\* of a silent host is no longer read.
THEOREM SilenceClearsNothing ==
  ASSUME Config.stale < Config.fresh + RecoveryWindow
  PROVE  DetectionSpec => NoReportNoRecovery
<1>1. DetectionInv /\ [DetectionNext]_detectionVars =>
        [part = "detectors" => ClearedByTestimony]_vars
  <2> SUFFICES ASSUME DetectionInv, [DetectionNext]_detectionVars, part = "detectors"
               PROVE  ClearedByTestimony
    OBVIOUS
  <2>1. FleetInv
    BY DEF DetectionInv
  <2>2. Next \/ UNCHANGED vars
    BY DEF DetectionNext, detectionVars
  <2> QED BY <2>1, <2>2, ClearedOnlyByTestimony
<1> QED BY <1>1, DetectionCorrect, PTL DEF DetectionSpec, NoReportNoRecovery
=============================================================================
