--------------------------- MODULE InquiryProofs ---------------------------
(***************************************************************************)
(* The three inquiries of MCInquiry, for every value of the constants:     *)
(* what a TLS inquiry sends is granted and its receipt exact; an answer    *)
(* about a report is right; preflight foretells what a grant will give.    *)
(* Each part has an inductive invariant, one lemma per action, and one     *)
(* theorem per property.                                                   *)
(***************************************************************************)
EXTENDS MCInquiry, FindingRowsProofs

\* The recursion behind Summed, over the first k observations of s.
IsSum(f, k, s, d) ==
  f = [T \in SUBSET (1..k) |-> IF T = {} THEN 0 ELSE f[T \ {Tls!Max(T)}] + s[Tls!Max(T)].spend[d]]

\* A set of numbers that is not empty has a least one.
LEMMA LeastOf ==
  ASSUME NEW B \in SUBSET Nat, B # {}
  PROVE  \E k \in B : \A m \in B : k <= m
<1>1. PICK k \in B : \A y \in B : ~(<<y, k>> \in OpToRel(<, Nat))
  BY WFMin, NatLessThanWellFounded
<1>2. \A y, z \in Nat : y < z => <<y, z>> \in OpToRel(<, Nat)
  BY DEF OpToRel
<1>3. \A y \in B : y \in Nat /\ k \in Nat /\ ~(y < k)
  BY <1>1, <1>2
<1> QED BY <1>3

\* The greatest number of a set of numbers.
LEMMA GreatestOf ==
  ASSUME NEW k \in Nat, NEW T \in SUBSET (1..k), T # {}
  PROVE  Tls!Max(T) \in T /\ \A x \in T : x <= Tls!Max(T)
<1>1. \E i \in T : \A j \in T : j <= i
  BY LastPosition
<1>2. \E i \in T : \A j \in T : i >= j
  BY <1>1
<1> QED BY <1>2 DEF Tls!Max

\* One step of the recursion.
LEMMA SumStep ==
  ASSUME NEW f, NEW k, NEW s, NEW d, IsSum(f, k, s, d), NEW T \in SUBSET (1..k)
  PROVE  /\ T = {} => f[T] = 0
         /\ T # {} => f[T] = f[T \ {Tls!Max(T)}] + s[Tls!Max(T)].spend[d]
BY DEF IsSum

\* The recursion has a solution over every number of observations.
LEMMA SumExists ==
  ASSUME NEW s, NEW d, NEW n \in Nat
  PROVE  \E f : IsSum(f, n, s, d)
<1> DEFINE Bad == {k \in Nat : ~\E f : IsSum(f, k, s, d)}
<1> SUFFICES ASSUME Bad # {} PROVE FALSE
  OBVIOUS
<1>1. PICK k \in Bad : \A m \in Bad : k <= m
  BY LeastOf
<1>2. k \in Nat /\ ~\E f : IsSum(f, k, s, d)
  OBVIOUS
<1>3. k # 0
  <2>1. IsSum([T \in SUBSET (1..0) |-> 0], 0, s, d)
    BY DEF IsSum
  <2> QED BY <1>2, <2>1
<1>4. k - 1 \in Nat /\ k - 1 \notin Bad
  BY <1>1, <1>2, <1>3
<1>5. PICK f : IsSum(f, k - 1, s, d)
  BY <1>4
<1> DEFINE g == [T \in SUBSET (1..k) |-> IF k \in T THEN f[T \ {k}] + s[k].spend[d] ELSE f[T]]
<1>6. IsSum(g, k, s, d)
  <2>0. \A T \in SUBSET (1..k) : g[T] = IF k \in T THEN f[T \ {k}] + s[k].spend[d] ELSE f[T]
    OBVIOUS
  <2>. HIDE DEF g, Bad
  <2>1. ASSUME NEW T \in SUBSET (1..k), T # {}
        PROVE  g[T] = g[T \ {Tls!Max(T)}] + s[Tls!Max(T)].spend[d]
    <3>1. Tls!Max(T) \in T /\ \A x \in T : x <= Tls!Max(T)
      BY <1>2, <2>1, GreatestOf
    <3>2. CASE k \in T
      <4>1. Tls!Max(T) = k
        <5>1. Tls!Max(T) \in 1..k /\ k <= Tls!Max(T)
          BY <3>1, <3>2
        <5> QED BY <1>2, <5>1
      <4>2. T \ {k} \in SUBSET (1..k) /\ k \notin T \ {k}
        OBVIOUS
      <4>3. g[T \ {k}] = f[T \ {k}]
        BY <2>0, <4>2
      <4> QED BY <2>0, <3>2, <4>1, <4>3
    <3>3. CASE k \notin T
      <4>1. T \in SUBSET (1..(k - 1))
        BY <1>2, <3>3
      <4>2. f[T] = f[T \ {Tls!Max(T)}] + s[Tls!Max(T)].spend[d]
        BY <1>5, <2>1, <4>1, SumStep
      <4>3. T \ {Tls!Max(T)} \in SUBSET (1..k) /\ k \notin T \ {Tls!Max(T)}
        BY <3>3
      <4> QED BY <2>0, <3>3, <4>2, <4>3
    <3> QED BY <3>2, <3>3
  <2>2. g[{}] = 0
    <3>1. {} \in SUBSET (1..k) /\ {} \in SUBSET (1..(k - 1)) /\ k \notin {}
      OBVIOUS
    <3> QED BY <1>5, <2>0, <3>1, SumStep
  <2>3. g = [T \in SUBSET (1..k) |-> g[T]]
    BY DEF g
  <2> QED BY <2>1, <2>2, <2>3 DEF IsSum
<1> QED BY <1>2, <1>6

\* One more observation adds its share.
LEMMA SumIsUnique ==
  ASSUME NEW s, NEW t, NEW d, NEW n \in Nat, NEW m \in Nat, n <= m,
         \A i \in 1..n : s[i] = t[i],
         NEW f, IsSum(f, n, s, d), NEW g, IsSum(g, m, t, d)
  PROVE  f[1..n] = g[1..n]
<1> DEFINE Bad == {k \in 0..n : f[1..k] # g[1..k]}
<1> SUFFICES ASSUME Bad # {} PROVE FALSE
  OBVIOUS
<1>1. PICK k \in Bad : \A i \in Bad : k <= i
  <2>1. Bad \subseteq Nat
    OBVIOUS
  <2>. HIDE DEF Bad
  <2> QED BY <2>1, LeastOf
<1>2. k \in 0..n /\ f[1..k] # g[1..k]
  OBVIOUS
<1>3. 1..k \in SUBSET (1..n) /\ 1..k \in SUBSET (1..m)
  BY <1>2
<1>4. k # 0
  <2>1. SUFFICES ASSUME k = 0 PROVE FALSE
    OBVIOUS
  <2>2. 1..k = {}
    BY <2>1
  <2>3. f[{}] = 0 /\ g[{}] = 0
    BY <1>3, <2>2 DEF IsSum
  <2> QED BY <1>2, <2>2, <2>3
<1>5. k - 1 \in 0..n /\ f[1..(k - 1)] = g[1..(k - 1)]
  BY <1>1, <1>2, <1>4
<1>6. Tls!Max(1..k) = k
  <2>1. Tls!Max(1..k) \in 1..k /\ \A x \in 1..k : x <= Tls!Max(1..k)
    <3> DEFINE T == 1..k
    <3>1. k \in Nat /\ T \in SUBSET (1..k) /\ T # {}
      BY <1>2, <1>4
    <3>. HIDE DEF T
    <3>2. Tls!Max(T) \in T /\ \A x \in T : x <= Tls!Max(T)
      BY <3>1, GreatestOf
    <3> QED BY <3>2 DEF T
  <2> QED BY <1>2, <1>4, <2>1
<1>7. (1..k) \ {k} = 1..(k - 1) /\ 1..k # {}
  BY <1>2, <1>4
<1>8. f[1..k] = f[1..(k - 1)] + s[k].spend[d]
  <2> DEFINE T == 1..k
  <2>1. T \in SUBSET (1..n) /\ T # {} /\ Tls!Max(T) = k /\ T \ {k} = 1..(k - 1)
    BY <1>3, <1>6, <1>7
  <2>. HIDE DEF T
  <2>2. f[T] = f[T \ {k}] + s[k].spend[d]
    BY <2>1, SumStep
  <2> QED BY <2>1, <2>2 DEF T
<1>9. g[1..k] = g[1..(k - 1)] + t[k].spend[d]
  <2> DEFINE T == 1..k
  <2>1. T \in SUBSET (1..m) /\ T # {} /\ Tls!Max(T) = k /\ T \ {k} = 1..(k - 1)
    BY <1>3, <1>6, <1>7
  <2>. HIDE DEF T
  <2>2. g[T] = g[T \ {k}] + t[k].spend[d]
    BY <2>1, SumStep
  <2> QED BY <2>1, <2>2 DEF T
<1> QED BY <1>2, <1>4, <1>5, <1>8, <1>9


SumOf(s, d) == (CHOOSE f : IsSum(f, Len(s), s, d))[1..Len(s)]

\* Summed is that recursion over the observations of the receipt.
LEMMA SummedIs ==
  ASSUME NEW d, NEW S, seen \in Seq(S)
  PROVE  Tls!Summed(d) = SumOf(seen, d)
<1>1. DOMAIN seen = 1..Len(seen)
  OBVIOUS
<1>2. Tls!Summed(d) =
        (CHOOSE f : f = [T \in SUBSET DOMAIN seen |->
                           IF T = {} THEN 0
                           ELSE f[T \ {Tls!Max(T)}] + seen[Tls!Max(T)].spend[d]])[DOMAIN seen]
  BY DEF Tls!Summed, Tls!FoldLeft, Tls!MapThenFoldSet
<1> QED BY <1>1, <1>2, Zenon DEF SumOf, IsSum

\* No observation, nothing spent.
LEMMA SumOfNothing ==
  ASSUME NEW d
  PROVE  SumOf(<<>>, d) = 0
<1> DEFINE f == CHOOSE f : IsSum(f, 0, <<>>, d)
<1>1. IsSum(f, 0, <<>>, d)
  BY SumExists
<1>. HIDE DEF f
<1>2. 1..0 = {} /\ {} \in SUBSET (1..0)
  OBVIOUS
<1>3. f[{}] = 0
  BY <1>1, <1>2, SumStep
<1>4. Len(<<>>) = 0
  OBVIOUS
<1> QED BY <1>2, <1>3, <1>4, Zenon DEF SumOf, f

\* An observation more adds its spend.
LEMMA SumOfMore ==
  ASSUME NEW S, NEW s \in Seq(S), NEW o \in S, NEW d
  PROVE  SumOf(Append(s, o), d) = SumOf(s, d) + o.spend[d]
<1> DEFINE n == Len(s)
           t == Append(s, o)
           f == CHOOSE f : IsSum(f, n, s, d)
           g == CHOOSE g : IsSum(g, n + 1, t, d)
           T == 1..(n + 1)
<1>1. n \in Nat /\ Len(t) = n + 1 /\ t[n + 1] = o /\ \A i \in 1..n : s[i] = t[i]
  OBVIOUS
<1>2. SumOf(s, d) = f[1..n] /\ SumOf(t, d) = g[1..(n + 1)]
  <2>1. SumOf(s, d) = f[1..n]
    BY DEF SumOf
  <2>2. Len(t) = n + 1
    BY <1>1
  <2> QED BY <2>1, <2>2, Zenon DEF SumOf
<1>. HIDE DEF n, t
<1>3. IsSum(f, n, s, d) /\ IsSum(g, n + 1, t, d)
  <2>1. n + 1 \in Nat
    BY <1>1
  <2> QED BY <1>1, <2>1, SumExists
<1>. HIDE DEF f, g
<1>4. f[1..n] = g[1..n]
  BY <1>1, <1>3, SumIsUnique
<1>5. T \in SUBSET (1..(n + 1)) /\ T # {} /\ T \ {n + 1} = 1..n
  <2>1. n \in Nat
    BY <1>1
  <2> QED BY <2>1
<1>6. Tls!Max(T) = n + 1
  <2>1. n + 1 \in Nat /\ n + 1 \in T /\ \A x \in T : x <= n + 1 /\ x \in Nat
    BY <1>1
  <2>. HIDE DEF T
  <2>2. Tls!Max(T) \in T /\ \A x \in T : x <= Tls!Max(T)
    BY <1>5, <2>1, GreatestOf
  <2> QED BY <2>1, <2>2
<1>. HIDE DEF T
<1>7. g[T] = g[T \ {n + 1}] + t[n + 1].spend[d]
  <2> DEFINE k == n + 1
  <2>1. IsSum(g, k, t, d) /\ T \in SUBSET (1..k) /\ T # {} /\ Tls!Max(T) = k
    BY <1>3, <1>5, <1>6
  <2>. HIDE DEF k
  <2>2. g[T] = g[T \ {k}] + t[k].spend[d]
    BY <2>1, SumStep
  <2> QED BY <2>2 DEF k
<1> QED BY <1>1, <1>2, <1>4, <1>5, <1>7 DEF t, T
InOrder(f, T) ==
  /\ f \in [1..Cardinality(T) -> T]
  /\ \A i, j \in 1..Cardinality(T) : i < j => f[i] < f[j]

\* A finite set of numbers can be listed in order.
LEMMA SortedExists ==
  ASSUME NEW T \in SUBSET Nat, IsFiniteSet(T)
  PROVE  \E f : InOrder(f, T)
<1> DEFINE Fine(k) == \A U \in SUBSET T : Cardinality(U) = k => \E f : InOrder(f, U)
           Bad == {k \in Nat : ~Fine(k)}
<1>0. \A U \in SUBSET T : U \subseteq Nat /\ IsFiniteSet(U) /\ Cardinality(U) \in Nat
  BY FS_Subset, FS_CardinalityType
<1>1. CASE Bad = {}
  <2>1. Cardinality(T) \in Nat /\ T \in SUBSET T
    BY <1>0
  <2>2. Fine(Cardinality(T))
    BY <1>1, <2>1
  <2> QED BY <2>1, <2>2
<1>2. CASE Bad # {}
  <2>1. PICK k \in Bad : \A m \in Bad : k <= m
    <3>1. Bad \subseteq Nat
      OBVIOUS
    <3>. HIDE DEF Bad
    <3> QED BY <1>2, <3>1, LeastOf
  <2>2. k \in Nat /\ ~Fine(k)
    OBVIOUS
  <2>3. PICK U \in SUBSET T : Cardinality(U) = k /\ ~\E f : InOrder(f, U)
    BY <2>2
  <2>4. k # 0
    <3>1. SUFFICES ASSUME k = 0 PROVE FALSE
      OBVIOUS
    <3>2. 1..Cardinality(U) = {}
      BY <2>3, <3>1
    <3>3. InOrder([i \in {} |-> 0], U)
      BY <3>2 DEF InOrder
    <3> QED BY <2>3, <3>3
  <2>5. k - 1 \in Nat /\ Fine(k - 1)
    <3>1. k - 1 \in Nat /\ ~(k <= k - 1)
      BY <2>2, <2>4
    <3>2. k - 1 \notin Bad
      BY <2>1, <3>1
    <3> QED BY <3>1, <3>2
  <2>. HIDE DEF Bad
  <2>6. U # {}
    BY <2>3, <2>4, FS_EmptySet
  <2>7. PICK m \in U : \A x \in U : m <= x
    BY <1>0, <2>6, LeastOf
  <2>8. Cardinality(U \ {m}) = k - 1
    BY <1>0, <2>3, <2>7, FS_RemoveElement
  <2>9. PICK h : InOrder(h, U \ {m})
    <3>1. U \ {m} \in SUBSET T
      OBVIOUS
    <3> QED BY <2>5, <2>8, <3>1
  <2>. HIDE DEF Fine
  <2> DEFINE f == [i \in 1..k |-> IF i = 1 THEN m ELSE h[i - 1]]
  <2>10. h \in [1..(k - 1) -> U \ {m}] /\ \A i, j \in 1..(k - 1) : i < j => h[i] < h[j]
    BY <2>8, <2>9 DEF InOrder
  <2>11. ASSUME NEW i \in 1..k, NEW j \in 1..k, i < j
         PROVE  f[i] < f[j]
    <3>1. j - 1 \in 1..(k - 1) /\ h[j - 1] \in U /\ h[j - 1] # m
      BY <2>2, <2>10, <2>11
    <3>2. CASE i = 1
      <4>1. m <= h[j - 1] /\ m \in Nat /\ h[j - 1] \in Nat
        BY <1>0, <2>7, <3>1
      <4>2. f[i] = m /\ f[j] = h[j - 1]
        BY <2>2, <2>11, <3>2
      <4> QED BY <3>1, <4>1, <4>2
    <3>3. CASE i # 1
      <4>1. i - 1 \in 1..(k - 1) /\ i - 1 < j - 1 /\ j # 1
        BY <2>2, <2>11, <3>3
      <4>2. f[i] = h[i - 1] /\ f[j] = h[j - 1]
        BY <3>3, <4>1
      <4>3. h[i - 1] < h[j - 1]
        BY <2>10, <3>1, <4>1
      <4> QED BY <4>2, <4>3
    <3> QED BY <3>2, <3>3
  <2>12. f \in [1..k -> U]
    <3>1. ASSUME NEW i \in 1..k, i # 1 PROVE h[i - 1] \in U
      <4>1. i - 1 \in 1..(k - 1)
        BY <2>2, <3>1
      <4> QED BY <2>10, <4>1
    <3> QED BY <3>1
  <2>13. InOrder(f, U)
    <3>. HIDE DEF f
    <3> QED BY <2>3, <2>11, <2>12 DEF InOrder
  <2> QED BY <2>3, <2>13
<1> QED BY <1>1, <1>2

\* The plan of an inquiry lists its targets, each once.
LEMMA SortedFacts ==
  ASSUME NEW T \in SUBSET Nat, IsFiniteSet(T)
  PROVE  /\ Tls!Sorted(T) \in Seq(T) /\ Len(Tls!Sorted(T)) = Cardinality(T)
         /\ \A i, j \in 1..Cardinality(T) : Tls!Sorted(T)[i] = Tls!Sorted(T)[j] => i = j
<1> DEFINE n == Cardinality(T)
           s == Tls!Sorted(T)
<1>0. n \in Nat
  BY FS_CardinalityType
<1>1. Tls!Cardinality(T) = n
  BY Zenon DEF Tls!Cardinality, Cardinality
<1>2. PICK f : InOrder(f, T)
  BY SortedExists
<1>. HIDE DEF n
<1>3. f \in Tls!SetToSeqs(T) /\ \A i, j \in DOMAIN f : i < j => f[i] < f[j]
  <2>1. f \in [1..n -> T] /\ \A i, j \in 1..n : i < j => f[i] < f[j]
    BY <1>2 DEF InOrder, n
  <2>2. ASSUME NEW i \in 1..n, NEW j \in 1..n, i # j PROVE f[i] # f[j]
    <3>1. i \in Nat /\ j \in Nat /\ (i < j \/ j < i)
      BY <1>0, <2>2
    <3>2. f[i] \in T /\ f[j] \in T
      BY <2>1
    <3>3. f[i] \in Nat /\ f[j] \in Nat
      BY <3>2
    <3> QED BY <2>1, <3>1, <3>3
  <2>3. f \in Tls!SetToSeqs(T)
    BY <1>1, <2>1, <2>2 DEF Tls!SetToSeqs
  <2>4. DOMAIN f = 1..n
    BY <2>1
  <2> QED BY <2>1, <2>3, <2>4
<1>4. s \in Tls!SetToSeqs(T)
  BY <1>3 DEF Tls!Sorted
<1>5. s \in [1..n -> T] /\ \A i, j \in 1..n : i # j => s[i] # s[j]
  BY <1>1, <1>4 DEF Tls!SetToSeqs
<1>. HIDE DEF s
<1>6. s \in Seq(T) /\ Len(s) = n
  BY <1>0, <1>5
<1> QED BY <1>5, <1>6 DEF n, s

-----------------------------------------------------------------------------
(***************************************************************************)
(* The inductive invariant of TlsInquiry.                                  *)
(***************************************************************************)
InFlight == {"resolving", "resolved", "connecting", "opening", "handshaking", "reached"}
Admitted == InFlight \cup {"acquiring", "sealed", "failed"}
Counters == {"dns", "connections", "handshakes", "completed", "checks"}

Verdicts ==
  {"none", "resolution_failed", "connection_failed", "tls_handshake_failed",
   "no_certificate_presented", "acquisition_bound_refused", "name_mismatch",
   "expired_under_acquisition_clock", "chain_invalid", "valid_within_horizon",
   "valid_beyond_horizon"}
Validations == {"not_attempted", "valid", "invalid"}
Position == [scope : SUBSET Targets, depth : Nat, remaining : Tls!Spend]
TlsObservation ==
  [target : Targets, outcome : Verdicts, validation : Validations, certificate : BOOLEAN,
   addressed : BOOLEAN, spend : Tls!Spend]
Acquired ==
  [target : Targets, started : Nat, deadline : Nat, io : Int, spend : Tls!Spend,
   verdict : Verdicts, validation : Validations, certificate : BOOLEAN, late : BOOLEAN]

TlsTypes ==
  /\ stage \in Admitted \cup {"idle", "refused"}
  /\ clock \in Nat
  /\ moves \in Nat
  /\ plan \in Seq(Targets)
  /\ seen \in Seq(TlsObservation)
  /\ wire \in [Targets -> [Tls!OnWire -> {0, 1}]]
  /\ position \in Position
  /\ admitted \in Position
  /\ stage \in InFlight => current \in Acquired

\* What the plan still has and what was seen are the admitted targets.
Planned ==
  /\ \A i, j \in DOMAIN plan : plan[i] = plan[j] => i = j
  /\ \A j \in DOMAIN plan : plan[j] \in admitted.scope
  /\ \A i \in DOMAIN seen : seen[i].target \in admitted.scope
  /\ \A i \in DOMAIN seen, j \in DOMAIN plan : seen[i].target # plan[j]
  /\ stage \in Admitted => Len(seen) + Len(plan) = Cardinality(admitted.scope)
  /\ stage \in InFlight => plan # <<>> /\ current.target = plan[1]

\* Nothing happens without a grant that covers it.
Covered ==
  IF stage \in Admitted
  THEN /\ grant \in Grants
       /\ admitted.scope \subseteq grant.scope
       /\ admitted.scope # {}
       /\ "tls_cert_probe" \in grant.classes
       /\ Tls!AtMost(Tls!Bounds(Cardinality(admitted.scope)), grant.envelope)
  ELSE /\ plan = <<>> /\ seen = <<>> /\ moves = 0 /\ position = admitted
       /\ \A t \in Targets, d \in Tls!OnWire : wire[t][d] = 0

\* What is charged is what was done, but for a handshake that was not begun.
Charges ==
  /\ \A i \in DOMAIN seen : Tls!Tells(seen[i].spend, wire[seen[i].target])
  /\ stage \in InFlight => Tls!Tells(current.spend, wire[current.target])
  /\ \A t \in Targets, d \in Tls!OnWire :
       wire[t][d] # 0 =>
         \/ \E i \in DOMAIN seen : seen[i].target = t
         \/ stage \in InFlight /\ current.target = t

\* The verifier takes an observation, or its judges disagree.
Disputed(o) ==
  /\ o.validation = "valid"
  /\ \/ o.outcome = "name_mismatch" /\ o.target \in AddressNames
     \/ o.outcome = "expired_under_acquisition_clock"
Sound(o) == Tls!ShapeValid(o) \/ Disputed(o)
Chained(s) ==
  /\ s["completed"] <= s["handshakes"]
  /\ s["handshakes"] <= s["connections"]
  /\ s["connections"] <= s["dns"]
  /\ s["dns"] <= 1 /\ s["checks"] = 1
  /\ s["work"] = Tls!CountedWork(s)

\* The target in flight has begun what its stage says.
Begun(dns, connections, handshakes) ==
  /\ current.spend["dns"] = dns
  /\ current.spend["connections"] = connections
  /\ current.spend["handshakes"] = handshakes
  /\ current.spend["completed"] = 0
  /\ current.validation = "not_attempted"
  /\ ~current.certificate
Answer(c) ==
  [target |-> c.target, outcome |-> c.verdict, validation |-> c.validation,
   certificate |-> c.certificate, addressed |-> TRUE, spend |-> c.spend]
Flying ==
  stage \in InFlight =>
    /\ current.started <= clock
    /\ current.deadline <= current.started + PerTarget * TicksPerMs
    /\ Chained(current.spend)
    /\ stage \in {"resolving", "resolved"} => Begun(1, 0, 0)
    /\ stage = "connecting" => Begun(1, 1, 0)
    /\ stage = "opening" => Begun(1, 1, 1) /\ wire[current.target]["handshakes"] = 0
    /\ stage = "handshaking" => Begun(1, 1, 1) /\ wire[current.target]["handshakes"] = 1
    /\ stage = "reached" => current.late \/ Sound(Answer(current))

Accounted(o) ==
  /\ Chained(o.spend)
  /\ Sound(o)
  /\ o.outcome \notin Tls!Refusing => o.spend["wall"] < PerTarget
Observed == \A i \in DOMAIN seen : Accounted(seen[i])

\* The sums of the receipt.
Counted ==
  /\ \A d \in Counters : SumOf(seen, d) \in 0..Len(seen)
  /\ SumOf(seen, "checks") = Len(seen)
  /\ SumOf(seen, "work") = SumOf(seen, "dns") + SumOf(seen, "connections")
                             + SumOf(seen, "handshakes") + SumOf(seen, "checks")
  /\ SumOf(seen, "wall") \in Nat
  /\ SumOf(seen, "wall") * TicksPerMs <= IF stage \in InFlight THEN current.started ELSE clock

Refused(o) == o.outcome = "acquisition_bound_refused"
HaltedLast ==
  (\E i \in DOMAIN seen : Refused(seen[i])) => Refused(seen[Len(seen)]) /\ stage \notin InFlight

Closed ==
  /\ stage = "sealed" => receipt.observations = seen
  /\ Tls!SealFailsOnlyLate
  /\ Tls!RatchetRunsDown

TlsInv ==
  /\ TlsTypes /\ Planned /\ Covered /\ Charges /\ Flying /\ Observed /\ Counted /\ HaltedLast
  /\ Closed

-----------------------------------------------------------------------------
\* What is assumed of the constants of TlsInquiry.
LEMMA TlsConstants ==
  /\ IsFiniteSet(Targets) /\ MaxDepth \in Nat
  /\ Targets \subseteq Nat \ {0}
  /\ Numeric \subseteq Targets
  /\ Grants \subseteq [scope : SUBSET Targets, depth : Nat, envelope : Tls!Spend,
                       classes : SUBSET {"tls_cert_probe"}]
  /\ Remainders \subseteq Tls!Spend
  /\ PerTarget \in Nat \ {0}
  /\ Total \in Nat
  /\ TicksPerMs \in Nat \ {0}
  /\ ReserveDivisor \in Nat \ {0}
  /\ ReserveCap \in Nat
<1>1. IsFiniteSet(Targets)
  BY GrantsAssumption, Zenon DEF Tls!GrantsAssumption, Tls!IsFiniteSet, IsFiniteSet
<1> QED BY <1>1, GrantsAssumption, TlsAssumption DEF Tls!GrantsAssumption, Tls!TlsAssumption

\* The instance counts as this module does.
LEMMA SameCardinality ==
  ASSUME NEW S
  PROVE  Tls!Cardinality(S) = Cardinality(S)
BY Zenon DEF Tls!Cardinality, Cardinality

\* Whole milliseconds of a number of ticks.
LEMMA Milliseconds ==
  ASSUME NEW c \in Nat, NEW t \in Nat \ {0}
  PROVE  /\ c \div t \in Nat
         /\ (c \div t) * t <= c
         /\ \A x \in Nat : x * t <= c => x <= c \div t
         /\ \A x \in Nat : c < x * t => c \div t < x
<1>1. c \div t \in Nat /\ (c \div t) * t <= c
  OBVIOUS
<1>2. c < (c \div t + 1) * t
  OBVIOUS
<1>3. ASSUME NEW x \in Nat, x * t <= c PROVE x <= c \div t
  BY <1>1, <1>2, <1>3
<1>4. ASSUME NEW x \in Nat, c < x * t PROVE c \div t < x
  BY <1>1, <1>2, <1>4
<1> QED BY <1>1, <1>3, <1>4

\* A step of the acquisition that leaves the target in flight.
LEMMA FlightGoesOn ==
  ASSUME TlsInv,
         stage \in InFlight \cup {"acquiring"}, stage' \in InFlight,
         UNCHANGED <<plan, grant, clock, seen, receipt, position, admitted, moves>>,
         plan # <<>>, ~\E i \in DOMAIN seen : Refused(seen[i]),
         current' \in Acquired, current'.target = plan[1],
         SumOf(seen, "wall") * TicksPerMs <= current'.started,
         Flying',
         wire' \in [Targets -> [Tls!OnWire -> {0, 1}]],
         \A t \in Targets : t # plan[1] => wire'[t] = wire[t],
         Tls!Tells(current'.spend, wire'[plan[1]])
  PROVE  TlsInv'
<1>1. TlsTypes'
  BY DEF TlsInv, TlsTypes, Admitted
<1>2. Planned'
  BY DEF TlsInv, TlsTypes, Planned, Admitted
<1>3. Covered'
  BY DEF TlsInv, Covered, Admitted
<1>4. Charges'
  <2>1. plan[1] \in Targets /\ 1 \in DOMAIN plan
    BY DEF TlsInv, TlsTypes
  <2>2. ASSUME NEW i \in DOMAIN seen PROVE wire'[seen[i].target] = wire[seen[i].target]
    <3>1. seen[i].target # plan[1]
      BY <2>1 DEF TlsInv, Planned
    <3>2. seen[i] \in TlsObservation
      BY DEF TlsInv, TlsTypes
    <3>3. seen[i].target \in Targets
      BY <3>2 DEF TlsObservation
    <3> QED BY <3>1, <3>3
  <2>3. \A i \in DOMAIN seen : Tls!Tells(seen[i].spend, wire'[seen[i].target])
    BY <2>2 DEF TlsInv, Charges
  <2>4. ASSUME NEW t \in Targets, NEW d \in Tls!OnWire, wire'[t][d] # 0, t # plan[1]
        PROVE  \E i \in DOMAIN seen : seen[i].target = t
    <3>1. wire[t][d] # 0
      BY <2>4
    <3>2. stage \in InFlight => current.target = plan[1]
      BY DEF TlsInv, Planned
    <3> QED BY <2>4, <3>1, <3>2 DEF TlsInv, Charges
  <2> QED BY <2>3, <2>4 DEF Charges
<1>5. Observed' /\ HaltedLast'
  BY DEF TlsInv, Observed, HaltedLast, Accounted, Refused, Chained, Sound, Disputed
<1>6. Counted'
  BY DEF TlsInv, Counted
<1>7. Closed'
  BY DEF TlsInv, Closed, Tls!SealFailsOnlyLate, Tls!RatchetRunsDown, InFlight, Tls!Budget
<1> QED BY <1>1, <1>2, <1>3, <1>4, <1>5, <1>6, <1>7 DEF TlsInv

\* What an observation says of a target that is over.
Note(c, outcome, addressed) ==
  [target |-> c.target, outcome |-> outcome, validation |-> c.validation,
   certificate |-> c.certificate, addressed |-> addressed,
   spend |-> [c.spend EXCEPT !["wall"] = Tls!Elapsed(c.started)]]

\* Total work is the sum of the four counters, one observation more.
LEMMA WorkAddsUp ==
  ASSUME NEW s, NEW t, NEW o,
         \A d : SumOf(t, d) = SumOf(s, d) + o.spend[d],
         \A d \in Counters : SumOf(s, d) \in Nat /\ o.spend[d] \in Nat,
         SumOf(s, "work") = SumOf(s, "dns") + SumOf(s, "connections")
                              + SumOf(s, "handshakes") + SumOf(s, "checks"),
         o.spend["work"] = o.spend["dns"] + o.spend["connections"] + o.spend["handshakes"]
                             + o.spend["checks"]
  PROVE  SumOf(t, "work") = SumOf(t, "dns") + SumOf(t, "connections")
                              + SumOf(t, "handshakes") + SumOf(t, "checks")
<1>1. /\ SumOf(s, "dns") \in Nat /\ SumOf(s, "connections") \in Nat
      /\ SumOf(s, "handshakes") \in Nat /\ SumOf(s, "checks") \in Nat
      /\ o.spend["dns"] \in Nat /\ o.spend["connections"] \in Nat
      /\ o.spend["handshakes"] \in Nat /\ o.spend["checks"] \in Nat
  BY DEF Counters
<1> QED BY <1>1

\* The end of a target.
LEMMA TargetEnds ==
  ASSUME TlsInv,
         NEW c \in Acquired, NEW outcome \in Verdicts, NEW addressed \in BOOLEAN,
         stage \in InFlight \cup {"acquiring"},
         plan # <<>>, c.target = plan[1],
         Tls!End(c, outcome, addressed),
         UNCHANGED <<grant, clock, receipt, position, admitted, moves, wire>>,
         c.started <= clock,
         SumOf(seen, "wall") * TicksPerMs <= c.started,
         Tls!Tells(c.spend, wire[c.target]),
         Chained(c.spend),
         Sound(Note(c, outcome, addressed)),
         outcome \notin Tls!Refusing => clock < c.started + PerTarget * TicksPerMs,
         (\E i \in DOMAIN seen : Refused(seen[i])) => outcome = "acquisition_bound_refused"
  PROVE  TlsInv'
<1> DEFINE o == Note(c, outcome, addressed)
           n == Len(seen)
<1>1. /\ seen' = Append(seen, o) /\ plan' = Tail(plan) /\ stage' = "acquiring"
      /\ stage' \notin InFlight /\ stage' \in Admitted /\ stage \in Admitted
  BY DEF Tls!End, Note, InFlight, Admitted
<1>2. c.started \in Nat /\ c.target \in Targets /\ c.spend \in Tls!Spend /\ clock \in Nat
  BY DEF Acquired, TlsInv, TlsTypes
<1>3. Tls!Elapsed(c.started) \in Nat /\ Tls!Elapsed(c.started) * TicksPerMs <= clock - c.started
      /\ (outcome \notin Tls!Refusing => Tls!Elapsed(c.started) < PerTarget)
  <2>1. clock - c.started \in Nat
    BY <1>2
  <2>2. clock < c.started + PerTarget * TicksPerMs => clock - c.started < PerTarget * TicksPerMs
    BY <1>2, TlsConstants
  <2> QED BY <2>1, <2>2, TlsConstants, Milliseconds DEF Tls!Elapsed
<1>4. /\ o \in TlsObservation
      /\ o.target = c.target /\ o.outcome = outcome
      /\ \A d \in Tls!Dimensions : d # "wall" => o.spend[d] = c.spend[d]
      /\ o.spend["wall"] = Tls!Elapsed(c.started)
  <2>1. [c.spend EXCEPT !["wall"] = Tls!Elapsed(c.started)] \in Tls!Spend
    BY <1>2, <1>3 DEF Tls!Spend, Tls!Dimensions
  <2>2. c.validation \in Validations /\ c.certificate \in BOOLEAN
    BY DEF Acquired
  <2>3. o \in TlsObservation
    BY <1>2, <2>1, <2>2 DEF Note, TlsObservation
  <2> QED BY <1>2, <2>3 DEF Note, Tls!Spend, Tls!Dimensions
<1>5. /\ seen \in Seq(TlsObservation) /\ n \in Nat /\ Len(seen') = n + 1
      /\ DOMAIN seen' = 1..(n + 1) /\ DOMAIN seen = 1..n
      /\ seen'[n + 1] = o /\ \A i \in 1..n : seen'[i] = seen[i]
  BY <1>1, <1>4 DEF TlsInv, TlsTypes
<1>6. /\ plan \in Seq(Targets) /\ plan' \in Seq(Targets) /\ Len(plan') = Len(plan) - 1
      /\ Len(plan) \in Nat \ {0}
      /\ DOMAIN plan = 1..Len(plan) /\ DOMAIN plan' = 1..(Len(plan) - 1)
      /\ \A j \in DOMAIN plan' : plan'[j] = plan[j + 1] /\ j + 1 \in DOMAIN plan /\ j + 1 # 1
      /\ 1 \in DOMAIN plan
  BY <1>1 DEF TlsInv, TlsTypes
<1>. HIDE DEF o, n
<1>7. TlsTypes'
  <2>1. seen' \in Seq(TlsObservation)
    BY <1>1, <1>4, <1>5
  <2> QED BY <1>1, <1>6, <2>1 DEF TlsInv, TlsTypes
<1>8. Planned'
  <2>1. \A i, j \in DOMAIN plan' : plan'[i] = plan'[j] => i = j
    BY <1>6 DEF TlsInv, Planned
  <2>2. \A j \in DOMAIN plan' : plan'[j] \in admitted.scope
    BY <1>6 DEF TlsInv, Planned
  <2>3. o.target \in admitted.scope
    BY <1>4, <1>6 DEF TlsInv, Planned
  <2>4. \A i \in DOMAIN seen' : seen'[i].target \in admitted.scope
    BY <1>5, <2>3 DEF TlsInv, Planned
  <2>5. \A j \in DOMAIN plan' : o.target # plan'[j]
    BY <1>4, <1>6 DEF TlsInv, Planned
  <2>6. ASSUME NEW i \in DOMAIN seen', NEW j \in DOMAIN plan'
        PROVE  seen'[i].target # plan'[j]
    <3>1. \A k \in DOMAIN seen : seen[k].target # plan[j + 1]
      BY <1>6 DEF TlsInv, Planned
    <3>2. plan'[j] = plan[j + 1]
      BY <1>6
    <3>3. CASE i = n + 1
      BY <1>5, <2>5, <3>3
    <3>4. CASE i \in 1..n
      BY <1>5, <3>1, <3>2, <3>4
    <3> QED BY <1>5, <3>3, <3>4
  <2>7. Len(seen') + Len(plan') = Cardinality(admitted.scope)
    BY <1>1, <1>5, <1>6 DEF TlsInv, Planned, n
  <2> QED BY <1>1, <2>1, <2>2, <2>4, <2>6, <2>7 DEF Planned
<1>9. Covered'
  BY <1>1 DEF TlsInv, Covered
<1>10. Charges'
  <2>1. Tls!OnWire \subseteq Tls!Dimensions \ {"wall"}
    BY DEF Tls!OnWire, Tls!Dimensions
  <2>2. \A i \in DOMAIN seen' : Tls!Tells(seen'[i].spend, wire[seen'[i].target])
    <3>1. \A d \in Tls!OnWire : o.spend[d] = c.spend[d]
      BY <1>4, <2>1
    <3>2. Tls!Tells(o.spend, wire[o.target])
      BY <1>4, <3>1 DEF Tls!Tells, Tls!OnWire
    <3> QED BY <1>5, <3>2 DEF TlsInv, Charges
  <2>3. ASSUME NEW t \in Targets, NEW d \in Tls!OnWire, wire[t][d] # 0
        PROVE  \E i \in DOMAIN seen' : seen'[i].target = t
    <3>1. (\E i \in DOMAIN seen : seen[i].target = t) \/ t = c.target
      BY <2>3 DEF TlsInv, Charges, Planned
    <3> QED BY <1>4, <1>5, <3>1
  <2> QED BY <1>1, <2>2, <2>3 DEF Charges
<1>11. Flying'
  BY <1>1 DEF Flying
<1>12. Observed'
  <2>1. Chained(o.spend)
    BY <1>4 DEF Chained, Tls!CountedWork, Tls!Dimensions
  <2>2. Accounted(o)
    BY <1>3, <1>4, <2>1 DEF Accounted, o
  <2> QED BY <1>5, <2>2 DEF TlsInv, Observed
<1>13. Counted'
  <2>1. \A d : SumOf(seen', d) = SumOf(seen, d) + o.spend[d]
    BY <1>1, <1>4, <1>5, SumOfMore
  <2>2. \A d \in Counters : o.spend[d] \in 0..1
    <3>1. Chained(o.spend) /\ o.spend \in Tls!Spend
      BY <1>4 DEF Chained, Tls!CountedWork, Tls!Dimensions, TlsObservation
    <3> QED BY <3>1 DEF Counters, Chained, Tls!Spend, Tls!Dimensions
  <2>3. \A d \in Counters : SumOf(seen', d) \in 0..Len(seen')
    BY <1>5, <2>1, <2>2 DEF TlsInv, Counted, n
  <2>4. SumOf(seen', "checks") = Len(seen')
    BY <1>4, <1>5, <2>1 DEF TlsInv, Counted, n, Chained, Tls!Dimensions
  <2>5. SumOf(seen', "work") = SumOf(seen', "dns") + SumOf(seen', "connections")
                                 + SumOf(seen', "handshakes") + SumOf(seen', "checks")
    <3>1. o.spend["work"] = o.spend["dns"] + o.spend["connections"] + o.spend["handshakes"]
                              + o.spend["checks"]
      BY <1>4 DEF Chained, Tls!CountedWork, Tls!Dimensions
    <3>2. \A d \in Counters : SumOf(seen, d) \in Nat /\ o.spend[d] \in Nat
      BY <1>5, <2>2 DEF TlsInv, Counted
    <3>3. SumOf(seen, "work") = SumOf(seen, "dns") + SumOf(seen, "connections")
                                  + SumOf(seen, "handshakes") + SumOf(seen, "checks")
      BY DEF TlsInv, Counted
    <3> QED BY <2>1, <3>1, <3>2, <3>3, WorkAddsUp
  <2>6. SumOf(seen', "wall") \in Nat /\ SumOf(seen', "wall") * TicksPerMs <= clock
    <3>1. SumOf(seen, "wall") \in Nat
      BY DEF TlsInv, Counted
    <3>2. SumOf(seen', "wall") = SumOf(seen, "wall") + Tls!Elapsed(c.started)
      BY <1>4, <2>1
    <3> QED BY <1>2, <1>3, <3>1, <3>2, TlsConstants
  <2> QED BY <1>1, <2>3, <2>4, <2>5, <2>6 DEF Counted
<1>14. HaltedLast'
  <2>1. (\E i \in DOMAIN seen' : Refused(seen'[i])) => Refused(o)
    BY <1>4, <1>5 DEF Refused
  <2> QED BY <1>1, <1>5, <2>1 DEF HaltedLast, Refused
<1>15. Closed'
  BY <1>1 DEF TlsInv, Closed, Tls!SealFailsOnlyLate, Tls!RatchetRunsDown, Tls!Budget
<1> QED BY <1>7, <1>8, <1>9, <1>10, <1>11, <1>12, <1>13, <1>14, <1>15 DEF TlsInv

\* An invocation that is admitted or refused.
LEMMA InvocationStep ==
  ASSUME TlsInv, NEW g \in Grants \cup {Tls!NoGrant, Tls!BadGrant},
         NEW T \in (SUBSET Targets) \ {{}}, Tls!Invoke(g, T)
  PROVE  TlsInv'
<1>1. /\ stage = "idle" /\ plan = <<>> /\ seen = <<>> /\ moves = 0 /\ position = admitted
      /\ \A t \in Targets, d \in Tls!OnWire : wire[t][d] = 0
      /\ UNCHANGED <<clock, current, seen, moves, wire>>
  BY DEF Tls!Invoke, TlsInv, Covered, Admitted, InFlight
<1>2. T \subseteq Nat /\ IsFiniteSet(T) /\ T \subseteq Targets /\ T # {}
  <2>1. T \in SUBSET Targets /\ T # {}
    OBVIOUS
  <2> QED BY <2>1, TlsConstants, FS_Subset
<1>3. Tls!Cardinality(T) = Cardinality(T) /\ Cardinality(T) \in Nat
  BY <1>2, SameCardinality, FS_CardinalityType
<1>4. CASE Tls!GrantRefusal(g, T) # "none"
  <2>1. UNCHANGED <<plan, position, admitted>> /\ stage' = "refused"
    BY <1>4 DEF Tls!Invoke
  <2>2. stage' \notin Admitted /\ stage' \notin InFlight
    BY <2>1 DEF Admitted, InFlight
  <2>3. TlsTypes'
    BY <1>1, <2>1, <2>2 DEF TlsInv, TlsTypes
  <2>4. Planned' /\ Observed' /\ Flying' /\ HaltedLast' /\ Charges' /\ Covered'
    BY <1>1, <2>1, <2>2 DEF Planned, Observed, Flying, HaltedLast, Charges, Covered
  <2>5. Counted'
    BY <1>1, <2>2, SumOfNothing DEF TlsInv, Counted, InFlight
  <2>6. Closed'
    BY <1>1, <2>1 DEF TlsInv, Closed, Tls!SealFailsOnlyLate, Tls!RatchetRunsDown, Tls!Budget
  <2> QED BY <2>3, <2>4, <2>5, <2>6 DEF TlsInv
<1>5. CASE Tls!GrantRefusal(g, T) = "none"
  <2> DEFINE N == Tls!Needed(T)
  <2>1. /\ stage' = "acquiring" /\ grant' = g /\ plan' = Tls!Sorted(T)
        /\ position' = N /\ admitted' = N /\ UNCHANGED receipt
    BY <1>5 DEF Tls!Invoke
  <2>2. stage' \in Admitted /\ stage' \notin InFlight
    BY <2>1 DEF Admitted, InFlight
  <2>3. Tls!Bounds(Cardinality(T)) \in Tls!Spend
    BY <1>3, TlsConstants DEF Tls!Bounds, Tls!Spend
  <2>4. N = [scope |-> T, depth |-> 1, remaining |-> Tls!Bounds(Cardinality(T))]
    BY <1>3 DEF Tls!Needed
  <2>5. N \in Position /\ N.scope = T
    BY <1>2, <2>3, <2>4 DEF Position
  <2>6. g \in Grants /\ T \subseteq g.scope /\ "tls_cert_probe" \in g.classes
        /\ Tls!AtMost(Tls!Bounds(Cardinality(T)), g.envelope)
    BY <1>5, <2>4 DEF Tls!GrantRefusal, Tls!AdmissionRefusal, Tls!NoGrant, Tls!BadGrant
  <2>. HIDE DEF N
  <2>7. plan' \in Seq(T) /\ Len(plan') = Cardinality(T) /\ DOMAIN plan' = 1..Cardinality(T)
        /\ \A i, j \in 1..Cardinality(T) : plan'[i] = plan'[j] => i = j
    BY <1>2, <2>1, SortedFacts
  <2>8. plan' \in Seq(Targets) /\ \A j \in DOMAIN plan' : plan'[j] \in T
    <3>1. \A s \in Seq(T) : s \in Seq(Targets) /\ \A j \in DOMAIN s : s[j] \in T
      <4> SUFFICES ASSUME NEW s \in Seq(T)
                   PROVE  s \in Seq(Targets) /\ \A j \in DOMAIN s : s[j] \in T
        OBVIOUS
      <4>1. Len(s) \in Nat /\ s \in [1..Len(s) -> T]
        OBVIOUS
      <4>2. s \in [1..Len(s) -> Targets]
        BY <1>2, <4>1
      <4> QED BY <4>1, <4>2
    <3> QED BY <2>7, <3>1
  <2>9. TlsTypes'
    BY <1>1, <2>1, <2>2, <2>5, <2>8 DEF TlsInv, TlsTypes
  <2>10. Planned'
    <3>1. Len(seen') + Len(plan') = Cardinality(admitted'.scope)
      BY <1>1, <1>3, <2>1, <2>5, <2>7
    <3> QED BY <1>1, <2>1, <2>2, <2>5, <2>7, <2>8, <3>1 DEF Planned
  <2>11. Covered'
    BY <1>2, <2>1, <2>2, <2>5, <2>6 DEF Covered
  <2>12. Observed' /\ Flying' /\ HaltedLast' /\ Charges'
    BY <1>1, <2>1, <2>2 DEF Observed, Flying, HaltedLast, Charges
  <2>13. Counted'
    BY <1>1, <2>2, SumOfNothing DEF TlsInv, Counted, InFlight
  <2>14. Closed'
    <3>1. Tls!Budget(N) \in Nat
      <4>1. Tls!Cardinality(N.scope) \in Nat
        BY <1>3, <2>5
      <4>2. N.remaining \in [Tls!Dimensions -> Nat]
        BY <2>5 DEF Position, Tls!Spend
      <4> QED BY <4>1, <4>2 DEF Tls!Budget, Tls!Dimensions
    <3>2. Tls!RatchetRunsDown'
      BY <1>1, <2>1, <3>1 DEF Tls!RatchetRunsDown
    <3> QED BY <2>1, <3>2 DEF Closed, Tls!SealFailsOnlyLate
  <2> QED BY <2>9, <2>10, <2>11, <2>12, <2>13, <2>14 DEF TlsInv
<1> QED BY <1>4, <1>5

\* The target that is next: what Fresh fills in.
LEMMA FreshIs ==
  ASSUME TlsInv, stage = "acquiring", plan # <<>>
  PROVE  /\ Head(plan) = plan[1] /\ plan[1] \in Targets
         /\ Tls!Fresh(plan[1]) \in Acquired
         /\ Tls!Fresh(plan[1]).target = plan[1]
         /\ Tls!Fresh(plan[1]).started = clock
         /\ Tls!Fresh(plan[1]).deadline <= clock + PerTarget * TicksPerMs
         /\ Tls!Fresh(plan[1]).validation = "not_attempted"
         /\ ~Tls!Fresh(plan[1]).certificate
         /\ Tls!Fresh(plan[1]).spend = [Tls!NoSpend EXCEPT !["checks"] = 1, !["work"] = 1]
         /\ Tls!Fresh(plan[1]).spend \in Tls!Spend
         /\ Chained(Tls!Fresh(plan[1]).spend)
         /\ \A d \in Tls!OnWire : Tls!Fresh(plan[1]).spend[d] = 0 /\ wire[plan[1]][d] = 0
         /\ Tls!Tells(Tls!Fresh(plan[1]).spend, wire[plan[1]])
         /\ SumOf(seen, "wall") * TicksPerMs <= clock
         /\ clock \in Nat
<1>1. Head(plan) = plan[1] /\ plan[1] \in Targets /\ clock \in Nat /\ 1 \in DOMAIN plan
  BY DEF TlsInv, TlsTypes
<1>2. stage \notin InFlight
  BY DEF InFlight
<1> DEFINE c == Tls!Fresh(plan[1])
           dl == IF clock + PerTarget * TicksPerMs < Total * TicksPerMs
                 THEN clock + PerTarget * TicksPerMs ELSE Total * TicksPerMs
           sp == [Tls!NoSpend EXCEPT !["checks"] = 1, !["work"] = 1]
<1>3. dl \in Nat /\ dl <= clock + PerTarget * TicksPerMs
  BY <1>1, TlsConstants
<1>4. sp \in Tls!Spend /\ Chained(sp) /\ \A d \in Tls!OnWire : sp[d] = 0
  BY DEF Tls!NoSpend, Tls!Spend, Tls!Dimensions, Chained, Tls!CountedWork, Tls!OnWire
<1>5. c = [Tls!Idle EXCEPT !.target = plan[1], !.started = clock, !.deadline = dl, !.spend = sp]
  BY Zenon DEF Tls!Fresh
<1>. HIDE DEF dl, sp, c
<1>6. /\ c.target = plan[1] /\ c.started = clock /\ c.deadline = dl /\ c.spend = sp
      /\ c.validation = "not_attempted" /\ c.certificate = FALSE
      /\ c \in Acquired
  <2> DEFINE z == Tls!Idle
  <2>1. DOMAIN z = {"target", "started", "deadline", "io", "spend", "verdict", "validation",
                    "certificate", "late"}
    BY DEF Tls!Idle
  <2>2. /\ z.io = 0 /\ z.verdict = "none" /\ z.validation = "not_attempted"
        /\ z.certificate = FALSE /\ z.late = FALSE
    BY DEF Tls!Idle
  <2>3. c = [z EXCEPT !.target = plan[1], !.started = clock, !.deadline = dl, !.spend = sp]
    BY <1>5
  <2>. HIDE DEF z
  <2>4. /\ c.target = plan[1] /\ c.started = clock /\ c.deadline = dl /\ c.spend = sp
    BY <2>1, <2>3
  <2>5. /\ c.io = 0 /\ c.verdict = "none" /\ c.validation = "not_attempted"
        /\ c.certificate = FALSE /\ c.late = FALSE
    BY <2>1, <2>2, <2>3
  <2>6. c = [f \in DOMAIN z |-> c[f]]
    BY <2>3
  <2>7. c \in Acquired
    <3>1. c.certificate \in BOOLEAN /\ c.late \in BOOLEAN
      BY <2>5, Zenon
    <3>2. /\ c.target \in Targets /\ c.started \in Nat /\ c.deadline \in Nat
          /\ c.spend \in Tls!Spend
      BY <1>1, <1>3, <1>4, <2>4
    <3>3. c.io \in Int
      BY <2>5
    <3>4. c.verdict \in Verdicts /\ c.validation \in Validations
      BY <2>5 DEF Verdicts, Validations
    <3> QED BY <2>1, <2>6, <3>1, <3>2, <3>3, <3>4 DEF Acquired
  <2> QED BY <2>4, <2>5, <2>7
<1>7. \A d \in Tls!OnWire : wire[plan[1]][d] = 0
  BY <1>1, <1>2 DEF TlsInv, Charges, Planned
<1>8. SumOf(seen, "wall") * TicksPerMs <= clock
  BY <1>2 DEF TlsInv, Counted
<1>9. Tls!Tells(c.spend, wire[plan[1]])
  BY <1>4, <1>6, <1>7 DEF Tls!Tells, Tls!OnWire
<1> QED BY <1>1, <1>3, <1>4, <1>6, <1>7, <1>8, <1>9 DEF c, sp

\* One attempt: what is charged and what goes over the wire.
LEMMA ChargedIs ==
  ASSUME NEW c \in Acquired, NEW d \in {"dns", "connections", "handshakes"}, c.spend[d] = 0
  PROVE  /\ Tls!Charged(c, d) \in Acquired
         /\ Tls!Charged(c, d).spend \in Tls!Spend
         /\ Tls!Charged(c, d).spend[d] = 1
         /\ Tls!Charged(c, d).spend["work"] = c.spend["work"] + 1
         /\ \A e \in Tls!Dimensions \ {d, "work"} : Tls!Charged(c, d).spend[e] = c.spend[e]
         /\ Tls!Charged(c, d).target = c.target
         /\ Tls!Charged(c, d).started = c.started
         /\ Tls!Charged(c, d).deadline = c.deadline
         /\ Tls!Charged(c, d).validation = c.validation
         /\ Tls!Charged(c, d).certificate = c.certificate
<1> DEFINE sp == [c.spend EXCEPT ![d] = 1, !["work"] = @ + 1]
<1>1. c.spend \in Tls!Spend /\ c.spend["work"] \in Nat
  BY DEF Acquired, Tls!Spend, Tls!Dimensions
<1>2. /\ sp \in Tls!Spend /\ sp[d] = 1 /\ sp["work"] = c.spend["work"] + 1
      /\ \A e \in Tls!Dimensions \ {d, "work"} : sp[e] = c.spend[e]
  BY <1>1 DEF Tls!Spend, Tls!Dimensions
<1>3. Tls!Charged(c, d) = [c EXCEPT !.spend = sp]
  BY <1>1 DEF Tls!Charged, Acquired, Tls!Spend, Tls!Dimensions
<1>. HIDE DEF sp
<1> QED BY <1>2, <1>3 DEF Acquired

\* What a message over the wire changes of the wire.
LEMMA SentIs ==
  ASSUME wire \in [Targets -> [Tls!OnWire -> {0, 1}]],
         NEW t \in Targets, NEW d \in Tls!OnWire, wire[t][d] = 0, Tls!Sent(t, d)
  PROVE  /\ wire' \in [Targets -> [Tls!OnWire -> {0, 1}]]
         /\ \A x \in Targets : x # t => wire'[x] = wire[x]
         /\ wire'[t][d] = 1
         /\ \A e \in Tls!OnWire : e # d => wire'[t][e] = wire[t][e]
<1>1. wire' = [wire EXCEPT ![t] = [wire[t] EXCEPT ![d] = wire[t][d] + 1]]
  BY DEF Tls!Sent
<1>2. [wire[t] EXCEPT ![d] = wire[t][d] + 1] \in [Tls!OnWire -> {0, 1}]
  <2>1. wire[t] \in [Tls!OnWire -> {0, 1}] /\ wire[t][d] + 1 \in {0, 1}
    OBVIOUS
  <2> QED BY <2>1
<1>3. wire' \in [Targets -> [Tls!OnWire -> {0, 1}]]
  BY <1>1, <1>2
<1>4. wire'[t] = [wire[t] EXCEPT ![d] = wire[t][d] + 1] /\ wire[t] \in [Tls!OnWire -> {0, 1}]
  BY <1>1
<1>5. wire'[t][d] = 1 /\ \A e \in Tls!OnWire : e # d => wire'[t][e] = wire[t][e]
  BY <1>4
<1> QED BY <1>1, <1>3, <1>5

\* The transport returns.
LEMMA ReturnIs ==
  ASSUME NEW c \in Acquired, NEW verdict \in Verdicts, NEW late \in BOOLEAN,
         Tls!Return(c, verdict, late)
  PROVE  /\ stage' = "reached"
         /\ current' \in Acquired
         /\ current'.verdict = verdict /\ current'.late = late
         /\ current'.spend = c.spend /\ current'.target = c.target
         /\ current'.started = c.started /\ current'.deadline = c.deadline
         /\ current'.validation = c.validation /\ current'.certificate = c.certificate
<1>1. current' = [c EXCEPT !.verdict = verdict, !.late = late] /\ stage' = "reached"
  BY DEF Tls!Return
<1>2. current' \in Acquired
  BY <1>1 DEF Acquired
<1> QED BY <1>1, <1>2 DEF Acquired

\* What is known of the target in flight.
LEMMA FlyingIs ==
  ASSUME TlsInv, stage \in InFlight
  PROVE  /\ current \in Acquired
         /\ plan # <<>> /\ current.target = plan[1] /\ plan[1] \in Targets
         /\ Tls!Tells(current.spend, wire[current.target])
         /\ wire \in [Targets -> [Tls!OnWire -> {0, 1}]]
         /\ SumOf(seen, "wall") * TicksPerMs <= current.started
         /\ ~\E i \in DOMAIN seen : Refused(seen[i])
         /\ clock \in Nat /\ current.started \in Nat /\ current.deadline \in Nat
         /\ current.spend \in Tls!Spend
         /\ Flying
<1>1. /\ current \in Acquired /\ wire \in [Targets -> [Tls!OnWire -> {0, 1}]] /\ clock \in Nat
      /\ plan \in Seq(Targets)
  BY DEF TlsInv, TlsTypes
<1>2. plan # <<>> /\ current.target = plan[1]
  BY DEF TlsInv, Planned
<1>3. plan[1] \in Targets
  BY <1>1, <1>2
<1>4. Tls!Tells(current.spend, wire[current.target])
  BY DEF TlsInv, Charges
<1>5. SumOf(seen, "wall") * TicksPerMs <= current.started
  BY DEF TlsInv, Counted
<1>6. ~\E i \in DOMAIN seen : Refused(seen[i])
  BY DEF TlsInv, HaltedLast
<1>7. Flying
  BY DEF TlsInv
<1>8. current.started \in Nat /\ current.deadline \in Nat /\ current.spend \in Tls!Spend
  BY <1>1 DEF Acquired
<1> QED BY <1>1, <1>2, <1>3, <1>4, <1>5, <1>6, <1>7, <1>8

\* What a halt looks like.
LEMMA HaltedIs ==
  ASSUME TlsInv
  PROVE  Tls!Halted <=> \E i \in DOMAIN seen : Refused(seen[i])
<1>1. seen \in Seq(TlsObservation)
  BY DEF TlsInv, TlsTypes
<1>2. Tls!Halted <=> seen # <<>> /\ Refused(seen[Len(seen)])
  BY DEF Tls!Halted, Tls!Last, Refused
<1>3. seen # <<>> => Len(seen) \in DOMAIN seen
  BY <1>1
<1>4. seen = <<>> => DOMAIN seen = {}
  OBVIOUS
<1> QED BY <1>2, <1>3, <1>4 DEF TlsInv, HaltedLast

\* A target the bound or the clock skips.
LEMMA SkipStep ==
  ASSUME TlsInv, Tls!SkipTarget
  PROVE  TlsInv'
<1> DEFINE c == Tls!Fresh(plan[1])
           out == "acquisition_bound_refused"
<1>1. /\ stage = "acquiring" /\ plan # <<>> /\ Tls!End(Tls!Fresh(Head(plan)), out, FALSE)
      /\ UNCHANGED <<grant, clock, receipt, position, admitted, moves, wire>>
  BY DEF Tls!SkipTarget
<1>2. /\ c \in Acquired /\ c.target = plan[1] /\ c.started = clock /\ Chained(c.spend)
      /\ Tls!Tells(c.spend, wire[c.target])
      /\ SumOf(seen, "wall") * TicksPerMs <= clock /\ clock \in Nat /\ Head(plan) = plan[1]
  BY <1>1, FreshIs
<1>. HIDE DEF c
<1>3. Tls!End(c, out, FALSE)
  BY <1>1, <1>2 DEF c
<1>4. Sound(Note(c, out, FALSE))
  BY DEF Sound, Note, Tls!ShapeValid
<1>5. out \in Verdicts /\ out \in Tls!Refusing /\ c.started <= clock
  BY <1>2 DEF Verdicts, Tls!Refusing
<1> QED BY <1>1, <1>2, <1>3, <1>4, <1>5, TargetEnds

\* A target begins: its name is resolved, or it needs no name.
LEMMA BeginStep ==
  ASSUME TlsInv, Tls!BeginTarget
  PROVE  TlsInv'
<1> DEFINE c == Tls!Fresh(plan[1])
           out == "acquisition_bound_refused"
<1>1. /\ stage = "acquiring" /\ plan # <<>> /\ ~Tls!Halted
      /\ UNCHANGED <<grant, clock, receipt, position, admitted, moves>>
  BY DEF Tls!BeginTarget
<1>2. /\ c \in Acquired /\ c.target = plan[1] /\ c.started = clock /\ Chained(c.spend)
      /\ c.deadline <= clock + PerTarget * TicksPerMs
      /\ c.validation = "not_attempted" /\ ~c.certificate
      /\ \A d \in Tls!OnWire : c.spend[d] = 0 /\ wire[plan[1]][d] = 0
      /\ Tls!Tells(c.spend, wire[plan[1]])
      /\ SumOf(seen, "wall") * TicksPerMs <= clock /\ clock \in Nat
      /\ Head(plan) = plan[1] /\ plan[1] \in Targets
  BY <1>1, FreshIs
<1>3. IF c.deadline < clock \/ c.target \notin Numeric
      THEN Tls!End(c, out, FALSE) /\ UNCHANGED wire
      ELSE /\ current' = Tls!Charged(c, "dns") /\ Tls!Sent(c.target, "dns")
           /\ stage' = "resolving" /\ UNCHANGED <<plan, seen>>
  BY <1>2 DEF Tls!BeginTarget
<1>. HIDE DEF c
<1>4. ~\E i \in DOMAIN seen : Refused(seen[i])
  BY <1>1, HaltedIs
<1>5. CASE c.deadline < clock \/ c.target \notin Numeric
  <2>1. Sound(Note(c, out, FALSE))
    BY DEF Sound, Note, Tls!ShapeValid
  <2>2. out \in Verdicts /\ out \in Tls!Refusing /\ c.started <= clock
    BY <1>2 DEF Verdicts, Tls!Refusing
  <2> QED BY <1>1, <1>2, <1>3, <1>5, <2>1, <2>2, TargetEnds
<1>6. CASE ~(c.deadline < clock \/ c.target \notin Numeric)
  <2>1. /\ current' = Tls!Charged(c, "dns") /\ Tls!Sent(plan[1], "dns")
        /\ stage' = "resolving" /\ UNCHANGED <<plan, seen>>
    BY <1>2, <1>3, <1>6
  <2>2. "dns" \in Tls!OnWire /\ c.spend["dns"] = 0
    BY <1>2 DEF Tls!OnWire
  <2>3. /\ current' \in Acquired /\ current'.spend["dns"] = 1
        /\ current'.spend["work"] = c.spend["work"] + 1
        /\ \A e \in Tls!Dimensions \ {"dns", "work"} : current'.spend[e] = c.spend[e]
        /\ current'.target = plan[1] /\ current'.started = clock
        /\ current'.deadline = c.deadline
        /\ current'.validation = "not_attempted" /\ ~current'.certificate
    BY <1>2, <2>1, <2>2, ChargedIs
  <2>4. /\ wire' \in [Targets -> [Tls!OnWire -> {0, 1}]]
        /\ \A x \in Targets : x # plan[1] => wire'[x] = wire[x]
        /\ wire'[plan[1]]["dns"] = 1
        /\ \A e \in Tls!OnWire : e # "dns" => wire'[plan[1]][e] = wire[plan[1]][e]
    BY <1>2, <2>1, <2>2, SentIs DEF TlsInv, TlsTypes
  <2>5. Tls!Tells(current'.spend, wire'[plan[1]])
    BY <1>2, <2>3, <2>4 DEF Tls!Tells, Tls!OnWire, Tls!Dimensions
  <2>6. Chained(current'.spend)
    <3>1. /\ c.spend["work"] = c.spend["dns"] + c.spend["connections"] + c.spend["handshakes"]
                                 + c.spend["checks"]
          /\ c.spend["dns"] = 0 /\ c.spend["connections"] = 0 /\ c.spend["handshakes"] = 0
          /\ c.spend["completed"] = 0 /\ c.spend["checks"] = 1
      BY <1>2 DEF Chained, Tls!CountedWork, Tls!OnWire
    <3> QED BY <2>3, <3>1 DEF Chained, Tls!CountedWork, Tls!Dimensions
  <2>7. Flying'
    <3>1. Begun(1, 0, 0)'
      BY <1>2, <2>3 DEF Begun, Tls!OnWire, Tls!Dimensions
    <3> QED BY <1>1, <1>2, <2>1, <2>3, <2>6, <3>1 DEF Flying
  <2>8. stage' \in InFlight
    BY <2>1 DEF InFlight
  <2> QED BY <1>1, <1>2, <1>4, <2>1, <2>3, <2>4, <2>5, <2>7, <2>8, FlightGoesOn
<1> QED BY <1>5, <1>6

\* The resolver answered, or did not.
LEMMA ResolvedStep ==
  ASSUME TlsInv, NEW ok \in BOOLEAN, Tls!Resolved(ok)
  PROVE  TlsInv'
<1> DEFINE c == current
<1>1. stage = "resolving" /\ UNCHANGED <<grant, clock, receipt, position, admitted, moves, wire>>
  BY DEF Tls!Resolved
<1>2. stage \in InFlight
  BY <1>1 DEF InFlight
<1>3. /\ c \in Acquired /\ plan # <<>> /\ c.target = plan[1] /\ plan[1] \in Targets
      /\ Tls!Tells(c.spend, wire[c.target])
      /\ wire \in [Targets -> [Tls!OnWire -> {0, 1}]]
      /\ SumOf(seen, "wall") * TicksPerMs <= c.started
      /\ ~\E i \in DOMAIN seen : Refused(seen[i])
      /\ clock \in Nat /\ c.started \in Nat /\ c.deadline \in Nat
  BY <1>2, FlyingIs
<1>4. /\ c.started <= clock /\ c.deadline <= c.started + PerTarget * TicksPerMs
      /\ Chained(c.spend) /\ Begun(1, 0, 0)
  BY <1>1, <1>2 DEF TlsInv, Flying
<1>. HIDE DEF c
<1>5. ASSUME NEW out \in {"resolution_failed", "acquisition_bound_refused"}, Tls!End(c, out, FALSE)
      PROVE  TlsInv'
  <2>1. Sound(Note(c, out, FALSE))
    <3>1. Tls!ShapeValid(Note(c, out, FALSE))
      <4>1. c.spend \in Tls!Spend
        BY <1>3 DEF Acquired
      <4> QED BY <1>4, <1>5, <4>1 DEF Note, Tls!ShapeValid, Begun, c, Tls!Spend, Tls!Dimensions
    <3> QED BY <3>1 DEF Sound
  <2>2. out \in Verdicts /\ out \in Tls!Refusing
    BY <1>5 DEF Verdicts, Tls!Refusing
  <2> QED BY <1>1, <1>2, <1>3, <1>4, <1>5, <2>1, <2>2, TargetEnds
<1>6. CASE ~ok
  BY <1>5, <1>6 DEF Tls!Resolved, c
<1>7. CASE ok /\ clock >= c.deadline
  BY <1>5, <1>7 DEF Tls!Resolved, c
<1>8. CASE ok /\ ~(clock >= c.deadline)
  <2> DEFINE io == c.deadline - Tls!Reserve(c.deadline - clock)
  <2>1. current' = [c EXCEPT !.io = io] /\ stage' = "resolved" /\ UNCHANGED <<plan, seen>>
    BY <1>8 DEF Tls!Resolved, c
  <2>2. io \in Int
    <3>1. c.deadline - clock \in Nat
      BY <1>3, <1>8
    <3>2. (c.deadline - clock) \div ReserveDivisor \in Int /\ ReserveCap * TicksPerMs \in Int
      BY <3>1, TlsConstants
    <3>3. Tls!Reserve(c.deadline - clock) \in Int
      BY <3>2 DEF Tls!Reserve
    <3> QED BY <1>3, <3>3
  <2>. HIDE DEF io
  <2>3. /\ current' \in Acquired /\ current'.spend = c.spend /\ current'.target = c.target
        /\ current'.started = c.started /\ current'.deadline = c.deadline
        /\ current'.validation = c.validation /\ current'.certificate = c.certificate
    BY <1>3, <2>1, <2>2 DEF Acquired
  <2>4. Flying'
    <3>1. Begun(1, 0, 0)'
      BY <1>4, <2>3 DEF Begun, c
    <3> QED BY <1>1, <1>4, <2>1, <2>3, <3>1 DEF Flying
  <2>5. stage' \in InFlight
    BY <2>1 DEF InFlight
  <2> QED BY <1>1, <1>2, <1>3, <2>1, <2>3, <2>4, <2>5, FlightGoesOn
<1> QED BY <1>6, <1>7, <1>8

\* The transport returns: nothing more was sent.
LEMMA ReturnStep ==
  ASSUME TlsInv, stage \in InFlight,
         NEW verdict \in Verdicts, NEW late \in BOOLEAN, Tls!Return(current, verdict, late),
         UNCHANGED <<plan, grant, clock, seen, receipt, position, admitted, moves, wire>>,
         late \/ Sound(Answer([current EXCEPT !.verdict = verdict]))
  PROVE  TlsInv'
<1> DEFINE c == current
<1>3. /\ c \in Acquired /\ plan # <<>> /\ c.target = plan[1] /\ plan[1] \in Targets
      /\ Tls!Tells(c.spend, wire[c.target])
      /\ wire \in [Targets -> [Tls!OnWire -> {0, 1}]]
      /\ SumOf(seen, "wall") * TicksPerMs <= c.started
      /\ ~\E i \in DOMAIN seen : Refused(seen[i])
  BY FlyingIs
<1>4. /\ c.started <= clock /\ c.deadline <= c.started + PerTarget * TicksPerMs
      /\ Chained(c.spend)
  BY DEF TlsInv, Flying
<1>5. /\ stage' = "reached"
      /\ current' \in Acquired
      /\ current'.verdict = verdict /\ current'.late = late
      /\ current'.spend = c.spend /\ current'.target = c.target
      /\ current'.started = c.started /\ current'.deadline = c.deadline
      /\ current'.validation = c.validation /\ current'.certificate = c.certificate
  BY <1>3, ReturnIs
<1>6. Answer(current') = Answer([c EXCEPT !.verdict = verdict])
  BY <1>3, <1>5 DEF Answer, Acquired
<1>7. Flying'
  BY <1>4, <1>5, <1>6 DEF Flying, c
<1>8. stage' \in InFlight
  BY <1>5 DEF InFlight
<1>. HIDE DEF c
<1> QED BY <1>3, <1>5, <1>7, <1>8, FlightGoesOn

\* One more attempt is charged; it is a connection, which is asked for at once, or
\* a handshake, which is not begun yet.
LEMMA AttemptStep ==
  ASSUME TlsInv, stage \in InFlight,
         NEW d \in {"connections", "handshakes"}, current.spend[d] = 0,
         current' = Tls!Charged(current, d),
         IF d = "connections"
         THEN Tls!Sent(current.target, d) /\ stage' = "connecting" /\ Begun(1, 1, 0)'
         ELSE wire' = wire /\ stage' = "opening" /\ Begun(1, 1, 1)',
         UNCHANGED <<plan, grant, clock, seen, receipt, position, admitted, moves>>,
         Chained(current'.spend)
  PROVE  TlsInv'
<1> DEFINE c == current
<1>3. /\ c \in Acquired /\ plan # <<>> /\ c.target = plan[1] /\ plan[1] \in Targets
      /\ Tls!Tells(c.spend, wire[c.target])
      /\ wire \in [Targets -> [Tls!OnWire -> {0, 1}]]
      /\ SumOf(seen, "wall") * TicksPerMs <= c.started
      /\ ~\E i \in DOMAIN seen : Refused(seen[i])
  BY FlyingIs
<1>4. c.started <= clock /\ c.deadline <= c.started + PerTarget * TicksPerMs
  BY DEF TlsInv, Flying
<1>5. d \in Tls!OnWire /\ d \in {"dns", "connections", "handshakes"}
  BY DEF Tls!OnWire
<1>6. /\ current' \in Acquired /\ current'.spend[d] = 1
      /\ \A e \in Tls!Dimensions \ {d, "work"} : current'.spend[e] = c.spend[e]
      /\ current'.target = c.target /\ current'.started = c.started
      /\ current'.deadline = c.deadline
  BY <1>3, <1>5, ChargedIs
<1>7. wire[plan[1]] \in [Tls!OnWire -> {0, 1}] /\ wire[plan[1]][d] = 0
  <2>1. wire[plan[1]] \in [Tls!OnWire -> {0, 1}]
    BY <1>3
  <2>2. wire[plan[1]][d] <= c.spend[d] /\ c.spend[d] = 0 /\ wire[plan[1]][d] \in {0, 1}
    BY <1>3, <1>5, <2>1 DEF Tls!Tells, Tls!OnWire
  <2> QED BY <2>1, <2>2
<1>8. /\ wire' \in [Targets -> [Tls!OnWire -> {0, 1}]]
      /\ \A x \in Targets : x # plan[1] => wire'[x] = wire[x]
      /\ d = "connections" => wire'[plan[1]][d] = 1
      /\ d = "handshakes" => wire'[plan[1]] = wire[plan[1]]
      /\ \A e \in Tls!OnWire : e # d => wire'[plan[1]][e] = wire[plan[1]][e]
  <2>1. CASE d = "connections"
    <3>1. Tls!Sent(plan[1], d)
      BY <1>3, <2>1
    <3> QED BY <1>3, <1>5, <1>7, <2>1, <3>1, SentIs
  <2>2. CASE d = "handshakes"
    BY <1>3, <2>2
  <2> QED BY <2>1, <2>2
<1>. HIDE DEF c
<1>9. Tls!Tells(current'.spend, wire'[plan[1]])
  <2>1. CASE d = "connections"
    BY <1>3, <1>6, <1>8, <2>1 DEF Tls!Tells, Tls!OnWire, Tls!Dimensions
  <2>2. CASE d = "handshakes"
    <3>1. current'.spend["completed"] = 0
      BY <2>2 DEF Begun
    <3> QED BY <1>3, <1>6, <1>7, <1>8, <2>2, <3>1 DEF Tls!Tells, Tls!OnWire, Tls!Dimensions
  <2> QED BY <2>1, <2>2
<1>10. Flying'
  BY <1>3, <1>4, <1>6, <1>7, <1>8 DEF Flying
<1>11. stage' \in InFlight
  BY DEF InFlight
<1> QED BY <1>3, <1>6, <1>8, <1>9, <1>10, <1>11, FlightGoesOn

\* The first write of a handshake.
LEMMA HelloStep ==
  ASSUME TlsInv, Tls!BeginHandshake
  PROVE  TlsInv'
<1>1. /\ stage = "opening" /\ stage' = "handshaking" /\ stage \in InFlight /\ stage' \in InFlight
      /\ Tls!Sent(current.target, "handshakes")
      /\ UNCHANGED <<plan, grant, clock, current, seen, receipt, position, admitted, moves>>
  BY DEF Tls!BeginHandshake, InFlight
<1>2. /\ current \in Acquired /\ plan # <<>> /\ current.target = plan[1] /\ plan[1] \in Targets
      /\ Tls!Tells(current.spend, wire[plan[1]])
      /\ wire \in [Targets -> [Tls!OnWire -> {0, 1}]]
      /\ SumOf(seen, "wall") * TicksPerMs <= current.started
      /\ ~\E i \in DOMAIN seen : Refused(seen[i])
  BY <1>1, FlyingIs
<1>3. /\ current.started <= clock
      /\ current.deadline <= current.started + PerTarget * TicksPerMs
      /\ Begun(1, 1, 1) /\ Chained(current.spend) /\ wire[plan[1]]["handshakes"] = 0
  BY <1>1, <1>2 DEF TlsInv, Flying
<1>4. /\ wire' \in [Targets -> [Tls!OnWire -> {0, 1}]]
      /\ \A x \in Targets : x # plan[1] => wire'[x] = wire[x]
      /\ wire'[plan[1]]["handshakes"] = 1
      /\ \A e \in Tls!OnWire : e # "handshakes" => wire'[plan[1]][e] = wire[plan[1]][e]
  BY <1>1, <1>2, <1>3, SentIs DEF Tls!OnWire
<1>5. Tls!Tells(current'.spend, wire'[plan[1]])
  BY <1>1, <1>2, <1>3, <1>4 DEF Tls!Tells, Tls!OnWire, Begun
<1>6. Flying'
  BY <1>1, <1>2, <1>3, <1>4 DEF Flying, Begun
<1>7. current' \in Acquired /\ current'.target = plan[1]
      /\ SumOf(seen, "wall") * TicksPerMs <= current'.started
  BY <1>1, <1>2
<1> QED BY <1>1, <1>2, <1>4, <1>5, <1>6, <1>7, FlightGoesOn

\* The connection is opened.
LEMMA ConnectStep ==
  ASSUME TlsInv, Tls!Connect
  PROVE  TlsInv'
<1>1. /\ stage = "resolved"
      /\ UNCHANGED <<plan, grant, clock, seen, receipt, position, admitted, moves>>
  BY DEF Tls!Connect
<1>2. stage \in InFlight
  BY <1>1 DEF InFlight
<1>3. CASE clock >= current.io
  <2>1. Tls!Return(current, "connection_failed", TRUE) /\ UNCHANGED wire
    BY <1>3 DEF Tls!Connect
  <2>2. "connection_failed" \in Verdicts
    BY DEF Verdicts
  <2> QED BY <1>1, <1>2, <2>1, <2>2, ReturnStep
<1>4. CASE ~(clock >= current.io)
  <2>1. /\ current' = Tls!Charged(current, "connections")
        /\ Tls!Sent(current.target, "connections") /\ stage' = "connecting"
    BY <1>4 DEF Tls!Connect
  <2>2. Chained(current.spend) /\ Begun(1, 0, 0) /\ current \in Acquired
    BY <1>1, <1>2 DEF TlsInv, Flying, TlsTypes
  <2>3. current.spend["connections"] = 0
    BY <2>2 DEF Begun
  <2>4. /\ current'.spend["connections"] = 1
        /\ current'.spend["work"] = current.spend["work"] + 1
        /\ \A e \in Tls!Dimensions \ {"connections", "work"} : current'.spend[e] = current.spend[e]
        /\ current'.validation = current.validation
        /\ current'.certificate = current.certificate
    BY <2>1, <2>2, <2>3, ChargedIs
  <2>5. Begun(1, 1, 0)'
    BY <2>2, <2>4 DEF Begun, Tls!Dimensions
  <2>6. Chained(current'.spend)
    BY <2>2, <2>4 DEF Begun, Chained, Tls!CountedWork, Tls!Dimensions
  <2> QED BY <1>1, <1>2, <2>1, <2>3, <2>5, <2>6, AttemptStep
<1> QED BY <1>3, <1>4

\* The connection is there, or failed.
LEMMA ConnectedStep ==
  ASSUME TlsInv, NEW ok \in BOOLEAN, Tls!Connected(ok)
  PROVE  TlsInv'
<1>1. /\ stage = "connecting"
      /\ UNCHANGED <<plan, grant, clock, seen, receipt, position, admitted, moves>>
  BY DEF Tls!Connected
<1>2. stage \in InFlight
  BY <1>1 DEF InFlight
<1>3. Chained(current.spend) /\ Begun(1, 1, 0) /\ current \in Acquired
  BY <1>1, <1>2 DEF TlsInv, Flying, TlsTypes
<1>4. CASE ok
  <2>1. /\ current' = Tls!Charged(current, "handshakes")
        /\ wire' = wire /\ stage' = "opening"
    BY <1>4 DEF Tls!Connected
  <2>3. current.spend["handshakes"] = 0
    BY <1>3 DEF Begun
  <2>4. /\ current'.spend["handshakes"] = 1
        /\ current'.spend["work"] = current.spend["work"] + 1
        /\ \A e \in Tls!Dimensions \ {"handshakes", "work"} : current'.spend[e] = current.spend[e]
        /\ current'.validation = current.validation
        /\ current'.certificate = current.certificate
    BY <1>3, <2>1, <2>3, ChargedIs
  <2>5. Begun(1, 1, 1)'
    BY <1>3, <2>4 DEF Begun, Tls!Dimensions
  <2>6. Chained(current'.spend)
    BY <1>3, <2>4 DEF Begun, Chained, Tls!CountedWork, Tls!Dimensions
  <2> QED BY <1>1, <1>2, <2>1, <2>3, <2>5, <2>6, AttemptStep
<1>5. CASE ~ok
  <2>1. Tls!Return(current, "connection_failed", clock >= current.io) /\ UNCHANGED wire
    BY <1>5 DEF Tls!Connected
  <2>2. "connection_failed" \in Verdicts /\ (clock >= current.io) \in BOOLEAN
    BY DEF Verdicts
  <2>3. Sound(Answer([current EXCEPT !.verdict = "connection_failed"]))
    BY <1>3 DEF Sound, Answer, Tls!ShapeValid, Acquired, Begun
  <2> QED BY <1>1, <1>2, <2>1, <2>2, <2>3, ReturnStep
<1> QED BY <1>4, <1>5

\* The handshake failed.
LEMMA FailedStep ==
  ASSUME TlsInv, Tls!HandshakeFailed
  PROVE  TlsInv'
<1>1. /\ stage \in {"opening", "handshaking"} /\ stage \in InFlight
      /\ UNCHANGED <<plan, grant, clock, seen, receipt, position, admitted, moves, wire>>
      /\ Tls!Return(current, "tls_handshake_failed", clock >= current.io)
  BY DEF Tls!HandshakeFailed, InFlight
<1>2. Begun(1, 1, 1) /\ current \in Acquired
  BY <1>1 DEF TlsInv, Flying, TlsTypes
<1>3. "tls_handshake_failed" \in Verdicts /\ (clock >= current.io) \in BOOLEAN
  BY DEF Verdicts
<1>4. Sound(Answer([current EXCEPT !.verdict = "tls_handshake_failed"]))
  BY <1>2 DEF Sound, Answer, Tls!ShapeValid, Acquired, Begun
<1> QED BY <1>1, <1>3, <1>4, ReturnStep

\* The handshake is done, and the certificate judged.
LEMMA DoneStep ==
  ASSUME TlsInv, NEW cert \in Tls!Certificate, Tls!HandshakeDone(cert)
  PROVE  TlsInv'
<1> DEFINE v == IF Tls!Validates(cert) THEN "valid" ELSE "invalid"
           c == [current EXCEPT !.spend["completed"] = 1, !.validation = v,
                                !.certificate = cert.parsed]
           verdict == Tls!Verdict(cert, current.target)
<1>1. /\ stage = "handshaking" /\ stage \in InFlight
      /\ UNCHANGED <<plan, grant, clock, seen, receipt, position, admitted, moves>>
      /\ Tls!Return(c, verdict, FALSE)
      /\ Tls!Sent(current.target, "completed")
  BY DEF Tls!HandshakeDone, InFlight
<1>2. /\ current \in Acquired /\ plan # <<>> /\ current.target = plan[1] /\ plan[1] \in Targets
      /\ Tls!Tells(current.spend, wire[current.target])
      /\ wire \in [Targets -> [Tls!OnWire -> {0, 1}]]
      /\ SumOf(seen, "wall") * TicksPerMs <= current.started
      /\ ~\E i \in DOMAIN seen : Refused(seen[i])
      /\ current.spend \in Tls!Spend
  BY <1>1, FlyingIs
<1>3. /\ current.started <= clock
      /\ current.deadline <= current.started + PerTarget * TicksPerMs
      /\ Begun(1, 1, 1) /\ Chained(current.spend) /\ wire[current.target]["handshakes"] = 1
  BY <1>1 DEF TlsInv, Flying
<1>4. cert.parsed \in BOOLEAN /\ v \in Validations /\ verdict \in Verdicts
  BY DEF Tls!Certificate, Validations, Verdicts, Tls!Verdict
<1>. HIDE DEF v, verdict
<1>5. /\ c \in Acquired /\ c.spend \in Tls!Spend /\ c.spend["completed"] = 1
      /\ \A e \in Tls!Dimensions \ {"completed"} : c.spend[e] = current.spend[e]
      /\ c.target = current.target /\ c.started = current.started
      /\ c.deadline = current.deadline /\ c.validation = v /\ c.certificate = cert.parsed
  <2> DEFINE sp == [current.spend EXCEPT !["completed"] = 1]
  <2>1. c = [current EXCEPT !.spend = sp, !.validation = v, !.certificate = cert.parsed]
    BY <1>2 DEF Acquired
  <2>2. /\ sp \in Tls!Spend /\ sp["completed"] = 1
        /\ \A e \in Tls!Dimensions \ {"completed"} : sp[e] = current.spend[e]
    BY <1>2 DEF Tls!Spend, Tls!Dimensions
  <2>. HIDE DEF sp, c
  <2> QED BY <1>2, <1>4, <2>1, <2>2 DEF Acquired
<1>. HIDE DEF c
<1>6. /\ stage' = "reached"
      /\ current' \in Acquired
      /\ current'.verdict = verdict
      /\ current'.spend = c.spend /\ current'.target = c.target
      /\ current'.started = c.started /\ current'.deadline = c.deadline
      /\ current'.validation = v /\ current'.certificate = cert.parsed
  BY <1>1, <1>4, <1>5, ReturnIs
<1>7. "completed" \in Tls!OnWire /\ wire[plan[1]]["completed"] = 0 /\ Tls!Sent(plan[1], "completed")
  BY <1>1, <1>2, <1>3 DEF Begun, Tls!OnWire, Tls!Tells
<1>8. /\ wire' \in [Targets -> [Tls!OnWire -> {0, 1}]]
      /\ \A x \in Targets : x # plan[1] => wire'[x] = wire[x]
      /\ wire'[plan[1]]["completed"] = 1
      /\ \A e \in Tls!OnWire : e # "completed" => wire'[plan[1]][e] = wire[plan[1]][e]
  BY <1>2, <1>7, SentIs
<1>9. Tls!Tells(current'.spend, wire'[plan[1]])
  BY <1>2, <1>3, <1>5, <1>6, <1>8 DEF Tls!Tells, Begun, Tls!OnWire, Tls!Dimensions
<1>10. Chained(current'.spend)
  BY <1>3, <1>5, <1>6 DEF Chained, Begun, Tls!CountedWork, Tls!Dimensions
<1>11. Sound(Answer(current'))
  <2> DEFINE x == Answer(current')
  <2>1. /\ x.target = plan[1] /\ x.outcome = verdict /\ x.validation = v
        /\ x.certificate = cert.parsed /\ x.addressed = TRUE /\ x.spend["completed"] = 1
    BY <1>2, <1>5, <1>6 DEF Answer
  <2>. HIDE DEF x
  <2>2. verdict = Tls!Verdict(cert, plan[1])
    BY <1>2 DEF verdict
  <2>3. cert.expired \in {"no", "this_second", "yes"}
    BY DEF Tls!Certificate
  <2>4. Sound(x)
    BY <2>1, <2>2, <2>3
    DEF Sound, Disputed, Tls!ShapeValid, Tls!Verdict, Tls!Validates, v
  <2> QED BY <2>4 DEF x
<1>12. Flying'
  BY <1>1, <1>3, <1>5, <1>6, <1>10, <1>11 DEF Flying
<1>13. stage' \in InFlight
  BY <1>6 DEF InFlight
<1>14. /\ current'.target = plan[1]
       /\ SumOf(seen, "wall") * TicksPerMs <= current'.started
  BY <1>2, <1>5, <1>6
<1> QED BY <1>1, <1>2, <1>6, <1>8, <1>9, <1>12, <1>13, <1>14, FlightGoesOn

\* The probe's receipt becomes an observation.
LEMMA MapStep ==
  ASSUME TlsInv, Tls!MapProbeReceipt
  PROVE  TlsInv'
<1> DEFINE c == current
           out == IF current.late \/ clock >= current.deadline
                  THEN "acquisition_bound_refused" ELSE current.verdict
<1>1. /\ stage = "reached" /\ stage \in InFlight /\ Tls!End(c, out, TRUE)
      /\ UNCHANGED <<grant, clock, receipt, position, admitted, moves, wire>>
  BY DEF Tls!MapProbeReceipt, InFlight
<1>2. /\ c \in Acquired /\ plan # <<>> /\ c.target = plan[1]
      /\ Tls!Tells(c.spend, wire[c.target])
      /\ SumOf(seen, "wall") * TicksPerMs <= c.started
      /\ ~\E i \in DOMAIN seen : Refused(seen[i])
      /\ clock \in Nat /\ c.started \in Nat /\ c.deadline \in Nat
      /\ c.spend \in Tls!Spend
  BY <1>1, FlyingIs
<1>3. /\ c.started <= clock /\ c.deadline <= c.started + PerTarget * TicksPerMs
      /\ Chained(c.spend) /\ (c.late \/ Sound(Answer(c)))
  BY <1>1 DEF TlsInv, Flying
<1>4. CASE c.late \/ clock >= c.deadline
  <2>1. out = "acquisition_bound_refused"
    BY <1>4
  <2>. HIDE DEF out
  <2>2. out \in Verdicts /\ out \in Tls!Refusing
    BY <2>1 DEF Verdicts, Tls!Refusing
  <2>3. Sound(Note(c, out, TRUE))
    BY <2>1 DEF Sound, Note, Tls!ShapeValid
  <2>. HIDE DEF c
  <2> QED BY <1>1, <1>2, <1>3, <2>2, <2>3, TargetEnds
<1>5. CASE ~(c.late \/ clock >= c.deadline)
  <2>1. out = c.verdict
    BY <1>5
  <2>. HIDE DEF out, c
  <2>2. out \in Verdicts
    BY <1>2, <2>1 DEF Acquired
  <2>3. clock < c.started + PerTarget * TicksPerMs
    <3>1. clock < c.deadline
      BY <1>2, <1>5
    <3> QED BY <1>2, <1>3, <3>1, TlsConstants
  <2>4. Sound(Note(c, out, TRUE))
    <3> DEFINE x == Answer(c)
               y == Note(c, out, TRUE)
    <3>1. Sound(x)
      BY <1>3, <1>5
    <3>2. /\ y.target = x.target /\ y.outcome = x.outcome /\ y.validation = x.validation
          /\ y.certificate = x.certificate /\ y.addressed = x.addressed
      BY <2>1 DEF Answer, Note
    <3>3. /\ y.spend["connections"] = x.spend["connections"]
          /\ y.spend["handshakes"] = x.spend["handshakes"]
          /\ y.spend["completed"] = x.spend["completed"]
      BY <1>2 DEF Answer, Note, Tls!Spend, Tls!Dimensions
    <3>. HIDE DEF x, y
    <3>4. Sound(y)
      BY <3>1, <3>2, <3>3 DEF Sound, Disputed, Tls!ShapeValid
    <3> QED BY <3>4 DEF y
  <2> QED BY <1>1, <1>2, <1>3, <2>2, <2>3, <2>4, TargetEnds
<1> QED BY <1>4, <1>5

\* What the executor adds up passes the verifier, but for the time and for
\* certificates in dispute.
LEMMA VerifiedUnlessLate ==
  ASSUME TlsInv, stage = "acquiring", plan = <<>>,
         Tls!Elapsed(0) <= Total,
         \A i \in DOMAIN seen : seen[i].spend["wall"] <= PerTarget /\ ~Disputed(seen[i])
  PROVE  Tls!Verified(Tls!Acquisition)
<1> DEFINE acq == Tls!Acquisition
           n == Len(seen)
<1>1. stage \in Admitted /\ stage \notin InFlight
  BY DEF Admitted, InFlight
<1>2. seen \in Seq(TlsObservation) /\ n \in Nat /\ clock \in Nat
  BY DEF TlsInv, TlsTypes
<1>3. /\ acq["wall"] = Tls!Elapsed(0) /\ acq["work"] = SumOf(seen, "work")
      /\ \A d \in Counters : acq[d] = SumOf(seen, d)
      /\ Tls!Summed("wall") = SumOf(seen, "wall")
  <2>1. \A d : Tls!Summed(d) = SumOf(seen, d)
    BY <1>2, SummedIs
  <2> QED BY <2>1 DEF Tls!Acquisition, Tls!Dimensions, Counters
<1>4. /\ \A d \in Counters : acq[d] \in 0..n
      /\ acq["checks"] = n
      /\ acq["work"] = Tls!CountedWork(acq)
  BY <1>3 DEF TlsInv, Counted, Counters, Tls!CountedWork
<1>5. n # 0 /\ n = Cardinality(admitted.scope) /\ IsFiniteSet(admitted.scope)
  <2>1. admitted.scope # {} /\ admitted.scope \subseteq Targets
    BY <1>1 DEF TlsInv, Covered, TlsTypes, Position
  <2>2. IsFiniteSet(admitted.scope)
    BY <2>1, TlsConstants, FS_Subset
  <2>3. Len(seen) + Len(plan) = Cardinality(admitted.scope) /\ Len(plan) = 0
    BY <1>1 DEF TlsInv, Planned
  <2>4. Cardinality(admitted.scope) # 0
    BY <2>1, <2>2, FS_EmptySet
  <2> QED BY <1>2, <2>2, <2>3, <2>4
<1>. HIDE DEF acq, n
<1>6. acq["work"] # 0 /\ acq["work"] \in Nat /\ acq["work"] <= 4 * n
  <2>1. /\ acq["dns"] \in 0..n /\ acq["connections"] \in 0..n /\ acq["handshakes"] \in 0..n
    BY <1>4 DEF Counters
  <2> QED BY <1>2, <1>4, <1>5, <2>1 DEF Tls!CountedWork
<1>7. Tls!AtMost(acq, Tls!Bounds(n))
  <2>1. \A d \in Counters : acq[d] <= Tls!Bounds(n)[d]
    BY <1>2, <1>4 DEF Tls!Bounds, Counters, Tls!Dimensions
  <2>2. acq["wall"] <= Tls!Bounds(n)["wall"]
    BY <1>3 DEF Tls!Bounds, Tls!Dimensions
  <2>3. acq["work"] <= Tls!Bounds(n)["work"]
    BY <1>6 DEF Tls!Bounds, Tls!Dimensions
  <2> QED BY <2>1, <2>2, <2>3 DEF Tls!AtMost, Tls!Dimensions, Counters
<1>8. ASSUME NEW i \in DOMAIN seen
      PROVE  Tls!ShapeValid(seen[i]) /\ Tls!SpendValid(seen[i].spend)
  <2>1. Accounted(seen[i]) /\ ~Disputed(seen[i]) /\ seen[i].spend["wall"] <= PerTarget
    BY DEF TlsInv, Observed
  <2> QED BY <2>1 DEF Accounted, Sound, Chained, Tls!SpendValid
<1>9. Tls!Summed("wall") <= acq["wall"]
  <2>1. SumOf(seen, "wall") \in Nat /\ SumOf(seen, "wall") * TicksPerMs <= clock
    BY <1>1 DEF TlsInv, Counted
  <2>2. clock - 0 = clock
    BY <1>2
  <2>3. SumOf(seen, "wall") <= clock \div TicksPerMs
    BY <1>2, <2>1, TlsConstants, Milliseconds
  <2> QED BY <1>3, <2>2, <2>3 DEF Tls!Elapsed
<1>10. Tls!AtMost(acq, grant.envelope)
  <2>1. /\ grant \in Grants
        /\ Tls!AtMost(Tls!Bounds(n), grant.envelope)
    BY <1>1, <1>5 DEF TlsInv, Covered
  <2>2. grant.envelope \in Tls!Spend
    BY <2>1, TlsConstants
  <2>3. Tls!Bounds(n) \in Tls!Spend
    BY <1>2, TlsConstants DEF Tls!Bounds, Tls!Spend
  <2>4. Tls!Elapsed(0) \in Nat
    BY <1>2, TlsConstants, Milliseconds DEF Tls!Elapsed
  <2>5. \A d \in Tls!Dimensions : acq[d] \in Nat
    BY <1>2, <1>3, <1>4, <1>6, <2>4 DEF Tls!Dimensions, Counters
  <2>6. ASSUME NEW d \in Tls!Dimensions PROVE acq[d] <= grant.envelope[d]
    <3>1. acq[d] <= Tls!Bounds(n)[d] /\ Tls!Bounds(n)[d] <= grant.envelope[d]
      BY <1>7, <2>1 DEF Tls!AtMost
    <3>2. acq[d] \in Nat /\ Tls!Bounds(n)[d] \in Nat /\ grant.envelope[d] \in Nat
      BY <2>2, <2>3, <2>5 DEF Tls!Spend
    <3> QED BY <3>1, <3>2
  <2> QED BY <2>6 DEF Tls!AtMost
<1> QED BY <1>4, <1>6, <1>7, <1>8, <1>9, <1>10 DEF Tls!Verified, acq, n

\* The receipt is sealed.
LEMMA SealStep ==
  ASSUME TlsInv, Tls!Seal
  PROVE  TlsInv'
<1>1. /\ stage = "acquiring" /\ plan = <<>>
      /\ UNCHANGED <<plan, grant, clock, current, seen, position, admitted, moves, wire>>
      /\ stage' \in {"sealed", "failed"}
      /\ stage' = "sealed" => receipt'.observations = seen
      /\ stage' = "failed" => ~Tls!Verified(Tls!Acquisition)
  BY DEF Tls!Seal
<1>2. /\ stage \in Admitted /\ stage' \in Admitted
      /\ stage \notin InFlight /\ stage' \notin InFlight
  BY <1>1 DEF Admitted, InFlight
<1>3. TlsTypes' /\ Planned' /\ Covered' /\ Flying'
  BY <1>1, <1>2 DEF TlsInv, TlsTypes, Planned, Covered, Flying
<1>4. Charges' /\ Observed' /\ HaltedLast'
  BY <1>1, <1>2
  DEF TlsInv, Charges, Observed, HaltedLast, Refused, Accounted, Sound, Disputed, Chained
<1>5. Counted'
  BY <1>1, <1>2 DEF TlsInv, Counted
<1>6. Tls!SealFailsOnlyLate'
  <2> SUFFICES ASSUME stage' = "failed",
                      ~(Tls!Elapsed(0) > Total),
                      ~\E i \in DOMAIN seen : seen[i].spend["wall"] > PerTarget \/ Disputed(seen[i])
               PROVE  FALSE
    BY <1>1 DEF Tls!SealFailsOnlyLate, Disputed, Tls!Elapsed
  <2>1. Tls!Elapsed(0) <= Total
    <3>1. clock \in Nat
      BY DEF TlsInv, TlsTypes
    <3>2. Tls!Elapsed(0) \in Nat
      BY <3>1, TlsConstants, Milliseconds DEF Tls!Elapsed
    <3> QED BY <3>2, TlsConstants
  <2>2. ASSUME NEW i \in DOMAIN seen PROVE seen[i].spend["wall"] <= PerTarget
    <3>1. seen[i] \in TlsObservation
      BY DEF TlsInv, TlsTypes
    <3>2. seen[i].spend["wall"] \in Nat
      BY <3>1 DEF TlsObservation, Tls!Spend, Tls!Dimensions
    <3> QED BY <3>2, TlsConstants
  <2> QED BY <1>1, <2>1, <2>2, VerifiedUnlessLate
<1>7. Closed'
  BY <1>1, <1>6 DEF TlsInv, Closed, Tls!RatchetRunsDown, Tls!Budget
<1> QED BY <1>3, <1>4, <1>5, <1>7 DEF TlsInv

\* Time passes.
LEMMA TickStep ==
  ASSUME TlsInv, Tls!Tick
  PROVE  TlsInv'
<1>1. /\ stage \in InFlight \cup {"acquiring"} /\ clock' = clock + 1
      /\ UNCHANGED <<stage, plan, grant, current, seen, receipt, position, admitted, moves, wire>>
  BY DEF Tls!Tick, InFlight
<1>2. clock \in Nat /\ clock' \in Nat
  BY <1>1 DEF TlsInv, TlsTypes
<1>3. TlsTypes' /\ Planned' /\ Covered'
  BY <1>1, <1>2 DEF TlsInv, TlsTypes, Planned, Covered
<1>4. Charges' /\ Observed' /\ HaltedLast'
  BY <1>1
  DEF TlsInv, Charges, Observed, HaltedLast, Refused, Accounted, Sound, Disputed, Chained
<1>5. Flying'
  <2>1. stage \in InFlight => current.started \in Nat
    BY DEF TlsInv, TlsTypes, Acquired
  <2>2. stage \in InFlight => current.started <= clock'
    BY <1>1, <1>2, <2>1 DEF TlsInv, Flying
  <2> QED BY <1>1, <2>2 DEF TlsInv, Flying, Begun, Chained, Sound, Answer, Disputed
<1>6. Counted'
  <2>1. SumOf(seen, "wall") \in Nat /\ SumOf(seen, "wall") * TicksPerMs \in Nat
    BY TlsConstants DEF TlsInv, Counted
  <2>2. stage \notin InFlight => SumOf(seen, "wall") * TicksPerMs <= clock'
    BY <1>1, <1>2, <2>1 DEF TlsInv, Counted
  <2> QED BY <1>1, <2>2 DEF TlsInv, Counted
<1>7. Closed'
  BY <1>1 DEF TlsInv, Closed, Tls!SealFailsOnlyLate, Tls!RatchetRunsDown, Tls!Budget, InFlight
<1> QED BY <1>3, <1>4, <1>5, <1>6, <1>7 DEF TlsInv

\* Every authorized transition uses something up.
LEMMA BudgetShrinks ==
  ASSUME NEW p \in Position, NEW q \in Position, NEW g, Tls!Authorized(g, p, q)
  PROVE  Tls!Budget(p) \in Nat /\ Tls!Budget(q) \in Nat /\ Tls!Budget(q) < Tls!Budget(p)
<1>1. /\ q.scope \subseteq p.scope /\ Tls!AtMost(q.remaining, p.remaining)
      /\ q.scope # p.scope \/ q.remaining # p.remaining
  BY DEF Tls!Authorized
<1>2. p.scope \subseteq Targets /\ p.remaining \in Tls!Spend /\ q.remaining \in Tls!Spend
  BY DEF Position
<1>3. /\ IsFiniteSet(p.scope) /\ IsFiniteSet(q.scope)
      /\ Cardinality(p.scope) \in Nat /\ Cardinality(q.scope) \in Nat
      /\ Cardinality(q.scope) <= Cardinality(p.scope)
      /\ (Cardinality(q.scope) = Cardinality(p.scope) => q.scope = p.scope)
  <2>1. IsFiniteSet(p.scope)
    BY <1>2, TlsConstants, FS_Subset
  <2> QED BY <1>1, <2>1, FS_Subset, FS_CardinalityType
<1>4. Tls!Cardinality(p.scope) = Cardinality(p.scope) /\ Tls!Cardinality(q.scope) = Cardinality(q.scope)
  BY SameCardinality
<1> DEFINE P(d) == p.remaining[d]
           Q(d) == q.remaining[d]
<1>5. \A d \in Tls!Dimensions : P(d) \in Nat /\ Q(d) \in Nat /\ Q(d) <= P(d)
  BY <1>1, <1>2 DEF Tls!Spend, Tls!AtMost
<1>6. q.remaining # p.remaining => \E d \in Tls!Dimensions : Q(d) # P(d)
  BY <1>2 DEF Tls!Spend
<1>. HIDE DEF P, Q
<1>7. /\ Tls!Budget(p) = Cardinality(p.scope) + P("dns") + P("connections") + P("handshakes")
                           + P("completed") + P("checks") + P("wall") + P("work")
      /\ Tls!Budget(q) = Cardinality(q.scope) + Q("dns") + Q("connections") + Q("handshakes")
                           + Q("completed") + Q("checks") + Q("wall") + Q("work")
  BY <1>4, Zenon DEF Tls!Budget, P, Q
<1>8. /\ P("dns") \in Nat /\ Q("dns") \in Nat /\ Q("dns") <= P("dns")
      /\ P("connections") \in Nat /\ Q("connections") \in Nat /\ Q("connections") <= P("connections")
      /\ P("handshakes") \in Nat /\ Q("handshakes") \in Nat /\ Q("handshakes") <= P("handshakes")
      /\ P("completed") \in Nat /\ Q("completed") \in Nat /\ Q("completed") <= P("completed")
      /\ P("checks") \in Nat /\ Q("checks") \in Nat /\ Q("checks") <= P("checks")
      /\ P("wall") \in Nat /\ Q("wall") \in Nat /\ Q("wall") <= P("wall")
      /\ P("work") \in Nat /\ Q("work") \in Nat /\ Q("work") <= P("work")
  BY <1>5 DEF Tls!Dimensions
<1>9. \/ Cardinality(q.scope) # Cardinality(p.scope)
      \/ Q("dns") # P("dns") \/ Q("connections") # P("connections")
      \/ Q("handshakes") # P("handshakes") \/ Q("completed") # P("completed")
      \/ Q("checks") # P("checks") \/ Q("wall") # P("wall") \/ Q("work") # P("work")
  BY <1>1, <1>3, <1>6 DEF Tls!Dimensions
<1> QED BY <1>3, <1>7, <1>8, <1>9

\* A grant is narrowed, or a widening refused.
LEMMA TransitionStep ==
  ASSUME TlsInv, NEW req \in Tls!Requests, Tls!Transition(req)
  PROVE  TlsInv'
<1>1. /\ stage = "sealed" /\ Tls!Authorized(grant, position, req) /\ position' = req
      /\ moves' = moves + 1
      /\ UNCHANGED <<stage, plan, grant, clock, current, seen, receipt, admitted, wire>>
  BY DEF Tls!Transition, Tls!invocation
<1>2. req \in Position
  BY TlsConstants DEF Tls!Requests, Position
<1>3. position \in Position /\ admitted \in Position /\ moves \in Nat
  BY DEF TlsInv, TlsTypes
<1>4. stage \in Admitted
  BY <1>1 DEF Admitted
<1>5. TlsTypes' /\ Planned' /\ Covered'
  BY <1>1, <1>2, <1>3, <1>4 DEF TlsInv, TlsTypes, Planned, Covered
<1>6. Charges' /\ Observed' /\ HaltedLast' /\ Flying' /\ Counted'
  BY <1>1
  DEF TlsInv, Charges, Observed, HaltedLast, Flying, Counted, Refused, Accounted, Sound, Disputed,
      Chained, Begun, Answer
<1>7. Tls!RatchetRunsDown'
  <2>1. /\ Tls!Budget(position) \in Nat /\ Tls!Budget(req) \in Nat
        /\ Tls!Budget(req) < Tls!Budget(position)
    BY <1>1, <1>2, <1>3, BudgetShrinks
  <2>2. Tls!Budget(admitted) \in Int
    <3>1. admitted.remaining \in Tls!Spend /\ admitted.scope \subseteq Targets
      BY <1>3 DEF Position
    <3>2. Tls!Cardinality(admitted.scope) \in Nat
      BY <3>1, TlsConstants, FS_Subset, FS_CardinalityType, SameCardinality
    <3> QED BY <3>1, <3>2 DEF Tls!Budget, Tls!Spend, Tls!Dimensions
  <2>3. moves + Tls!Budget(position) <= Tls!Budget(admitted)
    BY DEF TlsInv, Closed, Tls!RatchetRunsDown
  <2>4. moves + 1 + Tls!Budget(req) <= Tls!Budget(admitted)
    BY <1>3, <2>1, <2>2, <2>3
  <2> QED BY <1>1, <2>4 DEF Tls!RatchetRunsDown
<1>8. Closed'
  BY <1>1, <1>7 DEF TlsInv, Closed, Tls!SealFailsOnlyLate, Tls!Elapsed
<1> QED BY <1>5, <1>6, <1>8 DEF TlsInv

\* The invariant holds at first.
LEMMA TlsInit ==
  ASSUME Tls!Init
  PROVE  TlsInv
<1>1. /\ stage = "idle" /\ plan = <<>> /\ seen = <<>> /\ clock = 0 /\ moves = 0
      /\ position = [scope |-> {}, depth |-> 0, remaining |-> Tls!NoSpend] /\ admitted = position
      /\ wire = [t \in Targets |-> [d \in Tls!OnWire |-> 0]]
  BY DEF Tls!Init
<1>2. stage \notin InFlight /\ stage \notin Admitted
  BY <1>1 DEF InFlight, Admitted
<1>3. position \in Position
  BY <1>1 DEF Position, Tls!NoSpend, Tls!Spend
<1>4. TlsTypes
  BY <1>1, <1>2, <1>3 DEF TlsTypes
<1>5. Planned /\ Covered /\ Charges /\ Flying /\ Observed /\ HaltedLast
  BY <1>1, <1>2 DEF Planned, Covered, Charges, Flying, Observed, HaltedLast
<1>6. Counted
  <2>1. Len(seen) = 0 /\ \A d : SumOf(seen, d) = 0
    BY <1>1, SumOfNothing
  <2>2. 0 * TicksPerMs <= clock
    BY <1>1, TlsConstants
  <2> QED BY <1>2, <2>1, <2>2 DEF Counted
<1>7. Closed
  <2>1. Tls!Budget(position) \in Int
    <3>1. Tls!Cardinality(position.scope) \in Nat
      BY <1>1, FS_EmptySet, SameCardinality
    <3> QED BY <1>3, <3>1 DEF Tls!Budget, Tls!Spend, Tls!Dimensions, Position
  <2> QED BY <1>1, <2>1 DEF Closed, Tls!SealFailsOnlyLate, Tls!RatchetRunsDown
<1> QED BY <1>4, <1>5, <1>6, <1>7 DEF TlsInv

\* The invariant of an invocation: inductive over its steps.
LEMMA TlsStep ==
  ASSUME TlsInv, Tls!Next
  PROVE  TlsInv'
<1>1. CASE \E g \in Grants \cup {Tls!NoGrant, Tls!BadGrant}, ts \in (SUBSET Targets) \ {{}} :
             Tls!Invoke(g, ts)
  BY <1>1, InvocationStep
<1>2. CASE Tls!Execute
  BY <1>2, SkipStep, BeginStep, ResolvedStep, ConnectStep, ConnectedStep, HelloStep, FailedStep,
     DoneStep, MapStep, SealStep DEF Tls!Execute
<1>3. CASE \E req \in Tls!Requests : Tls!Transition(req)
  BY <1>3, TransitionStep
<1>4. CASE Tls!Tick
  BY <1>4, TickStep
<1> QED BY <1>1, <1>2, <1>3, <1>4 DEF Tls!Next

\* The invariant depends on the variables of the inquiry alone.
LEMMA TlsStutter ==
  ASSUME TlsInv, UNCHANGED tlsVars
  PROVE  TlsInv'
<1>1. TlsTypes' /\ Planned' /\ Covered' /\ Charges'
  BY DEF TlsInv, tlsVars, TlsTypes, Planned, Covered, Charges
<1>2. Observed' /\ HaltedLast' /\ Flying' /\ Counted'
  BY DEF TlsInv, tlsVars, Observed, HaltedLast, Flying, Counted, Refused, Accounted, Sound,
     Disputed, Chained, Begun, Answer
<1>3. Closed'
  BY DEF TlsInv, tlsVars, Closed, Tls!SealFailsOnlyLate, Tls!Elapsed, Tls!RatchetRunsDown, Tls!Budget
<1> QED BY <1>1, <1>2, <1>3 DEF TlsInv

\* What went over the wire is within the grant.
LEMMA WireOk ==
  ASSUME TlsInv
  PROVE  Tls!WireWithinGrant
<1> SUFFICES ASSUME NEW t \in Targets, NEW d \in Tls!OnWire, wire[t][d] # 0
             PROVE  /\ grant \in Grants
                    /\ t \in grant.scope
                    /\ "tls_cert_probe" \in grant.classes
                    /\ wire[t][d] = 1
                    /\ Tls!Cardinality({x \in Targets : wire[x][d] # 0}) <= grant.envelope[d]
  BY DEF Tls!WireWithinGrant
<1>1. stage \in Admitted
  BY DEF TlsInv, Covered
<1>2. /\ grant \in Grants /\ admitted.scope \subseteq grant.scope
      /\ "tls_cert_probe" \in grant.classes
      /\ Tls!AtMost(Tls!Bounds(Cardinality(admitted.scope)), grant.envelope)
  BY <1>1 DEF TlsInv, Covered
<1>3. ASSUME NEW x \in Targets, wire[x][d] # 0
      PROVE  x \in admitted.scope
  <2>1. \/ \E i \in DOMAIN seen : seen[i].target = x
        \/ stage \in InFlight /\ current.target = x
    BY <1>3 DEF TlsInv, Charges
  <2>2. CASE \E i \in DOMAIN seen : seen[i].target = x
    BY <2>2 DEF TlsInv, Planned
  <2>3. CASE stage \in InFlight /\ current.target = x
    <3>1. plan \in Seq(Targets) /\ plan # <<>> /\ x = plan[1]
      BY <2>3 DEF TlsInv, TlsTypes, Planned
    <3>2. 1 \in DOMAIN plan
      BY <3>1
    <3> QED BY <3>1, <3>2 DEF TlsInv, Planned
  <2> QED BY <2>1, <2>2, <2>3
<1> DEFINE X == {x \in Targets : wire[x][d] # 0}
           n == Cardinality(admitted.scope)
<1>4. X \subseteq admitted.scope /\ admitted.scope \subseteq Targets
  BY <1>3 DEF TlsInv, TlsTypes, Position
<1>5. IsFiniteSet(admitted.scope) /\ IsFiniteSet(X)
  BY <1>4, TlsConstants, FS_Subset
<1>. HIDE DEF X
<1>6. Cardinality(X) <= n /\ Cardinality(X) \in Nat /\ n \in Nat
  BY <1>4, <1>5, FS_Subset, FS_CardinalityType
<1>. HIDE DEF n
<1>7. d \in Tls!Dimensions /\ Tls!Bounds(n)[d] = n
  BY DEF Tls!OnWire, Tls!Dimensions, Tls!Bounds
<1>8. n <= grant.envelope[d] /\ grant.envelope[d] \in Nat
  <2>1. grant.envelope \in Tls!Spend
    BY <1>2, TlsConstants
  <2> QED BY <1>2, <1>7, <2>1 DEF Tls!AtMost, Tls!Spend, n
<1>9. Tls!Cardinality(X) <= grant.envelope[d]
  BY <1>6, <1>8, SameCardinality
<1>10. wire[t][d] = 1
  BY DEF TlsInv, TlsTypes
<1> QED BY <1>2, <1>3, <1>9, <1>10 DEF X

\* The receipt's sums are those of the wire.
LEMMA ReceiptOk ==
  ASSUME TlsInv
  PROVE  Tls!ReceiptTellsTheWire
<1> SUFFICES ASSUME stage = "sealed"
             PROVE  /\ \A i \in DOMAIN seen : Tls!Tells(seen[i].spend, wire[seen[i].target])
                    /\ \A t \in Targets :
                         t \notin {seen[i].target : i \in DOMAIN seen}
                         => wire[t] = [d \in Tls!OnWire |-> 0]
                    /\ \A i \in DOMAIN seen :
                         seen[i].outcome \notin Tls!Refusing => seen[i].spend["wall"] < PerTarget
  BY DEF Tls!ReceiptTellsTheWire, TlsInv, Closed
<1>1. stage \notin InFlight
  BY DEF InFlight
<1>2. ASSUME NEW t \in Targets, t \notin {seen[i].target : i \in DOMAIN seen}
      PROVE  wire[t] = [d \in Tls!OnWire |-> 0]
  <2>1. \A d \in Tls!OnWire : wire[t][d] = 0
    BY <1>1, <1>2 DEF TlsInv, Charges
  <2>2. wire[t] \in [Tls!OnWire -> {0, 1}]
    BY DEF TlsInv, TlsTypes
  <2> QED BY <2>1, <2>2
<1> QED BY <1>2 DEF TlsInv, Charges, Observed, Accounted

\* Once a bound could not be honoured only the rest of the plan is passed over.
LEMMA NothingAfterRefusal ==
  ASSUME TlsInv, Tls!Next
  PROVE  Tls!NoWorkAfterRefusedBound
<1> SUFFICES ASSUME \E i \in DOMAIN seen : Refused(seen[i])
             PROVE  wire' = wire
  BY DEF Tls!NoWorkAfterRefusedBound, Refused
<1>1. stage \notin InFlight /\ Tls!Halted
  BY HaltedIs DEF TlsInv, HaltedLast
<1>2. CASE Tls!Execute
  BY <1>1, <1>2
  DEF Tls!Execute, Tls!SkipTarget, Tls!BeginTarget, Tls!Resolved, Tls!Connect, Tls!Connected,
      Tls!BeginHandshake, Tls!HandshakeFailed, Tls!HandshakeDone, Tls!MapProbeReceipt, Tls!Seal, InFlight
<1> QED BY <1>2 DEF Tls!Next, Tls!Invoke, Tls!Transition, Tls!Tick, Tls!invocation

\* The invariant of TlsInquiry holds throughout.
LEMMA TlsTyped == InquiriesSpec => [](part = "tls" => TlsInv)
<1>1. InquiriesInit => (part = "tls" => TlsInv)
  BY TlsInit DEF InquiriesInit
<1>2. (part = "tls" => TlsInv) /\ [InquiriesNext]_inquiryVars => (part = "tls" => TlsInv)'
  <2> SUFFICES ASSUME part = "tls" => TlsInv, [InquiriesNext]_inquiryVars, part' = "tls"
               PROVE  TlsInv'
    OBVIOUS
  <2>1. part = "tls" /\ (Tls!Next \/ UNCHANGED tlsVars)
    BY DEF InquiriesNext, inquiryVars
  <2> QED BY <2>1, TlsStep, TlsStutter
<1> QED BY <1>1, <1>2, PTL DEF InquiriesSpec

\* No network work without a grant: what a TLS inquiry sends over the wire is
\* within the grant it was admitted under, for every set of targets, grant,
\* answer of the network and passing of time; narrowing only runs down, and
\* after a refused bound nothing is sent (execute_target,
\* authorize_same_grant_transition).
THEOREM NetworkWorkGranted == InquiriesSpec => WireWithinGrant
<1>1. (part = "tls" => TlsInv) => (part = "tls" => Tls!WireWithinGrant /\ Tls!RatchetRunsDown)
  BY WireOk DEF TlsInv, Closed
<1>2. (part = "tls" => TlsInv) /\ [InquiriesNext]_inquiryVars
        => [part = "tls" => Tls!NoWorkAfterRefusedBound]_tlsVars
  <2> SUFFICES ASSUME part = "tls" => TlsInv, InquiriesNext, part = "tls"
               PROVE  Tls!NoWorkAfterRefusedBound \/ UNCHANGED tlsVars
    BY DEF inquiryVars, tlsVars
  <2> QED BY NothingAfterRefusal DEF InquiriesNext
<1> QED BY <1>1, <1>2, TlsTyped, PTL DEF InquiriesSpec, WireWithinGrant

\* The receipt tells the wire: what a sealed receipt says was spent on each
\* target is what was done for it, but for a handshake that ended before its first
\* write, which is charged; a target it leaves out was not touched; no answer is
\* given past a deadline, and work goes without a receipt only after an overrun or
\* when two judges of one certificate disagree (seal, verify).
THEOREM ReceiptExact == InquiriesSpec => []ReceiptTellsTheWire
<1>1. (part = "tls" => TlsInv) => ReceiptTellsTheWire
  BY ReceiptOk DEF TlsInv, Closed, ReceiptTellsTheWire
<1> QED BY <1>1, TlsTyped, PTL

-----------------------------------------------------------------------------
(***************************************************************************)
(* The inductive invariant of ReportInquiry.                               *)
(***************************************************************************)
Newest == Len(generations)

\* A generation that is on its way is not sealed, and only a complete one has
\* no failed source.
CyclesOk ==
  /\ phase # "idle" => Newest # 0 /\ ~generations[Newest].sealed
  /\ Newest = 0 => DOMAIN rows = {}
  /\ \A g \in 1..Newest : generations[g].failed = 0 => generations[g].ok = Cardinality(Sources)
  /\ phase = "published" => ~passes[Newest].ran
  /\ \A g \in 1..Newest : passes[g].ran \/ passes[g].keys = {}

\* An evidence row was written by the pass of its generation.
EvidenceOk ==
  /\ \A i \in DOMAIN evidence :
       LET g == evidence[i].gen IN
       /\ g \in 1..Newest /\ passes[g].ran
       /\ evidence[i].key \in passes[g].keys /\ evidence[i].at = passes[g].at
  /\ \A i, j \in DOMAIN evidence : i < j => evidence[i].gen <= evidence[j].gen
  /\ Newest # 0 /\ passes[Newest].ran =>
       \A k \in passes[Newest].keys :
         \E i \in DOMAIN evidence : evidence[i].key = k /\ evidence[i].gen = Newest

\* The rows, as the newest pass left them but for retirements.
RowsOk ==
  \A k \in DOMAIN rows :
    /\ rows[k].basis = "live" => SourceOf[k] # None /\ SourceOf[k] \notin DOMAIN retired
    /\ passes[Newest].ran /\ HostOf(k) \in passes[Newest].hidden => rows[k].vis = "suppressed"
    /\ passes[Newest].ran /\ k \in passes[Newest].keys =>
         /\ HostOf(k) \notin passes[Newest].hidden => rows[k].vis = "observed"
         /\ rows[k].lastSeen = Newest /\ rows[k].absent = 0 /\ rows[k].streak >= 1
         /\ marks[k].seenAt = passes[Newest].at
         /\ rows[k].basis = "live" =>
              marks[k].basisGen = Newest /\ marks[k].basisAt = passes[Newest].at

ReportInv == TypeOK /\ CyclesOk /\ EvidenceOk /\ RowsOk

\* What is assumed of the constants of ReportInquiry.
LEMMA ReportConstants ==
  /\ IsFiniteSet(Keys) /\ IsFiniteSet(Sources)
  /\ None \notin Sources /\ SourceOf \in [Keys -> Sources \cup {None}]
  /\ TicksPerSecond \in Nat \ {0} /\ MaxSnapshotAge \in Nat /\ EvidenceLimit \in Nat \ {0}
  /\ MaxGen \in Nat /\ MaxTime \in Nat
<1>1. IsFiniteSet(Keys)
  BY ConstantsAssumption, FS_Product DEF Keys
<1> QED BY <1>1, ConstantsAssumption, InquiryAssumption

\* SetToSeq lists a finite set.
LEMMA Listed ==
  ASSUME NEW S, IsFiniteSet(S)
  PROVE  /\ SetToSeq(S) \in Seq(S)
         /\ \A x \in S : \E i \in DOMAIN SetToSeq(S) : SetToSeq(S)[i] = x
<1> DEFINE n == Cardinality(S)
           s == SetToSeq(S)
<1>1. n \in Nat /\ ExistsBijection(1..n, S)
  BY FS_CardinalityType
<1>2. IsFiniteSet(1..n) /\ Cardinality(1..n) = n
  BY <1>1, FS_Interval
<1>3. s = CHOOSE f \in [1..n -> S] : IsInjective(f)
  BY DEF SetToSeq
<1> HIDE DEF n, s
<1>4. \E f \in [1..n -> S] : IsInjective(f)
  BY <1>1 DEF ExistsBijection, Bijection, Injection, IsInjective
<1>5. s \in [1..n -> S] /\ IsInjective(s)
  BY <1>3, <1>4
<1>6. s \in Injection(1..n, S)
  BY <1>5 DEF Injection, IsInjective
<1>7. s \in Surjection(1..n, S)
  BY <1>2, <1>6, FS_Injection DEF n
<1>8. \A x \in S : \E i \in 1..n : s[i] = x
  BY <1>7 DEF Surjection
<1>9. s \in Seq(S) /\ DOMAIN s = 1..n
  BY <1>1, <1>5
<1> QED BY <1>8, <1>9 DEF s

\* Two sequences, one after the other.
LEMMA Joined ==
  ASSUME NEW S, NEW p \in Seq(S), NEW q \in Seq(S)
  PROVE  /\ p \o q \in Seq(S) /\ Len(p \o q) = Len(p) + Len(q)
         /\ \A i \in 1..Len(p) : (p \o q)[i] = p[i]
         /\ \A j \in 1..Len(q) : (p \o q)[Len(p) + j] = q[j]
OBVIOUS

\* The invariant holds at first.
LEMMA ReportInit ==
  ASSUME Init
  PROVE  ReportInv
<1>1. /\ now = 0 /\ generations = <<>> /\ evidence = <<>> /\ phase = "idle" /\ passes = <<>>
      /\ DOMAIN rows = {} /\ DOMAIN marks = {} /\ DOMAIN retired = {}
      /\ IsTable(rows) /\ marks \in [{} -> Mark] /\ retired \in [{} -> Time]
  BY DEF Init, IsTable
<1>2. now \in Time /\ 0 <= MaxGen
  BY <1>1, ReportConstants DEF Time
<1>3. TypeOK
  BY <1>1, <1>2 DEF TypeOK
<1>4. CyclesOk /\ EvidenceOk /\ RowsOk
  BY <1>1 DEF CyclesOk, EvidenceOk, RowsOk, Newest
<1> QED BY <1>3, <1>4 DEF ReportInv

\* A generation is published.
LEMMA PublishStep ==
  ASSUME ReportInv, NEW failed \in SUBSET Sources, Publish(failed)
  PROVE  ReportInv'
<1> DEFINE n == Len(generations)
           g == [completed |-> now, ok |-> Cardinality(Sources \ failed),
                 failed |-> Cardinality(failed), sealed |-> FALSE]
           p == [keys |-> {}, hidden |-> {}, at |-> 0, ran |-> FALSE]
<1>1. /\ phase = "idle" /\ n < MaxGen
      /\ generations' = Append(generations, g) /\ passes' = Append(passes, p)
      /\ phase' = "published" /\ UNCHANGED <<now, rows, marks, evidence, retired>>
  BY DEF Publish
<1>2. /\ generations \in Seq(Generation) /\ passes \in Seq(Pass) /\ n \in Nat /\ Len(passes) = n
      /\ now \in Time
  BY DEF ReportInv, TypeOK
<1>3. IsFiniteSet(failed) /\ IsFiniteSet(Sources \ failed)
  BY ReportConstants, FS_Subset
<1>4. /\ Cardinality(failed) \in Nat /\ Cardinality(Sources \ failed) \in Nat
      /\ Cardinality(failed) = 0 => Cardinality(Sources \ failed) = Cardinality(Sources)
  <2>1. Cardinality(failed) = 0 => failed = {}
    BY <1>3, FS_EmptySet
  <2>2. failed = {} => Sources \ failed = Sources
    OBVIOUS
  <2> QED BY <1>3, <2>1, <2>2, FS_CardinalityType
<1>5. g \in Generation /\ g.failed = Cardinality(failed) /\ g.ok = Cardinality(Sources \ failed)
      /\ g.sealed = FALSE
  BY <1>2, <1>4 DEF Generation
<1>6. p \in Pass /\ p.ran = FALSE /\ p.keys = {}
  BY ReportConstants DEF Pass, Time
<1>. HIDE DEF g, p, n
<1>7. /\ generations' \in Seq(Generation) /\ Len(generations') = n + 1
      /\ generations'[n + 1] = g /\ \A i \in 1..n : generations'[i] = generations[i]
  BY <1>1, <1>2, <1>5 DEF n
<1>8. /\ passes' \in Seq(Pass) /\ Len(passes') = n + 1
      /\ passes'[n + 1] = p /\ \A i \in 1..n : passes'[i] = passes[i]
  BY <1>1, <1>2, <1>6 DEF n
<1>9. Newest = n /\ Newest' = n + 1 /\ \A i \in 1..(n + 1) : i \in 1..n \/ i = n + 1
  BY <1>2, <1>7 DEF Newest, n
<1>10. TypeOK'
  <2>1. Len(generations') <= MaxGen
    BY <1>1, <1>2, <1>7, ReportConstants
  <2> QED BY <1>1, <1>7, <1>8, <2>1 DEF ReportInv, TypeOK
<1>11. CyclesOk'
  <2>1. n + 1 # 0 /\ 1..n \subseteq 1..(n + 1)
    BY <1>2
  <2>2. \A i \in 1..(n + 1) : generations'[i].failed = 0 => generations'[i].ok = Cardinality(Sources)
    BY <1>4, <1>5, <1>7, <1>9 DEF ReportInv, CyclesOk
  <2>3. \A i \in 1..(n + 1) : passes'[i].ran \/ passes'[i].keys = {}
    BY <1>6, <1>8, <1>9 DEF ReportInv, CyclesOk
  <2> QED BY <1>1, <1>5, <1>6, <1>7, <1>8, <1>9, <2>1, <2>2, <2>3 DEF CyclesOk
<1>12. EvidenceOk'
  <2>1. \A i \in 1..n : i \in 1..(n + 1)
    BY <1>2
  <2> QED BY <1>1, <1>6, <1>8, <1>9, <2>1 DEF ReportInv, EvidenceOk
<1>13. RowsOk'
  BY <1>1, <1>6, <1>8, <1>9 DEF ReportInv, RowsOk
<1> QED BY <1>10, <1>11, <1>12, <1>13 DEF ReportInv

\* Steps that leave the tables alone.
LEMMA QuietStep ==
  ASSUME ReportInv, UNCHANGED <<generations, rows, marks, evidence, retired, passes>>,
         now' \in Time, phase' = phase \/ phase' = "idle" \/ (phase = "published" /\ phase' = "updated")
  PROVE  ReportInv'
<1>1. TypeOK'
  BY DEF ReportInv, TypeOK
<1>2. CyclesOk'
  BY DEF ReportInv, CyclesOk, Newest
<1>3. EvidenceOk' /\ RowsOk'
  BY DEF ReportInv, EvidenceOk, RowsOk, Newest
<1> QED BY <1>1, <1>2, <1>3 DEF ReportInv

\* A generation is sealed.
LEMMA GenerationSealed ==
  ASSUME ReportInv, Seal
  PROVE  ReportInv'
<1> DEFINE n == Len(generations)
<1>1. /\ phase = "updated" /\ generations' = [generations EXCEPT ![n].sealed = TRUE]
      /\ phase' = "idle" /\ UNCHANGED <<now, rows, marks, evidence, retired, passes>>
  BY DEF Seal
<1>2. n \in 1..n /\ n \in Nat /\ generations \in Seq(Generation)
  BY <1>1 DEF ReportInv, TypeOK, CyclesOk, Newest
<1>3. /\ generations' \in Seq(Generation) /\ Len(generations') = n
      /\ \A i \in 1..n : generations'[i].failed = generations[i].failed
                         /\ generations'[i].ok = generations[i].ok
  <2>1. generations[n] \in Generation
    BY <1>2
  <2>2. [generations[n] EXCEPT !.sealed = TRUE] \in Generation
    BY <2>1 DEF Generation
  <2>3. generations' = [generations EXCEPT ![n] = [generations[n] EXCEPT !.sealed = TRUE]]
    BY <1>1
  <2>4. /\ [generations[n] EXCEPT !.sealed = TRUE].failed = generations[n].failed
        /\ [generations[n] EXCEPT !.sealed = TRUE].ok = generations[n].ok
    BY <2>1 DEF Generation
  <2> QED BY <1>2, <2>2, <2>3, <2>4
<1>4. Newest' = Newest /\ Newest = n
  BY <1>3 DEF Newest
<1>. HIDE DEF n
<1>5. TypeOK'
  BY <1>1, <1>3 DEF ReportInv, TypeOK, n
<1>6. CyclesOk'
  BY <1>1, <1>3, <1>4 DEF ReportInv, CyclesOk
<1>7. EvidenceOk' /\ RowsOk'
  BY <1>1, <1>4 DEF ReportInv, EvidenceOk, RowsOk
<1> QED BY <1>5, <1>6, <1>7 DEF ReportInv

\* What a pass is given.
LEMMA InputsTyped ==
  /\ \A emitted \in Firings : IsFiring(emitted)
  /\ \A active \in ActiveLists : active \in Seq(Declaration)
<1>1. ASSUME NEW emitted \in Firings PROVE IsFiring(emitted)
  <2>1. PICK S \in SUBSET Keys : emitted \in [S -> {[hash |-> None, incident |-> FALSE]}]
    BY DEF Firings
  <2>2. [hash |-> None, incident |-> FALSE] \in Emissions
    BY DEF Emissions
  <2> QED BY <2>1, <2>2 DEF IsFiring
<1>2. ASSUME NEW active \in ActiveLists PROVE active \in Seq(Declaration)
  <2>1. CASE active = <<>>
    BY <2>1
  <2>2. CASE active # <<>>
    <3>1. PICK d \in Declaration : active = <<d>>
      BY <2>2 DEF ActiveLists
    <3> QED BY <3>1
  <2> QED BY <2>1, <2>2
<1> QED BY <1>1, <1>2

\* The lifecycle pass of a generation that is on its way.
LEMMA UpdateStep ==
  ASSUME ReportInv, NEW emitted \in Firings, NEW active \in ActiveLists,
         UpdateWarningState(emitted, active)
  PROVE  ReportInv'
<1> DEFINE n == Len(generations)
           fresh == {[key |-> k, gen |-> n, at |-> now] : k \in DOMAIN emitted}
           added == SetToSeq(fresh)
           p == [keys |-> DOMAIN emitted, at |-> now, ran |-> TRUE,
                 hidden |-> {h \in Hosts : Withdrawing(active, h) # {}}]
<1>1. /\ phase = "published" /\ phase' = "updated" /\ UNCHANGED <<now, generations, retired>>
      /\ rows' = Lifecycle(rows, emitted, n, DOMAIN retired, now, Hosts, Hosts, active, {})
      /\ marks' = [k \in DOMAIN rows' |-> IF k \in DOMAIN emitted THEN MarkOf(k, n) ELSE marks[k]]
      /\ evidence' = evidence \o added /\ passes' = [passes EXCEPT ![n] = p]
  BY DEF UpdateWarningState
<1>2. /\ n \in Nat /\ n # 0 /\ now \in Time /\ IsTable(rows) /\ marks \in [DOMAIN rows -> Mark]
      /\ evidence \in Seq(Observation) /\ DOMAIN retired \subseteq Sources
      /\ retired \in [DOMAIN retired -> Time] /\ passes \in Seq(Pass) /\ Len(passes) = n
      /\ ~generations[n].sealed
  BY <1>1 DEF ReportInv, TypeOK, CyclesOk, Newest
<1>3. IsFiring(emitted) /\ active \in Seq(Declaration) /\ DOMAIN emitted \subseteq Keys
  BY InputsTyped DEF IsFiring
<1>4. Newest = n /\ Newest' = n
  BY <1>1 DEF Newest
<1>5. /\ added \in Seq(Observation)
      /\ \A i \in DOMAIN added : added[i] \in fresh
      /\ \A x \in fresh : \E i \in DOMAIN added : added[i] = x
  <2>1. IsFiniteSet(DOMAIN emitted)
    BY <1>3, ReportConstants, FS_Subset
  <2> DEFINE f == [k \in DOMAIN emitted |-> [key |-> k, gen |-> n, at |-> now]]
  <2>2. f \in Surjection(DOMAIN emitted, fresh)
    BY DEF Surjection
  <2>3. IsFiniteSet(fresh)
    BY <2>1, <2>2, FS_Surjection
  <2>4. fresh \subseteq Observation
    BY <1>2, <1>3 DEF Observation
  <2>. HIDE DEF fresh
  <2>5. added \in Seq(fresh) /\ \A x \in fresh : \E i \in DOMAIN added : added[i] = x
    BY <2>3, Listed
  <2>. HIDE DEF added
  <2>6. Len(added) \in Nat /\ added \in [1..Len(added) -> fresh]
    BY <2>5
  <2>7. added \in [1..Len(added) -> Observation]
    BY <2>4, <2>6
  <2> QED BY <2>5, <2>6, <2>7
<1> DEFINE m == Len(evidence)
<1>6. /\ evidence' \in Seq(Observation) /\ Len(evidence') = m + Len(added)
      /\ m \in Nat /\ Len(added) \in Nat /\ DOMAIN added = 1..Len(added) /\ DOMAIN evidence = 1..m
      /\ DOMAIN evidence' = 1..(m + Len(added))
      /\ \A i \in 1..m : evidence'[i] = evidence[i]
      /\ \A j \in 1..Len(added) : evidence'[m + j] = added[j]
  <2>. HIDE DEF added
  <2> QED BY <1>1, <1>2, <1>5, Joined
<1>7. \A x \in fresh : x.key \in DOMAIN emitted /\ x.gen = n /\ x.at = now
  OBVIOUS
<1>8. /\ p \in Pass /\ p.keys = DOMAIN emitted /\ p.at = now /\ p.ran = TRUE
      /\ p.hidden = {h \in Hosts : Withdrawing(active, h) # {}}
  BY <1>2, <1>3 DEF Pass
<1>9. /\ passes' \in Seq(Pass) /\ Len(passes') = n /\ passes'[n] = p
      /\ \A g \in 1..n : g # n => passes'[g] = passes[g]
  <2>. HIDE DEF p
  <2> QED BY <1>1, <1>2, <1>8
<1>10. \A i \in DOMAIN evidence' :
         \/ i \in DOMAIN evidence /\ evidence'[i] = evidence[i]
         \/ i - m \in 1..Len(added) /\ evidence'[i] = added[i - m] /\ i > m
  <2>. HIDE DEF added, m
  <2> SUFFICES ASSUME NEW i \in DOMAIN evidence', i \notin DOMAIN evidence
               PROVE  i - m \in 1..Len(added) /\ evidence'[i] = added[i - m] /\ i > m
    BY <1>6
  <2>1. i \in Nat /\ i > m /\ i - m \in 1..Len(added)
    BY <1>6
  <2>2. m + (i - m) = i
    BY <1>6, <2>1
  <2> QED BY <1>6, <2>1, <2>2
<1>. HIDE DEF n, fresh, added, p, m
<1>11. IsTable(rows') /\ DOMAIN rows' \subseteq DOMAIN rows \cup DOMAIN emitted
  BY <1>1, <1>2, <1>3, LifecycleFacts
<1>12. TypeOK'
  <2>1. ASSUME NEW k \in DOMAIN rows' PROVE marks'[k] \in Mark
    <3>1. CASE k \notin DOMAIN emitted
      BY <1>1, <1>2, <1>11, <3>1
    <3>2. CASE k \in DOMAIN emitted
      <4>1. k \in Keys /\ SourceOf[k] \in Sources \cup {None}
        BY <1>3, <3>2, ReportConstants
      <4>2. BasisOf(k, DOMAIN retired) = "retired" => retired[SourceOf[k]] \in Time
        BY <1>2, <4>1 DEF BasisOf
      <4>3. 0 \in Time
        BY ReportConstants DEF Time
      <4>4. BasisOf(k, DOMAIN retired) \in {"live", "unknown", "retired"}
        BY DEF BasisOf
      <4>5. MarkOf(k, n) \in Mark
        BY <1>2, <4>2, <4>3, <4>4 DEF MarkOf, Mark
      <4> QED BY <1>1, <3>2, <4>5
    <3> QED BY <3>1, <3>2
  <2>2. marks' \in [DOMAIN rows' -> Mark] /\ DOMAIN marks' = DOMAIN rows'
    BY <1>1, <2>1
  <2> QED BY <1>1, <1>2, <1>6, <1>9, <1>11, <2>2 DEF ReportInv, TypeOK, n
<1>13. CyclesOk'
  <2>1. n \in 1..n
    BY <1>2
  <2>2. \A g \in 1..n : passes'[g].ran \/ passes'[g].keys = {}
    BY <1>4, <1>8, <1>9 DEF ReportInv, CyclesOk
  <2> QED BY <1>1, <1>2, <1>4, <2>1, <2>2 DEF ReportInv, CyclesOk
<1>14. EvidenceOk'
  <2>0. n \in 1..n /\ ~passes[n].ran
    BY <1>1, <1>2, <1>4 DEF ReportInv, CyclesOk
  <2>1. ASSUME NEW i \in DOMAIN evidence'
        PROVE  /\ evidence'[i].gen \in 1..n /\ passes'[evidence'[i].gen].ran
               /\ evidence'[i].key \in passes'[evidence'[i].gen].keys
               /\ evidence'[i].at = passes'[evidence'[i].gen].at
    <3>1. CASE i \in DOMAIN evidence /\ evidence'[i] = evidence[i]
      <4>1. /\ evidence[i].gen \in 1..n /\ passes[evidence[i].gen].ran
            /\ evidence[i].key \in passes[evidence[i].gen].keys
            /\ evidence[i].at = passes[evidence[i].gen].at
        BY <1>4, <3>1 DEF ReportInv, EvidenceOk
      <4>2. evidence[i].gen # n
        BY <2>0, <4>1
      <4> QED BY <1>9, <3>1, <4>1, <4>2
    <3>2. CASE i - m \in 1..Len(added) /\ evidence'[i] = added[i - m]
      <4>1. evidence'[i].key \in DOMAIN emitted /\ evidence'[i].gen = n /\ evidence'[i].at = now
        BY <1>5, <1>6, <1>7, <3>2
      <4> QED BY <1>8, <1>9, <2>0, <4>1
    <3> QED BY <1>10, <3>1, <3>2
  <2>2. ASSUME NEW i \in DOMAIN evidence', NEW j \in DOMAIN evidence', i < j
        PROVE  evidence'[i].gen <= evidence'[j].gen
    <3>1. CASE j \in DOMAIN evidence /\ evidence'[j] = evidence[j]
      <4>1. i \in DOMAIN evidence /\ evidence'[i] = evidence[i]
        BY <1>6, <2>2, <3>1
      <4> QED BY <2>2, <3>1, <4>1 DEF ReportInv, EvidenceOk
    <3>2. CASE j - m \in 1..Len(added) /\ evidence'[j] = added[j - m]
      <4>1. evidence'[j].gen = n
        BY <1>5, <1>6, <1>7, <3>2
      <4>2. evidence'[i].gen \in 1..n
        BY <2>1
      <4> QED BY <1>2, <4>1, <4>2
    <3> QED BY <1>10, <3>1, <3>2
  <2>3. ASSUME NEW k \in DOMAIN emitted
        PROVE  \E i \in DOMAIN evidence' : evidence'[i].key = k /\ evidence'[i].gen = n
    <3> DEFINE x == [key |-> k, gen |-> n, at |-> now]
    <3>1. x \in fresh /\ x.key = k /\ x.gen = n
      BY DEF fresh, n
    <3>. HIDE DEF x
    <3>2. PICK j \in DOMAIN added : added[j] = x
      BY <1>5, <3>1
    <3>3. m + j \in DOMAIN evidence' /\ evidence'[m + j] = x
      BY <1>6, <3>2
    <3> QED BY <3>1, <3>3
  <2> QED BY <1>4, <1>8, <1>9, <2>1, <2>2, <2>3 DEF EvidenceOk
<1>15. RowsOk'
  <2> SUFFICES ASSUME NEW k \in DOMAIN rows'
               PROVE  /\ rows'[k].basis = "live" => SourceOf[k] # None /\ SourceOf[k] \notin DOMAIN retired
                      /\ HostOf(k) \in p.hidden => rows'[k].vis = "suppressed"
                      /\ k \in DOMAIN emitted =>
                           /\ HostOf(k) \notin p.hidden => rows'[k].vis = "observed"
                           /\ rows'[k].lastSeen = n /\ rows'[k].absent = 0 /\ rows'[k].streak >= 1
                           /\ marks'[k].seenAt = now
                           /\ rows'[k].basis = "live" =>
                                marks'[k].basisGen = n /\ marks'[k].basisAt = now
    BY <1>1, <1>4, <1>8, <1>9 DEF RowsOk
  <2> DEFINE u == Upserted(rows, emitted, n, DOMAIN retired)
  <2>1. k \in Keys /\ HostOf(k) \in Hosts
    BY <1>11 DEF IsTable, Keys, HostOf
  <2>2. k \in DOMAIN rows \cup DOMAIN emitted /\ SameWork(rows'[k], ExpireRow(u[k], now))
    BY <1>1, <1>2, <1>3, LifecycleWork
  <2>3. IsTable(u) /\ DOMAIN u = DOMAIN rows \cup DOMAIN emitted
    <3>1. IsTable(u)
      BY <1>2, <1>3, UpsertedTable
    <3> QED BY <3>1 DEF Upserted
  <2>4. rows'[k].basis = u[k].basis
    <3>1. ASSUME NEW r \in Row PROVE ExpireRow(r, now).basis = r.basis
      BY DEF ExpireRow, Row
    <3> QED BY <2>2, <2>3, <3>1, TableRow DEF SameWork
  <2>5. /\ Withdrawing(active, HostOf(k)) # {} => rows'[k].vis = "suppressed"
        /\ k \in DOMAIN emitted =>
             /\ Withdrawing(active, HostOf(k)) = {} => rows'[k].vis = "observed"
             /\ rows'[k].absent = 0
    <3> DEFINE x == rows'
    <3>1. x = Lifecycle(rows, emitted, n, DOMAIN retired, now, Hosts, Hosts, active, {})
      BY <1>1
    <3>. HIDE DEF x
    <3>2. k \in DOMAIN x
      BY DEF x
    <3>3. Shown(x, emitted, active, k)
      BY <1>2, <1>3, <3>1, <3>2, LifecycleShown
    <3> QED BY <3>3 DEF x, Shown
  <2>6. k \in DOMAIN emitted => rows'[k].lastSeen = n /\ rows'[k].streak = u[k].streak
    BY <1>1, <1>2, <1>3, LifecycleFacts
  <2>7. k \in DOMAIN emitted => u[k].streak >= 1 /\ u[k].basis = BasisOf(k, DOMAIN retired)
    <3> SUFFICES ASSUME k \in DOMAIN emitted
                 PROVE  u[k].streak >= 1 /\ u[k].basis = BasisOf(k, DOMAIN retired)
      OBVIOUS
    <3>1. u[k].streak \in Nat \ {0} /\ u[k].basis = BasisOf(k, DOMAIN retired)
      BY <1>2, <1>3, UpsertedShown
    <3>. HIDE DEF u
    <3> QED BY <3>1
  <2>8. k \notin DOMAIN emitted => k \in DOMAIN rows /\ u[k] = rows[k]
    BY <2>2 DEF Upserted
  <2>. HIDE DEF u
  <2>9. HostOf(k) \in p.hidden <=> Withdrawing(active, HostOf(k)) # {}
    BY <1>8, <2>1
  <2>10. rows'[k].basis = "live" => SourceOf[k] # None /\ SourceOf[k] \notin DOMAIN retired
    BY <2>4, <2>7, <2>8 DEF BasisOf, ReportInv, RowsOk
  <2>11. k \in DOMAIN emitted => marks'[k] = MarkOf(k, n)
    BY <1>1
  <2>12. MarkOf(k, n).seenAt = now
    BY DEF MarkOf
  <2>13. BasisOf(k, DOMAIN retired) = "live" =>
           MarkOf(k, n).basisGen = n /\ MarkOf(k, n).basisAt = now
    BY DEF MarkOf
  <2> QED BY <2>4, <2>5, <2>6, <2>7, <2>9, <2>10, <2>11, <2>12, <2>13
<1> QED BY <1>12, <1>13, <1>14, <1>15 DEF ReportInv

\* A retirement or its reversal: only rows it takes from, or keeps off, a live
\* basis change.
LEMMA RebaseStep ==
  ASSUME ReportInv, NEW ret, DOMAIN ret \subseteq Sources, ret \in [DOMAIN ret -> Time],
         NEW keys \in SUBSET DOMAIN rows, NEW basis \in {"retired", "unknown"},
         Rebase(keys, basis), retired' = ret,
         \A k \in DOMAIN rows \ keys :
           rows[k].basis = "live" => SourceOf[k] # None /\ SourceOf[k] \notin DOMAIN ret,
         UNCHANGED <<now, generations, evidence, phase, passes>>
  PROVE  ReportInv'
<1>1. IsTable(rows) /\ marks \in [DOMAIN rows -> Mark] /\ now \in Time
  BY DEF ReportInv, TypeOK
<1>2. ASSUME NEW k \in DOMAIN rows
      PROVE  /\ rows'[k] \in Row /\ marks'[k] \in Mark
             /\ rows'[k].vis = rows[k].vis /\ rows'[k].lastSeen = rows[k].lastSeen
             /\ rows'[k].absent = rows[k].absent /\ rows'[k].streak = rows[k].streak
             /\ marks'[k].seenAt = marks[k].seenAt
             /\ k \in keys => rows'[k].basis # "live"
             /\ k \notin keys => rows'[k] = rows[k] /\ marks'[k] = marks[k]
  <2>1. rows[k] \in Row /\ marks[k] \in Mark
    BY <1>1, TableRow
  <2>2. CASE k \in keys
    <3>1. /\ rows'[k] = [rows[k] EXCEPT !.basis = basis]
          /\ marks'[k] = [marks[k] EXCEPT !.basisAt = now]
      BY <2>2 DEF Rebase
    <3>2. basis \in {"live", "unknown", "retired"}
      OBVIOUS
    <3>3. rows'[k] \in Row /\ rows'[k].basis = basis
      BY <2>1, <3>1, <3>2 DEF Row
    <3>4. marks'[k] \in Mark /\ marks'[k].seenAt = marks[k].seenAt
      BY <1>1, <2>1, <3>1 DEF Mark
    <3>5. /\ rows'[k].vis = rows[k].vis /\ rows'[k].lastSeen = rows[k].lastSeen
          /\ rows'[k].absent = rows[k].absent /\ rows'[k].streak = rows[k].streak
      BY <2>1, <3>1 DEF Row
    <3> QED BY <2>2, <3>3, <3>4, <3>5
  <2>3. CASE k \notin keys
    BY <2>1, <2>3 DEF Rebase
  <2> QED BY <2>2, <2>3
<1>3. DOMAIN rows' = DOMAIN rows /\ DOMAIN marks' = DOMAIN rows
  BY DEF Rebase
<1>4. IsTable(rows')
  <2>1. rows' \in [DOMAIN rows -> Row]
    BY <1>2 DEF Rebase
  <2> QED BY <1>1, <1>3, <2>1 DEF IsTable
<1>5. marks' \in [DOMAIN rows -> Mark]
  BY <1>2 DEF Rebase
<1>6. TypeOK'
  BY <1>3, <1>4, <1>5 DEF ReportInv, TypeOK
<1>7. Newest' = Newest
  BY DEF Newest
<1>8. CyclesOk' /\ EvidenceOk'
  BY <1>3, <1>7 DEF ReportInv, CyclesOk, EvidenceOk
<1>9. RowsOk'
  BY <1>2, <1>3, <1>7 DEF ReportInv, RowsOk
<1> QED BY <1>6, <1>8, <1>9 DEF ReportInv

\* A source is retired, or its retirement withdrawn.
LEMMA RetireStep ==
  ASSUME ReportInv, NEW s \in Sources, RetireSource(s) \/ UnretireSource(s)
  PROVE  ReportInv'
<1>1. DOMAIN retired \subseteq Sources /\ retired \in [DOMAIN retired -> Time] /\ now \in Time
  BY DEF ReportInv, TypeOK
<1>2. CASE RetireSource(s)
  <2> DEFINE ret == [x \in DOMAIN retired \cup {s} |-> IF x = s THEN now ELSE retired[x]]
             keys == {k \in DOMAIN rows : SourceOf[k] = s /\ rows[k].basis # "retired"}
  <2>1. /\ retired' = ret /\ Rebase(keys, "retired")
        /\ UNCHANGED <<now, generations, evidence, phase, passes>>
    BY <1>2 DEF RetireSource
  <2>2. DOMAIN ret = DOMAIN retired \cup {s} /\ ret \in [DOMAIN ret -> Time]
    BY <1>1
  <2>3. \A k \in DOMAIN rows \ keys :
          rows[k].basis = "live" => SourceOf[k] # None /\ SourceOf[k] \notin DOMAIN ret
    BY <2>2 DEF ReportInv, RowsOk
  <2>4. keys \in SUBSET DOMAIN rows
    OBVIOUS
  <2> HIDE DEF ret, keys
  <2>5. DOMAIN ret \subseteq Sources
    BY <1>1, <2>2
  <2> QED BY <2>1, <2>2, <2>3, <2>4, <2>5, RebaseStep
<1>3. CASE UnretireSource(s)
  <2> DEFINE ret == [x \in DOMAIN retired \ {s} |-> retired[x]]
             keys == {k \in DOMAIN rows : SourceOf[k] = s /\ rows[k].basis = "retired"}
  <2>1. /\ retired' = ret /\ Rebase(keys, "unknown")
        /\ UNCHANGED <<now, generations, evidence, phase, passes>>
    BY <1>3 DEF UnretireSource
  <2>2. DOMAIN ret = DOMAIN retired \ {s} /\ ret \in [DOMAIN ret -> Time]
    BY <1>1
  <2>3. \A k \in DOMAIN rows \ keys :
          rows[k].basis = "live" => SourceOf[k] # None /\ SourceOf[k] \notin DOMAIN ret
    BY <2>2 DEF ReportInv, RowsOk
  <2>4. keys \in SUBSET DOMAIN rows
    OBVIOUS
  <2> HIDE DEF ret, keys
  <2>5. DOMAIN ret \subseteq Sources
    BY <1>1, <2>2
  <2> QED BY <2>1, <2>2, <2>3, <2>4, <2>5, RebaseStep
<1> QED BY <1>2, <1>3

\* Every step keeps the invariant.
LEMMA ReportStep ==
  ASSUME ReportInv, Next
  PROVE  ReportInv'
<1>1. CASE \E failed \in SUBSET Sources : Publish(failed)
  BY <1>1, PublishStep
<1>2. CASE \E emitted \in Firings, active \in ActiveLists : UpdateWarningState(emitted, active)
  BY <1>2, UpdateStep
<1>3. CASE Seal
  BY <1>3, GenerationSealed
<1>4. CASE \E s \in Sources : RetireSource(s) \/ UnretireSource(s)
  BY <1>4, RetireStep
<1>5. CASE LoseUpdate \/ Abandon
  <2>1. now' \in Time
    BY <1>5 DEF LoseUpdate, Abandon, ReportInv, TypeOK
  <2> QED BY <1>5, <2>1, QuietStep DEF LoseUpdate, Abandon
<1>6. CASE Tick \/ StepBack
  <2>1. now' \in Time
    BY <1>6, ReportConstants DEF Tick, StepBack, ReportInv, TypeOK, Time
  <2> QED BY <1>6, <2>1, QuietStep DEF Tick, StepBack
<1> QED BY <1>1, <1>2, <1>3, <1>4, <1>5, <1>6 DEF Next

\* The invariant depends on the variables of the inquiry alone.
LEMMA ReportStutter ==
  ASSUME ReportInv, UNCHANGED vars
  PROVE  ReportInv'
<1>1. now' \in Time
  BY DEF vars, ReportInv, TypeOK
<1> QED BY <1>1, QuietStep DEF vars

\* What the executor checks of the row and of its evidence.
Carried(k, t) ==
  LET tail == EvidenceTail(k) IN
  /\ marks[k].seenAt <= t /\ rows[k].vis = "observed"
  /\ BasisCurrent(k) /\ marks[k].basisAt <= t /\ FiringNow(k)
  /\ tail # {}
  /\ evidence[LatestOf(tail)].gen = Newest
  /\ evidence[LatestOf(tail)].at <= t
  /\ evidence[LatestOf(tail)].at = marks[k].seenAt
  /\ \A i \in tail : evidence[i].at <= t

\* The rows of an evidence tail, and the first of them.
LEMMA TailFacts ==
  ASSUME ReportInv, NEW k, NEW tail, tail = EvidenceTail(k)
  PROVE  /\ \A i \in tail : i \in DOMAIN evidence /\ evidence[i].key = k
                            /\ evidence[i].gen \in 1..Newest
         /\ tail # {} => /\ LatestOf(tail) \in tail
                         /\ \A j \in tail : ~Newer(j, LatestOf(tail))
         /\ \A i \in DOMAIN evidence :
              evidence[i].key = k => \E j \in tail : evidence[j].gen >= evidence[i].gen
<1> DEFINE own == {i \in DOMAIN evidence : evidence[i].key = k /\ evidence[i].gen <= Snapshot}
<1>1. tail = {i \in own : Cardinality({j \in own : Newer(j, i)}) < EvidenceLimit}
  BY DEF EvidenceTail
<1>2. Snapshot = Newest /\ Newest \in Nat
  BY DEF Snapshot, Newest, ReportInv, TypeOK
<1>3. \A i \in DOMAIN evidence : evidence[i].gen \in 1..Newest
  BY DEF ReportInv, EvidenceOk
<1>4. \A i \in tail : i \in DOMAIN evidence /\ evidence[i].key = k /\ evidence[i].gen \in 1..Newest
  BY <1>1, <1>3
<1>5. Len(evidence) \in Nat /\ DOMAIN evidence = 1..Len(evidence)
  BY DEF ReportInv, TypeOK
<1>6. \A i, j \in DOMAIN evidence : i <= j => evidence[i].gen <= evidence[j].gen
  <2> SUFFICES ASSUME NEW i \in DOMAIN evidence, NEW j \in DOMAIN evidence, i <= j
               PROVE  evidence[i].gen <= evidence[j].gen
    OBVIOUS
  <2>1. CASE i = j
    BY <1>2, <1>3, <2>1
  <2>2. CASE i # j
    <3>1. i < j
      BY <1>5, <2>2
    <3> QED BY <3>1 DEF ReportInv, EvidenceOk
  <2> QED BY <2>1, <2>2
<1>7. ASSUME NEW i \in DOMAIN evidence, NEW j \in DOMAIN evidence, i <= j
      PROVE  ~Newer(i, j)
  <2>1. evidence[i].gen <= evidence[j].gen
    BY <1>6, <1>7
  <2>2. evidence[i].gen \in Nat /\ evidence[j].gen \in Nat /\ i \in Nat /\ j \in Nat
    BY <1>2, <1>3, <1>5
  <2> QED BY <1>7, <2>1, <2>2 DEF Newer
<1>8. ASSUME tail # {}
      PROVE  LatestOf(tail) \in tail /\ \A j \in tail : ~Newer(j, LatestOf(tail))
  <2>1. tail \in SUBSET (1..Len(evidence))
    BY <1>4, <1>5
  <2>2. \E i \in tail : \A j \in tail : j <= i
    BY <1>5, <1>8, <2>1, LastPosition
  <2>3. \E i \in tail : \A j \in tail : ~Newer(j, i)
    BY <1>4, <1>7, <2>2
  <2> QED BY <2>3 DEF LatestOf
<1>9. ASSUME NEW i \in DOMAIN evidence, evidence[i].key = k
      PROVE  \E j \in tail : evidence[j].gen >= evidence[i].gen
  <2>1. i \in own
    BY <1>2, <1>3, <1>9
  <2>2. own \in SUBSET (1..Len(evidence))
    BY <1>5
  <2> HIDE DEF own
  <2>3. PICK j \in own : \A x \in own : x <= j
    BY <1>5, <2>1, <2>2, LastPosition
  <2>4. {x \in own : Newer(x, j)} = {}
    BY <1>5, <1>7, <2>2, <2>3
  <2>5. Cardinality({x \in own : Newer(x, j)}) = 0
    BY <2>4, FS_EmptySet
  <2>6. Cardinality({x \in own : Newer(x, j)}) < EvidenceLimit
    BY <2>5, ReportConstants
  <2>7. j \in tail
    BY <1>1, <2>6
  <2>8. i <= j /\ j \in DOMAIN evidence
    BY <1>5, <2>1, <2>2, <2>3
  <2>9. evidence[i].gen <= evidence[j].gen /\ evidence[i].gen \in Nat /\ evidence[j].gen \in Nat
    BY <1>2, <1>3, <1>6, <2>8
  <2> QED BY <2>7, <2>9
<1> QED BY <1>4, <1>8, <1>9

\* A generation that is sealed and complete, at an instant within the horizon.
LEMMA SnapshotCarries ==
  ASSUME ReportInv, Newest # 0, NEW t \in Time, NEW g, g = generations[Newest]
  PROVE  /\ SnapshotRefusal(g, t) = None =>
              /\ g.sealed /\ g.failed = 0 /\ g.completed <= t
              /\ t < g.completed + (MaxSnapshotAge + 1) * TicksPerSecond
         /\ g.sealed /\ g.failed = 0 /\ g.completed <= t
            /\ t <= g.completed + MaxSnapshotAge * TicksPerSecond
              => SnapshotRefusal(g, t) = None
         /\ SnapshotRefusal(g, t) # "operationally_active"
<1>1. Newest \in 1..Newest /\ g \in Generation
  BY DEF ReportInv, TypeOK, Newest
<1>2. g.completed \in Nat /\ t \in Nat /\ g.completed <= MaxTime
  BY <1>1, ReportConstants DEF Generation, Time
<1>3. g.failed = 0 => g.ok = Cardinality(Sources)
  BY <1>1 DEF ReportInv, CyclesOk
<1>4. ASSUME g.completed <= t
      PROVE  /\ ~TooOld(g.completed, t) => t < g.completed + (MaxSnapshotAge + 1) * TicksPerSecond
             /\ t <= g.completed + MaxSnapshotAge * TicksPerSecond => ~TooOld(g.completed, t)
  <2> DEFINE c == g.completed
  <2>0. c \in Nat /\ c <= t
    BY <1>2, <1>4
  <2> HIDE DEF c
  <2> DEFINE x == t - c
             q == x \div TicksPerSecond
  <2>1. x \in Nat /\ t = c + x
    BY <1>2, <2>0
  <2>2. /\ TicksPerSecond \in Nat \ {0} /\ MaxSnapshotAge \in Nat
    BY ReportConstants
  <2> HIDE DEF x
  <2>3. /\ q \in Nat
        /\ (MaxSnapshotAge + 1) * TicksPerSecond <= x => MaxSnapshotAge + 1 <= q
        /\ x < (MaxSnapshotAge + 1) * TicksPerSecond => q < MaxSnapshotAge + 1
    BY <2>1, <2>2, Milliseconds
  <2> HIDE DEF q
  <2> DEFINE far == (MaxSnapshotAge + 1) * TicksPerSecond
             near == MaxSnapshotAge * TicksPerSecond
  <2>4. far \in Nat /\ near \in Nat /\ near < far
    BY <2>2
  <2>5. /\ far <= x => MaxSnapshotAge + 1 <= q
        /\ x < far => q < MaxSnapshotAge + 1
    BY <2>3
  <2> HIDE DEF far, near
  <2>6. /\ q <= MaxSnapshotAge => t < c + far
        /\ t <= c + near => q <= MaxSnapshotAge
    BY <2>0, <2>1, <2>2, <2>3, <2>4, <2>5
  <2>7. TooOld(c, t) <=> q > MaxSnapshotAge
    BY DEF TooOld, x, q
  <2>8. /\ ~TooOld(c, t) => t < c + far
        /\ t <= c + near => ~TooOld(c, t)
    BY <2>2, <2>3, <2>6, <2>7
  <2> QED BY <2>8 DEF c, far, near
<1>5. SnapshotRefusal(g, t) = None <=>
        /\ g.sealed /\ g.failed = 0 /\ g.ok = Cardinality(Sources)
        /\ ~(g.completed > t) /\ ~TooOld(g.completed, t)
  BY DEF SnapshotRefusal, None
<1>6. ~(g.completed > t) <=> g.completed <= t
  BY <1>2
<1>7. SnapshotRefusal(g, t) # "operationally_active"
  BY DEF SnapshotRefusal, None
<1> QED BY <1>3, <1>4, <1>5, <1>6, <1>7

\* An answer, as the conjunction of everything it rests on.
LEMMA AnswerIs ==
  ASSUME ReportInv, Newest # 0, NEW k \in DOMAIN rows, NEW t \in Time
  PROVE  Active(k, t) <=> SnapshotRefusal(generations[Newest], t) = None /\ Carried(k, t)
<1>1. Snapshot = Newest /\ Newest # 0
  BY DEF Snapshot, Newest
<1>2. marks[k].seenAt \in Nat /\ marks[k].basisAt \in Nat /\ t \in Nat
  BY ReportConstants DEF ReportInv, TypeOK, Mark, Time
<1>3. \A i \in DOMAIN evidence : evidence[i].at \in Nat
  <2>1. evidence \in Seq(Observation)
    BY DEF ReportInv, TypeOK
  <2>2. \A i \in DOMAIN evidence : evidence[i] \in Observation
    BY <2>1
  <2> QED BY <2>2, ReportConstants DEF Observation, Time
<1>4. SnapshotRefusal(generations[Newest], t) # "operationally_active"
  BY SnapshotCarries
<1> DEFINE tail == EvidenceTail(k)
           last == LatestOf(tail)
<1>5. /\ \A i \in tail : evidence[i].at \in Nat
      /\ tail # {} => evidence[last].at \in Nat
  BY <1>3, TailFacts
<1>6. Active(k, t) <=> /\ SnapshotRefusal(generations[Newest], t) = None
                       /\ RowVerdict(k, tail, t) = "operationally_active"
  BY <1>1, <1>4 DEF Active, Disposition
<1> HIDE DEF tail
<1>7. RowVerdict(k, tail, t) = "operationally_active" <=>
        /\ ~(marks[k].seenAt > t) /\ rows[k].vis = "observed" /\ BasisCurrent(k)
        /\ ~(marks[k].basisAt > t) /\ FiringNow(k) /\ tail # {} /\ evidence[last].gen = Newest
        /\ ~(evidence[last].at > t) /\ evidence[last].at = marks[k].seenAt
        /\ ~(\E i \in tail : evidence[i].at > t)
  BY <1>1 DEF RowVerdict
<1> HIDE DEF last
<1>8. RowVerdict(k, tail, t) = "operationally_active" <=>
        /\ marks[k].seenAt <= t /\ rows[k].vis = "observed" /\ BasisCurrent(k)
        /\ marks[k].basisAt <= t /\ FiringNow(k) /\ tail # {} /\ evidence[last].gen = Newest
        /\ evidence[last].at <= t /\ evidence[last].at = marks[k].seenAt
        /\ \A i \in tail : evidence[i].at <= t
  BY <1>2, <1>5, <1>7
<1> QED BY <1>6, <1>8 DEF Carried, tail, last

\* An answer that a finding is active rests on the newest sealed generation.
LEMMA AnswerIsCurrent ==
  ASSUME ReportInv
  PROVE  ActiveIsCurrent
<1> SUFFICES ASSUME NEW k \in Keys, NEW t \in Time, Active(k, t)
             PROVE  LET g == generations[Newest]
                        p == passes[Newest]
                    IN  /\ g.sealed /\ g.failed = 0
                        /\ p.ran /\ k \in p.keys /\ HostOf(k) \notin p.hidden
                        /\ SourceOf[k] \notin DOMAIN retired
                        /\ g.completed <= t /\ p.at <= t
                        /\ t < g.completed + (MaxSnapshotAge + 1) * TicksPerSecond
  BY DEF ActiveIsCurrent, Newest
<1>1. Newest # 0
  BY DEF Active, Disposition, Snapshot, Newest
<1>2. k \in DOMAIN rows
  <2>1. SnapshotRefusal(generations[Newest], t) # "operationally_active"
    BY <1>1, SnapshotCarries
  <2> QED BY <1>1, <2>1 DEF Active, Disposition, Snapshot, Newest
<1>3. SnapshotRefusal(generations[Newest], t) = None /\ Carried(k, t)
  BY <1>1, <1>2, AnswerIs
<1> DEFINE last == LatestOf(EvidenceTail(k))
<1>4. last \in DOMAIN evidence /\ evidence[last].key = k
  BY <1>3, TailFacts DEF Carried
<1>5. evidence[last].gen = Newest /\ evidence[last].at <= t
  BY <1>3 DEF Carried
<1> HIDE DEF last
<1>6. passes[Newest].ran /\ k \in passes[Newest].keys /\ passes[Newest].at <= t
  BY <1>4, <1>5 DEF ReportInv, EvidenceOk
<1>7. rows[k].vis = "observed" /\ rows[k].basis = "live"
  BY <1>3 DEF Carried, BasisCurrent
<1>8. HostOf(k) \notin passes[Newest].hidden /\ SourceOf[k] \notin DOMAIN retired
  BY <1>2, <1>6, <1>7 DEF ReportInv, RowsOk
<1> QED BY <1>1, <1>3, <1>6, <1>8, SnapshotCarries

\* Where the evidence suffices there is an answer.
LEMMA AnswersGiven ==
  ASSUME ReportInv
  PROVE  AnswersWhenItCan
<1> SUFFICES ASSUME NEW k \in DOMAIN rows, NEW t \in Time,
                    generations[Newest].sealed, generations[Newest].failed = 0,
                    passes[Newest].ran, k \in passes[Newest].keys,
                    HostOf(k) \notin passes[Newest].hidden, rows[k].basis = "live",
                    generations[Newest].completed <= t,
                    t <= generations[Newest].completed + MaxSnapshotAge * TicksPerSecond,
                    \A i \in DOMAIN passes : k \in passes[i].keys => passes[i].at <= t
             PROVE  Active(k, t)
  BY DEF AnswersWhenItCan, Newest
<1>1. Newest # 0 /\ Newest \in Nat /\ DOMAIN passes = 1..Newest
  BY DEF ReportInv, CyclesOk, TypeOK, Newest
<1>2. SnapshotRefusal(generations[Newest], t) = None
  BY <1>1, SnapshotCarries
<1>3. passes[Newest].at <= t
  BY <1>1
<1>4. /\ rows[k].vis = "observed" /\ rows[k].lastSeen = Newest /\ rows[k].absent = 0
      /\ rows[k].streak >= 1 /\ marks[k].seenAt = passes[Newest].at
      /\ marks[k].basisGen = Newest /\ marks[k].basisAt = passes[Newest].at
      /\ SourceOf[k] # None
  BY DEF ReportInv, RowsOk
<1> DEFINE tail == EvidenceTail(k)
           last == LatestOf(tail)
<1>5. /\ \A i \in tail : i \in DOMAIN evidence /\ evidence[i].key = k /\ evidence[i].gen \in 1..Newest
      /\ tail # {} => last \in tail /\ \A j \in tail : ~Newer(j, last)
      /\ \A i \in DOMAIN evidence :
           evidence[i].key = k => \E j \in tail : evidence[j].gen >= evidence[i].gen
  BY TailFacts
<1>6. PICK i \in DOMAIN evidence : evidence[i].key = k /\ evidence[i].gen = Newest
  BY <1>1 DEF ReportInv, EvidenceOk
<1> HIDE DEF tail
<1>7. PICK j \in tail : evidence[j].gen >= Newest
  BY <1>5, <1>6
<1> HIDE DEF last
<1>8. last \in tail /\ ~Newer(j, last)
  BY <1>5, <1>7
<1>9. evidence[last].gen = Newest
  <2>1. evidence[j].gen = Newest /\ evidence[last].gen \in 1..Newest
    BY <1>1, <1>5, <1>7, <1>8
  <2>2. ~(evidence[j].gen > evidence[last].gen)
    BY <1>8 DEF Newer
  <2> QED BY <1>1, <2>1, <2>2
<1>10. \A x \in tail : evidence[x].at = passes[evidence[x].gen].at
                       /\ k \in passes[evidence[x].gen].keys
  BY <1>5 DEF ReportInv, EvidenceOk
<1>11. \A x \in tail : evidence[x].at <= t
  BY <1>1, <1>5, <1>10
<1>12. evidence[last].at = passes[Newest].at
  BY <1>8, <1>9, <1>10
<1>13. BasisCurrent(k) /\ FiringNow(k)
  BY <1>4 DEF BasisCurrent, FiringNow, Snapshot, Newest
<1>14. Carried(k, t)
  BY <1>3, <1>4, <1>8, <1>9, <1>11, <1>12, <1>13 DEF Carried, tail, last
<1> QED BY <1>1, <1>2, <1>14, AnswerIs

\* Nothing is answered while the newest generation is not sealed.
LEMMA UnsealedNext ==
  ASSUME NEW k, NEW t, Len(generations') # 0, ~generations'[Len(generations')].sealed
  PROVE  ~Active(k, t)'
BY DEF Active, Disposition, Snapshot, SnapshotRefusal, None

\* Standing begins with a seal.
LEMMA StandingBegins ==
  ASSUME ReportInv, Next
  PROVE  StandingBeginsSealed
<1>1. CASE \E failed \in SUBSET Sources : Publish(failed)
  <2>1. PICK failed \in SUBSET Sources : Publish(failed)
    BY <1>1
  <2> DEFINE g == [completed |-> now, ok |-> Cardinality(Sources \ failed),
                   failed |-> Cardinality(failed), sealed |-> FALSE]
  <2>2. generations' = Append(generations, g) /\ g.sealed = FALSE
    BY <2>1 DEF Publish
  <2> HIDE DEF g
  <2>3. generations \in Seq(Generation)
    BY DEF ReportInv, TypeOK
  <2>4. Len(generations') = Len(generations) + 1 /\ Len(generations) \in Nat
        /\ generations'[Len(generations) + 1] = g
    BY <2>2, <2>3
  <2>5. Len(generations') # 0 /\ ~generations'[Len(generations')].sealed
    BY <2>2, <2>4
  <2>6. \A k, t : ~Active(k, t)'
    BY <2>5, UnsealedNext
  <2> QED BY <2>6 DEF StandingBeginsSealed
<1>2. CASE \E emitted \in Firings, active \in ActiveLists : UpdateWarningState(emitted, active)
  <2>1. generations' = generations /\ phase = "published"
    BY <1>2 DEF UpdateWarningState
  <2>2. Len(generations) # 0 /\ ~generations[Len(generations)].sealed
    BY <2>1 DEF ReportInv, CyclesOk, Newest
  <2>3. Len(generations') # 0 /\ ~generations'[Len(generations')].sealed
    BY <2>1, <2>2
  <2>4. \A k, t : ~Active(k, t)'
    BY <2>3, UnsealedNext
  <2> QED BY <2>4 DEF StandingBeginsSealed
<1>3. CASE Seal
  <2>1. phase = "updated" /\ generations' = [generations EXCEPT ![Len(generations)].sealed = TRUE]
    BY <1>3 DEF Seal
  <2>2. Len(generations) \in 1..Len(generations) /\ generations \in Seq(Generation)
    BY <2>1 DEF ReportInv, TypeOK, CyclesOk, Newest
  <2>3. generations[Len(generations)] \in Generation
    BY <2>2
  <2> DEFINE n == Len(generations)
             x == [generations[n] EXCEPT !.sealed = TRUE]
  <2>a. generations' = [generations EXCEPT ![n] = x]
    BY <2>1
  <2> HIDE DEF x
  <2>4. generations'[n] = x
    BY <2>a, <2>2
  <2>5. generations'[Len(generations)].sealed
    BY <2>3, <2>4 DEF Generation, x
  <2> QED BY <2>1, <2>5 DEF StandingBeginsSealed
<1>4. CASE \E s \in Sources : RetireSource(s) \/ UnretireSource(s)
  <2>1. PICK keys \in SUBSET DOMAIN rows, basis \in {"retired", "unknown"} :
          Rebase(keys, basis) /\ UNCHANGED <<generations, evidence>>
    <3>1. PICK s \in Sources : RetireSource(s) \/ UnretireSource(s)
      BY <1>4
    <3>2. CASE RetireSource(s)
      <4>1. Rebase({k \in DOMAIN rows : SourceOf[k] = s /\ rows[k].basis # "retired"}, "retired")
            /\ UNCHANGED <<generations, evidence>>
        BY <3>2 DEF RetireSource
      <4> QED BY <4>1
    <3>3. CASE UnretireSource(s)
      <4>1. Rebase({k \in DOMAIN rows : SourceOf[k] = s /\ rows[k].basis = "retired"}, "unknown")
            /\ UNCHANGED <<generations, evidence>>
        BY <3>3 DEF UnretireSource
      <4> QED BY <4>1
    <3> QED BY <3>1, <3>2, <3>3
  <2>2. ASSUME NEW k, NEW t, Active(k, t)' PROVE Active(k, t)
    <3>1. Snapshot' = Snapshot
      BY <2>1 DEF Snapshot
    <3>2. /\ Snapshot # 0 /\ k \in DOMAIN rows'
          /\ RowVerdict(k, EvidenceTail(k), t)' = "operationally_active"
          /\ SnapshotRefusal(generations[Snapshot], t) = None
      BY <2>1, <2>2, <3>1 DEF Active, Disposition, SnapshotRefusal, None
    <3>3. rows'[k].basis = "live" /\ k \in DOMAIN rows
      BY <2>1, <3>2 DEF RowVerdict, BasisCurrent, Rebase
    <3>4. k \notin keys
      <4>1. rows[k] \in Row
        BY <3>3, TableRow DEF ReportInv, TypeOK
      <4> QED BY <2>1, <3>3, <4>1 DEF Rebase, Row
    <3>5. rows'[k] = rows[k] /\ marks'[k] = marks[k]
      BY <2>1, <3>3, <3>4 DEF Rebase
    <3>6. EvidenceTail(k)' = EvidenceTail(k)
      BY <2>1, <3>1 DEF EvidenceTail, Newer
    <3>7. LatestOf(EvidenceTail(k))' = LatestOf(EvidenceTail(k))
      BY <2>1, <3>6 DEF LatestOf, Newer
    <3>8. RowVerdict(k, EvidenceTail(k), t)' = RowVerdict(k, EvidenceTail(k), t)
      BY <2>1, <3>1, <3>5, <3>6, <3>7 DEF RowVerdict, BasisCurrent, FiringNow
    <3> QED BY <3>2, <3>3, <3>8 DEF Active, Disposition
  <2> QED BY <2>2 DEF StandingBeginsSealed
<1>5. CASE UNCHANGED <<generations, rows, marks, evidence>>
  <2>1. \A k, t : Active(k, t)' <=> Active(k, t)
    BY <1>5 DEF Active, Disposition, Snapshot, SnapshotRefusal, RowVerdict, BasisCurrent,
                FiringNow, EvidenceTail, LatestOf, Newer, TooOld
  <2> QED BY <2>1 DEF StandingBeginsSealed
<1> QED BY <1>1, <1>2, <1>3, <1>4, <1>5 DEF Next, LoseUpdate, Abandon, Tick, StepBack

\* The invariant of ReportInquiry holds throughout.
LEMMA ReportTyped == InquiriesSpec => [](part = "report" => ReportInv)
<1>1. InquiriesInit => (part = "report" => ReportInv)
  BY ReportInit DEF InquiriesInit
<1>2. (part = "report" => ReportInv) /\ [InquiriesNext]_inquiryVars => (part = "report" => ReportInv)'
  <2> SUFFICES ASSUME part = "report" => ReportInv, [InquiriesNext]_inquiryVars, part' = "report"
               PROVE  ReportInv'
    OBVIOUS
  <2>1. part = "report" /\ (Next \/ UNCHANGED vars)
    BY DEF InquiriesNext, inquiryVars
  <2> QED BY <2>1, ReportStep, ReportStutter
<1> QED BY <1>1, <1>2, PTL DEF InquiriesSpec

\* AnswerIsRight: for every number of generations, keys and evidence rows an
\* answer of the report inquiry is the truth about the newest generation,
\* sealed and complete, it is given whenever it can be, and no step but a seal
\* makes an inquiry answerable.
THEOREM AnswerTrue == InquiriesSpec => AnswerIsRight
<1>1. (part = "report" => ReportInv) => (part = "report" => ActiveIsCurrent /\ AnswersWhenItCan)
  BY AnswerIsCurrent, AnswersGiven
<1>2. (part = "report" => ReportInv) /\ [InquiriesNext]_inquiryVars
        => [part = "report" => StandingBeginsSealed]_vars
  <2> SUFFICES ASSUME part = "report" => ReportInv, InquiriesNext, part = "report"
               PROVE  StandingBeginsSealed \/ UNCHANGED vars
    BY DEF inquiryVars, vars
  <2> QED BY StandingBegins DEF InquiriesNext
<1> QED BY <1>1, <1>2, ReportTyped, PTL DEF InquiriesSpec, AnswerIsRight
-----------------------------------------------------------------------------
(***************************************************************************)
(* The inductive invariant of InquiryPlans.                                *)
(***************************************************************************)

\* A profile that validated, with its lists put in order.
ProperSurvey(t) ==
  /\ t \in Planning!TlsCertProfile(SUBSET Planning!TlsTarget)
  /\ IsFiniteSet(t.declared) /\ t.declared # {}
  /\ Cardinality(t.declared) <= t.maxTargets /\ t.maxTargets \in Planning!TargetCounts
  /\ t.concurrency = 1
  /\ t.perTarget \in Planning!TargetDeadlines
  /\ t.total \in Planning!TotalDeadlines /\ t.perTarget * Cardinality(t.declared) <= t.total
  /\ t.horizon \in Planning!Horizons
  /\ Planning!ScopeValid(t.declared)
Proper(p) ==
  /\ p \in Planning!ProfileDigested
  /\ p.kind = "report" => p.tls = Absent
  /\ p.kind = "tls" => p.tls # Absent /\ ProperSurvey(p.tls)

\* A request that was admitted under such a profile.
ProperRequest(r) ==
  /\ Proper(r.profile)
  /\ r.profile.kind = "report" => r.targets = {}
  /\ r.profile.kind = "tls" => r.targets # {} /\ r.targets \subseteq r.profile.tls.declared

\* A refusal binds the grant it is about.
RefusedFor(g, needs) ==
  /\ g \notin {Planning!NoGrant, Planning!BadGrant}
  /\ Planning!ScopeValid(g.scope)
  /\ Planning!Refusal(g, needs) # "none"

Errors == {"plan", "profile", "admission", "latest"}
AnswerOk(x) ==
  \/ x = Absent
  \/ \E why \in Errors : x = Planning!Failed(why)
  \/ /\ x.status \in {"answered", "refused"}
     /\ x.request.profile.kind = "report" /\ x.witness = Absent
  \/ /\ ProperRequest(x.request) /\ x.request.asOf \in Planning!Instants
     /\ x.request \in Planning!Request /\ x.request.profile.kind = "tls"
     /\ x.witness = Planning!WitnessPlan(x.request)
     /\ LET needs == Planning!Render(x.request).needs IN
        \/ x.status = "answered" /\ Planning!Refusal(x.grant, needs) = "none"
        \/ x.status = "refused" /\ (x.grant = Absent \/ RefusedFor(x.grant, needs))

PreflightOk(x) ==
  \/ x = Absent
  \/ x = Planning!UnresolvedLatest
  \/ \E r \in Planning!Request : ProperRequest(r) /\ x = Planning!Render(r)

ResolvedOk(d, intent) ==
  /\ Proper(d.profile)
  /\ d = Planning!ForResolved(intent, d.profile)

CompiledOk(x) ==
  \/ x = Absent
  \/ /\ x.intent \in Intents
     /\ x.disposition.kind = "resolved" => ResolvedOk(x.disposition, x.intent)
     /\ x.disposition.kind = "clarification" => \A p \in x.disposition.options : Proper(p)

EscalationOk(x) ==
  \/ x = Absent
  \/ AnswerOk(x.source) /\ Planning!Bindable(x.source, x.envelope) /\ Planning!Citable(x.source, x.envelope)

ProcessOk(x) ==
  /\ x.pc \in {"planned", "resolved"} => x.plan \in Planning!CandidatePlan
  /\ x.pc = "resolved" =>
       Proper(x.profile) /\ x.plan.profile \in {x.profile.id} \cup x.profile.aliases

PlansInv ==
  /\ planFile \in Planning!CandidatePlan /\ catalogFile \in Catalogs
  /\ ProcessOk(process) /\ AnswerOk(answer) /\ PreflightOk(preflight)
  /\ CompiledOk(compiled) /\ EscalationOk(escalation)

\* The instance counts as this module does.
LEMMA PlansCounted == \A S : Planning!Cardinality(S) = Cardinality(S)
BY Zenon DEF Planning!Cardinality, Cardinality

\* What is assumed of the constants of InquiryPlans.
LEMMA PlansConstants ==
  /\ Plans \subseteq Planning!CandidatePlan
  /\ Catalogs \subseteq Seq(Planning!ProfileFile)
  /\ Intents \subseteq Planning!InquiryIntent
  /\ Absent \notin STRING /\ Absent \notin Planning!ProfileDigested
  /\ Absent \notin Planning!TlsCertProfile(SUBSET Planning!TlsTarget)
  /\ Absent \notin Planning!Request /\ Absent \notin Planning!Witness /\ Absent \notin Planning!Needs
BY PlansAssumption DEF Planning!PlansAssumption

\* Products grow with their factors.
LEMMA TimesMore ==
  ASSUME NEW k \in Nat, NEW x \in Nat, NEW y \in Nat, x <= y
  PROVE  k * x <= k * y
<1>1. y - x \in Nat /\ y = x + (y - x)
  OBVIOUS
<1>2. k * y = k * x + k * (y - x)
  BY <1>1
<1>3. k * (y - x) \in Nat /\ k * x \in Nat
  BY <1>1
<1> QED BY <1>2, <1>3

\* The set of what a sequence lists.
LEMMA ListedSet ==
  ASSUME NEW S, NEW s \in Seq(S)
  PROVE  /\ Planning!ToSet(s) = {s[i] : i \in 1..Len(s)}
         /\ Planning!ToSet(s) \in SUBSET S /\ IsFiniteSet(Planning!ToSet(s))
         /\ Cardinality(Planning!ToSet(s)) <= Len(s)
         /\ Cardinality(Planning!ToSet(s)) \in Nat
         /\ s # <<>> => Planning!ToSet(s) # {}
<1> DEFINE T == {s[i] : i \in 1..Len(s)}
<1>1. Planning!ToSet(s) = T
  BY DEF Planning!ToSet
<1>2. Len(s) \in Nat /\ DOMAIN s = 1..Len(s) /\ T \subseteq S
  OBVIOUS
<1>3. IsFiniteSet(1..Len(s)) /\ Cardinality(1..Len(s)) = Len(s)
  <2>1. ASSUME NEW n \in Nat PROVE IsFiniteSet(1..n) /\ Cardinality(1..n) = n
    <3>1. /\ IsFiniteSet(1..n)
          /\ Cardinality(1..n) = IF 1 > n THEN 0 ELSE n - 1 + 1
      BY FS_Interval
    <3> QED BY <3>1
  <2> QED BY <1>2, <2>1
<1> DEFINE f == [i \in 1..Len(s) |-> s[i]]
<1>4. f \in Surjection(1..Len(s), T)
  BY DEF Surjection
<1>5. s # <<>> => T # {}
  <2> SUFFICES ASSUME s # <<>> PROVE T # {}
    OBVIOUS
  <2>1. Len(s) # 0
    OBVIOUS
  <2>2. 1 \in 1..Len(s)
    BY <1>2, <2>1
  <2> QED BY <2>2
<1> HIDE DEF T, f
<1>6. IsFiniteSet(T) /\ Cardinality(T) <= Cardinality(1..Len(s))
  BY <1>3, <1>4, FS_Surjection
<1>7. Cardinality(T) \in Nat
  BY <1>6, FS_CardinalityType
<1>8. T \in SUBSET S
  BY <1>2
<1>9. Planning!ToSet(s) = {s[i] : i \in 1..Len(s)}
  BY <1>1 DEF T
<1> QED BY <1>1, <1>3, <1>5, <1>6, <1>7, <1>8, <1>9

\* A profile that validates is proper once its lists are in order.
LEMMA NormalizedProper ==
  ASSUME NEW p \in Planning!ProfileFile, Planning!ProfileValid(p)
  PROVE  /\ Proper(Planning!Normalized(p))
         /\ Planning!Normalized(p).id = p.id /\ Planning!Normalized(p).kind = p.kind
         /\ {Planning!Normalized(p).id} \cup Planning!Normalized(p).aliases = Planning!NamesOf(p)
<1> DEFINE t == p.tls
           s == IF t = Absent THEN Absent ELSE [t EXCEPT !.declared = Planning!ToSet(t.declared)]
           q == [p EXCEPT !.aliases = Planning!ToSet(p.aliases), !.coverage = Planning!ToSet(p.coverage),
                          !.cannot = Planning!ToSet(p.cannot), !.tls = s]
<1>1. Planning!Normalized(p) = q
  BY DEF Planning!Normalized
<1>2. /\ p.aliases \in Seq(STRING) /\ p.coverage \in Seq(STRING) /\ p.cannot \in Seq(STRING)
      /\ t \in Planning!TlsCertProfile(Seq(Planning!TlsTarget)) \cup {Absent}
      /\ p.kind \in {"report", "tls"}
  BY DEF Planning!ProfileFile, Planning!Profile
<1>3. /\ Planning!ToSet(p.aliases) \in SUBSET STRING /\ Planning!ToSet(p.coverage) \in SUBSET STRING
      /\ Planning!ToSet(p.cannot) \in SUBSET STRING
  BY <1>2, ListedSet
<1>4. /\ p.kind = "report" => t = Absent
      /\ p.kind = "tls" => t # Absent /\ Planning!TlsProfileValid(t)
  BY DEF Planning!ProfileValid
<1>5. ASSUME t # Absent
      PROVE  /\ s \in Planning!TlsCertProfile(SUBSET Planning!TlsTarget)
             /\ s.declared = Planning!ToSet(t.declared) /\ s.maxTargets = t.maxTargets
             /\ s.concurrency = t.concurrency /\ s.perTarget = t.perTarget /\ s.total = t.total
             /\ s.horizon = t.horizon /\ t.declared \in Seq(Planning!TlsTarget)
             /\ t.perTarget \in Nat /\ t.total \in Nat /\ t.maxTargets \in Nat
  <2>1. t \in Planning!TlsCertProfile(Seq(Planning!TlsTarget))
    BY <1>2, <1>5
  <2>2. t.declared \in Seq(Planning!TlsTarget)
    BY <2>1 DEF Planning!TlsCertProfile
  <2>3. Planning!ToSet(t.declared) \in SUBSET Planning!TlsTarget
    BY <2>2, ListedSet
  <2> HIDE DEF t
  <2> QED BY <1>5, <2>1, <2>2, <2>3 DEF Planning!TlsCertProfile
<1>6. ASSUME p.kind = "tls" PROVE ProperSurvey(s) /\ s # Absent
  <2>1. t # Absent /\ Planning!TlsProfileValid(t)
    BY <1>4, <1>6
  <2> DEFINE D == Planning!ToSet(t.declared)
             l == Len(t.declared)
  <2>2. t.declared \in Seq(Planning!TlsTarget) /\ l \in Nat /\ DOMAIN t.declared = 1..l
    BY <1>5, <2>1
  <2>3. /\ IsFiniteSet(D) /\ D # {} /\ Cardinality(D) <= l /\ Cardinality(D) \in Nat
        /\ D = {t.declared[i] : i \in 1..l}
    BY <2>1, <2>2, ListedSet DEF Planning!TlsProfileValid
  <2>4. /\ l <= t.maxTargets /\ t.maxTargets \in Planning!TargetCounts /\ t.concurrency = 1
        /\ t.perTarget \in Planning!TargetDeadlines /\ t.total \in Planning!TotalDeadlines /\ t.total >= t.perTarget * l
        /\ t.horizon \in Planning!Horizons /\ Planning!UniqueTargets(t.declared)
    BY <2>1 DEF Planning!TlsProfileValid
  <2>5. Planning!ScopeValid(D)
    <3>1. ASSUME NEW x \in D PROVE x.whole
      BY <2>2, <2>3, <2>4 DEF Planning!UniqueTargets
    <3>2. ASSUME NEW x \in D, NEW y \in D, x.id = y.id PROVE x = y
      <4>1. PICK i \in 1..l : x = t.declared[i]
        BY <2>3
      <4>2. PICK j \in 1..l : y = t.declared[j]
        BY <2>3
      <4>3. i = j
        BY <2>2, <2>4, <3>2, <4>1, <4>2 DEF Planning!UniqueTargets
      <4> QED BY <4>1, <4>2, <4>3
    <3> QED BY <3>1, <3>2 DEF Planning!ScopeValid
  <2> HIDE DEF D, l
  <2>6. Cardinality(D) <= t.maxTargets
    BY <1>5, <2>1, <2>2, <2>3, <2>4
  <2>7. t.perTarget * Cardinality(D) <= t.total
    <3>1. t.perTarget \in Nat /\ t.total \in Nat
      BY <1>5, <2>1
    <3>2. t.perTarget * Cardinality(D) <= t.perTarget * l
      BY <2>2, <2>3, <3>1, TimesMore
    <3>3. t.perTarget * Cardinality(D) \in Nat /\ t.perTarget * l \in Nat
      BY <2>2, <2>3, <3>1
    <3> QED BY <2>4, <3>1, <3>2, <3>3
  <2>8. s \in Planning!TlsCertProfile(SUBSET Planning!TlsTarget) /\ s.declared = D
        /\ s.maxTargets = t.maxTargets
        /\ s.concurrency = t.concurrency /\ s.perTarget = t.perTarget /\ s.total = t.total
        /\ s.horizon = t.horizon
    BY <1>5, <2>1 DEF D
  <2> HIDE DEF s
  <2>9. ProperSurvey(s)
    BY <2>3, <2>4, <2>5, <2>6, <2>7, <2>8 DEF ProperSurvey
  <2>10. s # Absent
    BY <2>8, PlansConstants
  <2> QED BY <2>9, <2>10
<1>7. s \in Planning!TlsCertProfile(SUBSET Planning!TlsTarget) \cup {Absent}
  BY <1>5
<1>8. t = Absent => s = Absent
  OBVIOUS
<1> HIDE DEF s, t
<1>9. q \in Planning!ProfileDigested
  BY <1>3, <1>7 DEF Planning!ProfileFile, Planning!ProfileDigested, Planning!Profile
<1>10. q.id = p.id /\ q.kind = p.kind /\ q.tls = s /\ q.aliases = Planning!ToSet(p.aliases)
  BY DEF Planning!ProfileFile, Planning!Profile
<1> HIDE DEF q
<1>11. Proper(q)
  BY <1>4, <1>6, <1>8, <1>9, <1>10 DEF Proper
<1>12. {q.id} \cup q.aliases = Planning!NamesOf(p)
  BY <1>10 DEF Planning!NamesOf
<1> QED BY <1>1, <1>10, <1>11, <1>12

\* A name resolves to the one profile that has it.
LEMMA ResolvedProper ==
  ASSUME NEW c \in Catalogs, NEW name, NEW r, r = Planning!Resolve(c, name), r # Absent
  PROVE  Proper(r) /\ name \in {r.id} \cup r.aliases
<1> DEFINE named == {i \in DOMAIN c : name \in Planning!NamesOf(c[i])}
<1>1. /\ Planning!CatalogValid(c) /\ Planning!Cardinality(named) = 1
      /\ r = Planning!Normalized(c[CHOOSE i \in named : TRUE])
  BY DEF Planning!Resolve
<1>2. named # {}
  <2>1. Planning!Cardinality({}) = 0
    BY PlansCounted, FS_EmptySet
  <2> QED BY <1>1, <2>1
<1>3. PICK i \in named : r = Planning!Normalized(c[i])
  BY <1>1, <1>2
<1>4. c[i] \in Planning!ProfileFile /\ Planning!ProfileValid(c[i]) /\ name \in Planning!NamesOf(c[i])
  BY <1>1, <1>3, PlansConstants DEF Planning!CatalogValid
<1> HIDE DEF named
<1> QED BY <1>3, <1>4, NormalizedProper

\* Every profile of a valid catalog resolves by its id.
LEMMA ResolvesOwn ==
  ASSUME NEW c \in Catalogs, Planning!CatalogValid(c), NEW i \in DOMAIN c
  PROVE  Proper(Planning!Resolve(c, c[i].id))
<1> DEFINE named == {j \in DOMAIN c : c[i].id \in Planning!NamesOf(c[j])}
<1>1. i \in named
  BY DEF Planning!NamesOf
<1>2. \A j \in named : j = i
  BY <1>1 DEF Planning!CatalogValid
<1>3. named = {i}
  BY <1>1, <1>2
<1>4. Planning!Cardinality(named) = 1 /\ (CHOOSE j \in named : TRUE) = i
  BY <1>3, PlansCounted, FS_Singleton
<1>5. Planning!Resolve(c, c[i].id) = Planning!Normalized(c[i])
  BY <1>4 DEF Planning!Resolve
<1>6. c[i] \in Planning!ProfileFile /\ Planning!ProfileValid(c[i])
  BY PlansConstants DEF Planning!CatalogValid
<1> QED BY <1>5, <1>6, NormalizedProper

\* An admitted request is proper: within the profile it names.
LEMMA AdmittedProper ==
  ASSUME NEW p, p.targets \in Seq(Planning!TlsTarget), NEW profile, Proper(profile),
         NEW r, r = Planning!Admit(p, profile), r # Absent
  PROVE  /\ ProperRequest(r) /\ r.profile = profile /\ r.asOf = p.asOf
         /\ p.asOf \in Planning!Instants => r \in Planning!Request
<1> DEFINE wanted == Planning!Wanted(p, profile)
           T == IF profile.kind = "report" THEN {} ELSE wanted
<1>1. /\ r = [profile |-> profile, asOf |-> p.asOf, targets |-> T]
      /\ profile.kind # "report" => wanted \subseteq profile.tls.declared
  BY DEF Planning!Admit
<1>2. profile.kind = "tls" => ProperSurvey(profile.tls)
  BY DEF Proper
<1>3. profile.kind = "tls" => wanted # {}
  <2>1. p.targets # <<>> => Planning!ToSet(p.targets) # {}
    BY ListedSet
  <2> QED BY <1>2, <2>1 DEF Planning!Wanted, ProperSurvey
<1>4. profile \in Planning!ProfileDigested /\ profile.kind \in {"report", "tls"}
  BY DEF Proper, Planning!ProfileDigested, Planning!Profile
<1> HIDE DEF wanted
<1>5. /\ profile.kind = "report" => T = {}
      /\ profile.kind = "tls" => T # {} /\ T \subseteq profile.tls.declared
  BY <1>1, <1>3
<1>6. T \in SUBSET Planning!TlsTarget
  <2>1. CASE profile.kind = "report"
    BY <1>5, <2>1
  <2>2. CASE profile.kind = "tls"
    <3>1. profile.tls.declared \in SUBSET Planning!TlsTarget
      BY <1>2, <2>2 DEF ProperSurvey, Planning!TlsCertProfile
    <3> QED BY <1>5, <2>2, <3>1
  <2> QED BY <1>4, <2>1, <2>2
<1> HIDE DEF T
<1>7. r.profile = profile /\ r.asOf = p.asOf /\ r.targets = T
  BY <1>1
<1>8. ProperRequest(r)
  BY <1>5, <1>7 DEF ProperRequest
<1>9. p.asOf \in Planning!Instants => r \in Planning!Request
  BY <1>1, <1>4, <1>6 DEF Planning!Request
<1> QED BY <1>7, <1>8, <1>9

\* What a request that was admitted calls for passes every later check of it.
LEMMA RenderValid ==
  ASSUME NEW r \in Planning!Request, ProperRequest(r), NEW p, p = Planning!Render(r)
  PROVE  /\ Planning!PreflightValid(p) /\ p.request = r
         /\ r.profile.kind = "tls" =>
              /\ p.witness = Planning!WitnessPlan(r) /\ p.witness # Absent
              /\ p.witness.targets = r.targets /\ p.needs.scope = r.targets
              /\ p.needs.envelope = Planning!EnvelopeOf(p.witness)
              /\ p.needs.classes = {"tls_cert_probe"} /\ p.needs.depth = 1
              /\ p.needs \in Planning!Needs /\ Planning!ScopeValid(r.targets)
              /\ Planning!EnvelopeValid(p.witness)
         /\ r.profile.kind = "report" => p.witness = Absent
<1>0. r.profile.kind \in {"report", "tls"} /\ Proper(r.profile)
  BY DEF Planning!Request, Planning!ProfileDigested, Planning!Profile, ProperRequest
<1>1. CASE r.profile.kind = "report"
  <2>1. r.targets = {}
    BY <1>1 DEF ProperRequest
  <2> QED BY <1>1, <2>1 DEF Planning!Render, Planning!PreflightValid
<1>2. CASE r.profile.kind = "tls"
  <2> DEFINE t == r.profile.tls
             n == Cardinality(r.targets)
             w == Planning!WitnessPlan(r)
             e == Planning!EnvelopeOf(w)
             need == [scope |-> r.targets, depth |-> 1, envelope |-> e, classes |-> {"tls_cert_probe"}]
  <2>1. /\ ProperSurvey(t) /\ r.targets # {} /\ r.targets \subseteq t.declared
    BY <1>0, <1>2 DEF Proper, ProperRequest
  <2>2. /\ IsFiniteSet(t.declared) /\ Cardinality(t.declared) <= t.maxTargets
        /\ t.maxTargets \in Planning!TargetCounts /\ t.concurrency = 1
        /\ t.perTarget \in Planning!TargetDeadlines
        /\ t.total \in Planning!TotalDeadlines /\ t.perTarget * Cardinality(t.declared) <= t.total
        /\ t.horizon \in Planning!Horizons /\ Planning!ScopeValid(t.declared)
    BY <2>1 DEF ProperSurvey
  <2>3. /\ t.maxTargets \in Nat /\ t.perTarget \in Nat /\ t.total \in Nat /\ t.horizon \in Nat
        /\ t.concurrency \in Nat
    BY <2>1 DEF ProperSurvey, Planning!TlsCertProfile
  <2>4. /\ IsFiniteSet(r.targets) /\ n <= Cardinality(t.declared) /\ n \in Nat
        /\ Cardinality(t.declared) \in Nat
    BY <2>1, <2>2, FS_Subset, FS_CardinalityType
  <2>5. n # 0
    BY <2>1, <2>4, FS_EmptySet
  <2>6. /\ w.targets = r.targets /\ w.maxTargets = t.maxTargets /\ w.concurrency = t.concurrency
        /\ w.perTarget = t.perTarget /\ w.total = t.total /\ w.horizon = t.horizon
        /\ w.attempts = n /\ w.work = 4 * n
    BY PlansCounted DEF Planning!WitnessPlan
  <2>7. w \in Planning!Witness
    <3>1. r.targets \in SUBSET Planning!TlsTarget
      BY DEF Planning!Request
    <3>2. 4 * n \in Nat
      BY <2>4
    <3> QED BY <2>3, <2>4, <3>1, <3>2, PlansCounted DEF Planning!WitnessPlan, Planning!Witness
  <2>8. w # Absent
    BY <2>7, PlansConstants
  <2>9. Planning!ScopeValid(r.targets)
    BY <2>1, <2>2 DEF Planning!ScopeValid
  <2>10. n <= t.maxTargets /\ n > 0
    BY <2>2, <2>3, <2>4, <2>5
  <2>11. t.total >= t.perTarget * n
    <3>1. t.perTarget * n <= t.perTarget * Cardinality(t.declared)
      BY <2>3, <2>4, TimesMore
    <3>2. t.perTarget * n \in Nat /\ t.perTarget * Cardinality(t.declared) \in Nat
      BY <2>3, <2>4
    <3> QED BY <2>2, <2>3, <3>1, <3>2
  <2>12. e \in Planning!Spend
    <3>1. w.total \in Nat /\ w.work \in Nat /\ w.attempts \in Nat
      BY <2>3, <2>4, <2>6
    <3> HIDE DEF w
    <3> QED BY <3>1 DEF Planning!EnvelopeOf, Planning!Spend
  <2> HIDE DEF w, n, t, e
  <2>13. Planning!EnvelopeValid(w)
    BY <2>2, <2>6, <2>9, <2>10, <2>11, PlansCounted DEF Planning!EnvelopeValid, n
  <2>14. p = [request |-> r, witness |-> w, needs |-> need]
    BY <1>2 DEF Planning!Render, w, e
  <2>15. need \in Planning!Needs
    BY <2>12 DEF Planning!Needs, Planning!Request
  <2>16. p.request = r /\ p.witness = w /\ p.needs = need
    BY <2>14
  <2>17. /\ need.scope = r.targets /\ need.envelope = e /\ need.classes = {"tls_cert_probe"}
         /\ need.depth = 1
    OBVIOUS
  <2>18. Planning!PreflightValid(p)
    BY <2>6, <2>8, <2>13, <2>16 DEF Planning!PreflightValid, e
  <2> HIDE DEF need
  <2> QED BY <1>2, <2>6, <2>8, <2>9, <2>13, <2>15, <2>16, <2>17, <2>18 DEF w, e
<1> QED BY <1>0, <1>1, <1>2

\* A spend is within itself.
LEMMA AtMostItself ==
  ASSUME NEW e \in Planning!Spend
  PROVE  Planning!AtMost(e, e)
<1>1. \A d \in Planning!Dimensions : e[d] \in Nat
  BY DEF Planning!Spend
<1> QED BY <1>1 DEF Planning!AtMost

\* What a grant that is not refused covers.
LEMMA GrantCovers ==
  ASSUME NEW g, NEW needs, Planning!Refusal(g, needs) = "none"
  PROVE  /\ needs.scope \subseteq g.scope /\ Planning!AtMost(needs.envelope, g.envelope)
         /\ g \notin {Planning!NoGrant, Planning!BadGrant}
<1>1. Planning!NoGrant.kind # "none" /\ Planning!BadGrant.kind # "none"
  BY DEF Planning!NoGrant, Planning!BadGrant
<1>2. g \notin {Planning!NoGrant, Planning!BadGrant}
  BY <1>1 DEF Planning!Refusal
<1> DEFINE q == [scope |-> needs.scope, depth |-> needs.depth, remaining |-> needs.envelope]
<1>3. Planning!AdmissionRefusal(g, q) = "none"
  BY <1>2 DEF Planning!Refusal
<1>4. q.scope = needs.scope /\ q.remaining = needs.envelope
  OBVIOUS
<1> HIDE DEF q
<1>5. q.scope \subseteq g.scope /\ Planning!AtMost(q.remaining, g.envelope)
  BY <1>3 DEF Planning!AdmissionRefusal
<1> QED BY <1>2, <1>4, <1>5

\* A grant for exactly what is needed is enough.
LEMMA ExactGrant ==
  ASSUME NEW r \in Planning!Request, ProperRequest(r), r.profile.kind = "tls",
         NEW needs, needs = Planning!Render(r).needs
  PROVE  ~RefusedFor(needs, needs)
<1> DEFINE q == [scope |-> needs.scope, depth |-> needs.depth, remaining |-> needs.envelope]
<1>1. needs \in Planning!Needs
  BY RenderValid
<1>2. needs.depth \in Nat /\ needs.envelope \in Planning!Spend
  BY <1>1 DEF Planning!Needs
<1>3. q.scope = needs.scope /\ q.depth = needs.depth /\ q.remaining = needs.envelope
  OBVIOUS
<1> HIDE DEF q
<1>4. Planning!AdmissionRefusal(needs, q) = "none"
  <2>1. ~(q.depth > needs.depth) /\ Planning!AtMost(q.remaining, needs.envelope)
    BY <1>2, <1>3, AtMostItself
  <2> QED BY <1>3, <2>1 DEF Planning!AdmissionRefusal
<1>5. needs.classes \subseteq needs.classes
  OBVIOUS
<1> QED BY <1>4, <1>5 DEF RefusedFor, Planning!Refusal, q

\* The fields of a receipt.
LEMMA ReceiptFields ==
  ASSUME NEW status, NEW why, NEW request, NEW w, NEW g, NEW x,
         x = Planning!Receipt(status, why, request, w, g)
  PROVE  x.status = status /\ x.why = why /\ x.request = request /\ x.witness = w /\ x.grant = g
BY DEF Planning!Receipt

\* An execution ends with an answer or a refusal, never on its bounds.
LEMMA Executed ==
  ASSUME NEW r \in Planning!Request, ProperRequest(r)
  PROVE  AnswerOk(Planning!Execute(r))
<1>0. r.profile.kind \in {"report", "tls"} /\ r.asOf \in Planning!Instants
  BY DEF Planning!Request, Planning!ProfileDigested, Planning!Profile
<1>1. CASE r.profile.kind = "report"
  <2>1. Planning!Execute(r) = Planning!Receipt("answered", "none", r, Absent, Absent)
    BY <1>1 DEF Planning!Execute
  <2> DEFINE x == Planning!Execute(r)
  <2> HIDE DEF x
  <2>2. x.status = "answered" /\ x.request = r /\ x.witness = Absent
    BY <2>1, ReceiptFields DEF x
  <2>3. AnswerOk(x)
    BY <1>1, <2>2 DEF AnswerOk
  <2> QED BY <2>3 DEF x
<1>2. CASE r.profile.kind = "tls"
  <2> DEFINE p == Planning!Render(r)
             held == IF ~process.granted THEN Planning!NoGrant
                     ELSE IF grantFile = Absent THEN Planning!BadGrant ELSE grantFile
             why == Planning!Refusal(held, p.needs)
             x == IF why = "none" THEN Planning!Receipt("answered", why, r, p.witness, grantFile)
                  ELSE Planning!Refused(why, r, p.witness)
  <2>1. Planning!Execute(r) = IF Planning!PreflightValid(p) /\ Planning!BindingValid(x)
                              THEN x ELSE Planning!Failed("envelope")
    BY <1>2 DEF Planning!Execute
  <2>2. /\ Planning!PreflightValid(p) /\ p.witness = Planning!WitnessPlan(r)
        /\ p.needs.envelope = Planning!EnvelopeOf(p.witness)
    BY <1>2, RenderValid
  <2>3. held \in {Planning!NoGrant, Planning!BadGrant} \/ held = grantFile
    OBVIOUS
  <2> HIDE DEF p, held
  <2>4. held \in {Planning!NoGrant, Planning!BadGrant} =>
          why \in {Planning!NoGrant.kind, Planning!BadGrant.kind}
    BY DEF Planning!Refusal
  <2>5. why = "none" => held = grantFile /\ why \notin {Planning!NoGrant.kind, Planning!BadGrant.kind}
                        /\ Planning!AtMost(p.needs.envelope, held.envelope)
    <3>1. Planning!NoGrant.kind # "none" /\ Planning!BadGrant.kind # "none"
      BY DEF Planning!NoGrant, Planning!BadGrant
    <3> QED BY <2>3, <3>1, GrantCovers
  <2>6. why \notin {Planning!NoGrant.kind, Planning!BadGrant.kind} =>
          held = grantFile /\ held \notin {Planning!NoGrant, Planning!BadGrant}
          /\ Planning!ScopeValid(held.scope)
    <3>1. Planning!BadGrant.kind = "grant_malformed"
      BY DEF Planning!BadGrant
    <3> QED BY <2>3, <2>4, <3>1 DEF Planning!Refusal
  <2>7. CASE why = "none"
    <3>1. x = Planning!Receipt("answered", why, r, p.witness, grantFile)
      BY <2>7
    <3> HIDE DEF x
    <3>2. x.status = "answered" /\ x.why = "none" /\ x.request = r /\ x.witness = p.witness
          /\ x.grant = grantFile
      BY <2>7, <3>1, ReceiptFields
    <3>3. Planning!BindingValid(x)
      BY <2>2, <2>5, <2>7, <3>2 DEF Planning!BindingValid
    <3>4. Planning!Refusal(x.grant, p.needs) = "none"
      BY <2>5, <2>7, <3>2 DEF why
    <3>5. AnswerOk(x)
      BY <1>0, <1>2, <2>2, <3>2, <3>4 DEF AnswerOk, p
    <3> QED BY <2>1, <2>2, <3>3, <3>5
  <2>8. CASE why # "none"
    <3> DEFINE g == IF why \in {Planning!NoGrant.kind, Planning!BadGrant.kind} THEN Absent ELSE grantFile
    <3>1. x = Planning!Receipt("refused", why, r, p.witness, g)
      BY <2>8 DEF Planning!Refused
    <3> HIDE DEF x
    <3>2. x.status = "refused" /\ x.why = why /\ x.request = r /\ x.witness = p.witness
          /\ x.grant = g
      BY <3>1, ReceiptFields
    <3>3. Planning!BindingValid(x)
      BY <3>2 DEF Planning!BindingValid
    <3>4. x.grant = Absent \/ RefusedFor(x.grant, p.needs)
      <4>1. CASE why \in {Planning!NoGrant.kind, Planning!BadGrant.kind}
        BY <3>2, <4>1
      <4>2. CASE why \notin {Planning!NoGrant.kind, Planning!BadGrant.kind}
        BY <2>6, <2>8, <3>2, <4>2 DEF RefusedFor, why
      <4> QED BY <4>1, <4>2
    <3>5. AnswerOk(x)
      BY <1>0, <1>2, <2>2, <3>2, <3>4 DEF AnswerOk, p
    <3> QED BY <2>1, <2>2, <3>3, <3>5
  <2> QED BY <2>7, <2>8
<1> QED BY <1>0, <1>1, <1>2

\* The invariant holds at first.
LEMMA PlansStart ==
  ASSUME Planning!PlansInit
  PROVE  PlansInv
<1>1. planFile \in Plans /\ catalogFile \in Catalogs /\ process = Planning!Idle /\ compiled = Absent
      /\ preflight = Absent /\ answer = Absent /\ escalation = Absent
  BY DEF Planning!PlansInit
<1>2. process.pc = "idle"
  BY <1>1 DEF Planning!Idle
<1> QED BY <1>1, <1>2, PlansConstants
        DEF PlansInv, ProcessOk, AnswerOk, PreflightOk, CompiledOk, EscalationOk

\* The plan is read.
LEMMA ReadPlanStep ==
  ASSUME PlansInv, Planning!ReadPlan
  PROVE  PlansInv'
<1>1. UNCHANGED <<planFile, catalogFile, grantFile, compiled, preflight, escalation>>
  BY DEF Planning!ReadPlan
<1>2. PICK rendering \in BOOLEAN, granted \in BOOLEAN :
        \/ /\ process' = [pc |-> "planned", rendering |-> rendering, granted |-> granted,
                          plan |-> planFile]
           /\ answer' = answer
        \/ process' = Planning!Idle /\ answer' = Planning!Failed("plan")
  BY DEF Planning!ReadPlan
<1>3. planFile \in Planning!CandidatePlan /\ AnswerOk(answer)
  BY DEF PlansInv
<1>4. ProcessOk(process') /\ AnswerOk(answer')
  <2>1. CASE /\ process' = [pc |-> "planned", rendering |-> rendering, granted |-> granted,
                          plan |-> planFile]
             /\ answer' = answer
    <3>1. process'.pc = "planned" /\ process'.plan = planFile
      BY <2>1
    <3> QED BY <1>3, <2>1, <3>1 DEF ProcessOk
  <2>2. CASE process' = Planning!Idle /\ answer' = Planning!Failed("plan")
    <3>1. process'.pc = "idle"
      BY <2>2 DEF Planning!Idle
    <3> QED BY <2>2, <3>1 DEF ProcessOk, AnswerOk, Errors
  <2> QED BY <1>2, <2>1, <2>2
<1> QED BY <1>1, <1>4 DEF PlansInv

\* The catalog is read.
LEMMA ReadCatalogStep ==
  ASSUME PlansInv, Planning!ReadCatalog
  PROVE  PlansInv'
<1> DEFINE profile == Planning!Resolve(catalogFile, process.plan.profile)
           q == [pc |-> "resolved", rendering |-> process.rendering, granted |-> process.granted,
                 plan |-> process.plan, profile |-> profile]
<1>1. /\ UNCHANGED <<planFile, catalogFile, grantFile, compiled, preflight, escalation>>
      /\ process.pc = "planned"
      /\ \/ profile = Absent /\ process' = Planning!Idle /\ answer' = Planning!Failed("profile")
         \/ profile # Absent /\ process' = q /\ answer' = answer
  BY DEF Planning!ReadCatalog
<1>2. process.plan \in Planning!CandidatePlan /\ AnswerOk(answer) /\ catalogFile \in Catalogs
  BY <1>1 DEF PlansInv, ProcessOk
<1>3. q.pc = "resolved" /\ q.plan = process.plan /\ q.profile = profile
  OBVIOUS
<1> HIDE DEF q, profile
<1>4. ProcessOk(process') /\ AnswerOk(answer')
  <2>1. CASE profile # Absent /\ process' = q /\ answer' = answer
    <3>1. Proper(profile) /\ process.plan.profile \in {profile.id} \cup profile.aliases
      BY <1>2, <2>1, ResolvedProper DEF profile
    <3> QED BY <1>2, <1>3, <2>1, <3>1 DEF ProcessOk
  <2>2. CASE process' = Planning!Idle /\ answer' = Planning!Failed("profile")
    <3>1. process'.pc = "idle"
      BY <2>2 DEF Planning!Idle
    <3> QED BY <2>2, <3>1 DEF ProcessOk, AnswerOk, Errors
  <2> QED BY <1>1, <2>1, <2>2
<1> QED BY <1>1, <1>4 DEF PlansInv

\* A request is prepared.
LEMMA PrepareStep ==
  ASSUME PlansInv, Planning!Prepare
  PROVE  PlansInv'
<1> DEFINE request == Planning!Admit(process.plan, process.profile)
<1>1. /\ UNCHANGED <<planFile, catalogFile, grantFile, compiled, escalation>>
      /\ process.pc = "resolved" /\ process' = Planning!Idle
      /\ \/ answer' = Planning!Failed("admission") /\ preflight' = preflight
         \/ /\ request # Absent
            /\ \/ /\ request.profile.kind = "report"
                  /\ answer' = Planning!PassiveRefusal(request) /\ preflight' = preflight
               \/ answer' = Planning!Execute(request) /\ preflight' = preflight
               \/ preflight' = Planning!Render(request) /\ answer' = answer
               \/ /\ ~Planning!PreflightValid(Planning!Render(request))
                  /\ answer' = Planning!Failed("envelope") /\ preflight' = preflight
  BY DEF Planning!Prepare
<1>2. process.plan \in Planning!CandidatePlan /\ Proper(process.profile)
      /\ AnswerOk(answer) /\ PreflightOk(preflight)
  BY <1>1 DEF PlansInv, ProcessOk
<1>3. request # Absent => request \in Planning!Request /\ ProperRequest(request)
  <2>1. process.plan.targets \in Seq(Planning!TlsTarget) /\ process.plan.asOf \in Planning!Instants
    BY <1>2 DEF Planning!CandidatePlan
  <2> QED BY <1>2, <2>1, AdmittedProper
<1> HIDE DEF request
<1>4. ProcessOk(process')
  <2>1. process'.pc = "idle"
    BY <1>1 DEF Planning!Idle
  <2> QED BY <2>1 DEF ProcessOk
<1>5. AnswerOk(answer') /\ PreflightOk(preflight')
  <2>1. CASE answer' = Planning!Failed("admission") /\ preflight' = preflight
    BY <1>2, <2>1 DEF AnswerOk, Errors
  <2>2. CASE /\ request # Absent /\ request.profile.kind = "report"
             /\ answer' = Planning!PassiveRefusal(request) /\ preflight' = preflight
    <3>1. answer'.status = "refused" /\ answer'.request = request /\ answer'.witness = Absent
      BY <2>2, ReceiptFields DEF Planning!PassiveRefusal
    <3> QED BY <1>2, <2>2, <3>1 DEF AnswerOk
  <2>3. CASE request # Absent /\ answer' = Planning!Execute(request) /\ preflight' = preflight
    BY <1>2, <1>3, <2>3, Executed
  <2>4. CASE request # Absent /\ preflight' = Planning!Render(request) /\ answer' = answer
    BY <1>2, <1>3, <2>4 DEF PreflightOk
  <2>5. CASE request # Absent /\ ~Planning!PreflightValid(Planning!Render(request))
    BY <1>3, <2>5, RenderValid
  <2> QED BY <1>1, <2>1, <2>2, <2>3, <2>4, <2>5
<1> QED BY <1>1, <1>4, <1>5 DEF PlansInv

\* A request is prepared of the latest generation.
LEMMA PrepareLatestStep ==
  ASSUME PlansInv, Planning!PrepareLatest
  PROVE  PlansInv'
<1>1. /\ UNCHANGED <<planFile, catalogFile, grantFile, compiled, escalation>>
      /\ process.pc = "resolved" /\ process' = Planning!Idle
      /\ \/ answer' = Planning!Failed("latest") /\ preflight' = preflight
         \/ preflight' = Planning!UnresolvedLatest /\ answer' = answer
         \/ /\ process.profile.kind = "report" /\ process.plan.schema /\ process.plan.targets = <<>>
            /\ answer' = Planning!ExecuteLatest(process.profile) /\ preflight' = preflight
  BY DEF Planning!PrepareLatest
<1>2. process.plan \in Planning!CandidatePlan /\ Proper(process.profile)
      /\ AnswerOk(answer) /\ PreflightOk(preflight)
      /\ process.plan.profile \in {process.profile.id} \cup process.profile.aliases
  BY <1>1 DEF PlansInv, ProcessOk
<1>3. ProcessOk(process')
  <2>1. process'.pc = "idle"
    BY <1>1 DEF Planning!Idle
  <2> QED BY <2>1 DEF ProcessOk
<1>4. AnswerOk(answer') /\ PreflightOk(preflight')
  <2>1. CASE answer' = Planning!Failed("latest") /\ preflight' = preflight
    BY <1>2, <2>1 DEF AnswerOk, Errors
  <2>2. CASE preflight' = Planning!UnresolvedLatest /\ answer' = answer
    BY <1>2, <2>2 DEF PreflightOk
  <2>3. CASE /\ process.profile.kind = "report" /\ process.plan.schema /\ process.plan.targets = <<>>
             /\ answer' = Planning!ExecuteLatest(process.profile) /\ preflight' = preflight
    <3> DEFINE q == [process.plan EXCEPT !.asOf = "newest"]
               profile == process.profile
               r == Planning!Admit(q, profile)
    <3>1. q.schema /\ q.targets = <<>> /\ q.profile = process.plan.profile /\ q.asOf = "newest"
      BY <1>2, <2>3 DEF Planning!CandidatePlan
    <3> HIDE DEF q
    <3>2. q.profile # Absent
      <4>1. profile.id \in STRING /\ profile.aliases \in SUBSET STRING
        BY <1>2 DEF Proper, Planning!ProfileDigested, Planning!Profile
      <4> QED BY <1>2, <3>1, <4>1, PlansConstants
    <3>3. Planning!PlanValid(q)
      BY <3>1, <3>2 DEF Planning!PlanValid, Planning!UniqueTargets
    <3>4. r.profile = profile
      BY <1>2, <2>3, <3>1, <3>3 DEF Planning!Admit
    <3>5. answer'.status = "answered" /\ answer'.request = r /\ answer'.witness = Absent
      BY <2>3, ReceiptFields DEF Planning!ExecuteLatest, q
    <3> HIDE DEF r
    <3> QED BY <1>2, <2>3, <3>4, <3>5 DEF AnswerOk
  <2> QED BY <1>1, <2>1, <2>2, <2>3
<1> QED BY <1>1, <1>3, <1>4 DEF PlansInv

\* SetToSeq lists a finite set, each of its members once.
LEMMA PlansListed ==
  ASSUME NEW S, IsFiniteSet(S), NEW s, s = Planning!SetToSeq(S)
  PROVE  /\ s \in Seq(S) /\ Planning!ToSet(s) = S
         /\ \A i, j \in DOMAIN s : s[i] = s[j] => i = j
         /\ s = <<>> <=> S = {}
<1> DEFINE n == Cardinality(S)
<1>1. n \in Nat /\ ExistsBijection(1..n, S)
  BY FS_CardinalityType
<1>2. IsFiniteSet(1..n) /\ Cardinality(1..n) = n
  BY <1>1, FS_Interval
<1>3. s = CHOOSE f \in [1..n -> S] : Planning!IsInjective(f)
  BY PlansCounted DEF Planning!SetToSeq
<1> HIDE DEF n
<1>4. \E f \in [1..n -> S] : Planning!IsInjective(f)
  BY <1>1 DEF ExistsBijection, Bijection, Injection, IsInjective, Planning!IsInjective
<1>5. s \in [1..n -> S] /\ Planning!IsInjective(s)
  BY <1>3, <1>4
<1>6. s \in Injection(1..n, S)
  BY <1>5 DEF Injection, IsInjective, Planning!IsInjective
<1>7. s \in Surjection(1..n, S)
  BY <1>2, <1>6, FS_Injection DEF n
<1>8. s \in Seq(S) /\ DOMAIN s = 1..n /\ Len(s) = n
  BY <1>1, <1>5
<1>9. \A x \in S : \E i \in 1..n : s[i] = x
  BY <1>7 DEF Surjection
<1>10. Planning!ToSet(s) = S
  BY <1>5, <1>8, <1>9 DEF Planning!ToSet
<1>11. \A i, j \in DOMAIN s : s[i] = s[j] => i = j
  BY <1>5, <1>8 DEF Planning!IsInjective
<1>12. s = <<>> <=> S = {}
  <2>1. S = {} => n = 0
    BY FS_EmptySet DEF n
  <2>2. n = 0 => s = <<>>
    BY <1>8
  <2>3. s = <<>> => S = {}
    BY <1>10 DEF Planning!ToSet
  <2> QED BY <2>1, <2>2, <2>3
<1> QED BY <1>8, <1>10, <1>11, <1>12

\* What an intent compiles to, over a catalog that validates.
LEMMA CompiledProper ==
  ASSUME NEW intent \in Intents, NEW c \in Catalogs, Planning!CatalogValid(c),
         NEW d, d = Planning!Compile(intent, c)
  PROVE  /\ d.kind = "resolved" => ResolvedOk(d, intent) /\ d.plan \in Planning!CandidatePlan
         /\ d.kind = "clarification" => \A p \in d.options : Proper(p)
<1> DEFINE able == {Planning!Resolve(c, c[i].id) : i \in {j \in DOMAIN c : c[j].kind = intent.selector}}
<1>1. \A p \in able : Proper(p)
  BY ResolvesOwn
<1>2. ASSUME NEW profile, Proper(profile), d = Planning!ForResolved(intent, profile)
      PROVE  /\ d.kind \in {"resolved", "refused"}
             /\ d.kind = "resolved" => ResolvedOk(d, intent) /\ d.plan \in Planning!CandidatePlan
  <2> DEFINE declared == IF profile.tls = Absent THEN {} ELSE profile.tls.declared
             cited == {t \in declared : t.id \in intent.targetIds}
             plan0 == [schema |-> TRUE, profile |-> profile.id, asOf |-> intent.asOf,
                       targets |-> Planning!SetToSeq(cited)]
  <2>1. CASE intent.targetIds \subseteq {t.id : t \in declared}
    <3>1. d = [kind |-> "resolved", profile |-> profile, plan |-> plan0]
      BY <1>2, <2>1 DEF Planning!ForResolved
    <3>2. d.kind = "resolved" /\ d.profile = profile /\ d.plan = plan0
      BY <3>1
    <3>3. ResolvedOk(d, intent)
      BY <1>2, <3>2 DEF ResolvedOk
    <3>4. /\ profile.kind \in {"report", "tls"} /\ profile.id \in STRING
      BY <1>2 DEF Proper, Planning!ProfileDigested, Planning!Profile
    <3>5. declared \in SUBSET Planning!TlsTarget /\ IsFiniteSet(declared)
      <4>1. CASE profile.kind = "report"
        BY <1>2, <4>1, FS_EmptySet DEF Proper
      <4>2. CASE profile.kind = "tls"
        BY <1>2, <4>2 DEF Proper, ProperSurvey, Planning!TlsCertProfile
      <4> QED BY <3>4, <4>1, <4>2
    <3>6. cited \in SUBSET declared
      OBVIOUS
    <3> HIDE DEF cited, declared
    <3>7. IsFiniteSet(cited) /\ cited \in SUBSET Planning!TlsTarget
      BY <3>5, <3>6, FS_Subset
    <3>8. Planning!SetToSeq(cited) \in Seq(cited)
      BY <3>7, PlansListed
    <3>9. Planning!SetToSeq(cited) \in Seq(Planning!TlsTarget)
      BY <3>7, <3>8
    <3>10. intent.asOf \in Planning!Instants
      BY PlansConstants DEF Planning!InquiryIntent
    <3>11. plan0 \in Planning!CandidatePlan
      BY <3>4, <3>9, <3>10 DEF Planning!CandidatePlan
    <3> QED BY <3>2, <3>3, <3>11
  <2>2. CASE ~(intent.targetIds \subseteq {t.id : t \in declared})
    <3>1. d = [kind |-> "refused", why |-> "target_undeclared"]
      BY <1>2, <2>2 DEF Planning!ForResolved
    <3> QED BY <3>1
  <2> QED BY <2>1, <2>2
<1>3. CASE intent.by = "profile"
  <2>1. CASE Planning!Resolve(c, intent.selector) = Absent
    BY <1>3, <2>1 DEF Planning!Compile
  <2>2. CASE Planning!Resolve(c, intent.selector) # Absent
    <3>1. Proper(Planning!Resolve(c, intent.selector))
      BY <2>2, ResolvedProper
    <3>2. d = Planning!ForResolved(intent, Planning!Resolve(c, intent.selector))
      BY <1>3, <2>2 DEF Planning!Compile
    <3> QED BY <1>2, <3>1, <3>2
  <2> QED BY <2>1, <2>2
<1>4. CASE intent.by # "profile"
  <2>1. CASE able = {}
    <3>1. d = [kind |-> "refused", why |-> "question_unanswerable"]
      BY <1>4, <2>1 DEF Planning!Compile
    <3> QED BY <3>1
  <2>2. CASE able # {} /\ Planning!Cardinality(able) > 1
    <3>1. d = [kind |-> "clarification", options |-> able]
      BY <1>4, <2>2 DEF Planning!Compile
    <3>2. d.kind = "clarification" /\ d.options = able
      BY <3>1
    <3> QED BY <1>1, <3>2
  <2>3. CASE able # {} /\ ~(Planning!Cardinality(able) > 1)
    <3>1. d = Planning!ForResolved(intent, CHOOSE p \in able : TRUE)
      BY <1>4, <2>3 DEF Planning!Compile
    <3>2. Proper(CHOOSE p \in able : TRUE)
      BY <1>1, <2>3
    <3> QED BY <1>2, <3>1, <3>2
  <2> QED BY <2>1, <2>2, <2>3
<1> QED BY <1>3, <1>4

\* An intent is compiled to a plan, or answered with a question.
LEMMA CompileStep ==
  ASSUME PlansInv, NEW intent \in Intents, NEW emit \in BOOLEAN, Planning!CompileIntent(intent, emit)
  PROVE  PlansInv'
<1> DEFINE d == Planning!Compile(intent, catalogFile)
           x == [intent |-> intent, disposition |-> d]
<1>1. /\ UNCHANGED <<catalogFile, process, preflight, answer, escalation>>
      /\ Planning!CatalogValid(catalogFile) /\ compiled' = x
      /\ \/ planFile' = planFile
         \/ d.kind = "resolved" /\ planFile' = d.plan
  BY DEF Planning!CompileIntent
<1>2. catalogFile \in Catalogs /\ planFile \in Planning!CandidatePlan
  BY DEF PlansInv
<1>3. /\ d.kind = "resolved" => ResolvedOk(d, intent) /\ d.plan \in Planning!CandidatePlan
      /\ d.kind = "clarification" => \A p \in d.options : Proper(p)
  BY <1>1, <1>2, CompiledProper
<1> HIDE DEF d
<1>4. compiled'.intent = intent /\ compiled'.disposition = d
  BY <1>1
<1>5. CompiledOk(compiled')
  BY <1>3, <1>4 DEF CompiledOk
<1>6. planFile' \in Planning!CandidatePlan
  BY <1>1, <1>2, <1>3
<1> QED BY <1>1, <1>5, <1>6 DEF PlansInv

\* Every step keeps the invariant.
LEMMA PlansStep ==
  ASSUME PlansInv, Planning!PlansNext
  PROVE  PlansInv'
<1>1. CASE Planning!ReadPlan
  BY <1>1, ReadPlanStep
<1>2. CASE Planning!ReadCatalog
  BY <1>2, ReadCatalogStep
<1>3. CASE Planning!Prepare
  BY <1>3, PrepareStep
<1>4. CASE Planning!PrepareLatest
  BY <1>4, PrepareLatestStep
<1>5. ASSUME NEW e \in Envelopes, Planning!EmitEscalation(e)
      PROVE  PlansInv'
  <2>1. /\ Planning!Bindable(answer, e) /\ Planning!Citable(answer, e)
        /\ escalation' = [source |-> answer, envelope |-> e]
        /\ UNCHANGED <<planFile, catalogFile, process, compiled, preflight, answer>>
    BY <1>5 DEF Planning!EmitEscalation
  <2>2. escalation'.source = answer /\ escalation'.envelope = e
    BY <2>1
  <2>3. EscalationOk(escalation')
    BY <2>1, <2>2 DEF PlansInv, EscalationOk
  <2> QED BY <2>1, <2>3 DEF PlansInv
<1>6. CASE \E i \in Intents, emit \in BOOLEAN : Planning!CompileIntent(i, emit)
  BY <1>6, CompileStep
<1>7. CASE Planning!Mint
  BY <1>7 DEF Planning!Mint, PlansInv
<1>8. CASE Planning!Edit
  <2>1. /\ UNCHANGED <<process, compiled, preflight, answer, escalation>>
        /\ planFile' \in Plans \/ planFile' = planFile
        /\ catalogFile' \in Catalogs \/ catalogFile' = catalogFile
    BY <1>8 DEF Planning!Edit
  <2> QED BY <2>1, PlansConstants DEF PlansInv
<1> QED BY <1>1, <1>2, <1>3, <1>4, <1>5, <1>6, <1>7, <1>8 DEF Planning!PlansNext

\* The invariant depends on the variables of the planner alone.
LEMMA PlansStutter ==
  ASSUME PlansInv, UNCHANGED plansVars
  PROVE  PlansInv'
BY DEF PlansInv, plansVars

\* Work that was answered for is within its grant.
LEMMA AnsweredWithin ==
  ASSUME NEW x, AnswerOk(x), x # Absent, x.status = "answered", x.witness # Absent
  PROVE  /\ x.witness.targets \subseteq x.grant.scope
         /\ x.witness.targets \subseteq x.request.profile.tls.declared
         /\ Planning!AtMost(Planning!EnvelopeOf(x.witness), x.grant.envelope)
         /\ Planning!EnvelopeOf(x.witness)["wall"] >=
              x.witness.perTarget * Planning!Cardinality(x.witness.targets)
<1>1. \A why : Planning!Failed(why).status = "error"
  BY DEF Planning!Failed
<1>2. /\ ProperRequest(x.request) /\ x.request \in Planning!Request /\ x.request.profile.kind = "tls"
      /\ x.witness = Planning!WitnessPlan(x.request)
      /\ Planning!Refusal(x.grant, Planning!Render(x.request).needs) = "none"
  BY <1>1 DEF AnswerOk
<1> DEFINE p == Planning!Render(x.request)
<1>3. /\ p.witness = x.witness /\ p.witness.targets = x.request.targets
      /\ p.needs.scope = x.request.targets /\ p.needs.envelope = Planning!EnvelopeOf(x.witness)
      /\ Planning!EnvelopeValid(x.witness)
  BY <1>2, RenderValid
<1>4. p.needs.scope \subseteq x.grant.scope /\ Planning!AtMost(p.needs.envelope, x.grant.envelope)
  BY <1>2, GrantCovers
<1> HIDE DEF p
<1>5. x.request.targets \subseteq x.request.profile.tls.declared
  BY <1>2 DEF ProperRequest
<1>6. Planning!EnvelopeOf(x.witness)["wall"] = x.witness.total
  BY DEF Planning!EnvelopeOf, Planning!Dimensions
<1>7. x.witness.total >= x.witness.perTarget * Planning!Cardinality(x.witness.targets)
  BY <1>3 DEF Planning!EnvelopeValid
<1> QED BY <1>3, <1>4, <1>5, <1>6, <1>7

\* A grant minted after a preflight is enough, with the bounds foretold.
LEMMA GrantForetold ==
  ASSUME PlansInv
  PROVE  Planning!GrantedAsForetold
<1> SUFFICES ASSUME answer # Absent, preflight # Absent, answer.status \in {"answered", "refused"},
                    answer.request = preflight.request, answer.request.profile.kind = "tls",
                    answer.grant = preflight.needs
             PROVE  answer.status = "answered" /\ answer.witness = preflight.witness
  BY DEF Planning!GrantedAsForetold
<1> DEFINE r == answer.request
           needs == Planning!Render(r).needs
<1>1. \A why : Planning!Failed(why).status = "error"
  BY DEF Planning!Failed
<1>2. /\ ProperRequest(r) /\ r \in Planning!Request /\ answer.witness = Planning!WitnessPlan(r)
      /\ answer.status = "answered" \/ answer.grant = Absent \/ RefusedFor(answer.grant, needs)
  BY <1>1 DEF PlansInv, AnswerOk
<1>3. r # Absent
  BY <1>2, PlansConstants
<1>4. preflight = Planning!Render(r)
  <2>1. Planning!UnresolvedLatest.request = Absent
    BY DEF Planning!UnresolvedLatest
  <2>2. PICK q \in Planning!Request : ProperRequest(q) /\ preflight = Planning!Render(q)
    BY <1>3, <2>1 DEF PlansInv, PreflightOk
  <2>3. Planning!Render(q).request = q
    BY <2>2, RenderValid
  <2> QED BY <2>2, <2>3
<1>5. needs \in Planning!Needs /\ preflight.witness = Planning!WitnessPlan(r) /\ preflight.needs = needs
  BY <1>2, <1>4, RenderValid
<1>6. answer.grant # Absent /\ ~RefusedFor(needs, needs)
  BY <1>2, <1>5, PlansConstants, ExactGrant
<1> QED BY <1>2, <1>5, <1>6

\* The three checks of a profile's bounds agree.
LEMMA NoEnvelopeError ==
  ASSUME PlansInv
  PROVE  Planning!BoundsAgree
<1>1. \A why : Planning!Failed(why).status = "error" /\ Planning!Failed(why).why = why
  BY DEF Planning!Failed
<1>2. "envelope" \notin Errors
  BY DEF Errors
<1> QED BY <1>1, <1>2 DEF PlansInv, AnswerOk, Planning!BoundsAgree

\* A request for a wider grant cites targets only of work that was granted.
LEMMA EscalationWithin ==
  ASSUME PlansInv
  PROVE  Planning!EscalationCites
<1> SUFFICES ASSUME escalation # Absent, NEW t \in escalation.envelope.targets
             PROVE  escalation.source.witness # Absent /\ t \in escalation.source.grant.scope
  BY DEF Planning!EscalationCites
<1> DEFINE x == escalation.source
<1>1. AnswerOk(x) /\ Planning!Bindable(x, escalation.envelope) /\ Planning!Citable(x, escalation.envelope)
  BY DEF PlansInv, EscalationOk
<1> HIDE DEF x
<1>2. x # Absent /\ x.status = "answered" /\ x.witness # Absent /\ t \in x.witness.targets
  BY <1>1 DEF Planning!Bindable, Planning!Citable
<1>3. x.witness.targets \subseteq x.grant.scope
  BY <1>1, <1>2, AnsweredWithin
<1> QED BY <1>2, <1>3 DEF x

\* A plan compiled from an intent is admitted for what was cited.
LEMMA ResolvedAdmitted ==
  ASSUME NEW intent \in Intents, NEW d, ResolvedOk(d, intent), d.kind = "resolved", d.plan.asOf = "t"
  PROVE  LET request == Planning!Admit(d.plan, d.profile) IN
         /\ request # Absent
         /\ d.profile.kind = "tls" =>
              {t.id : t \in request.targets} =
                (IF intent.targetIds = {} THEN {t.id : t \in d.profile.tls.declared}
                 ELSE intent.targetIds)
<1> DEFINE profile == d.profile
           declared == IF profile.tls = Absent THEN {} ELSE profile.tls.declared
           cited == {t \in declared : t.id \in intent.targetIds}
           s == Planning!SetToSeq(cited)
           q == [schema |-> TRUE, profile |-> profile.id, asOf |-> intent.asOf, targets |-> s]
           request == Planning!Admit(d.plan, profile)
<1>1. Proper(profile) /\ d = Planning!ForResolved(intent, profile)
  BY DEF ResolvedOk
<1>2. intent.targetIds \subseteq {t.id : t \in declared} /\ d.plan = q
  <2>1. CASE ~(intent.targetIds \subseteq {t.id : t \in declared})
    <3>1. d = [kind |-> "refused", why |-> "target_undeclared"]
      BY <1>1, <2>1 DEF Planning!ForResolved
    <3>2. d.kind = "refused"
      BY <3>1
    <3> QED BY <3>2
  <2>2. CASE intent.targetIds \subseteq {t.id : t \in declared}
    <3>1. d = [kind |-> "resolved", profile |-> profile, plan |-> q]
      BY <1>1, <2>2 DEF Planning!ForResolved
    <3> DEFINE y == d.profile
    <3> HIDE DEF q
    <3>2. d.plan = q
      BY <3>1
    <3> QED BY <2>2, <3>2
  <2> QED BY <2>1, <2>2
<1>3. profile.kind \in {"report", "tls"} /\ profile.id \in STRING
  BY <1>1 DEF Proper, Planning!ProfileDigested, Planning!Profile
<1>4. /\ declared \in SUBSET Planning!TlsTarget /\ IsFiniteSet(declared)
      /\ Planning!ScopeValid(declared)
      /\ profile.kind = "report" => declared = {}
      /\ profile.kind = "tls" => /\ declared = profile.tls.declared
                                 /\ Cardinality(declared) <= profile.tls.maxTargets
                                 /\ profile.tls.maxTargets \in Nat
  <2>1. CASE profile.kind = "report"
    BY <1>1, <2>1, FS_EmptySet DEF Proper, Planning!ScopeValid
  <2>2. CASE profile.kind = "tls"
    BY <1>1, <2>2 DEF Proper, ProperSurvey, Planning!TlsCertProfile
  <2> QED BY <1>3, <2>1, <2>2
<1>5. cited \in SUBSET declared /\ \A t \in cited : t.id \in intent.targetIds
  OBVIOUS
<1>6. \A y \in intent.targetIds : \E t \in cited : t.id = y
  BY <1>2
<1> HIDE DEF cited, declared, profile
<1>7. IsFiniteSet(cited)
  BY <1>4, <1>5, FS_Subset
<1>8. /\ s \in Seq(cited) /\ Planning!ToSet(s) = cited
      /\ \A i, j \in DOMAIN s : s[i] = s[j] => i = j
      /\ s = <<>> <=> cited = {}
  BY <1>7, PlansListed
<1> HIDE DEF s
<1>9. q.schema /\ q.profile = profile.id /\ q.asOf = intent.asOf /\ q.targets = s
  OBVIOUS
<1> HIDE DEF q
<1>10. \A i \in DOMAIN s : s[i] \in cited
  BY <1>8
<1>11. Planning!UniqueTargets(s)
  BY <1>4, <1>5, <1>8, <1>10 DEF Planning!UniqueTargets, Planning!ScopeValid
<1>12. Planning!PlanValid(q)
  <2>1. profile.id # Absent
    BY <1>3, PlansConstants
  <2>2. q.asOf = "t"
    BY <1>2
  <2> QED BY <1>9, <1>11, <2>1, <2>2 DEF Planning!PlanValid
<1> DEFINE wanted == IF cited = {} THEN declared ELSE cited
<1>13. profile.kind = "tls" => Planning!Wanted(q, profile) = wanted
  BY <1>4, <1>8, <1>9 DEF Planning!Wanted
<1>14. wanted \subseteq declared /\ Cardinality(wanted) <= Cardinality(declared)
       /\ Cardinality(wanted) \in Nat /\ Cardinality(declared) \in Nat
  BY <1>4, <1>5, <1>7, FS_Subset, FS_CardinalityType
<1> HIDE DEF wanted
<1>15. profile.kind = "tls" => /\ Planning!Cardinality(wanted) <= profile.tls.maxTargets
                               /\ wanted \subseteq profile.tls.declared
  BY <1>4, <1>14, PlansCounted
<1>16. profile.kind = "report" => s = <<>>
  BY <1>4, <1>5, <1>8
<1> DEFINE T == IF profile.kind = "report" THEN {} ELSE wanted
           rec == [profile |-> profile, asOf |-> q.asOf, targets |-> T]
<1>17. request = rec
  <2>1. q.profile \in {profile.id} \cup profile.aliases
    BY <1>9
  <2>2. CASE profile.kind = "report"
    BY <1>2, <1>9, <1>12, <1>16, <2>1, <2>2 DEF Planning!Admit
  <2>3. CASE profile.kind = "tls"
    BY <1>2, <1>12, <1>13, <1>15, <2>1, <2>3 DEF Planning!Admit
  <2> QED BY <1>3, <2>2, <2>3
<1>18. rec \in Planning!Request /\ rec.targets = T
  <2>1. T \in SUBSET Planning!TlsTarget
    BY <1>4, <1>14
  <2>2. q.asOf \in Planning!Instants /\ profile \in Planning!ProfileDigested
    BY <1>1, <1>9, PlansConstants DEF Planning!InquiryIntent, Proper
  <2> HIDE DEF T
  <2> QED BY <2>1, <2>2 DEF Planning!Request
<1>19. request # Absent
  BY <1>17, <1>18, PlansConstants
<1>20. profile.kind = "tls" =>
         {t.id : t \in wanted} = (IF intent.targetIds = {} THEN {t.id : t \in profile.tls.declared}
                                  ELSE intent.targetIds)
  <2> SUFFICES ASSUME profile.kind = "tls"
               PROVE  {t.id : t \in wanted} =
                        (IF intent.targetIds = {} THEN {t.id : t \in profile.tls.declared}
                         ELSE intent.targetIds)
    OBVIOUS
  <2>1. CASE intent.targetIds = {}
    <3>1. cited = {}
      BY <1>5, <2>1
    <3> QED BY <1>4, <2>1, <3>1 DEF wanted
  <2>2. CASE intent.targetIds # {}
    <3>1. cited # {}
      BY <1>6, <2>2
    <3>2. wanted = cited
      BY <3>1 DEF wanted
    <3>3. {t.id : t \in cited} = intent.targetIds
      BY <1>5, <1>6
    <3> QED BY <2>2, <3>2, <3>3
  <2> QED BY <2>1, <2>2
<1>21. profile.kind = "tls" => request.targets = wanted
  BY <1>17, <1>18
<1> HIDE DEF request
<1>22. /\ request # Absent
       /\ profile.kind = "tls" =>
            {t.id : t \in request.targets} =
              (IF intent.targetIds = {} THEN {t.id : t \in profile.tls.declared}
               ELSE intent.targetIds)
  BY <1>19, <1>20, <1>21
<1> QED BY <1>22 DEF request, profile

\* An option of a clarification can be chosen.
LEMMA OptionChosen ==
  ASSUME NEW intent \in Intents, NEW p, Proper(p), Planning!Resolve(catalogFile, p.id) = p,
         NEW chosen, chosen = [intent EXCEPT !.by = "profile", !.selector = p.id, !.targetIds = {}]
  PROVE  Planning!Compile(chosen, catalogFile).profile = p
<1>1. intent \in Planning!InquiryIntent
  BY PlansConstants
<1>2. chosen.by = "profile" /\ chosen.selector = p.id /\ chosen.targetIds = {}
  BY <1>1 DEF Planning!InquiryIntent
<1>3. p # Absent
  BY PlansConstants DEF Proper
<1>4. Planning!Compile(chosen, catalogFile) = Planning!ForResolved(chosen, p)
  BY <1>2, <1>3 DEF Planning!Compile
<1>5. Planning!ForResolved(chosen, p).profile = p
  BY <1>2 DEF Planning!ForResolved
<1> QED BY <1>4, <1>5

\* A compiled plan is admitted, for the targets that were cited.
LEMMA IntentAsked ==
  ASSUME PlansInv
  PROVE  Planning!IntentIsAsked
<1> SUFFICES ASSUME compiled # Absent
             PROVE  LET d == compiled.disposition
                        cited == compiled.intent.targetIds
                    IN /\ d.kind = "resolved" /\ d.plan.asOf = "t"
                          /\ Planning!Resolve(catalogFile, d.plan.profile) = d.profile
                          => LET request == Planning!Admit(d.plan, d.profile) IN
                             /\ request # Absent
                             /\ d.profile.kind = "tls" =>
                                  {t.id : t \in request.targets} =
                                    (IF cited = {} THEN {t.id : t \in d.profile.tls.declared} ELSE cited)
                       /\ d.kind = "clarification" =>
                            \A p \in d.options :
                              Planning!Resolve(catalogFile, p.id) = p =>
                                LET chosen == [compiled.intent EXCEPT !.by = "profile", !.selector = p.id,
                                                                      !.targetIds = {}]
                                IN Planning!Compile(chosen, catalogFile).profile = p
  BY DEF Planning!IntentIsAsked
<1>1. /\ compiled.intent \in Intents
      /\ compiled.disposition.kind = "resolved" => ResolvedOk(compiled.disposition, compiled.intent)
      /\ compiled.disposition.kind = "clarification" =>
           \A p \in compiled.disposition.options : Proper(p)
  BY DEF PlansInv, CompiledOk
<1> DEFINE d == compiled.disposition
           intent == compiled.intent
           request == Planning!Admit(d.plan, d.profile)
<1>2. ASSUME d.kind = "resolved", d.plan.asOf = "t"
      PROVE  /\ request # Absent
             /\ d.profile.kind = "tls" =>
                  {t.id : t \in request.targets} =
                    (IF intent.targetIds = {} THEN {t.id : t \in d.profile.tls.declared}
                     ELSE intent.targetIds)
  <2>1. intent \in Intents /\ ResolvedOk(d, intent)
    BY <1>1, <1>2
  <2> HIDE DEF d, intent
  <2> QED BY <1>2, <2>1, ResolvedAdmitted
<1>3. ASSUME d.kind = "clarification", NEW p \in d.options, Planning!Resolve(catalogFile, p.id) = p
      PROVE  Planning!Compile([intent EXCEPT !.by = "profile", !.selector = p.id, !.targetIds = {}],
                              catalogFile).profile = p
  <2>1. intent \in Intents /\ Proper(p)
    BY <1>1, <1>3
  <2> HIDE DEF d, intent
  <2> QED BY <1>3, <2>1, OptionChosen
<1> QED BY <1>2, <1>3

\* The invariant of InquiryPlans holds throughout.
LEMMA PlansTyped == InquiriesSpec => [](part = "plans" => PlansInv)
<1>1. InquiriesInit => (part = "plans" => PlansInv)
  BY PlansStart DEF InquiriesInit
<1>2. (part = "plans" => PlansInv) /\ [InquiriesNext]_inquiryVars => (part = "plans" => PlansInv)'
  <2> SUFFICES ASSUME part = "plans" => PlansInv, [InquiriesNext]_inquiryVars, part' = "plans"
               PROVE  PlansInv'
    OBVIOUS
  <2>1. part = "plans" /\ (Planning!PlansNext \/ UNCHANGED plansVars)
    BY DEF InquiriesNext, inquiryVars
  <2> QED BY <2>1, PlansStep, PlansStutter
<1> QED BY <1>1, <1>2, PTL DEF InquiriesSpec

\* PreflightForetells: over every catalog, plan and intent that parses, a grant
\* for what a preflight asks is enough, no valid profile fails on its bounds, no
\* edit of the files leads outside the grant, a compiled intent is admitted for
\* what it cites, and an escalation cites granted work only (inquire.rs,
\* intent.rs).
THEOREM Foretold == InquiriesSpec => []PreflightForetells
<1>1. (part = "plans" => PlansInv) => PreflightForetells
  <2> SUFFICES ASSUME PlansInv, part = "plans" PROVE PreflightForetells
    BY DEF PreflightForetells
  <2>1. Planning!ExecutedWithinGrant
    BY AnsweredWithin DEF PlansInv, Planning!ExecutedWithinGrant
  <2> QED BY <2>1, GrantForetold, NoEnvelopeError, IntentAsked, EscalationWithin
          DEF PreflightForetells
<1> QED BY <1>1, PlansTyped, PTL
=============================================================================
