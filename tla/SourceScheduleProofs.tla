------------------------- MODULE SourceScheduleProofs -------------------------
(***************************************************************************)
(* Proofs about SourceSchedule, for every list of sources, weights, poll   *)
(* intervals and fault patterns: the ranking is a strict order, the source *)
(* it puts first is always admitted, the admitted never outweigh the tick, *)
(* no single fault shuts a source out, a stale streak is announced once    *)
(* per mark that was lost, and no punctual source waits longer than a      *)
(* bound that every fault raises by one round.                             *)
(***************************************************************************)
EXTENDS SourceSchedule, DataLemmas, FiniteSetTheorems

(***************************************************************************)
(* The sources.                                                            *)
(***************************************************************************)
LEMMA SourcesFinite == IsFiniteSet(Sources)
<1>1. Len(Declared) \in Nat /\ DOMAIN Declared = 1..Len(Declared)
  BY SourceAssumption, LenProperties
<1>2. Declared \in Surjection(1..Len(Declared), Sources)
  BY <1>1, SourceAssumption DEF Sources, Range, Surjection
<1>3. IsFiniteSet(1..Len(Declared))
  BY <1>1, FS_Interval
<1>4. QED
  BY <1>2, <1>3, FS_Surjection

LEMMA PositionIsUnique ==
  ASSUME NEW s \in Sources
  PROVE  Position(s) \in Nat /\ Declared[Position(s)] = s
<1>1. Len(Declared) \in Nat /\ DOMAIN Declared = 1..Len(Declared)
  BY SourceAssumption, LenProperties
<1>2. \E i \in DOMAIN Declared : Declared[i] = s
  BY DEF Sources, Range
<1>3. Position(s) \in DOMAIN Declared /\ Declared[Position(s)] = s
  BY <1>2 DEF Position
<1>4. QED
  BY <1>1, <1>3

(***************************************************************************)
(* Ranking.  AtLeast(last, s, t): s is at least as overdue as t.           *)
(***************************************************************************)
AtLeast(last, s, t) == ~ MoreOverdue(last, t, s)

Ages == [Sources -> 0..Never]

LEMMA NeverType == Never \in Nat /\ Never > AgeCap /\ AgeCap \in Nat
BY BoundAssumption DEF Never

\* Ratios, compared by cross-multiplication, are transitive.
LEMMA RatioTransitive ==
  ASSUME NEW a \in Nat, NEW b \in Nat, NEW c \in Nat,
         NEW i \in Nat \ {0}, NEW j \in Nat \ {0}, NEW k \in Nat \ {0},
         b * i <= a * j, c * j <= b * k
  PROVE  c * i <= a * k
<1>1. (c * j) * i <= (b * k) * i
  <2>1. \A x, y, z \in Nat : x <= y => x * z <= y * z
    OBVIOUS
  <2>2. c * j \in Nat /\ b * k \in Nat
    OBVIOUS
  <2>3. QED
    BY <2>1, <2>2
<1>2. (b * i) * k <= (a * j) * k
  <2>1. \A x, y, z \in Nat : x <= y => x * z <= y * z
    OBVIOUS
  <2>2. b * i \in Nat /\ a * j \in Nat
    OBVIOUS
  <2>3. QED
    BY <2>1, <2>2
<1>3. /\ (c * j) * i = (c * i) * j
      /\ (b * k) * i = (b * i) * k
      /\ (a * j) * k = (a * k) * j
  OBVIOUS
<1>4. (c * i) * j <= (a * k) * j
  <2>1. /\ (c * i) * j \in Nat /\ (a * k) * j \in Nat /\ (b * i) * k \in Nat
    OBVIOUS
  <2>2. QED
    BY <1>1, <1>2, <1>3, <2>1
<1>5. QED
  <2>1. \A x, y \in Nat : \A z \in Nat \ {0} : x * z <= y * z => x <= y
    OBVIOUS
  <2>2. c * i \in Nat /\ a * k \in Nat
    OBVIOUS
  <2>3. QED
    BY <1>4, <2>1, <2>2

LEMMA AtLeastTransitive ==
  ASSUME NEW last \in Ages, NEW s \in Sources, NEW t \in Sources, NEW u \in Sources,
         AtLeast(last, s, t), AtLeast(last, t, u)
  PROVE  AtLeast(last, s, u)
<1>1. /\ {last[s], last[t], last[u]} \subseteq Nat
      /\ {Interval[s], Interval[t], Interval[u]} \subseteq Nat \ {0}
  BY NeverType, ScheduleAssumption DEF Ages
<1>2. CASE last[s] = Never
  BY <1>2 DEF AtLeast, MoreOverdue
<1>3. CASE last[s] # Never
  <2>1. last[t] # Never /\ last[u] # Never
    BY <1>3 DEF AtLeast, MoreOverdue
  <2>2. /\ ~ (last[t] * Interval[s] > last[s] * Interval[t])
        /\ ~ (last[u] * Interval[t] > last[t] * Interval[u])
    BY <1>3, <2>1 DEF AtLeast, MoreOverdue
  <2>3. /\ last[t] * Interval[s] <= last[s] * Interval[t]
        /\ last[u] * Interval[t] <= last[t] * Interval[u]
    <3>1. \A x, y, z, w \in Nat : ~ (x * y > z * w) => x * y <= z * w
      OBVIOUS
    <3>2. QED
      BY <1>1, <2>2, <3>1
  <2>4. last[u] * Interval[s] <= last[s] * Interval[u]
    BY <1>1, <2>3, RatioTransitive
  <2>5. ~ (last[u] * Interval[s] > last[s] * Interval[u])
    <3>1. \A x, y, z, w \in Nat : x * y <= z * w => ~ (x * y > z * w)
      OBVIOUS
    <3>2. QED
      BY <1>1, <2>4, <3>1
  <2>6. QED
    BY <1>3, <2>1, <2>5 DEF AtLeast, MoreOverdue
<1>4. QED
  BY <1>2, <1>3

LEMMA AtLeastTotal ==
  ASSUME NEW last \in Ages, NEW s \in Sources, NEW t \in Sources
  PROVE  AtLeast(last, s, t) \/ AtLeast(last, t, s)
<1>1. /\ {last[s], last[t]} \subseteq Nat
      /\ {Interval[s], Interval[t]} \subseteq Nat \ {0}
  BY NeverType, ScheduleAssumption DEF Ages
<1>2. \A x, y, z, w \in Nat : ~ (x * y > z * w /\ z * w > x * y)
  OBVIOUS
<1>3. QED
  BY <1>1, <1>2 DEF AtLeast, MoreOverdue

\* Ties go to the shorter interval, then to the earlier declaration.
Earlier(s, t) ==
  \/ Interval[s] < Interval[t]
  \/ Interval[s] = Interval[t] /\ Position(s) < Position(t)

LEMMA AheadMeans ==
  ASSUME NEW last \in Ages, NEW s \in Sources, NEW t \in Sources
  PROVE  Ahead(last, s, t) <=>
           AtLeast(last, s, t) /\ (AtLeast(last, t, s) => Earlier(s, t))
BY AtLeastTotal DEF Ahead, AtLeast, Earlier

\* The ranking is a strict total order of the sources, whatever their ages.
THEOREM RankingIsAStrictOrder ==
  ASSUME NEW last \in Ages, NEW s \in Sources, NEW t \in Sources
  PROVE  /\ ~ Ahead(last, s, s)
         /\ s # t => (Ahead(last, s, t) \/ Ahead(last, t, s))
         /\ \A u \in Sources : Ahead(last, s, t) /\ Ahead(last, t, u) => Ahead(last, s, u)
<1>1. /\ \A x \in Sources : Position(x) \in Nat /\ Interval[x] \in Nat
      /\ s # t => Position(s) # Position(t)
  BY PositionIsUnique, ScheduleAssumption
<1>2. ~ Earlier(s, s) /\ (s # t => Earlier(s, t) \/ Earlier(t, s))
  BY <1>1 DEF Earlier
<1>3. ~ Ahead(last, s, s)
  BY <1>2, AheadMeans, AtLeastTotal
<1>4. s # t => (Ahead(last, s, t) \/ Ahead(last, t, s))
  BY <1>2, AheadMeans, AtLeastTotal
<1>5. ASSUME NEW u \in Sources, Ahead(last, s, t), Ahead(last, t, u)
      PROVE  Ahead(last, s, u)
  <2>1. /\ AtLeast(last, s, t) /\ (AtLeast(last, t, s) => Earlier(s, t))
        /\ AtLeast(last, t, u) /\ (AtLeast(last, u, t) => Earlier(t, u))
    BY <1>5, AheadMeans
  <2>2. AtLeast(last, s, u)
    BY <2>1, AtLeastTransitive
  <2>3. ASSUME AtLeast(last, u, s) PROVE Earlier(s, u)
    <3>1. AtLeast(last, t, s) /\ AtLeast(last, u, t)
      BY <2>1, <2>3, AtLeastTransitive
    <3>2. Earlier(s, t) /\ Earlier(t, u)
      BY <2>1, <3>1
    <3>3. QED
      BY <3>2, <1>1 DEF Earlier
  <2>4. QED
    BY <2>2, <2>3, AheadMeans
<1>6. QED
  BY <1>3, <1>4, <1>5

\* A place in the list for every due source, and no place twice.
IsRanking(place) ==
  /\ DOMAIN place \subseteq Sources
  /\ place \in [DOMAIN place -> Nat]
  /\ \A s, t \in DOMAIN place : place[s] = place[t] => s = t

LEMMA DueIsRanked ==
  ASSUME NEW last \in Ages, NEW eligible \in SUBSET Sources
  PROVE  LET place == DueWithPriority(last, eligible)
         IN /\ DOMAIN place = Due(last, eligible)
            /\ IsRanking(place)
            /\ \A s \in DOMAIN place :
                 (\A t \in DOMAIN place \ {s} : Ahead(last, s, t)) => place[s] = 0
<1> DEFINE due == Due(last, eligible)
           before(s) == {t \in due : Ahead(last, t, s)}
           place == DueWithPriority(last, eligible)
<1>1. due \subseteq Sources /\ IsFiniteSet(due)
  BY SourcesFinite, FS_Subset DEF Due
<1>2. place = [s \in due |-> Cardinality(before(s))]
  BY DEF DueWithPriority
<1> HIDE DEF place
<1>3. \A s \in due : IsFiniteSet(before(s)) /\ Cardinality(before(s)) \in Nat
  <2>1. \A s \in due : before(s) \subseteq due
    OBVIOUS
  <2> HIDE DEF due, before
  <2>2. QED
    BY <1>1, <2>1, FS_Subset, FS_CardinalityType
<1>4. DOMAIN place = due /\ \A s \in due : place[s] = Cardinality(before(s))
  BY <1>2
<1>5. place \in [due -> Nat]
  <2> HIDE DEF before
  <2>1. QED
    BY <1>2, <1>3
<1>6. ASSUME NEW s \in due, NEW t \in due, Ahead(last, s, t)
      PROVE  place[s] # place[t]
  <2>1. s \in Sources /\ t \in Sources
    BY <1>1
  <2>2. before(s) \subseteq before(t)
    <3>1. ASSUME NEW u \in due, Ahead(last, u, s) PROVE Ahead(last, u, t)
      BY <3>1, <1>6, <1>1, RankingIsAStrictOrder
    <3>2. QED
      BY <3>1
  <2>3. s \in before(t) /\ s \notin before(s)
    BY <1>6, <2>1, RankingIsAStrictOrder
  <2>4. IsFiniteSet(before(t))
    BY <1>3
  <2>5. Cardinality(before(t)) # Cardinality(before(s))
    <3> HIDE DEF before
    <3>1. QED
      BY <2>2, <2>3, <2>4, FS_Subset
  <2>6. QED
    BY <2>5, <1>4
<1>7. \A s, t \in due : place[s] = place[t] => s = t
  <2> HIDE DEF due
  <2>1. QED
    BY <1>1, <1>6, RankingIsAStrictOrder
<1>8. ASSUME NEW s \in due, \A t \in due \ {s} : Ahead(last, s, t)
      PROVE  place[s] = 0
  <2>1. ASSUME NEW t \in due, Ahead(last, t, s) PROVE FALSE
    <3>1. t \in Sources /\ s \in Sources
      BY <1>1
    <3>2. t # s
      BY <2>1, <3>1, RankingIsAStrictOrder
    <3>3. Ahead(last, s, t)
      BY <1>8, <3>2
    <3>4. Ahead(last, s, s)
      BY <2>1, <3>1, <3>3, RankingIsAStrictOrder
    <3>5. QED
      BY <3>1, <3>4, RankingIsAStrictOrder
  <2>2. before(s) = {}
    BY <2>1
  <2>3. QED
    BY <2>2, <1>4, FS_EmptySet
<1>9. QED
  BY <1>1, <1>4, <1>5, <1>7, <1>8 DEF IsRanking, place

(***************************************************************************)
(* Weights.                                                                *)
(***************************************************************************)
Units(S) == UNION {{s} \X (1..Weight[s]) : s \in S}

LEMMA UnitsFinite ==
  ASSUME NEW S \in SUBSET Sources
  PROVE  IsFiniteSet(Units(S)) /\ TotalWeight(S) = Cardinality(Units(S))
         /\ TotalWeight(S) \in Nat
<1> DEFINE part(s) == {s} \X (1..Weight[s])
           parts == {part(s) : s \in S}
           f == [s \in S |-> part(s)]
<1>1. IsFiniteSet(S)
  BY SourcesFinite, FS_Subset
<1>2. f \in Surjection(S, parts)
  BY DEF Surjection
<1>3. IsFiniteSet(parts)
  <2> HIDE DEF f, parts
  <2>1. QED
    BY <1>1, <1>2, FS_Surjection
<1>4. ASSUME NEW s \in S PROVE IsFiniteSet(part(s))
  <2>1. Weight[s] \in Nat
    BY ScheduleAssumption
  <2>2. IsFiniteSet(1..Weight[s]) /\ IsFiniteSet({s})
    <3>1. 1 \in Int /\ Weight[s] \in Int
      BY <2>1
    <3>2. QED
      BY <3>1, FS_Interval, FS_Singleton
  <2>3. QED
    BY <2>2, FS_Product
<1>5. \A T \in parts : IsFiniteSet(T)
  BY <1>4
<1>6. IsFiniteSet(UNION parts)
  <2> HIDE DEF parts
  <2>1. QED
    BY <1>3, <1>5, FS_UNION
<1>7. Units(S) = UNION parts /\ TotalWeight(S) = Cardinality(UNION parts)
  BY DEF Units, TotalWeight
<1>8. QED
  <2> HIDE DEF parts
  <2>1. QED
    BY <1>6, <1>7, FS_CardinalityType

\* One more source adds at most its weight.
LEMMA WeightOfOneMore ==
  ASSUME NEW S \in SUBSET Sources, NEW s \in Sources
  PROVE  TotalWeight(S \cup {s}) <= TotalWeight(S) + Weight[s]
<1> DEFINE part == {s} \X (1..Weight[s])
<1>1. Units(S \cup {s}) = Units(S) \cup part
  BY DEF Units
<1>2. Weight[s] \in Nat
  BY ScheduleAssumption
<1>3. IsFiniteSet(part) /\ Cardinality(part) = Weight[s]
  <2>1. IsFiniteSet(1..Weight[s]) /\ Cardinality(1..Weight[s]) = Weight[s]
    BY <1>2, FS_Interval
  <2>2. IsFiniteSet({s}) /\ Cardinality({s}) = 1
    BY FS_Singleton
  <2>3. Cardinality(part) = 1 * Weight[s] /\ IsFiniteSet(part)
    BY <2>1, <2>2, FS_Product
  <2>4. QED
    BY <2>3, <1>2
<1>4. IsFiniteSet(Units(S)) /\ TotalWeight(S) = Cardinality(Units(S))
      /\ TotalWeight(S) \in Nat
  BY UnitsFinite
<1>5. TotalWeight(S \cup {s}) = Cardinality(Units(S \cup {s}))
  BY UnitsFinite
<1> HIDE DEF part
<1>6. /\ Cardinality(Units(S) \cup part)
           = Cardinality(Units(S)) + Cardinality(part) - Cardinality(Units(S) \cap part)
      /\ IsFiniteSet(Units(S) \cap part)
  BY <1>3, <1>4, FS_Union, FS_Intersection
<1>7. Cardinality(Units(S) \cap part) \in Nat
  BY <1>6, FS_CardinalityType
<1>8. TotalWeight(S \cup {s})
        = TotalWeight(S) + Weight[s] - Cardinality(Units(S) \cap part)
  BY <1>1, <1>3, <1>4, <1>5, <1>6
<1>9. \A w, x, y, z \in Nat : w = x + y - z => w <= x + y
  OBVIOUS
<1>10. TotalWeight(S \cup {s}) \in Nat
  BY UnitsFinite
<1>11. QED
  BY <1>2, <1>4, <1>7, <1>8, <1>9, <1>10

\* Fewer sources weigh no more, and none weigh nothing.
LEMMA WeightMonotone ==
  ASSUME NEW S \in SUBSET Sources, NEW T \in SUBSET S
  PROVE  TotalWeight(T) <= TotalWeight(S)
<1>1. Units(T) \subseteq Units(S)
  BY DEF Units
<1>2. IsFiniteSet(Units(S)) /\ TotalWeight(S) = Cardinality(Units(S))
  BY UnitsFinite
<1>3. TotalWeight(T) = Cardinality(Units(T))
  BY UnitsFinite
<1>4. QED
  BY <1>1, <1>2, <1>3, FS_Subset

LEMMA WeightOfNone == TotalWeight({}) = 0
BY FS_EmptySet DEF TotalWeight

(***************************************************************************)
(* Admission.                                                              *)
(***************************************************************************)
Bearable(S) == TotalWeight(S) <= MaxTickWeight \/ Cardinality(S) = 1

\* What the recursion of AdmitWithinWeightBudget adds in its i-th step.
Admits(place, S, i) ==
  {s \in DOMAIN place : /\ place[s] = i - 1
                        /\ S = {} \/ TotalWeight(S) + Weight[s] <= MaxTickWeight}

IsAdmission(f, place) ==
  f = [i \in 0..Cardinality(DOMAIN place) |->
         IF i = 0 THEN {} ELSE f[i-1] \cup Admits(place, f[i-1], i)]

LEMMA AdmissionExists ==
  ASSUME NEW place, IsRanking(place)
  PROVE  \E f : IsAdmission(f, place)
<1> DEFINE n == Cardinality(DOMAIN place)
           S == SUBSET (DOMAIN place)
           step == [i \in Nat |-> [A \in S |-> A \cup Admits(place, A, i)]]
<1>1. IsFiniteSet(DOMAIN place) /\ n \in Nat
  BY SourcesFinite, FS_Subset, FS_CardinalityType DEF IsRanking
<1>2. step \in [Nat -> [S -> S]]
  BY DEF Admits
<1>3. {} \in S
  OBVIOUS
<1>4. PICK f \in [0..n -> S] : f[0] = {} /\ \A i \in 1..n : f[i] = step[i][f[i-1]]
  <2> HIDE DEF n, S, step
  <2>1. \E f : IsRecursion(f, S, {}, step, n)
    BY <1>1, <1>2, <1>3, RecursionExists, Zenon
  <2>2. QED
    BY <2>1 DEF IsRecursion
<1>5. \A i \in 1..n : f[i] = f[i-1] \cup Admits(place, f[i-1], i)
  <2> SUFFICES ASSUME NEW i \in 1..n
               PROVE  f[i] = f[i-1] \cup Admits(place, f[i-1], i)
    OBVIOUS
  <2> HIDE DEF n, S
  <2>1. i \in Nat /\ i - 1 \in 0..n
    BY <1>1
  <2>2. f[i-1] \in S
    BY <1>4, <2>1
  <2>3. step[i] = [A \in S |-> A \cup Admits(place, A, i)]
    BY <2>1
  <2> HIDE DEF step
  <2>4. f[i] = step[i][f[i-1]]
    BY <1>4
  <2>5. QED
    BY <2>2, <2>3, <2>4
<1>6. f = [i \in 0..n |-> IF i = 0 THEN {} ELSE f[i-1] \cup Admits(place, f[i-1], i)]
  <2>1. f = [i \in 0..n |-> f[i]]
    BY <1>4
  <2> HIDE DEF n, S
  <2>2. \A i \in 0..n : i # 0 => i \in 1..n
    BY <1>1
  <2>3. QED
    BY <1>1, <1>4, <1>5, <2>1, <2>2
<1>7. QED
  BY <1>6 DEF IsAdmission

\* Every stage of the admission is bearable, and none takes a source back.
LEMMA AdmissionStages ==
  ASSUME NEW place, IsRanking(place), NEW f, IsAdmission(f, place)
  PROVE  \A i \in 0..Cardinality(DOMAIN place) :
           /\ f[i] \subseteq DOMAIN place
           /\ Bearable(f[i])
           /\ i > 0 => f[1] \subseteq f[i]
<1> DEFINE n == Cardinality(DOMAIN place)
           Q(i) == /\ f[i] \subseteq DOMAIN place
                   /\ Bearable(f[i])
                   /\ i > 0 => f[1] \subseteq f[i]
           I == {i \in Nat : i <= n => Q(i)}
<1>1. IsFiniteSet(DOMAIN place) /\ n \in Nat /\ DOMAIN place \subseteq Sources
  BY SourcesFinite, FS_Subset, FS_CardinalityType DEF IsRanking
<1>2. f[0] = {} /\ \A i \in 1..n : f[i] = f[i-1] \cup Admits(place, f[i-1], i)
  <2>1. f[0] = {}
    BY <1>1 DEF IsAdmission
  <2>2. ASSUME NEW i \in 1..n PROVE f[i] = f[i-1] \cup Admits(place, f[i-1], i)
    <3>1. i \in 0..n /\ i # 0
      BY <1>1
    <3>2. f[i] = IF i = 0 THEN {} ELSE f[i-1] \cup Admits(place, f[i-1], i)
      BY <3>1 DEF IsAdmission
    <3>3. QED
      BY <3>1, <3>2
  <2>3. QED
    BY <2>1, <2>2
<1>3. 0 \in I
  <2>1. Bearable({})
    BY WeightOfNone, ScheduleAssumption DEF Bearable
  <2>2. QED
    BY <1>2, <2>1
<1>4. ASSUME NEW i \in Nat, i \in I PROVE i + 1 \in I
  <2> SUFFICES ASSUME i + 1 <= n PROVE Q(i + 1)
    OBVIOUS
  <2>1. Q(i)
    BY <1>1, <1>4
  <2>2. f[i+1] = f[i] \cup Admits(place, f[i], i+1)
    <3>1. i + 1 \in 1..n /\ (i + 1) - 1 = i
      BY <1>1
    <3> HIDE DEF n
    <3>2. QED
      BY <1>2, <3>1
  <2>3. f[i+1] \subseteq DOMAIN place
    BY <2>1, <2>2 DEF Admits
  <2>4. i + 1 > 0 => f[1] \subseteq f[i+1]
    <3>1. CASE i = 0
      BY <3>1
    <3>2. CASE i # 0
      BY <3>2, <2>1, <2>2
    <3>3. QED
      BY <3>1, <3>2
  <2>5. Bearable(f[i+1])
    <3>1. CASE Admits(place, f[i], i+1) = {}
      BY <3>1, <2>1, <2>2
    <3>2. ASSUME NEW s \in Admits(place, f[i], i+1) PROVE Bearable(f[i+1])
      <4>1. /\ s \in DOMAIN place /\ place[s] = i
            /\ f[i] = {} \/ TotalWeight(f[i]) + Weight[s] <= MaxTickWeight
        BY <3>2 DEF Admits
      <4>2. Admits(place, f[i], i+1) = {s}
        BY <3>2, <4>1 DEF Admits, IsRanking
      <4>3. f[i+1] = f[i] \cup {s}
        BY <2>2, <4>2
      <4>4. CASE f[i] = {}
        BY <4>3, <4>4, FS_Singleton DEF Bearable
      <4>5. CASE f[i] # {}
        <5>1. f[i] \in SUBSET Sources /\ s \in Sources
          BY <2>1, <4>1, <1>1
        <5>2. TotalWeight(f[i+1]) <= TotalWeight(f[i]) + Weight[s]
          BY <5>1, <4>3, WeightOfOneMore
        <5>3. TotalWeight(f[i]) \in Nat /\ Weight[s] \in Nat
          BY <5>1, UnitsFinite, ScheduleAssumption
        <5>4. TotalWeight(f[i+1]) \in Nat
          <6>1. f[i+1] \in SUBSET Sources
            BY <5>1, <4>3
          <6>2. QED
            BY <6>1, UnitsFinite
        <5>5. QED
          BY <4>1, <4>5, <5>2, <5>3, <5>4, ScheduleAssumption DEF Bearable
      <4>6. QED
        BY <4>4, <4>5
    <3>3. QED
      BY <3>1, <3>2
  <2>6. QED
    BY <2>3, <2>4, <2>5
<1>5. Nat \subseteq I
  <2> HIDE DEF I
  <2>1. QED
    BY <1>3, <1>4, SetInduction
<1>6. \A i \in 0..n : Q(i)
  <2> HIDE DEF n, Q
  <2>1. QED
    BY <1>1, <1>5
<1>7. QED
  BY <1>6

\* What is admitted is due and bearable; and the source ranked first is in.
LEMMA AdmissionHolds ==
  ASSUME NEW place, IsRanking(place)
  PROVE  LET admitted == AdmitWithinWeightBudget(place)
         IN /\ admitted \subseteq DOMAIN place
            /\ Bearable(admitted)
            /\ \A s \in DOMAIN place : place[s] = 0 => s \in admitted
<1> DEFINE n == Cardinality(DOMAIN place)
           f == CHOOSE g : IsAdmission(g, place)
<1>1. AdmitWithinWeightBudget(place) = f[n]
  BY DEF AdmitWithinWeightBudget, IsAdmission, Admits
<1>2. IsAdmission(f, place)
  BY AdmissionExists
<1> HIDE DEF f
<1>3. IsFiniteSet(DOMAIN place) /\ n \in Nat
  BY SourcesFinite, FS_Subset, FS_CardinalityType DEF IsRanking
<1>4. \A i \in 0..n : /\ f[i] \subseteq DOMAIN place /\ Bearable(f[i])
                      /\ i > 0 => f[1] \subseteq f[i]
  BY <1>2, AdmissionStages
<1>5. n \in 0..n
  BY <1>3
<1>6. ASSUME NEW s \in DOMAIN place, place[s] = 0
      PROVE  s \in f[n]
  <2>1. n > 0
    BY <1>3, FS_EmptySet
  <2>2. 1 \in 1..n /\ f[0] = {} /\ f[1] = f[0] \cup Admits(place, f[0], 1)
    BY <1>2, <1>3, <2>1 DEF IsAdmission
  <2>3. s \in Admits(place, {}, 1)
    BY <1>6 DEF Admits
  <2>4. QED
    BY <2>1, <2>2, <2>3, <1>4, <1>5
<1>7. QED
  <2> HIDE DEF n
  <2>1. QED
    BY <1>1, <1>4, <1>5, <1>6

\* Whatever the last runs and the open circuits, a tick that has a source due
\* runs the one ranked first, runs none that is not due, and stays bearable:
\* the budget of _admit_within_weight_budget defers, it never starves the head.
THEOREM TickAdmitsTheMostOverdue ==
  ASSUME NEW last \in Ages, NEW eligible \in SUBSET Sources
  PROVE  LET admitted == AdmitWithinWeightBudget(DueWithPriority(last, eligible))
         IN /\ admitted \subseteq Due(last, eligible)
            /\ Bearable(admitted)
            /\ \A s \in Due(last, eligible) :
                 (\A t \in Due(last, eligible) \ {s} : Ahead(last, s, t)) => s \in admitted
<1> DEFINE place == DueWithPriority(last, eligible)
<1>1. /\ DOMAIN place = Due(last, eligible)
      /\ IsRanking(place)
      /\ \A s \in DOMAIN place :
           (\A t \in DOMAIN place \ {s} : Ahead(last, s, t)) => place[s] = 0
  BY DueIsRanked
<1> HIDE DEF place
<1>2. /\ AdmitWithinWeightBudget(place) \subseteq DOMAIN place
      /\ Bearable(AdmitWithinWeightBudget(place))
      /\ \A s \in DOMAIN place : place[s] = 0 => s \in AdmitWithinWeightBudget(place)
  BY <1>1, AdmissionHolds
<1>3. QED
  BY <1>1, <1>2 DEF place

\* Every stage of the admission keeps what the stages before it took, and has
\* looked at the places before it only.
LEMMA AdmissionGrows ==
  ASSUME NEW place, IsRanking(place), NEW f, IsAdmission(f, place)
  PROVE  \A i \in 0..Cardinality(DOMAIN place) :
           /\ f[i] \subseteq {s \in DOMAIN place : place[s] < i}
           /\ f[i] \subseteq f[Cardinality(DOMAIN place)]
           /\ i > 0 => f[i] = f[i-1] \cup Admits(place, f[i-1], i)
<1> DEFINE n == Cardinality(DOMAIN place)
           early(i) == {s \in DOMAIN place : place[s] < i}
           I == {i \in Nat : i <= n => f[i] \subseteq early(i)}
           J == {k \in Nat : k <= n => f[n-k] \subseteq f[n]}
<1>1. n \in Nat /\ place \in [DOMAIN place -> Nat]
  BY SourcesFinite, FS_Subset, FS_CardinalityType DEF IsRanking
<1>2. f[0] = {} /\ \A i \in 1..n : f[i] = f[i-1] \cup Admits(place, f[i-1], i)
  <2>1. f[0] = {}
    BY <1>1 DEF IsAdmission
  <2>2. ASSUME NEW i \in 1..n PROVE f[i] = f[i-1] \cup Admits(place, f[i-1], i)
    <3>1. i \in 0..n /\ i # 0
      BY <1>1
    <3>2. f[i] = IF i = 0 THEN {} ELSE f[i-1] \cup Admits(place, f[i-1], i)
      BY <3>1 DEF IsAdmission
    <3>3. QED
      BY <3>1, <3>2
  <2>3. QED
    BY <2>1, <2>2
<1> HIDE DEF n
<1>3. 0 \in I
  BY <1>2
<1>4. ASSUME NEW i \in Nat, i \in I PROVE i + 1 \in I
  <2> SUFFICES ASSUME i + 1 <= n PROVE f[i+1] \subseteq early(i+1)
    OBVIOUS
  <2>1. f[i] \subseteq early(i)
    BY <1>1, <1>4
  <2>2. i + 1 \in 1..n /\ (i + 1) - 1 = i
    BY <1>1
  <2>3. f[i+1] = f[i] \cup Admits(place, f[i], i+1)
    BY <1>2, <2>2
  <2>4. early(i) \subseteq early(i+1)
    BY <1>1
  <2>5. Admits(place, f[i], i+1) \subseteq early(i+1)
    BY <1>1, <2>2 DEF Admits
  <2>6. QED
    BY <2>1, <2>3, <2>4, <2>5
<1>5. Nat \subseteq I
  <2> HIDE DEF I
  <2>1. QED
    BY <1>3, <1>4, SetInduction
<1>6. 0 \in J
  BY <1>1
<1>7. ASSUME NEW k \in Nat, k \in J PROVE k + 1 \in J
  <2> SUFFICES ASSUME k + 1 <= n PROVE f[n-(k+1)] \subseteq f[n]
    OBVIOUS
  <2>1. f[n-k] \subseteq f[n]
    BY <1>1, <1>7
  <2>2. n - k \in 1..n /\ (n - k) - 1 = n - (k+1)
    BY <1>1
  <2>3. f[n-(k+1)] \subseteq f[n-k]
    BY <1>2, <2>2
  <2>4. QED
    BY <2>1, <2>3
<1>8. Nat \subseteq J
  <2> HIDE DEF J
  <2>1. QED
    BY <1>6, <1>7, SetInduction
<1>9. ASSUME NEW i \in 0..n PROVE f[i] \subseteq f[n]
  <2>1. n - i \in Nat /\ n - i <= n /\ n - (n - i) = i
    BY <1>1
  <2>2. n - i \in J
    BY <1>8, <2>1
  <2>3. QED
    BY <2>1, <2>2
<1>10. ASSUME NEW i \in 0..n PROVE f[i] \subseteq early(i)
  BY <1>1, <1>5
<1>11. ASSUME NEW i \in 0..n, i > 0 PROVE f[i] = f[i-1] \cup Admits(place, f[i-1], i)
  BY <1>1, <1>2, <1>11
<1>12. QED
  BY <1>9, <1>10, <1>11 DEF n

\* First fit: a source is put off only by those before it in the list.
LEMMA FirstFit ==
  ASSUME NEW place, IsRanking(place), NEW h \in DOMAIN place,
         place[h] < Cardinality(DOMAIN place),
         NEW before, before = {s \in DOMAIN place : place[s] < place[h]},
         before = {} \/ TotalWeight(before) + Weight[h] <= MaxTickWeight
  PROVE  h \in AdmitWithinWeightBudget(place)
<1> DEFINE n == Cardinality(DOMAIN place)
           f == CHOOSE g : IsAdmission(g, place)
           i == place[h] + 1
<1>1. AdmitWithinWeightBudget(place) = f[n]
  BY DEF AdmitWithinWeightBudget, IsAdmission, Admits
<1>2. IsAdmission(f, place)
  BY AdmissionExists
<1> HIDE DEF f
<1>3. /\ IsFiniteSet(DOMAIN place) /\ n \in Nat /\ place[h] \in Nat
      /\ DOMAIN place \subseteq Sources
  BY SourcesFinite, FS_Subset, FS_CardinalityType DEF IsRanking
<1>4. /\ i \in 0..n /\ i > 0 /\ i - 1 = place[h] /\ i - 1 \in 0..n
  BY <1>3
<1>5. /\ f[i-1] \subseteq before
      /\ f[i] = f[i-1] \cup Admits(place, f[i-1], i)
      /\ f[i] \subseteq f[n]
  <2> HIDE DEF i
  <2>1. QED
    BY <1>2, <1>4, AdmissionGrows
<1>6. f[i-1] = {} \/ TotalWeight(f[i-1]) + Weight[h] <= MaxTickWeight
  <2> HIDE DEF i
  <2>1. CASE before = {}
    BY <1>5, <2>1
  <2>2. CASE TotalWeight(before) + Weight[h] <= MaxTickWeight
    <3>1. before \in SUBSET Sources /\ f[i-1] \in SUBSET before /\ f[i-1] \in SUBSET Sources
      BY <1>3, <1>5
    <3>2. TotalWeight(f[i-1]) <= TotalWeight(before)
      BY <3>1, WeightMonotone
    <3>3. TotalWeight(f[i-1]) \in Nat /\ TotalWeight(before) \in Nat /\ Weight[h] \in Nat
      BY <3>1, <1>3, UnitsFinite, ScheduleAssumption
    <3>4. QED
      BY <2>2, <3>2, <3>3, ScheduleAssumption
  <2>3. QED
    BY <2>1, <2>2
<1>7. h \in Admits(place, f[i-1], i)
  <2> HIDE DEF i
  <2>1. QED
    BY <1>4, <1>6 DEF Admits
<1>8. QED
  BY <1>1, <1>5, <1>7

\* A place is the number of due sources ahead, so those before are those ahead.
LEMMA PlacesCountThoseAhead ==
  ASSUME NEW last \in Ages, NEW eligible \in SUBSET Sources,
         NEW h \in Due(last, eligible)
  PROVE  LET place == DueWithPriority(last, eligible)
         IN /\ place[h] < Cardinality(DOMAIN place)
            /\ {t \in DOMAIN place : place[t] < place[h]}
                 \subseteq {t \in Due(last, eligible) : Ahead(last, t, h)}
<1> DEFINE due == Due(last, eligible)
           before(s) == {t \in due : Ahead(last, t, s)}
           place == DueWithPriority(last, eligible)
<1>1. due \subseteq Sources /\ IsFiniteSet(due)
  BY SourcesFinite, FS_Subset DEF Due
<1>2. place = [s \in due |-> Cardinality(before(s))]
  BY DEF DueWithPriority
<1> HIDE DEF place
<1>3. \A s \in due : IsFiniteSet(before(s)) /\ Cardinality(before(s)) \in Nat
  <2>1. \A s \in due : before(s) \subseteq due
    OBVIOUS
  <2> HIDE DEF due, before
  <2>2. QED
    BY <1>1, <2>1, FS_Subset, FS_CardinalityType
<1>4. DOMAIN place = due /\ \A s \in due : place[s] = Cardinality(before(s))
  BY <1>2
<1>5. place[h] < Cardinality(due)
  <2>1. before(h) \subseteq due /\ h \notin before(h) /\ h \in due
    BY <1>1, RankingIsAStrictOrder
  <2> HIDE DEF before, due
  <2>2. Cardinality(before(h)) <= Cardinality(due) /\ Cardinality(before(h)) # Cardinality(due)
    BY <1>1, <2>1, FS_Subset
  <2>3. Cardinality(due) \in Nat
    BY <1>1, FS_CardinalityType
  <2>4. QED
    BY <2>1, <2>2, <2>3, <1>3, <1>4
<1>6. ASSUME NEW t \in due, place[t] < place[h] PROVE Ahead(last, t, h)
  <2> SUFFICES ASSUME ~ Ahead(last, t, h) PROVE FALSE
    OBVIOUS
  <2>1. t \in Sources /\ h \in Sources
    BY <1>1
  <2>2. t # h
    <3>1. h \in due
      OBVIOUS
    <3> HIDE DEF before, due
    <3>2. place[h] \in Nat
      BY <3>1, <1>3, <1>4
    <3>3. QED
      BY <3>2, <1>6
  <2>3. Ahead(last, h, t)
    BY <2>1, <2>2, RankingIsAStrictOrder
  <2>4. before(h) \subseteq before(t)
    <3>1. ASSUME NEW u \in due, Ahead(last, u, h) PROVE Ahead(last, u, t)
      BY <3>1, <2>1, <2>3, <1>1, RankingIsAStrictOrder
    <3>2. QED
      BY <3>1
  <2> HIDE DEF before, due
  <2>5. Cardinality(before(h)) <= Cardinality(before(t))
    BY <2>4, <1>3, FS_Subset
  <2>6. QED
    BY <2>5, <1>3, <1>4, <1>6 DEF due
<1>7. QED
  BY <1>4, <1>5, <1>6 DEF place

\* A tick puts a source off only when those due ahead of it leave no room: the
\* lighter ones that _admit_within_weight_budget lets pass it never do.
THEOREM DeferredOnlyByThoseAhead ==
  ASSUME NEW last \in Ages, NEW eligible \in SUBSET Sources,
         NEW h \in Due(last, eligible),
         NEW ahead, ahead = {t \in Due(last, eligible) : Ahead(last, t, h)},
         ahead = {} \/ TotalWeight(ahead) + Weight[h] <= MaxTickWeight
  PROVE  h \in AdmitWithinWeightBudget(DueWithPriority(last, eligible))
<1> DEFINE place == DueWithPriority(last, eligible)
           before == {t \in DOMAIN place : place[t] < place[h]}
<1>1. DOMAIN place = Due(last, eligible) /\ IsRanking(place)
  BY DueIsRanked
<1>2. place[h] < Cardinality(DOMAIN place) /\ before \subseteq ahead
  BY PlacesCountThoseAhead
<1>3. ahead \in SUBSET Sources /\ h \in Sources
  BY DEF Due
<1> HIDE DEF place
<1>4. before = {} \/ TotalWeight(before) + Weight[h] <= MaxTickWeight
  <2> HIDE DEF before
  <2>1. CASE ahead = {}
    BY <1>2, <2>1
  <2>2. CASE TotalWeight(ahead) + Weight[h] <= MaxTickWeight
    <3>1. before \in SUBSET ahead /\ before \in SUBSET Sources
      BY <1>2, <1>3
    <3>2. TotalWeight(before) <= TotalWeight(ahead)
      BY <1>3, <3>1, WeightMonotone
    <3>3. TotalWeight(before) \in Nat /\ TotalWeight(ahead) \in Nat /\ Weight[h] \in Nat
      BY <1>3, <3>1, UnitsFinite, ScheduleAssumption
    <3>4. QED
      BY <2>2, <3>2, <3>3, ScheduleAssumption
  <2>3. QED
    BY <2>1, <2>2
<1>5. h \in AdmitWithinWeightBudget(place)
  BY <1>1, <1>2, <1>4, FirstFit
<1>6. QED
  BY <1>5 DEF place

\* Of the sources of a set, one is ahead of all the others.
LEMMA OneIsFirst ==
  ASSUME NEW last \in Ages, NEW D \in SUBSET Sources, D # {}
  PROVE  \E h \in D : \A t \in D \ {h} : Ahead(last, h, t)
<1> DEFINE before(s) == {t \in D : Ahead(last, t, s)}
           counts == {Cardinality(before(s)) : s \in D}
<1>1. IsFiniteSet(D)
  BY SourcesFinite, FS_Subset
<1>2. \A s \in D : IsFiniteSet(before(s)) /\ Cardinality(before(s)) \in Nat
  <2>1. \A s \in D : before(s) \subseteq D
    OBVIOUS
  <2> HIDE DEF before
  <2>2. QED
    BY <1>1, <2>1, FS_Subset, FS_CardinalityType
<1>3. counts \in SUBSET Nat /\ counts # {}
  <2> HIDE DEF before
  <2>1. QED
    BY <1>2
<1>4. PICK x \in counts : \A y \in counts : x <= y
  <2> HIDE DEF counts
  <2>1. QED
    BY <1>3, LeastElement
<1>5. PICK h \in D : \A s \in D : Cardinality(before(h)) <= Cardinality(before(s))
  <2> HIDE DEF before
  <2>1. QED
    BY <1>4
<1>6. ASSUME NEW t \in D \ {h}, ~ Ahead(last, h, t) PROVE FALSE
  <2>1. h \in Sources /\ t \in Sources /\ Ahead(last, t, h)
    BY <1>6, RankingIsAStrictOrder
  <2>2. before(t) \subseteq before(h)
    <3>1. ASSUME NEW u \in D, Ahead(last, u, t) PROVE Ahead(last, u, h)
      BY <3>1, <2>1, RankingIsAStrictOrder
    <3>2. QED
      BY <3>1
  <2>3. t \in before(h) /\ t \notin before(t)
    BY <2>1, RankingIsAStrictOrder
  <2> HIDE DEF before
  <2>4. Cardinality(before(t)) <= Cardinality(before(h))
        /\ Cardinality(before(t)) # Cardinality(before(h))
    BY <1>2, <2>2, <2>3, FS_Subset
  <2>5. QED
    BY <1>2, <1>5, <2>4
<1>7. QED
  BY <1>6

(***************************************************************************)
(* The operators of the actions.                                           *)
(***************************************************************************)
LEMMA StaleStreakType ==
  ASSUME NEW s \in Sources
  PROVE  StaleStreak(s) \in Nat \ {0}
<1> DEFINE Stale(n) == n >= StaleTicks /\ n * Interval[s] >= StaleTime
           top == StaleTicks + StaleTime
           T == {n \in 1..top : Stale(n)}
<1>1. /\ StaleTicks \in Nat \ {0} /\ StaleTime \in Nat
      /\ Interval[s] \in Nat \ {0} /\ top \in Nat
  BY BreakerAssumption, ScheduleAssumption
<1>2. top \in T
  <2>1. \A n \in Nat : \A i \in Nat \ {0} : n * i >= n
    OBVIOUS
  <2>2. top * Interval[s] >= top
    BY <1>1, <2>1
  <2>3. top * Interval[s] \in Nat
    BY <1>1
  <2>4. Stale(top)
    BY <1>1, <2>2, <2>3
  <2>5. QED
    BY <1>1, <2>4
<1>3. PICK x \in T : \A y \in T : x <= y
  <2>1. T \in SUBSET Nat
    BY <1>1
  <2> HIDE DEF T
  <2>2. QED
    BY <1>2, <2>1, LeastElement
<1>4. \A m \in 1..(x-1) : ~ Stale(m)
  <2>1. ASSUME NEW m \in 1..(x-1), Stale(m) PROVE FALSE
    <3>1. m \in 1..top /\ m < x
      BY <1>1, <1>3
    <3>2. m \in T
      BY <3>1, <2>1
    <3> HIDE DEF T
    <3>3. QED
      BY <1>3, <3>1, <3>2
  <2>2. QED
    BY <2>1
<1>5. \E n \in 1..top : Stale(n) /\ \A m \in 1..(n-1) : ~ Stale(m)
  BY <1>3, <1>4
<1>6. StaleStreak(s) = CHOOSE n \in 1..top : Stale(n) /\ \A m \in 1..(n-1) : ~ Stale(m)
  BY DEF StaleStreak
<1> HIDE DEF Stale
<1>7. StaleStreak(s) \in 1..top
  BY <1>5, <1>6
<1>8. QED
  BY <1>1, <1>7

LEMMA CallsType ==
  ASSUME NEW calls \in CallsUpTo(3)
  PROVE  calls.landed \in SUBSET (1..3) /\ calls.back \in 0..3
BY DEF CallsUpTo

LEMMA CallsWentWrong ==
  ASSUME NEW calls \in CallsUpTo(3), NEW i \in 1..3, i \notin calls.landed
  PROVE  calls # Clean(3)
BY DEF Clean

LEMMA MishapsCounted ==
  ASSUME TypeOK, NEW mishap \in BOOLEAN, CountMishap(mishap)
  PROVE  /\ mishaps' \in 0..MaxMishaps /\ mishaps <= mishaps'
         /\ mishap => mishaps' = mishaps + 1
BY BoundAssumption DEF TypeOK, CountMishap

LEMMA AtMostType ==
  ASSUME NEW n \in Nat, NEW bound \in Nat
  PROVE  AtMost(n, bound) \in 0..bound /\ AtMost(n, bound) <= n
         /\ (n >= bound => AtMost(n, bound) = bound)
         /\ (n <= bound => AtMost(n, bound) = n)
BY DEF AtMost

LEMMA ConstantTypes ==
  /\ OpenAfter \in Nat \ {0} /\ Cooldown \in Nat \ {0}
  /\ MaxMishaps \in Nat /\ AlertCap \in Nat /\ AlertCap = MaxMishaps + 2
  /\ Never \in Nat /\ AgeCap \in Nat /\ AgeCap < Never
BY BreakerAssumption, BoundAssumption DEF AlertCap, Never

\* What a recorded failure does to its own row and to the others.
LEMMA FailureEffect ==
  ASSUME TypeOK, NEW s \in Sources, Fails(s)
  PROVE  /\ age' \in [Sources -> 0..Never]
         /\ failures' \in [Sources -> 0..OpenAfter]
         /\ circuit' \in [Sources -> {"closed", "open", "half_open"}]
         /\ openAge' \in [Sources -> 0..Cooldown]
         /\ UNCHANGED <<streak, marked, alerts, tick>>
         /\ inflight' = inflight \ {s} /\ s \in inflight
         /\ mishaps' \in 0..MaxMishaps /\ mishaps <= mishaps'
         /\ \A q \in Sources \ {s} : failures'[q] = failures[q] /\ circuit'[q] = circuit[q]
         /\ failures'[s] >= failures[s]
         /\ circuit'[s] = "open" => circuit[s] = "open" \/ failures'[s] = OpenAfter
<1>1. PICK calls \in CallsUpTo(3) : RecordFailure(s, calls) /\ CountMishap(calls # Clean(3))
  BY DEF Fails
<1> DEFINE counted == AtMost(failures[s] + 1, OpenAfter)
           readBack == IF 1 \in calls.landed THEN counted
                       ELSE IF HasRow(s) THEN failures[s] ELSE 1
           opens == 2 \in calls.landed /\ calls.back >= 2 /\ Trips(readBack)
                    /\ 3 \in calls.landed /\ (1 \in calls.landed \/ HasRow(s))
<1>2. /\ counted \in 0..OpenAfter /\ failures[s] \in 0..OpenAfter
      /\ counted >= failures[s]
  BY ConstantTypes DEF TypeOK, AtMost
<1>3. /\ IF 1 \in calls.landed
         THEN age' = [age EXCEPT ![s] = 0] /\ failures' = [failures EXCEPT ![s] = counted]
         ELSE UNCHANGED <<age, failures>>
      /\ IF opens
         THEN circuit' = [circuit EXCEPT ![s] = "open"] /\ openAge' = [openAge EXCEPT ![s] = 0]
         ELSE UNCHANGED <<circuit, openAge>>
      /\ UNCHANGED <<streak, marked, alerts>>
  BY <1>1 DEF RecordFailure
<1>4. opens => IF 1 \in calls.landed THEN counted = OpenAfter ELSE failures[s] = OpenAfter
  BY <1>2, ConstantTypes DEF Trips
<1> HIDE DEF counted, opens
<1>5. /\ age' \in [Sources -> 0..Never]
      /\ failures' \in [Sources -> 0..OpenAfter]
      /\ \A q \in Sources \ {s} : failures'[q] = failures[q]
      /\ failures'[s] = IF 1 \in calls.landed THEN counted ELSE failures[s]
  BY <1>2, <1>3, ConstantTypes DEF TypeOK
<1>6. /\ circuit' \in [Sources -> {"closed", "open", "half_open"}]
      /\ openAge' \in [Sources -> 0..Cooldown]
      /\ \A q \in Sources \ {s} : circuit'[q] = circuit[q]
      /\ ~ opens => circuit'[s] = circuit[s]
  BY <1>3, ConstantTypes DEF TypeOK
<1>7. mishaps' \in 0..MaxMishaps /\ mishaps <= mishaps'
  BY <1>1, MishapsCounted
<1>8. inflight' = inflight \ {s} /\ s \in inflight /\ tick' = tick
  BY DEF Fails, Answers
<1>9. failures'[s] >= failures[s]
  BY <1>2, <1>5
<1>10. circuit'[s] = "open" => circuit[s] = "open" \/ failures'[s] = OpenAfter
  BY <1>4, <1>5, <1>6
<1>11. QED
  BY <1>3, <1>5, <1>6, <1>7, <1>8, <1>9, <1>10

\* What a recorded success does to its own row and to the others.
LEMMA SuccessEffect ==
  ASSUME TypeOK, NEW s \in Sources, Succeeds(s)
  PROVE  /\ TypeOK'
         /\ inflight' = inflight \ {s} /\ s \in inflight
         /\ mishaps <= mishaps'
         /\ \A q \in Sources \ {s} :
              /\ failures'[q] = failures[q] /\ circuit'[q] = circuit[q]
              /\ marked'[q] = marked[q] /\ alerts'[q] = alerts[q]
         /\ circuit'[s] = "open" /\ failures'[s] < OpenAfter =>
              circuit[s] = "open" /\ (failures[s] < OpenAfter \/ mishaps' = mishaps + 1)
         /\ \/ alerts'[s] <= alerts[s] /\ (marked'[s] \/ ~ marked[s])
            \/ alerts'[s] = 0
            \/ /\ ~ marked[s] /\ alerts'[s] <= alerts[s] + 1
               /\ marked'[s] \/ mishaps' = mishaps + 1
<1>1. PICK empty \in {FALSE} \cup {s \in Silent}, calls \in CallsUpTo(3) :
        RecordSuccess(s, empty, calls) /\ CountMishap(calls # Clean(3))
  BY DEF Succeeds
<1> DEFINE longer == IF empty THEN AtMost(streak[s] + 1, StaleStreak(s)) ELSE 0
           wasMarked == empty /\ marked[s]
           stale == 1 \in calls.landed /\ calls.back >= 2 /\ IsStaleStreak(s, longer, wasMarked)
           announced == stale /\ calls.back >= 3
           told == IF ~ empty THEN 0
                   ELSE IF announced THEN AtMost(alerts[s] + 1, AlertCap) ELSE alerts[s]
           mark == wasMarked \/ (stale /\ 3 \in calls.landed)
<1>2. empty \in BOOLEAN /\ s \in Sources
  OBVIOUS
<1>3. /\ age \in [Sources -> 0..Never] /\ failures \in [Sources -> 0..OpenAfter]
      /\ streak \in [Sources -> Nat] /\ \A q \in Sources : streak[q] <= StaleStreak(q)
      /\ marked \in [Sources -> BOOLEAN] /\ alerts \in [Sources -> 0..AlertCap]
      /\ circuit \in [Sources -> {"closed", "open", "half_open"}]
      /\ openAge \in [Sources -> 0..Cooldown]
      /\ tick \in {"idle", "due", "running"} /\ inflight \subseteq Sources
  BY DEF TypeOK
<1>4. /\ IF 1 \in calls.landed
         THEN /\ age' = [age EXCEPT ![s] = 0]
              /\ failures' = [failures EXCEPT ![s] = 0]
              /\ streak' = [streak EXCEPT ![s] = longer]
              /\ marked' = [marked EXCEPT ![s] = mark]
              /\ alerts' = [alerts EXCEPT ![s] = told]
         ELSE UNCHANGED <<age, failures, streak, marked, alerts>>
      /\ IF 2 \in calls.landed
         THEN circuit' = [circuit EXCEPT ![s] = "closed"] /\ openAge' = [openAge EXCEPT ![s] = 0]
         ELSE UNCHANGED <<circuit, openAge>>
  BY <1>1, <1>3 DEF RecordSuccess
<1>5. longer \in Nat /\ longer <= StaleStreak(s)
  BY <1>3, StaleStreakType DEF AtMost
<1>6. told \in 0..AlertCap
  BY <1>3, ConstantTypes, AtMostType
<1>7. mark \in BOOLEAN
  BY <1>2, <1>3
<1>8. \/ told = 0
      \/ told = alerts[s] /\ (mark \/ ~ marked[s])
      \/ /\ ~ marked[s] /\ told <= alerts[s] + 1
         /\ mark \/ 3 \notin calls.landed
  <2>1. CASE ~ empty
    BY <2>1
  <2>2. CASE empty /\ announced
    <3>1. ~ marked[s]
      BY <2>2 DEF IsStaleStreak
    <3>2. told <= alerts[s] + 1
      BY <2>2, <1>3, ConstantTypes, AtMostType
    <3>3. QED
      BY <2>2, <3>1, <3>2
  <2>3. CASE empty /\ ~ announced
    BY <2>3, <1>3
  <2>4. QED
    BY <2>1, <2>2, <2>3, <1>2
<1> HIDE DEF longer, told, mark
<1>9. /\ age' \in [Sources -> 0..Never] /\ failures' \in [Sources -> 0..OpenAfter]
      /\ alerts' \in [Sources -> 0..AlertCap] /\ streak' \in [Sources -> Nat]
      /\ \A q \in Sources \ {s} : /\ failures'[q] = failures[q] /\ streak'[q] = streak[q]
                                  /\ alerts'[q] = alerts[q]
      /\ 1 \in calls.landed => streak'[s] = longer /\ alerts'[s] = told
      /\ 1 \notin calls.landed => /\ streak'[s] = streak[s] /\ alerts'[s] = alerts[s]
                                  /\ failures'[s] = failures[s]
  BY <1>3, <1>4, <1>5, <1>6, ConstantTypes
<1>10. /\ marked' \in [Sources -> BOOLEAN]
       /\ \A q \in Sources \ {s} : marked'[q] = marked[q]
       /\ 1 \in calls.landed => marked'[s] = mark
       /\ 1 \notin calls.landed => marked'[s] = marked[s]
  BY <1>3, <1>4, <1>7
<1>11. \A q \in Sources : streak'[q] <= StaleStreak(q)
  BY <1>3, <1>5, <1>9
<1>12. /\ circuit' \in [Sources -> {"closed", "open", "half_open"}]
       /\ openAge' \in [Sources -> 0..Cooldown]
       /\ \A q \in Sources \ {s} : circuit'[q] = circuit[q]
       /\ 2 \in calls.landed => circuit'[s] = "closed"
       /\ 2 \notin calls.landed => circuit'[s] = circuit[s]
  BY <1>3, <1>4, ConstantTypes
<1>13. /\ mishaps' \in 0..MaxMishaps /\ mishaps <= mishaps'
       /\ calls # Clean(3) => mishaps' = mishaps + 1
  BY <1>1, MishapsCounted
<1>14. inflight' = inflight \ {s} /\ s \in inflight /\ tick' = tick
  BY DEF Succeeds, Answers
<1>15. TypeOK'
  BY <1>3, <1>9, <1>10, <1>11, <1>12, <1>13, <1>14 DEF TypeOK
<1>16. circuit'[s] = "open" /\ failures'[s] < OpenAfter =>
         circuit[s] = "open" /\ (failures[s] < OpenAfter \/ mishaps' = mishaps + 1)
  BY <1>9, <1>12, <1>13, CallsWentWrong
<1>17. \/ alerts'[s] <= alerts[s] /\ (marked'[s] \/ ~ marked[s])
       \/ alerts'[s] = 0
       \/ /\ ~ marked[s] /\ alerts'[s] <= alerts[s] + 1
          /\ marked'[s] \/ mishaps' = mishaps + 1
  <2>1. CASE 1 \in calls.landed
    <3>1. 3 \notin calls.landed => mishaps' = mishaps + 1
      BY <1>13, CallsWentWrong
    <3>2. alerts'[s] = told /\ marked'[s] = mark /\ alerts[s] \in Nat
      BY <2>1, <1>3, <1>9, <1>10, ConstantTypes
    <3>3. QED
      BY <1>8, <3>1, <3>2
  <2>2. CASE 1 \notin calls.landed
    BY <2>2, <1>3, <1>9, <1>10
  <2>3. QED
    BY <2>1, <2>2
<1>18. QED
  BY <1>9, <1>10, <1>12, <1>13, <1>14, <1>15, <1>16, <1>17

(***************************************************************************)
(* Type correctness.                                                       *)
(***************************************************************************)
LEMMA AdmittedAreSources ==
  ASSUME NEW last \in Ages, NEW eligible \in SUBSET Sources
  PROVE  /\ AdmitWithinWeightBudget(DueWithPriority(last, eligible)) \subseteq eligible
         /\ Bearable(AdmitWithinWeightBudget(DueWithPriority(last, eligible)))
BY TickAdmitsTheMostOverdue DEF Due

LEMMA BlindAges == [s \in Sources |-> Never] \in Ages
BY ConstantTypes DEF Ages

LEMMA HalfOpenedType ==
  ASSUME TypeOK, NEW S \in SUBSET Sources
  PROVE  /\ HalfOpened(S) \in [Sources -> {"closed", "open", "half_open"}]
         /\ \A s \in Sources : HalfOpened(S)[s] = "open" <=> circuit[s] = "open" /\ s \notin S
BY DEF TypeOK, HalfOpened

\* A tick whose setup missed calls still runs sources of the list, within the
\* budget, and opens no circuit.
LEMMA BlindEffect ==
  ASSUME TypeOK, StartTickBlind
  PROVE  /\ inflight' \subseteq Sources /\ Bearable(inflight')
         /\ circuit' \in [Sources -> {"closed", "open", "half_open"}]
         /\ \A s \in Sources : circuit'[s] = "open" => circuit[s] = "open"
         /\ mishaps' \in 0..MaxMishaps /\ mishaps' = mishaps + 1
<1>1. PICK unseen \in SUBSET Sources, opened \in SUBSET Cooled,
           last \in {age, [s \in Sources |-> Never]} :
        LET eligible == {s \in Sources : circuit[s] # "open"} \cup Cooled \cup unseen IN
        /\ circuit' = HalfOpened(opened)
        /\ inflight' = AdmitWithinWeightBudget(DueWithPriority(last, eligible))
  BY DEF StartTickBlind
<1> DEFINE eligible == {s \in Sources : circuit[s] # "open"} \cup Cooled \cup unseen
<1>2. last \in Ages
  BY <1>1, BlindAges DEF TypeOK, Ages
<1>3. eligible \in SUBSET Sources /\ opened \in SUBSET Sources
  BY DEF Cooled
<1>4. inflight' \subseteq eligible /\ Bearable(inflight')
  BY <1>1, <1>2, <1>3, AdmittedAreSources
<1>5. /\ circuit' \in [Sources -> {"closed", "open", "half_open"}]
      /\ \A s \in Sources : circuit'[s] = "open" => circuit[s] = "open"
  BY <1>1, <1>3, HalfOpenedType
<1>6. mishaps' \in 0..MaxMishaps /\ mishaps' = mishaps + 1
  BY MishapsCounted DEF StartTickBlind
<1>7. QED
  BY <1>3, <1>4, <1>5, <1>6

LEMMA TypeInitial == Init => TypeOK
<1>1. \A s \in Sources : 0 <= StaleStreak(s)
  BY StaleStreakType
<1>2. AlertCap \in Nat /\ 0 \in 0..AlertCap
  BY ConstantTypes
<1>3. QED
  BY <1>1, <1>2, ConstantTypes DEF Init, TypeOK

LEMMA TypePreserved == TypeOK /\ [Next]_vars => TypeOK'
<1> SUFFICES ASSUME TypeOK, [Next]_vars PROVE TypeOK'
  OBVIOUS
<1>1. CASE Heartbeat
  <2>1. age' \in [Sources -> 0..Never]
    <3>1. \A s \in Sources :
            (IF age[s] = Never THEN Never ELSE AtMost(age[s] + 1, AgeCap)) \in 0..Never
      BY ConstantTypes DEF TypeOK, AtMost
    <3>2. QED
      BY <1>1, <3>1 DEF Heartbeat
  <2>2. openAge' \in [Sources -> 0..Cooldown]
    <3>1. \A s \in Sources :
            (IF circuit[s] = "closed" THEN 0 ELSE AtMost(openAge[s] + 1, Cooldown)) \in 0..Cooldown
      BY ConstantTypes DEF TypeOK, AtMost
    <3>2. QED
      BY <1>1, <3>1 DEF Heartbeat
  <2>3. QED
    BY <1>1, <2>1, <2>2 DEF Heartbeat, TypeOK
<1>2. CASE StartTick
  <2>1. age \in Ages /\ {s \in Sources : circuit[s] # "open"} \cup Cooled \in SUBSET Sources
    BY DEF TypeOK, Ages, Cooled
  <2>2. inflight' \subseteq Sources
    BY <1>2, <2>1, AdmittedAreSources DEF StartTick
  <2>3. circuit' \in [Sources -> {"closed", "open", "half_open"}]
    BY <1>2, <2>1, HalfOpenedType DEF StartTick
  <2>4. QED
    BY <1>2, <2>2, <2>3 DEF StartTick, TypeOK
<1>3. CASE StartTickBlind
  BY <1>3, BlindEffect DEF StartTickBlind, TypeOK
<1>4. CASE StartTickRaises
  <2>1. mishaps' \in 0..MaxMishaps
    BY <1>4, MishapsCounted DEF StartTickRaises
  <2>2. circuit' \in [Sources -> {"closed", "open", "half_open"}]
    <3>1. \A S \in SUBSET Cooled : S \in SUBSET Sources
      BY DEF Cooled
    <3>2. QED
      BY <1>4, <3>1, HalfOpenedType DEF StartTickRaises
  <2>3. QED
    BY <1>4, <2>1, <2>2 DEF StartTickRaises, TypeOK
<1>5. ASSUME NEW s \in Sources, Fails(s) PROVE TypeOK'
  BY <1>5, FailureEffect DEF TypeOK
<1>6. ASSUME NEW s \in Sources, Succeeds(s) PROVE TypeOK'
  BY <1>6, SuccessEffect
<1>7. CASE DeadlinePasses
  BY <1>7 DEF DeadlinePasses, row, TypeOK
<1>8. CASE FinishTick
  BY <1>8 DEF FinishTick, row, TypeOK
<1>9. CASE Restart
  <2>1. mishaps' \in 0..MaxMishaps
    BY <1>9, MishapsCounted DEF Restart
  <2>2. QED
    BY <1>9, <2>1 DEF Restart, row, TypeOK
<1>10. CASE UNCHANGED vars
  BY <1>10 DEF vars, row, TypeOK
<1>11. QED
  BY <1>1, <1>2, <1>3, <1>4, <1>5, <1>6, <1>7, <1>8, <1>9, <1>10 DEF Next

\* Every variable keeps its type, for every list of sources and every pattern
\* of faults: the columns of source_run_log hold only what its readers know.
THEOREM TypeCorrect == Spec => []TypeOK
<1>1. QED
  BY TypeInitial, TypePreserved, PTL DEF Spec

(***************************************************************************)
(* The load of a tick.                                                     *)
(***************************************************************************)
LEMMA BearableWithoutOne ==
  ASSUME NEW S \in SUBSET Sources, NEW T \in SUBSET S, Bearable(S)
  PROVE  Bearable(T)
<1>1. TotalWeight(T) <= TotalWeight(S) /\ {TotalWeight(S), TotalWeight(T)} \subseteq Nat
  BY WeightMonotone, UnitsFinite
<1>2. CASE TotalWeight(S) <= MaxTickWeight
  BY <1>1, <1>2, ScheduleAssumption DEF Bearable
<1>3. CASE Cardinality(S) = 1
  <2>1. IsFiniteSet(S)
    BY SourcesFinite, FS_Subset
  <2>2. PICK x : S = {x}
    BY <1>3, <2>1, FS_Singleton
  <2>3. T = S \/ T = {}
    BY <2>2
  <2>4. QED
    BY <2>3, WeightOfNone, ScheduleAssumption DEF Bearable
<1>4. QED
  BY <1>2, <1>3 DEF Bearable

\* The scrapers that race one deadline never outweigh MAX_TICK_WEIGHT, but for
\* one that alone is heavier: for every assignment of weights, first fit keeps
\* to the budget, and answers only lighten the tick.
THEOREM LoadIsBounded == Spec => []LoadBounded
<1>1. Init => LoadBounded
  BY WeightOfNone, ScheduleAssumption DEF Init, LoadBounded
<1>2. TypeOK /\ LoadBounded /\ [Next]_vars => LoadBounded'
  <2> SUFFICES ASSUME TypeOK, Bearable(inflight), [Next]_vars
               PROVE  Bearable(inflight')
    BY DEF LoadBounded, Bearable
  <2>1. CASE StartTick
    <3>1. age \in Ages /\ {s \in Sources : circuit[s] # "open"} \cup Cooled \in SUBSET Sources
      BY DEF TypeOK, Ages, Cooled
    <3>2. QED
      BY <2>1, <3>1, AdmittedAreSources DEF StartTick
  <2>2. CASE StartTickBlind
    BY <2>2, BlindEffect
  <2>3. CASE inflight' \subseteq inflight
    BY <2>3, BearableWithoutOne DEF TypeOK
  <2>4. \/ StartTick \/ StartTickBlind \/ inflight' \subseteq inflight
    BY FailureEffect, SuccessEffect
       DEF Next, Heartbeat, StartTickRaises, DeadlinePasses, FinishTick, Restart, vars
  <2>5. QED
    BY <2>1, <2>2, <2>3, <2>4
<1>3. QED
  BY <1>1, <1>2, TypeCorrect, PTL DEF Spec

(***************************************************************************)
(* Open circuits.                                                          *)
(***************************************************************************)
\* A source behind an open circuit is running only after a tick that could not
\* read the circuits: that one mishap is already spent.
BlindRunsCost == \A s \in inflight : circuit[s] = "open" => mishaps >= 1

\* is_open and close_circuit are safe against any one fault: a source is shut
\* out without enough consecutive failures on its row only after a tick that
\* ran it past its open circuit and a lost close_circuit after that.
THEOREM ShutOutTakesTwoFaults == Spec => []NoShutOutBySingleFault
<1> DEFINE IInv == BlindRunsCost /\ NoShutOutBySingleFault
<1>1. Init => IInv
  BY DEF Init, BlindRunsCost, NoShutOutBySingleFault
<1>2. TypeOK /\ IInv /\ [Next]_vars => IInv'
  <2> SUFFICES ASSUME TypeOK, IInv, [Next]_vars PROVE IInv'
    OBVIOUS
  <2>0. /\ mishaps \in 0..MaxMishaps /\ inflight \subseteq Sources
        /\ failures \in [Sources -> 0..OpenAfter] /\ OpenAfter \in Nat
    BY ConstantTypes DEF TypeOK
  <2>1. CASE Heartbeat
    BY <2>1 DEF Heartbeat, BlindRunsCost, NoShutOutBySingleFault
  <2>2. CASE StartTick
    <3> DEFINE eligible == {s \in Sources : circuit[s] # "open"} \cup Cooled
    <3>1. age \in Ages /\ eligible \in SUBSET Sources /\ Cooled \in SUBSET Sources
      BY DEF TypeOK, Ages, Cooled
    <3>2. inflight' \subseteq eligible
      BY <2>2, <3>1, AdmittedAreSources DEF StartTick
    <3>3. \A s \in Sources : circuit'[s] = "open" <=> circuit[s] = "open" /\ s \notin Cooled
      BY <2>2, <3>1, HalfOpenedType DEF StartTick
    <3>4. BlindRunsCost'
      BY <3>1, <3>2, <3>3 DEF BlindRunsCost
    <3>5. NoShutOutBySingleFault'
      BY <2>2, <3>3 DEF StartTick, NoShutOutBySingleFault
    <3>6. QED
      BY <3>4, <3>5
  <2>3. CASE StartTickBlind
    <3>1. /\ mishaps' = mishaps + 1 /\ UNCHANGED failures
          /\ inflight' \subseteq Sources
          /\ \A s \in Sources : circuit'[s] = "open" => circuit[s] = "open"
      BY <2>3, BlindEffect DEF StartTickBlind
    <3>2. QED
      BY <2>0, <3>1 DEF BlindRunsCost, NoShutOutBySingleFault
  <2>4. CASE StartTickRaises
    <3>1. PICK S \in SUBSET Sources : circuit' = HalfOpened(S)
      BY <2>4 DEF StartTickRaises, Cooled
    <3>2. \A s \in Sources : circuit'[s] = "open" => circuit[s] = "open"
      BY <3>1, HalfOpenedType
    <3>3. mishaps' = mishaps + 1 /\ UNCHANGED <<inflight, failures>>
      BY <2>4, MishapsCounted DEF StartTickRaises
    <3>4. QED
      BY <2>0, <3>2, <3>3 DEF BlindRunsCost, NoShutOutBySingleFault
  <2>5. ASSUME NEW s \in Sources, Fails(s) PROVE IInv'
    <3>1. /\ inflight' = inflight \ {s}
          /\ mishaps' \in 0..MaxMishaps /\ mishaps <= mishaps'
          /\ \A q \in Sources \ {s} : failures'[q] = failures[q] /\ circuit'[q] = circuit[q]
          /\ failures' \in [Sources -> 0..OpenAfter]
          /\ failures'[s] >= failures[s]
          /\ circuit'[s] = "open" => circuit[s] = "open" \/ failures'[s] = OpenAfter
      BY <2>5, FailureEffect
    <3>2. BlindRunsCost'
      BY <2>0, <3>1 DEF BlindRunsCost
    <3>3. NoShutOutBySingleFault'
      BY <2>0, <3>1 DEF NoShutOutBySingleFault
    <3>4. QED
      BY <3>2, <3>3
  <2>6. ASSUME NEW s \in Sources, Succeeds(s) PROVE IInv'
    <3>1. /\ TypeOK'
          /\ inflight' = inflight \ {s} /\ s \in inflight
          /\ mishaps <= mishaps'
          /\ \A q \in Sources \ {s} : failures'[q] = failures[q] /\ circuit'[q] = circuit[q]
          /\ circuit'[s] = "open" /\ failures'[s] < OpenAfter =>
               circuit[s] = "open" /\ (failures[s] < OpenAfter \/ mishaps' = mishaps + 1)
      BY <2>6, SuccessEffect
    <3>2. mishaps' \in 0..MaxMishaps
      BY <3>1 DEF TypeOK
    <3>3. BlindRunsCost'
      BY <2>0, <3>1, <3>2 DEF BlindRunsCost
    <3>4. NoShutOutBySingleFault'
      <4> SUFFICES ASSUME NEW q \in Sources, circuit'[q] = "open", failures'[q] < OpenAfter
                   PROVE  mishaps' >= 2
        BY DEF NoShutOutBySingleFault
      <4>1. CASE q # s
        BY <2>0, <3>1, <3>2, <4>1 DEF NoShutOutBySingleFault
      <4>2. CASE q = s
        <5>1. circuit[s] = "open" /\ mishaps >= 1
          BY <3>1, <4>2 DEF BlindRunsCost
        <5>2. failures[s] < OpenAfter => mishaps >= 2
          BY <5>1 DEF NoShutOutBySingleFault
        <5>3. QED
          BY <2>0, <3>1, <3>2, <4>2, <5>1, <5>2
      <4>3. QED
        BY <4>1, <4>2
    <3>5. QED
      BY <3>3, <3>4
  <2>7. CASE DeadlinePasses
    BY <2>7 DEF DeadlinePasses, row, BlindRunsCost, NoShutOutBySingleFault
  <2>8. CASE FinishTick
    BY <2>8 DEF FinishTick, row, BlindRunsCost, NoShutOutBySingleFault
  <2>9. CASE Restart
    <3>1. mishaps' = mishaps + 1 /\ inflight' = {} /\ UNCHANGED <<circuit, failures>>
      BY <2>9, MishapsCounted DEF Restart, row
    <3>2. QED
      BY <2>0, <3>1 DEF BlindRunsCost, NoShutOutBySingleFault
  <2>10. CASE UNCHANGED vars
    BY <2>10 DEF vars, row, BlindRunsCost, NoShutOutBySingleFault
  <2>11. QED
    BY <2>1, <2>2, <2>3, <2>4, <2>5, <2>6, <2>7, <2>8, <2>9, <2>10 DEF Next
<1>3. QED
  BY <1>1, <1>2, TypeCorrect, PTL DEF Spec

(***************************************************************************)
(* Stale alerts.                                                           *)
(***************************************************************************)
\* While a streak is not marked, every alert it got is one whose mark was lost.
UnmarkedOwes == \A s \in Sources : ~ marked[s] => alerts[s] <= mishaps

\* The staleness watchdog announces a zero streak once, and once more for every
\* fault that lost stale_alert_fired_at: the mark is written before the alert.
THEOREM StaleAlertsAreOwed == Spec => []OneStaleAlertPerStreak
<1> DEFINE IInv == UnmarkedOwes /\ OneStaleAlertPerStreak
<1>1. Init => IInv
  BY DEF Init, UnmarkedOwes, OneStaleAlertPerStreak
<1>2. TypeOK /\ IInv /\ [Next]_vars => IInv'
  <2> SUFFICES ASSUME TypeOK, IInv, [Next]_vars PROVE IInv'
    OBVIOUS
  <2>0. /\ mishaps \in Nat /\ MaxMishaps \in Nat /\ AlertCap \in Nat
        /\ alerts \in [Sources -> 0..AlertCap]
    BY ConstantTypes DEF TypeOK
  <2>1. CASE UNCHANGED <<marked, alerts>> /\ mishaps <= mishaps' /\ mishaps' \in Nat
    BY <2>0, <2>1 DEF UnmarkedOwes, OneStaleAlertPerStreak
  <2>2. ASSUME NEW s \in Sources, Succeeds(s) PROVE IInv'
    <3>1. /\ TypeOK' /\ mishaps <= mishaps'
          /\ \A q \in Sources \ {s} : marked'[q] = marked[q] /\ alerts'[q] = alerts[q]
          /\ \/ alerts'[s] <= alerts[s] /\ (marked'[s] \/ ~ marked[s])
             \/ alerts'[s] = 0
             \/ /\ ~ marked[s] /\ alerts'[s] <= alerts[s] + 1
                /\ marked'[s] \/ mishaps' = mishaps + 1
      BY <2>2, SuccessEffect
    <3>2. mishaps' \in Nat /\ alerts' \in [Sources -> 0..AlertCap]
      BY <3>1, ConstantTypes DEF TypeOK
    <3>3. ASSUME NEW q \in Sources
          PROVE  (~ marked'[q] => alerts'[q] <= mishaps') /\ alerts'[q] <= 1 + mishaps'
      <4>0. alerts[q] \in Nat /\ alerts'[q] \in Nat
        BY <2>0, <3>2
      <4>1. (~ marked[q] => alerts[q] <= mishaps) /\ alerts[q] <= 1 + mishaps
        BY DEF UnmarkedOwes, OneStaleAlertPerStreak
      <4>2. CASE q # s
        BY <2>0, <3>1, <3>2, <4>0, <4>1, <4>2
      <4>3. CASE q = s
        BY <2>0, <3>1, <3>2, <4>0, <4>1, <4>3
      <4>4. QED
        BY <4>2, <4>3
    <3>4. QED
      BY <3>3 DEF UnmarkedOwes, OneStaleAlertPerStreak
  <2>3. ASSUME NEW s \in Sources, Fails(s) PROVE IInv'
    <3>1. UNCHANGED <<marked, alerts>> /\ mishaps <= mishaps' /\ mishaps' \in Nat
      BY <2>3, FailureEffect, ConstantTypes
    <3>2. QED
      BY <3>1, <2>1
  <2>4. CASE StartTickBlind \/ StartTickRaises \/ Restart
    <3>1. mishaps <= mishaps' /\ mishaps' \in Nat
      <4>1. CountMishap(TRUE)
        BY <2>4 DEF StartTickBlind, StartTickRaises, Restart
      <4>2. mishaps' \in 0..MaxMishaps /\ mishaps <= mishaps'
        BY <4>1, MishapsCounted
      <4>3. QED
        BY <2>0, <4>2
    <3>2. UNCHANGED <<marked, alerts>>
      BY <2>4 DEF StartTickBlind, StartTickRaises, Restart, row
    <3>3. QED
      BY <3>1, <3>2, <2>1
  <2>5. CASE Heartbeat \/ StartTick \/ DeadlinePasses \/ FinishTick \/ UNCHANGED vars
    <3>1. UNCHANGED <<marked, alerts, mishaps>>
      BY <2>5 DEF Heartbeat, StartTick, DeadlinePasses, FinishTick, vars, row
    <3>2. QED
      BY <2>0, <3>1, <2>1
  <2>6. QED
    BY <2>2, <2>3, <2>4, <2>5 DEF Next
<1>3. QED
  BY <1>1, <1>2, TypeCorrect, PTL DEF Spec

(***************************************************************************)
(* Lateness.  Late(s) is how far beyond its patience a source has fallen   *)
(* when every fault is charged a round: the cooldown of a circuit and a    *)
(* run of each punctual source.  Passed(s) are those that ran since, or    *)
(* are running now: there are as many of them as heartbeats s is late, and *)
(* no tick may let one of them go first again before s.                    *)
(***************************************************************************)
Others == Cardinality(Punctual) - 1

Behind(s, a, m) == a - Patience(s) - m * Round

Late(s) == Behind(s, age[s], mishaps)

Passed(s) == {t \in Punctual \ {s} : age[t] < Late(s) \/ t \in inflight}

NoneInflight == tick # "running" => inflight = {}

\* A late source has been passed once per heartbeat, the one of the tick that
\* is about to decide or that runs it not counted.
PassedKeepsUp ==
  \A s \in Punctual :
    age[s] # Never /\ Late(s) > 0 =>
      /\ Cardinality(Passed(s)) >= Late(s) - 1
      /\ tick # "due" /\ s \notin inflight => Cardinality(Passed(s)) >= Late(s)

\* No source is late behind an open circuit: it cools before that.
OpenIsEarly ==
  \A s \in Punctual :
    age[s] # Never /\ circuit[s] = "open" =>
      /\ Late(s) <= openAge[s] - Cooldown
      /\ tick # "due" /\ openAge[s] = Cooldown => Late(s) < 0

LateInv == NoneInflight /\ PassedKeepsUp /\ OpenIsEarly

LEMMA PunctualType ==
  /\ Punctual \in SUBSET Sources /\ Cardinality(Punctual) \in Nat
  /\ Round \in Nat /\ Cooldown \in Nat \ {0}
  /\ \A s \in Punctual : /\ Others \in Nat /\ IsFiniteSet(Punctual \ {s})
                         /\ Cardinality(Punctual \ {s}) = Others
<1>1. Punctual \in SUBSET Sources
  BY DEF Punctual
<1>2. IsFiniteSet(Punctual) /\ Cardinality(Punctual) \in Nat
  BY <1>1, SourcesFinite, FS_Subset, FS_CardinalityType
<1>3. Cooldown \in Nat \ {0}
  BY BreakerAssumption
<1>4. ASSUME NEW s \in Punctual
      PROVE  Others \in Nat /\ IsFiniteSet(Punctual \ {s}) /\ Cardinality(Punctual \ {s}) = Others
  <2>1. IsFiniteSet(Punctual \ {s}) /\ Cardinality(Punctual \ {s}) = Cardinality(Punctual) - 1
    BY <1>2, FS_RemoveElement
  <2>2. Cardinality(Punctual \ {s}) \in Nat
    BY <2>1, FS_CardinalityType
  <2>3. QED
    BY <2>1, <2>2 DEF Others
<1>5. QED
  BY <1>1, <1>2, <1>3, <1>4 DEF Round

LEMMA PatienceIsTheLongest ==
  ASSUME NEW s \in Punctual
  PROVE  /\ Patience(s) \in Nat /\ Patience(s) >= Interval[s]
         /\ Patience(s) >= Cooldown /\ Patience(s) >= Others * Interval[s]
<1>1. Interval[s] \in Nat /\ Cooldown \in Nat /\ Others * Interval[s] \in Nat
  <2>1. Interval[s] \in Nat /\ Cooldown \in Nat /\ Others \in Nat
    BY PunctualType, ScheduleAssumption
  <2>2. \A x, y \in Nat : x * y \in Nat
    OBVIOUS
  <2>3. QED
    BY <2>1, <2>2
<1>2. \A a, b, c \in Nat : \E p \in {a, b, c} : \A w \in {a, b, c} : w <= p
  OBVIOUS
<1> DEFINE waits == {Interval[s], Cooldown, Others * Interval[s]}
<1>3. \E p \in waits : \A w \in waits : w <= p
  BY <1>1, <1>2
<1>4. Patience(s) = CHOOSE p \in waits : \A w \in waits : w <= p
  BY DEF Patience, Others
<1>5. Patience(s) \in waits /\ \A w \in waits : w <= Patience(s)
  <2> HIDE DEF waits
  <2>1. QED
    BY <1>3, <1>4
<1>6. QED
  BY <1>1, <1>5

\* A heartbeat adds one, a fault takes a round off, and a source that has just
\* run is not late by at least the cooldown.
LEMMA BehindCounts ==
  ASSUME NEW s \in Punctual, NEW a \in Nat, NEW m \in Nat
  PROVE  /\ Behind(s, a, m) \in Int
         /\ Behind(s, a + 1, m) = Behind(s, a, m) + 1
         /\ Behind(s, a, m + 1) = Behind(s, a, m) - Round
         /\ Behind(s, 0, m) <= 0 - Cooldown
         /\ a = Behind(s, a, m) + Patience(s) + m * Round
         /\ m * Round \in Nat
<1>1. \A x, y \in Nat : x * y \in Nat /\ (x + 1) * y = x * y + y
  OBVIOUS
<1>2. m * Round \in Nat /\ (m + 1) * Round = m * Round + Round
  BY <1>1, PunctualType
<1>3. Patience(s) \in Nat /\ Patience(s) >= Cooldown /\ Round \in Nat /\ Cooldown \in Nat
  BY PatienceIsTheLongest, PunctualType
<1> DEFINE x == m * Round
           y == (m + 1) * Round
<1>4. /\ Behind(s, a, m) = a - Patience(s) - x
      /\ Behind(s, a + 1, m) = (a + 1) - Patience(s) - x
      /\ Behind(s, a, m + 1) = a - Patience(s) - y
      /\ Behind(s, 0, m) = 0 - Patience(s) - x
  BY DEF Behind
<1>5. x \in Nat /\ y = x + Round
  BY <1>2
<1> HIDE DEF x, y
<1>6. QED
  BY <1>3, <1>4, <1>5 DEF x

\* Faults that are yet to come only lower the ages a bound on Late allows.
LEMMA BehindBoundsAge ==
  ASSUME NEW s \in Punctual, NEW a \in Nat, NEW m \in 0..MaxMishaps, AgesSuffice,
         Behind(s, a, m) <= Cardinality(Punctual)
  PROVE  /\ a <= Patience(s) + Cardinality(Punctual) + m * Round
         /\ a < AgeCap
<1>1. \A x, y, z \in Nat : x <= y => x * z <= y * z
  OBVIOUS
<1>2. m \in Nat /\ MaxMishaps \in Nat /\ m <= MaxMishaps /\ Round \in Nat /\ AgeCap \in Nat
  BY PunctualType, ConstantTypes
<1>3. m * Round <= MaxMishaps * Round
  BY <1>1, <1>2
<1>4. a = Behind(s, a, m) + Patience(s) + m * Round /\ m * Round \in Nat /\ Behind(s, a, m) \in Int
  BY <1>2, BehindCounts
<1>5. MaxMishaps * Round \in Nat
  BY <1>2, BehindCounts
<1>6. Patience(s) \in Nat /\ Cardinality(Punctual) \in Nat
  BY PatienceIsTheLongest, PunctualType
<1>7. Patience(s) + Cardinality(Punctual) + MaxMishaps * Round < AgeCap
  BY DEF AgesSuffice
<1> DEFINE x == m * Round
           y == MaxMishaps * Round
<1>8. x <= y /\ a = Behind(s, a, m) + Patience(s) + x /\ x \in Nat /\ y \in Nat
      /\ Patience(s) + Cardinality(Punctual) + y < AgeCap
  BY <1>3, <1>4, <1>5, <1>7
<1> HIDE DEF x, y
<1>9. QED
  BY <1>2, <1>4, <1>6, <1>8 DEF x

LEMMA LateType ==
  ASSUME TypeOK, NEW s \in Punctual
  PROVE  /\ age[s] \in Nat /\ mishaps \in Nat /\ Late(s) \in Int
         /\ openAge[s] \in 0..Cooldown
BY PunctualType, ConstantTypes, BehindCounts DEF TypeOK, Late

\* A late source is older than its patience.
LEMMA LateMeans ==
  ASSUME TypeOK, NEW s \in Punctual
  PROVE  \E w \in Nat : age[s] = Late(s) + Patience(s) + w
<1>1. age[s] \in Nat /\ mishaps \in Nat
  BY LateType
<1>2. Late(s) = Behind(s, age[s], mishaps)
  BY DEF Late
<1>3. mishaps * Round \in Nat
  BY <1>1, BehindCounts
<1>4. age[s] = Behind(s, age[s], mishaps) + Patience(s) + mishaps * Round
  BY <1>1, BehindCounts
<1>5. QED
  BY <1>2, <1>3, <1>4

LEMMA PassedAreFew ==
  ASSUME NEW s \in Punctual
  PROVE  /\ IsFiniteSet(Passed(s)) /\ Cardinality(Passed(s)) \in Nat
         /\ Cardinality(Passed(s)) <= Others
<1> DEFINE T == Punctual \ {s}
<1>1. Passed(s) \in SUBSET T
  BY DEF Passed
<1>2. IsFiniteSet(T) /\ Cardinality(T) = Others
  BY PunctualType
<1> HIDE DEF T
<1>3. IsFiniteSet(Passed(s)) /\ Cardinality(Passed(s)) <= Others
  BY <1>1, <1>2, FS_Subset
<1>4. QED
  BY <1>3, FS_CardinalityType

\* There are no more others to be passed by: no source is later than a round.
LEMMA NeverLaterThanARound ==
  ASSUME TypeOK, LateInv, NEW s \in Punctual, age[s] # Never
  PROVE  /\ Late(s) <= Cardinality(Punctual)
         /\ tick # "due" /\ s \notin inflight => Late(s) <= Others
<1>1. /\ Late(s) > 0 => Cardinality(Passed(s)) >= Late(s) - 1
      /\ Late(s) > 0 /\ tick # "due" /\ s \notin inflight => Cardinality(Passed(s)) >= Late(s)
  BY DEF LateInv, PassedKeepsUp
<1>2. /\ Cardinality(Passed(s)) \in Nat /\ Cardinality(Passed(s)) <= Others
      /\ Others \in Nat /\ Cardinality(Punctual) = Others + 1 /\ Late(s) \in Int
  BY PassedAreFew, PunctualType, LateType DEF Others
<1>3. QED
  BY <1>1, <1>2

\* What an answer does to the ages and the circuits, failure or success: a
\* clean one makes the source young.
LEMMA AnswerEffect ==
  ASSUME TypeOK, NEW s \in Sources, Fails(s) \/ Succeeds(s)
  PROVE  /\ TypeOK' /\ tick' = tick
         /\ inflight' = inflight \ {s} /\ s \in inflight
         /\ \A q \in Sources \ {s} :
              age'[q] = age[q] /\ circuit'[q] = circuit[q] /\ openAge'[q] = openAge[q]
         /\ \/ mishaps' = mishaps + 1 /\ age'[s] \in {age[s], 0}
            \/ mishaps' = mishaps /\ age'[s] = 0
<1>1. TypeOK' /\ tick' = tick /\ inflight' = inflight \ {s} /\ s \in inflight
  <2>1. CASE Fails(s)
    BY <2>1, FailureEffect DEF TypeOK
  <2>2. CASE Succeeds(s)
    BY <2>2, SuccessEffect DEF Succeeds, Answers
  <2>3. QED
    BY <2>1, <2>2
<1>2. age \in [Sources -> 0..Never] /\ openAge \in [Sources -> 0..Cooldown]
      /\ circuit \in [Sources -> {"closed", "open", "half_open"}]
  BY DEF TypeOK
<1>3. PICK calls \in CallsUpTo(3), state \in {"open", "closed"} :
        /\ IF 1 \in calls.landed THEN age' = [age EXCEPT ![s] = 0] ELSE age' = age
        /\ \/ circuit' = [circuit EXCEPT ![s] = state] /\ openAge' = [openAge EXCEPT ![s] = 0]
           \/ UNCHANGED <<circuit, openAge>>
        /\ CountMishap(calls # Clean(3))
  <2>1. CASE Fails(s)
    <3>1. PICK calls \in CallsUpTo(3) : RecordFailure(s, calls) /\ CountMishap(calls # Clean(3))
      BY <2>1 DEF Fails
    <3>2. IF 1 \in calls.landed THEN age' = [age EXCEPT ![s] = 0] ELSE age' = age
      BY <3>1 DEF RecordFailure
    <3>3. \/ circuit' = [circuit EXCEPT ![s] = "open"] /\ openAge' = [openAge EXCEPT ![s] = 0]
          \/ UNCHANGED <<circuit, openAge>>
      BY <3>1 DEF RecordFailure
    <3>4. QED
      BY <3>1, <3>2, <3>3
  <2>2. CASE Succeeds(s)
    <3>1. PICK empty \in {FALSE} \cup {s \in Silent}, calls \in CallsUpTo(3) :
            RecordSuccess(s, empty, calls) /\ CountMishap(calls # Clean(3))
      BY <2>2 DEF Succeeds
    <3>2. IF 1 \in calls.landed THEN age' = [age EXCEPT ![s] = 0] ELSE age' = age
      BY <3>1 DEF RecordSuccess
    <3>3. \/ circuit' = [circuit EXCEPT ![s] = "closed"] /\ openAge' = [openAge EXCEPT ![s] = 0]
          \/ UNCHANGED <<circuit, openAge>>
      BY <3>1 DEF RecordSuccess
    <3>4. QED
      BY <3>1, <3>2, <3>3
  <2>3. QED
    BY <2>1, <2>2
<1>4. \A q \in Sources \ {s} :
        age'[q] = age[q] /\ circuit'[q] = circuit[q] /\ openAge'[q] = openAge[q]
  BY <1>2, <1>3
<1>5. /\ 1 \in calls.landed => age'[s] = 0
      /\ 1 \notin calls.landed => age'[s] = age[s]
  BY <1>2, <1>3
<1>6. CASE calls = Clean(3)
  <2>1. 1 \in calls.landed
    BY <1>6 DEF Clean
  <2>2. mishaps' = mishaps
    BY <1>3, <1>6 DEF CountMishap
  <2>3. QED
    BY <2>1, <2>2, <1>1, <1>4, <1>5
<1>7. CASE calls # Clean(3)
  <2>1. mishaps' = mishaps + 1
    BY <1>3, <1>7 DEF CountMishap
  <2>2. QED
    BY <2>1, <1>1, <1>4, <1>5
<1>8. QED
  BY <1>6, <1>7

\* A fault is charged more than any source can be late, so none is late after
\* it, whatever it did to the circuits.
LEMMA FaultIsCharged ==
  ASSUME TypeOK, LateInv, TypeOK', mishaps' = mishaps + 1,
         \A s \in Punctual : age'[s] \in {age[s], 0}
  PROVE  PassedKeepsUp' /\ OpenIsEarly'
<1>1. ASSUME NEW s \in Punctual, age'[s] # Never
      PROVE  Late(s)' \in Int /\ Late(s)' <= 0 - Cooldown
  <2>1. age[s] \in Nat /\ mishaps \in Nat /\ mishaps + 1 \in Nat /\ Late(s) \in Int
    BY LateType
  <2>2. Late(s)' = Behind(s, age'[s], mishaps + 1)
    BY DEF Late
  <2>3. CASE age'[s] = 0
    BY <2>1, <2>2, <2>3, BehindCounts
  <2>4. CASE age'[s] = age[s]
    <3>1. Late(s) <= Cardinality(Punctual)
      BY <1>1, <2>4, NeverLaterThanARound
    <3>2. Late(s)' = Behind(s, age[s], mishaps + 1) /\ Late(s) = Behind(s, age[s], mishaps)
      BY <2>2, <2>4 DEF Late
    <3>3. Behind(s, age[s], mishaps + 1) = Behind(s, age[s], mishaps) - Round
      BY <2>1, BehindCounts
    <3>4. QED
      BY <2>1, <3>1, <3>2, <3>3, PunctualType DEF Round
  <2>5. QED
    BY <2>3, <2>4
<1>2. \A s \in Punctual : openAge'[s] \in 0..Cooldown
  BY PunctualType DEF TypeOK
<1>3. Cooldown \in Nat \ {0}
  BY PunctualType
<1>4. PassedKeepsUp'
  BY <1>1, <1>3 DEF PassedKeepsUp
<1>5. OpenIsEarly'
  BY <1>1, <1>2, <1>3 DEF OpenIsEarly
<1>6. QED
  BY <1>4, <1>5

\* Who passed a source stays counted while none of them is dropped.
LEMMA PassedGrow ==
  ASSUME NEW s \in Punctual, Passed(s) \subseteq Passed(s)'
  PROVE  Cardinality(Passed(s)) <= Cardinality(Passed(s)') /\ Cardinality(Passed(s)') \in Nat
<1> DEFINE T == Punctual \ {s}
<1>1. Passed(s)' \in SUBSET T
  BY DEF Passed
<1>2. IsFiniteSet(T)
  BY PunctualType
<1> HIDE DEF T
<1>3. IsFiniteSet(Passed(s)')
  BY <1>1, <1>2, FS_Subset
<1>4. QED
  BY <1>3, FS_Subset, FS_CardinalityType

\* A clean answer makes its source young, and leaves it among those that
\* passed each of the others.
LEMMA CleanAnswerKeeps ==
  ASSUME TypeOK, LateInv, NEW s \in Sources, Fails(s) \/ Succeeds(s), mishaps' = mishaps
  PROVE  PassedKeepsUp' /\ OpenIsEarly'
<1>1. /\ TypeOK' /\ tick' = tick /\ inflight' = inflight \ {s} /\ s \in inflight
      /\ \A q \in Sources \ {s} :
           age'[q] = age[q] /\ circuit'[q] = circuit[q] /\ openAge'[q] = openAge[q]
      /\ age'[s] = 0
  <2>1. mishaps \in Nat
    BY ConstantTypes DEF TypeOK
  <2>2. ~ (mishaps' = mishaps + 1)
    BY <2>1
  <2>3. QED
    BY <2>2, AnswerEffect
<1>2. Punctual \subseteq Sources /\ Cooldown \in Nat \ {0}
  BY PunctualType
<1>3. ASSUME s \in Punctual
      PROVE  Late(s)' \in Int /\ Late(s)' <= 0 - Cooldown /\ openAge'[s] \in 0..Cooldown
  <2>1. mishaps \in Nat
    BY <1>3, LateType
  <2>2. Late(s)' = Behind(s, 0, mishaps)
    BY <1>1 DEF Late
  <2>3. openAge'[s] \in 0..Cooldown
    BY <1>1 DEF TypeOK
  <2>4. QED
    BY <1>3, <2>1, <2>2, <2>3, BehindCounts
<1>4. ASSUME NEW q \in Punctual \ {s}
      PROVE  /\ Late(q)' = Late(q) /\ age'[q] = age[q] /\ circuit'[q] = circuit[q]
             /\ openAge'[q] = openAge[q] /\ (q \notin inflight' => q \notin inflight)
             /\ Late(q) > 0 => Passed(q) \subseteq Passed(q)'
  <2>1. q \in Sources \ {s}
    BY <1>2
  <2>2. Late(q)' = Late(q)
    BY <1>1, <2>1 DEF Late
  <2>3. ASSUME Late(q) > 0, NEW t \in Passed(q) PROVE t \in Passed(q)'
    <3>1. t \in Punctual \ {q} /\ (age[t] < Late(q) \/ t \in inflight)
      BY <2>3 DEF Passed
    <3>2. CASE t = s
      BY <3>1, <3>2, <1>1, <2>2, <2>3 DEF Passed
    <3>3. CASE t # s
      <4>1. age'[t] = age[t] /\ (t \in inflight => t \in inflight')
        BY <3>1, <3>3, <1>1, <1>2
      <4>2. QED
        BY <3>1, <4>1, <2>2 DEF Passed
    <3>4. QED
      BY <3>2, <3>3
  <2>4. QED
    BY <2>1, <2>2, <2>3, <1>1
<1>5. PassedKeepsUp'
  <2> SUFFICES ASSUME NEW q \in Punctual, age'[q] # Never, Late(q)' > 0
               PROVE  /\ Cardinality(Passed(q)') >= Late(q)' - 1
                      /\ tick' # "due" /\ q \notin inflight' =>
                           Cardinality(Passed(q)') >= Late(q)'
    BY DEF PassedKeepsUp
  <2>1. q # s
    BY <1>2, <1>3
  <2>2. /\ Cardinality(Passed(q)) >= Late(q) - 1
        /\ tick # "due" /\ q \notin inflight => Cardinality(Passed(q)) >= Late(q)
    BY <2>1, <1>4 DEF LateInv, PassedKeepsUp
  <2>3. Cardinality(Passed(q)) <= Cardinality(Passed(q)') /\ Cardinality(Passed(q)') \in Nat
    BY <2>1, <1>4, PassedGrow
  <2>4. Cardinality(Passed(q)) \in Nat /\ Late(q) \in Int
    BY PassedAreFew, LateType
  <2>5. Late(q)' = Late(q) /\ tick' = tick /\ (q \notin inflight' => q \notin inflight)
    BY <2>1, <1>1, <1>4
  <2>6. QED
    BY <2>2, <2>3, <2>4, <2>5
<1>6. OpenIsEarly'
  <2> SUFFICES ASSUME NEW q \in Punctual, age'[q] # Never, circuit'[q] = "open"
               PROVE  /\ Late(q)' <= openAge'[q] - Cooldown
                      /\ tick' # "due" /\ openAge'[q] = Cooldown => Late(q)' < 0
    BY DEF OpenIsEarly
  <2>1. CASE q = s
    BY <2>1, <1>2, <1>3
  <2>2. CASE q # s
    BY <2>2, <1>1, <1>4 DEF LateInv, OpenIsEarly
  <2>3. QED
    BY <2>1, <2>2
<1>7. QED
  BY <1>5, <1>6

\* Five minutes later every source is later by one, and is still passed by
\* those it was passed by; a circuit that has cooled was not behind a late one.
LEMMA HeartbeatKeeps ==
  ASSUME TypeOK, LateInv, AgesSuffice, Heartbeat
  PROVE  PassedKeepsUp' /\ OpenIsEarly'
<1>1. /\ inflight = {} /\ inflight' = {} /\ tick = "idle" /\ tick' = "due"
      /\ mishaps' = mishaps /\ circuit' = circuit
  BY DEF Heartbeat, LateInv, NoneInflight
<1>2. \A q \in Sources :
        age'[q] = IF age[q] = Never THEN Never ELSE AtMost(age[q] + 1, AgeCap)
  BY DEF Heartbeat
<1>3. Punctual \subseteq Sources /\ Cooldown \in Nat \ {0}
  BY PunctualType
<1>4. ASSUME NEW q \in Sources
      PROVE  /\ age[q] \in Nat /\ age'[q] \in Nat /\ age'[q] <= age[q] + 1
             /\ age'[q] # Never => age[q] # Never
             /\ age[q] # Never /\ age[q] < AgeCap => age'[q] = age[q] + 1
  <2>1. age[q] \in 0..Never /\ AgeCap \in Nat /\ Never \in Nat
    BY ConstantTypes DEF TypeOK
  <2>2. QED
    BY <1>2, <2>1 DEF AtMost
<1>5. ASSUME NEW s \in Punctual, age'[s] # Never
      PROVE  /\ Late(s)' = Late(s) + 1 /\ Late(s) \in Int /\ age[s] # Never
             /\ Passed(s) \subseteq Passed(s)'
  <2>1. age[s] # Never /\ age[s] \in Nat /\ mishaps \in 0..MaxMishaps /\ mishaps \in Nat
        /\ Late(s) \in Int
    BY <1>3, <1>4, <1>5, LateType DEF TypeOK
  <2>2. Late(s) <= Cardinality(Punctual)
    BY <2>1, NeverLaterThanARound
  <2>3. age[s] < AgeCap
    BY <2>1, <2>2, BehindBoundsAge DEF Late
  <2>4. age'[s] = age[s] + 1
    BY <1>3, <1>4, <2>1, <2>3
  <2>5. Late(s)' = Behind(s, age[s] + 1, mishaps) /\ Late(s) = Behind(s, age[s], mishaps)
    BY <1>1, <2>4 DEF Late
  <2>6. Late(s)' = Late(s) + 1
    <3>1. Behind(s, age[s] + 1, mishaps) = Behind(s, age[s], mishaps) + 1
      BY <2>1, BehindCounts
    <3>2. QED
      BY <2>5, <3>1
  <2>7. ASSUME NEW t \in Passed(s) PROVE t \in Passed(s)'
    <3>1. t \in Punctual \ {s} /\ age[t] < Late(s)
      BY <1>1 DEF Passed
    <3>2. age'[t] < Late(s)'
      BY <3>1, <1>3, <1>4, <2>1, <2>6
    <3>3. QED
      BY <3>1, <3>2 DEF Passed
  <2>8. QED
    BY <2>1, <2>6, <2>7
<1>6. PassedKeepsUp'
  <2> SUFFICES ASSUME NEW s \in Punctual, age'[s] # Never, Late(s)' > 0
               PROVE  Cardinality(Passed(s)') >= Late(s)' - 1
    BY <1>1 DEF PassedKeepsUp
  <2>1. Late(s)' = Late(s) + 1 /\ Late(s) \in Int /\ age[s] # Never
    BY <1>5
  <2>2. Late(s) > 0 => Cardinality(Passed(s)) >= Late(s)
    BY <1>1, <2>1 DEF LateInv, PassedKeepsUp
  <2>3. Cardinality(Passed(s)) <= Cardinality(Passed(s)') /\ Cardinality(Passed(s)') \in Nat
    BY <1>5, PassedGrow
  <2>4. Cardinality(Passed(s)) \in Nat
    BY PassedAreFew
  <2>5. QED
    BY <2>1, <2>2, <2>3, <2>4
<1>7. OpenIsEarly'
  <2> SUFFICES ASSUME NEW s \in Punctual, age'[s] # Never, circuit[s] = "open"
               PROVE  Late(s)' <= openAge'[s] - Cooldown
    BY <1>1 DEF OpenIsEarly
  <2>1. Late(s)' = Late(s) + 1 /\ Late(s) \in Int /\ age[s] # Never
    BY <1>5
  <2>2. /\ Late(s) <= openAge[s] - Cooldown
        /\ openAge[s] = Cooldown => Late(s) < 0
    BY <1>1, <2>1 DEF LateInv, OpenIsEarly
  <2>3. openAge[s] \in 0..Cooldown
    BY LateType
  <2>4. openAge'[s] = AtMost(openAge[s] + 1, Cooldown)
    BY <1>3 DEF Heartbeat
  <2>5. QED
    BY <1>3, <2>1, <2>2, <2>3, <2>4 DEF AtMost
<1>8. QED
  BY <1>6, <1>7

\* One that passed a late source is less overdue than it.
LEMMA PassedAreBehind ==
  ASSUME TypeOK, NEW s \in Punctual, NEW t \in Punctual,
         age[s] # Never, age[t] # Never, Late(s) > 0,
         Late(s) <= Cardinality(Punctual), age[t] < Late(s)
  PROVE  ~ Ahead(age, t, s)
<1>1. /\ age[s] \in Nat /\ age[t] \in Nat /\ mishaps \in Nat /\ Late(s) \in Int
      /\ Others \in Nat /\ Cardinality(Punctual) = Others + 1
  BY LateType, PunctualType DEF Others
<1>2. Interval[s] \in Nat \ {0} /\ Interval[t] \in Nat \ {0}
  BY PunctualType, ScheduleAssumption
<1>3. PICK w \in Nat : age[s] = Late(s) + Patience(s) + w
  BY LateMeans
<1>4. Patience(s) \in Nat /\ Patience(s) >= Others * Interval[s]
  BY PatienceIsTheLongest
<1>5. age[t] <= Others
  BY <1>1
<1>6. /\ \A x, y, z \in Nat : x <= y => x * z <= y * z
      /\ \A x, y \in Nat : y # 0 => x * y >= x
      /\ \A x, y \in Nat : x * y \in Nat
  <2>1. \A x, y, z \in Nat : x <= y => x * z <= y * z
    OBVIOUS
  <2>2. \A x, y \in Nat : y # 0 => x * y >= x
    OBVIOUS
  <2>3. \A x, y \in Nat : x * y \in Nat
    OBVIOUS
  <2>4. QED
    BY <2>1, <2>2, <2>3
<1>7. /\ age[t] * Interval[s] <= Others * Interval[s]
      /\ age[s] * Interval[t] >= age[s]
      /\ {age[t] * Interval[s], Others * Interval[s], age[s] * Interval[t]} \subseteq Nat
  BY <1>1, <1>2, <1>5, <1>6
<1> DEFINE x == age[t] * Interval[s]
           y == age[s] * Interval[t]
           z == Others * Interval[s]
<1>8. x <= z /\ y >= age[s] /\ z <= Patience(s) /\ {x, y, z} \subseteq Nat
  BY <1>4, <1>7
<1>9. MoreOverdue(age, s, t) = (y > x) /\ MoreOverdue(age, t, s) = (x > y)
  BY DEF MoreOverdue
<1> HIDE DEF x, y, z
<1>10. y > x /\ ~ (x > y)
  BY <1>1, <1>3, <1>4, <1>8
<1>11. QED
  BY <1>9, <1>10 DEF Ahead

\* The tick of a late source runs it, or one that had not passed it yet.
LEMMA StartTickKeeps ==
  ASSUME TypeOK, LateInv, LosersLeaveRoom, AgesSuffice, StartTick
  PROVE  PassedKeepsUp' /\ OpenIsEarly'
<1> DEFINE eligible == {s \in Sources : circuit[s] # "open"} \cup Cooled
           due == Due(age, eligible)
<1>1. /\ inflight = {} /\ tick = "due" /\ tick' = "running"
      /\ age' = age /\ openAge' = openAge /\ mishaps' = mishaps
      /\ circuit' = HalfOpened(Cooled)
      /\ inflight' = AdmitWithinWeightBudget(DueWithPriority(age, eligible))
  BY DEF StartTick, LateInv, NoneInflight
<1>2. age \in Ages /\ eligible \in SUBSET Sources /\ Cooled \in SUBSET Sources
  BY DEF TypeOK, Ages, Cooled
<1>3. due \in SUBSET Sources
  BY <1>2 DEF Due
<1>4. Punctual \subseteq Sources /\ Cooldown \in Nat \ {0} /\ Cardinality(Punctual) \in Nat
  BY PunctualType
<1>5. \A s \in Sources : circuit'[s] = "open" => circuit[s] = "open" /\ s \notin Cooled
  BY <1>1, <1>2, HalfOpenedType
<1>6. \A s \in Punctual : Late(s)' = Late(s)
  BY <1>1 DEF Late
<1>7. \A s \in Punctual : Passed(s) \subseteq Passed(s)'
  BY <1>1, <1>6 DEF Passed
<1>8. ASSUME NEW s \in Punctual, s \in due
      PROVE  \E h \in Punctual \cap inflight' : h = s \/ Ahead(age, h, s)
  <2>1. PICK h \in due \cap Punctual : \A t \in (due \cap Punctual) \ {h} : Ahead(age, h, t)
    <3> DEFINE D == due \cap Punctual
    <3>1. D \in SUBSET Sources /\ D # {}
      BY <1>3, <1>8
    <3> HIDE DEF D
    <3>2. \E h \in D : \A t \in D \ {h} : Ahead(age, h, t)
      BY <1>2, <3>1, OneIsFirst
    <3>3. QED
      BY <3>2 DEF D
  <2> DEFINE ahead == {t \in due : Ahead(age, t, h)}
  <2>2. ahead \subseteq Losers
    <3>1. ASSUME NEW t \in due, Ahead(age, t, h), t \notin Losers PROVE FALSE
      <4>1. t \in Sources /\ h \in Sources /\ t \in Punctual
        BY <1>3, <2>1, <3>1 DEF Punctual
      <4>2. t # h
        BY <1>2, <3>1, <4>1, RankingIsAStrictOrder
      <4>3. Ahead(age, h, t)
        BY <2>1, <4>1, <4>2
      <4>4. Ahead(age, h, h)
        BY <1>2, <3>1, <4>1, <4>3, RankingIsAStrictOrder
      <4>5. QED
        BY <1>2, <4>1, <4>4, RankingIsAStrictOrder
    <3>2. QED
      BY <3>1
  <2>3. ahead = {} \/ TotalWeight(ahead) + Weight[h] <= MaxTickWeight
    <3>1. Losers = {} \/ TotalWeight(Losers) + Weight[h] <= MaxTickWeight
      BY DEF LosersLeaveRoom
    <3> HIDE DEF ahead, due
    <3>2. CASE Losers = {}
      BY <2>2, <3>2
    <3>3. CASE TotalWeight(Losers) + Weight[h] <= MaxTickWeight
      <4>1. Losers \in SUBSET Sources /\ ahead \in SUBSET Losers /\ ahead \in SUBSET Sources
        BY <2>2, EnvironmentAssumption
      <4>2. TotalWeight(ahead) <= TotalWeight(Losers)
        BY <4>1, WeightMonotone
      <4>3. TotalWeight(ahead) \in Nat /\ TotalWeight(Losers) \in Nat /\ Weight[h] \in Nat
        BY <4>1, <1>4, UnitsFinite, ScheduleAssumption
      <4>4. QED
        BY <3>3, <4>2, <4>3, ScheduleAssumption
    <3>4. QED
      BY <3>1, <3>2, <3>3
  <2>4. h \in inflight'
    <3> HIDE DEF eligible
    <3>1. h \in Due(age, eligible)
      BY <2>1
    <3>2. h \in AdmitWithinWeightBudget(DueWithPriority(age, eligible))
      BY <1>2, <2>3, <3>1, DeferredOnlyByThoseAhead
    <3>3. QED
      BY <1>1, <3>2
  <2>5. QED
    BY <1>8, <2>1, <2>4
<1>9. ASSUME NEW s \in Punctual, age[s] # Never, Late(s) > 0
      PROVE  s \in due
  <2>1. /\ age[s] \in Nat /\ mishaps \in Nat /\ Late(s) \in Int /\ openAge[s] \in 0..Cooldown
    BY LateType
  <2>2. circuit[s] # "open"
    <3>1. circuit[s] = "open" => Late(s) <= openAge[s] - Cooldown
      BY <1>9 DEF LateInv, OpenIsEarly
    <3>2. QED
      BY <1>4, <1>9, <2>1, <3>1
  <2>3. Patience(s) \in Nat /\ Patience(s) >= Interval[s] /\ Interval[s] \in Nat
    BY <1>4, PatienceIsTheLongest, ScheduleAssumption
  <2>4. age[s] >= Interval[s]
    <3>1. PICK w \in Nat : age[s] = Late(s) + Patience(s) + w
      BY LateMeans
    <3>2. QED
      BY <1>9, <2>1, <2>3, <3>1
  <2>5. QED
    BY <1>4, <2>2, <2>4 DEF Due
<1> HIDE DEF due, eligible
<1>10. PassedKeepsUp'
  <2> SUFFICES ASSUME NEW s \in Punctual, age[s] # Never, Late(s) > 0
               PROVE  /\ Cardinality(Passed(s)') >= Late(s) - 1
                      /\ s \notin inflight' => Cardinality(Passed(s)') >= Late(s)
    BY <1>1, <1>6 DEF PassedKeepsUp
  <2>1. Cardinality(Passed(s)) >= Late(s) - 1
    BY DEF LateInv, PassedKeepsUp
  <2>2. Cardinality(Passed(s)) <= Cardinality(Passed(s)') /\ Cardinality(Passed(s)') \in Nat
    BY <1>7, PassedGrow
  <2>3. IsFiniteSet(Passed(s)) /\ Cardinality(Passed(s)) \in Nat /\ Late(s) \in Int
    BY PassedAreFew, LateType
  <2>4. ASSUME s \notin inflight' PROVE Cardinality(Passed(s)') >= Late(s)
    <3>1. PICK h \in Punctual \cap inflight' : h = s \/ Ahead(age, h, s)
      BY <1>8, <1>9
    <3>2. h # s /\ Ahead(age, h, s)
      BY <2>4, <3>1
    <3>3. Late(s) <= Cardinality(Punctual)
      BY NeverLaterThanARound
    <3>4. Late(s) < Never
      <4>1. Patience(s) + Cardinality(Punctual) + MaxMishaps * Round < AgeCap
        BY DEF AgesSuffice
      <4>2. Patience(s) \in Nat /\ MaxMishaps * Round \in Nat
        BY PatienceIsTheLongest, ConstantTypes, BehindCounts
      <4> DEFINE w == MaxMishaps * Round
      <4>3. Patience(s) + Cardinality(Punctual) + w < AgeCap /\ w \in Nat
        BY <4>1, <4>2
      <4> HIDE DEF w
      <4>4. QED
        BY <1>4, <2>3, <3>3, <4>2, <4>3, ConstantTypes
    <3>5. h \notin Passed(s)
      <4> SUFFICES ASSUME h \in Passed(s) PROVE FALSE
        OBVIOUS
      <4>1. age[h] < Late(s)
        BY <1>1 DEF Passed
      <4>2. age[h] # Never
        BY <3>4, <4>1, <2>3, ConstantTypes
      <4>3. ~ Ahead(age, h, s)
        BY <3>3, <4>1, <4>2, PassedAreBehind
      <4>4. QED
        BY <3>2, <4>3
    <3>6. h \in Passed(s)'
      BY <3>1, <3>2 DEF Passed
    <3>7. Passed(s) \cup {h} \subseteq Passed(s)'
      BY <1>7, <3>6
    <3>8. Cardinality(Passed(s) \cup {h}) = Cardinality(Passed(s)) + 1
      BY <2>3, <3>5, FS_AddElement
    <3>9. Cardinality(Passed(s) \cup {h}) <= Cardinality(Passed(s)')
      <4> DEFINE T == Punctual \ {s}
      <4>1. Passed(s)' \in SUBSET T
        BY DEF Passed
      <4>2. IsFiniteSet(T)
        BY PunctualType
      <4> HIDE DEF T
      <4>3. IsFiniteSet(Passed(s)')
        BY <4>1, <4>2, FS_Subset
      <4>4. QED
        BY <3>7, <4>3, FS_Subset
    <3>10. QED
      BY <2>1, <2>2, <2>3, <3>8, <3>9
  <2>5. QED
    BY <2>1, <2>2, <2>3, <2>4
<1>11. OpenIsEarly'
  <2> SUFFICES ASSUME NEW s \in Punctual, age[s] # Never, circuit'[s] = "open"
               PROVE  /\ Late(s) <= openAge[s] - Cooldown
                      /\ openAge[s] # Cooldown
    BY <1>1, <1>6 DEF OpenIsEarly
  <2>1. s \in Sources /\ circuit[s] = "open" /\ s \notin Cooled
    BY <1>4, <1>5
  <2>2. Late(s) <= openAge[s] - Cooldown
    BY <2>1 DEF LateInv, OpenIsEarly
  <2>3. openAge[s] # Cooldown
    BY <1>4, <2>1 DEF Cooled
  <2>4. QED
    BY <2>2, <2>3
<1>12. QED
  BY <1>10, <1>11

LEMMA LateInvInitial == Init => LateInv
<1> SUFFICES ASSUME Init PROVE LateInv
  OBVIOUS
<1>1. \A s \in Punctual : age[s] = Never
  BY PunctualType DEF Init
<1>2. QED
  BY <1>1 DEF Init, LateInv, NoneInflight, PassedKeepsUp, OpenIsEarly

LEMMA LateInvPreserved ==
  ASSUME LosersLeaveRoom, AgesSuffice, TypeOK, LateInv, [Next]_vars
  PROVE  LateInv'
<1>1. TypeOK'
  BY TypePreserved
<1>2. Punctual \subseteq Sources /\ Cooldown \in Nat \ {0}
  BY PunctualType
<1>3. mishaps \in Nat
  BY ConstantTypes DEF TypeOK
<1>4. NoneInflight'
  <2>1. ASSUME NEW s \in Sources, Fails(s) \/ Succeeds(s) PROVE NoneInflight'
    BY <2>1 DEF Fails, Succeeds, Answers, NoneInflight
  <2>2. CASE StartTickRaises
    BY <2>2 DEF StartTickRaises, LateInv, NoneInflight
  <2>3. QED
    BY <2>1, <2>2 DEF Next, Heartbeat, StartTick, StartTickBlind, DeadlinePasses, FinishTick,
                      Restart, LateInv, NoneInflight, vars
<1>5. CASE Heartbeat
  BY <1>4, <1>5, HeartbeatKeeps DEF LateInv
<1>6. CASE StartTick
  BY <1>4, <1>6, StartTickKeeps DEF LateInv
<1>7. CASE StartTickBlind
  <2>1. mishaps' = mishaps + 1 /\ age' = age
    BY <1>7 DEF StartTickBlind, CountMishap
  <2>2. QED
    BY <1>1, <1>4, <2>1, FaultIsCharged DEF LateInv
<1>8. CASE StartTickRaises
  <2>1. mishaps' = mishaps + 1 /\ age' = age
    BY <1>8 DEF StartTickRaises, CountMishap
  <2>2. QED
    BY <1>1, <1>4, <2>1, FaultIsCharged DEF LateInv
<1>9. ASSUME NEW s \in Sources, Fails(s) \/ Succeeds(s) PROVE LateInv'
  <2>1. CASE mishaps' = mishaps
    BY <1>4, <1>9, <2>1, CleanAnswerKeeps DEF LateInv
  <2>2. CASE mishaps' # mishaps
    <3>1. mishaps' = mishaps + 1 /\ \A q \in Punctual : age'[q] \in {age[q], 0}
      BY <1>2, <1>9, <2>2, AnswerEffect
    <3>2. QED
      BY <1>1, <1>4, <3>1, FaultIsCharged DEF LateInv
  <2>3. QED
    BY <2>1, <2>2
<1>10. CASE DeadlinePasses \/ FinishTick
  <2>1. /\ tick # "due" /\ inflight \subseteq Losers /\ inflight' = {}
        /\ UNCHANGED <<row, mishaps>>
    BY <1>10 DEF DeadlinePasses, FinishTick
  <2>2. /\ age' = age /\ circuit' = circuit /\ openAge' = openAge /\ mishaps' = mishaps
    BY <2>1 DEF row
  <2>3. \A s \in Punctual : s \notin inflight /\ Late(s)' = Late(s) /\ Passed(s)' = Passed(s)
    BY <2>1, <2>2 DEF Late, Passed, Punctual
  <2>4. PassedKeepsUp'
    BY <2>1, <2>2, <2>3 DEF LateInv, PassedKeepsUp
  <2>5. OpenIsEarly'
    BY <2>1, <2>2, <2>3 DEF LateInv, OpenIsEarly
  <2>6. QED
    BY <1>4, <2>4, <2>5 DEF LateInv
<1>11. CASE Restart
  <2>1. mishaps' = mishaps + 1 /\ age' = age
    BY <1>11 DEF Restart, CountMishap, row
  <2>2. QED
    BY <1>1, <1>4, <2>1, FaultIsCharged DEF LateInv
<1>12. CASE UNCHANGED vars
  BY <1>12 DEF vars, row, LateInv, NoneInflight, PassedKeepsUp, OpenIsEarly, Late, Passed
<1>13. QED
  BY <1>5, <1>6, <1>7, <1>8, <1>9, <1>10, <1>11, <1>12 DEF Next

\* Deferral changes when a source runs, never whether: whatever the intervals
\* and the weights, with a bounded delay for every fault, provided those that
\* miss the deadline fit a tick beside any other source.
THEOREM LatenessIsBounded ==
  ASSUME LosersLeaveRoom, AgesSuffice
  PROVE  Spec => []LatenessBounded
<1>1. TypeOK /\ LateInv => LatenessBounded
  <2> SUFFICES ASSUME TypeOK, LateInv, NEW s \in Punctual, age[s] # Never
               PROVE  age[s] <= Patience(s) + Cardinality(Punctual) + mishaps * Round
    BY DEF LatenessBounded
  <2>1. Late(s) <= Cardinality(Punctual)
    BY NeverLaterThanARound
  <2>2. age[s] \in Nat /\ mishaps \in 0..MaxMishaps
    BY LateType DEF TypeOK
  <2>3. QED
    BY <2>1, <2>2, BehindBoundsAge DEF Late
<1>2. TypeOK /\ LateInv /\ [Next]_vars => LateInv'
  BY LateInvPreserved
<1>3. QED
  BY <1>1, <1>2, LateInvInitial, TypeCorrect, PTL DEF Spec
================================================================================
