------------------------------ MODULE DataLemmas ------------------------------
(***************************************************************************)
(* Facts about naturals and sequences that the proofs of several modules   *)
(* rest on.  Induction is stated for a set of naturals, not for a          *)
(* predicate: what a recursive function computes is then within reach.     *)
(***************************************************************************)
EXTENDS Integers, Sequences, SequencesExt, SequenceTheorems,
        WellFoundedInduction, TLAPS

(***************************************************************************)
(* Induction.                                                              *)
(***************************************************************************)
\* A set of naturals that is not empty has a least element.
LEMMA LeastElement ==
  ASSUME NEW T \in SUBSET Nat, T # {}
  PROVE  \E x \in T : \A y \in T : x <= y
<1>1. IsWellFoundedOn(OpToRel(<, Nat), Nat)
  BY NatLessThanWellFounded
<1>2. PICK x \in T : \A y \in T : ~ (<<y, x>> \in OpToRel(<, Nat))
  BY ONLY <1>1, WFMin, T \in SUBSET Nat, T # {}
<1>3. \A y \in T : ~ (y < x)
  BY <1>2 DEF OpToRel
<1>4. QED
  BY <1>3

\* A set that holds 0 and with every natural its successor holds them all.
LEMMA SetInduction ==
  ASSUME NEW S, 0 \in S, \A n \in Nat : n \in S => n + 1 \in S
  PROVE  Nat \subseteq S
<1> DEFINE T == {n \in Nat : n \notin S}
<1> SUFFICES ASSUME T # {} PROVE FALSE
  OBVIOUS
<1>1. PICK x \in T : \A y \in T : x <= y
  <2>1. T \in SUBSET Nat
    OBVIOUS
  <2> HIDE DEF T
  <2>2. QED
    BY <2>1, LeastElement
<1>2. x # 0 /\ x - 1 \in Nat /\ x - 1 \notin T
  BY <1>1
<1>3. (x - 1) + 1 \in S
  BY <1>2
<1>4. QED
  BY <1>3, <1>1

(***************************************************************************)
(* Recursive functions on an initial segment of the naturals.              *)
(***************************************************************************)
IsRecursion(f, S, base, step, N) ==
  /\ f \in [0..N -> S]
  /\ f[0] = base
  /\ \A i \in 1..N : f[i] = step[i][f[i-1]]

\* Whatever the base and the step, there is the function they describe.
LEMMA RecursionExists ==
  ASSUME NEW S, NEW base \in S, NEW step \in [Nat -> [S -> S]], NEW N \in Nat
  PROVE  \E f : IsRecursion(f, S, base, step, N)
<1> DEFINE Stage(f, n) == f[0] = base /\ \A i \in 1..n : f[i] = step[i][f[i-1]]
           I == {n \in Nat : \E f \in [0..n -> S] : Stage(f, n)}
<1>1. 0 \in I
  <2>1. [i \in 0..0 |-> base] \in [0..0 -> S] OBVIOUS
  <2>2. Stage([i \in 0..0 |-> base], 0) OBVIOUS
  <2> QED BY <2>1, <2>2
<1>2. ASSUME NEW n \in Nat, n \in I PROVE n + 1 \in I
  <2>1. PICK f \in [0..n -> S] : Stage(f, n)
    BY <1>2
  <2> DEFINE g == [i \in 0..(n+1) |-> IF i = n + 1 THEN step[n+1][f[n]] ELSE f[i]]
  <2>2. f[n] \in S /\ step[n+1] \in [S -> S]
    BY <2>1
  <2>3. g \in [0..(n+1) -> S]
    <3>1. step[n+1][f[n]] \in S BY <2>2
    <3>2. \A i \in 0..(n+1) : i # n + 1 => f[i] \in S BY <2>1
    <3> QED BY <3>1, <3>2
  <2>4. \A i \in 0..n : g[i] = f[i]
    OBVIOUS
  <2>5. g[n+1] = step[n+1][g[n]]
    BY <2>4
  <2>6. Stage(g, n+1)
    <3>1. g[0] = base BY <2>4, <2>1
    <3>2. ASSUME NEW i \in 1..(n+1) PROVE g[i] = step[i][g[i-1]]
      <4>1. CASE i = n + 1 BY <4>1, <2>5
      <4>2. CASE i # n + 1
        <5>1. i \in 1..n /\ i \in 0..n /\ i - 1 \in 0..n BY <4>2
        <5>2. f[i] = step[i][f[i-1]] BY <5>1, <2>1
        <5> HIDE DEF g
        <5> QED BY <5>1, <5>2, <2>4
      <4> QED BY <4>1, <4>2
    <3> QED BY <3>1, <3>2
  <2> HIDE DEF g
  <2> QED BY <2>3, <2>6
<1>3. Nat \subseteq I
  <2> HIDE DEF I
  <2> QED BY <1>1, <1>2, SetInduction
<1>4. QED
  BY <1>3 DEF IsRecursion

(***************************************************************************)
(* FlattenSeq.                                                             *)
(***************************************************************************)
\* The function the recursion of FlattenSeq describes.
IsFlattening(f, seqs) ==
  f = [i \in 1..Len(seqs) |-> IF i = 1 THEN seqs[i] ELSE f[i-1] \o seqs[i]]

\* There is such a function: it is built one argument at a time.
LEMMA FlatteningExists ==
  ASSUME NEW S, NEW seqs \in Seq(Seq(S))
  PROVE  \E f : IsFlattening(f, seqs)
<1> DEFINE Stage(g, n) == \A i \in 1..n : g[i] = IF i = 1 THEN seqs[i] ELSE g[i-1] \o seqs[i]
           P(n) == n <= Len(seqs) => \E g \in [1..n -> Seq(S)] : Stage(g, n)
<1>0. Len(seqs) \in Nat /\ \A i \in 1..Len(seqs) : seqs[i] \in Seq(S)
  BY LenProperties
<1>1. P(0)
  <2>1. [i \in 1..0 |-> seqs[i]] \in [1..0 -> Seq(S)]
    OBVIOUS
  <2>2. Stage([i \in 1..0 |-> seqs[i]], 0)
    OBVIOUS
  <2> QED BY <2>1, <2>2
<1>2. ASSUME NEW n \in Nat, P(n) PROVE P(n+1)
  <2> SUFFICES ASSUME n + 1 <= Len(seqs)
               PROVE  \E h \in [1..(n+1) -> Seq(S)] : Stage(h, n+1)
    OBVIOUS
  <2>0. n <= Len(seqs) BY <1>0
  <2>1. PICK g \in [1..n -> Seq(S)] : Stage(g, n)
    BY <2>0, <1>2
  <2> DEFINE last == IF n = 0 THEN seqs[1] ELSE g[n] \o seqs[n+1]
             h == [i \in 1..(n+1) |-> IF i = n + 1 THEN last ELSE g[i]]
  <2>2. last \in Seq(S)
    <3>1. CASE n = 0 BY <3>1, <1>0
    <3>2. CASE n # 0
      <4>1. g[n] \in Seq(S) /\ seqs[n+1] \in Seq(S) BY <3>2, <1>0
      <4> QED BY <4>1, <3>2, ConcatProperties
    <3> QED BY <3>1, <3>2
  <2>3. h \in [1..(n+1) -> Seq(S)]
    <3> HIDE DEF last
    <3> QED BY <2>2
  <2>4. Stage(h, n+1)
    <3> SUFFICES ASSUME NEW i \in 1..(n+1)
                 PROVE  h[i] = IF i = 1 THEN seqs[i] ELSE h[i-1] \o seqs[i]
      OBVIOUS
    <3>1. CASE i = n + 1
      <4>1. h[i] = last BY <3>1
      <4>2. CASE n = 0 BY <4>1, <4>2, <3>1
      <4>3. CASE n # 0
        <5>1. n \in 1..(n+1) /\ n # n + 1 BY <4>3
        <5>2. h[n] = g[n] BY <5>1
        <5>3. i # 1 /\ i - 1 = n BY <3>1, <4>3
        <5>4. last = h[i-1] \o seqs[i] BY <5>2, <5>3, <4>3, <3>1
        <5> HIDE DEF h, last
        <5> QED BY <5>3, <5>4, <4>1
      <4> QED BY <4>2, <4>3
    <3>2. CASE i # n + 1
      <4>1. i \in 1..n BY <3>2
      <4>2. h[i] = g[i] BY <3>2
      <4>3. i # 1 => i - 1 \in 1..(n+1) /\ i - 1 # n + 1 BY <4>1
      <4>4. i # 1 => h[i-1] = g[i-1] BY <4>3
      <4>5. g[i] = IF i = 1 THEN seqs[i] ELSE g[i-1] \o seqs[i] BY <2>1, <4>1
      <4> HIDE DEF h
      <4> QED BY <4>2, <4>4, <4>5
    <3> QED BY <3>1, <3>2
  <2> QED BY <2>3, <2>4
<1>3. \A n \in Nat : P(n)
  <2> HIDE DEF P
  <2> DEFINE I == {n \in Nat : P(n)}
  <2>1. 0 \in I BY <1>1
  <2>2. \A n \in Nat : n \in I => n + 1 \in I BY <1>2
  <2>3. Nat \subseteq I BY <2>1, <2>2, SetInduction
  <2> QED BY <2>3
<1>4. PICK g \in [1..Len(seqs) -> Seq(S)] : Stage(g, Len(seqs))
  <2>1. P(Len(seqs))
    <3> HIDE DEF P
    <3> QED BY <1>3, <1>0
  <2> QED BY <2>1, <1>0
<1>5. g = [i \in 1..Len(seqs) |-> IF i = 1 THEN seqs[i] ELSE g[i-1] \o seqs[i]]
  <2>1. g = [i \in 1..Len(seqs) |-> g[i]] OBVIOUS
  <2> QED BY <2>1, <1>4
<1> QED BY <1>5 DEF IsFlattening

\* Its value at n has the elements of the first n arguments.
LEMMA FlatteningRange ==
  ASSUME NEW S, NEW seqs \in Seq(Seq(S)), NEW f, IsFlattening(f, seqs)
  PROVE  \A n \in 1..Len(seqs) : /\ f[n] \in Seq(S)
                                 /\ Range(f[n]) = UNION {Range(seqs[i]) : i \in 1..n}
<1> DEFINE All(n) == UNION {Range(seqs[i]) : i \in 1..n}
           Q(n) == f[n] \in Seq(S) /\ Range(f[n]) = All(n)
           P(n) == n \in 1..Len(seqs) => Q(n)
<1>0. Len(seqs) \in Nat /\ \A i \in 1..Len(seqs) : seqs[i] \in Seq(S)
  BY LenProperties
<1>1. P(0)
  OBVIOUS
<1>2. ASSUME NEW n \in Nat, P(n) PROVE P(n + 1)
  <2> SUFFICES ASSUME n + 1 \in 1..Len(seqs)
               PROVE  Q(n+1)
    OBVIOUS
  <2>0. f[n+1] = IF n + 1 = 1 THEN seqs[n+1] ELSE f[(n+1)-1] \o seqs[n+1]
    BY DEF IsFlattening
  <2>1. CASE n = 0
    <3>1. f[1] = seqs[1] BY <2>0, <2>1
    <3>2. 1..1 = {1} OBVIOUS
    <3>3. All(1) = Range(seqs[1]) BY <3>2
    <3> QED BY <3>1, <3>3, <2>1, <1>0
  <2>2. CASE n # 0
    <3>0. n + 1 # 1 /\ (n+1)-1 = n BY <2>2
    <3>1. f[n+1] = f[n] \o seqs[n+1] BY <2>0, <3>0
    <3>2. n \in 1..Len(seqs) BY <2>2, <1>0
    <3>3. f[n] \in Seq(S) /\ Range(f[n]) = All(n) BY <3>2, <1>2
    <3>4. seqs[n+1] \in Seq(S) BY <1>0
    <3>5. Range(f[n+1]) = Range(f[n]) \cup Range(seqs[n+1])
      BY <3>1, <3>3, <3>4, RangeConcatenation
    <3>6. f[n+1] \in Seq(S) BY <3>1, <3>3, <3>4, ConcatProperties
    <3>7. 1..(n+1) = (1..n) \cup {n+1} OBVIOUS
    <3>8. All(n+1) = All(n) \cup Range(seqs[n+1]) BY ONLY <3>7
    <3> HIDE DEF All
    <3> QED BY <3>3, <3>5, <3>6, <3>8
  <2> QED BY <2>1, <2>2
<1>3. \A n \in Nat : P(n)
  <2> HIDE DEF P
  <2> DEFINE I == {n \in Nat : P(n)}
  <2>1. 0 \in I BY <1>1
  <2>2. \A n \in Nat : n \in I => n + 1 \in I BY <1>2
  <2>3. Nat \subseteq I BY <2>1, <2>2, SetInduction
  <2> QED BY <2>3
<1>4. \A n \in 1..Len(seqs) : Q(n)
  <2> HIDE DEF Q
  <2> QED BY <1>3, <1>0
<1> QED BY <1>4

\* Flattening sequences over S gives a sequence over S, with their elements.
LEMMA FlattenSeqRange ==
  ASSUME NEW S, NEW seqs \in Seq(Seq(S))
  PROVE  /\ FlattenSeq(seqs) \in Seq(S)
         /\ Range(FlattenSeq(seqs)) = UNION {Range(seqs[i]) : i \in DOMAIN seqs}
<1>0. Len(seqs) \in Nat /\ DOMAIN seqs = 1..Len(seqs) BY LenProperties
<1>1. CASE Len(seqs) = 0
  <2>1. seqs = <<>> BY <1>1, EmptySeq
  <2>2. FlattenSeq(seqs) = <<>> BY <2>1, <1>1 DEF FlattenSeq
  <2>3. Range(<<>>) = {} /\ DOMAIN <<>> = {} BY DEF Range
  <2>4. UNION {Range(seqs[i]) : i \in DOMAIN seqs} = {} BY <2>3, <2>1
  <2> QED BY <2>2, <2>3, <2>4, EmptySeq
<1>2. CASE Len(seqs) # 0
  <2> DEFINE f == CHOOSE ff : IsFlattening(ff, seqs)
  <2>1. FlattenSeq(seqs) = f[Len(seqs)]
    BY <1>2 DEF FlattenSeq, IsFlattening
  <2>2. IsFlattening(f, seqs)
    BY FlatteningExists
  <2> HIDE DEF f
  <2>3. Len(seqs) \in 1..Len(seqs) BY <1>0, <1>2
  <2>4. \A n \in 1..Len(seqs) : /\ f[n] \in Seq(S)
                                 /\ Range(f[n]) = UNION {Range(seqs[i]) : i \in 1..n}
    BY <2>2, FlatteningRange, Zenon
  <2>5. f[Len(seqs)] \in Seq(S) /\ Range(f[Len(seqs)]) = UNION {Range(seqs[i]) : i \in 1..Len(seqs)}
    BY <2>3, <2>4
  <2> QED BY <2>1, <2>5, <1>0
<1> QED BY <1>1, <1>2
================================================================================
