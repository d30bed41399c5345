----------------------------- MODULE DataInduction -----------------------------
(***************************************************************************)
(* Induction for the proofs about recursive functions: the natural numbers   *)
(* are well-founded, and an inductive SET of them has them all.  The         *)
(* property to be shown is the membership in that set.  What FlattenSeq of    *)
(* SequencesExt gives is proved from that, for sequences of any length.       *)
(***************************************************************************)
EXTENDS WellFoundedInduction, SequencesExt, SequenceTheorems, FiniteSetTheorems, TLAPS

LEMMA LessInRelation ==
  ASSUME NEW x \in Nat, NEW y \in Nat, y < x
  PROVE  <<y, x>> \in OpToRel(<, Nat)
  <1> DEFINE p == <<y, x>>
  <1>1. p \in Nat \X Nat /\ p[1] < p[2] OBVIOUS
  <1> HIDE DEF p
  <1>2. p \in OpToRel(<, Nat) BY <1>1, Zenon DEF OpToRel
  <1> QED BY <1>2 DEF p

(* A set of natural numbers has a least one, unless it is empty. *)
LEMMA LeastNumber ==
  ASSUME NEW T \in SUBSET Nat, T # {}
  PROVE  \E x \in T : \A y \in T : x <= y
  <1>1. IsWellFoundedOn(OpToRel(<, Nat), Nat) BY NatLessThanWellFounded, Zenon
  <1>2. \E x \in T : \A y \in T : ~(<<y, x>> \in OpToRel(<, Nat)) BY <1>1, WFMin, Zenon
  <1>3. \A x, y \in Nat : y < x => <<y, x>> \in OpToRel(<, Nat) BY LessInRelation, Zenon
  <1>4. \E x \in T : \A y \in T : ~(y < x) BY <1>2, <1>3, Zenon
  <1> QED BY <1>4

(* The set of the numbers for which a property holds is all of Nat. *)
LEMMA NumbersInduction ==
  ASSUME NEW S, 0 \in S, \A n \in Nat : n \in S => n + 1 \in S
  PROVE  Nat \subseteq S
  <1> SUFFICES ASSUME Nat \ S # {} PROVE FALSE OBVIOUS
  <1>1. PICK x \in Nat \ S : \A y \in Nat \ S : x <= y BY LeastNumber
  <1>2. x # 0 OBVIOUS
  <1>3. x - 1 \in Nat BY <1>2
  <1>4. x - 1 \in S BY <1>1, <1>3
  <1>5. (x - 1) + 1 \in S BY <1>4, <1>3
  <1> QED BY <1>1, <1>5

(* The same up to a number. *)
LEMMA IntervalInduction ==
  ASSUME NEW m \in Nat, NEW S, 0 \in S, \A n \in 0 .. m - 1 : n \in S => n + 1 \in S
  PROVE  0 .. m \subseteq S
  <1> DEFINE R == {n \in Nat : n <= m => n \in S}
  <1>1. 0 \in R OBVIOUS
  <1>2. ASSUME NEW n \in Nat, n \in R PROVE n + 1 \in R
    BY <1>2
  <1> HIDE DEF R
  <1>3. Nat \subseteq R BY <1>1, <1>2, NumbersInduction
  <1> QED BY <1>3 DEF R

(* A family of sets that has the empty set, and each set all of whose subsets  *)
(* that are smaller by an element it has, has every finite set.              *)
LEMMA SubsetsInduction ==
  ASSUME NEW S, IsFiniteSet(S), NEW F, {} \in F,
         \A T \in SUBSET S : T # {} /\ (\A x \in T : T \ {x} \in F) => T \in F
  PROVE  SUBSET S \subseteq F
  <1> DEFINE R == {n \in Nat : \A T \in SUBSET S : Cardinality(T) = n => T \in F}
  <1>1. \A T \in SUBSET S : IsFiniteSet(T) /\ Cardinality(T) \in Nat
    BY FS_Subset, FS_CardinalityType
  <1>2. 0 \in R BY <1>1, FS_EmptySet
  <1>3. ASSUME NEW n \in Nat, n \in R PROVE n + 1 \in R
    <2> SUFFICES ASSUME NEW T \in SUBSET S, Cardinality(T) = n + 1 PROVE T \in F OBVIOUS
    <2>1. T # {}
      <3>1. Cardinality({}) = 0 BY FS_EmptySet
      <3> QED BY <3>1
    <2>2. ASSUME NEW x \in T PROVE T \ {x} \in F
      <3>1. Cardinality(T \ {x}) = Cardinality(T) - 1 BY <1>1, FS_RemoveElement
      <3>2. Cardinality(T \ {x}) = n BY <3>1
      <3> QED BY <3>2, <1>3
    <2> QED BY <2>1, <2>2
  <1> HIDE DEF R
  <1>4. Nat \subseteq R BY <1>2, <1>3, NumbersInduction
  <1> QED BY <1>1, <1>4 DEF R

(* A function can be defined by its first value and a step from each value to  *)
(* the next.                                                                 *)
StepsIn(V, m, step) == step \in [1 .. m -> [V -> V]]

Recursion(V, m, b, step, g) == /\ g \in [0 .. m -> V]
                               /\ g[0] = b
                               /\ \A n \in 1 .. m : g[n] = step[n][g[n - 1]]

LEMMA RecursionExists ==
  ASSUME NEW V, NEW m \in Nat, NEW b \in V, NEW step, StepsIn(V, m, step)
  PROVE  \E g : Recursion(V, m, b, step, g)
  <1> USE DEF StepsIn
  <1> DEFINE S == {k \in 0 .. m : \E g : Recursion(V, k, b, step, g)}
  <1>1. 0 \in S
    <2> DEFINE h == [n \in 0 .. 0 |-> b]
    <2>1. Recursion(V, 0, b, step, h) BY DEF Recursion
    <2> HIDE DEF h
    <2>2. \E g : Recursion(V, 0, b, step, g) BY <2>1
    <2>3. 0 \in 0 .. m OBVIOUS
    <2> QED BY <2>2, <2>3
  <1>2. ASSUME NEW k \in 0 .. m - 1, k \in S PROVE k + 1 \in S
    <2>1. PICK g : Recursion(V, k, b, step, g) BY <1>2
    <2> DEFINE h == [n \in 0 .. k + 1 |-> IF n = k + 1 THEN step[k + 1][g[k]] ELSE g[n]]
    <2>2. k \in 0 .. k /\ k + 1 \in 1 .. m OBVIOUS
    <2>3. g[k] \in V /\ step[k + 1] \in [V -> V] BY <2>1, <2>2 DEF Recursion
    <2>4. step[k + 1][g[k]] \in V BY <2>3
    <2>5. h \in [0 .. k + 1 -> V] BY <2>1, <2>4 DEF Recursion
    <2>6. h[0] = b BY <2>1 DEF Recursion
    <2>7. ASSUME NEW n \in 1 .. k + 1 PROVE h[n] = step[n][h[n - 1]]
      <3>1. CASE n = k + 1 BY <3>1
      <3>2. CASE n # k + 1
        <4>1. n \in 1 .. k /\ n - 1 \in 0 .. k BY <3>2
        <4>2. h[n] = g[n] /\ h[n - 1] = g[n - 1] BY <4>1
        <4> QED BY <2>1, <4>1, <4>2 DEF Recursion
      <3> QED BY <3>1, <3>2
    <2> HIDE DEF h
    <2>8. Recursion(V, k + 1, b, step, h) BY <2>5, <2>6, <2>7 DEF Recursion
    <2>9. k + 1 \in 0 .. m OBVIOUS
    <2> QED BY <2>8, <2>9
  <1> HIDE DEF S
  <1>3. 0 .. m \subseteq S BY <1>1, <1>2, IntervalInduction
  <1>4. m \in S BY <1>3
  <1> QED BY <1>4 DEF S

(* A finite set of numbers has a bound. *)
LEMMA FiniteBound ==
  ASSUME NEW S \in SUBSET Nat, IsFiniteSet(S)
  PROVE  \E m \in Nat : \A x \in S : x <= m
  <1> DEFINE F == {T \in SUBSET S : \E m \in Nat : \A x \in T : x <= m}
  <1>1. {} \in F OBVIOUS
  <1>2. ASSUME NEW T \in SUBSET S, T # {}, \A x \in T : T \ {x} \in F PROVE T \in F
    <2>1. PICK y \in T : TRUE BY <1>2
    <2>2. PICK m \in Nat : \A x \in T \ {y} : x <= m BY <1>2, <2>1
    <2>3. y \in Nat OBVIOUS
    <2>4. \A x \in T : x \in Nat /\ x <= m + y BY <2>2, <2>3
    <2>5. m + y \in Nat BY <2>3
    <2> QED BY <2>4, <2>5
  <1> HIDE DEF F
  <1>3. SUBSET S \subseteq F BY <1>1, <1>2, SubsetsInduction
  <1>4. S \in F BY <1>3
  <1> QED BY <1>4 DEF F

(* A function on numbers can be defined by its value where the recursion ends  *)
(* and, elsewhere, a step from its value at some smaller number.             *)
DownIn(V, S, ends, step, below) ==
    /\ step \in [S -> [V -> V]]
    /\ \A n \in S \ ends : below[n] \in S /\ below[n] < n

DownRecursion(V, S, ends, b, step, below, f) ==
    /\ f \in [S -> V]
    /\ \A n \in S : f[n] = IF n \in ends THEN b ELSE step[n][f[below[n]]]

LEMMA DownRecursionExists ==
  ASSUME NEW V, NEW m \in Nat, NEW S \in SUBSET (0 .. m), NEW ends, NEW b \in V,
         NEW step, NEW below, DownIn(V, S, ends, step, below)
  PROVE  \E f : DownRecursion(V, S, ends, b, step, below, f)
  <1> DEFINE Up(k) == {n \in S : n < k}
             R == {k \in Nat : \E f : DownRecursion(V, Up(k), ends, b, step, below, f)}
  <1>0. \A n \in S : n \in Nat /\ n <= m /\ n < m + 1 /\ ~(n < 0) OBVIOUS
  <1>1. 0 \in R
    <2> DEFINE f == [n \in {} |-> b]
    <2>1. Up(0) = {} BY <1>0
    <2>2. f \in [{} -> V] OBVIOUS
    <2>3. DownRecursion(V, {}, ends, b, step, below, f) BY <2>2 DEF DownRecursion
    <2> QED BY <2>1, <2>3
  <1>2. ASSUME NEW k \in Nat, k \in R PROVE k + 1 \in R
    <2>1. PICK g : DownRecursion(V, Up(k), ends, b, step, below, g) BY <1>2
    <2> DEFINE f == [n \in Up(k + 1) |-> IF n = k THEN (IF k \in ends THEN b ELSE step[k][g[below[k]]])
                                         ELSE g[n]]
    <2>2. g \in [Up(k) -> V] /\ \A n \in Up(k) : g[n] = IF n \in ends THEN b ELSE step[n][g[below[n]]]
      BY <2>1 DEF DownRecursion
    <2>3. \A n \in Up(k + 1) : n = k \/ n \in Up(k) OBVIOUS
    <2>4. \A n \in Up(k + 1) \ ends : below[n] \in Up(k)
      <3> SUFFICES ASSUME NEW n \in Up(k + 1) \ ends PROVE below[n] \in Up(k) OBVIOUS
      <3>1. n \in S \ ends /\ n \in Nat /\ n < k + 1 BY <1>0
      <3>2. below[n] \in S /\ below[n] < n BY <3>1 DEF DownIn
      <3>3. below[n] \in Nat BY <3>2, <1>0
      <3> QED BY <3>1, <3>2, <3>3
    <2>5. \A n \in Up(k + 1), v \in V : step[n][v] \in V BY DEF DownIn
    <2>5a. \A n \in Up(k) : n # k /\ n \in Up(k + 1) OBVIOUS
    <2> HIDE DEF Up
    <2>6. f \in [Up(k + 1) -> V] BY <2>2, <2>3, <2>4, <2>5
    <2>7. \A n \in Up(k) : f[n] = g[n] BY <2>5a
    <2>8. ASSUME NEW n \in Up(k + 1)
          PROVE  f[n] = IF n \in ends THEN b ELSE step[n][f[below[n]]]
      <3>1. CASE n \in ends
        <4>1. CASE n = k BY <3>1, <4>1
        <4>2. CASE n \in Up(k) BY <3>1, <4>2, <2>2, <2>7
        <4> QED BY <4>1, <4>2, <2>3
      <3>2. CASE n \notin ends
        <4>1. below[n] \in Up(k) /\ f[below[n]] = g[below[n]] BY <3>2, <2>4, <2>7
        <4>2. CASE n = k BY <3>2, <4>1, <4>2
        <4>3. CASE n \in Up(k) BY <3>2, <4>1, <4>3, <2>2, <2>7
        <4> QED BY <4>2, <4>3, <2>3
      <3> QED BY <3>1, <3>2
    <2> HIDE DEF f
    <2>9. DownRecursion(V, Up(k + 1), ends, b, step, below, f) BY <2>6, <2>8 DEF DownRecursion
    <2> QED BY <2>9
  <1> HIDE DEF R
  <1>3. Nat \subseteq R BY <1>1, <1>2, NumbersInduction
  <1>4. m + 1 \in R BY <1>3
  <1>5. Up(m + 1) = S BY <1>0
  <1> QED BY <1>4, <1>5 DEF R

--------------------------------------------------------------------------------
(* Sequences of sequences. *)
Flats(S, seqs, g) == /\ g \in [0 .. Len(seqs) -> Seq(S)]
                     /\ g[0] = <<>>
                     /\ \A n \in 1 .. Len(seqs) : g[n] = g[n - 1] \o seqs[n]

FlatsOf(seqs, f) == f = [i \in 1 .. Len(seqs) |-> IF i = 1 THEN seqs[i] ELSE f[i - 1] \o seqs[i]]

LEMMA FlatsExist ==
  ASSUME NEW S, NEW seqs \in Seq(Seq(S))
  PROVE  \E g : Flats(S, seqs, g)
  <1> DEFINE V == Seq(S)
             m == Len(seqs)
             step == [n \in 1 .. m |-> [v \in V |-> v \o seqs[n]]]
  <1>1. m \in Nat /\ \A n \in 1 .. m : seqs[n] \in V BY LenProperties, ElementOfSeq
  <1>2. \A n \in 1 .. m, v \in V : v \o seqs[n] \in V BY <1>1, ConcatProperties
  <1>3. step \in [1 .. m -> [V -> V]] BY <1>2
  <1>4. \A n \in 1 .. m, v \in V : step[n][v] = v \o seqs[n] OBVIOUS
  <1>5. <<>> \in V OBVIOUS
  <1>6. \A n \in 1 .. m : n - 1 \in 0 .. m BY <1>1
  <1> HIDE DEF V, m, step
  <1>7. PICK g : Recursion(V, m, <<>>, step, g)
    <2>1. StepsIn(V, m, step) BY <1>3 DEF StepsIn
    <2> QED BY <2>1, <1>1, <1>5, RecursionExists, Zenon
  <1>8. /\ g \in [0 .. m -> V] /\ g[0] = <<>>
        /\ \A n \in 1 .. m : g[n] = step[n][g[n - 1]] BY <1>7 DEF Recursion
  <1>9. \A n \in 1 .. m : g[n - 1] \in V BY <1>6, <1>8
  <1>10. \A n \in 1 .. m : g[n] = g[n - 1] \o seqs[n] BY <1>4, <1>8, <1>9
  <1>11. Flats(S, seqs, g) BY <1>8, <1>10 DEF Flats, V, m
  <1> QED BY <1>11

LEMMA FlattenIs ==
  ASSUME NEW S, NEW seqs \in Seq(Seq(S)), NEW g, Flats(S, seqs, g)
  PROVE  FlattenSeq(seqs) = g[Len(seqs)] /\ FlattenSeq(seqs) \in Seq(S)
  <1> DEFINE m == Len(seqs)
             f == CHOOSE h : FlatsOf(seqs, h)
             low == [i \in 1 .. m |-> g[i]]
  <1>1. m \in Nat /\ \A n \in 1 .. m : seqs[n] \in Seq(S) BY LenProperties, ElementOfSeq
  <1>2. /\ g \in [0 .. m -> Seq(S)] /\ g[0] = <<>>
        /\ \A n \in 1 .. m : g[n] = g[n - 1] \o seqs[n] BY DEF Flats
  <1>3. CASE m = 0
    <2>1. seqs = <<>> BY <1>3, EmptySeq
    <2>2. FlattenSeq(seqs) = seqs BY <1>3 DEF FlattenSeq
    <2> QED BY <2>1, <2>2, <1>2, <1>3
  <1>4. CASE m # 0
    <2>1. FlattenSeq(seqs) = f[m] BY <1>4 DEF FlattenSeq, FlatsOf
    <2>2. FlatsOf(seqs, low)
      <3>1. \A i \in 1 .. m : i # 1 => i - 1 \in 1 .. m BY <1>1
      <3>2. \A i \in 1 .. m : low[i] = g[i] OBVIOUS
      <3>3. ASSUME NEW i \in 1 .. m PROVE low[i] = IF i = 1 THEN seqs[i] ELSE low[i - 1] \o seqs[i]
        <4>1. g[i] = g[i - 1] \o seqs[i] BY <1>2
        <4>2. CASE i = 1
          <5>4. 1 - 1 = 0 OBVIOUS
          <5>1. g[1] = g[0] \o seqs[1] BY <4>1, <4>2, <5>4, Zenon
          <5>2. seqs[1] \in Seq(S) BY <4>2, <1>1
          <5>3. <<>> \o seqs[1] = seqs[1] BY <5>2, ConcatEmptySeq
          <5> QED BY <5>1, <5>3, <3>2, <4>2, <1>2
        <4>3. CASE i # 1 BY <4>1, <4>3, <3>1, <3>2
        <4> QED BY <4>2, <4>3
      <3>4. low = [i \in 1 .. m |-> low[i]] OBVIOUS
      <3> HIDE DEF low
      <3> QED BY <3>3, <3>4 DEF FlatsOf
    <2> HIDE DEF f, low
    <2>3. FlatsOf(seqs, f) BY <2>2 DEF f
    <2>4. f = [i \in 1 .. m |-> IF i = 1 THEN seqs[i] ELSE f[i - 1] \o seqs[i]] BY <2>3 DEF FlatsOf
    <2>5. \A i \in 1 .. m : f[i] = IF i = 1 THEN seqs[i] ELSE f[i - 1] \o seqs[i] BY <2>4
    <2> DEFINE T == {n \in 0 .. m : n # 0 => f[n] = g[n]}
    <2>6. 0 \in T BY <1>1
    <2>7. ASSUME NEW n \in 0 .. m - 1, n \in T PROVE n + 1 \in T
      <3>1. n + 1 \in 1 .. m /\ (n + 1) - 1 = n BY <1>1
      <3>2. g[n + 1] = g[n] \o seqs[n + 1] BY <3>1, <1>2
      <3>3. CASE n = 0
        <4>1. f[1] = seqs[1] BY <3>1, <3>3, <2>5
        <4>2. seqs[1] \in Seq(S) BY <3>1, <3>3, <1>1
        <4>3. <<>> \o seqs[1] = seqs[1] BY <4>2, ConcatEmptySeq
        <4> QED BY <4>1, <4>3, <3>1, <3>2, <3>3, <1>2
      <3>4. CASE n # 0
        <4>1. n + 1 # 1 BY <3>4, <3>1
        <4>2. f[n] = g[n] BY <3>4, <2>7
        <4> DEFINE k == n + 1
        <4>3. k \in 1 .. m /\ k # 1 /\ k - 1 = n BY <3>1, <4>1
        <4>4. g[k] = g[n] \o seqs[k] BY <3>2
        <4> HIDE DEF k
        <4>5. f[k] = f[k - 1] \o seqs[k] BY <4>3, <2>5
        <4>6. f[k] = g[k] BY <4>2, <4>3, <4>4, <4>5
        <4>7. k \in 0 .. m BY <4>3, <1>1
        <4> QED BY <4>6, <4>7 DEF k
      <3> QED BY <3>3, <3>4
    <2> HIDE DEF T, m
    <2>8. 0 .. m \subseteq T BY <1>1, <2>6, <2>7, IntervalInduction
    <2>9. m \in T /\ m \in 0 .. m BY <2>8, <1>1
    <2>10. f[m] = g[m] BY <2>9, <1>4 DEF T
    <2>11. g[m] \in Seq(S) BY <2>9, <1>2
    <2> QED BY <2>1, <2>10, <2>11 DEF m
  <1> QED BY <1>3, <1>4

LEMMA FlattenAppend ==
  ASSUME NEW S, NEW seqs \in Seq(Seq(S)), NEW x \in Seq(S)
  PROVE  FlattenSeq(Append(seqs, x)) = FlattenSeq(seqs) \o x /\ FlattenSeq(seqs) \in Seq(S)
  <1> DEFINE m == Len(seqs)
             all == Append(seqs, x)
  <1>1. PICK g : Flats(S, seqs, g) BY FlatsExist
  <1> DEFINE h == [n \in 0 .. m + 1 |-> IF n = m + 1 THEN g[m] \o x ELSE g[n]]
  <1>2. /\ all \in Seq(Seq(S)) /\ Len(all) = m + 1 /\ m \in Nat
        /\ all[m + 1] = x /\ \A n \in 1 .. m : all[n] = seqs[n] BY AppendProperties, LenProperties
  <1>3. /\ g \in [0 .. m -> Seq(S)] /\ g[0] = <<>>
        /\ \A n \in 1 .. m : g[n] = g[n - 1] \o seqs[n] BY <1>1 DEF Flats
  <1> HIDE DEF m, all
  <1>4. g[m] \in Seq(S) BY <1>2, <1>3
  <1>5. g[m] \o x \in Seq(S) BY <1>4, ConcatProperties
  <1>6. \A n \in 0 .. m + 1 : n = m + 1 \/ n \in 0 .. m BY <1>2
  <1>7. h \in [0 .. Len(all) -> Seq(S)] BY <1>2, <1>3, <1>5, <1>6
  <1>8. 0 \in 0 .. m + 1 /\ 0 # m + 1 /\ m \in 0 .. m + 1 /\ m + 1 \in 0 .. m + 1 /\ m # m + 1 BY <1>2
  <1>9. h[0] = <<>> /\ h[m + 1] = g[m] \o x BY <1>3, <1>8
  <1>10. ASSUME NEW n \in 1 .. Len(all) PROVE h[n] = h[n - 1] \o all[n]
    <2>1. n \in 0 .. m + 1 /\ n - 1 \in 0 .. m + 1 /\ n - 1 # m + 1 BY <1>2
    <2>2. h[n - 1] = g[n - 1] BY <2>1
    <2>3. CASE n = m + 1
      <3>1. n - 1 = m BY <2>3, <1>2
      <3>2. h[n] = g[m] \o x /\ all[n] = x BY <2>3, <1>2, <1>9
      <3> QED BY <3>1, <3>2, <2>2
    <2>4. CASE n # m + 1
      <3>1. n \in 1 .. m /\ h[n] = g[n] BY <2>1, <2>4, <1>2
      <3> QED BY <3>1, <2>2, <1>2, <1>3
    <2> QED BY <2>3, <2>4
  <1> HIDE DEF h
  <1>11. Flats(S, all, h) BY <1>7, <1>9, <1>10 DEF Flats
  <1>12. FlattenSeq(all) = h[Len(all)] BY <1>2, <1>11, FlattenIs
  <1>13. FlattenSeq(seqs) = g[m] BY <1>1, FlattenIs DEF m
  <1> QED BY <1>2, <1>4, <1>9, <1>12, <1>13 DEF all
================================================================================
