----------------------------- MODULE ReadPathProofs -----------------------------
(***************************************************************************)
(* Proofs about ReadPath, for any file, chunk, window and number of sampling *)
(* threads: the average is that of the last samples, no byte of the          *)
(* statistics is lost or counted twice, and the runs of zeros are found.      *)
(***************************************************************************)
EXTENDS ReadPath, DataInduction, SequenceTheorems

LEMMA MinOfTwo ==
  ASSUME NEW a \in Int, NEW b \in Int
  PROVE  Min({a, b}) = IF a <= b THEN a ELSE b
  <1>1. \E x \in {a, b} : \A y \in {a, b} : x <= y BY DEF Min
  <1>2. Min({a, b}) \in {a, b} /\ \A y \in {a, b} : Min({a, b}) <= y BY <1>1, Zenon DEF Min
  <1> QED BY <1>2

LEMMA MaxOfTwo ==
  ASSUME NEW a \in Int, NEW b \in Int
  PROVE  Max({a, b}) = IF a <= b THEN b ELSE a
  <1>1. \E x \in {a, b} : \A y \in {a, b} : x >= y OBVIOUS
  <1>2. Max({a, b}) \in {a, b} /\ \A y \in {a, b} : Max({a, b}) >= y BY <1>1, Zenon DEF Max
  <1> QED BY <1>2

--------------------------------------------------------------------------------
(* The sum of a sequence: g has the sums of all that the sequence begins with. *)
Sums(s, g) == /\ g \in [0 .. Len(s) -> Int]
              /\ g[0] = 0
              /\ \A n \in 1 .. Len(s) : g[n] = g[n - 1] + s[n]

LEMMA SumUnfolds ==
  ASSUME NEW s \in Seq(Int)
  PROVE  \E g : Sums(s, g) /\ SumOf(s) = g[Len(s)]
  <1> DEFINE P(h) == h = [n \in 0 .. Len(s) |-> IF n = 0 THEN 0 ELSE h[n - 1] + s[n]]
             f == CHOOSE h : P(h)
             step == [n \in 1 .. Len(s) |-> [v \in Int |-> v + s[n]]]
  <1>0. SumOf(s) = f[Len(s)] BY DEF SumOf
  <1>1. Len(s) \in Nat /\ \A n \in 1 .. Len(s) : s[n] \in Int BY LenProperties
  <1>2. step \in [1 .. Len(s) -> [Int -> Int]] BY <1>1
  <1>3. \A n \in 1 .. Len(s), v \in Int : step[n][v] = v + s[n] BY <1>1
  <1>4. PICK g : Recursion(Int, Len(s), 0, step, g)
    <2> HIDE DEF step
    <2>1. StepsIn(Int, Len(s), step) BY <1>2 DEF StepsIn
    <2>2. 0 \in Int /\ Len(s) \in Nat BY <1>1
    <2> QED BY <2>1, <2>2, RecursionExists, Zenon
  <1>5. g[0] = 0 /\ g \in [0 .. Len(s) -> Int] /\ \A n \in 1 .. Len(s) : g[n] = g[n - 1] + s[n]
    <2>1. \A n \in 1 .. Len(s) : n - 1 \in 0 .. Len(s) BY <1>1
    <2> HIDE DEF step
    <2>2. \A n \in 1 .. Len(s) : g[n - 1] \in Int BY <1>4, <2>1 DEF Recursion
    <2> QED BY <2>2, <1>3, <1>4 DEF Recursion
  <1>6. P(g)
    <2>1. \A n \in 0 .. Len(s) : n # 0 => n \in 1 .. Len(s) BY <1>1
    <2> QED BY <1>5, <2>1
  <1> HIDE DEF P
  <1>7. P(f) BY <1>6
  <1>8. f = [n \in 0 .. Len(s) |-> IF n = 0 THEN 0 ELSE f[n - 1] + s[n]] BY <1>7 DEF P
  <1> HIDE DEF f
  <1>9. \A n \in 0 .. Len(s) : f[n] = IF n = 0 THEN 0 ELSE f[n - 1] + s[n] BY <1>8
  <1>10. f[0] = 0 /\ \A n \in 1 .. Len(s) : f[n] = f[n - 1] + s[n] BY <1>9, <1>1
  <1> DEFINE T == {n \in 0 .. Len(s) : f[n] \in Int}
  <1>11. 0 \in T BY <1>10, <1>1
  <1>12. ASSUME NEW n \in 0 .. Len(s) - 1, n \in T PROVE n + 1 \in T
    <2>1. n + 1 \in 1 .. Len(s) BY <1>1
    <2>2. f[n + 1] = f[n] + s[n + 1] BY <2>1, <1>10, <1>1
    <2> QED BY <2>1, <2>2, <1>12, <1>1
  <1> HIDE DEF T
  <1>13. 0 .. Len(s) \subseteq T BY <1>1, <1>11, <1>12, IntervalInduction
  <1>14. \A n \in 0 .. Len(s) : f[n] \in Int BY <1>13 DEF T
  <1>15. f \in [0 .. Len(s) -> Int] BY <1>8, <1>14
  <1> QED BY <1>0, <1>10, <1>15 DEF Sums

LEMMA SumIs ==
  ASSUME NEW s \in Seq(Int), NEW h, Sums(s, h)
  PROVE  SumOf(s) = h[Len(s)]
  <1>1. PICK g : Sums(s, g) /\ SumOf(s) = g[Len(s)] BY SumUnfolds
  <1>2. Len(s) \in Nat BY LenProperties
  <1> DEFINE T == {n \in 0 .. Len(s) : g[n] = h[n]}
  <1>3. 0 \in T BY <1>1, <1>2 DEF Sums
  <1>4. ASSUME NEW n \in 0 .. Len(s) - 1, n \in T PROVE n + 1 \in T
    <2>1. n + 1 \in 1 .. Len(s) /\ (n + 1) - 1 = n BY <1>2
    <2> QED BY <2>1, <1>4, <1>1, <1>2 DEF Sums
  <1> HIDE DEF T
  <1>5. 0 .. Len(s) \subseteq T BY <1>2, <1>3, <1>4, IntervalInduction
  <1> QED BY <1>1, <1>2, <1>5 DEF T

LEMMA SumIsInt == ASSUME NEW s \in Seq(Int) PROVE SumOf(s) \in Int
  <1>1. PICK g : Sums(s, g) /\ SumOf(s) = g[Len(s)] BY SumUnfolds
  <1>2. Len(s) \in 0 .. Len(s) BY LenProperties
  <1> QED BY <1>1, <1>2 DEF Sums

LEMMA SumIsNat == ASSUME NEW s \in Seq(Nat) PROVE SumOf(s) \in Nat
  <1>1. s \in Seq(Int) /\ Len(s) \in Nat /\ \A n \in 1 .. Len(s) : s[n] \in Nat
    BY LenProperties, ElementOfSeq, SeqMonotonic
  <1>2. PICK g : Sums(s, g) /\ SumOf(s) = g[Len(s)] BY <1>1, SumUnfolds
  <1> DEFINE T == {n \in 0 .. Len(s) : g[n] \in Nat}
  <1>3. 0 \in T BY <1>1, <1>2 DEF Sums
  <1>4. ASSUME NEW n \in 0 .. Len(s) - 1, n \in T PROVE n + 1 \in T
    <2>1. n + 1 \in 1 .. Len(s) /\ (n + 1) - 1 = n BY <1>1
    <2>2. g[n + 1] = g[n] + s[n + 1] BY <2>1, <1>2 DEF Sums
    <2> QED BY <2>1, <2>2, <1>1, <1>4
  <1> HIDE DEF T
  <1>5. 0 .. Len(s) \subseteq T BY <1>1, <1>3, <1>4, IntervalInduction
  <1>6. Len(s) \in 0 .. Len(s) BY <1>1
  <1> QED BY <1>2, <1>5, <1>6 DEF T

LEMMA SumEmpty == SumOf(<<>>) = 0
  <1>1. <<>> \in Seq(Int) /\ Len(<<>>) = 0 OBVIOUS
  <1>2. PICK g : Sums(<<>>, g) /\ SumOf(<<>>) = g[Len(<<>>)] BY <1>1, SumUnfolds
  <1> QED BY <1>1, <1>2 DEF Sums

LEMMA SumAppend ==
  ASSUME NEW s \in Seq(Int), NEW v \in Int
  PROVE  SumOf(Append(s, v)) = SumOf(s) + v
  <1>1. PICK g : Sums(s, g) /\ SumOf(s) = g[Len(s)] BY SumUnfolds
  <1> DEFINE all == Append(s, v)
             h == [n \in 0 .. Len(s) + 1 |-> IF n = Len(s) + 1 THEN g[Len(s)] + v ELSE g[n]]
  <1>2. /\ all \in Seq(Int) /\ Len(all) = Len(s) + 1 /\ Len(s) \in Nat
        /\ all[Len(s) + 1] = v /\ \A n \in 1 .. Len(s) : all[n] = s[n]
    BY AppendProperties, LenProperties
  <1> HIDE DEF all
  <1>3. /\ g \in [0 .. Len(s) -> Int] /\ g[0] = 0
        /\ \A n \in 1 .. Len(s) : g[n] = g[n - 1] + s[n] BY <1>1 DEF Sums
  <1>4. h \in [0 .. Len(all) -> Int] /\ h[0] = 0
    <2>1. \A n \in 0 .. Len(s) + 1 : n = Len(s) + 1 \/ n \in 0 .. Len(s) BY <1>2
    <2>2. g[Len(s)] + v \in Int /\ \A n \in 0 .. Len(s) : g[n] \in Int
      <3>1. g \in [0 .. Len(s) -> Int] BY <1>3
      <3>2. Len(s) \in Nat /\ Len(s) \in 0 .. Len(s) BY <1>2
      <3>3. \A n \in 0 .. Len(s) : g[n] \in Int BY <3>1
      <3>4. g[Len(s)] \in Int BY <3>2, <3>3
      <3> QED BY <3>3, <3>4
    <2>3. \A n \in 0 .. Len(s) + 1 : (IF n = Len(s) + 1 THEN g[Len(s)] + v ELSE g[n]) \in Int
      BY <2>1, <2>2
    <2>4. 0 # Len(s) + 1 /\ 0 \in 0 .. Len(s) + 1 BY <1>2
    <2> QED BY <2>3, <2>4, <1>2, <1>3
  <1>5. ASSUME NEW n \in 1 .. Len(all) PROVE h[n] = h[n - 1] + all[n]
    <2>1. CASE n = Len(s) + 1 BY <2>1, <1>2
    <2>2. CASE n \in 1 .. Len(s)
      <3>1. h[n] = g[n] /\ h[n - 1] = g[n - 1] BY <2>2, <1>2
      <3> QED BY <3>1, <2>2, <1>2, <1>3
    <2> QED BY <2>1, <2>2, <1>2
  <1>6. h[Len(all)] = g[Len(s)] + v BY <1>2
  <1>7. Sums(all, h) BY <1>4, <1>5 DEF Sums
  <1> HIDE DEF h
  <1>8. SumOf(all) = h[Len(all)] BY <1>7, <1>2, SumIs
  <1> QED BY <1>8, <1>6, <1>1 DEF all

LEMMA SumSingle == ASSUME NEW v \in Int PROVE SumOf(<<v>>) = v
  <1>1. <<>> \in Seq(Int) /\ Append(<<>>, v) = <<v>> OBVIOUS
  <1>2. SumOf(Append(<<>>, v)) = SumOf(<<>>) + v BY <1>1, SumAppend
  <1> QED BY <1>1, <1>2, SumEmpty

LEMMA SumFirst ==
  ASSUME NEW s \in Seq(Int), s # <<>>
  PROVE  SumOf(s) = s[1] + SumOf(Tail(s))
  <1>1. PICK g : Sums(s, g) /\ SumOf(s) = g[Len(s)] BY SumUnfolds
  <1> DEFINE rest == Tail(s)
             h == [n \in 0 .. Len(s) - 1 |-> g[n + 1] - s[1]]
  <1>2. /\ rest \in Seq(Int) /\ Len(rest) = Len(s) - 1 /\ Len(s) \in Nat \ {0} /\ s[1] \in Int
        /\ \A n \in 1 .. Len(s) - 1 : rest[n] = s[n + 1]
    BY HeadTailProperties, EmptySeq, ElementOfSeq
  <1> HIDE DEF rest
  <1>3. /\ g \in [0 .. Len(s) -> Int] /\ g[0] = 0
        /\ \A n \in 1 .. Len(s) : g[n] = g[n - 1] + s[n] BY <1>1 DEF Sums
  <1>4. h \in [0 .. Len(rest) -> Int] BY <1>2, <1>3
  <1>5. h[0] = 0
    <2>1. g[1] = g[0] + s[1] BY <1>2, <1>3
    <2> QED BY <2>1, <1>2, <1>3
  <1>6. ASSUME NEW n \in 1 .. Len(rest) PROVE h[n] = h[n - 1] + rest[n]
    <2>1. n + 1 \in 1 .. Len(s) /\ n \in 1 .. Len(s) /\ n - 1 \in 0 .. Len(s) - 1 /\ n \in 0 .. Len(s) - 1
      BY <1>2
    <2>2. g[n + 1] = g[n] + s[n + 1] BY <2>1, <1>3
    <2>3. h[n] = g[n + 1] - s[1] /\ h[n - 1] = g[n] - s[1] BY <2>1, <1>2
    <2>4. rest[n] = s[n + 1] BY <1>2
    <2>5. s[n + 1] \in Int /\ g[n] \in Int /\ g[n + 1] \in Int
      <3>1. n \in 0 .. Len(s) /\ n + 1 \in 0 .. Len(s) BY <2>1, <1>2
      <3>2. s[n + 1] \in Int BY <2>1, ElementOfSeq
      <3> QED BY <3>1, <3>2, <1>3
    <2> HIDE DEF h
    <2>6. s[1] \in Int BY <1>2
    <2> QED BY <2>2, <2>3, <2>4, <2>5, <2>6
  <1>7. h[Len(rest)] = g[Len(s)] - s[1] BY <1>2
  <1>8. Sums(rest, h) BY <1>4, <1>5, <1>6 DEF Sums
  <1> HIDE DEF h
  <1>9. SumOf(rest) = h[Len(rest)] BY <1>8, <1>2, SumIs
  <1>10. g[Len(s)] \in Int BY <1>2, <1>3
  <1> QED BY <1>9, <1>7, <1>1, <1>2, <1>10 DEF rest

LEMMA SumExcept ==
  ASSUME NEW s \in Seq(Int), NEW i \in 1 .. Len(s), NEW v \in Int
  PROVE  SumOf([s EXCEPT ![i] = v]) = SumOf(s) - s[i] + v
  <1>1. PICK g : Sums(s, g) /\ SumOf(s) = g[Len(s)] BY SumUnfolds
  <1> DEFINE new == [s EXCEPT ![i] = v]
             h == [n \in 0 .. Len(s) |-> IF n >= i THEN g[n] - s[i] + v ELSE g[n]]
  <1>2. /\ new \in Seq(Int) /\ Len(new) = Len(s) /\ Len(s) \in Nat /\ s[i] \in Int
        /\ \A n \in 1 .. Len(s) : s[n] \in Int /\ new[n] = IF n = i THEN v ELSE s[n]
    BY ExceptSeq, LenProperties, ElementOfSeq
  <1> HIDE DEF new
  <1>3. /\ g \in [0 .. Len(s) -> Int] /\ g[0] = 0
        /\ \A n \in 1 .. Len(s) : g[n] = g[n - 1] + s[n] BY <1>1 DEF Sums
  <1>4. h \in [0 .. Len(new) -> Int] /\ h[0] = 0 BY <1>2, <1>3
  <1>5. ASSUME NEW n \in 1 .. Len(new) PROVE h[n] = h[n - 1] + new[n]
    <2>1. n \in 0 .. Len(s) /\ n - 1 \in 0 .. Len(s) /\ n \in 1 .. Len(s) BY <1>2
    <2>2. g[n] = g[n - 1] + s[n] /\ g[n] \in Int /\ g[n - 1] \in Int /\ s[n] \in Int BY <2>1, <1>3, <1>2
    <2>3. h[n] = (IF n >= i THEN g[n] - s[i] + v ELSE g[n])
          /\ h[n - 1] = IF n - 1 >= i THEN g[n - 1] - s[i] + v ELSE g[n - 1] BY <2>1
    <2> HIDE DEF h
    <2>4. s[i] \in Int /\ new[n] = IF n = i THEN v ELSE s[n] BY <1>2, <2>1
    <2>5. CASE n = i BY <2>1, <2>2, <2>3, <2>4, <2>5
    <2>6. CASE n < i BY <2>1, <2>2, <2>3, <2>4, <2>6
    <2>7. CASE n > i BY SMTT(30), <2>1, <2>2, <2>3, <2>4, <2>7
    <2> QED BY <2>1, <2>5, <2>6, <2>7
  <1>6. h[Len(new)] = g[Len(s)] - s[i] + v BY <1>2
  <1>7. Sums(new, h) BY <1>4, <1>5 DEF Sums
  <1> HIDE DEF h
  <1>8. SumOf(new) = h[Len(new)] BY <1>7, <1>2, SumIs
  <1> QED BY <1>8, <1>6, <1>1 DEF new
--------------------------------------------------------------------------------
(* The sum over a finite set, of whatever element is taken first. *)
Totals(w, S, g) == /\ g \in [SUBSET S -> Int]
                   /\ g[{}] = 0
                   /\ \A T \in SUBSET S : \A x \in T : g[T] = g[T \ {x}] + w[x]

LEMMA TotalsExist ==
  ASSUME NEW S, IsFiniteSet(S), NEW w \in [S -> Int]
  PROVE  \E g : Totals(w, S, g)
  <1> DEFINE F == {T \in SUBSET S : \E g : Totals(w, T, g)}
  <1>1. {} \in F
    <2> DEFINE h == [U \in SUBSET {} |-> 0]
    <2>1. Totals(w, {}, h) BY DEF Totals
    <2> HIDE DEF h
    <2> QED BY <2>1
  <1>2. ASSUME NEW T \in SUBSET S, T # {}, \A x \in T : T \ {x} \in F PROVE T \in F
    <2>1. PICK y \in T : TRUE BY <1>2
    <2>2. PICK g : Totals(w, T \ {y}, g) BY <1>2, <2>1
    <2> DEFINE h == [U \in SUBSET T |-> IF y \in U THEN g[U \ {y}] + w[y] ELSE g[U]]
    <2>3. /\ g \in [SUBSET (T \ {y}) -> Int] /\ g[{}] = 0
          /\ \A U \in SUBSET (T \ {y}) : \A x \in U : g[U] = g[U \ {x}] + w[x]
      BY <2>2 DEF Totals
    <2>4. \A x \in T : w[x] \in Int OBVIOUS
    <2>5. h \in [SUBSET T -> Int]
      <3>1. \A U \in SUBSET T : g[U \ {y}] \in Int BY <2>3
      <3>2. \A U \in SUBSET T : y \notin U => g[U] \in Int BY <2>3
      <3> QED BY <3>1, <3>2, <2>1, <2>4
    <2>6. h[{}] = 0 BY <2>3
    <2>7. ASSUME NEW U \in SUBSET T, NEW x \in U PROVE h[U] = h[U \ {x}] + w[x]
      <3>1. /\ h[U] = IF y \in U THEN g[U \ {y}] + w[y] ELSE g[U]
            /\ h[U \ {x}] = IF y \in U \ {x} THEN g[(U \ {x}) \ {y}] + w[y] ELSE g[U \ {x}]
        OBVIOUS
      <3> HIDE DEF h
      <3>2. CASE x = y BY <3>1, <3>2
      <3>3. CASE x # y /\ y \in U
        <4>1. U \ {y} \in SUBSET (T \ {y}) /\ x \in U \ {y} BY <3>3
        <4>2. g[U \ {y}] = g[(U \ {y}) \ {x}] + w[x] BY <4>1, <2>3
        <4>3. (U \ {y}) \ {x} = (U \ {x}) \ {y} OBVIOUS
        <4>4. (U \ {y}) \ {x} \in SUBSET (T \ {y}) OBVIOUS
        <4>5. g[(U \ {y}) \ {x}] \in Int /\ w[x] \in Int /\ w[y] \in Int BY <4>4, <2>3, <2>4, <2>1
        <4>6. h[U] = g[U \ {y}] + w[y] BY <3>1, <3>3
        <4>7. h[U \ {x}] = g[(U \ {y}) \ {x}] + w[y] BY <3>1, <3>3, <4>3
        <4> QED BY <4>2, <4>5, <4>6, <4>7
      <3>4. CASE y \notin U
        <4>1. U \in SUBSET (T \ {y}) BY <3>4
        <4> QED BY <4>1, <3>1, <3>4, <2>3
      <3> QED BY <3>2, <3>3, <3>4
    <2> HIDE DEF h
    <2>8. Totals(w, T, h) BY <2>5, <2>6, <2>7 DEF Totals
    <2> QED BY <2>8
  <1> HIDE DEF F
  <1>3. SUBSET S \subseteq F BY <1>1, <1>2, SubsetsInduction, Zenon
  <1> QED BY <1>3 DEF F

LEMMA TotalIs ==
  ASSUME NEW S, IsFiniteSet(S), NEW w \in [S -> Int], NEW g, Totals(w, S, g)
  PROVE  Total(w, S) = g[S]
  <1> DEFINE c(T) == CHOOSE x \in T : TRUE
             P(h) == h = [T \in SUBSET S |-> IF T = {} THEN 0 ELSE h[T \ {c(T)}] + w[c(T)]]
             f == CHOOSE h : P(h)
  <1>1. Total(w, S) = f[S] BY DEF Total, FoldSet, MapThenFoldSet
  <1>2. \A T \in SUBSET S : T # {} => c(T) \in T OBVIOUS
  <1> HIDE DEF c
  <1>3. \A T \in SUBSET S : T # {} => g[T] = g[T \ {c(T)}] + w[c(T)] BY <1>2 DEF Totals
  <1>4. P(g) BY <1>3 DEF Totals
  <1> HIDE DEF P
  <1>5. P(f) BY <1>4
  <1>6. f = [T \in SUBSET S |-> IF T = {} THEN 0 ELSE f[T \ {c(T)}] + w[c(T)]] BY <1>5 DEF P
  <1> HIDE DEF f
  <1>7. \A T \in SUBSET S : f[T] = IF T = {} THEN 0 ELSE f[T \ {c(T)}] + w[c(T)] BY <1>6
  <1> DEFINE F == {T \in SUBSET S : f[T] = g[T]}
  <1>8. {} \in F BY <1>7 DEF Totals
  <1>9. ASSUME NEW T \in SUBSET S, T # {}, \A x \in T : T \ {x} \in F PROVE T \in F
    <2>1. f[T \ {c(T)}] = g[T \ {c(T)}] BY <1>2, <1>9
    <2> QED BY <2>1, <1>3, <1>7, <1>9
  <1> HIDE DEF F
  <1>10. SUBSET S \subseteq F BY <1>8, <1>9, SubsetsInduction, Zenon
  <1> QED BY <1>1, <1>10 DEF F

LEMMA TotalExcept ==
  ASSUME NEW S, IsFiniteSet(S), NEW w \in [S -> Int], NEW t \in S, NEW v \in Int,
         NEW new \in [S -> Int], \A x \in S : new[x] = IF x = t THEN v ELSE w[x]
  PROVE  Total(new, S) = Total(w, S) - w[t] + v
  <1>1. PICK g : Totals(w, S, g) BY TotalsExist
  <1> DEFINE h == [T \in SUBSET S |-> IF t \in T THEN g[T] - w[t] + v ELSE g[T]]
  <1>2. new \in [S -> Int] /\ \A x \in S : new[x] = IF x = t THEN v ELSE w[x] OBVIOUS
  <1>3. /\ g \in [SUBSET S -> Int] /\ g[{}] = 0
        /\ \A T \in SUBSET S : \A x \in T : g[T] = g[T \ {x}] + w[x]
    BY <1>1 DEF Totals
  <1>4. h \in [SUBSET S -> Int] /\ h[{}] = 0 BY <1>3
  <1>5. ASSUME NEW T \in SUBSET S, NEW x \in T PROVE h[T] = h[T \ {x}] + new[x]
    <2>1. g[T] = g[T \ {x}] + w[x] /\ g[T] \in Int /\ g[T \ {x}] \in Int BY <1>3
    <2>2. w[x] \in Int /\ w[t] \in Int /\ new[x] = IF x = t THEN v ELSE w[x] BY <1>2
    <2>3. /\ h[T] = IF t \in T THEN g[T] - w[t] + v ELSE g[T]
          /\ h[T \ {x}] = IF t \in T \ {x} THEN g[T \ {x}] - w[t] + v ELSE g[T \ {x}]
      OBVIOUS
    <2> HIDE DEF h
    <2>4. CASE x = t BY <2>1, <2>2, <2>3, <2>4
    <2>5. CASE x # t /\ t \in T BY <2>1, <2>2, <2>3, <2>5
    <2>6. CASE t \notin T BY <2>1, <2>2, <2>3, <2>6
    <2> QED BY <2>4, <2>5, <2>6
  <1>6. h[S] = g[S] - w[t] + v OBVIOUS
  <1> HIDE DEF h
  <1>7. Totals(new, S, h) BY <1>4, <1>5 DEF Totals
  <1>8. Total(new, S) = h[S] BY <1>7, <1>2, TotalIs
  <1>9. Total(w, S) = g[S] BY <1>1, TotalIs
  <1> QED BY <1>6, <1>8, <1>9, <1>3

--------------------------------------------------------------------------------
(* A run of mm zeros among the first n bytes. *)
RunIn(bytes, n, mm) == \E i \in 1 .. n - mm + 1 : \A k \in i .. i + mm - 1 : bytes[k] = 0

LEMMA RunGrows ==
  ASSUME NEW bytes, NEW a \in Nat, NEW b \in Nat, a <= b, NEW mm \in Nat, RunIn(bytes, a, mm)
  PROVE  RunIn(bytes, b, mm)
  BY DEF RunIn

LEMMA RunMade ==
  ASSUME NEW bytes, NEW k \in Nat, NEW b \in Nat, NEW mm \in Nat, k + mm <= b,
         \A j \in k + 1 .. b : bytes[j] = 0
  PROVE  RunIn(bytes, b, mm)
  <1>1. k + 1 \in 1 .. b - mm + 1 OBVIOUS
  <1>2. \A j \in k + 1 .. k + 1 + mm - 1 : bytes[j] = 0 OBVIOUS
  <1> QED BY <1>1, <1>2 DEF RunIn

LEMMA RunOver ==
  ASSUME NEW bytes, NEW a \in Nat, NEW b \in Nat, a <= b, NEW mm \in Nat, mm >= 1,
         ~RunIn(bytes, a, mm), \A j \in a + 1 .. b : bytes[j] # 0
  PROVE  ~RunIn(bytes, b, mm)
  <1> SUFFICES ASSUME NEW i \in 1 .. b - mm + 1, \A k \in i .. i + mm - 1 : bytes[k] = 0
               PROVE FALSE
    BY DEF RunIn
  <1>1. i + mm - 1 \in i .. i + mm - 1 OBVIOUS
  <1>2. bytes[i + mm - 1] = 0 BY <1>1
  <1>3. i + mm - 1 <= a BY <1>2
  <1>4. i \in 1 .. a - mm + 1 BY <1>3
  <1> QED BY <1>4 DEF RunIn

LEMMA RunCut ==
  ASSUME NEW bytes, NEW k \in Nat, NEW b \in Nat, k <= b, NEW mm \in Nat, mm > b - k,
         k = 0 \/ bytes[k] # 0, ~RunIn(bytes, k, mm)
  PROVE  ~RunIn(bytes, b, mm)
  <1> SUFFICES ASSUME NEW i \in 1 .. b - mm + 1, \A j \in i .. i + mm - 1 : bytes[j] = 0
               PROVE FALSE
    BY DEF RunIn
  <1>1. i <= k OBVIOUS
  <1>2. ~(i \in 1 .. k - mm + 1) BY DEF RunIn
  <1>3. k \in i .. i + mm - 1 BY <1>1, <1>2
  <1> QED BY <1>1, <1>3

(* The first byte that is zero, or that is not. *)
StopIn(s, started) == SelectInSeq(s, LAMBDA byte : (byte # 0) = started)

StopsAt(s, started, stop) ==
    /\ stop \in 0 .. Len(s)
    /\ stop = 0 => \A i \in 1 .. Len(s) : (s[i] # 0) # started
    /\ stop # 0 => /\ (s[stop] # 0) = started
                   /\ \A i \in 1 .. stop - 1 : (s[i] # 0) # started

LEMMA FirstByte ==
  ASSUME NEW s \in Seq(Nat), NEW started \in BOOLEAN
  PROVE  StopsAt(s, started, StopIn(s, started))
  <1> DEFINE stop == StopIn(s, started)
  <1> SUFFICES StopsAt(s, started, stop) OBVIOUS
  <1> DEFINE I == {i \in 1 .. Len(s) : (s[i] # 0) = started}
  <1>1. stop = IF I # {} THEN Min(I) ELSE 0 BY Zenon DEF StopIn, SelectInSeq
  <1>2. Len(s) \in Nat BY LenProperties
  <1> HIDE DEF stop
  <1>3. CASE I = {} BY <1>1, <1>2, <1>3 DEF StopsAt
  <1>4. CASE I # {}
    <2>1. I \in SUBSET Nat BY <1>2
    <2>2. \E x \in I : \A y \in I : x <= y
      <3> HIDE DEF I
      <3> QED BY <2>1, <1>4, LeastNumber
    <2>3. Min(I) \in I /\ \A y \in I : Min(I) <= y
      <3> HIDE DEF I
      <3> QED BY <2>2, Zenon DEF Min
    <2>4. stop \in I /\ \A y \in I : stop <= y BY <1>1, <1>4, <2>3
    <2>5. \A i \in 1 .. stop - 1 : i \notin I
      <3>1. stop \in 1 .. Len(s) BY <2>4
      <3> HIDE DEF I
      <3> QED BY <2>4, <3>1, <1>2
    <2> QED BY <2>4, <2>5, <1>2 DEF StopsAt
  <1> QED BY <1>3, <1>4

--------------------------------------------------------------------------------
(* What the finder knows of the bytes it has seen: a run it is in is as long as *)
(* it can be, one that ended earlier was too short, or a long one was found.   *)
FinderInv(s, bytes, m) ==
    /\ s.total \in 0 .. Len(bytes)
    /\ s.start = <<>> => /\ ~s.found
                         /\ ~RunIn(bytes, s.total, Max({1, m}))
                         /\ s.total = 0 \/ bytes[s.total] # 0
    /\ s.start # <<>> => /\ s.start[1] \in 0 .. s.total - 1
                         /\ s.found => /\ RunIn(bytes, s.total, Max({1, m}))
                                       /\ s.total - s.start[1] >= m
                         /\ ~s.found => /\ \A j \in s.start[1] + 1 .. s.total : bytes[j] = 0
                                        /\ s.start[1] = 0 \/ bytes[s.start[1]] # 0
                                        /\ ~RunIn(bytes, s.start[1], Max({1, m}))

Turns == [total : Nat, start : Seq(Nat), found : BOOLEAN, rest : Seq(Nat)]

TurnInv(s, bytes, end, m) ==
    /\ s \in Turns
    /\ FinderInv(s, bytes, m)
    /\ s.total + Len(s.rest) = end
    /\ \A i \in 1 .. Len(s.rest) : s.rest[i] = bytes[s.total + i]

LEMMA AdvanceTurns ==
  ASSUME NEW s \in Turns, NEW m \in Nat
  PROVE  /\ Advance(s, m) \in Turns
         /\ Len(Advance(s, m).rest) <= Len(s.rest)
         /\ s.rest # <<>> => Len(Advance(s, m).rest) < Len(s.rest)
  <1> DEFINE stop == StopIn(s.rest, s.start # <<>>)
             now == s.total + stop - 1
             left == SubSeq(s.rest, stop + 1, Len(s.rest))
  <1>1. s.rest \in Seq(Nat) /\ s.total \in Nat /\ s.start \in Seq(Nat) /\ s.found \in BOOLEAN BY DEF Turns
  <1>2. (s.start # <<>>) \in BOOLEAN OBVIOUS
  <1>3. stop \in 0 .. Len(s.rest)
    <2>1. StopsAt(s.rest, s.start # <<>>, stop) BY <1>1, <1>2, FirstByte
    <2> QED BY <2>1 DEF StopsAt
  <1>4. Len(s.rest) \in Nat BY <1>1, LenProperties
  <1>5. Advance(s, m) = IF stop = 0 THEN [s EXCEPT !.total = s.total + Len(s.rest), !.rest = <<>>]
        ELSE [total |-> now + 1, rest |-> left,
              start |-> IF s.start = <<>> THEN <<now>>
                        ELSE IF LongEnough(s.start, now, m) THEN s.start ELSE <<>>,
              found |-> s.found \/ LongEnough(s.start, now, m)]
    BY DEF Advance, StopIn
  <1> HIDE DEF stop
  <1>6. CASE stop = 0
    <2>1. Advance(s, m) = [total |-> s.total + Len(s.rest), start |-> s.start, found |-> s.found, rest |-> <<>>]
      BY <1>5, <1>6 DEF Turns
    <2> QED BY <2>1, <1>1, <1>4, EmptySeq DEF Turns
  <1>7. CASE stop # 0
    <2>1. now \in Nat BY <1>3, <1>7, <1>1
    <2>2. left \in Seq(Nat) /\ Len(left) = Len(s.rest) - stop
      BY <1>1, <1>3, <1>4, <1>7
    <2> HIDE DEF left, now
    <2>3. <<now>> \in Seq(Nat) /\ <<>> \in Seq(Nat) BY <2>1
    <2>4. LongEnough(s.start, now, m) \in BOOLEAN BY DEF LongEnough
    <2>5. Advance(s, m) = [total |-> now + 1, rest |-> left,
              start |-> IF s.start = <<>> THEN <<now>>
                        ELSE IF LongEnough(s.start, now, m) THEN s.start ELSE <<>>,
              found |-> s.found \/ LongEnough(s.start, now, m)] BY <1>5, <1>7
    <2>6. Advance(s, m) \in Turns BY <2>1, <2>2, <2>3, <2>4, <2>5, <1>1 DEF Turns
    <2>7. Advance(s, m).rest = left BY <2>5
    <2> QED BY <2>6, <2>7, <2>2, <1>3, <1>4, <1>7
  <1> QED BY <1>6, <1>7

(* A turn keeps what the finder knows, of the bytes up to the one it stops at. *)
LEMMA AdvanceInv ==
  ASSUME NEW bytes, NEW end \in 0 .. Len(bytes), Len(bytes) \in Nat, NEW m \in Nat,
         NEW s, TurnInv(s, bytes, end, m)
  PROVE  TurnInv(Advance(s, m), bytes, end, m)
  <1> DEFINE started == s.start # <<>>
             stop == StopIn(s.rest, started)
             now == s.total + stop - 1
             left == SubSeq(s.rest, stop + 1, Len(s.rest))
             mm == Max({1, m})
             next == Advance(s, m)
  <1>1. s \in Turns /\ FinderInv(s, bytes, m) /\ s.total + Len(s.rest) = end
        /\ \A i \in 1 .. Len(s.rest) : s.rest[i] = bytes[s.total + i] BY DEF TurnInv
  <1>2. s.rest \in Seq(Nat) /\ s.total \in Nat /\ s.start \in Seq(Nat) /\ s.found \in BOOLEAN
    BY <1>1 DEF Turns
  <1>3. started \in BOOLEAN OBVIOUS
  <1>4. Len(s.rest) \in Nat /\ s.total + Len(s.rest) = end BY <1>1, <1>2, LenProperties
  <1>5. /\ stop \in 0 .. Len(s.rest)
        /\ stop = 0 => \A i \in 1 .. Len(s.rest) : (s.rest[i] # 0) # started
        /\ stop # 0 => /\ (s.rest[stop] # 0) = started
                       /\ \A i \in 1 .. stop - 1 : (s.rest[i] # 0) # started
    <2> HIDE DEF started
    <2>1. StopsAt(s.rest, started, stop) BY <1>2, <1>3, FirstByte
    <2> QED BY <2>1 DEF StopsAt
  <1>6. next = IF stop = 0 THEN [s EXCEPT !.total = s.total + Len(s.rest), !.rest = <<>>]
        ELSE [total |-> now + 1, rest |-> left,
              start |-> IF s.start = <<>> THEN <<now>>
                        ELSE IF LongEnough(s.start, now, m) THEN s.start ELSE <<>>,
              found |-> s.found \/ LongEnough(s.start, now, m)]
    BY DEF Advance, StopIn
  <1>7. next \in Turns BY <1>1, AdvanceTurns
  <1>8. mm \in Nat /\ mm >= 1 /\ mm = IF 1 <= m THEN m ELSE 1 BY MaxOfTwo
  <1> SUFFICES TurnInv(next, bytes, end, m) OBVIOUS
  <1> HIDE DEF stop, next, mm
  <1>9. CASE stop = 0
    <2>1. /\ next.total = end /\ next.start = s.start /\ next.found = s.found /\ next.rest = <<>>
      BY <1>1, <1>6, <1>9 DEF Turns
    <2>20. /\ next.total + Len(next.rest) = end
           /\ \A i \in 1 .. Len(next.rest) : next.rest[i] = bytes[next.total + i]
      <3>1. Len(next.rest) = 0 BY <2>1
      <3> QED BY <3>1, <2>1
    <2>2. CASE s.start = <<>>
      <3>1. ~RunIn(bytes, s.total, mm) /\ (s.total = 0 \/ bytes[s.total] # 0) /\ ~s.found
        BY <1>1, <2>2 DEF FinderInv, mm
      <3>2. \A j \in s.total + 1 .. end : bytes[j] # 0
        <4> TAKE j \in s.total + 1 .. end
        <4>1. j - s.total \in 1 .. Len(s.rest) /\ s.total + (j - s.total) = j BY SMTT(30), <1>1, <1>2, <1>4
        <4> QED BY <4>1, <1>1, <1>5, <1>9, <2>2
      <3>3. s.total <= end /\ end \in Nat BY <1>1, <1>2, <1>4
      <3>4. ~RunIn(bytes, end, mm) BY <3>1, <3>2, <3>3, <1>2, <1>8, RunOver
      <3>5. end = 0 \/ bytes[end] # 0 BY <3>1, <3>2, <3>3, <1>2
      <3>6. FinderInv(next, bytes, m) BY <2>1, <2>2, <3>1, <3>4, <3>5 DEF FinderInv, mm
      <3> QED BY <3>6, <2>20, <1>7 DEF TurnInv
    <2>3. CASE s.start # <<>>
      <3>1. \A j \in s.total + 1 .. end : bytes[j] = 0
        <4> TAKE j \in s.total + 1 .. end
        <4>1. j - s.total \in 1 .. Len(s.rest) /\ s.total + (j - s.total) = j BY SMTT(30), <1>1, <1>2, <1>4
        <4> QED BY <4>1, <1>1, <1>5, <1>9, <2>3
      <3>2. s.total <= end /\ end \in Nat BY <1>1, <1>2, <1>4
      <3> DEFINE k == s.start[1]
      <3>3. k \in 0 .. s.total - 1 BY <1>1, <2>3 DEF FinderInv
      <3>4. CASE s.found
        <4>1. RunIn(bytes, s.total, mm) /\ s.total - k >= m BY <1>1, <2>3, <3>4 DEF FinderInv, mm
        <4>2. RunIn(bytes, end, mm) BY <4>1, <3>2, <1>2, <1>8, RunGrows
        <4>3. end - k >= m BY <4>1, <3>2, <3>3, <1>2
        <4>4. FinderInv(next, bytes, m) BY <2>1, <2>3, <3>2, <3>3, <3>4, <4>2, <4>3, <1>2 DEF FinderInv, mm
        <4> QED BY <4>4, <2>20, <1>7 DEF TurnInv
      <3>5. CASE ~s.found
        <4>1. /\ \A j \in k + 1 .. s.total : bytes[j] = 0
              /\ k = 0 \/ bytes[k] # 0
              /\ ~RunIn(bytes, k, mm)
          BY <1>1, <2>3, <3>5 DEF FinderInv, mm
        <4>2. \A j \in k + 1 .. end : bytes[j] = 0 BY <3>1, <3>2, <3>3, <4>1, <1>2
        <4>3. k \in 0 .. end - 1 BY <3>2, <3>3, <1>2
        <4>4. FinderInv(next, bytes, m) BY <2>1, <2>3, <3>2, <3>5, <4>1, <4>2, <4>3 DEF FinderInv, mm
        <4> QED BY <4>4, <2>20, <1>7 DEF TurnInv
      <3> QED BY <3>4, <3>5
    <2> QED BY <2>2, <2>3
  <1>10. CASE stop # 0
    <2>1. /\ next.total = now + 1 /\ next.rest = left
          /\ next.start = IF s.start = <<>> THEN <<now>>
                          ELSE IF LongEnough(s.start, now, m) THEN s.start ELSE <<>>
          /\ next.found = (s.found \/ LongEnough(s.start, now, m))
      BY <1>6, <1>10
    <2>2. stop \in 1 .. Len(s.rest) BY <1>5, <1>10
    <2>3. now \in Nat /\ s.total <= now /\ now + 1 <= end /\ now + 1 \in 0 .. Len(bytes)
      <3>1. s.total \in Nat BY <1>2
      <3> QED BY SMTT(30), <2>2, <3>1, <1>4
    <2>4. bytes[now + 1] = s.rest[stop]
      <3>1. now + 1 = s.total + stop BY <2>2, <1>2
      <3> QED BY <3>1, <2>2, <1>1
    <2>5. \A j \in s.total + 1 .. now : (bytes[j] # 0) # (s.start # <<>>)
      <3> TAKE j \in s.total + 1 .. now
      <3>1. j - s.total \in 1 .. stop - 1 /\ j - s.total \in 1 .. Len(s.rest) /\ s.total + (j - s.total) = j
        <4>1. s.total \in Nat BY <1>2
        <4> QED BY SMTT(30), <2>2, <4>1, <1>4
      <3> QED BY <3>1, <1>1, <1>5, <1>10
    <2>6. (bytes[now + 1] # 0) = (s.start # <<>>) BY <1>5, <1>10, <2>4
    <2>7. /\ next.total + Len(next.rest) = end
          /\ \A i \in 1 .. Len(next.rest) : next.rest[i] = bytes[next.total + i]
      <3>1. /\ left \in Seq(Nat) /\ Len(left) = Len(s.rest) - stop
            /\ \A i \in 1 .. Len(left) : left[i] = s.rest[stop + i]
        <4>1. stop + 1 \in 1 .. Len(s.rest) + 1 BY <1>4, <2>2
        <4>2. \A i \in stop + 1 .. Len(s.rest) : s.rest[i] \in Nat BY SMTT(30), <1>2, <4>1, ElementOfSeq
        <4>3. stop + 1 \in Int /\ Len(s.rest) \in Int BY <1>4, <4>1
        <4>4. /\ left \in Seq(Nat)
              /\ Len(left) = IF stop + 1 <= Len(s.rest) THEN Len(s.rest) - (stop + 1) + 1 ELSE 0
              /\ \A i \in 1 .. Len(s.rest) - (stop + 1) + 1 : left[i] = s.rest[(stop + 1) + i - 1]
          BY SMTT(30), <4>2, <4>3, SubSeqProperties
        <4> HIDE DEF left
        <4>5. Len(left) = Len(s.rest) - stop BY <4>1, <4>4, <1>4, <2>2
        <4>6. ASSUME NEW i \in 1 .. Len(left) PROVE left[i] = s.rest[stop + i]
          <5>1. i \in 1 .. Len(s.rest) - (stop + 1) + 1 /\ (stop + 1) + i - 1 = stop + i
            BY <4>5, <1>4, <2>2
          <5>2. left[i] = s.rest[(stop + 1) + i - 1] BY <5>1, <4>4, Zenon
          <5> QED BY <5>1, <5>2, Zenon
        <4> QED BY <4>4, <4>5, <4>6
      <3>2. \A i \in 1 .. Len(left) : stop + i \in 1 .. Len(s.rest) /\ s.total + (stop + i) = now + 1 + i
        <4> DEFINE all == Len(s.rest)
                   rest == Len(left)
                   tot == s.total
        <4>1. rest = all - stop /\ tot \in Nat /\ now = tot + stop - 1 BY <3>1, <1>2
        <4>2. stop \in 1 .. all /\ all \in Nat BY <1>4, <2>2
        <4> HIDE DEF all, rest, tot, now
        <4>3. \A i \in 1 .. rest : stop + i \in 1 .. all /\ tot + (stop + i) = now + 1 + i BY <4>1, <4>2
        <4> QED BY <4>3 DEF all, rest, tot
      <3>3. \A i \in 1 .. Len(left) : left[i] = bytes[now + 1 + i] BY <3>1, <3>2, <1>1
      <3> HIDE DEF left
      <3> HIDE DEF now
      <3>4. next.rest = left /\ next.total = now + 1 BY <2>1
      <3>5. now + 1 = s.total + stop BY <2>2, <1>2 DEF now
      <3>6. (s.total + stop) + (Len(s.rest) - stop) = s.total + Len(s.rest) BY <1>2, <1>4, <2>2
      <3> QED BY <3>1, <3>3, <3>4, <3>5, <3>6, <1>4
    <2> HIDE DEF left, now
    <2>8. FinderInv(next, bytes, m)
      <3>1. CASE s.start = <<>>
        <4>1. ~RunIn(bytes, s.total, mm) /\ (s.total = 0 \/ bytes[s.total] # 0) /\ ~s.found
          BY <1>1, <3>1 DEF FinderInv, mm
        <4>2. ~RunIn(bytes, now, mm) BY <4>1, <2>3, <2>5, <3>1, <1>2, <1>8, RunOver
        <4>3. now = 0 \/ bytes[now] # 0 BY <4>1, <2>3, <2>5, <3>1, <1>2
        <4>4. ~LongEnough(s.start, now, m) BY <3>1 DEF LongEnough
        <4>5. next.start = <<now>> /\ next.start # <<>> /\ next.start[1] = now /\ ~next.found
          <5>1. next.start = <<now>> BY <2>1, <3>1
          <5>2. ~next.found BY <2>1, <4>1, <4>4
          <5> QED BY <5>1, <5>2
        <4>6. bytes[now + 1] = 0 BY <2>6, <3>1
        <4>7. now \in 0 .. next.total - 1 BY <2>1, <2>3
        <4>8. \A j \in now + 1 .. next.total : bytes[j] = 0 BY <4>6, <2>1, <2>3
        <4> QED BY <2>1, <2>3, <4>2, <4>3, <4>5, <4>7, <4>8 DEF FinderInv, mm
      <3>2. CASE s.start # <<>>
        <4> DEFINE k == s.start[1]
        <4>1. k \in 0 .. s.total - 1 BY <1>1, <3>2 DEF FinderInv
        <4>2. CASE LongEnough(s.start, now, m)
          <5>1. now - k >= m BY <4>2 DEF LongEnough
          <5>2. next.start = s.start /\ next.found BY <2>1, <3>2, <4>2
          <5>3. RunIn(bytes, now + 1, mm)
            <6>1. CASE s.found
              <7>1. RunIn(bytes, s.total, mm) BY <1>1, <3>2, <6>1 DEF FinderInv, mm
              <7> QED BY <7>1, <2>3, <1>2, <1>8, RunGrows
            <6>2. CASE ~s.found
              <7>1. \A j \in k + 1 .. s.total : bytes[j] = 0 BY <1>1, <3>2, <6>2 DEF FinderInv
              <7>2. \A j \in s.total + 1 .. now : bytes[j] = 0 BY <2>5, <3>2
              <7>5. \A j \in k + 1 .. now : j \in k + 1 .. s.total \/ j \in s.total + 1 .. now
                BY <4>1, <2>3, <1>2
              <7>3. k \in Nat /\ k + mm <= now
                <8> DEFINE tot == s.total
                <8>1. k \in 0 .. tot - 1 /\ now \in Nat /\ tot <= now /\ now - k >= m BY <5>1, <4>1, <2>3
                <8>2. tot \in Nat /\ mm \in Nat /\ (mm = m \/ mm = 1) /\ m \in Nat BY <1>2, <1>8 DEF mm
                <8> HIDE DEF tot, now, k, mm
                <8> QED BY <8>1, <8>2
              <7>6. \A j \in k + 1 .. now : bytes[j] = 0 BY <7>1, <7>2, <7>5, Zenon
              <7>7. now \in Nat /\ now <= Len(bytes) BY <2>3
              <7>4. RunIn(bytes, now, mm) BY <7>6, <7>7, <7>3, <1>8, RunMade
              <7> QED BY <7>4, <2>3, <1>8, RunGrows
            <6> QED BY <6>1, <6>2
          <5>4. next.total - k >= m /\ k \in 0 .. next.total - 1 BY SMTT(30), <5>1, <4>1, <2>1, <2>3, <1>2
          <5> QED BY <2>1, <2>3, <3>2, <5>2, <5>3, <5>4 DEF FinderInv, mm
        <4>3. CASE ~LongEnough(s.start, now, m)
          <5>1. ~(now - k >= m) BY <3>2, <4>3 DEF LongEnough
          <5>2. ~s.found
            <6>1. s.found => s.total - k >= m BY <1>1, <3>2 DEF FinderInv
            <6> DEFINE tot == s.total
            <6>2. now \in Nat /\ tot \in Nat /\ tot <= now /\ k \in 0 .. tot - 1 BY <4>1, <2>3, <1>2
            <6>3. ~(now - k >= m) /\ m \in Nat /\ (s.found => tot - k >= m) BY <6>1, <5>1
            <6> HIDE DEF tot, now, k
            <6>4. ~(tot - k >= m) BY <6>2, <6>3
            <6> QED BY <6>3, <6>4
          <5>3. next.start = <<>> /\ ~next.found BY <2>1, <3>2, <4>3, <5>2
          <5>4. (k = 0 \/ bytes[k] # 0) /\ ~RunIn(bytes, k, mm) BY <1>1, <3>2, <5>2 DEF FinderInv, mm
          <5>5. k \in Nat /\ k <= now /\ mm > now - k 
            <6>1. k \in Nat /\ k <= now BY <4>1, <2>3, <1>2
            <6>2. now - k < m BY <6>1, <5>1, <2>3
            <6> QED BY <6>1, <6>2, <2>3, <1>8
          <5>6. ~RunIn(bytes, now, mm) BY <5>4, <5>5, <2>3, <1>8, RunCut
          <5>7. bytes[now + 1] # 0 BY <2>6, <3>2
          <5>9. ~RunIn(bytes, now + 1, mm)
            <6>1. now \in Nat /\ now + 1 \in Nat /\ now <= now + 1 BY <2>3
            <6>2. \A j \in now + 1 .. (now + 1) : bytes[j] # 0 BY <5>7, <2>3
            <6> QED BY <5>6, <6>1, <6>2, <1>8, RunOver
          <5> QED BY <2>1, <2>3, <5>3, <5>7, <5>9 DEF FinderInv, mm
        <4> QED BY <4>2, <4>3
      <3> QED BY <3>1, <3>2
    <2> QED BY <1>7, <2>7, <2>8 DEF TurnInv
  <1> QED BY <1>9, <1>10

Files == [total : Nat, start : Seq(Nat), found : BOOLEAN]

LEMMA FinderFields ==
  ASSUME NEW s, NEW t, NEW bytes, NEW m,
         s.total = t.total, s.start = t.start, s.found = t.found, FinderInv(s, bytes, m)
  PROVE  FinderInv(t, bytes, m)
  BY Zenon DEF FinderInv

(* The turns of the loop over a chunk, as many as it has bytes: no byte is left. *)
TurnsOf(turn, first, n, m) ==
    turn = [i \in 0 .. n |-> IF i = 0 THEN first ELSE Advance(turn[i - 1], m)]

LEMMA LoopInv ==
  ASSUME NEW first \in Turns, NEW m \in Nat, NEW bytes, NEW end \in 0 .. Len(bytes),
         Len(bytes) \in Nat, TurnInv(first, bytes, end, m), NEW n \in Nat, n = Len(first.rest),
         NEW turn, TurnsOf(turn, first, n, m)
  PROVE  TurnInv(turn[n], bytes, end, m) /\ turn[n].rest = <<>>
  <1>1. \A i \in 0 .. n : turn[i] = IF i = 0 THEN first ELSE Advance(turn[i - 1], m)
    BY DEF TurnsOf
  <1>2. turn[0] = first BY <1>1
  <1>3. ASSUME NEW i \in 0 .. n - 1 PROVE turn[i + 1] = Advance(turn[i], m)
    <2>1. i + 1 \in 0 .. n /\ i + 1 # 0 /\ (i + 1) - 1 = i OBVIOUS
    <2> QED BY <1>1, <2>1
  <1> DEFINE T == {i \in 0 .. n : TurnInv(turn[i], bytes, end, m) /\ Len(turn[i].rest) <= n - i}
  <1>4. 0 \in T BY <1>2
  <1>5. ASSUME NEW i \in 0 .. n - 1, i \in T PROVE i + 1 \in T
    <2>1. TurnInv(turn[i], bytes, end, m) /\ Len(turn[i].rest) <= n - i BY <1>5
    <2>2. TurnInv(turn[i + 1], bytes, end, m) BY <2>1, <1>3, AdvanceInv
    <2>3. turn[i] \in Turns /\ turn[i + 1] \in Turns BY <2>1, <2>2 DEF TurnInv
    <2>4. /\ Len(turn[i + 1].rest) <= Len(turn[i].rest)
          /\ turn[i].rest # <<>> => Len(turn[i + 1].rest) < Len(turn[i].rest)
      BY <2>3, <1>3, AdvanceTurns
    <2>5. turn[i].rest \in Seq(Nat) /\ turn[i + 1].rest \in Seq(Nat) BY <2>3 DEF Turns
    <2>6. /\ Len(turn[i].rest) \in Nat /\ Len(turn[i + 1].rest) \in Nat
          /\ turn[i].rest = <<>> => Len(turn[i].rest) = 0
      BY <2>5, LenProperties
    <2>7. Len(turn[i + 1].rest) <= n - (i + 1)
      <3> DEFINE a == Len(turn[i].rest)
                 b == Len(turn[i + 1].rest)
      <3>1. a \in Nat /\ b \in Nat /\ a <= n - i /\ b <= a /\ (a = 0 \/ b < a)
        BY <2>1, <2>4, <2>6
      <3> HIDE DEF a, b
      <3>2. b <= n - (i + 1) BY <3>1
      <3> QED BY <3>2 DEF b
    <2>8. i + 1 \in 0 .. n OBVIOUS
    <2> QED BY <2>2, <2>7, <2>8
  <1> HIDE DEF T
  <1>6. 0 .. n \subseteq T BY <1>4, <1>5, IntervalInduction
  <1>7. n \in T BY <1>6
  <1>8. TurnInv(turn[n], bytes, end, m) /\ Len(turn[n].rest) <= n - n BY <1>7 DEF T
  <1>9. turn[n].rest \in Seq(Nat) BY <1>8 DEF TurnInv, Turns
  <1>10. turn[n].rest = <<>> BY <1>8, <1>9, EmptySeq, LenProperties
  <1> QED BY <1>8, <1>10

LEMMA LoopExists ==
  ASSUME NEW first \in Turns, NEW m \in Nat, NEW n \in Nat
  PROVE  \E turn : TurnsOf(turn, first, n, m)
  <1> DEFINE step == [i \in 1 .. n |-> [t \in Turns |-> Advance(t, m)]]
  <1>1. \A t \in Turns : Advance(t, m) \in Turns BY AdvanceTurns
  <1>2. StepsIn(Turns, n, step) BY <1>1 DEF StepsIn
  <1>3. \A i \in 1 .. n : \A t \in Turns : step[i][t] = Advance(t, m) OBVIOUS
  <1> HIDE DEF step
  <1>4. PICK g : Recursion(Turns, n, first, step, g) BY <1>2, RecursionExists, Zenon
  <1>5. g \in [0 .. n -> Turns] /\ g[0] = first /\ \A i \in 1 .. n : g[i] = step[i][g[i - 1]]
    BY <1>4 DEF Recursion
  <1>6. ASSUME NEW i \in 0 .. n, i # 0 PROVE g[i] = Advance(g[i - 1], m)
    <2>1. i \in 1 .. n /\ i - 1 \in 0 .. n BY <1>6
    <2>2. g[i - 1] \in Turns BY <2>1, <1>5
    <2> QED BY <2>1, <2>2, <1>3, <1>5
  <1>7. g = [i \in 0 .. n |-> IF i = 0 THEN first ELSE Advance(g[i - 1], m)]
    BY <1>5, <1>6
  <1> QED BY <1>7 DEF TurnsOf

PartAt(data, bytes, from) == /\ data \in Seq(Nat)
                             /\ from + Len(data) <= Len(bytes)
                             /\ \A i \in 1 .. Len(data) : data[i] = bytes[from + i]

LEMMA UpdateInv ==
  ASSUME NEW bytes, Len(bytes) \in Nat, NEW data, NEW m \in Nat, NEW s \in Files,
         FinderInv(s, bytes, m), PartAt(data, bytes, s.total)
  PROVE  /\ update_file(s, data, m) \in Files
         /\ FinderInv(update_file(s, data, m), bytes, m)
         /\ update_file(s, data, m).total = s.total + Len(data)
  <1> DEFINE next == update_file(s, data, m)
             end == s.total + Len(data)
             first == [total |-> s.total, start |-> s.start, found |-> FALSE, rest |-> data]
             turn == CHOOSE h : TurnsOf(h, first, Len(data), m)
             last == turn[Len(data)]
  <1>1. s.total \in Nat /\ s.start \in Seq(Nat) /\ s.found \in BOOLEAN BY DEF Files
  <1>2. data \in Seq(Nat) /\ Len(data) \in Nat BY LenProperties DEF PartAt
  <1>3. end \in 0 .. Len(bytes) BY <1>1, <1>2 DEF PartAt
  <1> SUFFICES next \in Files /\ FinderInv(next, bytes, m) /\ next.total = end OBVIOUS
  <1>4. CASE s.found
    <2>1. next = [s EXCEPT !.total = s.total + Len(data)] BY <1>4 DEF update_file
    <2>2. next.total = end /\ next.start = s.start /\ next.found = s.found /\ next \in Files
      <3> HIDE DEF next
      <3>1. next = [total |-> s.total + Len(data), start |-> s.start, found |-> s.found]
        BY <2>1 DEF Files
      <3> QED BY <3>1, <1>1, <1>2 DEF Files
    <2> HIDE DEF next
    <2> DEFINE k == s.start[1]
               mm == Max({1, m})
    <2>3. s.start # <<>> BY <1>4 DEF FinderInv
    <2>4. k \in 0 .. s.total - 1 /\ RunIn(bytes, s.total, mm) /\ s.total - k >= m
      BY <2>3, <1>4 DEF FinderInv
    <2>5. mm \in Nat BY MaxOfTwo
    <2> HIDE DEF mm
    <2>6. RunIn(bytes, end, mm) BY <2>4, <2>5, <1>1, <1>2, RunGrows
    <2>7. k \in 0 .. end - 1 /\ end - k >= m BY <2>4, <1>1, <1>2
    <2> QED BY <1>3, <1>4, <2>2, <2>3, <2>6, <2>7 DEF FinderInv, mm
  <1>5. CASE ~s.found
    <2>1. next = [total |-> last.total, start |-> last.start, found |-> last.found]
      BY <1>5 DEF update_file, TurnsOf
    <2>2. first \in Turns BY <1>1, <1>2 DEF Turns
    <2>3. TurnInv(first, bytes, end, m)
      <3>1. first.total = s.total /\ first.start = s.start /\ first.found = s.found BY <1>1, <1>5
      <3>2. FinderInv(first, bytes, m) BY <3>1, FinderFields
      <3> QED BY <3>2, <2>2 DEF TurnInv, PartAt
    <2>4. first.rest = data OBVIOUS
    <2> HIDE DEF first, next, end
    <2>5. \E h : TurnsOf(h, first, Len(data), m) BY <2>2, <1>2, LoopExists
    <2>6. TurnsOf(turn, first, Len(data), m) BY <2>5
    <2> HIDE DEF turn
    <2>7. TurnInv(last, bytes, end, m) /\ last.rest = <<>>
      BY <2>2, <2>3, <2>4, <2>6, <1>2, <1>3, LoopInv
    <2> HIDE DEF last
    <2>8. last \in Turns /\ FinderInv(last, bytes, m) /\ last.total + Len(last.rest) = end
      BY <2>7 DEF TurnInv
    <2>9. next.total = last.total /\ next.start = last.start /\ next.found = last.found BY <2>1
    <2>10. FinderInv(next, bytes, m) BY <2>8, <2>9, FinderFields
    <2>11. next \in Files BY <2>1, <2>8 DEF Turns, Files
    <2>12. next.total = end
      <3>1. last.total \in Nat /\ Len(last.rest) = 0 BY <2>7, <2>8 DEF Turns
      <3> QED BY <3>1, <2>8, <2>9
    <2> QED BY <2>10, <2>11, <2>12
  <1> QED BY <1>4, <1>5

--------------------------------------------------------------------------------
(* The statistics: what the counter and the array hold, from any threads.       *)
RateType == /\ current \in Nat
            /\ array \in Seq(Nat) /\ index \in Nat
            /\ hand \in [Samplers -> Seq(Nat)]
            /\ \A t \in Samplers : Len(hand[t]) <= 1
            /\ resetting \in BOOLEAN
            /\ recent \in Seq(Nat) /\ gone \in Nat

(* Where the index says that the array was filled, the samples written last are *)
(* in it from the index round; before, they are what it begins with.            *)
Place(k) == IF index - Len(array) + k <= Len(array) THEN index - Len(array) + k
            ELSE index - 2 * Len(array) + k

RingInv ==
    /\ Len(recent) <= Len(array)
    /\ Len(array) = 0 => index = 0
    /\ index < Len(array) => /\ Len(recent) = index
                             /\ \A k \in 1 .. index : recent[k] = array[k]
    /\ Len(array) > 0 /\ index >= Len(array) =>
          /\ index <= 2 * Len(array) - 1
          /\ Len(recent) = Len(array)
          /\ \A k \in 1 .. Len(array) : recent[k] = array[Place(k)]
          /\ SumOf(array) = SumOf(recent)

LEMMA NatsAreInts == ASSUME NEW s \in Seq(Nat) PROVE s \in Seq(Int)
  BY SeqMonotonic

(* What a sample does to the history: it is appended, and what the array has no *)
(* room for any more falls out.                                                *)
LEMMA SampledHistory ==
  ASSUME recent \in Seq(Nat), array \in Seq(Nat), gone \in Nat, NEW v \in Nat,
         Len(recent) <= Len(array), Sampled(v)
  PROVE  /\ recent' \in Seq(Nat) /\ gone' \in Nat
         /\ SumOf(recent') + gone' = SumOf(recent) + gone + v
         /\ Len(recent) < Len(array) =>
               /\ Len(recent') = Len(recent) + 1
               /\ \A k \in 1 .. Len(recent) : recent'[k] = recent[k]
               /\ recent'[Len(recent) + 1] = v
         /\ Len(recent) = Len(array) /\ Len(array) > 0 =>
               /\ Len(recent') = Len(recent)
               /\ \A k \in 1 .. Len(recent) - 1 : recent'[k] = recent[k + 1]
               /\ recent'[Len(recent)] = v
               /\ SumOf(recent') = SumOf(recent) - recent[1] + v
         /\ Len(array) = 0 => recent' = <<>>
  <1> DEFINE all == Append(recent, v)
             old == Len(all) - Min({Len(all), Len(array)})
             lost == SubSeq(all, 1, old)
             kept == SubSeq(all, old + 1, Len(all))
  <1>1. /\ all \in Seq(Nat) /\ all # <<>>
        /\ Len(all) = Len(recent) + 1
        /\ \A k \in 1 .. Len(recent) : all[k] = recent[k]
        /\ all[Len(recent) + 1] = v
    BY AppendProperties, LenProperties
  <1>2. Len(recent) \in Nat /\ Len(array) \in Nat BY LenProperties
  <1>3. old = IF Len(recent) < Len(array) THEN 0 ELSE 1 BY SMTT(30), <1>1, <1>2, MinOfTwo
  <1>4. recent' = kept /\ gone' = gone + SumOf(lost) BY DEF Sampled
  <1>5. all \in Seq(Int) /\ recent \in Seq(Int) /\ v \in Int BY <1>1, NatsAreInts
  <1>6. SumOf(all) = SumOf(recent) + v BY <1>5, SumAppend
  <1>7. SumOf(recent) \in Nat BY SumIsNat
  <1> HIDE DEF all, old
  <1>8. CASE Len(recent) < Len(array)
    <2>1. old = 0 BY <1>3, <1>8
    <2>2. kept = all BY <2>1, <1>1, SubSeqFull
    <2>3. lost = <<>> BY <2>1, SubSeqEmpty
    <2> HIDE DEF kept, lost
    <2>4. recent' = all /\ gone' = gone
      <3>1. SumOf(lost) = 0 BY <2>3, SumEmpty
      <3> QED BY <3>1, <1>4, <2>2
    <2> QED BY <2>4, <1>1, <1>2, <1>6, <1>7, <1>8
  <1>9. CASE ~(Len(recent) < Len(array))
    <2>1. old = 1 /\ Len(recent) = Len(array) BY <1>2, <1>3, <1>9
    <2>2. kept = Tail(all)
      <3>1. SubSeq(all, 2, Len(all)) = Tail(all) BY <1>1, TailIsSubSeq
      <3> QED BY <2>1, <3>1
    <2>3. lost = <<all[1]>>
      <3>1. 1 \in 1 .. Len(all) BY <1>1, <1>2
      <3>2. SubSeq(all, 1, 1) = <<all[1]>> \o SubSeq(all, 1 + 1, 1) BY <1>1, <3>1, SubSeqRecursiveFirst
      <3>3. SubSeq(all, 1 + 1, 1) = <<>> BY SubSeqEmpty
      <3>4. <<all[1]>> \in Seq(Nat) BY <1>1, <3>1, ElementOfSeq
      <3>5. SubSeq(all, 1, 1) = <<all[1]>> BY <3>2, <3>3, <3>4, ConcatEmptySeq
      <3> QED BY <2>1, <3>5
    <2>4. all[1] \in Nat BY <1>1, <1>2, ElementOfSeq
    <2>5. SumOf(all) = all[1] + SumOf(Tail(all)) BY <1>1, <1>5, SumFirst
    <2> HIDE DEF kept, lost
    <2>6. SumOf(lost) = all[1] BY <2>3, <2>4, SumSingle
    <2>7. recent' = Tail(all) /\ gone' = gone + all[1] BY <1>4, <2>2, <2>6
    <2>8. /\ Tail(all) \in Seq(Nat) /\ Len(Tail(all)) = Len(all) - 1
          /\ \A k \in 1 .. Len(Tail(all)) : Tail(all)[k] = all[k + 1]
      BY <1>1, HeadTailProperties
    <2>9. SumOf(Tail(all)) \in Nat BY <2>8, SumIsNat
    <2>10. SumOf(recent') + gone' = SumOf(recent) + gone + v /\ gone' \in Nat
      <3> DEFINE rest == SumOf(Tail(all))
                 sum == SumOf(recent)
                 first == all[1]
      <3>1. rest \in Nat /\ sum \in Nat /\ first \in Nat BY <2>4, <2>9, <1>7
      <3>2. sum + v = first + rest BY <2>5, <1>6
      <3>3. gone' = gone + first /\ SumOf(recent') = rest BY <2>7
      <3> HIDE DEF rest, sum, first
      <3>4. rest + gone' = sum + gone + v /\ gone' \in Nat BY <3>1, <3>2, <3>3
      <3> QED BY <3>3, <3>4 DEF sum
    <2>11. Len(recent') = Len(recent) /\ recent' \in Seq(Nat) BY <2>7, <2>8, <1>1, <1>2
    <2>12. Len(array) = 0 => recent' = <<>> BY <2>1, <2>11, EmptySeq
    <2>13. ASSUME Len(array) > 0
           PROVE  /\ \A k \in 1 .. Len(recent) - 1 : recent'[k] = recent[k + 1]
                  /\ recent'[Len(recent)] = v
                  /\ SumOf(recent') = SumOf(recent) - recent[1] + v
      <3>1. \A k \in 1 .. Len(recent) : recent'[k] = all[k + 1] BY <2>7, <2>8, <1>1, <1>2
      <3>2. \A k \in 1 .. Len(recent) - 1 : k + 1 \in 1 .. Len(recent) /\ k \in 1 .. Len(recent) BY <1>2
      <3>3. Len(recent) \in 1 .. Len(recent) /\ 1 \in 1 .. Len(recent) BY <2>1, <2>13, <1>2
      <3>4. all[1] = recent[1] BY <3>3, <1>1
      <3>5. SumOf(recent') = SumOf(recent) - recent[1] + v
        <4>1. SumOf(recent') + gone' = SumOf(recent) + gone + v BY <2>10
        <4>2. gone' = gone + recent[1] BY <2>7, <3>4
        <4>3. SumOf(recent') \in Nat /\ recent[1] \in Nat
          BY <2>7, <2>9, <2>4, <3>4
        <4> DEFINE new == SumOf(recent')
                   sum == SumOf(recent)
                   first == recent[1]
        <4>4. new \in Nat /\ sum \in Nat /\ first \in Nat BY <4>3, <1>7
        <4>5. new + gone' = sum + gone + v /\ gone' = gone + first BY <4>1, <4>2
        <4> HIDE DEF new, sum, first
        <4>6. new = sum - first + v BY <4>4, <4>5
        <4> QED BY <4>6 DEF new, sum, first
      <3> QED BY <3>1, <3>2, <3>3, <3>5, <1>1
    <2> QED BY <2>1, <2>10, <2>11, <2>12, <2>13, <1>9
  <1> QED BY <1>8, <1>9

LEMMA ModRound ==
  ASSUME NEW a \in Nat, NEW b \in Nat, b > 0, a < 2 * b
  PROVE  a % b = IF a < b THEN a ELSE a - b
  OBVIOUS

LEMMA WriteSampleKeepsType ==
  ASSUME RateType, RingInv, NEW t \in Samplers, WriteSample(t)
  PROVE  /\ RateType'
         /\ hand[t] = <<hand[t][1]>> /\ hand[t][1] \in Nat
         /\ hand' = [hand EXCEPT ![t] = <<>>]
         /\ Len(array') = Len(array)
         /\ SumOf(recent') + gone' = SumOf(recent) + gone + hand[t][1]
  <1> DEFINE v == hand[t][1]
  <1>1. /\ current \in Nat /\ array \in Seq(Nat) /\ index \in Nat /\ hand \in [Samplers -> Seq(Nat)]
        /\ resetting \in BOOLEAN /\ recent \in Seq(Nat) /\ gone \in Nat
        /\ \A x \in Samplers : Len(hand[x]) <= 1
    BY DEF RateType
  <1>2. hand[t] # <<>> /\ hand' = [hand EXCEPT ![t] = <<>>] BY DEF WriteSample, Nothing
  <1>3. hand[t] \in Seq(Nat) /\ Len(hand[t]) = 1 /\ v \in Nat
    <2>1. hand[t] \in Seq(Nat) /\ Len(hand[t]) <= 1 BY <1>1
    <2>2. Len(hand[t]) \in Nat /\ Len(hand[t]) # 0 BY <2>1, <1>2, EmptySeq
    <2>3. Len(hand[t]) = 1
      <3> DEFINE n == Len(hand[t])
      <3>1. n \in Nat /\ n # 0 /\ n <= 1 BY <2>1, <2>2
      <3> HIDE DEF n
      <3>2. n = 1 BY <3>1
      <3> QED BY <3>2 DEF n
    <2>4. v \in Nat BY <2>1, <2>3, ElementOfSeq
    <2> QED BY <2>1, <2>3, <2>4
  <1>4. hand[t] = <<v>> BY <1>3
  <1> HIDE DEF v
  <1>5. Len(recent) <= Len(array) /\ Sampled(v) BY DEF RingInv, WriteSample, v
  <1>6. recent' \in Seq(Nat) /\ gone' \in Nat /\ SumOf(recent') + gone' = SumOf(recent) + gone + v
    BY <1>1, <1>3, <1>5, SampledHistory
  <1>7. array' \in Seq(Nat) /\ index' \in Nat /\ Len(array') = Len(array)
    <2>1. CASE array = <<>> BY <2>1, <1>1 DEF WriteSample
    <2>2. CASE array # <<>>
      <3>1. Len(array) \in Nat \ {0} BY <2>2, <1>1, EmptySeq
      <3>2. index' = NextIndex /\ array' = [array EXCEPT ![(index % Len(array)) + 1] = v]
        BY <2>2 DEF WriteSample, v
      <3>3. (index % Len(array)) + 1 \in 1 .. Len(array) BY <3>1, <1>1
      <3>4. index' \in Nat BY <3>1, <3>2, <1>1 DEF NextIndex
      <3>5. array' \in Seq(Nat) /\ Len(array') = Len(array) BY <3>2, <3>3, <1>1, <1>3, ExceptSeq
      <3> QED BY <3>4, <3>5
    <2> QED BY <2>1, <2>2
  <1>8. hand' \in [Samplers -> Seq(Nat)] /\ \A x \in Samplers : Len(hand'[x]) <= 1
    <2>1. <<>> \in Seq(Nat) /\ Len(<<>>) = 0 OBVIOUS
    <2>2. \A x \in Samplers : hand'[x] = IF x = t THEN <<>> ELSE hand[x] BY <1>1, <1>2
    <2>3. hand' \in [Samplers -> Seq(Nat)] BY <1>1, <1>2, <2>1
    <2> QED BY <1>1, <2>1, <2>2, <2>3
  <1>9. current' = current /\ resetting' = resetting BY DEF WriteSample
  <1>10. RateType' BY <1>1, <1>6, <1>7, <1>8, <1>9 DEF RateType
  <1> QED BY <1>2, <1>3, <1>4, <1>6, <1>7, <1>10 DEF v

LEMMA WriteSampleKeepsRing ==
  ASSUME RateType, RingInv, NEW t \in Samplers, WriteSample(t)
  PROVE  RingInv'
  <1> DEFINE v == hand[t][1]
             w == Len(array)
  <1>1. /\ array \in Seq(Nat) /\ index \in Nat /\ recent \in Seq(Nat) /\ gone \in Nat
        /\ array' \in Seq(Nat) /\ index' \in Nat /\ recent' \in Seq(Nat)
        /\ Len(array') = w /\ v \in Nat
    BY WriteSampleKeepsType DEF RateType
  <1>2. w \in Nat /\ Len(recent) \in Nat /\ Len(recent) <= w BY <1>1, LenProperties DEF RingInv
  <1>3. Sampled(v) BY DEF WriteSample
  <1>4. /\ Len(recent) < w => /\ Len(recent') = Len(recent) + 1
                              /\ \A k \in 1 .. Len(recent) : recent'[k] = recent[k]
                              /\ recent'[Len(recent) + 1] = v
        /\ Len(recent) = w /\ w > 0 => /\ Len(recent') = Len(recent)
                                       /\ \A k \in 1 .. Len(recent) - 1 : recent'[k] = recent[k + 1]
                                       /\ recent'[Len(recent)] = v
                                       /\ SumOf(recent') = SumOf(recent) - recent[1] + v
        /\ w = 0 => recent' = <<>>
    BY <1>1, <1>2, <1>3, SampledHistory
  <1>5. CASE w = 0
    <2>1. array = <<>> BY <1>1, <1>5, EmptySeq
    <2>2. array' = array /\ index' = index BY <2>1 DEF WriteSample
    <2>3. recent' = <<>> /\ Len(recent') = 0 BY <1>4, <1>5
    <2>4. index = 0 BY <1>5 DEF RingInv
    <2> QED BY <2>2, <2>3, <2>4, <1>5 DEF RingInv
  <1>6. CASE w > 0
    <2> DEFINE i == (index % w) + 1
    <2>1. array # <<>> BY <1>6
    <2>2. index' = NextIndex /\ array' = [array EXCEPT ![i] = v] BY <2>1 DEF WriteSample
    <2>3. CASE index < w
      <3>1. i = index + 1 /\ i \in 1 .. w
        <4> HIDE DEF w
        <4>1. index < 2 * w BY <2>3, <1>1, <1>2
        <4>2. index % w = index BY <4>1, <2>3, <1>1, <1>2, <1>6, ModRound
        <4> QED BY <4>2, <2>3, <1>1, <1>2
      <3>2. index' = index + 1 BY <2>2, <2>3, <1>1, <1>2, <1>6 DEF NextIndex
      <3>3. Len(recent) = index /\ \A k \in 1 .. index : recent[k] = array[k] BY <2>3 DEF RingInv
      <3>4. \A k \in 1 .. w : array'[k] = IF k = i THEN v ELSE array[k]
        <4> HIDE DEF v, i
        <4> QED BY <3>1, <2>2, <1>1, ExceptSeq
      <3> HIDE DEF i, v
      <3>5. Len(recent') = index + 1 /\ \A k \in 1 .. index + 1 : recent'[k] = array'[k]
        <4>1. /\ Len(recent') = index + 1
              /\ \A k \in 1 .. index : recent'[k] = array[k]
              /\ recent'[index + 1] = v
          BY <1>4, <3>3, <2>3
        <4>2. ASSUME NEW k \in 1 .. index + 1 PROVE recent'[k] = array'[k]
          <5>1. k \in 1 .. w BY <3>1, <1>1, <1>2
          <5>2. CASE k = index + 1 BY <4>1, <5>1, <5>2, <3>1, <3>4
          <5>3. CASE k \in 1 .. index BY <4>1, <5>1, <5>3, <3>1, <3>3, <3>4, <1>1
          <5> QED BY <5>2, <5>3, <1>1
        <4> QED BY <4>1, <4>2
      <3>6. CASE index + 1 < w BY <3>2, <3>5, <3>6, <1>1, <1>2 DEF RingInv
      <3>7. CASE index + 1 = w
        <4>1. recent' = array' BY <3>5, <3>7, <1>1, SeqEqual
        <4>3. Len(array') = w /\ index' = w BY <3>2, <3>7, <1>1
        <4>2. \A k \in 1 .. w : Place(k)' = k
          <5> HIDE DEF w
          <5>1. \A k \in 1 .. w : Place(k)' = IF w - w + k <= w THEN w - w + k ELSE w - 2 * w + k
            BY <4>3 DEF Place
          <5> QED BY <5>1, <1>2
        <4> QED BY <3>2, <3>5, <3>7, <4>1, <4>2, <1>1, <1>2, <1>6 DEF RingInv
      <3> QED BY <2>3, <3>6, <3>7, <1>1, <1>2
    <2>4. CASE index >= w
      <3> DEFINE p == index - w
      <3>1. /\ index <= 2 * w - 1 /\ Len(recent) = w
            /\ \A k \in 1 .. w : recent[k] = array[Place(k)]
            /\ SumOf(array) = SumOf(recent)
        BY <2>4, <1>6 DEF RingInv
      <3>2. p \in 0 .. w - 1 /\ index = w + p BY <3>1, <2>4, <1>1, <1>2
      <3>3. i = p + 1 /\ i \in 1 .. w
        <4> HIDE DEF w
        <4>1. index < 2 * w BY <3>1, <1>1, <1>2
        <4>2. index % w = IF index < w THEN index ELSE index - w
          BY <4>1, <1>1, <1>2, <1>6, ModRound
        <4> QED BY <4>2, <2>4, <3>2, <1>1, <1>2
      <3>4. /\ \A k \in 1 .. w : array'[k] = IF k = i THEN v ELSE array[k]
            /\ SumOf(array') = SumOf(array) - array[i] + v
        <4> HIDE DEF v, i
        <4>1. \A k \in 1 .. w : array'[k] = IF k = i THEN v ELSE array[k]
          BY <3>3, <2>2, <1>1, ExceptSeq
        <4>2. array \in Seq(Int) /\ v \in Int BY <1>1, NatsAreInts
        <4> QED BY <4>1, <4>2, <3>3, <2>2, SumExcept
      <3>5. index' = IF p = w - 1 THEN w ELSE index + 1 BY <2>2, <3>2, <1>2 DEF NextIndex
      <3> HIDE DEF i, v, p
      <3>6. \A k \in 1 .. w : Place(k) = IF p + k <= w THEN p + k ELSE p + k - w
        BY <3>2, <1>2 DEF Place
      <3>7. \A k \in 1 .. w : Place(k)' = IF p = w - 1 THEN k
                              ELSE IF p + 1 + k <= w THEN p + 1 + k ELSE p + 1 + k - w
        <4>1. Len(array') = w BY <1>1
        <4> HIDE DEF w
        <4>2. \A k \in 1 .. w : Place(k)' = IF index' - w + k <= w THEN index' - w + k ELSE index' - 2 * w + k
          BY <4>1 DEF Place
        <4> QED BY <4>2, <3>2, <3>5, <1>2
      <3>8. ASSUME NEW k \in 1 .. w PROVE recent'[k] = array'[Place(k)']
        <4>1. CASE k = w
          <5>1. Place(k)' = i BY <4>1, <3>2, <3>3, <3>7, <1>2
          <5>2. recent'[k] = v BY <4>1, <3>1, <1>4, <1>6
          <5> QED BY <5>1, <5>2, <3>3, <3>4
        <4>2. CASE k < w
          <5>1. k \in 1 .. w - 1 /\ k + 1 \in 1 .. w BY <4>2, <1>2
          <5>2. recent'[k] = array[Place(k + 1)] BY <5>1, <3>1, <1>4, <1>6
          <5>3. Place(k)' = Place(k + 1) /\ Place(k + 1) # i /\ Place(k + 1) \in 1 .. w
            <6> DEFINE q == Place(k)'
                       r == Place(k + 1)
            <6>1. r = IF p + (k + 1) <= w THEN p + (k + 1) ELSE p + (k + 1) - w BY <5>1, <3>6
            <6>2. q = IF p = w - 1 THEN k ELSE IF p + 1 + k <= w THEN p + 1 + k ELSE p + 1 + k - w
              BY <5>1, <3>7
            <6> HIDE DEF q, r, w
            <6>3. q = r /\ r # i /\ r \in 1 .. w BY <5>1, <6>1, <6>2, <3>2, <3>3, <1>2
            <6> QED BY <6>3 DEF q, r
          <5>4. array'[Place(k + 1)] = array[Place(k + 1)] BY <5>3, <3>4, Zenon
          <5> QED BY <5>2, <5>3, <5>4, Zenon
        <4> QED BY <4>1, <4>2, <1>2
      <3>9. Len(recent') = w BY <3>1, <1>4, <1>6
      <3>10. SumOf(array') = SumOf(recent')
        <4>1. 1 \in 1 .. w BY <1>2, <1>6
        <4>2. Place(1) = i BY <4>1, <3>2, <3>3, <3>6
        <4>3. recent[1] = array[i] BY <4>1, <4>2, <3>1
        <4>4. SumOf(recent') = SumOf(recent) - recent[1] + v BY <3>1, <1>4, <1>6
        <4> QED BY <4>3, <4>4, <3>1, <3>4
      <3>11. index' >= w /\ index' <= 2 * w - 1 BY <3>2, <3>5, <1>2
      <3>12. Len(array') = w BY <1>1
      <3>13. \A k \in 1 .. Len(array') : recent'[k] = array'[Place(k)'] BY <3>8, <3>12
      <3> HIDE DEF w
      <3>14. /\ Len(recent') <= Len(array')
             /\ Len(array') # 0
             /\ ~(index' < Len(array'))
             /\ index' <= 2 * Len(array') - 1
             /\ Len(recent') = Len(array')
        BY <3>9, <3>11, <3>12, <1>1, <1>2, <1>6
      <3> QED BY <3>10, <3>13, <3>14 DEF RingInv
    <2> QED BY <2>3, <2>4, <1>1, <1>2
  <1> QED BY <1>2, <1>5, <1>6

(* The samples in the threads' hands. *)
LEMMA InHandsTotal == InHands = Total(Held, Samplers) /\ InHands' = Total(Held', Samplers)
  BY DEF InHands

LEMMA HeldType == ASSUME RateType PROVE Held \in [Samplers -> Int] /\ InHands \in Int
  <1>1. \A t \in Samplers : SumOf(hand[t]) \in Int
    <2> TAKE t \in Samplers
    <2>1. hand[t] \in Seq(Int) BY NatsAreInts DEF RateType
    <2> QED BY <2>1, SumIsInt
  <1>2. Held \in [Samplers -> Int] BY <1>1 DEF Held
  <1>3. PICK g : Totals(Held, Samplers, g) BY <1>2, RateAssumption, TotalsExist
  <1>4. InHands = g[Samplers] BY <1>2, <1>3, RateAssumption, TotalIs, InHandsTotal
  <1> QED BY <1>2, <1>3, <1>4 DEF Totals

LEMMA HandChanges ==
  ASSUME RateType, NEW t \in Samplers, NEW s \in Seq(Nat), hand' = [hand EXCEPT ![t] = s]
  PROVE  InHands' = InHands - SumOf(hand[t]) + SumOf(s)
  <1> DEFINE v == SumOf(s)
             new == Held'
  <1>1. Held \in [Samplers -> Int] BY HeldType
  <1>2. v \in Int BY NatsAreInts, SumIsInt
  <1>3. \A x \in Samplers : new[x] = IF x = t THEN v ELSE Held[x]
    <2>1. hand \in [Samplers -> Seq(Nat)] BY DEF RateType
    <2>2. \A x \in Samplers : hand'[x] = IF x = t THEN s ELSE hand[x] BY <2>1
    <2> QED BY <2>2 DEF Held
  <1>4. new \in [Samplers -> Int]
    <2>1. new = [x \in Samplers |-> SumOf(hand'[x])] BY DEF Held
    <2>2. \A x \in Samplers : new[x] \in Int
      <3> HIDE DEF new, v
      <3> QED BY <1>1, <1>2, <1>3
    <2>3. \A x \in Samplers : SumOf(hand'[x]) \in Int BY <2>1, <2>2
    <2> QED BY <2>1, <2>3
  <1> HIDE DEF v, new
  <1>5. Total(new, Samplers) = Total(Held, Samplers) - Held[t] + v
    BY SMTT(30), <1>1, <1>2, <1>3, <1>4, RateAssumption, TotalExcept
  <1>6. Held[t] = SumOf(hand[t]) BY DEF Held
  <1> QED BY <1>5, <1>6, InHandsTotal DEF v, new

LEMMA HandsUnchanged == ASSUME UNCHANGED hand PROVE InHands' = InHands
  <1>1. Held' = Held BY DEF Held
  <1> QED BY <1>1, InHandsTotal

(* Where the bytes of the statistics are. *)
Counted == current + InHands + SumOf(recent) + gone

LEMMA RateInitial == ASSUME RateInit PROVE RateType /\ RingInv /\ Counted = 0
  <1>1. PICK window \in Windows : array = [i \in 1 .. window |-> 0] BY DEF RateInit
  <1>2. window \in Nat BY RateAssumption
  <1>3. array \in Seq(Nat) /\ Len(array) = window BY <1>1, <1>2
  <1>4. /\ current = 0 /\ index = 0 /\ recent = <<>> /\ gone = 0 /\ resetting = FALSE
        /\ hand = [t \in Samplers |-> <<>>] BY DEF RateInit, Nothing
  <1>5. <<>> \in Seq(Nat) /\ Len(<<>>) = 0 OBVIOUS
  <1>6. RateType
    <2>1. hand \in [Samplers -> Seq(Nat)] /\ \A t \in Samplers : Len(hand[t]) <= 1 BY <1>4, <1>5
    <2> QED BY <2>1, <1>3, <1>4, <1>5 DEF RateType
  <1>7. RingInv BY <1>2, <1>3, <1>4, <1>5 DEF RingInv
  <1>8. InHands = 0
    <2> DEFINE g == [T \in SUBSET Samplers |-> 0]
    <2>1. \A t \in Samplers : Held[t] = 0 BY <1>4, SumEmpty DEF Held
    <2>2. Totals(Held, Samplers, g) BY <2>1 DEF Totals
    <2>3. g[Samplers] = 0 OBVIOUS
    <2> HIDE DEF g
    <2>4. Held \in [Samplers -> Int] BY <1>6, HeldType
    <2>5. Total(Held, Samplers) = g[Samplers] BY <2>2, <2>4, RateAssumption, TotalIs
    <2> QED BY <2>3, <2>5, InHandsTotal
  <1>9. Counted = 0 BY <1>4, <1>8, SumEmpty DEF Counted
  <1> QED BY <1>6, <1>7, <1>9

LEMMA CountedInt == ASSUME RateType PROVE SumOf(recent) \in Nat /\ InHands \in Int /\ Counted \in Int
  <1>1. SumOf(recent) \in Nat BY SumIsNat DEF RateType
  <1> QED BY <1>1, HeldType DEF RateType, Counted

LEMMA SampleMoves ==
  ASSUME NEW counter \in Int, NEW v \in Int, NEW hands \in Int, NEW hands1 \in Int, NEW sum \in Int,
         NEW sum1 \in Int, NEW lost \in Int, NEW lost1 \in Int,
         sum1 + lost1 = sum + lost + v, hands1 = hands - v
  PROVE  counter + hands1 + sum1 + lost1 = counter + hands + sum + lost
  OBVIOUS

LEMMA TickingKeeps ==
  ASSUME RateType, RingInv, Ticking
  PROVE  RateType' /\ RingInv' /\ Counted' = Counted
  <1>1. /\ current \in Nat /\ array \in Seq(Nat) /\ index \in Nat /\ hand \in [Samplers -> Seq(Nat)]
        /\ resetting \in BOOLEAN /\ recent \in Seq(Nat) /\ gone \in Nat
        /\ \A x \in Samplers : Len(hand[x]) <= 1
    BY DEF RateType
  <1>2. SumOf(recent) \in Nat /\ InHands \in Int BY CountedInt
  <1>3. ASSUME NEW t \in Samplers, Collect(t) PROVE RateType' /\ RingInv' /\ Counted' = Counted
    <2>1. /\ hand[t] = <<>> /\ hand' = [hand EXCEPT ![t] = <<current>>] /\ current' = 0
          /\ UNCHANGED <<array, index, resetting, recent, gone>> BY <1>3 DEF Collect, Nothing
    <2>2. <<current>> \in Seq(Nat) /\ Len(<<current>>) = 1 BY <1>1
    <2>3. InHands' = InHands - SumOf(<<>>) + SumOf(<<current>>) BY <2>1, <2>2, HandChanges
    <2>4. SumOf(<<>>) = 0 /\ SumOf(<<current>>) = current BY <1>1, SumEmpty, SumSingle
    <2>5. Counted' = Counted BY <2>1, <2>3, <2>4, <1>1, <1>2 DEF Counted
    <2>6. hand' \in [Samplers -> Seq(Nat)] /\ \A x \in Samplers : Len(hand'[x]) <= 1
      <3>1. \A x \in Samplers : hand'[x] = IF x = t THEN <<current>> ELSE hand[x] BY <2>1, <1>1
      <3> QED BY <3>1, <2>1, <2>2, <1>1
    <2>7. RateType' BY <2>1, <2>6, <1>1 DEF RateType
    <2>8. RingInv' BY <2>1 DEF RingInv, Place
    <2> QED BY <2>5, <2>7, <2>8
  <1>4. ASSUME NEW t \in Samplers, WriteSample(t) PROVE RateType' /\ RingInv' /\ Counted' = Counted
    <2>1. /\ RateType' /\ hand[t] = <<hand[t][1]>> /\ hand[t][1] \in Nat
          /\ hand' = [hand EXCEPT ![t] = <<>>]
          /\ SumOf(recent') + gone' = SumOf(recent) + gone + hand[t][1]
      BY <1>4, WriteSampleKeepsType
    <2>2. <<>> \in Seq(Nat) OBVIOUS
    <2>3. InHands' = InHands - SumOf(hand[t]) + SumOf(<<>>) BY <2>1, <2>2, HandChanges
    <2>4. SumOf(<<>>) = 0 /\ SumOf(hand[t]) = hand[t][1]
      <3> DEFINE v == hand[t][1]
      <3>1. hand[t] = <<v>> /\ v \in Nat BY <2>1
      <3> HIDE DEF v
      <3>2. SumOf(<<v>>) = v BY <3>1, SumSingle
      <3> QED BY <3>1, <3>2, SumEmpty DEF v
    <2>5. current' = current BY <1>4 DEF WriteSample
    <2>6. SumOf(recent') \in Nat /\ gone' \in Nat BY <2>1, SumIsNat DEF RateType
    <2>7. Counted' = Counted
      <3> DEFINE v == hand[t][1]
                 sum == SumOf(recent)
                 sum1 == SumOf(recent')
                 hands1 == InHands'
                 lost1 == gone'
      <3>1. sum1 + lost1 = sum + gone + v /\ hands1 = InHands - v BY <2>1, <2>3, <2>4, <1>2
      <3>2. sum1 \in Int /\ sum \in Int /\ v \in Int /\ lost1 \in Int
        BY <2>1, <2>6, <1>2
      <3>3. Counted' = current + hands1 + sum1 + lost1 BY <2>5 DEF Counted
      <3>4. Counted = current + InHands + sum + gone BY DEF Counted
      <3>5. current \in Int /\ gone \in Int /\ InHands \in Int BY <1>1, <1>2
      <3> HIDE DEF v, sum, sum1, hands1, lost1
      <3>6. hands1 \in Int BY <3>1, <3>2, <3>5
      <3>7. current + hands1 + sum1 + lost1 = current + InHands + sum + gone
        BY <3>1, <3>2, <3>5, <3>6, SampleMoves
      <3> QED BY <3>3, <3>4, <3>7
    <2>8. RingInv' BY <1>4, WriteSampleKeepsRing
    <2> QED BY <2>1, <2>7, <2>8
  <1>5. ASSUME ResetCounter PROVE RateType' /\ RingInv' /\ Counted' = Counted
    <2>1. /\ resetting' = TRUE /\ current' = 0 /\ gone' = gone + current
          /\ UNCHANGED <<array, index, hand, recent>> BY <1>5 DEF ResetCounter
    <2>2. InHands' = InHands BY <2>1, HandsUnchanged
    <2>3. RateType' BY <2>1, <1>1 DEF RateType
    <2>4. RingInv' BY <2>1 DEF RingInv, Place
    <2>5. Counted' = Counted BY <2>1, <2>2, <1>1, <1>2 DEF Counted
    <2> QED BY <2>3, <2>4, <2>5
  <1>6. ASSUME ResetArray PROVE RateType' /\ RingInv' /\ Counted' = Counted
    <2>1. /\ resetting' = FALSE /\ index' = 0 /\ array' = [i \in DOMAIN array |-> 0]
          /\ recent' = <<>> /\ gone' = gone + SumOf(recent)
          /\ UNCHANGED <<current, hand>> BY <1>6 DEF ResetArray
    <2>2. InHands' = InHands BY <2>1, HandsUnchanged
    <2>3. array' \in Seq(Nat) /\ Len(array') = Len(array) /\ Len(array) \in Nat
      <3>1. array' = [i \in 1 .. Len(array) |-> 0] /\ Len(array) \in Nat BY <2>1, <1>1, LenProperties
      <3> QED BY <3>1
    <2>4. RateType'
      <3>1. gone' \in Nat /\ recent' \in Seq(Nat) /\ index' \in Nat BY <2>1, <1>1, <1>2
      <3> QED BY <3>1, <2>1, <2>3, <1>1 DEF RateType
    <2>5. recent' = <<>> /\ Len(<<>>) = 0 BY <2>1
    <2>6. RingInv' BY <2>1, <2>3, <2>5 DEF RingInv
    <2>7. Counted' = Counted BY <2>1, <2>2, <1>1, <1>2, SumEmpty DEF Counted
    <2> QED BY <2>4, <2>6, <2>7
  <1> QED BY <1>3, <1>4, <1>5, <1>6 DEF Ticking

LEMMA AppendKeeps ==
  ASSUME RateType, RingInv, NEW n \in Nat, append(n)
  PROVE  RateType' /\ RingInv' /\ Counted' = Counted + n
  <1>1. current' = current + n /\ UNCHANGED <<array, index, hand, resetting, recent, gone>>
    BY DEF append
  <1>2. RateType' BY <1>1 DEF RateType
  <1>3. RingInv' BY <1>1 DEF RingInv, Place
  <1>4. InHands' = InHands BY <1>1, HandsUnchanged
  <1>5. SumOf(recent) \in Nat /\ InHands \in Int /\ gone \in Nat /\ current \in Nat
    BY CountedInt DEF RateType
  <1>6. Counted' = Counted + n BY <1>1, <1>4, <1>5 DEF Counted
  <1> QED BY <1>2, <1>3, <1>6

LEMMA RateUnchanged ==
  ASSUME RateType, RingInv, UNCHANGED rateVars
  PROVE  RateType' /\ RingInv' /\ Counted' = Counted
  <1>1. UNCHANGED <<current, array, index, hand, resetting, recent, gone>> BY DEF rateVars
  <1>2. InHands' = InHands BY <1>1, HandsUnchanged
  <1>3. RateType' BY <1>1 DEF RateType
  <1>4. RingInv' BY <1>1 DEF RingInv, Place
  <1> QED BY <1>1, <1>2, <1>3, <1>4 DEF Counted

LEMMA AverageFromRing == ASSUME RateType, RingInv PROVE AverageOfRecent
  <1> DEFINE w == Len(array)
             slice == SubSeq(array, 1, Min({Len(array), index}))
  <1>1. /\ array \in Seq(Nat) /\ index \in Nat /\ recent \in Seq(Nat)
        /\ w \in Nat /\ Len(recent) \in Nat
    BY LenProperties DEF RateType
  <1>2. Min({Len(array), index}) = IF w <= index THEN w ELSE index BY <1>1, MinOfTwo
  <1>3. CASE w = 0
    <2>1. slice = <<>> /\ recent = <<>>
      BY <1>1, <1>2, <1>3, SubSeqEmpty, EmptySeq DEF RingInv
    <2> QED BY <2>1 DEF AverageOfRecent, get_avg
  <1>4. CASE w > 0 /\ index < w
    <2>1. Len(recent) = index /\ \A k \in 1 .. index : recent[k] = array[k] BY <1>4 DEF RingInv
    <2>2. slice = SubSeq(array, 1, index)
      <3> DEFINE m == Min({Len(array), index})
      <3>1. m = index BY <1>1, <1>2, <1>4
      <3> HIDE DEF m
      <3> QED BY <3>1 DEF m
    <2>3. \A k \in 1 .. index : array[k] \in Nat BY <1>1, <1>4, ElementOfSeq
    <2>4. slice \in Seq(Nat) /\ Len(slice) = index /\ \A k \in 1 .. index : slice[k] = array[k]
      <3> DEFINE part == SubSeq(array, 1, index)
      <3>1. /\ part \in Seq(Nat)
            /\ Len(part) = IF 1 <= index THEN index - 1 + 1 ELSE 0
            /\ \A k \in 1 .. index - 1 + 1 : part[k] = array[1 + k - 1]
        BY <1>1, <2>3, SubSeqProperties
      <3> HIDE DEF part
      <3>2. Len(part) = index /\ \A k \in 1 .. index : part[k] = array[k] BY <3>1, <1>1
      <3> QED BY <3>1, <3>2, <2>2 DEF part
    <2>5. slice = recent
      <3> HIDE DEF slice
      <3> QED BY <1>1, <2>1, <2>4, SeqEqual
    <2> QED BY <2>5 DEF AverageOfRecent, get_avg
  <1>5. CASE w > 0 /\ index >= w
    <2>1. slice = array BY <1>1, <1>2, <1>5, SubSeqFull
    <2>2. Len(recent) = w /\ SumOf(array) = SumOf(recent) BY <1>5 DEF RingInv
    <2>3. array # <<>> /\ recent # <<>> BY <2>2, <1>5
    <2>4. get_avg = SumOf(array) \div Len(array) BY <2>1, <2>3, Zenon DEF get_avg
    <2> QED BY <2>2, <2>3, <2>4 DEF AverageOfRecent
  <1> QED BY <1>1, <1>3, <1>4, <1>5

--------------------------------------------------------------------------------
(* The file and the chunk. *)
Places == {"lend", "read", "append", "update", "finish", "done"}
Reading == {"read", "append", "update"}

ReadType == /\ file \in Seq(Nat) /\ pos \in 0 .. Len(file)
            /\ min_size \in Nat
            /\ at \in Places
            /\ chunk \in [array : Seq(Nat), length : Nat]
            /\ chunk.length <= Len(chunk.array)
            /\ result \in {"full", "end", "error"}
            /\ state \in Files
            /\ chunks \in BOOLEAN

(* The chunk holds the last bytes read, and the finder has seen those before. *)
PathInv == /\ ReadType
           /\ at \in Reading => /\ chunk.length <= pos
                                /\ \A j \in 1 .. chunk.length :
                                      chunk.array[j] = file[pos - chunk.length + j]
           /\ state.total = IF at \in Reading THEN pos - chunk.length ELSE pos
           /\ FinderInv(state, file, min_size)
           /\ at = "done" => (chunks <=> HasZeroChunk(state, min_size))

LEMMA PathTypes ==
  ASSUME PathInv
  PROVE  /\ file \in Seq(Nat) /\ Len(file) \in Nat /\ pos \in Nat /\ pos <= Len(file) /\ min_size \in Nat
         /\ chunk = [array |-> chunk.array, length |-> chunk.length]
         /\ chunk.array \in Seq(Nat) /\ Len(chunk.array) \in Nat
         /\ chunk.length \in Nat /\ chunk.length <= Len(chunk.array)
         /\ state \in Files /\ state.total \in Nat
  <1>1. /\ file \in Seq(Nat) /\ Len(file) \in Nat /\ pos \in Nat /\ pos <= Len(file) /\ min_size \in Nat
    BY LenProperties DEF PathInv, ReadType
  <1>2. /\ chunk = [array |-> chunk.array, length |-> chunk.length]
        /\ chunk.array \in Seq(Nat)
        /\ chunk.length \in Nat /\ chunk.length <= Len(chunk.array)
    BY DEF PathInv, ReadType
  <1>3. Len(chunk.array) \in Nat BY <1>2, LenProperties
  <1>4. state \in Files /\ state.total \in Nat BY DEF PathInv, ReadType, Files
  <1> QED BY <1>1, <1>2, <1>3, <1>4

LEMMA PathInitial == ASSUME ReadPathInit PROVE PathInv
  <1>1. /\ file \in Contents /\ pos = 0 /\ min_size \in MinSizes /\ at = "lend" /\ result = "full"
        /\ state = start_file /\ chunks = FALSE
    BY DEF ReadPathInit
  <1>2. PICK array0 \in {<<>>, [i \in 1 .. ChunkSize |-> 0]} : chunk = [array |-> array0, length |-> 0]
    BY DEF ReadPathInit
  <1>3. file \in Seq(Nat) /\ min_size \in Nat /\ ChunkSize \in Nat BY <1>1, ReadPathAssumption
  <1>4. array0 \in Seq(Nat)
    <2>1. <<>> \in Seq(Nat) OBVIOUS
    <2>2. [i \in 1 .. ChunkSize |-> 0] \in Seq(Nat) BY <1>3
    <2> QED BY <2>1, <2>2
  <1>5. Len(array0) \in Nat /\ Len(file) \in Nat BY <1>3, <1>4, LenProperties
  <1>6. /\ chunk \in [array : Seq(Nat), length : Nat] /\ chunk.length <= Len(chunk.array)
    BY <1>2, <1>4, <1>5
  <1>7. state.total = 0 /\ state.start = <<>> /\ state.found = FALSE /\ state \in Files
    BY <1>1 DEF start_file, Files
  <1>8. ReadType
    <2>1. pos \in 0 .. Len(file) BY <1>1, <1>5
    <2>2. at \in Places /\ result \in {"full", "end", "error"} /\ chunks \in BOOLEAN
      BY <1>1 DEF Places
    <2> QED BY <2>1, <2>2, <1>3, <1>6, <1>7 DEF ReadType
  <1>9. FinderInv(state, file, min_size)
    <2> DEFINE mm == Max({1, min_size})
    <2>1. mm \in Nat /\ mm >= 1 BY <1>3, MaxOfTwo
    <2> HIDE DEF mm
    <2>2. ~RunIn(file, 0, mm) BY <2>1 DEF RunIn
    <2> QED BY <2>2, <1>5, <1>7 DEF FinderInv, mm
  <1> QED BY <1>1, <1>7, <1>8, <1>9 DEF PathInv, Reading

LEMMA LendKeeps == ASSUME PathInv, Lend PROVE PathInv'
  <1> DEFINE new == IF Len(chunk.array) < ChunkSize THEN [i \in 1 .. ChunkSize |-> 0] ELSE chunk.array
  <1>1. /\ at = "lend" /\ at' = "read" /\ chunk' = [length |-> 0, array |-> new]
        /\ UNCHANGED <<file, pos, min_size, result, state, chunks>>
    BY DEF Lend
  <1>2. new \in Seq(Nat)
    <2>1. chunk.array \in Seq(Nat) /\ ChunkSize \in Nat BY PathTypes, ReadPathAssumption
    <2>2. [i \in 1 .. ChunkSize |-> 0] \in Seq(Nat) BY <2>1
    <2> QED BY <2>1, <2>2
  <1> HIDE DEF new
  <1>3. Len(new) \in Nat BY <1>2, LenProperties
  <1>4. chunk' \in [array : Seq(Nat), length : Nat] /\ chunk'.length = 0 /\ chunk'.array = new
    BY <1>1, <1>2
  <1>5. ReadType' BY <1>1, <1>3, <1>4 DEF PathInv, ReadType, Places
  <1>6. state'.total = pos' - chunk'.length BY <1>1, <1>4, PathTypes DEF PathInv, Reading
  <1>7. FinderInv(state', file', min_size') BY <1>1 DEF PathInv
  <1> QED BY <1>1, <1>4, <1>5, <1>6, <1>7, PathTypes DEF PathInv, Reading

LEMMA ReadSomeKeeps == ASSUME PathInv, ReadSome PROVE PathInv'
  <1> DEFINE len == chunk.length
             room == Len(chunk.array) - len
             left == Len(file) - pos
  <1>1. PICK n \in 1 .. Min({room, left}) :
           /\ chunk' = [length |-> len + n,
                        array |-> Content \o SubSeq(file, pos + 1, pos + n)
                                  \o SubSeq(chunk.array, len + n + 1, Len(chunk.array))]
           /\ pos' = pos + n
    BY DEF ReadSome
  <1>2. at = "read" /\ UNCHANGED <<file, min_size, at, result, state, chunks>> BY DEF ReadSome
  <1>3. /\ file \in Seq(Nat) /\ Len(file) \in Nat /\ pos \in Nat /\ pos <= Len(file)
        /\ chunk.array \in Seq(Nat) /\ Len(chunk.array) \in Nat
        /\ len \in Nat /\ len <= Len(chunk.array)
    BY PathTypes
  <1>4. n \in Nat /\ n >= 1 /\ len + n <= Len(chunk.array) /\ pos + n <= Len(file)
    <2>1. room \in Int /\ left \in Int BY <1>3
    <2> HIDE DEF room, left
    <2>2. Min({room, left}) \in Int /\ Min({room, left}) <= room /\ Min({room, left}) <= left
      BY <2>1, MinOfTwo
    <2>3. n \in Nat /\ n >= 1 /\ n <= room /\ n <= left BY <2>1, <2>2
    <2> QED BY <2>3, <1>3 DEF room, left
  <1> DEFINE old == Content
             read == SubSeq(file, pos + 1, pos + n)
             rest == SubSeq(chunk.array, len + n + 1, Len(chunk.array))
             all == (old \o read) \o rest
  <1>5. old \in Seq(Nat) /\ Len(old) = len /\ \A j \in 1 .. len : old[j] = chunk.array[j]
    <2>1. \A j \in 1 .. len : chunk.array[j] \in Nat BY <1>3, ElementOfSeq
    <2>2. old = SubSeq(chunk.array, 1, len) BY DEF Content
    <2> HIDE DEF old, len
    <2> QED BY <2>1, <2>2, <1>3
  <1>6. read \in Seq(Nat) /\ Len(read) = n /\ \A j \in 1 .. n : read[j] = file[pos + j]
    <2>1. \A j \in pos + 1 .. pos + n : file[j] \in Nat BY SMTT(30), <1>3, <1>4, ElementOfSeq
    <2> QED BY SMTT(30), <2>1, <1>3, <1>4
  <1>7. rest \in Seq(Nat) /\ Len(rest) = Len(chunk.array) - (len + n)
    <2> DEFINE arr == chunk.array
               from == len + n + 1
               to == Len(arr)
    <2>1. arr \in Seq(Nat) /\ to \in Nat /\ from \in Nat /\ from >= 1 /\ from <= to + 1
      <3>1. len \in Nat /\ n \in Nat /\ to \in Nat /\ len + n <= to BY <1>3, <1>4
      <3> HIDE DEF len, to
      <3>2. from \in Nat /\ from >= 1 /\ from <= to + 1 BY <3>1
      <3> QED BY <3>1, <3>2, <1>3
    <2>2. rest = SubSeq(arr, from, to) OBVIOUS
    <2>3. to - from + 1 = Len(arr) - (len + n) BY <1>3, <1>4
    <2>4. \A j \in 1 .. to : arr[j] \in Nat BY <1>3, ElementOfSeq
    <2> HIDE DEF arr, from, to, rest
    <2>5. \A j \in from .. to : arr[j] \in Nat BY <2>1, <2>4
    <2>6. SubSeq(arr, from, to) \in Seq(Nat)
          /\ Len(SubSeq(arr, from, to)) = IF from <= to THEN to - from + 1 ELSE 0
      BY <2>1, <2>5, SubSeqProperties
    <2>7. Len(rest) = to - from + 1 BY <2>1, <2>2, <2>6
    <2> QED BY <2>2, <2>3, <2>6, <2>7 DEF arr
  <1> HIDE DEF old, read, rest, len
  <1>8. /\ old \o read \in Seq(Nat) /\ Len(old \o read) = len + n
        /\ \A j \in 1 .. len + n : (old \o read)[j] = IF j <= len THEN old[j] ELSE read[j - len]
    <2>1. /\ old \o read \in Seq(Nat)
          /\ Len(old \o read) = Len(old) + Len(read)
          /\ \A j \in 1 .. Len(old) + Len(read) :
                (old \o read)[j] = IF j <= Len(old) THEN old[j] ELSE read[j - Len(old)]
      BY <1>5, <1>6, ConcatProperties
    <2> QED BY <2>1, <1>5, <1>6
  <1> DEFINE start == old \o read
  <1> HIDE DEF start
  <1>9. /\ start \o rest \in Seq(Nat) /\ Len(start \o rest) = Len(chunk.array)
        /\ \A j \in 1 .. len + n : (start \o rest)[j] = start[j]
    <2>1. start \in Seq(Nat) /\ Len(start) = len + n BY <1>8 DEF start
    <2>2. /\ start \o rest \in Seq(Nat)
          /\ Len(start \o rest) = Len(start) + Len(rest)
          /\ \A j \in 1 .. Len(start) + Len(rest) :
                (start \o rest)[j] = IF j <= Len(start) THEN start[j] ELSE rest[j - Len(start)]
      BY <2>1, <1>7, ConcatProperties
    <2> DEFINE size == Len(chunk.array)
    <2>3. size \in Nat /\ len + n <= size /\ Len(rest) = size - (len + n) BY <1>3, <1>4, <1>7
    <2>4. len \in Nat /\ n \in Nat BY <1>3, <1>4
    <2> HIDE DEF size
    <2>5. Len(start) + Len(rest) = size BY <2>1, <2>3, <2>4
    <2>6. \A j \in 1 .. len + n : j \in 1 .. size /\ j <= Len(start) BY <2>1, <2>3, <2>4
    <2> QED BY <2>2, <2>5, <2>6 DEF size
  <1>10. chunk'.array = start \o rest /\ chunk'.length = len + n
         /\ chunk' \in [array : Seq(Nat), length : Nat]
    <2>1. chunk' = [length |-> len + n, array |-> start \o rest] BY <1>1 DEF start, old, read, rest, len
    <2>2. len + n \in Nat BY <1>3, <1>4
    <2> QED BY <2>1, <2>2, <1>9
  <1>11. pos' = pos + n /\ pos' \in 0 .. Len(file') BY <1>1, <1>2, <1>3, <1>4
  <1>12. ReadType' BY <1>2, <1>3, <1>4, <1>9, <1>10, <1>11 DEF PathInv, ReadType
  <1>13. len <= pos /\ \A j \in 1 .. len : chunk.array[j] = file[pos - len + j]
    BY <1>2 DEF PathInv, Reading, len
  <1>14. ASSUME NEW j \in 1 .. len + n PROVE chunk'.array[j] = file'[pos' - chunk'.length + j]
    <2>1. pos' - chunk'.length + j = pos - len + j BY <1>10, <1>11, <1>3, <1>4
    <2>2. chunk'.array[j] = IF j <= len THEN old[j] ELSE read[j - len] BY <1>8, <1>9, <1>10 DEF start
    <2>3. CASE j <= len
      <3>1. j \in 1 .. len BY <2>3, <1>3
      <3> QED BY <3>1, <2>1, <2>2, <2>3, <1>2, <1>5, <1>13
    <2>4. CASE ~(j <= len)
      <3>1. j - len \in 1 .. n /\ pos + (j - len) = pos - len + j BY <2>4, <1>3, <1>4
      <3>2. read[j - len] = file[pos + (j - len)] BY <3>1, <1>6
      <3> QED BY <3>1, <3>2, <2>1, <2>2, <2>4, <1>2
    <2> QED BY <2>3, <2>4
  <1>15. chunk'.length <= pos' /\ \A j \in 1 .. chunk'.length : chunk'.array[j] = file'[pos' - chunk'.length + j]
    <2>1. len \in Nat /\ n \in Nat /\ pos \in Nat BY <1>3, <1>4
    <2>2. len + n <= pos + n BY <2>1, <1>13
    <2> QED BY <2>2, <1>10, <1>11, <1>14
  <1>16. state'.total = pos' - chunk'.length
    <2>1. state.total = pos - len BY <1>2 DEF PathInv, Reading, len
    <2> QED BY <2>1, <1>2, <1>3, <1>4, <1>10, <1>11
  <1>17. FinderInv(state', file', min_size') BY <1>2 DEF PathInv
  <1> QED BY <1>2, <1>12, <1>15, <1>16, <1>17 DEF PathInv, Reading

LEMMA ReadReturnsKeeps == ASSUME PathInv, ReadReturns PROVE PathInv'
  <1>1. /\ at = "read" /\ at' = "append" /\ result' \in {"full", "end", "error"}
        /\ UNCHANGED <<file, pos, min_size, chunk, state, chunks>>
    BY DEF ReadReturns
  <1>2. ReadType' BY <1>1 DEF PathInv, ReadType, Places
  <1> QED BY <1>1, <1>2 DEF PathInv, Reading

LEMMA AppendStatsKeeps == ASSUME PathInv, AppendStats PROVE PathInv'
  <1>1. /\ at = "append" /\ at' = "update"
        /\ UNCHANGED <<file, pos, min_size, chunk, result, state, chunks>>
    BY DEF AppendStats
  <1>2. ReadType' BY <1>1 DEF PathInv, ReadType, Places
  <1> QED BY <1>1, <1>2 DEF PathInv, Reading

LEMMA UpdateKeeps == ASSUME PathInv, Update PROVE PathInv'
  <1>1. /\ at = "update" /\ at' \in {"lend", "finish"}
        /\ state' = update_file(state, Content, min_size)
        /\ UNCHANGED <<file, pos, min_size, chunk, result, chunks>>
    BY DEF Update
  <1> DEFINE len == chunk.length
             data == Content
  <1>2. /\ file \in Seq(Nat) /\ Len(file) \in Nat /\ pos \in Nat /\ pos <= Len(file) /\ min_size \in Nat
        /\ chunk.array \in Seq(Nat) /\ Len(chunk.array) \in Nat
        /\ len \in Nat /\ len <= Len(chunk.array) /\ state \in Files
    BY PathTypes
  <1>3. /\ len <= pos /\ \A j \in 1 .. len : chunk.array[j] = file[pos - len + j]
        /\ state.total = pos - len
        /\ FinderInv(state, file, min_size)
    BY <1>1 DEF PathInv, Reading
  <1>4. data \in Seq(Nat) /\ Len(data) = len /\ \A j \in 1 .. len : data[j] = chunk.array[j]
    <2>1. \A j \in 1 .. len : chunk.array[j] \in Nat BY <1>2, ElementOfSeq
    <2>2. data = SubSeq(chunk.array, 1, len) BY DEF Content
    <2> HIDE DEF data, len
    <2> QED BY <2>1, <2>2, <1>2
  <1> HIDE DEF data
  <1>5. /\ state.total + Len(data) = pos
        /\ \A j \in 1 .. Len(data) : data[j] = file[state.total + j]
    <2> HIDE DEF len
    <2>1. len \in Nat /\ pos \in Nat /\ len <= pos BY <1>2, <1>3
    <2>2. (pos - len) + len = pos BY <2>1
    <2> QED BY <2>2, <1>3, <1>4
  <1>6. PartAt(data, file, state.total) BY <1>2, <1>4, <1>5 DEF PartAt
  <1>7. /\ update_file(state, data, min_size) \in Files
        /\ FinderInv(update_file(state, data, min_size), file, min_size)
        /\ update_file(state, data, min_size).total = state.total + Len(data)
    BY <1>2, <1>3, <1>6, UpdateInv
  <1>8. state' \in Files /\ FinderInv(state', file', min_size') /\ state'.total = pos'
    BY <1>1, <1>5, <1>7 DEF data
  <1>9. ReadType' BY <1>1, <1>8 DEF PathInv, ReadType, Places
  <1>10. at' \notin Reading /\ at' # "done" BY <1>1 DEF Reading
  <1> QED BY <1>8, <1>9, <1>10 DEF PathInv

LEMMA FinishKeeps == ASSUME PathInv, Finish PROVE PathInv'
  <1>1. /\ at = "finish" /\ at' = "done" /\ chunks' = HasZeroChunk(state, min_size)
        /\ UNCHANGED <<file, pos, min_size, chunk, result, state>>
    BY DEF Finish
  <1>2. chunks' \in BOOLEAN BY <1>1 DEF HasZeroChunk, LongEnough
  <1>3. ReadType' BY <1>1, <1>2 DEF PathInv, ReadType, Places
  <1>4. chunks' <=> HasZeroChunk(state', min_size') BY <1>1
  <1>5. state'.total = pos' /\ at' \notin Reading BY <1>1 DEF PathInv, Reading
  <1>6. FinderInv(state', file', min_size') BY <1>1 DEF PathInv
  <1> QED BY <1>3, <1>4, <1>5, <1>6 DEF PathInv

(* What the finder says at the end. *)
LEMMA RunsFromFinder == ASSUME PathInv PROVE ZeroRunFound
  <1> SUFFICES ASSUME at = "done"
               PROVE  chunks <=> HasRun(SubSeq(file, 1, pos), Max({1, min_size}))
    BY DEF ZeroRunFound
  <1> DEFINE mm == Max({1, min_size})
             bytes == SubSeq(file, 1, pos)
             k == state.start[1]
  <1>1. /\ file \in Seq(Nat) /\ Len(file) \in Nat /\ pos \in Nat /\ pos <= Len(file) /\ min_size \in Nat
    BY PathTypes
  <1>2. /\ mm \in Nat /\ mm >= 1 /\ mm = IF 1 <= min_size THEN min_size ELSE 1
    BY <1>1, MaxOfTwo
  <1>3. state.total = pos /\ (chunks <=> LongEnough(state.start, pos, min_size))
    BY DEF PathInv, Reading, HasZeroChunk
  <1>4. HasRun(bytes, mm) <=> RunIn(file, pos, mm)
    <2>1. \A j \in 1 .. pos : file[j] \in Nat BY <1>1, ElementOfSeq
    <2>2. Len(bytes) = pos /\ \A j \in 1 .. pos : bytes[j] = file[j] BY <2>1, <1>1
    <2> HIDE DEF bytes, mm
    <2>3. \A i \in 1 .. pos - mm + 1 : \A j \in i .. i + mm - 1 : j \in 1 .. pos BY <1>1, <1>2
    <2> QED BY <2>2, <2>3 DEF HasRun, RunIn
  <1> HIDE DEF bytes, mm
  <1>5. FinderInv(state, file, min_size) BY DEF PathInv
  <1>6. CASE state.start = <<>>
    <2>1. ~RunIn(file, pos, mm) BY <1>3, <1>5, <1>6 DEF FinderInv, mm
    <2> QED BY <2>1, <1>3, <1>4, <1>6 DEF LongEnough, bytes, mm
  <1>7. CASE state.start # <<>>
    <2>1. k \in 0 .. pos - 1 BY <1>3, <1>5, <1>7 DEF FinderInv
    <2>2. chunks <=> pos - k >= min_size BY <1>3, <1>7 DEF LongEnough
    <2>3. CASE state.found
      <3>1. RunIn(file, pos, mm) /\ pos - k >= min_size BY <1>3, <1>5, <1>7, <2>3 DEF FinderInv, mm
      <3> QED BY <3>1, <2>2, <1>4 DEF bytes, mm
    <2>4. CASE ~state.found
      <3>1. /\ \A j \in k + 1 .. pos : file[j] = 0
            /\ k = 0 \/ file[k] # 0
            /\ ~RunIn(file, k, mm)
        BY <1>3, <1>5, <1>7, <2>4 DEF FinderInv, mm
      <3>2. CASE pos - k >= min_size
        <4>1. k \in Nat /\ k + mm <= pos BY <2>1, <3>2, <1>1, <1>2
        <4>2. RunIn(file, pos, mm) BY <3>1, <4>1, <1>1, <1>2, RunMade
        <4> QED BY <3>2, <4>2, <2>2, <1>4 DEF bytes, mm
      <3>3. CASE ~(pos - k >= min_size)
        <4>1. k \in Nat /\ k <= pos /\ mm > pos - k BY <2>1, <3>3, <1>1, <1>2
        <4>2. ~RunIn(file, pos, mm) BY <3>1, <4>1, <1>1, <1>2, RunCut
        <4> QED BY <3>3, <4>2, <2>2, <1>4 DEF bytes, mm
      <3> QED BY <3>2, <3>3
    <2> QED BY <2>3, <2>4
  <1> QED BY <1>6, <1>7

--------------------------------------------------------------------------------
(* Both together: the bytes counted are the ones the statistics were told of.   *)
ReadPathInv == RateType /\ RingInv /\ PathInv /\ Counted = Appended

LEMMA PathUnchanged == ASSUME PathInv, UNCHANGED readVars PROVE PathInv' /\ Appended' = Appended
  <1>1. UNCHANGED <<file, pos, min_size, at, chunk, result, state, chunks>> BY DEF readVars
  <1>2. ReadType' BY <1>1 DEF PathInv, ReadType
  <1>3. PathInv' BY <1>1, <1>2 DEF PathInv
  <1> QED BY <1>1, <1>3 DEF Appended

LEMMA InvInitial == ReadPathInit => ReadPathInv
  <1> SUFFICES ASSUME ReadPathInit PROVE ReadPathInv OBVIOUS
  <1>1. RateType /\ RingInv /\ Counted = 0 BY RateInitial DEF ReadPathInit
  <1>2. PathInv BY PathInitial
  <1>3. Appended = 0 BY DEF ReadPathInit, Appended
  <1> QED BY <1>1, <1>2, <1>3 DEF ReadPathInv

LEMMA InvStep == ReadPathInv /\ [ReadPathNext]_readPathVars => ReadPathInv'
  <1> SUFFICES ASSUME ReadPathInv, [ReadPathNext]_readPathVars PROVE ReadPathInv' OBVIOUS
  <1>1. RateType /\ RingInv /\ PathInv /\ Counted = Appended BY DEF ReadPathInv
  <1>2. pos \in Nat /\ chunk.length \in Nat BY <1>1, PathTypes
  <1>3. Counted \in Int BY <1>1, CountedInt
  <1>4. ASSUME Lend \/ ReadSome \/ ReadReturns \/ Update \/ Finish, UNCHANGED rateVars
        PROVE  ReadPathInv'
    <2>1. RateType' /\ RingInv' /\ Counted' = Counted BY <1>1, <1>4, RateUnchanged
    <2>2. PathInv'
      BY <1>1, <1>4, LendKeeps, ReadSomeKeeps, ReadReturnsKeeps, UpdateKeeps, FinishKeeps
    <2>3. Appended' = Appended
      <3>1. CASE Lend
        <4>1. at = "lend" /\ at' = "read" /\ pos' = pos /\ chunk'.length = 0 BY <3>1 DEF Lend
        <4> QED BY <4>1, <1>2 DEF Appended
      <3>2. CASE ReadSome
        <4>1. PICK n \in 1 .. Min({Len(chunk.array) - chunk.length, Len(file) - pos}) :
                 pos' = pos + n /\ chunk'.length = chunk.length + n
          BY <3>2 DEF ReadSome
        <4>2. n \in Nat
          <5>1. \A m \in Int : 1 .. m \subseteq Nat OBVIOUS
          <5>2. Len(chunk.array) - chunk.length \in Int /\ Len(file) - pos \in Int BY <1>1, PathTypes
          <5>3. Min({Len(chunk.array) - chunk.length, Len(file) - pos}) \in Int BY <5>2, MinOfTwo
          <5> QED BY <5>1, <5>3
        <4>3. at = "read" /\ at' = "read" BY <3>2 DEF ReadSome
        <4>4. (pos + n) - (chunk.length + n) = pos - chunk.length BY <4>2, <1>2
        <4> QED BY <4>1, <4>3, <4>4 DEF Appended
      <3>3. CASE ReadReturns
        <4>1. at = "read" /\ at' = "append" /\ pos' = pos /\ chunk' = chunk BY <3>3 DEF ReadReturns
        <4> QED BY <4>1 DEF Appended
      <3>4. CASE Update
        <4>1. at = "update" /\ at' \in {"lend", "finish"} /\ pos' = pos BY <3>4 DEF Update
        <4> QED BY <4>1 DEF Appended
      <3>5. CASE Finish
        <4>1. at = "finish" /\ at' = "done" /\ pos' = pos BY <3>5 DEF Finish
        <4> QED BY <4>1 DEF Appended
      <3> QED BY <1>4, <3>1, <3>2, <3>3, <3>4, <3>5
    <2> QED BY <2>1, <2>2, <2>3, <1>1 DEF ReadPathInv
  <1>5. ASSUME AppendStats PROVE ReadPathInv'
    <2>1. RateType' /\ RingInv' /\ Counted' = Counted + chunk.length
      BY <1>1, <1>2, <1>5, AppendKeeps DEF AppendStats
    <2>2. PathInv' BY <1>1, <1>5, AppendStatsKeeps
    <2>3. at = "append" /\ at' = "update" /\ pos' = pos BY <1>5 DEF AppendStats
    <2>4. Appended = pos - chunk.length /\ Appended' = pos BY <2>3 DEF Appended
    <2>5. Counted' = Appended' BY <2>1, <2>4, <1>1, <1>2
    <2> QED BY <2>1, <2>2, <2>5 DEF ReadPathInv
  <1>6. ASSUME Ticking, UNCHANGED readVars PROVE ReadPathInv'
    <2>1. RateType' /\ RingInv' /\ Counted' = Counted BY <1>1, <1>6, TickingKeeps
    <2>2. PathInv' /\ Appended' = Appended BY <1>1, <1>6, PathUnchanged
    <2> QED BY <2>1, <2>2, <1>1 DEF ReadPathInv
  <1>7. ASSUME UNCHANGED readPathVars PROVE ReadPathInv'
    <2>1. UNCHANGED readVars /\ UNCHANGED rateVars BY <1>7 DEF readPathVars
    <2>2. RateType' /\ RingInv' /\ Counted' = Counted BY <1>1, <2>1, RateUnchanged
    <2>3. PathInv' /\ Appended' = Appended BY <1>1, <2>1, PathUnchanged
    <2> QED BY <2>2, <2>3, <1>1 DEF ReadPathInv
  <1> QED BY <1>4, <1>5, <1>6, <1>7 DEF ReadPathNext

THEOREM ReadPathInvariant == ReadPathSpec => []ReadPathInv
  <1> QED BY InvInitial, InvStep, PTL DEF ReadPathSpec

(* However the samples of the threads and a reset come between one another, and *)
(* however often the array was gone round, get_avg is the average of the last.  *)
THEOREM AverageOfLast == ReadPathSpec => []AverageOfRecent
  <1>1. ReadPathInv => AverageOfRecent BY AverageFromRing DEF ReadPathInv
  <1> QED BY <1>1, ReadPathInvariant, PTL

(* No sample and no reset loses a byte of the statistics or takes one twice.    *)
THEOREM BytesOnce == ReadPathSpec => []BytesAccounted
  <1>1. ReadPathInv => BytesAccounted
    <2> SUFFICES ASSUME ReadPathInv PROVE BytesAccounted OBVIOUS
    <2>1. Counted = Appended BY DEF ReadPathInv
    <2>2. at \in {"lend", "finish", "done"} => state.total = Appended
      BY DEF ReadPathInv, PathInv, Appended, Reading
    <2> QED BY <2>1, <2>2 DEF BytesAccounted, Counted
  <1> QED BY <1>1, ReadPathInvariant, PTL

(* A file of any length is listed exactly if it has a run of zeros that is long *)
(* enough, for any chunk size and however short the reads are.                 *)
THEOREM ZeroRunsFound == ReadPathSpec => []ZeroRunFound
  <1>1. ReadPathInv => ZeroRunFound BY RunsFromFinder DEF ReadPathInv
  <1> QED BY <1>1, ReadPathInvariant, PTL
================================================================================
