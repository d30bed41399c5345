------------------------------ MODULE StoreProofs ------------------------------
(***************************************************************************)
(* Proofs about Store, for arrays of any number and width of words, any      *)
(* names and values, and runs of any length: what DiffingIter returns is the *)
(* difference of both sides, nothing is lost and its size hints hold; the    *)
(* average of a compression is exact, and the entries are rebuilt from its   *)
(* differences.                                                              *)
(***************************************************************************)
EXTENDS Store, DataInduction, SequenceTheorems

(* The order of arrays is total: the last word that differs decides. *)
LEMMA LessIrreflexive == ASSUME NEW a \in Arrays PROVE ~Less(a, a)
  BY DEF Less, Arrays

LEMMA LessTransitive ==
  ASSUME NEW a \in Arrays, NEW b \in Arrays, NEW c \in Arrays, Less(a, b), Less(b, c)
  PROVE  Less(a, c)
  <1>1. PICK i \in 1 .. Words : a[i] < b[i] /\ \A j \in i + 1 .. Words : a[j] = b[j] BY DEF Less
  <1>2. PICK k \in 1 .. Words : b[k] < c[k] /\ \A j \in k + 1 .. Words : b[j] = c[j] BY DEF Less
  <1>3. \A j \in 1 .. Words : a[j] \in Int /\ b[j] \in Int /\ c[j] \in Int BY DEF Arrays
  <1>4. Words \in Nat BY HashArrayAssumption
  <1>5. CASE i <= k
    <2>1. a[k] < c[k]
      <3>1. CASE i = k BY <3>1, <1>1, <1>2, <1>3
      <3>2. CASE i < k
        <4>1. k \in i + 1 .. Words BY <3>2, <1>4
        <4> QED BY <4>1, <1>1, <1>2
      <3> QED BY <3>1, <3>2, <1>5
    <2>2. \A j \in k + 1 .. Words : j \in i + 1 .. Words BY <1>5, <1>4
    <2> QED BY <2>1, <2>2, <1>1, <1>2 DEF Less
  <1>6. CASE k < i
    <2>1. i \in k + 1 .. Words BY <1>6, <1>4
    <2>2. a[i] < c[i] BY <2>1, <1>1, <1>2
    <2>3. \A j \in i + 1 .. Words : j \in k + 1 .. Words BY <1>6, <1>4
    <2> QED BY <2>2, <2>3, <1>1, <1>2 DEF Less
  <1> QED BY <1>5, <1>6

LEMMA LessTotal ==
  ASSUME NEW a \in Arrays, NEW b \in Arrays, a # b
  PROVE  Less(a, b) \/ Less(b, a)
  <1> DEFINE D == {i \in 1 .. Words : a[i] # b[i]}
             T == {n \in Nat : Words - n \in D}
  <1>1. Words \in Nat /\ \A i \in 1 .. Words : a[i] \in Int /\ b[i] \in Int
    BY HashArrayAssumption DEF Arrays
  <1>2. PICK i \in 1 .. Words : a[i] # b[i]
    <2>1. a = [i \in 1 .. Words |-> a[i]] /\ b = [i \in 1 .. Words |-> b[i]] BY DEF Arrays
    <2> QED BY <2>1
  <1>3. T # {}
    <2>1. Words - i \in Nat /\ Words - (Words - i) = i BY <1>1
    <2>2. Words - i \in T BY <2>1, <1>2
    <2> QED BY <2>2
  <1>4. PICK n \in T : \A m \in T : n <= m BY <1>3, LeastNumber
  <1> DEFINE k == Words - n
  <1>5. k \in 1 .. Words /\ a[k] # b[k] BY <1>4
  <1>6. ASSUME NEW j \in k + 1 .. Words PROVE a[j] = b[j]
    <2>1. j \in 1 .. Words /\ Words - j \in Nat /\ Words - (Words - j) = j /\ Words - j < n
      BY <1>1, <1>4, <1>5
    <2>2. Words - j \notin T BY <2>1, <1>4
    <2> QED BY <2>1, <2>2
  <1> HIDE DEF k
  <1>7. a[k] < b[k] \/ b[k] < a[k] BY <1>1, <1>5
  <1> QED BY <1>5, <1>6, <1>7 DEF Less

(* The order of entries. *)
LEMMA EntryFields == ASSUME NEW e \in Entries
                     PROVE  e.name \in Arrays /\ e.value \in Nat /\ e.name \in NameHashes /\ e.value \in Values
  BY DiffAssumption DEF Entries

LEMMA EntryIs == ASSUME NEW a \in Entries, NEW b \in Entries, a.name = b.name, a.value = b.value
                 PROVE  a = b
  BY DEF Entries

LEMMA InOrderFacts ==
  ASSUME NEW a \in Entries, NEW b \in Entries
  PROVE  /\ InOrder(a, b) <=> Less(a.name, b.name) \/ (a.name = b.name /\ a.value <= b.value)
         /\ InOrder(a, b) \/ InOrder(b, a)
         /\ Greater(a, b) => InOrder(b, a)
         /\ InOrder(a, b) => Less(a.name, b.name) \/ a.name = b.name
         /\ InOrder(a, a)
  <1>1. /\ a.name \in Arrays /\ b.name \in Arrays /\ a.value \in Nat /\ b.value \in Nat BY EntryFields
  <1>2. ~(Less(a.name, b.name) /\ Less(b.name, a.name)) BY <1>1, LessTransitive, LessIrreflexive
  <1>3. a.name # b.name => Less(a.name, b.name) \/ Less(b.name, a.name) BY <1>1, LessTotal
  <1>4. ~Less(a.name, a.name) /\ ~Less(b.name, b.name) BY <1>1, LessIrreflexive
  <1> QED BY <1>1, <1>2, <1>3, <1>4 DEF InOrder, Greater

LEMMA InOrderTransitive ==
  ASSUME NEW a \in Entries, NEW b \in Entries, NEW c \in Entries, InOrder(a, b), InOrder(b, c)
  PROVE  InOrder(a, c)
  <1>1. /\ a.name \in Arrays /\ b.name \in Arrays /\ c.name \in Arrays
        /\ a.value \in Nat /\ b.value \in Nat /\ c.value \in Nat BY EntryFields
  <1>2. Less(a.name, b.name) \/ (a.name = b.name /\ a.value <= b.value) BY InOrderFacts
  <1>3. Less(b.name, c.name) \/ (b.name = c.name /\ b.value <= c.value) BY InOrderFacts
  <1>4. Less(a.name, b.name) /\ Less(b.name, c.name) => Less(a.name, c.name) BY <1>1, LessTransitive
  <1>5. Less(a.name, c.name) \/ (a.name = c.name /\ a.value <= c.value) BY <1>1, <1>2, <1>3, <1>4
  <1> QED BY <1>5, InOrderFacts

--------------------------------------------------------------------------------
(* How often an entry is in a sequence. *)
At(s, e) == {i \in 1 .. Len(s) : s[i] = e}

LEMMA TimesIs ==
  ASSUME NEW S, NEW s \in Seq(S), NEW e
  PROVE  Times(s, e) = Cardinality(At(s, e)) /\ IsFiniteSet(At(s, e)) /\ Times(s, e) \in Nat
  <1>1. Len(s) \in Nat /\ DOMAIN s = 1 .. Len(s) BY LenProperties
  <1>2. IsFiniteSet(1 .. Len(s)) BY <1>1, FS_Interval
  <1>3. At(s, e) \in SUBSET (1 .. Len(s)) BY DEF At
  <1>4. IsFiniteSet(At(s, e)) BY <1>2, <1>3, FS_Subset
  <1>5. Times(s, e) = Cardinality(At(s, e)) BY <1>1 DEF Times, At
  <1> QED BY <1>4, <1>5, FS_CardinalityType

LEMMA TimesConcat ==
  ASSUME NEW S, NEW s \in Seq(S), NEW t \in Seq(S), NEW e
  PROVE  Times(s \o t, e) = Times(s, e) + Times(t, e)
  <1> DEFINE u == s \o t
             A == At(s, e)
             B == At(t, e)
             C == {i \in Len(s) + 1 .. Len(s) + Len(t) : t[i - Len(s)] = e}
             f == [i \in B |-> Len(s) + i]
  <1>1. /\ u \in Seq(S) /\ Len(u) = Len(s) + Len(t) /\ Len(s) \in Nat /\ Len(t) \in Nat
        /\ \A i \in 1 .. Len(s) + Len(t) : u[i] = IF i <= Len(s) THEN s[i] ELSE t[i - Len(s)]
    BY ConcatProperties, LenProperties
  <1> HIDE DEF u
  <1>2. At(u, e) = A \union C
    <2>1. \A i \in 1 .. Len(s) + Len(t) : IF i <= Len(s) THEN i \in 1 .. Len(s)
                                          ELSE i \in Len(s) + 1 .. Len(s) + Len(t) BY <1>1
    <2>2. \A i \in 1 .. Len(s) : i \in 1 .. Len(s) + Len(t) /\ i <= Len(s) BY <1>1
    <2>3. \A i \in Len(s) + 1 .. Len(s) + Len(t) : i \in 1 .. Len(s) + Len(t) /\ ~(i <= Len(s)) BY <1>1
    <2>4. At(u, e) \subseteq A \union C BY <1>1, <2>1 DEF At
    <2>5. A \subseteq At(u, e) BY <1>1, <2>2 DEF At
    <2>6. C \subseteq At(u, e) BY <1>1, <2>3 DEF At
    <2> QED BY <2>4, <2>5, <2>6
  <1>3. A \cap C = {}
    <2>1. \A i \in 1 .. Len(s) : i \notin Len(s) + 1 .. Len(s) + Len(t) BY <1>1
    <2> QED BY <2>1 DEF At
  <1>4. f \in Bijection(B, C)
    <2>1. \A i \in B : i \in Int /\ Len(s) + i \in C BY <1>1 DEF At
    <2>2. f \in [B -> C] BY <2>1
    <2>3. \A i, j \in B : f[i] = f[j] => i = j BY <2>1, <1>1
    <2>4. ASSUME NEW k \in C PROVE \E i \in B : f[i] = k
      <3>1. k - Len(s) \in B /\ Len(s) + (k - Len(s)) = k BY <1>1 DEF At
      <3>2. f[k - Len(s)] = k BY <3>1
      <3> QED BY <3>1, <3>2
    <2> QED BY <2>2, <2>3, <2>4 DEF Bijection, Injection, Surjection, IsInjective
  <1>5. /\ IsFiniteSet(A) /\ IsFiniteSet(B)
        /\ Times(s, e) = Cardinality(A) /\ Times(t, e) = Cardinality(B) /\ Times(u, e) = Cardinality(At(u, e))
    BY <1>1, TimesIs
  <1> HIDE DEF A, B, C, f
  <1>6. IsFiniteSet(C) /\ Cardinality(C) = Cardinality(B) BY <1>4, <1>5, FS_Bijection DEF ExistsBijection
  <1>7. Cardinality(A \union C) = Cardinality(A) + Cardinality(C)
    <2>1. Cardinality(A \union C) = Cardinality(A) + Cardinality(C) - Cardinality(A \cap C)
      BY <1>5, <1>6, FS_Union
    <2>2. Cardinality(A \cap C) = 0 BY <1>3, FS_EmptySet
    <2>3. Cardinality(A) \in Nat /\ Cardinality(C) \in Nat BY <1>5, <1>6, FS_CardinalityType
    <2> QED BY <2>1, <2>2, <2>3
  <1>8. Times(u, e) = Times(s, e) + Times(t, e) BY <1>2, <1>5, <1>6, <1>7
  <1> QED BY <1>8 DEF u

(* Entries as often in one sequence as in the other. *)
SameItems(s, t) == \A e \in Entries : Times(s, e) = Times(t, e)

LEMMA TimesPositive ==
  ASSUME NEW S, NEW s \in Seq(S), NEW e
  PROVE  e \in ToSet(s) <=> Times(s, e) # 0
  <1>1. Times(s, e) = Cardinality(At(s, e)) /\ IsFiniteSet(At(s, e)) BY TimesIs
  <1>2. Times(s, e) = 0 <=> At(s, e) = {} BY <1>1, FS_EmptySet
  <1>3. DOMAIN s = 1 .. Len(s) BY LenProperties
  <1> QED BY <1>2, <1>3 DEF At, ToSet

LEMMA SameItemsSet ==
  ASSUME NEW s \in Seq(Entries), NEW t \in Seq(Entries), SameItems(s, t)
  PROVE  ToSet(s) = ToSet(t)
  <1>1. \A e \in Entries : e \in ToSet(s) <=> e \in ToSet(t) BY TimesPositive DEF SameItems
  <1>2. \A i \in DOMAIN s : s[i] \in Entries BY LenProperties, ElementOfSeq
  <1>3. \A i \in DOMAIN t : t[i] \in Entries BY LenProperties, ElementOfSeq
  <1>4. ToSet(s) \subseteq Entries /\ ToSet(t) \subseteq Entries BY <1>2, <1>3 DEF ToSet
  <1> QED BY <1>1, <1>4

LEMMA PairOfTwo == \A i, j : i # j => Cardinality({i, j}) = 2
  <1> TAKE i, j
  <1> HAVE i # j
  <1>1. IsFiniteSet({i}) /\ Cardinality({i}) = 1 BY FS_Singleton
  <1>2. Cardinality({i} \union {j}) = Cardinality({i}) + 1 BY <1>1, FS_AddElement
  <1>3. {i} \union {j} = {i, j} OBVIOUS
  <1>4. Cardinality({i, j}) = Cardinality({i}) + 1 BY <1>2, <1>3, Zenon
  <1> QED BY <1>1, <1>4

(* A sequence with no name twice has each entry once. *)
LEMMA DistinctTimes ==
  ASSUME NEW s \in Seq(Entries)
  PROVE  Distinct(s) <=> /\ \A e \in Entries : Times(s, e) <= 1
                         /\ \A a, b \in ToSet(s) : a.name = b.name => a = b
  <1>1. DOMAIN s = 1 .. Len(s) /\ Len(s) \in Nat BY LenProperties
  <1>2. \A e \in Entries : IsFiniteSet(At(s, e)) /\ Times(s, e) = Cardinality(At(s, e)) /\ Times(s, e) \in Nat
    BY TimesIs
  <1>3. ASSUME Distinct(s), NEW e \in Entries PROVE Times(s, e) <= 1
    <2>1. CASE At(s, e) = {} BY <2>1, <1>2, FS_EmptySet
    <2>2. CASE At(s, e) # {}
      <3>1. PICK i \in At(s, e) : TRUE BY <2>2
      <3>2. At(s, e) = {i} BY <3>1, <1>1, <1>3 DEF At, Distinct
      <3>3. Cardinality({i}) = 1 BY FS_Singleton
      <3>4. Cardinality(At(s, e)) = 1 BY <3>2, <3>3, Zenon
      <3>5. Times(s, e) = Cardinality(At(s, e)) BY <1>2
      <3> QED BY <3>4, <3>5
    <2> QED BY <2>1, <2>2
  <1>4. ASSUME Distinct(s), NEW a \in ToSet(s), NEW b \in ToSet(s), a.name = b.name PROVE a = b
    BY <1>4 DEF Distinct, ToSet
  <1>5. ASSUME \A e \in Entries : Times(s, e) <= 1,
               \A a, b \in ToSet(s) : a.name = b.name => a = b,
               NEW i \in DOMAIN s, NEW j \in DOMAIN s, s[i].name = s[j].name, i # j
        PROVE  FALSE
    <2>1. s[i] \in ToSet(s) /\ s[j] \in ToSet(s) BY DEF ToSet
    <2>2. s[i] = s[j] BY <2>1, <1>5
    <2>3. s[i] \in Entries BY <1>1, ElementOfSeq
    <2> DEFINE e == s[i]
    <2>4. {i, j} \subseteq At(s, e) BY <2>2, <1>1 DEF At
    <2>4a. i # j BY <1>5
    <2> HIDE DEF e
    <2>8. e \in Entries BY <2>3 DEF e
    <2>9. Cardinality({i, j}) <= Cardinality(At(s, e)) BY <2>4, <2>8, <1>2, FS_Subset
    <2>10. Times(s, e) <= 1 /\ Times(s, e) = Cardinality(At(s, e)) /\ Times(s, e) \in Nat BY <2>8, <1>2, <1>5
    <2> HIDE <1>5
    <2>11. Cardinality({i, j}) = 2 BY <2>4a, PairOfTwo
    <2>12. 2 <= Times(s, e) BY <2>9, <2>10, <2>11, Zenon
    <2> QED BY <2>10, <2>12
  <1>6. ASSUME \A e \in Entries : Times(s, e) <= 1,
               \A a, b \in ToSet(s) : a.name = b.name => a = b
        PROVE  Distinct(s)
    BY <1>5, <1>6 DEF Distinct
  <1> QED BY <1>3, <1>4, <1>6

LEMMA SameItemsDistinct ==
  ASSUME NEW s \in Seq(Entries), NEW t \in Seq(Entries), SameItems(s, t), Distinct(t)
  PROVE  Distinct(s)
  <1>1. ToSet(s) = ToSet(t) BY SameItemsSet
  <1>2. \A e \in Entries : Times(s, e) <= 1 BY DistinctTimes DEF SameItems
  <1>3. \A a, b \in ToSet(s) : a.name = b.name => a = b BY <1>1, DistinctTimes
  <1> QED BY <1>2, <1>3, DistinctTimes

--------------------------------------------------------------------------------
(* The merge. *)
LEMMA FirstRest ==
  ASSUME NEW S, NEW s \in Seq(S)
  PROVE  /\ FirstOf(s) \in Seq(S) /\ RestOf(s) \in Seq(S)
         /\ s = <<>> => FirstOf(s) = <<>> /\ RestOf(s) = <<>>
         /\ s # <<>> => /\ Len(FirstOf(s)) = 1 /\ Head(s) = s[1] /\ FirstOf(s)[1] = s[1] /\ FirstOf(s) # <<>>
                        /\ s[1] \in S /\ FirstOf(s) = <<s[1]>>
                        /\ Len(s) = Len(RestOf(s)) + 1
                        /\ \A i \in 1 .. Len(RestOf(s)) : RestOf(s)[i] = s[i + 1]
         /\ s = FirstOf(s) \o RestOf(s)
  <1>1. CASE s = <<>>
    <2>1. FirstOf(s) = <<>> /\ Len(s) = 0 BY <1>1 DEF FirstOf, None
    <2>2. RestOf(s) = <<>> BY <2>1, SubSeqEmpty DEF RestOf
    <2> QED BY <2>1, <2>2, <1>1
  <1>2. CASE s # <<>>
    <2>1. FirstOf(s) = <<Head(s)>> BY <1>2 DEF FirstOf
    <2>2. RestOf(s) = Tail(s) BY <1>2, TailIsSubSeq DEF RestOf
    <2>3. /\ Tail(s) \in Seq(S) /\ Len(Tail(s)) = Len(s) - 1 /\ Len(s) \in Nat \ {0}
          /\ \A i \in 1 .. Len(Tail(s)) : Tail(s)[i] = s[i + 1]
      BY <1>2, HeadTailProperties, EmptySeq
    <2>4. Head(s) = s[1] /\ s[1] \in S BY <1>2, <2>3
    <2> DEFINE r == RestOf(s)
    <2>5. r \in Seq(S) /\ Len(r) = Len(s) - 1 /\ \A i \in 1 .. Len(r) : r[i] = s[i + 1] BY <2>2, <2>3
    <2> HIDE DEF r
    <2>6. s = <<s[1]>> \o r
      <3> DEFINE u == <<s[1]>> \o r
      <3>1. /\ u \in Seq(S) /\ Len(u) = 1 + Len(r)
            /\ \A i \in 1 .. 1 + Len(r) : u[i] = IF i <= 1 THEN s[1] ELSE r[i - 1]
        BY <2>4, <2>5
      <3> HIDE DEF u
      <3>2. Len(u) = Len(s) BY <3>1, <2>5, <2>3
      <3>3. ASSUME NEW i \in 1 .. Len(u) PROVE u[i] = s[i]
        <4>1. CASE i = 1 BY <4>1, <3>1, <2>5, <2>3
        <4>2. CASE i # 1
          <5>1. i - 1 \in 1 .. Len(r) /\ ~(i <= 1) /\ (i - 1) + 1 = i BY <4>2, <3>1, <2>5
          <5> QED BY <5>1, <3>1, <2>5
        <4> QED BY <4>1, <4>2
      <3>4. u = s BY <3>1, <3>2, <3>3, SeqEqual
      <3> QED BY <3>4 DEF u
    <2>7. FirstOf(s) = <<s[1]>> /\ Len(s) = Len(r) + 1 BY <2>1, <2>4, <2>5, <2>3
    <2> QED BY <2>7, <2>4, <2>5, <2>6, <1>2 DEF r
  <1> QED BY <1>1, <1>2

Ordered(s) == \A i, j \in 1 .. Len(s) : i < j => InOrder(s[i], s[j])
AllAfter(e, s) == \A i \in 1 .. Len(s) : InOrder(e, s[i])

LEMMA OrderedRest ==
  ASSUME NEW s \in Seq(Entries), s # <<>>, Ordered(s)
  PROVE  Ordered(RestOf(s)) /\ AllAfter(s[1], RestOf(s))
  <1> DEFINE r == RestOf(s)
  <1>1. /\ r \in Seq(Entries) /\ Len(s) = Len(r) + 1 /\ Len(r) \in Nat
        /\ \A i \in 1 .. Len(r) : r[i] = s[i + 1]
    BY FirstRest, LenProperties
  <1> HIDE DEF r
  <1>2. \A i \in 1 .. Len(r) : i + 1 \in 1 .. Len(s) /\ 1 \in 1 .. Len(s) /\ 1 < i + 1 BY <1>1
  <1>3. \A i, j \in 1 .. Len(r) : i < j => i + 1 < j + 1 OBVIOUS
  <1>4. Ordered(r) BY <1>1, <1>2, <1>3 DEF Ordered
  <1>5. AllAfter(s[1], r) BY <1>1, <1>2 DEF Ordered, AllAfter
  <1> QED BY <1>4, <1>5 DEF r

LEMMA AfterFirst ==
  ASSUME NEW s \in Seq(Entries), s # <<>>, Ordered(s), NEW e \in Entries, InOrder(e, s[1])
  PROVE  AllAfter(e, s)
  <1>1. Len(s) \in Nat \ {0} /\ \A i \in 1 .. Len(s) : s[i] \in Entries BY EmptySeq, ElementOfSeq
  <1>2. ASSUME NEW i \in 1 .. Len(s) PROVE InOrder(e, s[i])
    <2>1. CASE i = 1 BY <2>1
    <2>2. CASE i # 1
      <3>1. 1 \in 1 .. Len(s) /\ 1 < i BY <2>2, <1>1
      <3>2. InOrder(s[1], s[i]) BY <3>1 DEF Ordered
      <3> QED BY <3>1, <3>2, <1>1, InOrderTransitive
    <2> QED BY <2>1, <2>2
  <1> QED BY <1>2 DEF AllAfter

LEMMA AfterEarlier ==
  ASSUME NEW s \in Seq(Entries), NEW d \in Entries, NEW e \in Entries, InOrder(d, e), AllAfter(e, s)
  PROVE  AllAfter(d, s)
  <1>1. \A i \in 1 .. Len(s) : s[i] \in Entries BY ElementOfSeq
  <1> QED BY <1>1, InOrderTransitive DEF AllAfter

LEMMA AfterConcat ==
  ASSUME NEW s \in Seq(Entries), NEW t \in Seq(Entries), NEW e, AllAfter(e, s), AllAfter(e, t)
  PROVE  AllAfter(e, s \o t)
  <1> DEFINE u == s \o t
  <1>1. /\ Len(u) = Len(s) + Len(t) /\ Len(s) \in Nat /\ Len(t) \in Nat
        /\ \A i \in 1 .. Len(s) + Len(t) : u[i] = IF i <= Len(s) THEN s[i] ELSE t[i - Len(s)]
    BY ConcatProperties, LenProperties
  <1> HIDE DEF u
  <1>2. \A i \in 1 .. Len(u) : IF i <= Len(s) THEN i \in 1 .. Len(s) ELSE i - Len(s) \in 1 .. Len(t) BY <1>1
  <1>3. AllAfter(e, u) BY <1>1, <1>2 DEF AllAfter
  <1> QED BY <1>3 DEF u

LEMMA AfterNone == ASSUME NEW e, NEW s, s = <<>> PROVE AllAfter(e, s)
  <1>1. Len(s) = 0 OBVIOUS
  <1> QED BY <1>1 DEF AllAfter

LEMMA AfterOne == ASSUME NEW e, NEW d \in Entries, NEW s, s = <<d>>, InOrder(e, d) PROVE AllAfter(e, s)
  <1>1. Len(s) = 1 /\ s[1] = d OBVIOUS
  <1>2. \A i \in 1 .. 1 : i = 1 OBVIOUS
  <1> QED BY <1>1, <1>2 DEF AllAfter

Merges == [ia : Seq(Entries), ib : Seq(Entries), last : Seq(Entries), from_a : BOOLEAN]

All(m) == m.last \o m.ia \o m.ib

(* What is held is before the others of its side. *)
MergeInv(m) == /\ m \in Merges
               /\ m.last = <<>> \/ \E e \in Entries : m.last = <<e>>
               /\ Ordered(m.ia) /\ Ordered(m.ib)
               /\ m.last # <<>> /\ m.from_a => AllAfter(m.last[1], m.ia)
               /\ m.last # <<>> /\ ~m.from_a => AllAfter(m.last[1], m.ib)

(* The merge gives the first of what it has, and keeps the others. *)
Gives(m, item, n) ==
    /\ MergeInv(n)
    /\ \/ item = <<>> /\ All(m) = <<>> /\ All(n) = <<>>
       \/ \E e \in Entries : item = <<e>> /\ AllAfter(e, All(n))
    /\ \A e \in Entries : Times(item, e) + Times(All(n), e) = Times(All(m), e)

LEMMA TimesAll ==
  ASSUME NEW m \in Merges, NEW e
  PROVE  /\ Times(All(m), e) = Times(m.last, e) + Times(m.ia, e) + Times(m.ib, e)
         /\ Times(m.last, e) \in Nat /\ Times(m.ia, e) \in Nat /\ Times(m.ib, e) \in Nat
         /\ All(m) \in Seq(Entries)
  <1>1. m.last \in Seq(Entries) /\ m.ia \in Seq(Entries) /\ m.ib \in Seq(Entries) BY DEF Merges
  <1> DEFINE a == m.last
             b == m.ia
             c == m.ib
  <1>2. a \in Seq(Entries) /\ b \in Seq(Entries) /\ c \in Seq(Entries) BY <1>1
  <1> HIDE DEF a, b, c
  <1>3. a \o b \in Seq(Entries) /\ (a \o b) \o c \in Seq(Entries) BY <1>2, ConcatProperties
  <1>4. Times((a \o b) \o c, e) = Times(a \o b, e) + Times(c, e) BY <1>2, <1>3, TimesConcat
  <1>5. Times(a \o b, e) = Times(a, e) + Times(b, e) BY <1>2, TimesConcat
  <1>6. Times(a, e) \in Nat /\ Times(b, e) \in Nat /\ Times(c, e) \in Nat BY <1>2, TimesIs
  <1> QED BY <1>3, <1>4, <1>5, <1>6 DEF a, b, c, All

LEMMA TimesFirst ==
  ASSUME NEW s \in Seq(Entries), NEW e
  PROVE  /\ Times(s, e) = Times(FirstOf(s), e) + Times(RestOf(s), e)
         /\ Times(FirstOf(s), e) \in Nat /\ Times(RestOf(s), e) \in Nat
  <1>1. FirstOf(s) \in Seq(Entries) /\ RestOf(s) \in Seq(Entries) /\ s = FirstOf(s) \o RestOf(s)
    BY FirstRest
  <1>2. Times(FirstOf(s) \o RestOf(s), e) = Times(FirstOf(s), e) + Times(RestOf(s), e)
    BY <1>1, TimesConcat
  <1> QED BY <1>1, <1>2, TimesIs

LEMMA TimesNone == ASSUME NEW e PROVE Times(<<>>, e) = 0
  <1>1. <<>> \in Seq(Entries) /\ At(<<>>, e) = {} BY DEF At
  <1> QED BY <1>1, TimesIs, FS_EmptySet

(* The one item that is given, and where the others are. *)
LEMMA GivesOne ==
  ASSUME NEW m, MergeInv(m), NEW n, MergeInv(n), NEW item, NEW d \in Entries, item = <<d>>,
         \A e \in Entries : Times(item, e) + (Times(n.last, e) + Times(n.ia, e) + Times(n.ib, e))
                              = Times(m.last, e) + Times(m.ia, e) + Times(m.ib, e),
         AllAfter(d, n.last), AllAfter(d, n.ia), AllAfter(d, n.ib)
  PROVE  Gives(m, item, n)
  <1>1. m \in Merges /\ n \in Merges BY DEF MergeInv
  <1>2. \A e \in Entries : Times(item, e) + Times(All(n), e) = Times(All(m), e) BY <1>1, TimesAll
  <1>3. n.last \in Seq(Entries) /\ n.ia \in Seq(Entries) /\ n.ib \in Seq(Entries) BY <1>1 DEF Merges
  <1>4. n.last \o n.ia \in Seq(Entries) BY <1>3, ConcatProperties
  <1>5. AllAfter(d, n.last \o n.ia) BY <1>3, AfterConcat
  <1>6. AllAfter(d, All(n)) BY <1>3, <1>4, <1>5, AfterConcat DEF All
  <1> QED BY <1>2, <1>6 DEF Gives

Fields(n, a, b, l, f) == n \in Merges /\ n.ia = a /\ n.ib = b /\ n.last = l /\ n.from_a = f

LEMMA BeginOne ==
  ASSUME NEW m, MergeInv(m), m.last = <<>>, m.ia = <<>> \/ m.ib = <<>>
  PROVE  Gives(m, next_item(m).item, next_item(m).merge)
  <1> DEFINE a == m.ia
             b == m.ib
             item == FirstOf(a \o b)
             n == [m EXCEPT !.ia = RestOf(@), !.ib = RestOf(@)]
  <1>1. next_item(m) = [item |-> item, merge |-> n] BY DEF next_item, Begin, Give, None
  <1>2. m \in Merges /\ Ordered(a) /\ Ordered(b) BY DEF MergeInv
  <1>3. a \in Seq(Entries) /\ b \in Seq(Entries) BY <1>2 DEF Merges
  <1>4. RestOf(a) \in Seq(Entries) /\ RestOf(b) \in Seq(Entries) BY <1>3, FirstRest
  <1>5. Fields(n, RestOf(a), RestOf(b), <<>>, m.from_a) BY <1>2, <1>4 DEF Fields, Merges
  <1>6. a = <<>> \/ b = <<>> OBVIOUS
  <1>7. m.last = <<>> /\ m.ia = a /\ m.ib = b OBVIOUS
  <1>8. next_item(m).item = item /\ next_item(m).merge = n BY <1>1
  <1> HIDE DEF a, b, n
  <1>9. Ordered(RestOf(a)) /\ Ordered(RestOf(b))
    <2>1. ASSUME NEW s \in Seq(Entries), Ordered(s) PROVE Ordered(RestOf(s))
      <3>1. CASE s # <<>> BY <3>1, <2>1, OrderedRest
      <3>2. CASE s = <<>> BY <3>2, <2>1, FirstRest
      <3> QED BY <3>1, <3>2
    <2> QED BY <2>1, <1>2, <1>3
  <1>10. MergeInv(n) BY <1>5, <1>9 DEF MergeInv, Fields
  <1>11. \A e \in Entries : Times(<<>>, e) = 0 BY TimesNone
  <1>12. CASE a = <<>> /\ b = <<>>
    <2>1. a \o b = <<>> /\ RestOf(a) = <<>> /\ RestOf(b) = <<>> BY <1>12, <1>3, FirstRest
    <2>2. item = <<>> BY <2>1, FirstRest, <1>3
    <2>3. All(m) = <<>> BY <1>7, <1>12 DEF All
    <2>4. All(n) = <<>> BY <1>5, <2>1 DEF All, Fields
    <2> QED BY <1>8, <1>10, <2>2, <2>3, <2>4, <1>11 DEF Gives
  <1>13. CASE a # <<>> /\ b = <<>>
    <2>1. item = FirstOf(a) /\ RestOf(b) = <<>> BY <1>13, <1>3, FirstRest, ConcatEmptySeq
    <2>2. item = <<a[1]>> /\ a[1] \in Entries BY <2>1, <1>13, <1>3, FirstRest
    <2>3. AllAfter(a[1], RestOf(a)) BY <1>13, <1>2, <1>3, OrderedRest
    <2>4. AllAfter(a[1], <<>>) BY AfterNone
    <2>5. \A e \in Entries : Times(item, e) + (Times(n.last, e) + Times(n.ia, e) + Times(n.ib, e))
                              = Times(m.last, e) + Times(m.ia, e) + Times(m.ib, e)
      BY <2>1, <1>13, <1>3, <1>5, <1>7, <1>11, TimesFirst DEF Fields
    <2> HIDE DEF item
    <2> QED BY <2>1, <2>2, <2>3, <2>4, <2>5, <1>5, <1>8, <1>10, GivesOne DEF Fields
  <1>14. CASE a = <<>> /\ b # <<>>
    <2>1. item = FirstOf(b) /\ RestOf(a) = <<>> BY <1>14, <1>3, FirstRest, ConcatEmptySeq
    <2>2. item = <<b[1]>> /\ b[1] \in Entries BY <2>1, <1>14, <1>3, FirstRest
    <2>3. AllAfter(b[1], RestOf(b)) BY <1>14, <1>2, <1>3, OrderedRest
    <2>4. AllAfter(b[1], <<>>) BY AfterNone
    <2>5. \A e \in Entries : Times(item, e) + (Times(n.last, e) + Times(n.ia, e) + Times(n.ib, e))
                              = Times(m.last, e) + Times(m.ia, e) + Times(m.ib, e)
      BY <2>1, <1>14, <1>3, <1>5, <1>7, <1>11, TimesFirst DEF Fields
    <2> HIDE DEF item
    <2> QED BY <2>1, <2>2, <2>3, <2>4, <2>5, <1>5, <1>8, <1>10, GivesOne DEF Fields
  <1> QED BY <1>6, <1>12, <1>13, <1>14

LEMMA BeginTwo ==
  ASSUME NEW m, MergeInv(m), m.last = <<>>, m.ia # <<>>, m.ib # <<>>
  PROVE  Gives(m, next_item(m).item, next_item(m).merge)
  <1> DEFINE a == m.ia
             b == m.ib
             ra == RestOf(a)
             rb == RestOf(b)
             m2 == [m EXCEPT !.ia = RestOf(@), !.ib = RestOf(@)]
             na == [m2 EXCEPT !.last = FirstOf(a), !.from_a = TRUE]
             nb == [m2 EXCEPT !.last = FirstOf(b), !.from_a = FALSE]
  <1>1. m \in Merges /\ Ordered(a) /\ Ordered(b) BY DEF MergeInv
  <1>2. a \in Seq(Entries) /\ b \in Seq(Entries) /\ a # <<>> /\ b # <<>> BY <1>1 DEF Merges
  <1>3. /\ ra \in Seq(Entries) /\ rb \in Seq(Entries) /\ a[1] \in Entries /\ b[1] \in Entries
        /\ FirstOf(a) = <<a[1]>> /\ FirstOf(b) = <<b[1]>> /\ Head(a) = a[1] /\ Head(b) = b[1]
        /\ FirstOf(a) \in Seq(Entries) /\ FirstOf(b) \in Seq(Entries)
    BY <1>2, FirstRest
  <1>4. next_item(m) = IF Greater(a[1], b[1]) THEN [item |-> FirstOf(b), merge |-> na]
                       ELSE [item |-> FirstOf(a), merge |-> nb]
    BY <1>2, <1>3 DEF next_item, Begin, Give, None
  <1>5. m2 \in Merges /\ m2.ia = ra /\ m2.ib = rb BY <1>1, <1>3 DEF Merges
  <1> HIDE DEF m2
  <1>6. Fields(na, ra, rb, FirstOf(a), TRUE) BY <1>5, <1>3 DEF Fields, Merges
  <1>7. Fields(nb, ra, rb, FirstOf(b), FALSE) BY <1>5, <1>3 DEF Fields, Merges
  <1>8. m.last = <<>> /\ m.ia = a /\ m.ib = b OBVIOUS
  <1>9. Ordered(ra) /\ AllAfter(a[1], ra) /\ Ordered(rb) /\ AllAfter(b[1], rb) BY <1>1, <1>2, OrderedRest
  <1>10. \A e \in Entries : /\ Times(<<>>, e) = 0
                            /\ Times(a, e) = Times(FirstOf(a), e) + Times(ra, e)
                            /\ Times(b, e) = Times(FirstOf(b), e) + Times(rb, e)
                            /\ Times(FirstOf(a), e) \in Nat /\ Times(ra, e) \in Nat
                            /\ Times(FirstOf(b), e) \in Nat /\ Times(rb, e) \in Nat
    BY <1>2, TimesNone, TimesFirst
  <1> HIDE DEF a, b, ra, rb, na, nb
  <1>11. CASE Greater(a[1], b[1])
    <2>1. next_item(m).item = FirstOf(b) /\ next_item(m).merge = na BY <1>4, <1>11
    <2>2. InOrder(b[1], a[1]) BY <1>3, <1>11, InOrderFacts
    <2>3. MergeInv(na)
      <3>1. FirstOf(a)[1] = a[1] BY <1>3
      <3> QED BY <3>1, <1>6, <1>9, <1>3 DEF MergeInv, Fields
    <2>4. AllAfter(b[1], FirstOf(a)) BY <2>2, <1>3, AfterOne
    <2>5. AllAfter(b[1], ra) BY <2>2, <1>3, <1>9, AfterEarlier
    <2>6. \A e \in Entries : Times(FirstOf(b), e) + (Times(na.last, e) + Times(na.ia, e) + Times(na.ib, e))
                              = Times(m.last, e) + Times(m.ia, e) + Times(m.ib, e)
      BY <1>6, <1>8, <1>10 DEF Fields
    <2> QED BY <2>1, <2>3, <2>4, <2>5, <2>6, <1>3, <1>6, <1>9, GivesOne DEF Fields
  <1>12. CASE ~Greater(a[1], b[1])
    <2>1. next_item(m).item = FirstOf(a) /\ next_item(m).merge = nb BY <1>4, <1>12
    <2>2. InOrder(a[1], b[1]) BY <1>12 DEF InOrder
    <2>3. MergeInv(nb)
      <3>1. FirstOf(b)[1] = b[1] BY <1>3
      <3> QED BY <3>1, <1>7, <1>9, <1>3 DEF MergeInv, Fields
    <2>4. AllAfter(a[1], FirstOf(b)) BY <2>2, <1>3, AfterOne
    <2>5. AllAfter(a[1], rb) BY <2>2, <1>3, <1>9, AfterEarlier
    <2>6. \A e \in Entries : Times(FirstOf(a), e) + (Times(nb.last, e) + Times(nb.ia, e) + Times(nb.ib, e))
                              = Times(m.last, e) + Times(m.ia, e) + Times(m.ib, e)
      BY <1>7, <1>8, <1>10 DEF Fields
    <2> QED BY <2>1, <2>3, <2>4, <2>5, <2>6, <1>3, <1>7, <1>9, GivesOne DEF Fields
  <1> QED BY <1>11, <1>12

(* What is held of one side meets the other. *)
LEMMA MeetA ==
  ASSUME NEW m, MergeInv(m), m.last # <<>>, m.from_a
  PROVE  Gives(m, next_item(m).item, next_item(m).merge)
  <1> DEFINE own == m.ia
             other == m.ib
             rest == RestOf(other)
             m2 == [m EXCEPT !.ib = RestOf(@)]
             ended == [m EXCEPT !.last = <<>>]
             changed == [m2 EXCEPT !.last = FirstOf(other), !.from_a = ~@]
  <1>1. /\ m \in Merges /\ Ordered(own) /\ Ordered(other)
        /\ AllAfter(m.last[1], own)
    BY DEF MergeInv
  <1>2. PICK l \in Entries : m.last = <<l>> BY DEF MergeInv
  <1>3. own \in Seq(Entries) /\ other \in Seq(Entries) /\ rest \in Seq(Entries) /\ m.last[1] = l
    BY <1>1, <1>2, FirstRest DEF Merges
  <1>4. /\ AllAfter(l, own) /\ AllAfter(l, <<>>)
        /\ \A e \in Entries : /\ Times(<<>>, e) = 0
                              /\ Times(other, e) = Times(FirstOf(other), e) + Times(rest, e)
                              /\ Times(FirstOf(other), e) \in Nat /\ Times(rest, e) \in Nat
                              /\ Times(own, e) \in Nat /\ Times(m.last, e) \in Nat
    <2>1. m.last \in Seq(Entries) BY <1>1 DEF Merges
    <2> QED BY <2>1, <1>1, <1>2, <1>3, AfterNone, TimesNone, TimesFirst, TimesIs
  <1>5. m.ia = own /\ m.ib = other OBVIOUS
  <1>6. next_item(m) = IF FirstOf(other) = <<>> THEN [item |-> m.last, merge |-> ended]
                       ELSE IF Greater(l, FirstOf(other)[1]) THEN [item |-> FirstOf(other), merge |-> m2]
                       ELSE [item |-> m.last, merge |-> changed]
    BY <1>3 DEF next_item, Meet, Give, None
  <1>7. CASE other = <<>>
    <2>1. next_item(m).item = m.last /\ next_item(m).merge = ended
      <3>1. FirstOf(other) = <<>> BY <1>7 DEF FirstOf, None
      <3> HIDE DEF ended, m2, changed
      <3> QED BY <3>1, <1>6
    <2>2. Fields(ended, m.ia, m.ib, <<>>, m.from_a)
      <3>1. <<>> \in Seq(Entries) OBVIOUS
      <3> QED BY <3>1, <1>1 DEF Fields, Merges
    <2> HIDE DEF own, other, rest, ended, m2, changed
    <2>3. MergeInv(ended) BY <2>2, <1>1, <1>5 DEF MergeInv, Fields
    <2>4. AllAfter(l, other) BY <1>7, <1>4
    <2>5. \A e \in Entries : Times(m.last, e) + (Times(ended.last, e) + Times(ended.ia, e) + Times(ended.ib, e))
                              = Times(m.last, e) + Times(m.ia, e) + Times(m.ib, e)
      BY <2>2, <1>4, <1>5, <1>7 DEF Fields
    <2> QED BY <2>1, <2>2, <2>3, <2>4, <2>5, <1>2, <1>4, <1>5, GivesOne DEF Fields
  <1>8. CASE other # <<>>
    <2> DEFINE b == other[1]
    <2>1. FirstOf(other) = <<b>> /\ b \in Entries /\ FirstOf(other) # <<>> /\ FirstOf(other)[1] = b
          /\ FirstOf(other) \in Seq(Entries)
      BY SMTT(30), <1>8, <1>3, FirstRest
    <2>2. Ordered(rest) /\ AllAfter(b, rest) BY <1>8, <1>1, <1>3, OrderedRest
    <2>3. m2 \in Merges /\ m2.ia = own /\ m2.ib = rest /\ m2.last = m.last /\ m2.from_a = m.from_a
      BY <1>1, <1>3 DEF Merges
    <2> HIDE DEF m2
    <2>4. /\ changed \in Merges /\ changed.ia = own /\ changed.ib = rest
          /\ changed.last = FirstOf(other) /\ changed.from_a = ~m.from_a
      <3>1. FirstOf(other) \in Seq(Entries) BY <2>1
      <3>2. (~m2.from_a) \in BOOLEAN OBVIOUS
      <3> QED BY <3>1, <3>2, <2>3 DEF Merges
    <2> HIDE DEF own, other, rest, changed, b
    <2>5. CASE Greater(l, b)
      <3>1. next_item(m).item = FirstOf(other) /\ next_item(m).merge = m2 BY <1>6, <2>1, <2>5
      <3>2. InOrder(b, l) BY <2>1, <2>5, InOrderFacts
      <3>3. MergeInv(m2) BY <2>3, <2>2, <1>1, <1>2, <1>3 DEF MergeInv
      <3>4. AllAfter(b, m.last) BY <3>2, <1>2, AfterOne
      <3>5. AllAfter(b, own) BY <3>2, <2>1, <1>3, <1>4, AfterEarlier
      <3>6. \A e \in Entries : Times(FirstOf(other), e) + (Times(m2.last, e) + Times(m2.ia, e) + Times(m2.ib, e))
                                = Times(m.last, e) + Times(m.ia, e) + Times(m.ib, e)
        BY <2>3, <1>4, <1>5
      <3> QED BY <3>1, <3>3, <3>4, <3>5, <3>6, <2>1, <2>2, <2>3, GivesOne
    <2>6. CASE ~Greater(l, b)
      <3>1. next_item(m).item = m.last /\ next_item(m).merge = changed BY <1>6, <2>1, <2>6
      <3>2. InOrder(l, b) BY <2>6 DEF InOrder
      <3>3. MergeInv(changed) BY <2>4, <2>1, <2>2, <1>1 DEF MergeInv
      <3>4. AllAfter(l, FirstOf(other)) BY <3>2, <2>1, AfterOne
      <3>5. AllAfter(l, rest) BY <3>2, <2>1, <2>2, <1>3, AfterEarlier
      <3>6. \A e \in Entries :
              Times(m.last, e) + (Times(changed.last, e) + Times(changed.ia, e) + Times(changed.ib, e))
                = Times(m.last, e) + Times(m.ia, e) + Times(m.ib, e)
        BY <2>4, <1>4, <1>5
      <3> QED BY <3>1, <3>3, <3>4, <3>5, <3>6, <2>4, <1>2, <1>4, GivesOne
    <2> QED BY <2>5, <2>6
  <1> QED BY <1>7, <1>8

(* The same, of the other side. *)
LEMMA MeetB ==
  ASSUME NEW m, MergeInv(m), m.last # <<>>, ~m.from_a
  PROVE  Gives(m, next_item(m).item, next_item(m).merge)
  <1> DEFINE own == m.ib
             other == m.ia
             rest == RestOf(other)
             m2 == [m EXCEPT !.ia = RestOf(@)]
             ended == [m EXCEPT !.last = <<>>]
             changed == [m2 EXCEPT !.last = FirstOf(other), !.from_a = ~@]
  <1>1. /\ m \in Merges /\ Ordered(own) /\ Ordered(other)
        /\ AllAfter(m.last[1], own)
    BY DEF MergeInv
  <1>2. PICK l \in Entries : m.last = <<l>> BY DEF MergeInv
  <1>3. own \in Seq(Entries) /\ other \in Seq(Entries) /\ rest \in Seq(Entries) /\ m.last[1] = l
    BY <1>1, <1>2, FirstRest DEF Merges
  <1>4. /\ AllAfter(l, own) /\ AllAfter(l, <<>>)
        /\ \A e \in Entries : /\ Times(<<>>, e) = 0
                              /\ Times(other, e) = Times(FirstOf(other), e) + Times(rest, e)
                              /\ Times(FirstOf(other), e) \in Nat /\ Times(rest, e) \in Nat
                              /\ Times(own, e) \in Nat /\ Times(m.last, e) \in Nat
    <2>1. m.last \in Seq(Entries) BY <1>1 DEF Merges
    <2> QED BY <2>1, <1>1, <1>2, <1>3, AfterNone, TimesNone, TimesFirst, TimesIs
  <1>5. m.ib = own /\ m.ia = other OBVIOUS
  <1>6. next_item(m) = IF FirstOf(other) = <<>> THEN [item |-> m.last, merge |-> ended]
                       ELSE IF Greater(l, FirstOf(other)[1]) THEN [item |-> FirstOf(other), merge |-> m2]
                       ELSE [item |-> m.last, merge |-> changed]
    BY <1>3 DEF next_item, Meet, Give, None
  <1>7. CASE other = <<>>
    <2>1. next_item(m).item = m.last /\ next_item(m).merge = ended
      <3>1. FirstOf(other) = <<>> BY <1>7 DEF FirstOf, None
      <3> HIDE DEF ended, m2, changed
      <3> QED BY <3>1, <1>6
    <2>2. Fields(ended, m.ia, m.ib, <<>>, m.from_a)
      <3>1. <<>> \in Seq(Entries) OBVIOUS
      <3> QED BY <3>1, <1>1 DEF Fields, Merges
    <2> HIDE DEF own, other, rest, ended, m2, changed
    <2>3. MergeInv(ended) BY <2>2, <1>1, <1>5 DEF MergeInv, Fields
    <2>4. AllAfter(l, other) BY <1>7, <1>4
    <2>5. \A e \in Entries : Times(m.last, e) + (Times(ended.last, e) + Times(ended.ia, e) + Times(ended.ib, e))
                              = Times(m.last, e) + Times(m.ia, e) + Times(m.ib, e)
      BY <2>2, <1>4, <1>5, <1>7 DEF Fields
    <2> QED BY <2>1, <2>2, <2>3, <2>4, <2>5, <1>2, <1>4, <1>5, GivesOne DEF Fields
  <1>8. CASE other # <<>>
    <2> DEFINE b == other[1]
    <2>1. FirstOf(other) = <<b>> /\ b \in Entries /\ FirstOf(other) # <<>> /\ FirstOf(other)[1] = b
          /\ FirstOf(other) \in Seq(Entries)
      BY <1>8, <1>3, FirstRest
    <2>2. Ordered(rest) /\ AllAfter(b, rest) BY <1>8, <1>1, <1>3, OrderedRest
    <2>3. m2 \in Merges /\ m2.ib = own /\ m2.ia = rest /\ m2.last = m.last /\ m2.from_a = m.from_a
      BY <1>1, <1>3 DEF Merges
    <2> HIDE DEF m2
    <2>4. /\ changed \in Merges /\ changed.ib = own /\ changed.ia = rest
          /\ changed.last = FirstOf(other) /\ changed.from_a = ~m.from_a
      <3>1. FirstOf(other) \in Seq(Entries) BY <2>1
      <3>2. (~m2.from_a) \in BOOLEAN OBVIOUS
      <3> QED BY <3>1, <3>2, <2>3 DEF Merges
    <2> HIDE DEF own, other, rest, changed, b
    <2>5. CASE Greater(l, b)
      <3>1. next_item(m).item = FirstOf(other) /\ next_item(m).merge = m2 BY <1>6, <2>1, <2>5
      <3>2. InOrder(b, l) BY <2>1, <2>5, InOrderFacts
      <3>3. MergeInv(m2) BY <2>3, <2>2, <1>1, <1>2, <1>3 DEF MergeInv
      <3>4. AllAfter(b, m.last) BY <3>2, <1>2, AfterOne
      <3>5. AllAfter(b, own) BY <3>2, <2>1, <1>3, <1>4, AfterEarlier
      <3>6. \A e \in Entries : Times(FirstOf(other), e) + (Times(m2.last, e) + Times(m2.ia, e) + Times(m2.ib, e))
                                = Times(m.last, e) + Times(m.ia, e) + Times(m.ib, e)
        BY <2>3, <1>4, <1>5
      <3> QED BY <3>1, <3>3, <3>4, <3>5, <3>6, <2>1, <2>2, <2>3, GivesOne
    <2>6. CASE ~Greater(l, b)
      <3>1. next_item(m).item = m.last /\ next_item(m).merge = changed BY <1>6, <2>1, <2>6
      <3>2. InOrder(l, b) BY <2>6 DEF InOrder
      <3>3. MergeInv(changed) BY <2>4, <2>1, <2>2, <1>1 DEF MergeInv
      <3>4. AllAfter(l, FirstOf(other)) BY <3>2, <2>1, AfterOne
      <3>5. AllAfter(l, rest) BY <3>2, <2>1, <2>2, <1>3, AfterEarlier
      <3>6. \A e \in Entries :
              Times(m.last, e) + (Times(changed.last, e) + Times(changed.ia, e) + Times(changed.ib, e))
                = Times(m.last, e) + Times(m.ia, e) + Times(m.ib, e)
        BY <2>4, <1>4, <1>5
      <3> QED BY <3>1, <3>3, <3>4, <3>5, <3>6, <2>4, <1>2, <1>4, GivesOne
    <2> QED BY <2>5, <2>6
  <1> QED BY <1>7, <1>8

LEMMA NextItem == ASSUME NEW m, MergeInv(m) PROVE Gives(m, next_item(m).item, next_item(m).merge)
  BY BeginOne, BeginTwo, MeetA, MeetB

--------------------------------------------------------------------------------
(* The state of a DiffingIter. *)
Results == [kind : {"Added", "Removed", "Same", "Changed"}, old : Seq(Entries), new : Seq(Entries)]

Shaped(r) == \/ r.kind = "Added" /\ r.old = <<>> /\ \E e \in Entries : r.new = <<e>>
             \/ r.kind = "Removed" /\ r.new = <<>> /\ \E e \in Entries : r.old = <<e>>
             \/ r.kind = "Same" /\ r.new = <<>> /\ \E e \in Entries : r.old = <<e>>
             \/ /\ r.kind = "Changed"
                /\ \E o, n \in Entries : /\ r.old = <<o>> /\ r.new = <<n>>
                                         /\ o.name = n.name /\ o.value # n.value

(* The entry of the new side in a result. *)
NewOf(r) == IF r.kind = "Same" THEN r.old ELSE r.new
NameIn(r) == IF r.old = <<>> THEN r.new[1].name ELSE r.old[1].name

OldSide == /\ MergeInv(old)
           /\ \/ curr_old = <<>> /\ All(old) = <<>>
              \/ \E e \in Entries : curr_old = <<e>> /\ AllAfter(e, All(old))

NewSide == /\ new \in Seq(Entries) /\ Ordered(new)
           /\ \/ curr_new = <<>> /\ new = <<>>
              \/ \E e \in Entries : curr_new = <<e>> /\ AllAfter(e, new)

DiffTypes == /\ results \in Seq(Results)
             /\ \A i \in 1 .. Len(results) : Shaped(results[i])
             /\ olds \in Seq(Entries) /\ news \in Seq(Entries)

OldParts == \A e \in Entries : Times(OldsIn, e) + Times(curr_old, e) + Times(All(old), e) = Times(olds, e)
NewParts == (NewsIn \o curr_new) \o new = news

(* What a step of next() does to each side, for the result x that it returns. *)
OldMoves(x) ==
    \/ /\ x.old = curr_old /\ AdvanceOld
       /\ \E e \in Entries : curr_old = <<e>> /\ e.name = NameIn(x)
    \/ /\ x.old = <<>> /\ KeepOld
       /\ curr_old # <<>> => Less(NameIn(x), curr_old[1].name)
NewMoves(x) ==
    \/ /\ NewOf(x) = curr_new /\ AdvanceNew
       /\ \E e \in Entries : curr_new = <<e>> /\ e.name = NameIn(x)
    \/ /\ NewOf(x) = <<>> /\ KeepNew
       /\ curr_new # <<>> => Less(NameIn(x), curr_new[1].name)

(* A result with an entry of each side only. *)
Moves(x) == /\ x \in Results /\ Shaped(x)
            /\ results' = Append(results, x)
            /\ olds' = olds /\ news' = news
            /\ OldMoves(x) /\ NewMoves(x)

LEMMA DiffMoves ==
  ASSUME OldSide, NewSide, DiffNext
  PROVE  \E x : Moves(x)
  <1> USE DEF None, Return
  <1>1. curr_old # <<>> => \E e \in Entries : curr_old = <<e>> BY DEF OldSide
  <1>2. curr_new # <<>> => \E e \in Entries : curr_new = <<e>> BY DEF NewSide
  <1>3. <<>> \in Seq(Entries) /\ \A e \in Entries : /\ <<e>> \in Seq(Entries) /\ <<e>>[1] = e
                                                  /\ <<e>> # <<>>
    OBVIOUS
  <1>4. CASE Added
    <2> DEFINE x == [kind |-> "Added", old |-> <<>>, new |-> curr_new]
    <2>1. /\ results' = Append(results, x) /\ olds' = olds /\ news' = news
          /\ AdvanceNew /\ KeepOld BY <1>4 DEF Added
    <2>2. PICK n \in Entries : curr_new = <<n>> BY <1>2, <1>4 DEF Added, HasNew
    <2>3. x.kind = "Added" /\ x.old = <<>> /\ x.new = <<n>> /\ x \in Results
      BY <2>2, <1>3 DEF Results
    <2>4. curr_old # <<>> => Less(n.name, curr_old[1].name)
      BY <1>3, <1>4, <2>2 DEF Added, HasOld, OldName, NewName
    <2> HIDE DEF x
    <2>5. NameIn(x) = n.name /\ NewOf(x) = curr_new BY <2>2, <2>3, <1>3 DEF NameIn, NewOf
    <2>6. Shaped(x) BY <2>3 DEF Shaped
    <2>7. OldMoves(x) BY <2>1, <2>3, <2>4, <2>5 DEF OldMoves
    <2>8. NewMoves(x) BY <2>1, <2>2, <2>5 DEF NewMoves
    <2> QED BY <2>1, <2>3, <2>6, <2>7, <2>8 DEF Moves
  <1>5. CASE Removed
    <2> DEFINE x == [kind |-> "Removed", old |-> curr_old, new |-> <<>>]
    <2>1. /\ results' = Append(results, x) /\ olds' = olds /\ news' = news
          /\ AdvanceOld /\ KeepNew BY <1>5 DEF Removed
    <2>2. PICK o \in Entries : curr_old = <<o>> BY <1>1, <1>5 DEF Removed, HasOld
    <2>3. x.kind = "Removed" /\ x.old = <<o>> /\ x.new = <<>> /\ x \in Results
      BY <2>2, <1>3 DEF Results
    <2>4. curr_new # <<>> => Less(o.name, curr_new[1].name)
      BY <1>3, <1>5, <2>2 DEF Removed, HasNew, OldName, NewName
    <2> HIDE DEF x
    <2>5. NameIn(x) = o.name /\ NewOf(x) = <<>> BY <2>2, <2>3, <1>3 DEF NameIn, NewOf
    <2>6. Shaped(x) BY <2>3 DEF Shaped
    <2>7. OldMoves(x) BY <2>1, <2>2, <2>3, <2>5 DEF OldMoves
    <2>8. NewMoves(x) BY <2>1, <2>4, <2>5 DEF NewMoves
    <2> QED BY <2>1, <2>3, <2>6, <2>7, <2>8 DEF Moves
  <1>6. CASE Same
    <2> DEFINE x == [kind |-> "Same", old |-> curr_old, new |-> <<>>]
    <2>1. /\ results' = Append(results, x) /\ olds' = olds /\ news' = news
          /\ AdvanceOld /\ AdvanceNew BY <1>6 DEF Same
    <2>2. PICK o \in Entries : curr_old = <<o>> BY <1>1, <1>6 DEF Same, SameName, HasOld
    <2>3. PICK n \in Entries : curr_new = <<n>> BY <1>2, <1>6 DEF Same, SameName, HasNew
    <2>4. o = n
      <3>1. curr_old[1] = o /\ curr_new[1] = n BY <2>2, <2>3, <1>3
      <3>2. o.name = n.name /\ o.value = n.value
        BY <3>1, <1>6 DEF Same, SameName, SameValue, OldName, NewName
      <3> QED BY <3>2, EntryIs
    <2>5. x.kind = "Same" /\ x.old = <<o>> /\ x.new = <<>> /\ x \in Results
      BY <2>2, <1>3 DEF Results
    <2> HIDE DEF x
    <2>6. NameIn(x) = o.name /\ NewOf(x) = curr_new BY <2>3, <2>4, <2>5, <1>3 DEF NameIn, NewOf
    <2>7. Shaped(x) BY <2>5 DEF Shaped
    <2>8. OldMoves(x) BY <2>1, <2>2, <2>5, <2>6 DEF OldMoves
    <2>9. NewMoves(x) BY <2>1, <2>3, <2>4, <2>6 DEF NewMoves
    <2> QED BY <2>1, <2>5, <2>7, <2>8, <2>9 DEF Moves
  <1>7. CASE Changed
    <2> DEFINE x == [kind |-> "Changed", old |-> curr_old, new |-> curr_new]
    <2>1. /\ results' = Append(results, x) /\ olds' = olds /\ news' = news
          /\ AdvanceOld /\ AdvanceNew BY <1>7 DEF Changed
    <2>2. PICK o \in Entries : curr_old = <<o>> BY <1>1, <1>7 DEF Changed, SameName, HasOld
    <2>3. PICK n \in Entries : curr_new = <<n>> BY <1>2, <1>7 DEF Changed, SameName, HasNew
    <2>4. o.name = n.name /\ o.value # n.value
      <3>1. curr_old[1] = o /\ curr_new[1] = n BY <2>2, <2>3, <1>3
      <3> QED BY <3>1, <1>7 DEF Changed, SameName, SameValue, OldName, NewName
    <2>5. x.kind = "Changed" /\ x.old = <<o>> /\ x.new = <<n>> /\ x \in Results
      BY <2>2, <2>3, <1>3 DEF Results
    <2> HIDE DEF x
    <2>6. NameIn(x) = o.name /\ NewOf(x) = curr_new BY <2>3, <2>4, <2>5, <1>3 DEF NameIn, NewOf
    <2>7. Shaped(x) BY <2>4, <2>5 DEF Shaped
    <2>8. OldMoves(x) BY <2>1, <2>2, <2>5, <2>6 DEF OldMoves
    <2>9. NewMoves(x) BY <2>1, <2>3, <2>4, <2>6 DEF NewMoves
    <2> QED BY <2>1, <2>5, <2>7, <2>8, <2>9 DEF Moves
  <1> QED BY <1>4, <1>5, <1>6, <1>7 DEF DiffNext

LEMMA SideTypes ==
  ASSUME OldSide, NewSide
  PROVE  /\ curr_old \in Seq(Entries) /\ curr_new \in Seq(Entries) /\ new \in Seq(Entries)
         /\ old \in Merges /\ All(old) \in Seq(Entries)
  <1>1. \A e \in Entries : <<e>> \in Seq(Entries) OBVIOUS
  <1>2. <<>> \in Seq(Entries) OBVIOUS
  <1>3. old \in Merges BY DEF OldSide, MergeInv
  <1> QED BY <1>1, <1>2, <1>3, TimesAll DEF OldSide, NewSide

LEMMA SideTimes ==
  ASSUME OldSide, NEW e \in Entries
  PROVE  Times(curr_old, e) \in Nat /\ Times(All(old), e) \in Nat
  <1>1. <<>> \in Seq(Entries) /\ \A c \in Entries : <<c>> \in Seq(Entries) OBVIOUS
  <1>2. curr_old \in Seq(Entries) BY <1>1 DEF OldSide
  <1>3. old \in Merges BY DEF OldSide, MergeInv
  <1> QED BY <1>2, <1>3, TimesIs, TimesAll

(* The merge afterwards, of which the first is in hand. *)
LEMMA OldAdvances ==
  ASSUME OldSide, AdvanceOld
  PROVE  /\ OldSide'
         /\ \A e \in Entries : Times(curr_old', e) + Times(All(old'), e) = Times(All(old), e)
  <1>1. PICK i : i = next_item(old).item OBVIOUS
  <1>2. PICK n : n = next_item(old).merge OBVIOUS
  <1>3. curr_old' = i /\ old' = n BY <1>1, <1>2 DEF AdvanceOld
  <1>4. Gives(old, i, n) BY <1>1, <1>2, NextItem DEF OldSide
  <1>5. MergeInv(n) /\ \A e \in Entries : Times(i, e) + Times(All(n), e) = Times(All(old), e)
    BY <1>4 DEF Gives
  <1>6. (i = <<>> /\ All(n) = <<>>) \/ \E e \in Entries : i = <<e>> /\ AllAfter(e, All(n))
    BY <1>4 DEF Gives
  <1> QED BY <1>3, <1>5, <1>6 DEF OldSide

LEMMA NewAdvances ==
  ASSUME NewSide, AdvanceNew
  PROVE  NewSide' /\ curr_new' \o new' = new
  <1>1. new \in Seq(Entries) /\ Ordered(new) BY DEF NewSide
  <1>2. curr_new' = FirstOf(new) /\ new' = RestOf(new) BY DEF AdvanceNew
  <1>3. new' \in Seq(Entries) /\ curr_new' \o new' = new BY <1>1, <1>2, FirstRest
  <1>4. CASE new = <<>>
    <2>1. curr_new' = <<>> /\ new' = <<>> BY <1>1, <1>2, <1>4, FirstRest
    <2>2. Ordered(<<>>) BY DEF Ordered
    <2> QED BY <2>1, <2>2, <1>3 DEF NewSide
  <1>5. CASE new # <<>>
    <2>1. curr_new' = <<new[1]>> /\ new[1] \in Entries BY <1>1, <1>2, <1>5, FirstRest
    <2>2. Ordered(new') /\ AllAfter(new[1], new') BY <1>1, <1>2, <1>5, OrderedRest
    <2> QED BY <2>1, <2>2, <1>3 DEF NewSide
  <1> QED BY <1>4, <1>5

(* What all results give of both sides. *)
OldOfAll(rs) == [i \in DOMAIN rs |-> rs[i].old]
NewOfAll(rs) == [i \in DOMAIN rs |-> IF rs[i].kind = "Same" THEN rs[i].old ELSE rs[i].new]

LEMMA FunctionIsSeq ==
  ASSUME NEW S, NEW m \in Nat, NEW p \in [1 .. m -> S]
  PROVE  p \in Seq(S) /\ Len(p) = m
  OBVIOUS

LEMMA ResultsGrow ==
  ASSUME NEW rs \in Seq(Results), NEW x \in Results
  PROVE  /\ OldOfAll(rs) \in Seq(Seq(Entries)) /\ NewOfAll(rs) \in Seq(Seq(Entries))
         /\ OldOfAll(Append(rs, x)) = Append(OldOfAll(rs), x.old)
         /\ NewOfAll(Append(rs, x)) = Append(NewOfAll(rs), NewOf(x))
         /\ x.old \in Seq(Entries) /\ NewOf(x) \in Seq(Entries)
  <1> DEFINE m == Len(rs)
             all == Append(rs, x)
  <1>1. /\ all \in Seq(Results) /\ Len(all) = m + 1 /\ m \in Nat /\ all[m + 1] = x
        /\ \A i \in 1 .. m : all[i] = rs[i] /\ rs[i] \in Results
    BY AppendProperties, LenProperties, ElementOfSeq
  <1>2. DOMAIN rs = 1 .. m /\ DOMAIN all = 1 .. m + 1 BY <1>1, LenProperties
  <1>3. \A r \in Results : r.old \in Seq(Entries) /\ NewOf(r) \in Seq(Entries) BY DEF Results, NewOf
  <1> HIDE DEF m, all
  <1>4. ASSUME NEW p, p = [i \in 1 .. m |-> rs[i].old], NEW q, q = [i \in 1 .. m + 1 |-> all[i].old]
        PROVE  p \in Seq(Seq(Entries)) /\ q = Append(p, x.old)
    <2>1. \A i \in 1 .. m : p[i] = rs[i].old /\ p[i] \in Seq(Entries) BY <1>1, <1>3, <1>4
    <2>2. p \in [1 .. m -> Seq(Entries)] BY <2>1, <1>4
    <2>3. p \in Seq(Seq(Entries)) /\ Len(p) = m BY <2>2, <1>1, FunctionIsSeq
    <2>4. \A i \in 1 .. m + 1 : all[i] \in Results /\ q[i] = all[i].old
      BY <1>1, <1>4, ElementOfSeq
    <2>5. q \in [1 .. m + 1 -> Seq(Entries)] BY <2>4, <1>3, <1>4
    <2>6. q \in Seq(Seq(Entries)) /\ Len(q) = m + 1 BY <2>5, <1>1, FunctionIsSeq
    <2>7. x.old \in Seq(Entries) BY <1>3
    <2> DEFINE r == Append(p, x.old)
    <2>8. /\ r \in Seq(Seq(Entries)) /\ Len(r) = m + 1 /\ r[m + 1] = x.old
          /\ \A i \in 1 .. m : r[i] = p[i]
      BY <2>3, <2>7, AppendProperties
    <2> HIDE DEF r
    <2>9. \A i \in 1 .. m + 1 : i = m + 1 \/ i \in 1 .. m BY <1>1
    <2>10. \A i \in 1 .. Len(q) : q[i] = r[i] BY <2>1, <2>4, <2>6, <2>8, <2>9, <1>1
    <2>11. q = r BY <2>6, <2>8, <2>10, SeqEqual
    <2> QED BY <2>3, <2>11 DEF r
  <1>5. ASSUME NEW p, p = [i \in 1 .. m |-> NewOf(rs[i])], NEW q, q = [i \in 1 .. m + 1 |-> NewOf(all[i])]
        PROVE  p \in Seq(Seq(Entries)) /\ q = Append(p, NewOf(x))
    <2>1. \A i \in 1 .. m : p[i] = NewOf(rs[i]) /\ p[i] \in Seq(Entries) BY <1>1, <1>3, <1>5
    <2>2. p \in [1 .. m -> Seq(Entries)] BY <2>1, <1>5
    <2>3. p \in Seq(Seq(Entries)) /\ Len(p) = m BY <2>2, <1>1, FunctionIsSeq
    <2>4. \A i \in 1 .. m + 1 : all[i] \in Results /\ q[i] = NewOf(all[i])
      BY <1>1, <1>5, ElementOfSeq
    <2>5. q \in [1 .. m + 1 -> Seq(Entries)] BY <2>4, <1>3, <1>5
    <2>6. q \in Seq(Seq(Entries)) /\ Len(q) = m + 1 BY <2>5, <1>1, FunctionIsSeq
    <2>7. NewOf(x) \in Seq(Entries) BY <1>3
    <2> DEFINE r == Append(p, NewOf(x))
    <2>8. /\ r \in Seq(Seq(Entries)) /\ Len(r) = m + 1 /\ r[m + 1] = NewOf(x)
          /\ \A i \in 1 .. m : r[i] = p[i]
      BY <2>3, <2>7, AppendProperties
    <2> HIDE DEF r
    <2>9. \A i \in 1 .. m + 1 : i = m + 1 \/ i \in 1 .. m BY <1>1
    <2>10. \A i \in 1 .. Len(q) : q[i] = r[i] BY <2>1, <2>4, <2>6, <2>8, <2>9, <1>1
    <2>11. q = r BY <2>6, <2>8, <2>10, SeqEqual
    <2> QED BY <2>3, <2>11 DEF r
  <1>6. /\ OldOfAll(rs) = [i \in 1 .. m |-> rs[i].old]
        /\ OldOfAll(all) = [i \in 1 .. m + 1 |-> all[i].old] BY <1>2 DEF OldOfAll
  <1>7. /\ NewOfAll(rs) = [i \in 1 .. m |-> NewOf(rs[i])]
        /\ NewOfAll(all) = [i \in 1 .. m + 1 |-> NewOf(all[i])] BY <1>2 DEF NewOfAll, NewOf
  <1>8. OldOfAll(rs) \in Seq(Seq(Entries)) /\ OldOfAll(all) = Append(OldOfAll(rs), x.old) BY <1>4, <1>6
  <1>9. NewOfAll(rs) \in Seq(Seq(Entries)) /\ NewOfAll(all) = Append(NewOfAll(rs), NewOf(x)) BY <1>5, <1>7
  <1> QED BY <1>3, <1>8, <1>9 DEF all

LEMMA InsGrow ==
  ASSUME results \in Seq(Results), NEW x \in Results, results' = Append(results, x)
  PROVE  /\ OldsIn \in Seq(Entries) /\ OldsIn' = OldsIn \o x.old
         /\ NewsIn \in Seq(Entries) /\ NewsIn' = NewsIn \o NewOf(x)
         /\ x.old \in Seq(Entries) /\ NewOf(x) \in Seq(Entries)
  <1>1. OldsIn = FlattenSeq(OldOfAll(results)) BY DEF OldsIn, OldOfAll
  <1>2. NewsIn = FlattenSeq(NewOfAll(results)) BY DEF NewsIn, NewOfAll
  <1>3. OldsIn' = FlattenSeq(OldOfAll(results')) BY DEF OldsIn, OldOfAll
  <1>4. NewsIn' = FlattenSeq(NewOfAll(results')) BY DEF NewsIn, NewOfAll
  <1>5. PICK rs \in Seq(Results) : rs = results OBVIOUS
  <1>6. /\ OldOfAll(rs) \in Seq(Seq(Entries)) /\ NewOfAll(rs) \in Seq(Seq(Entries))
        /\ OldOfAll(Append(rs, x)) = Append(OldOfAll(rs), x.old)
        /\ NewOfAll(Append(rs, x)) = Append(NewOfAll(rs), NewOf(x))
        /\ x.old \in Seq(Entries) /\ NewOf(x) \in Seq(Entries)
    BY ResultsGrow
  <1>7. /\ FlattenSeq(Append(OldOfAll(rs), x.old)) = FlattenSeq(OldOfAll(rs)) \o x.old
        /\ FlattenSeq(OldOfAll(rs)) \in Seq(Entries)
    BY <1>6, FlattenAppend
  <1>8. /\ FlattenSeq(Append(NewOfAll(rs), NewOf(x))) = FlattenSeq(NewOfAll(rs)) \o NewOf(x)
        /\ FlattenSeq(NewOfAll(rs)) \in Seq(Entries)
    BY <1>6, FlattenAppend
  <1> QED BY <1>1, <1>2, <1>3, <1>4, <1>5, <1>6, <1>7, <1>8

LEMMA ThreeParts ==
  ASSUME NEW a \in Seq(Entries), NEW b \in Seq(Entries), NEW c \in Seq(Entries)
  PROVE  (a \o b) \o c = a \o (b \o c)
  OBVIOUS

LEMMA PartsKept ==
  ASSUME OldSide, NewSide, DiffTypes, OldParts, NewParts, NEW x, Moves(x)
  PROVE  OldSide' /\ NewSide' /\ DiffTypes' /\ OldParts' /\ NewParts'
  <1>1. x \in Results /\ Shaped(x) /\ results' = Append(results, x) /\ olds' = olds /\ news' = news
    BY DEF Moves
  <1>2. /\ OldsIn \in Seq(Entries) /\ OldsIn' = OldsIn \o x.old
        /\ NewsIn \in Seq(Entries) /\ NewsIn' = NewsIn \o NewOf(x)
    BY <1>1, InsGrow DEF DiffTypes
  <1>3. DiffTypes'
    <2>1. results' \in Seq(Results) /\ Len(results') = Len(results) + 1 /\ Len(results) \in Nat
          /\ results'[Len(results) + 1] = x /\ \A i \in 1 .. Len(results) : results'[i] = results[i]
      BY <1>1, AppendProperties, LenProperties DEF DiffTypes
    <2>2. \A i \in 1 .. Len(results') : i = Len(results) + 1 \/ i \in 1 .. Len(results) BY <2>1
    <2>3. \A i \in 1 .. Len(results') : Shaped(results'[i]) BY <2>1, <2>2, <1>1 DEF DiffTypes
    <2> QED BY <2>1, <2>3, <1>1 DEF DiffTypes
  <1>4. OldSide' /\ OldParts'
    <2>1. CASE x.old = curr_old /\ AdvanceOld
      <3>1. /\ OldSide'
            /\ \A e \in Entries : Times(curr_old', e) + Times(All(old'), e) = Times(All(old), e)
        BY <2>1, OldAdvances
      <3>2. curr_old \in Seq(Entries) BY SideTypes
      <3>3. \A e \in Entries : Times(OldsIn', e) = Times(OldsIn, e) + Times(curr_old, e)
        BY <1>2, <2>1, <3>2, TimesConcat
      <3>4. \A e \in Entries : Times(OldsIn, e) \in Nat BY <1>2, TimesIs
      <3>5. \A e \in Entries : Times(curr_old, e) \in Nat /\ Times(All(old), e) \in Nat BY SideTimes
      <3>6. PICK c : c = curr_old' OBVIOUS
      <3>7. PICK o : o = old' OBVIOUS
      <3>8. \A e \in Entries : Times(c, e) \in Nat /\ Times(All(o), e) \in Nat
        <4>1. MergeInv(o) /\ (c = <<>> \/ \E e \in Entries : c = <<e>>) BY <3>1, <3>6, <3>7 DEF OldSide
        <4>2. \A e \in Entries : <<e>> \in Seq(Entries) OBVIOUS
        <4>3. <<>> \in Seq(Entries) OBVIOUS
        <4>4. c \in Seq(Entries) /\ o \in Merges BY <4>1, <4>2, <4>3 DEF MergeInv
        <4>5. All(o) \in Seq(Entries) BY <4>4, TimesAll
        <4> QED BY <4>4, <4>5, TimesIs
      <3>9. ASSUME NEW e \in Entries
            PROVE  Times(OldsIn', e) + Times(curr_old', e) + Times(All(old'), e) = Times(olds', e)
        <4>1. Times(curr_old', e) + Times(All(old'), e) = Times(All(old), e) BY <3>1
        <4>2. Times(OldsIn', e) = Times(OldsIn, e) + Times(curr_old, e) BY <3>3
        <4>3. Times(OldsIn, e) + Times(curr_old, e) + Times(All(old), e) = Times(olds, e) BY DEF OldParts
        <4>4. Times(olds', e) = Times(olds, e) BY <1>1
        <4>5. Times(curr_old', e) \in Nat /\ Times(All(old'), e) \in Nat BY <3>6, <3>7, <3>8
        <4> QED BY <4>1, <4>2, <4>3, <4>4, <4>5, <3>4, <3>5
      <3> QED BY <3>1, <3>9 DEF OldParts
    <2>2. CASE x.old = <<>> /\ KeepOld
      <3>1. OldsIn' = OldsIn BY <1>2, <2>2, ConcatEmptySeq
      <3>2. curr_old' = curr_old /\ old' = old BY <2>2 DEF KeepOld
      <3> QED BY <3>1, <3>2, <1>1 DEF OldSide, OldParts
    <2> QED BY <2>1, <2>2 DEF Moves, OldMoves
  <1>5. NewSide' /\ NewParts'
    <2>0. curr_new \in Seq(Entries) /\ new \in Seq(Entries) BY SideTypes
    <2>1. CASE NewOf(x) = curr_new /\ AdvanceNew
      <3>1. NewSide' /\ curr_new' \o new' = new BY <2>1, NewAdvances
      <3>2. PICK c : c = curr_new' OBVIOUS
      <3>3. PICK n : n = new' OBVIOUS
      <3>4. c \in Seq(Entries) /\ n \in Seq(Entries)
        <4>1. \A e \in Entries : <<e>> \in Seq(Entries) OBVIOUS
        <4>2. <<>> \in Seq(Entries) OBVIOUS
        <4> QED BY <3>1, <3>2, <3>3, <4>1, <4>2 DEF NewSide
      <3>5. NewsIn \o curr_new \in Seq(Entries) BY <1>2, <2>0, ConcatProperties
      <3>6. ((NewsIn \o curr_new) \o c) \o n = (NewsIn \o curr_new) \o (c \o n)
        <4>1. PICK p \in Seq(Entries) : p = NewsIn \o curr_new BY <3>5
        <4>2. (p \o c) \o n = p \o (c \o n) BY <3>4, ThreeParts
        <4> QED BY <4>1, <4>2
      <3>7. (NewsIn' \o curr_new') \o new' = (NewsIn \o curr_new) \o new
        BY <3>1, <3>2, <3>3, <3>6, <1>2, <2>1
      <3> QED BY <3>1, <3>7, <1>1 DEF NewParts
    <2>2. CASE NewOf(x) = <<>> /\ KeepNew
      <3>1. NewsIn' = NewsIn BY <1>2, <2>2, ConcatEmptySeq
      <3>2. curr_new' = curr_new /\ new' = new BY <2>2 DEF KeepNew
      <3> QED BY <3>1, <3>2, <1>1 DEF NewSide, NewParts
    <2> QED BY <2>1, <2>2 DEF Moves, NewMoves
  <1> QED BY <1>3, <1>4, <1>5

(* What is left of each side is not before what is in hand. *)
OldLeft == ToSet(curr_old) \union ToSet(All(old))
NewLeft == ToSet(curr_new) \union ToSet(new)
NotLater(a, b) == a = b \/ Less(a, b)

LEMMA AfterSet ==
  ASSUME NEW s \in Seq(Entries), NEW d, AllAfter(d, s), NEW e \in ToSet(s)
  PROVE  e \in Entries /\ InOrder(d, e)
  <1>1. PICK i \in 1 .. Len(s) : e = s[i] BY LenProperties DEF ToSet
  <1> QED BY <1>1, ElementOfSeq DEF AllAfter

LEMMA OneSet == ASSUME NEW e PROVE ToSet(<<e>>) = {e} BY DEF ToSet
LEMMA NoneSet == ToSet(<<>>) = {} BY DEF ToSet

LEMMA OldLeftAfter ==
  ASSUME OldSide, NEW e \in OldLeft
  PROVE  e \in Entries /\ \E c \in Entries : curr_old = <<c>> /\ InOrder(c, e)
  <1>0. old \in Merges BY DEF OldSide, MergeInv
  <1>1. All(old) \in Seq(Entries) BY <1>0, TimesAll
  <1>2. CASE curr_old = <<>> /\ All(old) = <<>> BY <1>2, NoneSet DEF OldLeft
  <1>3. CASE \E c \in Entries : curr_old = <<c>> /\ AllAfter(c, All(old))
    <2>1. PICK c \in Entries : curr_old = <<c>> /\ AllAfter(c, All(old)) BY <1>3
    <2>2. CASE e \in ToSet(curr_old)
      <3>1. e = c BY <2>1, <2>2, OneSet
      <3> QED BY <3>1, <2>1, InOrderFacts
    <2>3. CASE e \in ToSet(All(old)) BY <2>1, <2>3, <1>1, AfterSet
    <2> QED BY <2>2, <2>3 DEF OldLeft
  <1> QED BY <1>2, <1>3 DEF OldSide

LEMMA NewLeftAfter ==
  ASSUME NewSide, NEW e \in NewLeft
  PROVE  e \in Entries /\ \E c \in Entries : curr_new = <<c>> /\ InOrder(c, e)
  <1>1. new \in Seq(Entries) BY DEF NewSide
  <1>2. CASE curr_new = <<>> /\ new = <<>> BY <1>2, NoneSet DEF NewLeft
  <1>3. CASE \E c \in Entries : curr_new = <<c>> /\ AllAfter(c, new)
    <2>1. PICK c \in Entries : curr_new = <<c>> /\ AllAfter(c, new) BY <1>3
    <2>2. CASE e \in ToSet(curr_new)
      <3>1. e = c BY <2>1, <2>2, OneSet
      <3> QED BY <3>1, <2>1, InOrderFacts
    <2>3. CASE e \in ToSet(new) BY <2>1, <2>3, <1>1, AfterSet
    <2> QED BY <2>2, <2>3 DEF NewLeft
  <1> QED BY <1>2, <1>3 DEF NewSide

(* A step takes one entry from each side that it moves, and nothing else. *)
LEMMA OldMovesLeft ==
  ASSUME OldSide, AdvanceOld
  PROVE  OldLeft' = ToSet(All(old))
  <1>1. OldSide' /\ \A e \in Entries : Times(curr_old', e) + Times(All(old'), e) = Times(All(old), e)
    BY OldAdvances
  <1>2. PICK c : c = curr_old' OBVIOUS
  <1>3. PICK o : o = old' OBVIOUS
  <1>4. c \in Seq(Entries) /\ o \in Merges
    <2>1. MergeInv(o) /\ (c = <<>> \/ \E e \in Entries : c = <<e>>) BY <1>1, <1>2, <1>3 DEF OldSide
    <2>2. \A e \in Entries : <<e>> \in Seq(Entries) OBVIOUS
    <2>3. <<>> \in Seq(Entries) OBVIOUS
    <2> QED BY <2>1, <2>2, <2>3 DEF MergeInv
  <1>5. All(o) \in Seq(Entries) BY <1>4, TimesAll
  <1>6. old \in Merges BY DEF OldSide, MergeInv
  <1>7. All(old) \in Seq(Entries) BY <1>6, TimesAll
  <1>8. \A e \in Entries : Times(c, e) + Times(All(o), e) = Times(All(old), e) BY <1>1, <1>2, <1>3
  <1>9. \A e \in Entries : Times(c, e) \in Nat /\ Times(All(o), e) \in Nat BY <1>4, <1>5, TimesIs
  <1>10. \A e \in Entries : e \in ToSet(All(old)) <=> e \in ToSet(c) \/ e \in ToSet(All(o))
    <2> SUFFICES ASSUME NEW e \in Entries
                 PROVE  e \in ToSet(All(old)) <=> e \in ToSet(c) \/ e \in ToSet(All(o)) OBVIOUS
    <2>1. e \in ToSet(All(old)) <=> Times(All(old), e) # 0 BY <1>7, TimesPositive
    <2>2. e \in ToSet(c) <=> Times(c, e) # 0 BY <1>4, TimesPositive
    <2>3. e \in ToSet(All(o)) <=> Times(All(o), e) # 0 BY <1>5, TimesPositive
    <2> QED BY <2>1, <2>2, <2>3, <1>8, <1>9
  <1>11. \A s \in Seq(Entries) : ToSet(s) \subseteq Entries
    <2>1. ASSUME NEW s \in Seq(Entries) PROVE ToSet(s) \subseteq Entries
      <3>1. \A i \in DOMAIN s : s[i] \in Entries BY LenProperties, ElementOfSeq
      <3> QED BY <3>1 DEF ToSet
    <2> QED BY <2>1
  <1>12. ToSet(c) \union ToSet(All(o)) = ToSet(All(old)) BY <1>4, <1>5, <1>7, <1>10, <1>11
  <1> QED BY <1>2, <1>3, <1>12 DEF OldLeft

LEMMA ConcatSet ==
  ASSUME NEW S, NEW s \in Seq(S), NEW t \in Seq(S)
  PROVE  ToSet(s \o t) = ToSet(s) \union ToSet(t)
  <1> DEFINE u == s \o t
  <1>1. /\ u \in Seq(S) /\ Len(u) = Len(s) + Len(t) /\ Len(s) \in Nat /\ Len(t) \in Nat
        /\ \A i \in 1 .. Len(s) + Len(t) : u[i] = IF i <= Len(s) THEN s[i] ELSE t[i - Len(s)]
    BY ConcatProperties, LenProperties
  <1>2. DOMAIN s = 1 .. Len(s) /\ DOMAIN t = 1 .. Len(t) /\ DOMAIN u = 1 .. Len(s) + Len(t)
    BY <1>1, LenProperties
  <1> HIDE DEF u
  <1>3. ToSet(u) \subseteq ToSet(s) \union ToSet(t)
    <2>1. \A i \in 1 .. Len(s) + Len(t) : IF i <= Len(s) THEN i \in 1 .. Len(s)
                                          ELSE i - Len(s) \in 1 .. Len(t) BY <1>1
    <2> QED BY <2>1, <1>1, <1>2 DEF ToSet
  <1>4. ToSet(s) \subseteq ToSet(u)
    <2>1. \A i \in 1 .. Len(s) : i \in 1 .. Len(s) + Len(t) /\ i <= Len(s) BY <1>1
    <2> QED BY <2>1, <1>1, <1>2 DEF ToSet
  <1>5. ToSet(t) \subseteq ToSet(u)
    <2>1. ASSUME NEW i \in 1 .. Len(t) PROVE t[i] \in ToSet(u)
      <3>1. Len(s) + i \in 1 .. Len(s) + Len(t) /\ ~(Len(s) + i <= Len(s)) /\ (Len(s) + i) - Len(s) = i
        BY <1>1
      <3>2. u[Len(s) + i] = t[i] BY <3>1, <1>1
      <3> QED BY <3>1, <3>2, <1>2 DEF ToSet
    <2> QED BY <2>1, <1>2 DEF ToSet
  <1> QED BY <1>3, <1>4, <1>5 DEF u

LEMMA NewMovesLeft ==
  ASSUME NewSide, AdvanceNew
  PROVE  NewLeft' = ToSet(new)
  <1>1. NewSide' /\ curr_new' \o new' = new BY NewAdvances
  <1>2. PICK c : c = curr_new' OBVIOUS
  <1>3. PICK n : n = new' OBVIOUS
  <1>4. c \in Seq(Entries) /\ n \in Seq(Entries)
    <2>1. \A e \in Entries : <<e>> \in Seq(Entries) OBVIOUS
    <2>2. <<>> \in Seq(Entries) OBVIOUS
    <2> QED BY <1>1, <1>2, <1>3, <2>1, <2>2 DEF NewSide
  <1>5. ToSet(c \o n) = ToSet(c) \union ToSet(n) BY <1>4, ConcatSet
  <1> QED BY <1>1, <1>2, <1>3, <1>5 DEF NewLeft

LEMMA MovesFrom ==
  ASSUME OldSide, NewSide, NEW x, Moves(x)
  PROVE  /\ OldLeft' \subseteq OldLeft /\ NewLeft' \subseteq NewLeft
         /\ \E e \in OldLeft \union NewLeft : e.name = NameIn(x)
         /\ NameIn(x) \in Arrays
         /\ \A e \in OldLeft' \union NewLeft' : NotLater(NameIn(x), e.name)
         /\ \A e \in OldLeft \union NewLeft : NotLater(NameIn(x), e.name)
         /\ x.old = <<>> => \A e \in OldLeft : Less(NameIn(x), e.name)
         /\ NewOf(x) = <<>> => \A e \in NewLeft : Less(NameIn(x), e.name)
         /\ x.old # <<>> => /\ AdvanceOld /\ x.old = curr_old
                            /\ OldLeft' = ToSet(All(old))
         /\ NewOf(x) # <<>> => /\ AdvanceNew /\ NewOf(x) = curr_new
                               /\ NewLeft' = ToSet(new)
  <1> DEFINE name == NameIn(x)
  <1>0. OldMoves(x) /\ NewMoves(x) /\ Shaped(x) BY DEF Moves
  <1>1. \A e \in Entries : <<e>> # <<>> /\ <<e>>[1] = e /\ ToSet(<<e>>) = {e} BY OneSet
  <1>2. x.old # <<>> \/ NewOf(x) # <<>> BY <1>0, <1>1 DEF Shaped, NewOf
  <1>4. x.old # <<>> => /\ x.old = curr_old /\ AdvanceOld
                        /\ \E e \in Entries : curr_old = <<e>> /\ e.name = name
    BY <1>0 DEF OldMoves
  <1>5. x.old = <<>> => /\ KeepOld
                        /\ curr_old # <<>> => Less(name, curr_old[1].name)
    BY <1>0, <1>1 DEF OldMoves
  <1>6. NewOf(x) # <<>> => /\ NewOf(x) = curr_new /\ AdvanceNew
                           /\ \E e \in Entries : curr_new = <<e>> /\ e.name = name
    BY <1>0 DEF NewMoves
  <1>7. NewOf(x) = <<>> => /\ KeepNew
                           /\ curr_new # <<>> => Less(name, curr_new[1].name)
    BY <1>0, <1>1 DEF NewMoves
  <1> HIDE DEF name
  <1>8. x.old # <<>> => OldLeft' = ToSet(All(old)) /\ \E e \in OldLeft : e.name = name
    BY <1>1, <1>4, OldMovesLeft DEF OldLeft
  <1>9. NewOf(x) # <<>> => NewLeft' = ToSet(new) /\ \E e \in NewLeft : e.name = name
    BY <1>1, <1>6, NewMovesLeft DEF NewLeft
  <1>10. x.old = <<>> => OldLeft' = OldLeft BY <1>5 DEF KeepOld, OldLeft
  <1>11. NewOf(x) = <<>> => NewLeft' = NewLeft BY <1>7 DEF KeepNew, NewLeft
  <1>12. OldLeft' \subseteq OldLeft /\ NewLeft' \subseteq NewLeft
    BY <1>8, <1>9, <1>10, <1>11 DEF OldLeft, NewLeft
  <1>13. \E e \in OldLeft \union NewLeft : e.name = name BY <1>2, <1>8, <1>9
  <1>14. \A e \in OldLeft \union NewLeft : e \in Entries BY OldLeftAfter, NewLeftAfter
  <1>15. name \in Arrays BY <1>13, <1>14, EntryFields
  <1>16. ASSUME x.old = <<>>, NEW e \in OldLeft PROVE Less(name, e.name)
    <2>1. PICK c \in Entries : curr_old = <<c>> /\ InOrder(c, e) BY OldLeftAfter
    <2>2. Less(name, c.name) BY <2>1, <1>1, <1>5, <1>16
    <2>3. e \in Entries BY <1>14
    <2>4. Less(c.name, e.name) \/ c.name = e.name BY <2>1, <2>3, InOrderFacts
    <2> QED BY <2>1, <2>2, <2>3, <2>4, <1>15, EntryFields, LessTransitive
  <1>17. ASSUME NewOf(x) = <<>>, NEW e \in NewLeft PROVE Less(name, e.name)
    <2>1. PICK c \in Entries : curr_new = <<c>> /\ InOrder(c, e) BY NewLeftAfter
    <2>2. Less(name, c.name) BY <2>1, <1>1, <1>7, <1>17
    <2>3. e \in Entries BY <1>14
    <2>4. Less(c.name, e.name) \/ c.name = e.name BY <2>1, <2>3, InOrderFacts
    <2> QED BY <2>1, <2>2, <2>3, <2>4, <1>15, EntryFields, LessTransitive
  <1>18. ASSUME x.old # <<>>, NEW e \in OldLeft PROVE NotLater(name, e.name)
    <2>1. PICK c \in Entries : curr_old = <<c>> /\ InOrder(c, e) BY OldLeftAfter
    <2>2. name = c.name BY <2>1, <1>1, <1>4, <1>18
    <2>3. e \in Entries BY <1>14
    <2>4. Less(c.name, e.name) \/ c.name = e.name BY <2>1, <2>3, InOrderFacts
    <2> QED BY <2>2, <2>4 DEF NotLater
  <1>19. ASSUME NewOf(x) # <<>>, NEW e \in NewLeft PROVE NotLater(name, e.name)
    <2>1. PICK c \in Entries : curr_new = <<c>> /\ InOrder(c, e) BY NewLeftAfter
    <2>2. name = c.name BY <2>1, <1>1, <1>6, <1>19
    <2>3. e \in Entries BY <1>14
    <2>4. Less(c.name, e.name) \/ c.name = e.name BY <2>1, <2>3, InOrderFacts
    <2> QED BY <2>2, <2>4 DEF NotLater
  <1>20. \A e \in OldLeft \union NewLeft : NotLater(name, e.name)
    BY <1>16, <1>17, <1>18, <1>19 DEF NotLater
  <1>21. \A e \in OldLeft' \union NewLeft' : NotLater(name, e.name) BY <1>12, <1>20
  <1> QED BY <1>4, <1>6, <1>8, <1>9, <1>12, <1>13, <1>15, <1>16, <1>17, <1>20, <1>21 DEF name

--------------------------------------------------------------------------------
(* The order of the results, and where the entries of both sides are. *)
ResultsBefore == \A i \in 1 .. Len(results), e \in OldLeft \union NewLeft : NotLater(NameIn(results[i]), e.name)
ResultsOrdered == \A i, j \in 1 .. Len(results) : i < j => NotLater(NameIn(results[i]), NameIn(results[j]))
OldsBefore == Ordered(OldsIn) /\ \A o \in ToSet(OldsIn), e \in OldLeft : InOrder(o, e)
OldsCome == \A e \in ToSet(olds) : e \in OldLeft \/ \E i \in 1 .. Len(results) : results[i].old = <<e>>
NewsCome == \A e \in ToSet(news) : e \in NewLeft \/ \E i \in 1 .. Len(results) : NewOf(results[i]) = <<e>>

Resulting(x) == /\ results' \in Seq(Results) /\ Len(results') = Len(results) + 1 /\ Len(results) \in Nat
                /\ results'[Len(results) + 1] = x
                /\ \A i \in 1 .. Len(results) : results'[i] = results[i] /\ i \in 1 .. Len(results')
                /\ \A i \in 1 .. Len(results') : i = Len(results) + 1 \/ i \in 1 .. Len(results)
                /\ Len(results) + 1 \in 1 .. Len(results')

LEMMA ResultsStep ==
  ASSUME DiffTypes, NEW x, Moves(x)
  PROVE  Resulting(x)
  <1>1. /\ results' \in Seq(Results) /\ Len(results') = Len(results) + 1 /\ Len(results) \in Nat
        /\ results'[Len(results) + 1] = x /\ \A i \in 1 .. Len(results) : results'[i] = results[i]
    BY AppendProperties, LenProperties DEF DiffTypes, Moves
  <1>2. \A i \in 1 .. Len(results') : i = Len(results) + 1 \/ i \in 1 .. Len(results) BY <1>1
  <1>3. \A i \in 1 .. Len(results) : i \in 1 .. Len(results') BY <1>1
  <1>4. Len(results) + 1 \in 1 .. Len(results') BY <1>1
  <1> QED BY <1>1, <1>2, <1>3, <1>4 DEF Resulting

LEMMA OrderKept ==
  ASSUME OldSide, NewSide, DiffTypes, ResultsBefore, ResultsOrdered, NEW x, Moves(x)
  PROVE  ResultsBefore' /\ ResultsOrdered'
  <1>1. /\ OldLeft' \subseteq OldLeft /\ NewLeft' \subseteq NewLeft
        /\ \E e \in OldLeft \union NewLeft : e.name = NameIn(x)
        /\ \A e \in OldLeft' \union NewLeft' : NotLater(NameIn(x), e.name)
    BY MovesFrom
  <1>2. Resulting(x) BY ResultsStep
  <1>3. \A i \in 1 .. Len(results) : NotLater(NameIn(results[i]), NameIn(x)) BY <1>1 DEF ResultsBefore
  <1>4. ASSUME NEW i \in 1 .. Len(results'), NEW e \in OldLeft' \union NewLeft'
        PROVE  NotLater(NameIn(results'[i]), e.name)
    <2>1. CASE i = Len(results) + 1 BY <2>1, <1>1, <1>2 DEF Resulting
    <2>2. CASE i \in 1 .. Len(results)
      <3>1. e \in OldLeft \union NewLeft BY <1>1
      <3> QED BY <2>2, <3>1, <1>2 DEF Resulting, ResultsBefore
    <2> QED BY <2>1, <2>2, <1>2 DEF Resulting
  <1>5. ASSUME NEW i \in 1 .. Len(results'), NEW j \in 1 .. Len(results'), i < j
        PROVE  NotLater(NameIn(results'[i]), NameIn(results'[j]))
    <2>1. i \in 1 .. Len(results) /\ results'[i] = results[i] BY <1>2, <1>5 DEF Resulting
    <2>2. CASE j = Len(results) + 1
      <3>1. results'[j] = x BY <2>2, <1>2 DEF Resulting
      <3> QED BY <2>1, <3>1, <1>3
    <2>3. CASE j \in 1 .. Len(results)
      <3>1. results'[j] = results[j] BY <2>3, <1>2 DEF Resulting
      <3> QED BY <2>1, <2>3, <3>1, <1>5 DEF ResultsOrdered
    <2> QED BY <2>2, <2>3, <1>2 DEF Resulting
  <1>6. ResultsBefore' BY <1>4 DEF ResultsBefore
  <1>7. ResultsOrdered' BY <1>5 DEF ResultsOrdered
  <1> QED BY <1>6, <1>7

LEMMA OrderedAppend ==
  ASSUME NEW s \in Seq(Entries), NEW c \in Entries, Ordered(s), \A o \in ToSet(s) : InOrder(o, c)
  PROVE  Ordered(s \o <<c>>) /\ ToSet(s \o <<c>>) = ToSet(s) \union {c}
  <1> DEFINE u == s \o <<c>>
  <1>1. <<c>> \in Seq(Entries) /\ Len(<<c>>) = 1 /\ <<c>>[1] = c OBVIOUS
  <1>2. /\ Len(u) = Len(s) + 1 /\ Len(s) \in Nat
        /\ \A i \in 1 .. Len(s) + 1 : u[i] = IF i <= Len(s) THEN s[i] ELSE <<c>>[i - Len(s)]
    BY <1>1, ConcatProperties, LenProperties
  <1>3. ToSet(u) = ToSet(s) \union {c}
    <2>1. ToSet(s \o <<c>>) = ToSet(s) \union ToSet(<<c>>) BY ZenonT(60), <1>1, ConcatSet
    <2> QED BY <2>1, OneSet
  <1> HIDE DEF u
  <1>4. \A i \in 1 .. Len(s) : u[i] = s[i] BY <1>2
  <1>5. u[Len(s) + 1] = c
    <2>1. Len(s) + 1 \in 1 .. Len(s) + 1 /\ ~(Len(s) + 1 <= Len(s)) /\ (Len(s) + 1) - Len(s) = 1 BY <1>2
    <2> QED BY <2>1, <1>1, <1>2
  <1>6. \A i \in 1 .. Len(s) : s[i] \in ToSet(s) BY LenProperties DEF ToSet
  <1>7. ASSUME NEW i \in 1 .. Len(u), NEW j \in 1 .. Len(u), i < j PROVE InOrder(u[i], u[j])
    <2>1. i \in 1 .. Len(s) BY <1>2, <1>7
    <2>2. CASE j = Len(s) + 1 BY <2>1, <2>2, <1>4, <1>5, <1>6
    <2>3. CASE j \in 1 .. Len(s) BY <2>1, <2>3, <1>4, <1>7 DEF Ordered
    <2> QED BY <2>2, <2>3, <1>2
  <1>8. Ordered(u) BY <1>7 DEF Ordered
  <1> QED BY <1>3, <1>8 DEF u

LEMMA OldsKept ==
  ASSUME OldSide, NewSide, DiffTypes, OldsBefore, NEW x, Moves(x)
  PROVE  OldsBefore'
  <1>1. /\ OldsIn \in Seq(Entries) /\ OldsIn' = OldsIn \o x.old BY InsGrow DEF DiffTypes, Moves
  <1>2. OldLeft' \subseteq OldLeft BY MovesFrom
  <1>3. CASE x.old = <<>>
    <2>1. OldsIn' = OldsIn BY <1>1, <1>3, ConcatEmptySeq
    <2> QED BY <2>1, <1>2 DEF OldsBefore
  <1>4. CASE x.old # <<>>
    <2>1. x.old = curr_old /\ OldLeft' = ToSet(All(old)) BY <1>4, MovesFrom
    <2>2. PICK c \in Entries : curr_old = <<c>> /\ AllAfter(c, All(old)) BY <2>1, <1>4 DEF OldSide
    <2>3. c \in OldLeft BY <2>2, OneSet DEF OldLeft
    <2>4. \A o \in ToSet(OldsIn) : InOrder(o, c) BY <2>3 DEF OldsBefore
    <2>5. PICK s \in Seq(Entries) : s = OldsIn BY <1>1
    <2>6. Ordered(s \o <<c>>) /\ ToSet(s \o <<c>>) = ToSet(s) \union {c}
      BY <2>4, <2>5, OrderedAppend DEF OldsBefore
    <2>7. OldsIn' = s \o <<c>> BY <2>1, <2>2, <2>5, <1>1
    <2>8. All(old) \in Seq(Entries) BY SideTypes
    <2>9. \A e \in OldLeft' : InOrder(c, e) BY <2>1, <2>2, <2>8, AfterSet
    <2>10. \A o \in ToSet(s), e \in OldLeft' : InOrder(o, e) BY <2>5, <1>2 DEF OldsBefore
    <2>11. PICK u : u = s \o <<c>> OBVIOUS
    <2>12. OldsIn' = u /\ Ordered(u) /\ ToSet(u) = ToSet(s) \union {c} BY <2>6, <2>7, <2>11
    <2>13. \A o \in ToSet(u), e \in OldLeft' : InOrder(o, e) BY <2>9, <2>10, <2>12
    <2> QED BY <2>12, <2>13 DEF OldsBefore
  <1> QED BY <1>3, <1>4

LEMMA ComeKept ==
  ASSUME OldSide, NewSide, DiffTypes, OldsCome, NewsCome, NEW x, Moves(x)
  PROVE  OldsCome' /\ NewsCome'
  <1>1. Resulting(x) BY ResultsStep
  <1>2. olds' = olds /\ news' = news BY DEF Moves
  <1>3. ASSUME NEW e \in ToSet(olds') PROVE e \in OldLeft' \/ \E i \in 1 .. Len(results') : results'[i].old = <<e>>
    <2>1. CASE \E i \in 1 .. Len(results) : results[i].old = <<e>> BY <2>1, <1>1 DEF Resulting
    <2>2. CASE e \in OldLeft
      <3>1. CASE x.old = <<>>
        <4>1. KeepOld
          <5>1. OldMoves(x) BY DEF Moves
          <5>2. \A c \in Entries : <<c>> # <<>> OBVIOUS
          <5> QED BY <5>1, <5>2, <3>1 DEF OldMoves
        <4> QED BY <4>1, <2>2 DEF KeepOld, OldLeft
      <3>2. CASE x.old # <<>>
        <4>1. x.old = curr_old /\ OldLeft' = ToSet(All(old)) BY <3>2, MovesFrom
        <4>2. PICK c \in Entries : curr_old = <<c>> BY <4>1, <3>2 DEF OldSide
        <4>3. e = c \/ e \in OldLeft' BY <4>1, <4>2, <2>2, OneSet DEF OldLeft
        <4>4. x = results'[Len(results) + 1] /\ Len(results) + 1 \in 1 .. Len(results') BY <1>1 DEF Resulting
        <4> QED BY <4>1, <4>2, <4>3, <4>4
      <3> QED BY <3>1, <3>2
    <2> QED BY <2>1, <2>2, <1>2 DEF OldsCome
  <1>4. ASSUME NEW e \in ToSet(news') PROVE e \in NewLeft' \/ \E i \in 1 .. Len(results') : NewOf(results'[i]) = <<e>>
    <2>1. CASE \E i \in 1 .. Len(results) : NewOf(results[i]) = <<e>> BY <2>1, <1>1 DEF Resulting
    <2>2. CASE e \in NewLeft
      <3>1. CASE NewOf(x) = <<>>
        <4>1. KeepNew
          <5>1. NewMoves(x) BY DEF Moves
          <5>2. \A c \in Entries : <<c>> # <<>> OBVIOUS
          <5> QED BY <5>1, <5>2, <3>1 DEF NewMoves
        <4> QED BY <4>1, <2>2 DEF KeepNew, NewLeft
      <3>2. CASE NewOf(x) # <<>>
        <4>1. NewOf(x) = curr_new /\ NewLeft' = ToSet(new) BY <3>2, MovesFrom
        <4>2. PICK c \in Entries : curr_new = <<c>> BY <4>1, <3>2 DEF NewSide
        <4>3. e = c \/ e \in NewLeft' BY <4>1, <4>2, <2>2, OneSet DEF NewLeft
        <4>4. x = results'[Len(results) + 1] /\ Len(results) + 1 \in 1 .. Len(results') BY <1>1 DEF Resulting
        <4> QED BY <4>1, <4>2, <4>3, <4>4
      <3> QED BY <3>1, <3>2
    <2> QED BY <2>1, <2>2, <1>2 DEF NewsCome
  <1>5. OldsCome' BY <1>3 DEF OldsCome
  <1>6. NewsCome' BY <1>4 DEF NewsCome
  <1> QED BY <1>5, <1>6

--------------------------------------------------------------------------------
(* Sides that have no name twice. *)
LEMMA InsTyped ==
  ASSUME DiffTypes
  PROVE  OldsIn \in Seq(Entries) /\ NewsIn \in Seq(Entries)
  <1>1. PICK rs \in Seq(Results) : rs = results BY DEF DiffTypes
  <1>3. <<>> \in Seq(Entries) OBVIOUS
  <1>2. OldOfAll(rs) \in Seq(Seq(Entries)) /\ NewOfAll(rs) \in Seq(Seq(Entries))
    <2>1. [kind |-> "Added", old |-> <<>>, new |-> <<>>] \in Results BY <1>3 DEF Results
    <2> QED BY <2>1, ResultsGrow
  <1>4. FlattenSeq(OldOfAll(rs)) \in Seq(Entries) /\ FlattenSeq(NewOfAll(rs)) \in Seq(Entries)
    BY <1>2, <1>3, FlattenAppend
  <1> QED BY <1>1, <1>4 DEF OldsIn, NewsIn, OldOfAll, NewOfAll

LEMMA NewsInHand ==
  ASSUME OldSide, NewSide, DiffTypes
  PROVE  ToSet(NewsIn \o curr_new) = ToSet(NewsIn) \union ToSet(curr_new)
  <1>1. NewsIn \in Seq(Entries) BY InsTyped
  <1>2. curr_new \in Seq(Entries) BY SideTypes
  <1> QED BY <1>1, <1>2, ConcatSet

LEMMA LeftIsOfSides ==
  ASSUME OldSide, NewSide, DiffTypes, OldParts, NewParts
  PROVE  OldLeft \subseteq ToSet(olds) /\ NewLeft \subseteq ToSet(news)
  <1>1. OldsIn \in Seq(Entries) /\ NewsIn \in Seq(Entries) BY InsTyped
  <1>2. /\ curr_old \in Seq(Entries) /\ curr_new \in Seq(Entries) /\ new \in Seq(Entries)
        /\ All(old) \in Seq(Entries)
    BY SideTypes
  <1>3. olds \in Seq(Entries) BY DEF DiffTypes
  <1>4. ASSUME NEW e \in OldLeft PROVE e \in ToSet(olds)
    <2>1. e \in Entries BY OldLeftAfter
    <2>2. Times(OldsIn, e) \in Nat /\ Times(curr_old, e) \in Nat /\ Times(All(old), e) \in Nat
      BY <1>1, <1>2, TimesIs
    <2>3. Times(curr_old, e) # 0 \/ Times(All(old), e) # 0 BY <1>2, TimesPositive DEF OldLeft
    <2>4. Times(OldsIn, e) + Times(curr_old, e) + Times(All(old), e) = Times(olds, e) BY <2>1 DEF OldParts
    <2>5. Times(olds, e) # 0 BY <2>2, <2>3, <2>4
    <2> QED BY <2>5, <1>3, TimesPositive
  <1>5. NewsIn \o curr_new \in Seq(Entries) BY <1>1, <1>2, ConcatProperties
  <1>6. ToSet((NewsIn \o curr_new) \o new) = ToSet(NewsIn \o curr_new) \union ToSet(new)
    BY ZenonT(60), <1>2, <1>5, ConcatSet
  <1>7. ToSet(NewsIn \o curr_new) = ToSet(NewsIn) \union ToSet(curr_new) BY NewsInHand
  <1>8. NewLeft \subseteq ToSet(news) BY <1>6, <1>7 DEF NewLeft, NewParts
  <1> QED BY <1>4, <1>8

(* What is in hand has another name than what comes after it. *)
LEMMA OldLeftDistinct ==
  ASSUME OldSide, NewSide, DiffTypes, OldParts, NewParts, Distinct(olds),
         NEW c \in Entries, curr_old = <<c>>, NEW e \in ToSet(All(old))
  PROVE  e.name # c.name
  <1>1. OldsIn \in Seq(Entries) BY InsTyped
  <1>2. curr_old \in Seq(Entries) /\ All(old) \in Seq(Entries) BY SideTypes
  <1>3. olds \in Seq(Entries) BY DEF DiffTypes
  <1>4. c \in ToSet(curr_old) BY OneSet
  <1>5. c \in OldLeft /\ e \in OldLeft BY <1>4 DEF OldLeft
  <1>6. e \in Entries BY <1>5, OldLeftAfter
  <1>7. Times(OldsIn, e) \in Nat /\ Times(curr_old, e) \in Nat /\ Times(All(old), e) \in Nat
    BY <1>1, <1>2, TimesIs
  <1>8. Times(All(old), e) # 0 BY <1>2, TimesPositive
  <1>9. Times(OldsIn, e) + Times(curr_old, e) + Times(All(old), e) = Times(olds, e) BY <1>6 DEF OldParts
  <1>10. Times(olds, e) <= 1 BY <1>3, <1>6, DistinctTimes
  <1>11. Times(olds, e) \in Nat BY <1>3, TimesIs
  <1>12. Times(curr_old, e) = 0 BY <1>7, <1>8, <1>9, <1>10, <1>11
  <1>13. e # c BY <1>12, <1>4, <1>2, TimesPositive
  <1>14. c \in ToSet(olds) /\ e \in ToSet(olds) BY <1>5, LeftIsOfSides
  <1> QED BY <1>13, <1>14, <1>3, DistinctTimes

LEMMA DistinctConcat ==
  ASSUME NEW s \in Seq(Entries), NEW t \in Seq(Entries), Distinct(s \o t)
  PROVE  Distinct(t) /\ \A a \in ToSet(s), b \in ToSet(t) : a.name # b.name
  <1> DEFINE u == s \o t
  <1>1. /\ Len(u) = Len(s) + Len(t) /\ Len(s) \in Nat /\ Len(t) \in Nat
        /\ \A i \in 1 .. Len(s) + Len(t) : u[i] = IF i <= Len(s) THEN s[i] ELSE t[i - Len(s)]
        /\ u \in Seq(Entries)
    BY ConcatProperties, LenProperties
  <1>2. DOMAIN s = 1 .. Len(s) /\ DOMAIN t = 1 .. Len(t) /\ DOMAIN u = 1 .. Len(s) + Len(t)
    BY <1>1, LenProperties
  <1>3. Distinct(u) OBVIOUS
  <1> HIDE DEF u
  <1>4. ASSUME NEW i \in 1 .. Len(t)
        PROVE  Len(s) + i \in DOMAIN u /\ u[Len(s) + i] = t[i]
    <2>1. Len(s) + i \in 1 .. Len(s) + Len(t) /\ ~(Len(s) + i <= Len(s)) /\ (Len(s) + i) - Len(s) = i
      BY <1>1
    <2> QED BY <2>1, <1>1, <1>2
  <1>5. ASSUME NEW i \in 1 .. Len(s)
        PROVE  i \in DOMAIN u /\ u[i] = s[i]
    <2>1. i \in 1 .. Len(s) + Len(t) /\ i <= Len(s) BY <1>1
    <2> QED BY <2>1, <1>1, <1>2
  <1>6. ASSUME NEW i \in 1 .. Len(t), NEW j \in 1 .. Len(t), t[i].name = t[j].name PROVE i = j
    <2>1. Len(s) + i = Len(s) + j BY <1>3, <1>4, <1>6 DEF Distinct
    <2> QED BY <2>1, <1>1
  <1>7. ASSUME NEW i \in 1 .. Len(s), NEW j \in 1 .. Len(t), s[i].name = t[j].name PROVE FALSE
    <2>1. i = Len(s) + j BY <1>3, <1>4, <1>5, <1>7 DEF Distinct
    <2> QED BY <2>1, <1>1
  <1> QED BY <1>2, <1>6, <1>7 DEF Distinct, ToSet

LEMMA NewLeftDistinct ==
  ASSUME OldSide, NewSide, DiffTypes, NewParts, Distinct(news),
         NEW c \in Entries, curr_new = <<c>>, NEW e \in ToSet(new)
  PROVE  e.name # c.name
  <1>1. NewsIn \in Seq(Entries) BY InsTyped
  <1>2. curr_new \in Seq(Entries) /\ new \in Seq(Entries) BY SideTypes
  <1>3. c \in ToSet(curr_new) BY OneSet
  <1>4. NewsIn \o curr_new \in Seq(Entries) BY <1>1, <1>2, ConcatProperties
  <1>5. ToSet(NewsIn \o curr_new) = ToSet(NewsIn) \union ToSet(curr_new) BY NewsInHand
  <1>6. c \in ToSet(NewsIn \o curr_new) BY <1>3, <1>5
  <1>7. Distinct((NewsIn \o curr_new) \o new) BY DEF NewParts
  <1> QED BY <1>2, <1>4, <1>6, <1>7, DistinctConcat

(* For such sides, each name has its result, and each result is one of the difference. *)
ResultsAscend == \A i, j \in 1 .. Len(results) : i < j => Less(NameIn(results[i]), NameIn(results[j]))
ResultsPassed == \A i \in 1 .. Len(results), e \in OldLeft \union NewLeft : Less(NameIn(results[i]), e.name)
ResultsExpected == \A i \in 1 .. Len(results) : results[i] \in Expected

Once == Distinct(olds) /\ Distinct(news) => ResultsAscend /\ ResultsPassed /\ ResultsExpected

LEMMA ShapedName ==
  ASSUME NEW r \in Results, Shaped(r), NEW e
  PROVE  /\ r.old = <<e>> => NameIn(r) = e.name
         /\ NewOf(r) = <<e>> => NameIn(r) = e.name
         /\ r.old # <<>> \/ NewOf(r) # <<>>
  <1>1. \A d : <<d>> # <<>> /\ <<d>>[1] = d OBVIOUS
  <1>2. \A c, d : <<c>> = <<d>> => c = d OBVIOUS
  <1>3. CASE r.kind = "Changed"
    <2>1. PICK o, n \in Entries : r.old = <<o>> /\ r.new = <<n>> /\ o.name = n.name
      BY <1>3 DEF Shaped
    <2>2. NewOf(r) = <<n>> /\ NameIn(r) = o.name BY <1>1, <1>3, <2>1 DEF NewOf, NameIn
    <2> QED BY <2>1, <2>2, <1>1, <1>2
  <1>4. CASE r.kind = "Added"
    <2>1. r.old = <<>> /\ NewOf(r) = r.new /\ NameIn(r) = r.new[1].name /\ \E d \in Entries : r.new = <<d>>
      BY <1>1, <1>4 DEF Shaped, NewOf, NameIn
    <2> QED BY <2>1, <1>1, <1>2
  <1>5. CASE r.kind \in {"Removed", "Same"}
    <2>1. /\ NewOf(r) \in {r.old, <<>>} /\ NameIn(r) = r.old[1].name /\ \E d \in Entries : r.old = <<d>>
      BY <1>1, <1>5 DEF Shaped, NewOf, NameIn
    <2> QED BY <2>1, <1>1, <1>2
  <1> QED BY <1>3, <1>4, <1>5 DEF Results

LEMMA OnceKept ==
  ASSUME OldSide, NewSide, DiffTypes, OldParts, NewParts, OldsCome, NewsCome, Once, NEW x, Moves(x)
  PROVE  Once'
  <1>1. olds' = olds /\ news' = news /\ x \in Results /\ Shaped(x) BY DEF Moves
  <1>2. SUFFICES ASSUME Distinct(olds), Distinct(news)
                 PROVE  ResultsAscend' /\ ResultsPassed' /\ ResultsExpected'
    BY <1>1 DEF Once
  <1>3. ResultsAscend /\ ResultsPassed /\ ResultsExpected BY <1>2 DEF Once
  <1>4. Resulting(x) BY ResultsStep
  <1>5. /\ OldLeft' \subseteq OldLeft /\ NewLeft' \subseteq NewLeft
        /\ \E e \in OldLeft \union NewLeft : e.name = NameIn(x)
        /\ NameIn(x) \in Arrays
        /\ \A e \in OldLeft' \union NewLeft' : NotLater(NameIn(x), e.name)
        /\ x.old = <<>> => \A e \in OldLeft : Less(NameIn(x), e.name)
        /\ NewOf(x) = <<>> => \A e \in NewLeft : Less(NameIn(x), e.name)
        /\ x.old # <<>> => x.old = curr_old /\ OldLeft' = ToSet(All(old))
        /\ NewOf(x) # <<>> => NewOf(x) = curr_new /\ NewLeft' = ToSet(new)
    BY MovesFrom
  <1>6. OldLeft \subseteq ToSet(olds) /\ NewLeft \subseteq ToSet(news) BY LeftIsOfSides
  <1>7. ASSUME NEW e \in OldLeft' PROVE Less(NameIn(x), e.name)
    <2>1. CASE x.old = <<>> BY <2>1, <1>5
    <2>2. CASE x.old # <<>>
      <3>1. x.old = curr_old /\ e \in ToSet(All(old)) BY <2>2, <1>5
      <3>2. PICK c \in Entries : curr_old = <<c>> BY <2>2, <3>1 DEF OldSide
      <3>3. e.name # c.name BY <3>1, <3>2, <1>2, OldLeftDistinct
      <3>4. NameIn(x) = c.name BY <3>1, <3>2, <1>1, ShapedName
      <3> QED BY <3>3, <3>4, <1>5 DEF NotLater
    <2> QED BY <2>1, <2>2
  <1>8. ASSUME NEW e \in NewLeft' PROVE Less(NameIn(x), e.name)
    <2>1. CASE NewOf(x) = <<>> BY <2>1, <1>5
    <2>2. CASE NewOf(x) # <<>>
      <3>1. NewOf(x) = curr_new /\ e \in ToSet(new) BY <2>2, <1>5
      <3>2. PICK c \in Entries : curr_new = <<c>> BY <2>2, <3>1 DEF NewSide
      <3>3. e.name # c.name BY <3>1, <3>2, <1>2, NewLeftDistinct
      <3>4. NameIn(x) = c.name BY <3>1, <3>2, <1>1, ShapedName
      <3> QED BY <3>3, <3>4, <1>5 DEF NotLater
    <2> QED BY <2>1, <2>2
  <1>9. \A i \in 1 .. Len(results) : Less(NameIn(results[i]), NameIn(x)) BY <1>3, <1>5 DEF ResultsPassed
  <1>10. ResultsPassed'
    <2>1. ASSUME NEW i \in 1 .. Len(results'), NEW e \in OldLeft' \union NewLeft'
          PROVE  Less(NameIn(results'[i]), e.name)
      <3>1. CASE i = Len(results) + 1 BY <3>1, <1>4, <1>7, <1>8 DEF Resulting
      <3>2. CASE i \in 1 .. Len(results)
        <4>1. e \in OldLeft \union NewLeft BY <1>5
        <4> QED BY <3>2, <4>1, <1>3, <1>4 DEF Resulting, ResultsPassed
      <3> QED BY <3>1, <3>2, <1>4 DEF Resulting
    <2> QED BY <2>1 DEF ResultsPassed
  <1>11. ResultsAscend'
    <2>1. ASSUME NEW i \in 1 .. Len(results'), NEW j \in 1 .. Len(results'), i < j
          PROVE  Less(NameIn(results'[i]), NameIn(results'[j]))
      <3>1. i \in 1 .. Len(results) /\ results'[i] = results[i] BY <2>1, <1>4 DEF Resulting
      <3>2. CASE j = Len(results) + 1
        <4>1. results'[j] = x BY <3>2, <1>4 DEF Resulting
        <4> QED BY <3>1, <4>1, <1>9
      <3>3. CASE j \in 1 .. Len(results)
        <4>1. results'[j] = results[j] BY <3>3, <1>4 DEF Resulting
        <4> QED BY <3>1, <3>3, <4>1, <2>1, <1>3 DEF ResultsAscend
      <3> QED BY <3>2, <3>3, <1>4 DEF Resulting
    <2> QED BY <2>1 DEF ResultsAscend
  <1>12. \A i \in 1 .. Len(results) : results[i] \in Results /\ Shaped(results[i])
    BY ElementOfSeq DEF DiffTypes
  (* A name that one side does not give with the other is not in that side. *)
  <1>13. ASSUME x.old = <<>>, NEW e \in NewLeft, e.name = NameIn(x) PROVE WithName(olds, e.name) = {}
    <2> SUFFICES ASSUME NEW o \in ToSet(olds), o.name = e.name PROVE FALSE BY DEF WithName
    <2>1. CASE o \in OldLeft
      <3>1. Less(NameIn(x), o.name) BY <2>1, <1>5, <1>13
      <3> QED BY <3>1, <1>5, <1>13, LessIrreflexive
    <2>2. CASE \E i \in 1 .. Len(results) : results[i].old = <<o>>
      <3>1. PICK i \in 1 .. Len(results) : results[i].old = <<o>> BY <2>2
      <3>2. NameIn(results[i]) = o.name BY <3>1, <1>12, ShapedName
      <3>3. Less(NameIn(results[i]), e.name) BY <1>3 DEF ResultsPassed
      <3> QED BY <3>2, <3>3, <1>5, <1>13, LessIrreflexive
    <2> QED BY <2>1, <2>2 DEF OldsCome
  <1>14. ASSUME NewOf(x) = <<>>, NEW e \in OldLeft, e.name = NameIn(x) PROVE WithName(news, e.name) = {}
    <2> SUFFICES ASSUME NEW n \in ToSet(news), n.name = e.name PROVE FALSE BY DEF WithName
    <2>1. CASE n \in NewLeft
      <3>1. Less(NameIn(x), n.name) BY <2>1, <1>5, <1>14
      <3> QED BY <3>1, <1>5, <1>14, LessIrreflexive
    <2>2. CASE \E i \in 1 .. Len(results) : NewOf(results[i]) = <<n>>
      <3>1. PICK i \in 1 .. Len(results) : NewOf(results[i]) = <<n>> BY <2>2
      <3>2. NameIn(results[i]) = n.name BY <3>1, <1>12, ShapedName
      <3>3. Less(NameIn(results[i]), e.name) BY <1>3 DEF ResultsPassed
      <3> QED BY <3>2, <3>3, <1>5, <1>14, LessIrreflexive
    <2> QED BY <2>1, <2>2 DEF NewsCome
  <1>15. ASSUME NEW e, x.old = <<e>> PROVE e \in OldLeft /\ e.name = NameIn(x)
    <2>1. x.old # <<>> BY <1>15
    <2>2. curr_old = <<e>> BY <2>1, <1>5, <1>15
    <2> QED BY <2>2, <1>1, <1>15, OneSet, ShapedName DEF OldLeft
  <1>16. ASSUME NEW e, NewOf(x) = <<e>> PROVE e \in NewLeft /\ e.name = NameIn(x)
    <2>1. NewOf(x) # <<>> BY <1>16
    <2>2. curr_new = <<e>> BY <2>1, <1>5, <1>16
    <2> QED BY <2>2, <1>1, <1>16, OneSet, ShapedName DEF NewLeft
  <1>17. x \in Expected
    <2>0. x = [kind |-> x.kind, old |-> x.old, new |-> x.new] BY <1>1 DEF Results
    <2>1. CASE x.kind = "Added"
      <3>1. PICK e \in Entries : x.old = <<>> /\ x.new = <<e>> BY <2>1, <1>1 DEF Shaped
      <3>2. NewOf(x) = <<e>> BY <2>1, <3>1 DEF NewOf
      <3>3. e \in ToSet(news) /\ WithName(olds, e.name) = {} BY <3>1, <3>2, <1>6, <1>13, <1>16
      <3>4. x = [kind |-> "Added", old |-> None, new |-> <<e>>] BY <2>0, <2>1, <3>1 DEF None
      <3> QED BY <3>3, <3>4 DEF Expected
    <2>2. CASE x.kind = "Removed"
      <3>1. PICK e \in Entries : x.new = <<>> /\ x.old = <<e>> BY <2>2, <1>1 DEF Shaped
      <3>2. NewOf(x) = <<>> BY <2>2, <3>1 DEF NewOf
      <3>3. e \in ToSet(olds) /\ WithName(news, e.name) = {} BY <3>1, <3>2, <1>6, <1>14, <1>15
      <3>4. x = [kind |-> "Removed", old |-> <<e>>, new |-> None] BY <2>0, <2>2, <3>1 DEF None
      <3> QED BY <3>3, <3>4 DEF Expected
    <2>3. CASE x.kind = "Same"
      <3>1. PICK e \in Entries : x.new = <<>> /\ x.old = <<e>> BY <2>3, <1>1 DEF Shaped
      <3>2. NewOf(x) = <<e>> BY <2>3, <3>1 DEF NewOf
      <3>3. e \in ToSet(olds) /\ e \in ToSet(news) BY <3>1, <3>2, <1>6, <1>15, <1>16
      <3>4. x = Matched(e, e) BY <2>0, <2>3, <3>1 DEF None, Matched
      <3>5. e \in WithName(news, e.name) BY <3>3 DEF WithName
      <3> QED BY <3>3, <3>4, <3>5 DEF Expected
    <2>4. CASE x.kind = "Changed"
      <3>1. PICK o, n \in Entries : x.old = <<o>> /\ x.new = <<n>> /\ o.name = n.name /\ o.value # n.value
        BY <2>4, <1>1 DEF Shaped
      <3>2. NewOf(x) = <<n>> BY <2>4, <3>1 DEF NewOf
      <3>3. o \in ToSet(olds) /\ n \in ToSet(news) BY <3>1, <3>2, <1>6, <1>15, <1>16
      <3>4. x = Matched(o, n) BY <2>0, <2>4, <3>1 DEF Matched
      <3>5. n \in WithName(news, o.name) BY <3>1, <3>3 DEF WithName
      <3> QED BY <3>3, <3>4, <3>5 DEF Expected
    <2> QED BY <2>1, <2>2, <2>3, <2>4, <1>1 DEF Results
  <1>18. ResultsExpected'
    <2>1. Expected' = Expected BY <1>1 DEF Expected, WithName, Matched
    <2>2. \A i \in 1 .. Len(results') : results'[i] \in Expected
      BY <1>3, <1>4, <1>17 DEF Resulting, ResultsExpected
    <2> QED BY <2>1, <2>2 DEF ResultsExpected
  <1> QED BY <1>10, <1>11, <1>18

--------------------------------------------------------------------------------
(* Numbers, word by word from the most significant one. *)
WordValues(a, f) == /\ f \in [1 .. Words + 1 -> Nat]
                 /\ f[Words + 1] = 0
                 /\ \A i \in 1 .. Words : f[i] = f[i + 1] * DataChunk + a[i]

NumbersOf(a, f) == f = [i \in 1 .. Words + 1 |-> IF i > Words THEN 0 ELSE f[i + 1] * DataChunk + a[i]]

LEMMA ChunkPositive == DataChunk \in Nat \ {0}
  <1>1. Half \in Nat \ {0} BY HashArrayAssumption
  <1>2. \A x \in Nat \ {0} : x * x \in Nat \ {0} OBVIOUS
  <1> QED BY <1>1, <1>2 DEF DataChunk

LEMMA ValuesExist ==
  ASSUME NEW a \in Arrays
  PROVE  \E f : WordValues(a, f)
  <1> DEFINE step == [n \in 1 .. Words |-> [v \in Nat |-> v * DataChunk + a[Words + 1 - n]]]
  <1>1. Words \in Nat \ {0} BY HashArrayAssumption
  <1>2. \A i \in 1 .. Words : a[i] \in Nat /\ a[i] < DataChunk BY ChunkPositive DEF Arrays
  <1>3. \A n \in 1 .. Words : Words + 1 - n \in 1 .. Words BY <1>1
  <1>4. \A n \in 1 .. Words, v \in Nat : v * DataChunk + a[Words + 1 - n] \in Nat
    <2> SUFFICES ASSUME NEW n \in 1 .. Words, NEW v \in Nat
                 PROVE  v * DataChunk + a[Words + 1 - n] \in Nat OBVIOUS
    <2>1. a[Words + 1 - n] \in Nat BY <1>2, <1>3
    <2>2. v * DataChunk \in Nat BY ChunkPositive
    <2> QED BY <2>1, <2>2
  <1>5. step \in [1 .. Words -> [Nat -> Nat]] BY <1>4
  <1>6. \A n \in 1 .. Words, v \in Nat : step[n][v] = v * DataChunk + a[Words + 1 - n] OBVIOUS
  <1> HIDE DEF step
  <1>7. PICK g : Recursion(Nat, Words, 0, step, g) BY <1>1, <1>5, RecursionExists DEF StepsIn
  <1>8. /\ g \in [0 .. Words -> Nat] /\ g[0] = 0
        /\ \A n \in 1 .. Words : g[n] = step[n][g[n - 1]]
    BY <1>7 DEF Recursion
  <1> DEFINE f == [i \in 1 .. Words + 1 |-> g[Words + 1 - i]]
  <1>9. \A i \in 1 .. Words + 1 : Words + 1 - i \in 0 .. Words BY <1>1
  <1>10. f \in [1 .. Words + 1 -> Nat] BY <1>8, <1>9
  <1>11. f[Words + 1] = 0
    <2>1. Words + 1 \in 1 .. Words + 1 /\ Words + 1 - (Words + 1) = 0 BY <1>1
    <2> QED BY <2>1, <1>8
  <1>12. ASSUME NEW i \in 1 .. Words PROVE f[i] = f[i + 1] * DataChunk + a[i]
    <2> DEFINE n == Words + 1 - i
    <2>1. /\ n \in 1 .. Words /\ Words + 1 - n = i /\ i \in 1 .. Words + 1 /\ i + 1 \in 1 .. Words + 1
          /\ Words + 1 - (i + 1) = n - 1 /\ n - 1 \in 0 .. Words
      BY <1>1
    <2>2. f[i] = g[n] /\ f[i + 1] = g[n - 1] BY <2>1
    <2> HIDE DEF n
    <2>3. g[n] = g[n - 1] * DataChunk + a[i] BY <2>1, <1>6, <1>8
    <2> QED BY <2>2, <2>3
  <1> QED BY <1>10, <1>11, <1>12 DEF WordValues

LEMMA NumberIs ==
  ASSUME NEW a \in Arrays, NEW f, WordValues(a, f)
  PROVE  Number(a) = f[1] /\ Number(a) \in Nat
  <1> DEFINE h == CHOOSE g : NumbersOf(a, g)
  <1>1. Words \in Nat \ {0} BY HashArrayAssumption
  <1>2. /\ f \in [1 .. Words + 1 -> Nat] /\ f[Words + 1] = 0
        /\ \A i \in 1 .. Words : f[i] = f[i + 1] * DataChunk + a[i]
    BY DEF WordValues
  <1>3. Number(a) = h[1] BY DEF Number, NumbersOf
  <1>4. NumbersOf(a, f)
    <2>1. \A i \in 1 .. Words + 1 : i > Words <=> i = Words + 1 BY <1>1
    <2>2. \A i \in 1 .. Words + 1 : i # Words + 1 => i \in 1 .. Words BY <1>1
    <2>3. \A i \in 1 .. Words + 1 : f[i] = IF i > Words THEN 0 ELSE f[i + 1] * DataChunk + a[i]
      BY <1>2, <2>1, <2>2
    <2>4. f = [i \in 1 .. Words + 1 |-> f[i]] BY <1>2
    <2> QED BY <2>3, <2>4 DEF NumbersOf
  <1> HIDE DEF h
  <1>5. NumbersOf(a, h) BY <1>4 DEF h
  <1>6. \A i \in 1 .. Words + 1 : h[i] = IF i > Words THEN 0 ELSE h[i + 1] * DataChunk + a[i]
    BY <1>5 DEF NumbersOf
  <1> DEFINE T == {n \in 0 .. Words : h[Words + 1 - n] = f[Words + 1 - n]}
  <1>7. 0 \in T
    <2>1. 0 \in 0 .. Words /\ Words + 1 - 0 = Words + 1 /\ Words + 1 \in 1 .. Words + 1 /\ Words + 1 > Words
      BY <1>1
    <2> QED BY <2>1, <1>2, <1>6
  <1>8. ASSUME NEW n \in 0 .. Words - 1, n \in T PROVE n + 1 \in T
    <2> DEFINE i == Words + 1 - (n + 1)
    <2>1. /\ i \in 1 .. Words /\ i \in 1 .. Words + 1 /\ ~(i > Words) /\ i + 1 = Words + 1 - n
          /\ n + 1 \in 0 .. Words
      BY <1>1
    <2>2. h[i + 1] = f[i + 1] BY <2>1, <1>8
    <2> HIDE DEF i
    <2>3. h[i] = f[i] BY <2>1, <2>2, <1>2, <1>6
    <2> QED BY <2>1, <2>3 DEF i
  <1> HIDE DEF T
  <1>9. 0 .. Words \subseteq T BY <1>1, <1>7, <1>8, IntervalInduction
  <1>10. Words \in T BY <1>1, <1>9
  <1>11. Words + 1 - Words = 1 /\ 1 \in 1 .. Words + 1 BY <1>1
  <1> QED BY <1>2, <1>3, <1>10, <1>11 DEF T

LEMMA HigherFirst ==
  ASSUME NEW x \in Nat, NEW y \in Nat, NEW d \in Nat \ {0}, NEW u \in 0 .. d - 1, NEW v \in Nat, x < y
  PROVE  x * d + u < y * d + v
  <1>1. PICK k \in Nat : y = x + 1 + k
    <2>1. y - x - 1 \in Nat /\ y = x + 1 + (y - x - 1) OBVIOUS
    <2> QED BY <2>1
  <1>2. y * d = x * d + d + k * d BY <1>1
  <1>3. x * d \in Nat /\ k * d \in Nat OBVIOUS
  <1> QED BY <1>2, <1>3

(* The order of arrays is the order of their numbers. *)
LEMMA LessIsLower ==
  ASSUME NEW a \in Arrays, NEW b \in Arrays, Less(a, b)
  PROVE  Number(a) < Number(b)
  <1>1. Words \in Nat \ {0} BY HashArrayAssumption
  <1>2. PICK f : WordValues(a, f) BY ValuesExist
  <1>3. PICK g : WordValues(b, g) BY ValuesExist
  <1>4. Number(a) = f[1] /\ Number(b) = g[1] BY <1>2, <1>3, NumberIs
  <1>5. PICK i \in 1 .. Words : a[i] < b[i] /\ \A j \in i + 1 .. Words : a[j] = b[j] BY DEF Less
  <1>6. /\ f \in [1 .. Words + 1 -> Nat] /\ f[Words + 1] = 0
        /\ \A j \in 1 .. Words : f[j] = f[j + 1] * DataChunk + a[j]
    BY <1>2 DEF WordValues
  <1>7. /\ g \in [1 .. Words + 1 -> Nat] /\ g[Words + 1] = 0
        /\ \A j \in 1 .. Words : g[j] = g[j + 1] * DataChunk + b[j]
    BY <1>3 DEF WordValues
  <1>8. \A j \in 1 .. Words : a[j] \in 0 .. DataChunk - 1 /\ b[j] \in 0 .. DataChunk - 1 BY DEF Arrays
  <1> DEFINE T == {n \in 0 .. Words - i : f[Words + 1 - n] = g[Words + 1 - n]}
             L == {n \in 0 .. i - 1 : f[i - n] < g[i - n]}
  <1>9. 0 \in T
    <2>1. 0 \in 0 .. Words - i /\ Words + 1 - 0 = Words + 1 BY <1>1
    <2> QED BY <2>1, <1>6, <1>7
  <1>10. ASSUME NEW n \in 0 .. (Words - i) - 1, n \in T PROVE n + 1 \in T
    <2> DEFINE j == Words + 1 - (n + 1)
    <2>1. /\ j \in 1 .. Words /\ j \in i + 1 .. Words /\ j + 1 = Words + 1 - n
          /\ n + 1 \in 0 .. Words - i
      BY <1>1
    <2>2. f[j + 1] = g[j + 1] BY <2>1, <1>10
    <2> HIDE DEF j
    <2>3. f[j] = g[j] BY <2>1, <2>2, <1>5, <1>6, <1>7
    <2> QED BY <2>1, <2>3 DEF j
  <1>11. f[i + 1] = g[i + 1]
    <2> HIDE DEF T
    <2>1. Words - i \in Nat BY <1>1
    <2>2. 0 .. Words - i \subseteq T BY <2>1, <1>9, <1>10, IntervalInduction
    <2>3. Words - i \in T BY <2>1, <2>2
    <2>4. Words + 1 - (Words - i) = i + 1 BY <1>1
    <2> QED BY <2>3, <2>4 DEF T
  <1>12. 0 \in L
    <2>1. 0 \in 0 .. i - 1 /\ i - 0 = i /\ i + 1 \in 1 .. Words + 1 BY <1>1
    <2>2. f[i] < g[i]
      <3>1. f[i] = f[i + 1] * DataChunk + a[i] /\ g[i] = f[i + 1] * DataChunk + b[i] BY <1>6, <1>7, <1>11
      <3>2. f[i + 1] \in Nat BY <2>1, <1>6
      <3>3. f[i + 1] * DataChunk \in Nat /\ a[i] \in Nat /\ b[i] \in Nat BY <3>2, <1>8, ChunkPositive
      <3> QED BY <3>1, <3>3, <1>5
    <2> QED BY <2>1, <2>2
  <1>13. ASSUME NEW n \in 0 .. (i - 1) - 1, n \in L PROVE n + 1 \in L
    <2> DEFINE j == i - (n + 1)
    <2>1. j \in 1 .. Words /\ j + 1 = i - n /\ n + 1 \in 0 .. i - 1 /\ j + 1 \in 1 .. Words + 1 BY <1>1
    <2>2. f[j + 1] < g[j + 1] BY <2>1, <1>13
    <2> HIDE DEF j
    <2>3. f[j] = f[j + 1] * DataChunk + a[j] /\ g[j] = g[j + 1] * DataChunk + b[j] BY <2>1, <1>6, <1>7
    <2>4. f[j + 1] \in Nat /\ g[j + 1] \in Nat BY <2>1, <1>6, <1>7
    <2>5. a[j] \in 0 .. DataChunk - 1 /\ b[j] \in Nat BY <2>1, <1>8
    <2>6. f[j + 1] * DataChunk + a[j] < g[j + 1] * DataChunk + b[j]
      BY <2>2, <2>4, <2>5, ChunkPositive, HigherFirst
    <2>7. f[j] < g[j] BY <2>3, <2>6
    <2> QED BY <2>1, <2>7 DEF j
  <1>14. f[1] < g[1]
    <2> HIDE DEF L
    <2>1. i - 1 \in Nat BY <1>1
    <2>2. 0 .. i - 1 \subseteq L BY <2>1, <1>12, <1>13, IntervalInduction
    <2>3. i - 1 \in L /\ i - (i - 1) = 1 BY <2>1, <2>2
    <2> QED BY <2>3 DEF L
  <1> QED BY <1>4, <1>14

--------------------------------------------------------------------------------
(* The inductive invariant of DiffingIter. *)
DiffInvariant == /\ OldSide /\ NewSide /\ DiffTypes
                 /\ OldParts /\ NewParts
                 /\ ResultsBefore /\ ResultsOrdered
                 /\ OldsBefore
                 /\ OldsCome /\ NewsCome
                 /\ Once

LEMMA SortedRunIs ==
  ASSUME NEW max \in Nat, NEW s \in SortedRuns(max)
  PROVE  s \in Seq(Entries) /\ Ordered(s)
  <1>1. PICK n \in 0 .. max : s \in [1 .. n -> Entries] /\ IsSorted(s, InOrder) BY DEF SortedRuns
  <1>2. s \in Seq(Entries) BY <1>1, FunctionIsSeq
  <1>3. Ordered(s) BY <1>1 DEF IsSorted, Ordered
  <1> QED BY <1>2, <1>3

LEMMA FirstOfSide ==
  ASSUME NEW s \in Seq(Entries), Ordered(s)
  PROVE  /\ RestOf(s) \in Seq(Entries) /\ Ordered(RestOf(s))
         /\ \/ FirstOf(s) = <<>> /\ RestOf(s) = <<>>
            \/ \E e \in Entries : FirstOf(s) = <<e>> /\ AllAfter(e, RestOf(s))
         /\ FirstOf(s) \o RestOf(s) = s
  <1>1. CASE s = <<>>
    <2>1. Ordered(<<>>) BY DEF Ordered
    <2>2. FirstOf(s) = <<>> /\ RestOf(s) = <<>> BY <1>1, FirstRest
    <2> QED BY <2>1, <2>2, FirstRest
  <1>2. CASE s # <<>>
    <2>1. FirstOf(s) = <<s[1]>> /\ s[1] \in Entries BY <1>2, FirstRest
    <2>2. Ordered(RestOf(s)) /\ AllAfter(s[1], RestOf(s)) BY <1>2, OrderedRest
    <2> QED BY <2>1, <2>2, FirstRest
  <1> QED BY <1>1, <1>2

LEMMA StartsEmpty ==
  ASSUME results = <<>>
  PROVE  OldsIn = <<>> /\ NewsIn = <<>>
  <1>1. Len(results) = 0 /\ DOMAIN results = 1 .. 0 OBVIOUS
  <1> DEFINE p == [i \in DOMAIN results |-> results[i].old]
             q == [i \in DOMAIN results |->
                     IF results[i].kind = "Same" THEN results[i].old ELSE results[i].new]
  <1>2. p \in [1 .. 0 -> {}] /\ q \in [1 .. 0 -> {}] BY <1>1
  <1>3. OldsIn = FlattenSeq(p) /\ NewsIn = FlattenSeq(q) BY DEF OldsIn, NewsIn
  <1> HIDE DEF p, q
  <1>4. p \in Seq({}) /\ Len(p) = 0 /\ q \in Seq({}) /\ Len(q) = 0 BY <1>2, FunctionIsSeq
  <1>5. p = <<>> /\ q = <<>> BY <1>4, EmptySeq
  <1>6. FlattenSeq(<<>>) = <<>> BY DEF FlattenSeq
  <1> QED BY <1>3, <1>5, <1>6

LEMMA DiffStarts ==
  ASSUME results = <<>>, OldSide, NewSide, olds \in Seq(Entries), news \in Seq(Entries),
         \A e \in Entries : Times(curr_old, e) + Times(All(old), e) = Times(olds, e),
         curr_new \o new = news
  PROVE  DiffInvariant
  <1>1. OldsIn = <<>> /\ NewsIn = <<>> BY StartsEmpty
  <1>2. Len(results) = 0 OBVIOUS
  <1>3. \A i \in 1 .. Len(results) : FALSE BY <1>2
  <1>4. /\ curr_old \in Seq(Entries) /\ curr_new \in Seq(Entries) /\ new \in Seq(Entries)
        /\ All(old) \in Seq(Entries)
    BY SideTypes
  <1>5. <<>> \in Seq(Results) OBVIOUS
  <1>6. DiffTypes BY <1>3, <1>5 DEF DiffTypes
  <1>7. OldParts
    <2>1. ASSUME NEW e \in Entries PROVE Times(<<>>, e) + Times(curr_old, e) + Times(All(old), e) = Times(olds, e)
      <3>1. Times(<<>>, e) = 0 BY TimesNone
      <3>2. Times(curr_old, e) \in Nat /\ Times(All(old), e) \in Nat BY <1>4, TimesIs
      <3> QED BY <3>1, <3>2
    <2> QED BY <1>1, <2>1 DEF OldParts
  <1>8. NewParts
    <2>1. <<>> \o curr_new = curr_new BY <1>4, ConcatEmptySeq
    <2> QED BY <1>1, <2>1 DEF NewParts
  <1>9. ResultsBefore /\ ResultsOrdered BY <1>3 DEF ResultsBefore, ResultsOrdered
  <1>10. OldsBefore
    <2>1. Ordered(<<>>) BY DEF Ordered
    <2> QED BY <1>1, <2>1, NoneSet DEF OldsBefore
  <1>11. OldsCome
    <2> SUFFICES ASSUME NEW e \in ToSet(olds) PROVE e \in OldLeft BY DEF OldsCome
    <2>1. e \in Entries
      <3>1. PICK i \in 1 .. Len(olds) : e = olds[i] BY LenProperties DEF ToSet
      <3> QED BY <3>1, ElementOfSeq
    <2>2. Times(olds, e) # 0 BY TimesPositive
    <2>3. Times(curr_old, e) + Times(All(old), e) # 0 BY <2>1, <2>2
    <2>4. Times(curr_old, e) \in Nat /\ Times(All(old), e) \in Nat BY <1>4, TimesIs
    <2>5. Times(curr_old, e) # 0 \/ Times(All(old), e) # 0 BY <2>3, <2>4
    <2> QED BY <2>5, <1>4, TimesPositive DEF OldLeft
  <1>12. NewsCome
    <2>1. ToSet(curr_new \o new) = ToSet(curr_new) \union ToSet(new) BY ZenonT(60), <1>4, ConcatSet
    <2>2. ToSet(news) = NewLeft BY <2>1 DEF NewLeft
    <2> QED BY <2>2 DEF NewsCome
  <1>13. Once BY <1>3 DEF Once, ResultsAscend, ResultsPassed, ResultsExpected
  <1> QED BY <1>6, <1>7, <1>8, <1>9, <1>10, <1>11, <1>12, <1>13 DEF DiffInvariant

LEMMA NewMerge ==
  ASSUME NEW ia \in Seq(Entries), NEW ib \in Seq(Entries), Ordered(ia), Ordered(ib)
  PROVE  MergeInv(MergeSortedWith(ia, ib)) /\ All(MergeSortedWith(ia, ib)) = ia \o ib
  <1> DEFINE m == MergeSortedWith(ia, ib)
  <1>1. <<>> \in Seq(Entries) OBVIOUS
  <1>2. m \in Merges /\ m.last = <<>> /\ m.ia = ia /\ m.ib = ib BY <1>1 DEF MergeSortedWith, None, Merges
  <1> HIDE DEF m
  <1>3. MergeInv(m) BY <1>2 DEF MergeInv
  <1>4. <<>> \o ia = ia BY ConcatEmptySeq
  <1>5. All(m) = ia \o ib BY <1>2, <1>4 DEF All
  <1> QED BY <1>3, <1>5 DEF m

LEMMA DiffInitInvariant ==
  ASSUME DiffInit
  PROVE  DiffInvariant
  <1>0. MaxRun \in Nat /\ MaxNew \in Nat BY DiffAssumption
  <1>1. PICK ia, ib \in SortedRuns(MaxRun) :
          LET first == next_item(MergeSortedWith(ia, ib))
          IN  olds = ia \o ib /\ curr_old = first.item /\ old = first.merge
    BY DEF DiffInit
  <1>2. /\ ia \in Seq(Entries) /\ Ordered(ia) /\ ib \in Seq(Entries) /\ Ordered(ib)
        /\ news \in Seq(Entries) /\ Ordered(news)
    BY <1>0, <1>1, SortedRunIs DEF DiffInit
  <1>3. PICK m : m = MergeSortedWith(ia, ib) OBVIOUS
  <1>4. MergeInv(m) /\ All(m) = ia \o ib BY <1>2, <1>3, NewMerge
  <1>5. curr_old = next_item(m).item /\ old = next_item(m).merge /\ olds = ia \o ib BY <1>1, <1>3
  <1>6. Gives(m, curr_old, old) BY <1>4, <1>5, NextItem
  <1>7. OldSide BY <1>6 DEF Gives, OldSide
  <1>8. \A e \in Entries : Times(curr_old, e) + Times(All(old), e) = Times(olds, e)
    BY <1>4, <1>5, <1>6 DEF Gives
  <1>9. curr_new = FirstOf(news) /\ new = RestOf(news) /\ results = <<>> BY DEF DiffInit
  <1>10. NewSide /\ curr_new \o new = news BY <1>2, <1>9, FirstOfSide DEF NewSide
  <1>11. olds \in Seq(Entries) BY <1>2, <1>5, ConcatProperties
  <1> QED BY <1>2, <1>7, <1>8, <1>9, <1>10, <1>11, DiffStarts

LEMMA NoDiffInvariant ==
  ASSUME NoDiff
  PROVE  DiffInvariant
  <1>1. <<>> \in Seq(Entries) /\ Ordered(<<>>) BY DEF Ordered
  <1>2. MergeInv(old) /\ All(old) = <<>> \o <<>> BY <1>1, NewMerge DEF NoDiff
  <1>3. <<>> \o <<>> = <<>> BY <1>1, ConcatEmptySeq
  <1>4. OldSide BY <1>2, <1>3 DEF OldSide, NoDiff, None
  <1>5. NewSide BY <1>1 DEF NewSide, NoDiff, None
  <1>6. curr_new \o new = news BY <1>3 DEF NoDiff, None
  <1>7. results = <<>> /\ olds = <<>> /\ news = <<>> /\ curr_old = <<>> BY DEF NoDiff, None
  <1>8. \A e \in Entries : Times(curr_old, e) + Times(All(old), e) = Times(olds, e)
    <2>1. \A e \in Entries : Times(<<>>, e) = 0 BY TimesNone
    <2> QED BY <2>1, <1>2, <1>3, <1>7
  <1> QED BY <1>1, <1>4, <1>5, <1>6, <1>7, <1>8, DiffStarts

LEMMA DiffStep ==
  ASSUME DiffInvariant, DiffNext
  PROVE  DiffInvariant'
  <1>1. PICK x : Moves(x) BY DiffMoves DEF DiffInvariant
  <1>2. OldSide' /\ NewSide' /\ DiffTypes' /\ OldParts' /\ NewParts' BY <1>1, PartsKept DEF DiffInvariant
  <1>3. ResultsBefore' /\ ResultsOrdered' BY <1>1, OrderKept DEF DiffInvariant
  <1>4. OldsBefore' BY <1>1, OldsKept DEF DiffInvariant
  <1>5. OldsCome' /\ NewsCome' BY <1>1, ComeKept DEF DiffInvariant
  <1>6. Once' BY <1>1, OnceKept DEF DiffInvariant
  <1> QED BY <1>2, <1>3, <1>4, <1>5, <1>6 DEF DiffInvariant

LEMMA DiffUnchanged ==
  ASSUME DiffInvariant, UNCHANGED diffVars
  PROVE  DiffInvariant'
  <1>1. /\ old' = old /\ new' = new /\ curr_old' = curr_old /\ curr_new' = curr_new
        /\ olds' = olds /\ news' = news /\ results' = results
    BY DEF diffVars
  <1>2. OldSide' /\ NewSide' /\ DiffTypes' BY <1>1 DEF DiffInvariant, OldSide, NewSide, DiffTypes
  <1>3. OldsIn' = OldsIn /\ NewsIn' = NewsIn BY <1>1 DEF OldsIn, NewsIn
  <1>4. OldParts' /\ NewParts' BY <1>1, <1>3 DEF DiffInvariant, OldParts, NewParts
  <1>5. OldLeft' = OldLeft /\ NewLeft' = NewLeft BY <1>1 DEF OldLeft, NewLeft
  <1>6. ResultsBefore' /\ ResultsOrdered'
    BY <1>1, <1>5 DEF DiffInvariant, ResultsBefore, ResultsOrdered
  <1>7. OldsBefore' BY <1>3, <1>5 DEF DiffInvariant, OldsBefore
  <1>8. OldsCome' /\ NewsCome' BY <1>1, <1>5 DEF DiffInvariant, OldsCome, NewsCome
  <1>9. Expected' = Expected BY <1>1 DEF Expected, WithName, Matched
  <1>10. (Distinct(olds) /\ Distinct(news))' <=> Distinct(olds) /\ Distinct(news) BY <1>1 DEF Distinct
  <1>11. ResultsAscend' <=> ResultsAscend BY <1>1 DEF ResultsAscend
  <1>12. ResultsPassed' <=> ResultsPassed BY <1>1, <1>5 DEF ResultsPassed
  <1>13. ResultsExpected' <=> ResultsExpected BY <1>1, <1>9 DEF ResultsExpected
  <1>14. Once' BY <1>10, <1>11, <1>12, <1>13 DEF DiffInvariant, Once
  <1> QED BY <1>2, <1>4, <1>6, <1>7, <1>8, <1>14 DEF DiffInvariant

(* Nothing that a caller does with its stores breaks the invariant: next()      *)
(* keeps it, and a compression does not touch the iterator (store/mod.rs).     *)
THEOREM DiffInvariantHolds == StoreSpec => []DiffInvariant
  <1>1. StoreInit => DiffInvariant BY DiffInitInvariant, NoDiffInvariant DEF StoreInit
  <1>2. DiffInvariant /\ [StoreNext]_storeVars => DiffInvariant'
    <2> SUFFICES ASSUME DiffInvariant, [StoreNext]_storeVars PROVE DiffInvariant' OBVIOUS
    <2>1. CASE DiffNext BY <2>1, DiffStep
    <2>2. CASE UNCHANGED diffVars BY <2>2, DiffUnchanged
    <2>3. DiffNext \/ UNCHANGED diffVars BY DEF StoreNext, storeVars
    <2> QED BY <2>1, <2>2, <2>3
  <1> QED BY <1>1, <1>2, PTL DEF StoreSpec

--------------------------------------------------------------------------------
(* What the invariant says. *)
LEMMA MemberOfSeq == ASSUME NEW S, NEW s \in Seq(S), NEW e \in ToSet(s) PROVE e \in S
  <1>1. PICK i \in 1 .. Len(s) : e = s[i] BY LenProperties DEF ToSet
  <1> QED BY <1>1, ElementOfSeq

LEMMA ExpectedSides ==
  ASSUME DiffTypes, NEW r \in Expected, NEW e
  PROVE  /\ r.old = <<e>> => e \in ToSet(olds)
         /\ NewOf(r) = <<e>> => e \in ToSet(news)
  <1>1. \A c, d : <<c>> = <<d>> => c = d OBVIOUS
  <1>2. \A d : <<d>> # <<>> OBVIOUS
  <1>3. \/ \E n \in ToSet(news) : r = [kind |-> "Added", old |-> None, new |-> <<n>>]
        \/ \E o \in ToSet(olds) : r = [kind |-> "Removed", old |-> <<o>>, new |-> None]
        \/ \E o \in ToSet(olds), n \in ToSet(news) : n.name = o.name /\ r = Matched(o, n)
    BY DEF Expected, WithName
  <1>4. CASE \E n \in ToSet(news) : r = [kind |-> "Added", old |-> None, new |-> <<n>>]
    <2>1. PICK n \in ToSet(news) : r = [kind |-> "Added", old |-> None, new |-> <<n>>] BY <1>4
    <2>2. r.old = <<>> /\ NewOf(r) = <<n>> BY <2>1 DEF None, NewOf
    <2> QED BY <2>2, <1>1, <1>2
  <1>5. CASE \E o \in ToSet(olds) : r = [kind |-> "Removed", old |-> <<o>>, new |-> None]
    <2>1. PICK o \in ToSet(olds) : r = [kind |-> "Removed", old |-> <<o>>, new |-> None] BY <1>5
    <2>2. r.old = <<o>> /\ NewOf(r) = <<>> BY <2>1 DEF None, NewOf
    <2> QED BY <2>2, <1>1, <1>2
  <1>6. CASE \E o \in ToSet(olds), n \in ToSet(news) : n.name = o.name /\ r = Matched(o, n)
    <2>1. PICK o \in ToSet(olds), n \in ToSet(news) : n.name = o.name /\ r = Matched(o, n) BY <1>6
    <2>2. CASE o.value # n.value
      <3>1. r.old = <<o>> /\ NewOf(r) = <<n>> BY <2>1, <2>2 DEF Matched, NewOf
      <3> QED BY <3>1, <1>1
    <2>3. CASE o.value = n.value
      <3>1. r.old = <<o>> /\ NewOf(r) = <<o>> BY <2>1, <2>3 DEF Matched, NewOf
      <3>2. o \in Entries /\ n \in Entries BY MemberOfSeq DEF DiffTypes
      <3>3. o = n BY <2>1, <2>3, <3>2, EntryIs
      <3> QED BY <3>1, <3>3, <1>1
    <2> QED BY <2>2, <2>3
  <1> QED BY <1>3, <1>4, <1>5, <1>6

LEMMA ResultsAreExpected ==
  ASSUME DiffInvariant, Exhausted, Distinct(olds), Distinct(news), NEW r \in Expected
  PROVE  r \in ToSet(results)
  <1>1. ResultsAscend /\ ResultsExpected BY DEF DiffInvariant, Once
  <1>2. OldLeft = {} /\ NewLeft = {}
    <2>1. curr_old = <<>> /\ curr_new = <<>> BY DEF Exhausted, HasOld, HasNew, None
    <2>2. \A e \in Entries : <<e>> # <<>> OBVIOUS
    <2>3. All(old) = <<>> /\ new = <<>> BY <2>1, <2>2 DEF DiffInvariant, OldSide, NewSide
    <2> QED BY <2>1, <2>3, NoneSet DEF OldLeft, NewLeft
  <1>3. DOMAIN results = 1 .. Len(results) /\ results \in Seq(Results)
    BY LenProperties DEF DiffInvariant, DiffTypes
  <1>4. \A i \in 1 .. Len(results) : /\ results[i] \in Results /\ Shaped(results[i])
                                     /\ results[i] \in ToSet(results) /\ results[i] \in Expected
    BY <1>1, <1>3, ElementOfSeq DEF DiffInvariant, DiffTypes, ToSet, ResultsExpected
  <1>5. \A e \in ToSet(olds) : \E i \in 1 .. Len(results) : results[i].old = <<e>>
    BY <1>2 DEF DiffInvariant, OldsCome
  <1>6. \A e \in ToSet(news) : \E i \in 1 .. Len(results) : NewOf(results[i]) = <<e>>
    BY <1>2 DEF DiffInvariant, NewsCome
  <1>7. \A q \in Results : q = [kind |-> q.kind, old |-> q.old, new |-> q.new] BY DEF Results
  <1>8. \A c, d : <<c>> = <<d>> => c = d OBVIOUS
  <1>9. \A d : <<d>> # <<>> OBVIOUS
  <1>10. CASE \E n \in ToSet(news) : /\ WithName(olds, n.name) = {}
                                     /\ r = [kind |-> "Added", old |-> None, new |-> <<n>>]
    <2>1. PICK n \in ToSet(news) : /\ WithName(olds, n.name) = {}
                                   /\ r = [kind |-> "Added", old |-> None, new |-> <<n>>] BY <1>10
    <2>2. PICK i \in 1 .. Len(results) : NewOf(results[i]) = <<n>> BY <1>6
    <2>3. PICK q \in Results : q = results[i] /\ Shaped(q) /\ q \in ToSet(results) /\ q \in Expected BY <1>4
    <2>4. NameIn(q) = n.name BY <2>2, <2>3, ShapedName
    <2>5. ASSUME NEW o, q.old = <<o>> PROVE FALSE
      <3>1. o \in ToSet(olds) /\ o.name = n.name BY <2>3, <2>4, <2>5, ExpectedSides, ShapedName DEF DiffInvariant
      <3> QED BY <3>1, <2>1 DEF WithName
    <2>6. q.kind = "Added" /\ q.old = <<>> /\ q.new = <<n>> BY <2>2, <2>3, <2>5 DEF Shaped, NewOf
    <2>7. q = r BY <2>1, <2>3, <2>6, <1>7 DEF None
    <2> QED BY <2>3, <2>7
  <1>11. CASE \E o \in ToSet(olds) : /\ WithName(news, o.name) = {}
                                     /\ r = [kind |-> "Removed", old |-> <<o>>, new |-> None]
    <2>1. PICK o \in ToSet(olds) : /\ WithName(news, o.name) = {}
                                   /\ r = [kind |-> "Removed", old |-> <<o>>, new |-> None] BY <1>11
    <2>2. PICK i \in 1 .. Len(results) : results[i].old = <<o>> BY <1>5
    <2>3. PICK q \in Results : q = results[i] /\ Shaped(q) /\ q \in ToSet(results) /\ q \in Expected BY <1>4
    <2>4. NameIn(q) = o.name BY <2>2, <2>3, ShapedName
    <2>5. ASSUME NEW n, NewOf(q) = <<n>> PROVE FALSE
      <3>1. n \in ToSet(news) /\ n.name = o.name BY <2>3, <2>4, <2>5, ExpectedSides, ShapedName DEF DiffInvariant
      <3> QED BY <3>1, <2>1 DEF WithName
    <2>6. q.kind = "Removed" /\ q.old = <<o>> /\ q.new = <<>>
      BY <2>2, <2>3, <2>5, <1>9 DEF Shaped, NewOf
    <2>7. q = r BY <2>1, <2>3, <2>6, <1>7 DEF None
    <2> QED BY <2>3, <2>7
  <1>12. CASE \E o \in ToSet(olds), n \in ToSet(news) : n.name = o.name /\ r = Matched(o, n)
    <2>1. PICK o \in ToSet(olds), n \in ToSet(news) : n.name = o.name /\ r = Matched(o, n) BY <1>12
    <2>2. PICK i \in 1 .. Len(results) : results[i].old = <<o>> BY <1>5
    <2>3. PICK j \in 1 .. Len(results) : NewOf(results[j]) = <<n>> BY <1>6
    <2>4. NameIn(results[i]) = o.name /\ NameIn(results[j]) = o.name BY <2>1, <2>2, <2>3, <1>4, ShapedName
    <2>5. o.name \in Arrays
      <3>1. olds \in Seq(Entries) BY DEF DiffInvariant, DiffTypes
      <3>2. PICK k \in 1 .. Len(olds) : o = olds[k] BY <3>1, LenProperties DEF ToSet
      <3>3. o \in Entries BY <3>1, <3>2, ElementOfSeq
      <3> QED BY <3>3, EntryFields
    <2>6. i = j
      <3>1. ~(i < j) BY <2>4, <2>5, <1>1, LessIrreflexive DEF ResultsAscend
      <3>2. ~(j < i) BY <2>4, <2>5, <1>1, LessIrreflexive DEF ResultsAscend
      <3> QED BY <3>1, <3>2
    <2>7. PICK q \in Results : q = results[i] /\ Shaped(q) /\ q \in ToSet(results) BY <1>4
    <2>8. q.old = <<o>> /\ NewOf(q) = <<n>> BY <2>2, <2>3, <2>6, <2>7
    <2>9. CASE q.kind = "Same"
      <3>1. q.new = <<>> /\ o = n BY <2>7, <2>8, <2>9, <1>8 DEF Shaped, NewOf
      <3>2. r = [kind |-> "Same", old |-> <<o>>, new |-> <<>>] BY <3>1, <2>1 DEF Matched, None
      <3>3. q = r BY <3>1, <3>2, <2>7, <2>8, <2>9, <1>7
      <3> QED BY <3>3, <2>7
    <2>10. CASE q.kind # "Same"
      <3>1. q.kind = "Changed" /\ q.new = <<n>> /\ o.value # n.value
        <4>1. q.new = <<n>> /\ q.old = <<o>> BY <2>8, <2>10 DEF NewOf
        <4>2. <<n>> # <<>> /\ <<o>> # <<>> OBVIOUS
        <4>3. q.new # <<>> /\ q.old # <<>> BY <4>1, <4>2
        <4>4. /\ q.kind = "Changed"
              /\ \E a, b \in Entries : q.old = <<a>> /\ q.new = <<b>> /\ a.name = b.name /\ a.value # b.value
          BY <2>7, <4>3 DEF Shaped
        <4>5. PICK a \in Entries, b \in Entries : q.old = <<a>> /\ q.new = <<b>> /\ a.value # b.value BY <4>4
        <4>6. <<a>> = <<o>> /\ <<b>> = <<n>> BY <4>1, <4>5
        <4>7. a = o /\ b = n BY <4>6
        <4> QED BY <4>1, <4>4, <4>5, <4>7
      <3>2. r = [kind |-> "Changed", old |-> <<o>>, new |-> <<n>>] BY <3>1, <2>1 DEF Matched
      <3>3. q = r BY <3>1, <3>2, <2>7, <2>8, <1>7
      <3> QED BY <3>3, <2>7
    <2> QED BY <2>9, <2>10
  <1> QED BY <1>10, <1>11, <1>12 DEF Expected, WithName

LEMMA UpTo == ASSUME NEW m \in Nat PROVE IsFiniteSet(1 .. m) /\ Cardinality(1 .. m) = m
  <1>1. IsFiniteSet(1 .. m) /\ Cardinality(1 .. m) = IF 1 > m THEN 0 ELSE m - 1 + 1 BY FS_Interval
  <1> QED BY <1>1

LEMMA InvariantGivesDifference ==
  ASSUME DiffInvariant
  PROVE  DiffIsDifference
  <1> SUFFICES ASSUME Exhausted, Distinct(olds), Distinct(news)
               PROVE  ToSet(results) = Expected /\ Len(results) = Cardinality(Expected)
    BY DEF DiffIsDifference
  <1>1. ResultsAscend /\ ResultsExpected BY DEF DiffInvariant, Once
  <1>2. results \in Seq(Results) BY DEF DiffInvariant, DiffTypes
  <1>3. DOMAIN results = 1 .. Len(results) /\ Len(results) \in Nat BY <1>2, LenProperties
  <1>4. ToSet(results) = Expected
    <2>1. ToSet(results) \subseteq Expected BY <1>1, <1>3 DEF ToSet, ResultsExpected
    <2>2. Expected \subseteq ToSet(results) BY ResultsAreExpected
    <2> QED BY <2>1, <2>2
  <1>5. ASSUME NEW i \in 1 .. Len(results), NEW j \in 1 .. Len(results), results[i] = results[j]
        PROVE  i = j
    <2>1. results[i] \in Results /\ Shaped(results[i]) BY <1>2, ElementOfSeq DEF DiffInvariant, DiffTypes
    <2>2. NameIn(results[i]) \in Arrays
      <3>1. \/ \E e \in Entries : results[i].old = <<e>>
            \/ \E e \in Entries : NewOf(results[i]) = <<e>>
        BY <2>1 DEF Shaped, NewOf
      <3> QED BY <3>1, <2>1, ShapedName, EntryFields
    <2>3. ~(i < j) BY <2>2, <1>1, <1>5, LessIrreflexive DEF ResultsAscend
    <2>4. ~(j < i) BY <2>2, <1>1, <1>5, LessIrreflexive DEF ResultsAscend
    <2> QED BY <2>3, <2>4
  <1>6. results \in Bijection(1 .. Len(results), ToSet(results))
    <2>1. results \in [1 .. Len(results) -> ToSet(results)]
      <3>1. results = [i \in 1 .. Len(results) |-> results[i]] BY <1>2, <1>3
      <3>2. \A i \in 1 .. Len(results) : results[i] \in ToSet(results) BY <1>3 DEF ToSet
      <3> QED BY <3>1, <3>2
    <2>2. \A e \in ToSet(results) : \E i \in 1 .. Len(results) : results[i] = e BY <1>3 DEF ToSet
    <2> QED BY <2>1, <2>2, <1>5 DEF Bijection, Injection, Surjection, IsInjective
  <1>7. Cardinality(ToSet(results)) = Len(results)
    <2>1. IsFiniteSet(1 .. Len(results)) /\ Cardinality(1 .. Len(results)) = Len(results) BY <1>3, UpTo
    <2>2. ExistsBijection(1 .. Len(results), ToSet(results)) BY <1>6 DEF ExistsBijection
    <2> QED BY <2>1, <2>2, FS_Bijection
  <1> QED BY <1>4, <1>7

(* DiffingIter returns the difference of both sides: when it is exhausted, and  *)
(* no side has a name twice, its results are exactly the names of one side     *)
(* only, added or removed, and those of both, kept or changed (store/mod.rs,   *)
(* next()).                                                                    *)
THEOREM DiffTheorem == StoreSpec => []DiffIsDifference
  BY DiffInvariantHolds, InvariantGivesDifference, PTL

--------------------------------------------------------------------------------
(* A name with its number among the entries of that name belongs to one      *)
(* entry.                                                                     *)
Rank(s, i) == Cardinality({j \in 1 .. i : s[j].name = s[i].name})

LEMMA NumberedOnce ==
  ASSUME NEW s \in Seq(Entries), NEW i \in 1 .. Len(s), NEW k \in 1 .. Len(s),
         s[i].name = s[k].name, i < k
  PROVE  Rank(s, i) # Rank(s, k)
  <1> DEFINE A == {j \in 1 .. i : s[j].name = s[i].name}
             B == {j \in 1 .. k : s[j].name = s[k].name}
  <1>1. Len(s) \in Nat /\ i \in Nat /\ k \in Nat BY LenProperties
  <1>2. A \subseteq B /\ k \in B /\ k \notin A BY <1>1
  <1>3. IsFiniteSet(B)
    <2>1. IsFiniteSet(1 .. k) BY <1>1, UpTo
    <2> QED BY <2>1, FS_Subset
  <1> HIDE DEF A, B
  <1>4. A # B BY <1>2
  <1>5. /\ IsFiniteSet(A) /\ Cardinality(A) <= Cardinality(B)
        /\ Cardinality(A) = Cardinality(B) => A = B
    BY <1>2, <1>3, FS_Subset
  <1> QED BY <1>4, <1>5 DEF Rank, A, B

LEMMA NumberedCounted ==
  ASSUME NEW s \in Seq(Entries)
  PROVE  IsFiniteSet(Numbered(s)) /\ Cardinality(Numbered(s)) = Len(s)
  <1>1. DOMAIN s = 1 .. Len(s) /\ Len(s) \in Nat BY LenProperties
  <1> DEFINE f == [i \in 1 .. Len(s) |-> <<s[i].name, Rank(s, i)>>]
  <1>2. Numbered(s) = {<<s[i].name, Rank(s, i)>> : i \in 1 .. Len(s)}
    BY <1>1 DEF Numbered, Rank
  <1>3. f \in [1 .. Len(s) -> Numbered(s)] BY <1>2
  <1>4. ASSUME NEW i \in 1 .. Len(s), NEW k \in 1 .. Len(s), f[i] = f[k] PROVE i = k
    <2>1. s[i].name = s[k].name /\ Rank(s, i) = Rank(s, k) BY <1>4
    <2>2. ~(i < k) BY <2>1, NumberedOnce
    <2>3. ~(k < i) BY <2>1, NumberedOnce
    <2> QED BY <1>1, <2>2, <2>3
  <1>5. \A e \in Numbered(s) : \E i \in 1 .. Len(s) : f[i] = e BY <1>2
  <1> HIDE DEF f
  <1>6. f \in Bijection(1 .. Len(s), Numbered(s))
    BY <1>3, <1>4, <1>5 DEF Bijection, Injection, Surjection, IsInjective
  <1>7. ExistsBijection(1 .. Len(s), Numbered(s)) BY <1>6 DEF ExistsBijection
  <1>8. IsFiniteSet(1 .. Len(s)) /\ Cardinality(1 .. Len(s)) = Len(s) BY <1>1, UpTo
  <1> QED BY <1>7, <1>8, FS_Bijection

(* Two sets together have no more than both, and no less than one of them. *)
LEMMA TwoSets ==
  ASSUME NEW A, NEW B, IsFiniteSet(A), IsFiniteSet(B)
  PROVE  /\ Cardinality(A \union B) \in Nat /\ Cardinality(A) \in Nat /\ Cardinality(B) \in Nat
         /\ Cardinality(A) <= Cardinality(A \union B) /\ Cardinality(B) <= Cardinality(A \union B)
         /\ Cardinality(A \union B) <= Cardinality(A) + Cardinality(B)
  <1>1. IsFiniteSet(A \union B) /\ IsFiniteSet(A \intersect B) BY FS_Union, FS_Intersection
  <1>2. Cardinality(A \union B) = Cardinality(A) + Cardinality(B) - Cardinality(A \intersect B) BY FS_Union
  <1>3. /\ Cardinality(A \union B) \in Nat /\ Cardinality(A) \in Nat /\ Cardinality(B) \in Nat
        /\ Cardinality(A \intersect B) \in Nat BY <1>1, FS_CardinalityType
  <1>4. Cardinality(A) <= Cardinality(A \union B) /\ Cardinality(B) <= Cardinality(A \union B)
    BY <1>1, FS_Subset
  <1> QED BY <1>2, <1>3, <1>4

LEMMA GreaterOfTwo ==
  ASSUME NEW a \in Nat, NEW b \in Nat
  PROVE  Max({a, b}) \in {a, b} /\ a <= Max({a, b}) /\ b <= Max({a, b})
  <1> DEFINE P(x) == x \in {a, b} /\ \A y \in {a, b} : x >= y
  <1>1. Max({a, b}) = CHOOSE x : P(x) BY DEF Max
  <1>2. \E x : P(x)
    <2>1. CASE a <= b BY <2>1
    <2>2. CASE b <= a BY <2>2
    <2> QED BY <2>1, <2>2
  <1>3. P(CHOOSE x : P(x)) BY <1>2
  <1> QED BY <1>1, <1>3

LEMMA InvariantGivesSizeHint ==
  ASSUME DiffInvariant
  PROVE  SizeHintHolds
  <1> USE DEF DiffInvariant
  <1>1. PICK s \in Seq(Entries) : s = curr_old BY SideTypes
  <1>2. PICK t \in Seq(Entries) : t = All(old) BY SideTypes
  <1>3. PICK c \in Seq(Entries) : c = curr_new BY SideTypes
  <1>4. PICK n \in Seq(Entries) : n = new BY SideTypes
  <1>5. /\ s \o t \in Seq(Entries) /\ Len(s \o t) = Len(s) + Len(t)
        /\ c \o n \in Seq(Entries) /\ Len(c \o n) = Len(c) + Len(n)
    BY ConcatProperties
  <1> DEFINE A == Numbered(s \o t)
             B == Numbered(c \o n)
  <1>6. /\ IsFiniteSet(A) /\ Cardinality(A) = Len(s) + Len(t)
        /\ IsFiniteSet(B) /\ Cardinality(B) = Len(c) + Len(n)
    BY <1>5, NumberedCounted
  <1>7. InMerge = t BY <1>2 DEF InMerge, All
  <1>8. Remaining = Cardinality(A \union B) BY <1>1, <1>3, <1>4, <1>7 DEF Remaining
  <1> HIDE DEF A, B
  <1>9. /\ Remaining \in Nat
        /\ Len(s) + Len(t) <= Remaining /\ Len(c) + Len(n) <= Remaining
        /\ Remaining <= Len(s) + Len(t) + (Len(c) + Len(n))
    BY <1>6, <1>8, TwoSets
  <1>10. size_hint(old) = Len(t)
    <2>1. old \in Merges BY SideTypes
    <2>2. PICK l, a, b \in Seq(Entries) : l = old.last /\ a = old.ia /\ b = old.ib BY <2>1 DEF Merges
    <2>3. Len(l) \in Nat /\ Len(a) \in Nat /\ Len(b) \in Nat BY <2>2, LenProperties
    <2>4. Len((l \o a) \o b) = Len(l) + Len(a) + Len(b) BY <2>2, ConcatProperties
    <2>5. t = (l \o a) \o b BY <1>2, <2>2 DEF All
    <2>6. size_hint(old) = Len(a) + Len(b) + Len(l) BY <2>2 DEF size_hint
    <2>7. Len(t) = Len(l) + Len(a) + Len(b) BY <2>4, <2>5
    <2> QED BY <2>3, <2>6, <2>7
  <1>11. Len(s) \in Nat /\ Len(t) \in Nat /\ Len(c) \in Nat /\ Len(n) \in Nat
    BY <1>1, <1>2, <1>3, <1>4, LenProperties
  <1>12. Remaining <= upper BY <1>1, <1>3, <1>4, <1>9, <1>10, <1>11 DEF upper
  <1>13. /\ (Len(s) = 0 /\ Len(t) = 0) \/ Len(s) = 1
         /\ (Len(c) = 0 /\ Len(n) = 0) \/ Len(c) = 1
    <2>1. (s = <<>> /\ t = <<>>) \/ \E e \in Entries : s = <<e>> BY <1>1, <1>2 DEF OldSide
    <2>2. (c = <<>> /\ n = <<>>) \/ \E e \in Entries : c = <<e>> BY <1>3, <1>4 DEF NewSide
    <2>3. Len(<<>>) = 0 /\ \A e : Len(<<e>>) = 1 OBVIOUS
    <2> QED BY <2>1, <2>2, <2>3
  <1>14. Exhausted <=> Len(s) = 0 /\ Len(c) = 0
    <2>1. Exhausted <=> s = <<>> /\ c = <<>> BY <1>1, <1>3 DEF Exhausted, HasOld, HasNew, None
    <2> QED BY <2>1, <1>1, <1>3, EmptySeq
  <1>15. lower = Max({Len(t), Len(n)}) + (IF Exhausted THEN 0 ELSE 1) BY <1>4, <1>10 DEF lower
  <1>16. Max({Len(t), Len(n)}) \in {Len(t), Len(n)} BY <1>11, GreaterOfTwo
  <1>17. lower <= Remaining BY <1>9, <1>11, <1>13, <1>14, <1>15, <1>16
  <1> QED BY <1>12, <1>17 DEF SizeHintHolds

(* At every moment the size hint of DiffingIter bounds the number of results    *)
(* that the entries left give, for sides with repeated names or without       *)
(* (store/mod.rs, size_hint).                                                  *)
THEOREM SizeHintTheorem == StoreSpec => []SizeHintHolds
  BY DiffInvariantHolds, InvariantGivesSizeHint, PTL

--------------------------------------------------------------------------------
(* The same order, by the numbers that the names stand for. *)
LEMMA ByNumber ==
  ASSUME NEW a \in Entries, NEW b \in Entries, InOrder(a, b)
  PROVE  NotAfterByNumber(a, b)
  <1>1. Less(a.name, b.name) \/ (a.name = b.name /\ a.value <= b.value) BY InOrderFacts
  <1>2. Less(a.name, b.name) => Number(a.name) < Number(b.name) BY EntryFields, LessIsLower
  <1> QED BY <1>1, <1>2 DEF NotAfterByNumber

LEMMA NumberOfName == ASSUME NEW a \in Arrays PROVE Number(a) \in Nat
  <1>1. PICK f : WordValues(a, f) BY ValuesExist
  <1> QED BY <1>1, NumberIs

LEMMA NameOfResultIs ==
  ASSUME NEW r \in Results, Shaped(r)
  PROVE  NameOfResult(r) = Number(NameIn(r)) /\ NameIn(r) \in Arrays
  <1>1. PICK o \in Seq(Entries) : o = r.old BY DEF Results
  <1>2. PICK n \in Seq(Entries) : n = r.new BY DEF Results
  <1>3. o = <<>> \/ \E e \in Entries : o = <<e>> BY <1>1 DEF Shaped
  <1>4. CASE o = <<>>
    <2>1. PICK e \in Entries : n = <<e>> BY <1>1, <1>2, <1>4 DEF Shaped
    <2>2. o \o n = n BY <1>2, <1>4, ConcatEmptySeq
    <2>3. Head(n) = e /\ n[1] = e BY <2>1
    <2>4. Head(o \o n) = e BY <2>2, <2>3
    <2>5. NameIn(r) = e.name BY <1>1, <1>2, <1>4, <2>3 DEF NameIn
    <2> QED BY <1>1, <1>2, <2>4, <2>5, EntryFields DEF NameOfResult
  <1>5. CASE \E e \in Entries : o = <<e>>
    <2>1. PICK e \in Entries : o = <<e>> BY <1>5
    <2>2. Len(o) = 1 /\ o[1] = e /\ o # <<>> BY <2>1
    <2> DEFINE u == o \o n
    <2>3. /\ u \in Seq(Entries) /\ Len(u) = Len(o) + Len(n) /\ Len(n) \in Nat
           /\ \A i \in 1 .. Len(o) + Len(n) : u[i] = IF i <= Len(o) THEN o[i] ELSE n[i - Len(o)]
      BY ZenonT(60), <1>1, <1>2, ConcatProperties, LenProperties
    <2> HIDE DEF u
    <2>4. /\ u \in Seq(Entries) /\ Len(u) = 1 + Len(n) /\ Len(n) \in Nat
          /\ \A i \in 1 .. 1 + Len(n) : u[i] = IF i <= 1 THEN o[i] ELSE n[i - 1]
      BY <2>2, <2>3
    <2>5. 1 \in 1 .. 1 + Len(n) BY <2>4
    <2>6. u[1] = e BY <2>2, <2>4, <2>5
    <2>7. u # <<>> BY <2>4, EmptySeq
    <2>8. Head(u) = e BY <2>4, <2>6, <2>7, HeadTailProperties
    <2>9. NameIn(r) = e.name BY <1>1, <2>2 DEF NameIn
    <2> QED BY <1>1, <1>2, <2>8, <2>9, EntryFields DEF NameOfResult, u
  <1> QED BY <1>3, <1>4, <1>5

LEMMA InvariantGivesNothingLost ==
  ASSUME DiffInvariant
  PROVE  NothingLost
  <1> USE DEF DiffInvariant
  <1>1. PICK s \in Seq(Entries) : s = OldsIn BY InsTyped
  <1>2. PICK c \in Seq(Entries) : c = curr_old BY SideTypes
  <1>3. PICK t \in Seq(Entries) : t = All(old) BY SideTypes
  <1>4. InMerge = t BY <1>3 DEF InMerge, All
  <1> DEFINE u == s \o c
  <1>5. u \in Seq(Entries) BY <1>1, <1>2, ConcatProperties
  <1>6. ASSUME NEW e \in Entries PROVE Times(OldsIn \o curr_old \o InMerge, e) = Times(olds, e)
    <2>1. Times(s \o c, e) = Times(s, e) + Times(c, e) BY <1>1, <1>2, TimesConcat
    <2> HIDE DEF u
    <2>2. Times(u \o t, e) = Times(u, e) + Times(t, e) BY <1>3, <1>5, TimesConcat
    <2>3. Times(s, e) + Times(c, e) + Times(t, e) = Times(olds, e) BY <1>1, <1>2, <1>3 DEF OldParts
    <2> QED BY <1>1, <1>2, <1>4, <2>1, <2>2, <2>3 DEF u
  <1>7. Ordered(u) /\ \A a \in ToSet(u), b \in ToSet(t) : InOrder(a, b)
    <2>1. CASE c = <<>>
      <3>1. u = s /\ t = <<>>
        <4>1. s \o <<>> = s BY <1>1, ConcatEmptySeq
        <4>2. t = <<>> \/ \E e \in Entries : c = <<e>> BY <1>2, <1>3 DEF OldSide
        <4>3. \A e \in Entries : <<e>> # <<>> OBVIOUS
        <4> QED BY <4>1, <4>2, <4>3, <2>1
      <3> HIDE DEF u
      <3> QED BY <3>1, <1>1, NoneSet DEF OldsBefore
    <2>2. CASE c # <<>>
      <3>1. PICK e \in Entries : c = <<e>> /\ AllAfter(e, t) BY <2>2, <1>2, <1>3 DEF OldSide
      <3>2. e \in OldLeft /\ ToSet(t) \subseteq OldLeft BY <3>1, <1>2, <1>3, OneSet DEF OldLeft
      <3>3. Ordered(s) /\ \A o \in ToSet(s), d \in OldLeft : InOrder(o, d) BY <1>1 DEF OldsBefore
      <3>4. Ordered(s \o <<e>>) /\ ToSet(s \o <<e>>) = ToSet(s) \union {e}
        BY <1>1, <3>1, <3>2, <3>3, OrderedAppend
      <3>5. u = s \o <<e>> BY <3>1
      <3>6. \A b \in ToSet(t) : InOrder(e, b) BY <1>3, <3>1, AfterSet
      <3> HIDE DEF u
      <3>7. Ordered(u) /\ ToSet(u) = ToSet(s) \union {e} BY <3>4, <3>5
      <3> QED BY <3>2, <3>3, <3>6, <3>7
    <2> QED BY <2>1, <2>2
  <1> HIDE DEF u
  <1>8. \A i \in 1 .. Len(u) : u[i] \in Entries BY <1>5, ElementOfSeq
  <1>9. IsSorted(u, NotAfterByNumber) BY <1>7, <1>8, ByNumber DEF IsSorted, Ordered
  <1>10. \A a \in ToSet(u), b \in ToSet(t) : NotAfterByNumber(a, b)
    <2>1. ToSet(u) \subseteq Entries /\ ToSet(t) \subseteq Entries BY <1>3, <1>5, MemberOfSeq
    <2> QED BY <2>1, <1>7, ByNumber
  <1>11. IsSorted(OldsIn \o curr_old, NotAfterByNumber) BY <1>1, <1>2, <1>9 DEF u
  <1>12. \A a \in ToSet(OldsIn \o curr_old), b \in ToSet(InMerge) : NotAfterByNumber(a, b)
    BY <1>1, <1>2, <1>4, <1>10 DEF u
  <1>13. NewsIn \o curr_new \o new = news BY DEF NewParts
  <1>14. \A i, j \in DOMAIN results : i < j => NameOfResult(results[i]) <= NameOfResult(results[j])
    <2>1. DOMAIN results = 1 .. Len(results) /\ \A i \in 1 .. Len(results) : results[i] \in Results
      BY LenProperties, ElementOfSeq DEF DiffTypes
    <2>2. \A i \in 1 .. Len(results) : /\ NameOfResult(results[i]) = Number(NameIn(results[i]))
                                       /\ NameIn(results[i]) \in Arrays
      BY <2>1, NameOfResultIs DEF DiffTypes
    <2>3. ASSUME NEW i \in 1 .. Len(results), NEW j \in 1 .. Len(results), i < j
          PROVE  NameOfResult(results[i]) <= NameOfResult(results[j])
      <3>1. PICK a \in Arrays : a = NameIn(results[i]) /\ NameOfResult(results[i]) = Number(a) BY <2>2
      <3>2. PICK b \in Arrays : b = NameIn(results[j]) /\ NameOfResult(results[j]) = Number(b) BY <2>2
      <3>3. a = b \/ Less(a, b) BY <3>1, <3>2, <2>3 DEF ResultsOrdered, NotLater
      <3>4. Number(a) \in Nat /\ Number(b) \in Nat BY <3>1, <3>2, NumberOfName
      <3>5. Less(a, b) => Number(a) < Number(b) BY <3>1, <3>2, LessIsLower
      <3> QED BY <3>1, <3>2, <3>3, <3>4, <3>5
    <2> QED BY <2>1, <2>3
  <1> QED BY <1>6, <1>11, <1>12, <1>13, <1>14 DEF NothingLost

(* The merge and the iterator lose no entry, count none twice and give them in  *)
(* the order of their names, at every moment and even when names are repeated   *)
(* (utils/sort.rs, MergeSortedWith; store/mod.rs, next()).                     *)
THEOREM NothingLostTheorem == StoreSpec => []NothingLost
  BY DiffInvariantHolds, InvariantGivesNothingLost, PTL

--------------------------------------------------------------------------------
(* Division, for numbers of any size. *)
LEMMA Divides ==
  ASSUME NEW x \in Int, NEW d \in Nat \ {0}
  PROVE  /\ x \div d \in Int /\ x % d \in 0 .. d - 1
         /\ x = (x \div d) * d + (x % d)
  OBVIOUS

LEMMA NoMultipleBetween ==
  ASSUME NEW k \in Int, NEW d \in Nat \ {0}, -d < k * d, k * d < d
  PROVE  k = 0
  <1>1. CASE k >= 1
    <2>1. PICK n \in Nat : k = n + 1
      <3>1. k - 1 \in Nat /\ k = (k - 1) + 1 BY <1>1
      <3> QED BY <3>1
    <2>2. k * d = n * d + d /\ n * d \in Nat BY <2>1
    <2> QED BY <2>2
  <1>2. CASE k <= -1
    <2>1. PICK n \in Nat : k = -n - 1
      <3>1. -k - 1 \in Nat /\ k = -(-k - 1) - 1 BY <1>2
      <3> QED BY <3>1
    <2>2. k * d = -(n * d) - d /\ n * d \in Nat BY <2>1
    <2> QED BY <2>2
  <1> QED BY <1>1, <1>2

LEMMA DivisionIs ==
  ASSUME NEW q \in Int, NEW d \in Nat \ {0}, NEW r \in 0 .. d - 1, NEW x \in Int, x = q * d + r
  PROVE  x \div d = q /\ x % d = r
  <1> DEFINE p == x \div d
             s == x % d
  <1>1. p \in Int /\ s \in 0 .. d - 1 /\ x = p * d + s BY Divides
  <1> HIDE DEF p, s
  <1>2. q - p \in Int /\ (q - p) * d = q * d - p * d /\ q * d \in Int /\ p * d \in Int BY <1>1
  <1>3. -d < (q - p) * d /\ (q - p) * d < d BY <1>1, <1>2
  <1>4. q - p = 0 BY <1>2, <1>3, NoMultipleBetween
  <1>5. q = p BY <1>1, <1>4
  <1>6. r = s BY <1>1, <1>5
  <1> QED BY <1>5, <1>6 DEF p, s

(* What holds above the words, and for each word if it does for the one above, *)
(* holds for all of them.                                                    *)
LEMMA WordsInduction ==
  ASSUME NEW S, Words + 1 \in S, \A i \in 1 .. Words : i + 1 \in S => i \in S
  PROVE  1 \in S
  <1> DEFINE T == {n \in 0 .. Words : Words + 1 - n \in S}
  <1>1. Words \in Nat \ {0} BY HashArrayAssumption
  <1>2. 0 \in T
    <2>1. 0 \in 0 .. Words /\ Words + 1 - 0 = Words + 1 BY <1>1
    <2> QED BY <2>1
  <1>3. ASSUME NEW n \in 0 .. Words - 1, n \in T PROVE n + 1 \in T
    <2>1. /\ Words + 1 - (n + 1) \in 1 .. Words /\ n + 1 \in 0 .. Words
          /\ (Words + 1 - (n + 1)) + 1 = Words + 1 - n BY <1>1
    <2>2. Words + 1 - n \in S BY <1>3
    <2>3. Words + 1 - (n + 1) \in S BY <2>1, <2>2
    <2> QED BY <2>1, <2>3
  <1> HIDE DEF T
  <1>4. 0 .. Words \subseteq T BY <1>1, <1>2, <1>3, IntervalInduction
  <1>5. Words \in T BY <1>1, <1>4
  <1>6. Words + 1 - Words = 1 BY <1>1
  <1> QED BY <1>5, <1>6 DEF T

--------------------------------------------------------------------------------
(* Numbers of words that may be out of range while a carry is on its way. *)
WordSums(x, f) == /\ f \in [1 .. Words + 1 -> Int]
                  /\ f[Words + 1] = 0
                  /\ \A i \in 1 .. Words : x[i] \in Int /\ f[i] = f[i + 1] * DataChunk + x[i]

Powers(p) == /\ p \in [1 .. Words + 1 -> Nat \ {0}]
             /\ p[Words + 1] = 1
             /\ \A i \in 1 .. Words : p[i] = p[i + 1] * DataChunk

LEMMA ArrayWords ==
  ASSUME NEW a \in Arrays
  PROVE  \A i \in 1 .. Words : a[i] \in 0 .. DataChunk - 1 /\ a[i] \in Nat /\ a[i] < DataChunk
  BY ChunkPositive DEF Arrays

LEMMA SumsOfArray ==
  ASSUME NEW a \in Arrays
  PROVE  \E f : WordSums(a, f) /\ f[1] = Number(a) /\ \A i \in 1 .. Words + 1 : f[i] \in Nat
  <1>1. PICK f : WordValues(a, f) BY ValuesExist
  <1>2. f[1] = Number(a) BY <1>1, NumberIs
  <1>3. \A i \in 1 .. Words : a[i] \in Int BY ArrayWords
  <1>4. f \in [1 .. Words + 1 -> Nat] BY <1>1 DEF WordValues
  <1>5. f \in [1 .. Words + 1 -> Int] BY <1>4
  <1>6. WordSums(a, f) BY <1>1, <1>3, <1>5 DEF WordSums, WordValues
  <1> QED BY <1>2, <1>4, <1>6

LEMMA PowersExist == \E p : Powers(p) /\ p[1] = Range2
  <1> DEFINE max == [i \in 1 .. Words |-> DataChunk - 1]
  <1>1. max \in Arrays BY ChunkPositive DEF Arrays
  <1>2. \A i \in 1 .. Words : max[i] = DataChunk - 1 OBVIOUS
  <1>3. Range2 = Number(max) + 1 BY DEF Range2
  <1> HIDE DEF max
  <1>4. PICK f : WordSums(max, f) /\ f[1] = Number(max) /\ \A i \in 1 .. Words + 1 : f[i] \in Nat
    BY <1>1, SumsOfArray
  <1>5. Words \in Nat \ {0} /\ DataChunk \in Nat \ {0} BY HashArrayAssumption, ChunkPositive
  <1>6. \A i \in 1 .. Words : i \in 1 .. Words + 1 /\ i + 1 \in 1 .. Words + 1 BY <1>5
  <1> DEFINE p == [i \in 1 .. Words + 1 |-> f[i] + 1]
  <1>7. p \in [1 .. Words + 1 -> Nat \ {0}] BY <1>4
  <1>8. p[Words + 1] = 1 /\ p[1] = Range2
    <2>1. Words + 1 \in 1 .. Words + 1 /\ 1 \in 1 .. Words + 1 BY <1>5
    <2> QED BY <2>1, <1>3, <1>4 DEF WordSums
  <1>9. ASSUME NEW i \in 1 .. Words PROVE p[i] = p[i + 1] * DataChunk
    <2>1. p[i] = f[i] + 1 /\ p[i + 1] = f[i + 1] + 1 BY <1>6
    <2>2. f[i] = f[i + 1] * DataChunk + (DataChunk - 1) BY <1>2, <1>4 DEF WordSums
    <2>3. f[i + 1] \in Nat BY <1>4, <1>6
    <2>4. (f[i + 1] + 1) * DataChunk = f[i + 1] * DataChunk + DataChunk BY <2>3, <1>5
    <2>5. f[i + 1] * DataChunk \in Nat BY <2>3, <1>5
    <2> QED BY <2>1, <2>2, <2>4, <2>5, <1>5
  <1> QED BY <1>7, <1>8, <1>9 DEF Powers

LEMMA NumberBelow ==
  ASSUME NEW a \in Arrays
  PROVE  Number(a) \in Nat /\ Number(a) < Range2 /\ Range2 \in Nat \ {0}
  <1>1. PICK p : Powers(p) /\ p[1] = Range2 BY PowersExist
  <1>2. PICK f : WordSums(a, f) /\ f[1] = Number(a) /\ \A i \in 1 .. Words + 1 : f[i] \in Nat
    BY SumsOfArray
  <1>3. Words \in Nat \ {0} /\ DataChunk \in Nat \ {0} BY HashArrayAssumption, ChunkPositive
  <1> DEFINE S == {i \in 1 .. Words + 1 : f[i] < p[i]}
  <1>4. Words + 1 \in S
    <2>1. Words + 1 \in 1 .. Words + 1 BY <1>3
    <2> QED BY <2>1, <1>1, <1>2 DEF WordSums, Powers
  <1>5. ASSUME NEW i \in 1 .. Words, i + 1 \in S PROVE i \in S
    <2>1. i \in 1 .. Words + 1 /\ i + 1 \in 1 .. Words + 1 BY <1>3
    <2>2. f[i + 1] < p[i + 1] BY <1>5
    <2>3. p[i] = p[i + 1] * DataChunk /\ p[i + 1] \in Nat BY <2>1, <1>1 DEF Powers
    <2>4. f[i] = f[i + 1] * DataChunk + a[i] /\ f[i + 1] \in Nat BY <2>1, <1>2 DEF WordSums
    <2>5. a[i] \in 0 .. DataChunk - 1 BY ArrayWords
    <2>6. f[i + 1] * DataChunk + a[i] < p[i + 1] * DataChunk + 0
      BY <2>2, <2>3, <2>4, <2>5, <1>3, HigherFirst
    <2>7. p[i + 1] * DataChunk \in Nat BY <2>3, <1>3
    <2> QED BY <2>1, <2>3, <2>4, <2>6, <2>7
  <1> HIDE DEF S
  <1>6. 1 \in S BY <1>4, <1>5, WordsInduction
  <1>7. 1 \in 1 .. Words + 1 BY <1>3
  <1> QED BY <1>1, <1>2, <1>6, <1>7 DEF S, Powers

LEMMA NumberInjective ==
  ASSUME NEW a \in Arrays, NEW b \in Arrays, Number(a) = Number(b)
  PROVE  a = b
  <1>1. Number(a) \in Nat BY NumberBelow
  <1>2. ~Less(a, b) BY <1>1, LessIsLower
  <1>3. ~Less(b, a) BY <1>1, LessIsLower
  <1> QED BY <1>2, <1>3, LessTotal

LEMMA CarryCancels ==
  ASSUME NEW X \in Int, NEW Y \in Int, NEW P \in Int, NEW k \in Int, NEW d \in Int,
         NEW into \in Int, NEW out \in Int, NEW x \in Int, NEW y \in Int,
         Y = X + out - k * P, y = x + into - out * d
  PROVE  Y * d + y = X * d + x + into - k * (P * d)
  <1>1. Y * d = X * d + out * d - k * (P * d) OBVIOUS
  <1>2. X * d \in Int /\ out * d \in Int /\ k * (P * d) \in Int OBVIOUS
  <1> QED BY <1>1, <1>2

(* Carries that go into a word and out of the one below cancel out, but for the *)
(* first and the last.                                                       *)
Carried(x, y, c) == /\ c \in [0 .. Words -> Int]
                    /\ \A i \in 1 .. Words : y[i] = x[i] + c[i - 1] - c[i] * DataChunk

LEMMA CarriesCancel ==
  ASSUME NEW x, NEW fx, WordSums(x, fx), NEW y, NEW fy, WordSums(y, fy),
         NEW c, Carried(x, y, c), NEW p, Powers(p)
  PROVE  fy[1] = fx[1] + c[0] - c[Words] * p[1]
  <1>1. Words \in Nat \ {0} /\ DataChunk \in Nat \ {0} BY HashArrayAssumption, ChunkPositive
  <1> DEFINE S == {i \in 1 .. Words + 1 : fy[i] = fx[i] + c[i - 1] - c[Words] * p[i]}
  <1>2. c[Words] \in Int /\ c[0] \in Int BY <1>1 DEF Carried
  <1>3. Words + 1 \in S
    <2>1. Words + 1 \in 1 .. Words + 1 /\ (Words + 1) - 1 = Words BY <1>1
    <2>2. fy[Words + 1] = 0 /\ fx[Words + 1] = 0 /\ p[Words + 1] = 1 BY DEF WordSums, Powers
    <2>3. c[Words] * 1 = c[Words] BY <1>2
    <2>4. fy[Words + 1] = fx[Words + 1] + c[Words] - c[Words] * p[Words + 1] BY <2>2, <2>3, <1>2
    <2> QED BY <2>1, <2>4
  <1>4. ASSUME NEW i \in 1 .. Words, i + 1 \in S PROVE i \in S
    <2>1. i \in 1 .. Words + 1 /\ i + 1 \in 1 .. Words + 1 /\ (i + 1) - 1 = i /\ i - 1 \in 0 .. Words
          /\ i \in 0 .. Words
      BY <1>1
    <2>2. fy[i + 1] = fx[i + 1] + c[i] - c[Words] * p[i + 1] BY <2>1, <1>4
    <2>3. /\ fy[i] = fy[i + 1] * DataChunk + y[i] /\ fx[i] = fx[i + 1] * DataChunk + x[i]
          /\ p[i] = p[i + 1] * DataChunk
          /\ fx[i + 1] \in Int /\ fy[i + 1] \in Int /\ p[i + 1] \in Int /\ x[i] \in Int /\ y[i] \in Int
      BY <2>1 DEF WordSums, Powers
    <2>4. y[i] = x[i] + c[i - 1] - c[i] * DataChunk BY DEF Carried
    <2>5. c[i] \in Int /\ c[i - 1] \in Int /\ c[Words] \in Int /\ DataChunk \in Int
      BY <2>1, <1>1, <1>2 DEF Carried
    <2>6. fy[i + 1] * DataChunk + y[i]
              = fx[i + 1] * DataChunk + x[i] + c[i - 1] - c[Words] * (p[i + 1] * DataChunk)
      <3> DEFINE X == fx[i + 1]
                 Y == fy[i + 1]
                 P == p[i + 1]
                 k == c[Words]
                 into == c[i - 1]
                 out == c[i]
      <3>1. Y = X + out - k * P /\ y[i] = x[i] + into - out * DataChunk BY <2>2, <2>4
      <3>2. /\ X \in Int /\ Y \in Int /\ P \in Int /\ k \in Int /\ into \in Int /\ out \in Int
            /\ x[i] \in Int /\ y[i] \in Int /\ DataChunk \in Int
        BY <2>3, <2>5
      <3> HIDE DEF X, Y, P, k, into, out
      <3>3. Y * DataChunk + y[i] = X * DataChunk + x[i] + into - k * (P * DataChunk)
        BY <3>1, <3>2, CarryCancels
      <3> QED BY <3>3 DEF X, Y, P, k, into, out
    <2>7. fy[i] = fx[i] + c[i - 1] - c[Words] * p[i] BY <2>3, <2>6
    <2> QED BY <2>1, <2>7
  <1> HIDE DEF S
  <1>5. 1 \in S BY <1>3, <1>4, WordsInduction
  <1>6. 1 - 1 = 0 OBVIOUS
  <1> QED BY <1>5, <1>6 DEF S

LEMMA AddedSums ==
  ASSUME NEW x, NEW fx, WordSums(x, fx), NEW y, NEW fy, WordSums(y, fy)
  PROVE  WordSums([i \in 1 .. Words |-> x[i] + y[i]], [i \in 1 .. Words + 1 |-> fx[i] + fy[i]])
  <1>1. Words \in Nat \ {0} /\ DataChunk \in Nat \ {0} BY HashArrayAssumption, ChunkPositive
  <1> DEFINE z == [i \in 1 .. Words |-> x[i] + y[i]]
             f == [i \in 1 .. Words + 1 |-> fx[i] + fy[i]]
  <1>2. f \in [1 .. Words + 1 -> Int] BY DEF WordSums
  <1>3. f[Words + 1] = 0
    <2>1. Words + 1 \in 1 .. Words + 1 BY <1>1
    <2> QED BY <2>1 DEF WordSums
  <1>4. ASSUME NEW i \in 1 .. Words PROVE z[i] \in Int /\ f[i] = f[i + 1] * DataChunk + z[i]
    <2>1. i \in 1 .. Words + 1 /\ i + 1 \in 1 .. Words + 1 BY <1>1
    <2>2. f[i] = fx[i] + fy[i] /\ f[i + 1] = fx[i + 1] + fy[i + 1] /\ z[i] = x[i] + y[i] BY <2>1
    <2>3. /\ fx[i] = fx[i + 1] * DataChunk + x[i] /\ fy[i] = fy[i + 1] * DataChunk + y[i]
          /\ fx[i + 1] \in Int /\ fy[i + 1] \in Int /\ x[i] \in Int /\ y[i] \in Int
      BY <2>1 DEF WordSums
    <2>4. (fx[i + 1] + fy[i + 1]) * DataChunk = fx[i + 1] * DataChunk + fy[i + 1] * DataChunk
      BY <2>3, <1>1
    <2>5. fx[i + 1] * DataChunk \in Int /\ fy[i + 1] * DataChunk \in Int BY <2>3, <1>1
    <2> HIDE DEF z, f
    <2> QED BY <2>2, <2>3, <2>4, <2>5
  <1> QED BY <1>2, <1>3, <1>4 DEF WordSums

LEMMA SubtractedSums ==
  ASSUME NEW x, NEW fx, WordSums(x, fx), NEW y, NEW fy, WordSums(y, fy)
  PROVE  WordSums([i \in 1 .. Words |-> x[i] - y[i]], [i \in 1 .. Words + 1 |-> fx[i] - fy[i]])
  <1>1. Words \in Nat \ {0} /\ DataChunk \in Nat \ {0} BY HashArrayAssumption, ChunkPositive
  <1> DEFINE z == [i \in 1 .. Words |-> x[i] - y[i]]
             f == [i \in 1 .. Words + 1 |-> fx[i] - fy[i]]
  <1>2. f \in [1 .. Words + 1 -> Int] BY DEF WordSums
  <1>3. f[Words + 1] = 0
    <2>1. Words + 1 \in 1 .. Words + 1 BY <1>1
    <2> QED BY <2>1 DEF WordSums
  <1>4. ASSUME NEW i \in 1 .. Words PROVE z[i] \in Int /\ f[i] = f[i + 1] * DataChunk + z[i]
    <2>1. i \in 1 .. Words + 1 /\ i + 1 \in 1 .. Words + 1 BY <1>1
    <2>2. f[i] = fx[i] - fy[i] /\ f[i + 1] = fx[i + 1] - fy[i + 1] /\ z[i] = x[i] - y[i] BY <2>1
    <2>3. /\ fx[i] = fx[i + 1] * DataChunk + x[i] /\ fy[i] = fy[i + 1] * DataChunk + y[i]
          /\ fx[i + 1] \in Int /\ fy[i + 1] \in Int /\ x[i] \in Int /\ y[i] \in Int
      BY <2>1 DEF WordSums
    <2>4. (fx[i + 1] - fy[i + 1]) * DataChunk = fx[i + 1] * DataChunk - fy[i + 1] * DataChunk
      BY <2>3, <1>1
    <2>5. fx[i + 1] * DataChunk \in Int /\ fy[i + 1] * DataChunk \in Int BY <2>3, <1>1
    <2> HIDE DEF z, f
    <2> QED BY <2>2, <2>3, <2>4, <2>5
  <1> QED BY <1>2, <1>3, <1>4 DEF WordSums

(* Addition and subtraction, word by word: the carry that the code finds is the *)
(* one that makes each word exact.                                           *)
LEMMA DivisionOnce ==
  ASSUME NEW x \in Int, NEW d \in Nat \ {0}
  PROVE  /\ x \in 0 .. d - 1 => x % d = x
         /\ x - d \in 0 .. d - 1 => x % d = x - d
         /\ x + d \in 0 .. d - 1 => x % d = x + d
  <1>1. ASSUME x \in 0 .. d - 1 PROVE x % d = x
    <2>1. 0 * d + x = x OBVIOUS
    <2> QED BY <2>1, <1>1, DivisionIs
  <1>2. ASSUME x - d \in 0 .. d - 1 PROVE x % d = x - d
    <2>1. 1 * d + (x - d) = x OBVIOUS
    <2> QED BY <2>1, <1>2, DivisionIs
  <1>3. ASSUME x + d \in 0 .. d - 1 PROVE x % d = x + d
    <2>1. (-1) * d + (x + d) = x /\ -1 \in Int OBVIOUS
    <2> QED BY <2>1, <1>3, DivisionIs
  <1> QED BY <1>1, <1>2, <1>3

Carries(u, v, c) == LET add == (u + v) % DataChunk
                    IN  IF add # u + v \/ add + c = DataChunk THEN 1 ELSE 0

Borrows(u, v, c) == LET sub == (u - v) % DataChunk
                    IN  IF sub # u - v \/ sub < c THEN 1 ELSE 0

LEMMA CarryExact ==
  ASSUME NEW u \in 0 .. DataChunk - 1, NEW v \in 0 .. DataChunk - 1, NEW c \in {0, 1}
  PROVE  /\ (u + v + c) % DataChunk = u + v + c - Carries(u, v, c) * DataChunk
         /\ Carries(u, v, c) \in {0, 1}
  <1>1. DataChunk \in Nat \ {0} BY ChunkPositive
  <1>2. CASE u + v < DataChunk
    <2>1. (u + v) % DataChunk = u + v BY <1>1, <1>2, DivisionOnce
    <2>2. CASE u + v + c = DataChunk
      <3>1. Carries(u, v, c) = 1 BY <2>1, <2>2 DEF Carries
      <3>2. (u + v + c) % DataChunk = u + v + c - DataChunk BY <1>1, <2>2, DivisionOnce
      <3> QED BY <3>1, <3>2, <1>1
    <2>3. CASE u + v + c # DataChunk
      <3>1. Carries(u, v, c) = 0 BY <2>1, <2>3 DEF Carries
      <3>2. u + v + c \in Int /\ u + v + c \in 0 .. DataChunk - 1 BY <1>1, <1>2, <2>3
      <3>3. (u + v + c) % DataChunk = u + v + c BY <3>2, <1>1, DivisionOnce
      <3> QED BY <3>1, <3>3, <1>1
    <2> QED BY <2>2, <2>3
  <1>3. CASE u + v >= DataChunk
    <2>1. (u + v) % DataChunk = u + v - DataChunk BY <1>1, <1>3, DivisionOnce
    <2>2. Carries(u, v, c) = 1 BY <2>1, <1>1 DEF Carries
    <2>3. u + v + c \in Int /\ (u + v + c) - DataChunk \in 0 .. DataChunk - 1 BY <1>1, <1>3
    <2>4. (u + v + c) % DataChunk = (u + v + c) - DataChunk BY <2>3, <1>1, DivisionOnce
    <2> QED BY <2>2, <2>4, <1>1
  <1> QED BY <1>1, <1>2, <1>3

LEMMA BorrowExact ==
  ASSUME NEW u \in 0 .. DataChunk - 1, NEW v \in 0 .. DataChunk - 1, NEW c \in {0, 1}
  PROVE  /\ (u - v - c) % DataChunk = u - v - c + Borrows(u, v, c) * DataChunk
         /\ Borrows(u, v, c) \in {0, 1}
  <1>1. DataChunk \in Nat \ {0} BY ChunkPositive
  <1>2. CASE u - v >= 0
    <2>1. (u - v) % DataChunk = u - v BY <1>1, <1>2, DivisionOnce
    <2>2. CASE u - v < c
      <3>1. Borrows(u, v, c) = 1 BY <2>1, <2>2 DEF Borrows
      <3>2. (u - v - c) % DataChunk = u - v - c + DataChunk BY <1>1, <1>2, <2>2, DivisionOnce
      <3> QED BY <3>1, <3>2, <1>1
    <2>3. CASE u - v >= c
      <3>1. Borrows(u, v, c) = 0 BY <2>1, <2>3 DEF Borrows
      <3>2. (u - v - c) % DataChunk = u - v - c BY <1>1, <2>3, DivisionOnce
      <3> QED BY <3>1, <3>2, <1>1
    <2> QED BY <2>2, <2>3
  <1>3. CASE u - v < 0
    <2>0. u - v \in Int /\ (u - v) + DataChunk \in 0 .. DataChunk - 1 BY <1>1, <1>3
    <2>1. (u - v) % DataChunk = (u - v) + DataChunk BY <2>0, <1>1, DivisionOnce
    <2>2. Borrows(u, v, c) = 1 BY <2>1, <1>1 DEF Borrows
    <2>3. (u - v - c) % DataChunk = u - v - c + DataChunk BY <1>1, <1>3, DivisionOnce
    <2> QED BY <2>2, <2>3, <1>1
  <1> QED BY <1>1, <1>2, <1>3

CarriesOf(a, b, f) == f = [i \in 0 .. Words |->
    IF i = 0 THEN 0
    ELSE LET add == (a[i] + b[i]) % DataChunk
         IN  IF add # a[i] + b[i] \/ add + f[i - 1] = DataChunk THEN 1 ELSE 0]

BorrowsOf(a, b, f) == f = [i \in 0 .. Words |->
    IF i = 0 THEN 0
    ELSE LET sub == (a[i] - b[i]) % DataChunk
         IN  IF sub # a[i] - b[i] \/ sub < f[i - 1] THEN 1 ELSE 0]

(* The words of a sum, and the carries between them. *)
Sums(a, b, s, f) == /\ f \in [0 .. Words -> {0, 1}] /\ f[0] = 0
                    /\ s \in Arrays
                    /\ \A i \in 1 .. Words : s[i] = a[i] + b[i] + f[i - 1] - f[i] * DataChunk

Differs(a, b, s, f) == /\ f \in [0 .. Words -> {0, 1}] /\ f[0] = 0
                       /\ s \in Arrays
                       /\ \A i \in 1 .. Words : s[i] = a[i] - b[i] - f[i - 1] + f[i] * DataChunk

LEMMA CarriesExist ==
  ASSUME NEW a \in Arrays, NEW b \in Arrays
  PROVE  \E f : CarriesOf(a, b, f)
  <1> DEFINE step == [i \in 1 .. Words |-> [c \in {0, 1} |-> Carries(a[i], b[i], c)]]
  <1>1. Words \in Nat \ {0} BY HashArrayAssumption
  <1>2. \A i \in 1 .. Words, c \in {0, 1} : Carries(a[i], b[i], c) \in {0, 1} BY DEF Carries
  <1>3. step \in [1 .. Words -> [{0, 1} -> {0, 1}]] BY <1>2
  <1>4. \A i \in 1 .. Words, c \in {0, 1} : step[i][c] = Carries(a[i], b[i], c) OBVIOUS
  <1> HIDE DEF step
  <1>5. PICK f : Recursion({0, 1}, Words, 0, step, f) BY <1>1, <1>3, RecursionExists DEF StepsIn
  <1>6. /\ f \in [0 .. Words -> {0, 1}] /\ f[0] = 0
        /\ \A i \in 1 .. Words : f[i] = step[i][f[i - 1]]
    BY <1>5 DEF Recursion
  <1>7. ASSUME NEW i \in 1 .. Words PROVE f[i] = Carries(a[i], b[i], f[i - 1])
    <2>1. i - 1 \in 0 .. Words BY <1>1
    <2> QED BY <2>1, <1>4, <1>6
  <1>8. \A i \in 0 .. Words : i # 0 => i \in 1 .. Words BY <1>1
  <1>9. \A i \in 0 .. Words : f[i] = IF i = 0 THEN 0 ELSE Carries(a[i], b[i], f[i - 1]) BY <1>6, <1>7, <1>8
  <1>10. f = [i \in 0 .. Words |-> f[i]] BY <1>6
  <1>11. CarriesOf(a, b, f) BY <1>9, <1>10 DEF CarriesOf, Carries
  <1> QED BY <1>11

LEMMA SumIs ==
  ASSUME NEW a \in Arrays, NEW b \in Arrays
  PROVE  \E f : Sums(a, b, wrapping_add(a, b), f)
  <1> DEFINE f == CHOOSE g : CarriesOf(a, b, g)
  <1>1. Words \in Nat \ {0} /\ DataChunk \in Nat \ {0} BY HashArrayAssumption, ChunkPositive
  <1>2. wrapping_add(a, b) = [i \in 1 .. Words |-> (a[i] + b[i] + f[i - 1]) % DataChunk]
    BY DEF wrapping_add, CarriesOf
  <1>3. CarriesOf(a, b, f) BY CarriesExist
  <1> HIDE DEF f
  <1>4. \A i \in 0 .. Words : f[i] = IF i = 0 THEN 0 ELSE Carries(a[i], b[i], f[i - 1])
    BY <1>3 DEF CarriesOf, Carries
  <1>5. f = [i \in 0 .. Words |-> f[i]] BY <1>3 DEF CarriesOf
  <1>6. \A i \in 0 .. Words : f[i] \in {0, 1} BY <1>4 DEF Carries
  <1>7. f \in [0 .. Words -> {0, 1}] /\ f[0] = 0
    <2>1. f \in [0 .. Words -> {0, 1}] BY <1>5, <1>6
    <2>2. 0 \in 0 .. Words BY <1>1
    <2>3. f[0] = 0 BY <2>2, <1>4
    <2> QED BY <2>1, <2>3
  <1>8. ASSUME NEW i \in 1 .. Words
        PROVE  /\ (a[i] + b[i] + f[i - 1]) % DataChunk = a[i] + b[i] + f[i - 1] - f[i] * DataChunk
               /\ (a[i] + b[i] + f[i - 1]) % DataChunk \in 0 .. DataChunk - 1
    <2>1. i \in 0 .. Words /\ i # 0 /\ i - 1 \in 0 .. Words BY <1>1
    <2>2. f[i] = Carries(a[i], b[i], f[i - 1]) BY <2>1, <1>4
    <2>3. a[i] \in 0 .. DataChunk - 1 /\ b[i] \in 0 .. DataChunk - 1 BY ArrayWords
    <2>4. f[i - 1] \in {0, 1} BY <2>1, <1>6
    <2>5. a[i] + b[i] + f[i - 1] \in Int BY <2>3, <2>4
    <2>6. (a[i] + b[i] + f[i - 1]) % DataChunk \in 0 .. DataChunk - 1 BY <2>5, <1>1, Divides
    <2> QED BY <2>2, <2>3, <2>4, <2>6, CarryExact
  <1>9. wrapping_add(a, b) \in Arrays BY <1>2, <1>8 DEF Arrays
  <1>10. Sums(a, b, wrapping_add(a, b), f) BY <1>2, <1>7, <1>8, <1>9 DEF Sums
  <1> QED BY <1>10

LEMMA BorrowsExist ==
  ASSUME NEW a \in Arrays, NEW b \in Arrays
  PROVE  \E f : BorrowsOf(a, b, f)
  <1> DEFINE step == [i \in 1 .. Words |-> [c \in {0, 1} |-> Borrows(a[i], b[i], c)]]
  <1>1. Words \in Nat \ {0} BY HashArrayAssumption
  <1>2. \A i \in 1 .. Words, c \in {0, 1} : Borrows(a[i], b[i], c) \in {0, 1} BY DEF Borrows
  <1>3. step \in [1 .. Words -> [{0, 1} -> {0, 1}]] BY <1>2
  <1>4. \A i \in 1 .. Words, c \in {0, 1} : step[i][c] = Borrows(a[i], b[i], c) OBVIOUS
  <1> HIDE DEF step
  <1>5. PICK f : Recursion({0, 1}, Words, 0, step, f) BY <1>1, <1>3, RecursionExists DEF StepsIn
  <1>6. /\ f \in [0 .. Words -> {0, 1}] /\ f[0] = 0
        /\ \A i \in 1 .. Words : f[i] = step[i][f[i - 1]]
    BY <1>5 DEF Recursion
  <1>7. ASSUME NEW i \in 1 .. Words PROVE f[i] = Borrows(a[i], b[i], f[i - 1])
    <2>1. i - 1 \in 0 .. Words BY <1>1
    <2> QED BY <2>1, <1>4, <1>6
  <1>8. \A i \in 0 .. Words : i # 0 => i \in 1 .. Words BY <1>1
  <1>9. \A i \in 0 .. Words : f[i] = IF i = 0 THEN 0 ELSE Borrows(a[i], b[i], f[i - 1]) BY <1>6, <1>7, <1>8
  <1>10. f = [i \in 0 .. Words |-> f[i]] BY <1>6
  <1>11. BorrowsOf(a, b, f) BY <1>9, <1>10 DEF BorrowsOf, Borrows
  <1> QED BY <1>11

LEMMA DifferenceIs ==
  ASSUME NEW a \in Arrays, NEW b \in Arrays
  PROVE  \E f : Differs(a, b, wrapping_sub(a, b), f)
  <1> DEFINE f == CHOOSE g : BorrowsOf(a, b, g)
  <1>1. Words \in Nat \ {0} /\ DataChunk \in Nat \ {0} BY HashArrayAssumption, ChunkPositive
  <1>2. wrapping_sub(a, b) = [i \in 1 .. Words |-> (a[i] - b[i] - f[i - 1]) % DataChunk]
    BY DEF wrapping_sub, BorrowsOf
  <1>3. BorrowsOf(a, b, f) BY BorrowsExist
  <1> HIDE DEF f
  <1>4. \A i \in 0 .. Words : f[i] = IF i = 0 THEN 0 ELSE Borrows(a[i], b[i], f[i - 1])
    BY <1>3 DEF BorrowsOf, Borrows
  <1>5. f = [i \in 0 .. Words |-> f[i]] BY <1>3 DEF BorrowsOf
  <1>6. \A i \in 0 .. Words : f[i] \in {0, 1} BY <1>4 DEF Borrows
  <1>7. f \in [0 .. Words -> {0, 1}] /\ f[0] = 0
    <2>1. f \in [0 .. Words -> {0, 1}] BY <1>5, <1>6
    <2>2. 0 \in 0 .. Words BY <1>1
    <2>3. f[0] = 0 BY <2>2, <1>4
    <2> QED BY <2>1, <2>3
  <1>8. ASSUME NEW i \in 1 .. Words
        PROVE  /\ (a[i] - b[i] - f[i - 1]) % DataChunk = a[i] - b[i] - f[i - 1] + f[i] * DataChunk
               /\ (a[i] - b[i] - f[i - 1]) % DataChunk \in 0 .. DataChunk - 1
    <2>1. i \in 0 .. Words /\ i # 0 /\ i - 1 \in 0 .. Words BY <1>1
    <2>2. f[i] = Borrows(a[i], b[i], f[i - 1]) BY <2>1, <1>4
    <2>3. a[i] \in 0 .. DataChunk - 1 /\ b[i] \in 0 .. DataChunk - 1 BY ArrayWords
    <2>4. f[i - 1] \in {0, 1} BY <2>1, <1>6
    <2>5. a[i] - b[i] - f[i - 1] \in Int BY <2>3, <2>4
    <2>6. (a[i] - b[i] - f[i - 1]) % DataChunk \in 0 .. DataChunk - 1 BY <2>5, <1>1, Divides
    <2> QED BY <2>2, <2>3, <2>4, <2>6, BorrowExact
  <1>9. wrapping_sub(a, b) \in Arrays BY <1>2, <1>8 DEF Arrays
  <1>10. Differs(a, b, wrapping_sub(a, b), f) BY <1>2, <1>7, <1>8, <1>9 DEF Differs
  <1> QED BY <1>10

LEMMA SumNumber ==
  ASSUME NEW a \in Arrays, NEW b \in Arrays
  PROVE  /\ wrapping_add(a, b) \in Arrays
         /\ \E k \in {0, 1} : Number(wrapping_add(a, b)) = Number(a) + Number(b) - k * Range2
  <1>1. PICK f : Sums(a, b, wrapping_add(a, b), f) BY SumIs
  <1> DEFINE s == wrapping_add(a, b)
  <1>2. s \in Arrays BY <1>1 DEF Sums
  <1> HIDE DEF s
  <1>3. PICK fa : WordSums(a, fa) /\ fa[1] = Number(a) BY SumsOfArray
  <1>4. PICK fb : WordSums(b, fb) /\ fb[1] = Number(b) BY SumsOfArray
  <1>5. PICK fs : WordSums(s, fs) /\ fs[1] = Number(s) BY <1>2, SumsOfArray
  <1>6. PICK p : Powers(p) /\ p[1] = Range2 BY PowersExist
  <1>7. Words \in Nat \ {0} /\ DataChunk \in Nat \ {0} BY HashArrayAssumption, ChunkPositive
  <1> DEFINE x == [i \in 1 .. Words |-> a[i] + b[i]]
             fx == [i \in 1 .. Words + 1 |-> fa[i] + fb[i]]
  <1>8. WordSums(x, fx) BY <1>3, <1>4, AddedSums
  <1>9. \A i \in 1 .. Words : s[i] = x[i] + f[i - 1] - f[i] * DataChunk BY <1>1 DEF Sums, s
  <1>10. f \in [0 .. Words -> Int] /\ f[0] = 0 /\ f[Words] \in {0, 1} BY <1>1, <1>7 DEF Sums
  <1>11. fx[1] = Number(a) + Number(b)
    <2>1. 1 \in 1 .. Words + 1 BY <1>7
    <2> QED BY <2>1, <1>3, <1>4
  <1> HIDE DEF x, fx
  <1>12. fs[1] = fx[1] + f[0] - f[Words] * p[1]
    <2>1. WordSums(x, fx) /\ WordSums(s, fs) /\ Powers(p) BY <1>5, <1>6, <1>8
    <2>2. Carried(x, s, f) BY <1>9, <1>10 DEF Carried
    <2> QED BY <2>1, <2>2, CarriesCancel
  <1>13. Number(a) \in Nat /\ Number(b) \in Nat /\ Range2 \in Nat BY NumberBelow
  <1>14. Number(s) = Number(a) + Number(b) - f[Words] * Range2 BY <1>5, <1>6, <1>10, <1>11, <1>12, <1>13
  <1> QED BY <1>2, <1>10, <1>14 DEF s

LEMMA DifferenceNumber ==
  ASSUME NEW a \in Arrays, NEW b \in Arrays
  PROVE  /\ wrapping_sub(a, b) \in Arrays
         /\ \E k \in {0, 1} : Number(wrapping_sub(a, b)) = Number(a) - Number(b) + k * Range2
  <1>1. PICK f : Differs(a, b, wrapping_sub(a, b), f) BY DifferenceIs
  <1> DEFINE s == wrapping_sub(a, b)
  <1>2. s \in Arrays BY <1>1 DEF Differs
  <1> HIDE DEF s
  <1>3. PICK fa : WordSums(a, fa) /\ fa[1] = Number(a) BY SumsOfArray
  <1>4. PICK fb : WordSums(b, fb) /\ fb[1] = Number(b) BY SumsOfArray
  <1>5. PICK fs : WordSums(s, fs) /\ fs[1] = Number(s) BY <1>2, SumsOfArray
  <1>6. PICK p : Powers(p) /\ p[1] = Range2 BY PowersExist
  <1>7. Words \in Nat \ {0} /\ DataChunk \in Nat \ {0} BY HashArrayAssumption, ChunkPositive
  <1> DEFINE x == [i \in 1 .. Words |-> a[i] - b[i]]
             fx == [i \in 1 .. Words + 1 |-> fa[i] - fb[i]]
             c == [i \in 0 .. Words |-> -f[i]]
  <1>8. WordSums(x, fx) BY <1>3, <1>4, SubtractedSums
  <1>9. f \in [0 .. Words -> {0, 1}] /\ f[0] = 0 BY <1>1 DEF Differs
  <1>10. c \in [0 .. Words -> Int] /\ c[0] = 0 /\ c[Words] = -f[Words] /\ f[Words] \in {0, 1} BY <1>7, <1>9
  <1>11. ASSUME NEW i \in 1 .. Words PROVE s[i] = x[i] + c[i - 1] - c[i] * DataChunk
    <2>1. i \in 0 .. Words /\ i - 1 \in 0 .. Words BY <1>7
    <2>2. c[i] = -f[i] /\ c[i - 1] = -f[i - 1] /\ f[i] \in {0, 1} /\ f[i - 1] \in {0, 1} BY <2>1, <1>9
    <2>3. a[i] \in Int /\ b[i] \in Int BY ArrayWords
    <2>4. s[i] = a[i] - b[i] - f[i - 1] + f[i] * DataChunk BY <1>1 DEF Differs, s
    <2>5. x[i] = a[i] - b[i] OBVIOUS
    <2>6. (-f[i]) * DataChunk = -(f[i] * DataChunk) BY <2>2, <1>7
    <2> HIDE DEF x, c
    <2> QED BY <2>2, <2>3, <2>4, <2>5, <2>6, <1>7
  <1>12. fx[1] = Number(a) - Number(b)
    <2>1. 1 \in 1 .. Words + 1 BY <1>7
    <2> QED BY <2>1, <1>3, <1>4
  <1> HIDE DEF x, fx, c
  <1>13. fs[1] = fx[1] + c[0] - c[Words] * p[1]
    <2>1. WordSums(x, fx) /\ WordSums(s, fs) /\ Powers(p) BY <1>5, <1>6, <1>8
    <2>2. Carried(x, s, c) BY <1>11, <1>10 DEF Carried
    <2> QED BY <2>1, <2>2, CarriesCancel
  <1>14. Number(a) \in Nat /\ Number(b) \in Nat /\ Range2 \in Nat BY NumberBelow
  <1>15. (-f[Words]) * Range2 = -(f[Words] * Range2) BY <1>10, <1>14
  <1>16. Number(s) = Number(a) - Number(b) + f[Words] * Range2
    BY <1>5, <1>6, <1>10, <1>12, <1>13, <1>14, <1>15
  <1> QED BY <1>2, <1>10, <1>16 DEF s

(* Numbers below a range that differ by a multiple of it are the same. *)
LEMMA SameNumber ==
  ASSUME NEW r \in Nat \ {0}, NEW x \in 0 .. r - 1, NEW y \in 0 .. r - 1, NEW k \in Int, x = y + k * r
  PROVE  x = y
  <1>1. k * r \in Int /\ -r < k * r /\ k * r < r OBVIOUS
  <1>2. k = 0 BY <1>1, NoMultipleBetween
  <1> QED BY <1>2

(* A difference that is added again gives what it was taken from. *)
LEMMA AddingBack ==
  ASSUME NEW a \in Arrays, NEW b \in Arrays
  PROVE  wrapping_add(a, wrapping_sub(b, a)) = b
  <1> DEFINE d == wrapping_sub(b, a)
             s == wrapping_add(a, d)
  <1>1. d \in Arrays BY DifferenceNumber
  <1>2. PICK j \in {0, 1} : Number(d) = Number(b) - Number(a) + j * Range2 BY DifferenceNumber
  <1> HIDE DEF d
  <1>3. s \in Arrays BY <1>1, SumNumber
  <1>4. PICK k \in {0, 1} : Number(s) = Number(a) + Number(d) - k * Range2 BY <1>1, SumNumber
  <1> HIDE DEF s
  <1>5. /\ Range2 \in Nat \ {0} /\ Number(a) \in Nat
        /\ Number(b) \in 0 .. Range2 - 1 /\ Number(s) \in 0 .. Range2 - 1
    BY <1>3, NumberBelow
  <1>6. j - k \in Int /\ Number(s) = Number(b) + (j - k) * Range2
    <2>1. j \in Int /\ k \in Int BY <1>2, <1>4
    <2>2. (j - k) * Range2 = j * Range2 - k * Range2 /\ j * Range2 \in Int /\ k * Range2 \in Int
      BY <2>1, <1>5
    <2> QED BY <2>1, <2>2, <1>2, <1>4, <1>5
  <1>7. Number(s) = Number(b) BY <1>5, <1>6, SameNumber
  <1>8. s = b BY <1>3, <1>7, NumberInjective
  <1> QED BY <1>8 DEF s, d

--------------------------------------------------------------------------------
(* Division, word by word: what is left of one word is the front of the next.  *)
DivideWord(r, digit, d) == IF d <= HALF THEN div_half(r, digit, d) ELSE div_wide(r, digit, d)

LEMMA QuotientBelow ==
  ASSUME NEW d \in Nat \ {0}, NEW w \in Nat \ {0}, NEW q \in Int, NEW s \in 0 .. d - 1,
         NEW x \in Nat, x = q * d + s, NEW r \in 0 .. d - 1, NEW digit \in 0 .. w - 1, x = r * w + digit
  PROVE  q \in 0 .. w - 1
  <1>1. CASE q < 0
    <2>1. PICK k \in Nat : q = -k - 1
      <3>1. -q - 1 \in Nat /\ q = -(-q - 1) - 1 BY <1>1
      <3> QED BY <3>1
    <2>2. q * d = -(k * d) - d /\ k * d \in Nat BY <2>1
    <2> QED BY <2>2
  <1>2. CASE q >= w
    <2>1. PICK k \in Nat : q = w + k
      <3>1. q - w \in Nat /\ q = w + (q - w) BY <1>2
      <3> QED BY <3>1
    <2>2. q * d = w * d + k * d /\ k * d \in Nat /\ w * d \in Nat BY <2>1
    <2>3. PICK m \in Nat : d = r + 1 + m
      <3>1. d - r - 1 \in Nat /\ d = r + 1 + (d - r - 1) OBVIOUS
      <3> QED BY <3>1
    <2>4. w * d = r * w + w + m * w /\ m * w \in Nat /\ r * w \in Nat BY <2>3
    <2> QED BY <2>2, <2>4
  <1> QED BY <1>1, <1>2

LEMMA WordDivided ==
  ASSUME NEW d \in 1 .. DataChunk - 1, NEW r \in 0 .. d - 1, NEW digit \in 0 .. DataChunk - 1
  PROVE  \E q \in 0 .. DataChunk - 1, s \in 0 .. d - 1 :
             DivideWord(r, digit, d) = <<q, s>> /\ r * DataChunk + digit = q * d + s
  <1>1. DataChunk \in Nat \ {0} /\ Half \in Nat \ {0} /\ DataChunk = Half * Half
    BY ChunkPositive, HashArrayAssumption DEF DataChunk
  <1>2. d \in Nat \ {0} /\ r \in Nat /\ digit \in Nat BY <1>1
  <1> DEFINE x == r * DataChunk + digit
  <1>3. r * DataChunk \in Nat BY <1>1, <1>2
  <1>4. x \in Nat BY <1>3, <1>2
  <1>5. CASE d <= HALF
    <2> DEFINE dh == digit \div Half
               dl == digit % Half
               high == r * Half + dh
               hq == high \div d
               hr == high % d
               low == hr * Half + dl
               lq == low \div d
               lr == low % d
    <2>1. DivideWord(r, digit, d) = <<hq * Half + lq, lr>> BY <1>5 DEF DivideWord, div_half
    <2>2. dh \in Int /\ dl \in 0 .. Half - 1 /\ digit = dh * Half + dl BY <1>1, <1>2, Divides
    <2> HIDE DEF dh, dl
    <2>3. high \in Int BY <2>2, <1>1, <1>2
    <2>4. hq \in Int /\ hr \in 0 .. d - 1 /\ high = hq * d + hr BY <2>3, <1>2, Divides
    <2> HIDE DEF hq, hr
    <2>5. low \in Int BY <2>2, <2>4, <1>1
    <2>6. lq \in Int /\ lr \in 0 .. d - 1 /\ low = lq * d + lr BY <2>5, <1>2, Divides
    <2> HIDE DEF lq, lr
    <2>7. x = high * Half + dl
      <3>1. (r * Half + dh) * Half = r * (Half * Half) + dh * Half BY <2>2, <1>1, <1>2
      <3> QED BY <3>1, <2>2, <1>1, <1>2
    <2>8. high * Half = (hq * d) * Half + hr * Half BY <2>4, <1>1, <1>2
    <2>9. (hq * d) * Half = (hq * Half) * d BY <2>4, <1>1, <1>2
    <2>10. (hq * Half + lq) * d = (hq * Half) * d + lq * d BY <2>4, <2>6, <1>1, <1>2
    <2>11. hq * Half \in Int /\ (hq * Half) * d \in Int /\ lq * d \in Int /\ hr * Half \in Int
      BY <2>4, <2>6, <1>1, <1>2
    <2>12. x = (hq * Half) * d + hr * Half + dl BY <2>7, <2>8, <2>9, <2>11, <2>2
    <2>13. hr * Half + dl = lq * d + lr BY <2>6
    <2> HIDE DEF x, high, low
    <2>14. x = (hq * Half + lq) * d + lr BY <2>2, <2>6, <2>10, <2>11, <2>12, <2>13
    <2>15. hq * Half + lq \in Int BY <2>6, <2>11
    <2>16. hq * Half + lq \in 0 .. DataChunk - 1 BY <2>6, <2>14, <2>15, <1>1, <1>2, <1>4, QuotientBelow DEF x
    <2> QED BY <2>1, <2>6, <2>14, <2>16 DEF x
  <1>6. CASE ~(d <= HALF)
    <2> DEFINE y == digit + r * DataChunk
               q == y \div d
               s == y % d
    <2>1. DivideWord(r, digit, d) = <<q % DataChunk, s>> BY <1>6 DEF DivideWord, div_wide
    <2>2. y = x BY <1>2, <1>3
    <2>3. y \in Int BY <2>2, <1>4
    <2>4. q \in Int /\ s \in 0 .. d - 1 /\ y = q * d + s BY <2>3, <1>2, Divides
    <2> HIDE DEF q, s
    <2>5. q \in 0 .. DataChunk - 1 BY <2>2, <2>4, <1>1, <1>2, <1>4, QuotientBelow
    <2>6. q % DataChunk = q BY <2>4, <2>5, <1>1, DivisionOnce
    <2> QED BY <2>1, <2>2, <2>4, <2>5, <2>6
  <1> QED BY <1>5, <1>6

DivisionOf(a, d, f) == f = [i \in 1 .. Words + 1 |->
    IF i > Words THEN <<0, 0>>
    ELSE IF d <= HALF THEN div_half(f[i + 1][2], a[i], d)
    ELSE div_wide(f[i + 1][2], a[i], d)]

Steps(d) == (0 .. DataChunk - 1) \X (0 .. d - 1)

LEMMA StepIs ==
  ASSUME NEW d \in 1 .. DataChunk - 1, NEW v \in Steps(d), NEW digit \in 0 .. DataChunk - 1
  PROVE  /\ DivideWord(v[2], digit, d) \in Steps(d)
         /\ v[2] * DataChunk + digit = DivideWord(v[2], digit, d)[1] * d + DivideWord(v[2], digit, d)[2]
  <1>1. v[2] \in 0 .. d - 1 BY DEF Steps
  <1>2. PICK q \in 0 .. DataChunk - 1, s \in 0 .. d - 1 :
            DivideWord(v[2], digit, d) = <<q, s>> /\ v[2] * DataChunk + digit = q * d + s
    BY <1>1, WordDivided
  <1>3. <<q, s>> \in Steps(d) /\ <<q, s>>[1] = q /\ <<q, s>>[2] = s BY <1>2 DEF Steps
  <1> QED BY <1>2, <1>3

LEMMA DivisionExists ==
  ASSUME NEW a \in Arrays, NEW d \in 1 .. DataChunk - 1
  PROVE  \E f : DivisionOf(a, d, f)
  <1> DEFINE step == [n \in 1 .. Words |-> [v \in Steps(d) |-> DivideWord(v[2], a[Words + 1 - n], d)]]
  <1>1. Words \in Nat \ {0} /\ DataChunk \in Nat \ {0} BY HashArrayAssumption, ChunkPositive
  <1>2. \A n \in 1 .. Words : Words + 1 - n \in 1 .. Words BY <1>1
  <1>3. \A n \in 1 .. Words, v \in Steps(d) : DivideWord(v[2], a[Words + 1 - n], d) \in Steps(d)
    <2> SUFFICES ASSUME NEW n \in 1 .. Words, NEW v \in Steps(d)
                 PROVE  DivideWord(v[2], a[Words + 1 - n], d) \in Steps(d) OBVIOUS
    <2>1. a[Words + 1 - n] \in 0 .. DataChunk - 1 BY <1>2, ArrayWords
    <2> QED BY <2>1, StepIs
  <1>4. step \in [1 .. Words -> [Steps(d) -> Steps(d)]] BY <1>3
  <1>5. \A n \in 1 .. Words, v \in Steps(d) : step[n][v] = DivideWord(v[2], a[Words + 1 - n], d) OBVIOUS
  <1> HIDE DEF step
  <1>6. <<0, 0>> \in Steps(d) BY <1>1 DEF Steps
  <1>7. PICK g : Recursion(Steps(d), Words, <<0, 0>>, step, g)
    BY <1>1, <1>4, <1>6, RecursionExists DEF StepsIn
  <1>8. /\ g \in [0 .. Words -> Steps(d)] /\ g[0] = <<0, 0>>
        /\ \A n \in 1 .. Words : g[n] = step[n][g[n - 1]]
    BY <1>7 DEF Recursion
  <1> DEFINE f == [i \in 1 .. Words + 1 |-> g[Words + 1 - i]]
  <1>9. ASSUME NEW i \in 1 .. Words + 1
        PROVE  f[i] = IF i > Words THEN <<0, 0>> ELSE DivideWord(f[i + 1][2], a[i], d)
    <2>1. CASE i > Words
      <3>1. Words + 1 - i = 0 BY <2>1, <1>1
      <3> QED BY <3>1, <2>1, <1>8
    <2>2. CASE ~(i > Words)
      <3>1. PICK n \in 1 .. Words : n = Words + 1 - i /\ Words + 1 - n = i /\ n - 1 = Words + 1 - (i + 1)
        <4>1. Words + 1 - i \in 1 .. Words /\ Words + 1 - (Words + 1 - i) = i
              /\ (Words + 1 - i) - 1 = Words + 1 - (i + 1) BY <2>2, <1>1
        <4> QED BY <4>1
      <3>2. i + 1 \in 1 .. Words + 1 /\ n - 1 \in 0 .. Words BY <2>2, <3>1, <1>1
      <3>3. f[i] = g[n] /\ f[i + 1] = g[n - 1] BY <3>1, <3>2
      <3>4. g[n - 1] \in Steps(d) BY <3>2, <1>8
      <3> HIDE DEF f
      <3>5. g[n] = DivideWord(g[n - 1][2], a[i], d) BY <3>1, <3>4, <1>5, <1>8
      <3> QED BY <2>2, <3>3, <3>5
    <2> QED BY <2>1, <2>2
  <1>10. DivisionOf(a, d, f)
    <2>1. f = [i \in 1 .. Words + 1 |-> f[i]] OBVIOUS
    <2> HIDE DEF f
    <2> QED BY <2>1, <1>9 DEF DivisionOf, DivideWord
  <1> QED BY <1>10

LEMMA DivisionCarries ==
  ASSUME NEW A \in Int, NEW Q \in Int, NEW d \in Int, NEW w \in Int, NEW r \in Int, NEW s \in Int,
         NEW q \in Int, NEW digit \in Int,
         A = Q * d + r, r * w + digit = q * d + s
  PROVE  A * w + digit = (Q * w + q) * d + s
  <1>1. A * w = (Q * w) * d + r * w OBVIOUS
  <1>2. (Q * w + q) * d = (Q * w) * d + q * d OBVIOUS
  <1>3. A * w \in Int /\ (Q * w) * d \in Int /\ r * w \in Int /\ q * d \in Int OBVIOUS
  <1> QED BY <1>1, <1>2, <1>3

(* The quotient of arrays is that of their numbers, rounded down. *)
LEMMA QuotientNumber ==
  ASSUME NEW a \in Arrays, NEW d \in 1 .. DataChunk - 1
  PROVE  \E q \in Arrays, s \in 0 .. d - 1 :
            /\ checked_div_rem(a, d) = << [quotient |-> q, rem |-> s] >>
            /\ Number(q) = Number(a) \div d
  <1> DEFINE f == CHOOSE g : DivisionOf(a, d, g)
             q == [i \in 1 .. Words |-> f[i][1]]
  <1>1. Words \in Nat \ {0} /\ DataChunk \in Nat \ {0} /\ d \in Nat \ {0}
    BY HashArrayAssumption, ChunkPositive
  <1>2. d # 0 BY <1>1
  <1>3. checked_div_rem(a, d) = << [quotient |-> q, rem |-> f[1][2]] >>
    BY <1>2 DEF checked_div_rem, DivisionOf
  <1>4. DivisionOf(a, d, f) BY DivisionExists
  <1> HIDE DEF f
  <1>5. \A i \in 1 .. Words + 1 :
           f[i] = IF i > Words THEN <<0, 0>> ELSE DivideWord(f[i + 1][2], a[i], d)
    BY <1>4 DEF DivisionOf, DivideWord
  <1>6. Words + 1 \in 1 .. Words + 1 /\ Words + 1 > Words BY <1>1
  <1>7. f[Words + 1] = <<0, 0>> BY <1>5, <1>6
  <1> DEFINE T == {i \in 1 .. Words + 1 : f[i] \in Steps(d)}
  <1>8. ASSUME NEW i \in 1 .. Words
        PROVE  /\ i \in 1 .. Words + 1 /\ i + 1 \in 1 .. Words + 1 /\ a[i] \in 0 .. DataChunk - 1
               /\ f[i] = DivideWord(f[i + 1][2], a[i], d)
    <2>1. i \in 1 .. Words + 1 /\ i + 1 \in 1 .. Words + 1 /\ ~(i > Words) BY <1>1
    <2>2. f[i] = DivideWord(f[i + 1][2], a[i], d) BY <2>1, <1>5
    <2> QED BY <2>1, <2>2, ArrayWords
  <1>9. ASSUME NEW n \in 0 .. Words PROVE f[Words + 1 - n] \in Steps(d)
    <2> DEFINE R == {k \in 0 .. Words : f[Words + 1 - k] \in Steps(d)}
    <2>1. 0 \in R
      <3>1. <<0, 0>> \in Steps(d) BY <1>1 DEF Steps
      <3>2. 0 \in 0 .. Words /\ Words + 1 - 0 = Words + 1 BY <1>1
      <3> QED BY <3>1, <3>2, <1>7
    <2>2. ASSUME NEW k \in 0 .. Words - 1, k \in R PROVE k + 1 \in R
      <3>1. PICK i \in 1 .. Words : i = Words + 1 - (k + 1) /\ i + 1 = Words + 1 - k
        <4>1. Words + 1 - (k + 1) \in 1 .. Words /\ (Words + 1 - (k + 1)) + 1 = Words + 1 - k BY <1>1
        <4> QED BY <4>1
      <3>2. f[i + 1] \in Steps(d) BY <2>2, <3>1
      <3>3. f[i] \in Steps(d) BY <3>1, <3>2, <1>8, StepIs
      <3>4. k + 1 \in 0 .. Words BY <1>1
      <3> QED BY <3>1, <3>3, <3>4
    <2> HIDE DEF R
    <2>3. 0 .. Words \subseteq R BY <1>1, <2>1, <2>2, IntervalInduction
    <2> QED BY <2>3 DEF R
  <1>10. \A i \in 1 .. Words + 1 : f[i] \in Steps(d)
    <2> SUFFICES ASSUME NEW i \in 1 .. Words + 1 PROVE f[i] \in Steps(d) OBVIOUS
    <2>1. Words + 1 - i \in 0 .. Words /\ Words + 1 - (Words + 1 - i) = i BY <1>1
    <2> QED BY <2>1, <1>9
  <1>11. \A i \in 1 .. Words + 1 : f[i][1] \in 0 .. DataChunk - 1 /\ f[i][2] \in 0 .. d - 1
    BY <1>10 DEF Steps
  <1>12. q \in Arrays BY <1>11, <1>8 DEF Arrays
  <1>13. \A i \in 1 .. Words : q[i] = f[i][1] OBVIOUS
  <1> HIDE DEF q
  <1>14. PICK fa : WordSums(a, fa) /\ fa[1] = Number(a) BY SumsOfArray
  <1>15. PICK fq : WordSums(q, fq) /\ fq[1] = Number(q) BY <1>12, SumsOfArray
  <1> DEFINE S == {i \in 1 .. Words + 1 : fa[i] = fq[i] * d + f[i][2]}
  <1>16. Words + 1 \in S
    <2>1. fa[Words + 1] = 0 /\ fq[Words + 1] = 0 BY <1>14, <1>15 DEF WordSums
    <2>2. f[Words + 1][2] = 0 BY <1>7
    <2> QED BY <2>1, <2>2, <1>1, <1>6
  <1>17. ASSUME NEW i \in 1 .. Words, i + 1 \in S PROVE i \in S
    <2>1. fa[i + 1] = fq[i + 1] * d + f[i + 1][2] BY <1>17
    <2>2. f[i + 1][2] * DataChunk + a[i] = f[i][1] * d + f[i][2] BY <1>8, <1>10, StepIs
    <2>3. /\ fa[i] = fa[i + 1] * DataChunk + a[i] /\ fq[i] = fq[i + 1] * DataChunk + f[i][1]
          /\ fa[i + 1] \in Int /\ fq[i + 1] \in Int
      BY <1>8, <1>13, <1>14, <1>15 DEF WordSums
    <2>4. f[i][1] \in Int /\ f[i][2] \in Int /\ f[i + 1][2] \in Int /\ a[i] \in Int
      BY <1>8, <1>11
    <2>5. fa[i] = fq[i] * d + f[i][2]
      <3> DEFINE A == fa[i + 1]
                 Q == fq[i + 1]
                 r == f[i + 1][2]
                 u == f[i][1]
                 v == f[i][2]
                 AA == fa[i]
                 QQ == fq[i]
      <3>1. /\ A = Q * d + r /\ r * DataChunk + a[i] = u * d + v
            /\ AA = A * DataChunk + a[i] /\ QQ = Q * DataChunk + u
        BY <2>1, <2>2, <2>3
      <3>2. /\ A \in Int /\ Q \in Int /\ r \in Int /\ u \in Int /\ v \in Int /\ a[i] \in Int
            /\ d \in Int /\ DataChunk \in Int
        BY <2>3, <2>4, <1>1
      <3> HIDE DEF A, Q, r, u, v, AA, QQ
      <3>3. A * DataChunk + a[i] = (Q * DataChunk + u) * d + v BY <3>1, <3>2, DivisionCarries
      <3> QED BY <3>1, <3>3 DEF AA, QQ, v
    <2> QED BY <2>5, <1>8
  <1> HIDE DEF S
  <1>18. 1 \in S BY <1>16, <1>17, WordsInduction
  <1>19. Number(a) = Number(q) * d + f[1][2] BY <1>14, <1>15, <1>18 DEF S
  <1>20. 1 \in 1 .. Words + 1 BY <1>1
  <1>21. f[1][2] \in 0 .. d - 1 BY <1>11, <1>20
  <1>22. Number(q) \in Int /\ Number(a) \in Int BY <1>12, NumberBelow
  <1>23. Number(a) \div d = Number(q)
    <2> DEFINE x == Number(a)
               y == Number(q)
               r == f[1][2]
    <2>1. x = y * d + r /\ x \in Int /\ y \in Int BY <1>19, <1>22
    <2>2. r \in 0 .. d - 1 BY <1>21
    <2>3. d \in Nat \ {0} BY <1>1
    <2> HIDE DEF x, y, r
    <2>4. x \div d = y BY <2>1, <2>2, <2>3, DivisionIs
    <2> QED BY <2>4 DEF x, y
  <1> QED BY <1>3, <1>12, <1>21, <1>23

--------------------------------------------------------------------------------
(* The sign in the lowest bit. *)
LEMMA ChunkEven == LAST_BIT \in Nat \ {0} /\ DataChunk = 2 * LAST_BIT /\ DataChunk \in Nat \ {0}
  <1> DEFINE h == Half \div 2
  <1>1. Half \in Nat \ {0} /\ Half % 2 = 0 BY HashArrayAssumption
  <1>2. h \in Nat \ {0} /\ Half = 2 * h BY <1>1
  <1> HIDE DEF h
  <1> DEFINE g == h * Half
  <1>3. g \in Nat \ {0}
    <2>1. \A x, y \in Nat \ {0} : x * y \in Nat \ {0} OBVIOUS
    <2> QED BY <2>1, <1>1, <1>2
  <1>4. (2 * h) * Half = 2 * (h * Half) BY <1>1, <1>2
  <1>5. DataChunk = 2 * g BY <1>2, <1>4 DEF DataChunk
  <1> HIDE DEF g
  <1>6. DataChunk = g * 2 + 0 BY <1>3, <1>5
  <1>7. DataChunk \div 2 = g BY <1>3, <1>5
  <1> QED BY <1>3, <1>5, <1>7 DEF LAST_BIT

LEMMA Doubled ==
  ASSUME NEW v \in 0 .. DataChunk - 1, NEW low \in {0, 1}
  PROVE  /\ TopBit(v) \in {0, 1}
         /\ (v * 2) % DataChunk = 2 * v - TopBit(v) * DataChunk
         /\ ((v * 2) % DataChunk) + low \in 0 .. DataChunk - 1
  <1>1. LAST_BIT \in Nat \ {0} /\ DataChunk = 2 * LAST_BIT /\ DataChunk \in Nat \ {0} BY ChunkEven
  <1>2. v \in Nat /\ v * 2 \in Int /\ v * 2 = 2 * v BY <1>1
  <1>3. CASE v >= LAST_BIT
    <2>1. TopBit(v) = 1 BY <1>3 DEF TopBit
    <2>2. v * 2 - DataChunk \in 0 .. DataChunk - 1 BY <1>1, <1>2, <1>3
    <2>3. (v * 2) % DataChunk = v * 2 - DataChunk BY <2>2, <1>1, <1>2, DivisionOnce
    <2>4. 1 * DataChunk = DataChunk BY <1>1
    <2> QED BY <2>1, <2>3, <2>4, <1>1, <1>2, <1>3
  <1>4. CASE ~(v >= LAST_BIT)
    <2>1. TopBit(v) = 0 BY <1>4 DEF TopBit
    <2>2. v * 2 \in 0 .. DataChunk - 1 BY <1>1, <1>2, <1>4
    <2>3. (v * 2) % DataChunk = v * 2 BY <2>2, <1>1, <1>2, DivisionOnce
    <2>4. 0 * DataChunk = 0 BY <1>1
    <2> QED BY <2>1, <2>3, <2>4, <1>1, <1>2, <1>4
  <1> QED BY <1>3, <1>4

LEMMA NotNumber ==
  ASSUME NEW a \in Arrays
  PROVE  not(a) \in Arrays /\ Number(not(a)) = Range2 - 1 - Number(a)
  <1> DEFINE v == not(a)
  <1>1. Words \in Nat \ {0} /\ DataChunk \in Nat \ {0} BY HashArrayAssumption, ChunkPositive
  <1>2. v \in Arrays /\ \A i \in 1 .. Words : v[i] = DataChunk - 1 - a[i]
    <2>1. \A i \in 1 .. Words : DataChunk - 1 - a[i] \in 0 .. DataChunk - 1 BY <1>1, ArrayWords
    <2> QED BY <2>1 DEF not, Arrays
  <1> HIDE DEF v
  <1>3. PICK fa : WordSums(a, fa) /\ fa[1] = Number(a) BY SumsOfArray
  <1>4. PICK fv : WordSums(v, fv) /\ fv[1] = Number(v) BY <1>2, SumsOfArray
  <1>5. PICK p : Powers(p) /\ p[1] = Range2 BY PowersExist
  <1> DEFINE S == {i \in 1 .. Words + 1 : fv[i] = p[i] - 1 - fa[i]}
  <1>6. Words + 1 \in S
    <2>1. Words + 1 \in 1 .. Words + 1 BY <1>1
    <2>2. fv[Words + 1] = 0 /\ fa[Words + 1] = 0 /\ p[Words + 1] = 1 BY <1>3, <1>4, <1>5 DEF WordSums, Powers
    <2> QED BY <2>1, <2>2
  <1>7. ASSUME NEW i \in 1 .. Words, i + 1 \in S PROVE i \in S
    <2>1. i \in 1 .. Words + 1 /\ i + 1 \in 1 .. Words + 1 BY <1>1
    <2> DEFINE V == fv[i + 1]
               A == fa[i + 1]
               P == p[i + 1]
    <2>2. V = P - 1 - A BY <1>7
    <2>3. /\ fv[i] = V * DataChunk + (DataChunk - 1 - a[i]) /\ fa[i] = A * DataChunk + a[i]
          /\ p[i] = P * DataChunk /\ V \in Int /\ A \in Int /\ P \in Int /\ a[i] \in Int
      BY <2>1, <1>2, <1>3, <1>4, <1>5 DEF WordSums, Powers
    <2> HIDE DEF V, A, P
    <2>4. V * DataChunk = P * DataChunk - DataChunk - A * DataChunk BY <2>2, <2>3, <1>1
    <2>5. P * DataChunk \in Int /\ A * DataChunk \in Int BY <2>3, <1>1
    <2> DEFINE vd == V * DataChunk
               pd == P * DataChunk
               ad == A * DataChunk
    <2>6. /\ fv[i] = vd + (DataChunk - 1 - a[i]) /\ fa[i] = ad + a[i] /\ p[i] = pd
          /\ vd = pd - DataChunk - ad /\ pd \in Int /\ ad \in Int
      BY <2>3, <2>4, <2>5
    <2> HIDE DEF vd, pd, ad
    <2>7. fv[i] = p[i] - 1 - fa[i] BY <2>3, <2>6, <1>1
    <2> QED BY <2>1, <2>7
  <1> HIDE DEF S
  <1>8. 1 \in S BY <1>6, <1>7, WordsInduction
  <1> QED BY <1>2, <1>3, <1>4, <1>5, <1>8 DEF S, v

LEMMA SignedNumber ==
  ASSUME NEW a \in Arrays
  PROVE  /\ to_sign_reduced(a) \in Arrays
         /\ \/ Number(to_sign_reduced(a)) = 2 * Number(a)
            \/ Number(to_sign_reduced(a)) = 2 * (Range2 - 1 - Number(a)) + 1
  <1> DEFINE sign == TopBit(a[Words])
             v == IF sign = 1 THEN not(a) ELSE a
             low == [i \in 1 .. Words |-> IF i = 1 THEN sign ELSE TopBit(v[i - 1])]
             t == [i \in 1 .. Words |-> ((v[i] * 2) % DataChunk) + low[i]]
             c == [i \in 0 .. Words |-> IF i = 0 THEN sign ELSE TopBit(v[i])]
             x == [i \in 1 .. Words |-> v[i] + v[i]]
  <1>1. Words \in Nat \ {0} /\ DataChunk \in Nat \ {0} /\ LAST_BIT \in Nat \ {0} /\ DataChunk = 2 * LAST_BIT
    BY HashArrayAssumption, ChunkEven
  <1>2. to_sign_reduced(a) = t BY DEF to_sign_reduced
  <1>3. v \in Arrays BY NotNumber
  <1>4. Words \in 1 .. Words BY <1>1
  <1>5. sign \in {0, 1} /\ TopBit(v[Words]) = 0
    <2>1. a[Words] \in 0 .. DataChunk - 1 BY <1>4, ArrayWords
    <2>2. CASE a[Words] >= LAST_BIT
      <3>1. sign = 1 BY <2>2 DEF TopBit
      <3>2. v[Words] = DataChunk - 1 - a[Words] BY <3>1, <1>4 DEF not
      <3>3. ~(v[Words] >= LAST_BIT) BY <3>2, <2>1, <2>2, <1>1
      <3> QED BY <3>1, <3>3 DEF TopBit
    <2>3. CASE ~(a[Words] >= LAST_BIT)
      <3>1. sign = 0 BY <2>3 DEF TopBit
      <3> QED BY <3>1, <2>3 DEF TopBit
    <2> QED BY <2>2, <2>3
  <1>6. (Number(v) = Number(a) /\ sign = 0) \/ (Number(v) = Range2 - 1 - Number(a) /\ sign = 1)
    <2>1. CASE sign = 0
      <3>1. v = a BY <2>1
      <3> QED BY <2>1, <3>1
    <2>2. CASE sign = 1
      <3>1. v = not(a) BY <2>2
      <3> QED BY <2>2, <3>1, NotNumber
    <2> QED BY <2>1, <2>2, <1>5
  <1> HIDE DEF v, sign
  <1>7. \A i \in 1 .. Words : v[i] \in 0 .. DataChunk - 1 /\ TopBit(v[i]) \in {0, 1}
    BY <1>3, ArrayWords DEF TopBit
  <1>8. \A i \in 1 .. Words : low[i] = c[i - 1] /\ low[i] \in {0, 1}
    <2> SUFFICES ASSUME NEW i \in 1 .. Words PROVE low[i] = c[i - 1] /\ low[i] \in {0, 1} OBVIOUS
    <2>1. CASE i = 1 BY <2>1, <1>1, <1>5
    <2>2. CASE i # 1
      <3>1. i - 1 \in 1 .. Words /\ i - 1 \in 0 .. Words /\ i - 1 # 0 BY <2>2, <1>1
      <3>2. low[i] = TopBit(v[i - 1]) /\ c[i - 1] = TopBit(v[i - 1]) BY <2>2, <3>1
      <3> QED BY <3>1, <3>2, <1>7
    <2> QED BY <2>1, <2>2
  <1>9. \A i \in 1 .. Words : c[i] = TopBit(v[i])
    <2>1. \A i \in 1 .. Words : i \in 0 .. Words /\ i # 0 BY <1>1
    <2> QED BY <2>1
  <1>10. c[0] = sign /\ c[Words] = 0
    <2>1. 0 \in 0 .. Words BY <1>1
    <2> QED BY <2>1, <1>4, <1>5, <1>9
  <1>11. c \in [0 .. Words -> Int]
    <2>1. \A i \in 0 .. Words : i = 0 \/ i \in 1 .. Words BY <1>1
    <2>2. \A i \in 0 .. Words : (IF i = 0 THEN sign ELSE TopBit(v[i])) \in Int BY <2>1, <1>5, <1>7
    <2> QED BY <2>2
  <1> HIDE DEF low, c
  <1>12. ASSUME NEW i \in 1 .. Words
         PROVE  t[i] \in 0 .. DataChunk - 1 /\ t[i] = x[i] + c[i - 1] - c[i] * DataChunk
    <2>1. /\ (v[i] * 2) % DataChunk = 2 * v[i] - TopBit(v[i]) * DataChunk
          /\ ((v[i] * 2) % DataChunk) + low[i] \in 0 .. DataChunk - 1
      BY <1>7, <1>8, Doubled
    <2>2. t[i] = ((v[i] * 2) % DataChunk) + low[i] /\ x[i] = v[i] + v[i] OBVIOUS
    <2>3. v[i] \in Int /\ c[i] = TopBit(v[i]) /\ c[i] \in {0, 1} /\ low[i] = c[i - 1] /\ low[i] \in {0, 1}
      BY <1>7, <1>8, <1>9
    <2>4. c[i] * DataChunk \in Int BY <2>3, <1>1
    <2> HIDE DEF t, x
    <2> QED BY <2>1, <2>2, <2>3, <2>4
  <1>13. t \in Arrays BY <1>12 DEF Arrays
  <1>14. PICK fv : WordSums(v, fv) /\ fv[1] = Number(v) BY <1>3, SumsOfArray
  <1> HIDE DEF t
  <1>15. PICK ft : WordSums(t, ft) /\ ft[1] = Number(t) BY <1>13, SumsOfArray
  <1>16. PICK p : Powers(p) BY PowersExist
  <1> DEFINE fx == [i \in 1 .. Words + 1 |-> fv[i] + fv[i]]
  <1>17. WordSums(x, fx) BY <1>14, AddedSums
  <1>18. fx[1] = Number(v) + Number(v)
    <2>1. 1 \in 1 .. Words + 1 BY <1>1
    <2> QED BY <2>1, <1>14
  <1> HIDE DEF x, fx
  <1>19. Carried(x, t, c) BY <1>11, <1>12 DEF Carried
  <1>20. ft[1] = fx[1] + c[0] - c[Words] * p[1] BY <1>15, <1>16, <1>17, <1>19, CarriesCancel
  <1>21. p[1] \in Nat
    <2>1. 1 \in 1 .. Words + 1 BY <1>1
    <2> QED BY <2>1, <1>16 DEF Powers
  <1>22. c[Words] * p[1] = 0 BY <1>10, <1>21
  <1>23. Number(v) \in Nat /\ Number(a) \in Nat /\ Range2 \in Nat BY <1>3, NumberBelow
  <1>24. Number(t) = 2 * Number(v) + sign BY <1>5, <1>10, <1>15, <1>18, <1>20, <1>22, <1>23
  <1> QED BY <1>2, <1>6, <1>13, <1>23, <1>24

(* A normalized difference undoes to the difference, but for the range. *)
LEMMA DeviationIs ==
  ASSUME NEW a \in Arrays
  PROVE  \E k \in {0, 1} : Deviation(Number(to_sign_reduced(a))) = Number(a) - k * Range2
  <1>1. Number(a) \in Nat /\ Range2 \in Nat BY NumberBelow
  <1> DEFINE n == Number(a)
             m == Number(to_sign_reduced(a))
             r == Range2
  <1>2. m = 2 * n \/ m = 2 * (r - 1 - n) + 1 BY SignedNumber
  <1> HIDE DEF n, m, r
  <1>3. n \in Nat /\ r \in Nat BY <1>1 DEF n, r
  <1>4. CASE m = 2 * n
    <2>1. m % 2 = 0 /\ m \div 2 = n BY <1>3, <1>4
    <2>2. Deviation(m) = n - 0 * r BY <2>1, <1>3 DEF Deviation
    <2> QED BY <2>2 DEF n, m, r
  <1>5. CASE m = 2 * (r - 1 - n) + 1
    <2>1. m % 2 = 1 /\ (m + 1) \div 2 = r - n BY <1>3, <1>5
    <2>2. Deviation(m) = n - 1 * r BY <2>1, <1>3 DEF Deviation
    <2> QED BY <2>2 DEF n, m, r
  <1> QED BY <1>2, <1>4, <1>5

--------------------------------------------------------------------------------
(* The inductive invariant of the compression: which entries have been dealt    *)
(* with, and what each of them left.                                          *)
CompressTypes == /\ run \in Seq(Arrays) /\ entries \in Seq(Arrays)
                 /\ written \in Seq(Arrays) /\ diffs \in Seq(Arrays)
                 /\ average_span \in Arrays
                 /\ count \in 0 .. MaxCount

(* What the iterator has still to give follows the first n entries, and leaves  *)
(* the last m.                                                                *)
Between(n, m) == /\ Len(entries) = Len(run) - n - m
                 /\ \A i \in 1 .. Len(entries) : entries[i] = run[n + i]

BothEnds == Len(written) = 2 /\ written[1] = run[1] /\ written[2] = run[Len(run)]

DiffOf(k) == to_sign_reduced(wrapping_sub(wrapping_sub(run[k + 1], run[k]), average_span))

AtStart == at = "start" => entries = run /\ written = <<>> /\ diffs = <<>>
AtEnd == at = "end" => /\ Between(1, 0) /\ diffs = <<>>
                       /\ Len(written) = 1 /\ written[1] = run[1] /\ prev = run[1]
AtAverage == at = "average" => /\ Between(1, 1) /\ BothEnds /\ diffs = <<>> /\ prev = run[1]
AtDiffs == at = "diffs" => /\ Between(Len(diffs) + 1, 1) /\ BothEnds
                           /\ prev = run[Len(diffs) + 1]
                           /\ Len(diffs) <= Shown
                           /\ span = wrapping_sub(run[Len(run)], run[1])
                           /\ Number(average_span) = Number(span) \div (count - 1)
AtOk == at = "ok" => Len(written) + Len(diffs) = Min({Len(run), Shown + 2})

DiffsAre == diffs # <<>> => /\ Len(diffs) + 2 <= Len(run) /\ BothEnds
                            /\ \A k \in 1 .. Len(diffs) : diffs[k] = DiffOf(k)

CompressInvariant == /\ CompressTypes
                     /\ AtStart /\ AtEnd /\ AtAverage /\ AtDiffs /\ AtOk
                     /\ DiffsAre

LEMMA LesserOfTwo ==
  ASSUME NEW x \in Nat, NEW y \in Nat
  PROVE  /\ x <= y => Min({x, y}) = x
         /\ y <= x => Min({x, y}) = y
  BY DEF Min

LEMMA EmptyLength == ASSUME NEW S, NEW s \in Seq(S) PROVE Len(s) \in Nat /\ (s = <<>> <=> Len(s) = 0)
  BY EmptySeq, LenProperties

LEMMA ZeroIsArray == Zero \in Arrays
  BY ChunkPositive DEF Zero, Arrays

LEMMA CompressStarts ==
  ASSUME CompressInit
  PROVE  CompressInvariant
  <1>1. PICK n \in 0 .. MaxIds : run \in [1 .. n -> Ids] BY DEF CompressInit, IdRuns
  <1>2. Ids \subseteq Arrays /\ MaxIds \in Nat /\ n \in Nat BY <1>1, CompressionAssumption
  <1>3. run \in [1 .. n -> Arrays] BY <1>1, <1>2
  <1>4. run \in Seq(Arrays) BY <1>2, <1>3, FunctionIsSeq
  <1>5. /\ at = "start" /\ entries = run /\ written = <<>> /\ diffs = <<>>
        /\ average_span = Zero /\ count \in 0 .. MaxCount
    BY DEF CompressInit
  <1>6. <<>> \in Seq(Arrays) OBVIOUS
  <1>7. CompressTypes BY <1>4, <1>5, <1>6, ZeroIsArray DEF CompressTypes
  <1> QED BY <1>5, <1>7 DEF CompressInvariant, AtStart, AtEnd, AtAverage, AtDiffs, AtOk, DiffsAre

LEMMA NoCompressInvariant ==
  ASSUME NoCompression
  PROVE  CompressInvariant
  <1>1. /\ at = "unused" /\ run = <<>> /\ entries = <<>> /\ written = <<>> /\ diffs = <<>>
        /\ average_span = Zero /\ count = 0
    BY DEF NoCompression
  <1>2. <<>> \in Seq(Arrays) OBVIOUS
  <1>3. CompressTypes BY <1>1, <1>2, ZeroIsArray, CompressionAssumption DEF CompressTypes
  <1> QED BY <1>1, <1>3 DEF CompressInvariant, AtStart, AtEnd, AtAverage, AtDiffs, AtOk, DiffsAre

LEMMA KeepsFirst ==
  ASSUME CompressInvariant, WriteFirst
  PROVE  CompressInvariant'
  <1>1. /\ at = "start" /\ entries = run /\ written = <<>> /\ diffs = <<>>
        /\ run \in Seq(Arrays) /\ Shown \in Nat /\ average_span \in Arrays /\ count \in 0 .. MaxCount
    BY CompressionAssumption DEF CompressInvariant, AtStart, WriteFirst, CompressTypes
  <1>2. /\ run' = run /\ count' = count /\ average_span' = average_span /\ diffs' = diffs
    BY DEF WriteFirst, Goto
  <1>3. CASE entries = <<>>
    <2>1. at' = "ok" /\ entries' = entries /\ written' = written BY <1>3 DEF WriteFirst, Goto
    <2>2. CompressTypes' BY <2>1, <1>2 DEF CompressInvariant, CompressTypes
    <2>3. Len(<<>>) = 0 OBVIOUS
    <2>4. Min({0, Shown + 2}) = 0 BY <1>1, LesserOfTwo
    <2>5. Len(written') = 0 /\ Len(diffs') = 0 /\ Len(run') = 0 BY <2>1, <2>3, <1>1, <1>2, <1>3
    <2>6. AtOk' BY <2>4, <2>5 DEF AtOk
    <2> QED BY <2>1, <2>2, <2>6, <1>1, <1>2
        DEF CompressInvariant, AtStart, AtEnd, AtAverage, AtDiffs, DiffsAre
  <1>4. CASE entries # <<>>
    <2>1. at' = "end" /\ prev' = Head(entries) /\ written' = <<Head(entries)>> /\ entries' = Tail(entries)
      BY <1>4 DEF WriteFirst, Goto
    <2>2. /\ Tail(run) \in Seq(Arrays) /\ Len(Tail(run)) = Len(run) - 1 /\ Head(run) = run[1]
          /\ \A i \in 1 .. Len(Tail(run)) : Tail(run)[i] = run[i + 1]
          /\ Head(run) \in Arrays
      BY <1>1, <1>4, HeadTailProperties
    <2>3. Len(run) \in Nat BY <1>1, LenProperties
    <2> DEFINE h == Head(run)
               t == Tail(run)
    <2>4. h \in Arrays /\ h = run[1] /\ t \in Seq(Arrays) BY <2>2
    <2>5. Len(t) = Len(run) - 1 - 0 /\ \A i \in 1 .. Len(t) : t[i] = run[1 + i]
      <3>1. Len(t) \in Nat BY <2>4, LenProperties
      <3>2. \A i \in 1 .. Len(t) : i + 1 = 1 + i OBVIOUS
      <3> QED BY <3>1, <3>2, <2>2, <2>3
    <2>6. written' = <<h>> /\ prev' = h /\ entries' = t BY <2>1, <1>1
    <2> HIDE DEF h, t
    <2>7. <<h>> \in Seq(Arrays) /\ Len(<<h>>) = 1 /\ <<h>>[1] = h BY <2>4
    <2>8. CompressTypes' BY <2>4, <2>6, <2>7, <1>2 DEF CompressInvariant, CompressTypes
    <2>9. Between(1, 0)' BY <2>5, <2>6, <1>2 DEF Between
    <2>10. AtEnd' BY <2>4, <2>6, <2>7, <2>9, <1>1, <1>2 DEF AtEnd
    <2> QED BY <2>1, <2>8, <2>10, <1>1, <1>2
        DEF CompressInvariant, AtStart, AtAverage, AtDiffs, AtOk, DiffsAre
  <1> QED BY <1>3, <1>4

LEMMA KeepsLast ==
  ASSUME CompressInvariant, WriteLast
  PROVE  CompressInvariant'
  <1>1. /\ at = "end" /\ Between(1, 0) /\ diffs = <<>> /\ Len(written) = 1 /\ written[1] = run[1]
        /\ prev = run[1] /\ run \in Seq(Arrays) /\ Shown \in Nat
        /\ entries \in Seq(Arrays) /\ written \in Seq(Arrays)
    BY CompressionAssumption DEF CompressInvariant, AtEnd, WriteLast, CompressTypes
  <1>2. /\ run' = run /\ count' = count /\ average_span' = average_span /\ diffs' = diffs /\ prev' = prev
    BY DEF WriteLast, Goto
  <1>3. Len(run) \in Nat /\ Len(entries) = Len(run) - 1 /\ Len(entries) \in Nat /\ Len(diffs) = 0
    BY <1>1, EmptyLength DEF Between
  <1>4. CASE entries = <<>>
    <2>1. at' = "ok" /\ entries' = entries /\ written' = written BY <1>4 DEF WriteLast, Goto
    <2>2. CompressTypes' BY <2>1, <1>2 DEF CompressInvariant, CompressTypes
    <2>3. Len(run) = 1 BY <1>1, <1>3, <1>4, EmptyLength
    <2>4. Min({1, Shown + 2}) = 1 BY <1>1, LesserOfTwo
    <2>5. Len(written') + Len(diffs') = 1 /\ Len(run') = 1 BY <2>1, <2>3, <1>1, <1>2, <1>3
    <2>6. AtOk' BY <2>4, <2>5 DEF AtOk
    <2> QED BY <2>1, <2>2, <2>6, <1>1, <1>2
        DEF CompressInvariant, AtStart, AtEnd, AtAverage, AtDiffs, DiffsAre
  <1>5. CASE entries # <<>>
    <2> DEFINE l == entries[Len(entries)]
    <2>1. at' = "average" /\ written' = Append(written, l) /\ entries' = SubSeq(entries, 1, Len(entries) - 1)
      BY <1>5 DEF WriteLast, Goto, Last, Front
    <2>2. Len(entries) \in 1 .. Len(entries) BY <1>1, <1>3, <1>5, EmptyLength
    <2>3. l \in Arrays BY <2>2, <1>1, ElementOfSeq
    <2>4. l = run[Len(run)]
      <3>1. 1 + Len(entries) = Len(run) BY <1>3
      <3> QED BY <3>1, <2>2, <1>1 DEF Between
    <2> HIDE DEF l
    <2>5. /\ Append(written, l) \in Seq(Arrays) /\ Len(Append(written, l)) = 2
          /\ Append(written, l)[1] = written[1] /\ Append(written, l)[2] = l
      <3>1. /\ Append(written, l) \in Seq(Arrays) /\ Len(Append(written, l)) = Len(written) + 1
            /\ \A i \in 1 .. Len(written) : Append(written, l)[i] = written[i]
            /\ Append(written, l)[Len(written) + 1] = l
        <4>1. written \in Seq(Arrays) BY <1>1
        <4> QED BY <4>1, <2>3, AppendProperties
      <3>2. 1 \in 1 .. 1 /\ 1 + 1 = 2 OBVIOUS
      <3> QED BY <3>1, <3>2, <1>1
    <2>6. /\ entries' \in Seq(Arrays) /\ Len(entries') = Len(run) - 1 - 1
          /\ \A i \in 1 .. Len(entries') : entries'[i] = run[1 + i]
      <3>1. \A i \in 1 .. Len(entries) - 1 : i \in 1 .. Len(entries) /\ entries[i] \in Arrays
        BY <1>1, <1>3, ElementOfSeq
      <3>2. Len(entries) - 1 \in Int /\ 1 \in Int BY <1>3
      <3> DEFINE q == SubSeq(entries, 1, Len(entries) - 1)
      <3>3. /\ q \in Seq(Arrays)
            /\ Len(q) = IF 1 <= Len(entries) - 1 THEN Len(entries) - 1 - 1 + 1 ELSE 0
            /\ \A i \in 1 .. Len(entries) - 1 - 1 + 1 : q[i] = entries[1 + i - 1]
        BY <3>1, <3>2, SubSeqProperties
      <3>4. entries' = q BY <2>1
      <3> HIDE DEF q
      <3>5. Len(q) = Len(entries) - 1 BY <3>3, <1>3, <2>2
      <3>6. \A i \in 1 .. Len(q) : q[i] = run[1 + i]
        <4> SUFFICES ASSUME NEW i \in 1 .. Len(q) PROVE q[i] = run[1 + i] OBVIOUS
        <4>1. i \in 1 .. Len(entries) - 1 - 1 + 1 /\ 1 + i - 1 = i /\ i \in 1 .. Len(entries) BY <3>5, <1>3
        <4>2. q[i] = entries[i] BY <4>1, <3>3
        <4> QED BY <4>1, <4>2, <1>1 DEF Between
      <3> QED BY <3>3, <3>4, <3>5, <3>6, <1>3
    <2>7. CompressTypes' BY <2>1, <2>5, <2>6, <1>2 DEF CompressInvariant, CompressTypes
    <2>8. Between(1, 1)' BY <2>6, <1>2 DEF Between
    <2>9. BothEnds' BY <2>1, <2>4, <2>5, <1>1, <1>2 DEF BothEnds
    <2>10. AtAverage' BY <2>8, <2>9, <1>1, <1>2 DEF AtAverage
    <2> QED BY <2>1, <2>7, <2>10, <1>1, <1>2
        DEF CompressInvariant, AtStart, AtEnd, AtDiffs, AtOk, DiffsAre
  <1> QED BY <1>4, <1>5

LEMMA KeepsFailed ==
  ASSUME CompressInvariant, UNCHANGED <<run, count, written, diffs, average_span, entries>>, at' = "failed"
  PROVE  CompressInvariant'
  <1>1. CompressTypes' BY DEF CompressInvariant, CompressTypes
  <1>2. DiffsAre' BY DEF CompressInvariant, DiffsAre, BothEnds, DiffOf
  <1> QED BY <1>1, <1>2 DEF CompressInvariant, AtStart, AtEnd, AtAverage, AtDiffs, AtOk

LEMMA KeepsAverage ==
  ASSUME CompressInvariant, Average
  PROVE  CompressInvariant'
  <1>1. /\ at = "average" /\ Between(1, 1) /\ BothEnds /\ diffs = <<>> /\ prev = run[1]
        /\ run \in Seq(Arrays) /\ entries \in Seq(Arrays) /\ written \in Seq(Arrays)
        /\ count \in 0 .. MaxCount /\ Shown \in Nat /\ MaxCount \in Nat /\ MaxCount <= DataChunk
    BY CompressionAssumption DEF CompressInvariant, AtAverage, Average, CompressTypes
  <1>2. /\ run' = run /\ count' = count /\ written' = written /\ diffs' = diffs /\ prev' = prev
        /\ entries' = entries
        /\ span' = wrapping_sub(written[2], written[1])
    BY DEF Average, Goto
  <1>3. \/ at' = "failed" /\ average_span' = average_span
        \/ /\ count # 0 /\ checked_div_rem(span', count - 1) # <<>> /\ at' = "diffs"
           /\ average_span' = checked_div_rem(span', count - 1)[1].quotient
    BY DEF Average, Goto
  <1>4. CASE at' = "failed" /\ average_span' = average_span BY <1>2, <1>4, KeepsFailed
  <1>5. CASE /\ count # 0 /\ checked_div_rem(span', count - 1) # <<>> /\ at' = "diffs"
             /\ average_span' = checked_div_rem(span', count - 1)[1].quotient
    <2>1. count - 1 # 0 BY <1>5 DEF checked_div_rem
    <2>2. DataChunk \in Nat \ {0} BY ChunkPositive
    <2>3. count - 1 \in 1 .. DataChunk - 1 BY <2>1, <2>2, <1>1, <1>5
    <2>4. Len(run) \in Nat /\ Len(entries) \in Nat /\ Len(run) >= 2 /\ Len(diffs) = 0
      BY <1>1, EmptyLength DEF Between
    <2>5. run[1] \in Arrays /\ run[Len(run)] \in Arrays BY <2>4, <1>1, ElementOfSeq
    <2>6. span' = wrapping_sub(run[Len(run)], run[1]) BY <1>1, <1>2 DEF BothEnds
    <2>7. span' \in Arrays BY <2>5, <2>6, DifferenceNumber
    <2>8. PICK q \in Arrays, s \in 0 .. (count - 1) - 1 :
              /\ checked_div_rem(span', count - 1) = << [quotient |-> q, rem |-> s] >>
              /\ Number(q) = Number(span') \div (count - 1)
      BY <2>3, <2>7, QuotientNumber
    <2>9. average_span' = q BY <2>8, <1>5
    <2>10. CompressTypes' BY <2>8, <2>9, <1>2 DEF CompressInvariant, CompressTypes
    <2>11. Len(diffs') = 0 /\ Len(diffs') + 1 = 1 BY <2>4, <1>2
    <2>12. Between(1, 1)' /\ BothEnds' BY <1>1, <1>2 DEF Between, BothEnds
    <2>13. /\ Between(Len(diffs) + 1, 1)' /\ prev' = run'[Len(diffs') + 1] /\ Len(diffs') <= Shown
      BY <2>11, <2>12, <1>1, <1>2
    <2>14. /\ span' = wrapping_sub(run'[Len(run')], run'[1])
           /\ Number(average_span') = Number(span') \div (count' - 1)
      BY <2>6, <2>8, <2>9, <1>2
    <2>15. AtDiffs' BY <2>12, <2>13, <2>14 DEF AtDiffs
    <2> QED BY <2>10, <2>15, <1>1, <1>2, <1>5
        DEF CompressInvariant, AtStart, AtEnd, AtAverage, AtOk, DiffsAre
  <1> QED BY <1>3, <1>4, <1>5

LEMMA KeepsDiff ==
  ASSUME CompressInvariant, Diff
  PROVE  CompressInvariant'
  <1>1. /\ at = "diffs" /\ entries # <<>> /\ Between(Len(diffs) + 1, 1) /\ BothEnds
        /\ prev = run[Len(diffs) + 1] /\ Len(diffs) < Shown
        /\ span = wrapping_sub(run[Len(run)], run[1])
        /\ Number(average_span) = Number(span) \div (count - 1)
        /\ run \in Seq(Arrays) /\ entries \in Seq(Arrays) /\ diffs \in Seq(Arrays)
        /\ average_span \in Arrays /\ Shown \in Nat
    BY CompressionAssumption DEF CompressInvariant, AtDiffs, Diff, CompressTypes
  <1>2. /\ run' = run /\ count' = count /\ written' = written /\ average_span' = average_span
        /\ span' = span /\ at' = "diffs" /\ prev' = Head(entries) /\ entries' = Tail(entries)
    BY DEF Diff, Goto
  <1> DEFINE h == Head(entries)
             t == Tail(entries)
             n == Len(diffs)
             d == to_sign_reduced(wrapping_sub(wrapping_sub(h, prev), average_span))
  <1>3. diffs' = Append(diffs, d) BY DEF Diff
  <1>4. /\ h \in Arrays /\ h = entries[1] /\ t \in Seq(Arrays) /\ Len(t) = Len(entries) - 1
        /\ \A i \in 1 .. Len(t) : t[i] = entries[i + 1]
    BY <1>1, HeadTailProperties
  <1>5. /\ Len(run) \in Nat /\ Len(entries) \in Nat /\ n \in Nat /\ Len(entries) >= 1
        /\ Len(entries) = Len(run) - (n + 1) - 1
    BY <1>1, EmptyLength DEF Between
  <1>6. entries' = t /\ prev' = h BY <1>2
  <1> HIDE DEF h, t
  <1>7. h = run[n + 2]
    <2>1. 1 \in 1 .. Len(entries) /\ (n + 1) + 1 = n + 2 BY <1>5
    <2> QED BY <2>1, <1>1, <1>4 DEF Between
  <1>8. prev = run[n + 1] /\ run[n + 1] \in Arrays
    <2>1. n + 1 \in 1 .. Len(run) BY <1>5
    <2> QED BY <2>1, <1>1, ElementOfSeq
  <1>9. wrapping_sub(h, prev) \in Arrays BY <1>4, <1>8, DifferenceNumber
  <1>10. wrapping_sub(wrapping_sub(h, prev), average_span) \in Arrays BY <1>1, <1>9, DifferenceNumber
  <1>11. d \in Arrays BY <1>10, SignedNumber
  <1>12. d = to_sign_reduced(wrapping_sub(wrapping_sub(run[(n + 1) + 1], run[n + 1]), average_span))
    <2>1. (n + 1) + 1 = n + 2 BY <1>5
    <2> QED BY <2>1, <1>7, <1>8
  <1> HIDE DEF d, n
  <1>13. /\ diffs' \in Seq(Arrays) /\ Len(diffs') = n + 1 /\ diffs'[n + 1] = d
         /\ \A i \in 1 .. n : diffs'[i] = diffs[i]
    BY <1>1, <1>3, <1>11, AppendProperties DEF n
  <1>14. CompressTypes' BY <1>2, <1>4, <1>6, <1>13 DEF CompressInvariant, CompressTypes
  <1>15. BothEnds' BY <1>1, <1>2 DEF BothEnds
  <1>16. Between(n + 1, 1) BY <1>1 DEF n
  <1>17. Len(t) = Len(run) - ((n + 1) + 1) - 1 BY <1>4, <1>5
  <1>18. \A i \in 1 .. Len(t) : t[i] = run[(n + 1) + 1 + i]
    <2> SUFFICES ASSUME NEW i \in 1 .. Len(t) PROVE t[i] = run[(n + 1) + 1 + i] OBVIOUS
    <2>1. i + 1 \in 1 .. Len(entries) /\ (n + 1) + (i + 1) = (n + 1) + 1 + i BY <1>4, <1>5
    <2>2. entries[i + 1] = run[(n + 1) + (i + 1)] BY <2>1, <1>16 DEF Between
    <2> QED BY <2>1, <2>2, <1>4
  <1>19. Between(Len(diffs) + 1, 1)' BY <1>2, <1>6, <1>13, <1>17, <1>18 DEF Between
  <1>20. prev' = run'[Len(diffs') + 1]
    <2>1. (n + 1) + 1 = n + 2 BY <1>5
    <2> QED BY <2>1, <1>2, <1>6, <1>7, <1>13
  <1>21. Len(diffs') <= Shown BY <1>1, <1>5, <1>13 DEF n
  <1>22. AtDiffs' BY <1>1, <1>2, <1>15, <1>19, <1>20, <1>21 DEF AtDiffs
  <1>23. DiffsAre'
    <2>1. Len(diffs') + 2 <= Len(run') BY <1>2, <1>5, <1>13
    <2>2. ASSUME NEW k \in 1 .. Len(diffs') PROVE diffs'[k] = DiffOf(k)'
      <3>1. CASE k = n + 1 BY <3>1, <1>2, <1>12, <1>13 DEF DiffOf
      <3>2. CASE k # n + 1
        <4>1. k \in 1 .. n /\ n # 0 BY <3>2, <1>5, <1>13
        <4>2. diffs # <<>> /\ k \in 1 .. Len(diffs) BY <4>1, <1>1, EmptyLength DEF n
        <4>3. diffs[k] = DiffOf(k) BY <4>2 DEF CompressInvariant, DiffsAre
        <4> QED BY <4>1, <4>3, <1>2, <1>13 DEF DiffOf
      <3> QED BY <3>1, <3>2
    <2> QED BY <2>1, <2>2, <1>15 DEF DiffsAre
  <1> QED BY <1>2, <1>14, <1>22, <1>23 DEF CompressInvariant, AtStart, AtEnd, AtAverage, AtOk

LEMMA KeepsDiffsEnd ==
  ASSUME CompressInvariant, DiffsEnd
  PROVE  CompressInvariant'
  <1>1. /\ at = "diffs" /\ (entries = <<>> \/ Len(diffs) = Shown) /\ Between(Len(diffs) + 1, 1) /\ BothEnds
        /\ Len(diffs) <= Shown /\ run \in Seq(Arrays) /\ entries \in Seq(Arrays) /\ diffs \in Seq(Arrays)
        /\ Shown \in Nat
    BY CompressionAssumption DEF CompressInvariant, AtDiffs, DiffsEnd, CompressTypes
  <1>2. /\ run' = run /\ count' = count /\ written' = written /\ average_span' = average_span
        /\ diffs' = diffs /\ entries' = entries /\ at' = "ok"
    BY DEF DiffsEnd, Goto
  <1>3. /\ Len(run) \in Nat /\ Len(entries) \in Nat /\ Len(diffs) \in Nat
        /\ Len(entries) = Len(run) - (Len(diffs) + 1) - 1 /\ (entries = <<>> <=> Len(entries) = 0)
    BY <1>1, EmptyLength DEF Between
  <1>4. Len(written) + Len(diffs) = Min({Len(run), Shown + 2})
    <2>1. Len(written) = 2 BY <1>1 DEF BothEnds
    <2>2. CASE entries = <<>>
      <3>1. Len(run) = Len(diffs) + 2 /\ Len(run) <= Shown + 2 BY <2>2, <1>1, <1>3
      <3>2. Min({Len(run), Shown + 2}) = Len(run) BY <3>1, <1>1, <1>3, LesserOfTwo
      <3> QED BY <3>1, <3>2, <2>1, <1>3
    <2>3. CASE Len(diffs) = Shown
      <3>1. Shown + 2 <= Len(run) /\ Shown + 2 \in Nat BY <2>3, <1>1, <1>3
      <3>2. Min({Len(run), Shown + 2}) = Shown + 2 BY <3>1, <1>1, <1>3, LesserOfTwo
      <3> QED BY <3>2, <2>1, <2>3, <1>1
    <2> QED BY <2>2, <2>3, <1>1
  <1>5. CompressTypes' BY <1>2 DEF CompressInvariant, CompressTypes
  <1>6. DiffsAre' BY <1>2 DEF CompressInvariant, DiffsAre, BothEnds, DiffOf
  <1>7. AtOk' BY <1>2, <1>4 DEF AtOk
  <1> QED BY <1>2, <1>5, <1>6, <1>7 DEF CompressInvariant, AtStart, AtEnd, AtAverage, AtDiffs

LEMMA KeepsUnchanged ==
  ASSUME CompressInvariant, UNCHANGED compressVars
  PROVE  CompressInvariant'
  <1>1. /\ at' = at /\ run' = run /\ count' = count /\ written' = written /\ average_span' = average_span
        /\ diffs' = diffs /\ entries' = entries /\ prev' = prev /\ span' = span
    BY DEF compressVars
  <1>2. CompressTypes' BY <1>1 DEF CompressInvariant, CompressTypes
  <1>3. BothEnds' = BothEnds BY <1>1 DEF BothEnds
  <1>4. \A n, m : Between(n, m)' = Between(n, m) BY <1>1 DEF Between
  <1>5. AtStart' /\ AtOk' BY <1>1 DEF CompressInvariant, AtStart, AtOk
  <1>6. AtEnd' /\ AtAverage' BY <1>1, <1>3 DEF CompressInvariant, AtEnd, AtAverage, Between
  <1>7. AtDiffs' BY <1>1, <1>3 DEF CompressInvariant, AtDiffs, Between
  <1>8. DiffsAre' BY <1>1, <1>3 DEF CompressInvariant, DiffsAre, DiffOf
  <1> QED BY <1>2, <1>5, <1>6, <1>7, <1>8 DEF CompressInvariant

(* Whatever is compressed, and wherever it stops, the invariant holds: the       *)
(* differences are those of neighbours, less the average (store/compress.rs).  *)
THEOREM CompressInvariantHolds == StoreSpec => []CompressInvariant
  <1>1. StoreInit => CompressInvariant BY CompressStarts, NoCompressInvariant DEF StoreInit
  <1>2. CompressInvariant /\ [StoreNext]_storeVars => CompressInvariant'
    <2> SUFFICES ASSUME CompressInvariant, [StoreNext]_storeVars PROVE CompressInvariant' OBVIOUS
    <2>1. CASE WriteFirst BY <2>1, KeepsFirst
    <2>2. CASE WriteLast BY <2>2, KeepsLast
    <2>3. CASE WriteFails BY <2>3, KeepsFailed DEF WriteFails, Goto
    <2>4. CASE Average BY <2>4, KeepsAverage
    <2>5. CASE Diff BY <2>5, KeepsDiff
    <2>6. CASE DiffsEnd BY <2>6, KeepsDiffsEnd
    <2>7. CASE UNCHANGED compressVars BY <2>7, KeepsUnchanged
    <2>8. CompressNext \/ UNCHANGED compressVars BY DEF StoreNext, storeVars
    <2> QED BY <2>1, <2>2, <2>3, <2>4, <2>5, <2>6, <2>7, <2>8 DEF CompressNext
  <1> QED BY <1>1, <1>2, PTL DEF StoreSpec

(* The average is that of the entries' steps, rounded down, for words of any    *)
(* width, as many as there are, and divisors of any size (store/compress.rs).  *)
THEOREM AverageTheorem == StoreSpec => []AverageIsExact
  <1>1. ASSUME CompressInvariant PROVE AverageIsExact
    <2> SUFFICES ASSUME at = "diffs" PROVE AverageIsExact BY DEF AverageIsExact
    <2>1. /\ span = wrapping_sub(run[Len(run)], run[1]) /\ run \in Seq(Arrays)
          /\ Number(average_span) = Number(span) \div (count - 1)
          /\ entries \in Seq(Arrays) /\ diffs \in Seq(Arrays)
          /\ Between(Len(diffs) + 1, 1)
      BY <1>1 DEF CompressInvariant, CompressTypes, AtDiffs
    <2>2. Len(run) \in Nat /\ Len(run) >= 2
      <3>1. Len(run) \in Nat /\ Len(entries) \in Nat /\ Len(diffs) \in Nat BY <2>1, LenProperties
      <3> QED BY <3>1, <2>1 DEF Between
    <2>3. run[1] \in Arrays /\ run[Len(run)] \in Arrays BY <2>1, <2>2, ElementOfSeq
    <2>4. wrapping_add(run[1], span) = run[Len(run)] BY <2>1, <2>3, AddingBack
    <2>5. Head(run) = run[1] /\ Last(run) = run[Len(run)] BY DEF Last
    <2> QED BY <2>1, <2>4, <2>5 DEF AverageIsExact
  <1> QED BY <1>1, CompressInvariantHolds, PTL

--------------------------------------------------------------------------------
(* Rebuilding: adding up the deviations. *)
TotalsOf(f) == f = [i \in 0 .. Len(diffs) |->
                      IF i = 0 THEN Number(written[1])
                      ELSE f[i - 1] + Number(average_span) + Deviation(Number(diffs[i]))]

LEMMA DeviationType == ASSUME NEW n \in Nat PROVE Deviation(n) \in Int
  BY DEF Deviation

LEMMA TotalsExist ==
  ASSUME CompressTypes, Number(written[1]) \in Int
  PROVE  \E f : TotalsOf(f)
  <1> DEFINE b == Number(written[1])
             by == [i \in 1 .. Len(diffs) |-> Number(average_span) + Deviation(Number(diffs[i]))]
             m == Len(diffs)
             step == [i \in 1 .. m |-> [v \in Int |-> v + by[i]]]
  <1>1. /\ diffs \in Seq(Arrays) /\ average_span \in Arrays BY DEF CompressTypes
  <1>2. m \in Nat BY <1>1, LenProperties
  <1>3. \A i \in 1 .. m : by[i] \in Int
    <2> SUFFICES ASSUME NEW i \in 1 .. m PROVE by[i] \in Int OBVIOUS
    <2>1. diffs[i] \in Arrays BY <1>1, ElementOfSeq
    <2>2. Number(diffs[i]) \in Nat /\ Number(average_span) \in Nat BY <2>1, <1>1, NumberBelow
    <2>3. Deviation(Number(diffs[i])) \in Int BY <2>2, DeviationType
    <2> QED BY <2>2, <2>3
  <1>4. \A i \in 1 .. m : by[i] = Number(average_span) + Deviation(Number(diffs[i])) OBVIOUS
  <1> HIDE DEF by
  <1>5. step \in [1 .. m -> [Int -> Int]] BY <1>3
  <1>6. \A i \in 1 .. m, v \in Int : step[i][v] = v + by[i] OBVIOUS
  <1>7. b \in Int OBVIOUS
  <1> HIDE DEF step, b
  <1>8. PICK f : Recursion(Int, m, b, step, f) BY <1>2, <1>5, <1>7, RecursionExists DEF StepsIn
  <1>9. /\ f \in [0 .. m -> Int] /\ f[0] = b /\ \A i \in 1 .. m : f[i] = step[i][f[i - 1]]
    BY <1>8 DEF Recursion
  <1>10. ASSUME NEW i \in 0 .. m
         PROVE  f[i] = IF i = 0 THEN b ELSE f[i - 1] + Number(average_span) + Deviation(Number(diffs[i]))
    <2>1. CASE i = 0 BY <2>1, <1>9
    <2>2. CASE i # 0
      <3>1. i \in 1 .. m /\ i - 1 \in 0 .. m BY <2>2, <1>2
      <3>2. f[i - 1] \in Int BY <3>1, <1>9
      <3>3. f[i] = f[i - 1] + by[i] BY <3>1, <3>2, <1>6, <1>9
      <3>4. diffs[i] \in Arrays BY <3>1, <1>1, ElementOfSeq
      <3>5. Number(average_span) \in Int /\ Deviation(Number(diffs[i])) \in Int
        BY <3>4, <1>1, NumberBelow, DeviationType
      <3>6. f[i] = f[i - 1] + (Number(average_span) + Deviation(Number(diffs[i]))) BY <3>1, <3>3, <1>4
      <3> QED BY <2>2, <3>2, <3>5, <3>6
    <2> QED BY <2>1, <2>2
  <1>11. f = [i \in 0 .. m |-> f[i]] BY <1>9
  <1>12. TotalsOf(f) BY <1>10, <1>11 DEF TotalsOf, b
  <1> QED BY <1>12

(* One step from an entry to the next, by a normalized difference. *)
StepsTo(a, b, v, d) == \E k \in Int : Number(a) + Number(v) + Deviation(Number(d))
                                       = Number(b) + k * Range2

LEMMA DeviationSteps ==
  ASSUME NEW a \in Arrays, NEW b \in Arrays, NEW v \in Arrays
  PROVE  StepsTo(a, b, v, to_sign_reduced(wrapping_sub(wrapping_sub(b, a), v)))
  <1> DEFINE s == wrapping_sub(b, a)
             u == wrapping_sub(s, v)
  <1>1. s \in Arrays BY DifferenceNumber
  <1>2. PICK i \in {0, 1} : Number(s) = Number(b) - Number(a) + i * Range2 BY DifferenceNumber
  <1> HIDE DEF s
  <1>3. u \in Arrays BY <1>1, DifferenceNumber
  <1>4. PICK j \in {0, 1} : Number(u) = Number(s) - Number(v) + j * Range2 BY <1>1, DifferenceNumber
  <1> HIDE DEF u
  <1>5. PICK k \in {0, 1} : Deviation(Number(to_sign_reduced(u))) = Number(u) - k * Range2
    BY <1>3, DeviationIs
  <1>6. Number(a) \in Nat /\ Number(b) \in Nat /\ Number(v) \in Nat /\ Range2 \in Nat BY NumberBelow
  <1>7. i \in Int /\ j \in Int /\ k \in Int /\ i + j - k \in Int BY <1>2, <1>4, <1>5
  <1>8. /\ (i + j - k) * Range2 = i * Range2 + j * Range2 - k * Range2
        /\ i * Range2 \in Int /\ j * Range2 \in Int /\ k * Range2 \in Int
    BY <1>6, <1>7
  <1>9. Number(a) + Number(v) + Deviation(Number(to_sign_reduced(u))) = Number(b) + (i + j - k) * Range2
    BY <1>2, <1>4, <1>5, <1>6, <1>8
  <1>10. StepsTo(a, b, v, to_sign_reduced(u)) BY <1>7, <1>9 DEF StepsTo
  <1> QED BY <1>10 DEF u, s

LEMMA TotalsFollow ==
  ASSUME CompressInvariant, diffs # <<>>, NEW f, TotalsOf(f)
  PROVE  \A i \in 1 .. Len(diffs) : f[i] % Range2 = Number(run[i + 1])
  <1>1. /\ run \in Seq(Arrays) /\ diffs \in Seq(Arrays) /\ average_span \in Arrays
        /\ Len(diffs) + 2 <= Len(run) /\ BothEnds
        /\ \A k \in 1 .. Len(diffs) : diffs[k] = DiffOf(k)
    BY DEF CompressInvariant, CompressTypes, DiffsAre
  <1>2. Len(diffs) \in Nat /\ Len(run) \in Nat BY <1>1, LenProperties
  <1>3. \A i \in 0 .. Len(diffs) : run[i + 1] \in Arrays
    <2> SUFFICES ASSUME NEW i \in 0 .. Len(diffs) PROVE run[i + 1] \in Arrays OBVIOUS
    <2>1. i + 1 \in 1 .. Len(run) BY <1>1, <1>2
    <2> QED BY <2>1, <1>1, ElementOfSeq
  <1>4. \A i \in 0 .. Len(diffs) :
           f[i] = IF i = 0 THEN Number(written[1])
                  ELSE f[i - 1] + Number(average_span) + Deviation(Number(diffs[i]))
    BY DEF TotalsOf
  <1>5. Range2 \in Nat \ {0} /\ Number(average_span) \in Nat BY <1>1, NumberBelow
  <1> DEFINE S == {i \in 0 .. Len(diffs) : \E k \in Int : f[i] = Number(run[i + 1]) + k * Range2}
  <1>6. 0 \in S
    <2>1. 0 \in 0 .. Len(diffs) BY <1>2
    <2>2. f[0] = Number(written[1]) BY <2>1, <1>4
    <2>3. written[1] = run[0 + 1] BY <1>1 DEF BothEnds
    <2>4. Number(run[0 + 1]) \in Nat BY <2>1, <1>3, NumberBelow
    <2>5. f[0] = Number(run[0 + 1]) + 0 * Range2 BY <2>2, <2>3, <2>4, <1>5
    <2> QED BY <2>1, <2>5
  <1>7. ASSUME NEW n \in 0 .. Len(diffs) - 1, n \in S PROVE n + 1 \in S
    <2>1. /\ n \in 0 .. Len(diffs) /\ n + 1 \in 0 .. Len(diffs) /\ n + 1 \in 1 .. Len(diffs)
          /\ n + 1 # 0 /\ (n + 1) - 1 = n BY <1>2
    <2>2. PICK k \in Int : f[n] = Number(run[n + 1]) + k * Range2 BY <1>7
    <2>3. f[n + 1] = f[n] + Number(average_span) + Deviation(Number(diffs[n + 1])) BY <2>1, <1>4
    <2>4. diffs[n + 1] = DiffOf(n + 1) BY <2>1, <1>1
    <2>5. run[n + 1] \in Arrays /\ run[(n + 1) + 1] \in Arrays BY <2>1, <1>3
    <2>6. average_span \in Arrays BY <1>1
    <2>7. diffs[n + 1] = to_sign_reduced(wrapping_sub(wrapping_sub(run[(n + 1) + 1], run[n + 1]), average_span))
      BY <2>4 DEF DiffOf
    <2>8. StepsTo(run[n + 1], run[(n + 1) + 1], average_span, diffs[n + 1])
      BY <2>5, <2>6, <2>7, DeviationSteps
    <2> DEFINE x == Number(run[n + 1])
               y == Number(run[(n + 1) + 1])
               v == Number(average_span)
               d == Deviation(Number(diffs[n + 1]))
    <2>9. PICK j \in Int : x + v + d = y + j * Range2 BY <2>8 DEF StepsTo
    <2>10. diffs[n + 1] \in Arrays BY <2>1, <1>1, ElementOfSeq
    <2>11. Number(diffs[n + 1]) \in Nat BY <2>10, NumberBelow
    <2>12. x \in Int /\ y \in Int /\ v \in Int BY <2>5, <1>5, NumberBelow
    <2>13. d \in Int BY <2>11, DeviationType
    <2>14. f[n] = x + k * Range2 /\ f[n + 1] = f[n] + v + d BY <2>2, <2>3
    <2> HIDE DEF x, y, v, d
    <2> DEFINE p == k * Range2
               q == j * Range2
    <2>15. k + j \in Int /\ (k + j) * Range2 = p + q /\ p \in Int /\ q \in Int
      BY <2>2, <2>9, <1>5
    <2>16. f[n] = x + p /\ x + v + d = y + q BY <2>14, <2>9
    <2> HIDE DEF p, q
    <2>17. f[n + 1] = x + p + v + d BY <2>14, <2>16
    <2>18. f[n + 1] = y + (p + q) BY <2>12, <2>13, <2>15, <2>16, <2>17
    <2>19. f[n + 1] = y + (k + j) * Range2 BY <2>15, <2>18
    <2>20. \E c \in Int : f[n + 1] = Number(run[(n + 1) + 1]) + c * Range2
      BY <2>15, <2>19 DEF y
    <2> QED BY <2>1, <2>20
  <1> HIDE DEF S
  <1>8. 0 .. Len(diffs) \subseteq S BY <1>2, <1>6, <1>7, IntervalInduction
  <1> SUFFICES ASSUME NEW i \in 1 .. Len(diffs) PROVE f[i] % Range2 = Number(run[i + 1]) OBVIOUS
  <1>9. i \in 0 .. Len(diffs) BY <1>2
  <1>10. PICK k \in Int : f[i] = Number(run[i + 1]) + k * Range2 BY <1>8, <1>9 DEF S
  <1>11. Number(run[i + 1]) \in 0 .. Range2 - 1 BY <1>3, <1>9, NumberBelow
  <1>12. k * Range2 \in Int BY <1>5
  <1> DEFINE r == Number(run[i + 1])
             w == Range2
  <1>13. r \in 0 .. w - 1 /\ w \in Nat \ {0} /\ k * w \in Int BY <1>5, <1>11, <1>12
  <1>14. f[i] = r + k * w BY <1>10
  <1> HIDE DEF r, w
  <1>15. f[i] = k * w + r BY <1>13, <1>14
  <1> DEFINE x == f[i]
  <1>16. x = k * w + r BY <1>15
  <1> HIDE DEF x
  <1>17. x \in Int BY <1>13, <1>16
  <1>18. w \in Nat \ {0} /\ r \in 0 .. w - 1 BY <1>13
  <1>19. x % w = r BY <1>16, <1>17, <1>18, DivisionIs
  <1> QED BY <1>19 DEF x, r, w

(* What a compression keeps is enough: the entries between the ends are rebuilt  *)
(* from the first one, the average and the differences, for words of any width, *)
(* and none is left out but for the limit of differences that are made          *)
(* (store/compress.rs).                                                        *)
THEOREM RebuildTheorem == StoreSpec => []DiffsRebuild
  <1>1. ASSUME CompressInvariant PROVE DiffsRebuild
    <2>1. at = "ok" => Len(written) + Len(diffs) = Min({Len(run), Shown + 2})
      BY <1>1 DEF CompressInvariant, AtOk
    <2>2. Rebuilt = [i \in 1 .. Len(diffs) |-> Number(run[i + 1])]
      <3> DEFINE f == CHOOSE g : TotalsOf(g)
      <3>1. Rebuilt = [i \in 1 .. Len(diffs) |-> f[i] % Range2] BY DEF Rebuilt, TotalsOf
      <3> HIDE DEF f
      <3>2. diffs \in Seq(Arrays) BY <1>1 DEF CompressInvariant, CompressTypes
      <3>3. CASE diffs = <<>>
        <4>1. Len(diffs) = 0 BY <3>3
        <4>2. 1 .. Len(diffs) = {} BY <4>1
        <4> QED BY <3>1, <4>2
      <3>4. CASE diffs # <<>>
        <4>1. CompressTypes /\ BothEnds /\ run \in Seq(Arrays) /\ Len(diffs) + 2 <= Len(run)
          BY <3>4, <1>1 DEF CompressInvariant, CompressTypes, DiffsAre
        <4>2. Len(diffs) \in Nat /\ Len(run) \in Nat BY <3>2, <4>1, LenProperties
        <4>3. 1 \in 1 .. Len(run) BY <4>1, <4>2
        <4>4. run[1] \in Arrays BY <4>1, <4>3, ElementOfSeq
        <4>5. Number(written[1]) \in Int BY <4>1, <4>4, NumberBelow DEF BothEnds
        <4>6. \E g : TotalsOf(g) BY <4>1, <4>5, TotalsExist
        <4>7. TotalsOf(f) BY <4>6 DEF f
        <4>8. \A i \in 1 .. Len(diffs) : f[i] % Range2 = Number(run[i + 1])
          BY <3>4, <4>7, <1>1, TotalsFollow
        <4> QED BY <3>1, <4>8
      <3> QED BY <3>3, <3>4
    <2> QED BY <2>1, <2>2 DEF DiffsRebuild
  <1> QED BY <1>1, CompressInvariantHolds, PTL
================================================================================
