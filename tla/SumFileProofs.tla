----------------------------- MODULE SumFileProofs -----------------------------
(***************************************************************************)
(* Proofs about SumFile, for chunks and files of any length, cut anywhere:   *)
(* the order a chunk claims, and what each reader returns of what was        *)
(* written.                                                                 *)
(***************************************************************************)
EXTENDS SumFile, DataInduction

--------------------------------------------------------------------------------
(* Chosen places of a sequence. *)
PickOf(s, w, f) == f = [n \in 0 .. Len(s) |-> IF n = 0 THEN <<>>
                                              ELSE IF n \in w THEN Append(f[n - 1], s[n])
                                              ELSE f[n - 1]]

Picks(S, s, w, f) == /\ f \in [0 .. Len(s) -> Seq(S)]
                     /\ f[0] = <<>>
                     /\ \A n \in 1 .. Len(s) : f[n] = IF n \in w THEN Append(f[n - 1], s[n]) ELSE f[n - 1]

LEMMA PicksExist ==
  ASSUME NEW S, NEW s \in Seq(S), NEW w
  PROVE  \E f : Picks(S, s, w, f)
  <1> DEFINE V == Seq(S)
             m == Len(s)
             step == [n \in 1 .. m |-> [v \in V |-> IF n \in w THEN Append(v, s[n]) ELSE v]]
  <1>1. m \in Nat /\ \A n \in 1 .. m : s[n] \in S BY LenProperties, ElementOfSeq
  <1>2. \A n \in 1 .. m, v \in V : (IF n \in w THEN Append(v, s[n]) ELSE v) \in V
    BY <1>1, AppendProperties
  <1>3. step \in [1 .. m -> [V -> V]] BY <1>2
  <1>4. \A n \in 1 .. m, v \in V : step[n][v] = IF n \in w THEN Append(v, s[n]) ELSE v OBVIOUS
  <1>5. <<>> \in V OBVIOUS
  <1>6. \A n \in 1 .. m : n - 1 \in 0 .. m BY <1>1
  <1> HIDE DEF V, m, step
  <1>7. PICK f : Recursion(V, m, <<>>, step, f)
    <2>1. StepsIn(V, m, step) BY <1>3 DEF StepsIn
    <2> QED BY <2>1, <1>1, <1>5, RecursionExists, Zenon
  <1>8. /\ f \in [0 .. m -> V] /\ f[0] = <<>>
        /\ \A n \in 1 .. m : f[n] = step[n][f[n - 1]] BY <1>7 DEF Recursion
  <1>9. \A n \in 1 .. m : f[n - 1] \in V BY <1>6, <1>8
  <1>10. \A n \in 1 .. m : f[n] = IF n \in w THEN Append(f[n - 1], s[n]) ELSE f[n - 1]
    BY <1>4, <1>8, <1>9
  <1>11. Picks(S, s, w, f) BY <1>8, <1>10 DEF Picks, V, m
  <1> QED BY <1>11

LEMMA PickedIs ==
  ASSUME NEW S, NEW s \in Seq(S), NEW w, NEW f, Picks(S, s, w, f)
  PROVE  Picked(s, w) = f[Len(s)] /\ Picked(s, w) \in Seq(S)
  <1> DEFINE m == Len(s)
             g == CHOOSE h : PickOf(s, w, h)
  <1>1. m \in Nat BY LenProperties
  <1>2. /\ f \in [0 .. m -> Seq(S)] /\ f[0] = <<>>
        /\ \A n \in 1 .. m : f[n] = IF n \in w THEN Append(f[n - 1], s[n]) ELSE f[n - 1]
    BY DEF Picks
  <1>3. Picked(s, w) = g[m] BY DEF Picked, PickOf
  <1>4. PickOf(s, w, f)
    <2>1. ASSUME NEW n \in 0 .. m
          PROVE  f[n] = IF n = 0 THEN <<>> ELSE IF n \in w THEN Append(f[n - 1], s[n]) ELSE f[n - 1]
      <3>1. CASE n = 0 BY <3>1, <1>2
      <3>2. CASE n # 0
        <4>1. n \in 1 .. m BY <3>2, <1>1
        <4> QED BY <4>1, <3>2, <1>2
      <3> QED BY <3>1, <3>2
    <2>2. f = [n \in 0 .. m |-> f[n]] BY <1>2
    <2> QED BY <2>1, <2>2 DEF PickOf
  <1> HIDE DEF g
  <1>5. PickOf(s, w, g) BY <1>4 DEF g
  <1>6. \A n \in 0 .. m : g[n] = IF n = 0 THEN <<>> ELSE IF n \in w THEN Append(g[n - 1], s[n]) ELSE g[n - 1]
    <2>1. g = [n \in 0 .. m |-> IF n = 0 THEN <<>> ELSE IF n \in w THEN Append(g[n - 1], s[n]) ELSE g[n - 1]]
      BY <1>5 DEF PickOf
    <2> QED BY <2>1
  <1> HIDE DEF m
  <1> DEFINE T == {n \in 0 .. m : g[n] = f[n]}
  <1>7. 0 \in T BY <1>1, <1>2, <1>6
  <1>8. ASSUME NEW n \in 0 .. m - 1, n \in T PROVE n + 1 \in T
    <2> DEFINE k == n + 1
    <2>1. k \in 1 .. m /\ k \in 0 .. m /\ k # 0 /\ k - 1 = n BY <1>1
    <2>2. g[n] = f[n] BY <1>8
    <2> HIDE DEF k
    <2>3. g[k] = IF k \in w THEN Append(g[k - 1], s[k]) ELSE g[k - 1] BY <2>1, <1>6
    <2>4. f[k] = IF k \in w THEN Append(f[k - 1], s[k]) ELSE f[k - 1] BY <2>1, <1>2
    <2>5. g[k] = f[k] BY <2>1, <2>2, <2>3, <2>4
    <2> QED BY <2>1, <2>5 DEF k
  <1> HIDE DEF T
  <1>9. 0 .. m \subseteq T BY <1>1, <1>7, <1>8, IntervalInduction
  <1>10. m \in 0 .. m BY <1>1
  <1>11. g[m] = f[m] BY <1>9, <1>10 DEF T
  <1> QED BY <1>2, <1>3, <1>10, <1>11 DEF m

LEMMA PickedAppend ==
  ASSUME NEW S, NEW s \in Seq(S), NEW x \in S, NEW w, NEW v,
         \A n \in 1 .. Len(s) : n \in v <=> n \in w
  PROVE  /\ Picked(s, w) \in Seq(S)
         /\ Picked(Append(s, x), v) = IF Len(s) + 1 \in v THEN Append(Picked(s, w), x) ELSE Picked(s, w)
  <1> DEFINE m == Len(s)
             all == Append(s, x)
  <1>1. PICK f : Picks(S, s, w, f) BY PicksExist
  <1>2. PICK g : Picks(S, all, v, g)
    <2>1. all \in Seq(S) BY AppendProperties
    <2> HIDE DEF all
    <2> QED BY <2>1, PicksExist
  <1>3. /\ all \in Seq(S) /\ Len(all) = m + 1 /\ m \in Nat
        /\ all[m + 1] = x /\ \A n \in 1 .. m : all[n] = s[n]
    BY AppendProperties, LenProperties
  <1>4. \A n \in 1 .. m : f[n] = IF n \in w THEN Append(f[n - 1], s[n]) ELSE f[n - 1]
    BY <1>1 DEF Picks
  <1>5. f[0] = <<>> /\ g[0] = <<>> BY <1>1, <1>2 DEF Picks
  <1> HIDE DEF all
  <1>6. \A n \in 1 .. m + 1 : g[n] = IF n \in v THEN Append(g[n - 1], all[n]) ELSE g[n - 1]
    BY <1>2, <1>3 DEF Picks
  <1>7. Picked(s, w) = f[m] /\ Picked(s, w) \in Seq(S) BY <1>1, PickedIs
  <1>8. Picked(all, v) = g[m + 1] BY <1>2, <1>3, PickedIs
  <1>9. \A n \in 1 .. m : n \in v <=> n \in w OBVIOUS
  <1> HIDE DEF m
  <1> DEFINE T == {n \in 0 .. m : g[n] = f[n]}
  <1>10. 0 \in T BY <1>3, <1>5
  <1>11. ASSUME NEW n \in 0 .. m - 1, n \in T PROVE n + 1 \in T
    <2> DEFINE k == n + 1
    <2>1. k \in 1 .. m /\ k \in 1 .. m + 1 /\ k \in 0 .. m /\ k - 1 = n BY <1>3
    <2>2. g[n] = f[n] BY <1>11
    <2> HIDE DEF k
    <2>3. g[k] = IF k \in v THEN Append(g[k - 1], all[k]) ELSE g[k - 1] BY <2>1, <1>6
    <2>4. f[k] = IF k \in w THEN Append(f[k - 1], s[k]) ELSE f[k - 1] BY <2>1, <1>4
    <2>5. all[k] = s[k] /\ (k \in v <=> k \in w) BY <2>1, <1>3, <1>9
    <2>6. g[k] = f[k] BY <2>1, <2>2, <2>3, <2>4, <2>5
    <2> QED BY <2>1, <2>6 DEF k
  <1> HIDE DEF T
  <1>12. 0 .. m \subseteq T BY <1>3, <1>10, <1>11, IntervalInduction
  <1>13. m \in 0 .. m /\ m + 1 \in 1 .. m + 1 /\ (m + 1) - 1 = m BY <1>3
  <1>14. g[m] = f[m] BY <1>12, <1>13 DEF T
  <1>15. g[m + 1] = IF m + 1 \in v THEN Append(g[m], x) ELSE g[m] BY <1>3, <1>6, <1>13
  <1> QED BY <1>7, <1>8, <1>14, <1>15 DEF m, all

(* What is picked of the first i of a sequence. *)
PickedTo(s, w, i) == Picked(SubSeq(s, 1, i), w)

LEMMA FirstParts ==
  ASSUME NEW S, NEW s \in Seq(S)
  PROVE  /\ Len(s) \in Nat
         /\ SubSeq(s, 1, 0) = <<>> /\ SubSeq(s, 1, Len(s)) = s
         /\ \A i \in 0 .. Len(s) : /\ SubSeq(s, 1, i) \in Seq(S) /\ Len(SubSeq(s, 1, i)) = i
                                   /\ \A k \in 1 .. i : SubSeq(s, 1, i)[k] = s[k]
         /\ \A i \in 0 .. Len(s) - 1 : SubSeq(s, 1, i + 1) = Append(SubSeq(s, 1, i), s[i + 1])
  <1>1. Len(s) \in Nat /\ \A k \in 1 .. Len(s) : s[k] \in S BY LenProperties, ElementOfSeq
  <1>2. SubSeq(s, 1, 0) = <<>> OBVIOUS
  <1>3. SubSeq(s, 1, Len(s)) = s BY SubSeqFull
  <1>4. ASSUME NEW i \in 0 .. Len(s)
        PROVE  /\ SubSeq(s, 1, i) \in Seq(S) /\ Len(SubSeq(s, 1, i)) = i
               /\ \A k \in 1 .. i : SubSeq(s, 1, i)[k] = s[k]
    BY <1>1
  <1>5. ASSUME NEW i \in 0 .. Len(s) - 1
        PROVE  SubSeq(s, 1, i + 1) = Append(SubSeq(s, 1, i), s[i + 1])
    BY <1>1
  <1> QED BY <1>1, <1>2, <1>3, <1>4, <1>5

Grows(S, s, w) ==
    /\ PickedTo(s, w, 0) = <<>>
    /\ \A i \in 0 .. Len(s) : PickedTo(s, w, i) \in Seq(S)
    /\ \A i \in 0 .. Len(s) - 1 :
           PickedTo(s, w, i + 1) = IF i + 1 \in w THEN Append(PickedTo(s, w, i), s[i + 1])
                                   ELSE PickedTo(s, w, i)

LEMMA PickedNext == ASSUME NEW S, NEW s \in Seq(S), NEW w PROVE Grows(S, s, w)
  <1>1. Len(s) \in Nat /\ \A i \in 1 .. Len(s) : s[i] \in S BY LenProperties, ElementOfSeq
  <1>2. \A i \in 0 .. Len(s) : SubSeq(s, 1, i) \in Seq(S) /\ Len(SubSeq(s, 1, i)) = i BY FirstParts
  <1>3. PickedTo(s, w, 0) = <<>>
    <2> DEFINE e == SubSeq(s, 1, 0)
    <2>1. e \in Seq(S) /\ Len(e) = 0 BY <1>1, <1>2
    <2>2. PICK f : Picks(S, e, w, f) BY <2>1, PicksExist
    <2>3. Picked(e, w) = f[0] BY <2>1, <2>2, PickedIs
    <2>4. f[0] = <<>> BY <2>2 DEF Picks
    <2> QED BY <2>3, <2>4 DEF PickedTo
  <1>4. ASSUME NEW i \in 0 .. Len(s) PROVE PickedTo(s, w, i) \in Seq(S)
    <2> DEFINE e == SubSeq(s, 1, i)
    <2>1. e \in Seq(S) BY <1>2
    <2> HIDE DEF e
    <2>2. PICK f : Picks(S, e, w, f) BY <2>1, PicksExist
    <2>3. Picked(e, w) \in Seq(S) BY <2>1, <2>2, PickedIs
    <2> QED BY <2>3 DEF PickedTo, e
  <1>5. ASSUME NEW i \in 0 .. Len(s) - 1
        PROVE  PickedTo(s, w, i + 1) = IF i + 1 \in w THEN Append(PickedTo(s, w, i), s[i + 1])
                                       ELSE PickedTo(s, w, i)
    <2> DEFINE e == SubSeq(s, 1, i)
               x == s[i + 1]
    <2>1. e \in Seq(S) /\ Len(e) = i /\ x \in S BY <1>1, <1>2
    <2>2. SubSeq(s, 1, i + 1) = Append(e, x) BY FirstParts
    <2> HIDE DEF e, x
    <2>3. Picked(Append(e, x), w) = IF i + 1 \in w THEN Append(Picked(e, w), x) ELSE Picked(e, w)
      BY <2>1, PickedAppend
    <2> QED BY <2>2, <2>3 DEF PickedTo, e, x
  <1> QED BY <1>3, <1>4, <1>5 DEF Grows

LEMMA PickedGrows ==
  ASSUME NEW S, NEW s \in Seq(S), NEW w, NEW i \in 0 .. Len(s)
  PROVE  \A j \in i .. Len(s) : /\ Len(PickedTo(s, w, i)) <= Len(PickedTo(s, w, j))
                                /\ \A k \in 1 .. Len(PickedTo(s, w, i)) :
                                       PickedTo(s, w, j)[k] = PickedTo(s, w, i)[k]
  <1> DEFINE P(j) == PickedTo(s, w, j)
             m == Len(s) - i
             T == {d \in 0 .. m : /\ Len(P(i)) <= Len(P(i + d))
                                  /\ \A k \in 1 .. Len(P(i)) : P(i + d)[k] = P(i)[k]}
  <1>1. Len(s) \in Nat /\ m \in Nat BY LenProperties
  <1>g. Grows(S, s, w) BY PickedNext
  <1>2. \A j \in 0 .. Len(s) : P(j) \in Seq(S) /\ Len(P(j)) \in Nat BY <1>g, LenProperties DEF Grows
  <1>3. \A j \in 0 .. Len(s) - 1 : P(j + 1) = IF j + 1 \in w THEN Append(P(j), s[j + 1]) ELSE P(j)
    BY <1>g DEF Grows
  <1> HIDE DEF P
  <1>4. 0 \in T
    <2>1. i + 0 = i BY <1>1
    <2> QED BY <2>1, <1>1, <1>2
  <1>5. ASSUME NEW d \in 0 .. m - 1, d \in T PROVE d + 1 \in T
    <2> DEFINE j == i + d
    <2>1. j \in 0 .. Len(s) - 1 /\ j \in 0 .. Len(s) /\ i + (d + 1) = j + 1 /\ d + 1 \in 0 .. m
      BY <1>1
    <2>2. Len(P(i)) <= Len(P(j)) /\ \A k \in 1 .. Len(P(i)) : P(j)[k] = P(i)[k] BY <1>5
    <2> HIDE DEF j
    <2>3. P(j) \in Seq(S) /\ Len(P(j)) \in Nat /\ Len(P(i)) \in Nat BY <2>1, <1>2
    <2>4. s[j + 1] \in S
      <3>1. j + 1 \in 1 .. Len(s) BY <2>1, <1>1
      <3> QED BY <3>1, ElementOfSeq
    <2>5. CASE j + 1 \in w
      <3> DEFINE x == s[j + 1]
                 q == P(j)
      <3>1. P(j + 1) = Append(q, x) BY <2>1, <2>5, <1>3
      <3>2. q \in Seq(S) /\ x \in S /\ Len(q) \in Nat BY <2>3, <2>4
      <3> HIDE DEF x, q
      <3>3. Len(Append(q, x)) = Len(q) + 1 /\ \A k \in 1 .. Len(q) : Append(q, x)[k] = q[k]
        BY <3>2, AppendProperties
      <3>4. Len(P(i)) <= Len(q) /\ \A k \in 1 .. Len(P(i)) : q[k] = P(i)[k] BY <2>2 DEF q
      <3>5. Len(P(i)) <= Len(P(j + 1)) BY <3>1, <3>2, <3>3, <3>4, <2>3
      <3>6. \A k \in 1 .. Len(P(i)) : P(j + 1)[k] = P(i)[k]
        <4> SUFFICES ASSUME NEW k \in 1 .. Len(P(i)) PROVE P(j + 1)[k] = P(i)[k] OBVIOUS
        <4>1. k \in 1 .. Len(q) BY <2>3, <3>2, <3>4
        <4> QED BY <4>1, <3>1, <3>3, <3>4
      <3> QED BY <2>1, <3>5, <3>6
    <2>6. CASE j + 1 \notin w
      <3>1. P(j + 1) = P(j) BY <2>1, <2>6, <1>3
      <3> QED BY <2>1, <2>2, <3>1
    <2> QED BY <2>5, <2>6
  <1> HIDE DEF T
  <1>6. 0 .. m \subseteq T BY <1>1, <1>4, <1>5, IntervalInduction
  <1> SUFFICES ASSUME NEW j \in i .. Len(s)
               PROVE  Len(P(i)) <= Len(P(j)) /\ \A k \in 1 .. Len(P(i)) : P(j)[k] = P(i)[k]
    BY DEF P
  <1>7. j - i \in 0 .. m /\ i + (j - i) = j BY <1>1
  <1>8. j - i \in T BY <1>6, <1>7
  <1> QED BY <1>7, <1>8 DEF T

NoneAfter(i, m, w) == \A j \in i + 1 .. m : j \notin w

LEMMA PickedRest ==
  ASSUME NEW S, NEW s \in Seq(S), NEW w, NEW i \in 0 .. Len(s)
  PROVE  NoneAfter(i, Len(s), w) => Picked(s, w) = PickedTo(s, w, i)
  <1> DEFINE P(j) == PickedTo(s, w, j)
             m == Len(s) - i
             T == {d \in 0 .. m : P(i + d) = P(i)}
  <1>1. Len(s) \in Nat /\ m \in Nat BY LenProperties
  <1>g. Grows(S, s, w) BY PickedNext
  <1>2. \A j \in 0 .. Len(s) - 1 : P(j + 1) = IF j + 1 \in w THEN Append(P(j), s[j + 1]) ELSE P(j)
    BY <1>g DEF Grows
  <1> HAVE NoneAfter(i, Len(s), w)
  <1>3. Picked(s, w) = P(Len(s)) BY FirstParts DEF PickedTo
  <1> HIDE DEF P
  <1>4. 0 \in T
    <2>1. i + 0 = i BY <1>1
    <2> QED BY <2>1, <1>1
  <1>5. ASSUME NEW d \in 0 .. m - 1, d \in T PROVE d + 1 \in T
    <2> DEFINE j == i + d
    <2>1. j \in 0 .. Len(s) - 1 /\ i + (d + 1) = j + 1 /\ d + 1 \in 0 .. m /\ j + 1 \in i + 1 .. Len(s)
      BY <1>1
    <2>2. P(j) = P(i) BY <1>5
    <2> HIDE DEF j
    <2>3. P(j + 1) = P(j) BY <2>1, <1>2 DEF NoneAfter
    <2> QED BY <2>1, <2>2, <2>3
  <1> HIDE DEF T
  <1>6. 0 .. m \subseteq T BY <1>1, <1>4, <1>5, IntervalInduction
  <1>7. m \in 0 .. m /\ i + m = Len(s) BY <1>1
  <1>8. m \in T BY <1>6, <1>7
  <1>9. P(i + m) = P(i) BY <1>8 DEF T
  <1> QED BY <1>3, <1>7, <1>9 DEF P

--------------------------------------------------------------------------------
(* Chunks in memory. *)
Chunks == [data : Seq(Entries), sort : {Unordered, SortedByName},
           name_hash : {"Sha256"}, data_hash : {"Sha256"}]

ChunkInv == /\ chunk \in Chunks
            /\ checked \in BOOLEAN
            /\ checked => (chunk.sort = SortedByName <=> verify_sorted(chunk.data))

LEMMA Ascending ==
  ASSUME NEW s \in Seq(Nat)
  PROVE  verify_sorted(s) <=> \A i, j \in DOMAIN s : i < j => s[i] <= s[j]
  <1>1. Len(s) \in Nat /\ DOMAIN s = 1 .. Len(s) /\ \A i \in 1 .. Len(s) : s[i] \in Nat
    BY LenProperties, ElementOfSeq
  <1>2. ASSUME verify_sorted(s), NEW i \in 1 .. Len(s), NEW j \in 1 .. Len(s), i < j
        PROVE  s[i] <= s[j]
    <2> DEFINE m == Len(s) - i
               T == {d \in 0 .. m : s[i] <= s[i + d]}
    <2>1. m \in Nat BY <1>1
    <2>2. 0 \in T
      <3>1. i + 0 = i /\ s[i] \in Nat BY <1>1
      <3> QED BY <3>1, <2>1
    <2>3. ASSUME NEW d \in 0 .. m - 1, d \in T PROVE d + 1 \in T
      <3> DEFINE k == i + d
      <3>1. k \in 1 .. Len(s) - 1 /\ k \in 1 .. Len(s) /\ k + 1 \in 1 .. Len(s) /\ i + (d + 1) = k + 1
            /\ d + 1 \in 0 .. m
        BY <1>1
      <3>2. s[i] <= s[k] BY <2>3
      <3> HIDE DEF k
      <3>3. s[k] <= s[k + 1] BY <3>1, <1>2 DEF verify_sorted
      <3>4. s[i] \in Nat /\ s[k] \in Nat /\ s[k + 1] \in Nat BY <3>1, <1>1
      <3> DEFINE x == s[i]
                 y == s[k]
                 z == s[k + 1]
      <3>5. x <= y /\ y <= z /\ x \in Nat /\ y \in Nat /\ z \in Nat BY <3>2, <3>3, <3>4
      <3> HIDE DEF x, y, z
      <3>6. x <= z BY <3>5
      <3>7. s[i] <= s[k + 1] BY <3>6 DEF x, z
      <3> QED BY <3>1, <3>7
    <2> HIDE DEF T
    <2>4. 0 .. m \subseteq T BY <2>1, <2>2, <2>3, IntervalInduction
    <2>5. j - i \in 0 .. m /\ i + (j - i) = j BY <1>1, <1>2
    <2>6. j - i \in T BY <2>4, <2>5
    <2> QED BY <2>5, <2>6 DEF T
  <1>3. ASSUME \A i, j \in 1 .. Len(s) : i < j => s[i] <= s[j] PROVE verify_sorted(s)
    <2> SUFFICES ASSUME NEW i \in 1 .. Len(s) - 1 PROVE s[i] <= s[i + 1] BY DEF verify_sorted
    <2>1. i \in 1 .. Len(s) /\ i + 1 \in 1 .. Len(s) /\ i < i + 1 BY <1>1
    <2> QED BY <2>1, <1>3
  <1> QED BY <1>1, <1>2, <1>3

LEMMA RunsAreSeqs == ASSUME NEW data \in Runs PROVE data \in Seq(Entries)
  <1>1. PICK m \in 0 .. MaxEntries : data \in [1 .. m -> Entries] BY DEF Runs, BoundedSeq, SeqOf
  <1>2. m \in Nat BY <1>1, SumFileAssumption
  <1> QED BY <1>1, <1>2

LEMMA ChunkStarts == ASSUME SumFileInit PROVE ChunkInv
  <1>1. <<>> \in Seq(Entries) OBVIOUS
  <1>2. chunk = NewSha256(<<>>, FALSE) /\ checked = FALSE BY DEF SumFileInit, NoChunk
  <1>3. chunk \in Chunks BY <1>1, <1>2 DEF NewSha256, Chunks
  <1> QED BY <1>2, <1>3 DEF ChunkInv

LEMMA ChunkPrepared ==
  ASSUME ChunkInv, new_sha256 \/ sort \/ verify_update_sorted
  PROVE  ChunkInv'
  <1>1. /\ chunk \in Chunks /\ chunk.data \in Seq(Entries) /\ chunk.name_hash = "Sha256"
        /\ chunk.data_hash = "Sha256"
    BY DEF ChunkInv, Chunks
  <1>2. CASE new_sha256
    <2>1. PICK data \in Runs : chunk' = NewSha256(data, TRUE) BY <1>2 DEF new_sha256, NewSha256
    <2>2. data \in Seq(Entries) BY RunsAreSeqs
    <2>3. checked' = FALSE BY <1>2 DEF new_sha256
    <2>4. chunk' \in Chunks BY <2>1, <2>2 DEF NewSha256, Chunks
    <2> QED BY <2>3, <2>4 DEF ChunkInv
  <1>3. CASE sort
    <2>1. PICK to \in Bijection(DOMAIN chunk.data, DOMAIN chunk.data) :
              LET data == [i \in DOMAIN chunk.data |-> chunk.data[to[i]]]
              IN  /\ verify_sorted(data)
                  /\ chunk' = [chunk EXCEPT !.data = data, !.sort = SortedByName]
                  /\ checked' = TRUE
      BY <1>3 DEF sort
    <2> DEFINE data == [i \in DOMAIN chunk.data |-> chunk.data[to[i]]]
    <2>2. to \in [DOMAIN chunk.data -> DOMAIN chunk.data] BY DEF Bijection, Injection
    <2>3. data \in Seq(Entries)
      <3>1. DOMAIN chunk.data = 1 .. Len(chunk.data) /\ Len(chunk.data) \in Nat
            /\ \A i \in 1 .. Len(chunk.data) : chunk.data[i] \in Entries
        BY <1>1, LenProperties, ElementOfSeq
      <3>2. data \in [1 .. Len(chunk.data) -> Entries] BY <2>2, <3>1
      <3> HIDE DEF data
      <3> QED BY <3>1, <3>2
    <2>4. /\ verify_sorted(data) /\ chunk' = [chunk EXCEPT !.data = data, !.sort = SortedByName]
          /\ checked' = TRUE
      BY <2>1
    <2> HIDE DEF data
    <2>5. chunk' \in Chunks /\ chunk'.sort = SortedByName /\ chunk'.data = data
      BY <2>3, <2>4, <1>1 DEF Chunks
    <2> QED BY <2>4, <2>5 DEF ChunkInv
  <1>4. CASE verify_update_sorted
    <2>1. chunk' = [chunk EXCEPT !.sort = IF verify_sorted(chunk.data) THEN SortedByName ELSE Unordered]
      BY <1>4 DEF verify_update_sorted
    <2>2. checked' = TRUE BY <1>4 DEF verify_update_sorted
    <2>3. chunk' \in Chunks /\ chunk'.data = chunk.data BY <2>1, <1>1 DEF Chunks
    <2>4. chunk'.sort = SortedByName <=> verify_sorted(chunk.data)
      BY <2>1, <1>1 DEF Chunks, SortedByName, Unordered
    <2> QED BY <2>2, <2>3, <2>4 DEF ChunkInv
  <1> QED BY <1>2, <1>3, <1>4

LEMMA ChunkGivesFlag == ASSUME ChunkInv PROVE SortFlagChecked
  <1>1. chunk.data \in Seq(Entries) BY DEF ChunkInv, Chunks
  <1>2. chunk.data \in Seq(Nat)
    <2>1. /\ Len(chunk.data) \in Nat /\ \A i \in 1 .. Len(chunk.data) : chunk.data[i] \in Entries
          /\ chunk.data = [i \in 1 .. Len(chunk.data) |-> chunk.data[i]]
      BY <1>1, LenProperties, ElementOfSeq
    <2>2. \A i \in 1 .. Len(chunk.data) : chunk.data[i] \in Nat BY <2>1, SumFileAssumption
    <2>3. chunk.data \in [1 .. Len(chunk.data) -> Nat] BY <2>1, <2>2
    <2> QED BY <2>1, <2>3
  <1> QED BY <1>2, Ascending DEF SortFlagChecked, ChunkInv

--------------------------------------------------------------------------------
(* Files: blocks one behind the other, from EndOfBlock(0) on. *)
EntryCell == {Cell("entry", e) : e \in Entries}
HashHeaders == [kind : {"Hashes"}, size : Nat, flags : 0 .. 3,
                name : {"Sha2_256", "Sha256__"}, data : {"Sha2_256", "BLAKE3__", "Md5_____"}]
OtherHeaders == {Cell(kind, n) : kind \in {"Names", "other"}, n \in Nat}
MainHeaders == {Cell("main", lead) : lead \in {"known", "unknown"}}
AnyCell == EntryCell \union HashHeaders \union OtherHeaders \union MainHeaders

FileBlocks == {b \in [header : HashHeaders \union OtherHeaders, body : Seq(EntryCell)] :
                  b.header.kind = "Hashes" => b.header.size = Len(b.body)}

Layouts == [by : {"nobody", "write", "write_vec_bytes", "others"},
            lead : {"none", "known", "unknown"}, blocks : Seq(FileBlocks)]

LEMMA SeqOfMore ==
  ASSUME NEW S, NEW T, S \subseteq T, NEW s \in Seq(S)
  PROVE  s \in Seq(T)
  <1>1. /\ Len(s) \in Nat /\ \A i \in 1 .. Len(s) : s[i] \in S
        /\ s = [i \in 1 .. Len(s) |-> s[i]]
    BY LenProperties, ElementOfSeq
  <1>2. s \in [1 .. Len(s) -> T] BY <1>1
  <1> QED BY <1>1, <1>2

LEMMA BlockCellsAre ==
  ASSUME NEW b \in FileBlocks
  PROVE  /\ b.header \in AnyCell /\ b.body \in Seq(EntryCell) /\ Len(b.body) \in Nat
         /\ BlockCells(b) \in Seq(AnyCell) /\ Len(BlockCells(b)) = 1 + Len(b.body)
         /\ BlockCells(b)[1] = b.header
         /\ \A k \in 1 .. Len(b.body) : BlockCells(b)[1 + k] = b.body[k]
  <1>1. b.header \in HashHeaders \union OtherHeaders /\ b.body \in Seq(EntryCell) BY DEF FileBlocks
  <1> DEFINE h == <<b.header>>
             c == b.body
  <1>2. h \in Seq(AnyCell) /\ Len(h) = 1 /\ h[1] = b.header BY <1>1 DEF AnyCell
  <1>3. c \in Seq(AnyCell)
    <2>1. EntryCell \subseteq AnyCell BY DEF AnyCell
    <2> QED BY <1>1, <2>1, SeqOfMore
  <1>4. Len(c) \in Nat BY <1>3, LenProperties
  <1>5. BlockCells(b) = h \o c BY DEF BlockCells
  <1> HIDE DEF h, c
  <1>6. /\ h \o c \in Seq(AnyCell) /\ Len(h \o c) = Len(h) + Len(c)
        /\ \A i \in 1 .. Len(h) + Len(c) : (h \o c)[i] = IF i <= Len(h) THEN h[i] ELSE c[i - Len(h)]
    BY <1>2, <1>3, ConcatProperties
  <1>7. 1 \in 1 .. Len(h) + Len(c) /\ 1 <= Len(h) BY <1>2, <1>4
  <1>8. (h \o c)[1] = b.header BY <1>2, <1>6, <1>7
  <1>9. ASSUME NEW k \in 1 .. Len(c) PROVE (h \o c)[1 + k] = c[k]
    <2>1. 1 + k \in 1 .. Len(h) + Len(c) /\ ~(1 + k <= Len(h)) /\ (1 + k) - Len(h) = k BY <1>2, <1>4
    <2> QED BY <2>1, <1>6
  <1>10. b.header \in AnyCell BY <1>1 DEF AnyCell
  <1>11. Len(h \o c) = 1 + Len(c) BY <1>2, <1>6
  <1> QED BY <1>1, <1>4, <1>5, <1>6, <1>8, <1>9, <1>10, <1>11 DEF c

LEMMA LeadType ==
  ASSUME NEW lead \in {"none", "known", "unknown"}
  PROVE  Lead(lead) \in Seq(AnyCell)
  <1>1. CASE lead = "none" BY <1>1 DEF Lead
  <1>2. CASE lead # "none"
    <2>1. Cell("main", lead) \in AnyCell BY <1>2 DEF AnyCell, MainHeaders
    <2> QED BY <1>2, <2>1 DEF Lead
  <1> QED BY <1>1, <1>2

(* The cells of each of some blocks. *)
CellsOf(s) == [k \in DOMAIN s |-> BlockCells(s[k])]

LEMMA CellsOfType ==
  ASSUME NEW s \in Seq(FileBlocks)
  PROVE  CellsOf(s) \in Seq(Seq(AnyCell)) /\ Len(CellsOf(s)) = Len(s)
  <1>1. Len(s) \in Nat /\ DOMAIN s = 1 .. Len(s) /\ \A k \in 1 .. Len(s) : s[k] \in FileBlocks
    BY LenProperties, ElementOfSeq
  <1>2. \A k \in 1 .. Len(s) : BlockCells(s[k]) \in Seq(AnyCell) BY <1>1, BlockCellsAre
  <1>3. CellsOf(s) \in [1 .. Len(s) -> Seq(AnyCell)] BY <1>1, <1>2 DEF CellsOf
  <1> QED BY <1>1, <1>3

LEMMA CellsType ==
  ASSUME NEW l \in Layouts
  PROVE  Cells(l) \in Seq(AnyCell)
  <1>1. l.blocks \in Seq(FileBlocks) /\ l.lead \in {"none", "known", "unknown"} BY DEF Layouts
  <1> DEFINE lead == Lead(l.lead)
             made == CellsOf(l.blocks)
             flat == FlattenSeq(made)
  <1>2. lead \in Seq(AnyCell) BY <1>1, LeadType
  <1>3. made \in Seq(Seq(AnyCell)) BY <1>1, CellsOfType
  <1>4. Cells(l) = lead \o flat BY DEF Cells, CellsOf
  <1> HIDE DEF lead, made
  <1>5. flat \in Seq(AnyCell)
    <2>1. <<>> \in Seq(AnyCell) OBVIOUS
    <2> QED BY <1>3, <2>1, FlattenAppend
  <1> HIDE DEF flat
  <1> QED BY <1>2, <1>4, <1>5, ConcatProperties

(* The cells of the first i blocks, with what comes before them. *)
CellsTo(i) == Cells([layout EXCEPT !.blocks = SubSeq(@, 1, i)])

LEMMA CellsGrow ==
  ASSUME layout \in Layouts
  PROVE  /\ Len(layout.blocks) \in Nat
         /\ CellsTo(0) = Lead(layout.lead)
         /\ CellsTo(Len(layout.blocks)) = Cells(layout)
         /\ \A i \in 0 .. Len(layout.blocks) : CellsTo(i) \in Seq(AnyCell)
         /\ \A i \in 0 .. Len(layout.blocks) - 1 :
                CellsTo(i + 1) = CellsTo(i) \o BlockCells(layout.blocks[i + 1])
  <1> DEFINE bs == layout.blocks
             lead == Lead(layout.lead)
             made(s) == [k \in DOMAIN s |-> BlockCells(s[k])]
  <1>1. bs \in Seq(FileBlocks) /\ layout.lead \in {"none", "known", "unknown"} BY DEF Layouts
  <1>2. /\ Len(bs) \in Nat /\ SubSeq(bs, 1, Len(bs)) = bs /\ SubSeq(bs, 1, 0) = <<>>
        /\ \A i \in 0 .. Len(bs) : SubSeq(bs, 1, i) \in Seq(FileBlocks)
        /\ \A i \in 0 .. Len(bs) - 1 : SubSeq(bs, 1, i + 1) = Append(SubSeq(bs, 1, i), bs[i + 1])
    BY <1>1, FirstParts
  <1>3. lead \in Seq(AnyCell) BY <1>1, LeadType
  <1>4. \A i : CellsTo(i) = lead \o FlattenSeq(made(SubSeq(bs, 1, i)))
    BY DEF CellsTo, Cells, Layouts
  <1>5. Cells(layout) = lead \o FlattenSeq(made(bs)) BY DEF Cells
  <1>6. ASSUME NEW s \in Seq(FileBlocks)
        PROVE  made(s) \in Seq(Seq(AnyCell)) /\ Len(made(s)) = Len(s)
    BY CellsOfType DEF CellsOf
  <1>7. ASSUME NEW s \in Seq(FileBlocks), NEW b \in FileBlocks
        PROVE  made(Append(s, b)) = Append(made(s), BlockCells(b))
    <2> DEFINE t == Append(s, b)
               m == Len(s)
    <2>1. /\ t \in Seq(FileBlocks) /\ Len(t) = m + 1 /\ t[m + 1] = b
          /\ \A k \in 1 .. m : t[k] = s[k]
          /\ m \in Nat /\ DOMAIN s = 1 .. m /\ DOMAIN t = 1 .. m + 1
      BY AppendProperties, LenProperties
    <2> HIDE DEF t, m
    <2>2. made(s) \in Seq(Seq(AnyCell)) /\ Len(made(s)) = m BY <1>6 DEF m
    <2>3. BlockCells(b) \in Seq(AnyCell) BY BlockCellsAre
    <2> DEFINE u == made(s)
               v == made(t)
               c == BlockCells(b)
    <2>4. /\ Append(u, c) \in Seq(Seq(AnyCell)) /\ Len(Append(u, c)) = m + 1
          /\ Append(u, c)[m + 1] = c /\ \A k \in 1 .. m : Append(u, c)[k] = u[k]
      BY <2>2, <2>3, AppendProperties
    <2>5. \A k \in 1 .. m : u[k] = BlockCells(s[k]) BY <2>1
    <2>6. v = [k \in 1 .. m + 1 |-> BlockCells(t[k])] BY <2>1
    <2> HIDE DEF u, v
    <2>7. Append(u, c) = [k \in 1 .. m + 1 |-> Append(u, c)[k]] BY <2>1, <2>4, LenProperties
    <2>8. ASSUME NEW k \in 1 .. m + 1 PROVE Append(u, c)[k] = BlockCells(t[k])
      <3>1. CASE k = m + 1 BY <3>1, <2>1, <2>4
      <3>2. CASE k # m + 1
        <4>1. k \in 1 .. m BY <3>2, <2>1
        <4> QED BY <4>1, <2>1, <2>4, <2>5
      <3> QED BY <3>1, <3>2
    <2>9. Append(u, c) = v BY <2>6, <2>7, <2>8
    <2> QED BY <2>9 DEF u, v, t
  <1> HIDE DEF made
  <1>8. FlattenSeq(made(<<>>)) = <<>>
    <2>0. <<>> \in Seq(FileBlocks) /\ Len(<<>>) = 0 OBVIOUS
    <2>1. Len(made(<<>>)) = 0 /\ made(<<>>) \in Seq(Seq(AnyCell)) BY <2>0, <1>6, Zenon
    <2>2. made(<<>>) = <<>> BY <2>1, EmptySeq
    <2> QED BY <2>1, <2>2 DEF FlattenSeq
  <1>9. CellsTo(0) = lead BY <1>2, <1>3, <1>4, <1>8, ConcatEmptySeq
  <1>10. CellsTo(Len(bs)) = Cells(layout) BY <1>2, <1>4, <1>5
  <1>11. ASSUME NEW s \in Seq(FileBlocks) PROVE FlattenSeq(made(s)) \in Seq(AnyCell)
    <2>1. <<>> \in Seq(AnyCell) OBVIOUS
    <2> QED BY <1>6, <2>1, FlattenAppend
  <1>12. ASSUME NEW i \in 0 .. Len(bs) PROVE CellsTo(i) \in Seq(AnyCell)
    <2> DEFINE f == FlattenSeq(made(SubSeq(bs, 1, i)))
    <2>1. f \in Seq(AnyCell) BY <1>2, <1>11
    <2>2. CellsTo(i) = lead \o f BY <1>4
    <2> HIDE DEF f, lead
    <2> QED BY <2>1, <2>2, <1>3, ConcatProperties
  <1>13. ASSUME NEW i \in 0 .. Len(bs) - 1
         PROVE  CellsTo(i + 1) = CellsTo(i) \o BlockCells(bs[i + 1])
    <2> DEFINE s == SubSeq(bs, 1, i)
               b == bs[i + 1]
    <2>1. i \in 0 .. Len(bs) /\ i + 1 \in 1 .. Len(bs) BY <1>2
    <2>2. s \in Seq(FileBlocks) /\ b \in FileBlocks BY <2>1, <1>1, <1>2, ElementOfSeq
    <2>3. SubSeq(bs, 1, i + 1) = Append(s, b) BY <1>2
    <2>4. CellsTo(i + 1) = lead \o FlattenSeq(made(Append(s, b))) /\ CellsTo(i) = lead \o FlattenSeq(made(s))
      BY <2>3, <1>4
    <2> HIDE DEF s, b
    <2>5. made(Append(s, b)) = Append(made(s), BlockCells(b)) BY <2>2, <1>7
    <2>6. made(s) \in Seq(Seq(AnyCell)) /\ BlockCells(b) \in Seq(AnyCell) BY <2>2, <1>6, BlockCellsAre
    <2> DEFINE u == made(s)
               c == BlockCells(b)
    <2>7. u \in Seq(Seq(AnyCell)) /\ c \in Seq(AnyCell) BY <2>6
    <2> HIDE DEF u, c, lead
    <2>8. FlattenSeq(Append(u, c)) = FlattenSeq(u) \o c /\ FlattenSeq(u) \in Seq(AnyCell)
      BY <2>7, FlattenAppend
    <2>9. (lead \o FlattenSeq(u)) \o c = lead \o (FlattenSeq(u) \o c)
      <3> DEFINE f == FlattenSeq(u)
      <3>1. lead \in Seq(AnyCell) /\ f \in Seq(AnyCell) /\ c \in Seq(AnyCell) BY <2>7, <2>8, <1>3
      <3> HIDE DEF f
      <3>2. (lead \o f) \o c = lead \o (f \o c) BY SMTT(30), <3>1, ConcatAssociative
      <3> QED BY <3>2 DEF f
    <2> QED BY <2>4, <2>5, <2>8, <2>9 DEF u, c, b
  <1> QED BY <1>2, <1>9, <1>10, <1>12, <1>13

(* Where a file's cells are: the lead, then header and body of each block. *)
CellsLaidOut ==
    /\ Len(layout.blocks) \in Nat /\ Cells(layout) \in Seq(AnyCell)
    /\ EndOfBlock(Len(layout.blocks)) = Len(Cells(layout))
    /\ \A i \in 0 .. Len(layout.blocks) : EndOfBlock(i) \in Nat /\ EndOfBlock(i) <= Len(Cells(layout))
    /\ \A i \in 1 .. Len(layout.blocks) :
          /\ layout.blocks[i] \in FileBlocks
          /\ EndOfBlock(i) = EndOfBlock(i - 1) + 1 + Len(layout.blocks[i].body)
          /\ Cells(layout)[EndOfBlock(i - 1) + 1] = layout.blocks[i].header
          /\ \A k \in 1 .. Len(layout.blocks[i].body) :
                 Cells(layout)[EndOfBlock(i - 1) + 1 + k] = layout.blocks[i].body[k]
    /\ EndOfBlock(0) = IF layout.lead = "none" THEN 0 ELSE 1
    /\ layout.lead # "none" => Cells(layout)[1] = Cell("main", layout.lead)

LEMMA CellsAre == ASSUME layout \in Layouts PROVE CellsLaidOut
  <1> DEFINE bs == layout.blocks
             n == Len(bs)
             all == Cells(layout)
             to(i) == CellsTo(i)
             T == {d \in 0 .. n : /\ Len(to(n - d)) <= Len(all)
                                  /\ \A c \in 1 .. Len(to(n - d)) : all[c] = to(n - d)[c]}
  <1>1. /\ n \in Nat /\ to(0) = Lead(layout.lead) /\ to(n) = all
        /\ \A i \in 0 .. n : to(i) \in Seq(AnyCell)
        /\ \A i \in 0 .. n - 1 : to(i + 1) = to(i) \o BlockCells(bs[i + 1])
    BY CellsGrow
  <1>2. bs \in Seq(FileBlocks) /\ \A i \in 1 .. n : bs[i] \in FileBlocks
    BY ElementOfSeq DEF Layouts
  <1>3. \A i : EndOfBlock(i) = Len(to(i)) BY DEF EndOfBlock, CellsTo
  <1> HIDE DEF bs, n, to, all
  <1>4. n \in 0 .. n /\ all \in Seq(AnyCell) BY <1>1
  <1>5. \A i \in 0 .. n : Len(to(i)) \in Nat BY <1>1, LenProperties
  <1>6. ASSUME NEW i \in 0 .. n - 1
        PROVE  /\ Len(to(i + 1)) = Len(to(i)) + 1 + Len(bs[i + 1].body)
               /\ \A c \in 1 .. Len(to(i)) : to(i + 1)[c] = to(i)[c]
               /\ to(i + 1)[Len(to(i)) + 1] = bs[i + 1].header
               /\ \A k \in 1 .. Len(bs[i + 1].body) : to(i + 1)[Len(to(i)) + 1 + k] = bs[i + 1].body[k]
               /\ Len(bs[i + 1].body) \in Nat
    <2> DEFINE u == to(i)
               b == bs[i + 1]
               c == BlockCells(b)
               body == b.body
    <2>1. i \in 0 .. n /\ i + 1 \in 1 .. n BY <1>1
    <2>2. u \in Seq(AnyCell) /\ b \in FileBlocks BY <2>1, <1>1, <1>2
    <2>3. to(i + 1) = u \o c BY <1>1
    <2> HIDE DEF u, b
    <2>4. /\ c \in Seq(AnyCell) /\ Len(c) = 1 + Len(body) /\ Len(body) \in Nat /\ c[1] = b.header
          /\ \A k \in 1 .. Len(body) : c[1 + k] = body[k]
      BY <2>2, BlockCellsAre
    <2>5. Len(u) \in Nat BY <2>2, LenProperties
    <2> HIDE DEF c
    <2>6. /\ Len(u \o c) = Len(u) + Len(c)
          /\ \A k \in 1 .. Len(u) + Len(c) : (u \o c)[k] = IF k <= Len(u) THEN u[k] ELSE c[k - Len(u)]
      <3>1. u \in Seq(AnyCell) /\ c \in Seq(AnyCell) BY <2>2, <2>4
      <3> QED BY <3>1, ConcatProperties
    <2> HIDE DEF body
    <2>7. Len(u \o c) = Len(u) + 1 + Len(body) BY <2>4, <2>5, <2>6
    <2>8. ASSUME NEW k \in 1 .. Len(u) PROVE (u \o c)[k] = u[k]
      <3>1. k \in 1 .. Len(u) + Len(c) /\ k <= Len(u) BY <2>4, <2>5
      <3> QED BY <3>1, <2>6
    <2>9. ASSUME NEW k \in 1 .. Len(c) PROVE (u \o c)[Len(u) + k] = c[k]
      <3>1. /\ Len(u) + k \in 1 .. Len(u) + Len(c) /\ ~(Len(u) + k <= Len(u))
            /\ (Len(u) + k) - Len(u) = k
        BY <2>4, <2>5
      <3> QED BY <3>1, <2>6
    <2>10. (u \o c)[Len(u) + 1] = b.header
      <3>1. 1 \in 1 .. Len(c) BY <2>4
      <3> QED BY <3>1, <2>4, <2>9
    <2>11. ASSUME NEW k \in 1 .. Len(body) PROVE (u \o c)[Len(u) + 1 + k] = body[k]
      <3>1. 1 + k \in 1 .. Len(c) /\ Len(u) + (1 + k) = Len(u) + 1 + k BY <2>4, <2>5
      <3>2. (u \o c)[Len(u) + (1 + k)] = c[1 + k] BY <3>1, <2>9
      <3> QED BY <3>1, <3>2, <2>4
    <2> QED BY <2>3, <2>4, <2>7, <2>8, <2>10, <2>11 DEF u, b, body
  <1>7. 0 \in T
    <2>1. n - 0 = n /\ 0 \in 0 .. n BY <1>1
    <2> QED BY <2>1, <1>1, <1>5
  <1>8. ASSUME NEW d \in 0 .. n - 1, d \in T PROVE d + 1 \in T
    <2> DEFINE i == n - (d + 1)
    <2>1. i \in 0 .. n - 1 /\ i \in 0 .. n /\ i + 1 \in 0 .. n /\ n - d = i + 1 /\ d + 1 \in 0 .. n
      BY <1>1
    <2>2. Len(to(i + 1)) <= Len(all) /\ \A c \in 1 .. Len(to(i + 1)) : all[c] = to(i + 1)[c]
      BY <2>1, <1>8
    <2> HIDE DEF i
    <2>3. /\ Len(to(i + 1)) = Len(to(i)) + 1 + Len(bs[i + 1].body) /\ Len(bs[i + 1].body) \in Nat
          /\ \A c \in 1 .. Len(to(i)) : to(i + 1)[c] = to(i)[c]
      BY <2>1, <1>6
    <2>4. Len(to(i)) \in Nat /\ Len(to(i + 1)) \in Nat /\ Len(all) \in Nat
      BY <2>1, <1>4, <1>5, LenProperties
    <2>5. Len(to(i)) <= Len(to(i + 1)) /\ Len(to(i)) <= Len(all)
      <3> DEFINE x == Len(to(i))
                 y == Len(to(i + 1))
                 z == Len(bs[i + 1].body)
                 w == Len(all)
      <3>1. y = x + 1 + z /\ x \in Nat /\ z \in Nat /\ y \in Nat /\ w \in Nat /\ y <= w
        BY <2>2, <2>3, <2>4
      <3> HIDE DEF x, y, z, w
      <3>2. x <= y /\ x <= w BY <3>1
      <3> QED BY <3>2 DEF x, y, w
    <2>6. \A c \in 1 .. Len(to(i)) : c \in 1 .. Len(to(i + 1)) BY <2>4, <2>5
    <2>7. \A c \in 1 .. Len(to(i)) : all[c] = to(i)[c] BY <2>2, <2>3, <2>6
    <2>8. n - (d + 1) = i BY DEF i
    <2> QED BY <2>1, <2>5, <2>7, <2>8
  <1> HIDE DEF T
  <1>9. 0 .. n \subseteq T BY <1>1, <1>7, <1>8, IntervalInduction
  <1>10. ASSUME NEW i \in 0 .. n
         PROVE  Len(to(i)) <= Len(all) /\ \A c \in 1 .. Len(to(i)) : all[c] = to(i)[c]
    <2>1. n - i \in 0 .. n /\ n - (n - i) = i BY <1>1
    <2>2. n - i \in T BY <1>9, <2>1
    <2> QED BY <2>1, <2>2 DEF T
  <1>11. ASSUME NEW i \in 1 .. n
         PROVE  /\ Len(to(i)) = Len(to(i - 1)) + 1 + Len(bs[i].body)
                /\ all[Len(to(i - 1)) + 1] = bs[i].header
                /\ \A k \in 1 .. Len(bs[i].body) : all[Len(to(i - 1)) + 1 + k] = bs[i].body[k]
    <2>1. i - 1 \in 0 .. n - 1 /\ (i - 1) + 1 = i /\ i \in 0 .. n /\ i - 1 \in 0 .. n BY <1>1
    <2>2. /\ Len(to(i)) = Len(to(i - 1)) + 1 + Len(bs[i].body)
          /\ to(i)[Len(to(i - 1)) + 1] = bs[i].header
          /\ \A k \in 1 .. Len(bs[i].body) : to(i)[Len(to(i - 1)) + 1 + k] = bs[i].body[k]
          /\ Len(bs[i].body) \in Nat
      <3> DEFINE j == i - 1
      <3>1. j \in 0 .. n - 1 /\ j + 1 = i BY <2>1
      <3> HIDE DEF j
      <3>2. /\ Len(to(j + 1)) = Len(to(j)) + 1 + Len(bs[j + 1].body)
            /\ to(j + 1)[Len(to(j)) + 1] = bs[j + 1].header
            /\ \A k \in 1 .. Len(bs[j + 1].body) : to(j + 1)[Len(to(j)) + 1 + k] = bs[j + 1].body[k]
            /\ Len(bs[j + 1].body) \in Nat
        BY <3>1, <1>6
      <3> QED BY <3>1, <3>2 DEF j
    <2>3. \A c \in 1 .. Len(to(i)) : all[c] = to(i)[c] BY <2>1, <1>10
    <2>4. Len(to(i - 1)) \in Nat BY <2>1, <1>5
    <2> DEFINE x == Len(to(i - 1))
               z == Len(bs[i].body)
               y == Len(to(i))
    <2>5. x \in Nat /\ z \in Nat /\ y = x + 1 + z BY <2>2, <2>4
    <2> HIDE DEF x, y, z
    <2>6. x + 1 \in 1 .. y /\ \A k \in 1 .. z : x + 1 + k \in 1 .. y BY <2>5
    <2>7. all[x + 1] = bs[i].header BY <2>2, <2>3, <2>6 DEF x, y
    <2>8. \A k \in 1 .. z : all[x + 1 + k] = bs[i].body[k] BY <2>2, <2>3, <2>6 DEF x, y, z
    <2> QED BY <2>2, <2>7, <2>8 DEF x, z
  <1>12. Len(to(0)) = IF layout.lead = "none" THEN 0 ELSE 1 BY <1>1 DEF Lead
  <1>13. ASSUME layout.lead # "none" PROVE all[1] = Cell("main", layout.lead)
    <2>1. to(0) = <<Cell("main", layout.lead)>> BY <1>1, <1>13 DEF Lead
    <2>2. 0 \in 0 .. n BY <1>1
    <2>3. \A c \in 1 .. Len(to(0)) : all[c] = to(0)[c] BY <2>2, <1>10
    <2>4. 1 \in 1 .. Len(to(0)) BY <1>12, <1>13
    <2>5. all[1] = to(0)[1] BY <2>3, <2>4
    <2> QED BY <2>1, <2>5
  <1>14. \A i \in 0 .. n : EndOfBlock(i) \in Nat /\ EndOfBlock(i) <= Len(all) BY <1>3, <1>5, <1>10
  <1>15. EndOfBlock(n) = Len(all) BY <1>1, <1>3
  <1>16. ASSUME NEW i \in 1 .. n
         PROVE  /\ bs[i] \in FileBlocks
                /\ EndOfBlock(i) = EndOfBlock(i - 1) + 1 + Len(bs[i].body)
                /\ all[EndOfBlock(i - 1) + 1] = bs[i].header
                /\ \A k \in 1 .. Len(bs[i].body) : all[EndOfBlock(i - 1) + 1 + k] = bs[i].body[k]
    BY <1>2, <1>3, <1>11
  <1>17. EndOfBlock(0) = IF layout.lead = "none" THEN 0 ELSE 1 BY <1>3, <1>12
  <1> QED BY <1>1, <1>4, <1>13, <1>14, <1>15, <1>16, <1>17 DEF CellsLaidOut, bs, n, all

LEMMA EndsAscend ==
  ASSUME CellsLaidOut, NEW i \in 0 .. Len(layout.blocks), NEW j \in i + 1 .. Len(layout.blocks)
  PROVE  EndOfBlock(i) < EndOfBlock(j)
  <1> DEFINE n == Len(layout.blocks)
             m == n - i - 1
             T == {d \in 0 .. m : EndOfBlock(i) < EndOfBlock(i + 1 + d)}
  <1>1. n \in Nat /\ m \in Nat BY DEF CellsLaidOut
  <1>2. \A k \in 0 .. n : EndOfBlock(k) \in Nat BY DEF CellsLaidOut
  <1>3. ASSUME NEW k \in 1 .. n PROVE EndOfBlock(k - 1) < EndOfBlock(k)
    <2>1. layout.blocks[k] \in FileBlocks /\ EndOfBlock(k) = EndOfBlock(k - 1) + 1 + Len(layout.blocks[k].body)
      BY DEF CellsLaidOut
    <2>2. Len(layout.blocks[k].body) \in Nat BY <2>1, BlockCellsAre
    <2>3. EndOfBlock(k - 1) \in Nat
      <3>1. k - 1 \in 0 .. n BY <1>1
      <3> QED BY <3>1, <1>2
    <2> DEFINE z == Len(layout.blocks[k].body)
    <2> HIDE DEF z
    <2>4. EndOfBlock(k) = EndOfBlock(k - 1) + 1 + z /\ z \in Nat BY <2>1, <2>2 DEF z
    <2> QED BY <2>3, <2>4
  <1> HIDE DEF n
  <1>4. 0 \in T
    <2>1. i + 1 \in 1 .. n /\ i + 1 + 0 = i + 1 /\ (i + 1) - 1 = i BY <1>1 DEF n
    <2>2. EndOfBlock(i) < EndOfBlock(i + 1) BY <2>1, <1>3
    <2> QED BY <2>1, <2>2, <1>1
  <1>5. ASSUME NEW d \in 0 .. m - 1, d \in T PROVE d + 1 \in T
    <2> DEFINE k == i + 1 + d
    <2>1. /\ k \in 0 .. n /\ k + 1 \in 1 .. n /\ k + 1 \in 0 .. n /\ (k + 1) - 1 = k
          /\ i + 1 + (d + 1) = k + 1 /\ d + 1 \in 0 .. m /\ i \in 0 .. n
      BY <1>1 DEF n
    <2>2. EndOfBlock(i) < EndOfBlock(k) BY <1>5
    <2> HIDE DEF k
    <2>3. EndOfBlock(k) < EndOfBlock(k + 1) BY <2>1, <1>3
    <2>4. EndOfBlock(i) \in Nat /\ EndOfBlock(k) \in Nat /\ EndOfBlock(k + 1) \in Nat BY <2>1, <1>2
    <2>5. EndOfBlock(i) < EndOfBlock(k + 1) BY <2>2, <2>3, <2>4
    <2> QED BY <2>1, <2>5
  <1> HIDE DEF T
  <1>6. 0 .. m \subseteq T BY <1>1, <1>4, <1>5, IntervalInduction
  <1>7. j - i - 1 \in 0 .. m /\ i + 1 + (j - i - 1) = j BY <1>1 DEF n
  <1>8. j - i - 1 \in T BY <1>6, <1>7
  <1> QED BY <1>7, <1>8 DEF T

--------------------------------------------------------------------------------
(* What is in the file. *)
Beginning(d, cells) == /\ d \in Seq(AnyCell)
                       /\ Len(d) <= Len(cells)
                       /\ \A k \in 1 .. Len(d) : d[k] = cells[k]

FileInv == /\ layout \in Layouts
           /\ layout.by = "nobody" => layout = NoFile
           /\ layout = NoFile => disk = <<>> /\ reader = Nobody /\ got = <<>>
           /\ layout.by = "write" => /\ layout.lead = "none" /\ layout.blocks = <<Block(chunk)>>
                                     /\ Len(chunk.data) > MaxCount => disk = <<>>
           /\ layout.by = "write_vec_bytes" => /\ layout.lead = "none" /\ layout.blocks = <<>>
                                               /\ Beginning(disk, EntryCells(chunk.data))
           /\ layout.by \in {"write", "others"} => Beginning(disk, Cells(layout))

LEMMA NoFileIsLayout == NoFile \in Layouts
  <1>1. <<>> \in Seq(FileBlocks) OBVIOUS
  <1> QED BY <1>1 DEF NoFile, Layouts

LEMMA FileStarts == ASSUME SumFileInit PROVE FileInv
  <1>1. layout = NoFile /\ disk = <<>> /\ reader = Nobody /\ got = <<>> BY DEF SumFileInit
  <1> QED BY <1>1, NoFileIsLayout DEF FileInv, NoFile

LEMMA StoredIs ==
  ASSUME NEW cells \in Seq(AnyCell), Stored(cells)
  PROVE  Beginning(disk', cells)
  <1>1. PICK n \in 0 .. Len(cells) : disk' = SubSeq(cells, 1, n) BY DEF Stored
  <1>2. SubSeq(cells, 1, n) \in Seq(AnyCell) /\ Len(SubSeq(cells, 1, n)) = n
        /\ \A k \in 1 .. n : SubSeq(cells, 1, n)[k] = cells[k]
    BY FirstParts
  <1>3. Len(cells) \in Nat /\ n <= Len(cells) BY LenProperties
  <1> QED BY <1>1, <1>2, <1>3 DEF Beginning

LEMMA EntryCellsAre ==
  ASSUME NEW data \in Seq(Entries)
  PROVE  /\ EntryCells(data) \in Seq(EntryCell) /\ Len(EntryCells(data)) = Len(data) /\ Len(data) \in Nat
         /\ \A k \in 1 .. Len(data) : EntryCells(data)[k] = Cell("entry", data[k])
  <1>1. Len(data) \in Nat /\ DOMAIN data = 1 .. Len(data) /\ \A k \in 1 .. Len(data) : data[k] \in Entries
    BY LenProperties, ElementOfSeq
  <1>2. EntryCells(data) = [k \in 1 .. Len(data) |-> Cell("entry", data[k])] BY <1>1 DEF EntryCells
  <1>3. \A k \in 1 .. Len(data) : Cell("entry", data[k]) \in EntryCell BY <1>1 DEF EntryCell
  <1>4. EntryCells(data) \in [1 .. Len(data) -> EntryCell] BY <1>2, <1>3
  <1> QED BY <1>1, <1>2, <1>4

LEMMA BlockOfChunk ==
  ASSUME NEW c \in Chunks
  PROVE  Block(c) \in FileBlocks
  <1>1. c.data \in Seq(Entries) /\ c.sort \in {0, 1} /\ c.name_hash = "Sha256" /\ c.data_hash = "Sha256"
    BY DEF Chunks, Unordered, SortedByName
  <1>2. EntryCells(c.data) \in Seq(EntryCell) /\ Len(EntryCells(c.data)) = Len(c.data) /\ Len(c.data) \in Nat
    BY <1>1, EntryCellsAre
  <1>3. c.sort % 4 \in 0 .. 3 BY <1>1
  <1>4. to_array(c) = [kind |-> "Hashes", size |-> Len(c.data), flags |-> c.sort % 4,
                       name |-> "Sha2_256", data |-> "Sha2_256"]
    BY <1>1 DEF to_array, get_fingerprint
  <1>5. to_array(c) \in HashHeaders BY <1>2, <1>3, <1>4 DEF HashHeaders
  <1>6. to_array(c).size = Len(c.data) BY <1>4
  <1>7. Block(c).header = to_array(c) /\ Block(c).body = EntryCells(c.data) BY DEF Block
  <1>8. Block(c) \in [header : HashHeaders \union OtherHeaders, body : Seq(EntryCell)]
    BY <1>2, <1>5 DEF Block
  <1> QED BY <1>2, <1>6, <1>7, <1>8 DEF FileBlocks

LEMMA ForeignBlocks == Blocks \subseteq FileBlocks
  <1> SUFFICES ASSUME NEW b \in Blocks PROVE b \in FileBlocks OBVIOUS
  <1>1. PICK data \in Bodies : b \in [header : Headers(Len(data)), body : {EntryCells(data)}]
    BY DEF Blocks
  <1>2. data \in Seq(Entries) BY SumFileAssumption
  <1>3. EntryCells(data) \in Seq(EntryCell) /\ Len(EntryCells(data)) = Len(data) /\ Len(data) \in Nat
    BY <1>2, EntryCellsAre
  <1>4. b.header \in Headers(Len(data)) /\ b.body = EntryCells(data) /\ b = [header |-> b.header, body |-> b.body]
    BY <1>1
  <1>5. \/ b.header \in HashHeaders /\ b.header.size = Len(data)
        \/ b.header \in OtherHeaders /\ b.header.kind # "Hashes"
    BY <1>3, <1>4 DEF Headers, HashHeaders, OtherHeaders, Cell, SortedByData
  <1>6. b \in [header : HashHeaders \union OtherHeaders, body : Seq(EntryCell)] BY <1>3, <1>4, <1>5
  <1> QED BY <1>3, <1>4, <1>5, <1>6 DEF FileBlocks

LEMMA FilePrepared ==
  ASSUME FileInv, Prepare
  PROVE  FileInv'
  <1>1. layout = NoFile /\ layout' = layout /\ disk' = disk /\ reader' = reader /\ got' = got BY DEF Prepare
  <1>2. layout.by = "nobody" BY <1>1 DEF NoFile
  <1>3. layout' \in Layouts /\ layout' = NoFile /\ layout'.by = "nobody"
        /\ disk' = <<>> /\ reader' = Nobody /\ got' = <<>>
    BY <1>1, <1>2 DEF FileInv
  <1> QED BY <1>3 DEF FileInv

LEMMA FileStored ==
  ASSUME ChunkInv, FileInv, Store
  PROVE  FileInv' /\ reader' = Nobody /\ got' = <<>>
  <1>1. /\ layout = NoFile /\ chunk' = chunk /\ checked' = checked /\ reader' = reader /\ got' = got
    BY DEF Store
  <1>2. reader' = Nobody /\ got' = <<>> BY <1>1 DEF FileInv
  <1>3. chunk \in Chunks /\ chunk.data \in Seq(Entries) BY DEF ChunkInv, Chunks
  <1>4. CASE write
    <2>1. layout' = [by |-> "write", lead |-> "none", blocks |-> <<Block(chunk)>>] BY <1>4 DEF write
    <2>2. Block(chunk) \in FileBlocks BY <1>3, BlockOfChunk
    <2>3. <<Block(chunk)>> \in Seq(FileBlocks) BY <2>2
    <2>4. layout' \in Layouts BY <2>1, <2>3 DEF Layouts
    <2>5. Cells(layout') \in Seq(AnyCell) BY <2>4, CellsType
    <2>6. Beginning(disk', Cells(layout')) /\ (Len(chunk.data) > MaxCount => disk' = <<>>)
      <3>1. CASE Len(chunk.data) > MaxCount
        <4>1. disk' = <<>> BY <1>4, <3>1 DEF write
        <4>2. Len(Cells(layout')) \in Nat BY <2>5, LenProperties
        <4> QED BY <4>1, <4>2 DEF Beginning
      <3>2. CASE ~(Len(chunk.data) > MaxCount)
        <4>1. Stored(Cells(layout')) BY <1>4, <3>2 DEF write
        <4>2. PICK n \in 0 .. Len(Cells(layout')) : disk' = SubSeq(Cells(layout'), 1, n) BY <4>1 DEF Stored
        <4> DEFINE cells == Cells(layout')
        <4>3. cells \in Seq(AnyCell) /\ n \in 0 .. Len(cells) /\ disk' = SubSeq(cells, 1, n) BY <2>5, <4>2
        <4> HIDE DEF cells
        <4>4. Beginning(disk', cells)
          <5>1. SubSeq(cells, 1, n) \in Seq(AnyCell) /\ Len(SubSeq(cells, 1, n)) = n
                /\ \A k \in 1 .. n : SubSeq(cells, 1, n)[k] = cells[k]
            BY <4>3, FirstParts
          <5>2. Len(cells) \in Nat /\ n <= Len(cells) BY <4>3, LenProperties
          <5> QED BY <4>3, <5>1, <5>2 DEF Beginning
        <4> QED BY <3>2, <4>4 DEF cells
      <3> QED BY <3>1, <3>2
    <2>7. layout'.by = "write" /\ layout'.lead = "none" /\ layout'.blocks = <<Block(chunk)>> /\ layout' # NoFile
      BY <2>1 DEF NoFile
    <2>8. FileInv' BY <2>4, <2>6, <2>7, <1>1 DEF FileInv
    <2> QED BY <2>8, <1>2
  <1>5. CASE write_vec_bytes
    <2>1. layout' = [by |-> "write_vec_bytes", lead |-> "none", blocks |-> <<>>] BY <1>5 DEF write_vec_bytes
    <2>2. <<>> \in Seq(FileBlocks) OBVIOUS
    <2>3. layout' \in Layouts BY <2>1, <2>2 DEF Layouts
    <2>4. EntryCells(chunk.data) \in Seq(AnyCell)
      <3>1. EntryCells(chunk.data) \in Seq(EntryCell) BY <1>3, EntryCellsAre
      <3>2. EntryCell \subseteq AnyCell BY DEF AnyCell
      <3> QED BY <3>1, <3>2, SeqOfMore
    <2>5. Beginning(disk', EntryCells(chunk.data))
      <3>1. Stored(EntryCells(chunk.data)) BY <1>5 DEF write_vec_bytes
      <3> QED BY <2>4, <3>1, StoredIs
    <2>6. layout'.by = "write_vec_bytes" /\ layout'.lead = "none" /\ layout'.blocks = <<>> /\ layout' # NoFile
      BY <2>1 DEF NoFile
    <2>7. FileInv' BY <2>3, <2>5, <2>6, <1>1 DEF FileInv
    <2> QED BY <2>7, <1>2
  <1>6. CASE ForeignFile
    <2>1. PICK lead \in Leads, blocks \in BoundedSeq(Blocks, MaxBlocks) :
              /\ layout' = [by |-> "others", lead |-> lead, blocks |-> blocks]
              /\ Stored(Cells(layout'))
      BY <1>6 DEF ForeignFile
    <2>2. blocks \in Seq(FileBlocks)
      <3>1. PICK m \in 0 .. MaxBlocks : blocks \in [1 .. m -> Blocks] BY DEF BoundedSeq, SeqOf
      <3>2. m \in Nat BY SumFileAssumption
      <3>3. blocks \in [1 .. m -> FileBlocks] BY <3>1, ForeignBlocks
      <3> QED BY <3>2, <3>3
    <2>3. lead \in {"none", "known", "unknown"} BY SumFileAssumption
    <2>4. layout' \in Layouts BY <2>1, <2>2, <2>3 DEF Layouts
    <2>5. Cells(layout') \in Seq(AnyCell) BY <2>4, CellsType
    <2>6. Beginning(disk', Cells(layout'))
      <3>1. PICK n \in 0 .. Len(Cells(layout')) : disk' = SubSeq(Cells(layout'), 1, n) BY <2>1 DEF Stored
      <3> DEFINE cells == Cells(layout')
      <3>2. cells \in Seq(AnyCell) /\ n \in 0 .. Len(cells) /\ disk' = SubSeq(cells, 1, n) BY <2>5, <3>1
      <3> HIDE DEF cells
      <3>3. SubSeq(cells, 1, n) \in Seq(AnyCell) /\ Len(SubSeq(cells, 1, n)) = n
            /\ \A k \in 1 .. n : SubSeq(cells, 1, n)[k] = cells[k]
        BY <3>2, FirstParts
      <3>4. Len(cells) \in Nat /\ n <= Len(cells) BY <3>2, LenProperties
      <3>5. Beginning(disk', cells) BY <3>2, <3>3, <3>4 DEF Beginning
      <3> QED BY <3>5 DEF cells
    <2>7. layout'.by = "others" /\ layout' # NoFile BY <2>1 DEF NoFile
    <2>8. FileInv' BY <2>4, <2>6, <2>7 DEF FileInv
    <2> QED BY <2>8, <1>2
  <1> QED BY <1>4, <1>5, <1>6 DEF Store

--------------------------------------------------------------------------------
(* What the program itself wrote, and reading it back. *)
Written == [i \in DOMAIN chunk.data |-> EntryRead(Cell("entry", chunk.data[i]))]

EntryReads == {EntryRead(c) : c \in EntryCell}
StreamReads == EntryReads \union {Error, End}

LEMMA StreamReadsDiffer ==
  /\ \A x \in EntryReads : x.is = "entry" /\ x # Error /\ x # End
  /\ Error.is # "entry" /\ End.is # "entry" /\ Error # End
  <1>1. \A x \in EntryReads : x.is = "entry" BY DEF EntryReads, EntryRead
  <1>2. Error.is = "error" /\ End.is = "end" BY DEF Error, End
  <1> QED BY <1>1, <1>2

LEMMA WrittenIs ==
  ASSUME ChunkInv
  PROVE  /\ Written \in Seq(EntryReads) /\ Len(Written) = Len(chunk.data) /\ Len(chunk.data) \in Nat
         /\ \A k \in 1 .. Len(chunk.data) : Written[k] = EntryRead(Cell("entry", chunk.data[k]))
  <1>1. chunk.data \in Seq(Entries) BY DEF ChunkInv, Chunks
  <1>2. /\ Len(chunk.data) \in Nat /\ DOMAIN chunk.data = 1 .. Len(chunk.data)
        /\ \A k \in 1 .. Len(chunk.data) : chunk.data[k] \in Entries
    BY <1>1, LenProperties, ElementOfSeq
  <1>3. Written = [k \in 1 .. Len(chunk.data) |-> EntryRead(Cell("entry", chunk.data[k]))] BY <1>2 DEF Written
  <1>4. \A k \in 1 .. Len(chunk.data) : EntryRead(Cell("entry", chunk.data[k])) \in EntryReads
    BY <1>2 DEF EntryReads, EntryCell
  <1>5. Written \in [1 .. Len(chunk.data) -> EntryReads] BY <1>3, <1>4
  <1> QED BY <1>2, <1>3, <1>5

LEMMA WrittenFile ==
  ASSUME ChunkInv, FileInv, layout.by = "write"
  PROVE  /\ disk \in Seq(AnyCell) /\ Len(disk) \in Nat /\ Len(disk) <= 1 + Len(chunk.data)
         /\ Len(disk) > 0 => disk[1] = to_array(chunk)
         /\ \A k \in 1 .. Len(chunk.data) : 1 + k <= Len(disk) => disk[1 + k] = Cell("entry", chunk.data[k])
         /\ Len(chunk.data) > MaxCount => Len(disk) = 0
  <1> DEFINE n == Len(chunk.data)
             all == Cells(layout)
             b == layout.blocks[1]
  <1>1. /\ layout \in Layouts /\ layout.lead = "none" /\ layout.blocks = <<Block(chunk)>>
        /\ Beginning(disk, all)
        /\ n > MaxCount => disk = <<>>
    BY DEF FileInv
  <1>2. chunk.data \in Seq(Entries) BY DEF ChunkInv, Chunks
  <1>3. Len(layout.blocks) = 1 /\ b.header = to_array(chunk) /\ b.body = EntryCells(chunk.data)
    BY <1>1 DEF Block
  <1>4. /\ n \in Nat /\ Len(EntryCells(chunk.data)) = n
        /\ \A k \in 1 .. n : EntryCells(chunk.data)[k] = Cell("entry", chunk.data[k])
    BY <1>2, EntryCellsAre
  <1>5. CellsLaidOut BY <1>1, CellsAre
  <1>6. EndOfBlock(0) = 0 /\ EndOfBlock(1) = Len(all) /\ 1 \in 1 .. Len(layout.blocks)
    BY <1>1, <1>3, <1>5 DEF CellsLaidOut
  <1>7. /\ EndOfBlock(1) = EndOfBlock(1 - 1) + 1 + Len(b.body)
        /\ all[EndOfBlock(1 - 1) + 1] = b.header
        /\ \A k \in 1 .. Len(b.body) : all[EndOfBlock(1 - 1) + 1 + k] = b.body[k]
    BY <1>5, <1>6 DEF CellsLaidOut
  <1>8. 1 - 1 = 0 OBVIOUS
  <1> HIDE DEF all, n, b
  <1>9. /\ Len(all) = 1 + n /\ all[1] = to_array(chunk)
        /\ \A k \in 1 .. n : all[1 + k] = Cell("entry", chunk.data[k])
    BY <1>3, <1>4, <1>6, <1>7, <1>8
  <1>10. disk \in Seq(AnyCell) /\ Len(disk) \in Nat /\ Len(disk) <= 1 + n
    BY <1>1, <1>9, LenProperties DEF Beginning
  <1>11. \A k \in 1 .. Len(disk) : disk[k] = all[k] BY <1>1 DEF Beginning
  <1>12. ASSUME Len(disk) > 0 PROVE disk[1] = to_array(chunk)
    <2>1. 1 \in 1 .. Len(disk) BY <1>10, <1>12
    <2> QED BY <2>1, <1>9, <1>11
  <1>13. ASSUME NEW k \in 1 .. n, 1 + k <= Len(disk) PROVE disk[1 + k] = Cell("entry", chunk.data[k])
    <2>1. 1 + k \in 1 .. Len(disk) BY <1>10, <1>13
    <2> QED BY <2>1, <1>9, <1>11
  <1>14. n > MaxCount => Len(disk) = 0 BY <1>1
  <1> QED BY <1>10, <1>12, <1>13, <1>14 DEF n

(* What a header says of the chunk it was made for. *)
HeaderOf(c) == [size |-> Len(c.data), sort |-> c.sort, name_hash |-> c.name_hash, data_hash |-> c.data_hash]

LEMMA HeaderReads ==
  ASSUME NEW c \in Chunks
  PROVE  from_array(to_array(c)) = {HeaderOf(c)}
  <1>1. c.sort \in {0, 1} /\ c.name_hash = "Sha256" /\ c.data_hash = "Sha256"
    BY DEF Chunks, Unordered, SortedByName
  <1>2. to_array(c) = [kind |-> "Hashes", size |-> Len(c.data), flags |-> c.sort % 4,
                       name |-> "Sha2_256", data |-> "Sha2_256"]
    BY <1>1 DEF to_array, get_fingerprint
  <1>3. (c.sort % 4) % 4 = c.sort BY <1>1
  <1>4. from_fingerprint("Sha2_256") = {"Sha256"}
    <2>1. "Sha2_256" \in Spellings("Sha256") /\ ~("Sha2_256" \in Spellings("Blake3")) BY DEF Spellings
    <2> QED BY <2>1 DEF from_fingerprint
  <1> DEFINE sz == Len(c.data)
             fl == c.sort % 4
             cell == [kind |-> "Hashes", size |-> sz, flags |-> fl, name |-> "Sha2_256", data |-> "Sha2_256"]
  <1>5. to_array(c) = cell BY <1>2
  <1>6. fl % 4 = c.sort BY <1>3
  <1> HIDE DEF sz, fl
  <1>7. from_array(cell) = {[size |-> sz, sort |-> fl % 4, name_hash |-> x, data_hash |-> y] :
                                x \in {"Sha256"}, y \in {"Sha256"}}
    BY <1>4 DEF from_array
  <1>8. from_array(cell) = {[size |-> sz, sort |-> fl % 4, name_hash |-> "Sha256", data_hash |-> "Sha256"]}
    BY <1>7
  <1> QED BY <1>1, <1>5, <1>6, <1>8 DEF HeaderOf, sz

(* The cells behind a place of a sequence. *)
LEMMA Behind ==
  ASSUME NEW S, NEW s \in Seq(S), NEW at \in Nat, NEW size \in Nat, at + size <= Len(s)
  PROVE  /\ SubSeq(s, at + 1, at + size) \in Seq(S) /\ Len(SubSeq(s, at + 1, at + size)) = size
         /\ \A k \in 1 .. size : SubSeq(s, at + 1, at + size)[k] = s[at + k]
  <1>1. Len(s) \in Nat BY LenProperties
  <1> DEFINE lo == at + 1
             hi == at + size
             u == SubSeq(s, lo, hi)
  <1>2. lo \in Int /\ hi \in Int /\ (IF lo <= hi THEN hi - lo + 1 ELSE 0) = size BY <1>1
  <1>3. \A i \in lo .. hi : s[i] \in S
    <2> SUFFICES ASSUME NEW i \in lo .. hi PROVE s[i] \in S OBVIOUS
    <2>1. i \in 1 .. Len(s) BY <1>1
    <2> QED BY <2>1, ElementOfSeq
  <1>4. \A k \in 1 .. size : lo + k - 1 = at + k /\ lo <= hi /\ k \in 1 .. hi - lo + 1 BY <1>1
  <1> HIDE DEF lo, hi
  <1>5. u \in Seq(S) /\ Len(u) = IF lo <= hi THEN hi - lo + 1 ELSE 0 BY <1>2, <1>3, SubSeqProperties
  <1>6. \A k \in 1 .. size : u[k] = s[lo + k - 1] BY <1>2, <1>4, <1>5
  <1>7. \A k \in 1 .. size : u[k] = s[at + k] BY <1>4, <1>6
  <1>8. Len(u) = size BY <1>2, <1>5
  <1> QED BY <1>5, <1>7, <1>8 DEF lo, hi

(* What HashesChunk::read returns of a written chunk. *)
ReadResult == IF Len(disk) = 1 + Len(chunk.data)
              THEN <<[is |-> "chunk", data |-> EntryCells(chunk.data), sort |-> chunk.sort,
                      name_hash |-> chunk.name_hash, data_hash |-> chunk.data_hash]>>
              ELSE <<Error>>

LEMMA ReadGives ==
  ASSUME ChunkInv, FileInv, layout.by = "write", read
  PROVE  got' = ReadResult
  <1> DEFINE n == Len(chunk.data)
             h == HeaderOf(chunk)
             m == Len(disk)
  <1>1. /\ disk \in Seq(AnyCell) /\ m \in Nat /\ m <= 1 + n
        /\ m > 0 => disk[1] = to_array(chunk)
        /\ \A k \in 1 .. n : 1 + k <= m => disk[1 + k] = Cell("entry", chunk.data[k])
        /\ n > MaxCount => m = 0
    BY WrittenFile
  <1>2. chunk \in Chunks /\ chunk.data \in Seq(Entries) BY DEF ChunkInv, Chunks
  <1>3. /\ EntryCells(chunk.data) \in Seq(EntryCell) /\ Len(EntryCells(chunk.data)) = n /\ n \in Nat
        /\ \A k \in 1 .. n : EntryCells(chunk.data)[k] = Cell("entry", chunk.data[k])
    BY <1>2, EntryCellsAre
  <1>4. MaxCount \in Nat BY SumFileAssumption
  <1>5. CASE m = 0
    <2>1. disk = <<>> BY <1>1, <1>5, EmptySeq
    <2>2. got' = <<Error>> BY <2>1 DEF read, Reading
    <2>3. m # 1 + n BY <1>3, <1>5
    <2> QED BY <2>2, <2>3 DEF ReadResult
  <1>6. CASE m # 0
    <2>1. m > 0 /\ disk # <<>> BY <1>1, <1>6
    <2>2. from_array(disk[1]) = {h} BY <1>1, <1>2, <2>1, HeaderReads
    <2>3. (CHOOSE x \in from_array(disk[1]) : TRUE) = h BY <2>2
    <2>4. h.size = n BY DEF HeaderOf
    <2>5. got' = <<read_body(h, 1).result>> BY <2>1, <2>2, <2>3 DEF read, Reading
    <2>6. n <= MaxCount BY <1>1, <1>3, <1>4, <2>1
    <2> HIDE DEF h
    <2>7. CASE m = 1 + n
      <3>1. 1 + n <= m BY <2>7, <1>1, <1>3
      <3>2. read_body(h, 1).result = ChunkRead(h, SubSeq(disk, 1 + 1, 1 + n))
        <4>1. ~(h.size > MaxCount) /\ ~(1 + h.size > Len(disk)) BY <1>1, <1>3, <1>4, <2>4, <2>6, <2>7
        <4> QED BY <2>4, <4>1 DEF read_body, Body
      <3> DEFINE body == SubSeq(disk, 1 + 1, 1 + n)
      <3>3. body \in Seq(AnyCell) /\ Len(body) = n /\ \A k \in 1 .. n : body[k] = disk[1 + k]
        BY <1>1, <1>3, <3>1, Behind
      <3> HIDE DEF body
      <3>4. EntryCells(chunk.data) \in Seq(AnyCell)
        <4>1. EntryCell \subseteq AnyCell BY DEF AnyCell
        <4> QED BY <1>3, <4>1, SeqOfMore
      <3>5. \A k \in 1 .. n : body[k] = EntryCells(chunk.data)[k]
        <4> SUFFICES ASSUME NEW k \in 1 .. n PROVE body[k] = EntryCells(chunk.data)[k] OBVIOUS
        <4>1. 1 + k <= m BY <2>7, <1>3
        <4> QED BY <4>1, <1>1, <1>3, <3>3
      <3>6. body = EntryCells(chunk.data) BY <1>3, <3>3, <3>4, <3>5, SeqEqual
      <3>7. ChunkRead(h, body) = [is |-> "chunk", data |-> EntryCells(chunk.data), sort |-> chunk.sort,
                                  name_hash |-> chunk.name_hash, data_hash |-> chunk.data_hash]
        BY <3>6 DEF ChunkRead, h, HeaderOf
      <3> QED BY <2>5, <2>7, <3>2, <3>7 DEF ReadResult, body
    <2>8. CASE m # 1 + n
      <3>1. ~(h.size > MaxCount) /\ 1 + h.size > Len(disk) BY <1>1, <1>3, <1>4, <2>4, <2>6, <2>8
      <3>2. read_body(h, 1).result = Error BY <3>1 DEF read_body
      <3> QED BY <2>5, <2>8, <3>2 DEF ReadResult
    <2> QED BY <2>7, <2>8
  <1> QED BY <1>5, <1>6

LEMMA RawGives ==
  ASSUME ChunkInv, FileInv, layout.by = "write_vec_bytes", read_vec_bytes
  PROVE  got' = SubSeq(Written, 1, Len(disk))
  <1> DEFINE n == Len(chunk.data)
             m == Len(disk)
             all == EntryCells(chunk.data)
             part == SubSeq(Written, 1, m)
  <1>1. chunk.data \in Seq(Entries) BY DEF ChunkInv, Chunks
  <1>2. Len(all) = n /\ n \in Nat /\ \A k \in 1 .. n : all[k] = Cell("entry", chunk.data[k])
    BY <1>1, EntryCellsAre
  <1>3. Beginning(disk, all) BY DEF FileInv
  <1> HIDE DEF all
  <1>4. disk \in Seq(AnyCell) /\ m \in Nat /\ m <= n /\ \A k \in 1 .. m : disk[k] = all[k]
    BY <1>2, <1>3, LenProperties DEF Beginning
  <1>5. /\ Written \in Seq(EntryReads) /\ Len(Written) = n
        /\ \A k \in 1 .. n : Written[k] = EntryRead(Cell("entry", chunk.data[k]))
    BY WrittenIs
  <1>6. m \in 0 .. Len(Written) BY <1>2, <1>4, <1>5
  <1>7. part \in Seq(EntryReads) /\ Len(part) = m /\ \A k \in 1 .. m : part[k] = Written[k]
    BY <1>5, <1>6, FirstParts
  <1> HIDE DEF part
  <1>8. part = [k \in 1 .. m |-> part[k]] BY <1>7, LenProperties
  <1>9. got' = [k \in 1 .. m |-> EntryRead(disk[k])]
    <2>1. DOMAIN disk = 1 .. m BY <1>4, LenProperties
    <2>2. got' = [k \in DOMAIN disk |-> EntryRead(disk[k])] BY DEF read_vec_bytes, Reading, read_hash_array
    <2> QED BY <2>1, <2>2
  <1>10. \A k \in 1 .. m : EntryRead(disk[k]) = part[k]
    <2> SUFFICES ASSUME NEW k \in 1 .. m PROVE EntryRead(disk[k]) = part[k] OBVIOUS
    <2>1. k \in 1 .. n BY <1>2, <1>4
    <2> QED BY <2>1, <1>2, <1>4, <1>5, <1>7
  <1> QED BY <1>8, <1>9, <1>10 DEF part

(* What HashesIterChunk is at and has returned, w written and m cells of it   *)
(* there: it goes on, has failed, has ended, or has failed and ended.         *)
Streamed(r, g, w, m) ==
    \/ /\ m > 0 /\ r.at \in 1 .. m /\ r.left = Len(w) - (r.at - 1)
       /\ g = SubSeq(w, 1, r.at - 1)
    \/ m <= Len(w) /\ r.left = 0 /\ g = Append(SubSeq(w, 1, m - 1), Error)
    \/ m = 1 + Len(w) /\ g = Append(w, End)
    \/ m <= Len(w) /\ g = Append(Append(SubSeq(w, 1, m - 1), Error), End)

LEMMA StartOf ==
  ASSUME NEW w \in Seq(EntryReads), NEW k \in -1 .. Len(w)
  PROVE  /\ SubSeq(w, 1, k) \in Seq(StreamReads)
         /\ Len(SubSeq(w, 1, k)) \in Nat /\ Len(SubSeq(w, 1, k)) <= Len(w)
         /\ \A i \in 1 .. Len(SubSeq(w, 1, k)) : SubSeq(w, 1, k)[i] = w[i] /\ w[i] \in EntryReads
  <1> DEFINE u == SubSeq(w, 1, k)
  <1>1. Len(w) \in Nat /\ \A i \in 1 .. Len(w) : w[i] \in EntryReads BY LenProperties, ElementOfSeq
  <1>2. EntryReads \subseteq StreamReads BY DEF StreamReads
  <1>3. CASE k = -1
    <2>1. u = <<>>
      <3>1. 1 \in Int /\ k \in Int /\ k < 1 BY <1>3
      <3> QED BY <3>1, SubSeqEmpty
    <2>2. <<>> \in Seq(StreamReads) /\ Len(<<>>) = 0 OBVIOUS
    <2> HIDE DEF u
    <2>3. u \in Seq(StreamReads) /\ Len(u) = 0 BY <2>1, <2>2
    <2> QED BY <2>3, <1>1 DEF u
  <1>4. CASE k # -1
    <2>1. k \in 0 .. Len(w) BY <1>4, <1>1
    <2>2. u \in Seq(EntryReads) /\ Len(u) = k /\ \A i \in 1 .. k : u[i] = w[i] BY <2>1, FirstParts
    <2> HIDE DEF u
    <2>3. u \in Seq(StreamReads) BY <2>2, <1>2, SeqOfMore
    <2>4. Len(u) \in Nat /\ Len(u) <= Len(w) /\ \A i \in 1 .. Len(u) : i \in 1 .. Len(w) BY <2>1, <2>2, <1>1
    <2> QED BY <2>2, <2>3, <2>4, <1>1 DEF u
  <1> QED BY <1>3, <1>4

LEMMA IterNewStreams ==
  ASSUME ChunkInv, FileInv, layout.by = "write", iter_new
  PROVE  Streamed(reader', got', Written, Len(disk))
  <1> DEFINE m == Len(disk)
             n == Len(chunk.data)
             w == Written
  <1>1. /\ disk \in Seq(AnyCell) /\ m \in Nat /\ m <= 1 + n
        /\ m > 0 => disk[1] = to_array(chunk)
    BY WrittenFile
  <1>2. w \in Seq(EntryReads) /\ Len(w) = n /\ n \in Nat BY WrittenIs
  <1>3. chunk \in Chunks BY DEF ChunkInv
  <1>4. CASE m = 0
    <2>1. disk = <<>> BY <1>1, <1>4, EmptySeq
    <2>2. got' = <<Error>> /\ reader'.left = 0 BY <2>1 DEF iter_new, Reading
    <2>3. 0 - 1 \in Int /\ 0 - 1 < 1 OBVIOUS
    <2>4. SubSeq(w, 1, 0 - 1) = <<>> BY <2>3, SubSeqEmpty
    <2>5. Append(<<>>, Error) = <<Error>> OBVIOUS
    <2> HIDE DEF w
    <2>6. got' = Append(SubSeq(w, 1, m - 1), Error) BY <1>4, <2>2, <2>4, <2>5
    <2>7. m <= Len(w) BY <1>2, <1>4
    <2> QED BY <2>2, <2>6, <2>7 DEF Streamed, w
  <1>5. CASE m # 0
    <2>1. m > 0 /\ disk # <<>> BY <1>1, <1>5
    <2>2. from_array(disk[1]) = {HeaderOf(chunk)} BY <1>1, <1>3, <2>1, HeaderReads
    <2>3. reader' = [by |-> "iter", at |-> 1, left |-> HeaderOf(chunk).size] /\ got' = <<>>
      BY <2>1, <2>2 DEF iter_new, Reading
    <2>4. reader'.at = 1 /\ reader'.left = n BY <2>3 DEF HeaderOf
    <2>5. SubSeq(w, 1, 1 - 1) = <<>>
      <3>1. 1 - 1 \in Int /\ 1 - 1 < 1 /\ 1 \in Int OBVIOUS
      <3> QED BY <3>1, SubSeqEmpty
    <2> HIDE DEF w, n
    <2>6. reader'.at \in 1 .. m /\ reader'.left = Len(w) - (reader'.at - 1) BY <1>1, <1>2, <2>1, <2>4
    <2>7. got' = SubSeq(w, 1, reader'.at - 1) BY <2>3, <2>4, <2>5
    <2> QED BY <2>1, <2>6, <2>7 DEF Streamed, w
  <1> QED BY <1>4, <1>5

LEMMA LastIn == ASSUME NEW S, NEW s \in Seq(S), NEW x \in S PROVE x \in ToSet(Append(s, x))
  <1> DEFINE t == Append(s, x)
  <1>1. t \in Seq(S) /\ Len(t) = Len(s) + 1 /\ t[Len(s) + 1] = x /\ Len(s) \in Nat
    BY AppendProperties, LenProperties
  <1> HIDE DEF t
  <1>2. Len(s) + 1 \in DOMAIN t BY <1>1, LenProperties
  <1> QED BY <1>1, <1>2 DEF ToSet, t

LEMMA IterNextStreams ==
  ASSUME ChunkInv, FileInv, layout.by = "write", Streamed(reader, got, Written, Len(disk)), iter_next
  PROVE  Streamed(reader', got', Written, Len(disk))
  <1> DEFINE m == Len(disk)
             n == Len(chunk.data)
             w == Written
             at == reader.at
             left == reader.left
  <1>1. /\ m \in Nat /\ m <= 1 + n
        /\ \A k \in 1 .. n : 1 + k <= m => disk[1 + k] = Cell("entry", chunk.data[k])
    BY WrittenFile
  <1>2. /\ w \in Seq(EntryReads) /\ Len(w) = n /\ n \in Nat
        /\ \A k \in 1 .. n : w[k] = EntryRead(Cell("entry", chunk.data[k]))
    BY WrittenIs
  <1>3. End \notin ToSet(got) BY DEF iter_next
  <1>4. Error \in StreamReads /\ End \in StreamReads BY DEF StreamReads
  <1>5. CASE m > 0 /\ at \in 1 .. m /\ left = Len(w) - (at - 1) /\ got = SubSeq(w, 1, at - 1)
    <2>1. CASE left = 0
      <3>1. got' = Append(got, End) BY <2>1 DEF iter_next, Reading
      <3>2. at - 1 = Len(w) /\ m = 1 + Len(w) BY <1>1, <1>2, <1>5, <2>1
      <3>3. SubSeq(w, 1, Len(w)) = w BY <1>2, SubSeqFull
      <3> HIDE DEF w, at, m
      <3>4. got = w BY <1>5, <3>2, <3>3
      <3> QED BY <3>1, <3>2, <3>4 DEF Streamed, w, m
    <2>2. CASE left # 0 /\ Left = 0
      <3>1. got' = Append(got, Error) /\ reader'.left = 0 BY <2>2 DEF iter_next, Reading
      <3>2. at = m /\ m <= Len(w)
        <4>1. m - at = 0 BY <2>2 DEF Left
        <4> QED BY <4>1, <1>1, <1>2, <1>5, <2>2
      <3> QED BY <1>5, <3>1, <3>2 DEF Streamed
    <2>3. CASE left # 0 /\ Left # 0
      <3>1. reader' = [by |-> "iter", at |-> at + 1, left |-> left - 1]
            /\ got' = Append(got, EntryRead(disk[at + 1]))
        BY <2>3 DEF iter_next, Reading
      <3>2. reader'.at = at + 1 /\ reader'.left = left - 1 BY <3>1
      <3>3. m - at # 0 BY <2>3 DEF Left
      <3> DEFINE l == Len(w)
      <3> HIDE DEF w, n, m, at, left, l
      <3>0. m \in Nat /\ at \in 1 .. m /\ left = l - (at - 1) /\ l = n /\ n \in Nat /\ m <= 1 + n /\ m - at # 0
        BY <3>3, <1>1, <1>2, <1>5 DEF l
      <3>4. at \in 1 .. n /\ 1 + at <= m /\ at + 1 = 1 + at /\ at - 1 \in 0 .. l - 1 /\ (at - 1) + 1 = at
            /\ (at + 1) - 1 = at
        BY <3>0
      <3>5. EntryRead(disk[at + 1]) = w[at] BY <3>4, <1>1, <1>2
      <3>6. SubSeq(w, 1, (at - 1) + 1) = Append(SubSeq(w, 1, at - 1), w[(at - 1) + 1])
        BY <1>2, <3>4, FirstParts DEF l
      <3>7. got' = SubSeq(w, 1, at) BY <1>5, <3>1, <3>4, <3>5, <3>6
      <3>8. got' = SubSeq(w, 1, reader'.at - 1) BY <3>2, <3>4, <3>7
      <3>9. reader'.at \in 1 .. m /\ reader'.left = Len(w) - (reader'.at - 1) BY <3>0, <3>2, <3>4 DEF l
      <3> QED BY <1>5, <3>8, <3>9 DEF Streamed, w, m
    <2> QED BY <2>1, <2>2, <2>3
  <1>6. CASE m <= Len(w) /\ left = 0 /\ got = Append(SubSeq(w, 1, m - 1), Error)
    <2>1. got' = Append(got, End) BY <1>6 DEF iter_next, Reading
    <2> QED BY <1>6, <2>1 DEF Streamed
  <1>7. CASE m = 1 + Len(w) /\ got = Append(w, End)
    <2>1. w \in Seq(StreamReads)
      <3>1. EntryReads \subseteq StreamReads BY DEF StreamReads
      <3> QED BY <1>2, <3>1, SeqOfMore
    <2> HIDE DEF w
    <2>2. End \in ToSet(Append(w, End)) BY <2>1, <1>4, LastIn
    <2> QED BY <1>3, <1>7, <2>2
  <1>8. CASE m <= Len(w) /\ got = Append(Append(SubSeq(w, 1, m - 1), Error), End)
    <2> DEFINE u == SubSeq(w, 1, m - 1)
    <2>1. u \in Seq(StreamReads)
      <3>1. m - 1 \in -1 .. Len(w) BY <1>1, <1>2, <1>8
      <3> QED BY <1>2, <3>1, StartOf
    <2> HIDE DEF u
    <2>2. Append(u, Error) \in Seq(StreamReads) BY <2>1, <1>4, AppendProperties
    <2>3. End \in ToSet(Append(Append(u, Error), End)) BY <2>2, <1>4, LastIn
    <2> QED BY <1>3, <1>8, <2>3 DEF u
  <1> QED BY <1>5, <1>6, <1>7, <1>8 DEF Streamed

(* The first j of g are entries of w and all the rest of g is not: what the   *)
(* properties need of a stream.                                              *)
LEMMA EntriesFirst ==
  ASSUME NEW w \in Seq(EntryReads), NEW g \in Seq(StreamReads), NEW j \in 0 .. Len(w), j <= Len(g),
         \A i \in 1 .. j : g[i] = w[i],
         \A i \in j + 1 .. Len(g) : g[i].is # "entry",
         NEW i \in 1 .. Len(g), g[i].is = "entry"
  PROVE  IsPrefix(SubSeq(g, 1, i), w)
  <1> DEFINE u == SubSeq(g, 1, i)
             v == SubSeq(w, 1, i)
  <1>1. Len(w) \in Nat /\ Len(g) \in Nat BY LenProperties
  <1>2. i \in 1 .. j
    <2>1. ~(i \in j + 1 .. Len(g)) OBVIOUS
    <2> QED BY <2>1, <1>1
  <1>3. i \in 0 .. Len(g) /\ i \in 0 .. Len(w) BY <1>1, <1>2
  <1>4. u \in Seq(StreamReads) /\ Len(u) = i /\ \A k \in 1 .. i : u[k] = g[k] BY <1>3, FirstParts
  <1>5. v \in Seq(EntryReads) /\ Len(v) = i /\ \A k \in 1 .. i : v[k] = w[k] BY <1>3, FirstParts
  <1> HIDE DEF u, v
  <1>6. v \in Seq(StreamReads)
    <2>1. EntryReads \subseteq StreamReads BY DEF StreamReads
    <2> QED BY <1>5, <2>1, SeqOfMore
  <1>7. \A k \in 1 .. i : u[k] = v[k]
    <2> SUFFICES ASSUME NEW k \in 1 .. i PROVE u[k] = v[k] OBVIOUS
    <2>1. k \in 1 .. j BY <1>2
    <2> QED BY <2>1, <1>4, <1>5
  <1>8. u = v BY <1>4, <1>5, <1>6, <1>7, SeqEqual
  <1>9. SubSeq(u, 1, Len(u)) = u BY <1>4, SubSeqFull
  <1>10. Len(u) <= Len(w) BY <1>1, <1>3, <1>4
  <1> QED BY <1>4, <1>8, <1>9, <1>10 DEF IsPrefix, u, v

StreamGood(g, w, m) ==
    /\ \A i \in DOMAIN g : g[i].is = "entry" => IsPrefix(SubSeq(g, 1, i), w)
    /\ End \in ToSet(g) => g = IF m = 1 + Len(w) THEN Append(w, End)
                               ELSE SubSeq(w, 1, m - 1) \o <<Error, End>>

LEMMA StreamGives ==
  ASSUME NEW w \in Seq(EntryReads), NEW m \in Nat, m <= 1 + Len(w), NEW r, NEW g, Streamed(r, g, w, m)
  PROVE  StreamGood(g, w, m)
  <1>1. Len(w) \in Nat /\ \A i \in 1 .. Len(w) : w[i] \in EntryReads BY LenProperties, ElementOfSeq
  <1>2. Error \in StreamReads /\ End \in StreamReads BY DEF StreamReads
  <1>3. EntryReads \subseteq StreamReads BY DEF StreamReads
  <1>4. CASE m > 0 /\ r.at \in 1 .. m /\ g = SubSeq(w, 1, r.at - 1)
    <2> DEFINE k == r.at - 1
    <2>1. k \in -1 .. Len(w) BY <1>1, <1>4
    <2>2. g = SubSeq(w, 1, k) BY <1>4
    <2> HIDE DEF k
    <2>3. /\ g \in Seq(StreamReads) /\ Len(g) \in Nat /\ Len(g) <= Len(w)
          /\ \A i \in 1 .. Len(g) : g[i] = w[i] /\ w[i] \in EntryReads
      BY <2>1, <2>2, StartOf
    <2>4. DOMAIN g = 1 .. Len(g) BY <2>3, LenProperties
    <2>5. ASSUME NEW i \in 1 .. Len(g), g[i].is = "entry" PROVE IsPrefix(SubSeq(g, 1, i), w)
      <3>1. Len(g) \in 0 .. Len(w) /\ Len(g) <= Len(g) BY <2>3, <1>1
      <3>2. \A x \in Len(g) + 1 .. Len(g) : g[x].is # "entry" BY <2>3
      <3> QED BY <2>3, <2>5, <3>1, <3>2, EntriesFirst
    <2>6. End \notin ToSet(g) BY <2>3, <2>4, StreamReadsDiffer DEF ToSet
    <2> QED BY <2>4, <2>5, <2>6 DEF StreamGood
  <1>5. CASE m <= Len(w) /\ g = Append(SubSeq(w, 1, m - 1), Error)
    <2> DEFINE k == m - 1
               u == SubSeq(w, 1, k)
               j == Len(u)
    <2>1. k \in -1 .. Len(w) BY <1>1, <1>5
    <2>2. g = Append(u, Error) BY <1>5
    <2> HIDE DEF k
    <2>3. /\ u \in Seq(StreamReads) /\ j \in Nat /\ j <= Len(w)
          /\ \A i \in 1 .. j : u[i] = w[i] /\ w[i] \in EntryReads
      BY <2>1, StartOf
    <2> HIDE DEF u
    <2>4. /\ g \in Seq(StreamReads) /\ Len(g) = j + 1 /\ g[j + 1] = Error /\ \A i \in 1 .. j : g[i] = u[i]
      BY <2>2, <2>3, <1>2, AppendProperties
    <2>5. DOMAIN g = 1 .. Len(g) BY <2>4, LenProperties
    <2> HIDE DEF j
    <2>6. ASSUME NEW i \in 1 .. Len(g), g[i].is = "entry" PROVE IsPrefix(SubSeq(g, 1, i), w)
      <3>1. j \in 0 .. Len(w) /\ j <= Len(g) BY <2>3, <2>4, <1>1
      <3>2. \A x \in 1 .. j : g[x] = w[x] BY <2>3, <2>4
      <3>3. \A x \in j + 1 .. Len(g) : x = j + 1 BY <2>3, <2>4
      <3>4. \A x \in j + 1 .. Len(g) : g[x].is # "entry" BY <3>3, <2>4, StreamReadsDiffer
      <3> QED BY <2>4, <2>6, <3>1, <3>2, <3>4, EntriesFirst
    <2>7. End \notin ToSet(g)
      <3>1. \A x \in 1 .. Len(g) : x \in 1 .. j \/ x = j + 1 BY <2>3, <2>4
      <3>2. \A x \in 1 .. j : g[x] \in EntryReads BY <2>3, <2>4
      <3>3. \A x \in 1 .. Len(g) : g[x] # End BY <3>1, <3>2, <2>4, StreamReadsDiffer
      <3> QED BY <2>5, <3>3 DEF ToSet
    <2> QED BY <2>5, <2>6, <2>7 DEF StreamGood
  <1>6. CASE m = 1 + Len(w) /\ g = Append(w, End)
    <2> DEFINE j == Len(w)
    <2>1. w \in Seq(StreamReads) BY <1>3, SeqOfMore
    <2>2. /\ g \in Seq(StreamReads) /\ Len(g) = j + 1 /\ g[j + 1] = End /\ \A i \in 1 .. j : g[i] = w[i]
      BY <1>2, <1>6, <2>1, AppendProperties
    <2>3. DOMAIN g = 1 .. Len(g) BY <2>2, LenProperties
    <2>4. ASSUME NEW i \in 1 .. Len(g), g[i].is = "entry" PROVE IsPrefix(SubSeq(g, 1, i), w)
      <3>1. j \in 0 .. Len(w) /\ j <= Len(g) BY <2>2, <1>1
      <3>2. \A x \in j + 1 .. Len(g) : x = j + 1 BY <2>2, <1>1
      <3>3. \A x \in j + 1 .. Len(g) : g[x].is # "entry" BY <3>2, <2>2, StreamReadsDiffer
      <3> QED BY <2>2, <2>4, <3>1, <3>3, EntriesFirst
    <2>5. g = IF m = 1 + Len(w) THEN Append(w, End) ELSE SubSeq(w, 1, m - 1) \o <<Error, End>> BY <1>6
    <2> QED BY <2>3, <2>4, <2>5 DEF StreamGood
  <1>7. CASE m <= Len(w) /\ g = Append(Append(SubSeq(w, 1, m - 1), Error), End)
    <2> DEFINE k == m - 1
               u == SubSeq(w, 1, k)
               j == Len(u)
               v == Append(u, Error)
    <2>1. k \in -1 .. Len(w) BY <1>1, <1>7
    <2>2. g = Append(v, End) BY <1>7
    <2> HIDE DEF k
    <2>3. /\ u \in Seq(StreamReads) /\ j \in Nat /\ j <= Len(w)
          /\ \A i \in 1 .. j : u[i] = w[i] /\ w[i] \in EntryReads
      BY <2>1, StartOf
    <2> HIDE DEF u
    <2>4. /\ v \in Seq(StreamReads) /\ Len(v) = j + 1 /\ v[j + 1] = Error /\ \A i \in 1 .. j : v[i] = u[i]
      BY <2>3, <1>2, AppendProperties
    <2> HIDE DEF j, v
    <2>5. /\ g \in Seq(StreamReads) /\ Len(g) = Len(v) + 1 /\ g[Len(v) + 1] = End
          /\ \A i \in 1 .. Len(v) : g[i] = v[i]
      BY <2>2, <2>4, <1>2, AppendProperties
    <2>6. DOMAIN g = 1 .. Len(g) BY <2>5, LenProperties
    <2>7. /\ Len(g) = j + 2 /\ g[j + 2] = End /\ g[j + 1] = Error /\ \A i \in 1 .. j : g[i] = w[i]
      <3>1. (j + 1) + 1 = j + 2 /\ j + 1 \in 1 .. j + 1 /\ \A i \in 1 .. j : i \in 1 .. j + 1 BY <2>3
      <3> QED BY <3>1, <2>3, <2>4, <2>5
    <2>8. ASSUME NEW i \in 1 .. Len(g), g[i].is = "entry" PROVE IsPrefix(SubSeq(g, 1, i), w)
      <3>1. j \in 0 .. Len(w) /\ j <= Len(g) BY <2>3, <2>7, <1>1
      <3>2. \A x \in j + 1 .. Len(g) : x = j + 1 \/ x = j + 2 BY <2>3, <2>7
      <3>3. \A x \in j + 1 .. Len(g) : g[x].is # "entry" BY <3>2, <2>7, StreamReadsDiffer
      <3> QED BY <2>5, <2>7, <2>8, <3>1, <3>3, EntriesFirst
    <2>9. g = u \o <<Error, End>>
      <3> DEFINE p == <<Error, End>>
      <3>1. p \in Seq(StreamReads) /\ Len(p) = 2 /\ p[1] = Error /\ p[2] = End BY <1>2
      <3> HIDE DEF p
      <3>2. /\ u \o p \in Seq(StreamReads) /\ Len(u \o p) = Len(u) + Len(p)
            /\ \A i \in 1 .. Len(u) + Len(p) : (u \o p)[i] = IF i <= Len(u) THEN u[i] ELSE p[i - Len(u)]
        <4>1. u \in Seq(StreamReads) /\ p \in Seq(StreamReads) BY <2>3, <3>1
        <4> QED BY <4>1, ConcatProperties
      <3>3. Len(u) = j /\ \A i \in 1 .. j : u[i] = w[i] BY <2>3 DEF j
      <3> DEFINE c == u \o p
      <3>4. Len(c) = j + 2 /\ \A i \in 1 .. j + 2 : c[i] = IF i <= j THEN u[i] ELSE p[i - j]
        BY <3>1, <3>2, <3>3
      <3>5. c \in Seq(StreamReads) BY <3>2
      <3> HIDE DEF c
      <3>6. j \in Nat BY <2>3
      <3>7. ASSUME NEW i \in 1 .. j + 2 PROVE g[i] = c[i]
        <4>1. CASE i \in 1 .. j
          <5>1. i <= j BY <4>1, <3>6
          <5> QED BY <4>1, <5>1, <2>7, <3>3, <3>4
        <4>2. CASE i = j + 1
          <5>1. ~(i <= j) /\ i - j = 1 BY <4>2, <3>6
          <5> QED BY <4>2, <5>1, <2>7, <3>1, <3>4
        <4>3. CASE i = j + 2
          <5>1. ~(i <= j) /\ i - j = 2 BY <4>3, <3>6
          <5> QED BY <4>3, <5>1, <2>7, <3>1, <3>4
        <4>4. i \in 1 .. j \/ i = j + 1 \/ i = j + 2 BY <3>6
        <4> QED BY <4>1, <4>2, <4>3, <4>4
      <3>8. Len(g) = Len(c) /\ \A i \in 1 .. Len(g) : g[i] = c[i] BY <2>7, <3>4, <3>7
      <3>9. g = c BY <2>5, <3>5, <3>8, SeqEqual
      <3> QED BY <3>9 DEF c, p
    <2>10. m # 1 + Len(w) BY <1>7, <1>1
    <2>11. g = SubSeq(w, 1, m - 1) \o <<Error, End>> BY <2>9 DEF u, k
    <2> QED BY <2>6, <2>8, <2>10, <2>11 DEF StreamGood
  <1> QED BY <1>4, <1>5, <1>6, <1>7 DEF Streamed

--------------------------------------------------------------------------------
(* Reading a file block by block. *)
HashTypes == {"Sha256", "Blake3"}
ChunkResults == [is : {"chunk"}, data : Seq(AnyCell), sort : 0 .. 3,
                 name_hash : HashTypes, data_hash : HashTypes]
BlockResults == ChunkResults \union {Error, Panic, End}

LEMMA BlockResultsDiffer ==
  /\ \A x \in ChunkResults : x.is = "chunk" /\ x # End
  /\ Error.is # "chunk" /\ Panic.is # "chunk" /\ End.is # "chunk" /\ Error # End /\ Panic # End
  <1>1. \A x \in ChunkResults : x.is = "chunk" BY DEF ChunkResults
  <1>2. Error.is = "error" /\ End.is = "end" /\ Panic.is = "panic" BY DEF Error, End, Panic
  <1> QED BY <1>1, <1>2

ChunksIn(g) == {i \in DOMAIN g : g[i].is = "chunk"}
ChunksOf(g) == Picked(g, ChunksIn(g))

LEMMA ChunksOfAppend ==
  ASSUME NEW g \in Seq(BlockResults), NEW x \in BlockResults
  PROVE  /\ ChunksOf(g) \in Seq(BlockResults)
         /\ ChunksOf(Append(g, x)) = IF x.is = "chunk" THEN Append(ChunksOf(g), x) ELSE ChunksOf(g)
  <1> DEFINE t == Append(g, x)
             m == Len(g)
             w == ChunksIn(g)
             v == ChunksIn(t)
  <1>1. /\ t \in Seq(BlockResults) /\ Len(t) = m + 1 /\ t[m + 1] = x /\ \A i \in 1 .. m : t[i] = g[i]
        /\ m \in Nat
    BY AppendProperties, LenProperties
  <1>2. DOMAIN g = 1 .. m BY LenProperties
  <1> HIDE DEF t, m
  <1>3. DOMAIN t = 1 .. m + 1 BY <1>1, LenProperties
  <1>4. \A i \in 1 .. m : i \in v <=> i \in w
    <2> SUFFICES ASSUME NEW i \in 1 .. m PROVE i \in v <=> i \in w OBVIOUS
    <2>1. i \in 1 .. m + 1 BY <1>1
    <2> QED BY <2>1, <1>1, <1>2, <1>3 DEF ChunksIn
  <1>5. m + 1 \in v <=> x.is = "chunk"
    <2>1. m + 1 \in 1 .. m + 1 BY <1>1
    <2> QED BY <2>1, <1>1, <1>3 DEF ChunksIn
  <1> HIDE DEF w, v
  <1>6. /\ Picked(g, w) \in Seq(BlockResults)
        /\ Picked(Append(g, x), v) = IF Len(g) + 1 \in v THEN Append(Picked(g, w), x) ELSE Picked(g, w)
    BY <1>4, PickedAppend DEF m
  <1> QED BY <1>5, <1>6 DEF ChunksOf, w, v, t, m

LEMMA NoChunks == ChunksOf(<<>>) = <<>>
  <1> DEFINE e == <<>>
  <1>1. e \in Seq(BlockResults) /\ Len(e) = 0 OBVIOUS
  <1>2. PICK f : Picks(BlockResults, e, ChunksIn(e), f) BY <1>1, PicksExist
  <1>3. Picked(e, ChunksIn(e)) = f[0] BY <1>1, <1>2, PickedIs
  <1>4. f[0] = <<>> BY <1>2 DEF Picks
  <1> QED BY <1>3, <1>4 DEF ChunksOf

LEMMA InAppend ==
  ASSUME NEW S, NEW s \in Seq(S), NEW x \in S, NEW y
  PROVE  y \in ToSet(Append(s, x)) <=> y \in ToSet(s) \/ y = x
  <1> DEFINE t == Append(s, x)
             m == Len(s)
  <1>1. /\ t \in Seq(S) /\ Len(t) = m + 1 /\ t[m + 1] = x /\ \A i \in 1 .. m : t[i] = s[i]
        /\ m \in Nat /\ DOMAIN s = 1 .. m
    BY AppendProperties, LenProperties
  <1> HIDE DEF t, m
  <1>2. DOMAIN t = 1 .. m + 1 BY <1>1, LenProperties
  <1>3. \A i \in 1 .. m + 1 : i \in 1 .. m \/ i = m + 1 BY <1>1
  <1>4. (\A i \in 1 .. m : i \in 1 .. m + 1) /\ m + 1 \in 1 .. m + 1 BY <1>1
  <1> QED BY <1>1, <1>2, <1>3, <1>4 DEF ToSet, t

(* What decode_block makes of a cell that is no header, and of a header. *)
LEMMA DecodeContent ==
  ASSUME NEW cell, NEW at, cell.kind \in {"entry", "main"}
  PROVE  decode_block(cell, at).at = at /\ decode_block(cell, at).result = Error
  <1>1. from_array(cell) = {} BY DEF from_array
  <1> QED BY <1>1 DEF decode_block

LEMMA Fingerprints ==
  /\ from_fingerprint("Sha2_256") = {"Sha256"} /\ from_fingerprint("Sha256__") = {"Sha256"}
  /\ from_fingerprint("BLAKE3__") = {"Blake3"} /\ from_fingerprint("Md5_____") = {}
  <1>1. Spellings("Sha256") = {"Sha2_256", "Sha256__", "Sha2-256"} /\ Spellings("Blake3") = {"Blake3__", "BLAKE3__"}
    BY DEF Spellings
  <1>2. ASSUME NEW fp
        PROVE  from_fingerprint(fp) = {type \in {"Sha256", "Blake3"} : fp \in Spellings(type)}
    BY DEF from_fingerprint
  <1> QED BY <1>1, <1>2

LEMMA HeaderTypes ==
  ASSUME NEW h \in HashHeaders
  PROVE  IF h.data = "Md5_____" THEN from_array(h) = {}
         ELSE \E n \in HashTypes, d \in HashTypes :
                 from_array(h) = {[size |-> h.size, sort |-> h.flags, name_hash |-> n, data_hash |-> d]}
  <1>1. /\ h.kind = "Hashes" /\ h.flags \in 0 .. 3 /\ h.name \in {"Sha2_256", "Sha256__"}
        /\ h.data \in {"Sha2_256", "BLAKE3__", "Md5_____"}
    BY DEF HashHeaders
  <1>2. h.flags % 4 = h.flags BY <1>1
  <1>3. from_fingerprint(h.name) = {"Sha256"} BY <1>1, Fingerprints
  <1> DEFINE fl == h.flags % 4
             ds == from_fingerprint(h.data)
  <1> HIDE DEF fl, ds
  <1>4. from_array(h) = {[size |-> h.size, sort |-> fl, name_hash |-> n, data_hash |-> d] : n \in {"Sha256"}, d \in ds}
    BY <1>1, <1>3 DEF from_array, fl, ds
  <1>5. CASE h.data = "Md5_____"
    <2>1. ds = {} BY <1>5, Fingerprints DEF ds
    <2> QED BY <1>4, <1>5, <2>1
  <1>6. CASE h.data # "Md5_____"
    <2>1. PICK d \in HashTypes : ds = {d} BY <1>1, <1>6, Fingerprints DEF ds, HashTypes
    <2>2. from_array(h) = {[size |-> h.size, sort |-> fl, name_hash |-> "Sha256", data_hash |-> d]}
      BY <1>4, <2>1
    <2>3. from_array(h) = {[size |-> h.size, sort |-> h.flags, name_hash |-> "Sha256", data_hash |-> d]}
      BY <1>2, <2>2 DEF fl
    <2>4. "Sha256" \in HashTypes BY DEF HashTypes
    <2> QED BY <1>6, <2>3, <2>4
  <1> QED BY <1>5, <1>6

(* A block behind whose header the reader is gives its chunk just when it is  *)
(* whole and readable; else the reader stays there or is at the file's end.   *)
Decodes(b, at, d) ==
    IF Readable(b) /\ at + Len(b.body) <= Len(disk)
    THEN /\ d.at = at + Len(b.body)
         /\ d.result \in ChunkResults
         /\ d.result.data = SubSeq(disk, at + 1, at + Len(b.body))
         /\ d.result.sort = b.header.flags
    ELSE /\ d.result \in {Error, Panic}
         /\ \/ d.at = at
            \/ d.at = Len(disk) /\ at + Len(b.body) > Len(disk)

LEMMA DecodeHeader ==
  ASSUME disk \in Seq(AnyCell), NEW b \in FileBlocks, NEW at \in 0 .. Len(disk)
  PROVE  Decodes(b, at, decode_block(b.header, at))
  <1> DEFINE h == b.header
             sz == Len(b.body)
             d == decode_block(h, at)
  <1>1. /\ h \in HashHeaders \union OtherHeaders /\ b.body \in Seq(EntryCell)
        /\ h.kind = "Hashes" => h.size = sz
    BY DEF FileBlocks
  <1>2. sz \in Nat /\ Len(disk) \in Nat BY <1>1, LenProperties
  <1>3. MaxCount \in Nat BY SumFileAssumption
  <1>4. Readable(b) <=> h.kind = "Hashes" /\ h.data # "Md5_____" /\ sz <= MaxCount BY DEF Readable
  <1> HIDE DEF h, sz
  <1>5. CASE h \in OtherHeaders
    <2>1. h.kind \in {"Names", "other"} BY <1>5 DEF OtherHeaders, Cell
    <2>2. ~Readable(b) BY <1>4, <2>1
    <2>3. d.at = at /\ d.result \in {Error, Panic}
      <3>1. CASE h.kind = "Names" BY <3>1 DEF decode_block, read_names
      <3>2. CASE h.kind = "other"
        <4>1. from_array(h) = {} BY <3>2 DEF from_array
        <4> QED BY <3>2, <4>1 DEF decode_block
      <3> QED BY <2>1, <3>1, <3>2
    <2> QED BY <2>2, <2>3 DEF Decodes, h
  <1>6. CASE h \in HashHeaders /\ h.data = "Md5_____"
    <2>1. h.kind = "Hashes" BY <1>6 DEF HashHeaders
    <2>2. from_array(h) = {} BY <1>6, HeaderTypes
    <2>3. d.at = at /\ d.result = Error BY <2>1, <2>2 DEF decode_block
    <2>4. ~Readable(b) BY <1>4, <1>6
    <2> QED BY <2>3, <2>4 DEF Decodes, h
  <1>7. CASE h \in HashHeaders /\ h.data # "Md5_____"
    <2>1. h.kind = "Hashes" /\ h.flags \in 0 .. 3 BY <1>7 DEF HashHeaders
    <2>2. PICK n \in HashTypes, t \in HashTypes :
              from_array(h) = {[size |-> h.size, sort |-> h.flags, name_hash |-> n, data_hash |-> t]}
      BY <1>7, HeaderTypes
    <2> DEFINE r == [size |-> h.size, sort |-> h.flags, name_hash |-> n, data_hash |-> t]
    <2>3. (CHOOSE x \in from_array(h) : TRUE) = r /\ from_array(h) # {} BY <2>2
    <2>4. r.size = sz BY <1>1, <2>1
    <2>5. d = read_body(r, at) BY <2>1, <2>3 DEF decode_block
    <2>6. ChunkRead(r, Body(at, sz)) = [is |-> "chunk", data |-> Body(at, sz), sort |-> h.flags,
                                        name_hash |-> n, data_hash |-> t]
      BY DEF ChunkRead
    <2> HIDE DEF r, d
    <2>7. CASE sz > MaxCount
      <3>1. d.at = at /\ d.result = Error BY <2>4, <2>5, <2>7 DEF read_body
      <3>2. ~Readable(b) BY <1>2, <1>3, <1>4, <2>7
      <3> QED BY <3>1, <3>2 DEF Decodes, d, h
    <2>8. CASE ~(sz > MaxCount) /\ at + sz > Len(disk)
      <3>1. d.at = Len(disk) /\ d.result = Error BY <2>4, <2>5, <2>8 DEF read_body
      <3>2. ~(at + sz <= Len(disk)) BY <1>2, <2>8
      <3> QED BY <3>1, <3>2, <2>8 DEF Decodes, d, h, sz
    <2>9. CASE ~(sz > MaxCount) /\ ~(at + sz > Len(disk))
      <3>1. d.at = at + sz /\ d.result = ChunkRead(r, Body(at, sz)) BY <2>4, <2>5, <2>9 DEF read_body
      <3>2. at + sz <= Len(disk) /\ Readable(b) BY <1>2, <1>3, <1>4, <1>7, <2>1, <2>9
      <3> DEFINE body == SubSeq(disk, at + 1, at + sz)
      <3>3. body \in Seq(AnyCell) BY <1>2, <3>2, Behind
      <3>4. Body(at, sz) = body BY DEF Body
      <3> HIDE DEF body
      <3>5. d.result = [is |-> "chunk", data |-> body, sort |-> h.flags, name_hash |-> n, data_hash |-> t]
        BY <2>6, <3>1, <3>4
      <3>6. d.result \in ChunkResults /\ d.result.data = body /\ d.result.sort = h.flags
        BY <2>1, <3>3, <3>5 DEF ChunkResults
      <3> QED BY <3>1, <3>2, <3>6 DEF Decodes, d, h, sz, body
    <2> QED BY <2>7, <2>8, <2>9
  <1> QED BY <1>1, <1>5, <1>6, <1>7

(* The blocks of the file whose chunk is there, and those of the first i.     *)
Wholes == {i \in DOMAIN layout.blocks : Readable(layout.blocks[i]) /\ EndOfBlock(i) <= Len(disk)}
WholeTo(i) == PickedTo(layout.blocks, Wholes, i)

Match(cs, bs) == /\ Len(cs) = Len(bs)
                 /\ \A k \in 1 .. Len(cs) : cs[k].data = bs[k].body /\ cs[k].sort = bs[k].header.flags

(* The reader is past the headers of the first i blocks and of no other, and  *)
(* it has returned the chunks of these.                                      *)
BlocksAt(at, g, i) ==
    /\ at <= EndOfBlock(i)
    /\ \A c \in at + 1 .. Len(disk) : c <= EndOfBlock(i) => disk[c].kind \in {"entry", "main"}
    /\ Match(ChunksOf(g), WholeTo(i))

BlocksOk(at, g) ==
    /\ g \in Seq(BlockResults)
    /\ at \in 0 .. Len(disk)
    /\ End \in ToSet(g) => at = Len(disk)
    /\ \/ layout.by = "write_vec_bytes" /\ ChunksOf(g) = <<>>
       \/ layout.by \in {"write", "others"} /\ \E i \in 0 .. Len(layout.blocks) : BlocksAt(at, g, i)

BlocksInv == reader.by = "blocks" => BlocksOk(reader.at, got)

LEMMA DiskIs ==
  ASSUME FileInv, layout.by \in {"write", "others"}
  PROVE  /\ CellsLaidOut /\ disk \in Seq(AnyCell) /\ Len(disk) \in Nat
         /\ Len(disk) <= EndOfBlock(Len(layout.blocks))
         /\ \A k \in 1 .. Len(disk) : disk[k] = Cells(layout)[k]
  <1>1. layout \in Layouts /\ Beginning(disk, Cells(layout)) BY DEF FileInv
  <1>2. CellsLaidOut BY <1>1, CellsAre
  <1>3. EndOfBlock(Len(layout.blocks)) = Len(Cells(layout)) BY <1>2 DEF CellsLaidOut
  <1> QED BY <1>1, <1>2, <1>3, LenProperties DEF Beginning

(* The cells of a block of the file. *)
LEMMA BlockOnDisk ==
  ASSUME FileInv, layout.by \in {"write", "others"}, NEW i \in 1 .. Len(layout.blocks)
  PROVE  /\ layout.blocks[i] \in FileBlocks /\ Len(layout.blocks[i].body) \in Nat
         /\ EndOfBlock(i - 1) \in Nat /\ EndOfBlock(i) \in Nat
         /\ EndOfBlock(i) = EndOfBlock(i - 1) + 1 + Len(layout.blocks[i].body)
         /\ EndOfBlock(i - 1) < Len(disk) => disk[EndOfBlock(i - 1) + 1] = layout.blocks[i].header
         /\ \A k \in 1 .. Len(layout.blocks[i].body) :
                EndOfBlock(i - 1) + 1 + k <= Len(disk) =>
                    disk[EndOfBlock(i - 1) + 1 + k] = layout.blocks[i].body[k]
  <1> DEFINE b == layout.blocks[i]
             e == EndOfBlock(i - 1)
             all == Cells(layout)
             m == Len(disk)
             sz == Len(b.body)
  <1>1. /\ CellsLaidOut /\ m \in Nat /\ \A k \in 1 .. m : disk[k] = all[k] BY DiskIs
  <1>2. /\ b \in FileBlocks /\ EndOfBlock(i) = e + 1 + sz /\ all[e + 1] = b.header
        /\ \A k \in 1 .. sz : all[e + 1 + k] = b.body[k]
    BY <1>1 DEF CellsLaidOut
  <1>3. Len(layout.blocks) \in Nat /\ \A j \in 0 .. Len(layout.blocks) : EndOfBlock(j) \in Nat
    BY <1>1 DEF CellsLaidOut
  <1>4. i - 1 \in 0 .. Len(layout.blocks) /\ i \in 0 .. Len(layout.blocks) BY <1>3
  <1>5. e \in Nat /\ EndOfBlock(i) \in Nat BY <1>3, <1>4
  <1>6. sz \in Nat BY <1>2, BlockCellsAre
  <1> HIDE DEF b, e, all, m, sz
  <1>7. ASSUME e < m PROVE disk[e + 1] = b.header
    <2>1. e + 1 \in 1 .. m BY <1>1, <1>5, <1>7
    <2> QED BY <2>1, <1>1, <1>2
  <1>8. ASSUME NEW k \in 1 .. sz, e + 1 + k <= m PROVE disk[e + 1 + k] = b.body[k]
    <2>1. e + 1 + k \in 1 .. m BY <1>1, <1>5, <1>6, <1>8
    <2> QED BY <2>1, <1>1, <1>2
  <1> QED BY <1>2, <1>5, <1>6, <1>7, <1>8 DEF b, e, m, sz

LEMMA WholesGrow ==
  ASSUME FileInv, layout.by \in {"write", "others"}
  PROVE  /\ layout.blocks \in Seq(FileBlocks) /\ Len(layout.blocks) \in Nat
         /\ WholeTo(0) = <<>>
         /\ \A i \in 0 .. Len(layout.blocks) : WholeTo(i) \in Seq(FileBlocks)
         /\ \A i \in 0 .. Len(layout.blocks) - 1 :
                WholeTo(i + 1) = IF i + 1 \in Wholes THEN Append(WholeTo(i), layout.blocks[i + 1])
                                 ELSE WholeTo(i)
  <1> DEFINE bs == layout.blocks
             w == Wholes
  <1>1. bs \in Seq(FileBlocks) BY DEF FileInv, Layouts
  <1>2. Len(bs) \in Nat BY <1>1, LenProperties
  <1> HIDE DEF bs, w
  <1>3. Grows(FileBlocks, bs, w) BY <1>1, PickedNext
  <1> QED BY <1>1, <1>2, <1>3 DEF Grows, WholeTo, bs, w

LEMMA MatchAppend ==
  ASSUME NEW cs \in Seq(BlockResults), NEW bs \in Seq(FileBlocks), Match(cs, bs),
         NEW x \in BlockResults, NEW b \in FileBlocks, x.data = b.body, x.sort = b.header.flags
  PROVE  Match(Append(cs, x), Append(bs, b))
  <1> DEFINE t == Append(cs, x)
             u == Append(bs, b)
             m == Len(cs)
  <1>1. m \in Nat /\ Len(bs) = m /\ \A k \in 1 .. m : cs[k].data = bs[k].body /\ cs[k].sort = bs[k].header.flags
    BY LenProperties DEF Match
  <1>2. Len(t) = m + 1 /\ t[m + 1] = x /\ \A k \in 1 .. m : t[k] = cs[k] BY AppendProperties
  <1>3. Len(u) = m + 1 /\ u[m + 1] = b /\ \A k \in 1 .. m : u[k] = bs[k] BY <1>1, AppendProperties
  <1> HIDE DEF t, u, m
  <1>4. ASSUME NEW k \in 1 .. m + 1 PROVE t[k].data = u[k].body /\ t[k].sort = u[k].header.flags
    <2>1. CASE k = m + 1 BY <2>1, <1>2, <1>3
    <2>2. CASE k # m + 1
      <3>1. k \in 1 .. m BY <2>2, <1>1
      <3> QED BY <3>1, <1>1, <1>2, <1>3
    <2> QED BY <2>1, <2>2
  <1>5. Match(t, u) BY <1>2, <1>3, <1>4 DEF Match
  <1> QED BY <1>5 DEF t, u

LEMMA KindsOfCells ==
  /\ \A c \in EntryCell : c.kind = "entry"
  /\ \A c \in HashHeaders \union OtherHeaders : c.kind \notin {"entry", "main"}
  BY DEF EntryCell, HashHeaders, OtherHeaders, Cell

LEMMA FileKinds ==
  ASSUME FileInv, layout # NoFile
  PROVE  layout.by = "write_vec_bytes" \/ layout.by \in {"write", "others"}
  BY DEF FileInv, Layouts

LEMMA DiskType ==
  ASSUME ChunkInv, FileInv, layout # NoFile
  PROVE  disk \in Seq(AnyCell) /\ Len(disk) \in Nat
  <1>1. CASE layout.by = "write_vec_bytes" BY <1>1, LenProperties DEF FileInv, Beginning
  <1>2. CASE layout.by \in {"write", "others"} BY <1>2, DiskIs
  <1> QED BY <1>1, <1>2, FileKinds

LEMMA NothingGot ==
  /\ <<>> \in Seq(BlockResults) /\ ChunksOf(<<>>) = <<>> /\ ~(End \in ToSet(<<>>))
  /\ Match(<<>>, <<>>)
  <1>1. <<>> \in Seq(BlockResults) OBVIOUS
  <1>2. ~(End \in ToSet(<<>>)) BY DEF ToSet
  <1>3. Match(<<>>, <<>>)
    <2> DEFINE e == <<>>
    <2>1. Len(e) = 0 OBVIOUS
    <2> HIDE DEF e
    <2>2. Match(e, e) BY <2>1 DEF Match
    <2> QED BY <2>2 DEF e
  <1> QED BY <1>1, <1>2, <1>3, NoChunks

LEMMA NewOk ==
  ASSUME ChunkInv, FileInv, layout # NoFile
  PROVE  BlocksOk(0, <<>>)
  <1>1. disk \in Seq(AnyCell) /\ Len(disk) \in Nat BY DiskType
  <1>2. 0 \in 0 .. Len(disk) BY <1>1
  <1>3. CASE layout.by = "write_vec_bytes" BY <1>2, <1>3, NothingGot DEF BlocksOk
  <1>4. CASE layout.by \in {"write", "others"}
    <2>1. CellsLaidOut /\ \A k \in 1 .. Len(disk) : disk[k] = Cells(layout)[k] BY <1>4, DiskIs
    <2>2. /\ Len(layout.blocks) \in Nat /\ EndOfBlock(0) = IF layout.lead = "none" THEN 0 ELSE 1
          /\ layout.lead # "none" => Cells(layout)[1] = Cell("main", layout.lead)
      BY <2>1 DEF CellsLaidOut
    <2>3. ASSUME NEW c \in 0 + 1 .. Len(disk), c <= EndOfBlock(0)
          PROVE  disk[c].kind \in {"entry", "main"}
      <3>1. c = 1 /\ layout.lead # "none" /\ c \in 1 .. Len(disk) BY <1>1, <2>2, <2>3
      <3>2. disk[1] = Cell("main", layout.lead) BY <2>1, <2>2, <3>1
      <3> QED BY <3>1, <3>2 DEF Cell
    <2>4. Match(ChunksOf(<<>>), WholeTo(0)) BY <1>4, WholesGrow, NothingGot
    <2>5. 0 <= EndOfBlock(0) /\ 0 \in 0 .. Len(layout.blocks) BY <2>2
    <2>6. BlocksAt(0, <<>>, 0) BY <2>3, <2>4, <2>5 DEF BlocksAt
    <2> QED BY <1>2, <1>4, <2>5, <2>6, NothingGot DEF BlocksOk
  <1> QED BY <1>3, <1>4, FileKinds

LEMMA OpenOk ==
  ASSUME ChunkInv, FileInv, layout # NoFile, HasMainHeader
  PROVE  BlocksOk(1, <<>>)
  <1>1. disk \in Seq(AnyCell) /\ Len(disk) \in Nat BY DiskType
  <1>2. disk # <<>> /\ disk[1].kind = "main" BY DEF HasMainHeader, Cell
  <1>3. 1 \in 0 .. Len(disk) /\ Len(disk) >= 1 BY <1>1, <1>2, EmptySeq
  <1>4. CASE layout.by = "write_vec_bytes" BY <1>3, <1>4, NothingGot DEF BlocksOk
  <1>5. CASE layout.by \in {"write", "others"}
    <2>1. CellsLaidOut /\ Len(disk) <= EndOfBlock(Len(layout.blocks)) BY <1>5, DiskIs
    <2>2. Len(layout.blocks) \in Nat /\ EndOfBlock(0) = IF layout.lead = "none" THEN 0 ELSE 1
      BY <2>1 DEF CellsLaidOut
    <2>3. EndOfBlock(0) = 1
      <3> SUFFICES ASSUME EndOfBlock(0) = 0 PROVE FALSE BY <2>2
      <3>1. Len(layout.blocks) # 0 BY <1>1, <1>3, <2>1
      <3>2. 1 \in 1 .. Len(layout.blocks) /\ 1 - 1 = 0 BY <2>2, <3>1
      <3>3. /\ layout.blocks[1] \in FileBlocks
            /\ EndOfBlock(1 - 1) < Len(disk) => disk[EndOfBlock(1 - 1) + 1] = layout.blocks[1].header
        BY <1>5, <3>2, BlockOnDisk
      <3>4. EndOfBlock(1 - 1) = 0 BY <3>2
      <3>5. disk[1] = layout.blocks[1].header BY <1>1, <1>3, <3>3, <3>4
      <3>6. layout.blocks[1].header \in HashHeaders \union OtherHeaders BY <3>3 DEF FileBlocks
      <3> QED BY <1>2, <3>5, <3>6, KindsOfCells
    <2>4. ASSUME NEW c \in 1 + 1 .. Len(disk) PROVE ~(c <= EndOfBlock(0)) BY <1>1, <2>3
    <2>5. Match(ChunksOf(<<>>), WholeTo(0)) BY <1>5, WholesGrow, NothingGot
    <2>6. 1 <= EndOfBlock(0) /\ 0 \in 0 .. Len(layout.blocks) BY <2>2, <2>3
    <2>7. BlocksAt(1, <<>>, 0) BY <2>4, <2>5, <2>6 DEF BlocksAt
    <2> QED BY <1>3, <1>5, <2>6, <2>7, NothingGot DEF BlocksOk
  <1> QED BY <1>4, <1>5, FileKinds

LEMMA EndOk ==
  ASSUME NEW at, NEW g, BlocksOk(at, g), at = Len(disk)
  PROVE  BlocksOk(at, Append(g, End))
  <1> DEFINE t == Append(g, End)
  <1>1. g \in Seq(BlockResults) /\ at \in 0 .. Len(disk) BY DEF BlocksOk
  <1>2. End \in BlockResults BY DEF BlockResults
  <1>3. t \in Seq(BlockResults) BY <1>1, <1>2, AppendProperties
  <1>4. ChunksOf(t) = ChunksOf(g) BY <1>1, <1>2, ChunksOfAppend, BlockResultsDiffer
  <1> HIDE DEF t
  <1>5. \A i \in 0 .. Len(layout.blocks) : BlocksAt(at, g, i) => BlocksAt(at, t, i) BY <1>4 DEF BlocksAt
  <1>6. BlocksOk(at, t) BY <1>1, <1>3, <1>4, <1>5 DEF BlocksOk
  <1> QED BY <1>6 DEF t

LEMMA NextOk ==
  ASSUME ChunkInv, FileInv, layout # NoFile, NEW at, NEW g, BlocksOk(at, g), at < Len(disk),
         End \notin ToSet(g)
  PROVE  LET d == decode_block(disk[at + 1], at + 1) IN BlocksOk(d.at, Append(g, d.result))
  <1> DEFINE cell == disk[at + 1]
             d == decode_block(cell, at + 1)
             x == d.result
             t == Append(g, x)
             m == Len(disk)
             n == Len(layout.blocks)
  <1>1. g \in Seq(BlockResults) /\ at \in 0 .. m BY DEF BlocksOk
  <1>2. disk \in Seq(AnyCell) /\ m \in Nat BY DiskType
  <1>3. at + 1 \in 0 .. m /\ at + 1 \in 1 .. m /\ at \in Nat BY <1>1, <1>2
  <1>4. Error \in BlockResults /\ Panic \in BlockResults /\ ChunkResults \subseteq BlockResults
    BY DEF BlockResults
  <1>5. ASSUME x \in {Error, Panic} \union ChunkResults
        PROVE  /\ t \in Seq(BlockResults) /\ ~(End \in ToSet(t))
               /\ x \in {Error, Panic} => ChunksOf(t) = ChunksOf(g)
               /\ x \in ChunkResults => ChunksOf(t) = Append(ChunksOf(g), x)
    <2> HIDE DEF d, x
    <2>1. x \in BlockResults BY <1>4, <1>5
    <2>2. t \in Seq(BlockResults) BY <1>1, <2>1, AppendProperties
    <2>3. x # End BY <1>5, BlockResultsDiffer
    <2>4. ~(End \in ToSet(t)) BY <1>1, <2>1, <2>3, InAppend
    <2>5. ChunksOf(t) = IF x.is = "chunk" THEN Append(ChunksOf(g), x) ELSE ChunksOf(g)
      BY <1>1, <2>1, ChunksOfAppend
    <2> QED BY <2>2, <2>4, <2>5, BlockResultsDiffer
  <1>6. CASE layout.by = "write_vec_bytes"
    <2>1. Beginning(disk, EntryCells(chunk.data)) /\ chunk.data \in Seq(Entries) BY <1>6 DEF FileInv, ChunkInv, Chunks
    <2> DEFINE all == EntryCells(chunk.data)
    <2>2. m <= Len(all) /\ \A k \in 1 .. m : disk[k] = all[k] BY <2>1 DEF Beginning
    <2>3. all \in Seq(EntryCell) BY <2>1, EntryCellsAre
    <2> HIDE DEF all
    <2>4. Len(all) \in Nat /\ \A k \in 1 .. Len(all) : all[k] \in EntryCell BY <2>3, LenProperties, ElementOfSeq
    <2>5. cell \in EntryCell
      <3>1. at + 1 \in 1 .. Len(all) BY <1>2, <1>3, <2>2, <2>4
      <3> QED BY <1>3, <2>2, <2>4, <3>1
    <2>6. cell.kind \in {"entry", "main"} BY <2>5, KindsOfCells
    <2> HIDE DEF cell
    <2>7. d.at = at + 1 /\ x = Error BY <2>6, DecodeContent
    <2>8. ChunksOf(g) = <<>> BY <1>6 DEF BlocksOk
    <2>9. t \in Seq(BlockResults) /\ ~(End \in ToSet(t)) /\ ChunksOf(t) = <<>> BY <1>5, <2>7, <2>8
    <2> HIDE DEF d, t
    <2>10. BlocksOk(d.at, t) BY <1>3, <1>6, <2>7, <2>9 DEF BlocksOk
    <2> QED BY <2>10 DEF d, t, cell
  <1>7. CASE layout.by \in {"write", "others"}
    <2>1. PICK i \in 0 .. n : BlocksAt(at, g, i) BY <1>7 DEF BlocksOk
    <2>2. CellsLaidOut /\ m <= EndOfBlock(n) BY <1>7, DiskIs
    <2>3. n \in Nat /\ \A j \in 0 .. n : EndOfBlock(j) \in Nat BY <2>2 DEF CellsLaidOut
    <2>4. /\ at <= EndOfBlock(i) /\ Match(ChunksOf(g), WholeTo(i))
          /\ \A c \in at + 1 .. m : c <= EndOfBlock(i) => disk[c].kind \in {"entry", "main"}
      BY <2>1 DEF BlocksAt
    <2>5. CASE at + 1 <= EndOfBlock(i)
      <3>1. at + 1 \in at + 1 .. m BY <1>2, <1>3
      <3>2. cell.kind \in {"entry", "main"} BY <2>4, <2>5, <3>1
      <3> HIDE DEF cell
      <3>3. d.at = at + 1 /\ x = Error BY <3>2, DecodeContent
      <3>4. t \in Seq(BlockResults) /\ ~(End \in ToSet(t)) /\ ChunksOf(t) = ChunksOf(g) BY <1>5, <3>3
      <3>5. \A c \in (at + 1) + 1 .. m : c \in at + 1 .. m BY <1>2, <1>3
      <3>6. \A c \in (at + 1) + 1 .. m : c <= EndOfBlock(i) => disk[c].kind \in {"entry", "main"}
        BY <2>4, <3>5
      <3> HIDE DEF d, t
      <3>7. BlocksAt(d.at, t, i) BY <2>4, <2>5, <3>3, <3>4, <3>6 DEF BlocksAt
      <3>8. BlocksOk(d.at, t) BY <1>3, <1>7, <3>3, <3>4, <3>7 DEF BlocksOk
      <3> QED BY <3>8 DEF d, t, cell
    <2>6. CASE ~(at + 1 <= EndOfBlock(i))
      <3> DEFINE j == i + 1
                 b == layout.blocks[j]
                 sz == Len(b.body)
                 e == EndOfBlock(j)
      <3>1. at = EndOfBlock(i) BY <1>3, <2>3, <2>4, <2>6
      <3>2. i # n BY <1>2, <1>3, <2>2, <2>3, <3>1
      <3>3. j \in 1 .. n /\ j - 1 = i /\ i \in 0 .. n - 1 /\ j \in 0 .. n BY <2>3, <3>2
      <3> HIDE DEF j
      <3>4. /\ b \in FileBlocks /\ sz \in Nat /\ e \in Nat
            /\ EndOfBlock(j) = EndOfBlock(j - 1) + 1 + sz
            /\ EndOfBlock(j - 1) < m => disk[EndOfBlock(j - 1) + 1] = b.header
            /\ \A k \in 1 .. sz :
                   EndOfBlock(j - 1) + 1 + k <= m => disk[EndOfBlock(j - 1) + 1 + k] = b.body[k]
        BY <1>7, <3>3, BlockOnDisk
      <3>5. EndOfBlock(j - 1) = at BY <3>1, <3>3
      <3>6. /\ e = at + 1 + sz /\ cell = b.header
            /\ \A k \in 1 .. sz : at + 1 + k <= m => disk[at + 1 + k] = b.body[k]
        BY <3>4, <3>5
      <3>7. /\ WholeTo(i) \in Seq(FileBlocks)
            /\ WholeTo(j) = IF j \in Wholes THEN Append(WholeTo(i), b) ELSE WholeTo(i)
        BY <1>7, <3>3, WholesGrow DEF j
      <3>8. j \in Wholes <=> Readable(b) /\ e <= m
        <4>1. j \in DOMAIN layout.blocks
          <5>1. layout.blocks \in Seq(FileBlocks) BY <1>7, WholesGrow
          <5> QED BY <3>3, <5>1, LenProperties
        <4> QED BY <4>1 DEF Wholes
      <3> HIDE DEF b, e, sz
      <3>9. Decodes(b, at + 1, d) BY <1>2, <1>3, <3>4, <3>6, DecodeHeader
      <3>10. ASSUME NEW c \in (at + 1) + 1 .. m, c <= e PROVE disk[c].kind \in {"entry", "main"}
        <4> DEFINE k == c - (at + 1)
        <4>1. k \in 1 .. sz /\ at + 1 + k = c /\ c <= m
          <5>1. c \in Int /\ at \in Nat /\ sz \in Nat /\ m \in Nat BY <1>2, <1>3, <3>4
          <5>2. (at + 1) + 1 <= c /\ c <= m BY <5>1
          <5>3. c <= at + 1 + sz BY <3>6, <3>10
          <5> HIDE DEF m
          <5> QED BY <5>1, <5>2, <5>3
        <4> HIDE DEF k
        <4>2. disk[c] = b.body[k] BY <3>6, <4>1
        <4>3. b.body \in Seq(EntryCell) BY <3>4, BlockCellsAre
        <4>4. b.body[k] \in EntryCell BY <4>1, <4>3, ElementOfSeq DEF sz
        <4> QED BY <4>2, <4>4, KindsOfCells
      <3> HIDE DEF d, cell, t
      <3>11. CASE Readable(b) /\ (at + 1) + sz <= m
        <4>1. /\ d.at = (at + 1) + sz /\ x \in ChunkResults
              /\ x.data = SubSeq(disk, (at + 1) + 1, (at + 1) + sz) /\ x.sort = b.header.flags
          BY <3>9, <3>11 DEF Decodes, sz
        <4>2. d.at = e /\ e <= m /\ d.at \in 0 .. m BY <1>2, <1>3, <3>4, <3>6, <3>11, <4>1
        <4>3. WholeTo(j) = Append(WholeTo(i), b) BY <3>7, <3>8, <3>11, <4>2
        <4>4. x.data = b.body
          <5> DEFINE u == SubSeq(disk, (at + 1) + 1, (at + 1) + sz)
          <5>1. u \in Seq(AnyCell) /\ Len(u) = sz /\ \A k \in 1 .. sz : u[k] = disk[(at + 1) + k]
            <6> DEFINE q == at + 1
            <6>1. disk \in Seq(AnyCell) /\ q \in Nat /\ sz \in Nat /\ q + sz <= Len(disk)
              BY <1>2, <1>3, <3>4, <3>11
            <6> HIDE DEF q
            <6>2. /\ SubSeq(disk, q + 1, q + sz) \in Seq(AnyCell) /\ Len(SubSeq(disk, q + 1, q + sz)) = sz
                  /\ \A k \in 1 .. sz : SubSeq(disk, q + 1, q + sz)[k] = disk[q + k]
              BY <6>1, Behind
            <6> QED BY <6>2 DEF q
          <5>2. x.data = u BY <4>1
          <5> HIDE DEF u
          <5>3. b.body \in Seq(AnyCell) /\ Len(b.body) = sz
            <6>1. b.body \in Seq(EntryCell) BY <3>4, BlockCellsAre
            <6>2. EntryCell \subseteq AnyCell BY DEF AnyCell
            <6> QED BY <6>1, <6>2, SeqOfMore DEF sz
          <5>4. \A k \in 1 .. sz : u[k] = b.body[k]
            <6> SUFFICES ASSUME NEW k \in 1 .. sz PROVE u[k] = b.body[k] OBVIOUS
            <6>1. at + 1 + k <= m /\ (at + 1) + k = at + 1 + k BY <1>2, <1>3, <3>4, <3>11
            <6> QED BY <6>1, <3>6, <5>1
          <5>5. u = b.body BY <5>1, <5>3, <5>4, SeqEqual
          <5> QED BY <5>2, <5>5
        <4>5. /\ t \in Seq(BlockResults) /\ ~(End \in ToSet(t))
              /\ ChunksOf(t) = Append(ChunksOf(g), x)
          BY <1>5, <4>1 DEF t
        <4>6. Match(Append(ChunksOf(g), x), Append(WholeTo(i), b))
          <5>1. ChunksOf(g) \in Seq(BlockResults) /\ x \in BlockResults
            <6>1. x \in BlockResults BY <1>4, <4>1
            <6> QED BY <6>1, <1>1, ChunksOfAppend
          <5> QED BY <5>1, <2>4, <3>4, <3>7, <4>1, <4>4, MatchAppend
        <4>7. \A c \in e + 1 .. m : ~(c <= e) BY <1>2, <3>4
        <4>8. BlocksAt(d.at, t, j)
          <5>1. Match(ChunksOf(t), WholeTo(j)) BY <4>3, <4>5, <4>6
          <5>2. d.at <= EndOfBlock(j) BY <3>4, <4>2 DEF e
          <5>3. \A c \in d.at + 1 .. m : ~(c <= EndOfBlock(j)) BY <4>2, <4>7 DEF e
          <5> QED BY <5>1, <5>2, <5>3 DEF BlocksAt
        <4>9. BlocksOk(d.at, t) BY <1>7, <3>3, <4>2, <4>5, <4>8 DEF BlocksOk
        <4> QED BY <4>9 DEF d, t, cell
      <3>12. CASE ~(Readable(b) /\ (at + 1) + sz <= m)
        <4>1. /\ x \in {Error, Panic}
              /\ \/ d.at = at + 1
                 \/ d.at = m /\ (at + 1) + sz > m
          BY <3>9, <3>12 DEF Decodes, sz
        <4>2. j \notin Wholes BY <1>2, <1>3, <3>4, <3>6, <3>8, <3>12
        <4>3. WholeTo(j) = WholeTo(i) BY <3>7, <4>2
        <4>4. t \in Seq(BlockResults) /\ ~(End \in ToSet(t)) /\ ChunksOf(t) = ChunksOf(g)
          BY <1>5, <4>1 DEF t
        <4>5. d.at <= e /\ d.at \in 0 .. m BY <1>2, <1>3, <3>4, <3>6, <4>1
        <4>6. ASSUME NEW c \in d.at + 1 .. m, c <= e PROVE disk[c].kind \in {"entry", "main"}
          <5>1. c \in (at + 1) + 1 .. m BY <1>2, <1>3, <4>1, <4>6
          <5> QED BY <3>10, <4>6, <5>1
        <4>7. BlocksAt(d.at, t, j)
          <5>1. Match(ChunksOf(t), WholeTo(j)) BY <2>4, <4>3, <4>4
          <5> QED BY <4>5, <4>6, <5>1 DEF BlocksAt, e
        <4>8. BlocksOk(d.at, t) BY <1>7, <3>3, <4>4, <4>5, <4>7 DEF BlocksOk
        <4> QED BY <4>8 DEF d, t, cell
      <3> QED BY <3>11, <3>12
    <2> QED BY <2>5, <2>6
  <1> QED BY <1>6, <1>7, FileKinds

LEMMA BlocksGive ==
  ASSUME ChunkInv, FileInv, BlocksInv
  PROVE  BlocksTrue
  <1> SUFFICES ASSUME reader.by = "blocks"
               PROVE  /\ Len(ChunksOf(got)) <= Len(Whole)
                      /\ \A k \in DOMAIN ChunksOf(got) :
                             /\ ChunksOf(got)[k].data = Whole[k].body
                             /\ ChunksOf(got)[k].sort = Whole[k].header.flags
                      /\ End \in ToSet(got) => Len(ChunksOf(got)) = Len(Whole)
    BY DEF BlocksTrue, ChunksOf, ChunksIn
  <1> DEFINE cs == ChunksOf(got)
             bs == layout.blocks
             n == Len(bs)
             w == Wholes
  <1>1. BlocksOk(reader.at, got) BY DEF BlocksInv
  <1>2. layout # NoFile BY DEF FileInv, Nobody
  <1>3. bs \in Seq(FileBlocks) /\ n \in Nat BY LenProperties DEF FileInv, Layouts
  <1>4. got \in Seq(BlockResults) BY <1>1 DEF BlocksOk
  <1>5. cs \in Seq(BlockResults)
    <2>1. Error \in BlockResults BY DEF BlockResults
    <2> QED BY <1>4, <2>1, ChunksOfAppend
  <1>6. DOMAIN cs = 1 .. Len(cs) /\ Len(cs) \in Nat BY <1>5, LenProperties
  <1>7. Whole = Picked(bs, w) BY DEF Whole, Wholes
  <1>8. Whole = PickedTo(bs, w, n) BY <1>3, <1>7, FirstParts DEF PickedTo
  <1>9. CASE layout.by = "write_vec_bytes"
    <2>1. bs = <<>> BY <1>9 DEF FileInv
    <2>2. n = 0 /\ cs = <<>>
      <3>1. n = 0 BY <2>1
      <3>2. cs = <<>> BY <1>1, <1>9 DEF BlocksOk
      <3> QED BY <3>1, <3>2
    <2> HIDE DEF bs, w, n, cs
    <2>3. Grows(FileBlocks, bs, w) BY <1>3, PickedNext
    <2>4. Whole = <<>> BY <1>8, <2>2, <2>3 DEF Grows
    <2>5. Len(<<>>) = 0 OBVIOUS
    <2>6. Len(cs) = 0 /\ Len(Whole) = 0 BY <2>2, <2>4, <2>5
    <2>7. DOMAIN cs = {} BY <1>6, <2>6
    <2> QED BY <2>6, <2>7 DEF cs
  <1>10. CASE layout.by \in {"write", "others"}
    <2>1. PICK i \in 0 .. n : BlocksAt(reader.at, got, i) BY <1>1, <1>10 DEF BlocksOk
    <2> DEFINE v == PickedTo(bs, w, i)
    <2>2. /\ reader.at <= EndOfBlock(i)
          /\ Len(cs) = Len(v) /\ \A k \in 1 .. Len(cs) : cs[k].data = v[k].body /\ cs[k].sort = v[k].header.flags
      BY <2>1 DEF BlocksAt, Match, WholeTo
    <2>3. n \in i .. n BY <1>3
    <2>4. \A j \in i .. n : /\ Len(PickedTo(bs, w, i)) <= Len(PickedTo(bs, w, j))
                            /\ \A k \in 1 .. Len(PickedTo(bs, w, i)) :
                                   PickedTo(bs, w, j)[k] = PickedTo(bs, w, i)[k]
      <3> HIDE DEF w
      <3> QED BY <1>3, PickedGrows
    <2>5. Len(v) <= Len(Whole) /\ \A k \in 1 .. Len(v) : Whole[k] = v[k] BY <1>8, <2>3, <2>4
    <2>6. ASSUME End \in ToSet(got) PROVE Len(cs) = Len(Whole)
      <3>1. reader.at = Len(disk) BY <1>1, <2>6 DEF BlocksOk
      <3>2. CellsLaidOut BY <1>10, DiskIs
      <3>3. NoneAfter(i, n, w)
        <4> SUFFICES ASSUME NEW j \in i + 1 .. n PROVE j \notin w BY DEF NoneAfter
        <4>1. EndOfBlock(i) < EndOfBlock(j) BY <3>2, EndsAscend
        <4>2. EndOfBlock(i) \in Nat /\ EndOfBlock(j) \in Nat
          <5>1. j \in 0 .. n BY <1>3
          <5> QED BY <3>2, <5>1 DEF CellsLaidOut
        <4>3. Len(disk) \in Nat BY <1>10, DiskIs
        <4>4. ~(EndOfBlock(j) <= Len(disk)) BY <2>2, <3>1, <4>1, <4>2, <4>3
        <4> QED BY <4>4 DEF Wholes
      <3> HIDE DEF w, bs, n
      <3>4. NoneAfter(i, n, w) => Picked(bs, w) = PickedTo(bs, w, i) BY <1>3, PickedRest DEF n
      <3>5. Whole = v BY <1>7, <3>3, <3>4
      <3> QED BY <2>2, <3>5
    <2> HIDE DEF cs, v
    <2>7. Len(cs) <= Len(Whole) BY <2>2, <2>5
    <2>8. \A k \in 1 .. Len(cs) : cs[k].data = Whole[k].body /\ cs[k].sort = Whole[k].header.flags
      BY <2>2, <2>5
    <2> QED BY <1>6, <2>6, <2>7, <2>8 DEF cs
  <1> QED BY <1>2, <1>9, <1>10, FileKinds

--------------------------------------------------------------------------------
(* The invariant: the chunk, the file, and what its reader has returned.     *)
RawInv == layout.by = "write_vec_bytes" /\ reader.by = "raw" => got = SubSeq(Written, 1, Len(disk))

IterInv == layout.by = "write" /\ reader.by = "iter" => Streamed(reader, got, Written, Len(disk))

ReaderInv == ChunkReadsBack /\ RawInv /\ IterInv /\ BlocksInv

SumFileInv == ChunkInv /\ FileInv /\ ReaderInv

LEMMA NobodyReads == reader.by = "nobody" => ReaderInv
  BY DEF ReaderInv, ChunkReadsBack, RawInv, IterInv, BlocksInv

LEMMA BlocksKept ==
  ASSUME disk' = disk, layout' = layout, reader'.by = "blocks" => BlocksOk(reader'.at, got')
  PROVE  BlocksInv'
  <1>1. Wholes' = Wholes BY DEF Wholes, EndOfBlock
  <1>2. \A i : EndOfBlock(i)' = EndOfBlock(i) BY DEF EndOfBlock
  <1>3. \A i : WholeTo(i)' = WholeTo(i) BY <1>1 DEF WholeTo
  <1> QED BY <1>2, <1>3 DEF BlocksInv, BlocksOk, BlocksAt

LEMMA LoadKeepsFile ==
  ASSUME SumFileInv, Load
  PROVE  /\ layout # NoFile /\ ChunkInv' /\ FileInv'
         /\ chunk' = chunk /\ disk' = disk /\ layout' = layout
  <1>1. chunk' = chunk /\ checked' = checked /\ disk' = disk /\ layout' = layout BY DEF Load
  <1>2. layout # NoFile
    <2>1. iter_next => reader.by = "iter" BY DEF iter_next
    <2>2. read_next_block => reader.by = "blocks" BY DEF read_next_block
    <2>3. Nobody.by = "nobody" BY DEF Nobody
    <2>4. layout = NoFile => reader = Nobody BY DEF SumFileInv, FileInv
    <2> QED BY <2>1, <2>2, <2>3, <2>4 DEF Load
  <1>3. ChunkInv' BY <1>1 DEF SumFileInv, ChunkInv
  <1>4. FileInv' BY <1>1, <1>2 DEF SumFileInv, FileInv
  <1> QED BY <1>1, <1>2, <1>3, <1>4

LEMMA LoadKeepsReader ==
  ASSUME SumFileInv, Load
  PROVE  ReaderInv'
  <1>1. /\ layout # NoFile /\ chunk' = chunk /\ disk' = disk /\ layout' = layout BY LoadKeepsFile
  <1>2. ChunkInv /\ FileInv BY DEF SumFileInv
  <1>3. Written' = Written BY <1>1 DEF Written
  <1>4. CASE read
    <2>1. reader'.by = "read" BY <1>4 DEF read, Reading
    <2>2. layout.by = "write" => got' = ReadResult BY <1>2, <1>4, ReadGives
    <2>3. ChunkReadsBack' BY <1>1, <2>2 DEF ChunkReadsBack, ReadResult
    <2> QED BY <2>1, <2>3 DEF ReaderInv, RawInv, IterInv, BlocksInv
  <1>5. CASE iter_new
    <2>1. reader'.by = "iter" BY <1>5 DEF iter_new, Reading
    <2>2. layout.by = "write" => Streamed(reader', got', Written, Len(disk)) BY <1>2, <1>5, IterNewStreams
    <2>3. IterInv' BY <1>1, <1>3, <2>2 DEF IterInv
    <2> QED BY <2>1, <2>3 DEF ReaderInv, ChunkReadsBack, RawInv, BlocksInv
  <1>6. CASE read_vec_bytes
    <2>1. reader'.by = "raw" BY <1>6 DEF read_vec_bytes, Reading
    <2>2. layout.by = "write_vec_bytes" => got' = SubSeq(Written, 1, Len(disk)) BY <1>2, <1>6, RawGives
    <2>3. RawInv' BY <1>1, <1>3, <2>2 DEF RawInv
    <2> QED BY <2>1, <2>3 DEF ReaderInv, ChunkReadsBack, IterInv, BlocksInv
  <1>7. CASE open
    <2>1. CASE HasMainHeader
      <3>1. reader' = [by |-> "blocks", at |-> 1, left |-> 0] /\ got' = <<>> BY <1>7, <2>1 DEF open, Reading
      <3>2. BlocksOk(1, <<>>) BY <1>1, <1>2, <2>1, OpenOk
      <3>3. BlocksInv' BY <1>1, <3>1, <3>2, BlocksKept
      <3> QED BY <3>1, <3>3 DEF ReaderInv, ChunkReadsBack, IterInv, RawInv
    <2>2. CASE ~HasMainHeader
      <3>1. reader'.by = "nobody" BY <1>7, <2>2 DEF open, Reading
      <3> QED BY <3>1 DEF ReaderInv, ChunkReadsBack, RawInv, IterInv, BlocksInv
    <2> QED BY <2>1, <2>2
  <1>8. CASE new
    <2>1. reader' = [by |-> "blocks", at |-> 0, left |-> 0] /\ got' = <<>> BY <1>8 DEF new, Reading
    <2>2. BlocksOk(0, <<>>) BY <1>1, <1>2, NewOk
    <2>3. BlocksInv' BY <1>1, <2>1, <2>2, BlocksKept
    <2> QED BY <2>1, <2>3 DEF ReaderInv, ChunkReadsBack, IterInv, RawInv
  <1>9. CASE iter_next
    <2>1. reader.by = "iter" /\ reader'.by = "iter" BY <1>9 DEF iter_next, Reading
    <2>2. layout.by = "write" => Streamed(reader, got, Written, Len(disk))
      BY <2>1 DEF SumFileInv, ReaderInv, IterInv
    <2>3. layout.by = "write" => Streamed(reader', got', Written, Len(disk))
      BY <1>2, <1>9, <2>2, IterNextStreams
    <2>4. IterInv' BY <1>1, <1>3, <2>3 DEF IterInv
    <2> QED BY <2>1, <2>4 DEF ReaderInv, ChunkReadsBack, RawInv, BlocksInv
  <1>10. CASE read_next_block
    <2>1. reader.by = "blocks" /\ End \notin ToSet(got) BY <1>10 DEF read_next_block
    <2>2. BlocksOk(reader.at, got) BY <2>1 DEF SumFileInv, ReaderInv, BlocksInv
    <2>3. Len(disk) \in Nat /\ reader.at \in 0 .. Len(disk)
      <3>1. Len(disk) \in Nat BY <1>1, <1>2, DiskType
      <3> QED BY <2>2, <3>1 DEF BlocksOk
    <2>4. reader'.by = "blocks" BY <1>10 DEF read_next_block, NextBlock, Reading
    <2>5. BlocksOk(reader'.at, got')
      <3>1. CASE Left = 0
        <4>1. reader'.at = reader.at /\ got' = Append(got, End)
          BY <1>10, <3>1 DEF read_next_block, NextBlock, Reading
        <4>2. reader.at = Len(disk) BY <2>3, <3>1 DEF Left
        <4>3. BlocksOk(reader.at, Append(got, End)) BY <2>2, <4>2, EndOk
        <4> QED BY <4>1, <4>3
      <3>2. CASE Left # 0
        <4> DEFINE d == decode_block(disk[reader.at + 1], reader.at + 1)
        <4>1. reader'.at = d.at /\ got' = Append(got, d.result)
          BY <1>10, <3>2 DEF read_next_block, NextBlock, Reading
        <4>2. reader.at < Len(disk) BY <2>3, <3>2 DEF Left
        <4>3. BlocksOk(d.at, Append(got, d.result)) BY <1>1, <1>2, <2>1, <2>2, <4>2, NextOk
        <4> HIDE DEF d
        <4> QED BY <4>1, <4>3
      <3> QED BY <3>1, <3>2
    <2>6. BlocksInv' BY <1>1, <2>5, BlocksKept
    <2> QED BY <2>4, <2>6 DEF ReaderInv, ChunkReadsBack, RawInv, IterInv
  <1> QED BY <1>4, <1>5, <1>6, <1>7, <1>8, <1>9, <1>10 DEF Load

(* The chunk in memory, the file and its reader agree whatever chunk is       *)
(* prepared, whoever writes the file, wherever the writing stops and whoever  *)
(* reads it.                                                                 *)
THEOREM SumFileInvariant == SumFileSpec => []SumFileInv
  <1>1. SumFileInit => SumFileInv
    <2> HAVE SumFileInit
    <2>1. reader.by = "nobody" BY DEF SumFileInit, Nobody
    <2> QED BY <2>1, ChunkStarts, FileStarts, NobodyReads DEF SumFileInv
  <1>2. SumFileInv /\ [SumFileNext]_sumFileVars => SumFileInv'
    <2> SUFFICES ASSUME SumFileInv, [SumFileNext]_sumFileVars PROVE SumFileInv' OBVIOUS
    <2>1. ChunkInv /\ FileInv BY DEF SumFileInv
    <2>2. CASE Prepare
      <3>1. ChunkInv' BY <2>1, <2>2, ChunkPrepared DEF Prepare
      <3>2. FileInv' BY <2>1, <2>2, FilePrepared
      <3>3. reader'.by = "nobody" BY <2>1, <2>2 DEF Prepare, FileInv, Nobody
      <3>4. ReaderInv' BY <3>3 DEF ReaderInv, ChunkReadsBack, RawInv, IterInv, BlocksInv
      <3> QED BY <3>1, <3>2, <3>4 DEF SumFileInv
    <2>3. CASE Store
      <3>1. FileInv' /\ reader' = Nobody BY <2>1, <2>3, FileStored
      <3>2. ChunkInv' BY <2>1, <2>3 DEF Store, ChunkInv
      <3>3. reader'.by = "nobody" BY <3>1 DEF Nobody
      <3>4. ReaderInv' BY <3>3 DEF ReaderInv, ChunkReadsBack, RawInv, IterInv, BlocksInv
      <3> QED BY <3>1, <3>2, <3>4 DEF SumFileInv
    <2>4. CASE Load BY <2>4, LoadKeepsFile, LoadKeepsReader DEF SumFileInv
    <2>5. CASE UNCHANGED sumFileVars
      <3>1. /\ chunk' = chunk /\ checked' = checked /\ disk' = disk /\ layout' = layout
            /\ reader' = reader /\ got' = got
        BY <2>5 DEF sumFileVars
      <3>2. ChunkInv' BY <2>1, <3>1 DEF ChunkInv
      <3>3. FileInv' BY <2>1, <3>1 DEF FileInv
      <3>4. ReaderInv BY DEF SumFileInv
      <3>5. BlocksInv'
        <4>1. reader'.by = "blocks" => BlocksOk(reader'.at, got') BY <3>1, <3>4 DEF ReaderInv, BlocksInv
        <4> QED BY <3>1, <4>1, BlocksKept
      <3>6. ChunkReadsBack' BY <3>1, <3>4 DEF ReaderInv, ChunkReadsBack
      <3>7. RawInv' /\ IterInv' BY <3>1, <3>4 DEF ReaderInv, RawInv, IterInv, Written
      <3> QED BY <3>2, <3>3, <3>5, <3>6, <3>7 DEF SumFileInv, ReaderInv
    <2> QED BY <2>2, <2>3, <2>4, <2>5 DEF SumFileNext
  <1> QED BY <1>1, <1>2, PTL DEF SumFileSpec

(* After sort or verify_update_sorted a chunk claims just the order it has.  *)
THEOREM FlagsHonest == SumFileSpec => []SortFlagChecked
  <1>1. SumFileInv => SortFlagChecked BY ChunkGivesFlag DEF SumFileInv
  <1> QED BY <1>1, SumFileInvariant, PTL

(* HashesChunk::read gives the whole chunk that was written, or an error.    *)
THEOREM ChunksReadBack == SumFileSpec => []ChunkReadsBack
  <1>1. SumFileInv => ChunkReadsBack BY DEF SumFileInv, ReaderInv
  <1> QED BY <1>1, SumFileInvariant, PTL

(* HashesIterChunk and the dumps without header give what was written, in     *)
(* order, up to where the writing stopped; the iterator says where it did.   *)
THEOREM EntriesAlwaysStreamed == SumFileSpec => []EntriesStreamed
  <1>1. SumFileInv => EntriesStreamed
    <2> HAVE SumFileInv
    <2>1. ChunkInv /\ FileInv /\ RawInv /\ IterInv BY DEF SumFileInv, ReaderInv
    <2>2. layout.by = "write" /\ reader.by = "iter" => StreamGood(got, Written, Len(disk))
      <3> HAVE layout.by = "write" /\ reader.by = "iter"
      <3>1. Streamed(reader, got, Written, Len(disk)) BY <2>1 DEF IterInv
      <3>2. Written \in Seq(EntryReads) /\ Len(Written) = Len(chunk.data) BY <2>1, WrittenIs
      <3>3. Len(disk) \in Nat /\ Len(disk) <= 1 + Len(chunk.data) BY <2>1, WrittenFile
      <3> QED BY <3>1, <3>2, <3>3, StreamGives
    <2> QED BY <2>1, <2>2 DEF EntriesStreamed, StreamGood, RawInv, Written
  <1> QED BY <1>1, SumFileInvariant, PTL

(* Reading a file block by block gives just the chunks that are whole in it   *)
(* and readable, in their order, past whatever is refused or missed.         *)
THEOREM BlocksAlwaysTrue == SumFileSpec => []BlocksTrue
  <1>1. SumFileInv => BlocksTrue BY BlocksGive DEF SumFileInv, ReaderInv
  <1> QED BY <1>1, SumFileInvariant, PTL
================================================================================
