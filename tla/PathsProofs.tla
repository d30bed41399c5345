------------------------------ MODULE PathsProofs ------------------------------
(***************************************************************************)
(* Proofs about names and paths: FileNames and Bungee, for every set of       *)
(* names, every width of bytes and positions, and any number of pushes, and   *)
(* the walk of FileScanner and FileIndex, for every tree.                    *)
(*                                                                          *)
(* What an index or a NameRefId stands for never changes.  For BungeeStr it   *)
(* takes three steps: a number that was written is read back from either side *)
(* (WriteIs); so a record is read back from its end (RecordReadBack); and the *)
(* records of a buffer do not move when it grows (BungeeInv), so that         *)
(* following prev or skip from an index meets the records that were pushed    *)
(* (InvPathsKept, InvSkips).                                                 *)
(*                                                                          *)
(* What the stack of a walk does not say is which directories its levels are  *)
(* of: the proofs carry that chain of directories beside it.                 *)
(***************************************************************************)
EXTENDS FileIndex, NameStores, DataInduction, SequenceTheorems

--------------------------------------------------------------------------------
(* NamesStorage. *)

(* A part of a string stays where it is when the string grows. *)
LEMMA PartKept ==
  ASSUME NEW s \in Seq(Nat), NEW t \in Seq(Nat), NEW p \in Nat, NEW l \in Nat,
         p + l <= Len(s)
  PROVE  SubSeq(s \o t, p + 1, p + l) = SubSeq(s, p + 1, p + l)
  <1>1. s \o t \in Seq(Nat) /\ Len(s \o t) = Len(s) + Len(t) OBVIOUS
  <1>2. \A i \in 1 .. Len(s) : (s \o t)[i] = s[i] OBVIOUS
  <1>3. SubSeq(s, p + 1, p + l) = [i \in 1 .. l |-> s[p + i]]
    OBVIOUS
  <1>4. SubSeq(s \o t, p + 1, p + l) = [i \in 1 .. l |-> (s \o t)[p + i]]
    BY <1>1
  <1> QED BY <1>2, <1>3, <1>4

(* The part that was appended is read back. *)
LEMMA AppendedPart ==
  ASSUME NEW s \in Seq(Nat), NEW t \in Seq(Nat)
  PROVE  SubSeq(s \o t, Len(s) + 1, Len(s) + Len(t)) = t
  <1>1. s \o t \in Seq(Nat) /\ Len(s \o t) = Len(s) + Len(t) OBVIOUS
  <1>2. \A i \in 1 .. Len(t) : (s \o t)[Len(s) + i] = t[i] OBVIOUS
  <1>3. SubSeq(s \o t, Len(s) + 1, Len(s) + Len(t)) = [i \in 1 .. Len(t) |-> (s \o t)[Len(s) + i]]
    BY <1>1
  <1>4. t = [i \in 1 .. Len(t) |-> t[i]] OBVIOUS
  <1> QED BY <1>2, <1>3, <1>4

NameRefs == [pos : Nat, len : Nat]

(* The position that is counted beside an encoder is the length of what the  *)
(* encoder was given.                                                        *)
NamesInv == /\ storage \in {"FileNames", "FlatedFileNames"}
            /\ string \in Seq(Nat) /\ pos \in Nat
            /\ storage = "FlatedFileNames" => pos = Len(string)
            /\ ids \in Seq([id : NameRefs, name : Seq(Nat)])
            /\ NamesKept

LEMMA NamesInvInit == NamesInit => NamesInv
  BY DEF NamesInit, NamesInv, NamesKept

Records == [id : NameRefs, name : Seq(Nat)]

LEMMA StoredKeeps ==
  ASSUME NamesInv, NEW name \in Strings, ~Refused(name), Stored(name), UNCHANGED storage
  PROVE  NamesInv'
  <1>1. /\ name \in Seq(Nat) /\ Len(name) \in Nat
        /\ string \in Seq(Nat) /\ Len(string) \in Nat
        /\ ids \in Seq(Records) /\ Len(ids) \in Nat
    BY FileNamesAssumption DEF NamesInv, Records
  <1>2. Start = Len(string) BY DEF Start, NamesInv
  <1>3. NameRefId(name) = [pos |-> Len(string), len |-> Len(name)]
    <2>1. U32 \in Nat /\ Len(string) < U32 /\ Len(name) < U32
      BY <1>1, <1>2, FileNamesAssumption DEF Refused
    <2>2. \A n \in Nat : n < U32 => n % U32 = n BY <2>1
    <2> QED BY <1>1, <1>2, <2>1, <2>2 DEF NameRefId
  <1>4. string' = string \o name BY DEF Stored
  <1>5. string' \in Seq(Nat) /\ Len(string') = Len(string) + Len(name)
    BY <1>1, <1>4
  <1>6. pos' \in Nat /\ (storage' = "FlatedFileNames" => pos' = Len(string'))
    <2>1. CASE storage = "FlatedFileNames"
      <3>1. pos' = pos + Len(name) /\ pos = Len(string) BY <2>1 DEF Stored, NamesInv
      <3> QED BY <1>1, <1>5, <3>1
    <2>2. CASE storage # "FlatedFileNames" BY <2>2 DEF Stored, NamesInv
    <2> QED BY <2>1, <2>2
  <1> DEFINE new == [id |-> NameRefId(name), name |-> name]
  <1>7. new \in Records BY <1>1, <1>3 DEF NameRefs, Records
  <1>8. ids' = Append(ids, new) BY DEF Stored
  <1> HIDE DEF new
  <1>9. /\ ids' \in Seq(Records) /\ DOMAIN ids' = 1 .. Len(ids) + 1
        /\ \A i \in 1 .. Len(ids) : ids'[i] = ids[i]
        /\ ids'[Len(ids) + 1] = new
    BY <1>1, <1>7, <1>8
  <1>10. ASSUME NEW i \in DOMAIN ids'
         PROVE  /\ ids'[i].id.pos + ids'[i].id.len <= Len(string')
                /\ get(ids[i].id)' = ids'[i].name
    <2>1. CASE i \in 1 .. Len(ids)
      <3> DEFINE r == ids[i]
      <3>1. ids'[i] = r /\ i \in DOMAIN ids /\ r \in Records BY <1>1, <1>9, <2>1
      <3>2. r.id.pos + r.id.len <= Len(string) /\ get(r.id) = r.name
        BY <3>1 DEF NamesInv, NamesKept
      <3> HIDE DEF r
      <3>3. r.id.pos \in Nat /\ r.id.len \in Nat BY <3>1 DEF NameRefs, Records
      <3>4. SubSeq(string', r.id.pos + 1, r.id.pos + r.id.len)
              = SubSeq(string, r.id.pos + 1, r.id.pos + r.id.len)
        BY ZenonT(60), <1>1, <1>4, <3>2, <3>3, PartKept
      <3>5. SubSeq(string', r.id.pos + 1, r.id.pos + r.id.len) = r.name
        BY <3>2, <3>4 DEF get
      <3>6. r.id.pos + r.id.len <= Len(string') BY <1>1, <1>5, <3>2, <3>3
      <3> QED BY <3>1, <3>5, <3>6 DEF get
    <2>2. CASE i = Len(ids) + 1
      <3>1. /\ ids'[i].id.pos = Len(string) /\ ids'[i].id.len = Len(name)
            /\ ids'[i].name = name
        BY <1>3, <1>9, <2>2 DEF new
      <3>2. SubSeq(string', Len(string) + 1, Len(string) + Len(name)) = name
        BY <1>1, <1>4, AppendedPart
      <3> QED BY <1>5, <3>1, <3>2 DEF get
    <2> QED BY <1>1, <1>9, <2>1, <2>2
  <1>11. NamesKept' BY <1>10 DEF NamesKept
  <1> QED BY <1>5, <1>6, <1>9, <1>11 DEF NamesInv, Records

LEMMA NamesInvStep == NamesInv /\ [NamesNext]_namesVars => NamesInv'
  <1> SUFFICES ASSUME NamesInv, [NamesNext]_namesVars PROVE NamesInv'
    OBVIOUS
  <1>1. CASE UNCHANGED <<storage, string, pos, ids>>
    BY <1>1 DEF NamesInv, NamesKept, get
  <1>2. ASSUME NEW name \in Strings, try_push(name) \/ collect(name) PROVE NamesInv'
    <2>1. CASE Refused(name) BY <1>1, <1>2, <2>1 DEF try_push, collect
    <2>2. CASE ~Refused(name) BY <1>2, <2>2, StoredKeeps DEF try_push, collect
    <2> QED BY <2>1, <2>2
  <1>3. CASE finish BY <1>3 DEF finish, NamesInv, NamesKept, get
  <1> QED BY <1>1, <1>2, <1>3 DEF NamesNext, namesVars

(* Every NameRefId returned stands for its name for ever, whatever was       *)
(* refused or panicked between, and however the storage was written.         *)
THEOREM NamesNeverMove == NamesSpec => []NamesKept
  <1>1. NamesInv => NamesKept BY DEF NamesInv
  <1> QED BY NamesInvInit, NamesInvStep, <1>1, PTL DEF NamesSpec

--------------------------------------------------------------------------------
(* Maxima and minima. *)

LEMMA MaxOfSet ==
  ASSUME NEW n \in Nat, NEW T \in SUBSET (1 .. n), T # {}
  PROVE  Max(T) \in T /\ \A x \in T : x <= Max(T)
  <1> DEFINE R == {n - x : x \in T}
  <1>0. \A x \in T : n - x \in Nat OBVIOUS
  <1>1. R \in SUBSET Nat /\ R # {} BY <1>0
  <1>2. PICK r \in R : \A y \in R : r <= y BY <1>1, LeastNumber
  <1>3. PICK x \in T : r = n - x BY <1>2
  <1>4. \A y \in T : x >= y
    <2> TAKE y \in T
    <2>1. n - y \in R OBVIOUS
    <2>2. r <= n - y BY <2>1, <1>2
    <2> QED BY <2>2, <1>3
  <1>5. \E m \in T : \A y \in T : m >= y BY <1>4
  <1> DEFINE P(m) == m \in T /\ \A y \in T : m >= y
  <1>6. \E m : P(m) BY <1>5
  <1>7. Max(T) = CHOOSE m : P(m) BY DEF Max
  <1>8. P(Max(T)) BY <1>6, <1>7
  <1> QED BY <1>8

LEMMA MinOfSet ==
  ASSUME NEW T \in SUBSET Nat, T # {}
  PROVE  Min(T) \in T /\ \A x \in T : Min(T) <= x
  <1>1. \E m \in T : \A y \in T : m <= y BY LeastNumber
  <1> DEFINE P(m) == m \in T /\ \A y \in T : m <= y
  <1>2. \E m : P(m) BY <1>1
  <1>3. Min(T) = CHOOSE m : P(m) BY DEF Min
  <1>4. P(Min(T)) BY <1>2, <1>3
  <1> QED BY <1>4

--------------------------------------------------------------------------------
(* Digits. *)

LEMMA Divided ==
  ASSUME NEW x \in Nat, NEW b \in Nat, b > 1
  PROVE  /\ x \div b \in Nat
         /\ (x % b) \in 0 .. b - 1
         /\ x = (x \div b) * b + (x % b)
         /\ x # 0 => x \div b < x
         /\ x < b => x \div b = 0 /\ (x % b) = x
         /\ x >= b => x \div b # 0
  OBVIOUS

LEMMA Bases == /\ Radix \in Nat /\ Radix > 1 /\ ByteValues \in Nat /\ ByteValues > 1
               /\ ByteValues = Radix + Radix /\ Bytes = 0 .. ByteValues - 1
               /\ FixedBytes \in Nat /\ FixedBytes >= 1
  BY RadixAssumption DEF ByteValues, Bytes

Shifts(base, n, m, f) == /\ f \in [0 .. m -> Nat]
                         /\ f[0] = n
                         /\ \A i \in 1 .. m : f[i] = f[i - 1] \div base

ShiftsOf(base, n, m, f) == f = [i \in 0 .. m |-> IF i = 0 THEN n ELSE f[i - 1] \div base]

LEMMA ShiftedUnfolds ==
  ASSUME NEW base \in Nat, base > 1, NEW n \in Nat, NEW m \in Nat
  PROVE  \E f : Shifts(base, n, m, f) /\ Shifted(base, n, m) = f[m]
  <1> DEFINE step == [i \in 1 .. m |-> [x \in Nat |-> x \div base]]
  <1>1. step \in [1 .. m -> [Nat -> Nat]] BY Divided
  <1>2. \A i \in 1 .. m, x \in Nat : step[i][x] = x \div base OBVIOUS
  <1> HIDE DEF step
  <1>3. StepsIn(Nat, m, step) BY <1>1 DEF StepsIn
  <1>4. PICK g : Recursion(Nat, m, n, step, g) BY <1>3, RecursionExists
  <1>5. g \in [0 .. m -> Nat] /\ g[0] = n /\ \A i \in 1 .. m : g[i] = g[i - 1] \div base
    <2>1. \A i \in 1 .. m : i - 1 \in 0 .. m OBVIOUS
    <2> QED BY <1>2, <1>4, <2>1 DEF Recursion
  <1>6. ShiftsOf(base, n, m, g)
    <2>1. \A i \in 0 .. m : g[i] = IF i = 0 THEN n ELSE g[i - 1] \div base
      <3> TAKE i \in 0 .. m
      <3>1. i # 0 => i \in 1 .. m OBVIOUS
      <3> QED BY <1>5, <3>1
    <2> QED BY <1>5, <2>1 DEF ShiftsOf
  <1> DEFINE f == CHOOSE h : ShiftsOf(base, n, m, h)
  <1>7. ShiftsOf(base, n, m, f) BY <1>6, Zenon
  <1>8. Shifted(base, n, m) = f[m] BY DEF Shifted, ShiftsOf
  <1> HIDE DEF f
  <1>9. f[0] = n /\ \A i \in 1 .. m : f[i] = f[i - 1] \div base
    <2>1. \A i \in 0 .. m : f[i] = IF i = 0 THEN n ELSE f[i - 1] \div base BY <1>7, Zenon DEF ShiftsOf
    <2>2. \A i \in 1 .. m : i \in 0 .. m /\ i # 0 OBVIOUS
    <2>3. 0 \in 0 .. m OBVIOUS
    <2> QED BY <2>1, <2>2, <2>3
  <1>10. DOMAIN f = 0 .. m /\ f = [i \in DOMAIN f |-> f[i]] BY <1>7 DEF ShiftsOf
  <1> DEFINE S == {i \in 0 .. m : f[i] \in Nat}
  <1>11. 0 \in S BY <1>9
  <1>12. ASSUME NEW i \in 0 .. m - 1, i \in S PROVE i + 1 \in S
    <2>1. i + 1 \in 1 .. m /\ (i + 1) - 1 = i /\ i + 1 \in 0 .. m OBVIOUS
    <2>2. f[i + 1] = f[i] \div base BY <2>1, <1>9
    <2> QED BY <2>1, <2>2, <1>12, Divided
  <1>13. 0 .. m \subseteq S
    <2> HIDE DEF S
    <2> QED BY <1>11, <1>12, IntervalInduction
  <1>14. Shifts(base, n, m, f) BY <1>9, <1>10, <1>13 DEF Shifts
  <1> QED BY <1>8, <1>14

LEMMA ShiftedStep ==
  ASSUME NEW base \in Nat, base > 1, NEW n \in Nat
  PROVE  /\ Shifted(base, n, 0) = n
         /\ \A i \in Nat : /\ Shifted(base, n, i) \in Nat
                           /\ Shifted(base, n, i + 1) = Shifted(base, n, i) \div base
  <1>1. Shifted(base, n, 0) = n
    <2>1. PICK g : Shifts(base, n, 0, g) /\ Shifted(base, n, 0) = g[0] BY ShiftedUnfolds
    <2> QED BY <2>1 DEF Shifts
  <1>2. ASSUME NEW i \in Nat
        PROVE  /\ Shifted(base, n, i) \in Nat
               /\ Shifted(base, n, i + 1) = Shifted(base, n, i) \div base
    <2>1. PICK g : Shifts(base, n, i, g) /\ Shifted(base, n, i) = g[i] BY ShiftedUnfolds
    <2>2. PICK h : Shifts(base, n, i + 1, h) /\ Shifted(base, n, i + 1) = h[i + 1] BY ShiftedUnfolds
    <2> DEFINE S == {k \in 0 .. i : g[k] = h[k]}
    <2>3. 0 \in S BY <2>1, <2>2 DEF Shifts
    <2>4. ASSUME NEW k \in 0 .. i - 1, k \in S PROVE k + 1 \in S
      <3>1. k + 1 \in 1 .. i /\ k + 1 \in 1 .. i + 1 /\ (k + 1) - 1 = k /\ k + 1 \in 0 .. i OBVIOUS
      <3>2. g[k + 1] = g[k] \div base /\ h[k + 1] = h[k] \div base BY <3>1, <2>1, <2>2 DEF Shifts
      <3> QED BY <3>1, <3>2, <2>4
    <2> HIDE DEF S
    <2>5. 0 .. i \subseteq S BY <2>3, <2>4, IntervalInduction
    <2>6. g[i] = h[i] BY <2>5 DEF S
    <2>7. h[i + 1] = h[i] \div base
      <3>1. i + 1 \in 1 .. i + 1 /\ (i + 1) - 1 = i OBVIOUS
      <3> QED BY <3>1, <2>2 DEF Shifts
    <2>8. g[i] \in Nat BY <2>1 DEF Shifts
    <2> QED BY <2>1, <2>2, <2>6, <2>7, <2>8
  <1> QED BY <1>1, <1>2

LEMMA DigitIs ==
  ASSUME NEW base \in Nat, base > 1, NEW n \in Nat, NEW i \in Nat, i >= 1
  PROVE  /\ Digit(base, n, i) \in 0 .. base - 1
         /\ Shifted(base, n, i - 1) = Shifted(base, n, i) * base + Digit(base, n, i)
  <1> DEFINE x == Shifted(base, n, i - 1)
             y == Shifted(base, n, i)
             d == Digit(base, n, i)
  <1>1. i - 1 \in Nat /\ (i - 1) + 1 = i OBVIOUS
  <1>2. x \in Nat /\ y = x \div base BY <1>1, ShiftedStep
  <1>3. d = (x % base) BY DEF Digit
  <1> HIDE DEF x, y, d
  <1>4. d \in 0 .. base - 1 /\ x = y * base + d BY <1>2, <1>3, Divided
  <1> QED BY <1>4 DEF x, y, d

(* A number is the value of its digits, once nothing is left of it. *)
Highs(base, digits, f) == /\ f[0] = 0
                          /\ \A i \in 1 .. Len(digits) :
                                f[i] = f[i - 1] * base + digits[Len(digits) - i + 1]

HighsOf(base, digits, f) ==
    f = [i \in 0 .. Len(digits) |->
            IF i = 0 THEN 0 ELSE f[i - 1] * base + digits[Len(digits) - i + 1]]

LEMMA ValueUnfolds ==
  ASSUME NEW base \in Nat, NEW digits \in Seq(Nat)
  PROVE  \E f : Highs(base, digits, f) /\ Value(base, digits) = f[Len(digits)]
  <1> DEFINE m == Len(digits)
             step == [i \in 1 .. m |-> [x \in Nat |-> x * base + digits[m - i + 1]]]
  <1>0. m \in Nat OBVIOUS
  <1>1. \A i \in 1 .. m : digits[m - i + 1] \in Nat
    <2>1. \A i \in 1 .. m : m - i + 1 \in 1 .. m BY <1>0
    <2> QED BY <2>1
  <1>2. \A i \in 1 .. m, x \in Nat : x * base + digits[m - i + 1] \in Nat BY <1>1
  <1>3. step \in [1 .. m -> [Nat -> Nat]] BY <1>2
  <1>4. \A i \in 1 .. m, x \in Nat : step[i][x] = x * base + digits[m - i + 1] OBVIOUS
  <1> HIDE DEF step, m
  <1>5. StepsIn(Nat, m, step) BY <1>3 DEF StepsIn
  <1>6. PICK g : Recursion(Nat, m, 0, step, g) BY <1>0, <1>5, RecursionExists
  <1>7. g \in [0 .. m -> Nat] /\ g[0] = 0
        /\ \A i \in 1 .. m : g[i] = g[i - 1] * base + digits[m - i + 1]
    <2>1. \A i \in 1 .. m : i - 1 \in 0 .. m BY <1>0
    <2> QED BY <1>4, <1>6, <2>1 DEF Recursion
  <1>8. HighsOf(base, digits, g)
    <2>1. \A i \in 0 .. m : g[i] = IF i = 0 THEN 0 ELSE g[i - 1] * base + digits[m - i + 1]
      <3> TAKE i \in 0 .. m
      <3>1. i # 0 => i \in 1 .. m BY <1>0
      <3> QED BY <1>7, <3>1
    <2> QED BY <1>7, <2>1 DEF HighsOf, m
  <1> DEFINE f == CHOOSE h : HighsOf(base, digits, h)
  <1>9. HighsOf(base, digits, f) BY <1>8, Zenon
  <1>10. Value(base, digits) = f[m] BY DEF Value, HighsOf, m
  <1> HIDE DEF f
  <1>11. \A i \in 0 .. m : f[i] = IF i = 0 THEN 0 ELSE f[i - 1] * base + digits[m - i + 1]
    BY <1>9, Zenon DEF HighsOf, m
  <1>12. Highs(base, digits, f)
    <2>1. \A i \in 1 .. m : i \in 0 .. m /\ i # 0 BY <1>0
    <2>2. 0 \in 0 .. m BY <1>0
    <2> QED BY <1>11, <2>1, <2>2 DEF Highs, m
  <1> QED BY <1>10, <1>12 DEF m

LEMMA ValueOfDigits ==
  ASSUME NEW base \in Nat, base > 1, NEW n \in Nat, NEW len \in Nat,
         Shifted(base, n, len) = 0, NEW digits,
         digits = [i \in 1 .. len |-> Digit(base, n, i)]
  PROVE  Value(base, digits) = n
  <1>1. \A i \in 1 .. len : Digit(base, n, i) \in Nat
    <2> TAKE i \in 1 .. len
    <2>1. i \in Nat /\ i >= 1 OBVIOUS
    <2>2. Digit(base, n, i) \in 0 .. base - 1 BY <2>1, DigitIs
    <2> QED BY <2>2
  <1>2. digits \in Seq(Nat) /\ Len(digits) = len BY <1>1
  <1>3. PICK f : Highs(base, digits, f) /\ Value(base, digits) = f[Len(digits)]
    BY <1>2, ValueUnfolds
  <1> DEFINE S == {i \in 0 .. len : f[i] = Shifted(base, n, len - i)}
  <1>4. 0 \in S BY <1>3 DEF Highs
  <1>5. ASSUME NEW i \in 0 .. len - 1, i \in S PROVE i + 1 \in S
    <2> DEFINE k == len - i
    <2>1. k \in 1 .. len /\ k \in Nat /\ k >= 1 /\ i + 1 \in 1 .. len /\ len - (i + 1) + 1 = k
          /\ (i + 1) - 1 = i /\ len - (i + 1) = k - 1 /\ i + 1 \in 0 .. len
      OBVIOUS
    <2>2. f[i] = Shifted(base, n, k) BY <1>5
    <2> HIDE DEF k
    <2>3. f[i + 1] = f[i] * base + digits[k] BY <1>2, <1>3, <2>1 DEF Highs
    <2>4. digits[k] = Digit(base, n, k) BY <2>1
    <2>5. Shifted(base, n, k - 1) = Shifted(base, n, k) * base + Digit(base, n, k) BY <2>1, DigitIs
    <2>6. f[i + 1] = Shifted(base, n, len - (i + 1)) BY <2>1, <2>2, <2>3, <2>4, <2>5
    <2> QED BY <2>1, <2>6
  <1> HIDE DEF S
  <1>6. 0 .. len \subseteq S BY <1>4, <1>5, IntervalInduction
  <1>7. f[len] = Shifted(base, n, 0) BY <1>6 DEF S
  <1> QED BY <1>2, <1>3, <1>7, ShiftedStep

LEMMA ShiftedTwice ==
  ASSUME NEW base \in Nat, base > 1, NEW n \in Nat
  PROVE  \A i \in Nat : Shifted(base, n, i + 1) = Shifted(base, n \div base, i)
  <1> DEFINE q == n \div base
             S == {i \in Nat : Shifted(base, n, i + 1) = Shifted(base, q, i)}
  <1>1. q \in Nat BY Divided
  <1>2. 0 \in S
    <2>1. Shifted(base, n, 0 + 1) = Shifted(base, n, 0) \div base /\ Shifted(base, n, 0) = n
      BY ShiftedStep
    <2>2. Shifted(base, q, 0) = q BY <1>1, ShiftedStep
    <2> QED BY <2>1, <2>2
  <1> HIDE DEF q
  <1>3. ASSUME NEW i \in Nat, i \in S PROVE i + 1 \in S
    <2>1. Shifted(base, n, (i + 1) + 1) = Shifted(base, n, i + 1) \div base
      <3>1. i + 1 \in Nat OBVIOUS
      <3> QED BY <3>1, ShiftedStep
    <2>2. Shifted(base, q, i + 1) = Shifted(base, q, i) \div base BY <1>1, ShiftedStep
    <2>3. Shifted(base, n, i + 1) = Shifted(base, q, i) BY <1>3
    <2>4. Shifted(base, n, (i + 1) + 1) = Shifted(base, q, i + 1) BY <2>1, <2>2, <2>3
    <2> QED BY <2>4
  <1> HIDE DEF S
  <1>4. Nat \subseteq S BY <1>2, <1>3, NumbersInduction
  <1> QED BY <1>4 DEF S, q

Sizes(n, f) == /\ f[0] = 0
               /\ \A m \in 1 .. n : f[m] = f[m \div Radix] + 1

SizesOf(n, f) == f = [m \in 0 .. n |-> IF m = 0 THEN 0 ELSE f[m \div Radix] + 1]

LEMMA DigitsUnfold ==
  ASSUME NEW n \in Nat
  PROVE  \E f : Sizes(n, f) /\ Digits(n) = f[n]
  <1> DEFINE step == [m \in 0 .. n |-> [x \in Nat |-> x + 1]]
             half == [m \in 0 .. n |-> m \div Radix]
  <1>1. step \in [0 .. n -> [Nat -> Nat]] /\ \A m \in 0 .. n, x \in Nat : step[m][x] = x + 1 OBVIOUS
  <1>2. \A m \in 0 .. n \ {0} : half[m] = m \div Radix /\ half[m] \in 0 .. n /\ half[m] < m
    <2> SUFFICES ASSUME NEW m \in 0 .. n \ {0}
                 PROVE  half[m] = m \div Radix /\ half[m] \in 0 .. n /\ half[m] < m
      OBVIOUS
    <2>1. m \in Nat /\ m # 0 /\ m <= n OBVIOUS
    <2>2. half[m] = m \div Radix OBVIOUS
    <2>3. m \div Radix \in Nat /\ m \div Radix < m BY <2>1, Bases, Divided
    <2> QED BY <2>1, <2>2, <2>3
  <1> HIDE DEF step, half
  <1>3. DownIn(Nat, 0 .. n, {0}, step, half) BY <1>1, <1>2 DEF DownIn
  <1>4. PICK g : DownRecursion(Nat, 0 .. n, {0}, 0, step, half, g)
    BY <1>3, DownRecursionExists
  <1>5. g \in [0 .. n -> Nat] /\ \A m \in 0 .. n : g[m] = IF m = 0 THEN 0 ELSE g[m \div Radix] + 1
    <2>1. g \in [0 .. n -> Nat] /\ \A m \in 0 .. n : g[m] = IF m \in {0} THEN 0 ELSE step[m][g[half[m]]]
      BY <1>4 DEF DownRecursion
    <2>2. ASSUME NEW m \in 0 .. n PROVE g[m] = IF m = 0 THEN 0 ELSE g[m \div Radix] + 1
      <3>1. CASE m = 0 BY <3>1, <2>1
      <3>2. CASE m # 0
        <4>1. half[m] \in 0 .. n /\ half[m] = m \div Radix BY <3>2, <1>2
        <4>2. g[half[m]] \in Nat BY <4>1, <2>1
        <4>3. step[m][g[half[m]]] = g[half[m]] + 1 BY <4>2, <1>1
        <4> QED BY <3>2, <4>1, <4>3, <2>1
      <3> QED BY <3>1, <3>2
    <2> QED BY <2>1, <2>2
  <1>6. SizesOf(n, g) BY <1>5 DEF SizesOf
  <1> DEFINE f == CHOOSE h : SizesOf(n, h)
  <1>7. SizesOf(n, f) BY <1>6, Zenon
  <1>8. Digits(n) = f[n] BY DEF Digits, SizesOf
  <1> HIDE DEF f
  <1>9. \A m \in 0 .. n : f[m] = IF m = 0 THEN 0 ELSE f[m \div Radix] + 1
    BY <1>7, Zenon DEF SizesOf
  <1>10. Sizes(n, f)
    <2>1. \A m \in 1 .. n : m \in 0 .. n /\ m # 0 OBVIOUS
    <2>2. 0 \in 0 .. n OBVIOUS
    <2> QED BY <1>9, <2>1, <2>2 DEF Sizes
  <1> QED BY <1>8, <1>10

(* Digits(n) digits are enough for n, and several where it is not below Radix. *)
LEMMA DigitsAre ==
  ASSUME NEW n \in Nat
  PROVE  /\ Digits(n) \in Nat /\ Shifted(Radix, n, Digits(n)) = 0
         /\ n >= Radix => Digits(n) >= 2
  <1> USE Bases
  <1>1. PICK f : Sizes(n, f) /\ Digits(n) = f[n] BY DigitsUnfold
  <1> DEFINE Good(m) == f[m] \in Nat /\ Shifted(Radix, m, f[m]) = 0 /\ (m # 0 => f[m] >= 1)
                        /\ (m >= Radix => f[m] >= 2)
             S == {k \in Nat : \A m \in 0 .. n : m <= k => Good(m)}
  <1>2. Good(0)
    <2>1. f[0] = 0 BY <1>1 DEF Sizes
    <2>2. Shifted(Radix, 0, 0) = 0 BY ShiftedStep
    <2> QED BY <2>1, <2>2
  <1>3. 0 \in S BY <1>2
  <1>4. ASSUME NEW k \in Nat, k \in S PROVE k + 1 \in S
    <2> SUFFICES ASSUME k + 1 \in 0 .. n PROVE Good(k + 1) BY <1>4
    <2> DEFINE m == k + 1
               q == m \div Radix
    <2>1. m \in Nat /\ m # 0 /\ m \in 1 .. n OBVIOUS
    <2>2. q \in Nat /\ q < m /\ (m >= Radix => q # 0) BY <2>1, Divided
    <2>3. q \in 0 .. n /\ q <= k BY <2>1, <2>2
    <2>4. Good(q) BY <2>3, <1>4
    <2>5. f[m] = f[q] + 1 BY <2>1, <1>1 DEF Sizes
    <2>6. Shifted(Radix, m, f[q] + 1) = Shifted(Radix, q, f[q]) BY ZenonT(60), <2>1, <2>4, ShiftedTwice
    <2> HIDE DEF m, q
    <2>7. Good(m) BY <2>1, <2>2, <2>4, <2>5, <2>6
    <2> QED BY <2>7 DEF m
  <1> HIDE DEF S
  <1>5. Nat \subseteq S BY <1>3, <1>4, NumbersInduction
  <1>6. n \in S BY <1>5
  <1>7. Good(n) BY <1>6 DEF S
  <1> QED BY <1>1, <1>7

--------------------------------------------------------------------------------
(* Writing numbers. *)

LEMMA WriteVar ==
  ASSUME NEW n \in Nat
  PROVE  \/ n < Radix /\ VarWrite(n) = <<n>>
         \/ /\ n >= Radix /\ Digits(n) \in Nat /\ Digits(n) >= 2
            /\ VarWrite(n) \in Seq(Bytes) /\ Len(VarWrite(n)) = Digits(n)
            /\ \A i \in 1 .. Digits(n) :
                  /\ DataBits(VarWrite(n)[i]) = Digit(Radix, n, i)
                  /\ Msb(VarWrite(n)[i]) <=> i \in {1, Digits(n)}
  <1> USE Bases
  <1>1. CASE n < Radix BY <1>1 DEF VarWrite
  <1>2. CASE n >= Radix
    <2> DEFINE len == Digits(n)
               w == VarWrite(n)
    <2>1. len \in Nat /\ len >= 2 BY <1>2, DigitsAre
    <2>2. w = [i \in 1 .. len |-> Digit(Radix, n, i) + IF i \in {1, len} THEN Radix ELSE 0]
      BY <1>2 DEF VarWrite, VarBytes
    <2> HIDE DEF len, w
    <2>3. ASSUME NEW i \in 1 .. len
          PROVE  /\ w[i] \in Bytes /\ DataBits(w[i]) = Digit(Radix, n, i)
                 /\ Msb(w[i]) <=> i \in {1, len}
      <3> DEFINE d == Digit(Radix, n, i)
      <3>1. d \in 0 .. Radix - 1
        <4>1. i \in Nat /\ i >= 1 BY <2>1
        <4> QED BY <4>1, DigitIs
      <3>2. w[i] = d + IF i \in {1, len} THEN Radix ELSE 0 BY <2>2
      <3> HIDE DEF d
      <3>3. (d % Radix) = d /\ ((d + Radix) % Radix) = d BY <3>1
      <3>4. CASE i \in {1, len}
        <4>1. w[i] = d + Radix BY <3>2, <3>4
        <4>2. DataBits(w[i]) = d /\ Msb(w[i]) BY <3>1, <3>3, <4>1 DEF DataBits, Msb
        <4>3. w[i] \in Bytes BY <3>1, <4>1
        <4> QED BY <3>4, <4>2, <4>3 DEF d
      <3>5. CASE i \notin {1, len}
        <4>1. w[i] = d BY <3>1, <3>2, <3>5
        <4>2. DataBits(w[i]) = d /\ ~Msb(w[i]) BY <3>1, <3>3, <4>1 DEF DataBits, Msb
        <4>3. w[i] \in Bytes BY <3>1, <4>1
        <4> QED BY <3>5, <4>2, <4>3 DEF d
      <3> QED BY <3>4, <3>5
    <2>4. w \in Seq(Bytes) /\ Len(w) = len BY <2>1, <2>2, <2>3
    <2> QED BY <1>2, <2>1, <2>3, <2>4 DEF len, w
  <1> QED BY <1>1, <1>2

(* A VarInt: its digits give the number, and its top bits say where it ends.  *)
IsVarInt(n, w) == /\ w \in Seq(Bytes) /\ Len(w) >= 1 /\ Number(w) = n
                  /\ \/ Len(w) = 1 /\ ~Msb(w[1])
                     \/ /\ Len(w) >= 2
                        /\ \A i \in 1 .. Len(w) : Msb(w[i]) <=> i \in {1, Len(w)}

LEMMA VarWriteIs ==
  ASSUME NEW n \in Nat
  PROVE  IsVarInt(n, VarWrite(n))
  <1> USE Bases
  <1> DEFINE w == VarWrite(n)
             len == Len(w)
             bits == [i \in DOMAIN w |-> DataBits(w[i])]
  <1>1. /\ w \in Seq(Bytes) /\ len \in Nat /\ len >= 1 /\ Shifted(Radix, n, len) = 0
        /\ \A i \in 1 .. len : DataBits(w[i]) = Digit(Radix, n, i)
        /\ \/ len = 1 /\ ~Msb(w[1])
           \/ len >= 2 /\ \A i \in 1 .. len : Msb(w[i]) <=> i \in {1, len}
    <2>1. CASE n < Radix /\ w = <<n>>
      <3>1. w \in Seq(Bytes) /\ len = 1 /\ w[1] = n BY <2>1
      <3>2. ~Msb(w[1]) BY <2>1, <3>1 DEF Msb
      <3>3. Shifted(Radix, n, 0) = n /\ Shifted(Radix, n, 0 + 1) = Shifted(Radix, n, 0) \div Radix
        BY ShiftedStep
      <3>4. n \div Radix = 0 /\ (n % Radix) = n BY <2>1, Divided
      <3>5. Digit(Radix, n, 1) = n
        <4>1. Digit(Radix, n, 1) = (Shifted(Radix, n, 1 - 1) % Radix) BY DEF Digit
        <4> QED BY <4>1, <3>3, <3>4
      <3>6. DataBits(w[1]) = n BY <3>1, <3>4 DEF DataBits
      <3>7. Shifted(Radix, n, 1) = 0 BY <3>3, <3>4
      <3> HIDE DEF w
      <3> QED BY <3>1, <3>2, <3>5, <3>6, <3>7
    <2>2. CASE /\ n >= Radix /\ Digits(n) \in Nat /\ Digits(n) >= 2
               /\ w \in Seq(Bytes) /\ len = Digits(n)
               /\ \A i \in 1 .. Digits(n) :
                     /\ DataBits(w[i]) = Digit(Radix, n, i)
                     /\ Msb(w[i]) <=> i \in {1, Digits(n)}
      <3> HIDE DEF w, len
      <3>1. Shifted(Radix, n, len) = 0 BY <2>2, DigitsAre
      <3> QED BY <2>2, <3>1
    <2> QED BY <2>1, <2>2, WriteVar
  <1>2. bits = [i \in 1 .. len |-> Digit(Radix, n, i)] BY <1>1
  <1>3. Number(w) = Value(Radix, bits) BY DEF Number
  <1> HIDE DEF w, bits, len
  <1>4. Value(Radix, bits) = n BY <1>1, <1>2, ValueOfDigits
  <1> QED BY <1>1, <1>3, <1>4 DEF IsVarInt, w, len

LEMMA ConcatParts ==
  ASSUME NEW S, NEW a \in Seq(S), NEW b \in Seq(S)
  PROVE  /\ a \o b \in Seq(S) /\ Len(a \o b) = Len(a) + Len(b)
         /\ \A i \in 1 .. Len(a) : (a \o b)[i] = a[i]
         /\ \A i \in 1 .. Len(b) : (a \o b)[Len(a) + i] = b[i]
         /\ SubSeq(a \o b, 1, Len(a)) = a
         /\ SubSeq(a \o b, Len(a) + 1, Len(a) + Len(b)) = b
  <1> DEFINE s == a \o b
  <1>1. s \in Seq(S) /\ Len(s) = Len(a) + Len(b) /\ Len(a) \in Nat /\ Len(b) \in Nat OBVIOUS
  <1>2. \A i \in 1 .. Len(a) : s[i] = a[i] OBVIOUS
  <1>3. \A i \in 1 .. Len(b) : s[Len(a) + i] = b[i] OBVIOUS
  <1> HIDE DEF s
  <1>4. SubSeq(s, 1, Len(a)) = a
    <2> DEFINE c == SubSeq(s, 1, Len(a))
    <2>1. c \in Seq(S) /\ Len(c) = Len(a) /\ \A i \in 1 .. Len(a) : c[i] = s[i] BY <1>1
    <2> HIDE DEF c
    <2>2. c = a BY <2>1, <1>2, SeqEqual
    <2> QED BY <2>2 DEF c
  <1>5. SubSeq(s, Len(a) + 1, Len(a) + Len(b)) = b
    <2> DEFINE c == SubSeq(s, Len(a) + 1, Len(a) + Len(b))
    <2>1. c \in Seq(S) /\ Len(c) = Len(b) /\ \A i \in 1 .. Len(b) : c[i] = s[Len(a) + i] BY <1>1
    <2> HIDE DEF c
    <2>2. c = b BY <2>1, <1>3, SeqEqual
    <2> QED BY <2>2 DEF c
  <1> QED BY <1>1, <1>2, <1>3, <1>4, <1>5 DEF s

LEMMA VarReversed ==
  ASSUME NEW n \in Nat, NEW w, IsVarInt(n, w), NEW t \in Seq(Bytes)
  PROVE  VarReverseRead(t \o w) = <<n, Len(w)>>
  <1> DEFINE s == t \o w
             l == Len(s)
             firsts == {i \in 1 .. l - 1 : Msb(s[i])}
             first == IF ~Msb(s[l]) THEN l ELSE IF firsts = {} THEN 1 ELSE Max(firsts)
  <1>1. /\ w \in Seq(Bytes) /\ Len(w) \in Nat /\ Len(w) >= 1 /\ Len(t) \in Nat /\ Number(w) = n
    BY DEF IsVarInt
  <1>2. /\ s \in Seq(Bytes) /\ l = Len(t) + Len(w)
        /\ \A i \in 1 .. Len(w) : s[Len(t) + i] = w[i]
        /\ SubSeq(s, Len(t) + 1, Len(t) + Len(w)) = w
    BY <1>1, ConcatParts
  <1>3. VarReverseRead(s) = <<Number(SubSeq(s, first, l)), l - first + 1>> BY DEF VarReverseRead
  <1>4. first = Len(t) + 1
    <2>1. CASE Len(w) = 1 /\ ~Msb(w[1])
      <3>1. s[Len(t) + 1] = w[1] /\ l = Len(t) + 1 BY <1>1, <1>2, <2>1
      <3> HIDE DEF s, l, firsts
      <3> QED BY <3>1, <2>1
    <2>2. CASE Len(w) >= 2 /\ \A i \in 1 .. Len(w) : Msb(w[i]) <=> i \in {1, Len(w)}
      <3> HIDE DEF s, l
      <3>1. Len(w) \in 1 .. Len(w) /\ 1 \in 1 .. Len(w) BY <1>1
      <3>2. Msb(s[l]) BY <1>2, <2>2, <3>1
      <3>3. Len(t) + 1 \in firsts
        <4>1. Msb(s[Len(t) + 1]) BY <1>2, <2>2, <3>1
        <4>2. Len(t) + 1 \in 1 .. l - 1 BY <1>1, <1>2, <2>2
        <4> QED BY <4>1, <4>2
      <3>4. \A i \in firsts : i <= Len(t) + 1
        <4> SUFFICES ASSUME NEW i \in firsts, i > Len(t) + 1 PROVE FALSE
          BY <1>1, <1>2
        <4>1. i - Len(t) \in 1 .. Len(w) /\ i - Len(t) # 1 /\ i - Len(t) # Len(w)
              /\ Len(t) + (i - Len(t)) = i
          BY <1>1, <1>2
        <4>2. s[i] = w[i - Len(t)] BY <4>1, <1>2
        <4>3. ~Msb(w[i - Len(t)]) BY <4>1, <2>2
        <4> QED BY <4>2, <4>3
      <3>5. l - 1 \in Nat /\ firsts \in SUBSET (1 .. l - 1) BY <1>1, <1>2
      <3>6. Max(firsts) \in firsts /\ \A x \in firsts : x <= Max(firsts) BY <3>3, <3>5, MaxOfSet
      <3> HIDE DEF firsts
      <3>7. Max(firsts) = Len(t) + 1
        <4>1. Max(firsts) <= Len(t) + 1 /\ Len(t) + 1 <= Max(firsts) BY <3>3, <3>4, <3>6
        <4>2. Max(firsts) \in Int
          <5> DEFINE m == Max(firsts)
          <5>1. m \in 1 .. l - 1 BY <3>5, <3>6
          <5> HIDE DEF m
          <5>2. m \in Int BY <3>5, <5>1
          <5> QED BY <5>2 DEF m
        <4> QED BY <4>1, <4>2, <1>1
      <3> QED BY <3>2, <3>3, <3>7
    <2> QED BY <2>1, <2>2 DEF IsVarInt
  <1> HIDE DEF s, l, first
  <1>5. SubSeq(s, first, l) = w BY <1>2, <1>4
  <1>6. l - first + 1 = Len(w) BY <1>1, <1>2, <1>4
  <1> QED BY <1>1, <1>3, <1>5, <1>6 DEF s

LEMMA VarForward ==
  ASSUME NEW n \in Nat, NEW w, IsVarInt(n, w), NEW t \in Seq(Bytes)
  PROVE  VarRead(w \o t) = <<n, Len(w)>>
  <1> DEFINE s == w \o t
             lasts == {i \in 2 .. Len(s) : Msb(s[i])}
             last == IF ~Msb(s[1]) THEN 1 ELSE IF lasts = {} THEN Len(s) ELSE Min(lasts)
  <1>1. /\ w \in Seq(Bytes) /\ Len(w) \in Nat /\ Len(w) >= 1 /\ Len(t) \in Nat /\ Number(w) = n
    BY DEF IsVarInt
  <1>2. /\ s \in Seq(Bytes) /\ Len(s) = Len(w) + Len(t)
        /\ \A i \in 1 .. Len(w) : s[i] = w[i]
        /\ SubSeq(s, 1, Len(w)) = w
    BY <1>1, ConcatParts
  <1>3. VarRead(s) = <<Number(SubSeq(s, 1, last)), last>> BY DEF VarRead
  <1> HIDE DEF s
  <1>0. 1 \in 1 .. Len(w) /\ Len(w) \in 1 .. Len(w) BY <1>1
  <1>4. last = Len(w)
    <2>1. CASE Len(w) = 1 /\ ~Msb(w[1]) BY <1>0, <1>2, <2>1
    <2>2. CASE Len(w) >= 2 /\ \A i \in 1 .. Len(w) : Msb(w[i]) <=> i \in {1, Len(w)}
      <3>1. Msb(s[1]) /\ Msb(s[Len(w)]) BY <1>0, <1>2, <2>2
      <3>2. Len(w) \in lasts
        <4>1. Len(w) \in 2 .. Len(s)
          <5>1. Len(w) \in Nat /\ Len(t) \in Nat BY <1>1
          <5>2. Len(s) = Len(w) + Len(t) BY <1>2
          <5> QED BY <5>1, <5>2, <2>2
        <4> QED BY <3>1, <4>1
      <3>3. \A i \in lasts : Len(w) <= i
        <4> SUFFICES ASSUME NEW i \in lasts, i < Len(w) PROVE FALSE
          BY <1>1, <1>2
        <4>3. i \in 2 .. Len(s) OBVIOUS
        <4>4. i \in Int /\ 2 <= i BY <4>3
        <4>1. i \in 1 .. Len(w) /\ i # 1 /\ i # Len(w) BY <4>4, <1>1
        <4>2. s[i] = w[i] /\ ~Msb(w[i]) BY <4>1, <1>2, <2>2
        <4> QED BY <4>2
      <3>4. lasts \in SUBSET Nat OBVIOUS
      <3>5. Min(lasts) \in lasts /\ \A x \in lasts : Min(lasts) <= x BY <3>2, <3>4, MinOfSet
      <3> HIDE DEF lasts
      <3>6. Min(lasts) = Len(w)
        <4>1. Min(lasts) <= Len(w) /\ Len(w) <= Min(lasts) /\ Min(lasts) \in Nat
          BY <3>2, <3>3, <3>4, <3>5
        <4> QED BY <4>1, <1>1
      <3> QED BY <3>1, <3>2, <3>6
    <2> QED BY <2>1, <2>2 DEF IsVarInt
  <1> HIDE DEF last
  <1> QED BY <1>1, <1>2, <1>3, <1>4 DEF s

LEMMA FixedWriteIs ==
  ASSUME NEW n \in Nat
  PROVE  /\ FixedWrite(n) \in Seq(Bytes) /\ Len(FixedWrite(n)) = FixedBytes
         /\ Shifted(ByteValues, n, FixedBytes) = 0 => FixedNumber(FixedWrite(n)) = n
  <1> USE Bases
  <1> DEFINE w == FixedWrite(n)
  <1>1. w = [i \in 1 .. FixedBytes |-> Digit(ByteValues, n, i)] BY DEF FixedWrite
  <1>2. \A i \in 1 .. FixedBytes : Digit(ByteValues, n, i) \in Bytes
    <2> TAKE i \in 1 .. FixedBytes
    <2>1. i \in Nat /\ i >= 1 OBVIOUS
    <2> QED BY <2>1, DigitIs
  <1> HIDE DEF w
  <1>3. w \in Seq(Bytes) /\ Len(w) = FixedBytes BY <1>1, <1>2
  <1>4. Shifted(ByteValues, n, FixedBytes) = 0 => Value(ByteValues, w) = n
    BY <1>1, ValueOfDigits
  <1> QED BY <1>3, <1>4 DEF FixedNumber, w

(* What OffsetInt promises: a number that fits is read back from both sides,   *)
(* and its bytes are counted whether it fits or not.                         *)
Encodes(n, w) ==
    /\ w \in Seq(Bytes) /\ Len(w) >= 1
    /\ \A t \in Seq(Bytes) :
          /\ ReverseRead(t \o w)[2] = Len(w)
          /\ Fits(n) => /\ ReverseRead(t \o w) = <<n, Len(w)>>
                        /\ Read(w \o t) = <<n, Len(w)>>

LEMMA WriteIs ==
  ASSUME encoding \in {"VarInt", "FixedInt"}, NEW n \in Nat
  PROVE  Encodes(n, Write(n))
  <1> DEFINE w == Write(n)
  <1>1. CASE encoding = "VarInt"
    <2>1. w = VarWrite(n) BY <1>1 DEF Write
    <2>2. IsVarInt(n, w) BY <2>1, VarWriteIs
    <2> HIDE DEF w
    <2>3. \A t \in Seq(Bytes) : ReverseRead(t \o w) = <<n, Len(w)>>
      BY <1>1, <2>2, VarReversed DEF ReverseRead
    <2>4. \A t \in Seq(Bytes) : Read(w \o t) = <<n, Len(w)>>
      BY <1>1, <2>2, VarForward DEF Read
    <2>5. w \in Seq(Bytes) /\ Len(w) >= 1 BY <2>2 DEF IsVarInt
    <2>6. Encodes(n, w) BY <2>3, <2>4, <2>5 DEF Encodes
    <2> QED BY <2>6 DEF w
  <1>2. CASE encoding = "FixedInt"
    <2>0. encoding # "VarInt" BY <1>2
    <2>1. w = FixedWrite(n) BY <2>0 DEF Write
    <2>2. /\ w \in Seq(Bytes) /\ Len(w) = FixedBytes
          /\ Fits(n) => FixedNumber(w) = n
      BY <2>0, <2>1, FixedWriteIs DEF Fits
    <2> HIDE DEF w
    <2>3. ASSUME NEW t \in Seq(Bytes)
          PROVE  /\ ReverseRead(t \o w) = <<FixedNumber(w), Len(w)>>
                 /\ Read(w \o t) = <<FixedNumber(w), Len(w)>>
      <3> DEFINE s == t \o w
                 r == w \o t
      <3>0. t \in Seq(Bytes) /\ w \in Seq(Bytes) BY <2>2
      <3>1. Len(s) = Len(t) + Len(w) /\ SubSeq(s, Len(t) + 1, Len(t) + Len(w)) = w
        BY <3>0, ConcatParts
      <3>2. SubSeq(r, 1, Len(w)) = w BY <3>0, ConcatParts
      <3> HIDE DEF s, r
      <3>3. Len(s) - FixedBytes + 1 = Len(t) + 1
        <4>1. Len(t) \in Nat /\ FixedBytes \in Nat BY Bases
        <4> QED BY <4>1, <3>1, <2>2
      <3>4. ReverseRead(s) = <<FixedNumber(w), FixedBytes>>
        BY <2>0, <3>1, <3>3 DEF ReverseRead, FixedReverseRead
      <3>5. Read(r) = <<FixedNumber(w), FixedBytes>>
        BY <2>0, <2>2, <3>2 DEF Read, FixedRead
      <3> QED BY <2>2, <3>4, <3>5 DEF s, r
    <2>4. Len(w) >= 1 BY <2>2, Bases
    <2>5. Encodes(n, w) BY <2>2, <2>3, <2>4 DEF Encodes
    <2> QED BY <2>5 DEF w
  <1> QED BY <1>1, <1>2

--------------------------------------------------------------------------------
(* Records. *)

LEMMA PrefixKept ==
  ASSUME NEW S, NEW s \in Seq(S), NEW t \in Seq(S), NEW n \in Nat, n <= Len(s)
  PROVE  SubSeq(s \o t, 1, n) = SubSeq(s, 1, n)
  <1>1. CASE n = 0 BY <1>1, SubSeqEmpty
  <1>2. CASE n # 0
    <2>1. 1 \in 1 .. Len(s) /\ n \in 1 .. Len(s) BY <1>2
    <2> QED BY <2>1, SubSeqOfConcat1
  <1> QED BY <1>1, <1>2

LEMMA ThreeParts ==
  ASSUME NEW S, NEW a \in Seq(S), NEW b \in Seq(S), NEW c \in Seq(S)
  PROVE  a \o (b \o c) = (a \o b) \o c
  OBVIOUS

(* What is taken from a prefix can be taken from the whole. *)
LEMMA PartOfPrefix ==
  ASSUME NEW S, NEW s \in Seq(S), NEW n \in Nat, n <= Len(s),
         NEW m \in Nat, m >= 1, NEW k \in Nat, k <= n
  PROVE  SubSeq(SubSeq(s, 1, n), m, k) = SubSeq(s, m, k)
  <1>1. CASE k < m BY <1>1, SubSeqEmpty
  <1>2. CASE m <= k
    <2>1. 1 \in 1 .. Len(s) /\ n \in 1 .. Len(s) /\ m \in 1 .. n - 1 + 1 /\ k \in 1 .. n - 1 + 1
          /\ 1 + m - 1 = m /\ 1 + k - 1 = k
      BY <1>2
    <2> QED BY <2>1, SubSeqOfSubSeq
  <1> QED BY <1>1, <1>2

(* A record that was pushed on a buffer of from bytes, and ends at at. *)
Stands(buf, from, at, prev, name) ==
    /\ from \in Nat /\ at \in Nat /\ from < at /\ at <= Len(buf)
    /\ prev \in Nat /\ prev <= from
    /\ name \in Seq(Bytes)
    /\ SubSeq(buf, 1, at) = SubSeq(buf, 1, from) \o Record(from, prev, name)

LEMMA RecordBytes ==
  ASSUME encoding \in {"VarInt", "FixedInt"}, NEW from \in Nat, NEW prev \in Nat, prev <= from,
         NEW name \in Seq(Bytes)
  PROVE  /\ Record(from, prev, name) \in Seq(Bytes)
         /\ Len(Record(from, prev, name)) = Len(Write(from - prev)) + Len(name) + Len(Write(Len(name)))
         /\ Len(Write(from - prev)) >= 1 /\ Len(Write(Len(name))) >= 1
         /\ Write(from - prev) \in Seq(Bytes) /\ Write(Len(name)) \in Seq(Bytes)
  <1> DEFINE a == Write(from - prev)
             b == Write(Len(name))
  <1>1. from - prev \in Nat /\ Len(name) \in Nat OBVIOUS
  <1>2. Encodes(from - prev, a) /\ Encodes(Len(name), b) BY <1>1, WriteIs
  <1>3. Record(from, prev, name) = (a \o name) \o b BY DEF Record
  <1> HIDE DEF a, b
  <1>4. a \in Seq(Bytes) /\ b \in Seq(Bytes) /\ Len(a) >= 1 /\ Len(b) >= 1 BY <1>2 DEF Encodes
  <1>5. (a \o name) \o b \in Seq(Bytes) /\ Len((a \o name) \o b) = Len(a) + Len(name) + Len(b)
    BY <1>4
  <1> QED BY <1>3, <1>4, <1>5 DEF a, b

LEMMA RecordReadBack ==
  ASSUME encoding \in {"VarInt", "FixedInt"}, NEW buf \in Seq(Bytes),
         NEW from, NEW at, NEW prev, NEW name, Stands(buf, from, at, prev, name), Fits(Len(name))
  PROVE  /\ reverse_read(buf, at).name = name
         /\ reverse_read(buf, at).skip = from
         /\ Fits(from - prev) => reverse_read(buf, at).prev = prev
  <1> DEFINE a == Write(from - prev)
             b == Write(Len(name))
             t == SubSeq(buf, 1, from)
             p == SubSeq(buf, 1, at)
             la == Len(a)
             lb == Len(b)
             ln == Len(name)
             size == ReverseRead(p)
             stop == at - size[2]
             start == stop - size[1]
             head == SubSeq(buf, 1, start)
             back == ReverseRead(head)
             skip == start - back[2]
  <1>1. /\ from \in Nat /\ at \in Nat /\ from < at /\ at <= Len(buf)
        /\ prev \in Nat /\ prev <= from /\ name \in Seq(Bytes) /\ ln \in Nat
        /\ p = t \o Record(from, prev, name)
    BY DEF Stands
  <1>2. /\ a \in Seq(Bytes) /\ b \in Seq(Bytes) /\ la >= 1 /\ lb >= 1
        /\ Record(from, prev, name) \in Seq(Bytes)
        /\ Len(Record(from, prev, name)) = la + ln + lb
    BY <1>1, RecordBytes
  <1>3. Encodes(from - prev, a) /\ Encodes(ln, b) BY <1>1, WriteIs
  <1>4. Record(from, prev, name) = (a \o name) \o b BY DEF Record
  <1>5. reverse_read(buf, at) = [name |-> SubSeq(buf, start + 1, stop), skip |-> skip,
                                 prev |-> skip - back[1]]
    BY DEF reverse_read
  <1>6. t \in Seq(Bytes) /\ Len(t) = from /\ p \in Seq(Bytes) /\ Len(p) = at BY <1>1
  <1>7. la \in Nat /\ lb \in Nat BY <1>2
  <1> HIDE DEF a, b, t, p, la, lb, ln
  <1> DEFINE u == t \o a
             v == u \o name
  <1>8. u \in Seq(Bytes) /\ Len(u) = from + la
    <2>1. t \in Seq(Bytes) /\ a \in Seq(Bytes) BY <1>2, <1>6
    <2>2. u \in Seq(Bytes) /\ Len(u) = Len(t) + Len(a) BY <2>1, ConcatProperties
    <2> QED BY <2>2, <1>6 DEF la
  <1>9. v \in Seq(Bytes) /\ Len(v) = from + la + ln /\ SubSeq(v, 1, Len(u)) = u
        /\ SubSeq(v, Len(u) + 1, Len(u) + ln) = name
    <2> HIDE DEF u
    <2>1. /\ v \in Seq(Bytes) /\ Len(v) = Len(u) + ln
          /\ SubSeq(v, 1, Len(u)) = u /\ SubSeq(v, Len(u) + 1, Len(u) + ln) = name
      <3>1. u \in Seq(Bytes) /\ name \in Seq(Bytes) BY <1>1, <1>8
      <3> QED BY <3>1, ConcatParts DEF ln
    <2> QED BY <2>1, <1>8
  <1>10. p = v \o b
    <2>1. p = t \o ((a \o name) \o b) BY <1>1, <1>4
    <2>2. t \o ((a \o name) \o b) = (t \o (a \o name)) \o b
      <3> DEFINE c == a \o name
      <3>1. t \in Seq(Bytes) /\ c \in Seq(Bytes) /\ b \in Seq(Bytes)
        BY <1>1, <1>2, <1>6, ConcatProperties
      <3> HIDE DEF c
      <3>2. t \o (c \o b) = (t \o c) \o b BY SMTT(30), <3>1, ThreeParts
      <3> QED BY <3>2 DEF c
    <2>3. t \o (a \o name) = (t \o a) \o name
      <3>1. t \in Seq(Bytes) /\ a \in Seq(Bytes) /\ name \in Seq(Bytes) BY <1>1, <1>2, <1>6
      <3> QED BY SMTT(30), <3>1, ThreeParts
    <2> QED BY <2>1, <2>2, <2>3
  <1> HIDE DEF u, v
  <1>11. Len(p) = from + la + ln + lb /\ SubSeq(p, 1, Len(v)) = v
    <2>1. Len(p) = Len(v) + Len(b) /\ SubSeq(p, 1, Len(v)) = v BY <1>2, <1>9, <1>10, ConcatParts
    <2> QED BY <2>1, <1>9 DEF lb
  <1>12. size = <<ln, lb>> BY <1>3, <1>9, <1>10 DEF Encodes, lb, ln
  <1> HIDE DEF size
  <1>13. size[1] = ln /\ size[2] = lb BY <1>12
  <1>14. stop = from + la + ln /\ start = from + la BY <1>1, <1>6, <1>7, <1>11, <1>13
  <1> HIDE DEF stop, start
  <1>15. head = u
    <2>1. SubSeq(p, 1, start) = head
      <3>1. start \in Nat /\ start <= at BY <1>1, <1>6, <1>7, <1>11, <1>14
      <3> QED BY <1>1, <3>1, PartOfPrefix DEF p
    <2>2. SubSeq(SubSeq(p, 1, Len(v)), 1, start) = SubSeq(p, 1, start)
      <3>1. start \in Nat /\ start <= Len(v) /\ Len(v) \in Nat /\ Len(v) <= Len(p)
        BY <1>1, <1>7, <1>9, <1>11, <1>14
      <3> QED BY <1>6, <3>1, PartOfPrefix
    <2> QED BY <2>1, <2>2, <1>8, <1>9, <1>11, <1>14
  <1>16. SubSeq(buf, start + 1, stop) = name
    <2>0. start + 1 \in Nat /\ start + 1 >= 1 /\ stop \in Nat /\ stop <= at /\ stop <= Len(v)
          /\ Len(v) \in Nat /\ Len(v) <= Len(p)
      BY <1>1, <1>6, <1>7, <1>9, <1>11, <1>14
    <2>1. SubSeq(p, start + 1, stop) = SubSeq(buf, start + 1, stop)
      <3>1. buf \in Seq(Bytes) /\ at \in Nat /\ at <= Len(buf) BY <1>1
      <3> QED BY SMTT(30), <3>1, <2>0, PartOfPrefix DEF p
    <2>2. SubSeq(SubSeq(p, 1, Len(v)), start + 1, stop) = SubSeq(p, start + 1, stop)
      BY SMTT(30), <1>6, <2>0, PartOfPrefix
    <2> QED BY <2>1, <2>2, <1>8, <1>9, <1>11, <1>14
  <1> HIDE DEF head
  <1>17. back[2] = la /\ (Fits(from - prev) => back[1] = from - prev)
    <2>1. back = ReverseRead(t \o a) BY <1>15 DEF u
    <2>2. ReverseRead(t \o a)[2] = la /\ (Fits(from - prev) => ReverseRead(t \o a) = <<from - prev, la>>)
      BY <1>3, <1>6 DEF Encodes, la
    <2> HIDE DEF back
    <2> QED BY <2>1, <2>2
  <1> HIDE DEF back
  <1>18. skip = from BY <1>1, <1>7, <1>14, <1>17
  <1>19. Fits(from - prev) => skip - back[1] = prev BY <1>1, <1>17, <1>18
  <1> HIDE DEF skip
  <1> QED BY <1>5, <1>16, <1>18, <1>19

--------------------------------------------------------------------------------
(* Reading from record to record. *)

(* A function that collects items from each number on, by its next one. *)
Collects(m, next, item, f) ==
    f = [i \in 0 .. m |-> IF i # 0 /\ next[i] \in 0 .. i - 1 THEN Append(f[next[i]], item[i]) ELSE <<>>]

LEMMA CollectsExists ==
  ASSUME NEW m \in Nat, NEW next, NEW item
  PROVE  \E f : Collects(m, next, item, f)
  <1> DEFINE S == 0 .. m
             V == Seq({item[i] : i \in S})
             ends == {i \in S : ~(i # 0 /\ next[i] \in 0 .. i - 1)}
             step == [i \in S |-> [p \in V |-> Append(p, item[i])]]
  <1>1. \A i \in S, p \in V : Append(p, item[i]) \in V OBVIOUS
  <1>2. step \in [S -> [V -> V]] BY <1>1
  <1>3. \A i \in S, p \in V : step[i][p] = Append(p, item[i]) OBVIOUS
  <1>4. \A i \in S \ ends : next[i] \in S /\ next[i] < i OBVIOUS
  <1>5. <<>> \in V OBVIOUS
  <1>6. S \in SUBSET (0 .. m) OBVIOUS
  <1>7. \A i \in S : i \in ends <=> ~(i # 0 /\ next[i] \in 0 .. i - 1) OBVIOUS
  <1> HIDE DEF step, V, ends
  <1>8. DownIn(V, S, ends, step, next) BY <1>2, <1>4 DEF DownIn
  <1> HIDE DEF S
  <1>9. PICK f : DownRecursion(V, S, ends, <<>>, step, next, f)
    BY <1>5, <1>6, <1>8, DownRecursionExists
  <1>10. f \in [S -> V] /\ \A i \in S : f[i] = IF i \in ends THEN <<>> ELSE step[i][f[next[i]]]
    BY <1>9 DEF DownRecursion
  <1>11. \A i \in S : f[i] = IF i # 0 /\ next[i] \in 0 .. i - 1 THEN Append(f[next[i]], item[i]) ELSE <<>>
    <2> TAKE i \in S
    <2>1. CASE i \in ends BY <2>1, <1>7, <1>10
    <2>2. CASE i \notin ends
      <3>1. f[next[i]] \in V BY <2>2, <1>4, <1>10
      <3>2. step[i][f[next[i]]] = Append(f[next[i]], item[i]) BY <3>1, <1>3
      <3> QED BY <2>2, <3>2, <1>7, <1>10
    <2> QED BY <2>1, <2>2
  <1>12. Collects(m, next, item, f) BY <1>10, <1>11 DEF Collects, S
  <1> QED BY <1>12

PathsOf(buf, path) ==
    path = [i \in 0 .. Len(buf) |->
               IF i # NONE /\ reverse_read(buf, i).prev \in 0 .. i - 1
               THEN Append(path[reverse_read(buf, i).prev], reverse_read(buf, i).name)
               ELSE <<>>]

LEMMA RawPathUnfolds ==
  ASSUME NEW buf \in Seq(Bytes)
  PROVE  \A at \in 0 .. Len(buf) : raw_path(buf, at) =
            IF at # NONE /\ reverse_read(buf, at).prev \in 0 .. at - 1
            THEN Append(raw_path(buf, reverse_read(buf, at).prev), reverse_read(buf, at).name)
            ELSE <<>>
  <1> DEFINE next == [i \in 0 .. Len(buf) |-> reverse_read(buf, i).prev]
             item == [i \in 0 .. Len(buf) |-> reverse_read(buf, i).name]
             f == CHOOSE path : PathsOf(buf, path)
  <1>1. Len(buf) \in Nat OBVIOUS
  <1>2. \E path : Collects(Len(buf), next, item, path) BY <1>1, CollectsExists
  <1>3. ASSUME NEW path, Collects(Len(buf), next, item, path) PROVE PathsOf(buf, path)
    BY <1>3 DEF Collects, PathsOf, NONE
  <1>4. \E path : PathsOf(buf, path) BY <1>2, <1>3
  <1>5. PathsOf(buf, f) BY <1>4
  <1>6. \A at : raw_path(buf, at) = f[at] BY DEF raw_path, PathsOf
  <1> HIDE DEF f
  <1>7. \A at \in 0 .. Len(buf) : f[at] = IF at # NONE /\ reverse_read(buf, at).prev \in 0 .. at - 1
                                          THEN Append(f[reverse_read(buf, at).prev], reverse_read(buf, at).name)
                                          ELSE <<>>
    BY <1>5 DEF PathsOf
  <1> QED BY <1>6, <1>7

BelowsOf(buf, below) ==
    below = [i \in 0 .. Len(buf) |->
               IF i # NONE /\ reverse_read(buf, i).skip \in 0 .. i - 1
               THEN Append(below[reverse_read(buf, i).skip], <<i, reverse_read(buf, i).name>>)
               ELSE <<>>]

LEMMA AllBelowUnfolds ==
  ASSUME NEW buf \in Seq(Bytes)
  PROVE  \A at \in 0 .. Len(buf) : AllBelow(buf, at) =
            IF at # NONE /\ reverse_read(buf, at).skip \in 0 .. at - 1
            THEN Append(AllBelow(buf, reverse_read(buf, at).skip), <<at, reverse_read(buf, at).name>>)
            ELSE <<>>
  <1> DEFINE next == [i \in 0 .. Len(buf) |-> reverse_read(buf, i).skip]
             item == [i \in 0 .. Len(buf) |-> <<i, reverse_read(buf, i).name>>]
             f == CHOOSE below : BelowsOf(buf, below)
  <1>1. Len(buf) \in Nat OBVIOUS
  <1>2. \E below : Collects(Len(buf), next, item, below) BY <1>1, CollectsExists
  <1>3. ASSUME NEW below, Collects(Len(buf), next, item, below) PROVE BelowsOf(buf, below)
    BY <1>3 DEF Collects, BelowsOf, NONE
  <1>4. \E below : BelowsOf(buf, below) BY <1>2, <1>3
  <1>5. BelowsOf(buf, f) BY <1>4
  <1>6. \A at : AllBelow(buf, at) = f[at] BY DEF AllBelow, BelowsOf
  <1> HIDE DEF f
  <1>7. \A at \in 0 .. Len(buf) : f[at] = IF at # NONE /\ reverse_read(buf, at).skip \in 0 .. at - 1
                                          THEN Append(f[reverse_read(buf, at).skip], <<at, reverse_read(buf, at).name>>)
                                          ELSE <<>>
    BY <1>5 DEF BelowsOf
  <1> QED BY <1>6, <1>7

--------------------------------------------------------------------------------
(* What a buffer holds: record i lies between the ends of its neighbours, and   *)
(* leads to an earlier one, or to none.                                        *)

Origin == [at |-> NONE, path |-> <<>>, whole |-> TRUE]
Base(iss, i) == IF i = 0 THEN Origin ELSE iss[i]

Entries == [at : Nat, path : Seq(Seq(Bytes)), whole : BOOLEAN]

Pushed(buf, iss, i, j, name) ==
    /\ j \in 0 .. i - 1
    /\ Stands(buf, Base(iss, i - 1).at, iss[i].at, Base(iss, j).at, name)
    /\ iss[i].path = Append(Base(iss, j).path, name)
    /\ iss[i].whole <=> /\ Base(iss, j).whole
                        /\ Fits(Base(iss, i - 1).at - Base(iss, j).at) /\ Fits(Len(name))

BungeeInv ==
    /\ encoding \in {"VarInt", "FixedInt"}
    /\ data \in Seq(Bytes)
    /\ issued \in Seq(Entries)
    /\ Len(data) = Base(issued, Len(issued)).at
    /\ \A i, k \in 0 .. Len(issued) : i < k => Base(issued, i).at < Base(issued, k).at
    /\ \A i \in 1 .. Len(issued) : \E j, name : Pushed(data, issued, i, j, name)

LEMMA BaseTypes ==
  ASSUME BungeeInv
  PROVE  /\ Len(issued) \in Nat
         /\ \A i \in 0 .. Len(issued) : /\ Base(issued, i) \in Entries
                                        /\ Base(issued, i).at \in 0 .. Len(data)
                                        /\ Base(issued, i).path \in Seq(Seq(Bytes))
         /\ \A i \in 1 .. Len(issued) : Base(issued, i) = issued[i]
  <1>1. issued \in Seq(Entries) /\ Len(issued) \in Nat /\ Len(data) = Base(issued, Len(issued)).at
    BY DEF BungeeInv
  <1>2. Origin \in Entries BY DEF Origin, Entries, NONE
  <1>3. \A i \in 0 .. Len(issued) : Base(issued, i) \in Entries
    BY <1>1, <1>2 DEF Base
  <1>4. \A i \in 0 .. Len(issued) : Base(issued, i).at \in Nat /\ Base(issued, i).path \in Seq(Seq(Bytes))
    BY <1>3 DEF Entries
  <1>5. ASSUME NEW i \in 0 .. Len(issued) PROVE Base(issued, i).at <= Len(data)
    <2>1. CASE i = Len(issued) BY <2>1, <1>1, <1>4
    <2>2. CASE i < Len(issued)
      <3>1. Len(issued) \in 0 .. Len(issued) BY <1>1
      <3>2. Base(issued, i).at < Base(issued, Len(issued)).at BY <2>2, <3>1 DEF BungeeInv
      <3> QED BY <3>1, <3>2, <1>1, <1>4
    <2> QED BY <2>1, <2>2, <1>1
  <1>6. \A i \in 0 .. Len(issued) : Base(issued, i).at \in 0 .. Len(data)
    <2> TAKE i \in 0 .. Len(issued)
    <2>1. Base(issued, i).at \in Nat /\ Base(issued, i).at <= Len(data) BY <1>4, <1>5
    <2>2. Len(data) \in Nat BY DEF BungeeInv
    <2> QED BY <2>1, <2>2
  <1>7. \A i \in 1 .. Len(issued) : Base(issued, i) = issued[i] BY <1>1 DEF Base
  <1> QED BY <1>1, <1>3, <1>4, <1>6, <1>7

(* What the invariant says of one record, as it is read back. *)
LEMMA RecordRead ==
  ASSUME BungeeInv, NEW i \in 1 .. Len(issued)
  PROVE  \E j \in 0 .. i - 1, name \in Seq(Bytes) :
            /\ Base(issued, i).path = Append(Base(issued, j).path, name)
            /\ Base(issued, i).whole =>
                  /\ Base(issued, j).whole
                  /\ reverse_read(data, Base(issued, i).at).name = name
                  /\ reverse_read(data, Base(issued, i).at).prev = Base(issued, j).at
                  /\ Base(issued, j).at \in 0 .. Base(issued, i).at - 1
            /\ Fits(Len(name)) =>
                  /\ reverse_read(data, Base(issued, i).at).name = name
                  /\ reverse_read(data, Base(issued, i).at).skip = Base(issued, i - 1).at
                  /\ Base(issued, i - 1).at \in 0 .. Base(issued, i).at - 1
  <1>1. PICK j, name : Pushed(data, issued, i, j, name) BY DEF BungeeInv
  <1>2. Base(issued, i) = issued[i] BY BaseTypes
  <1> DEFINE at == Base(issued, i).at
             from == Base(issued, i - 1).at
             prev == Base(issued, j).at
  <1>3. /\ j \in 0 .. i - 1 /\ name \in Seq(Bytes) /\ Stands(data, from, at, prev, name)
        /\ Base(issued, i).path = Append(Base(issued, j).path, name)
        /\ Base(issued, i).whole <=> /\ Base(issued, j).whole
                                     /\ Fits(from - prev) /\ Fits(Len(name))
    BY <1>1, <1>2 DEF Pushed, Stands
  <1> HIDE DEF at, from, prev
  <1>4. at \in Nat /\ from \in Nat /\ prev \in Nat /\ from < at /\ prev <= from BY <1>3 DEF Stands
  <1>5. from \in 0 .. at - 1 /\ prev \in 0 .. at - 1 BY <1>4
  <1>6. encoding \in {"VarInt", "FixedInt"} /\ data \in Seq(Bytes) BY DEF BungeeInv
  <1>7. Fits(Len(name)) => /\ reverse_read(data, at).name = name
                           /\ reverse_read(data, at).skip = from
                           /\ Fits(from - prev) => reverse_read(data, at).prev = prev
    BY <1>3, <1>6, RecordReadBack
  <1> QED BY <1>3, <1>5, <1>7 DEF at, from, prev

LEMMA InvPathsKept == BungeeInv => PathsKept
  <1> SUFFICES ASSUME BungeeInv PROVE PathsKept OBVIOUS
  <1> DEFINE n == Len(issued)
             at(i) == Base(issued, i).at
             Kept(i) == Base(issued, i).whole => raw_path(data, at(i)) = Base(issued, i).path
             S == {k \in Nat : \A i \in 0 .. n : i <= k => Kept(i)}
  <1>1. /\ n \in Nat /\ data \in Seq(Bytes) /\ issued \in Seq(Entries)
        /\ \A i \in 0 .. n : at(i) \in 0 .. Len(data)
    BY BaseTypes DEF BungeeInv
  <1>2. Kept(0)
    <2>1. at(0) = 0 /\ Base(issued, 0).path = <<>> BY DEF Base, Origin, NONE
    <2>2. 0 \in 0 .. Len(data) BY <1>1
    <2>3. raw_path(data, 0) = <<>> BY <1>1, <2>2, RawPathUnfolds DEF NONE
    <2> QED BY <2>1, <2>3
  <1>3. 0 \in S BY <1>2
  <1>4. ASSUME NEW k \in Nat, k \in S PROVE k + 1 \in S
    <2> SUFFICES ASSUME k + 1 \in 0 .. n, Base(issued, k + 1).whole
                 PROVE  raw_path(data, at(k + 1)) = Base(issued, k + 1).path
      BY <1>4
    <2> DEFINE i == k + 1
    <2>1. i \in 1 .. n /\ i \in 0 .. n /\ k = i - 1 BY <1>1
    <2>2. PICK j \in 0 .. i - 1, name \in Seq(Bytes) :
            /\ Base(issued, i).path = Append(Base(issued, j).path, name)
            /\ Base(issued, i).whole =>
                  /\ Base(issued, j).whole
                  /\ reverse_read(data, Base(issued, i).at).name = name
                  /\ reverse_read(data, Base(issued, i).at).prev = Base(issued, j).at
                  /\ Base(issued, j).at \in 0 .. Base(issued, i).at - 1
      BY <2>1, RecordRead
    <2>3. Base(issued, i).whole OBVIOUS
    <2> HIDE DEF i
    <2>4. j \in 0 .. n /\ j <= k BY <2>1
    <2>5. Kept(j) BY <2>4, <1>4
    <2>6. raw_path(data, at(j)) = Base(issued, j).path BY <2>2, <2>3, <2>5
    <2>7. /\ reverse_read(data, at(i)).name = name /\ reverse_read(data, at(i)).prev = at(j)
          /\ at(j) \in 0 .. at(i) - 1 /\ at(i) \in 0 .. Len(data)
      BY <1>1, <2>1, <2>2, <2>3
    <2> HIDE DEF at
    <2>8. at(i) # NONE BY <2>7 DEF NONE
    <2>9. raw_path(data, at(i)) = Append(raw_path(data, at(j)), name)
      BY <1>1, <2>7, <2>8, RawPathUnfolds
    <2>10. raw_path(data, at(i)) = Base(issued, i).path BY <2>2, <2>6, <2>9
    <2> QED BY <2>10 DEF i
  <1> HIDE DEF S
  <1>5. Nat \subseteq S BY <1>3, <1>4, NumbersInduction
  <1> HIDE DEF Kept
  <1>6. \A i \in 1 .. n : Kept(i)
    <2> TAKE i \in 1 .. n
    <2>1. i \in Nat /\ i \in S /\ i \in 0 .. n /\ i <= i BY <1>5
    <2> QED BY <2>1 DEF S
  <1>7. ASSUME NEW r \in Range(issued), r.whole PROVE raw_path(data, r.at) = r.path
    <2>1. PICK i \in 1 .. n : r = issued[i] BY <1>1 DEF Range
    <2>2. r = Base(issued, i) BY <2>1, BaseTypes
    <2>3. Kept(i) BY <1>6
    <2> QED BY <2>2, <2>3, <1>7 DEF Kept
  <1> QED BY <1>7 DEF PathsKept

LEMMA InvSkips == BungeeInv => SkipVisitsAll
  <1> SUFFICES ASSUME BungeeInv, LengthsFit
               PROVE  AllBelow(data, last_index(data)) =
                         [i \in DOMAIN issued |-> <<issued[i].at, Last(issued[i].path)>>]
    BY DEF SkipVisitsAll
  <1> DEFINE n == Len(issued)
             at(i) == Base(issued, i).at
             item(i) == <<issued[i].at, Last(issued[i].path)>>
             S == {i \in 0 .. n : AllBelow(data, at(i)) = [x \in 1 .. i |-> item(x)]}
  <1>1. /\ n \in Nat /\ data \in Seq(Bytes) /\ issued \in Seq(Entries)
        /\ \A i \in 0 .. n : at(i) \in 0 .. Len(data)
    BY BaseTypes DEF BungeeInv
  <1>2. 0 \in S
    <2>1. at(0) = 0 BY DEF Base, Origin, NONE
    <2>2. 0 \in 0 .. Len(data) BY <1>1
    <2>3. AllBelow(data, 0) = <<>> BY <1>1, <2>2, AllBelowUnfolds DEF NONE
    <2>4. [x \in 1 .. 0 |-> item(x)] = <<>> OBVIOUS
    <2>5. 0 \in 0 .. n BY <1>1
    <2> QED BY <2>1, <2>3, <2>4, <2>5
  <1>3. ASSUME NEW k \in 0 .. n - 1, k \in S PROVE k + 1 \in S
    <2> DEFINE i == k + 1
    <2>1. i \in 1 .. n /\ i \in 0 .. n /\ i - 1 = k /\ k \in Nat /\ k \in 0 .. n BY <1>1
    <2>2. PICK j \in 0 .. i - 1, name \in Seq(Bytes) :
            /\ Base(issued, i).path = Append(Base(issued, j).path, name)
            /\ Fits(Len(name)) =>
                  /\ reverse_read(data, Base(issued, i).at).name = name
                  /\ reverse_read(data, Base(issued, i).at).skip = Base(issued, i - 1).at
                  /\ Base(issued, i - 1).at \in 0 .. Base(issued, i).at - 1
      BY <2>1, RecordRead
    <2> HIDE DEF i
    <2>3. Base(issued, i) = issued[i] BY <2>1, BaseTypes
    <2>4. Last(issued[i].path) = name
      <3>1. j \in 0 .. n BY <2>1
      <3>2. Base(issued, j).path \in Seq(Seq(Bytes)) BY <3>1, BaseTypes
      <3>3. Last(Append(Base(issued, j).path, name)) = name BY <3>2 DEF Last
      <3> QED BY <2>2, <2>3, <3>3
    <2>5. Fits(Len(name))
      <3>1. issued[i] \in Range(issued) BY <1>1, <2>1 DEF Range
      <3> QED BY <3>1, <2>4 DEF LengthsFit
    <2>6. /\ reverse_read(data, at(i)).name = name /\ reverse_read(data, at(i)).skip = at(k)
          /\ at(k) \in 0 .. at(i) - 1 /\ at(i) \in 0 .. Len(data)
      BY <1>1, <2>1, <2>2, <2>5
    <2>7. item(i) = <<at(i), name>> BY <2>3, <2>4
    <2>8. AllBelow(data, at(k)) = [x \in 1 .. k |-> item(x)] BY <1>3
    <2> HIDE DEF at
    <2>9. at(i) # NONE BY <2>6 DEF NONE
    <2>10. AllBelow(data, at(i)) = Append(AllBelow(data, at(k)), item(i))
      BY <1>1, <2>6, <2>7, <2>9, AllBelowUnfolds
    <2> HIDE DEF item
    <2>11. Append([x \in 1 .. k |-> item(x)], item(i)) = [x \in 1 .. i |-> item(x)]
      BY <2>1 DEF i
    <2>12. AllBelow(data, at(i)) = [x \in 1 .. i |-> item(x)] BY <2>8, <2>10, <2>11
    <2> QED BY <2>1, <2>12 DEF i
  <1> HIDE DEF S
  <1>4. 0 .. n \subseteq S BY <1>1, <1>2, <1>3, IntervalInduction
  <1>5. AllBelow(data, at(n)) = [x \in 1 .. n |-> item(x)]
    <2>1. n \in 0 .. n BY <1>1
    <2> QED BY <2>1, <1>4 DEF S
  <1>6. last_index(data) = at(n) BY DEF BungeeInv, last_index
  <1>7. DOMAIN issued = 1 .. n BY <1>1
  <1> QED BY <1>5, <1>6, <1>7

LEMMA InvOffsets == BungeeInv => OffsetsReadBack
  <1> SUFFICES ASSUME BungeeInv, NEW n \in 0 .. Len(data), NEW byte \in Range(data), Fits(n)
               PROVE  /\ ReverseRead(<<byte>> \o Write(n)) = <<n, Len(Write(n))>>
                      /\ Read(Write(n) \o <<byte>>) = <<n, Len(Write(n))>>
    BY DEF OffsetsReadBack
  <1>1. encoding \in {"VarInt", "FixedInt"} /\ data \in Seq(Bytes) BY DEF BungeeInv
  <1>2. n \in Nat OBVIOUS
  <1>3. <<byte>> \in Seq(Bytes)
    <2>1. byte \in Bytes BY <1>1 DEF Range
    <2> QED BY <2>1
  <1>4. Encodes(n, Write(n)) BY <1>1, <1>2, WriteIs
  <1> QED BY <1>3, <1>4 DEF Encodes

--------------------------------------------------------------------------------
(* Pushing. *)

IndexOf(iss, at) == SelectInSeq(iss, LAMBDA r : r.at = at)

(* An index that was issued stands for one record. *)
LEMMA IssuedOnce ==
  ASSUME BungeeInv, NEW prev \in Issued \union {NONE}
  PROVE  \E j \in 0 .. Len(issued) : /\ Base(issued, j).at = prev
                                     /\ IssuedAt(prev).path = Base(issued, j).path
                                     /\ IssuedAt(prev).whole = Base(issued, j).whole
  <1> DEFINE n == Len(issued)
  <1>1. n \in Nat /\ DOMAIN issued = 1 .. n /\ issued \in Seq(Entries) BY BaseTypes DEF BungeeInv
  <1>2. CASE prev = NONE
    <2>1. Base(issued, 0) = Origin /\ 0 \in 0 .. n BY <1>1 DEF Base
    <2>2. IssuedAt(prev) = [path |-> <<>>, whole |-> TRUE] BY <1>2 DEF IssuedAt
    <2>3. IssuedAt(prev).path = <<>> /\ IssuedAt(prev).whole = TRUE BY <2>2
    <2>4. Origin.at = NONE /\ Origin.path = <<>> /\ Origin.whole = TRUE BY DEF Origin
    <2>5. /\ Base(issued, 0).at = prev
          /\ IssuedAt(prev).path = Base(issued, 0).path
          /\ IssuedAt(prev).whole = Base(issued, 0).whole
      BY <1>2, <2>1, <2>3, <2>4
    <2> QED BY <2>1, <2>5
  <1>3. CASE prev # NONE
    <2> DEFINE I == {i \in 1 .. n : issued[i].at = prev}
               j == Min(I)
    <2>1. I # {} BY <1>1, <1>3 DEF Issued
    <2>2. I \in SUBSET Nat OBVIOUS
    <2>3. IndexOf(issued, prev) = j BY <2>1 DEF IndexOf, SelectInSeq
    <2>4. IssuedAt(prev) = issued[IndexOf(issued, prev)] BY <1>3 DEF IssuedAt, IndexOf
    <2>5. j \in I BY <2>1, <2>2, MinOfSet
    <2> HIDE DEF j
    <2>6. j \in 1 .. n /\ issued[j].at = prev BY <2>5
    <2>7. Base(issued, j) = issued[j] BY <2>6, BaseTypes
    <2>8. j \in 0 .. n BY <2>6
    <2> QED BY <2>3, <2>4, <2>6, <2>7, <2>8
  <1> QED BY <1>2, <1>3

(* Records do not move when the buffer grows. *)
LEMMA StandsStill ==
  ASSUME NEW buf \in Seq(Bytes), NEW more \in Seq(Bytes),
         NEW from, NEW at, NEW prev, NEW name, Stands(buf, from, at, prev, name)
  PROVE  Stands(buf \o more, from, at, prev, name)
  <1>1. from \in Nat /\ at \in Nat /\ from < at /\ at <= Len(buf) BY DEF Stands
  <1>2. Len(buf \o more) = Len(buf) + Len(more) OBVIOUS
  <1>3. SubSeq(buf \o more, 1, at) = SubSeq(buf, 1, at) BY <1>1, PrefixKept
  <1>4. SubSeq(buf \o more, 1, from) = SubSeq(buf, 1, from)
    <2>1. from <= Len(buf) BY <1>1
    <2> QED BY <1>1, <2>1, PrefixKept
  <1>5. at <= Len(buf \o more) BY <1>1, <1>2
  <1> HIDE DEF Stands
  <1> QED BY <1>3, <1>4, <1>5 DEF Stands

LEMMA StandsNew ==
  ASSUME encoding \in {"VarInt", "FixedInt"}, NEW buf \in Seq(Bytes),
         NEW prev \in Nat, prev <= Len(buf), NEW name \in Seq(Bytes)
  PROVE  LET grown == buf \o Record(Len(buf), prev, name)
         IN  grown \in Seq(Bytes) /\ Stands(grown, Len(buf), Len(grown), prev, name)
  <1> DEFINE r == Record(Len(buf), prev, name)
             from == Len(buf)
             grown == buf \o r
  <1>1. from \in Nat OBVIOUS
  <1>2. r \in Seq(Bytes) /\ Len(r) = Len(Write(from - prev)) + Len(name) + Len(Write(Len(name)))
        /\ Len(Write(from - prev)) >= 1 /\ Len(Write(Len(name))) >= 1
        /\ Write(from - prev) \in Seq(Bytes) /\ Write(Len(name)) \in Seq(Bytes)
    BY <1>1, RecordBytes
  <1>3. Len(r) >= 1
    <2>1. Len(name) \in Nat /\ Len(Write(from - prev)) \in Nat /\ Len(Write(Len(name))) \in Nat BY <1>2
    <2> QED BY <1>2, <2>1
  <1> HIDE DEF r
  <1>4. /\ grown \in Seq(Bytes) /\ Len(grown) = from + Len(r) /\ Len(r) \in Nat
        /\ SubSeq(grown, 1, from) = buf
    <2>1. buf \in Seq(Bytes) /\ r \in Seq(Bytes) /\ Len(r) \in Nat BY <1>2
    <2> QED BY <2>1, ConcatParts
  <1>5. SubSeq(grown, 1, Len(grown)) = grown BY <1>4, SubSeqFull
  <1> HIDE DEF grown
  <1>6. Len(grown) \in Nat /\ from < Len(grown) BY <1>1, <1>3, <1>4
  <1>7. grown = SubSeq(grown, 1, from) \o Record(from, prev, name) BY <1>4 DEF grown, r
  <1>8. SubSeq(grown, 1, Len(grown)) = SubSeq(grown, 1, from) \o Record(from, prev, name)
    BY <1>5, <1>7
  <1>9. prev <= from OBVIOUS
  <1> HIDE DEF from
  <1>10. Stands(grown, from, Len(grown), prev, name) BY <1>1, <1>6, <1>8, <1>9 DEF Stands
  <1> QED BY <1>4, <1>10 DEF grown, r, from

LEMMA PushKeeps ==
  ASSUME BungeeInv, NEW prev \in Issued \union {NONE}, NEW name \in Seq(Bytes), push(prev, name)
  PROVE  BungeeInv'
  <1>0. encoding' = encoding BY DEF push
  <1>1. CASE name = <<>>
    <2>1. data' = data /\ issued' = issued BY <1>1 DEF push, PushBytes
    <2>2. \A i, j, nm : Pushed(data, issued, i, j, nm) <=> Pushed(data, issued, i, j, nm)'
      BY <1>0, <2>1 DEF Pushed, Stands, Record, Write, Fits
    <2> QED BY <1>0, <2>1, <2>2 DEF BungeeInv
  <1>2. CASE name # <<>>
    <2> DEFINE n == Len(issued)
               r == Record(Len(data), prev, name)
               grown == data \o r
    <2>1. /\ encoding \in {"VarInt", "FixedInt"} /\ data \in Seq(Bytes)
          /\ issued \in Seq(Entries) /\ n \in Nat
      BY BaseTypes DEF BungeeInv
    <2>2. PICK j \in 0 .. n : /\ Base(issued, j).at = prev
                              /\ IssuedAt(prev).path = Base(issued, j).path
                              /\ IssuedAt(prev).whole = Base(issued, j).whole
      BY IssuedOnce
    <2>3. Base(issued, j) \in Entries /\ prev \in 0 .. Len(data) BY <2>2, BaseTypes
    <2> DEFINE new == [at |-> Len(grown), path |-> Append(Base(issued, j).path, name),
                       whole |-> /\ Base(issued, j).whole
                                 /\ Fits(Len(data) - prev) /\ Fits(Len(name))]
    <2>4. data' = grown /\ issued' = Append(issued, new)
      BY <1>2, <2>2 DEF push, PushBytes
    <2>5. grown \in Seq(Bytes) /\ Stands(grown, Len(data), Len(grown), prev, name)
      <3>1. prev \in Nat /\ prev <= Len(data) BY <2>3
      <3> QED BY <2>1, <3>1, StandsNew
    <2>6. r \in Seq(Bytes)
      <3>1. prev \in Nat /\ prev <= Len(data) /\ Len(data) \in Nat BY <2>1, <2>3
      <3> QED BY <2>1, <3>1, RecordBytes
    <2>7. \A from, at, p, nm : Stands(data, from, at, p, nm) => Stands(grown, from, at, p, nm)
      BY <2>1, <2>6, StandsStill
    <2> HIDE DEF r
    <2>8. Len(grown) \in Nat /\ Len(data) < Len(grown) /\ Len(data) \in Nat BY <2>1, <2>5 DEF Stands
    <2> HIDE DEF grown
    <2>9. new \in Entries
      <3>1. Append(Base(issued, j).path, name) \in Seq(Seq(Bytes)) BY <2>3 DEF Entries
      <3> QED BY <2>8, <3>1 DEF Entries
    <2>10. /\ new.at = Len(grown) /\ new.path = Append(Base(issued, j).path, name)
           /\ new.whole <=> /\ Base(issued, j).whole
                            /\ Fits(Len(data) - prev) /\ Fits(Len(name))
      OBVIOUS
    <2> HIDE DEF new
    <2>11. /\ issued' \in Seq(Entries) /\ Len(issued') = n + 1
           /\ issued'[n + 1] = new /\ \A i \in 1 .. n : issued'[i] = issued[i]
      BY <2>1, <2>4, <2>9, AppendProperties
    <2>12. /\ \A i \in 0 .. n : Base(issued', i) = Base(issued, i)
           /\ Base(issued', n + 1) = new
      BY <2>1, <2>11 DEF Base
    <2>13. \A i \in 0 .. n : Base(issued, i).at \in 0 .. Len(data) BY BaseTypes
    <2>14. ASSUME NEW i \in 0 .. n + 1, NEW k \in 0 .. n + 1, i < k
           PROVE  Base(issued', i).at < Base(issued', k).at
      <3>1. CASE k = n + 1
        <4>1. i \in 0 .. n BY <3>1, <2>14, <2>1
        <4>2. Base(issued', i).at \in 0 .. Len(data) /\ Base(issued', k).at = Len(grown)
          <5>1. Base(issued', i) = Base(issued, i) BY <4>1, <2>12
          <5>2. Base(issued', k) = new BY <3>1, <2>12
          <5>3. Base(issued, i).at \in 0 .. Len(data) BY <4>1, <2>13
          <5> QED BY <5>1, <5>2, <5>3, <2>10
        <4> DEFINE a == Base(issued', i).at
                   b == Base(issued', k).at
        <4> HIDE DEF a, b
        <4>3. a \in Nat /\ a <= Len(data) /\ b = Len(grown) BY <4>2, <2>8 DEF a, b
        <4>4. a < b BY <4>3, <2>8
        <4> QED BY <4>4 DEF a, b
      <3>2. CASE k # n + 1
        <4>1. i \in 0 .. n /\ k \in 0 .. n BY <3>2, <2>14, <2>1
        <4>2. Base(issued, i).at < Base(issued, k).at BY <4>1, <2>14 DEF BungeeInv
        <4> QED BY <4>1, <4>2, <2>12
      <3> QED BY <3>1, <3>2
    <2>15. ASSUME NEW i \in 1 .. n + 1 PROVE \E k, nm : Pushed(grown, issued', i, k, nm)
      <3>1. CASE i = n + 1
        <4>1. Base(issued', i - 1).at = Len(data)
          <5>1. i - 1 = n /\ n \in 0 .. n BY <3>1, <2>1
          <5> QED BY <5>1, <2>12 DEF BungeeInv
        <4>2. issued'[i] = new /\ Base(issued', j) = Base(issued, j) /\ j \in 0 .. i - 1
          BY <3>1, <2>1, <2>11, <2>12
        <4>3. Pushed(grown, issued', i, j, name)
          <5>1. Stands(grown, Base(issued', i - 1).at, issued'[i].at, Base(issued', j).at, name)
            BY <4>1, <4>2, <2>2, <2>5, <2>10
          <5>2. issued'[i].path = Append(Base(issued', j).path, name) BY <4>2, <2>10
          <5>3. issued'[i].whole <=> /\ Base(issued', j).whole
                                     /\ Fits(Base(issued', i - 1).at - Base(issued', j).at)
                                     /\ Fits(Len(name))
            BY <4>1, <4>2, <2>2, <2>10
          <5> QED BY <4>2, <5>1, <5>2, <5>3 DEF Pushed
        <4> QED BY <4>3
      <3>2. CASE i # n + 1
        <4>1. i \in 1 .. n /\ i - 1 \in 0 .. n BY <3>2, <2>1
        <4>20. \E k, nm : Pushed(data, issued, i, k, nm) BY <4>1 DEF BungeeInv
        <4>2. PICK k, nm : Pushed(data, issued, i, k, nm) BY <4>20
        <4>3. k \in 0 .. i - 1 BY <4>2 DEF Pushed
        <4>30. k \in 0 .. n BY <4>1, <4>3
        <4>4. Base(issued', k) = Base(issued, k) /\ Base(issued', i - 1) = Base(issued, i - 1)
              /\ issued'[i] = issued[i]
          BY <4>1, <4>30, <2>11, <2>12
        <4>5. Pushed(grown, issued', i, k, nm)
          <5>1. Stands(grown, Base(issued, i - 1).at, issued[i].at, Base(issued, k).at, nm)
            BY <4>2, <2>7 DEF Pushed
          <5>2. /\ issued[i].path = Append(Base(issued, k).path, nm)
                /\ issued[i].whole <=> /\ Base(issued, k).whole
                                       /\ Fits(Base(issued, i - 1).at - Base(issued, k).at) /\ Fits(Len(nm))
            BY <4>2 DEF Pushed
          <5> QED BY <4>3, <4>4, <5>1, <5>2 DEF Pushed
        <4> QED BY <4>5
      <3> QED BY <3>1, <3>2
    <2>16. \A i, k, nm : Pushed(grown, issued', i, k, nm) => Pushed(data, issued, i, k, nm)'
      <3> SUFFICES ASSUME NEW i, NEW k, NEW nm, Pushed(grown, issued', i, k, nm)
                   PROVE  Pushed(data, issued, i, k, nm)'
        OBVIOUS
      <3>1. Pushed(data', issued', i, k, nm)
        <4>1. data' = grown BY <2>4
        <4> QED BY <4>1
      <3> QED BY <1>0, <3>1 DEF Pushed, Stands, Record, Write, Fits
    <2>17. Len(data') = Base(issued', Len(issued')).at
      <3>1. data' = grown BY <2>4
      <3> QED BY <3>1, <2>10, <2>11, <2>12
    <2>18. \A i, k \in 0 .. Len(issued') : i < k => Base(issued', i).at < Base(issued', k).at
      BY <2>11, <2>14
    <2>19. \A i \in 1 .. Len(issued') : \E k, nm : Pushed(data, issued, i, k, nm)'
      BY <2>11, <2>15, <2>16
    <2>20. encoding' \in {"VarInt", "FixedInt"} /\ data' \in Seq(Bytes) /\ issued' \in Seq(Entries)
      BY <1>0, <2>1, <2>4, <2>5, <2>11
    <2> QED BY <2>17, <2>18, <2>19, <2>20 DEF BungeeInv
  <1> QED BY <1>1, <1>2

LEMMA BungeeInvInit == BungeeInit => BungeeInv
  <1> SUFFICES ASSUME BungeeInit PROVE BungeeInv OBVIOUS
  <1>1. encoding \in {"VarInt", "FixedInt"} BY RadixAssumption DEF BungeeInit
  <1>2. data = <<>> /\ issued = <<>> /\ Len(issued) = 0 /\ data \in Seq(Bytes) /\ issued \in Seq(Entries)
    BY DEF BungeeInit
  <1>3. Base(issued, 0).at = 0 /\ Len(data) = 0 BY <1>2 DEF Base, Origin, NONE
  <1> QED BY <1>1, <1>2, <1>3 DEF BungeeInv

LEMMA BungeeInvSame == BungeeInv /\ UNCHANGED bungeeVars => BungeeInv'
  <1> SUFFICES ASSUME BungeeInv, UNCHANGED bungeeVars PROVE BungeeInv' OBVIOUS
  <1>1. encoding' = encoding /\ data' = data /\ issued' = issued BY DEF bungeeVars
  <1>2. \A i, j, name : Pushed(data, issued, i, j, name) <=> Pushed(data, issued, i, j, name)'
    BY <1>1 DEF Pushed, Stands, Record, Write, Fits
  <1> QED BY <1>1, <1>2 DEF BungeeInv

LEMMA BungeeInvStep == BungeeInv /\ [BungeeNext]_bungeeVars => BungeeInv'
  <1> SUFFICES ASSUME BungeeInv, [BungeeNext]_bungeeVars PROVE BungeeInv' OBVIOUS
  <1>1. CASE BungeeNext
    <2>1. PICK prev \in Issued \union {NONE}, name \in Names : push(prev, name) BY <1>1 DEF BungeeNext
    <2>2. name \in Seq(Bytes) BY NamesAssumption
    <2> QED BY <2>1, <2>2, PushKeeps
  <1>2. CASE UNCHANGED bungeeVars BY <1>2, BungeeInvSame
  <1> QED BY <1>1, <1>2

--------------------------------------------------------------------------------
(* A scan that uses either. *)

LEMMA NameStoresBungee == NameStoresInit => BungeeInv
  BY BungeeInvInit DEF NameStoresInit

LEMMA NameStoresStep == BungeeInv /\ [NameStoresNext]_nameStoresVars => BungeeInv'
  <1>1. [NameStoresNext]_nameStoresVars => BungeeNext \/ UNCHANGED bungeeVars
    BY DEF NameStoresNext, nameStoresVars
  <1> QED BY <1>1, BungeeInvStep

(* Whatever was pushed since, and on whatever, an index that was issued leads *)
(* back through the records to the path it was issued for.                   *)
THEOREM PathsAlwaysKept == NameStoresSpec => []PathsKept
  BY NameStoresBungee, NameStoresStep, InvPathsKept, PTL DEF NameStoresSpec

(* From the end of the buffer, every record pushed is met once, as long as    *)
(* the lengths of the strings fit the numbers.                               *)
THEOREM SkippingVisitsAll == NameStoresSpec => []SkipVisitsAll
  BY NameStoresBungee, NameStoresStep, InvSkips, PTL DEF NameStoresSpec

(* Numbers are read back from both sides of the bytes, whatever lies beside   *)
(* them.                                                                     *)
THEOREM OffsetsAlwaysReadBack == NameStoresSpec => []OffsetsReadBack
  BY NameStoresBungee, NameStoresStep, InvOffsets, PTL DEF NameStoresSpec

--------------------------------------------------------------------------------
(* First elements. *)

(* SelectInSeq finds the first item that is not passed over. *)
FirstKept(s, skip, at) == /\ at \in 1 .. Len(s)
                          /\ s[at] \notin skip
                          /\ \A i \in 1 .. at - 1 : s[i] \in skip

KeptAt(s, skip) == SelectInSeq(s, LAMBDA n : n \notin skip)

LEMMA SelectsFirst ==
  ASSUME NEW S, NEW s \in Seq(S), NEW skip, \E i \in 1 .. Len(s) : s[i] \notin skip
  PROVE  FirstKept(s, skip, KeptAt(s, skip))
  <1> DEFINE I == {i \in 1 .. Len(s) : s[i] \notin skip}
  <1>1. Len(s) \in Nat OBVIOUS
  <1>2. I \in SUBSET Nat /\ I # {} OBVIOUS
  <1>3. KeptAt(s, skip) = Min(I) BY <1>2 DEF SelectInSeq, KeptAt
  <1>4. Min(I) \in I /\ \A x \in I : Min(I) <= x BY <1>2, MinOfSet
  <1> DEFINE at == Min(I)
  <1> HIDE DEF at
  <1>5. at \in I /\ \A x \in I : at <= x BY <1>4 DEF at
  <1>6. at \in 1 .. Len(s) /\ s[at] \notin skip BY <1>5
  <1>7. \A i \in 1 .. at - 1 : s[i] \in skip
    <2> TAKE i \in 1 .. at - 1
    <2>1. i \in 1 .. Len(s) /\ ~(at <= i) BY <1>6, <1>1
    <2> QED BY <2>1, <1>5
  <1>8. FirstKept(s, skip, at) BY <1>6, <1>7 DEF FirstKept
  <1> QED BY <1>8, <1>3 DEF at

--------------------------------------------------------------------------------
(* The stack and its chain of directories. *)

Stacks == Seq(Seq(Nodes))
Chains == Seq(Nodes \union {0})

Chained(ch, r) == /\ ch \in Chains
                  /\ Len(ch) > 0 => ch[1] = r
                  /\ \A k \in 2 .. Len(ch) : ch[k] \in Nodes /\ Parent[ch[k]] = ch[k - 1]
                  /\ \A k \in 1 .. Len(ch) : ch[k] \notin closed

Distinct(s) == \A i, j \in 1 .. Len(s) : i # j => s[i] # s[j]

Levels(st, ch) == /\ st \in Stacks /\ Len(st) = Len(ch)
                  /\ \A k \in 1 .. Len(st) : /\ Distinct(st[k])
                                             /\ \A i \in 1 .. Len(st[k]) : Parent[st[k][i]] = ch[k]

Ascends(s) == \A i, j \in 1 .. Len(s) : i < j => s[i] < s[j]

Ordered(st) == /\ \A k \in 1 .. Len(st) : Ascends(st[k])
               /\ \A k, l \in 1 .. Len(st) : k < l =>
                     \A i \in 1 .. Len(st[k]), j \in 1 .. Len(st[l]) : st[l][j] < st[k][i]

Pending(st) == {n \in Nodes : \E k \in 1 .. Len(st) : \E i \in 1 .. Len(st[k]) : st[k][i] = n}

AdvancedTo(st, skip, nx, top, at) ==
    /\ top \in 1 .. Len(st) /\ FirstKept(st[top], skip, at)
    /\ \A k \in top + 1 .. Len(st) : \A i \in 1 .. Len(st[k]) : st[k][i] \in skip
    /\ nx.node = st[top][at] /\ nx.left = Len(st) - top
    /\ nx.below \in Stacks /\ Len(nx.below) = top
    /\ \A k \in 1 .. top - 1 : nx.below[k] = st[k]
    /\ Len(nx.below[top]) = Len(st[top]) - at
    /\ \A i \in 1 .. Len(st[top]) - at : nx.below[top][i] = st[top][at + i]

LEMMA AdvanceIs ==
  ASSUME stack \in Stacks, NEW skip, LevelsLeft(skip) # {}
  PROVE  \E top, at : AdvancedTo(stack, skip, Advance(skip), top, at)
  <1> DEFINE L == LevelsLeft(skip)
             top == Max(L)
             s == stack[top]
             at == KeptAt(s, skip)
             head == SubSeq(stack, 1, top - 1)
             rest == SubSeq(s, at + 1, Len(s))
             nx == Advance(skip)
  <1>1. Len(stack) \in Nat /\ L \in SUBSET (1 .. Len(stack)) BY DEF LevelsLeft, Stacks
  <1>2. top \in L /\ \A k \in L : k <= top BY <1>1, MaxOfSet
  <1>3. nx = [node |-> s[at], left |-> Len(stack) - top, below |-> Append(head, rest)]
    BY DEF Advance, KeptAt
  <1>4. top \in 1 .. Len(stack) /\ \E i \in 1 .. Len(stack[top]) : stack[top][i] \notin skip
    <2> HIDE DEF top
    <2>1. top \in 1 .. Len(stack) BY <1>1, <1>2
    <2>2. stack[top] \in Seq(Nodes) BY <2>1 DEF Stacks
    <2>3. \E n \in Range(stack[top]) : n \notin skip BY <1>2 DEF LevelsLeft
    <2> QED BY <2>1, <2>2, <2>3 DEF Range
  <1> HIDE DEF top
  <1>5. s \in Seq(Nodes) BY <1>4 DEF Stacks
  <1>6. FirstKept(s, skip, at) BY <1>5, <1>4, SelectsFirst
  <1> HIDE DEF at, nx, L
  <1>7. at \in 1 .. Len(s) /\ Len(s) \in Nat BY <1>6, <1>5 DEF FirstKept
  <1>8. /\ rest \in Seq(Nodes) /\ Len(rest) = Len(s) - at
        /\ \A i \in 1 .. Len(s) - at : rest[i] = s[at + i]
    BY <1>5, <1>7
  <1>9. /\ head \in Stacks /\ Len(head) = top - 1
        /\ \A k \in 1 .. top - 1 : head[k] = stack[k]
    BY <1>1, <1>4 DEF Stacks
  <1> HIDE DEF rest, head
  <1>10. /\ nx.below \in Stacks /\ Len(nx.below) = top
         /\ \A k \in 1 .. top - 1 : nx.below[k] = stack[k]
         /\ nx.below[top] = rest
    <2>1. nx.below = Append(head, rest) BY <1>3
    <2> QED BY <2>1, <1>8, <1>9, <1>4 DEF Stacks
  <1>11. \A k \in top + 1 .. Len(stack) : \A i \in 1 .. Len(stack[k]) : stack[k][i] \in skip
    <2> SUFFICES ASSUME NEW k \in top + 1 .. Len(stack), NEW i \in 1 .. Len(stack[k]),
                        stack[k][i] \notin skip
                 PROVE  FALSE
      OBVIOUS
    <2>1. k \in 1 .. Len(stack) /\ ~(k <= top) BY <1>4, <1>1
    <2>2. stack[k] \in Seq(Nodes) BY <2>1 DEF Stacks
    <2>3. \E n \in Range(stack[k]) : n \notin skip BY <2>2 DEF Range
    <2>4. k \in L BY <2>1, <2>3, <1>1 DEF L, LevelsLeft, Stacks
    <2> QED BY <2>4, <2>1, <1>2
  <1>12. nx.node = stack[top][at] /\ nx.left = Len(stack) - top BY <1>3
  <1>13. AdvancedTo(stack, skip, nx, top, at)
    BY <1>4, <1>6, <1>8, <1>10, <1>11, <1>12 DEF AdvancedTo
  <1> QED BY <1>13 DEF nx

--------------------------------------------------------------------------------
(* A directory that is entered. *)

LEMMA ListingIs ==
  ASSUME NEW d, NEW kind, NEW level \in Listing(d, kind)
  PROVE  /\ level \in Seq(Nodes) /\ Distinct(level)
         /\ \A i \in 1 .. Len(level) : Parent[level[i]] = d
         /\ \A n \in EntriesOf(d) : \E i \in 1 .. Len(level) : level[i] = n
         /\ kind = "Cached" => Ascends(level)
  <1> DEFINE S == EntriesOf(d)
             m == Cardinality(S)
  <1>1. S \in SUBSET Nodes BY DEF EntriesOf
  <1>2. IsFiniteSet(S) /\ m \in Nat BY <1>1, TreeAssumption, FS_Subset, FS_CardinalityType
  <1>3. level \in [1 .. m -> S] /\ \A i, j \in 1 .. m : i # j => level[i] # level[j]
    BY DEF Listing, SetToSeqs
  <1>3a. \A n \in S : n \in Nodes /\ Parent[n] = d BY DEF EntriesOf
  <1> HIDE DEF S, m
  <1>4. level \in Seq(Nodes) /\ Len(level) = m BY <1>1, <1>2, <1>3
  <1>5. level \in Injection(1 .. m, S) BY <1>3 DEF Injection, IsInjective
  <1>6. IsFiniteSet(1 .. m) /\ Cardinality(1 .. m) = m BY <1>2, FS_Interval
  <1>7. level \in Surjection(1 .. m, S) BY <1>2, <1>5, <1>6, FS_Injection DEF m
  <1>8. \A n \in S : \E i \in 1 .. m : level[i] = n BY <1>7 DEF Surjection
  <1>9. kind = "Cached" => Ascends(level) BY <1>4 DEF Listing, Ascends
  <1>10. Distinct(level) BY <1>3, <1>4 DEF Distinct
  <1> QED BY <1>3, <1>3a, <1>4, <1>8, <1>9, <1>10 DEF S

LEMMA NodeOrder ==
  ASSUME NEW n \in Nodes
  PROVE  n \in Nat /\ n # 0 /\ Parent[n] \in Dirs \union {0} /\ Parent[n] \in Nat /\ Parent[n] < n
  <1>1. n \in Nat /\ n # 0 BY TreeAssumption
  <1>2. Parent[n] \in Dirs \union {0} BY TreeAssumption
  <1>3. Dirs \union {0} \subseteq Nat BY TreeAssumption
  <1>4. Parent[n] < n BY TreeAssumption
  <1> QED BY <1>1, <1>2, <1>3, <1>4

LEMMA ChainAscends ==
  ASSUME NEW ch, NEW r, Chained(ch, r), NEW j \in 1 .. Len(ch)
  PROVE  \A k \in j + 1 .. Len(ch) : ch[j] < ch[k]
  <1> DEFINE R == {m \in Nat : j + 1 + m <= Len(ch) => ch[j] < ch[j + 1 + m]}
  <1>1. Len(ch) \in Nat /\ \A k \in 1 .. Len(ch) : ch[k] \in Nat
    <2>1. Nodes \union {0} \subseteq Nat BY TreeAssumption
    <2>2. ch \in Seq(Nodes \union {0}) BY DEF Chained, Chains
    <2>3. \A k \in 1 .. Len(ch) : ch[k] \in Nodes \union {0} BY <2>2
    <2> QED BY <2>1, <2>2, <2>3
  <1>2. \A k \in 2 .. Len(ch) : ch[k - 1] < ch[k]
    BY NodeOrder DEF Chained
  <1>3. 0 \in R
    <2>1. j + 1 <= Len(ch) => ch[j] < ch[j + 1]
      <3> HAVE j + 1 <= Len(ch)
      <3>1. j + 1 \in 2 .. Len(ch) /\ (j + 1) - 1 = j BY <1>1
      <3> QED BY <3>1, <1>2
    <2> QED BY <2>1
  <1>4. ASSUME NEW m \in Nat, m \in R PROVE m + 1 \in R
    <2> SUFFICES ASSUME j + 1 + (m + 1) <= Len(ch) PROVE ch[j] < ch[j + 1 + (m + 1)] OBVIOUS
    <2>1. /\ j + 1 + (m + 1) \in 2 .. Len(ch) /\ (j + 1 + (m + 1)) - 1 = j + 1 + m
          /\ j + 1 + m \in 1 .. Len(ch)
      BY <1>1
    <2>2. ch[j] < ch[j + 1 + m] BY <1>4, <2>1
    <2>3. ch[j + 1 + m] < ch[j + 1 + (m + 1)] BY <2>1, <1>2
    <2> QED BY <2>1, <2>2, <2>3, <1>1
  <1> HIDE DEF R
  <1>5. Nat \subseteq R BY <1>3, <1>4, NumbersInduction
  <1>6. ASSUME NEW k \in j + 1 .. Len(ch) PROVE ch[j] < ch[k]
    <2>1. k - (j + 1) \in Nat BY <1>1
    <2>2. k - (j + 1) \in R BY <2>1, <1>5
    <2>3. j + 1 + (k - (j + 1)) = k BY <1>1
    <2> QED BY <2>2, <2>3, <1>1 DEF R
  <1> QED BY <1>6

LEMMA EnteredLevels ==
  ASSUME NEW st, NEW ch, NEW r, Chained(ch, r), Levels(st, ch), Len(ch) > 0,
         NEW n \in Nodes, n \notin closed, Parent[n] = ch[Len(ch)],
         NEW kind, NEW level \in Listing(n, kind)
  PROVE  /\ Chained(Append(ch, n), r) /\ Levels(Append(st, level), Append(ch, n))
         /\ Pending(Append(st, level)) = Pending(st) \union EntriesOf(n)
         /\ kind = "Cached" /\ Ordered(st) /\ (\A m \in Pending(st) : n < m) =>
               /\ Ordered(Append(st, level))
               /\ \A m \in Pending(Append(st, level)) : n < m
  <1> DEFINE st2 == Append(st, level)
             ch2 == Append(ch, n)
  <1>1. /\ level \in Seq(Nodes) /\ Distinct(level)
        /\ \A i \in 1 .. Len(level) : Parent[level[i]] = n
        /\ \A m \in EntriesOf(n) : \E i \in 1 .. Len(level) : level[i] = m
        /\ kind = "Cached" => Ascends(level)
    BY ListingIs
  <1>2. /\ Len(st) \in Nat /\ Len(ch) = Len(st) /\ ch \in Chains /\ st \in Stacks
        /\ Len(st) > 0
    BY DEF Chained, Chains, Levels, Stacks
  <1>3. /\ ch2 \in Chains /\ Len(ch2) = Len(st) + 1 /\ ch2[Len(st) + 1] = n
        /\ \A k \in 1 .. Len(st) : ch2[k] = ch[k]
    BY <1>2 DEF Chains
  <1>4. /\ st2 \in Stacks /\ Len(st2) = Len(st) + 1 /\ st2[Len(st) + 1] = level
        /\ \A k \in 1 .. Len(st) : st2[k] = st[k]
    BY <1>1, <1>2 DEF Stacks
  <1>5. \A k \in 1 .. Len(st) : st[k] \in Seq(Nodes) BY <1>2 DEF Stacks
  <1> HIDE DEF st2, ch2
  <1>6. Chained(ch2, r)
    <2>1. \A k \in 2 .. Len(ch2) : ch2[k] \in Nodes /\ Parent[ch2[k]] = ch2[k - 1]
      <3> TAKE k \in 2 .. Len(ch2)
      <3>1. CASE k = Len(st) + 1
        <4>1. k - 1 = Len(ch) /\ k - 1 \in 1 .. Len(st) BY <3>1, <1>2
        <4> QED BY <3>1, <4>1, <1>2, <1>3
      <3>2. CASE k # Len(st) + 1
        <4>1. k \in 2 .. Len(ch) /\ k \in 1 .. Len(st) /\ k - 1 \in 1 .. Len(st) BY <3>2, <1>2, <1>3
        <4> QED BY <4>1, <1>3 DEF Chained
      <3> QED BY <3>1, <3>2
    <2>2. \A k \in 1 .. Len(ch2) : ch2[k] \notin closed
      <3> TAKE k \in 1 .. Len(ch2)
      <3>1. CASE k = Len(st) + 1 BY <3>1, <1>3
      <3>2. CASE k # Len(st) + 1
        <4>1. k \in 1 .. Len(ch) /\ k \in 1 .. Len(st) BY <3>2, <1>2, <1>3
        <4> QED BY <4>1, <1>3 DEF Chained
      <3> QED BY <3>1, <3>2
    <2>3. ch2[1] = r
      <3>1. 1 \in 1 .. Len(st) BY <1>2
      <3> QED BY <3>1, <1>2, <1>3 DEF Chained
    <2> QED BY <1>3, <2>1, <2>2, <2>3 DEF Chained
  <1>7. Levels(st2, ch2)
    <2>1. ASSUME NEW k \in 1 .. Len(st2)
          PROVE  Distinct(st2[k]) /\ \A i \in 1 .. Len(st2[k]) : Parent[st2[k][i]] = ch2[k]
      <3>1. CASE k = Len(st) + 1 BY <3>1, <1>1, <1>3, <1>4
      <3>2. CASE k # Len(st) + 1
        <4>1. k \in 1 .. Len(st) BY <3>2, <1>2, <1>4
        <4>2. Distinct(st[k]) /\ \A i \in 1 .. Len(st[k]) : Parent[st[k][i]] = ch[k] BY <4>1 DEF Levels
        <4> QED BY <4>1, <4>2, <1>3, <1>4
      <3> QED BY <3>1, <3>2
    <2> QED BY <1>3, <1>4, <2>1 DEF Levels
  <1>8. Pending(st2) = Pending(st) \union EntriesOf(n)
    <2>1. ASSUME NEW m \in Pending(st2) PROVE m \in Pending(st) \union EntriesOf(n)
      <3>1. PICK k \in 1 .. Len(st2) : \E i \in 1 .. Len(st2[k]) : st2[k][i] = m BY DEF Pending
      <3>2. m \in Nodes BY DEF Pending
      <3>3. CASE k = Len(st) + 1 BY <3>1, <3>2, <3>3, <1>1, <1>4 DEF EntriesOf
      <3>4. CASE k # Len(st) + 1
        <4>1. k \in 1 .. Len(st) BY <3>4, <1>2, <1>4
        <4> QED BY <4>1, <3>1, <3>2, <1>4 DEF Pending
      <3> QED BY <3>3, <3>4
    <2>2. ASSUME NEW m \in Pending(st) PROVE m \in Pending(st2)
      <3>1. PICK k \in 1 .. Len(st) : \E i \in 1 .. Len(st[k]) : st[k][i] = m BY DEF Pending
      <3>2. k \in 1 .. Len(st2) /\ st2[k] = st[k] BY <1>2, <1>4
      <3> QED BY <3>1, <3>2 DEF Pending
    <2>3. ASSUME NEW m \in EntriesOf(n) PROVE m \in Pending(st2)
      <3>1. Len(st) + 1 \in 1 .. Len(st2) BY <1>2, <1>4
      <3>2. m \in Nodes BY DEF EntriesOf
      <3> QED BY <3>1, <3>2, <1>1, <1>4 DEF Pending
    <2> QED BY <2>1, <2>2, <2>3
  <1>9. ASSUME kind = "Cached", Ordered(st), \A m \in Pending(st) : n < m
        PROVE  Ordered(st2) /\ \A m \in Pending(st2) : n < m
    <2>1. \A m \in EntriesOf(n) : m \in Nodes /\ Parent[m] = n /\ m \in Nat /\ n < m
      BY NodeOrder DEF EntriesOf
    <2>2. ASSUME NEW k \in 1 .. Len(st), NEW i \in 1 .. Len(st[k]), NEW m \in EntriesOf(n)
          PROVE  m < st[k][i]
      <3> DEFINE x == st[k][i]
      <3>1. x \in Nodes /\ x \in Pending(st) /\ Parent[x] = ch[k]
        BY <1>5 DEF Pending, Levels
      <3>2. n < x /\ x \in Nat /\ n \in Nat BY <3>1, <1>9, NodeOrder
      <3>3. ch[k] < n
        <4>1. k \in 1 .. Len(ch2) /\ Len(ch2) \in k + 1 .. Len(ch2) BY <1>2, <1>3
        <4>2. ch2[k] < ch2[Len(ch2)] BY <1>6, <4>1, ChainAscends
        <4> QED BY <4>2, <1>3
      <3>4. ch[k] \in Nat BY <3>1, NodeOrder
      <3>5. ~(x < m)
        <4> SUFFICES ASSUME x < m PROVE FALSE OBVIOUS
        <4>1. Parent[m] <= Parent[x] BY <2>1, <3>1, <3>2, OrderAssumption
        <4> QED BY <4>1, <2>1, <3>1, <3>2, <3>3, <3>4
      <3>6. x # m BY <2>1, <3>1, <3>2, <3>3, <3>4
      <3> HIDE DEF x
      <3>7. m < x BY <2>1, <3>2, <3>5, <3>6
      <3> QED BY <3>7 DEF x
    <2>3. \A k \in 1 .. Len(st2) : Ascends(st2[k])
      <3> TAKE k \in 1 .. Len(st2)
      <3>1. CASE k = Len(st) + 1 BY <3>1, <1>1, <1>4, <1>9
      <3>2. CASE k # Len(st) + 1
        <4>1. k \in 1 .. Len(st) BY <3>2, <1>2, <1>4
        <4> QED BY <4>1, <1>4, <1>9 DEF Ordered
      <3> QED BY <3>1, <3>2
    <2>4. ASSUME NEW k \in 1 .. Len(st2), NEW l \in 1 .. Len(st2), k < l,
                 NEW i \in 1 .. Len(st2[k]), NEW j \in 1 .. Len(st2[l])
          PROVE  st2[l][j] < st2[k][i]
      <3>1. k \in 1 .. Len(st) /\ st2[k] = st[k] BY <2>4, <1>2, <1>4
      <3>2. CASE l = Len(st) + 1
        <4>1. level[j] \in EntriesOf(n)
          BY <3>2, <1>1, <1>4 DEF EntriesOf
        <4> QED BY <3>1, <3>2, <4>1, <2>2, <1>4
      <3>3. CASE l # Len(st) + 1
        <4>1. l \in 1 .. Len(st) /\ st2[l] = st[l] BY <3>3, <1>2, <1>4
        <4> QED BY <3>1, <4>1, <2>4, <1>9 DEF Ordered
      <3> QED BY <3>2, <3>3
    <2>5. \A m \in Pending(st2) : n < m BY <1>8, <1>9, <2>1
    <2> QED BY <2>3, <2>4, <2>5 DEF Ordered
  <1> QED BY <1>6, <1>7, <1>8, <1>9 DEF st2, ch2

--------------------------------------------------------------------------------
(* A step of the walk. *)

LEMMA LeftLevels ==
  ASSUME NEW st, NEW ch, NEW r, Chained(ch, r), Levels(st, ch),
         NEW skip, NEW nx, NEW top, NEW at, AdvancedTo(st, skip, nx, top, at)
  PROVE  /\ Chained(SubSeq(ch, 1, top), r) /\ Levels(nx.below, SubSeq(ch, 1, top))
         /\ Len(SubSeq(ch, 1, top)) = top /\ SubSeq(ch, 1, top)[top] = ch[top]
         /\ top \in 1 .. Len(st) /\ nx.left = Len(st) - top
         /\ nx.node \in Nodes \ skip /\ Parent[nx.node] = ch[top]
         /\ nx.node \in Pending(st)
         /\ Pending(nx.below) \subseteq Pending(st) \ {nx.node}
         /\ Pending(st) \subseteq Pending(nx.below) \union {nx.node} \union skip
         /\ Ordered(st) => Ordered(nx.below) /\ \A m \in Pending(nx.below) : nx.node < m
  <1> DEFINE ch2 == SubSeq(ch, 1, top)
             be == nx.below
             n == nx.node
  <1>1. /\ Len(st) \in Nat /\ Len(ch) = Len(st) /\ ch \in Chains /\ st \in Stacks
        /\ \A k \in 1 .. Len(st) : st[k] \in Seq(Nodes) /\ Len(st[k]) \in Nat
    BY DEF Chained, Chains, Levels, Stacks
  <1>2. /\ top \in 1 .. Len(st) /\ at \in 1 .. Len(st[top])
        /\ st[top][at] = n /\ n \notin skip
        /\ \A i \in 1 .. at - 1 : st[top][i] \in skip
        /\ \A k \in top + 1 .. Len(st) : \A i \in 1 .. Len(st[k]) : st[k][i] \in skip
        /\ nx.left = Len(st) - top
    BY DEF AdvancedTo, FirstKept
  <1>3. /\ be \in Stacks /\ Len(be) = top
        /\ \A k \in 1 .. top - 1 : be[k] = st[k]
        /\ Len(be[top]) = Len(st[top]) - at
        /\ \A i \in 1 .. Len(st[top]) - at : be[top][i] = st[top][at + i]
    BY DEF AdvancedTo
  <1>4. /\ ch2 \in Chains /\ Len(ch2) = top /\ \A k \in 1 .. top : ch2[k] = ch[k]
    BY <1>1, <1>2 DEF Chains
  <1>5. Distinct(st[top]) /\ \A k \in 1 .. Len(st) : Distinct(st[k]) /\ \A i \in 1 .. Len(st[k]) : Parent[st[k][i]] = ch[k]
    BY <1>2 DEF Levels
  <1>6. n \in Nodes /\ Parent[n] = ch[top]
    <2>1. st[top] \in Seq(Nodes) BY <1>1, <1>2
    <2>2. st[top][at] \in Nodes BY <2>1, <1>2
    <2>3. Parent[st[top][at]] = ch[top] BY <1>2, <1>5
    <2> QED BY <2>2, <2>3, <1>2
  <1> HIDE DEF ch2, be, n
  <1>7. Chained(ch2, r)
    <2>1. \A k \in 1 .. top : k \in 1 .. Len(ch) BY <1>1, <1>2
    <2>2. \A k \in 2 .. top : k \in 2 .. Len(ch) /\ k \in 1 .. top /\ k - 1 \in 1 .. top BY <1>1, <1>2
    <2>3. 1 \in 1 .. top BY <1>1, <1>2
    <2>4. ch2[1] = r BY <2>1, <2>3, <1>4, <1>1, <1>2 DEF Chained
    <2>5. \A k \in 2 .. top : ch2[k] \in Nodes /\ Parent[ch2[k]] = ch2[k - 1] BY <2>2, <1>4 DEF Chained
    <2>6. \A k \in 1 .. top : ch2[k] \notin closed BY <2>1, <1>4 DEF Chained
    <2> QED BY <1>4, <2>4, <2>5, <2>6 DEF Chained
  (* An item of a level below is one of the same level before. *)
  <1>8. \A i \in 1 .. Len(be[top]) : /\ at + i \in 1 .. Len(st[top])
                                     /\ be[top][i] = st[top][at + i]
    <2> DEFINE len == Len(st[top])
    <2>1. len \in Nat BY <1>1, <1>2
    <2> HIDE DEF len
    <2>2. \A i \in 1 .. len - at : at + i \in 1 .. len BY <2>1, <1>2 DEF len
    <2> QED BY <2>2, <1>3 DEF len
  <1>9. ASSUME NEW k \in 1 .. Len(be), NEW i \in 1 .. Len(be[k])
        PROVE  /\ k \in 1 .. Len(st)
               /\ \E x \in 1 .. Len(st[k]) : be[k][i] = st[k][x] /\ (k = top => x = at + i) /\ (k < top => x = i)
    <2>1. k \in 1 .. Len(st) BY <1>1, <1>2, <1>3
    <2>2. CASE k = top BY <2>1, <2>2, <1>8, <1>2
    <2>3. CASE k < top
      <3>1. k \in 1 .. top - 1 BY <2>3, <1>2, <1>3
      <3> QED BY <2>1, <2>3, <3>1, <1>3
    <2> QED BY <2>2, <2>3, <1>2, <1>3
  <1>10. Levels(be, ch2)
    <2>1. ASSUME NEW k \in 1 .. Len(be)
          PROVE  Distinct(be[k]) /\ \A i \in 1 .. Len(be[k]) : Parent[be[k][i]] = ch2[k]
      <3>1. Distinct(be[k])
        <4>1. CASE k = top
          <5> SUFFICES ASSUME NEW i \in 1 .. Len(be[top]), NEW j \in 1 .. Len(be[top]), i # j
                       PROVE  be[top][i] # be[top][j]
            BY <4>1 DEF Distinct
          <5>1. at + i # at + j BY <1>2
          <5>2. at + i \in 1 .. Len(st[top]) /\ at + j \in 1 .. Len(st[top]) BY <1>8
          <5>3. st[top][at + i] # st[top][at + j] BY <5>1, <5>2, <1>5 DEF Distinct
          <5>4. be[top][i] = st[top][at + i] /\ be[top][j] = st[top][at + j] BY <1>8
          <5> QED BY <5>3, <5>4
        <4>2. CASE k # top
          <5>1. k \in 1 .. top - 1 /\ k \in 1 .. Len(st) BY SMTT(30), <4>2, <1>1, <1>2, <1>3
          <5> QED BY <5>1, <1>3, <1>5
        <4> QED BY <4>1, <4>2
      <3>2. ASSUME NEW i \in 1 .. Len(be[k]) PROVE Parent[be[k][i]] = ch2[k]
        <4>1. k \in 1 .. top BY <1>3
        <4>2. k \in 1 .. Len(st) BY <1>9
        <4>3. PICK x \in 1 .. Len(st[k]) : be[k][i] = st[k][x] BY <1>9
        <4>4. Parent[st[k][x]] = ch[k] BY <4>2, <1>5
        <4> QED BY <4>1, <4>3, <4>4, <1>4
      <3> QED BY <3>1, <3>2
    <2> QED BY <1>3, <1>4, <2>1 DEF Levels
  <1>11. Pending(be) \subseteq Pending(st) \ {n}
    <2> SUFFICES ASSUME NEW m \in Pending(be) PROVE m \in Pending(st) /\ m # n OBVIOUS
    <2>1. m \in Nodes BY DEF Pending
    <2>20. PICK k \in 1 .. Len(be) : \E i \in 1 .. Len(be[k]) : be[k][i] = m BY DEF Pending
    <2>2. PICK i \in 1 .. Len(be[k]) : be[k][i] = m BY <2>20
    <2>3. m \in Pending(st) BY SMTT(30), <2>1, <2>2, <1>9 DEF Pending
    <2>4. CASE k = top
      <3>1. at + i \in 1 .. Len(st[top]) /\ at + i # at /\ m = st[top][at + i] BY <2>2, <2>4, <1>8, <1>2
      <3>2. st[top][at + i] # st[top][at] BY <3>1, <1>2, <1>5 DEF Distinct
      <3> QED BY <2>3, <3>1, <3>2, <1>2
    <2>5. CASE k # top
      <3>1. k \in 1 .. Len(ch2) /\ top \in k + 1 .. Len(ch2) BY <2>5, <1>2, <1>3, <1>4
      <3>2. ch2[k] < ch2[top] BY <3>1, <1>7, ChainAscends
      <3>3. Parent[m] = ch2[k] BY <2>2, <1>10 DEF Levels
      <3>4. Parent[n] = ch2[top] BY <1>2, <1>4, <1>6
      <3>5. Parent[m] \in Nat /\ Parent[n] \in Nat BY <2>1, <1>6, NodeOrder
      <3> QED BY <2>3, <3>2, <3>3, <3>4, <3>5
    <2> QED BY <2>4, <2>5
  <1>12. Pending(st) \subseteq Pending(be) \union {n} \union skip
    <2> SUFFICES ASSUME NEW m \in Pending(st), m # n, m \notin skip PROVE m \in Pending(be) OBVIOUS
    <2>1. m \in Nodes BY DEF Pending
    <2>20. PICK k \in 1 .. Len(st) : \E i \in 1 .. Len(st[k]) : st[k][i] = m BY DEF Pending
    <2>2. PICK i \in 1 .. Len(st[k]) : st[k][i] = m BY <2>20
    <2>3. ~(k \in top + 1 .. Len(st)) BY <2>2, <1>2
    <2>4. CASE k = top
      <3>1. ~(i \in 1 .. at - 1) /\ i # at BY <2>2, <2>4, <1>2
      <3>2. i - at \in 1 .. Len(be[top]) /\ at + (i - at) = i
        <4> DEFINE len == Len(st[top])
        <4>1. len \in Nat /\ i \in 1 .. len /\ at \in 1 .. len BY <2>4, <1>1, <1>2
        <4> HIDE DEF len
        <4>2. i - at \in 1 .. len - at /\ at + (i - at) = i BY <4>1, <3>1
        <4> QED BY <4>2, <1>3 DEF len
      <3>3. be[top][i - at] = m BY <3>2, <1>8, <2>2, <2>4
      <3>4. top \in 1 .. Len(be) BY <1>2, <1>3
      <3> QED BY <2>1, <3>2, <3>3, <3>4 DEF Pending
    <2>5. CASE k # top
      <3>1. k \in 1 .. top - 1 /\ k \in 1 .. Len(be) BY <2>3, <2>5, <1>1, <1>2, <1>3
      <3> QED BY <2>1, <2>2, <3>1, <1>3 DEF Pending
    <2> QED BY <2>4, <2>5
  <1>13. ASSUME Ordered(st) PROVE Ordered(be) /\ \A m \in Pending(be) : n < m
    <2>0. Ascends(st[top]) /\ \A k \in 1 .. Len(st) : Ascends(st[k]) BY <1>13, <1>2 DEF Ordered
    <2>1. ASSUME NEW k \in 1 .. Len(be) PROVE Ascends(be[k])
      <3>1. CASE k = top
        <4> SUFFICES ASSUME NEW i \in 1 .. Len(be[top]), NEW j \in 1 .. Len(be[top]), i < j
                     PROVE  be[top][i] < be[top][j]
          BY <3>1 DEF Ascends
        <4>1. at + i < at + j BY <1>2
        <4>2. at + i \in 1 .. Len(st[top]) /\ at + j \in 1 .. Len(st[top]) BY <1>8
        <4> QED BY <4>1, <4>2, <2>0, <1>8 DEF Ascends
      <3>2. CASE k # top
        <4>1. k \in 1 .. top - 1 /\ k \in 1 .. Len(st) BY SMTT(30), <3>2, <1>1, <1>2, <1>3
        <4> QED BY <4>1, <2>0, <1>3
      <3> QED BY <3>1, <3>2
    <2>2. ASSUME NEW k \in 1 .. Len(be), NEW l \in 1 .. Len(be), k < l,
                 NEW i \in 1 .. Len(be[k]), NEW j \in 1 .. Len(be[l])
          PROVE  be[l][j] < be[k][i]
      <3>1. PICK x \in 1 .. Len(st[k]) : be[k][i] = st[k][x] BY <1>9
      <3>2. PICK y \in 1 .. Len(st[l]) : be[l][j] = st[l][y] BY <1>9
      <3>3. k \in 1 .. Len(st) /\ l \in 1 .. Len(st) BY <1>9
      <3> QED BY <3>1, <3>2, <3>3, <2>2, <1>13 DEF Ordered
    <2>3. ASSUME NEW m \in Pending(be) PROVE n < m
      <3>10. PICK k \in 1 .. Len(be) : \E i \in 1 .. Len(be[k]) : be[k][i] = m BY DEF Pending
      <3>1. PICK i \in 1 .. Len(be[k]) : be[k][i] = m BY <3>10
      <3>2. PICK x \in 1 .. Len(st[k]) : be[k][i] = st[k][x] /\ (k = top => x = at + i) BY <1>9
      <3>3. CASE k = top
        <4>1. at < x BY <3>2, <3>3, <1>2
        <4> QED BY <4>1, <3>1, <3>2, <3>3, <2>0, <1>2 DEF Ascends
      <3>4. CASE k # top
        <4>1. k < top /\ k \in 1 .. Len(st) BY <3>4, <1>1, <1>2, <1>3
        <4> QED BY <4>1, <3>1, <3>2, <1>2, <1>13 DEF Ordered
      <3> QED BY <3>3, <3>4
    <2> QED BY <2>1, <2>2, <2>3 DEF Ordered
  <1>14. n \in Pending(st) BY <1>2, <1>6 DEF Pending
  <1>15. ch2[top] = ch[top] BY <1>2, <1>4
  <1> QED BY <1>2, <1>4, <1>6, <1>7, <1>10, <1>11, <1>12, <1>13, <1>14, <1>15 DEF ch2, be, n

Stepped(skip, nx, ch, top, ch2, st2) ==
    /\ top \in 1 .. Len(stack) /\ nx.left = Len(stack) - top
    /\ nx.node \in Nodes \ skip /\ Parent[nx.node] = ch[top] /\ nx.node \in Pending(stack)
    /\ ch2 = IF Opens(nx.node) THEN Append(SubSeq(ch, 1, top), nx.node) ELSE SubSeq(ch, 1, top)
    /\ Chained(ch2, root) /\ Levels(st2, ch2)
    /\ Pending(stack) \subseteq Pending(st2) \union {nx.node} \union skip
    /\ Pending(st2) \subseteq (Pending(stack) \ {nx.node}) \union
                              (IF Opens(nx.node) THEN EntriesOf(nx.node) ELSE {})
    /\ Opens(nx.node) => EntriesOf(nx.node) \subseteq Pending(st2)
    /\ variant = "Cached" /\ Ordered(stack) => /\ Ordered(st2)
                                              /\ \A m \in Pending(st2) : nx.node < m

LEMMA StepWalks ==
  ASSUME NEW ch, Chained(ch, root), Levels(stack, ch), NEW skip, LevelsLeft(skip) # {},
         NEW st2 \in Enter(Advance(skip).node, Advance(skip).below)
  PROVE  \E top, ch2 : Stepped(skip, Advance(skip), ch, top, ch2, st2)
  <1> DEFINE nx == Advance(skip)
             n == nx.node
  <1>1. PICK top, at : AdvancedTo(stack, skip, nx, top, at) BY AdvanceIs DEF Levels
  <1> HIDE DEF nx
  <1> DEFINE low == SubSeq(ch, 1, top)
  <1>2. /\ Chained(low, root) /\ Levels(nx.below, low)
        /\ Len(low) = top /\ low[top] = ch[top]
        /\ top \in 1 .. Len(stack) /\ nx.left = Len(stack) - top
        /\ n \in Nodes \ skip /\ Parent[n] = ch[top]
        /\ n \in Pending(stack)
        /\ Pending(nx.below) \subseteq Pending(stack) \ {n}
        /\ Pending(stack) \subseteq Pending(nx.below) \union {n} \union skip
        /\ Ordered(stack) => Ordered(nx.below) /\ \A m \in Pending(nx.below) : n < m
    BY <1>1, LeftLevels
  <1> HIDE DEF low
  <1>3. CASE ~Opens(n)
    <2>1. st2 = nx.below BY <1>3 DEF Enter, nx
    <2>2. Stepped(skip, nx, ch, top, low, st2) BY <1>2, <1>3, <2>1 DEF Stepped, low
    <2> QED BY <2>2 DEF nx
  <1>4. CASE Opens(n)
    <2>1. PICK level \in Listing(n, variant) : st2 = Append(nx.below, level) BY <1>4 DEF Enter, nx
    <2> DEFINE ch2 == Append(low, n)
    <2>2. n \notin closed /\ Len(low) > 0 BY <1>2, <1>4 DEF Opens
    <2>3. /\ Chained(ch2, root) /\ Levels(st2, ch2)
          /\ Pending(st2) = Pending(nx.below) \union EntriesOf(n)
          /\ variant = "Cached" /\ Ordered(nx.below) /\ (\A m \in Pending(nx.below) : n < m) =>
                /\ Ordered(st2)
                /\ \A m \in Pending(st2) : n < m
      BY <1>2, <2>1, <2>2, EnteredLevels
    <2> HIDE DEF ch2
    <2>4. n \notin EntriesOf(n) BY <1>2, NodeOrder DEF EntriesOf
    <2>5. ch2 = IF Opens(nx.node) THEN Append(SubSeq(ch, 1, top), nx.node) ELSE SubSeq(ch, 1, top)
      BY <1>4 DEF ch2, low
    <2>6. Stepped(skip, nx, ch, top, ch2, st2) BY <1>2, <1>4, <2>3, <2>4, <2>5 DEF Stepped
    <2> QED BY <2>6 DEF nx
  <1> QED BY <1>3, <1>4

LEMMA StartWalks ==
  ASSUME NEW d \in Dirs \union {0}, NEW kind, NEW st \in StartLevels(d, kind)
  PROVE  \E ch : /\ Chained(ch, d) /\ Levels(st, ch)
                 /\ Len(ch) = IF d \in closed THEN 0 ELSE 1
                 /\ Pending(st) = IF d \in closed THEN {} ELSE EntriesOf(d)
                 /\ kind = "Cached" => Ordered(st)
  <1>1. CASE d \in closed
    <2>1. st = <<>> /\ Len(<<>>) = 0 /\ <<>> \in Chains /\ <<>> \in Stacks
      BY <1>1 DEF StartLevels, Chains, Stacks
    <2>2. Chained(<<>>, d) /\ Levels(st, <<>>) /\ Pending(st) = {} /\ Ordered(st)
      BY <2>1 DEF Chained, Levels, Pending, Ordered
    <2> QED BY <1>1, <2>1, <2>2
  <1>2. CASE d \notin closed
    <2>1. PICK level \in Listing(d, kind) : st = <<level>> BY <1>2 DEF StartLevels
    <2>2. /\ level \in Seq(Nodes) /\ Distinct(level)
          /\ \A i \in 1 .. Len(level) : Parent[level[i]] = d
          /\ \A n \in EntriesOf(d) : \E i \in 1 .. Len(level) : level[i] = n
          /\ kind = "Cached" => Ascends(level)
      BY ListingIs
    <2>3. st \in Stacks /\ Len(st) = 1 /\ st[1] = level BY <2>1, <2>2 DEF Stacks
    <2> DEFINE ch == <<d>>
    <2>4. d \in Nodes \union {0} BY TreeAssumption
    <2>5. ch \in Chains /\ Len(ch) = 1 /\ ch[1] = d BY <2>4 DEF Chains
    <2> HIDE DEF ch
    <2>6. Chained(ch, d) BY <2>5, <1>2 DEF Chained
    <2>7. Levels(st, ch) BY <2>2, <2>3, <2>5 DEF Levels
    <2>8. Pending(st) = EntriesOf(d)
      <3>1. Pending(st) = {n \in Nodes : \E i \in 1 .. Len(level) : level[i] = n}
        BY <2>3 DEF Pending
      <3>2. \A n \in EntriesOf(d) : n \in Nodes BY DEF EntriesOf
      <3>3. \A n \in Nodes : Parent[n] = d => n \in EntriesOf(d) BY DEF EntriesOf
      <3> QED BY <3>1, <3>2, <3>3, <2>2
    <2>9. kind = "Cached" => Ordered(st) BY <2>2, <2>3 DEF Ordered
    <2> QED BY <1>2, <2>5, <2>6, <2>7, <2>8, <2>9
  <1> QED BY <1>1, <1>2

--------------------------------------------------------------------------------
(* The path from a directory down to an entry. *)

NodesAndTop == Nodes \union {0}
NamesUsed == {NameOf[n] : n \in Nodes}

PathsFrom(d, f) ==
    f = [n \in Nodes \union {0} |-> IF n \in {0, d} THEN <<>> ELSE Append(f[Parent[n]], NameOf[n])]

LEMMA PathsExist ==
  ASSUME NEW d
  PROVE  \E f : f \in [NodesAndTop -> Seq(NamesUsed)] /\ PathsFrom(d, f)
  <1> DEFINE S == NodesAndTop
             V == Seq(NamesUsed)
             step == [n \in S |-> [p \in V |-> IF n \in Nodes THEN Append(p, NameOf[n]) ELSE p]]
  <1>1. S \in SUBSET Nat BY TreeAssumption DEF NodesAndTop
  <1>2. IsFiniteSet(S) BY TreeAssumption, FS_AddElement DEF NodesAndTop
  <1>3. PICK m \in Nat : \A n \in S : n <= m BY <1>1, <1>2, FiniteBound
  <1>4. S \in SUBSET (0 .. m) BY <1>1, <1>3
  <1>5. \A n \in Nodes : NameOf[n] \in NamesUsed BY DEF NamesUsed
  <1>6. \A n \in S, q \in V : (IF n \in Nodes THEN Append(q, NameOf[n]) ELSE q) \in V BY <1>5
  <1>7. step \in [S -> [V -> V]] BY <1>6
  <1>8. \A n \in S \ {0, d} : Parent[n] \in S /\ Parent[n] < n
    <2> TAKE n \in S \ {0, d}
    <2>1. n \in Nodes BY DEF NodesAndTop
    <2>2. Dirs \subseteq Nodes BY TreeAssumption
    <2> QED BY <2>1, <2>2, NodeOrder DEF NodesAndTop
  <1>9. <<>> \in V OBVIOUS
  <1>10. \A n \in S, q \in V : step[n][q] = IF n \in Nodes THEN Append(q, NameOf[n]) ELSE q OBVIOUS
  <1> HIDE DEF step, V
  <1>11. DownIn(V, S, {0, d}, step, Parent) BY <1>7, <1>8, Zenon DEF DownIn
  <1>12. PICK f : DownRecursion(V, S, {0, d}, <<>>, step, Parent, f)
    BY <1>4, <1>9, <1>11, DownRecursionExists
  <1>13. f \in [S -> V] /\ \A n \in S : f[n] = IF n \in {0, d} THEN <<>> ELSE step[n][f[Parent[n]]]
    BY <1>12 DEF DownRecursion
  <1>14. \A n \in S : f[n] = IF n \in {0, d} THEN <<>> ELSE Append(f[Parent[n]], NameOf[n])
    <2> TAKE n \in S
    <2>1. CASE n \in {0, d} BY <2>1, <1>13
    <2>2. CASE n \notin {0, d}
      <3>1. n \in Nodes BY <2>2 DEF NodesAndTop
      <3>2. f[Parent[n]] \in V BY <2>2, <1>8, <1>13
      <3>3. step[n][f[Parent[n]]] = Append(f[Parent[n]], NameOf[n]) BY <3>1, <3>2, <1>10
      <3> QED BY <2>2, <3>3, <1>13
    <2> QED BY <2>1, <2>2
  <1>15. PathsFrom(d, f) BY <1>13, <1>14 DEF PathsFrom, NodesAndTop
  <1> QED BY <1>13, <1>15 DEF V

LEMMA PathUnfolds ==
  ASSUME NEW d
  PROVE  \A n \in NodesAndTop : TruePath(d, n) =
            IF n \in {0, d} THEN <<>> ELSE Append(TruePath(d, Parent[n]), NameOf[n])
  <1> DEFINE f == CHOOSE g : PathsFrom(d, g)
  <1>1. \E g : PathsFrom(d, g) BY PathsExist, Zenon
  <1>2. PathsFrom(d, f) BY <1>1
  <1>3. \A n : TruePath(d, n) = f[n] BY DEF TruePath, PathsFrom
  <1> HIDE DEF f
  <1>4. \A n \in NodesAndTop : f[n] = IF n \in {0, d} THEN <<>> ELSE Append(f[Parent[n]], NameOf[n])
    BY <1>2 DEF PathsFrom, NodesAndTop
  <1> QED BY <1>3, <1>4

NamesAlong(ch) == [j \in 1 .. Len(ch) - 1 |-> NameOf[ch[j + 1]]]

LEMMA PathOfChain ==
  ASSUME NEW ch, NEW r, Chained(ch, r)
  PROVE  \A k \in 1 .. Len(ch) : TruePath(r, ch[k]) = NamesAlong(SubSeq(ch, 1, k))
  <1> DEFINE low(k) == NamesAlong(SubSeq(ch, 1, k))
             R == {m \in Nat : m + 1 <= Len(ch) => TruePath(r, ch[m + 1]) = low(m + 1)}
  <1>1. /\ ch \in Seq(Nodes \union {0}) /\ Len(ch) \in Nat
        /\ \A k \in 1 .. Len(ch) : ch[k] \in NodesAndTop
    BY DEF Chained, Chains, NodesAndTop
  <1>2. \A k \in 1 .. Len(ch) : low(k) = [j \in 1 .. k - 1 |-> NameOf[ch[j + 1]]]
    <2> TAKE k \in 1 .. Len(ch)
    <2>1. Len(SubSeq(ch, 1, k)) = k /\ \A j \in 1 .. k : SubSeq(ch, 1, k)[j] = ch[j] BY <1>1
    <2>2. \A j \in 1 .. k - 1 : j + 1 \in 1 .. k BY <1>1
    <2> QED BY <2>1, <2>2 DEF NamesAlong
  <1> HIDE DEF low
  <1>3. 0 \in R
    <2> SUFFICES ASSUME 1 <= Len(ch) PROVE TruePath(r, ch[1]) = low(1) OBVIOUS
    <2>1. ch[1] = r /\ 1 \in 1 .. Len(ch) BY <1>1 DEF Chained
    <2>2. TruePath(r, ch[1]) = <<>> BY <2>1, <1>1, PathUnfolds
    <2>3. low(1) = <<>> BY <2>1, <1>2
    <2> QED BY <2>2, <2>3
  <1>4. ASSUME NEW m \in Nat, m \in R PROVE m + 1 \in R
    <2> DEFINE k == m + 1
    <2> SUFFICES ASSUME k + 1 <= Len(ch) PROVE TruePath(r, ch[k + 1]) = low(k + 1) OBVIOUS
    <2>1. k \in 1 .. Len(ch) /\ k + 1 \in 2 .. Len(ch) /\ k + 1 \in 1 .. Len(ch) /\ 1 \in 1 .. Len(ch)
          /\ 1 + 1 <= k + 1 /\ (k + 1) - 1 = k
      BY <1>1
    <2>2. TruePath(r, ch[k]) = low(k) BY <1>4, <2>1
    <2> HIDE DEF k
    <2>3. ch[k + 1] \in Nodes /\ Parent[ch[k + 1]] = ch[k] BY <2>1 DEF Chained
    <2>4. ch[k + 1] \notin {0, r}
      <3>1. ch[1] = r BY <2>1, <1>1 DEF Chained
      <3>2. k + 1 \in 1 + 1 .. Len(ch) BY <2>1
      <3>3. ch[1] < ch[k + 1] BY <2>1, <3>2, ChainAscends
      <3>4. ch[k + 1] \in Nat /\ ch[k + 1] # 0 BY <2>3, NodeOrder
      <3>5. ch[1] \in Nat
        <4>1. NodesAndTop \subseteq Nat BY TreeAssumption DEF NodesAndTop
        <4> QED BY <4>1, <2>1, <1>1
      <3> QED BY <3>1, <3>3, <3>4, <3>5
    <2>5. TruePath(r, ch[k + 1]) = Append(low(k), NameOf[ch[k + 1]])
      <3>1. TruePath(r, ch[k + 1]) = Append(TruePath(r, Parent[ch[k + 1]]), NameOf[ch[k + 1]])
        BY <2>3, <2>4, PathUnfolds DEF NodesAndTop
      <3> QED BY <3>1, <2>2, <2>3
    <2>6. Append(low(k), NameOf[ch[k + 1]]) = low(k + 1)
      <3> DEFINE a == low(k)
                 b == low(k + 1)
      <3>1. k \in Nat /\ k >= 1 BY <2>1
      <3>2. a = [j \in 1 .. k - 1 |-> NameOf[ch[j + 1]]] /\ b = [j \in 1 .. k |-> NameOf[ch[j + 1]]]
        BY <2>1, <1>2
      <3> HIDE DEF a, b
      <3>3. a \in Seq(NamesUsed) /\ Len(a) = k - 1
        <4>1. \A j \in 1 .. k - 1 : j + 1 \in 2 .. Len(ch) BY <2>1, <1>1
        <4>2. \A j \in 1 .. k - 1 : ch[j + 1] \in Nodes BY <4>1 DEF Chained
        <4>3. \A j \in 1 .. k - 1 : NameOf[ch[j + 1]] \in NamesUsed BY <4>2 DEF NamesUsed
        <4> QED BY <3>1, <3>2, <4>3
      <3>4. NameOf[ch[k + 1]] \in NamesUsed BY <2>3 DEF NamesUsed
      <3>5. Append(a, NameOf[ch[k + 1]]) = b
        BY <3>1, <3>2, <3>3, <3>4
      <3> QED BY <3>5 DEF a, b
    <2>7. TruePath(r, ch[k + 1]) = low(k + 1) BY <2>5, <2>6
    <2> QED BY <2>7
  <1> HIDE DEF R
  <1>5. Nat \subseteq R BY <1>3, <1>4, NumbersInduction
  <1>6. ASSUME NEW k \in 1 .. Len(ch) PROVE TruePath(r, ch[k]) = low(k)
    <2>1. k - 1 \in Nat /\ (k - 1) + 1 = k /\ k <= Len(ch) BY <1>1
    <2>2. k - 1 \in R BY <2>1, <1>5
    <2> QED BY <2>1, <2>2 DEF R
  <1> QED BY <1>6 DEF low

LEMMA NamesAlongIs ==
  ASSUME NEW ch, NEW r, Chained(ch, r), Len(ch) > 0
  PROVE  /\ NamesAlong(ch) \in Seq(NamesUsed) /\ Len(NamesAlong(ch)) = Len(ch) - 1
         /\ \A top \in 1 .. Len(ch) :
               NamesAlong(SubSeq(ch, 1, top)) = SubSeq(NamesAlong(ch), 1, top - 1)
         /\ \A n \in Nodes : NamesAlong(Append(ch, n)) = Append(NamesAlong(ch), NameOf[n])
  <1> DEFINE a == NamesAlong(ch)
             l == Len(ch)
  <1>1. l \in Nat /\ l > 0 /\ ch \in Seq(Nodes \union {0}) BY DEF Chained, Chains
  <1>2. a = [j \in 1 .. l - 1 |-> NameOf[ch[j + 1]]] BY DEF NamesAlong
  <1>3. \A j \in 1 .. l - 1 : NameOf[ch[j + 1]] \in NamesUsed
    <2> TAKE j \in 1 .. l - 1
    <2>1. j + 1 \in 2 .. Len(ch) BY <1>1
    <2>2. ch[j + 1] \in Nodes BY <2>1 DEF Chained
    <2> QED BY <2>2 DEF NamesUsed
  <1> HIDE DEF a
  <1>4. a \in Seq(NamesUsed) /\ Len(a) = l - 1 BY <1>1, <1>2, <1>3
  <1>5. ASSUME NEW top \in 1 .. l
        PROVE  NamesAlong(SubSeq(ch, 1, top)) = SubSeq(a, 1, top - 1)
    <2> DEFINE b == NamesAlong(SubSeq(ch, 1, top))
               c == SubSeq(a, 1, top - 1)
    <2>1. Len(SubSeq(ch, 1, top)) = top /\ \A j \in 1 .. top : SubSeq(ch, 1, top)[j] = ch[j] BY <1>1
    <2>2. b = [j \in 1 .. top - 1 |-> NameOf[ch[j + 1]]]
      <3>1. \A j \in 1 .. top - 1 : j + 1 \in 1 .. top BY <1>1
      <3> QED BY <2>1, <3>1 DEF NamesAlong
    <2>3. top \in Nat /\ top >= 1 /\ top - 1 <= Len(a) BY <1>1, <1>4
    <2>4. c \in Seq(NamesUsed) /\ Len(c) = top - 1 /\ \A j \in 1 .. top - 1 : c[j] = a[j]
      BY <1>4, <2>3
    <2>5. \A j \in 1 .. top - 1 : a[j] = NameOf[ch[j + 1]] BY <1>2
    <2>6. c = [j \in 1 .. top - 1 |-> c[j]] BY <2>4
    <2> HIDE DEF b, c
    <2>7. b = c BY <2>2, <2>4, <2>5, <2>6
    <2> QED BY <2>7 DEF b, c
  <1>6. ASSUME NEW n \in Nodes PROVE NamesAlong(Append(ch, n)) = Append(a, NameOf[n])
    <2> DEFINE b == NamesAlong(Append(ch, n))
               ch2 == Append(ch, n)
               c == Append(a, NameOf[n])
    <2>1. Len(ch2) = l + 1 /\ ch2[l + 1] = n /\ \A j \in 1 .. l : ch2[j] = ch[j] BY <1>1
    <2>2. NameOf[n] \in NamesUsed BY DEF NamesUsed
    <2>3. c \in Seq(NamesUsed) /\ Len(c) = l /\ c[l] = NameOf[n] /\ \A j \in 1 .. l - 1 : c[j] = a[j]
      BY <1>1, <1>4, <2>2
    <2>4. b = [j \in 1 .. l |-> NameOf[ch2[j + 1]]] BY <1>1, <2>1 DEF NamesAlong
    <2> HIDE DEF b, c, ch2
    <2>5. \A j \in 1 .. l : c[j] = NameOf[ch2[j + 1]]
      <3> TAKE j \in 1 .. l
      <3>1. CASE j = l BY <3>1, <2>1, <2>3
      <3>2. CASE j # l
        <4>1. j \in 1 .. l - 1 /\ j + 1 \in 1 .. l BY <3>2, <1>1
        <4> QED BY <4>1, <1>2, <2>1, <2>3
      <3> QED BY <3>1, <3>2
    <2>6. c = [j \in 1 .. l |-> c[j]] BY <1>1, <2>3
    <2>7. b = c BY <2>4, <2>5, <2>6
    <2> QED BY <2>7 DEF b, c, ch2
  <1> QED BY <1>4, <1>5, <1>6 DEF a

(* An entry of a directory of the chain. *)
LEMMA PathThere ==
  ASSUME NEW ch, NEW r, Chained(ch, r), NEW top \in 1 .. Len(ch),
         NEW n \in Nodes, Parent[n] = ch[top]
  PROVE  /\ r < n
         /\ TruePath(r, n) = Append(NamesAlong(SubSeq(ch, 1, top)), NameOf[n])
  <1>1. ch \in Seq(NodesAndTop) /\ Len(ch) \in Nat /\ ch[1] = r /\ 1 \in 1 .. Len(ch)
    BY DEF Chained, Chains, NodesAndTop
  <1>2. NodesAndTop \subseteq Nat BY TreeAssumption DEF NodesAndTop
  <1>3. r \in Nat
    <2>1. ch[1] \in NodesAndTop BY <1>1, ElementOfSeq
    <2> QED BY <2>1, <1>1, <1>2
  <1>4. n \in Nat /\ n # 0 /\ Parent[n] \in Nat /\ Parent[n] < n BY NodeOrder
  <1>5. r < n
    <2>1. CASE top = 1 BY <2>1, <1>1, <1>4
    <2>2. CASE top # 1
      <3>1. top \in 1 + 1 .. Len(ch) BY <2>2
      <3>2. ch[1] < ch[top] BY <1>1, <3>1, ChainAscends
      <3> QED BY <3>2, <1>1, <1>3, <1>4
    <2> QED BY <2>1, <2>2
  <1>6. n \notin {0, r} /\ n \in NodesAndTop BY <1>3, <1>4, <1>5 DEF NodesAndTop
  <1>7. TruePath(r, n) = Append(TruePath(r, Parent[n]), NameOf[n]) BY <1>6, PathUnfolds
  <1>8. TruePath(r, ch[top]) = NamesAlong(SubSeq(ch, 1, top)) BY PathOfChain
  <1> QED BY <1>5, <1>7, <1>8

--------------------------------------------------------------------------------
(* Which entries have been returned, and which are still to come. *)

On(R, n) == \E i \in 1 .. Len(R) : R[i] = n

Reached(R, r, n) == Parent[n] \notin closed /\ (Parent[n] = r \/ On(R, Parent[n]))

Covers(R, P, r, pass) ==
    /\ R \in Seq(Nodes) /\ Distinct(R) /\ P \subseteq Nodes
    /\ \A n \in Nodes : On(R, n) \/ n \in P => Reached(R, r, n) /\ r < n
    /\ \A n \in Nodes : Reached(R, r, n) => On(R, n) \/ n \in P \/ n \in pass
    /\ \A n \in P : ~On(R, n)

LEMMA CoversStep ==
  ASSUME NEW R, NEW P, NEW r \in Nat, NEW pass, Covers(R, P, r, pass), NEW skip \in SUBSET pass,
         NEW n \in P, NEW P2, P \subseteq P2 \union {n} \union skip,
         P2 \subseteq (P \ {n}) \union (IF Opens(n) THEN EntriesOf(n) ELSE {}),
         Opens(n) => EntriesOf(n) \subseteq P2
  PROVE  Covers(Append(R, n), P2, r, pass)
  <1> DEFINE R2 == Append(R, n)
             l == Len(R)
  <1>1. R \in Seq(Nodes) /\ l \in Nat /\ n \in Nodes /\ Distinct(R) /\ P \subseteq Nodes BY DEF Covers
  <1>2. R2 \in Seq(Nodes) /\ Len(R2) = l + 1 /\ R2[l + 1] = n /\ \A i \in 1 .. l : R2[i] = R[i]
    BY <1>1
  <1> HIDE DEF R2, l
  <1>3. \A m : On(R2, m) <=> On(R, m) \/ m = n
    <2>1. ASSUME NEW m, On(R2, m) PROVE On(R, m) \/ m = n
      <3>1. PICK i \in 1 .. l + 1 : R2[i] = m BY <2>1, <1>2 DEF On
      <3>2. CASE i = l + 1 BY <3>1, <3>2, <1>2
      <3>3. CASE i # l + 1
        <4>1. i \in 1 .. l BY <3>3, <1>1
        <4> QED BY <4>1, <3>1, <1>2 DEF On, l
      <3> QED BY <3>2, <3>3
    <2>2. ASSUME NEW m, On(R, m) PROVE On(R2, m)
      <3>1. PICK i \in 1 .. l : R[i] = m BY <2>2 DEF On, l
      <3>2. i \in 1 .. Len(R2) /\ R2[i] = m BY <3>1, <1>1, <1>2
      <3> QED BY <3>2 DEF On
    <2>3. On(R2, n)
      <3>1. l + 1 \in 1 .. Len(R2) BY <1>1, <1>2
      <3> QED BY <3>1, <1>2 DEF On
    <2> QED BY <2>1, <2>2, <2>3
  <1>4. ~On(R, n) /\ Reached(R, r, n) /\ r < n BY <1>1 DEF Covers
  <1>5. Distinct(R2)
    <2> SUFFICES ASSUME NEW i \in 1 .. l + 1, NEW j \in 1 .. l + 1, i # j PROVE R2[i] # R2[j]
      BY <1>2 DEF Distinct
    <2>1. CASE i = l + 1
      <3>1. j \in 1 .. l BY <2>1, <1>1
      <3> QED BY <3>1, <2>1, <1>2, <1>4 DEF On, l
    <2>2. CASE j = l + 1
      <3>1. i \in 1 .. l BY <2>2, <1>1
      <3> QED BY <3>1, <2>2, <1>2, <1>4 DEF On, l
    <2>3. CASE i # l + 1 /\ j # l + 1
      <3>1. i \in 1 .. l /\ j \in 1 .. l BY <2>3, <1>1
      <3> QED BY <3>1, <1>1, <1>2 DEF Distinct, l
    <2> QED BY <2>1, <2>2, <2>3
  <1>6. \A m \in EntriesOf(n) : m \in Nodes /\ Parent[m] = n /\ n < m /\ m \in Nat /\ n \in Nat
    BY <1>1, NodeOrder DEF EntriesOf
  <1>7. P2 \subseteq Nodes BY <1>1, <1>6
  <1>8. ASSUME NEW m \in Nodes, On(R2, m) \/ m \in P2 PROVE Reached(R2, r, m) /\ r < m
    <2>1. CASE On(R, m) \/ m \in P \/ m = n
      <3>1. Reached(R, r, m) /\ r < m BY <2>1, <1>4 DEF Covers
      <3> QED BY <3>1, <1>3 DEF Reached
    <2>2. CASE m \in EntriesOf(n) /\ Opens(n)
      <3>1. Parent[m] = n /\ n \notin closed /\ On(R2, n) BY <2>2, <1>3, <1>6 DEF Opens
      <3>2. r < m BY <2>2, <1>4, <1>6
      <3> QED BY <3>1, <3>2 DEF Reached
    <2> QED BY <2>1, <2>2, <1>8, <1>3
  <1>9. ASSUME NEW m \in Nodes, Reached(R2, r, m) PROVE On(R2, m) \/ m \in P2 \/ m \in pass
    <2>1. CASE Reached(R, r, m)
      <3>1. On(R, m) \/ m \in P \/ m \in pass BY <2>1 DEF Covers
      <3> QED BY <3>1, <1>3
    <2>2. CASE ~Reached(R, r, m)
      <3>1. Parent[m] = n /\ n \notin closed BY <2>2, <1>9, <1>3 DEF Reached
      <3>2. n # 0 BY <1>1, NodeOrder
      <3>3. n \in Dirs BY <3>1, <3>2, NodeOrder
      <3>4. Opens(n) /\ m \in EntriesOf(n) BY <3>1, <3>3 DEF Opens, EntriesOf
      <3> QED BY <3>4
    <2> QED BY <2>1, <2>2
  <1>10. ASSUME NEW m \in P2 PROVE ~On(R2, m)
    <2>1. CASE m \in P \ {n} BY <2>1, <1>3 DEF Covers
    <2>2. CASE m \in EntriesOf(n) /\ Opens(n)
      <3>1. m # n /\ Parent[m] = n BY <2>2, <1>6
      <3>2. ~On(R, m)
        <4> SUFFICES ASSUME On(R, m) PROVE FALSE OBVIOUS
        <4>1. Reached(R, r, m) BY <2>2, <1>6 DEF Covers
        <4>2. n = r \/ On(R, n) BY <4>1, <3>1 DEF Reached
        <4> QED BY <4>2, <1>4, <1>6, <2>2
      <3> QED BY <3>1, <3>2, <1>3
    <2> QED BY <2>1, <2>2
  <1>11. Covers(R2, P2, r, pass) BY <1>2, <1>5, <1>7, <1>8, <1>9, <1>10 DEF Covers
  <1> QED BY <1>11 DEF R2

LEMMA CoversEnd ==
  ASSUME NEW R, NEW P, NEW r, NEW pass, Covers(R, P, r, pass), P \subseteq pass
  PROVE  Covers(R, {}, r, pass)
  BY DEF Covers

LEMMA CoversMore ==
  ASSUME NEW R, NEW P, NEW r, NEW pass, Covers(R, P, r, pass), NEW more
  PROVE  Covers(R, P, r, pass \union more)
  BY DEF Covers

LEMMA CoversStart ==
  ASSUME NEW d \in Dirs \union {0}, NEW pass
  PROVE  Covers(<<>>, IF d \in closed THEN {} ELSE EntriesOf(d), d, pass)
  <1>1. \A n : ~On(<<>>, n) BY DEF On
  <1>2. <<>> \in Seq(Nodes) /\ Distinct(<<>>) BY DEF Distinct
  <1>3. \A n \in Nodes : n \in EntriesOf(d) <=> Parent[n] = d BY DEF EntriesOf
  <1>4. EntriesOf(d) \subseteq Nodes BY DEF EntriesOf
  <1>5. \A n \in Nodes : Reached(<<>>, d, n) <=> Parent[n] = d /\ d \notin closed BY <1>1 DEF Reached
  <1>6. \A n \in Nodes : Parent[n] = d => d < n BY NodeOrder
  <1> QED BY <1>1, <1>2, <1>3, <1>4, <1>5, <1>6 DEF Covers

--------------------------------------------------------------------------------
(* The buffer of a SaveToBungee. *)

(* The index leads to the path. *)
Indexed(index, path) ==
    \E j \in 1 .. Len(issued) : /\ issued[j].at = index /\ issued[j].path = path
                                /\ encoding = "VarInt" => issued[j].whole

IndexedOrNone(index, path) == Indexed(index, path) \/ (index = NONE /\ path = <<>>)

LEMMA IndexedReads ==
  ASSUME BungeeInv, NEW index, NEW path, Indexed(index, path), encoding = "VarInt"
  PROVE  raw_path(data, index) = path
  <1>1. PICK j \in 1 .. Len(issued) : issued[j].at = index /\ issued[j].path = path /\ issued[j].whole
    BY DEF Indexed
  <1>2. issued \in Seq(Entries) BY DEF BungeeInv
  <1>3. issued[j] \in Range(issued) BY <1>2 DEF Range
  <1>4. PathsKept BY InvPathsKept
  <1> QED BY <1>1, <1>3, <1>4 DEF PathsKept

LEMMA IndexedPush ==
  ASSUME BungeeInv, NEW prev, NEW path, IndexedOrNone(prev, path),
         NEW name \in Names \ {<<>>}, push(prev, name),
         NEW value, value = PushBytes(data, prev, name).index
  PROVE  /\ BungeeInv' /\ prev \in Nat /\ value \in Nat
         /\ Indexed(value, Append(path, name))'
         /\ \A i, q : Indexed(i, q) => Indexed(i, q)'
  <1> DEFINE n == Len(issued)
             new == [at |-> value, path |-> Append(IssuedAt(prev).path, name),
                     whole |-> /\ IssuedAt(prev).whole
                               /\ Fits(Len(data) - prev) /\ Fits(Len(name))]
  <1>1. name \in Seq(Bytes) /\ name # <<>> BY NamesAssumption
  <1>2. /\ n \in Nat /\ issued \in Seq(Entries) /\ DOMAIN issued = 1 .. n
        /\ \A i, k \in 0 .. n : i < k => Base(issued, i).at < Base(issued, k).at
        /\ \A i \in 1 .. n : Base(issued, i) = issued[i]
        /\ \A i \in 0 .. n : Base(issued, i).at \in 0 .. Len(data)
    BY BaseTypes DEF BungeeInv
  <1>3. prev \in Issued \union {NONE}
    BY <1>2 DEF IndexedOrNone, Indexed, Issued
  <1>4. BungeeInv' BY <1>1, <1>3, PushKeeps
  <1>5. issued' = Append(issued, new) /\ encoding' = encoding /\ data' = PushBytes(data, prev, name).buf
    BY <1>1 DEF push
  <1>6. value = Len(data') BY <1>1, <1>5 DEF PushBytes
  <1>7. value \in Nat BY <1>4, <1>6 DEF BungeeInv
  <1>8. IssuedAt(prev).path = path /\ (encoding = "VarInt" => IssuedAt(prev).whole)
    <2>1. PICK j \in 0 .. n : /\ Base(issued, j).at = prev
                              /\ IssuedAt(prev).path = Base(issued, j).path
                              /\ IssuedAt(prev).whole = Base(issued, j).whole
      BY <1>3, IssuedOnce
    <2>2. CASE Indexed(prev, path)
      <3>1. PICK k \in 1 .. n : issued[k].at = prev /\ issued[k].path = path
                                /\ (encoding = "VarInt" => issued[k].whole)
        BY <2>2 DEF Indexed
      <3>2. k \in 0 .. n /\ Base(issued, k) = issued[k] BY <1>2
      <3>3. ~(j < k) /\ ~(k < j)
        <4> DEFINE a == Base(issued, j).at
        <4>1. a \in Nat /\ Base(issued, k).at = a BY <1>2, <2>1, <3>1, <3>2
        <4>2. j < k => a < a BY <1>2, <3>2, <4>1
        <4>3. k < j => a < a BY <1>2, <3>2, <4>1
        <4> HIDE DEF a
        <4> QED BY <4>1, <4>2, <4>3
      <3>4. j = k BY <3>2, <3>3
      <3> QED BY <2>1, <3>1, <3>2, <3>4
    <2>3. CASE prev = NONE /\ path = <<>>
      <3>1. IssuedAt(prev) = [path |-> <<>>, whole |-> TRUE] BY <2>3 DEF IssuedAt
      <3> QED BY <2>3, <3>1
    <2> QED BY <2>2, <2>3 DEF IndexedOrNone
  <1>9. /\ new.at = value /\ new.path = Append(path, name)
        /\ encoding = "VarInt" => new.whole
    BY <1>8 DEF Fits
  <1> HIDE DEF new
  <1>10. /\ issued' \in Seq(Entries) BY <1>4 DEF BungeeInv
  <1>11. /\ Len(issued') = n + 1 /\ issued'[n + 1] = new
         /\ \A i \in 1 .. n : issued'[i] = issued[i]
    BY <1>2, <1>5
  <1>12. Indexed(value, Append(path, name))'
    <2>1. n + 1 \in 1 .. Len(issued') BY <1>2, <1>11
    <2>2. /\ issued'[n + 1].at = value /\ issued'[n + 1].path = Append(path, name)
          /\ encoding' = "VarInt" => issued'[n + 1].whole
      BY <1>5, <1>9, <1>11
    <2> QED BY <2>1, <2>2 DEF Indexed
  <1>13. ASSUME NEW i, NEW q, Indexed(i, q) PROVE Indexed(i, q)'
    <2>1. PICK j \in 1 .. n : issued[j].at = i /\ issued[j].path = q
                              /\ (encoding = "VarInt" => issued[j].whole)
      BY <1>13 DEF Indexed
    <2>2. j \in 1 .. Len(issued') /\ issued'[j] = issued[j] BY <1>2, <1>11
    <2> QED BY <2>1, <2>2, <1>5 DEF Indexed
  <1>14. prev \in Nat
    <2>1. \A r \in Range(issued) : r.at \in Nat BY <1>2 DEF Entries, Range
    <2>2. CASE prev \in Issued
      <3>1. PICK i \in 1 .. n : prev = issued[i].at BY <2>2, <1>2 DEF Issued
      <3>2. i \in 0 .. n /\ Base(issued, i).at = prev BY <3>1, <1>2
      <3> QED BY <3>2, <1>2
    <2>3. CASE prev = NONE BY <2>3 DEF NONE
    <2> QED BY <2>2, <2>3, <1>3
  <1> QED BY <1>4, <1>7, <1>12, <1>13, <1>14

--------------------------------------------------------------------------------
(* The directories an entry is below. *)

UndersOf(d, above) ==
    above = [m \in Nodes |-> m = d \/ (Parent[m] \in Nodes /\ above[Parent[m]])]

LEMMA UnderUnfolds ==
  ASSUME NEW d
  PROVE  \A n \in Nodes : Under(d, n) <=> (n = d \/ (Parent[n] \in Nodes /\ Under(d, Parent[n])))
  <1> DEFINE S == NodesAndTop
             step == [n \in S |-> [x \in BOOLEAN |-> n = d \/ x]]
  <1>1. S \in SUBSET Nat BY TreeAssumption DEF NodesAndTop
  <1>2. IsFiniteSet(S) BY TreeAssumption, FS_AddElement DEF NodesAndTop
  <1>3. PICK m \in Nat : \A n \in S : n <= m BY <1>1, <1>2, FiniteBound
  <1>4. S \in SUBSET (0 .. m) BY <1>1, <1>3
  <1>5. step \in [S -> [BOOLEAN -> BOOLEAN]] BY Zenon
  <1>6. \A n \in S, x \in BOOLEAN : step[n][x] = (n = d \/ x) BY Zenon
  <1> HIDE DEF step
  <1>7. \A n \in Nodes : Parent[n] \in S /\ Parent[n] < n
    <2>1. Dirs \subseteq Nodes BY TreeAssumption
    <2> QED BY <2>1, NodeOrder DEF NodesAndTop
  <1>8. \A n \in S \ {0} : n \in Nodes BY DEF NodesAndTop
  <1>9. DownIn(BOOLEAN, S, {0}, step, Parent) BY <1>5, <1>7, <1>8, Zenon DEF DownIn
  <1>10. FALSE \in BOOLEAN OBVIOUS
  <1>11. PICK f : DownRecursion(BOOLEAN, S, {0}, FALSE, step, Parent, f)
    BY <1>4, <1>9, <1>10, DownRecursionExists
  <1>12. f \in [S -> BOOLEAN] /\ \A n \in S : f[n] = IF n \in {0} THEN FALSE ELSE step[n][f[Parent[n]]]
    BY <1>11, Zenon DEF DownRecursion
  <1>13. 0 \in S /\ 0 \notin Nodes /\ \A n \in Nodes : n \in S /\ n # 0
    BY NodeOrder DEF NodesAndTop
  <1>14. f[0] = FALSE BY <1>12, <1>13, Zenon
  <1>15. \A n \in Nodes : f[Parent[n]] \in BOOLEAN BY <1>7, <1>12, Zenon
  <1>16. \A n \in Nodes : f[n] = (n = d \/ f[Parent[n]])
    <2> TAKE n \in Nodes
    <2>1. n \in S /\ n \notin {0} BY <1>13, Zenon
    <2>2. f[n] = step[n][f[Parent[n]]] BY <2>1, <1>12, Zenon
    <2> QED BY <2>1, <2>2, <1>6, <1>15, Zenon
  <1>17. \A n \in Nodes : f[Parent[n]] = (Parent[n] \in Nodes /\ f[Parent[n]])
    <2> TAKE n \in Nodes
    <2>1. CASE Parent[n] \in Nodes BY <2>1, <1>15, Zenon
    <2>2. CASE Parent[n] \notin Nodes
      <3>1. Parent[n] = 0 BY <2>2, <1>7 DEF NodesAndTop
      <3> QED BY <3>1, <2>2, <1>14, Zenon
    <2> QED BY <2>1, <2>2, Zenon
  <1> DEFINE g == [n \in Nodes |-> f[n]]
  <1>18. \A n \in Nodes : g[n] = (n = d \/ (Parent[n] \in Nodes /\ g[Parent[n]]))
    <2> TAKE n \in Nodes
    <2>1. f[n] = (n = d \/ (Parent[n] \in Nodes /\ f[Parent[n]])) BY <1>16, <1>17, Zenon
    <2>2. Parent[n] \in Nodes => g[Parent[n]] = f[Parent[n]] BY Zenon
    <2>3. g[n] = f[n] BY Zenon
    <2> QED BY <2>1, <2>2, <2>3, Zenon
  <1>19. g = [n \in Nodes |-> g[n]] BY Zenon
  <1> HIDE DEF g
  <1>20. UndersOf(d, g) BY <1>18, <1>19, Zenon DEF UndersOf
  <1> DEFINE h == CHOOSE above : UndersOf(d, above)
  <1>21. UndersOf(d, h) BY <1>20, Zenon
  <1>22. \A n : Under(d, n) = h[n] BY Zenon DEF Under, UndersOf
  <1> HIDE DEF h
  <1>23. \A n \in Nodes : h[n] = (n = d \/ (Parent[n] \in Nodes /\ h[Parent[n]]))
    BY <1>21, Zenon DEF UndersOf
  <1> QED BY <1>22, <1>23, Zenon

LEMMA UnderIsLater ==
  ASSUME NEW d \in Nodes
  PROVE  \A n \in Nodes : Under(d, n) => d <= n
  <1> DEFINE R == {k \in Nat : \A n \in Nodes : n <= k => (Under(d, n) => d <= n)}
  <1>0. \A n \in Nodes : n \in Nat /\ n # 0 /\ Parent[n] \in Nat /\ Parent[n] < n BY NodeOrder
  <1>1. 0 \in R BY <1>0
  <1>2. ASSUME NEW k \in Nat, k \in R PROVE k + 1 \in R
    <2> SUFFICES ASSUME NEW n \in Nodes, n <= k + 1, Under(d, n) PROVE d <= n BY <1>2
    <2>1. CASE n = d BY <2>1, <1>0
    <2>2. CASE Parent[n] \in Nodes /\ Under(d, Parent[n])
      <3>1. Parent[n] <= k BY <1>0
      <3>2. d <= Parent[n] BY <3>1, <2>2, <1>2
      <3> QED BY <3>2, <1>0
    <2> QED BY <2>1, <2>2, UnderUnfolds
  <1> HIDE DEF R
  <1>3. Nat \subseteq R BY <1>1, <1>2, NumbersInduction
  <1>4. \A n \in Nodes : n \in R /\ n <= n BY <1>0, <1>3
  <1> QED BY <1>4 DEF R

(* What is above the end of a chain, and not above its root, is in the chain. *)
LEMMA UnderChain ==
  ASSUME NEW ch, NEW r, Chained(ch, r), NEW d \in Nodes, r < d
  PROVE  \A k \in 2 .. Len(ch) : Under(d, ch[k]) <=> \E j \in 2 .. k : ch[j] = d
  <1> DEFINE Holds(k) == Under(d, ch[k]) <=> \E j \in 2 .. k : ch[j] = d
             R == {m \in Nat : m + 2 <= Len(ch) => Holds(m + 2)}
  <1>1. Len(ch) \in Nat /\ ch \in Seq(NodesAndTop) BY DEF Chained, Chains, NodesAndTop
  <1>2. \A k \in 2 .. Len(ch) : ch[k] \in Nodes /\ Parent[ch[k]] = ch[k - 1] BY DEF Chained
  <1>3. 0 \in R
    <2> SUFFICES ASSUME 2 <= Len(ch) PROVE Holds(2) OBVIOUS
    <2>1. 2 \in 2 .. Len(ch) /\ 2 - 1 = 1 BY <1>1
    <2>2. ch[2] \in Nodes /\ Parent[ch[2]] = ch[1] /\ ch[1] = r BY <2>1, <1>2 DEF Chained
    <2>3. ~(ch[1] \in Nodes /\ Under(d, ch[1]))
      <3> SUFFICES ASSUME ch[1] \in Nodes, Under(d, ch[1]) PROVE FALSE OBVIOUS
      <3>1. d <= ch[1] BY UnderIsLater
      <3>2. ch[1] \in Nat /\ d \in Nat BY NodeOrder
      <3> QED BY <3>1, <3>2, <2>2
    <2>4. Under(d, ch[2]) <=> ch[2] = d BY <2>2, <2>3, UnderUnfolds
    <2>5. \A j \in 2 .. 2 : j = 2 OBVIOUS
    <2>6. 2 \in 2 .. 2 OBVIOUS
    <2> QED BY <2>4, <2>5, <2>6
  <1>4. ASSUME NEW m \in Nat, m \in R PROVE m + 1 \in R
    <2> DEFINE k == m + 2
    <2> SUFFICES ASSUME k + 1 <= Len(ch) PROVE Holds(k + 1)
      <3>1. (m + 1) + 2 = k + 1 OBVIOUS
      <3> QED BY <3>1
    <2>1. k \in 2 .. Len(ch) /\ k + 1 \in 2 .. Len(ch) /\ (k + 1) - 1 = k BY <1>1
    <2>2. Holds(k) BY <1>4, <2>1
    <2> HIDE DEF k
    <2>3. ch[k + 1] \in Nodes /\ Parent[ch[k + 1]] = ch[k] /\ ch[k] \in Nodes BY <2>1, <1>2
    <2>4. Under(d, ch[k + 1]) <=> ch[k + 1] = d \/ Under(d, ch[k]) BY <2>3, UnderUnfolds
    <2>5. (\E j \in 2 .. k + 1 : ch[j] = d) <=> ch[k + 1] = d \/ \E j \in 2 .. k : ch[j] = d
      <3>1. \A j \in 2 .. k + 1 : j = k + 1 \/ j \in 2 .. k BY <2>1
      <3>2. k + 1 \in 2 .. k + 1 /\ \A j \in 2 .. k : j \in 2 .. k + 1 BY <2>1
      <3> QED BY <3>1, <3>2
    <2> QED BY <2>2, <2>4, <2>5
  <1> HIDE DEF R
  <1>5. Nat \subseteq R BY <1>3, <1>4, NumbersInduction
  <1>6. ASSUME NEW k \in 2 .. Len(ch) PROVE Holds(k)
    <2>1. k - 2 \in Nat /\ (k - 2) + 2 = k /\ k <= Len(ch) BY <1>1
    <2>2. k - 2 \in R BY <2>1, <1>5
    <2> QED BY <2>1, <2>2 DEF R
  <1> QED BY <1>6

LEMMA CountedAbove ==
  ASSUME NEW ch, NEW r, Chained(ch, r), NEW top \in 1 .. Len(ch),
         NEW n \in Nodes, Parent[n] = ch[top],
         NEW E \in SUBSET Nodes, n \notin E, \A d \in E : r < d,
         NEW b \in 1 .. Len(ch), NEW c, c = (IF b < top THEN b ELSE top),
         \A k \in 2 .. b : ch[k] \in E, \A k \in b + 1 .. Len(ch) : ch[k] \notin E
  PROVE  Cardinality({d \in E : n # d /\ Under(d, n)}) = c - 1
  <1> DEFINE S == {d \in E : n # d /\ Under(d, n)}
             f == [i \in 1 .. c - 1 |-> ch[i + 1]]
  <1>1. /\ Len(ch) \in Nat /\ ch[1] = r /\ c \in 1 .. Len(ch) /\ c <= top /\ c <= b
        /\ \A k \in 2 .. Len(ch) : ch[k] \in Nodes /\ Parent[ch[k]] = ch[k - 1]
    BY DEF Chained, Chains
  <1>2. r < n BY PathThere
  <1>3. ASSUME NEW d \in E PROVE d \in S <=> \E k \in 2 .. c : ch[k] = d
    <2>1. d \in Nodes /\ r < d /\ n # d OBVIOUS
    <2>2. Under(d, n) <=> Parent[n] \in Nodes /\ Under(d, Parent[n]) BY <2>1, UnderUnfolds
    <2>3. CASE top = 1
      <3>1. ~(Parent[n] \in Nodes /\ Under(d, Parent[n]))
        <4> SUFFICES ASSUME Parent[n] \in Nodes, Under(d, Parent[n]) PROVE FALSE OBVIOUS
        <4>1. d <= r BY <2>1, <2>3, <1>1, UnderIsLater
        <4>2. d \in Nat /\ r \in Nat BY <2>1, <2>3, <1>1, NodeOrder
        <4> QED BY <4>1, <4>2, <2>1
      <3>2. c = 1 BY <2>3, <1>1
      <3> QED BY <3>1, <3>2, <2>2
    <2>4. CASE top # 1
      <3>1. top \in 2 .. Len(ch) BY <2>4, <1>1
      <3>2. Under(d, Parent[n]) <=> \E k \in 2 .. top : ch[k] = d BY <2>1, <3>1, UnderChain
      <3>3. Parent[n] \in Nodes BY <3>1, <1>1
      <3>4. (\E k \in 2 .. top : ch[k] = d) <=> \E k \in 2 .. c : ch[k] = d
        <4>1. \A k \in 2 .. top : k \in 2 .. c \/ k \in b + 1 .. Len(ch) BY <1>1, <3>1
        <4>2. \A k \in 2 .. c : k \in 2 .. top BY <1>1
        <4> QED BY <4>1, <4>2
      <3> QED BY <2>1, <2>2, <3>2, <3>3, <3>4
    <2> QED BY <2>3, <2>4
  <1>4. S = {ch[k] : k \in 2 .. c}
    <2>1. \A k \in 2 .. c : ch[k] \in E
      <3>1. \A k \in 2 .. c : k \in 2 .. b BY <1>1
      <3> QED BY <3>1
    <2> QED BY <2>1, <1>3
  <1> HIDE DEF S
  <1>5. \A i \in 1 .. c - 1 : i + 1 \in 2 .. c /\ i + 1 \in 1 .. Len(ch) BY <1>1
  <1>6. f \in [1 .. c - 1 -> S] BY <1>4, <1>5
  <1>7. \A i, j \in 1 .. c - 1 : i # j => f[i] # f[j]
    <2> SUFFICES ASSUME NEW i \in 1 .. c - 1, NEW j \in 1 .. c - 1, i < j PROVE ch[i + 1] # ch[j + 1]
      <3>1. \A i, j \in 1 .. c - 1 : i # j => i < j \/ j < i BY <1>1
      <3> QED BY <3>1
    <2>1. i + 1 \in 1 .. Len(ch) /\ j + 1 \in (i + 1) + 1 .. Len(ch) BY <1>1, <1>5
    <2>2. ch[i + 1] < ch[j + 1] BY <2>1, ChainAscends
    <2>3. ch[i + 1] \in Nodes /\ ch[j + 1] \in Nodes
      <3>1. i + 1 \in 2 .. Len(ch) /\ j + 1 \in 2 .. Len(ch) BY <1>1, <1>5
      <3> QED BY <3>1, <1>1
    <2> QED BY <2>2, <2>3, NodeOrder
  <1>8. \A d \in S : \E i \in 1 .. c - 1 : f[i] = d
    <2> TAKE d \in S
    <2>1. PICK k \in 2 .. c : ch[k] = d BY <1>4
    <2>2. k - 1 \in 1 .. c - 1 /\ (k - 1) + 1 = k BY <1>1
    <2>3. f[k - 1] = d BY <2>1, <2>2
    <2> QED BY <2>2, <2>3
  <1> HIDE DEF f
  <1>9. f \in Bijection(1 .. c - 1, S)
    BY <1>6, <1>7, <1>8 DEF Bijection, Injection, Surjection, IsInjective
  <1>10. ExistsBijection(1 .. c - 1, S) BY <1>9 DEF ExistsBijection
  <1>11. c - 1 \in Nat BY <1>1
  <1> QED BY <1>10, <1>11, FS_CountingElements DEF S

--------------------------------------------------------------------------------
(* The invariant of FileIndex. *)

FileEntries == [node : Nodes, path : Seq(NamesUsed)]
SavedEntries == [node : Nodes, index : Nat]

NodesIn(s) == [i \in DOMAIN s |-> s[i].node]

(* What the walk passes over and need not come to. *)
Passed == bad \union (IF phase = "save" THEN unnamed ELSE {})

(* The index of an entry leads to its path from the lowest directory that was *)
(* not entered before save_to_bungee.                                        *)
Known(e) == Indexed(e.index, SubSeq(TruePath(root, e.node),
                                    Cardinality(InEntered(e.node)) + 1, Len(TruePath(root, e.node))))

(* The directories of the chain up to b were entered before save_to_bungee,   *)
(* and dirs has the indexes of those above.                                  *)
Aligned(ch, b) ==
    /\ b \in 0 .. Len(ch) /\ (Len(ch) > 0 => b >= 1)
    /\ dirs \in Seq(Nat) /\ Len(dirs) = Len(ch) - b
    /\ \A k \in 2 .. b : ch[k] \in entered
    /\ \A k \in b + 1 .. Len(ch) : ch[k] \notin entered
    /\ \A k \in 1 .. Len(dirs) : Indexed(dirs[k], SubSeq(NamesAlong(ch), b, b + k - 1))

OnDirs(ch, R) == \A k \in 2 .. Len(ch) : ch[k] \in Dirs /\ On(R, ch[k])

IndexTypes == /\ root \in Dirs \union {0} /\ phase \in {"scan", "save"}
              /\ phase = "scan" => saved = <<>> /\ entered = {}
              /\ yielded \in Seq(FileEntries) /\ saved \in Seq(SavedEntries)
              /\ BungeeInv
Given == \A i \in 1 .. Len(yielded) : /\ yielded[i].path = TruePath(root, yielded[i].node)
                                      /\ yielded[i].node \notin bad
SavedKnown == \A i \in 1 .. Len(saved) : Known(saved[i]) /\ saved[i].node \notin bad \union unnamed
Covered == /\ Covers(Returned, Pending(stack), root, Passed)
           /\ \A d \in entered : d \in Nodes /\ On(Returned, d)
InOrder == variant = "Cached" =>
              /\ Ascends(NodesIn(yielded))
              /\ phase = "scan" =>
                    /\ Ordered(stack)
                    /\ \A i \in 1 .. Len(yielded) : \A m \in Pending(stack) : yielded[i].node < m
Walk(ch) == /\ Chained(ch, root) /\ Levels(stack, ch) /\ OnDirs(ch, Returned)
            /\ phase = "scan" => current = NamesAlong(ch)
            /\ phase = "save" => \E b : Aligned(ch, b)

IndexInv == IndexTypes /\ Given /\ SavedKnown /\ Covered /\ InOrder /\ \E ch : Walk(ch)

LEMMA NodesInIs ==
  ASSUME NEW S, \A e \in S : e.node \in Nodes, NEW s \in Seq(S)
  PROVE  /\ NodesIn(s) \in Seq(Nodes) /\ Len(NodesIn(s)) = Len(s)
         /\ \A i \in 1 .. Len(s) : NodesIn(s)[i] = s[i].node
         /\ \A e \in S : NodesIn(Append(s, e)) = Append(NodesIn(s), e.node)
  <1>1. Len(s) \in Nat /\ DOMAIN s = 1 .. Len(s) OBVIOUS
  <1>2. \A i \in 1 .. Len(s) : s[i].node \in Nodes OBVIOUS
  <1>3. NodesIn(s) = [i \in 1 .. Len(s) |-> s[i].node] BY <1>1 DEF NodesIn
  <1>4. NodesIn(s) \in Seq(Nodes) /\ Len(NodesIn(s)) = Len(s) BY <1>1, <1>2, <1>3
  <1>5. ASSUME NEW e \in S PROVE NodesIn(Append(s, e)) = Append(NodesIn(s), e.node)
    <2> DEFINE a == NodesIn(Append(s, e))
               t == Append(s, e)
               n == NodesIn(s)
               l == Len(s)
    <2>1. Len(t) = l + 1 /\ DOMAIN t = 1 .. l + 1 /\ t[l + 1] = e /\ \A i \in 1 .. l : t[i] = s[i]
      BY <1>1
    <2>2. a = [i \in 1 .. l + 1 |-> t[i].node] BY <2>1 DEF NodesIn
    <2>3. n \in Seq(Nodes) /\ Len(n) = l /\ l \in Nat /\ e.node \in Nodes /\ \A i \in 1 .. l : n[i] = s[i].node
      BY <1>1, <1>3, <1>4
    <2> HIDE DEF a, t, n, l
    <2>4. \A i \in 1 .. l + 1 : t[i].node = IF i = l + 1 THEN e.node ELSE n[i]
      <3> TAKE i \in 1 .. l + 1
      <3>1. i = l + 1 \/ i \in 1 .. l BY <2>3
      <3> QED BY <3>1, <2>1, <2>3
    <2>5. a = [i \in 1 .. l + 1 |-> IF i = l + 1 THEN e.node ELSE n[i]] BY <2>2, <2>4
    <2>6. Append(n, e.node) = [i \in 1 .. l + 1 |-> IF i = l + 1 THEN e.node ELSE n[i]] BY <2>3
    <2> QED BY <2>5, <2>6 DEF a, n
  <1> QED BY <1>3, <1>4, <1>5

LEMMA ReturnedIs ==
  ASSUME yielded \in Seq(FileEntries), saved \in Seq(SavedEntries)
  PROVE  /\ Returned = NodesIn(yielded) \o NodesIn(saved) /\ Returned \in Seq(Nodes)
         /\ NodesIn(yielded) \in Seq(Nodes) /\ NodesIn(saved) \in Seq(Nodes)
         /\ \A n : On(Returned, n) <=> \/ \E i \in 1 .. Len(yielded) : yielded[i].node = n
                                       \/ \E i \in 1 .. Len(saved) : saved[i].node = n
         /\ saved = <<>> => Returned = NodesIn(yielded)
  <1> DEFINE a == NodesIn(yielded)
             b == NodesIn(saved)
             R == a \o b
  <1>1. Returned = R BY DEF Returned, NodesIn
  <1>2. /\ a \in Seq(Nodes) /\ Len(a) = Len(yielded) /\ Len(a) \in Nat
        /\ \A i \in 1 .. Len(yielded) : a[i] = yielded[i].node
    <2>1. \A e \in FileEntries : e.node \in Nodes BY DEF FileEntries
    <2>2. Len(yielded) \in Nat OBVIOUS
    <2> QED BY <2>1, <2>2, NodesInIs
  <1>3. /\ b \in Seq(Nodes) /\ Len(b) = Len(saved) /\ Len(b) \in Nat
        /\ \A i \in 1 .. Len(saved) : b[i] = saved[i].node
    <2>1. \A e \in SavedEntries : e.node \in Nodes BY DEF SavedEntries
    <2>2. Len(saved) \in Nat OBVIOUS
    <2> QED BY <2>1, <2>2, NodesInIs
  <1>4. saved = <<>> => b = <<>> BY <1>3
  <1> HIDE DEF a, b
  <1>5. /\ R \in Seq(Nodes) /\ Len(R) = Len(a) + Len(b)
        /\ \A i \in 1 .. Len(a) : R[i] = a[i]
        /\ \A i \in 1 .. Len(b) : R[Len(a) + i] = b[i]
    <2>1. a \in Seq(Nodes) /\ b \in Seq(Nodes) BY <1>2, <1>3
    <2> QED BY <2>1, ConcatParts
  <1>6. saved = <<>> => R = a BY <1>2, <1>4
  <1> HIDE DEF R
  <1>7. ASSUME NEW n PROVE On(R, n) <=> \/ \E i \in 1 .. Len(yielded) : yielded[i].node = n
                                        \/ \E i \in 1 .. Len(saved) : saved[i].node = n
    <2>1. ASSUME NEW i \in 1 .. Len(R), R[i] = n
          PROVE  \/ \E j \in 1 .. Len(yielded) : yielded[j].node = n
                 \/ \E j \in 1 .. Len(saved) : saved[j].node = n
      <3>1. CASE i \in 1 .. Len(a) BY <3>1, <2>1, <1>2, <1>5
      <3>2. CASE i \notin 1 .. Len(a)
        <4>1. i - Len(a) \in 1 .. Len(b) /\ Len(a) + (i - Len(a)) = i BY <3>2, <1>2, <1>3, <1>5
        <4> QED BY ZenonT(60), <4>1, <2>1, <1>3, <1>5
      <3> QED BY <3>1, <3>2
    <2>2. ASSUME NEW i \in 1 .. Len(yielded), yielded[i].node = n PROVE On(R, n)
      <3>1. i \in 1 .. Len(R) /\ R[i] = n BY <2>2, <1>2, <1>3, <1>5
      <3> QED BY <3>1 DEF On
    <2>3. ASSUME NEW i \in 1 .. Len(saved), saved[i].node = n PROVE On(R, n)
      <3>1. Len(a) + i \in 1 .. Len(R) BY <1>2, <1>3, <1>5
      <3>2. R[Len(a) + i] = n BY <2>3, <1>3, <1>5
      <3> QED BY <3>1, <3>2 DEF On
    <2> QED BY <2>1, <2>2, <2>3 DEF On
  <1>8. a \in Seq(Nodes) /\ b \in Seq(Nodes) /\ R \in Seq(Nodes) BY <1>2, <1>3, <1>5
  <1> QED BY <1>1, <1>6, <1>7, <1>8 DEF R, a, b

(* What the invariant gives. *)
LEMMA InvPathsTrue == IndexInv => PathsTrue
  BY DEF IndexInv, IndexTypes, Given, PathsTrue, Range

LEMMA InvSorted == IndexInv => SortedWhenCached
  <1> SUFFICES ASSUME IndexInv, variant = "Cached"
               PROVE  \A i, j \in DOMAIN yielded : i < j => yielded[i].node < yielded[j].node
    BY DEF SortedWhenCached
  <1>1. yielded \in Seq(FileEntries) BY DEF IndexInv, IndexTypes
  <1>2. Len(NodesIn(yielded)) = Len(yielded) /\ \A i \in 1 .. Len(yielded) : NodesIn(yielded)[i] = yielded[i].node
    BY <1>1, NodesInIs DEF FileEntries
  <1>3. Ascends(NodesIn(yielded)) BY DEF IndexInv, InOrder
  <1>4. DOMAIN yielded = 1 .. Len(yielded) BY <1>1
  <1> QED BY <1>2, <1>3, <1>4 DEF Ascends

LEMMA InvComplete == IndexInv => ScanComplete
  <1> SUFFICES ASSUME IndexInv, stack = <<>>
               PROVE  /\ Range(Returned) = {n \in Nodes : Shown(n)}
                      /\ Cardinality(Range(Returned)) = Len(Returned)
    BY DEF ScanComplete
  <1> DEFINE R == Returned
             l == Len(R)
  <1>1. yielded \in Seq(FileEntries) /\ saved \in Seq(SavedEntries) BY DEF IndexInv, IndexTypes
  <1>2. Covers(R, {}, root, Passed)
    <2>1. Pending(<<>>) = {} BY DEF Pending
    <2> QED BY <2>1 DEF IndexInv, Covered
  <1>3. R \in Seq(Nodes) /\ l \in Nat BY <1>2 DEF Covers
  <1>4. \A n : n \in Range(R) <=> On(R, n) BY <1>3 DEF Range, On
  <1>5. \A n : On(R, n) <=> \/ \E i \in 1 .. Len(yielded) : yielded[i].node = n
                            \/ \E i \in 1 .. Len(saved) : saved[i].node = n
    BY <1>1, ReturnedIs
  <1>6. phase = "scan" => saved = <<>> BY DEF IndexInv, IndexTypes
  <1>7. phase \in {"scan", "save"} BY DEF IndexInv, IndexTypes
  <1>8. \A n : n \in {y.node : y \in Range(yielded)} <=> \E i \in 1 .. Len(yielded) : yielded[i].node = n
    BY <1>1 DEF Range
  <1>9. ASSUME NEW n, On(R, n) PROVE n \in Nodes /\ Shown(n)
    <2>1. n \in Nodes BY <1>3, <1>9 DEF On
    <2>2. Parent[n] \notin closed /\ (Parent[n] = root \/ On(R, Parent[n]))
      BY <2>1, <1>2, <1>9 DEF Covers, Reached
    <2>3. CASE \E i \in 1 .. Len(yielded) : yielded[i].node = n
      <3>1. n \notin bad BY <2>3 DEF IndexInv, Given
      <3>2. n \in {y.node : y \in Range(yielded)} BY <2>3, <1>8
      <3> QED BY <2>1, <2>2, <3>1, <3>2, <1>4 DEF Shown
    <2>4. CASE \E i \in 1 .. Len(saved) : saved[i].node = n
      <3>1. n \notin bad /\ n \notin unnamed BY <2>4 DEF IndexInv, SavedKnown
      <3> QED BY <2>1, <2>2, <3>1, <1>4 DEF Shown
    <2> QED BY <2>3, <2>4, <1>5, <1>9
  <1>10. ASSUME NEW n \in Nodes, Shown(n) PROVE On(R, n)
    <2>1. Reached(R, root, n) BY <1>4, <1>10 DEF Shown, Reached
    <2>2. On(R, n) \/ n \in Passed BY <2>1, <1>2 DEF Covers
    <2>3. CASE n \in Passed
      <3>1. n \notin bad BY <1>10 DEF Shown
      <3>2. phase = "save" /\ n \in unnamed BY <2>3, <3>1 DEF Passed
      <3>3. n \in {y.node : y \in Range(yielded)} BY <3>2, <1>10 DEF Shown
      <3> QED BY <3>3, <1>5, <1>8
    <2> QED BY <2>2, <2>3
  <1>11. Range(R) = {n \in Nodes : Shown(n)} BY <1>4, <1>9, <1>10
  <1>12. Cardinality(Range(R)) = l
    <2> HIDE DEF R
    <2>1. R \in [1 .. l -> Range(R)] /\ \A n \in Range(R) : \E i \in 1 .. l : R[i] = n
      BY <1>3 DEF Range
    <2>2. \A i, j \in 1 .. l : R[i] = R[j] => i = j BY <1>2 DEF Covers, Distinct
    <2>3. R \in Bijection(1 .. l, Range(R))
      BY <2>1, <2>2 DEF Bijection, Injection, Surjection, IsInjective
    <2>4. ExistsBijection(1 .. l, Range(R)) BY <2>3 DEF ExistsBijection
    <2> QED BY <2>4, <1>3, FS_CountingElements
  <1> QED BY <1>11, <1>12

LEMMA InvSavedPaths == IndexInv /\ encoding = "VarInt" => SavedPaths
  <1> SUFFICES ASSUME IndexInv, encoding = "VarInt", NEW e \in Range(saved)
               PROVE  raw_path(data, e.index) =
                         SubSeq(TruePath(root, e.node), Cardinality(InEntered(e.node)) + 1,
                                Len(TruePath(root, e.node)))
    BY DEF SavedPaths
  <1>1. saved \in Seq(SavedEntries) /\ BungeeInv BY DEF IndexInv, IndexTypes
  <1>2. PICK i \in 1 .. Len(saved) : e = saved[i] BY <1>1 DEF Range
  <1>3. Known(e) BY <1>2 DEF IndexInv, SavedKnown
  <1> QED BY <1>1, <1>3, IndexedReads DEF Known

--------------------------------------------------------------------------------
(* What the steps have in common. *)

Joined(y, s) == NodesIn(y) \o NodesIn(s)

LEMMA JoinedGrows ==
  ASSUME NEW y \in Seq(FileEntries), NEW s \in Seq(SavedEntries)
  PROVE  /\ \A e \in FileEntries : Joined(Append(y, e), <<>>) = Append(Joined(y, <<>>), e.node)
         /\ \A e \in SavedEntries : Joined(y, Append(s, e)) = Append(Joined(y, s), e.node)
         /\ Joined(<<>>, <<>>) = <<>>
  <1>1. NodesIn(<<>>) = <<>> BY DEF NodesIn
  <1>2. (\A e \in FileEntries : e.node \in Nodes) /\ \A e \in SavedEntries : e.node \in Nodes
    BY DEF FileEntries, SavedEntries
  <1>3. /\ NodesIn(y) \in Seq(Nodes)
        /\ \A e \in FileEntries : NodesIn(Append(y, e)) = Append(NodesIn(y), e.node)
    BY <1>2, NodesInIs
  <1>4. /\ NodesIn(s) \in Seq(Nodes)
        /\ \A e \in SavedEntries : NodesIn(Append(s, e)) = Append(NodesIn(s), e.node)
    BY <1>2, NodesInIs
  <1>5. \A a \in Seq(Nodes) : a \o <<>> = a OBVIOUS
  <1>6. ASSUME NEW e \in FileEntries
        PROVE  Joined(Append(y, e), <<>>) = Append(Joined(y, <<>>), e.node)
    <2>1. e.node \in Nodes BY <1>2
    <2>2. Append(NodesIn(y), e.node) \in Seq(Nodes) BY <2>1, <1>3
    <2> QED BY <2>2, <1>1, <1>3, <1>5 DEF Joined
  <1>7. ASSUME NEW e \in SavedEntries
        PROVE  Joined(y, Append(s, e)) = Append(Joined(y, s), e.node)
    <2> DEFINE a == NodesIn(y)
               b == NodesIn(s)
    <2>1. a \in Seq(Nodes) /\ b \in Seq(Nodes) /\ e.node \in Nodes BY <1>2, <1>3, <1>4
    <2>2. NodesIn(Append(s, e)) = Append(b, e.node) BY <1>4
    <2> HIDE DEF a, b
    <2>3. a \o Append(b, e.node) = Append(a \o b, e.node) BY <2>1
    <2> QED BY <2>2, <2>3 DEF Joined, a, b
  <1>8. Joined(<<>>, <<>>) = <<>> BY <1>1 DEF Joined
  <1> QED BY <1>6, <1>7, <1>8

LEMMA ReturnedNext == /\ Returned = Joined(yielded, saved)
                      /\ Returned' = Joined(yielded', saved')
  BY DEF Returned, Joined, NodesIn

LEMMA OnGrows ==
  ASSUME NEW R \in Seq(Nodes), NEW n \in Nodes
  PROVE  \A m : On(Append(R, n), m) <=> On(R, m) \/ m = n
  <1> DEFINE t == Append(R, n)
             l == Len(R)
  <1>1. l \in Nat /\ Len(t) = l + 1 /\ t[l + 1] = n /\ \A i \in 1 .. l : t[i] = R[i] OBVIOUS
  <1> HIDE DEF t, l
  <1>2. l + 1 \in 1 .. l + 1 /\ (\A i \in 1 .. l : i \in 1 .. l + 1)
        /\ \A i \in 1 .. l + 1 : i = l + 1 \/ i \in 1 .. l
    BY <1>1
  <1>4. \A m : On(t, m) <=> (\E i \in 1 .. l : R[i] = m) \/ m = n BY <1>1, <1>2 DEF On
  <1> QED BY <1>4 DEF On, t, l

LEMMA IndexedSame ==
  ASSUME UNCHANGED bungeeVars
  PROVE  \A i, q : Indexed(i, q) => Indexed(i, q)'
  BY DEF bungeeVars, Indexed

LEMMA KnownKept ==
  ASSUME \A i, q : Indexed(i, q) => Indexed(i, q)', entered' = entered, root' = root
  PROVE  \A e : Known(e) => Known(e)'
  <1>1. \A n : InEntered(n)' = InEntered(n) BY DEF InEntered
  <1> QED BY <1>1 DEF Known

LEMMA CoveredNext ==
  ASSUME closed' = closed, bad' = bad, unnamed' = unnamed,
         Covers(Returned', Pending(stack'), root',
                bad \union (IF phase' = "save" THEN unnamed ELSE {})),
         \A d \in entered' : d \in Nodes /\ On(Returned', d)
  PROVE  Covered'
  <1>1. Passed' = bad \union (IF phase' = "save" THEN unnamed ELSE {}) BY DEF Passed
  <1>2. Pending(stack)' = Pending(stack') BY DEF Pending
  <1> QED BY <1>1, <1>2 DEF Covered, Covers, Reached, On, Distinct

LEMMA WalkNext ==
  ASSUME closed' = closed, NEW ch, Chained(ch, root'), Levels(stack', ch), OnDirs(ch, Returned'),
         phase' = "scan" => current' = NamesAlong(ch),
         phase' = "save" => \E b : Aligned(ch, b)'
  PROVE  Walk(ch)'
  <1>1. Chained(ch, root)' BY DEF Chained
  <1>2. Levels(stack, ch)' BY DEF Levels, Distinct, Stacks
  <1>3. OnDirs(ch, Returned)' BY DEF OnDirs, On
  <1>4. NamesAlong(ch)' = NamesAlong(ch) BY DEF NamesAlong
  <1> QED BY <1>1, <1>2, <1>3, <1>4 DEF Walk

(* When every entry on the stack is passed over, nothing is to come. *)
LEMMA NothingLeft ==
  ASSUME stack \in Stacks, NEW skip, LevelsLeft(skip) = {}
  PROVE  Pending(stack) \subseteq skip
  <1> SUFFICES ASSUME NEW n \in Pending(stack) PROVE n \in skip OBVIOUS
  <1>1. PICK k \in 1 .. Len(stack) : \E i \in 1 .. Len(stack[k]) : stack[k][i] = n BY DEF Pending
  <1>2. PICK i \in 1 .. Len(stack[k]) : stack[k][i] = n BY <1>1
  <1>3. stack[k] \in Seq(Nodes) /\ k \in DOMAIN stack BY DEF Stacks
  <1>4. n \in Range(stack[k]) BY <1>2, <1>3 DEF Range
  <1> QED BY <1>3, <1>4 DEF LevelsLeft

(* An ended walk. *)
LEMMA NoLevels ==
  ASSUME NEW r
  PROVE  /\ Chained(<<>>, r) /\ Levels(<<>>, <<>>) /\ NamesAlong(<<>>) = <<>>
         /\ Pending(<<>>) = {} /\ Ordered(<<>>) /\ \A R : OnDirs(<<>>, R)
  <1>1. Len(<<>>) = 0 /\ <<>> \in Chains /\ <<>> \in Stacks BY DEF Chains, Stacks
  <1> QED BY <1>1 DEF Chained, Levels, NamesAlong, Pending, Ordered, OnDirs

--------------------------------------------------------------------------------
(* The steps. *)

(* The names of the directories entered that are left after an entry is taken *)
(* from level top.                                                            *)
LEMMA NamesLeft ==
  ASSUME NEW ch, NEW r, Chained(ch, r), NEW top \in 1 .. Len(ch)
  PROVE  DropLast(NamesAlong(ch), Len(ch) - top) = NamesAlong(SubSeq(ch, 1, top))
  <1>1. Len(ch) \in Nat BY DEF Chained, Chains
  <1>2. Len(NamesAlong(ch)) = Len(ch) - 1 BY <1>1, NamesAlongIs
  <1>3. (Len(ch) - 1) - (Len(ch) - top) = top - 1 BY <1>1
  <1>4. NamesAlong(SubSeq(ch, 1, top)) = SubSeq(NamesAlong(ch), 1, top - 1) BY <1>1, NamesAlongIs
  <1> QED BY <1>2, <1>3, <1>4 DEF DropLast

(* The chain after a step. *)
LEMMA DirsNext ==
  ASSUME NEW ch, NEW skip, NEW nx, NEW top, NEW ch2, NEW st2, Stepped(skip, nx, ch, top, ch2, st2),
         Chained(ch, root), top \in 1 .. Len(ch), NEW R \in Seq(Nodes), OnDirs(ch, R)
  PROVE  OnDirs(ch2, Append(R, nx.node))
  <1> DEFINE n == nx.node
             c == SubSeq(ch, 1, top)
             R2 == Append(R, n)
  <1>1. n \in Nodes BY DEF Stepped
  <1>2. \A m : On(R2, m) <=> On(R, m) \/ m = n BY <1>1, OnGrows
  <1>3. c \in Seq(Nodes \union {0}) /\ Len(c) = top /\ (\A k \in 1 .. top : c[k] = ch[k])
        /\ top \in Nat /\ Len(ch) \in Nat
    BY DEF Chained, Chains
  <1> HIDE DEF R2, c, n
  <1>4. ch2 = IF Opens(n) THEN Append(c, n) ELSE c BY DEF Stepped, c, n
  <1>5. \A k \in 2 .. top : k \in 1 .. top /\ k \in 2 .. Len(ch) BY <1>3
  <1>6. \A k \in 2 .. top : c[k] \in Dirs /\ On(R2, c[k]) BY <1>2, <1>3, <1>5 DEF OnDirs
  <1>7. CASE Opens(n)
    <2>1. n \in Dirs /\ On(R2, n) BY <1>2, <1>7 DEF Opens
    <2>2. Len(ch2) = top + 1 /\ ch2[top + 1] = n /\ \A k \in 1 .. top : ch2[k] = c[k]
      <3>1. n \in Nodes \union {0} BY <1>1 DEF n
      <3> QED BY <3>1, <1>3, <1>4, <1>7
    <2>3. \A k \in 2 .. top + 1 : k = top + 1 \/ (k \in 2 .. top /\ k \in 1 .. top) BY <1>3
    <2>4. OnDirs(ch2, R2) BY <2>1, <2>2, <2>3, <1>6 DEF OnDirs
    <2> QED BY <2>4 DEF R2, n
  <1>8. CASE ~Opens(n)
    <2>1. OnDirs(ch2, R2) BY <1>3, <1>4, <1>6, <1>8 DEF OnDirs
    <2> QED BY <2>1 DEF R2, n
  <1> QED BY <1>7, <1>8

LEMMA ScanReturnKeeps ==
  ASSUME IndexInv, phase = "scan", LevelsLeft(bad) # {}, Return,
         UNCHANGED <<disk, root, variant>>,
         UNCHANGED <<bungeeVars, phase, dirs, unnamed, entered, saved>>
  PROVE  IndexInv'
  <1> DEFINE nx == Advance(bad)
             n == nx.node
             before == DropLast(current, nx.left)
             e == FileEntry(n, before)
  <1>1. /\ bad' = bad /\ closed' = closed /\ root' = root /\ variant' = variant
        /\ UNCHANGED bungeeVars /\ phase' = phase /\ dirs' = dirs /\ unnamed' = unnamed
        /\ entered' = entered /\ saved' = saved
    BY DEF disk
  <1>2. /\ yielded' = Append(yielded, e)
        /\ current' = IF Opens(n) THEN Append(before, NameOf[n]) ELSE before
        /\ stack' \in Enter(n, nx.below)
    BY DEF Return
  <1>3. PICK ch : Walk(ch) BY DEF IndexInv
  <1>4. /\ Chained(ch, root) /\ Levels(stack, ch) /\ OnDirs(ch, Returned) /\ current = NamesAlong(ch)
        /\ Len(stack) = Len(ch)
    BY <1>3 DEF Walk, Levels
  <1>5. PICK top, ch2 : Stepped(bad, nx, ch, top, ch2, stack') BY <1>2, <1>4, StepWalks
  <1> HIDE DEF nx
  <1>6. top \in 1 .. Len(ch) /\ n \in Nodes \ bad /\ Parent[n] = ch[top] /\ nx.left = Len(ch) - top
    BY <1>4, <1>5 DEF Stepped
  <1>7. saved = <<>> /\ entered = {} /\ yielded \in Seq(FileEntries) /\ saved \in Seq(SavedEntries)
        /\ root \in Dirs \union {0} /\ BungeeInv
    BY DEF IndexInv, IndexTypes
  <1>8. before = NamesAlong(SubSeq(ch, 1, top)) BY <1>4, <1>6, NamesLeft
  <1>9. before \in Seq(NamesUsed) /\ TruePath(root, n) = Append(before, NameOf[n])
    <2>1. SubSeq(NamesAlong(ch), 1, top - 1) \in Seq(NamesUsed)
      <3>1. Len(ch) \in Nat /\ Len(ch) > 0 BY <1>4, <1>6 DEF Chained, Chains
      <3>2. NamesAlong(ch) \in Seq(NamesUsed) /\ Len(NamesAlong(ch)) = Len(ch) - 1
        BY <3>1, <1>4, NamesAlongIs
      <3>3. 1 \in Int /\ top - 1 \in Int /\ top - 1 <= Len(ch) - 1 BY <3>1, <1>6
      <3> HIDE DEF NamesAlong
      <3> QED BY <3>2, <3>3
    <2>2. before \in Seq(NamesUsed)
      <3>1. Len(ch) > 0 BY <1>4, <1>6 DEF Chained, Chains
      <3>2. NamesAlong(SubSeq(ch, 1, top)) = SubSeq(NamesAlong(ch), 1, top - 1)
        BY <3>1, <1>4, <1>6, NamesAlongIs
      <3> QED BY <3>2, <2>1, <1>8
    <2> QED BY <2>2, <1>4, <1>6, <1>8, PathThere
  <1> HIDE DEF before
  <1>10. e \in FileEntries /\ e.node = n /\ e.path = TruePath(root, n)
    <2>1. NameOf[n] \in NamesUsed BY <1>6 DEF NamesUsed
    <2>2. Append(before, NameOf[n]) \in Seq(NamesUsed) BY <2>1, <1>9
    <2> QED BY <2>2, <1>6, <1>9 DEF FileEntry, FileEntries
  <1> HIDE DEF e
  <1>11. Returned' = Append(Returned, n)
    BY <1>1, <1>2, <1>7, <1>10, JoinedGrows, ReturnedNext
  <1>12. Returned \in Seq(Nodes) BY <1>7, ReturnedIs
  <1>13. /\ Len(yielded) \in Nat /\ Len(yielded') = Len(yielded) + 1
         /\ yielded' \in Seq(FileEntries)
         /\ yielded'[Len(yielded) + 1] = e /\ \A i \in 1 .. Len(yielded) : yielded'[i] = yielded[i]
    BY <1>2, <1>7, <1>10
  <1>14. \A i \in 1 .. Len(yielded) + 1 : i = Len(yielded) + 1 \/ i \in 1 .. Len(yielded)
    BY <1>13
  <1>15. IndexTypes'
    <2>1. BungeeInv' BY <1>1, <1>7, BungeeInvSame
    <2> QED BY <2>1, <1>1, <1>7, <1>13 DEF IndexTypes
  <1>16. Given'
    <2>1. \A i \in 1 .. Len(yielded) : yielded[i].path = TruePath(root, yielded[i].node)
                                       /\ yielded[i].node \notin bad
      BY DEF IndexInv, Given
    <2>2. \A i \in 1 .. Len(yielded) + 1 : yielded'[i].path = TruePath(root, yielded'[i].node)
                                          /\ yielded'[i].node \notin bad
      BY <2>1, <1>6, <1>10, <1>13, <1>14
    <2> QED BY <2>2, <1>1, <1>13 DEF Given
  <1>17. SavedKnown' BY <1>1, <1>7 DEF SavedKnown
  <1>18. Covered'
    <2>1. Covers(Returned, Pending(stack), root, bad) BY <1>1 DEF IndexInv, Covered, Passed
    <2>2. root \in Nat BY <1>7, TreeAssumption
    <2>3. Covers(Append(Returned, n), Pending(stack'), root, bad)
      BY <2>1, <2>2, <1>5, CoversStep DEF Stepped
    <2> QED BY <2>3, <1>1, <1>7, <1>11, CoveredNext
  <1>19. InOrder'
    <2> SUFFICES ASSUME variant = "Cached"
                 PROVE  /\ Ascends(NodesIn(yielded)') /\ Ordered(stack')
                        /\ \A i \in 1 .. Len(yielded') : \A m \in Pending(stack') : yielded'[i].node < m
      BY <1>1 DEF InOrder, Ascends, Ordered, Pending
    <2> DEFINE a == NodesIn(yielded)
               l == Len(yielded)
    <2>1. /\ Ascends(a) /\ Ordered(stack)
          /\ \A i \in 1 .. l : \A m \in Pending(stack) : yielded[i].node < m
      BY DEF IndexInv, InOrder
    <2>2. /\ n \in Pending(stack) /\ Ordered(stack') /\ \A m \in Pending(stack') : n < m
          /\ Pending(stack') \subseteq Pending(stack) \union (IF Opens(n) THEN EntriesOf(n) ELSE {})
      BY <2>1, <1>5 DEF Stepped
    <2>3. \A i \in 1 .. l : yielded[i].node < n BY <2>1, <2>2
    <2>4. \A i \in 1 .. l : yielded[i].node \in Nodes
      <3>1. \A i \in 1 .. l : yielded[i] \in FileEntries BY <1>7
      <3> QED BY <3>1 DEF FileEntries
    <2>5. \A i \in 1 .. l : \A m \in Pending(stack') : yielded[i].node < m
      <3> SUFFICES ASSUME NEW i \in 1 .. l, NEW m \in Pending(stack') PROVE yielded[i].node < m OBVIOUS
      <3>1. m \in Nodes BY DEF Pending
      <3>2. yielded[i].node \in Nat /\ n \in Nat /\ m \in Nat BY <3>1, <2>4, <1>6, NodeOrder
      <3> QED BY <3>2, <2>2, <2>3
    <2>6. \A i \in 1 .. Len(yielded') : \A m \in Pending(stack') : yielded'[i].node < m
      BY <2>2, <2>5, <1>10, <1>13, <1>14
    <2>7. NodesIn(yielded') = Append(a, n) /\ a \in Seq(Nodes) /\ Len(a) = l
          /\ \A i \in 1 .. l : a[i] = yielded[i].node
      <3>1. \A x \in FileEntries : x.node \in Nodes BY DEF FileEntries
      <3> QED BY <3>1, <1>2, <1>7, <1>10, NodesInIs
    <2>8. NodesIn(yielded)' = NodesIn(yielded') BY DEF NodesIn
    <2>9. Ascends(Append(a, n))
      <3> HIDE DEF a, l
      <3>1. l \in Nat /\ n \in Nodes BY <1>6, <1>13 DEF l
      <3>2. /\ Len(Append(a, n)) = l + 1 /\ Append(a, n)[l + 1] = n
            /\ \A i \in 1 .. l : Append(a, n)[i] = a[i]
        BY <3>1, <2>7
      <3>3. \A i, j \in 1 .. l + 1 : i < j => i \in 1 .. l /\ (j \in 1 .. l \/ j = l + 1)
        BY <3>1
      <3>4. \A i, j \in 1 .. l : i < j => a[i] < a[j] BY <2>1, <2>7 DEF Ascends
      <3> QED BY <3>2, <3>3, <3>4, <2>3, <2>7 DEF Ascends
    <2> QED BY <2>2, <2>6, <2>7, <2>8, <2>9
  <1>20. Walk(ch2)'
    <2>1. OnDirs(ch2, Returned') BY <1>4, <1>5, <1>6, <1>11, <1>12, DirsNext
    <2>2. Chained(ch2, root) /\ Levels(stack', ch2)
          /\ ch2 = IF Opens(n) THEN Append(SubSeq(ch, 1, top), n) ELSE SubSeq(ch, 1, top)
      BY <1>5 DEF Stepped
    <2>3. current' = NamesAlong(ch2)
      <3>1. CASE Opens(n)
        <4> DEFINE c == SubSeq(ch, 1, top)
        <4>1. Chained(c, root) /\ Len(c) > 0
          <5>1. Len(ch) \in Nat /\ ch \in Seq(Nodes \union {0}) BY <1>4 DEF Chained, Chains
          <5>2. c \in Seq(Nodes \union {0}) /\ Len(c) = top /\ \A k \in 1 .. top : c[k] = ch[k]
            BY <5>1, <1>6
          <5> HIDE DEF c
          <5>3. \A k \in 2 .. top : k \in 1 .. top /\ k - 1 \in 1 .. top /\ k \in 2 .. Len(ch)
                                    /\ k \in 1 .. Len(ch)
            BY <5>1, <1>6
          <5>4. 1 \in 1 .. top /\ Len(ch) > 0 /\ \A k \in 1 .. top : k \in 1 .. Len(ch) BY <5>1, <1>6
          <5> QED BY <5>2, <5>3, <5>4, <1>4 DEF Chained, Chains
        <4> HIDE DEF c
        <4>2. NamesAlong(Append(c, n)) = Append(NamesAlong(c), NameOf[n]) BY <4>1, <1>6, NamesAlongIs
        <4> QED BY <4>2, <3>1, <2>2, <1>2, <1>8 DEF c
      <3>2. CASE ~Opens(n) BY <3>2, <2>2, <1>2, <1>8
      <3> QED BY <3>1, <3>2
    <2> QED BY <2>1, <2>2, <2>3, <1>1, WalkNext
  <1> QED BY <1>15, <1>16, <1>17, <1>18, <1>19, <1>20 DEF IndexInv

LEMMA ScanEndKeeps ==
  ASSUME IndexInv, phase = "scan", LevelsLeft(bad) = {},
         stack' = <<>>, current' = <<>>, UNCHANGED yielded,
         UNCHANGED <<disk, root, variant>>,
         UNCHANGED <<bungeeVars, phase, dirs, unnamed, entered, saved>>
  PROVE  IndexInv'
  <1>1. /\ bad' = bad /\ closed' = closed /\ root' = root /\ variant' = variant
        /\ UNCHANGED bungeeVars /\ phase' = phase /\ dirs' = dirs /\ unnamed' = unnamed
        /\ entered' = entered /\ saved' = saved /\ yielded' = yielded
    BY DEF disk
  <1>2. PICK ch : Walk(ch) BY DEF IndexInv
  <1>3. stack \in Stacks BY <1>2 DEF Walk, Levels
  <1>4. Returned' = Returned BY <1>1, ReturnedNext
  <1>5. saved = <<>> /\ entered = {} BY DEF IndexInv, IndexTypes
  <1>6. IndexTypes'
    <2>1. IndexTypes /\ BungeeInv' BY <1>1, BungeeInvSame DEF IndexInv, IndexTypes
    <2> QED BY <2>1, <1>1 DEF IndexTypes
  <1>7. Given' BY <1>1 DEF IndexInv, Given
  <1>8. SavedKnown' BY <1>1, <1>5 DEF SavedKnown
  <1>9. Covered'
    <2>1. Covers(Returned, Pending(stack), root, bad) BY DEF IndexInv, Covered, Passed
    <2>2. Covers(Returned, Pending(stack'), root, bad) BY <2>1, <1>3, NothingLeft, NoLevels, CoversEnd
    <2> QED BY <2>2, <1>1, <1>4, <1>5, CoveredNext
  <1>10. InOrder'
    <2>1. Pending(stack)' = {} /\ Ordered(stack)'
      <3>1. Pending(stack)' = Pending(stack') /\ (Ordered(stack)' <=> Ordered(stack'))
        BY DEF Pending, Ordered, Ascends
      <3> QED BY <3>1, NoLevels
    <2>2. variant = "Cached" => Ascends(NodesIn(yielded)) BY DEF IndexInv, InOrder
    <2>3. variant = "Cached" => Ascends(NodesIn(yielded))' BY <2>2, <1>1 DEF Ascends, NodesIn
    <2> QED BY <2>1, <2>3, <1>1 DEF InOrder
  <1>11. Walk(<<>>)' BY <1>1, NoLevels, WalkNext
  <1> QED BY <1>6, <1>7, <1>8, <1>9, <1>10, <1>11 DEF IndexInv

(* from_dir and reset_from_dir. *)
LEMMA StartKeeps ==
  ASSUME root' \in Dirs \union {0}, closed' = closed, bad' = bad, unnamed' = unnamed,
         stack' \in StartLevels(root', variant'), current' = <<>>, yielded' = <<>>,
         phase' = "scan", saved' = <<>>, entered' = {}, BungeeInv'
  PROVE  IndexInv'
  <1>1. PICK ch : /\ Chained(ch, root') /\ Levels(stack', ch)
                  /\ Len(ch) = IF root' \in closed THEN 0 ELSE 1
                  /\ Pending(stack') = IF root' \in closed THEN {} ELSE EntriesOf(root')
                  /\ variant' = "Cached" => Ordered(stack')
    BY StartWalks
  <1>2. Returned' = <<>>
    <2>1. <<>> \in Seq(FileEntries) /\ <<>> \in Seq(SavedEntries) OBVIOUS
    <2> QED BY <2>1, ReturnedNext, JoinedGrows
  <1>3. IndexTypes' BY DEF IndexTypes
  <1>4. Given' /\ SavedKnown' BY DEF Given, SavedKnown
  <1>5. Covered'
    <2>1. Covers(<<>>, Pending(stack'), root', bad) BY <1>1, CoversStart
    <2> QED BY <2>1, <1>2, CoveredNext
  <1>6. InOrder'
    <2>1. Ordered(stack)' <=> Ordered(stack') BY DEF Ordered, Ascends
    <2>2. Ascends(NodesIn(yielded))'
      <3>1. NodesIn(<<>>) = <<>> BY DEF NodesIn
      <3>2. NodesIn(yielded)' = <<>> BY <3>1 DEF NodesIn
      <3> QED BY <3>2 DEF Ascends
    <2> QED BY <2>1, <2>2, <1>1 DEF InOrder
  <1>7. Walk(ch)'
    <2>1. Len(ch) \in {0, 1} BY <1>1
    <2>2. OnDirs(ch, Returned') BY <2>1 DEF OnDirs
    <2>3. NamesAlong(ch) = <<>>
      <3>1. 1 .. Len(ch) - 1 = {}
        <4>1. \A l \in {0, 1} : \A i \in 1 .. l - 1 : FALSE OBVIOUS
        <4>2. \A i \in 1 .. Len(ch) - 1 : FALSE BY <4>1, <2>1
        <4> QED BY <4>2
      <3>2. NamesAlong(ch) = [j \in {} |-> NameOf[ch[j + 1]]] BY <3>1 DEF NamesAlong
      <3> QED BY <3>2
    <2> QED BY <2>2, <2>3, <1>1, WalkNext
  <1> QED BY <1>3, <1>4, <1>5, <1>6, <1>7 DEF IndexInv

LEMMA ResetKeeps ==
  ASSUME IndexInv, phase = "scan", NEW d \in Roots, NEW kind, reset_from_dir(d, kind),
         UNCHANGED <<bungeeVars, phase, dirs, unnamed, entered, saved>>
  PROVE  IndexInv'
  <1>1. /\ root' = d /\ variant' = kind /\ stack' \in StartLevels(d, kind)
        /\ current' = <<>> /\ yielded' = <<>> /\ bad' = bad /\ closed' = closed
    BY DEF reset_from_dir, clear, disk
  <1>2. d \in Dirs \union {0} BY TreeAssumption
  <1>3. saved = <<>> /\ entered = {} /\ BungeeInv BY DEF IndexInv, IndexTypes
  <1>4. BungeeInv' BY <1>3, BungeeInvSame
  <1> QED BY <1>1, <1>2, <1>3, <1>4, StartKeeps

LEMMA IndexInvInit == FileIndexInit => IndexInv
  <1> SUFFICES ASSUME FileIndexInit PROVE IndexInv OBVIOUS
  <1>1. /\ root \in Roots /\ stack \in StartLevels(root, variant) /\ current = <<>> /\ yielded = <<>>
        /\ phase = "scan" /\ saved = <<>> /\ entered = {}
    BY DEF FileIndexInit, FileScannerInit
  <1>2. root \in Dirs \union {0} BY <1>1, TreeAssumption
  <1>3. BungeeInv BY BungeeInvInit DEF FileIndexInit
  <1>4. PICK ch : /\ Chained(ch, root) /\ Levels(stack, ch)
                  /\ Len(ch) = IF root \in closed THEN 0 ELSE 1
                  /\ Pending(stack) = IF root \in closed THEN {} ELSE EntriesOf(root)
                  /\ variant = "Cached" => Ordered(stack)
    BY <1>1, <1>2, StartWalks
  <1>5. Returned = <<>> /\ NodesIn(yielded) = <<>>
    <2>1. <<>> \in Seq(FileEntries) /\ <<>> \in Seq(SavedEntries) OBVIOUS
    <2>2. Returned = <<>> BY <2>1, <1>1, ReturnedNext, JoinedGrows
    <2>3. NodesIn(yielded) = <<>> BY <1>1 DEF NodesIn
    <2> QED BY <2>2, <2>3
  <1>6. IndexTypes BY <1>1, <1>2, <1>3 DEF IndexTypes
  <1>7. Given /\ SavedKnown BY <1>1 DEF Given, SavedKnown
  <1>8. Covered BY <1>1, <1>2, <1>4, <1>5, CoversStart DEF Covered
  <1>9. InOrder BY <1>1, <1>4, <1>5 DEF InOrder, Ascends
  <1>10. Walk(ch)
    <2>1. Len(ch) \in {0, 1} BY <1>4
    <2>2. OnDirs(ch, Returned) BY <2>1 DEF OnDirs
    <2>3. NamesAlong(ch) = <<>>
      <3>1. 1 .. Len(ch) - 1 = {}
        <4>1. \A l \in {0, 1} : \A i \in 1 .. l - 1 : FALSE OBVIOUS
        <4>2. \A i \in 1 .. Len(ch) - 1 : FALSE BY <4>1, <2>1
        <4> QED BY <4>2
      <3>2. NamesAlong(ch) = [j \in {} |-> NameOf[ch[j + 1]]] BY <3>1 DEF NamesAlong
      <3> QED BY <3>2
    <2> QED BY <2>2, <2>3, <1>1, <1>4 DEF Walk
  <1> QED BY <1>6, <1>7, <1>8, <1>9, <1>10 DEF IndexInv

LEMMA SaveStartKeeps == IndexInv /\ save_to_bungee => IndexInv'
  <1> SUFFICES ASSUME IndexInv, save_to_bungee PROVE IndexInv' OBVIOUS
  <1>1. /\ phase = "scan" /\ phase' = "save" /\ dirs' = <<>> /\ entered' = OnStack
        /\ UNCHANGED bungeeVars /\ unnamed' = unnamed /\ saved' = saved
        /\ bad' = bad /\ closed' = closed /\ root' = root /\ variant' = variant
        /\ stack' = stack /\ current' = current /\ yielded' = yielded
    BY DEF save_to_bungee, scannerVars, disk
  <1>2. PICK ch : Walk(ch) BY DEF IndexInv
  <1>3. /\ Chained(ch, root) /\ Levels(stack, ch) /\ OnDirs(ch, Returned) /\ current = NamesAlong(ch)
        /\ Len(stack) = Len(ch) /\ Len(ch) \in Nat
    BY <1>1, <1>2 DEF Walk, Levels, Chained, Chains
  <1>4. Returned' = Returned BY <1>1, ReturnedNext
  <1>5. /\ saved = <<>> /\ yielded \in Seq(FileEntries) /\ saved \in Seq(SavedEntries) /\ BungeeInv
        /\ root \in Dirs \union {0}
    BY <1>1 DEF IndexInv, IndexTypes
  <1>6. \A n : On(Returned, n) <=> n \in Range(NodesIn(yielded))
    <2>1. \A n : On(Returned, n) <=> \E i \in 1 .. Len(yielded) : yielded[i].node = n
      BY <1>5, ReturnedIs
    <2>2. DOMAIN yielded = 1 .. Len(yielded) BY <1>5
    <2> QED BY <2>1, <2>2 DEF Range, NodesIn
  <1>7. \A d \in OnStack : d \in Nodes /\ On(Returned, d)
    BY <1>6, TreeAssumption DEF OnStack, NodesIn
  <1>8. ASSUME NEW k \in 2 .. Len(ch) PROVE ch[k] \in OnStack
    <2>1. k \in 1 .. Len(ch) /\ Len(ch) > 0 BY <1>3
    <2>2. ch[k] \in Dirs /\ ch[k] \notin closed /\ On(Returned, ch[k])
      BY <2>1, <1>3 DEF OnDirs, Chained
    <2>3. TruePath(root, ch[k]) = SubSeq(current, 1, k - 1)
      BY <2>1, <1>3, PathOfChain, NamesAlongIs
    <2> QED BY <2>2, <2>3, <1>3, <1>6 DEF OnStack, NodesIn
  <1>9. IndexTypes'
    <2>1. BungeeInv' BY <1>1, <1>5, BungeeInvSame
    <2> QED BY <2>1, <1>1, <1>5 DEF IndexTypes
  <1>10. Given' BY <1>1 DEF IndexInv, Given
  <1>11. SavedKnown' BY <1>1, <1>5 DEF SavedKnown
  <1>12. Covered'
    <2>1. Covers(Returned, Pending(stack), root, bad \union {}) BY <1>1 DEF IndexInv, Covered, Passed
    <2>2. Covers(Returned, Pending(stack), root, (bad \union {}) \union unnamed) BY <2>1, CoversMore
    <2>3. (bad \union {}) \union unnamed = bad \union unnamed OBVIOUS
    <2> QED BY <2>2, <2>3, <1>1, <1>4, <1>7, CoveredNext
  <1>13. InOrder'
    <2>1. variant = "Cached" => Ascends(NodesIn(yielded)) BY DEF IndexInv, InOrder
    <2>2. variant = "Cached" => Ascends(NodesIn(yielded))' BY <2>1, <1>1 DEF Ascends, NodesIn
    <2> QED BY <2>2, <1>1 DEF InOrder
  <1>14. Aligned(ch, Len(ch))'
    <2>1. <<>> \in Seq(Nat) /\ Len(<<>>) = 0 OBVIOUS
    <2>2. Len(ch) \in 0 .. Len(ch) /\ (Len(ch) > 0 => Len(ch) >= 1) /\ Len(ch) - Len(ch) = 0
          /\ Len(ch) + 1 .. Len(ch) = {} /\ 1 .. 0 = {}
      BY <1>3
    <2> QED BY <2>1, <2>2, <1>1, <1>8 DEF Aligned
  <1>15. Walk(ch)' BY <1>1, <1>3, <1>4, <1>14, WalkNext
  <1> QED BY <1>9, <1>10, <1>11, <1>12, <1>13, <1>15 DEF IndexInv

(* Where a name is put behind the indexes that are kept. *)
Kept(ch, top, c, left) ==
    /\ c \in 1 .. top /\ left \in Seq(Nat) /\ Len(left) = top - c
    /\ \A k \in 1 .. top - c : Indexed(left[k], SubSeq(NamesAlong(ch), c, c + k - 1))

LEMMA LeftIsKept ==
  ASSUME NEW ch, NEW r, Chained(ch, r), NEW b, Aligned(ch, b), NEW top \in 1 .. Len(ch),
         NEW c, c = (IF b < top THEN b ELSE top)
  PROVE  Kept(ch, top, c, DropLast(dirs, Len(ch) - top))
  <1> DEFINE left == DropLast(dirs, Len(ch) - top)
             l == Len(dirs)
             m == l - (Len(ch) - top)
  <1>1. /\ b \in 1 .. Len(ch) /\ Len(ch) \in Nat /\ dirs \in Seq(Nat) /\ l = Len(ch) - b
        /\ \A k \in 1 .. l : Indexed(dirs[k], SubSeq(NamesAlong(ch), b, b + k - 1))
    BY DEF Aligned, Chained, Chains
  <1>2. left = SubSeq(dirs, 1, m) BY DEF DropLast
  <1> HIDE DEF l, m, left
  <1>3. m = top - b BY <1>1 DEF m
  <1>4. c \in 1 .. top BY <1>1
  <1>5. left \in Seq(Nat) /\ Len(left) = top - c /\ \A k \in 1 .. top - c : left[k] = dirs[k]
    <2>1. CASE b < top
      <3>1. c = b /\ m \in 1 .. l BY <2>1, <1>1, <1>3
      <3>2. m \in 1 .. Len(dirs) BY <3>1 DEF l
      <3>3. /\ SubSeq(dirs, 1, m) \in Seq(Nat) /\ Len(SubSeq(dirs, 1, m)) = m
            /\ \A k \in 1 .. m : SubSeq(dirs, 1, m)[k] = dirs[k]
        BY SMTT(30), <3>2, <1>1
      <3> QED BY <3>1, <3>3, <1>2, <1>3
    <2>2. CASE ~(b < top)
      <3>1. c = top /\ m \in Int /\ m < 1 BY <2>2, <1>1, <1>3
      <3>2. left = <<>> BY <3>1, <1>1, <1>2
      <3> QED BY <3>1, <3>2
    <2> QED BY <2>1, <2>2
  <1>6. \A k \in 1 .. top - c : c = b /\ k \in 1 .. l BY <1>1
  <1>7. Kept(ch, top, c, left) BY <1>1, <1>4, <1>5, <1>6 DEF Kept
  <1> QED BY <1>7 DEF left

LEMMA LastIsIndexed ==
  ASSUME NEW ch, NEW r, Chained(ch, r), NEW top \in 1 .. Len(ch),
         NEW c, NEW left, Kept(ch, top, c, left)
  PROVE  IndexedOrNone(IF left = <<>> THEN NONE ELSE Last(left), SubSeq(NamesAlong(ch), c, top - 1))
  <1>1. /\ c \in 1 .. top /\ left \in Seq(Nat) /\ Len(left) = top - c /\ top \in Nat /\ Len(ch) \in Nat
        /\ \A k \in 1 .. top - c : Indexed(left[k], SubSeq(NamesAlong(ch), c, c + k - 1))
    BY DEF Kept, Chained, Chains
  <1>2. CASE left = <<>>
    <2>1. c = top BY <1>1, <1>2
    <2>2. NamesAlong(ch) \in Seq(NamesUsed) BY <1>1, NamesAlongIs
    <2>3. SubSeq(NamesAlong(ch), c, top - 1) = <<>>
      <3> DEFINE na == NamesAlong(ch)
      <3>1. na \in Seq(NamesUsed) BY <2>2
      <3> HIDE DEF na
      <3>2. SubSeq(na, top, top - 1) = <<>> BY <3>1, <1>1
      <3> QED BY <3>2, <2>1 DEF na
    <2> QED BY <2>3, <1>2 DEF IndexedOrNone
  <1>3. CASE left # <<>>
    <2>1. Len(left) # 0 BY <1>1, <1>3
    <2>2. top - c \in 1 .. top - c /\ c + (top - c) - 1 = top - 1 BY <2>1, <1>1
    <2>3. Last(left) = left[top - c] BY <1>1 DEF Last
    <2>4. Indexed(left[top - c], SubSeq(NamesAlong(ch), c, c + (top - c) - 1)) BY <2>2, <1>1
    <2> QED BY <2>2, <2>3, <2>4, <1>3 DEF IndexedOrNone
  <1> QED BY <1>2, <1>3

(* The end of a path with one more name. *)
GrownEnd(s, x, t, c) ==
    /\ SubSeq(Append(SubSeq(s, 1, t), x), c, t + 1) = Append(SubSeq(s, c, t), x)
    /\ Len(Append(SubSeq(s, 1, t), x)) = t + 1
    /\ \A j \in Nat : j <= t => /\ SubSeq(Append(SubSeq(s, 1, t), x), c, j) = SubSeq(s, c, j)
                                /\ SubSeq(SubSeq(s, 1, t), c, j) = SubSeq(s, c, j)

LEMMA EndGrows ==
  ASSUME NEW S, NEW s \in Seq(S), NEW x \in S, NEW t \in Nat, t <= Len(s), NEW c \in 1 .. t + 1
  PROVE  GrownEnd(s, x, t, c)
  <1> DEFINE p == SubSeq(s, 1, t)
             q == Append(p, x)
  <1>1. Len(s) \in Nat OBVIOUS
  <1>2. p \in Seq(S) /\ Len(p) = t /\ \A i \in 1 .. t : p[i] = s[i] BY <1>1
  <1> HIDE DEF p
  <1>3. q \in Seq(S) /\ Len(q) = t + 1 /\ q[t + 1] = x /\ \A i \in 1 .. t : q[i] = s[i] BY <1>2
  <1> HIDE DEF q
  <1>4. ASSUME NEW j \in Nat, j <= t PROVE SubSeq(q, c, j) = SubSeq(s, c, j) /\ SubSeq(p, c, j) = SubSeq(s, c, j)
    <2>1. CASE c <= j
      <3>1. \A i \in c .. j : q[i] = s[i] /\ p[i] = s[i] BY <1>2, <1>3, <1>4
      <3> DEFINE F(u) == [i \in 1 .. j - c + 1 |-> u[i + c - 1]]
      <3>2. SubSeq(q, c, j) = F(q) /\ SubSeq(p, c, j) = F(p) /\ SubSeq(s, c, j) = F(s) OBVIOUS
      <3>3. \A i \in 1 .. j - c + 1 : i + c - 1 \in c .. j BY <1>4
      <3>4. F(q) = F(s) /\ F(p) = F(s) BY <3>1, <3>3
      <3> QED BY <3>2, <3>4
    <2>2. CASE ~(c <= j)
      <3>1. SubSeq(q, c, j) = <<>> BY <2>2, <1>3, <1>4
      <3>2. SubSeq(p, c, j) = <<>> BY <2>2, <1>2, <1>4
      <3>3. SubSeq(s, c, j) = <<>> BY <2>2, <1>4
      <3> QED BY <3>1, <3>2, <3>3
    <2> QED BY <2>1, <2>2
  <1>5. SubSeq(q, c, t + 1) = Append(SubSeq(s, c, t), x)
    <2> DEFINE u == SubSeq(s, c, t)
               v == SubSeq(q, c, t + 1)
    <2>1. u \in Seq(S) /\ Len(u) = t - c + 1 /\ \A i \in 1 .. t - c + 1 : u[i] = s[i + c - 1]
      BY <1>1
    <2>2. v \in Seq(S) /\ Len(v) = t - c + 2 /\ \A i \in 1 .. t - c + 2 : v[i] = q[i + c - 1]
      BY <1>3
    <2> HIDE DEF u, v
    <2>3. \A i \in 1 .. t - c + 2 : v[i] = IF i = t - c + 2 THEN x ELSE u[i]
      <3> TAKE i \in 1 .. t - c + 2
      <3>1. CASE i = t - c + 2 
        <4>1. i + c - 1 = t + 1 BY <3>1
        <4> QED BY <4>1, <3>1, <2>2, <1>3
      <3>2. CASE i # t - c + 2
        <4>1. i \in 1 .. t - c + 1 /\ i + c - 1 \in 1 .. t BY <3>2
        <4> QED BY <4>1, <3>2, <2>1, <2>2, <1>3
      <3> QED BY <3>1, <3>2
    <2>4. /\ Append(u, x) \in Seq(S) /\ Len(Append(u, x)) = t - c + 2
          /\ \A i \in 1 .. t - c + 2 : Append(u, x)[i] = IF i = t - c + 2 THEN x ELSE u[i]
      BY <2>1
    <2> DEFINE w == Append(u, x)
    <2> HIDE DEF w
    <2>5. v = w BY <2>2, <2>3, <2>4 DEF w
    <2> QED BY <2>5 DEF u, v, w
  <1> QED BY <1>3, <1>4, <1>5 DEF p, q, GrownEnd

LEMMA IndexedAs ==
  ASSUME NEW i, NEW q, Indexed(i, q)', NEW k, dirs'[k] = i
  PROVE  Indexed(dirs[k], q)'
  BY DEF Indexed

(* The indexes after a step: those of the directories that are left, and that *)
(* of the entry if it is entered.                                             *)
LEMMA AlignedNext ==
  ASSUME NEW ch, Chained(ch, root), NEW b, Aligned(ch, b),
         NEW skip, NEW nx, NEW top, NEW ch2, NEW st2, Stepped(skip, nx, ch, top, ch2, st2),
         Len(stack) = Len(ch), NEW c, c = (IF b < top THEN b ELSE top),
         NEW left, Kept(ch, top, c, left), NEW value \in Nat,
         dirs' = IF Opens(nx.node) THEN Append(left, value) ELSE left,
         nx.node \notin entered, entered' = entered,
         \A i, q : Indexed(i, q) => Indexed(i, q)',
         Indexed(value, Append(SubSeq(NamesAlong(ch), c, top - 1), NameOf[nx.node]))'
  PROVE  Aligned(ch2, c)'
  <1> DEFINE n == nx.node
             na == NamesAlong(ch)
             p == SubSeq(ch, 1, top)
             l == Len(ch)
  <1>1. /\ top \in 1 .. l /\ n \in Nodes /\ l \in Nat /\ ch \in Seq(Nodes \union {0})
        /\ ch2 = IF Opens(n) THEN Append(p, n) ELSE p
    BY DEF Stepped, Chained, Chains
  <1>2. /\ b \in 1 .. l /\ \A k \in 2 .. b : ch[k] \in entered
        /\ \A k \in b + 1 .. l : ch[k] \notin entered
    BY <1>1 DEF Aligned
  <1>3. /\ c \in 1 .. top /\ left \in Seq(Nat) /\ Len(left) = top - c
        /\ \A k \in 1 .. top - c : Indexed(left[k], SubSeq(na, c, c + k - 1))
    BY DEF Kept
  <1>4. na \in Seq(NamesUsed) /\ Len(na) = l - 1 /\ NamesAlong(p) = SubSeq(na, 1, top - 1)
    BY <1>1, NamesAlongIs
  <1>5. p \in Seq(Nodes \union {0}) /\ Len(p) = top /\ \A k \in 1 .. top : p[k] = ch[k] BY <1>1
  <1>6. NameOf[n] \in NamesUsed BY <1>1 DEF NamesUsed
  <1>7. NamesAlong(Append(p, n)) = Append(NamesAlong(p), NameOf[n])
    <2>1. Chained(p, root)
      <3>1. \A k \in 2 .. top : k \in 1 .. top /\ k - 1 \in 1 .. top /\ k \in 2 .. l /\ k \in 1 .. l
        BY <1>1
      <3>2. 1 \in 1 .. top /\ l > 0 /\ \A k \in 1 .. top : k \in 1 .. l BY <1>1
      <3> HIDE DEF p, l
      <3> QED BY <3>1, <3>2, <1>5 DEF Chained, Chains, l
    <2>2. Len(p) > 0 BY <1>1, <1>5
    <2> QED BY <2>1, <2>2, <1>1, NamesAlongIs
  <1> HIDE DEF na, p
  <1>8. /\ SubSeq(NamesAlong(Append(p, n)), c, top) = Append(SubSeq(na, c, top - 1), NameOf[n])
        /\ \A k \in 1 .. top - c :
              /\ SubSeq(NamesAlong(Append(p, n)), c, c + k - 1) = SubSeq(na, c, c + k - 1)
              /\ SubSeq(NamesAlong(p), c, c + k - 1) = SubSeq(na, c, c + k - 1)
    <2> DEFINE t == top - 1
    <2>1. t \in Nat /\ t <= Len(na) /\ c \in 1 .. t + 1 /\ t + 1 = top BY <1>1, <1>3, <1>4
    <2>2. \A k \in 1 .. top - c : c + k - 1 \in Nat /\ c + k - 1 <= t BY <1>1, <1>3
    <2> HIDE DEF t
    <2>3. NamesAlong(p) = SubSeq(na, 1, t) BY <1>4 DEF t
    <2>4. /\ SubSeq(Append(SubSeq(na, 1, t), NameOf[n]), c, t + 1) = Append(SubSeq(na, c, t), NameOf[n])
          /\ \A j \in Nat : j <= t =>
                /\ SubSeq(Append(SubSeq(na, 1, t), NameOf[n]), c, j) = SubSeq(na, c, j)
                /\ SubSeq(SubSeq(na, 1, t), c, j) = SubSeq(na, c, j)
      <3>1. GrownEnd(na, NameOf[n], t, c) BY <2>1, <1>4, <1>6, EndGrows
      <3> QED BY <3>1 DEF GrownEnd
    <2>5. NamesAlong(Append(p, n)) = Append(SubSeq(na, 1, t), NameOf[n]) BY <2>3, <1>7
    <2>6. SubSeq(NamesAlong(Append(p, n)), c, top) = Append(SubSeq(na, c, top - 1), NameOf[n])
      BY <2>1, <2>4, <2>5 DEF t
    <2>7. ASSUME NEW k \in 1 .. top - c
          PROVE  /\ SubSeq(NamesAlong(Append(p, n)), c, c + k - 1) = SubSeq(na, c, c + k - 1)
                 /\ SubSeq(NamesAlong(p), c, c + k - 1) = SubSeq(na, c, c + k - 1)
      <3> DEFINE j == c + k - 1
      <3>1. j \in Nat /\ j <= t BY <2>2
      <3> HIDE DEF j
      <3>2. /\ SubSeq(NamesAlong(Append(p, n)), c, j) = SubSeq(na, c, j)
            /\ SubSeq(NamesAlong(p), c, j) = SubSeq(na, c, j)
        BY <3>1, <2>3, <2>4, <2>5
      <3> QED BY <3>2 DEF j
    <2> QED BY <2>6, <2>7
  <1>9. \A k \in 2 .. c : ch[k] \in entered
    <2>1. \A k \in 2 .. c : k \in 2 .. b BY <1>1, <1>2
    <2> QED BY <2>1, <1>2
  <1>10. \A k \in c + 1 .. top : ch[k] \notin entered
    <2>1. \A k \in c + 1 .. top : k \in b + 1 .. l BY <1>1, <1>2
    <2> QED BY <2>1, <1>2
  <1>11. (\A k \in 2 .. c : k \in 1 .. top) /\ \A k \in c + 1 .. top : k \in 1 .. top BY <1>1, <1>3
  <1>12. CASE Opens(n)
    <2>1. ch2 = Append(p, n) /\ dirs' = Append(left, value) BY <1>1, <1>12
    <2>2. Len(ch2) = top + 1 /\ ch2[top + 1] = n /\ \A k \in 1 .. top : ch2[k] = ch[k]
      <3>1. n \in Nodes \union {0} BY <1>1
      <3> QED BY <3>1, <2>1, <1>5, <1>1
    <2>3. /\ dirs' \in Seq(Nat) /\ Len(dirs') = top - c + 1 /\ dirs'[top - c + 1] = value
          /\ \A k \in 1 .. top - c : dirs'[k] = left[k]
      <3>1. Append(left, value) \in Seq(Nat) /\ Len(Append(left, value)) = Len(left) + 1
            /\ Append(left, value)[Len(left) + 1] = value
            /\ \A k \in 1 .. Len(left) : Append(left, value)[k] = left[k]
        BY <1>3
      <3> QED BY <3>1, <2>1, <1>3
    <2>4. \A k \in c + 1 .. top + 1 : k = top + 1 \/ k \in c + 1 .. top BY <1>1, <1>3
    <2>5. \A k \in 1 .. top - c + 1 : Indexed(dirs[k], SubSeq(NamesAlong(ch2), c, c + k - 1))'
      <3> TAKE k \in 1 .. top - c + 1
      <3>1. CASE k = top - c + 1
        <4>1. c + k - 1 = top BY <3>1, <1>1, <1>3
        <4>2. SubSeq(NamesAlong(ch2), c, c + k - 1) = Append(SubSeq(na, c, top - 1), NameOf[n])
          BY <4>1, <2>1, <1>8
        <4>3. Indexed(value, SubSeq(NamesAlong(ch2), c, c + k - 1))' BY <4>2 DEF na
        <4>4. dirs'[k] = value BY <3>1, <2>3
        <4> QED BY <4>3, <4>4, IndexedAs
      <3>2. CASE k # top - c + 1
        <4>1. k \in 1 .. top - c BY <3>2, <1>1, <1>3
        <4>2. Indexed(left[k], SubSeq(NamesAlong(ch2), c, c + k - 1)) BY <4>1, <2>1, <1>3, <1>8
        <4>3. Indexed(left[k], SubSeq(NamesAlong(ch2), c, c + k - 1))' BY <4>2
        <4>4. dirs'[k] = left[k] BY <4>1, <2>3
        <4> QED BY <4>3, <4>4, IndexedAs
      <3> QED BY <3>1, <3>2
    <2>6. \A k \in 2 .. c : ch2[k] \in entered BY <2>2, <1>9, <1>11
    <2>7. \A k \in c + 1 .. Len(ch2) : ch2[k] \notin entered BY <2>2, <2>4, <1>10, <1>11
    <2>8. c \in 0 .. Len(ch2) /\ c >= 1 /\ Len(ch2) - c = top - c + 1 BY <2>2, <1>1, <1>3
    <2> QED BY <2>3, <2>5, <2>6, <2>7, <2>8 DEF Aligned
  <1>13. CASE ~Opens(n)
    <2>1. ch2 = p /\ dirs' = left BY <1>1, <1>13
    <2>2. Len(ch2) = top /\ \A k \in 1 .. top : ch2[k] = ch[k] BY <2>1, <1>5
    <2>3. \A k \in 1 .. top - c : Indexed(dirs[k], SubSeq(NamesAlong(ch2), c, c + k - 1))'
      <3> TAKE k \in 1 .. top - c
      <3>1. Indexed(left[k], SubSeq(NamesAlong(ch2), c, c + k - 1)) BY <2>1, <1>3, <1>8
      <3>2. Indexed(left[k], SubSeq(NamesAlong(ch2), c, c + k - 1))' BY <3>1
      <3>3. dirs'[k] = left[k] BY <2>1
      <3> QED BY <3>2, <3>3, IndexedAs
    <2>4. \A k \in 2 .. c : ch2[k] \in entered BY <2>2, <1>9, <1>11
    <2>5. \A k \in c + 1 .. Len(ch2) : ch2[k] \notin entered BY <2>2, <1>10, <1>11
    <2>6. c \in 0 .. Len(ch2) /\ c >= 1 /\ Len(ch2) - c = top - c BY <2>2, <1>1, <1>3
    <2> QED BY <2>1, <2>3, <2>4, <2>5, <2>6, <1>3 DEF Aligned
  <1> QED BY <1>12, <1>13

(* The entry's index leads to its path below the directories entered before.  *)
LEMMA KnownNext ==
  ASSUME NEW ch, Chained(ch, root), NEW b, Aligned(ch, b), NEW top \in 1 .. Len(ch),
         NEW n \in Nodes, Parent[n] = ch[top], n \notin entered,
         entered \in SUBSET Nodes, \A d \in entered : root < d,
         NEW c, c = (IF b < top THEN b ELSE top),
         NEW value, Indexed(value, Append(SubSeq(NamesAlong(ch), c, top - 1), NameOf[n]))',
         root' = root, entered' = entered
  PROVE  Indexed(value, SubSeq(TruePath(root, n), Cardinality(InEntered(n)) + 1,
                               Len(TruePath(root, n))))'
  <1> DEFINE na == NamesAlong(ch)
             t == top - 1
  <1>1. /\ b \in 1 .. Len(ch) /\ \A k \in 2 .. b : ch[k] \in entered
        /\ \A k \in b + 1 .. Len(ch) : ch[k] \notin entered
    BY DEF Aligned, Chained, Chains
  <1>2. Len(ch) \in Nat /\ c \in 1 .. top BY <1>1 DEF Chained, Chains
  <1>3. Cardinality({d \in entered : n # d /\ Under(d, n)}) = c - 1 BY <1>1, CountedAbove
  <1>4. na \in Seq(NamesUsed) /\ Len(na) = Len(ch) - 1 /\ NamesAlong(SubSeq(ch, 1, top)) = SubSeq(na, 1, t)
    BY <1>2, NamesAlongIs
  <1>5. TruePath(root, n) = Append(SubSeq(na, 1, t), NameOf[n])
    <2>1. TruePath(root, n) = Append(NamesAlong(SubSeq(ch, 1, top)), NameOf[n]) BY PathThere
    <2> QED BY <2>1, <1>4
  <1>6. t \in Nat /\ t <= Len(na) /\ c \in 1 .. t + 1 /\ t + 1 = top BY <1>2, <1>4
  <1>7. NameOf[n] \in NamesUsed BY DEF NamesUsed
  <1> HIDE DEF na, t
  <1>8. GrownEnd(na, NameOf[n], t, c) BY <1>4, <1>6, <1>7, EndGrows
  <1>9. /\ Len(TruePath(root, n)) = t + 1
        /\ SubSeq(TruePath(root, n), c, t + 1) = Append(SubSeq(na, c, t), NameOf[n])
    BY <1>5, <1>8 DEF GrownEnd
  <1>10. Cardinality(InEntered(n)) + 1 = c
    <2>1. Cardinality(InEntered(n)) = c - 1 BY <1>3 DEF InEntered
    <2> QED BY <2>1, <1>2
  <1>11. SubSeq(TruePath(root, n), Cardinality(InEntered(n)) + 1, Len(TruePath(root, n)))
            = Append(SubSeq(NamesAlong(ch), c, top - 1), NameOf[n])
    BY <1>9, <1>10 DEF na, t
  <1>12. SubSeq(TruePath(root, n), Cardinality(InEntered(n)) + 1, Len(TruePath(root, n)))'
            = Append(SubSeq(NamesAlong(ch), c, top - 1), NameOf[n])
    BY <1>11 DEF InEntered
  <1> QED BY <1>12 DEF Indexed

LEMMA SaveKeeps ==
  ASSUME IndexInv, phase = "save", LevelsLeft(bad \union unnamed) # {}, Save,
         UNCHANGED <<disk, root, variant, current, yielded, phase, unnamed, entered>>
  PROVE  IndexInv'
  <1> DEFINE skip == bad \union unnamed
  <1>1. PICK nx : nx = Advance(skip) OBVIOUS
  <1> DEFINE n == nx.node
  <1>2. PICK left : left = DropLast(dirs, nx.left) OBVIOUS
  <1>3. PICK prev : prev = IF left = <<>> THEN NONE ELSE Last(left) OBVIOUS
  <1>4. PICK value : value = PushBytes(data, prev, NameOf[n]).index OBVIOUS
  <1>5. /\ push(prev, NameOf[n])
        /\ saved' = Append(saved, [node |-> n, index |-> value])
        /\ dirs' = IF Opens(n) THEN Append(left, value) ELSE left
        /\ stack' \in Enter(n, nx.below)
    BY <1>1, <1>2, <1>3, <1>4 DEF Save
  <1>6. /\ bad' = bad /\ closed' = closed /\ root' = root /\ variant' = variant
        /\ current' = current /\ yielded' = yielded /\ phase' = phase /\ unnamed' = unnamed
        /\ entered' = entered
    BY DEF disk
  <1>7. PICK ch : Walk(ch) BY DEF IndexInv
  <1>8. PICK b : Aligned(ch, b) BY <1>7 DEF Walk
  <1>9. /\ Chained(ch, root) /\ Levels(stack, ch) /\ OnDirs(ch, Returned)
        /\ Len(stack) = Len(ch) /\ Len(ch) \in Nat
    BY <1>7 DEF Walk, Levels, Chained, Chains
  <1>10. PICK top, ch2 : Stepped(skip, nx, ch, top, ch2, stack') BY <1>1, <1>5, <1>9, StepWalks
  <1>11. /\ top \in 1 .. Len(ch) /\ n \in Nodes \ skip /\ Parent[n] = ch[top]
         /\ nx.left = Len(ch) - top /\ n \in Pending(stack)
    BY <1>9, <1>10 DEF Stepped
  <1>12. PICK c : c = IF b < top THEN b ELSE top OBVIOUS
  <1>13. Kept(ch, top, c, left) BY <1>2, <1>8, <1>9, <1>11, <1>12, LeftIsKept
  <1>14. IndexedOrNone(prev, SubSeq(NamesAlong(ch), c, top - 1))
    BY <1>3, <1>9, <1>11, <1>13, LastIsIndexed
  <1>15. NameOf[n] \in Names \ {<<>>} BY <1>11, IndexAssumption
  <1>16. /\ yielded \in Seq(FileEntries) /\ saved \in Seq(SavedEntries) /\ BungeeInv
         /\ root \in Dirs \union {0}
    BY DEF IndexInv, IndexTypes
  <1>17. /\ BungeeInv' /\ value \in Nat
         /\ Indexed(value, Append(SubSeq(NamesAlong(ch), c, top - 1), NameOf[n]))'
         /\ \A i, q : Indexed(i, q) => Indexed(i, q)'
    BY <1>4, <1>5, <1>14, <1>15, <1>16, IndexedPush
  <1>18. Covers(Returned, Pending(stack), root, skip) /\ \A d \in entered : d \in Nodes /\ On(Returned, d)
    BY DEF IndexInv, Covered, Passed
  <1>19. n \notin entered /\ entered \in SUBSET Nodes /\ \A d \in entered : root < d
    BY <1>11, <1>18 DEF Covers
  <1> DEFINE e == [node |-> n, index |-> value]
  <1>20. e \in SavedEntries /\ e.node = n /\ e.index = value BY <1>11, <1>17 DEF SavedEntries
  <1> HIDE DEF e
  <1>21. saved' = Append(saved, e) BY <1>5 DEF e
  <1>22. Returned' = Append(Returned, n) BY <1>6, <1>16, <1>20, <1>21, JoinedGrows, ReturnedNext
  <1>23. Returned \in Seq(Nodes) BY <1>16, ReturnedIs
  <1>24. /\ Len(saved) \in Nat /\ Len(saved') = Len(saved) + 1 /\ saved' \in Seq(SavedEntries)
         /\ saved'[Len(saved) + 1] = e /\ \A i \in 1 .. Len(saved) : saved'[i] = saved[i]
    BY <1>16, <1>20, <1>21
  <1>25. IndexTypes' BY <1>6, <1>16, <1>17, <1>24 DEF IndexTypes
  <1>26. Given' BY <1>6 DEF IndexInv, Given
  <1>27. SavedKnown'
    <2>1. \A i \in 1 .. Len(saved) : Known(saved[i]) /\ saved[i].node \notin skip
      BY DEF IndexInv, SavedKnown
    <2>2. \A x : Known(x) => Known(x)' BY <1>6, <1>17, KnownKept
    <2>3. Indexed(value, SubSeq(TruePath(root, n), Cardinality(InEntered(n)) + 1,
                                Len(TruePath(root, n))))'
      BY <1>6, <1>8, <1>9, <1>11, <1>12, <1>17, <1>19, KnownNext
    <2>4. ASSUME NEW i \in 1 .. Len(saved') PROVE Known(saved[i])' /\ saved'[i].node \notin skip
      <3>1. CASE i = Len(saved) + 1
        <4>1. saved'[i] = e BY <3>1, <1>24
        <4>2. saved'[i].node = n /\ saved'[i].index = value BY <4>1, <1>20
        <4>3. Known(saved[i])' BY <4>2, <2>3 DEF Known, Indexed, InEntered
        <4> QED BY <4>2, <4>3, <1>11
      <3>2. CASE i # Len(saved) + 1
        <4>1. i \in 1 .. Len(saved) BY <3>2, <1>24
        <4>2. PICK x : x = saved[i] OBVIOUS
        <4>3. Known(x)' /\ x.node \notin skip BY <4>1, <4>2, <2>1, <2>2
        <4>4. saved'[i] = x BY <4>1, <4>2, <1>24
        <4>5. Known(saved[i])' BY <4>3, <4>4 DEF Known, Indexed, InEntered
        <4> QED BY <4>3, <4>4, <4>5
      <3> QED BY <3>1, <3>2
    <2> QED BY <2>4, <1>6 DEF SavedKnown
  <1>28. Covered'
    <2>1. root \in Nat BY <1>16, TreeAssumption
    <2>2. Covers(Append(Returned, n), Pending(stack'), root, skip)
      BY <2>1, <1>10, <1>18, CoversStep DEF Stepped
    <2>3. \A d \in entered' : d \in Nodes /\ On(Returned', d)
      BY <1>6, <1>11, <1>18, <1>22, <1>23, OnGrows
    <2> QED BY <2>2, <2>3, <1>6, <1>22, CoveredNext
  <1>29. InOrder'
    <2>1. variant = "Cached" => Ascends(NodesIn(yielded)) BY DEF IndexInv, InOrder
    <2>2. variant = "Cached" => Ascends(NodesIn(yielded))' BY <2>1, <1>6 DEF Ascends, NodesIn
    <2> QED BY <2>2, <1>6 DEF InOrder
  <1>30. Aligned(ch2, c)'
    BY <1>5, <1>6, <1>8, <1>9, <1>10, <1>12, <1>13, <1>17, <1>19, AlignedNext
  <1>31. Walk(ch2)'
    <2>1. OnDirs(ch2, Returned') BY <1>9, <1>10, <1>11, <1>22, <1>23, DirsNext
    <2>2. Chained(ch2, root) /\ Levels(stack', ch2) BY <1>10 DEF Stepped
    <2> QED BY <2>1, <2>2, <1>6, <1>30, WalkNext
  <1> QED BY <1>25, <1>26, <1>27, <1>28, <1>29, <1>31 DEF IndexInv

LEMMA SaveEndKeeps ==
  ASSUME IndexInv, phase = "save", LevelsLeft(bad \union unnamed) = {},
         stack' = <<>>, dirs' = <<>>, UNCHANGED <<bungeeVars, saved>>,
         UNCHANGED <<disk, root, variant, current, yielded, phase, unnamed, entered>>
  PROVE  IndexInv'
  <1>1. /\ bad' = bad /\ closed' = closed /\ root' = root /\ variant' = variant
        /\ current' = current /\ yielded' = yielded /\ phase' = phase /\ unnamed' = unnamed
        /\ entered' = entered /\ saved' = saved /\ UNCHANGED bungeeVars
    BY DEF disk
  <1>2. PICK ch : Walk(ch) BY DEF IndexInv
  <1>3. stack \in Stacks BY <1>2 DEF Walk, Levels
  <1>4. Returned' = Returned BY <1>1, ReturnedNext
  <1>5. IndexTypes'
    <2>1. IndexTypes /\ BungeeInv' BY <1>1, BungeeInvSame DEF IndexInv, IndexTypes
    <2> QED BY <2>1, <1>1 DEF IndexTypes
  <1>6. Given' BY <1>1 DEF IndexInv, Given
  <1>7. SavedKnown'
    <2>1. \A i, q : Indexed(i, q) => Indexed(i, q)' BY <1>1, IndexedSame
    <2>2. \A x : Known(x) => Known(x)' BY <2>1, <1>1, KnownKept
    <2>3. \A i \in 1 .. Len(saved) : Known(saved[i]) /\ saved[i].node \notin bad \union unnamed
      BY DEF IndexInv, SavedKnown
    <2>4. ASSUME NEW i \in 1 .. Len(saved) PROVE Known(saved[i])'
      <3>1. PICK x : x = saved[i] OBVIOUS
      <3>2. Known(x)' BY <3>1, <2>2, <2>3
      <3>3. saved'[i] = x BY <3>1, <1>1
      <3> QED BY <3>2, <3>3 DEF Known, Indexed, InEntered
    <2> QED BY <2>3, <2>4, <1>1 DEF SavedKnown
  <1>8. Covered'
    <2>1. Covers(Returned, Pending(stack), root, bad \union unnamed)
          /\ \A d \in entered : d \in Nodes /\ On(Returned, d)
      BY DEF IndexInv, Covered, Passed
    <2>2. Covers(Returned, Pending(stack'), root, bad \union unnamed)
      <3>1. Pending(stack) \subseteq bad \union unnamed BY <1>3, NothingLeft
      <3>2. Covers(Returned, {}, root, bad \union unnamed) BY <3>1, <2>1, CoversEnd
      <3>3. Pending(stack') = {} BY NoLevels
      <3> QED BY <3>2, <3>3
    <2> QED BY <2>1, <2>2, <1>1, <1>4, CoveredNext
  <1>9. InOrder'
    <2>1. variant = "Cached" => Ascends(NodesIn(yielded)) BY DEF IndexInv, InOrder
    <2>2. variant = "Cached" => Ascends(NodesIn(yielded))' BY <2>1, <1>1 DEF Ascends, NodesIn
    <2> QED BY <2>2, <1>1 DEF InOrder
  <1>10. Aligned(<<>>, 0)'
    <2>1. <<>> \in Seq(Nat) /\ Len(<<>>) = 0 /\ 0 \in 0 .. 0 /\ 0 - 0 = 0 OBVIOUS
    <2>2. 2 .. 0 = {} /\ 0 + 1 .. 0 = {} /\ 1 .. 0 = {} OBVIOUS
    <2> QED BY <2>1, <2>2 DEF Aligned
  <1>11. Walk(<<>>)' BY <1>1, <1>10, NoLevels, WalkNext
  <1> QED BY <1>5, <1>6, <1>7, <1>8, <1>9, <1>11 DEF IndexInv

LEMMA IndexInvSame == IndexInv /\ UNCHANGED indexVars => IndexInv'
  <1> SUFFICES ASSUME IndexInv, UNCHANGED indexVars PROVE IndexInv' OBVIOUS
  <1>1. /\ bad' = bad /\ closed' = closed /\ root' = root /\ variant' = variant /\ stack' = stack
        /\ current' = current /\ yielded' = yielded /\ phase' = phase /\ unnamed' = unnamed
        /\ entered' = entered /\ saved' = saved /\ dirs' = dirs /\ UNCHANGED bungeeVars
    BY DEF indexVars, scannerVars, disk
  <1>2. PICK ch : Walk(ch) BY DEF IndexInv
  <1>3. Returned' = Returned BY <1>1, ReturnedNext
  <1>4. IndexTypes'
    <2>1. IndexTypes /\ BungeeInv' BY <1>1, BungeeInvSame DEF IndexInv, IndexTypes
    <2> QED BY <2>1, <1>1 DEF IndexTypes
  <1>5. Given' BY <1>1 DEF IndexInv, Given
  <1>6. SavedKnown'
    <2>1. \A i, q : Indexed(i, q) => Indexed(i, q)' BY <1>1, IndexedSame
    <2>2. \A x : Known(x) => Known(x)' BY <2>1, <1>1, KnownKept
    <2>3. \A i \in 1 .. Len(saved) : Known(saved[i]) /\ saved[i].node \notin bad \union unnamed
      BY DEF IndexInv, SavedKnown
    <2>4. ASSUME NEW i \in 1 .. Len(saved) PROVE Known(saved[i])'
      <3>1. PICK x : x = saved[i] OBVIOUS
      <3>2. Known(x)' BY <3>1, <2>2, <2>3
      <3>3. saved'[i] = x BY <3>1, <1>1
      <3> QED BY <3>2, <3>3 DEF Known, Indexed, InEntered
    <2> QED BY <2>3, <2>4, <1>1 DEF SavedKnown
  <1>7. Covered'
    <2>1. Covers(Returned, Pending(stack), root, bad \union (IF phase = "save" THEN unnamed ELSE {}))
          /\ \A d \in entered : d \in Nodes /\ On(Returned, d)
      BY DEF IndexInv, Covered, Passed
    <2> QED BY <2>1, <1>1, <1>3, CoveredNext
  <1>8. InOrder' BY <1>1 DEF IndexInv, InOrder, Ascends, NodesIn, Ordered, Pending
  <1>9. Walk(ch)'
    <2>1. /\ Chained(ch, root) /\ Levels(stack, ch) /\ OnDirs(ch, Returned)
          /\ phase = "scan" => current = NamesAlong(ch)
          /\ phase = "save" => \E b : Aligned(ch, b)
      BY <1>2 DEF Walk
    <2>2. ASSUME NEW b, Aligned(ch, b) PROVE Aligned(ch, b)'
      BY <2>2, <1>1 DEF Aligned, Indexed, NamesAlong, bungeeVars
    <2> QED BY <2>1, <2>2, <1>1, <1>3, WalkNext
  <1> QED BY <1>4, <1>5, <1>6, <1>7, <1>8, <1>9 DEF IndexInv

LEMMA IndexInvStep == IndexInv /\ [FileIndexNext]_indexVars => IndexInv'
  <1> SUFFICES ASSUME IndexInv, [FileIndexNext]_indexVars PROVE IndexInv' OBVIOUS
  <1>1. CASE Scan
    <2>1. phase = "scan" /\ FileScannerNext
          /\ UNCHANGED <<bungeeVars, phase, dirs, unnamed, entered, saved>>
      BY <1>1 DEF Scan
    <2>2. CASE next_file
      <3>1. UNCHANGED <<disk, root, variant>> BY <2>2 DEF next_file
      <3>2. CASE LevelsLeft(bad) = {} /\ stack' = <<>> /\ current' = <<>> /\ UNCHANGED yielded
        BY <3>1, <3>2, <2>1, ScanEndKeeps
      <3>3. CASE LevelsLeft(bad) # {} /\ Return BY <3>1, <3>3, <2>1, ScanReturnKeeps
      <3> QED BY <3>2, <3>3, <2>2 DEF next_file
    <2>3. CASE \E d \in Roots, kind \in {"Fresh", "Cached"} : reset_from_dir(d, kind)
      BY <2>3, <2>1, ResetKeeps
    <2> QED BY <2>1, <2>2, <2>3 DEF FileScannerNext
  <1>2. CASE save_to_bungee BY <1>2, SaveStartKeeps
  <1>3. CASE NextSaved
    <2>1. phase = "save" /\ UNCHANGED <<disk, root, variant, current, yielded, phase, unnamed, entered>>
      BY <1>3 DEF NextSaved
    <2>2. CASE /\ LevelsLeft(bad \union unnamed) = {} /\ stack' = <<>> /\ dirs' = <<>>
               /\ UNCHANGED <<bungeeVars, saved>>
      BY <2>1, <2>2, SaveEndKeeps
    <2>3. CASE LevelsLeft(bad \union unnamed) # {} /\ Save BY <2>1, <2>3, SaveKeeps
    <2> QED BY <2>2, <2>3, <1>3 DEF NextSaved
  <1>4. CASE UNCHANGED indexVars BY <1>4, IndexInvSame
  <1> QED BY <1>1, <1>2, <1>3, <1>4 DEF FileIndexNext

--------------------------------------------------------------------------------
(* Every entry is returned with the names that lead to it from the root of    *)
(* the scan, whatever was skipped, entered or left before, and after resets   *)
(* (FileEntry::path_without_root).                                           *)
THEOREM EntriesHaveTruePaths == FileIndexSpec => []PathsTrue
  <1>1. FileIndexInit => IndexInv BY IndexInvInit
  <1>2. IndexInv /\ [FileIndexNext]_indexVars => IndexInv' BY IndexInvStep
  <1>3. IndexInv => PathsTrue BY InvPathsTrue
  <1> QED BY <1>1, <1>2, <1>3, PTL DEF FileIndexSpec

(* A scan that sorts the directories it enters returns its entries in the     *)
(* order of their paths (SortType::Ascending).                               *)
THEOREM SortedScansAscend == FileIndexSpec => []SortedWhenCached
  <1>1. FileIndexInit => IndexInv BY IndexInvInit
  <1>2. IndexInv /\ [FileIndexNext]_indexVars => IndexInv' BY IndexInvStep
  <1>3. IndexInv => SortedWhenCached BY InvSorted
  <1> QED BY <1>1, <1>2, <1>3, PTL DEF FileIndexSpec

(* When the walk is over, each entry that can be read in a directory that     *)
(* could be opened has been returned, and only once, by next_file or by       *)
(* SaveToBungee::next.                                                       *)
THEOREM ScansAreComplete == FileIndexSpec => []ScanComplete
  <1>1. FileIndexInit => IndexInv BY IndexInvInit
  <1>2. IndexInv /\ [FileIndexNext]_indexVars => IndexInv' BY IndexInvStep
  <1>3. IndexInv => ScanComplete BY InvComplete
  <1> QED BY <1>1, <1>2, <1>3, PTL DEF FileIndexSpec

(* The index that SaveToBungee::next yields for an entry leads, in the buffer *)
(* of snapshot_files' VarInt numbers, to the entry's own path, up to the      *)
(* directories entered before save_to_bungee, and keeps doing so.             *)
THEOREM SavedIndexesLeadToPaths == FileIndexSpec => [](encoding = "VarInt" => SavedPaths)
  <1>1. FileIndexInit => IndexInv BY IndexInvInit
  <1>2. IndexInv /\ [FileIndexNext]_indexVars => IndexInv' BY IndexInvStep
  <1>3. IndexInv => (encoding = "VarInt" => SavedPaths) BY InvSavedPaths
  <1> QED BY <1>1, <1>2, <1>3, PTL DEF FileIndexSpec
================================================================================
