--------------------------------- MODULE Bungee ---------------------------------
(***************************************************************************)
(* BungeeStr (utils/bungee.rs): strings that refer to a previous one, kept   *)
(* back to back in one growing buffer.  A record is                          *)
(*                                                                          *)
(*     offset back to the previous string's end | bytes | number of bytes   *)
(*                                                                          *)
(* and is known by the position of its END, so it is read backwards.  The   *)
(* two numbers are OffsetInts of one kind, which the type of the buffer says: *)
(*   VarInt    digits of base Radix, least significant first, with the top   *)
(*             bit set on the first and the last byte when there are several, *)
(*             so that the same bytes can be read from either side;          *)
(*   FixedInt  always FixedBytes bytes, of which a larger number keeps the    *)
(*             low ones.                                                     *)
(*                                                                          *)
(* The program's file index is one such buffer: the parts of each path are   *)
(* pushed on the part before (FileIndex.tla).                               *)
(***************************************************************************)
EXTENDS Integers, Sequences, SequencesExt, FiniteSetsExt

CONSTANTS
    Radix,      \* values of a byte without its top bit (128)
    FixedBytes, \* bytes of a FixedInt (1 for u8)
    Encodings,  \* kinds of numbers: "VarInt", "FixedInt"
    Names,      \* strings that are pushed, as sequences of bytes
    MaxRecords  \* pushes that grow the buffer (bounds the run)

ASSUME RadixAssumption == /\ Radix \in Nat \ {0, 1}
                          /\ FixedBytes \in Nat \ {0}
                          /\ Encodings \subseteq {"VarInt", "FixedInt"}

ByteValues == 2 * Radix
Bytes == 0 .. ByteValues - 1
ASSUME NamesAssumption == Names \subseteq Seq(Bytes)

NONE == 0       \* Option<BungeeIndex>::None: an index is never zero

Msb(byte) == byte >= Radix
DataBits(byte) == byte % Radix

VARIABLES
    encoding, \* the type parameter of BungeeBytes
    data,     \* BungeeBytes.data
    issued    \* history: the records pushed, with the path each one stands for

bungeeVars == <<encoding, data, issued>>

--------------------------------------------------------------------------------
(* What is left of n when its low digits have been shifted out. *)
Shifted(base, n, digits) ==
    LET rest[i \in 0 .. digits] == IF i = 0 THEN n ELSE rest[i - 1] \div base
    IN  rest[digits]

Digit(base, n, i) == Shifted(base, n, i - 1) % base

(* The number that digits stand for, the highest being read first. *)
Value(base, digits) ==
    LET high[i \in 0 .. Len(digits)] ==
            IF i = 0 THEN 0 ELSE high[i - 1] * base + digits[Len(digits) - i + 1]
    IN  high[Len(digits)]

(* VarInt.  Digits(n) bytes hold n; a number of one digit has its top bit     *)
(* clear.                                                                    *)
Digits(n) == LET size[m \in 0 .. n] == IF m = 0 THEN 0 ELSE size[m \div Radix] + 1
             IN  size[n]

VarBytes(n, len) ==
    [i \in 1 .. len |-> Digit(Radix, n, i) + IF i \in {1, len} THEN Radix ELSE 0]

(* Mutant of VarWrite: a one byte form for Radix itself. *)
VarWriteOneTooMany(n) == IF n <= Radix THEN <<n>> ELSE VarBytes(n, Digits(n))

VarWrite(n) == IF n < Radix THEN <<n>> ELSE VarBytes(n, Digits(n))

Number(bytes) == Value(Radix, [i \in DOMAIN bytes |-> DataBits(bytes[i])])

(* Both readers stop at the second byte with a top bit, or at the end of the *)
(* slice; they return the number and how many bytes it took.                *)
VarReverseRead(s) ==
    LET n == Len(s)
        firsts == {i \in 1 .. n - 1 : Msb(s[i])}
        first == IF ~Msb(s[n]) THEN n ELSE IF firsts = {} THEN 1 ELSE Max(firsts)
    IN  <<Number(SubSeq(s, first, n)), n - first + 1>>

VarRead(s) ==
    LET lasts == {i \in 2 .. Len(s) : Msb(s[i])}
        last == IF ~Msb(s[1]) THEN 1 ELSE IF lasts = {} THEN Len(s) ELSE Min(lasts)
    IN  <<Number(SubSeq(s, 1, last)), last>>

(* FixedInt: little endian. *)
FixedWrite(n) == [i \in 1 .. FixedBytes |-> Digit(ByteValues, n, i)]
FixedNumber(bytes) == Value(ByteValues, bytes)
FixedReverseRead(s) == <<FixedNumber(SubSeq(s, Len(s) - FixedBytes + 1, Len(s))), FixedBytes>>
FixedRead(s) == <<FixedNumber(SubSeq(s, 1, FixedBytes)), FixedBytes>>

(* OffsetInt *)
Write(n) == IF encoding = "VarInt" THEN VarWrite(n) ELSE FixedWrite(n)
ReverseRead(s) == IF encoding = "VarInt" THEN VarReverseRead(s) ELSE FixedReverseRead(s)
Read(s) == IF encoding = "VarInt" THEN VarRead(s) ELSE FixedRead(s)

--------------------------------------------------------------------------------
(* Mutant of Record: the previous record's position, and not the way back to *)
(* it.                                                                      *)
RecordAbsolute(pos, prev, name) == Write(prev) \o name \o Write(Len(name))

(* What push appends to a buffer of pos bytes. *)
Record(pos, prev, name) == Write(pos - prev) \o name \o Write(Len(name))

(* push returns the buffer and the string's index; an empty string is not    *)
(* stored, and stands for the one before it.                                *)
PushBytes(buf, prev, name) ==
    IF name = <<>> THEN [buf |-> buf, index |-> prev]
    ELSE LET grown == buf \o Record(Len(buf), prev, name)
         IN  [buf |-> grown, index |-> Len(grown)]

(* Mutant of reverse_read: skipping leads to the string before, and not to   *)
(* the record before.                                                        *)
reverse_read_skips_to_prev(buf, at) ==
    LET size == ReverseRead(SubSeq(buf, 1, at))
        stop == at - size[2]
        start == stop - size[1]
        back == ReverseRead(SubSeq(buf, 1, start))
        prev == start - back[2] - back[1]
    IN  [name |-> SubSeq(buf, start + 1, stop), skip |-> prev, prev |-> prev]

reverse_read(buf, at) ==
    LET size == ReverseRead(SubSeq(buf, 1, at))
        stop == at - size[2]
        start == stop - size[1]
        back == ReverseRead(SubSeq(buf, 1, start))
        skip == start - back[2]
    IN  [name |-> SubSeq(buf, start + 1, stop), skip |-> skip, prev |-> skip - back[1]]

(* The strings from a record to the first one, by its prev indices, in the   *)
(* order of the path.  What is not a record may lead nowhere.                *)
raw_path(buf, at) ==
    LET path[i \in 0 .. Len(buf)] ==
            LET r == reverse_read(buf, i)
            IN  IF i # NONE /\ r.prev \in 0 .. i - 1 THEN Append(path[r.prev], r.name) ELSE <<>>
    IN  path[at]

(* All records from one down to the first of the buffer. *)
AllBelow(buf, at) ==
    LET below[i \in 0 .. Len(buf)] ==
            LET r == reverse_read(buf, i)
            IN  IF i # NONE /\ r.skip \in 0 .. i - 1 THEN Append(below[r.skip], <<i, r.name>>)
                ELSE <<>>
    IN  below[at]

last_index(buf) == Len(buf)

--------------------------------------------------------------------------------
Issued == {issued[i].at : i \in DOMAIN issued}
IssuedAt(at) == IF at = NONE THEN [path |-> <<>>, whole |-> TRUE]
                ELSE issued[SelectInSeq(issued, LAMBDA r : r.at = at)]

BungeeInit == encoding \in Encodings /\ data = <<>> /\ issued = <<>>

(* The caller's part: a number that the type of the buffer can hold.         *)
Fits(n) == encoding = "VarInt" \/ Shifted(ByteValues, n, FixedBytes) = 0

(* push(prev, name) by a caller who has prev from an earlier push. *)
push(prev, name) ==
    LET pushed == PushBytes(data, prev, name)
    IN  /\ data' = pushed.buf
        /\ issued' = IF name = <<>> THEN issued
                     ELSE Append(issued,
                            [at |-> pushed.index,
                             path |-> Append(IssuedAt(prev).path, name),
                             whole |-> /\ IssuedAt(prev).whole
                                       /\ Fits(Len(data) - prev) /\ Fits(Len(name))])
        /\ UNCHANGED encoding

BungeeNext == /\ Len(issued) < MaxRecords
              /\ \E prev \in Issued \union {NONE}, name \in Names : push(prev, name)

--------------------------------------------------------------------------------
(* Whatever strings are pushed, on whichever earlier ones and in whatever    *)
(* order, each index issued so far still reads back as the path it was       *)
(* issued for (raw_path and path_of), although the buffer only holds offsets *)
(* whose width depends on where each record came to lie.  Where a FixedInt    *)
(* was too small, only the paths through that record are lost.                *)
PathsKept == \A r \in Range(issued) : r.whole => raw_path(data, r.at) = r.path

(* Skipping from last_index meets every record once, newest first, whether   *)
(* or not it leads to another (reverse_skip): only the lengths have to fit,   *)
(* and not the offsets.                                                      *)
LengthsFit == \A r \in Range(issued) : Fits(Len(Last(r.path)))

SkipVisitsAll == LengthsFit =>
    AllBelow(data, last_index(data)) =
        [i \in DOMAIN issued |-> <<issued[i].at, Last(issued[i].path)>>]

(* The format of the numbers (bungee.rs "can be read in reverse order"):     *)
(* every number up to the length of the buffer is read back, from the right  *)
(* behind any byte of the buffer, and from the left before any, as far as a   *)
(* FixedInt can hold it.                                                     *)
OffsetsReadBack == \A n \in 0 .. Len(data), byte \in Range(data) : Fits(n) =>
    LET width == Len(Write(n))
    IN  /\ ReverseRead(<<byte>> \o Write(n)) = <<n, width>>
        /\ Read(Write(n) \o <<byte>>) = <<n, width>>
================================================================================
