------------------------------- MODULE HashArrays -------------------------------
(***************************************************************************)
(* HashArray (hasher/mod.rs): a long unsigned number kept as words of 64     *)
(* bits, least significant word first, with the arithmetic that the          *)
(* compression of entries needs.  Carries, remainders and shifted-out bits   *)
(* go from word to word.                                                     *)
(***************************************************************************)
EXTENDS Integers, Sequences, SequencesExt

CONSTANTS
    Words,      \* words of an array (4 for 32 bytes)
    Half        \* values of half a word (2 ^ 32)

ASSUME HashArrayAssumption == Words \in Nat \ {0} /\ Half \in Nat \ {0} /\ Half % 2 = 0

DataChunk == Half * Half            \* values of a word
HALF == Half - 1
LAST_BIT == DataChunk \div 2

Arrays == [1 .. Words -> 0 .. DataChunk - 1]

--------------------------------------------------------------------------------
(* Ord::cmp, from the last word down. *)
Less(a, b) == \E i \in 1 .. Words : a[i] < b[i] /\ \A j \in i + 1 .. Words : a[j] = b[j]

(* Two overflowing operations for each word, of which at most one carries.   *)
wrapping_add(a, b) ==
    LET carry[i \in 0 .. Words] ==
            IF i = 0 THEN 0
            ELSE LET add == (a[i] + b[i]) % DataChunk
                 IN  IF add # a[i] + b[i] \/ add + carry[i - 1] = DataChunk THEN 1 ELSE 0
    IN  [i \in 1 .. Words |-> (a[i] + b[i] + carry[i - 1]) % DataChunk]

wrapping_sub(a, b) ==
    LET borrow[i \in 0 .. Words] ==
            IF i = 0 THEN 0
            ELSE LET sub == (a[i] - b[i]) % DataChunk
                 IN  IF sub # a[i] - b[i] \/ sub < borrow[i - 1] THEN 1 ELSE 0
    IN  [i \in 1 .. Words |-> (a[i] - b[i] - borrow[i - 1]) % DataChunk]

(* The quotient of one word and the remainder handed to the next: divisors    *)
(* of half a word divide in two steps within a word, others in one of twice   *)
(* the width, whose quotient is cut to a word.                                *)
div_half(rem, digit, divisor) ==
    LET high == rem * Half + (digit \div Half)
        low == (high % divisor) * Half + (digit % Half)
    IN  <<(high \div divisor) * Half + (low \div divisor), low % divisor>>

div_wide(hi, lo, divisor) ==
    LET lhs == lo + hi * DataChunk
    IN  <<(lhs \div divisor) % DataChunk, lhs % divisor>>

(* Mutant of checked_div_rem: a divisor of more than half a word is divided   *)
(* by in halves, and the shifted remainder loses its high bits.               *)
checked_div_rem_halves(a, b) ==
    IF b = 0 THEN <<>>
    ELSE LET at[i \in 1 .. Words + 1] ==
                 IF i > Words THEN <<0, 0>>
                 ELSE div_half(at[i + 1][2] % Half, a[i], b)
         IN  << [quotient |-> [i \in 1 .. Words |-> at[i][1]], rem |-> at[1][2]] >>

(* None for a divisor of zero; at[i] is what word i is divided into.          *)
checked_div_rem(a, b) ==
    IF b = 0 THEN <<>>
    ELSE LET at[i \in 1 .. Words + 1] ==
                 IF i > Words THEN <<0, 0>>
                 ELSE IF b <= HALF THEN div_half(at[i + 1][2], a[i], b)
                 ELSE div_wide(at[i + 1][2], a[i], b)
         IN  << [quotient |-> [i \in 1 .. Words |-> at[i][1]], rem |-> at[1][2]] >>

not(a) == [i \in 1 .. Words |-> DataChunk - 1 - a[i]]

TopBit(word) == IF word >= LAST_BIT THEN 1 ELSE 0

(* Mutant of to_sign_reduced: the complement is not taken. *)
to_sign_reduced_plain(a) ==
    [i \in 1 .. Words |-> ((a[i] * 2) % DataChunk) + TopBit(IF i = 1 THEN a[Words] ELSE a[i - 1])]

(* The sign goes to the lowest bit: a shift left, of the complement of a      *)
(* negative number, with the top bit of each word moved into the next.        *)
to_sign_reduced(a) ==
    LET sign == TopBit(a[Words])
        v == IF sign = 1 THEN not(a) ELSE a
    IN  [i \in 1 .. Words |-> ((v[i] * 2) % DataChunk) + (IF i = 1 THEN sign ELSE TopBit(v[i - 1]))]

--------------------------------------------------------------------------------
(* The number that an array stands for, which the properties compare with.    *)
Number(a) == LET from[i \in 1 .. Words + 1] ==
                     IF i > Words THEN 0 ELSE from[i + 1] * DataChunk + a[i]
             IN  from[1]
Range2 == Number([i \in 1 .. Words |-> DataChunk - 1]) + 1
================================================================================
