------------------------------ MODULE Compression ------------------------------
(***************************************************************************)
(* compress_sorted_entries (store/compress.rs): writes the first and the last *)
(* of a run of sorted entries, and turns those in between into differences    *)
(* from the entry before, less the average difference, with the sign in the   *)
(* lowest bit so that numbers near the average become small.  The             *)
(* differences are only printed so far; they are what a reader will have to   *)
(* rebuild the entries from.                                                  *)
(*                                                                          *)
(* count comes from the caller, and is read after both ends were written; by,  *)
(* which gives what the average is of, is the id as in its only caller.       *)
(***************************************************************************)
EXTENDS HashArrays, FiniteSetsExt

CONSTANTS
    Ids,        \* ids of entries, which are also all that tells entries apart
    Shown,      \* differences that are made, of all (100)
    MaxCount,   \* the largest count a caller gives (bounds the run)
    MaxIds      \* entries of one run (bounds the run)

ASSUME CompressionAssumption ==
    Ids \subseteq Arrays /\ Shown \in Nat /\ MaxCount \in Nat /\ MaxCount <= DataChunk
    /\ MaxIds \in Nat

VARIABLES
    at,         \* where compress_sorted_entries is
    entries,    \* what its iterator has still to give
    count,
    written,    \* the writer
    prev, average_span,
    diffs,      \* the normalized differences, in order
    span, run   \* history: what was divided, and the entries given

compressVars == <<at, entries, count, written, prev, average_span, diffs, span, run>>

Zero == [i \in 1 .. Words |-> 0]
NotAfter(a, b) == ~Less(b, a)
IdRuns == UNION {{s \in [1 .. n -> Ids] : IsSorted(s, NotAfter)} : n \in 0 .. MaxIds}

CompressInit == /\ at = "start"
                /\ run \in IdRuns
                /\ entries = run
                /\ count \in 0 .. MaxCount
                /\ written = <<>> /\ diffs = <<>>
                /\ prev = Zero /\ average_span = Zero /\ span = Zero

Goto(place) == at' = place /\ UNCHANGED <<count, run>>

(* entries.next() and entries.next_back(), each written at once; without one  *)
(* the function is done.                                                      *)
WriteFirst == /\ at = "start"
              /\ IF entries = <<>> THEN Goto("ok") /\ UNCHANGED <<entries, written, prev>>
                 ELSE /\ Goto("end")
                      /\ prev' = Head(entries)
                      /\ written' = <<Head(entries)>>
                      /\ entries' = Tail(entries)
              /\ UNCHANGED <<average_span, diffs, span>>

WriteLast == /\ at = "end"
             /\ IF entries = <<>> THEN Goto("ok") /\ UNCHANGED <<entries, written>>
                ELSE /\ Goto("average")
                     /\ written' = Append(written, Last(entries))
                     /\ entries' = Front(entries)
             /\ UNCHANGED <<prev, average_span, diffs, span>>

(* write_all may fail, and the function ends with what was written before.    *)
WriteFails == /\ at \in {"start", "end"} /\ entries # <<>>
              /\ Goto("failed")
              /\ UNCHANGED <<entries, written, prev, average_span, diffs, span>>

(* checked_sub(1) and checked_div_rem fail for a count of 0 and of 1, when     *)
(* both ends were already written.                                            *)
Average == /\ at = "average"
           /\ span' = wrapping_sub(written[2], written[1])
           /\ LET divided == checked_div_rem(span', count - 1)
              IN  IF count = 0 \/ divided = <<>> THEN Goto("failed") /\ UNCHANGED average_span
                  ELSE Goto("diffs") /\ average_span' = divided[1].quotient
           /\ UNCHANGED <<entries, written, prev, diffs>>

(* The entries in between; no more than Shown of them are looked at.          *)
Diff == /\ at = "diffs" /\ entries # <<>> /\ Len(diffs) < Shown
        /\ diffs' = Append(diffs, to_sign_reduced(
               wrapping_sub(wrapping_sub(Head(entries), prev), average_span)))
        /\ prev' = Head(entries)
        /\ entries' = Tail(entries)
        /\ Goto("diffs") /\ UNCHANGED <<written, average_span, span>>

DiffsEnd == /\ at = "diffs" /\ (entries = <<>> \/ Len(diffs) = Shown)
            /\ Goto("ok")
            /\ UNCHANGED <<entries, written, prev, average_span, diffs, span>>

CompressNext == WriteFirst \/ WriteLast \/ WriteFails \/ Average \/ Diff \/ DiffsEnd

--------------------------------------------------------------------------------
(* compress.rs "calculate average numeric difference": the average is the     *)
(* span of the run divided by the number of steps, rounded down, for spans    *)
(* and divisors of any width.                                                 *)
AverageIsExact == at = "diffs" =>
    /\ wrapping_add(Head(run), span) = Last(run)
    /\ Number(average_span) = Number(span) \div (count - 1)

(* The entries between the ends can be told from what is kept: the first      *)
(* entry, the average, which follows from both ends and the count, and the    *)
(* differences.  Each of them undoes to a signed deviation from the average,  *)
(* and adding these up from the first entry gives the entries back.           *)
Deviation(n) == IF n % 2 = 0 THEN n \div 2 ELSE -((n + 1) \div 2)
Rebuilt == LET total[i \in 0 .. Len(diffs)] ==
                   IF i = 0 THEN Number(written[1])
                   ELSE total[i - 1] + Number(average_span) + Deviation(Number(diffs[i]))
           IN  [i \in 1 .. Len(diffs) |-> total[i] % Range2]

DiffsRebuild == at \in {"diffs", "ok"} =>
    /\ Rebuilt = [i \in 1 .. Len(diffs) |-> Number(run[i + 1])]
    /\ at = "ok" => Len(written) + Len(diffs) = Min({Len(run), Shown + 2})
================================================================================
