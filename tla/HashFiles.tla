------------------------------- MODULE HashFiles -------------------------------
(***************************************************************************)
(* What running a ScanRunner over a list of paths promises, without its     *)
(* threads: the paths are taken in order, each one taken yields one result, *)
(* in any order, at most MaxInFlight results are outstanding when a further *)
(* path is taken, and the run is over once nothing is outstanding.          *)
(***************************************************************************)
EXTENDS Naturals, FiniteSets

CONSTANTS NFiles,      \* length of the list
          MaxInFlight  \* paths taken whose result may be outstanding

VARIABLES taken,       \* number of paths taken
          hashed,      \* files whose result has been delivered
          over         \* the run has ended

vars == <<taken, hashed, over>>

Outstanding == (1 .. taken) \ hashed

Init == /\ taken = 0
        /\ hashed = {}
        /\ over = FALSE

Take == /\ ~over
        /\ taken < NFiles
        /\ Cardinality(Outstanding) <= MaxInFlight
        /\ taken' = taken + 1
        /\ UNCHANGED <<hashed, over>>

Deliver(f) == /\ ~over
              /\ hashed' = hashed \union {f}
              /\ UNCHANGED <<taken, over>>

End == /\ ~over
       /\ Outstanding = {}
       /\ over' = TRUE
       /\ UNCHANGED <<taken, hashed>>

Next == Take \/ (\E f \in Outstanding : Deliver(f)) \/ End

(* A run always comes to its end. *)
Spec == Init /\ [][Next]_vars /\ WF_vars(Next)
================================================================================
