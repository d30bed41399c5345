-------------------------------- MODULE FileNames --------------------------------
(***************************************************************************)
(* NamesStorage (hasher/names.rs): names kept back to back in one string, or  *)
(* one compressed stream, and known by a position and a length of 32 bits.   *)
(* A FileNames can be read; a FlatedFileNames counts its position beside the  *)
(* encoder and can be read once it was finished and decompressed, which is    *)
(* external and gives back what was written.                                  *)
(***************************************************************************)
EXTENDS Integers, Sequences

CONSTANTS
    Strings,    \* names that are pushed, as sequences of bytes
    U32,        \* values of a u32
    USize,      \* values of a usize
    Memory,     \* bytes that a String can reserve
    MaxPushes   \* names that are stored (bounds the run)

ASSUME FileNamesAssumption == /\ Strings \subseteq Seq(Nat)
                              /\ U32 \in Nat /\ USize \in Nat /\ U32 <= USize
                              /\ Memory \in Nat /\ MaxPushes \in Nat

VARIABLES
    storage,    \* "FileNames" or "FlatedFileNames"
    string,     \* FileNames.string, or what the encoder was given
    pos,        \* FlatedFileNames.pos
    panicked,   \* a push has panicked, and with it its with_collected
    ids         \* history: each NameRefId returned, with the name it is for

namesVars == <<storage, string, pos, panicked, ids>>

NamesInit == /\ storage \in {"FileNames", "FlatedFileNames"}
             /\ string = <<>> /\ pos = 0
             /\ panicked = FALSE
             /\ ids = <<>>

Start == IF storage = "FileNames" THEN Len(string) ELSE pos

(* Mutant of Refused: the position is cut to 32 bits where it should be refused. *)
RefusedIfLong(name) ==
    \/ Len(name) >= U32
    \/ storage = "FileNames" /\ Len(string) + Len(name) > Memory
    \/ storage = "FlatedFileNames" /\ pos + Len(name) >= USize

(* LengthOverflow, SizeOverflow of the start, Mem, and SizeOverflow of the end. *)
Refused(name) ==
    \/ Len(name) >= U32
    \/ Start >= U32
    \/ storage = "FileNames" /\ Len(string) + Len(name) > Memory
    \/ storage = "FlatedFileNames" /\ pos + Len(name) >= USize

NameRefId(name) == [pos |-> Start % U32, len |-> Len(name) % U32]

Stored(name) == /\ ids' = Append(ids, [id |-> NameRefId(name), name |-> name])
                /\ string' = string \o name
                /\ pos' = IF storage = "FlatedFileNames" THEN pos + Len(name) ELSE pos

(* try_push: nothing is changed by an error, and names may fit that come later. *)
try_push(name) == /\ IF Refused(name) THEN UNCHANGED <<ids, string, pos>> ELSE Stored(name)
                  /\ UNCHANGED <<storage, panicked>>

(* with_collected pushes name by name, and unwraps.                          *)
collect(name) == /\ IF Refused(name) THEN UNCHANGED <<ids, string, pos>> ELSE Stored(name)
                 /\ panicked' = Refused(name)
                 /\ UNCHANGED storage

(* decompress(finish()) *)
finish == /\ storage = "FlatedFileNames"
          /\ storage' = "FileNames"
          /\ UNCHANGED <<string, pos, panicked, ids>>

NamesNext == \/ /\ Len(ids) < MaxPushes /\ ~panicked
                /\ \E name \in Strings : try_push(name) \/ collect(name)
             \/ finish

NamesSpec == NamesInit /\ [][NamesNext]_namesVars

get(id) == SubSeq(string, id.pos + 1, id.pos + id.len)

--------------------------------------------------------------------------------
(* Every NameRefId returned so far stands for the name it was returned for:    *)
(* the position counted beside the encoder is that of the name in the text that *)
(* decompress gives, whatever was refused or panicked between, and up to the   *)
(* last position that 32 bits can hold.                                        *)
NamesKept == \A i \in DOMAIN ids :
    /\ ids[i].id.pos + ids[i].id.len <= Len(string)
    /\ get(ids[i].id) = ids[i].name
================================================================================
