-------------------------------- MODULE FileIndex --------------------------------
(***************************************************************************)
(* SaveToBungee (hasher/file_iter.rs) as snapshot_files uses it: a scanner   *)
(* is turned into an iterator that pushes the name of every entry on a       *)
(* BungeeStr, behind the name of the directory it is in.  What it yields is  *)
(* the index from which the entry's path can be restored.                    *)
(*                                                                          *)
(* The scanner may have been used before it is turned into a SaveToBungee;   *)
(* the names of the directories it is in at that time are not in the index.  *)
(***************************************************************************)
EXTENDS FileScanner, Bungee

(* A DirEntry has a name. *)
ASSUME IndexAssumption == NameOf \in [Nodes -> Names \ {<<>>}]

VARIABLES
    phase,    \* "scan" while it is a DepthFileScanner, then "save"
    dirs,     \* SaveToBungee.dirs: the index of each directory entered
    unnamed,  \* entries for which name_convert returns None
    entered,  \* history: the directories it was in when save_to_bungee ran
    saved     \* history: entries yielded, with their index

indexVars == <<scannerVars, bungeeVars, phase, dirs, unnamed, entered, saved>>

FileIndexInit == /\ FileScannerInit
                 /\ BungeeInit
                 /\ phase = "scan"
                 /\ dirs = <<>>
                 /\ unnamed \in UNION {kSubset(k, Nodes) : k \in 0 .. 1}
                 /\ entered = {}
                 /\ saved = <<>>

Scan == /\ phase = "scan"
        /\ FileScannerNext
        /\ UNCHANGED <<bungeeVars, phase, dirs, unnamed, entered, saved>>

(* The directories whose level is on the stack, without the root. *)
OnStack == {d \in Range([i \in DOMAIN yielded |-> yielded[i].node]) \intersect (Dirs \ closed) :
               \E k \in 2 .. Len(stack) :
                  TruePath(root, d) = SubSeq(current, 1, k - 1)}

save_to_bungee == /\ phase = "scan"
                  /\ phase' = "save"
                  /\ dirs' = <<>>
                  /\ entered' = OnStack
                  /\ UNCHANGED <<scannerVars, bungeeVars, unnamed, saved>>

(* Mutant of Save: the index is kept of every directory, opened or not. *)
SaveKeepsClosed ==
    LET next == Advance(bad \union unnamed)
        left == DropLast(dirs, next.left)
        prev == IF left = <<>> THEN NONE ELSE Last(left)
        value == PushBytes(data, prev, NameOf[next.node]).index
    IN  /\ push(prev, NameOf[next.node])
        /\ saved' = Append(saved, [node |-> next.node, index |-> value])
        /\ dirs' = IF next.node \in Dirs THEN Append(left, value) ELSE left
        /\ stack' \in Enter(next.node, next.below)

(* The name is pushed behind its directory's, and a directory is entered. *)
Save ==
    LET next == Advance(bad \union unnamed)
        left == DropLast(dirs, next.left)
        prev == IF left = <<>> THEN NONE ELSE Last(left)
        value == PushBytes(data, prev, NameOf[next.node]).index
    IN  /\ push(prev, NameOf[next.node])
        /\ saved' = Append(saved, [node |-> next.node, index |-> value])
        /\ dirs' = IF Opens(next.node) THEN Append(left, value) ELSE left
        /\ stack' \in Enter(next.node, next.below)

(* SaveToBungee::next.  It walks the same stack as next_file, passes over     *)
(* what the conversion leaves out as well, and leaves                        *)
(* DepthFileScanner.current alone.                                           *)
NextSaved ==
    /\ phase = "save"
    /\ \/ /\ LevelsLeft(bad \union unnamed) = {}
          /\ stack' = <<>>
          /\ dirs' = <<>>
          /\ UNCHANGED <<bungeeVars, saved>>
       \/ /\ LevelsLeft(bad \union unnamed) # {}
          /\ Save
    /\ UNCHANGED <<disk, root, variant, current, yielded, phase, unnamed, entered>>

FileIndexNext == Scan \/ save_to_bungee \/ NextSaved

FileIndexSpec == FileIndexInit /\ [][FileIndexNext]_indexVars

--------------------------------------------------------------------------------
Returned == [i \in DOMAIN yielded |-> yielded[i].node] \o [i \in DOMAIN saved |-> saved[i].node]

(* Once the walk is over, the entries returned are, each once, those that can *)
(* be read in the directories that could be opened; a directory that the      *)
(* conversion leaves out while saving hides what is below it, and nothing      *)
(* else is lost to the errors around it.                                      *)
Shown(n) == /\ n \notin bad
            /\ \/ Parent[n] = root
               \/ Parent[n] \in Range(Returned)
            /\ Parent[n] \notin closed
            /\ \/ n \notin unnamed
               \/ phase = "scan"
               \/ n \in {y.node : y \in Range(yielded)}

ScanComplete == stack = <<>> =>
    /\ Range(Returned) = {n \in Nodes : Shown(n)}
    /\ Cardinality(Range(Returned)) = Len(Returned)

(* The path restored from an index is the entry's own path, up to the          *)
(* directories the scanner was in before save_to_bungee: a scanner that was    *)
(* not used before, as in snapshot_files, gives whole paths.                   *)
Under(d, n) ==
    LET above[m \in Nodes] == m = d \/ (Parent[m] \in Nodes /\ above[Parent[m]])
    IN  above[n]

InEntered(n) == {d \in entered : n # d /\ Under(d, n)}

SavedPaths == \A s \in Range(saved) :
    LET path == TruePath(root, s.node)
    IN  raw_path(data, s.index) = SubSeq(path, Cardinality(InEntered(s.node)) + 1, Len(path))
================================================================================
