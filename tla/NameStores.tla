------------------------------- MODULE NameStores -------------------------------
(***************************************************************************)
(* The places a scan can keep its paths in: a BungeeStr, as snapshot_files    *)
(* does, or a NamesStorage, as test_list_files does with the same scanner.    *)
(* A scan uses one of them.                                                  *)
(***************************************************************************)
EXTENDS Bungee, FileNames

VARIABLE uses

nameStoresVars == <<bungeeVars, namesVars, uses>>

NameStoresInit == BungeeInit /\ NamesInit /\ uses \in {"bungee", "names"}

NameStoresNext == /\ \/ uses = "bungee" /\ BungeeNext /\ UNCHANGED namesVars
                     \/ uses = "names" /\ NamesNext /\ UNCHANGED bungeeVars
                  /\ UNCHANGED uses

NameStoresSpec == NameStoresInit /\ [][NameStoresNext]_nameStoresVars
================================================================================
