------------------------------- MODULE MCFileIndex -------------------------------
(* A small tree: 0/{1/{2, 3/{4}}, 5/{}, 6}, with equal names in different      *)
(* directories.                                                               *)
EXTENDS FileIndex

SixNodes == 1 .. 6
ThreeDirs == {1, 3, 5}
Tree == <<0, 1, 1, 3, 0, 0>>
TreeNames == << <<1>>, <<1>>, <<5, 2>>, <<1>>, <<2, 0, 4>>, <<4>> >>
TreeNameSet == Range(TreeNames)
TopAndFirst == {0, 1}
OnlyVarInt == {"VarInt"}
================================================================================
