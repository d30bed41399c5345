------------------------------ MODULE MCNameStores ------------------------------
(* A finite instance of NameStores: strings that are empty, of one digit's      *)
(* length, of two, and longer than a FixedInt or a u32 of the instance, with    *)
(* and without bytes that look like the ends of a VarInt.                      *)
EXTENDS NameStores

SomeNames == {<<>>, <<1>>, <<5>>, <<5, 0, 4, 3>>, <<2, 1, 4, 0, 3, 5>>}
BothEncodings == {"VarInt", "FixedInt"}
================================================================================
