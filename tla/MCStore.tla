--------------------------------- MODULE MCStore ---------------------------------
(* A finite instance of Store: arrays of three words of four bits, of which     *)
(* the names differ in their least and their most significant word, and the     *)
(* ids let carries and borrows run through all three.                          *)
EXTENDS Store

SomeNames == {<<3, 0, 1>>, <<15, 1, 0>>, <<0, 0, 2>>}
TwoValues == {0, 1}
SomeIds == {<<0, 0, 0>>, <<1, 0, 0>>, <<15, 0, 0>>, <<0, 1, 0>>, <<15, 15, 7>>, <<0, 0, 8>>,
            <<7, 15, 8>>, <<9, 6, 12>>, <<15, 15, 15>>}
================================================================================
