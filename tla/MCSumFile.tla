-------------------------------- MODULE MCSumFile --------------------------------
(* A finite instance of SumFile: chunks of up to three of two entries where two  *)
(* may be read at once, and files of up to two blocks from elsewhere.            *)
EXTENDS SumFile

TwoEntries == {1, 2}
AllLeads == {"none", "known", "unknown"}
SomeBodies == {<<>>, <<1>>, <<2, 1>>, <<1, 2, 2>>}
================================================================================
