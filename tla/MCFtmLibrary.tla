---------------------------- MODULE MCFtmLibrary ----------------------------
(***************************************************************************)
(* Values for the model checker: codes inside and at both sides of the     *)
(* enum, options at the borders of their fields and one wrap beyond,       *)
(* capacities that just hold a text or miss it by one.                     *)
(***************************************************************************)
EXTENDS FtmLibrary

SomeCodes == {-1, 0, 6, 7, 8}
SomeNumbers == {-1, 0, 101, 264}
SomeCaps == {0, 7, 11, 12, 28}
=============================================================================
