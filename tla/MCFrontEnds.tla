---------------------------- MODULE MCFrontEnds ----------------------------
(***************************************************************************)
(* FrontEnds for TLC: it has no constants, and is finite as it is.         *)
(***************************************************************************)
EXTENDS FrontEnds
=============================================================================
