------------------------------ MODULE MCPower ------------------------------
(***************************************************************************)
(* A small Power, with its ConsoleRing, for TLC.                           *)
(***************************************************************************)
EXTENDS Power, TLC

CONSTANTS c1, c2

CallSymmetry == Permutations(Calls)
=============================================================================
