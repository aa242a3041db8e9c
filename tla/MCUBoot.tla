------------------------------ MODULE MCUBoot ------------------------------
(***************************************************************************)
(* UBoot for TLC: four RPCs, so that one finds what others left behind,    *)
(* and two interrupt keys, so that one is surplus.                         *)
(***************************************************************************)
EXTENDS UBoot
=============================================================================
