------------------------------ MODULE MCSmoke ------------------------------
(***************************************************************************)
(* An instance of Smoke for TLC.  In the program a session lives 5 minutes,*)
(* the command line waits 8 for a marker and the bridge 4.                 *)
(***************************************************************************)
EXTENDS Smoke

MCBootWait == [cli |-> 4, mcp |-> 2]
=============================================================================
