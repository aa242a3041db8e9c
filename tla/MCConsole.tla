----------------------------- MODULE MCConsole -----------------------------
(***************************************************************************)
(* A small PatternWait for TLC.  The queue holds two chunks, so that       *)
(* bursts detach subscribers; the ring and the scanner's window hold fewer *)
(* bytes than a behaviour prints, so that both lose the oldest.            *)
(***************************************************************************)
EXTENDS PatternWait
CONSTANTS o1, w1
MCObservers == {o1}
MCWaiters == {w1}
MCReplays == {0, 2}
=============================================================================
