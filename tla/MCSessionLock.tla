--------------------------- MODULE MCSessionLock ---------------------------
(***************************************************************************)
(* Small instances of SessionLock for TLC.  Ids bounds the number of       *)
(* sessions of a behaviour.                                                *)
(***************************************************************************)
EXTENDS SessionLock

CONSTANTS s1, s2, s3, w1, w2, k1, k2

MCIds == {s1, s2, s3}
MCWaiters == {w1, w2}
MCCalls == {k1, k2}
=============================================================================
