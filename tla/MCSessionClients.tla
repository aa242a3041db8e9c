-------------------------- MODULE MCSessionClients --------------------------
(* An instance of SessionClients for TLC. *)
EXTENDS SessionClients, TLC

CONSTANTS i1, i2, i3, c1, m1, r1, r2

MCIds == {i1, i2, i3}
MCClis == {c1}
MCMcps == {m1}
MCRpcs == {r1, r2}
MCMaxOps == [c \in Clients |-> IF c \in Clis THEN 1 ELSE 2]
=============================================================================
