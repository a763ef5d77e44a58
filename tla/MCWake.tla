------------------------------- MODULE MCWake -------------------------------
(* Wake with one daemon, one embedded actor, and a row of the daemon. *)
EXTENDS Wake

CONSTANTS d, e, r

MCAgentOf == [row \in Rows |-> {d}]
=============================================================================
