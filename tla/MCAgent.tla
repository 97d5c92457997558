------------------------------ MODULE MCAgent ------------------------------
(* Agent for TLC: every instance is finite by its bounds. *)
EXTENDS Agent
=============================================================================
