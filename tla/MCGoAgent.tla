----------------------------- MODULE MCGoAgent -----------------------------
(* GoAgent for TLC: one log monitor, two monitors checked every third      *)
(* second, of which the last asks in the context.                          *)
EXTENDS GoAgent
============================================================================
