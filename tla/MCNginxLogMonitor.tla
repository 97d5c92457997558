------------------------- MODULE MCNginxLogMonitor -------------------------
(* NginxLogMonitor for TLC: addresses are interchangeable. *)
EXTENDS NginxLogMonitor, TLC

Symmetry == Permutations(Addresses)
============================================================================
