---------------------------- MODULE MCLogTailer ----------------------------
(* LogTailer for TLC, for both agents. *)
EXTENDS LogTailer
============================================================================
