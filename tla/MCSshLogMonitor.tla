-------------------------- MODULE MCSshLogMonitor --------------------------
(* SshLogMonitor for TLC. *)
EXTENDS SshLogMonitor
============================================================================
