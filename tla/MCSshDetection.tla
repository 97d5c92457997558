--------------------------- MODULE MCSshDetection ---------------------------
(* SshDetection for TLC: one address, whose failures a login interrupts.   *)
EXTENDS SshDetection

CONSTANT a

Line(kind) == [kind |-> kind, ip |-> a]

MCStory == <<Line("failed"), Line("accepted"), Line("failed")>>
=============================================================================
