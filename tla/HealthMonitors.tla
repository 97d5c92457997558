--------------------------- MODULE HealthMonitors ---------------------------
(***************************************************************************)
(* The health monitors of src/monitor/ together.  The application runs     *)
(* them one after the other in one thread and they share no state, so a    *)
(* behaviour is one check of a resource, or one of the services and sites. *)
(***************************************************************************)
EXTENDS ResourceMonitors, ProbeMonitors

healthVars == <<resourceVars, probeVars>>

NothingToRead ==
  /\ monitor = "none" /\ opens = TRUE
  /\ percent = 1
  /\ file = <<>> /\ rest = <<>>
  /\ values = [key \in {} |-> 0]
  /\ raised = <<>>
  /\ finished = TRUE

NothingToAsk ==
  /\ agent = "cpp" /\ cancelled = FALSE
  /\ services = <<>> /\ websites = <<>>
  /\ up = Targets /\ wasUp = Targets /\ wasDown = {}
  /\ child = "none" /\ status = "inactive"
  /\ reported = <<>>
  /\ changes = 0
  /\ cut = {}

HealthInit ==
  \/ ResourceInit /\ NothingToAsk
  \/ NothingToRead /\ ProbeInit

(* Every check has ended. *)
Idle == finished /\ Probed /\ UNCHANGED healthVars

HealthNext ==
  \/ ResourceNext /\ UNCHANGED probeVars
  \/ monitor = "none" /\ ProbeNext /\ UNCHANGED resourceVars
  \/ Idle

HealthSpec == HealthInit /\ [][HealthNext]_healthVars /\ ProbeFairness

(* The inductive invariant: each check's own. *)
HealthIInv == ResourceIInv /\ ProbeIInv
=============================================================================
