---------------------------- MODULE ProbeMonitors ----------------------------
(***************************************************************************)
(* The checks that ask somebody else, of both agents: a child becomes      *)
(* `systemctl is-active`, then pages are fetched (src/monitor/ and         *)
(* agent-go/internal/monitor/).  Meanwhile services and sites go up and    *)
(* down, and the child can die of a signal that was sent to all of the     *)
(* agent's processes (systemctl stop, Ctrl-C).  The C++ agent handles that *)
(* signal and goes on asking; in the Go agent it cancels the context of    *)
(* the check.                                                              *)
(*                                                                         *)
(* The guard on the service's name is left out: both agents refuse every   *)
(* configuration with a name that it would skip (CppValid and GoValid in   *)
(* Configuration).                                                         *)
(***************************************************************************)
EXTENDS Naturals, Sequences, Functions

CONSTANTS
  Services,     \* Config::services, in order
  Websites,     \* Config::websites, in order
  MaxChanges    \* bound on the times a target goes up or down

Targets == {Services[i] : i \in DOMAIN Services}
             \cup {Websites[i] : i \in DOMAIN Websites}

ASSUME ProbeAssumption ==
  /\ Services \in Seq(Targets) /\ Websites \in Seq(Targets)
  /\ IsInjective(Services) /\ IsInjective(Websites)
  /\ \A i \in DOMAIN Services, j \in DOMAIN Websites : Services[i] # Websites[j]
  /\ MaxChanges \in Nat

VARIABLES
  agent,        \* "cpp" or "go"
  cancelled,    \* the Go agent's context is cancelled
  up,           \* the targets that are up
  services,     \* those ServiceMonitor::check has still to ask for
  websites,     \* those WebsiteMonitor::check has still to fetch
  child,        \* the child: "none", "forked", "asking" or "dead"
  status,       \* what the child left: "active", "inactive", "killed"
  reported,     \* the alerts of both checks
  changes,      \* history: changes so far
  wasUp,        \* history: targets that were up at some time of the check
  wasDown,      \* history: targets that were down at some time of it
  cut           \* history: targets that could not be asked

worldVars == <<agent, cancelled, up, changes, wasUp, wasDown>>
childVars == <<child, status>>
probeVars == <<worldVars, services, websites, childVars, reported, cut>>

ProbeInit ==
  /\ agent \in {"cpp", "go"}
  /\ cancelled = FALSE
  /\ up \in SUBSET Targets
  /\ services = Services
  /\ websites = Websites
  /\ child = "none"
  /\ status = "inactive"
  /\ reported = <<>>
  /\ changes = 0
  /\ wasUp = up
  /\ wasDown = Targets \ up
  /\ cut = {}

(* A service or a site starts or stops. *)
Change ==
  /\ changes < MaxChanges
  /\ changes' = changes + 1
  /\ \E t \in Targets :
       IF t \in up
       THEN up' = up \ {t} /\ wasDown' = wasDown \cup {t} /\ UNCHANGED wasUp
       ELSE up' = up \cup {t} /\ wasUp' = wasUp \cup {t} /\ UNCHANGED wasDown
  /\ UNCHANGED <<agent, cancelled, services, websites, childVars, reported, cut>>

(* The signal reaches the Go agent. *)
Cancel ==
  /\ agent = "go"
  /\ ~cancelled
  /\ cancelled' = TRUE
  /\ UNCHANGED <<agent, up, changes, wasUp, wasDown, services, websites, childVars,
                 reported, cut>>

----------------------------------------------------------------------------
(* ServiceMonitor::check and isActive; Service.Check *)

Asking == services # <<>>

(* The next service, with or without an alert for this one. *)
NextService(down) ==
  /\ services' = Tail(services)
  /\ reported' = IF down THEN Append(reported, Head(services)) ELSE reported

(* Variant: a service for which fork fails is tried again. *)
ForkFailsRetry ==
  /\ Asking
  /\ child = "none"
  /\ reported' = Append(reported, Head(services))
  /\ cut' = cut \cup {Head(services)}
  /\ UNCHANGED <<worldVars, services, websites, childVars>>

(* fork fails, or the Go agent's command is not started at all (no         *)
(* systemctl, or the context is cancelled): the service counts as down.    *)
ForkFails ==
  /\ Asking
  /\ child = "none"
  /\ NextService(TRUE)
  /\ cut' = cut \cup {Head(services)}
  /\ UNCHANGED <<worldVars, websites, childVars>>

Fork ==
  /\ Asking
  /\ ~cancelled
  /\ child = "none"
  /\ child' = "forked"
  /\ UNCHANGED <<worldVars, services, websites, status, reported, cut>>

(* The child becomes systemctl, or leaves with 127 if there is none. *)
Exec ==
  /\ child = "forked"
  /\ \/ child' = "asking" /\ UNCHANGED <<status, cut>>
     \/ /\ child' = "dead"
        /\ status' = "inactive"
        /\ cut' = cut \cup {Head(services)}
  /\ UNCHANGED <<worldVars, services, websites, reported>>

Answer ==
  /\ child = "asking"
  /\ child' = "dead"
  /\ status' = IF Head(services) \in up THEN "active" ELSE "inactive"
  /\ UNCHANGED <<worldVars, services, websites, reported, cut>>

(* The signal ends the child, or a cancelled context does. *)
Killed ==
  /\ child \in {"forked", "asking"}
  /\ child' = "dead"
  /\ status' = "killed"
  /\ cut' = cut \cup {Head(services)}
  /\ UNCHANGED <<worldVars, services, websites, reported>>

(* Variant: a service that is down ends the check. *)
WaitFirstDown ==
  /\ child = "dead"
  /\ child' = "none"
  /\ IF status = "active" THEN NextService(FALSE)
     ELSE services' = <<>> /\ reported' = Append(reported, Head(services))
  /\ UNCHANGED <<worldVars, websites, status, cut>>

(* Variant: a service is asked for until it is up. *)
WaitUntilActive ==
  /\ child = "dead"
  /\ child' = "none"
  /\ services' = IF status = "active" THEN Tail(services) ELSE services
  /\ UNCHANGED <<worldVars, websites, status, reported, cut>>

(* waitpid: the service is active if the child exited, and with 0. *)
Wait ==
  /\ child = "dead"
  /\ child' = "none"
  /\ NextService(status # "active")
  /\ UNCHANGED <<worldVars, websites, status, cut>>

(* waitpid fails (the agent inherited an ignored SIGCHLD), or the context  *)
(* was cancelled while the child ended.                                    *)
WaitFails ==
  /\ child = "dead"
  /\ child' = "none"
  /\ NextService(TRUE)
  /\ cut' = cut \cup {Head(services)}
  /\ UNCHANGED <<worldVars, websites, status>>

----------------------------------------------------------------------------
(* WebsiteMonitor::check and Website.Check, which run after the services *)

Fetching == services = <<>> /\ websites # <<>>

(* curl_easy_init fails: the site is skipped. *)
SkipSite ==
  /\ Fetching
  /\ agent = "cpp"
  /\ websites' = Tail(websites)
  /\ cut' = cut \cup {Head(websites)}
  /\ UNCHANGED <<worldVars, services, childVars, reported>>

(* The transfer ends within its timeout: with a status below 400, with    *)
(* another, or with an error, which a site that is up may cause as well.   *)
Fetch ==
  /\ Fetching
  /\ websites' = Tail(websites)
  /\ \/ /\ ~cancelled /\ Head(websites) \in up
        /\ UNCHANGED <<reported, cut>>
     \/ /\ ~cancelled /\ Head(websites) \notin up
        /\ reported' = Append(reported, Head(websites))
        /\ UNCHANGED cut
     \/ /\ reported' = Append(reported, Head(websites))
        /\ cut' = cut \cup {Head(websites)}
  /\ UNCHANGED <<worldVars, services, childVars>>

Probed == services = <<>> /\ websites = <<>>

----------------------------------------------------------------------------

Service == ForkFails \/ Fork \/ Exec \/ Answer \/ Killed \/ Wait \/ WaitFails

ProbeNext == Change \/ Cancel \/ Service \/ SkipSite \/ Fetch

(* The agent and its child are scheduled, curl has a timeout, and systemd  *)
(* answers systemctl: nothing in the code bounds that wait.                *)
ProbeFairness ==
  /\ WF_probeVars(Service)
  /\ WF_probeVars(SkipSite \/ Fetch)

----------------------------------------------------------------------------
Alerted == {reported[i] : i \in DOMAIN reported}

(* Whatever changes meanwhile and whatever fails, a target that is down    *)
(* during the whole check is reported by it, unless it is a site for which *)
(* the C++ agent got no handle.                                            *)
NoOutageMissed ==
  Probed =>
    \A t \in Targets \ wasUp :
      \/ t \in Alerted
      \/ agent = "cpp" /\ t \in cut \cap {Websites[i] : i \in DOMAIN Websites}

(* A target that is up during the whole check is reported only if it could *)
(* not be asked: no fork, no systemctl, a killed child, a failed transfer. *)
(* Every target is reported once at most.                                  *)
AlarmsExplained ==
  /\ \A t \in Alerted : t \in wasDown \cup cut
  /\ \A i, j \in DOMAIN reported : i # j => reported[i] # reported[j]

(* The inductive invariant: what is left to ask and to fetch is the end of *)
(* the configuration; the beginning was up at some time, or is reported;   *)
(* and a child knows what there was to know of the service it asks for.    *)
Asked == Len(Services) - Len(services)
Fetched == Len(Websites) - Len(websites)

ProbeTypeOK ==
  /\ agent \in {"cpp", "go"}
  /\ services \in Seq(Targets) /\ websites \in Seq(Targets)
  /\ reported \in Seq(Targets)
  /\ up \subseteq Targets
  /\ child \in {"none", "forked", "asking", "dead"}
  /\ status \in {"active", "inactive", "killed"}

Remainders ==
  /\ Asked >= 0 /\ Fetched >= 0
  /\ \A i \in DOMAIN services : services[i] = Services[Asked + i]
  /\ \A i \in DOMAIN websites : websites[i] = Websites[Fetched + i]

Handled ==
  {Services[i] : i \in 1..Asked} \cup {Websites[i] : i \in 1..Fetched}

Settled ==
  /\ Alerted \subseteq Handled
  /\ \A i \in 1..Asked : Services[i] \in wasUp \cup Alerted
  /\ \A i \in 1..Fetched :
       \/ Websites[i] \in wasUp \cup Alerted
       \/ agent = "cpp" /\ Websites[i] \in cut

WorldKnown == up \subseteq wasUp /\ Targets \ up \subseteq wasDown

ChildKnows ==
  /\ child # "none" => services # <<>>
  /\ child = "dead" => IF status = "active" THEN Head(services) \in wasUp
                       ELSE Head(services) \in wasDown \cup cut

ProbeIInv ==
  /\ ProbeTypeOK
  /\ Remainders
  /\ Settled
  /\ WorldKnown
  /\ ChildKnows
  /\ AlarmsExplained

(* Both checks come to their end, if systemd answers. *)
CheckEnds == <>Probed
=============================================================================
