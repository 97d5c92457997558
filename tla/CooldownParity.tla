--------------------------- MODULE CooldownParity ---------------------------
(***************************************************************************)
(* The cooldown of the Go agent (agent-go/internal/alert/cooldown.go) run  *)
(* in lockstep with the C++ one: both managers start empty, have the same  *)
(* configuration and clock, and are asked about the same alerts.           *)
(***************************************************************************)
EXTENDS CooldownManager

VARIABLES
  sentAt,       \* CooldownManager.sentAt of the Go agent
  agreed        \* history: the two have always given the same answer

parityVars == <<cooldownVars, sentAt, agreed>>

ParityInit ==
  /\ CooldownInit
  /\ sentAt = [id \in {} |-> 0]
  /\ agreed = TRUE

(* Variant: the Go agent takes every cooldown from the default class. *)
DefaultDuration(type) == Cooldowns["default"]

(* duration: the switch over the type, and a cooldown that is not positive *)
(* counts as 900 seconds.                                                  *)
Seconds(type) ==
  CASE type = "website_down"   -> Cooldowns["website"]
    [] type = "service_down"   -> Cooldowns["service"]
    [] type = "ssh_bruteforce" -> Cooldowns["ssh_bruteforce"]
    [] type \in {"ram_high", "disk_high", "load_high"} -> Cooldowns["resource"]
    [] type \in {"web_scan", "web_rate", "web_404"}    -> Cooldowns["web_scan"]
    [] OTHER                   -> Cooldowns["default"]

Duration(type) == IF Seconds(type) <= 0 THEN 900 ELSE Seconds(type)

GoWithholds(id) ==
  /\ ~Bypass(id[1])
  /\ id \in DOMAIN sentAt
  /\ now - sentAt[id] < Duration(id[1])

(* ShouldSend: every alert let through is remembered, unless it bypasses. *)
GoShouldSend(id) ==
  sentAt' = IF Bypass(id[1]) \/ GoWithholds(id) THEN sentAt
            ELSE [i \in DOMAIN sentAt \cup {id} |->
                    IF i = id THEN now ELSE sentAt[i]]

(* One alert, raised in both agents at the same time. *)
RaiseInBoth(id) ==
  /\ Len(sent) < MaxAlerts /\ Len(suppressed) < MaxAlerts
  /\ ShouldSend(id)
  /\ GoShouldSend(id)
  /\ agreed' = (agreed /\ (GoWithholds(id) <=> sent' = sent))

ParityNext ==
  \/ Tick /\ UNCHANGED <<sentAt, agreed>>
  \/ \E id \in Ids : RaiseInBoth(id)

ParitySpec == ParityInit /\ [][ParityNext]_parityVars

----------------------------------------------------------------------------
(* The two agents give the same answer to every alert: what one sends the  *)
(* other sends, what one withholds the other withholds.                    *)
(* agent-go/README.md:91 says the Go agent "currently targets feature      *)
(* parity with the C++ agent".                                             *)
SameAnswers == agreed

(* What this rests on, when no cooldown is switched off: both remember the *)
(* same alerts.                                                            *)
SameRecord == sentAt = lastSent
ParityIInv == SameAnswers /\ SameRecord
=============================================================================
