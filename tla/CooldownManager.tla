-------------------------- MODULE CooldownManager --------------------------
(***************************************************************************)
(* CooldownManager of src/alert/CooldownManager.cpp: the decision whether  *)
(* an alert is sent or suppressed, per identity type:key, on a clock that  *)
(* never goes back (std::chrono::steady_clock).  The alerts raised are any *)
(* sequence the monitors can produce.                                      *)
(***************************************************************************)
EXTENDS Integers, Sequences

CONSTANTS
  Cooldowns,    \* Config::cooldowns: seconds, nothing keeps them positive
  Types,        \* the alert types raised
  Keys,         \* the keys (paths, services, addresses) they are raised for
  MaxTime,      \* bound on the clock
  MaxAlerts     \* bound on the alerts sent, and on those suppressed

AlertTypes == {"ram_high", "disk_high", "load_high", "website_down",
               "service_down", "ssh_bruteforce", "ssh_login",
               "web_scan", "web_rate", "web_404"}

ASSUME CooldownAssumption ==
  /\ Cooldowns \in [{"default", "resource", "website", "service",
                     "ssh_bruteforce", "web_scan"} -> Int]
  /\ Types \subseteq AlertTypes
  /\ MaxTime \in Nat
  /\ MaxAlerts \in Nat

VARIABLES
  now,          \* steadyNow(), in seconds
  lastSent,     \* CooldownManager::last_sent_
  sent,         \* history: the alerts that were let through, with their time
  suppressed    \* history: the alerts that were not

cooldownVars == <<now, lastSent, sent, suppressed>>

Ids == Types \X Keys
Time == 0..MaxTime
Records == [id : Ids, at : Time]

(* Only a successful login is raised with bypass_cooldown set. *)
Bypass(type) == type = "ssh_login"

(* The class of a type; a type the code does not name has the default. *)
CooldownSecondsFor(type) ==
  CASE type \in {"ram_high", "disk_high", "load_high"} -> Cooldowns["resource"]
    [] type = "website_down"                           -> Cooldowns["website"]
    [] type = "service_down"                           -> Cooldowns["service"]
    [] type = "ssh_bruteforce"                   -> Cooldowns["ssh_bruteforce"]
    [] type \in {"web_scan", "web_rate", "web_404"}    -> Cooldowns["web_scan"]
    [] OTHER                                           -> Cooldowns["default"]

CooldownInit ==
  /\ now = 0
  /\ lastSent = [id \in {} |-> 0]
  /\ sent = <<>>
  /\ suppressed = <<>>

Tick ==
  /\ now < MaxTime
  /\ now' = now + 1
  /\ UNCHANGED <<lastSent, sent, suppressed>>

----------------------------------------------------------------------------
(* shouldSend *)

Record(id) == [id |-> id, at |-> now]

(* A bypassing alert, or one whose cooldown is not positive, is sent       *)
(* without a look at, or a trace in, last_sent_.                           *)
Unlimited(id) == Bypass(id[1]) \/ CooldownSecondsFor(id[1]) <= 0

SendUnlimited(id) ==
  /\ Unlimited(id)
  /\ sent' = Append(sent, Record(id))
  /\ UNCHANGED <<now, lastSent, suppressed>>

(* Never sent before, or long enough ago. *)
Due(id) ==
  id \in DOMAIN lastSent => now - lastSent[id] >= CooldownSecondsFor(id[1])

SendDue(id) ==
  /\ ~Unlimited(id)
  /\ Due(id)
  /\ lastSent' = [i \in DOMAIN lastSent \cup {id} |->
                    IF i = id THEN now ELSE lastSent[i]]
  /\ sent' = Append(sent, Record(id))
  /\ UNCHANGED <<now, suppressed>>

Suppress(id) ==
  /\ ~Unlimited(id)
  /\ ~Due(id)
  /\ suppressed' = Append(suppressed, Record(id))
  /\ UNCHANGED <<now, lastSent, sent>>

ShouldSend(id) == SendUnlimited(id) \/ SendDue(id) \/ Suppress(id)

CooldownNext ==
  \/ Tick
  \/ \E id \in Ids :
       /\ Len(sent) < MaxAlerts /\ Len(suppressed) < MaxAlerts
       /\ ShouldSend(id)

CooldownSpec == CooldownInit /\ [][CooldownNext]_cooldownVars

----------------------------------------------------------------------------
(* Type invariant; the map holds only identities that are limited. *)
CooldownTypeOK ==
  /\ now \in Time
  /\ DOMAIN lastSent \subseteq {id \in Ids : ~Unlimited(id)}
  /\ lastSent \in [DOMAIN lastSent -> Time]
  /\ sent \in Seq(Records)
  /\ suppressed \in Seq(Records)

(* Two alerts of one limited identity are let through at least its         *)
(* cooldown apart, however the alerts of other identities, the clock and   *)
(* the suppressions interleave.                                            *)
Spacing ==
  \A i, j \in 1..Len(sent) :
    i < j /\ sent[i].id = sent[j].id /\ ~Unlimited(sent[i].id)
      => sent[j].at - sent[i].at >= CooldownSecondsFor(sent[i].id[1])

(* An alert is withheld only if the same identity was let through less     *)
(* than its cooldown before: no alert is withheld because of another key,  *)
(* another type of the same class, or a suppressed alert, and no login     *)
(* alert is withheld at all.                                               *)
SuppressionJustified ==
  \A i \in 1..Len(suppressed) :
    /\ ~Unlimited(suppressed[i].id)
    /\ \E j \in 1..Len(sent) :
         /\ sent[j].id = suppressed[i].id
         /\ sent[j].at <= suppressed[i].at
         /\ suppressed[i].at - sent[j].at < CooldownSecondsFor(sent[j].id[1])
----------------------------------------------------------------------------
(* The inductive invariant: last_sent_ holds, for every limited identity   *)
(* that was let through, the time of the last such alert.                  *)
MapIsLastSent ==
  /\ \A i \in 1..Len(sent) :
       ~Unlimited(sent[i].id)
         => /\ sent[i].id \in DOMAIN lastSent
            /\ sent[i].at <= lastSent[sent[i].id]
  /\ \A id \in DOMAIN lastSent :
       /\ lastSent[id] <= now
       /\ \E i \in 1..Len(sent) : sent[i] = [id |-> id, at |-> lastSent[id]]

CooldownIInv ==
  /\ CooldownTypeOK
  /\ MapIsLastSent
  /\ Spacing
  /\ SuppressionJustified
============================================================================
