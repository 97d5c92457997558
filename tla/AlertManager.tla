---------------------------- MODULE AlertManager ----------------------------
(***************************************************************************)
(* AlertManager (src/alert/AlertManager.cpp) between the monitors and the  *)
(* chat, over restarts of the agent: the cooldown of CooldownManager, the  *)
(* choice of a forum topic, and the notifier, here a queue whose messages  *)
(* are each tried once (TelegramQueue shows that it is one).  A restart    *)
(* forgets the cooldowns; one that follows a crash loses the queue too.    *)
(* The Go agent's manager is asked about the same alerts, and restarted    *)
(* at the same moments, in lockstep (CooldownParity).                      *)
(***************************************************************************)
EXTENDS CooldownParity

CONSTANTS
  Topics,       \* thread ids; Config::validate wants them positive
  Routes,       \* the values alert_threads may have: key |-> thread id
  General,      \* the chat itself: no thread id
  MaxRestarts   \* bound on the restarts

Groups == {"resource", "service", "website", "ssh", "web"}

ASSUME ManagerAssumption ==
  /\ \A route \in Routes :
       /\ DOMAIN route \subseteq AlertTypes \cup Groups \cup {"default"}
       /\ route \in [DOMAIN route -> Topics]
  /\ General \notin Topics
  /\ MaxRestarts \in Nat

VARIABLES
  alertThreads,     \* Config::telegram.alert_threads
  defaultThread,    \* Config::telegram.default_thread_id
  configured,       \* the notifier has a token and a chat
  inbox,            \* the notifier's messages not tried yet
  chat,             \* history: the messages posted
  missed,           \* history: the messages that were refused, failed or lost
  life              \* history: restarts so far

configVars == <<alertThreads, defaultThread, configured>>
messageVars == <<inbox, chat, missed>>
managerVars == <<parityVars, configVars, messageVars, life>>

(* The group of a type: of every type, there is one. *)
Category(type) ==
  CASE type \in {"ram_high", "disk_high", "load_high"} -> "resource"
    [] type = "service_down"                           -> "service"
    [] type = "website_down"                           -> "website"
    [] type \in {"ssh_login", "ssh_bruteforce"}        -> "ssh"
    [] type \in {"web_scan", "web_rate", "web_404"}    -> "web"

(* Variant: the group is looked up first. *)
FindGroupFirst(type) ==
  CASE Category(type) \in DOMAIN alertThreads -> alertThreads[Category(type)]
    [] Category(type) \notin DOMAIN alertThreads /\ type \in DOMAIN alertThreads
         -> alertThreads[type]
    [] OTHER -> IF "default" \in DOMAIN alertThreads
                THEN alertThreads["default"] ELSE defaultThread

FindThreadId(type) ==
  LET has(key) == key \in DOMAIN alertThreads
  IN  CASE has(type)                              -> alertThreads[type]
        [] ~has(type) /\ has(Category(type)) -> alertThreads[Category(type)]
        [] OTHER -> IF has("default") THEN alertThreads["default"]
                    ELSE defaultThread

ManagerInit ==
  /\ ParityInit
  /\ alertThreads \in Routes
  /\ defaultThread \in Topics \cup {General}
  /\ configured \in BOOLEAN
  /\ inbox = <<>>
  /\ chat = <<>>
  /\ missed = <<>>
  /\ life = 0

----------------------------------------------------------------------------
Message(id) ==
  [id |-> id, at |-> now, life |-> life, thread |-> FindThreadId(id[1])]

(* Variant: a message finds room only in an empty queue. *)
ForwardIfIdle(id) ==
  /\ SendUnlimited(id) \/ SendDue(id)
  /\ inbox' = IF configured /\ inbox = <<>> THEN <<Message(id)>> ELSE inbox
  /\ UNCHANGED <<configVars, chat, missed, life>>

(* handle, for an alert the cooldown lets through: it counts as sent,      *)
(* whether the notifier takes it or refuses it.                            *)
Forward(id) ==
  /\ SendUnlimited(id) \/ SendDue(id)
  /\ IF configured
     THEN inbox' = Append(inbox, Message(id)) /\ UNCHANGED missed
     ELSE missed' = Append(missed, Message(id)) /\ UNCHANGED inbox
  /\ UNCHANGED <<configVars, chat, life>>

Withhold(id) ==
  /\ Suppress(id)
  /\ UNCHANGED <<configVars, messageVars, life>>

HandleAlert(id) ==
  /\ Forward(id) \/ Withhold(id)
  /\ GoShouldSend(id)
  /\ agreed' = (agreed /\ (GoWithholds(id) <=> sent' = sent))

(* Variant: a message that is not delivered is put back for another try. *)
DeliverOrRetry ==
  /\ inbox # <<>>
  /\ \/ chat' = Append(chat, Head(inbox)) /\ inbox' = Tail(inbox)
     \/ inbox' = Append(Tail(inbox), Head(inbox)) /\ chat' = chat
  /\ UNCHANGED <<parityVars, configVars, missed, life>>

(* The worker's one try of the oldest message. *)
Deliver ==
  /\ inbox # <<>>
  /\ inbox' = Tail(inbox)
  /\ \/ chat' = Append(chat, Head(inbox)) /\ UNCHANGED missed
     \/ missed' = Append(missed, Head(inbox)) /\ UNCHANGED chat
  /\ UNCHANGED <<parityVars, configVars, life>>

(* The process ends, with a queue that is drained or not, and starts again *)
(* (Restart=always): last_sent_ is empty, and so is the queue.             *)
Restart ==
  /\ life < MaxRestarts
  /\ life' = life + 1
  /\ lastSent' = [id \in {} |-> 0]
  /\ sentAt' = [id \in {} |-> 0]
  /\ sent' = <<>>
  /\ suppressed' = <<>>
  /\ inbox' = <<>>
  /\ missed' = missed \o inbox
  /\ UNCHANGED <<now, agreed, configVars, chat>>

ManagerNext ==
  \/ Tick /\ UNCHANGED <<sentAt, agreed, configVars, messageVars, life>>
  \/ \E id \in Ids :
       /\ Len(inbox) + Len(chat) + Len(missed) + Len(suppressed) < MaxAlerts
       /\ HandleAlert(id)
  \/ Deliver
  \/ Restart

ManagerSpec == ManagerInit /\ [][ManagerNext]_managerVars

----------------------------------------------------------------------------
Messages == [id : Ids, at : Time, life : 0..MaxRestarts,
             thread : Topics \cup {General}]

(* Type invariant. *)
ManagerTypeOK ==
  /\ CooldownTypeOK
  /\ alertThreads \in Routes
  /\ defaultThread \in Topics \cup {General}
  /\ configured \in BOOLEAN
  /\ inbox \in Seq(Messages) /\ chat \in Seq(Messages) /\ missed \in Seq(Messages)
  /\ life \in 0..MaxRestarts

(* The chat is not spammed: two messages about one limited identity were   *)
(* raised its cooldown apart, in whatever order they and others were       *)
(* queued, tried and lost, unless the agent was restarted in between.      *)
ChatSpaced ==
  \A i, j \in 1..Len(chat) :
    i < j /\ chat[i].id = chat[j].id /\ chat[i].life = chat[j].life
          /\ ~Unlimited(chat[i].id)
      => chat[j].at - chat[i].at >= CooldownSecondsFor(chat[i].id[1])

(* Every message that was forwarded, whatever became of it. *)
Contents(box) == {box[i] : i \in 1..Len(box)}
Forwarded == Contents(inbox) \cup Contents(chat) \cup Contents(missed)

(* An alert is withheld for the sake of a message that was forwarded less  *)
(* than the cooldown before: it is in the chat, or on its way there, or it *)
(* is one of those that were refused or failed, for which nothing makes    *)
(* up.  It is never one that an earlier life of the agent forwarded.       *)
WithheldHasReason ==
  \A i \in 1..Len(suppressed) :
    \E m \in Forwarded :
      /\ m.id = suppressed[i].id
      /\ m.life = life
      /\ suppressed[i].at - m.at < CooldownSecondsFor(m.id[1])

(* What docs/telegram.md:96 says of a topic: the most specific route of    *)
(* the alert's type is taken, and the default thread if it has none.       *)
Specificity(type) == <<type, Category(type), "default">>

RoutedBySpecificity ==
  \A i \in 1..Len(chat) :
    LET routes == Specificity(chat[i].id[1])
        given  == {k \in 1..3 : routes[k] \in DOMAIN alertThreads}
    IN  IF given = {} THEN chat[i].thread = defaultThread
        ELSE \E k \in given :
               /\ \A other \in given : k <= other
               /\ chat[i].thread = alertThreads[routes[k]]
----------------------------------------------------------------------------
(* The inductive invariant: last_sent_ remembers exactly what this life    *)
(* forwarded, and messages of one identity are apart wherever they are.    *)
Apart(m, n) ==
  m.id = n.id /\ m.life = n.life /\ ~Unlimited(m.id)
    => n.at - m.at >= CooldownSecondsFor(m.id[1])

MapIsForwarded ==
  \A id \in DOMAIN lastSent :
    \E m \in Forwarded : m.id = id /\ m.life = life /\ m.at = lastSent[id]

ForwardedIsMapped ==
  \A m \in Forwarded :
    /\ m.life <= life
    /\ m.thread = FindThreadId(m.id[1])
    /\ m.life = life /\ ~Unlimited(m.id)
         => m.id \in DOMAIN lastSent /\ m.at <= lastSent[m.id]

QueueSpaced ==
  /\ \A i, j \in 1..Len(inbox) : i < j => Apart(inbox[i], inbox[j])
  /\ \A i \in 1..Len(chat), j \in 1..Len(inbox) : Apart(chat[i], inbox[j])

ManagerIInv ==
  /\ ManagerTypeOK
  /\ CooldownIInv
  /\ MapIsForwarded
  /\ ForwardedIsMapped
  /\ QueueSpaced
  /\ ChatSpaced
  /\ WithheldHasReason
=============================================================================
