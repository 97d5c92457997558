--------------------------- MODULE AlertChannel ---------------------------
(***************************************************************************)
(* What the asynchronous Telegram notifier promises the code that calls    *)
(* it, without threads, locks or condition variables: a first-in first-out *)
(* channel that takes numbered alerts, tries each of them exactly once in  *)
(* the order they were taken (a try may or may not put the alert in the    *)
(* chat), and closes only when nothing it took is still untried.           *)
(***************************************************************************)
EXTENDS Naturals, Sequences

CONSTANT MaxMessages        \* bound on the alerts taken

VARIABLES
  accepted,                 \* alerts taken so far: they are 1..accepted
  attempted,                \* alerts tried so far: they are 1..attempted
  chat,                     \* the alerts that reached the chat, in order
  phase                     \* "open", "closing" or "closed"

channelVars == <<accepted, attempted, chat, phase>>

ChannelInit ==
  /\ accepted = 0
  /\ attempted = 0
  /\ chat = <<>>
  /\ phase = "open"

Accept ==
  /\ phase = "open"
  /\ accepted < MaxMessages
  /\ accepted' = accepted + 1
  /\ UNCHANGED <<attempted, chat, phase>>

(* One try of the oldest alert not tried yet; there is no second try. *)
Attempt ==
  /\ attempted < accepted
  /\ attempted' = attempted + 1
  /\ chat' \in {chat, Append(chat, attempted + 1)}
  /\ UNCHANGED <<accepted, phase>>

BeginClose ==
  /\ phase = "open"
  /\ phase' = "closing"
  /\ UNCHANGED <<accepted, attempted, chat>>

FinishClose ==
  /\ phase = "closing"
  /\ attempted = accepted
  /\ phase' = "closed"
  /\ UNCHANGED <<accepted, attempted, chat>>

ChannelNext == Accept \/ Attempt \/ BeginClose \/ FinishClose

ChannelSafety == ChannelInit /\ [][ChannelNext]_channelVars

ChannelSpec ==
  /\ ChannelSafety
  /\ WF_channelVars(Attempt)
  /\ WF_channelVars(FinishClose)
===========================================================================
