------------------------ MODULE TelegramQueueProofs ------------------------
(***************************************************************************)
(* Safety of TelegramQueue for every MaxMessages: the inductive invariant  *)
(* IInv, the properties that follow from it, and the refinement of the     *)
(* safety part of AlertChannel.                                            *)
(***************************************************************************)
EXTENDS TelegramQueue, SequenceFacts, TLAPS

USE MaxMessagesAssumption

(* The initial states satisfy the inductive invariant. *)
LEMMA InitIInv == Init => IInv
<1> SUFFICES ASSUME Init PROVE IInv
  OBVIOUS
<1>1. TypeOK
  <2>1. <<>> \in Seq(Messages)
    OBVIOUS
  <2>2. worker \in WorkerStates
    <3>1. CASE configured
      BY <3>1 DEF Init, WorkerStates
    <3>2. CASE ~configured
      BY <3>2 DEF Init, WorkerStates
    <3> QED
      BY <3>1, <3>2
  <2>3. configured \in BOOLEAN /\ stopping \in BOOLEAN
    BY Zenon DEF Init
  <2> QED
    BY <2>1, <2>2, <2>3 DEF Init, TypeOK, OwnerStates
<1>2. LockDiscipline /\ Phases /\ WorkerLocals /\ NoLostWakeup
  BY DEF Init, LockDiscipline, Phases, WorkerLocals, NoLostWakeup
<1>3. Accounting /\ ChatInOrder
  BY DEF Init, Accounting, ChatInOrder
<1> QED
  BY <1>1, <1>2, <1>3 DEF IInv

(* Every step keeps the types, the lock discipline, the order of the two   *)
(* threads' phases, and the promise that a sleeping worker will be woken.  *)
LEMMA NextControl ==
  IInv /\ [Next]_vars
    => TypeOK' /\ LockDiscipline' /\ Phases' /\ WorkerLocals' /\ NoLostWakeup'
<1> DEFINE Control == /\ TypeOK
                      /\ LockDiscipline
                      /\ Phases
                      /\ WorkerLocals
                      /\ NoLostWakeup
<1> SUFFICES ASSUME IInv, [Next]_vars PROVE Control'
  OBVIOUS
<1> USE DEF IInv, TypeOK, LockDiscipline, Phases, WorkerLocals, NoLostWakeup,
        OwnerStates, WorkerStates, WakeOne
<1>1. CASE Refuse
  BY <1>1 DEF Refuse
<1>2. CASE LockToPush
  BY <1>2 DEF LockToPush
<1>3. CASE Push
  <2>1. accepted + 1 \in Messages /\ accepted + 1 \in 0..MaxMessages
    BY <1>3 DEF Push, Messages
  <2>2. queue' \in Seq(Messages)
    BY <1>3, <2>1, AppendFacts DEF Push
  <2> QED
    BY <1>3, <2>1, <2>2 DEF Push
<1>4. CASE Notify
  BY <1>4 DEF Notify
<1>5. CASE LockToStop
  BY <1>5 DEF LockToStop
<1>6. CASE SetStopping
  BY <1>6 DEF SetStopping
<1>7. CASE NotifyStop
  BY <1>7 DEF NotifyStop
<1>8. CASE Join
  BY <1>8 DEF Join
<1>9. CASE LockWorker
  BY <1>9 DEF LockWorker
<1>10. CASE TestFails
  BY <1>10 DEF TestFails
<1>11. CASE Park
  BY <1>11 DEF Park
<1>12. CASE SpuriousWakeup
  BY <1>12 DEF SpuriousWakeup
<1>13. CASE Take
  <2>1. Head(queue) \in Messages /\ queue' \in Seq(Messages)
    BY <1>13, TailFacts DEF Take
  <2>2. Head(queue) = attempted + 1
    BY <1>13, TailFacts DEF Take, Accounting
  <2> QED
    BY <1>13, <2>1, <2>2 DEF Take
<1>14. CASE Exit
  BY <1>14 DEF Exit
<1>15. ASSUME NEW arrived \in BOOLEAN, FinishSend(arrived) PROVE Control'
  <2>1. Head(inflight) = attempted + 1 /\ Len(inflight) = 1
    BY <1>15 DEF FinishSend
  <2>2. attempted + 1 \in Messages /\ attempted + 1 \in 0..MaxMessages
    BY <2>1 DEF Accounting, Messages
  <2>3. chat' \in Seq(Messages)
    BY <1>15, <2>1, <2>2, AppendFacts DEF FinishSend
  <2>4. <<>> \in Seq(Messages)
    OBVIOUS
  <2> QED
    BY <1>15, <2>1, <2>2, <2>3, <2>4 DEF FinishSend
<1>16. CASE UNCHANGED vars
  BY <1>16 DEF vars
<1> QED
  BY <1>1, <1>2, <1>3, <1>4, <1>5, <1>6, <1>7, <1>8, <1>9, <1>10, <1>11,
     <1>12, <1>13, <1>14, <1>15, <1>16
     DEF Next, Enqueue, Destroy, Deliver, Worker

(* Every step keeps the account of the accepted messages and the chat's    *)
(* order; only Push, Take and FinishSend touch what these speak of.        *)
LEMMA NextData == IInv /\ [Next]_vars => Accounting' /\ ChatInOrder'
<1> SUFFICES ASSUME IInv, [Next]_vars PROVE Accounting' /\ ChatInOrder'
  OBVIOUS
<1>0. /\ queue \in Seq(Messages) /\ Len(queue) \in Nat
      /\ inflight \in Seq(Messages) /\ Len(inflight) \in Nat
      /\ chat \in Seq(Messages)
      /\ accepted \in 0..MaxMessages /\ attempted \in 0..MaxMessages
      /\ Accounting /\ ChatInOrder
  BY DEF IInv, TypeOK
<1>1. CASE Push
  <2>1. /\ accepted + 1 \in Messages
        /\ accepted + 1 = attempted + Len(inflight) + Len(queue) + 1
    BY <1>0, <1>1 DEF IInv, Push, Phases, Accounting, Messages
  <2>2. \A i \in 1..Len(queue') : queue'[i] = attempted + Len(inflight) + i
    <3> SUFFICES ASSUME NEW i \in 1..Len(queue')
                 PROVE  queue'[i] = attempted + Len(inflight) + i
      OBVIOUS
    <3>1. /\ Len(queue') = Len(queue) + 1
          /\ queue'[Len(queue) + 1] = accepted + 1
          /\ \A k \in 1..Len(queue) : queue'[k] = queue[k]
      BY <1>0, <1>1, <2>1, AppendFacts DEF Push
    <3>2. CASE i = Len(queue) + 1
      BY <1>0, <2>1, <3>1, <3>2
    <3>3. CASE i \in 1..Len(queue)
      BY <1>0, <3>1, <3>3 DEF Accounting
    <3> QED
      BY <1>0, <3>1, <3>2, <3>3
  <2>3. Len(queue') = Len(queue) + 1
    BY <1>0, <1>1, <2>1, AppendFacts DEF Push
  <2> QED
    BY <1>0, <1>1, <2>1, <2>2, <2>3 DEF Push, Accounting, ChatInOrder
<1>2. CASE Take
  <2>1. inflight = <<>>
    BY <1>2 DEF Take, IInv, WorkerLocals
  <2>2. /\ Head(queue) = queue[1]
        /\ Len(queue) \in Nat \ {0}
        /\ Len(queue') = Len(queue) - 1
        /\ \A i \in 1..Len(queue') : queue'[i] = queue[i + 1]
    BY <1>0, <1>2, TailFacts DEF Take
  <2>3. /\ Len(inflight') = 1
        /\ inflight'[1] = attempted + 1
    BY <1>0, <1>2, <2>1, <2>2 DEF Take, Accounting
  <2>4. \A i \in 1..Len(queue') : queue'[i] = attempted + 1 + i
    BY <1>0, <2>1, <2>2 DEF Accounting
  <2> QED
    BY <1>0, <1>2, <2>1, <2>2, <2>3, <2>4 DEF Take, Accounting, ChatInOrder
<1>3. ASSUME NEW arrived \in BOOLEAN, FinishSend(arrived)
      PROVE  Accounting' /\ ChatInOrder'
  <2>1. /\ Head(inflight) = attempted + 1
        /\ Len(inflight) = 1
        /\ attempted + 1 <= accepted
    BY <1>0, <1>3 DEF FinishSend, IInv, WorkerLocals, Accounting
  <2>2. Accounting'
    BY <1>0, <1>3, <2>1 DEF FinishSend, Accounting
  <2>5. attempted' = attempted + 1
    BY <1>3 DEF FinishSend
  <2>3. CASE chat' = chat
    <3>1. ASSUME NEW i \in 1..Len(chat) PROVE chat[i] <= attempted + 1
      <4>1. chat[i] \in Nat /\ chat[i] <= attempted
        BY <1>0 DEF ChatInOrder, Messages
      <4> QED
        BY <1>0, <4>1
    <3> QED
      BY <1>0, <2>2, <2>3, <2>5, <3>1 DEF ChatInOrder
  <2>4. CASE chat' = Append(chat, attempted + 1)
    <3>1. attempted \in Nat /\ attempted + 1 \in 1..MaxMessages
      BY <1>0, <2>1
    <3>2. /\ \A i \in 1..Len(chat') : chat'[i] <= attempted + 1
          /\ \A i, j \in 1..Len(chat') : i < j => chat'[i] < chat'[j]
      BY <1>0, <2>4, <3>1, AppendLarger DEF ChatInOrder, Messages
    <3> QED
      BY <2>2, <2>5, <3>2 DEF ChatInOrder
  <2> QED
    BY <1>3, <2>1, <2>2, <2>3, <2>4 DEF FinishSend
<1>4. CASE UNCHANGED <<queue, inflight, accepted, attempted, chat>>
  BY <1>0, <1>4 DEF Accounting, ChatInOrder
<1>5. CASE UNCHANGED vars
  BY <1>4, <1>5 DEF vars
<1> QED
  BY <1>1, <1>2, <1>3, <1>4, <1>5
     DEF Next, Enqueue, Destroy, Deliver, Worker, Refuse, LockToPush, Notify,
         LockToStop, SetStopping, NotifyStop, Join, LockWorker, TestFails, Park,
         SpuriousWakeup, Exit
(* The inductive invariant holds in every reachable state. *)
THEOREM InductiveInvariant == Safety => []IInv
<1>1. IInv /\ [Next]_vars => IInv'
  BY NextControl, NextData DEF IInv
<1> QED
  BY InitIInv, <1>1, PTL DEF Safety

(* Every variable keeps its type, whatever the number of alerts. *)
THEOREM TypeCorrect == Spec => []TypeOK
<1>1. IInv => TypeOK
  BY DEF IInv
<1> QED
  BY InductiveInvariant, <1>1, PTL DEF Spec

(* enqueue and ~State notify outside the mutex, and yet no wakeup is lost: *)
(* a worker that sleeps with work to do has a notify_one on its way.       *)
THEOREM WakeupNotLost == Spec => []NoLostWakeup
<1>1. IInv => NoLostWakeup
  BY DEF IInv
<1> QED
  BY InductiveInvariant, <1>1, PTL DEF Spec

(* Tried, in flight and queued messages are the accepted ones in order. *)
THEOREM AllAccountedFor == Spec => []Accounting
<1>1. IInv => Accounting
  BY DEF IInv
<1> QED
  BY InductiveInvariant, <1>1, PTL DEF Spec

(* The chat shows the alerts in the order they were raised, none twice. *)
THEOREM ChatOrdered == Spec => []ChatInOrder
<1>1. IInv => ChatInOrder
  BY DEF IInv
<1> QED
  BY InductiveInvariant, <1>1, PTL DEF Spec

(* A worker that is gone, or was never started, leaves nothing untried. *)
LEMMA WorkerGone ==
  ASSUME IInv, worker \in {"exited", "none"}
  PROVE  attempted = accepted /\ queue = <<>> /\ inflight = <<>>
<1>2. inflight = <<>>
  BY DEF IInv, WorkerLocals
<1>3. queue \in Seq(Messages) /\ accepted \in Nat /\ attempted \in Nat
  BY DEF IInv, TypeOK
<1>4. Len(queue) \in Nat /\ Len(inflight) = 0
  BY <1>2, <1>3
<1>5. accepted = attempted + Len(queue)
  BY <1>3, <1>4 DEF IInv, Accounting
<1>6. CASE worker = "exited"
  BY <1>2, <1>3, <1>5, <1>6 DEF IInv, Phases
<1>7. CASE worker = "none"
  <2>1. accepted = 0
    BY <1>7 DEF IInv, Phases
  <2>2. attempted = 0 /\ Len(queue) = 0
    BY <1>3, <1>4, <1>5, <2>1
  <2> QED
    BY <1>2, <1>3, <2>1, <2>2
<1> QED
  BY <1>6, <1>7

(* ~State drains the queue before it returns. *)
THEOREM DestructorDrains == Spec => []Drained
<1>1. ASSUME IInv PROVE Drained
  <2>1. owner = "gone" => worker \in {"exited", "none"}
    BY <1>1 DEF IInv, Phases
  <2> QED
    BY <1>1, <2>1, WorkerGone DEF Drained
<1> QED
  BY InductiveInvariant, <1>1, PTL DEF Spec

----------------------------------------------------------------------------
(* Refinement *)

(* Each step of the notifier is a step of the channel or leaves it alone. *)
LEMMA NextRefines ==
  ASSUME IInv, [Next]_vars
  PROVE  [Channel!ChannelNext]_(Channel!channelVars)
<1> USE DEF Channel!ChannelNext, Channel!channelVars
<1>1. CASE Push
  <2>1. ChannelPhase = "open" /\ ChannelPhase' = "open"
    BY <1>1 DEF Push, ChannelPhase, IInv, Phases
  <2>2. accepted < MaxMessages
    BY <1>1 DEF Push, IInv, Phases
  <2> QED
    BY <1>1, <2>1, <2>2 DEF Push, Channel!Accept
<1>2. ASSUME NEW arrived \in BOOLEAN, FinishSend(arrived)
      PROVE  Channel!Attempt
  <2>1. Head(inflight) = attempted + 1 /\ attempted < accepted
    BY <1>2 DEF FinishSend, IInv, TypeOK, WorkerLocals, Accounting
  <2>2. ChannelPhase' = ChannelPhase
    BY <1>2 DEF FinishSend, ChannelPhase
  <2> QED
    BY <1>2, <2>1, <2>2 DEF FinishSend, Channel!Attempt
<1>3. CASE SetStopping
  <2>1. ChannelPhase = "open" /\ ChannelPhase' = "closing"
    BY <1>3 DEF SetStopping, ChannelPhase, IInv, Phases
  <2> QED
    BY <1>3, <2>1 DEF SetStopping, Channel!BeginClose
<1>4. CASE Join
  <2>1. ChannelPhase = "closing" /\ ChannelPhase' = "closed"
    BY <1>4 DEF Join, ChannelPhase, IInv, Phases
  <2>2. attempted = accepted
    BY <1>4, WorkerGone DEF Join
  <2> QED
    BY <1>4, <2>1, <2>2 DEF Join, Channel!FinishClose
<1>5. CASE /\ UNCHANGED <<accepted, attempted, chat, stopping>>
           /\ owner' = "gone" <=> owner = "gone"
  BY <1>5 DEF ChannelPhase
<1>6. CASE UNCHANGED vars
  BY <1>5, <1>6 DEF vars
<1> QED
  BY <1>1, <1>2, <1>3, <1>4, <1>5, <1>6
     DEF Next, Enqueue, Destroy, Deliver, Worker, Refuse, LockToPush, Notify,
         LockToStop, NotifyStop, LockWorker, TestFails, Park,
         SpuriousWakeup, Take, Exit

(* The notifier with its two threads implements the safety part of the     *)
(* channel: first in, first out, each alert tried once, closed only empty. *)
THEOREM RefinesChannel == Spec => Channel!ChannelSafety
<1>1. Init => Channel!ChannelInit
  BY DEF Init, Channel!ChannelInit, ChannelPhase
<1>2. IInv /\ [Next]_vars => [Channel!ChannelNext]_(Channel!channelVars)
  BY NextRefines
<1> QED
  BY InductiveInvariant, <1>1, <1>2, PTL DEF Spec, Safety, Channel!ChannelSafety
============================================================================
