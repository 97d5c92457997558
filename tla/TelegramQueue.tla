--------------------------- MODULE TelegramQueue ---------------------------
(***************************************************************************)
(* TelegramNotifier::State of src/alert/TelegramNotifier.cpp: the queue    *)
(* between the thread that produces alerts (the owner: the main thread,    *)
(* which enqueues and finally destroys the State) and the background       *)
(* worker that posts them.  A step is what happens between two points      *)
(* where the other thread can interfere: taking the mutex, one critical    *)
(* section, notify_one (called after the mutex is released), blocking in   *)
(* cv.wait, one curl request, the join.                                    *)
(*                                                                         *)
(* Messages are numbered in the order enqueue accepts them, so a loss, a   *)
(* duplicate or a reordering is visible; text and thread id are not        *)
(* modelled.                                                               *)
(***************************************************************************)
EXTENDS Naturals, Sequences

CONSTANT MaxMessages        \* bound on the calls of enqueue

ASSUME MaxMessagesAssumption == MaxMessages \in Nat

VARIABLES
  configured,   \* both environment variables were set when State was built
  mutex,        \* who holds State::mutex: "free", "owner" or "worker"
  queue,        \* State::queue
  stopping,     \* State::stopping
  owner,        \* where the owner is inside enqueue or ~State
  worker,       \* where the worker is inside run()
  inflight,     \* run()'s local `message`: <<>> or a sequence of one message
  accepted,     \* history: messages enqueue has pushed
  refused,      \* history: enqueue calls that returned false
  attempted,    \* history: performSend calls that have returned
  chat          \* history: what reached the Telegram chat, in order

vars == <<configured, mutex, queue, stopping, owner, worker, inflight,
          accepted, refused, attempted, chat>>

OwnerStates == {"idle", "pushing", "notifying",
                "closing", "notifyingStop", "joining", "gone"}

WorkerStates == {"none", "locking", "testing", "parking", "waiting",
                 "sending", "exited"}

Messages == 1..MaxMessages

(* The constructor starts the worker only when the State is configured. *)
Init ==
  /\ configured \in BOOLEAN
  /\ mutex = "free"
  /\ queue = <<>>
  /\ stopping = FALSE
  /\ owner = "idle"
  /\ worker = IF configured THEN "locking" ELSE "none"
  /\ inflight = <<>>
  /\ accepted = 0
  /\ refused = 0
  /\ attempted = 0
  /\ chat = <<>>

----------------------------------------------------------------------------
(* The owner: enqueue *)

(* enqueue returns false, after a warning, when nothing is configured. *)
Refuse ==
  /\ owner = "idle"
  /\ ~configured
  /\ refused < MaxMessages
  /\ refused' = refused + 1
  /\ UNCHANGED <<configured, mutex, queue, stopping, owner, worker, inflight,
                 accepted, attempted, chat>>

LockToPush ==
  /\ owner = "idle"
  /\ configured
  /\ accepted < MaxMessages
  /\ mutex = "free"
  /\ mutex' = "owner"
  /\ owner' = "pushing"
  /\ UNCHANGED <<configured, queue, stopping, worker, inflight,
                 accepted, refused, attempted, chat>>

(* push_back, and the end of the block that releases the mutex. *)
Push ==
  /\ owner = "pushing"
  /\ queue' = Append(queue, accepted + 1)
  /\ accepted' = accepted + 1
  /\ mutex' = "free"
  /\ owner' = "notifying"
  /\ UNCHANGED <<configured, stopping, worker, inflight, refused,
                 attempted, chat>>

(* cv.notify_one(): it only moves a thread that is blocked in wait. *)
WakeOne == worker' = IF worker = "waiting" THEN "locking" ELSE worker

(* Variant: enqueue without the notify_one. *)
NotifyNobody ==
  /\ owner = "notifying"
  /\ owner' = "idle"
  /\ UNCHANGED <<configured, mutex, queue, stopping, worker, inflight,
                 accepted, refused, attempted, chat>>

Notify ==
  /\ owner = "notifying"
  /\ WakeOne
  /\ owner' = "idle"
  /\ UNCHANGED <<configured, mutex, queue, stopping, inflight,
                 accepted, refused, attempted, chat>>

----------------------------------------------------------------------------
(* The owner: ~State *)

LockToStop ==
  /\ owner = "idle"
  /\ mutex = "free"
  /\ mutex' = "owner"
  /\ owner' = "closing"
  /\ UNCHANGED <<configured, queue, stopping, worker, inflight,
                 accepted, refused, attempted, chat>>

SetStopping ==
  /\ owner = "closing"
  /\ stopping' = TRUE
  /\ mutex' = "free"
  /\ owner' = "notifyingStop"
  /\ UNCHANGED <<configured, queue, worker, inflight,
                 accepted, refused, attempted, chat>>

(* Variant: ~State without the notify_one. *)
StopSilently ==
  /\ owner = "notifyingStop"
  /\ owner' = "joining"
  /\ UNCHANGED <<configured, mutex, queue, stopping, worker, inflight,
                 accepted, refused, attempted, chat>>

NotifyStop ==
  /\ owner = "notifyingStop"
  /\ WakeOne
  /\ owner' = "joining"
  /\ UNCHANGED <<configured, mutex, queue, stopping, inflight,
                 accepted, refused, attempted, chat>>

(* join returns when the worker has; there is nothing to join without one. *)
Join ==
  /\ owner = "joining"
  /\ worker \in {"exited", "none"}
  /\ owner' = "gone"
  /\ UNCHANGED <<configured, mutex, queue, stopping, worker, inflight,
                 accepted, refused, attempted, chat>>

----------------------------------------------------------------------------
(* The worker: run() *)

LockWorker ==
  /\ worker = "locking"
  /\ mutex = "free"
  /\ mutex' = "worker"
  /\ worker' = "testing"
  /\ UNCHANGED <<configured, queue, stopping, owner, inflight,
                 accepted, refused, attempted, chat>>

(* Variant: the predicate is tested under the mutex, but the mutex is      *)
(* released before the thread blocks (no atomic wait).                     *)
UnlockThenPark ==
  /\ worker = "testing"
  /\ ~stopping
  /\ queue = <<>>
  /\ mutex' = "free"
  /\ worker' = "parking"
  /\ UNCHANGED <<configured, queue, stopping, owner, inflight,
                 accepted, refused, attempted, chat>>

(* The predicate of cv.wait is false: the worker is about to block. *)
TestFails ==
  /\ worker = "testing"
  /\ ~stopping
  /\ queue = <<>>
  /\ worker' = "parking"
  /\ UNCHANGED <<configured, mutex, queue, stopping, owner, inflight,
                 accepted, refused, attempted, chat>>

(* cv.wait releases the mutex and blocks in one step. *)
Park ==
  /\ worker = "parking"
  /\ mutex' = "free"
  /\ worker' = "waiting"
  /\ UNCHANGED <<configured, queue, stopping, owner, inflight,
                 accepted, refused, attempted, chat>>

(* The standard lets wait return without a notification. *)
SpuriousWakeup ==
  /\ worker = "waiting"
  /\ worker' = "locking"
  /\ UNCHANGED <<configured, mutex, queue, stopping, owner, inflight,
                 accepted, refused, attempted, chat>>

(* Variant: the newest message is taken, as a stack would do. *)
TakeNewest ==
  /\ worker = "testing"
  /\ queue # <<>>
  /\ inflight' = <<queue[Len(queue)]>>
  /\ queue' = SubSeq(queue, 1, Len(queue) - 1)
  /\ mutex' = "free"
  /\ worker' = "sending"
  /\ UNCHANGED <<configured, stopping, owner, accepted, refused,
                 attempted, chat>>

(* A queued message is taken whether or not the State is being destroyed. *)
Take ==
  /\ worker = "testing"
  /\ queue # <<>>
  /\ inflight' = <<Head(queue)>>
  /\ queue' = Tail(queue)
  /\ mutex' = "free"
  /\ worker' = "sending"
  /\ UNCHANGED <<configured, stopping, owner, accepted, refused,
                 attempted, chat>>

Exit ==
  /\ worker = "testing"
  /\ stopping
  /\ queue = <<>>
  /\ mutex' = "free"
  /\ worker' = "exited"
  /\ UNCHANGED <<configured, queue, stopping, owner, inflight,
                 accepted, refused, attempted, chat>>

(* performSend returns: curl's timeouts bound it.  The message is in the   *)
(* chat or it is not (no handle, no connection, a timeout, an HTTP error). *)
(* A false result is only logged, and a request that timed out may have    *)
(* reached the chat, so the result itself decides nothing.                 *)
FinishSend(arrived) ==
  /\ worker = "sending"
  /\ chat' = IF arrived THEN Append(chat, Head(inflight)) ELSE chat
  /\ attempted' = attempted + 1
  /\ inflight' = <<>>
  /\ worker' = "locking"
  /\ UNCHANGED <<configured, mutex, queue, stopping, owner,
                 accepted, refused>>

----------------------------------------------------------------------------

Enqueue == Refuse \/ LockToPush \/ Push \/ Notify

Destroy == LockToStop \/ SetStopping \/ NotifyStop \/ Join

Deliver == Take \/ \E arrived \in BOOLEAN : FinishSend(arrived)

Worker == LockWorker \/ TestFails \/ Park \/ Deliver \/ Exit

Next == Enqueue \/ Destroy \/ Worker \/ SpuriousWakeup

(* Both threads are scheduled: what a thread has begun it goes on with, and *)
(* a request ends.  Nothing makes the owner call enqueue or ~State, and     *)
(* nothing makes a wakeup happen that nobody asked for.                     *)
Fairness ==
  /\ WF_vars(Worker)
  /\ WF_vars(Push \/ Notify \/ SetStopping \/ NotifyStop \/ Join)

(* What the two threads may do, and with Fairness what they do. *)
Safety == Init /\ [][Next]_vars

Spec == Safety /\ Fairness

----------------------------------------------------------------------------
(* Type invariant: every variable keeps its type, and a message number     *)
(* never exceeds the number of calls of enqueue.                           *)
TypeOK ==
  /\ configured \in BOOLEAN
  /\ mutex \in {"free", "owner", "worker"}
  /\ queue \in Seq(Messages)
  /\ stopping \in BOOLEAN
  /\ owner \in OwnerStates
  /\ worker \in WorkerStates
  /\ inflight \in Seq(Messages)
  /\ accepted \in 0..MaxMessages
  /\ refused \in 0..MaxMessages
  /\ attempted \in 0..MaxMessages
  /\ chat \in Seq(Messages)

(* No lost wakeup: whenever the worker is blocked in cv.wait although      *)
(* there is work for it (a message or the order to stop), the owner is     *)
(* still on its way to notify_one.  Notifying after the mutex is released  *)
(* (TelegramNotifier.cpp:51-55 and 31-35) would otherwise strand a         *)
(* message, or the destructor's join, for good.                            *)
NoLostWakeup ==
  worker = "waiting" /\ (queue # <<>> \/ stopping)
    => owner \in {"notifying", "notifyingStop"}

(* Nothing accepted is lost, repeated or overtaken inside the notifier:    *)
(* the messages tried, the one in flight and the queue, put one after the  *)
(* other, are exactly the accepted ones in order.                          *)
Accounting ==
  /\ \A i \in 1..Len(inflight) : inflight[i] = attempted + i
  /\ \A i \in 1..Len(queue) : queue[i] = attempted + Len(inflight) + i
  /\ accepted = attempted + Len(inflight) + Len(queue)

(* The chat shows alerts in the order they were raised, none twice, and    *)
(* none that was not tried (there is no retry after a failed request).     *)
ChatInOrder ==
  /\ \A i \in 1..Len(chat) : chat[i] <= attempted
  /\ \A i, j \in 1..Len(chat) : i < j => chat[i] < chat[j]

(* Destroying the notifier drains it: ~State does not return before every  *)
(* accepted message has had its attempt, and the worker does not leave     *)
(* run() with work behind it.                                              *)
Drained ==
  worker = "exited" \/ owner = "gone"
    => attempted = accepted /\ queue = <<>> /\ inflight = <<>>

----------------------------------------------------------------------------
(* The inductive invariant behind the safety properties.                   *)

(* A thread holds the mutex exactly inside its critical sections. *)
LockDiscipline ==
  /\ owner \in {"pushing", "closing"} <=> mutex = "owner"
  /\ worker \in {"testing", "parking"} <=> mutex = "worker"

(* How far each thread can be: which thread steps exclude each other. *)
Phases ==
  /\ stopping <=> owner \in {"notifyingStop", "joining", "gone"}
  /\ worker = "none" <=> ~configured
  /\ owner \in {"pushing", "notifying"} => configured
  /\ owner = "pushing" => accepted < MaxMessages
  /\ ~configured => accepted = 0
  /\ worker = "exited" => stopping /\ queue = <<>>
  /\ owner = "gone" => worker \in {"exited", "none"}

(* run()'s local message exists only around performSend, and the test of  *)
(* the wait predicate still holds when the worker blocks.                  *)
WorkerLocals ==
  /\ inflight = IF worker = "sending" THEN <<attempted + 1>> ELSE <<>>
  /\ worker = "parking" => queue = <<>> /\ ~stopping

IInv ==
  /\ TypeOK
  /\ LockDiscipline
  /\ Phases
  /\ WorkerLocals
  /\ NoLostWakeup
  /\ Accounting
  /\ ChatInOrder

----------------------------------------------------------------------------
(* Every accepted message is eventually tried, stopping or not. *)
EveryMessageTried ==
  \A n \in Messages : accepted >= n ~> attempted >= n

(* ~State returns: the join never waits for a worker that sleeps. *)
DestroyReturns == stopping ~> owner = "gone"

----------------------------------------------------------------------------
(* The channel this queue implements.  A message is accepted when it is    *)
(* pushed; the channel is closing once `stopping` is set.                  *)
ChannelPhase == CASE owner = "gone"             -> "closed"
                  [] owner # "gone" /\ stopping -> "closing"
                  [] OTHER                      -> "open"

Channel == INSTANCE AlertChannel WITH phase <- ChannelPhase

(* The notifier implements the first-in first-out channel of AlertChannel: *)
(* every step of the two threads is a step of the channel or none.         *)
ImplementsChannel == Channel!ChannelSpec
============================================================================
