------------------------------- MODULE Agent -------------------------------
(***************************************************************************)
(* The life of the agent: main() of src/main.cpp with its signal handler,  *)
(* and Application's scheduler (src/app/Application.cpp).  The notifier is *)
(* the channel of AlertChannel, which TelegramQueue implements: main       *)
(* accepts alerts into it, closes it when the Application is destroyed,    *)
(* and the worker thread tries them.                                       *)
(*                                                                         *)
(* A signal is handled by main's thread, between two of its steps, or by   *)
(* the worker's, where main goes on meanwhile: the handler tests g_app and *)
(* then calls stop() on it, in two steps.  Reading g_app there while main  *)
(* resets it is a data race: code that loads the pointer once (optimised)  *)
(* calls what it tested, code that loads it twice (the Debug build of      *)
(* docs/development.md:6) may find it null.                                *)
(***************************************************************************)
EXTENDS AlertChannel, Schedule

CONSTANTS
  MaxPasses,        \* bound on the passes over the monitors
  MaxSignals        \* bound on the signals delivered

ASSUME AgentAssumption ==
  /\ MaxMessages \in Nat
  /\ MaxPasses \in Nat \ {0}
  /\ MaxSignals \in Nat

VARIABLES
  main,         \* where main() is
  configured,   \* the notifier is configured: there is a worker thread
  app,          \* g_app is not null
  alive,        \* the Application's memory is allocated
  running,      \* Application::running_
  handler,      \* the worker's signal handler: "none", or "tested"
  pass,         \* history: passes begun
  checked,      \* history: the pass of each monitor's last check, or 0
  signals,      \* history: signals delivered
  stopped       \* history: a handler has called stop()

processVars == <<main, once, configured, app, alive>>
signalVars == <<running, handler, signals, stopped>>
scheduleVars == <<turn, until, pass, checked>>
vars == <<processVars, signalVars, scheduleVars, channelVars>>

MainStates == {"starting", "installed", "constructed", "testing", "passing",
               "handling", "sleeping", "returned", "destroying",
               "done", "killed", "crashed"}

Init ==
  /\ main = "starting"
  /\ configured \in BOOLEAN
  /\ app = FALSE
  /\ alive = FALSE
  /\ running = TRUE
  /\ handler = "none"
  /\ pass = 0
  /\ checked = [m \in Monitors |-> 0]
  /\ signals = 0
  /\ stopped = FALSE
  /\ ScheduleInit
  /\ ChannelInit

----------------------------------------------------------------------------
(* main() up to run() *)

InstallHandlers ==
  /\ main = "starting"
  /\ main' = "installed"
  /\ UNCHANGED <<once, configured, app, alive, signalVars, scheduleVars,
                 channelVars>>

(* make_unique: the object, and its worker thread, exist before g_app     *)
(* points to it.                                                           *)
Construct ==
  /\ main = "installed"
  /\ main' = "constructed"
  /\ alive' = TRUE
  /\ UNCHANGED <<once, configured, app, signalVars, scheduleVars, channelVars>>

(* The assignment of g_app, and the start of run(). *)
EnterRun ==
  /\ main = "constructed"
  /\ app' = TRUE
  /\ main' = IF once THEN "passing" ELSE "testing"
  /\ pass' = IF once THEN 1 ELSE 0
  /\ UNCHANGED <<once, configured, alive, signalVars, turn, until, checked,
                 channelVars>>

----------------------------------------------------------------------------
(* Application::run *)

(* Variant: the loop does not look at running_. *)
LoopForever ==
  /\ main = "testing"
  /\ pass < MaxPasses
  /\ main' = "passing"
  /\ pass' = pass + 1
  /\ turn' = 1
  /\ UNCHANGED <<once, configured, app, alive, signalVars, until, checked,
                 channelVars>>

(* while (running_): a pass begins, or run returns. *)
TestRunning ==
  /\ main = "testing"
  /\ \/ /\ running
        /\ pass < MaxPasses
        /\ main' = "passing"
        /\ pass' = pass + 1
        /\ turn' = 1
     \/ /\ ~running
        /\ main' = "returned"
        /\ UNCHANGED <<pass, turn>>
  /\ UNCHANGED <<once, configured, app, alive, signalVars, until, checked,
                 channelVars>>

(* runScheduled: the monitor is not due, its countdown goes on. *)
CountDown ==
  /\ main = "passing"
  /\ CountOn
  /\ UNCHANGED <<processVars, signalVars, pass, checked, channelVars>>

(* The monitor whose turn it is is due. *)
DueNow ==
  /\ main = "passing"
  /\ ~once
  /\ turn \in Monitors
  /\ until[turn] = 0

(* One of the alerts of the monitor due is queued.  (An unconfigured      *)
(* notifier refuses it; a refused or suppressed alert leaves no trace.)    *)
(* In a single pass the alerts are handled after all checks.               *)
QueueAlert ==
  /\ configured
  /\ DueNow \/ main = "handling"
  /\ Accept
  /\ UNCHANGED <<processVars, signalVars, scheduleVars>>

(* Variant: the countdown is only restarted by a check that does not throw. *)
FinishOrThrow ==
  /\ DueNow
  /\ \E throws \in BOOLEAN :
       until' = [until EXCEPT ![turn] = IF throws THEN 0 ELSE Period(turn) - 1]
  /\ checked' = [checked EXCEPT ![turn] = pass]
  /\ turn' = turn + 1
  /\ UNCHANGED <<processVars, signalVars, pass, channelVars>>

(* The check and its alerts are done, or one of them has thrown: either    *)
(* way the countdown starts again and the next monitor has its turn.       *)
FinishCheck ==
  /\ DueNow
  /\ CountAnew
  /\ checked' = [checked EXCEPT ![turn] = pass]
  /\ UNCHANGED <<processVars, signalVars, pass, channelVars>>

(* runOnce checks every monitor, whatever its countdown. *)
CheckOnce ==
  /\ main = "passing"
  /\ once
  /\ turn \in Monitors
  /\ checked' = [checked EXCEPT ![turn] = pass]
  /\ turn' = turn + 1
  /\ UNCHANGED <<processVars, signalVars, until, pass, channelVars>>

(* The end of a pass: if (running_) sleep_for one second. *)
EndPass ==
  /\ main = "passing"
  /\ turn \notin Monitors
  /\ main' = CASE once             -> "handling"
               [] ~once /\ running -> "sleeping"
               [] OTHER            -> "testing"
  /\ UNCHANGED <<once, configured, app, alive, signalVars, scheduleVars,
                 channelVars>>

Wake ==
  /\ main = "sleeping"
  /\ main' = "testing"
  /\ UNCHANGED <<once, configured, app, alive, signalVars, scheduleVars,
                 channelVars>>

HandledOnce ==
  /\ main = "handling"
  /\ main' = "returned"
  /\ UNCHANGED <<once, configured, app, alive, signalVars, scheduleVars,
                 channelVars>>

----------------------------------------------------------------------------
(* main() after run() *)

(* Variant: main leaves without destroying the Application. *)
LeaveAtOnce ==
  /\ main = "returned"
  /\ main' = "done"
  /\ UNCHANGED <<once, configured, app, alive, signalVars, scheduleVars,
                 channelVars>>

(* g_app.reset() stores null before it deletes the object. *)
ResetApp ==
  /\ main = "returned"
  /\ app' = FALSE
  /\ main' = "destroying"
  /\ BeginClose
  /\ UNCHANGED <<once, configured, alive, signalVars, scheduleVars>>

(* Variant: the worker is not joined. *)
FreeUnjoined ==
  /\ main = "destroying"
  /\ FinishClose
  /\ alive' = FALSE
  /\ main' = "done"
  /\ UNCHANGED <<once, configured, app, signalVars, scheduleVars>>

(* The notifier is drained and its worker, which is not in the handler    *)
(* when it ends, is joined; then the memory is freed and main returns.     *)
FreeApp ==
  /\ main = "destroying"
  /\ handler = "none"
  /\ FinishClose
  /\ alive' = FALSE
  /\ main' = "done"
  /\ UNCHANGED <<once, configured, app, signalVars, scheduleVars>>

----------------------------------------------------------------------------
(* Signals *)

Ended == main \in {"done", "killed", "crashed"}

Signal ==
  /\ ~Ended
  /\ signals < MaxSignals
  /\ signals' = signals + 1

(* Without a handler the default action ends the process. *)
KillEarly ==
  /\ Signal
  /\ main = "starting"
  /\ main' = "killed"
  /\ UNCHANGED <<once, configured, app, alive, running, handler, stopped,
                 scheduleVars, channelVars>>

(* Handled on main's thread, where nothing of main comes between the test *)
(* and the call; a signal is ignored while g_app is null.                  *)
SignalMain ==
  /\ Signal
  /\ main # "starting"
  /\ running' = (running /\ ~app)
  /\ stopped' = (stopped \/ app)
  /\ UNCHANGED <<processVars, handler, scheduleVars, channelVars>>

WorkerRuns == configured /\ alive /\ phase # "closed"

(* Variant: the handler does not test g_app. *)
SignalUntested ==
  /\ Signal
  /\ WorkerRuns
  /\ handler = "none"
  /\ handler' = "tested"
  /\ UNCHANGED <<processVars, running, stopped, scheduleVars, channelVars>>

(* On the worker's thread: `if (g_app)`. *)
SignalWorker ==
  /\ Signal
  /\ WorkerRuns
  /\ handler = "none"
  /\ handler' = IF app THEN "tested" ELSE "none"
  /\ UNCHANGED <<processVars, running, stopped, scheduleVars, channelVars>>

(* The call on the object tested, which main may be destroying. *)
CallStop ==
  /\ handler = "tested"
  /\ handler' = "none"
  /\ running' = FALSE
  /\ stopped' = TRUE
  /\ UNCHANGED <<processVars, signals, scheduleVars, channelVars>>

(* The call through the pointer loaded again, which is null by now. *)
CallNull ==
  /\ handler = "tested"
  /\ ~app
  /\ main' = "crashed"
  /\ handler' = "none"
  /\ UNCHANGED <<once, configured, app, alive, running, signals, stopped,
                 scheduleVars, channelVars>>

(* The worker thread tries the next alert, when it is not in the handler. *)
WorkerTries ==
  /\ ~Ended
  /\ WorkerRuns
  /\ handler = "none"
  /\ Attempt
  /\ UNCHANGED <<processVars, signalVars, scheduleVars>>

(* An ended process stays as it is; so does one at the bound of passes. *)
Terminated ==
  /\ Ended \/ (main = "testing" /\ running /\ pass = MaxPasses)
  /\ UNCHANGED vars

----------------------------------------------------------------------------

Scheduler == CountDown \/ FinishCheck \/ CheckOnce \/ EndPass \/ Wake

Main ==
  \/ InstallHandlers \/ Construct \/ EnterRun
  \/ TestRunning \/ Scheduler \/ HandledOnce
  \/ ResetApp \/ FreeApp

HandlerCall == CallStop \/ CallNull

Next ==
  \/ Main \/ QueueAlert \/ WorkerTries
  \/ KillEarly \/ SignalMain \/ SignalWorker \/ HandlerCall
  \/ Terminated

(* Both threads are scheduled, and every check, request and sleep ends:    *)
(* curl has timeouts, the sleep is one second.  No signal need come.       *)
Fairness == WF_vars(Main) /\ WF_vars(WorkerTries) /\ WF_vars(HandlerCall)

Spec == Init /\ [][Next]_vars /\ Fairness

----------------------------------------------------------------------------
(* Type invariant. *)
TypeOK ==
  /\ ScheduleTypeOK
  /\ main \in MainStates
  /\ configured \in BOOLEAN
  /\ app \in BOOLEAN /\ alive \in BOOLEAN
  /\ running \in BOOLEAN /\ stopped \in BOOLEAN
  /\ handler \in {"none", "tested"}
  /\ pass \in 0..MaxPasses
  /\ checked \in [Monitors -> 0..pass]
  /\ signals \in 0..MaxSignals
  /\ accepted \in 0..MaxMessages /\ attempted \in 0..accepted
  /\ phase \in {"open", "closing", "closed"}

(* A handler on the worker's thread never calls stop() on an Application   *)
(* whose memory is freed, although main destroys it without a word to the  *)
(* handler: the destructor waits for the worker.                           *)
HandlerTargetAlive == handler = "tested" => alive

(* Whatever the race on g_app does, it does it to a process that is        *)
(* leaving: a null call needs a run that an earlier signal ended, or that  *)
(* had only one pass.                                                      *)
CrashOnlyWhenOver == main = "crashed" => stopped \/ once

(* A process that ends in its own time has tried every alert it took. *)
ExitIsDrained == main = "done" => attempted = accepted

(* The schedule neither drifts nor skips: in every pass, and in the middle *)
(* of one, each monitor's last check was in the last pass its period and   *)
(* the first pass allow, whether or not its checks throw.                  *)
Handled(m) == IF m < turn THEN pass ELSE pass - 1

OnSchedule ==
  \A m \in Monitors :
    ~once /\ pass > 0
      => checked[m] = IF Handled(m) = 0 THEN 0
                      ELSE Handled(m) - ((Handled(m) - 1) % Period(m))

----------------------------------------------------------------------------
(* The inductive invariant: how the two pointers' lives, the channel and   *)
(* the handler go with the place main is at.                               *)
InRun == main \in {"testing", "passing", "handling", "sleeping", "returned"}

Lifecycle ==
  /\ app <=> InRun
  /\ InRun \/ main \in {"constructed", "destroying"} => alive
  /\ phase = CASE main = "destroying" -> "closing"
               [] main = "done"       -> "closed"
               [] main = "crashed"    -> "closing"
               [] OTHER               -> "open"
  /\ handler = "tested" => InRun \/ main = "destroying"
  /\ ~running => stopped
  /\ main = "handling" => once
  /\ main \in {"starting", "installed", "constructed"} => pass = 0
  /\ main = "passing" => pass > 0
  /\ main \in {"returned", "destroying"} => stopped \/ once

(* The countdowns go with the checks: a monitor that was checked k passes  *)
(* ago waits for the rest of its period, and no pass ends early.           *)
OnTime(m) ==
  IF pass = 0 \/ Handled(m) = 0
  THEN until[m] = 0 /\ checked[m] = 0
  ELSE LET gone == (Handled(m) - 1) % Period(m)
       IN  /\ until[m] = Period(m) - 1 - gone
           /\ checked[m] = Handled(m) - gone

Countdowns ==
  ~once =>
    /\ pass = 0 => turn = 1
    /\ main \in {"testing", "sleeping"} /\ pass > 0 => turn \notin Monitors
    /\ \A m \in Monitors : OnTime(m)

LifeInv ==
  /\ TypeOK
  /\ Lifecycle
  /\ CrashOnlyWhenOver
  /\ ExitIsDrained

IInv == LifeInv /\ Countdowns

----------------------------------------------------------------------------
(* A signal that found the Application ends the agent: the pass goes to    *)
(* its end, the queue is drained, the worker joined.                       *)
StopHonoured == stopped ~> Ended
=============================================================================
