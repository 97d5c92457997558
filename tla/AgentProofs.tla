---------------------------- MODULE AgentProofs ----------------------------
(***************************************************************************)
(* The agents' lives for any number of monitors, any interval, any number  *)
(* of alerts and signals.  The C++ agent: the signal handler never runs on *)
(* a freed Application, a null call needs a run that is over, a process    *)
(* that ends in its own time has tried every alert, and the schedule       *)
(* neither drifts nor skips.  The Go agent: no false alarm is posted, at   *)
(* most one alert after the cancellation, and each second's monitors are   *)
(* checked in it.                                                          *)
(***************************************************************************)
EXTENDS Agent, GoAgent, SequenceFacts, TLAPS

(* Periods are positive, and no smaller than one pass. *)
LEMMA PeriodType == \A m \in Monitors : Period(m) \in Nat \ {0}
  BY ScheduleAssumption DEF Period

(* The number of monitors. *)
LEMMA MonitorsType ==
  LogMonitors + OtherMonitors \in Nat
  BY ScheduleAssumption

(* The schedule starts with its types, and a turn keeps them. *)
LEMMA ScheduleStarts == ScheduleInit => ScheduleTypeOK
  BY MonitorsType, PeriodType DEF ScheduleInit, ScheduleTypeOK

LEMMA TurnTaken ==
  ASSUME ScheduleTypeOK, turn \in Monitors, UNCHANGED once,
         CountOn \/ CountAnew \/ (turn' = turn + 1 /\ UNCHANGED until)
  PROVE  ScheduleTypeOK'
<1> USE DEF ScheduleTypeOK
<1>1. turn' \in 1..LogMonitors + OtherMonitors + 1
  BY MonitorsType DEF CountOn, CountAnew, Monitors
<1>2. CASE CountOn
  <2>1. until[turn] - 1 \in Nat /\ until[turn] - 1 < Period(turn)
    BY <1>2, PeriodType DEF CountOn
  <2> QED
    BY <1>1, <1>2, <2>1 DEF CountOn
<1>3. CASE CountAnew
  <2>1. Period(turn) - 1 \in Nat /\ Period(turn) - 1 < Period(turn)
    BY PeriodType
  <2> QED
    BY <1>1, <1>3, <2>1 DEF CountAnew
<1> QED
  BY <1>1, <1>2, <1>3

(* The process starts in the invariant. *)
LEMMA InitLifeInv == Init => LifeInv
<1> SUFFICES ASSUME Init PROVE LifeInv
  OBVIOUS
<1>1. TypeOK
  <2>1. ScheduleTypeOK
    BY ScheduleStarts DEF Init
  <2>2. checked \in [Monitors -> 0..pass]
    BY DEF Init
  <2>3. /\ pass \in 0..MaxPasses /\ signals \in 0..MaxSignals
        /\ accepted \in 0..MaxMessages /\ attempted \in 0..accepted
        /\ phase \in {"open", "closing", "closed"}
    BY AgentAssumption DEF Init, ChannelInit
  <2> QED
    BY <2>1, <2>2, <2>3 DEF Init, TypeOK, MainStates
<1>2. Lifecycle
  BY DEF Init, ChannelInit, Lifecycle, InRun
<1> QED
  BY <1>1, <1>2 DEF Init, LifeInv, CrashOnlyWhenOver, ExitIsDrained

(* Steps that move main alone, from one place of its life to the next. *)
LEMMA MainStep ==
  ASSUME LifeInv,
         InstallHandlers \/ Construct \/ EnterRun \/ TestRunning \/ EndPass
           \/ Wake \/ HandledOnce
  PROVE  LifeInv'
<1> USE DEF LifeInv
<1>1. TypeOK'
  <2>0. MaxPasses \in Nat \ {0} /\ 1 \in 1..LogMonitors + OtherMonitors + 1
    BY AgentAssumption, MonitorsType
  <2>1. CASE InstallHandlers \/ Construct \/ EndPass \/ Wake \/ HandledOnce
    <3>1. CASE InstallHandlers
      BY <3>1 DEF InstallHandlers, TypeOK, ScheduleTypeOK, MainStates,
                  signalVars, scheduleVars, channelVars
    <3>2. CASE Construct
      BY <3>2 DEF Construct, TypeOK, ScheduleTypeOK, MainStates, signalVars,
                  scheduleVars, channelVars
    <3>3. CASE EndPass \/ Wake \/ HandledOnce
      BY <3>3 DEF EndPass, Wake, HandledOnce, TypeOK, ScheduleTypeOK,
                  MainStates, signalVars, scheduleVars, channelVars
    <3> QED
      BY <2>1, <3>1, <3>2, <3>3
  <2>2. CASE EnterRun
    <3>1. /\ UNCHANGED <<once, configured, alive, running, handler, signals,
                         stopped, turn, until, checked, accepted, attempted,
                         chat, phase>>
          /\ app' = TRUE
          /\ main' \in MainStates
          /\ pass' \in 0..MaxPasses
      BY <2>0, <2>2 DEF EnterRun, signalVars, channelVars, MainStates
    <3>2. checked' \in [Monitors -> 0..pass']
      <4>1. pass = 0 /\ pass' \in Nat /\ 0..pass \subseteq 0..pass'
        BY <2>2 DEF EnterRun, Lifecycle
      <4> QED
        BY <3>1, <4>1 DEF TypeOK, ScheduleTypeOK
    <3> QED
      BY <3>1, <3>2 DEF TypeOK, ScheduleTypeOK
  <2>3. CASE TestRunning
    <3>1. pass' \in 0..MaxPasses /\ pass' >= pass
          /\ turn' \in 1..LogMonitors + OtherMonitors + 1
      BY <2>0, <2>3 DEF TestRunning, TypeOK, ScheduleTypeOK
    <3>2. checked' \in [Monitors -> 0..pass']
      <4>1. 0..pass \subseteq 0..pass'
        BY <3>1, <2>0 DEF TypeOK, ScheduleTypeOK
      <4> QED
        BY <2>3, <4>1 DEF TestRunning, TypeOK, ScheduleTypeOK
    <3> QED
      BY <2>3, <3>1, <3>2 DEF TestRunning, TypeOK, ScheduleTypeOK,
                              MainStates, signalVars, channelVars
  <2> QED
    BY <2>1, <2>2, <2>3
<1>2. Lifecycle'
  <2>1. CASE InstallHandlers
    BY <2>1 DEF InstallHandlers, Lifecycle, InRun, signalVars, scheduleVars,
                channelVars
  <2>2. CASE Construct
    BY <2>2 DEF Construct, Lifecycle, InRun, signalVars, scheduleVars,
                channelVars
  <2>3. CASE EnterRun
    BY <2>3 DEF EnterRun, Lifecycle, InRun, signalVars, channelVars
  <2>4. CASE TestRunning
    <3>1. pass' = pass + 1 => pass' > 0
      BY AgentAssumption DEF TypeOK
    <3> QED
      BY <2>4, <3>1 DEF TestRunning, Lifecycle, InRun, signalVars, channelVars
  <2>5. CASE EndPass
    BY <2>5 DEF EndPass, Lifecycle, InRun, signalVars, channelVars
  <2>6. CASE Wake \/ HandledOnce
    BY <2>6 DEF Wake, HandledOnce, Lifecycle, InRun, signalVars, channelVars
  <2> QED
    BY <2>1, <2>2, <2>3, <2>4, <2>5, <2>6
<1>3. main' \notin {"crashed", "done"}
  BY DEF InstallHandlers, Construct, EnterRun, TestRunning, EndPass, Wake,
         HandledOnce
<1> QED
  BY <1>1, <1>2, <1>3 DEF CrashOnlyWhenOver, ExitIsDrained

(* Steps of a pass: a countdown, or the end of a check. *)
LEMMA PassStep ==
  ASSUME LifeInv, CountDown \/ FinishCheck \/ CheckOnce
  PROVE  LifeInv'
<1> USE DEF LifeInv
<1>0. /\ turn \in Monitors
      /\ turn' = turn + 1
      /\ UNCHANGED <<main, once, configured, app, alive, running, handler,
                     signals, stopped, pass, accepted, attempted, chat, phase>>
  BY DEF CountDown, FinishCheck, CheckOnce, DueNow, CountOn, CountAnew,
         processVars, signalVars, channelVars
<1>1. ScheduleTypeOK'
  BY <1>0, TurnTaken DEF CountDown, FinishCheck, CheckOnce, TypeOK
<1>2. checked' \in [Monitors -> 0..pass]
  <2>1. pass \in 0..pass
    BY AgentAssumption DEF TypeOK
  <2> QED
    BY <1>0, <2>1 DEF CountDown, FinishCheck, CheckOnce, TypeOK
<1>3. TypeOK'
  BY <1>0, <1>1, <1>2 DEF TypeOK
<1>4. Lifecycle'
  BY <1>0 DEF Lifecycle, InRun
<1> QED
  BY <1>0, <1>3, <1>4 DEF CrashOnlyWhenOver, ExitIsDrained

(* Steps of the channel: an alert queued, an alert tried. *)
LEMMA AlertStep ==
  ASSUME LifeInv, QueueAlert \/ WorkerTries
  PROVE  LifeInv'
<1> USE DEF LifeInv
<1>0. UNCHANGED <<main, once, configured, app, alive, running, handler,
                  signals, stopped, turn, until, pass, checked, phase>>
  BY DEF QueueAlert, WorkerTries, Accept, Attempt, processVars, signalVars,
         scheduleVars
<1>1. accepted' \in 0..MaxMessages /\ attempted' \in 0..accepted'
  BY AgentAssumption DEF QueueAlert, WorkerTries, Accept, Attempt, TypeOK
<1>2. main # "done"
  BY DEF QueueAlert, WorkerTries, DueNow, Ended
<1> QED
  BY <1>0, <1>1, <1>2 DEF TypeOK, ScheduleTypeOK, Lifecycle, InRun,
                          CrashOnlyWhenOver, ExitIsDrained

(* The Application is destroyed: the pointer first, then the notifier and  *)
(* the memory, when the handler is out of the way.                         *)
LEMMA DestroyStep ==
  ASSUME LifeInv, ResetApp \/ FreeApp
  PROVE  LifeInv'
<1> USE DEF LifeInv
<1>1. TypeOK'
  BY DEF ResetApp, FreeApp, BeginClose, FinishClose, TypeOK, ScheduleTypeOK,
         MainStates, signalVars, scheduleVars
<1>2. Lifecycle'
  BY DEF ResetApp, FreeApp, BeginClose, FinishClose, Lifecycle, InRun,
         signalVars, scheduleVars
<1>3. CrashOnlyWhenOver' /\ ExitIsDrained'
  BY DEF ResetApp, FreeApp, BeginClose, FinishClose, CrashOnlyWhenOver,
         ExitIsDrained
<1> QED
  BY <1>1, <1>2, <1>3

(* A signal arrives on one of the threads, or ends the process. *)
LEMMA SignalStep ==
  ASSUME LifeInv,
         KillEarly \/ SignalMain \/ SignalWorker \/ CallStop \/ CallNull
  PROVE  LifeInv'
<1> USE DEF LifeInv
<1>0. UNCHANGED <<once, configured, app, alive, turn, until, pass, checked,
                  accepted, attempted, chat, phase>>
  BY DEF KillEarly, SignalMain, SignalWorker, CallStop, CallNull, processVars,
         scheduleVars, channelVars
<1>1. TypeOK'
  <2>1. /\ main' \in MainStates /\ running' \in BOOLEAN /\ stopped' \in BOOLEAN
        /\ handler' \in {"none", "tested"}
    BY DEF KillEarly, SignalMain, SignalWorker, CallStop, CallNull,
           processVars, TypeOK, ScheduleTypeOK, MainStates
  <2>2. signals' \in 0..MaxSignals
    BY AgentAssumption DEF KillEarly, SignalMain, SignalWorker, CallStop,
                           CallNull, Signal, TypeOK
  <2> QED
    BY <1>0, <2>1, <2>2 DEF TypeOK, ScheduleTypeOK
<1>2. Lifecycle'
  <2>1. CASE KillEarly
    BY <2>1 DEF KillEarly, Lifecycle, InRun, scheduleVars, channelVars
  <2>2. CASE SignalMain
    BY <2>2 DEF SignalMain, Lifecycle, InRun, TypeOK, processVars,
                scheduleVars, channelVars
  <2>3. CASE SignalWorker
    BY <2>3 DEF SignalWorker, Lifecycle, InRun, processVars, scheduleVars,
                channelVars
  <2>4. CASE CallStop
    BY <2>4 DEF CallStop, Lifecycle, InRun, processVars, scheduleVars,
                channelVars
  <2>5. CASE CallNull
    BY <2>5 DEF CallNull, Lifecycle, InRun, scheduleVars, channelVars
  <2> QED
    BY <2>1, <2>2, <2>3, <2>4, <2>5
<1>3. CrashOnlyWhenOver'
  <2>1. CASE CallNull
    BY <2>1 DEF CallNull, Lifecycle, InRun, CrashOnlyWhenOver
  <2>2. CASE ~CallNull
    <3>1. main' = main \/ main' = "killed"
      BY <2>2 DEF KillEarly, SignalMain, SignalWorker, CallStop, processVars
    <3>2. stopped => stopped'
      BY <2>2 DEF KillEarly, SignalMain, SignalWorker, CallStop, TypeOK
    <3> QED
      BY <1>0, <3>1, <3>2 DEF CrashOnlyWhenOver
  <2> QED
    BY <2>1, <2>2
<1>4. ExitIsDrained'
  <2>1. main' = main \/ main' \in {"killed", "crashed"}
    BY DEF KillEarly, SignalMain, SignalWorker, CallStop, CallNull, processVars
  <2> QED
    BY <1>0, <2>1 DEF ExitIsDrained
<1> QED
  BY <1>1, <1>2, <1>3, <1>4

(* Any step keeps the life's part of the invariant. *)
LEMMA LifeStep ==
  ASSUME LifeInv, [Next]_vars
  PROVE  LifeInv'
<1>1. CASE Main
  BY <1>1, MainStep, PassStep, DestroyStep DEF Main, Scheduler
<1>2. CASE QueueAlert \/ WorkerTries
  BY <1>2, AlertStep
<1>3. CASE KillEarly \/ SignalMain \/ SignalWorker \/ HandlerCall
  BY <1>3, SignalStep DEF HandlerCall
<1>4. CASE Terminated \/ UNCHANGED vars
  BY <1>4 DEF Terminated, vars, processVars, signalVars, scheduleVars,
              channelVars, LifeInv, TypeOK, ScheduleTypeOK, Lifecycle, InRun,
              CrashOnlyWhenOver, ExitIsDrained
<1> QED
  BY <1>1, <1>2, <1>3, <1>4 DEF Next

(* A turn taken keeps the countdowns with the checks: a monitor that       *)
(* counts on was checked in this period, one that is due was not.          *)
LEMMA CountdownsInTurn ==
  ASSUME LifeInv, Countdowns, CountDown \/ FinishCheck
  PROVE  Countdowns'
<1>0. PICK t \in Monitors : t = turn
  BY DEF CountDown, FinishCheck, DueNow, CountOn
<1> DEFINE p == Period(t)
<1>1. /\ main = "passing" /\ ~once /\ turn = t /\ turn' = t + 1
      /\ UNCHANGED <<main, once, pass>>
  BY <1>0 DEF CountDown, FinishCheck, DueNow, CountOn, CountAnew, processVars
<1>2. /\ pass \in Nat \ {0} /\ t \in Nat /\ p \in Nat \ {0}
      /\ until \in [Monitors -> Nat] /\ checked \in [Monitors -> Nat]
      /\ Monitors \subseteq Nat
  <2>1. pass \in Nat \ {0} /\ 0..pass \subseteq Nat
    BY <1>1, AgentAssumption DEF LifeInv, TypeOK, Lifecycle
  <2> QED
    BY <1>1, <2>1, PeriodType
       DEF LifeInv, TypeOK, ScheduleTypeOK, Monitors
<1>3. /\ CountDown => until[t] > 0
      /\ FinishCheck => until[t] = 0
      /\ until' = [until EXCEPT ![t] = IF CountDown THEN @ - 1 ELSE p - 1]
      /\ checked' = IF CountDown THEN checked
                    ELSE [checked EXCEPT ![t] = pass]
  BY <1>0 DEF CountDown, FinishCheck, DueNow, CountOn, CountAnew
<1> HIDE DEF p
<1>4. ASSUME NEW m \in Monitors, m # t
      PROVE  OnTime(m)'
  <2>1. Handled(m)' = Handled(m)
    <3>1. m < t <=> m < t + 1
      BY <1>2, <1>4
    <3> QED
      BY <1>1, <3>1 DEF Handled
  <2>2. until'[m] = until[m] /\ checked'[m] = checked[m]
    BY <1>2, <1>3, <1>4
  <2>3. OnTime(m)
    BY <1>1 DEF Countdowns
  <2> QED
    BY <1>1, <2>1, <2>2, <2>3 DEF OnTime
<1>5. Handled(t) = pass - 1 /\ Handled(t)' = pass
  BY <1>1, <1>2 DEF Handled
<1>6. OnTime(t)
  BY <1>1 DEF Countdowns
<1>7. /\ until'[t] = p - 1 - ((pass - 1) % p)
      /\ checked'[t] = pass - ((pass - 1) % p)
  <2>1. CASE pass = 1
    <3>1. (pass - 1) % p = 0
      BY <1>2, <2>1
    <3>2. until[t] = 0
      BY <1>5, <1>6, <2>1 DEF OnTime
    <3>3. ~CountDown
      BY <1>3, <3>2
    <3> QED
      BY <1>1, <1>2, <1>3, <2>1, <3>1, <3>3
  <2>2. CASE pass # 1
    <3>1. PICK h \in Nat : h + 1 = pass - 1
      BY <1>2, <2>2
    <3>2. PICK r \in 0..p - 1 : r = h % p
      BY <1>2, Division
    <3>3. (h + 1) % p = IF r = p - 1 THEN 0 ELSE r + 1
      BY <1>2, <3>2, RemainderOfSuccessor
    <3>4. Handled(t) # 0 /\ pass # 0 /\ Handled(t) - 1 = h
      BY <1>2, <1>5, <3>1
    <3>5. until[t] = p - 1 - r /\ checked[t] = h + 1 - r
      <4>1. /\ until[t] = p - 1 - ((Handled(t) - 1) % p)
            /\ checked[t] = Handled(t) - ((Handled(t) - 1) % p)
        BY <1>6, <3>4 DEF OnTime, p
      <4>2. (Handled(t) - 1) % p = r
        BY <3>2, <3>4, Zenon
      <4> QED
        BY <1>5, <3>1, <4>1, <4>2
    <3>6. /\ until'[t] = IF CountDown THEN until[t] - 1 ELSE p - 1
          /\ checked'[t] = IF CountDown THEN checked[t] ELSE pass
      BY <1>1, <1>2, <1>3
    <3>7. CASE CountDown
      BY <1>2, <1>3, <3>1, <3>2, <3>3, <3>5, <3>6, <3>7
    <3>8. CASE ~CountDown
      <4>1. until[t] = 0
        BY <1>3, <3>8
      <4> QED
        BY <1>2, <3>1, <3>2, <3>3, <3>5, <3>6, <3>8, <4>1
    <3> QED
      BY <3>7, <3>8
  <2> QED
    BY <2>1, <2>2
<1>8. OnTime(t)'
  <2>1. Period(t)' = p
    BY DEF Period, p
  <2>2. pass' # 0 /\ pass' = pass
    BY <1>1, <1>2
  <2> QED
    BY <1>5, <1>7, <2>1, <2>2 DEF OnTime
<1> QED
  <2>1. \A m \in Monitors : OnTime(m)'
    BY <1>4, <1>8
  <2> QED
    BY <1>1, <1>2, <2>1 DEF Countdowns

(* A pass that begins finds every monitor handled, and its turn to come.   *)
LEMMA CountdownsAtPass ==
  ASSUME LifeInv, Countdowns, TestRunning, pass' = pass + 1, turn' = 1
  PROVE  Countdowns'
<1>1. /\ pass \in Nat /\ turn \in Nat /\ Monitors \subseteq Nat \ {0}
      /\ UNCHANGED <<once, until, checked>> /\ main = "testing"
  BY AgentAssumption, MonitorsType
     DEF LifeInv, TypeOK, ScheduleTypeOK, TestRunning, Monitors
<1>2. ASSUME ~once, NEW m \in Monitors
      PROVE  OnTime(m)'
  <2>1. OnTime(m) /\ (pass > 0 => turn \notin Monitors)
    BY <1>1, <1>2 DEF Countdowns
  <2>2. Handled(m)' = pass
    BY <1>1 DEF Handled
  <2>3. pass > 0 => Handled(m) = pass
    BY <1>1, <2>1, ScheduleAssumption
       DEF Handled, LifeInv, TypeOK, ScheduleTypeOK, Monitors
  <2> QED
    BY <1>1, <2>1, <2>2, <2>3 DEF OnTime, Period
<1>3. pass' # 0 /\ main' = "passing"
  BY <1>1 DEF TestRunning
<1> QED
  BY <1>1, <1>2, <1>3 DEF Countdowns

(* Any step keeps the countdowns with the checks.                          *)
LEMMA CountdownsStep ==
  ASSUME LifeInv, Countdowns, [Next]_vars
  PROVE  Countdowns'
<1>1. CASE CountDown \/ FinishCheck
  BY <1>1, CountdownsInTurn
<1>2. CASE TestRunning /\ pass' = pass + 1 /\ turn' = 1
  BY <1>2, CountdownsAtPass
<1>3. CASE EnterRun
  <2>1. pass = 0 /\ UNCHANGED <<once, turn, until, checked>>
        /\ (~once => pass' = 0)
    BY <1>3 DEF EnterRun, LifeInv, Lifecycle
  <2> QED
    BY <2>1 DEF Countdowns, OnTime
<1>4. CASE CheckOnce
  BY <1>4 DEF CheckOnce, processVars, Countdowns
<1>5. CASE /\ UNCHANGED <<once, turn, until, pass, checked>>
           /\ main' \in {"testing", "sleeping"}
                => \/ main \in {"testing", "sleeping"}
                   \/ turn \notin Monitors
  <2>1. \A m \in Monitors : OnTime(m) => OnTime(m)'
    BY <1>5 DEF OnTime, Handled, Period
  <2> QED
    BY <1>5, <2>1 DEF Countdowns
<1>6. CASE EndPass \/ (TestRunning /\ ~(pass' = pass + 1 /\ turn' = 1))
  BY <1>5, <1>6 DEF EndPass, TestRunning, scheduleVars
<1>7. CASE InstallHandlers \/ Construct \/ Wake \/ HandledOnce \/ ResetApp
             \/ FreeApp \/ QueueAlert \/ WorkerTries
  BY <1>5, <1>7 DEF InstallHandlers, Construct, Wake, HandledOnce, ResetApp,
                    FreeApp, QueueAlert, WorkerTries, scheduleVars, processVars
<1>8. CASE KillEarly \/ SignalMain \/ SignalWorker \/ HandlerCall
             \/ Terminated \/ UNCHANGED vars
  BY <1>5, <1>8 DEF KillEarly, SignalMain, SignalWorker, HandlerCall, CallStop,
                    CallNull, Terminated, vars, scheduleVars, processVars
<1> QED
  BY <1>1, <1>2, <1>3, <1>4, <1>6, <1>7, <1>8 DEF Next, Main, Scheduler

(* The invariant of the agent's life, for every number of monitors, alerts *)
(* and signals, and every interval.                                        *)
THEOREM AgentInvariant == Spec => []IInv
<1>1. Init => IInv
  <2>1. Init => Countdowns
    BY DEF Init, ScheduleInit, Countdowns, OnTime
  <2> QED
    BY <2>1, InitLifeInv DEF IInv
<1>2. IInv /\ [Next]_vars => IInv'
  BY LifeStep, CountdownsStep DEF IInv
<1> QED
  BY <1>1, <1>2, PTL DEF Spec

(* The agent's variables keep their types. *)
THEOREM AgentTypeCorrect == Spec => []TypeOK
<1>1. IInv => TypeOK
  BY DEF IInv, LifeInv
<1> QED
  BY <1>1, AgentInvariant, PTL

(* stop() is never called on an Application whose memory is freed. *)
THEOREM HandlerSafe == Spec => []HandlerTargetAlive
<1>1. IInv => HandlerTargetAlive
  BY DEF IInv, LifeInv, Lifecycle, HandlerTargetAlive
<1> QED
  BY <1>1, AgentInvariant, PTL

(* The race on g_app can only hurt a process whose run is over. *)
THEOREM CrashesExplained == Spec => []CrashOnlyWhenOver
<1>1. IInv => CrashOnlyWhenOver
  BY DEF IInv, LifeInv
<1> QED
  BY <1>1, AgentInvariant, PTL

(* The schedule neither drifts nor skips, for any number of monitors and   *)
(* any interval: every monitor's last check was when its period says.      *)
THEOREM ScheduleKept == Spec => []OnSchedule
<1>1. IInv => OnSchedule
  <2> SUFFICES ASSUME IInv, NEW m \in Monitors, ~once, pass > 0
               PROVE  checked[m] =
                        IF Handled(m) = 0 THEN 0
                        ELSE Handled(m) - ((Handled(m) - 1) % Period(m))
    BY DEF OnSchedule
  <2>1. OnTime(m) /\ pass # 0
    BY AgentAssumption DEF IInv, LifeInv, TypeOK, Countdowns
  <2> QED
    BY <2>1 DEF OnTime
<1> QED
  BY <1>1, AgentInvariant, PTL

(* Every alert taken has been tried when the process ends in its own time. *)
THEOREM ExitDrained == Spec => []ExitIsDrained
<1>1. IInv => ExitIsDrained
  BY DEF IInv, LifeInv
<1> QED
  BY <1>1, AgentInvariant, PTL

----------------------------------------------------------------------------
(* The Go agent *)

(* The steps of the Go agent that take no turn and count no second.        *)
GoAside ==
  \/ Tick \/ Cancel \/ HandleOnce \/ GoEndPass \/ Withhold \/ BeginSend
  \/ EndSend \/ SelectDone \/ Stopped \/ UNCHANGED goVars

LEMMA GoAsideKeeps ==
  GoAside => UNCHANGED <<once, turn, until, second, seen>>
  BY DEF GoAside, Tick, Cancel, HandleOnce, GoEndPass, Withhold, BeginSend,
         EndSend, SelectDone, Stopped, goVars, passVars

(* What a check returns is a sequence, shorter or longer. *)
LEMMA AlertListType == AlertLists \subseteq Seq(BOOLEAN)
  BY DEF AlertLists

(* The Go agent's variables keep their types. *)
LEMMA GoTypesStep ==
  ASSUME GoTypeOK, OnlyReasons, GoCountdowns, [GoNext]_goVars
  PROVE  GoTypeOK'
<1> USE DEF GoTypeOK
<1>1. ScheduleTypeOK'
  <2>1. CASE UNCHANGED <<once, turn, until>>
    BY <2>1 DEF ScheduleTypeOK
  <2>2. CASE GoCountDown
    BY <2>2, TurnTaken DEF GoCountDown, CountOn
  <2>3. CASE EndCheck
    BY <2>1, <2>3, TurnTaken DEF EndCheck, GoCountdowns
  <2>4. CASE EndHandle
    BY <2>1, <2>4, TurnTaken DEF EndHandle, GoCountdowns
  <2>5. CASE SelectTick
    BY <2>5, MonitorsType DEF SelectTick, ScheduleTypeOK
  <2>6. CASE BeginCheck \/ GoAside
    BY <2>1, <2>6, GoAsideKeeps DEF BeginCheck, passVars
  <2> QED
    BY <2>2, <2>3, <2>4, <2>5, <2>6 DEF GoNext, Pass, Handle, GoAside
<1>2. loop' \in LoopStates
  BY DEF GoNext, Pass, Handle, Tick, Cancel, GoCountDown, BeginCheck, EndCheck,
         HandleOnce, GoEndPass, Withhold, BeginSend, EndSend, EndHandle,
         SelectDone, SelectTick, Stopped, goVars, LoopStates
<1>3. cancelled' \in BOOLEAN /\ tick' \in BOOLEAN
  BY DEF GoNext, Pass, Handle, Tick, Cancel, GoCountDown, BeginCheck, EndCheck,
         HandleOnce, GoEndPass, Withhold, BeginSend, EndSend, EndHandle,
         SelectDone, SelectTick, Stopped, goVars
<1>4. alerts' \in Seq(BOOLEAN)
  <2>1. CASE EndCheck
    <3>1. PICK found \in Seq(BOOLEAN) :
            alerts' = found \/ alerts' = alerts \o found
      BY <2>1, AlertListType DEF EndCheck
    <3> QED
      BY <3>1, ConcatFacts
  <2>2. CASE Withhold \/ BeginSend \/ EndSend
    <3>1. alerts' = alerts \/ (alerts # <<>> /\ alerts' = Tail(alerts))
      BY <2>2 DEF Withhold, BeginSend, EndSend, OnlyReasons
    <3> QED
      BY <3>1, TailFacts
  <2>3. CASE ~EndCheck /\ ~(Withhold \/ BeginSend \/ EndSend)
    BY <2>3 DEF GoNext, Pass, Handle, Tick, Cancel, GoCountDown, BeginCheck,
                HandleOnce, GoEndPass, EndHandle, SelectDone, SelectTick,
                Stopped, goVars, chatVars
  <2> QED
    BY <2>1, <2>2, <2>3
<1>5. second' \in 0..Interval - 1
  <2>1. CASE SelectTick
    <3>1. second + 1 \in Nat
      BY ScheduleAssumption
    <3> QED
      BY <2>1, <3>1, Division, ScheduleAssumption DEF SelectTick
  <2>2. CASE ~SelectTick
    BY <2>2, GoAsideKeeps
       DEF GoNext, Pass, Handle, GoAside, GoCountDown, BeginCheck, EndCheck,
           EndHandle, passVars
  <2> QED
    BY <2>1, <2>2
<1>6. seen' \subseteq Monitors
  BY GoAsideKeeps
     DEF GoNext, Pass, Handle, GoAside, GoCountDown, BeginCheck, EndCheck,
         EndHandle, SelectTick, passVars, GoCountdowns
<1>7. late' \in {late, late + 1}
  BY DEF GoNext, Pass, Handle, Tick, Cancel, GoCountDown, BeginCheck, EndCheck,
         HandleOnce, GoEndPass, Withhold, BeginSend, EndSend, EndHandle,
         SelectDone, SelectTick, Stopped, goVars, chatVars
<1> QED
  BY <1>1, <1>2, <1>3, <1>4, <1>5, <1>6, <1>7

(* Alerts without a reason stay where the cancellation withholds them.     *)
LEMMA ReasonsStep ==
  ASSUME GoTypeOK, OnlyReasons, NoFalseAlarm, [GoNext]_goVars
  PROVE  OnlyReasons' /\ NoFalseAlarm'
<1> USE DEF GoTypeOK, OnlyReasons, NoFalseAlarm
<1>1. CASE EndCheck
  <2>1. PICK found \in Seq(BOOLEAN) :
          /\ (\E i \in DOMAIN found : ~found[i]) => cancelled
          /\ alerts' = found \/ alerts' = alerts \o found
    BY <1>1, AlertListType DEF EndCheck
  <2>2. ASSUME ~cancelled, NEW i \in DOMAIN alerts' PROVE alerts'[i]
    <3>1. CASE alerts' = found
      BY <2>1, <2>2, <3>1
    <3>2. CASE alerts' = alerts \o found
      BY <2>1, <2>2, <3>2
    <3> QED
      BY <2>1, <3>1, <3>2
  <2>3. /\ UNCHANGED <<cancelled, falseAlarm, late>>
        /\ loop' \in {"passing", "handling"}
    BY <1>1 DEF EndCheck
  <2> QED
    BY <2>2, <2>3
<1>2. CASE Withhold \/ (BeginSend /\ cancelled)
  <2>1. /\ alerts # <<>> /\ alerts' = Tail(alerts)
        /\ UNCHANGED <<cancelled, falseAlarm, late>>
        /\ loop = "handling" /\ loop' = "handling"
    BY <1>2 DEF Withhold, BeginSend
  <2>2. ASSUME ~cancelled, NEW i \in DOMAIN alerts' PROVE alerts'[i]
    <3>1. i + 1 \in DOMAIN alerts /\ alerts'[i] = alerts[i + 1]
      BY <2>1, <2>2, TailFacts
    <3> QED
      BY <2>2, <3>1
  <2> QED
    BY <2>1, <2>2
<1>3. CASE EndSend
  <2>1. /\ alerts # <<>> /\ alerts' = Tail(alerts) /\ UNCHANGED cancelled
        /\ \A i \in DOMAIN alerts : alerts[i]
        /\ loop = "sending" /\ loop' = "handling"
    BY <1>3 DEF EndSend
  <2>2. ASSUME NEW i \in DOMAIN alerts' PROVE alerts'[i]
    <3>1. i + 1 \in DOMAIN alerts /\ alerts'[i] = alerts[i + 1]
      BY <2>1, <2>2, TailFacts
    <3> QED
      BY <2>1, <3>1
  <2>3. ~falseAlarm'
    <3>1. 1 \in DOMAIN alerts /\ Head(alerts) = alerts[1]
      BY <2>1, TailFacts
    <3>2. \/ falseAlarm' = falseAlarm
          \/ falseAlarm' = (falseAlarm \/ ~Head(alerts))
      BY <1>3 DEF EndSend
    <3> QED
      BY <2>1, <3>1, <3>2
  <2>4. late = 0
    BY <2>1
  <2>5. late' = late \/ late' = IF cancelled THEN late + 1 ELSE late
    BY <1>3 DEF EndSend
  <2> QED
    BY <2>1, <2>2, <2>3, <2>4, <2>5
<1>4. CASE BeginSend /\ ~cancelled
  BY <1>4 DEF BeginSend
<1>5. CASE UNCHANGED chatVars /\ (cancelled => cancelled')
             /\ (loop' = "sending" <=> loop = "sending")
  BY <1>5 DEF chatVars
<1> QED
  BY <1>1, <1>2, <1>3, <1>4, <1>5
     DEF GoNext, Pass, Handle, Tick, Cancel, GoCountDown, BeginCheck,
         HandleOnce, GoEndPass, EndHandle, SelectDone, SelectTick, Stopped,
         goVars, chatVars

(* Countdowns, seconds and checks stay together.                           *)
LEMMA SecondsStep ==
  ASSUME GoTypeOK, GoCountdowns, GoOnSchedule, [GoNext]_goVars
  PROVE  GoCountdowns' /\ GoOnSchedule'
<1>0. /\ second \in Nat /\ Monitors \subseteq Nat \ {0} /\ turn \in Nat
      /\ until \in [Monitors -> Nat] /\ once \in BOOLEAN
      /\ turn \notin Monitors => \A m \in Monitors : m < turn
      /\ \A m \in Monitors : /\ Period(m) \in Nat \ {0}
                              /\ second % Period(m) \in 0..Period(m) - 1
  <2>1. second \in Nat /\ Monitors \subseteq Nat \ {0} /\ turn \in Nat
    BY ScheduleAssumption, MonitorsType DEF GoTypeOK, ScheduleTypeOK, Monitors
  <2>2. turn \notin Monitors => \A m \in Monitors : m < turn
    BY ScheduleAssumption, MonitorsType DEF GoTypeOK, ScheduleTypeOK, Monitors
  <2> QED
    BY <2>1, <2>2, PeriodType, Division DEF GoTypeOK, ScheduleTypeOK
<1>1. CASE GoCountDown
  <2>1. PICK t \in Monitors :
          /\ t = turn /\ turn' = t + 1 /\ ~once /\ until[t] > 0
          /\ until' = [until EXCEPT ![t] = @ - 1]
          /\ loop = "passing" /\ UNCHANGED <<loop, once, second, seen>>
    BY <1>1 DEF GoCountDown, CountOn
  <2>2. until[t] = Period(t) - (second % Period(t)) /\ second % Period(t) # 0
    <3>1. GoOnTime(t) /\ t >= turn
      BY <1>0, <2>1 DEF GoCountdowns
    <3> QED
      BY <1>0, <2>1, <3>1 DEF GoOnTime
  <2>3. ASSUME NEW m \in Monitors
        PROVE  /\ GoOnTime(m)'
               /\ m \in seen' <=> HadItsTurn(m)' /\ second' % Period(m) = 0
    <3>1. /\ GoOnTime(m)
          /\ m \in seen <=> HadItsTurn(m) /\ second % Period(m) = 0
      BY <2>1 DEF GoCountdowns, GoOnSchedule
    <3>2. CASE m = t
      <4>1. GoOnTime(m)'
        <5>1. m < turn' /\ ~(m >= turn')
          BY <1>0, <2>1, <3>2
        <5>2. until'[m] = Period(m) - 1 - (second % Period(m))
          BY <1>0, <2>1, <2>2, <3>2
        <5> QED
          BY <2>1, <5>1, <5>2 DEF GoOnTime, Period
      <4> QED
        BY <2>1, <2>2, <3>1, <3>2, <4>1
    <3>3. CASE m # t
      <4>1. (m < turn' <=> m < turn) /\ (m >= turn' <=> m >= turn) /\ m # turn
            /\ until'[m] = until[m]
        BY <1>0, <2>1, <3>3
      <4>2. GoOnTime(m)'
        BY <2>1, <3>1, <4>1 DEF GoOnTime, Period
      <4>3. HadItsTurn(m)' <=> HadItsTurn(m)
        BY <2>1, <4>1 DEF HadItsTurn
      <4> QED
        BY <2>1, <3>1, <4>2, <4>3
    <3> QED
      BY <3>2, <3>3
  <2> QED
    BY <2>1, <2>3 DEF GoCountdowns, GoOnSchedule, Period
<1>2. CASE EndHandle
  <2>1. CASE once
    BY <1>2, <2>1 DEF EndHandle, GoCountdowns, GoOnSchedule, HadItsTurn, Period
  <2>2. CASE ~once
    <3>1. PICK t \in Monitors :
            /\ t = turn /\ turn' = t + 1 /\ ~once /\ until[t] = 0
            /\ until' = [until EXCEPT ![t] = Period(t) - 1]
            /\ loop = "handling" /\ loop' = "passing"
            /\ UNCHANGED <<once, second, seen>>
      BY <1>2, <2>2 DEF EndHandle, CountAnew, GoCountdowns
    <3>2. second % Period(t) = 0
      <4>1. GoOnTime(t) /\ t >= turn
        BY <1>0, <3>1 DEF GoCountdowns
      <4> QED
        BY <1>0, <3>1, <4>1 DEF GoOnTime
    <3>3. ASSUME NEW m \in Monitors
          PROVE  /\ GoOnTime(m)'
                 /\ m \in seen' <=> HadItsTurn(m)' /\ second' % Period(m) = 0
      <4>1. /\ GoOnTime(m)
            /\ m \in seen <=> HadItsTurn(m) /\ second % Period(m) = 0
        BY <3>1 DEF GoCountdowns, GoOnSchedule
      <4>2. HadItsTurn(m)' <=> HadItsTurn(m)
        BY <1>0, <3>1 DEF HadItsTurn
      <4>3. GoOnTime(m)'
        <5>1. CASE m = t
          <6>1. m < turn' /\ ~(m >= turn')
            BY <1>0, <3>1, <5>1
          <6>2. until'[m] = Period(m) - 1 - (second % Period(m))
            BY <1>0, <3>1, <3>2, <5>1
          <6> QED
            BY <3>1, <6>1, <6>2 DEF GoOnTime, Period
        <5>2. CASE m # t
          <6>1. (m < turn' <=> m < turn) /\ (m >= turn' <=> m >= turn)
                /\ until'[m] = until[m]
            BY <1>0, <3>1, <5>2
          <6> QED
            BY <3>1, <4>1, <6>1 DEF GoOnTime, Period
        <5> QED
          BY <5>1, <5>2
      <4> QED
        BY <3>1, <4>1, <4>2, <4>3
    <3> QED
      BY <3>1, <3>3 DEF GoCountdowns, GoOnSchedule, Period
  <2> QED
    BY <1>0, <2>1, <2>2
<1>3. CASE SelectTick
  <2>1. /\ turn' = 1 /\ seen' = {} /\ loop' = "passing"
        /\ UNCHANGED <<once, until>> /\ second' = (second + 1) % Interval
        /\ turn \notin Monitors
    BY <1>3 DEF SelectTick, GoCountdowns
  <2>2. ASSUME NEW m \in Monitors
        PROVE  ~HadItsTurn(m)'
    BY <1>0, <2>1, <2>2 DEF HadItsTurn
  <2>3. ASSUME ~once, NEW m \in Monitors
        PROVE  GoOnTime(m)'
    <3>1. PICK p \in Nat \ {0}, g \in Nat :
            p = Period(m) /\ g = second % p /\ g <= p - 1
      BY <1>0
    <3>2. until[m] = p - 1 - g
      <4>1. m < turn
        BY <1>0, <2>1
      <4> QED
        BY <2>3, <3>1, <4>1 DEF GoCountdowns, GoOnTime
    <3>3. second' % p = IF g = p - 1 THEN 0 ELSE g + 1
      <4>1. (second + 1) % p = IF g = p - 1 THEN 0 ELSE g + 1
        BY <1>0, <3>1, RemainderOfSuccessor
      <4>2. CASE p = 1
        <5>0. second + 1 \in Nat
          BY <1>0
        <5>1. second' \in Nat
          BY <2>1, <5>0, Division, ScheduleAssumption
        <5> QED
          BY <3>1, <4>2, <5>1, Division
      <4>3. CASE p = Interval
        <5>0. second + 1 \in Nat
          BY <1>0
        <5>1. (second + 1) % p \in 0..p - 1
          BY <3>1, <5>0, Division
        <5>2. second' \in 0..p - 1
          BY <2>1, <4>3, <5>1
        <5>3. second' % p = second'
          BY <3>1, <5>2
        <5> QED
          BY <2>1, <4>1, <4>3, <5>3
      <4> QED
        BY <3>1, <4>2, <4>3, ScheduleAssumption DEF Period
    <3>4. ~(m < turn') /\ m >= turn'
      BY <1>0, <2>1
    <3>5. PICK r \in Nat :
            r = second' % p /\ r = IF g = p - 1 THEN 0 ELSE g + 1
      BY <3>1, <3>3
    <3>6. until'[m] = IF r = 0 THEN 0 ELSE p - r
      BY <2>1, <3>1, <3>2, <3>5
    <3>7. r > 0 <=> r # 0
      BY <3>5
    <3>8. second' % Period(m) = r
      BY <3>1, <3>5
    <3> QED
      BY <3>1, <3>4, <3>6, <3>7, <3>8 DEF GoOnTime, Period
  <2> QED
    BY <2>1, <2>2, <2>3 DEF GoCountdowns, GoOnSchedule
<1>4. CASE EndCheck
  <2>1. PICK t \in Monitors :
          /\ t = turn /\ loop = "checking" /\ seen' = seen \cup {t}
          /\ UNCHANGED <<once, until, second>>
          /\ once => turn' = t + 1 /\ loop' = "passing"
          /\ ~once => turn' = t /\ loop' = "handling" /\ until[t] = 0
    BY <1>4 DEF EndCheck, GoCountdowns
  <2>2. once \/ second % Period(t) = 0
    <3>1. ~once => GoOnTime(t) /\ t >= turn
      BY <1>0, <2>1 DEF GoCountdowns
    <3> QED
      BY <1>0, <2>1, <3>1 DEF GoOnTime
  <2>3. ASSUME NEW m \in Monitors
        PROVE  m \in seen' <=> /\ HadItsTurn(m)'
                               /\ once' \/ second' % Period(m) = 0
    <3>1. m \in seen <=> HadItsTurn(m) /\ (once \/ second % Period(m) = 0)
      BY DEF GoOnSchedule
    <3>2. HadItsTurn(m)' <=> HadItsTurn(m) \/ m = t
      BY <1>0, <2>1 DEF HadItsTurn
    <3> QED
      BY <2>1, <2>2, <3>1, <3>2
  <2>4. GoCountdowns'
    BY <2>1 DEF GoCountdowns, GoOnTime, Period
  <2> QED
    BY <2>3, <2>4 DEF GoOnSchedule, Period
<1>5. CASE BeginCheck
  <2>1. /\ loop = "passing" /\ loop' = "checking" /\ turn \in Monitors
        /\ once \/ until[turn] = 0
        /\ UNCHANGED <<once, turn, until, second, seen>>
    BY <1>5 DEF BeginCheck, passVars
  <2> QED
    BY <2>1 DEF GoCountdowns, GoOnTime, GoOnSchedule, HadItsTurn, Period
<1>6. CASE GoAside
  <2>1. UNCHANGED <<once, turn, until, second, seen>>
    BY <1>6, GoAsideKeeps
  <2>2. /\ loop' = "checking" => loop = "checking"
        /\ loop' = "selecting" => loop = "selecting" \/ turn \notin Monitors
        /\ loop' \in {"handling", "sending"}
             => \/ loop \in {"handling", "sending"}
                \/ once /\ turn \notin Monitors
        /\ loop \in {"handling", "sending"}
             => loop' \in {"handling", "sending"}
    BY <1>6 DEF GoAside, Tick, Cancel, HandleOnce, GoEndPass, Withhold,
                BeginSend, EndSend, SelectDone, Stopped, goVars
  <2>3. GoCountdowns'
    BY <2>1, <2>2 DEF GoCountdowns, GoOnTime, Period
  <2>4. GoOnSchedule'
    BY <2>1, <2>2 DEF GoOnSchedule, HadItsTurn, Period
  <2> QED
    BY <2>3, <2>4
<1> QED
  BY <1>1, <1>2, <1>3, <1>4, <1>5, <1>6 DEF GoNext, Pass, Handle, GoAside

(* The Go agent's invariant, for every number of monitors and alerts, and  *)
(* every interval.                                                         *)
THEOREM GoAgentInvariant == GoSpec => []GoIInv
<1>1. GoInit => GoIInv
  <2> SUFFICES ASSUME GoInit PROVE GoIInv
    OBVIOUS
  <2>1. GoTypeOK
    <3>1. /\ 0 \in 0..Interval - 1 /\ <<>> \in Seq(BOOLEAN)
          /\ {} \subseteq Monitors
      BY ScheduleAssumption
    <3> QED
      BY <3>1, ScheduleStarts DEF GoInit, GoTypeOK, LoopStates
  <2>2. OnlyReasons /\ NoFalseAlarm
    BY DEF GoInit, OnlyReasons, NoFalseAlarm
  <2>3. ASSUME NEW m \in Monitors PROVE 0 % Period(m) = 0 /\ m >= 1
    BY PeriodType, MonitorsType DEF Monitors
  <2>4. GoCountdowns
    BY <2>3 DEF GoInit, ScheduleInit, GoCountdowns, GoOnTime
  <2>5. GoOnSchedule
    BY <2>3 DEF GoInit, ScheduleInit, GoOnSchedule, HadItsTurn
  <2> QED
    BY <2>1, <2>2, <2>4, <2>5 DEF GoIInv
<1>2. GoIInv /\ [GoNext]_goVars => GoIInv'
  BY GoTypesStep, ReasonsStep, SecondsStep DEF GoIInv
<1> QED
  BY <1>1, <1>2, PTL DEF GoSpec

(* A check that the cancellation cut short never alarms anybody, and after *)
(* the cancellation at most the alert in flight is posted.                 *)
THEOREM NoAlarmIsFalse == GoSpec => []NoFalseAlarm
<1>1. GoIInv => NoFalseAlarm
  BY DEF GoIInv
<1> QED
  BY <1>1, GoAgentInvariant, PTL

(* In every second the monitors whose period divides it are checked, and   *)
(* no others.                                                              *)
THEOREM GoScheduleKept == GoSpec => []GoOnSchedule
<1>1. GoIInv => GoOnSchedule
  BY DEF GoIInv
<1> QED
  BY <1>1, GoAgentInvariant, PTL
============================================================================
