------------------------------ MODULE GoAgent ------------------------------
(***************************************************************************)
(* The loop of the Go agent (agent-go/cmd/agent/main.go) with the manager  *)
(* that sends its alerts (agent-go/internal/alert/telegram.go).  There is  *)
(* one goroutine and no queue: an alert is sent where it is handled, in    *)
(* the context that a signal cancels.  The same context cuts short the     *)
(* checks that run a command or a request, which then report as down what  *)
(* they could not ask.                                                     *)
(*                                                                         *)
(* Seconds are counted by passes, modulo the interval, so that no bound    *)
(* cuts a behaviour off.                                                   *)
(***************************************************************************)
EXTENDS Schedule, Sequences

CONSTANTS
  ContextMonitors,  \* those whose check a cancelled context fails
  MaxAlerts         \* bound on the alerts of one check

ASSUME GoAgentAssumption ==
  /\ ContextMonitors \subseteq LogMonitors + 1..LogMonitors + OtherMonitors
  /\ MaxAlerts \in Nat

VARIABLES
  loop,         \* what the goroutine is doing
  cancelled,    \* ctx.Done() is closed
  tick,         \* the ticker's channel, of capacity one, is full
  alerts,       \* the alerts left to handle: TRUE where there is a reason
  second,       \* history: passes before this one, modulo Interval
  seen,         \* history: the monitors checked in this pass
  falseAlarm,   \* history: an alert without a reason is in the chat
  late          \* history: alerts that were posted after the cancellation

passVars == <<turn, until, second, seen>>
chatVars == <<alerts, falseAlarm, late>>
goVars == <<loop, once, cancelled, tick, passVars, chatVars>>

LoopStates == {"passing", "checking", "handling", "sending", "selecting",
               "stopped"}

(* What a check can return. *)
AlertLists == UNION {[1..n -> BOOLEAN] : n \in 0..MaxAlerts}

GoInit ==
  /\ loop = "passing"
  /\ cancelled = FALSE
  /\ tick = FALSE
  /\ alerts = <<>>
  /\ second = 0
  /\ seen = {}
  /\ falseAlarm = FALSE
  /\ late = 0
  /\ ScheduleInit

----------------------------------------------------------------------------
(* The world: the ticker, and a signal that NotifyContext catches. *)

Tick ==
  /\ loop # "stopped"
  /\ tick' = TRUE
  /\ UNCHANGED <<loop, once, cancelled, passVars, chatVars>>

Cancel ==
  /\ loop # "stopped"
  /\ cancelled' = TRUE
  /\ UNCHANGED <<loop, once, tick, passVars, chatVars>>

----------------------------------------------------------------------------
(* A pass over the monitors: run, and runOnce without the countdowns *)

GoCountDown ==
  /\ loop = "passing"
  /\ CountOn
  /\ UNCHANGED <<loop, once, cancelled, tick, second, seen, chatVars>>

BeginCheck ==
  /\ loop = "passing"
  /\ turn \in Monitors
  /\ once \/ until[turn] = 0
  /\ loop' = "checking"
  /\ UNCHANGED <<once, cancelled, tick, passVars, chatVars>>

(* Variant: a panic in a check is not recovered. *)
EndCheckOrPanic ==
  /\ loop = "checking"
  /\ \/ loop' = "stopped" /\ UNCHANGED <<turn, seen>>
     \/ /\ seen' = seen \cup {turn}
        /\ turn' = IF once THEN turn + 1 ELSE turn
        /\ loop' = IF once THEN "passing" ELSE "handling"
  /\ UNCHANGED <<once, cancelled, tick, until, second, chatVars>>

(* safeCheck: the check returns some alerts, or panics and returns none.   *)
(* One that the cancellation can have cut short may hold false ones.       *)
EndCheck ==
  /\ loop = "checking"
  /\ \E found \in AlertLists :
       /\ (\E i \in DOMAIN found : ~found[i])
            => cancelled /\ turn \in ContextMonitors
       /\ IF once
          THEN /\ Len(alerts) + Len(found) <= MaxAlerts
               /\ alerts' = alerts \o found
          ELSE alerts' = found
  /\ seen' = seen \cup {turn}
  /\ IF once
     THEN turn' = turn + 1 /\ loop' = "passing"
     ELSE turn' = turn /\ loop' = "handling"
  /\ UNCHANGED <<once, cancelled, tick, until, second, falseAlarm, late>>

(* runOnce hands over the alerts of all checks together. *)
HandleOnce ==
  /\ loop = "passing"
  /\ once
  /\ turn \notin Monitors
  /\ loop' = "handling"
  /\ UNCHANGED <<once, cancelled, tick, passVars, chatVars>>

----------------------------------------------------------------------------
(* Manager.Handle *)

(* The cooldown withholds the alert, or the notifier is not configured. *)
Withhold ==
  /\ loop = "handling"
  /\ alerts # <<>>
  /\ alerts' = Tail(alerts)
  /\ UNCHANGED <<loop, once, cancelled, tick, passVars, falseAlarm, late>>

(* Variant: the request is not made in the context. *)
BeginSendDetached ==
  /\ loop = "handling"
  /\ alerts # <<>>
  /\ loop' = "sending"
  /\ UNCHANGED <<once, cancelled, tick, passVars, chatVars>>

(* A request in a context that is cancelled already is not made. *)
BeginSend ==
  /\ loop = "handling"
  /\ alerts # <<>>
  /\ IF cancelled
     THEN alerts' = Tail(alerts) /\ UNCHANGED loop
     ELSE loop' = "sending" /\ UNCHANGED alerts
  /\ UNCHANGED <<once, cancelled, tick, passVars, falseAlarm, late>>

(* The request ends, at the latest after 8 seconds: the alert is posted or *)
(* it is not, and is not tried again.                                      *)
EndSend ==
  /\ loop = "sending"
  /\ \/ UNCHANGED <<falseAlarm, late>>
     \/ /\ falseAlarm' = (falseAlarm \/ ~Head(alerts))
        /\ late' = IF cancelled THEN late + 1 ELSE late
  /\ alerts' = Tail(alerts)
  /\ loop' = "handling"
  /\ UNCHANGED <<once, cancelled, tick, passVars>>

(* Variant: the countdown is not started again. *)
EndHandleNoReset ==
  /\ loop = "handling"
  /\ alerts = <<>>
  /\ IF once
     THEN loop' = "stopped" /\ UNCHANGED turn
     ELSE turn' = turn + 1 /\ loop' = "passing"
  /\ UNCHANGED <<once, cancelled, tick, until, second, seen, chatVars>>

EndHandle ==
  /\ loop = "handling"
  /\ alerts = <<>>
  /\ IF once
     THEN loop' = "stopped" /\ UNCHANGED <<until, turn>>
     ELSE CountAnew /\ loop' = "passing"
  /\ UNCHANGED <<once, cancelled, tick, second, seen, chatVars>>

----------------------------------------------------------------------------
(* The select at the end of a pass *)

GoEndPass ==
  /\ loop = "passing"
  /\ ~once
  /\ turn \notin Monitors
  /\ loop' = "selecting"
  /\ UNCHANGED <<once, cancelled, tick, passVars, chatVars>>

(* Variant: the ticker goes first. *)
SelectDoneIfIdle ==
  /\ loop = "selecting"
  /\ cancelled
  /\ ~tick
  /\ loop' = "stopped"
  /\ UNCHANGED <<once, cancelled, tick, passVars, chatVars>>

SelectDone ==
  /\ loop = "selecting"
  /\ cancelled
  /\ loop' = "stopped"
  /\ UNCHANGED <<once, cancelled, tick, passVars, chatVars>>

(* The other case, which may be taken when both are ready. *)
SelectTick ==
  /\ loop = "selecting"
  /\ tick
  /\ tick' = FALSE
  /\ loop' = "passing"
  /\ turn' = 1
  /\ second' = (second + 1) % Interval
  /\ seen' = {}
  /\ UNCHANGED <<once, cancelled, until, chatVars>>

Stopped == loop = "stopped" /\ UNCHANGED goVars

----------------------------------------------------------------------------

Pass == GoCountDown \/ BeginCheck \/ EndCheck \/ HandleOnce \/ GoEndPass

Handle == Withhold \/ BeginSend \/ EndSend \/ EndHandle

GoNext ==
  \/ Tick \/ Cancel
  \/ Pass \/ Handle \/ SelectDone \/ SelectTick \/ Stopped

(* The goroutine is scheduled, checks and requests end, the ticker ticks.  *)
(* select chooses at random between cases that are ready: one that is      *)
(* ready again and again is chosen in the end.  No signal need come.       *)
GoFairness ==
  /\ WF_goVars(Pass) /\ WF_goVars(Handle) /\ WF_goVars(Tick)
  /\ WF_goVars(SelectTick) /\ SF_goVars(SelectDone)

GoSpec == GoInit /\ [][GoNext]_goVars /\ GoFairness

----------------------------------------------------------------------------
(* A service or a site that a cancelled check could not ask is reported    *)
(* down to the manager, and never to the chat; and of the alerts with a    *)
(* reason only the one in flight can still be posted.                      *)
NoFalseAlarm == ~falseAlarm /\ late <= 1

(* In the pass of every second, exactly the monitors whose period that     *)
(* second is a multiple of are checked, in turn.                           *)
HadItsTurn(m) ==
  m < turn \/ (m = turn /\ loop \in {"handling", "sending"})

GoOnSchedule ==
  \A m \in Monitors :
    m \in seen <=> HadItsTurn(m) /\ (once \/ second % Period(m) = 0)

----------------------------------------------------------------------------
(* The inductive invariant. *)
GoTypeOK ==
  /\ ScheduleTypeOK
  /\ loop \in LoopStates
  /\ cancelled \in BOOLEAN /\ tick \in BOOLEAN
  /\ alerts \in Seq(BOOLEAN)
  /\ second \in 0..Interval - 1
  /\ seen \subseteq Monitors
  /\ late \in Nat

(* Alerts without a reason come only after the cancellation, after which   *)
(* no request begins; the one in flight began before.                      *)
OnlyReasons ==
  /\ ~cancelled \/ loop = "sending" => \A i \in DOMAIN alerts : alerts[i]
  /\ loop = "sending" => alerts # <<>>
  /\ late > 0 => cancelled /\ loop # "sending"

(* A countdown is what its period leaves of the seconds counted. *)
GoOnTime(m) ==
  LET gone == second % Period(m)
  IN  /\ m < turn               => until[m] = Period(m) - 1 - gone
      /\ m >= turn /\ gone = 0 => until[m] = 0
      /\ m >= turn /\ gone > 0 => until[m] = Period(m) - gone

GoCountdowns ==
  /\ loop \in {"checking", "handling", "sending"} /\ ~once
       => turn \in Monitors /\ until[turn] = 0
  /\ loop \in {"handling", "sending"} /\ once => turn \notin Monitors
  /\ loop = "checking" => turn \in Monitors
  /\ loop = "selecting" => turn \notin Monitors
  /\ ~once => \A m \in Monitors : GoOnTime(m)

GoIInv ==
  /\ GoTypeOK
  /\ OnlyReasons
  /\ GoCountdowns
  /\ NoFalseAlarm
  /\ GoOnSchedule

----------------------------------------------------------------------------
(* A signal ends the agent, however long it has been running, although the *)
(* pass under way goes on and the ticker may win the select.               *)
SignalEnds == cancelled ~> loop = "stopped"

(* Until a signal comes, no monitor is starved: each is checked again and  *)
(* again, whatever the requests and checks of the others do.               *)
AllMonitored ==
  \A m \in Monitors : []<>(m \in seen \/ once \/ cancelled)
=============================================================================
