------------------------------ MODULE Schedule ------------------------------
(***************************************************************************)
(* The schedule the two agents share: MonitorSchedule of                   *)
(* include/cachewraith/app/Application.h with addMonitor and runScheduled, *)
(* and scheduledMonitor of agent-go/cmd/agent/main.go with add and run.    *)
(* In each pass every monitor has its turn, and either counts down or is   *)
(* checked and starts its countdown again.                                 *)
(***************************************************************************)
EXTENDS Naturals

CONSTANTS
  LogMonitors,      \* the monitors registered with a period of one second
  OtherMonitors,    \* those registered with the configured interval
  Interval          \* that interval: the configuration keeps it positive

ASSUME ScheduleAssumption ==
  /\ LogMonitors \in Nat
  /\ OtherMonitors \in Nat
  /\ Interval \in Nat \ {0}

VARIABLES
  once,             \* --once was given
  turn,             \* the monitor whose turn it is in the pass
  until             \* the seconds until its next check, per monitor

Monitors == 1..LogMonitors + OtherMonitors

(* A period below one second is one second. *)
Period(m) ==
  IF m <= LogMonitors THEN 1 ELSE IF Interval < 1 THEN 1 ELSE Interval

ScheduleInit ==
  /\ once \in BOOLEAN
  /\ turn = 1
  /\ until = [m \in Monitors |-> 0]

(* The monitor whose turn it is is not due: its countdown goes on. *)
CountOn ==
  /\ ~once
  /\ turn \in Monitors
  /\ until[turn] > 0
  /\ until' = [until EXCEPT ![turn] = @ - 1]
  /\ turn' = turn + 1

(* It has been checked: its countdown starts again. *)
CountAnew ==
  /\ until' = [until EXCEPT ![turn] = Period(turn) - 1]
  /\ turn' = turn + 1

ScheduleTypeOK ==
  /\ once \in BOOLEAN
  /\ turn \in 1..LogMonitors + OtherMonitors + 1
  /\ until \in [Monitors -> Nat]
  /\ \A m \in Monitors : until[m] < Period(m)
=============================================================================
