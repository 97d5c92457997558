--------------------------- MODULE SshLogMonitor ---------------------------
(***************************************************************************)
(* SshLogMonitor::check of src/security/SshLogMonitor.cpp, and its Go twin *)
(* (agent-go/internal/monitor/ssh.go): failed logins are counted per       *)
(* address and reported as a brute-force attack, successful ones are       *)
(* reported one by one.  The clock is read once, before the new lines; the *)
(* lines a check reads are any the log may hold.                           *)
(***************************************************************************)
EXTENDS TumblingWindow

CONSTANTS
  Addresses,    \* the addresses logins come from
  Threshold,    \* thresholds.ssh_failed_attempts: nothing keeps it positive
  Minutes5,     \* the window, std::chrono::minutes(5), in ticks of the clock
  MaxTime,      \* bound on the clock
  MaxLines      \* bound on the login lines read

ASSUME SshAssumption ==
  /\ Threshold \in Int
  /\ Minutes5 \in Nat
  /\ MaxTime \in Nat
  /\ MaxLines \in Nat

VARIABLES
  clock,        \* the steady clock
  checking,     \* check() is running
  now,          \* its local `now`
  failedByIp,   \* SshLogMonitor::failed_by_ip_: a missing entry is zeros
  alerts,       \* its local `alerts`, the last vector it returned between calls
  read,         \* history: login lines read so far
  since         \* history: per address, the value of `now` for each failure
                \* since the last brute-force alert about it

vars == <<clock, checking, now, failedByIp, alerts, read, since>>

Alerts == [type : {"ssh_login", "ssh_bruteforce"}, ip : Addresses,
           count : Int, times : Seq(Int)]

Init ==
  /\ clock = 1
  /\ checking = FALSE
  /\ now = 1
  /\ failedByIp = [ip \in Addresses |-> [count |-> 0, windowStart |-> 0]]
  /\ alerts = <<>>
  /\ read = 0
  /\ since = [ip \in Addresses |-> <<>>]

Tick ==
  /\ clock < MaxTime
  /\ clock' = clock + 1
  /\ UNCHANGED <<checking, now, failedByIp, alerts, read, since>>

BeginCheck ==
  /\ ~checking
  /\ checking' = TRUE
  /\ now' = clock
  /\ alerts' = <<>>
  /\ UNCHANGED <<clock, failedByIp, read, since>>

(* An accepted password or key: an alert, and no effect on the counters. *)
ReadLogin(ip) ==
  /\ checking
  /\ read < MaxLines
  /\ read' = read + 1
  /\ alerts' = Append(alerts, [type |-> "ssh_login", ip |-> ip,
                               count |-> 0, times |-> <<>>])
  /\ UNCHANGED <<clock, checking, now, failedByIp, since>>

(* Variant: the window restarts when it has run out, the count does not. *)
CountKept(counter) ==
  [count |-> counter.count + 1,
   windowStart |-> IF Expired(counter.windowStart, now, Minutes5)
                   THEN now ELSE counter.windowStart]

(* The counter of the address when one more failure is counted. *)
Counted(counter) ==
  IF Expired(counter.windowStart, now, Minutes5)
  THEN [count |-> 1, windowStart |-> now]
  ELSE [counter EXCEPT !.count = @ + 1]

(* A failed attempt below the threshold. *)
CountFailure(ip) ==
  LET counter == Counted(failedByIp[ip]) IN
  /\ checking
  /\ read < MaxLines
  /\ read' = read + 1
  /\ counter.count < Threshold
  /\ failedByIp' = [failedByIp EXCEPT ![ip] = counter]
  /\ since' = [since EXCEPT ![ip] = Append(@, now)]
  /\ UNCHANGED <<clock, checking, now, alerts>>

(* Variant: the counter goes on after an alert. *)
ReportAndGoOn(ip) ==
  LET counter == Counted(failedByIp[ip]) IN
  /\ checking
  /\ read < MaxLines
  /\ read' = read + 1
  /\ counter.count >= Threshold
  /\ alerts' = Append(alerts, [type |-> "ssh_bruteforce", ip |-> ip,
                               count |-> counter.count,
                               times |-> Append(since[ip], now)])
  /\ failedByIp' = [failedByIp EXCEPT ![ip] = counter]
  /\ since' = [since EXCEPT ![ip] = <<>>]
  /\ UNCHANGED <<clock, checking, now>>

(* The failed attempt that reaches it: the counting starts again. *)
ReportAttack(ip) ==
  LET counter == Counted(failedByIp[ip]) IN
  /\ checking
  /\ read < MaxLines
  /\ read' = read + 1
  /\ counter.count >= Threshold
  /\ alerts' = Append(alerts, [type |-> "ssh_bruteforce", ip |-> ip,
                               count |-> counter.count,
                               times |-> Append(since[ip], now)])
  /\ failedByIp' = [failedByIp EXCEPT ![ip] = [count |-> 0,
                                               windowStart |-> now]]
  /\ since' = [since EXCEPT ![ip] = <<>>]
  /\ UNCHANGED <<clock, checking, now>>

(* The log has no more lines: the alerts are returned. *)
EndCheck ==
  /\ checking
  /\ checking' = FALSE
  /\ UNCHANGED <<clock, now, failedByIp, alerts, read, since>>

Next ==
  \/ Tick
  \/ BeginCheck
  \/ \E ip \in Addresses : ReadLogin(ip) \/ CountFailure(ip) \/ ReportAttack(ip)
  \/ EndCheck

Spec == Init /\ [][Next]_vars

----------------------------------------------------------------------------
(* Type invariant; between lines every count is below the threshold. *)
TypeOK ==
  /\ clock \in Nat
  /\ checking \in BOOLEAN
  /\ now \in 1..clock
  /\ failedByIp \in [Addresses -> [count : 0..Limit(Threshold) - 1,
                                   windowStart : 0..now]]
  /\ alerts \in Seq(Alerts)
  /\ read \in 0..MaxLines
  /\ since \in [Addresses -> Seq(Int)]

(* A brute-force alert tells the truth: as many failures of its address as *)
(* it counts, at least the threshold and none of them reported before,     *)
(* were read within its five minutes, however the checks and the failures  *)
(* of other addresses interleave.                                          *)
AttacksAreReal ==
  \A i \in 1..Len(alerts) :
    alerts[i].type = "ssh_bruteforce"
      => /\ alerts[i].count >= Threshold
         /\ LastWithin(alerts[i].times, alerts[i].count, Minutes5)

(* No attack of twice the threshold, less one, within the window goes      *)
(* unreported, wherever the windows that do not slide happen to begin.     *)
AttacksAreReported ==
  \A ip \in Addresses : NoRun(since[ip], SureBurst(Threshold), Minutes5)

(* The threshold's number of failures in one check is reported, whatever   *)
(* was counted before it: a check reads the clock once, so that no window  *)
(* can split what it counts.                                               *)
ChecksReport ==
  \A ip \in Addresses : NoRun(since[ip], Limit(Threshold), 0)

(* What docs/configuration.md:133 says of the threshold: that many failed  *)
(* attempts from one address in five minutes are reported.                 *)
ThresholdReported ==
  \A ip \in Addresses : NoRun(since[ip], Limit(Threshold), Minutes5)

----------------------------------------------------------------------------
(* The inductive invariant: every address's history fits its counter. *)
Windows ==
  \A ip \in Addresses :
    Window(since[ip], failedByIp[ip].count, failedByIp[ip].windowStart, now,
           Threshold, Minutes5)

IInv ==
  /\ TypeOK
  /\ Windows
  /\ AttacksAreReal
=============================================================================
