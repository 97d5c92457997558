-------------------------- MODULE NginxLogMonitor --------------------------
(***************************************************************************)
(* NginxLogMonitor::check of src/security/NginxLogMonitor.cpp, and its Go  *)
(* twin (agent-go/internal/monitor/nginx.go): requests and 404 answers are *)
(* counted per address in one common window, suspicious paths are reported *)
(* one by one.  Unlike the SSH monitor's, a count that is reported starts  *)
(* again without moving the window, and the events of one count move the   *)
(* window of the other.                                                    *)
(***************************************************************************)
EXTENDS TumblingWindow

CONSTANTS
  Addresses,            \* the addresses requests come from
  RequestsPerMinute,    \* thresholds.nginx_requests_per_minute: any integer
  NotFoundPerMinute,    \* thresholds.nginx_404_per_minute: any integer
  Minute,               \* the window, std::chrono::minutes(1), in ticks
  MaxTime,              \* bound on the clock
  MaxLines              \* bound on the access lines read

ASSUME NginxAssumption ==
  /\ RequestsPerMinute \in Int
  /\ NotFoundPerMinute \in Int
  /\ Minute \in Nat
  /\ MaxTime \in Nat
  /\ MaxLines \in Nat

VARIABLES
  clock,        \* the steady clock
  checking,     \* check() is running
  now,          \* its local `now`
  byIp,         \* NginxLogMonitor::by_ip_: a missing entry is zeros
  alerts,       \* its local `alerts`, the last vector it returned between calls
  read,         \* history: access lines read so far
  requested,    \* history: per address, the value of `now` for each request
                \* since the last rate alert about it
  missed        \* history: the same for 404 answers and 404 alerts

vars == <<clock, checking, now, byIp, alerts, read, requested, missed>>

Alerts == [type : {"web_scan", "web_rate", "web_404"}, ip : Addresses,
           count : Int, times : Seq(Int)]

NoCounter == [requests |-> 0, notFound |-> 0, suspicious |-> 0,
              windowStart |-> 0]

Init ==
  /\ clock = 1
  /\ checking = FALSE
  /\ now = 1
  /\ byIp = [ip \in Addresses |-> NoCounter]
  /\ alerts = <<>>
  /\ read = 0
  /\ requested = [ip \in Addresses |-> <<>>]
  /\ missed = [ip \in Addresses |-> <<>>]

Tick ==
  /\ clock < MaxTime
  /\ clock' = clock + 1
  /\ UNCHANGED <<checking, now, byIp, alerts, read, requested, missed>>

BeginCheck ==
  /\ ~checking
  /\ checking' = TRUE
  /\ now' = clock
  /\ alerts' = <<>>
  /\ UNCHANGED <<clock, byIp, read, requested, missed>>

(* Variant: a window that has run out is only moved, not emptied. *)
WindowMoved(counter) ==
  IF Expired(counter.windowStart, now, Minute)
  THEN [counter EXCEPT !.windowStart = now]
  ELSE counter

(* Variant: every check opens a window. *)
WindowOfCheck(counter) ==
  IF now > counter.windowStart
  THEN [NoCounter EXCEPT !.windowStart = now]
  ELSE counter

(* The counter a request is added to. *)
InWindow(counter) ==
  IF Expired(counter.windowStart, now, Minute)
  THEN [NoCounter EXCEPT !.windowStart = now]
  ELSE counter

Counted(counter, notFound, suspicious) ==
  LET c == InWindow(counter) IN
  [requests |-> c.requests + 1,
   notFound |-> IF notFound THEN c.notFound + 1 ELSE c.notFound,
   suspicious |-> IF suspicious THEN c.suspicious + 1 ELSE c.suspicious,
   windowStart |-> c.windowStart]

(* The alerts one line raises, in the order of the code. *)
Raised(ip, counter, requestTimes, missedTimes) ==
  LET Of(type, count, times) ==
        <<[type |-> type, ip |-> ip, count |-> count, times |-> times]>>
  IN  (IF counter.suspicious > 0
       THEN Of("web_scan", counter.suspicious, <<>>) ELSE <<>>)
      \o (IF counter.requests >= RequestsPerMinute
          THEN Of("web_rate", counter.requests, requestTimes) ELSE <<>>)
      \o (IF counter.notFound >= NotFoundPerMinute
          THEN Of("web_404", counter.notFound, missedTimes) ELSE <<>>)

Unreported(count, threshold) == IF count >= threshold THEN 0 ELSE count

(* What was reported starts again at zero; the window stays. *)
Reset(counter) ==
  [requests |-> Unreported(counter.requests, RequestsPerMinute),
   notFound |-> Unreported(counter.notFound, NotFoundPerMinute),
   suspicious |-> 0,
   windowStart |-> counter.windowStart]

(* One access line, with a 404 status or not, a suspicious path or not. *)
ReadRequest(ip, notFound, suspicious) ==
  LET counter == Counted(byIp[ip], notFound, suspicious)
      requestTimes == Append(requested[ip], now)
      missedTimes == IF notFound THEN Append(missed[ip], now) ELSE missed[ip]
  IN
  /\ checking
  /\ read < MaxLines
  /\ read' = read + 1
  /\ alerts' = alerts \o Raised(ip, counter, requestTimes, missedTimes)
  /\ byIp' = [byIp EXCEPT ![ip] = Reset(counter)]
  /\ requested' = [requested EXCEPT ![ip] =
       IF counter.requests >= RequestsPerMinute THEN <<>> ELSE requestTimes]
  /\ missed' = [missed EXCEPT ![ip] =
       IF counter.notFound >= NotFoundPerMinute THEN <<>> ELSE missedTimes]
  /\ UNCHANGED <<clock, checking, now>>

(* The log has no more lines: the alerts are returned. *)
EndCheck ==
  /\ checking
  /\ checking' = FALSE
  /\ UNCHANGED <<clock, now, byIp, alerts, read, requested, missed>>

Next ==
  \/ Tick
  \/ BeginCheck
  \/ \E ip \in Addresses, notFound, suspicious \in BOOLEAN :
       ReadRequest(ip, notFound, suspicious)
  \/ EndCheck

Spec == Init /\ [][Next]_vars

----------------------------------------------------------------------------
(* Type invariant; between lines every count is below its threshold (a     *)
(* 404 threshold below one is met by no 404 at all).                       *)
TypeOK ==
  /\ clock \in Nat
  /\ checking \in BOOLEAN
  /\ now \in 1..clock
  /\ byIp \in [Addresses -> [requests : 0..Limit(RequestsPerMinute) - 1,
                             notFound : 0..Limit(NotFoundPerMinute) - 1,
                             suspicious : {0},
                             windowStart : 0..now]]
  /\ alerts \in Seq(Alerts)
  /\ read \in 0..MaxLines
  /\ requested \in [Addresses -> Seq(Int)]
  /\ missed \in [Addresses -> Seq(Int)]

(* A rate or 404 alert tells the truth: as many requests or 404 answers of *)
(* its address as it counts, none of them reported before, were read       *)
(* within its minute.  (With a 404 threshold below one an alert may count  *)
(* none.)                                                                  *)
BurstsAreReal ==
  \A i \in 1..Len(alerts) :
    alerts[i].type # "web_scan" /\ alerts[i].count > 0
      => LastWithin(alerts[i].times, alerts[i].count, Minute)

(* No burst of twice the threshold, less one, within a minute goes         *)
(* unreported, although the window neither slides nor belongs to one of    *)
(* the two counts.                                                         *)
BurstsAreReported ==
  \A ip \in Addresses :
    /\ NoRun(requested[ip], SureBurst(RequestsPerMinute), Minute)
    /\ NoRun(missed[ip], SureBurst(NotFoundPerMinute), Minute)

(* The threshold's number of requests, or of 404 answers, in one check is  *)
(* reported, whatever was counted before it: a check reads the clock once. *)
ChecksReport ==
  \A ip \in Addresses :
    /\ NoRun(requested[ip], Limit(RequestsPerMinute), 0)
    /\ NoRun(missed[ip], Limit(NotFoundPerMinute), 0)

----------------------------------------------------------------------------
(* The inductive invariant: both histories fit the common window. *)
Windows ==
  \A ip \in Addresses :
    /\ Window(requested[ip], byIp[ip].requests, byIp[ip].windowStart, now,
              RequestsPerMinute, Minute)
    /\ Window(missed[ip], byIp[ip].notFound, byIp[ip].windowStart, now,
              NotFoundPerMinute, Minute)

IInv ==
  /\ TypeOK
  /\ Windows
  /\ BurstsAreReal
=============================================================================
