----------------------- MODULE NginxLogMonitorProofs -----------------------
(***************************************************************************)
(* The request and 404 detectors for every pair of thresholds, window and  *)
(* set of addresses: what they report happened, and what must not be       *)
(* missed is reported, although the two counts share one window.           *)
(***************************************************************************)
EXTENDS NginxLogMonitor, SequenceFacts, TLAPS

(* The alerts that tell the truth. *)
TrueAlerts ==
  {alert \in Alerts :
     alert.type # "web_scan" /\ alert.count > 0
       => LastWithin(alert.times, alert.count, Minute)}

(* The histories and the constants have the types the window facts need. *)
LEMMA Types ==
  ASSUME IInv, NEW ip \in Addresses
  PROVE  /\ now \in Nat \ {0}
         /\ RequestsPerMinute \in Int /\ NotFoundPerMinute \in Int
         /\ Minute \in Nat
         /\ requested[ip] \in Seq(Int) /\ missed[ip] \in Seq(Int)
<1>1. now \in 1..clock /\ clock \in Nat
  BY DEF IInv, TypeOK
<1>2. now \in Nat \ {0}
  BY <1>1
<1> QED
  BY <1>2, NginxAssumption DEF IInv, TypeOK

(* The window a line is counted in, for both counts. *)
LEMMA LineWindow ==
  ASSUME IInv, NEW ip \in Addresses
  PROVE  \E requests, notFound \in Nat, start \in 1..now :
           /\ InWindow(byIp[ip]) = [requests |-> requests,
                                    notFound |-> notFound,
                                    suspicious |-> 0,
                                    windowStart |-> start]
           /\ now - start <= Minute
           /\ Window(requested[ip], requests, start, now,
                     RequestsPerMinute, Minute)
           /\ Window(missed[ip], notFound, start, now,
                     NotFoundPerMinute, Minute)
<1>1. /\ now \in Nat \ {0}
      /\ RequestsPerMinute \in Int /\ NotFoundPerMinute \in Int
      /\ Minute \in Nat
      /\ requested[ip] \in Seq(Int) /\ missed[ip] \in Seq(Int)
      /\ Limit(RequestsPerMinute) \in Nat /\ Limit(NotFoundPerMinute) \in Nat
  BY Types, LimitFacts
<1>2. /\ byIp[ip] \in [requests : 0..Limit(RequestsPerMinute) - 1,
                       notFound : 0..Limit(NotFoundPerMinute) - 1,
                       suspicious : {0}, windowStart : 0..now]
      /\ Window(requested[ip], byIp[ip].requests, byIp[ip].windowStart, now,
                RequestsPerMinute, Minute)
      /\ Window(missed[ip], byIp[ip].notFound, byIp[ip].windowStart, now,
                NotFoundPerMinute, Minute)
  BY DEF IInv, TypeOK, Windows
<1>3. CASE Expired(byIp[ip].windowStart, now, Minute)
  <2>1. /\ Window(requested[ip], 0, now, now, RequestsPerMinute, Minute)
        /\ Window(missed[ip], 0, now, now, NotFoundPerMinute, Minute)
    BY <1>1, <1>2, <1>3, WindowOpened
  <2>2. InWindow(byIp[ip]) = [requests |-> 0, notFound |-> 0,
                              suspicious |-> 0, windowStart |-> now]
    BY <1>3 DEF InWindow, NoCounter
  <2>3. now \in 1..now /\ now - now <= Minute /\ 0 \in Nat
    BY <1>1
  <2> QED
    BY <2>1, <2>2, <2>3
<1>4. CASE ~Expired(byIp[ip].windowStart, now, Minute)
  <2>1. /\ byIp[ip].windowStart \in 1..now
        /\ now - byIp[ip].windowStart <= Minute
        /\ byIp[ip].requests \in Nat /\ byIp[ip].notFound \in Nat
    BY <1>1, <1>2, <1>4 DEF Expired
  <2>2. InWindow(byIp[ip]) = [requests |-> byIp[ip].requests,
                              notFound |-> byIp[ip].notFound,
                              suspicious |-> 0,
                              windowStart |-> byIp[ip].windowStart]
    BY <1>2, <1>4 DEF InWindow
  <2> QED
    BY <1>2, <2>1, <2>2
<1> QED
  BY <1>3, <1>4

(* Sequences put one after the other, the sequence of one, and of none. *)
LEMMA ConcatType ==
  ASSUME NEW S, NEW s \in Seq(S), NEW t \in Seq(S)
  PROVE  s \o t \in Seq(S)
  BY ConcatFacts

LEMMA OneFacts ==
  ASSUME NEW S, NEW e \in S
  PROVE  <<e>> \in Seq(S) /\ <<>> \in Seq(S)
  OBVIOUS

(* That alerts are true is a matter of the set they come from. *)
LEMMA TruthOfAlerts ==
  ASSUME alerts \in Seq(Alerts)
  PROVE  BurstsAreReal <=> alerts \in Seq(TrueAlerts)
<1>1. ASSUME BurstsAreReal PROVE alerts \in Seq(TrueAlerts)
  <2>1. \A i \in 1..Len(alerts) : alerts[i] \in TrueAlerts
    BY <1>1 DEF BurstsAreReal, TrueAlerts
  <2> QED
    BY <2>1
<1>2. ASSUME alerts \in Seq(TrueAlerts) PROVE BurstsAreReal
  <2>1. \A i \in 1..Len(alerts) : alerts[i] \in TrueAlerts
    BY <1>2
  <2> QED
    BY <2>1 DEF BurstsAreReal, TrueAlerts
<1> QED
  BY <1>1, <1>2

(* An alert of a count that is true, or of nothing. *)
LEMMA TrueAlert ==
  ASSUME NEW type \in {"web_scan", "web_rate", "web_404"},
         NEW ip \in Addresses, NEW count \in Int, NEW times \in Seq(Int),
         type = "web_scan" \/ count = 0 \/ LastWithin(times, count, Minute)
  PROVE  [type |-> type, ip |-> ip, count |-> count, times |-> times]
           \in TrueAlerts
<1> DEFINE alert == [type |-> type, ip |-> ip, count |-> count,
                     times |-> times]
<1>1. alert \in Alerts
  BY DEF Alerts
<1>2. alert.type = type
  OBVIOUS
<1>3. alert.count = count
  OBVIOUS
<1>4. alert.times = times
  OBVIOUS
<1> HIDE DEF alert
<1>5. alert.type # "web_scan" /\ alert.count > 0
        => LastWithin(alert.times, alert.count, Minute)
  BY <1>2, <1>3, <1>4
<1>6. alert \in TrueAlerts
  BY <1>1, <1>5 DEF TrueAlerts
<1> QED
  BY <1>6 DEF alert

(* The monitor starts in the invariant: no window is open. *)
LEMMA InitIInv == Init => IInv
<1> SUFFICES ASSUME Init PROVE IInv
  OBVIOUS
<1>1. /\ Window(<<>>, 0, 0, 1, RequestsPerMinute, Minute)
      /\ Window(<<>>, 0, 0, 1, NotFoundPerMinute, Minute)
  BY WindowEmpty, NginxAssumption
<1>2. Windows
  BY <1>1 DEF Init, Windows, NoCounter
<1>3. TypeOK
  <2>1. NoCounter \in [requests : 0..Limit(RequestsPerMinute) - 1,
                       notFound : 0..Limit(NotFoundPerMinute) - 1,
                       suspicious : {0}, windowStart : 0..1]
    BY NginxAssumption, LimitFacts DEF NoCounter
  <2>2. 1 \in 1..1 /\ 0 \in 0..MaxLines /\ 1 \in Nat
    BY NginxAssumption
  <2>3. byIp \in [Addresses -> [requests : 0..Limit(RequestsPerMinute) - 1,
                                notFound : 0..Limit(NotFoundPerMinute) - 1,
                                suspicious : {0}, windowStart : 0..now]]
    BY <2>1 DEF Init
  <2>4. /\ requested \in [Addresses -> Seq(Int)]
        /\ missed \in [Addresses -> Seq(Int)]
        /\ alerts \in Seq(Alerts)
    BY DEF Init
  <2> QED
    BY <2>2, <2>3, <2>4 DEF Init, TypeOK
<1>4. BurstsAreReal
  BY DEF Init, BurstsAreReal
<1> QED
  BY <1>2, <1>3, <1>4 DEF IInv

(* A check begins: only time has passed for every window. *)
LEMMA BeginStep == IInv /\ BeginCheck => IInv'
<1> SUFFICES ASSUME IInv, BeginCheck PROVE IInv'
  OBVIOUS
<1>1. /\ now \in Nat /\ now' \in Nat /\ now <= now'
      /\ now' \in 1..clock' /\ clock' \in Nat
      /\ 0..now \subseteq 0..now'
  <2>1. now \in 1..clock /\ clock \in Nat
    BY DEF IInv, TypeOK
  <2> QED
    BY <2>1 DEF BeginCheck
<1>2. ASSUME NEW ip \in Addresses
      PROVE  /\ Window(requested[ip], byIp[ip].requests, byIp[ip].windowStart,
                       now', RequestsPerMinute, Minute)
             /\ Window(missed[ip], byIp[ip].notFound, byIp[ip].windowStart,
                       now', NotFoundPerMinute, Minute)
  <2>1. /\ Window(requested[ip], byIp[ip].requests, byIp[ip].windowStart, now,
                  RequestsPerMinute, Minute)
        /\ Window(missed[ip], byIp[ip].notFound, byIp[ip].windowStart, now,
                  NotFoundPerMinute, Minute)
    BY DEF IInv, Windows
  <2> QED
    BY <1>1, <2>1, Types, WindowLater
<1>3. Windows'
  BY <1>2 DEF BeginCheck, Windows
<1>4. TypeOK'
  BY <1>1 DEF IInv, TypeOK, BeginCheck
<1>5. BurstsAreReal'
  BY DEF BeginCheck, BurstsAreReal
<1> QED
  BY <1>3, <1>4, <1>5 DEF IInv

(* One access line: both counts advance in their common window, and what   *)
(* is raised is true.                                                      *)
LEMMA ReadStep ==
  ASSUME NEW ip \in Addresses, NEW missing \in BOOLEAN,
         NEW suspicious \in BOOLEAN
  PROVE  IInv /\ ReadRequest(ip, missing, suspicious) => IInv'
<1> SUFFICES ASSUME IInv, ReadRequest(ip, missing, suspicious) PROVE IInv'
  OBVIOUS
<1>1. /\ now \in Nat \ {0}
      /\ RequestsPerMinute \in Int /\ NotFoundPerMinute \in Int
      /\ Minute \in Nat
      /\ requested[ip] \in Seq(Int) /\ missed[ip] \in Seq(Int)
  BY Types
<1>2. PICK requests \in Nat, notFound \in Nat, start \in 1..now :
        /\ InWindow(byIp[ip]) = [requests |-> requests,
                                 notFound |-> notFound,
                                 suspicious |-> 0,
                                 windowStart |-> start]
        /\ now - start <= Minute
        /\ Window(requested[ip], requests, start, now,
                  RequestsPerMinute, Minute)
        /\ Window(missed[ip], notFound, start, now,
                  NotFoundPerMinute, Minute)
  BY LineWindow
<1> DEFINE misses == IF missing THEN notFound + 1 ELSE notFound
           scans == IF suspicious THEN 1 ELSE 0
           counter == [requests |-> requests + 1, notFound |-> misses,
                       suspicious |-> scans, windowStart |-> start]
           requestTimes == Append(requested[ip], now)
           missedTimes == IF missing THEN Append(missed[ip], now)
                          ELSE missed[ip]
           rated == requests + 1 >= RequestsPerMinute
           burst == misses >= NotFoundPerMinute
<1>3. Counted(byIp[ip], missing, suspicious) = counter
  <2> DEFINE c == InWindow(byIp[ip])
  <2>1. c.requests = requests /\ c.notFound = notFound
    BY <1>2
  <2>2. c.suspicious = 0 /\ c.windowStart = start
    BY <1>2
  <2> HIDE DEF c
  <2>3. Counted(byIp[ip], missing, suspicious)
        = [requests |-> c.requests + 1,
           notFound |-> IF missing THEN c.notFound + 1 ELSE c.notFound,
           suspicious |-> IF suspicious THEN c.suspicious + 1
                          ELSE c.suspicious,
           windowStart |-> c.windowStart]
    BY DEF Counted, c
  <2>4. (IF suspicious THEN 0 + 1 ELSE 0) = scans
    OBVIOUS
  <2> QED
    BY <2>1, <2>2, <2>3, <2>4
<1>4. /\ alerts' = alerts \o Raised(ip, counter, requestTimes, missedTimes)
      /\ byIp' = [byIp EXCEPT ![ip] = Reset(counter)]
      /\ requested' = [requested EXCEPT ![ip] =
                         IF rated THEN <<>> ELSE requestTimes]
      /\ missed' = [missed EXCEPT ![ip] =
                      IF burst THEN <<>> ELSE missedTimes]
      /\ read < MaxLines /\ read' = read + 1
      /\ UNCHANGED <<clock, checking, now>>
  <2>1. counter.requests = requests + 1 /\ counter.notFound = misses
    OBVIOUS
  <2> HIDE DEF counter
  <2> QED
    BY <1>3, <2>1 DEF ReadRequest
<1>5. /\ Window(IF rated THEN <<>> ELSE requestTimes,
                IF rated THEN 0 ELSE requests + 1,
                start, now, RequestsPerMinute, Minute)
      /\ Window(IF burst THEN <<>> ELSE missedTimes,
                IF burst THEN 0 ELSE misses,
                start, now, NotFoundPerMinute, Minute)
  BY <1>1, <1>2, WindowAdvanced
<1>6. Reset(counter) = [requests |-> IF rated THEN 0 ELSE requests + 1,
                        notFound |-> IF burst THEN 0 ELSE misses,
                        suspicious |-> 0,
                        windowStart |-> start]
  <2>1. counter.requests = requests + 1 /\ counter.notFound = misses
    OBVIOUS
  <2>2. counter.windowStart = start
    OBVIOUS
  <2> HIDE DEF counter
  <2> QED
    BY <2>1, <2>2 DEF Reset, Unreported
<1>7. Raised(ip, counter, requestTimes, missedTimes) \in Seq(TrueAlerts)
  <2> DEFINE scan == [type |-> "web_scan", ip |-> ip, count |-> scans,
                      times |-> <<>>]
             rate == [type |-> "web_rate", ip |-> ip, count |-> requests + 1,
                      times |-> requestTimes]
             miss == [type |-> "web_404", ip |-> ip, count |-> misses,
                      times |-> missedTimes]
  <2>1. requestTimes \in Seq(Int) /\ missedTimes \in Seq(Int)
    BY <1>1, AppendFacts
  <2>2. scans \in Int /\ requests + 1 \in Int /\ misses \in Int
    OBVIOUS
  <2>3. LastWithin(requestTimes, requests + 1, Minute)
    BY <1>1, <1>2, WindowTruth
  <2>4. scan \in TrueAlerts
    <3>1. <<>> \in Seq(Int)
      OBVIOUS
    <3> HIDE DEF scans
    <3> QED
      BY <2>2, <3>1, TrueAlert
  <2>5. rate \in TrueAlerts
    BY <2>1, <2>2, <2>3, TrueAlert
  <2>6. burst => miss \in TrueAlerts
    <3> SUFFICES ASSUME burst PROVE miss \in TrueAlerts
      OBVIOUS
    <3>1. CASE missing
      <4>1. LastWithin(missedTimes, misses, Minute)
        BY <1>1, <1>2, <3>1, WindowTruth
      <4> HIDE DEF misses, missedTimes
      <4> QED
        BY <2>1, <2>2, <4>1, TrueAlert
    <3>2. CASE ~missing
      <4>1. notFound >= NotFoundPerMinute
        BY <3>2
      <4>2. notFound < Limit(NotFoundPerMinute)
        BY <1>2 DEF Window
      <4>3. misses = 0
        BY <1>1, <3>2, <4>1, <4>2 DEF Limit
      <4> HIDE DEF misses, missedTimes
      <4> QED
        BY <2>1, <2>2, <4>3, TrueAlert
    <3> QED
      BY <3>1, <3>2
  <2> HIDE DEF scan, rate, miss
  <2>7. /\ <<scan>> \in Seq(TrueAlerts)
        /\ <<rate>> \in Seq(TrueAlerts)
        /\ burst => <<miss>> \in Seq(TrueAlerts)
        /\ <<>> \in Seq(TrueAlerts)
    BY <2>4, <2>5, <2>6, OneFacts
  <2>8. Raised(ip, counter, requestTimes, missedTimes)
          = (IF scans > 0 THEN <<scan>> ELSE <<>>)
            \o (IF rated THEN <<rate>> ELSE <<>>)
            \o (IF burst THEN <<miss>> ELSE <<>>)
    BY DEF Raised, scan, rate, miss
  <2>9. /\ (IF scans > 0 THEN <<scan>> ELSE <<>>) \in Seq(TrueAlerts)
        /\ (IF rated THEN <<rate>> ELSE <<>>) \in Seq(TrueAlerts)
        /\ (IF burst THEN <<miss>> ELSE <<>>) \in Seq(TrueAlerts)
    BY <2>7
  <2>10. (IF scans > 0 THEN <<scan>> ELSE <<>>)
           \o (IF rated THEN <<rate>> ELSE <<>>) \in Seq(TrueAlerts)
    BY <2>9, ConcatType
  <2> QED
    BY <2>8, <2>9, <2>10, ConcatType
<1>8. alerts' \in Seq(TrueAlerts)
  <2>1. alerts \in Seq(TrueAlerts)
    BY TruthOfAlerts DEF IInv, TypeOK
  <2> QED
    BY <1>4, <1>7, <2>1, ConcatType
<1> HIDE DEF counter, rated, burst, misses, scans, requestTimes, missedTimes
<1>9. alerts' \in Seq(Alerts) /\ BurstsAreReal'
  <2>1. alerts' \in Seq(Alerts)
    <3>1. TrueAlerts \subseteq Alerts
      BY DEF TrueAlerts
    <3> QED
      BY <1>8, <3>1
  <2>2. \A i \in 1..Len(alerts') : alerts'[i] \in TrueAlerts
    BY <1>8
  <2>3. BurstsAreReal'
    BY <2>2 DEF BurstsAreReal, TrueAlerts
  <2> QED
    BY <2>1, <2>3
<1>10. TypeOK'
  <2>1. Reset(counter) \in [requests : 0..Limit(RequestsPerMinute) - 1,
                            notFound : 0..Limit(NotFoundPerMinute) - 1,
                            suspicious : {0}, windowStart : 0..now]
    <3>1. /\ (IF rated THEN 0 ELSE requests + 1)
               \in 0..Limit(RequestsPerMinute) - 1
          /\ (IF burst THEN 0 ELSE misses) \in 0..Limit(NotFoundPerMinute) - 1
      <4>1. /\ Limit(RequestsPerMinute) \in Nat
            /\ Limit(NotFoundPerMinute) \in Nat
        BY <1>1, LimitFacts
      <4> QED
        BY <1>5, <4>1 DEF Window, burst, misses
    <3>2. start \in 0..now
      BY <1>1
    <3> QED
      BY <1>6, <3>1, <3>2
  <2>2. read' \in 0..MaxLines
    BY <1>4, NginxAssumption DEF IInv, TypeOK
  <2>3. /\ (IF rated THEN <<>> ELSE requestTimes) \in Seq(Int)
        /\ (IF burst THEN <<>> ELSE missedTimes) \in Seq(Int)
    BY <1>1, AppendFacts DEF requestTimes, missedTimes
  <2> QED
    BY <1>4, <1>9, <2>1, <2>2, <2>3 DEF IInv, TypeOK
<1>11. Windows'
  <2> SUFFICES ASSUME NEW other \in Addresses
               PROVE  /\ Window(requested'[other], byIp'[other].requests,
                                byIp'[other].windowStart, now,
                                RequestsPerMinute, Minute)
                      /\ Window(missed'[other], byIp'[other].notFound,
                                byIp'[other].windowStart, now,
                                NotFoundPerMinute, Minute)
    BY <1>4 DEF Windows
  <2>1. CASE other = ip
    <3>1. /\ requested'[ip] = IF rated THEN <<>> ELSE requestTimes
          /\ missed'[ip] = IF burst THEN <<>> ELSE missedTimes
          /\ byIp'[ip] = Reset(counter)
      BY <1>4 DEF IInv, TypeOK
    <3>2. /\ byIp'[ip].requests = IF rated THEN 0 ELSE requests + 1
          /\ byIp'[ip].notFound = IF burst THEN 0 ELSE misses
          /\ byIp'[ip].windowStart = start
      BY <1>6, <3>1
    <3> QED
      BY <1>5, <2>1, <3>1, <3>2
  <2>2. CASE other # ip
    <3>1. /\ requested'[other] = requested[other]
          /\ missed'[other] = missed[other]
          /\ byIp'[other] = byIp[other]
      BY <1>4, <2>2 DEF IInv, TypeOK
    <3> QED
      BY <3>1 DEF IInv, Windows
  <2> QED
    BY <2>1, <2>2
<1> QED
  BY <1>9, <1>10, <1>11 DEF IInv

(* The steps that touch neither counters nor alerts. *)
LEMMA OtherStep == IInv /\ (Tick \/ EndCheck \/ UNCHANGED vars) => IInv'
<1> SUFFICES ASSUME IInv, Tick \/ EndCheck \/ UNCHANGED vars PROVE IInv'
  OBVIOUS
<1>1. UNCHANGED <<now, byIp, alerts, read, requested, missed>>
  BY DEF Tick, EndCheck, vars
<1>2. TypeOK'
  <2>0. clock \in Nat /\ now \in 1..clock /\ checking \in BOOLEAN
    BY DEF IInv, TypeOK
  <2>1. clock' \in Nat /\ now \in 1..clock' /\ checking' \in BOOLEAN
    <3>1. CASE Tick
      BY <2>0, <3>1 DEF Tick
    <3>2. CASE EndCheck
      BY <2>0, <3>2 DEF EndCheck
    <3>3. CASE UNCHANGED vars
      BY <2>0, <3>3 DEF vars
    <3> QED
      BY <3>1, <3>2, <3>3
  <2> QED
    BY <1>1, <2>1 DEF IInv, TypeOK
<1>3. Windows' /\ BurstsAreReal'
  BY <1>1 DEF IInv, Windows, BurstsAreReal
<1> QED
  BY <1>2, <1>3 DEF IInv

(* The invariant of NginxLogMonitor::check, for every pair of thresholds:  *)
(* what is known of each address's two histories and its counter.          *)
THEOREM NginxInvariant == Spec => []IInv
<1>1. IInv /\ [Next]_vars => IInv'
  BY BeginStep, ReadStep, OtherStep DEF Next
<1> QED
  BY <1>1, InitIInv, PTL DEF Spec

(* The counters and alerts of the monitor keep their types; no count stays *)
(* at or above its threshold between two lines.                            *)
THEOREM NginxTypeCorrect == Spec => []TypeOK
<1>1. IInv => TypeOK
  BY DEF IInv
<1> QED
  BY <1>1, NginxInvariant, PTL

(* Every rate or 404 alert counts requests that were read within one       *)
(* minute and not counted in an earlier alert.                             *)
THEOREM BurstsReal == Spec => []BurstsAreReal
<1>1. IInv => BurstsAreReal
  BY DEF IInv
<1> QED
  BY <1>1, NginxInvariant, PTL

(* Twice the threshold, less one, requests or 404 answers of an address    *)
(* within a minute always raise an alert.                                  *)
THEOREM BurstsReported == Spec => []BurstsAreReported
<1>1. IInv => BurstsAreReported
  BY DEF IInv, Windows, Window, BurstsAreReported
<1> QED
  BY <1>1, NginxInvariant, PTL

(* A history that was reported starts again, for any of the two counts. *)
LEMMA NothingTogether ==
  ASSUME NEW length \in Nat PROVE NoRun(<<>>, length, 0)
<1>1. Len(<<>>) = 0
  OBVIOUS
<1> QED
  BY <1>1 DEF NoRun

(* One access line leaves the requests and the 404 answers of its moment   *)
(* below the thresholds, or reports them.                                  *)
LEMMA RequestsTogether ==
  ASSUME IInv, NEW ip \in Addresses, NEW missing \in BOOLEAN,
         NEW suspicious \in BOOLEAN, ReadRequest(ip, missing, suspicious),
         NoRun(requested[ip], Limit(RequestsPerMinute), 0),
         NoRun(missed[ip], Limit(NotFoundPerMinute), 0)
  PROVE  /\ NoRun(requested'[ip], Limit(RequestsPerMinute), 0)
         /\ NoRun(missed'[ip], Limit(NotFoundPerMinute), 0)
<1>1. /\ now \in Nat \ {0}
      /\ RequestsPerMinute \in Int /\ NotFoundPerMinute \in Int
      /\ Minute \in Nat
      /\ requested[ip] \in Seq(Int) /\ missed[ip] \in Seq(Int)
  BY Types
<1>2. /\ Limit(RequestsPerMinute) \in Nat /\ Limit(NotFoundPerMinute) \in Nat
      /\ Limit(RequestsPerMinute) >= RequestsPerMinute
      /\ Limit(NotFoundPerMinute) >= NotFoundPerMinute
  BY <1>1, LimitFacts
<1>3. PICK requests \in Nat, notFound \in Nat, start \in 1..now :
        /\ InWindow(byIp[ip]) = [requests |-> requests, notFound |-> notFound,
                                 suspicious |-> 0, windowStart |-> start]
        /\ Window(requested[ip], requests, start, now, RequestsPerMinute, Minute)
        /\ Window(missed[ip], notFound, start, now, NotFoundPerMinute, Minute)
  BY LineWindow
<1>4. PICK counter : counter = Counted(byIp[ip], missing, suspicious)
  OBVIOUS
<1>5. /\ counter.requests = requests + 1
      /\ counter.notFound = IF missing THEN notFound + 1 ELSE notFound
  BY <1>3, <1>4 DEF Counted
<1>6. /\ requested'[ip] = IF counter.requests >= RequestsPerMinute
                          THEN <<>> ELSE Append(requested[ip], now)
      /\ missed'[ip] = IF counter.notFound >= NotFoundPerMinute THEN <<>>
                       ELSE IF missing THEN Append(missed[ip], now) ELSE missed[ip]
  BY <1>4 DEF ReadRequest, IInv, TypeOK
<1>7. NoRun(requested'[ip], Limit(RequestsPerMinute), 0)
  <2>1. CASE counter.requests >= RequestsPerMinute
    BY <1>2, <1>6, <2>1, NothingTogether
  <2>2. CASE ~(counter.requests >= RequestsPerMinute)
    <3>1. requests + 1 < Limit(RequestsPerMinute)
      BY <1>1, <1>2, <1>5, <2>2
    <3>2. NoRun(Append(requested[ip], now), Limit(RequestsPerMinute), 0)
      BY <1>1, <1>3, <3>1, WindowTogether
    <3> QED
      BY <1>6, <2>2, <3>2
  <2> QED
    BY <2>1, <2>2
<1>8. NoRun(missed'[ip], Limit(NotFoundPerMinute), 0)
  <2>1. CASE counter.notFound >= NotFoundPerMinute
    BY <1>2, <1>6, <2>1, NothingTogether
  <2>2. CASE ~(counter.notFound >= NotFoundPerMinute) /\ missing
    <3>1. notFound + 1 < Limit(NotFoundPerMinute)
      BY <1>1, <1>2, <1>5, <2>2
    <3>2. NoRun(Append(missed[ip], now), Limit(NotFoundPerMinute), 0)
      BY <1>1, <1>3, <3>1, WindowTogether
    <3> QED
      BY <1>6, <2>2, <3>2
  <2>3. CASE ~(counter.notFound >= NotFoundPerMinute) /\ ~missing
    BY <1>6, <2>3
  <2> QED
    BY <2>1, <2>2, <2>3
<1> QED
  BY <1>7, <1>8

(* The threshold's number of requests or 404 answers read by one check is  *)
(* never left unreported, for every pair of thresholds and every history.  *)
THEOREM ChecksAlwaysReport == Spec => []ChecksReport
<1>1. Init => ChecksReport
  <2> SUFFICES ASSUME Init PROVE ChecksReport
    OBVIOUS
  <2>1. Limit(RequestsPerMinute) \in Nat /\ Limit(NotFoundPerMinute) \in Nat
    BY NginxAssumption, LimitFacts
  <2> QED
    BY <2>1, NothingTogether DEF Init, ChecksReport
<1>2. IInv /\ ChecksReport /\ [Next]_vars => ChecksReport'
  <2> SUFFICES ASSUME IInv, ChecksReport, [Next]_vars, NEW other \in Addresses
               PROVE  /\ NoRun(requested'[other], Limit(RequestsPerMinute), 0)
                      /\ NoRun(missed'[other], Limit(NotFoundPerMinute), 0)
    BY DEF ChecksReport
  <2>1. /\ NoRun(requested[other], Limit(RequestsPerMinute), 0)
        /\ NoRun(missed[other], Limit(NotFoundPerMinute), 0)
    BY DEF ChecksReport
  <2>2. ASSUME NEW ip \in Addresses, NEW missing \in BOOLEAN,
               NEW suspicious \in BOOLEAN, ReadRequest(ip, missing, suspicious)
        PROVE  /\ NoRun(requested'[other], Limit(RequestsPerMinute), 0)
               /\ NoRun(missed'[other], Limit(NotFoundPerMinute), 0)
    <3>1. CASE other = ip
      BY <2>1, <2>2, <3>1, RequestsTogether
    <3>2. CASE other # ip
      <4>1. requested'[other] = requested[other] /\ missed'[other] = missed[other]
        BY <2>2, <3>2 DEF ReadRequest, IInv, TypeOK
      <4> QED
        BY <2>1, <4>1
    <3> QED
      BY <3>1, <3>2
  <2>3. CASE Tick \/ BeginCheck \/ EndCheck \/ UNCHANGED vars
    <3>1. requested' = requested /\ missed' = missed
      BY <2>3 DEF Tick, BeginCheck, EndCheck, vars
    <3> QED
      BY <2>1, <3>1
  <2> QED
    BY <2>2, <2>3 DEF Next
<1> QED
  BY <1>1, <1>2, NginxInvariant, PTL DEF Spec
============================================================================
