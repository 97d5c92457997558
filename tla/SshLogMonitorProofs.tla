------------------------ MODULE SshLogMonitorProofs ------------------------
(***************************************************************************)
(* The brute-force detector for every threshold, window and set of         *)
(* addresses: what it reports happened, and what must not be missed is     *)
(* reported; and on every log, however late the checks come, what its      *)
(* alerts count and how far apart that lies.                               *)
(***************************************************************************)
EXTENDS SshDetection, SequenceFacts, TLAPS

(* An address's part of the invariant, with the types its facts need. *)
LEMMA WindowOf ==
  ASSUME IInv, NEW ip \in Addresses
  PROVE  /\ now \in Nat \ {0}
         /\ Threshold \in Int /\ Minutes5 \in Nat
         /\ since[ip] \in Seq(Int)
         /\ failedByIp[ip].count \in 0..Limit(Threshold) - 1
         /\ failedByIp[ip].windowStart \in 0..now
         /\ Window(since[ip], failedByIp[ip].count, failedByIp[ip].windowStart,
                   now, Threshold, Minutes5)
<1>1. now \in 1..clock /\ clock \in Nat
  BY DEF IInv, TypeOK
<1> QED
  BY <1>1, SshAssumption DEF IInv, TypeOK, Windows

(* The counter a failure is added to, and the window it is counted in. *)
LEMMA CountedIn ==
  ASSUME IInv, NEW ip \in Addresses
  PROVE  \E count \in Nat, start \in 1..now :
           /\ Counted(failedByIp[ip]) = [count |-> count + 1,
                                         windowStart |-> start]
           /\ now - start <= Minutes5
           /\ Window(since[ip], count, start, now, Threshold, Minutes5)
<1>1. /\ now \in Nat \ {0}
      /\ Threshold \in Int /\ Minutes5 \in Nat
      /\ since[ip] \in Seq(Int)
      /\ Limit(Threshold) \in Nat
      /\ failedByIp[ip] \in [count : 0..Limit(Threshold) - 1,
                             windowStart : 0..now]
      /\ Window(since[ip], failedByIp[ip].count, failedByIp[ip].windowStart,
                now, Threshold, Minutes5)
  BY WindowOf, LimitFacts DEF IInv, TypeOK
<1>2. CASE Expired(failedByIp[ip].windowStart, now, Minutes5)
  <2>1. Window(since[ip], 0, now, now, Threshold, Minutes5)
    BY <1>1, <1>2, WindowOpened
  <2>2. Counted(failedByIp[ip]) = [count |-> 0 + 1, windowStart |-> now]
    BY <1>2 DEF Counted
  <2>3. now \in 1..now /\ now - now <= Minutes5 /\ 0 \in Nat
    BY <1>1
  <2> QED
    BY <2>1, <2>2, <2>3
<1>3. CASE ~Expired(failedByIp[ip].windowStart, now, Minutes5)
  <2>1. /\ failedByIp[ip].windowStart \in 1..now
        /\ now - failedByIp[ip].windowStart <= Minutes5
        /\ failedByIp[ip].count \in Nat
    BY <1>1, <1>3 DEF Expired
  <2>2. Counted(failedByIp[ip])
          = [count |-> failedByIp[ip].count + 1,
             windowStart |-> failedByIp[ip].windowStart]
    BY <1>1, <1>3 DEF Counted
  <2> QED
    BY <1>1, <2>1, <2>2
<1> QED
  BY <1>2, <1>3

(* The monitor starts in the invariant: no window is open. *)
LEMMA InitIInv == Init => IInv
<1> SUFFICES ASSUME Init PROVE IInv
  OBVIOUS
<1>1. \A ip \in Addresses : Window(<<>>, 0, 0, 1, Threshold, Minutes5)
  BY WindowEmpty, SshAssumption
<1>2. Windows
  BY <1>1 DEF Init, Windows
<1>3. TypeOK
  <2>1. [count |-> 0, windowStart |-> 0]
          \in [count : 0..Limit(Threshold) - 1, windowStart : 0..1]
    BY SshAssumption, LimitFacts
  <2>2. 1 \in 1..1 /\ 0 \in 0..MaxLines /\ 1 \in Nat
    BY SshAssumption
  <2>3. failedByIp \in [Addresses -> [count : 0..Limit(Threshold) - 1,
                                     windowStart : 0..now]]
    BY <2>1 DEF Init
  <2>4. since \in [Addresses -> Seq(Int)] /\ alerts \in Seq(Alerts)
    BY DEF Init
  <2> QED
    BY <2>2, <2>3, <2>4 DEF Init, TypeOK
<1>4. AttacksAreReal
  BY DEF Init, AttacksAreReal
<1> QED
  BY <1>2, <1>3, <1>4 DEF IInv

(* A check begins: only time has passed for every window. *)
LEMMA BeginStep == IInv /\ BeginCheck => IInv'
<1> SUFFICES ASSUME IInv, BeginCheck PROVE IInv'
  OBVIOUS
<1>1. /\ now \in 1..clock /\ clock \in Nat
      /\ now' \in 1..clock' /\ clock' \in Nat
      /\ now <= now'
      /\ 0..now \subseteq 0..now'
  BY DEF IInv, TypeOK, BeginCheck
<1>2. ASSUME NEW ip \in Addresses
      PROVE  Window(since[ip], failedByIp[ip].count, failedByIp[ip].windowStart,
                    now', Threshold, Minutes5)
  <2>1. now \in Nat /\ now' \in Nat /\ now <= now'
    BY <1>1
  <2> QED
    BY <2>1, WindowOf, WindowLater
<1>3. Windows'
  BY <1>2 DEF BeginCheck, Windows
<1>4. TypeOK'
  BY <1>1 DEF IInv, TypeOK, BeginCheck
<1>5. AttacksAreReal'
  BY DEF BeginCheck, AttacksAreReal
<1> QED
  BY <1>3, <1>4, <1>5 DEF IInv

(* A failure below the threshold joins its window. *)
LEMMA CountStep == ASSUME NEW ip \in Addresses
                   PROVE  IInv /\ CountFailure(ip) => IInv'
<1> SUFFICES ASSUME IInv, CountFailure(ip) PROVE IInv'
  OBVIOUS
<1>1. /\ now \in Nat \ {0}
      /\ Threshold \in Int /\ Minutes5 \in Nat
      /\ since[ip] \in Seq(Int)
  BY WindowOf
<1>2. PICK count \in Nat, start \in 1..now :
        /\ Counted(failedByIp[ip]) = [count |-> count + 1,
                                      windowStart |-> start]
        /\ now - start <= Minutes5
        /\ Window(since[ip], count, start, now, Threshold, Minutes5)
  BY CountedIn
<1>3. /\ count + 1 < Threshold
      /\ failedByIp' = [failedByIp EXCEPT ![ip] = [count |-> count + 1,
                                                   windowStart |-> start]]
      /\ since' = [since EXCEPT ![ip] = Append(@, now)]
      /\ read < MaxLines /\ read' = read + 1
      /\ UNCHANGED <<clock, checking, now, alerts>>
  BY <1>2 DEF CountFailure
<1>4. count + 1 < Limit(Threshold) /\ Limit(Threshold) \in Nat
  <2>1. Threshold \in Int /\ count + 1 < Threshold
    BY <1>1, <1>3
  <2>2. Limit(Threshold) \in Nat /\ Limit(Threshold) >= Threshold
    BY <2>1, LimitFacts
  <2> QED
    BY <2>1, <2>2
<1>5. Append(since[ip], now) \in Seq(Int)
  BY <1>1
<1>6. Window(Append(since[ip], now), count + 1, start, now, Threshold,
             Minutes5)
  <2>1. start # 0
    BY <1>1
  <2> QED
    BY <1>1, <1>2, <1>4, <2>1, WindowCounted
<1>7. TypeOK'
  <2>1. [count |-> count + 1, windowStart |-> start]
          \in [count : 0..Limit(Threshold) - 1, windowStart : 0..now]
    BY <1>1, <1>4
  <2>2. read' \in 0..MaxLines
    BY <1>3, SshAssumption DEF IInv, TypeOK
  <2> QED
    BY <1>3, <1>5, <2>1, <2>2 DEF IInv, TypeOK
<1>8. Windows'
  <2> SUFFICES ASSUME NEW other \in Addresses
               PROVE  Window(since'[other], failedByIp'[other].count,
                             failedByIp'[other].windowStart, now, Threshold,
                             Minutes5)
    BY <1>3 DEF Windows
  <2>1. CASE other = ip
    <3>1. /\ since'[ip] = Append(since[ip], now)
          /\ failedByIp'[ip] = [count |-> count + 1, windowStart |-> start]
      BY <1>3 DEF IInv, TypeOK
    <3> QED
      BY <1>6, <2>1, <3>1
  <2>2. CASE other # ip
    <3>1. since'[other] = since[other] /\ failedByIp'[other] = failedByIp[other]
      BY <1>3, <2>2 DEF IInv, TypeOK
    <3> QED
      BY <3>1, WindowOf
  <2> QED
    BY <2>1, <2>2
<1>9. AttacksAreReal'
  BY <1>3 DEF IInv, AttacksAreReal
<1> QED
  BY <1>7, <1>8, <1>9 DEF IInv

(* The failure that reaches the threshold: its alert is true. *)
LEMMA ReportStep == ASSUME NEW ip \in Addresses
                    PROVE  IInv /\ ReportAttack(ip) => IInv'
<1> SUFFICES ASSUME IInv, ReportAttack(ip) PROVE IInv'
  OBVIOUS
<1>1. /\ now \in Nat \ {0}
      /\ Threshold \in Int /\ Minutes5 \in Nat
      /\ since[ip] \in Seq(Int)
  BY WindowOf
<1>2. PICK count \in Nat, start \in 1..now :
        /\ Counted(failedByIp[ip]) = [count |-> count + 1,
                                      windowStart |-> start]
        /\ now - start <= Minutes5
        /\ Window(since[ip], count, start, now, Threshold, Minutes5)
  BY CountedIn
<1> DEFINE times == Append(since[ip], now)
           attack == [type |-> "ssh_bruteforce", ip |-> ip,
                      count |-> count + 1, times |-> times]
<1>3. /\ count + 1 >= Threshold
      /\ alerts' = Append(alerts, attack)
      /\ failedByIp' = [failedByIp EXCEPT ![ip] = [count |-> 0,
                                                   windowStart |-> now]]
      /\ since' = [since EXCEPT ![ip] = <<>>]
      /\ read < MaxLines /\ read' = read + 1
      /\ UNCHANGED <<clock, checking, now>>
  BY <1>2 DEF ReportAttack
<1>4. times \in Seq(Int) /\ LastWithin(times, count + 1, Minutes5)
  <2>1. now \in Nat /\ now \in Int /\ start \in 0..now
    BY <1>1
  <2>2. times \in Seq(Int)
    BY <1>1, <2>1
  <2>3. LastWithin(times, count + 1, Minutes5)
    BY <1>1, <1>2, <2>1, WindowTruth
  <2> QED
    BY <2>2, <2>3
<1> HIDE DEF times
<1>5. attack \in Alerts
  <2>1. count + 1 \in Int
    OBVIOUS
  <2> QED
    BY <1>4, <2>1 DEF Alerts
<1>6. /\ attack.type = "ssh_bruteforce" /\ attack.count >= Threshold
      /\ LastWithin(attack.times, attack.count, Minutes5)
  <2>1. attack.type = "ssh_bruteforce"
    OBVIOUS
  <2>2. attack.count = count + 1
    OBVIOUS
  <2>3. attack.times = times
    OBVIOUS
  <2> HIDE DEF attack
  <2> QED
    BY <1>3, <1>4, <2>1, <2>2, <2>3
<1> HIDE DEF attack
<1>7. TypeOK'
  <2>1. [count |-> 0, windowStart |-> now]
          \in [count : 0..Limit(Threshold) - 1, windowStart : 0..now]
    BY <1>1, LimitFacts
  <2>2. read' \in 0..MaxLines
    BY <1>3, SshAssumption DEF IInv, TypeOK
  <2>3. alerts' \in Seq(Alerts)
    BY <1>3, <1>5 DEF IInv, TypeOK
  <2> QED
    BY <1>3, <2>1, <2>2, <2>3 DEF IInv, TypeOK
<1>8. Windows'
  <2> SUFFICES ASSUME NEW other \in Addresses
               PROVE  Window(since'[other], failedByIp'[other].count,
                             failedByIp'[other].windowStart, now, Threshold,
                             Minutes5)
    BY <1>3 DEF Windows
  <2>1. CASE other = ip
    <3>1. /\ since'[ip] = <<>>
          /\ failedByIp'[ip] = [count |-> 0, windowStart |-> now]
      BY <1>3 DEF IInv, TypeOK
    <3>2. now \in Nat /\ now \in 0..now
      BY <1>1
    <3>3. Window(<<>>, 0, now, now, Threshold, Minutes5)
      BY <1>1, <3>2, WindowEmpty
    <3> QED
      BY <2>1, <3>1, <3>3
  <2>2. CASE other # ip
    <3>1. since'[other] = since[other] /\ failedByIp'[other] = failedByIp[other]
      BY <1>3, <2>2 DEF IInv, TypeOK
    <3> QED
      BY <3>1, WindowOf
  <2> QED
    BY <2>1, <2>2
<1>9. AttacksAreReal'
  <2>1. /\ Len(alerts') = Len(alerts) + 1 /\ Len(alerts) \in Nat
        /\ \A i \in 1..Len(alerts) : alerts'[i] = alerts[i]
        /\ alerts'[Len(alerts) + 1] = attack
    BY <1>3, <1>5, AppendFacts DEF IInv, TypeOK
  <2> SUFFICES ASSUME NEW i \in 1..Len(alerts'),
                      alerts'[i].type = "ssh_bruteforce"
               PROVE  /\ alerts'[i].count >= Threshold
                      /\ LastWithin(alerts'[i].times, alerts'[i].count,
                                    Minutes5)
    BY DEF AttacksAreReal
  <2>2. i \in 1..Len(alerts) \/ i = Len(alerts) + 1
    BY <2>1
  <2> QED
    BY <1>6, <2>1, <2>2 DEF IInv, AttacksAreReal
<1> QED
  BY <1>7, <1>8, <1>9 DEF IInv

(* A login adds an alert that counts nothing. *)
LEMMA LoginStep == ASSUME NEW ip \in Addresses
                   PROVE  IInv /\ ReadLogin(ip) => IInv'
<1> SUFFICES ASSUME IInv, ReadLogin(ip) PROVE IInv'
  OBVIOUS
<1> DEFINE login == [type |-> "ssh_login", ip |-> ip, count |-> 0,
                     times |-> <<>>]
<1>1. alerts' = Append(alerts, login)
  BY DEF ReadLogin
<1>2. login \in Alerts /\ login.type = "ssh_login"
  BY DEF Alerts
<1> HIDE DEF login
<1>3. /\ Len(alerts') = Len(alerts) + 1 /\ Len(alerts) \in Nat
      /\ \A i \in 1..Len(alerts) : alerts'[i] = alerts[i]
      /\ alerts'[Len(alerts) + 1] = login
      /\ alerts' \in Seq(Alerts)
  BY <1>1, <1>2, AppendFacts DEF IInv, TypeOK
<1>4. TypeOK'
  <2>1. read' \in 0..MaxLines
    BY SshAssumption DEF IInv, TypeOK, ReadLogin
  <2> QED
    BY <1>3, <2>1 DEF IInv, TypeOK, ReadLogin
<1>5. Windows'
  BY DEF IInv, Windows, ReadLogin
<1>6. AttacksAreReal'
  <2> SUFFICES ASSUME NEW i \in 1..Len(alerts'),
                      alerts'[i].type = "ssh_bruteforce"
               PROVE  /\ alerts'[i].count >= Threshold
                      /\ LastWithin(alerts'[i].times, alerts'[i].count,
                                    Minutes5)
    BY DEF AttacksAreReal
  <2>1. i \in 1..Len(alerts)
    <3>1. i \in 1..Len(alerts) \/ i = Len(alerts) + 1
      BY <1>3
    <3> QED
      BY <1>2, <1>3, <3>1
  <2> QED
    BY <1>3, <2>1 DEF IInv, AttacksAreReal
<1> QED
  BY <1>4, <1>5, <1>6 DEF IInv

(* The steps that touch neither counters nor alerts. *)
LEMMA OtherStep == IInv /\ (Tick \/ EndCheck \/ UNCHANGED vars) => IInv'
<1> SUFFICES ASSUME IInv, Tick \/ EndCheck \/ UNCHANGED vars PROVE IInv'
  OBVIOUS
<1>1. UNCHANGED <<now, failedByIp, alerts, read, since>>
  BY DEF Tick, EndCheck, vars
<1>2. TypeOK'
  <2>0. clock \in Nat /\ now \in 1..clock /\ checking \in BOOLEAN
    BY DEF IInv, TypeOK
  <2>1. clock' \in Nat /\ now \in 1..clock' /\ checking' \in BOOLEAN
    <3>1. CASE Tick
      BY <2>0, <3>1 DEF Tick
    <3>2. CASE EndCheck
      BY <2>0, <3>2 DEF EndCheck
    <3>3. CASE UNCHANGED vars
      BY <2>0, <3>3 DEF vars
    <3> QED
      BY <3>1, <3>2, <3>3
  <2> QED
    BY <1>1, <2>1 DEF IInv, TypeOK
<1>3. Windows' /\ AttacksAreReal'
  BY <1>1 DEF IInv, Windows, AttacksAreReal
<1> QED
  BY <1>2, <1>3 DEF IInv

(* Every step of the monitor keeps it. *)
LEMMA NextKeepsIInv == IInv /\ [Next]_vars => IInv'
BY BeginStep, CountStep, ReportStep, LoginStep, OtherStep DEF Next

(* The invariant of SshLogMonitor::check, for every threshold and window:  *)
(* what is known of each address's history and its counter.                *)
THEOREM SshInvariant == Spec => []IInv
BY InitIInv, NextKeepsIInv, PTL DEF Spec

(* The counters and alerts of the monitor keep their types; in particular  *)
(* no count stays at or above the threshold between two lines.             *)
THEOREM SshTypeCorrect == Spec => []TypeOK
<1>1. IInv => TypeOK
  BY DEF IInv
<1> QED
  BY <1>1, SshInvariant, PTL

(* Every brute-force alert counts failures that were read within one       *)
(* window, at least the threshold, and not counted in an earlier alert.    *)
THEOREM AttacksReal == Spec => []AttacksAreReal
<1>1. IInv => AttacksAreReal
  BY DEF IInv
<1> QED
  BY <1>1, SshInvariant, PTL

(* Twice the threshold, less one, failures of an address within the window *)
(* always raise a brute-force alert.                                       *)
THEOREM AttacksReported == Spec => []AttacksAreReported
<1>1. IInv => AttacksAreReported
  BY DEF IInv, Windows, Window, AttacksAreReported
<1> QED
  BY <1>1, SshInvariant, PTL

(* The threshold's number of failures counted by one check is never left   *)
(* unreported, for every threshold and every history of the address.       *)
THEOREM ChecksAlwaysReport == Spec => []ChecksReport
<1>1. Init => ChecksReport
  <2> SUFFICES ASSUME Init, NEW ip \in Addresses
               PROVE  NoRun(since[ip], Limit(Threshold), 0)
    BY DEF ChecksReport
  <2>1. Len(since[ip]) = 0
    BY DEF Init
  <2> QED
    BY <2>1 DEF NoRun
<1>2. IInv /\ ChecksReport /\ [Next]_vars => ChecksReport'
  <2> SUFFICES ASSUME IInv, ChecksReport, [Next]_vars,
                      NEW other \in Addresses
               PROVE  NoRun(since'[other], Limit(Threshold), 0)
    BY DEF ChecksReport
  <2>1. NoRun(since[other], Limit(Threshold), 0)
    BY DEF ChecksReport
  <2>2. since \in [Addresses -> Seq(Int)]
    BY DEF IInv, TypeOK
  <2>3. ASSUME NEW ip \in Addresses, CountFailure(ip)
        PROVE  NoRun(since'[other], Limit(Threshold), 0)
    <3>1. CASE other # ip
      <4>1. since'[other] = since[other]
        BY <2>2, <2>3, <3>1 DEF CountFailure
      <4> QED
        BY <2>1, <4>1
    <3>2. CASE other = ip
      <4>1. /\ now \in Nat \ {0} /\ Threshold \in Int /\ Minutes5 \in Nat
            /\ since[ip] \in Seq(Int)
        BY WindowOf
      <4>2. PICK count \in Nat, start \in 1..now :
              /\ Counted(failedByIp[ip]) = [count |-> count + 1, windowStart |-> start]
              /\ Window(since[ip], count, start, now, Threshold, Minutes5)
        BY CountedIn
      <4>3. count + 1 < Threshold /\ since'[ip] = Append(since[ip], now)
        BY <2>2, <2>3, <4>2 DEF CountFailure
      <4>4. count + 1 < Limit(Threshold)
        BY <4>1, <4>3, LimitFacts
      <4>5. NoRun(Append(since[ip], now), Limit(Threshold), 0)
        BY <2>1, <3>2, <4>1, <4>2, <4>4, WindowTogether
      <4> QED
        BY <3>2, <4>3, <4>5
    <3> QED
      BY <3>1, <3>2
  <2>4. ASSUME NEW ip \in Addresses, ReportAttack(ip)
        PROVE  NoRun(since'[other], Limit(Threshold), 0)
    <3>1. CASE other # ip
      <4>1. since'[other] = since[other]
        BY <2>2, <2>4, <3>1 DEF ReportAttack
      <4> QED
        BY <2>1, <4>1
    <3>2. CASE other = ip
      <4>1. Len(since'[other]) = 0
        BY <2>2, <2>4, <3>2 DEF ReportAttack
      <4> QED
        BY <4>1 DEF NoRun
    <3> QED
      BY <3>1, <3>2
  <2>5. CASE Tick \/ BeginCheck \/ EndCheck \/ UNCHANGED vars
             \/ \E ip \in Addresses : ReadLogin(ip)
    <3>1. since' = since
      BY <2>5 DEF Tick, BeginCheck, EndCheck, ReadLogin, vars
    <3> QED
      BY <2>1, <3>1
  <2> QED
    BY <2>3, <2>4, <2>5 DEF Next
<1> QED
  BY <1>1, <1>2, SshInvariant, PTL DEF Spec

----------------------------------------------------------------------------
(* On a real log: SshDetection. *)

(* The line that is read next, and what its check makes of it. *)
Reads(n, ip) ==
  /\ n \in batch /\ n \in 1..Len(event) /\ n \in 1..Len(Story)
  /\ ip \in Addresses /\ event[n].ip = ip
  /\ batch' = batch \ {n}
  /\ UNCHANGED <<logVars, watching, polled, blind, lastRead, handed, lost>>

ReadsLogin(n, ip) ==
  /\ Reads(n, ip)
  /\ ReadLogin(ip)
  /\ raised' = raised \cup {[type |-> "ssh_login", ip |-> ip, lines |-> <<n>>]}
  /\ UNCHANGED failures

ReadsFailure(n, ip) ==
  /\ Reads(n, ip)
  /\ event[n].kind = "failed"
  /\ failures' = [failures EXCEPT ![ip] = Append(failures[ip], n)]

CountsFailure(n, ip) ==
  /\ ReadsFailure(n, ip)
  /\ CountFailure(ip)
  /\ UNCHANGED raised

Reported(n, ip) ==
  LET lines == Append(failures[ip], n)
      count == Counted(failedByIp[ip]).count
  IN  [type |-> "ssh_bruteforce", ip |-> ip,
       lines |-> SubSeq(lines, Len(lines) - count + 1, Len(lines))]

ReportsAttack(n, ip) ==
  /\ ReadsFailure(n, ip)
  /\ ReportAttack(ip)
  /\ raised' = raised \cup {Reported(n, ip)}

(* What is known of a line that was written. *)
LEMMA EventType ==
  ASSUME DetectionTypeOK, NEW n \in 1..Len(event)
  PROVE  /\ event[n].kind \in {"accepted", "failed"}
         /\ event[n].ip \in Addresses
         /\ event[n].at \in Nat
<1> DEFINE E == [kind : {"accepted", "failed"}, ip : Addresses, at : Nat]
<1>1. \A e \in E : /\ e.kind \in {"accepted", "failed"}
                   /\ e.ip \in Addresses /\ e.at \in Nat
  OBVIOUS
<1>2. event \in Seq(E)
  BY DEF DetectionTypeOK
<1> HIDE DEF E
<1>3. event[n] \in E
  BY <1>2
<1> QED
  BY <1>1, <1>3

(* ReadLine is one of three things. *)
LEMMA ReadLineCases ==
  ASSUME DetectionTypeOK, ReadLine
  PROVE  \E n \in batch, ip \in Addresses :
           ReadsLogin(n, ip) \/ CountsFailure(n, ip) \/ ReportsAttack(n, ip)
<1> DEFINE n == Min(batch)
           ip == event[n].ip
<1>1. batch # {} /\ batch' = batch \ {n}
      /\ UNCHANGED <<logVars, watching, polled, blind, lastRead, handed, lost>>
  BY DEF ReadLine
<1>2. n \in batch
  <2>1. batch \in SUBSET Nat
    BY DEF DetectionTypeOK
  <2> QED
    BY <1>1, <2>1, MinMember
<1>3. n \in 1..Len(event) /\ n \in 1..Len(Story)
  <2>1. Len(event) \in Nat /\ Len(Story) \in Nat /\ Len(event) <= Len(Story)
    BY DetectionAssumption DEF DetectionTypeOK, DetectionAssumption
  <2>2. n \in 1..Len(event)
    BY <1>2 DEF DetectionTypeOK
  <2> QED
    BY <2>1, <2>2
<1>4. ip \in Addresses
  <2> HIDE DEF n
  <2> QED
    BY <1>3, EventType
<1>5. Reads(n, ip)
  BY <1>1, <1>2, <1>3, <1>4 DEF Reads
<1>6. ReadsLogin(n, ip) \/ CountsFailure(n, ip) \/ ReportsAttack(n, ip)
  BY <1>5 DEF ReadLine, ReadsLogin, ReadsFailure, CountsFailure, ReportsAttack, Reported
<1> QED
  BY <1>2, <1>4, <1>6

(* The detection's steps are the monitor's, or leave it alone. *)
LEMMA DetectionSteps ==
  ASSUME DetectionTypeOK, [DetectionNext]_detectionVars
  PROVE  [Next]_vars
<1>1. CASE ReadLine
  <2>1. PICK n \in batch, ip \in Addresses :
          ReadsLogin(n, ip) \/ CountsFailure(n, ip) \/ ReportsAttack(n, ip)
    BY <1>1, ReadLineCases
  <2>2. ReadLogin(ip) \/ CountFailure(ip) \/ ReportAttack(ip)
    BY <2>1 DEF ReadsLogin, CountsFailure, ReportsAttack
  <2> QED
    BY <2>2 DEF Next
<1>2. CASE Pass
  BY <1>2 DEF Pass, Next
<1>3. CASE StartCheck
  BY <1>3 DEF StartCheck, Next
<1>4. CASE HandAlerts
  BY <1>4 DEF HandAlerts, Next
<1>5. CASE Write \/ Rotate \/ PollFails \/ FirstPoll \/ Poll \/ UNCHANGED detectionVars
  BY <1>5 DEF Write, Rotate, PollFails, PollSucceeds, FirstPoll, Poll, detectionVars
<1> QED
  BY <1>1, <1>2, <1>3, <1>4, <1>5 DEF DetectionNext, Check

(* The steps that count no failure and raise no attack. *)
Quiet ==
  /\ UNCHANGED <<failures, since, failedByIp>>
  /\ Attacks' = Attacks
  /\ Len(event) <= Len(event') /\ Len(event') \in Nat
  /\ \A n \in 1..Len(event) : event'[n] = event[n]
  /\ amid \subseteq amid'
  /\ \A n \in 1..Len(event) :
       /\ got[n] > 0 => got'[n] > 0
       /\ got[n] > 0 /\ (n \in batch => got[n] = 2) /\ n \in batch' => got'[n] = 2
       /\ got[n] = 2 => got'[n] = 2
       /\ got[n] = 2 /\ n \notin batch => n \notin batch'

(* They keep what is known of failures and attacks. *)
LEMMA QuietKeeps ==
  ASSUME DetectionIInv, Quiet
  PROVE  FailuresReturned' /\ AttacksClosed' /\ CountedInTime'
         /\ CountsAreFailures' /\ SpanBounded'
<1>1. /\ Len(event) \in Nat /\ Len(event') \in Nat /\ Len(event) <= Len(event')
      /\ \A n \in 1..Len(event) : n \in 1..Len(event') /\ event'[n] = event[n]
      /\ \A n \in 1..Len(event) :
           /\ got[n] > 0 => got'[n] > 0
           /\ got[n] > 0 /\ (n \in batch => got[n] = 2) /\ n \in batch' => got'[n] = 2
           /\ got[n] = 2 => got'[n] = 2
           /\ got[n] = 2 /\ n \notin batch => n \notin batch'
  <2>1. Len(event) \in Nat /\ Len(event') \in Nat /\ Len(event) <= Len(event')
    BY DEF Quiet, DetectionIInv, DetectionTypeOK
  <2>2. \A n \in 1..Len(event) : n \in 1..Len(event')
    BY <2>1
  <2> QED
    BY <2>1, <2>2 DEF Quiet
<1>2. failures' = failures /\ since' = since /\ failedByIp' = failedByIp
      /\ Attacks' = Attacks /\ amid \subseteq amid'
  BY DEF Quiet
<1>3. \A ip \in Addresses : \A i \in 1..Len(failures[ip]) : CountedAsReturned(ip, i)
  BY DEF DetectionIInv, FailuresReturned
<1>4. FailuresReturned'
  <2> SUFFICES ASSUME NEW ip \in Addresses, NEW i \in 1..Len(failures[ip])
               PROVE  CountedAsReturned(ip, i)'
    BY <1>2 DEF FailuresReturned, DetectionIInv
  <2>1. CountedAsReturned(ip, i)
    BY <1>3
  <2> QED
    BY <1>1, <1>2, <2>1 DEF CountedAsReturned
<1>5. \A alert \in Attacks :
        /\ alert.ip \in Addresses /\ alert.lines \in Seq(Nat)
        /\ \A n \in ToSet(alert.lines) :
             n \in 1..Len(event) /\ got[n] > 0 /\ (n \in batch => got[n] = 2)
        /\ \A i \in 1..Len(failures[alert.ip]) :
             /\ i > Len(failures[alert.ip]) - failedByIp[alert.ip].count
             /\ failures[alert.ip][i] \in ToSet(alert.lines)
             => failures[alert.ip][i] \in amid
  BY DEF DetectionIInv, AttacksClosed
<1>6. AttacksClosed'
  BY <1>1, <1>2, <1>5 DEF AttacksClosed
<1>7. \A n, time : n \in 1..Len(event) => (Near(n, time)' <=> Near(n, time))
  BY <1>1 DEF Near
<1>8. CountedInTime'
  <2> SUFFICES ASSUME NEW ip \in Addresses, NEW i \in 1..Len(since[ip])
               PROVE  Near(failures[ip][Len(failures[ip]) - Len(since[ip]) + i],
                           since[ip][i])'
    BY <1>2 DEF CountedInTime
  <2>1. PICK j : j = Len(failures[ip]) - Len(since[ip]) + i
    OBVIOUS
  <2>2. Near(failures[ip][j], since[ip][i])
    BY <2>1 DEF DetectionIInv, CountedInTime
  <2>3. /\ Len(failures[ip]) \in Nat /\ Len(since[ip]) \in Nat
        /\ Len(since[ip]) <= Len(failures[ip])
    BY DEF DetectionIInv, DetectionTypeOK, FailuresReturned, IInv, TypeOK
  <2>4. j \in 1..Len(failures[ip])
    <3>1. PICK f \in Nat, s \in Nat : f = Len(failures[ip]) /\ s = Len(since[ip])
      BY <2>3
    <3>2. s <= f /\ i \in 1..s /\ j = f - s + i
      BY <2>1, <2>3, <3>1
    <3>3. j \in 1..f
      BY <3>2
    <3> QED
      BY <3>1, <3>3
  <2>5. failures[ip][j] \in 1..Len(event)
    BY <1>3, <2>4 DEF CountedAsReturned
  <2> QED
    BY <1>2, <1>7, <2>1, <2>2, <2>5
<1>9. CountsAreFailures'
  <2> SUFFICES ASSUME NEW alert \in Attacks
               PROVE  /\ \A n \in ToSet(alert.lines) :
                           event'[n].kind = "failed" /\ event'[n].ip = alert.ip
                      /\ ToSet(alert.lines) \cap amid' = {}
                           => Cardinality(ToSet(alert.lines)) = Len(alert.lines)
                      /\ Len(alert.lines) <= 2 * Cardinality(ToSet(alert.lines))
                      /\ \A other \in Attacks \ {alert} :
                           ToSet(alert.lines) \cap ToSet(other.lines) \subseteq amid'
    BY <1>2 DEF CountsAreFailures
  <2>1. /\ \A n \in ToSet(alert.lines) :
             event[n].kind = "failed" /\ event[n].ip = alert.ip
        /\ ToSet(alert.lines) \cap amid = {}
             => Cardinality(ToSet(alert.lines)) = Len(alert.lines)
        /\ Len(alert.lines) <= 2 * Cardinality(ToSet(alert.lines))
        /\ \A other \in Attacks \ {alert} :
             ToSet(alert.lines) \cap ToSet(other.lines) \subseteq amid
    BY DEF DetectionIInv, CountsAreFailures
  <2>2. \A n \in ToSet(alert.lines) : event'[n] = event[n]
    BY <1>1, <1>5
  <2>3. \A n \in ToSet(alert.lines) :
          event'[n].kind = "failed" /\ event'[n].ip = alert.ip
    BY <2>1, <2>2
  <2>4. ToSet(alert.lines) \cap amid' = {} => ToSet(alert.lines) \cap amid = {}
    BY <1>2
  <2>5. \A other \in Attacks \ {alert} :
          ToSet(alert.lines) \cap ToSet(other.lines) \subseteq amid'
    BY <1>2, <2>1
  <2> QED
    BY <2>1, <2>3, <2>4, <2>5
<1>10. SpanBounded'
  <2> SUFFICES ASSUME NEW alert \in Attacks,
                      NEW i \in 1..Len(alert.lines), NEW j \in 1..Len(alert.lines)
               PROVE  event'[alert.lines[j]].at - event'[alert.lines[i]].at
                        <= Minutes5 + MaxGap + LongestWait
    BY <1>2 DEF SpanBounded
  <2>1. alert.lines[i] \in ToSet(alert.lines) /\ alert.lines[j] \in ToSet(alert.lines)
    BY <1>5 DEF ToSet
  <2>2. alert.lines[i] \in 1..Len(event) /\ alert.lines[j] \in 1..Len(event)
    BY <1>5, <2>1
  <2>3. event[alert.lines[j]].at - event[alert.lines[i]].at
          <= Minutes5 + MaxGap + LongestWait
    BY DEF DetectionIInv, SpanBounded
  <2> QED
    BY <1>1, <2>2, <2>3
<1> QED
  BY <1>4, <1>6, <1>8, <1>9, <1>10

(* What is known of the log and of the check that runs. *)
Settled == DetectionTypeOK /\ FeedKept /\ BatchReturned /\ ChecksInTime

(* Every poll that fails adds a gap to the time a line may wait. *)
LEMMA WaitsAdd ==
  /\ \A k \in Nat : /\ k * MaxGap \in Nat /\ (k + 1) * MaxGap \in Nat
                     /\ (k + 1) * MaxGap = k * MaxGap + MaxGap
  /\ LongestWait \in Nat
  /\ \A k \in 0..MaxBlind : k * MaxGap <= LongestWait
  /\ \A k \in 0..MaxBlind : (k + 1) * MaxGap <= LongestWait
<1>1. MaxGap \in Nat /\ MaxBlind \in Nat
  BY DetectionAssumption DEF DetectionAssumption
<1>2. \A k \in Nat : /\ k * MaxGap \in Nat /\ (k + 1) * MaxGap \in Nat
                     /\ (k + 1) * MaxGap = k * MaxGap + MaxGap
  BY <1>1
<1>3. \A j, k \in Nat : j <= k => j * MaxGap <= k * MaxGap
  BY <1>1
<1>4. LongestWait \in Nat
  BY <1>1, <1>2 DEF LongestWait
<1>5. ASSUME NEW k \in 0..MaxBlind
      PROVE  k * MaxGap <= LongestWait /\ (k + 1) * MaxGap <= LongestWait
  <2>1. k \in Nat /\ k + 1 \in Nat /\ MaxBlind + 1 \in Nat
        /\ k <= MaxBlind + 1 /\ k + 1 <= MaxBlind + 1
    BY <1>1
  <2> QED
    BY <1>3, <2>1 DEF LongestWait
<1> QED
  BY <1>2, <1>4, <1>5

(* The arithmetic facts that the steps need. *)
LEMMA Numbers ==
  ASSUME DetectionIInv
  PROVE  /\ clock \in Nat /\ now \in Nat /\ now <= clock
         /\ MaxGap \in Nat \ {0} /\ Minutes5 \in Nat /\ LongestWait \in Nat
         /\ lastRead \in 0..now /\ lastRead \in Nat /\ lastRead <= clock /\ blind \in Nat /\ Wait \in Nat
         /\ Len(Story) \in Nat /\ Len(event) \in Nat /\ Len(event) <= Len(Story)
         /\ \A n \in 1..Len(event) : event[n].at \in Nat /\ n \in 1..Len(Story)
<1>1. now \in 1..clock /\ clock \in Nat
  BY DEF DetectionIInv, IInv, TypeOK
<1>2. MaxGap \in Nat \ {0} /\ Minutes5 \in Nat /\ Len(Story) \in Nat
  BY DetectionAssumption, SshAssumption
<1>3. Len(event) \in Nat /\ Len(event) <= Len(Story)
  BY DEF DetectionIInv, DetectionTypeOK
<1>4. \A n \in 1..Len(event) : event[n].at \in Nat
  BY EventType DEF DetectionIInv
<1>5. LongestWait \in Nat
  BY WaitsAdd, DetectionAssumption DEF DetectionAssumption
<1>6. lastRead \in 0..now /\ lastRead \in Nat /\ lastRead <= clock
      /\ blind \in 0..MaxBlind
  BY <1>1 DEF DetectionIInv, DetectionTypeOK
<1>7. blind \in Nat /\ Wait \in Nat
  <2>1. MaxBlind \in Nat
    BY DetectionAssumption DEF DetectionAssumption
  <2>2. blind \in Nat
    BY <1>6, <2>1
  <2>3. blind * MaxGap \in Nat /\ (blind + 1) * MaxGap \in Nat
    BY <2>2, WaitsAdd
  <2> QED
    BY <2>2, <2>3 DEF Wait
<1> QED
  BY <1>1, <1>2, <1>3, <1>4, <1>5, <1>6, <1>7

(* Time passes, but not more than the gap. *)
LEMMA PassStep ==
  ASSUME DetectionIInv, Pass
  PROVE  Quiet /\ Settled'
<1>1. /\ ~polled /\ (watching \/ checking => clock - now < MaxGap)
      /\ clock' = clock + 1
      /\ UNCHANGED <<checking, now, failedByIp, since, event, held, amid, got, lost,
                     replaced, watching, polled, batch, blind, lastRead, failures,
                     raised, handed>>
  BY DEF Pass, Tick, logVars, monitorVars, historyVars
<1>2. Quiet
  BY <1>1, Numbers DEF Quiet, Attacks
<1>3. DetectionTypeOK' /\ FeedKept' /\ BatchReturned'
  BY <1>1 DEF DetectionIInv, DetectionTypeOK, FeedKept, BatchReturned
<1>4. ChecksInTime'
  <2>1. ChecksInTime /\ held \subseteq 1..Len(event)
    BY DEF DetectionIInv, DetectionTypeOK
  <2>2. batch = {}
    BY <1>1 DEF DetectionIInv, BatchReturned
  <2>3. Wait' = Wait
    BY <1>1 DEF Wait
  <2>4. watching \/ checking => clock' - now <= MaxGap
    BY <1>1, Numbers
  <2>5. \A n \in 1..Len(event) : event[n].at <= clock'
    BY <1>1, <2>1, Numbers DEF ChecksInTime
  <2> QED
    BY <1>1, <2>1, <2>2, <2>3, <2>4, <2>5 DEF ChecksInTime, Unread
<1> QED
  BY <1>2, <1>3, <1>4 DEF Settled

(* A line arrives: it was not returned yet. *)
LEMMA WriteStep ==
  ASSUME DetectionIInv, Write
  PROVE  Quiet /\ Settled'
<1> DEFINE E == [kind : {"accepted", "failed"}, ip : Addresses, at : Nat]
<1>1. PICK len \in Nat : len = Len(event) /\ len < Len(Story)
  BY Numbers DEF Write
<1>2. PICK e : event' = Append(event, e)
               /\ e = [kind |-> Story[len + 1].kind, ip |-> Story[len + 1].ip,
                       at |-> clock]
  BY <1>1 DEF Write
<1>3. e \in E /\ e.at = clock
  <2> DEFINE R == [kind : {"accepted", "failed"}, ip : Addresses]
  <2>1. Story \in Seq(R)
    BY DetectionAssumption DEF DetectionAssumption
  <2>2. \A r \in R : r.kind \in {"accepted", "failed"} /\ r.ip \in Addresses
    OBVIOUS
  <2> HIDE DEF R
  <2>3. len + 1 \in 1..Len(Story)
    BY <1>1, Numbers
  <2>4. Story[len + 1] \in R
    BY <2>1, <2>3
  <2>5. Story[len + 1].kind \in {"accepted", "failed"} /\ Story[len + 1].ip \in Addresses
    BY <2>2, <2>4
  <2> QED
    BY <1>2, <2>5, Numbers
<1>4. event \in Seq(E)
  BY DEF DetectionIInv, DetectionTypeOK
<1> HIDE DEF E
<1>5. /\ event' \in Seq(E)
      /\ Len(event') = len + 1
      /\ \A n \in 1..len : event'[n] = event[n]
      /\ event'[len + 1] = e
  BY <1>1, <1>2, <1>3, <1>4, AppendFacts
<1>6. /\ ~polled
      /\ held' = held \cup {len + 1}
      /\ amid' = IF checking /\ watching THEN amid \cup {len + 1} ELSE amid
      /\ UNCHANGED <<got, clock, checking, now, failedByIp, since, lost,
                     replaced, watching, polled, batch, blind, lastRead, failures,
                     raised, handed>>
  BY <1>1 DEF Write, Feed!Arrive, vars, monitorVars, historyVars
<1>7. held \subseteq 1..len /\ amid \subseteq 1..len /\ batch = {}
  BY <1>1, <1>6 DEF DetectionIInv, DetectionTypeOK, BatchReturned
<1>8. Quiet
  <2>1. len + 1 \in Nat /\ len <= len + 1
    OBVIOUS
  <2> QED
    BY <1>1, <1>5, <1>6, <2>1 DEF Quiet, Attacks
<1>9. DetectionTypeOK'
  <2>1. 1..len \subseteq 1..len + 1 /\ len + 1 \in 1..len + 1 /\ len + 1 <= Len(Story)
    BY <1>1, Numbers
  <2>2. event' \in Seq([kind : {"accepted", "failed"}, ip : Addresses, at : Nat])
    BY <1>5 DEF E
  <2>3. held' \subseteq 1..Len(event') /\ amid' \subseteq 1..Len(event')
        /\ batch' \subseteq 1..Len(event')
    BY <1>5, <1>6, <1>7, <2>1
  <2>4. Len(event') <= Len(Story)
    BY <1>5, <2>1
  <2> QED
    BY <1>6, <2>2, <2>3, <2>4 DEF DetectionIInv, DetectionTypeOK
<1>10. got[len + 1] = 0
  <2>1. len + 1 \in 1..Len(Story) /\ ~(len + 1 <= len)
    BY <1>1, Numbers
  <2>2. \A n \in 1..Len(Story) : got[n] > 0 => n <= len
    BY <1>1 DEF DetectionIInv, FeedKept
  <2>3. got[len + 1] \in 0..2
    BY <2>1 DEF DetectionIInv, DetectionTypeOK
  <2> QED
    BY <2>1, <2>2, <2>3
<1>11. FeedKept'
  <2>1. FeedKept
    BY DEF DetectionIInv
  <2> QED
    BY <1>1, <1>5, <1>6, <1>10, <2>1 DEF FeedKept
<1>12. BatchReturned'
  BY <1>6 DEF DetectionIInv, BatchReturned
<1>13. ChecksInTime'
  <2>1. ChecksInTime
    BY DEF DetectionIInv
  <2>2. Wait' = Wait
    BY <1>6 DEF Wait
  <2>3. \A n \in 1..len + 1 : event'[n].at <= clock
    BY <1>1, <1>3, <1>5, <2>1, Numbers DEF ChecksInTime
  <2>4. ASSUME watching, NEW n \in held', Unread(n)'
        PROVE  /\ event'[n].at >= lastRead
               /\ replaced = "amid" => event'[n].at >= now
    <3>1. CASE n \in held
      <4>1. n \in 1..len /\ event'[n] = event[n] /\ Unread(n)
        BY <1>1, <1>5, <1>6, <1>7, <2>4, <3>1 DEF Unread
      <4> QED
        BY <1>6, <2>1, <2>4, <3>1, <4>1 DEF ChecksInTime
    <3>2. CASE n = len + 1
      <4>1. event'[n].at = clock
        BY <1>1, <1>3, <1>5, <3>2
      <4>2. clock >= now /\ clock >= lastRead
        BY Numbers
      <4> QED
        BY <4>1, <4>2
    <3> QED
      BY <1>6, <2>4, <3>1, <3>2
  <2> QED
    BY <1>5, <1>6, <1>7, <2>1, <2>2, <2>3, <2>4 DEF ChecksInTime
<1> QED
  BY <1>8, <1>9, <1>11, <1>12, <1>13 DEF Settled

(* A rotation takes lines away; there is none yet in the new file. *)
LEMMA RotateStep ==
  ASSUME DetectionIInv, Rotate
  PROVE  Quiet /\ Settled'
<1>1. /\ held' = {}
      /\ ~polled
      /\ \/ replaced' = replaced
         \/ replaced' = "since"
         \/ checking /\ replaced' = "amid"
      /\ UNCHANGED <<clock, checking, now, failedByIp, since, event, amid, got,
                     watching, polled, batch, blind, lastRead, failures, raised,
                     handed>>
  BY DEF Rotate, Feed!Drop, vars, monitorVars
<1>2. Quiet
  BY <1>1, Numbers DEF Quiet, Attacks
<1>3. DetectionTypeOK' /\ FeedKept' /\ BatchReturned'
  BY <1>1 DEF DetectionIInv, DetectionTypeOK, FeedKept, BatchReturned
<1>4. ChecksInTime'
  <2>1. ChecksInTime
    BY DEF DetectionIInv
  <2>2. Wait' = Wait
    BY <1>1 DEF Wait
  <2>3. watching /\ replaced' = "amid" => checking /\ ~polled
    BY <1>1, <2>1 DEF ChecksInTime
  <2> QED
    BY <1>1, <2>1, <2>2, <2>3 DEF ChecksInTime, Near
<1> QED
  BY <1>2, <1>3, <1>4 DEF Settled

(* A check begins: one more gap has gone by at most. *)
LEMMA StartCheckStep ==
  ASSUME DetectionIInv, StartCheck
  PROVE  Quiet /\ Settled'
<1>1. /\ ~checking /\ checking' = TRUE /\ now' = clock
      /\ UNCHANGED <<clock, failedByIp, since, event, held, amid, got, lost,
                     replaced, watching, polled, batch, blind, lastRead, failures,
                     raised, handed>>
  BY DEF StartCheck, BeginCheck, logVars, monitorVars, historyVars
<1>2. ~polled /\ batch = {} /\ (watching => replaced # "amid")
  BY <1>1 DEF DetectionIInv, BatchReturned, ChecksInTime
<1>3. Quiet
  BY <1>1, Numbers DEF Quiet, Attacks
<1>4. DetectionTypeOK' /\ FeedKept' /\ BatchReturned'
  <2>1. lastRead \in 0..clock
    BY Numbers DEF DetectionIInv, DetectionTypeOK
  <2> QED
    BY <1>1, <1>2, <2>1 DEF DetectionIInv, DetectionTypeOK, FeedKept, BatchReturned
<1>5. ChecksInTime'
  <2>1. ChecksInTime /\ clock - clock <= MaxGap
    BY Numbers DEF DetectionIInv
  <2>2. Wait' = Wait + MaxGap
    <3>1. Wait = blind * MaxGap /\ Wait' = (blind + 1) * MaxGap
      BY <1>1, <1>2 DEF Wait
    <3> QED
      BY <3>1, Numbers, WaitsAdd
  <2>3. watching => clock - lastRead <= Wait'
    <3>1. watching => clock - now <= MaxGap /\ now - lastRead <= Wait
      BY <2>1 DEF ChecksInTime
    <3> QED
      BY <2>2, <3>1, Numbers
  <2> QED
    BY <1>1, <1>2, <2>1, <2>3 DEF ChecksInTime, Unread
<1> QED
  BY <1>3, <1>4, <1>5 DEF Settled

(* A poll that fails leaves the lines where they are. *)
LEMMA PollFailsStep ==
  ASSUME DetectionIInv, PollFails
  PROVE  Quiet /\ Settled'
<1>1. /\ checking /\ ~polled /\ polled' = TRUE
      /\ blind < MaxBlind /\ blind' = blind + 1
      /\ replaced' = IF replaced = "amid" THEN "since" ELSE replaced
      /\ UNCHANGED <<clock, checking, now, failedByIp, since, event, held, amid, got,
                     lost, watching, batch, lastRead, failures, raised, handed>>
  BY DEF PollFails, vars, historyVars
<1>2. batch = {}
  BY <1>1 DEF DetectionIInv, BatchReturned
<1>3. Quiet
  BY <1>1, Numbers DEF Quiet, Attacks
<1>4. DetectionTypeOK' /\ FeedKept' /\ BatchReturned'
  <2>1. blind + 1 \in 0..MaxBlind
    BY <1>1, DetectionAssumption DEF DetectionAssumption, DetectionIInv, DetectionTypeOK
  <2> QED
    BY <1>1, <1>2, <2>1 DEF DetectionIInv, DetectionTypeOK, FeedKept, BatchReturned
<1>5. ChecksInTime'
  <2>1. ChecksInTime
    BY DEF DetectionIInv
  <2>2. Wait' = Wait
    BY <1>1 DEF Wait
  <2>3. replaced' # "amid"
    BY <1>1
  <2> QED
    BY <1>1, <1>2, <2>1, <2>2, <2>3 DEF ChecksInTime, Unread
<1> QED
  BY <1>3, <1>4, <1>5 DEF Settled

(* A poll that does not fail has seen everything there is. *)
LEMMA ReadNow ==
  ASSUME DetectionIInv, PollSucceeds
  PROVE  /\ checking /\ ~polled /\ polled' = TRUE /\ blind' = 0 /\ lastRead' = now
         /\ UNCHANGED <<clock, checking, now, failedByIp, since, event, failures,
                        raised, handed>>
         /\ lastRead' \in 0..now' /\ blind' \in 0..MaxBlind
         /\ Wait' = 0 /\ now - lastRead' <= Wait'
<1>1. /\ checking /\ ~polled /\ polled' = TRUE /\ blind' = 0 /\ lastRead' = now
      /\ UNCHANGED <<clock, checking, now, failedByIp, since, event, failures,
                     raised, handed>>
  BY DEF PollSucceeds, vars
<1>2. lastRead' \in 0..now' /\ blind' \in 0..MaxBlind
  BY <1>1, Numbers, DetectionAssumption DEF DetectionAssumption
<1>3. Wait' = 0 * MaxGap
  BY <1>1 DEF Wait
<1>4. Wait' = 0 /\ now - lastRead' <= Wait'
  BY <1>1, <1>3, Numbers
<1> QED
  BY <1>1, <1>2, <1>4

(* The first poll returns nothing. *)
LEMMA FirstPollStep ==
  ASSUME DetectionIInv, FirstPoll
  PROVE  Quiet /\ Settled'
<1>1. PollSucceeds /\ watching' = TRUE /\ held' = {}
      /\ replaced' = "no" /\ UNCHANGED <<amid, got, batch>>
  BY DEF FirstPoll, Feed!Drop
<1>2. /\ checking /\ ~polled /\ polled' = TRUE
      /\ UNCHANGED <<clock, checking, now, failedByIp, since, event, failures,
                     raised, handed>>
      /\ lastRead' \in 0..now' /\ blind' \in 0..MaxBlind
      /\ now - lastRead' <= Wait'
  BY <1>1, ReadNow
<1>3. batch = {}
  BY <1>2 DEF DetectionIInv, BatchReturned
<1>4. Quiet
  BY <1>1, <1>2, Numbers DEF Quiet, Attacks
<1>5. DetectionTypeOK' /\ FeedKept' /\ BatchReturned'
  BY <1>1, <1>2, <1>3 DEF DetectionIInv, DetectionTypeOK, FeedKept, BatchReturned
<1>6. ChecksInTime'
  <2>1. ChecksInTime
    BY DEF DetectionIInv
  <2> QED
    BY <1>1, <1>2, <1>3, <2>1 DEF ChecksInTime
<1> QED
  BY <1>4, <1>5, <1>6 DEF Settled

(* Handing the alerts over leaves them the alerts they were. *)
LEMMA HandAlertsStep ==
  ASSUME DetectionIInv, HandAlerts
  PROVE  Quiet /\ Settled'
<1>1. /\ polled /\ batch = {} /\ polled' = FALSE /\ checking' = FALSE
      /\ handed' = handed \cup raised /\ raised' = {}
      /\ UNCHANGED <<clock, now, failedByIp, since, event, held, amid, got, lost,
                     replaced, watching, batch, blind, lastRead, failures>>
  BY DEF HandAlerts, EndCheck, logVars
<1>2. Attacks' = Attacks
  BY <1>1 DEF Attacks
<1>3. Quiet
  BY <1>1, <1>2, Numbers DEF Quiet
<1>4. DetectionTypeOK' /\ FeedKept' /\ BatchReturned'
  BY <1>1 DEF DetectionIInv, DetectionTypeOK, FeedKept, BatchReturned
<1>5. ChecksInTime'
  <2>1. ChecksInTime
    BY DEF DetectionIInv
  <2>2. Wait' = Wait
    BY <1>1 DEF Wait
  <2> QED
    BY <1>1, <2>1, <2>2 DEF ChecksInTime, Unread
<1> QED
  BY <1>3, <1>4, <1>5 DEF Settled

(* A poll returns what was not returned, but for the beginning of a file   *)
(* that it takes for another, and some of the lines that were, once.       *)
LEMMA PollReturns ==
  ASSUME DetectionIInv, Poll
  PROVE  \E lines \in SUBSET held :
           /\ Feed!Poll(lines) /\ batch' = lines
           /\ \A n \in lines : Unread(n) \/ n \in Repeatable
           /\ \A n \in held : Unread(n) /\ n \notin lines
                => n \in lost' \/ replaced = "amid"
<1>1. PICK behind \in MayBeBehind, repeats \in SUBSET Repeatable :
        /\ Feed!Poll(repeats \cup ({n \in held : Unread(n)} \ behind))
        /\ batch' = repeats \cup ({n \in held : Unread(n)} \ behind)
        /\ lost' = IF replaced = "since" THEN lost \cup behind ELSE lost
  BY DEF Poll
<1>2. replaced = "no" => behind = {}
  BY <1>1 DEF MayBeBehind
<1>3. replaced \in {"no", "since", "amid"}
  BY DEF DetectionIInv, DetectionTypeOK
<1> DEFINE lines == repeats \cup ({n \in held : Unread(n)} \ behind)
<1>4. lines \in SUBSET held
  BY DEF Repeatable
<1>5. \A n \in lines : Unread(n) \/ n \in Repeatable
  OBVIOUS
<1>6. \A n \in held : Unread(n) /\ n \notin lines => n \in lost' \/ replaced = "amid"
  BY <1>1, <1>2, <1>3
<1>7. Feed!Poll(lines) /\ batch' = lines
  BY <1>1
<1> HIDE DEF lines
<1> QED
  BY <1>4, <1>5, <1>6, <1>7

LEMMA PollStep ==
  ASSUME DetectionIInv, Poll
  PROVE  Quiet /\ Settled'
<1>1. PICK lines \in SUBSET held :
        /\ Feed!Poll(lines)
        /\ batch' = lines
        /\ \A n \in lines : Unread(n) \/ n \in Repeatable
        /\ \A n \in held : Unread(n) /\ n \notin lines
             => n \in lost' \/ replaced = "amid"
  BY PollReturns
<1>2. /\ checking /\ ~polled /\ watching /\ polled' = TRUE /\ lastRead' = now
      /\ replaced' = IF replaced = "amid" THEN "since" ELSE "no"
      /\ lost \subseteq lost'
      /\ UNCHANGED <<clock, checking, now, failedByIp, since, event, amid,
                     watching, failures, raised, handed>>
      /\ lastRead' \in 0..now' /\ blind' \in 0..MaxBlind
      /\ now - lastRead' <= Wait'
  <2>1. PollSucceeds /\ watching /\ UNCHANGED watching
        /\ replaced' = IF replaced = "amid" THEN "since" ELSE "no"
    BY DEF Poll
  <2>2. lost \subseteq lost'
    BY DEF Poll
  <2>3. UNCHANGED amid
    BY <1>1 DEF Feed!Poll
  <2> QED
    BY <2>1, <2>2, <2>3, ReadNow
<1>3. /\ held \subseteq 1..Len(event) /\ amid \subseteq 1..Len(event)
      /\ got \in [1..Len(Story) -> 0..2]
      /\ FeedKept /\ ChecksInTime /\ BatchReturned
      /\ replaced \in {"no", "since", "amid"}
  BY DEF DetectionIInv, DetectionTypeOK
<1>4. /\ got' = [n \in 1..Len(Story) |-> IF n \in lines THEN got[n] + 1 ELSE got[n]]
      /\ held' = {n \in held : got[n] = 0 /\ (n \in lines => n \in amid)}
  BY <1>1 DEF Feed!Poll, Feed!Lines
<1>5. \A n \in lines : n \in held /\ n \in 1..Len(event) /\ n \in 1..Len(Story)
                       /\ (got[n] = 0 \/ (got[n] = 1 /\ n \in amid))
  BY <1>3, Numbers DEF FeedKept
<1>6. \A n \in 1..Len(Story) : got'[n] = IF n \in lines THEN got[n] + 1 ELSE got[n]
  BY <1>4
<1>7. \A n \in held : n \in 1..Len(Story)
  BY <1>3, Numbers
<1>8. \A n \in held' : /\ n \in held /\ got[n] = 0
                       /\ n \in lines => n \in amid /\ got'[n] = 1
                       /\ n \notin lines => got'[n] = 0
  BY <1>4, <1>6, <1>7
<1>9. Quiet
  <2>1. \A n \in 1..Len(event) :
          /\ n \in 1..Len(Story) /\ got[n] \in 0..2
          /\ n \in lines => got[n] = 0 \/ got[n] = 1
    BY <1>3, <1>5, Numbers
  <2>2. \A n \in 1..Len(event) :
          /\ got[n] > 0 => got'[n] > 0
          /\ got[n] > 0 /\ n \in batch' => got'[n] = 2
          /\ got[n] = 2 => got'[n] = 2 /\ n \notin batch'
    BY <1>1, <1>6, <2>1
  <2> QED
    BY <1>2, <2>2, Numbers DEF Quiet, Attacks
<1>10. DetectionTypeOK'
  <2>1. got' \in [1..Len(Story) -> 0..2]
    <3>1. \A n \in 1..Len(Story) :
            (IF n \in lines THEN got[n] + 1 ELSE got[n]) \in 0..2
      BY <1>3, <1>5
    <3> QED
      BY <1>4, <3>1
  <2>2. held' \subseteq 1..Len(event) /\ batch' \subseteq 1..Len(event)
    BY <1>1, <1>3, <1>5, <1>8
  <2>3. replaced' \in {"no", "since", "amid"}
    BY <1>2
  <2> QED
    BY <1>2, <2>1, <2>2, <2>3 DEF DetectionIInv, DetectionTypeOK
<1>11. FeedKept'
  <2>1. \A n \in 1..Len(Story) : got'[n] > 0 => n <= Len(event)
    BY <1>3, <1>5, <1>6, Numbers DEF FeedKept
  <2>2. \A n \in 1..Len(Story) : got'[n] = 2 => n \in amid
    BY <1>3, <1>5, <1>6 DEF FeedKept
  <2> QED
    BY <1>2, <1>8, <2>1, <2>2 DEF FeedKept
<1>12. BatchReturned'
  BY <1>1, <1>2, <1>5, <1>6 DEF BatchReturned
<1>13. ChecksInTime'
  <2>1. /\ clock - now <= MaxGap /\ now - lastRead <= Wait
        /\ \A n \in held : Unread(n) => event[n].at >= lastRead
        /\ replaced = "amid" => \A n \in held : Unread(n) => event[n].at >= now
        /\ \A n \in 1..Len(event) : event[n].at <= clock
    BY <1>2, <1>3 DEF ChecksInTime
  <2>6. \A n \in 1..Len(event) : event[n].at \in Nat
    BY Numbers
  <2>7. /\ clock \in Nat /\ now \in Nat /\ lastRead \in Nat /\ MaxGap \in Nat
        /\ Wait \in Nat /\ LongestWait \in Nat
    BY Numbers
  <2>2. Wait <= LongestWait
    <3>1. blind \in 0..MaxBlind
      BY DEF DetectionIInv, DetectionTypeOK
    <3> QED
      BY <1>2, <3>1, WaitsAdd DEF Wait
  <2>3. ASSUME NEW n \in held', Unread(n)'
        PROVE  event[n].at >= now
    <3>1. n \in held' /\ got'[n] = 0 /\ n \notin lost'
      BY <2>3 DEF Unread
    <3>2. n \in held /\ n \notin lines /\ got[n] = 0
      BY <1>8, <3>1
    <3>3. Unread(n)
      BY <1>2, <3>1, <3>2 DEF Unread
    <3> QED
      BY <1>1, <2>1, <3>1, <3>2, <3>3
  <2>4. ASSUME NEW n \in lines
        PROVE  event[n].at >= now - LongestWait /\ event[n].at <= now + MaxGap
    <3>1. event[n].at \in Nat /\ event[n].at <= clock
      BY <1>5, <2>1, <2>6
    <3>2. event[n].at >= lastRead
      <4>1. CASE Unread(n)
        BY <1>5, <2>1, <4>1
      <4>2. CASE n \in Repeatable
        BY <4>2 DEF Repeatable
      <4> QED
        BY <1>1, <4>1, <4>2
    <3>3. PICK at \in Nat : at = event[n].at
      BY <3>1
    <3>4. at >= now - LongestWait /\ at <= now + MaxGap
      BY <2>1, <2>2, <2>7, <3>1, <3>2, <3>3
    <3> QED
      BY <3>3, <3>4
  <2>5. replaced' # "amid"
    BY <1>2
  <2> QED
    BY <1>1, <1>2, <1>3, <2>1, <2>3, <2>4, <2>5 DEF ChecksInTime, Near
<1> QED
  BY <1>9, <1>10, <1>11, <1>12, <1>13 DEF Settled

(* What is known of the failures counted so far. *)
LEMMA FailuresKnown ==
  ASSUME DetectionIInv, NEW ip \in Addresses
  PROVE  /\ failures[ip] \in Seq(Nat) /\ since[ip] \in Seq(Int)
         /\ Len(failures[ip]) \in Nat /\ Len(since[ip]) \in Nat
         /\ Len(since[ip]) <= Len(failures[ip])
         /\ \A i \in 1..Len(failures[ip]) :
              LET n == failures[ip][i] IN
              /\ n \in 1..Len(event)
              /\ event[n].kind = "failed" /\ event[n].ip = ip
              /\ got[n] > 0
              /\ n \in batch => got[n] = 2
              /\ \A j \in 1..Len(failures[ip]) :
                   j # i /\ failures[ip][j] = n =>
                     /\ got[n] = 2 /\ n \notin batch
                     /\ \A k \in 1..Len(failures[ip]) :
                          failures[ip][k] = n => k \in {i, j}
<1>1. failures[ip] \in Seq(Nat) /\ since[ip] \in Seq(Int)
  BY DEF DetectionIInv, DetectionTypeOK, IInv, TypeOK
<1>2. Len(since[ip]) <= Len(failures[ip])
  BY DEF DetectionIInv, FailuresReturned
<1>3. \A i \in 1..Len(failures[ip]) : CountedAsReturned(ip, i)
  BY DEF DetectionIInv, FailuresReturned
<1>4. Len(failures[ip]) \in Nat /\ Len(since[ip]) \in Nat
  BY <1>1
<1> QED
  BY <1>1, <1>2, <1>3, <1>4 DEF CountedAsReturned

(* The line of a failure joins its address's. *)
LEMMA FailureJoins ==
  ASSUME DetectionIInv, NEW n, NEW ip, ReadsFailure(n, ip)
  PROVE  /\ ip \in Addresses
         /\ n \in batch /\ n \in 1..Len(event) /\ n \in 1..Len(Story)
         /\ event[n].kind = "failed" /\ event[n].ip = ip /\ got[n] > 0
         /\ got[n] = 2 => n \in amid
         /\ batch' = batch \ {n}
         /\ UNCHANGED <<event, held, amid, got, watching, polled, handed>>
         /\ failures' \in [Addresses -> Seq(Nat)]
         /\ failures'[ip] \in Seq(Nat)
         /\ Len(failures'[ip]) = Len(failures[ip]) + 1
         /\ \A i \in 1..Len(failures[ip]) : failures'[ip][i] = failures[ip][i]
         /\ failures'[ip][Len(failures[ip]) + 1] = n
         /\ \A other \in Addresses \ {ip} : failures'[other] = failures[other]
<1>1. /\ ip \in Addresses
      /\ n \in batch /\ n \in 1..Len(event) /\ n \in 1..Len(Story)
      /\ event[n].kind = "failed" /\ event[n].ip = ip
      /\ batch' = batch \ {n}
      /\ UNCHANGED <<event, held, amid, got, watching, polled, handed>>
  BY DEF ReadsFailure, Reads, logVars
<1>2. got[n] > 0 /\ (got[n] = 2 => n \in amid)
  BY <1>1 DEF DetectionIInv, BatchReturned, FeedKept
<1>3. failures[ip] \in Seq(Nat) /\ n \in Nat /\ failures \in [Addresses -> Seq(Nat)]
  BY <1>1 DEF DetectionIInv, DetectionTypeOK
<1> DEFINE more == Append(failures[ip], n)
<1>4. /\ more \in Seq(Nat)
      /\ Len(more) = Len(failures[ip]) + 1
      /\ \A i \in 1..Len(failures[ip]) : more[i] = failures[ip][i]
      /\ more[Len(failures[ip]) + 1] = n
  BY <1>3, AppendFacts
<1>5. failures' = [failures EXCEPT ![ip] = more]
  BY DEF ReadsFailure
<1> HIDE DEF more
<1>6. /\ failures' \in [Addresses -> Seq(Nat)] /\ failures'[ip] = more
      /\ \A other \in Addresses \ {ip} : failures'[other] = failures[other]
  BY <1>1, <1>3, <1>4, <1>5
<1> QED
  BY <1>1, <1>2, <1>4, <1>6

(* No line is counted more often than it was returned. *)
LEMMA FailureReturned ==
  ASSUME DetectionIInv, NEW n, NEW ip, ReadsFailure(n, ip),
         NEW other \in Addresses, NEW i \in 1..Len(failures'[other])
  PROVE  CountedAsReturned(other, i)'
<1>1. CASE other # ip
  <2>1. failures'[other] = failures[other] /\ batch' \subseteq batch
        /\ UNCHANGED <<event, got>>
    BY <1>1, FailureJoins
  <2>2. CountedAsReturned(other, i)
    BY <2>1 DEF DetectionIInv, FailuresReturned
  <2> QED
    BY <2>1, <2>2 DEF CountedAsReturned
<1>2. CASE other = ip
  <2>1. PICK len \in Nat : len = Len(failures[ip])
    BY <1>2, FailuresKnown
  <2>2. /\ n \in batch /\ n \in 1..Len(event) /\ got[n] > 0
        /\ event[n].kind = "failed" /\ event[n].ip = ip
        /\ batch' = batch \ {n} /\ event' = event /\ got' = got
        /\ Len(failures'[ip]) = len + 1
        /\ \A k \in 1..len : failures'[ip][k] = failures[ip][k]
        /\ failures'[ip][len + 1] = n
    BY <2>1, FailureJoins
  <2>3. \A k \in 1..len + 1 : k \in 1..len \/ k = len + 1
    BY <2>1
  <2>4. \A k \in 1..len : LET m == failures[ip][k] IN
              /\ m \in 1..Len(event)
              /\ event[m].kind = "failed" /\ event[m].ip = ip
              /\ got[m] > 0
              /\ m \in batch => got[m] = 2
              /\ \A j \in 1..len :
                   j # k /\ failures[ip][j] = m =>
                     /\ got[m] = 2 /\ m \notin batch
                     /\ \A l \in 1..len : failures[ip][l] = m => l \in {k, j}
    BY <1>2, <2>1, FailuresKnown
  <2>5. CASE i \in 1..len
    <3>1. PICK m : m = failures[ip][i] /\ m = failures'[ip][i]
      BY <2>2, <2>5
    <3>2. /\ m \in 1..Len(event) /\ event[m].kind = "failed" /\ event[m].ip = ip
          /\ got[m] > 0 /\ (m \in batch' => got[m] = 2)
      BY <2>2, <2>4, <2>5, <3>1
    <3>3. ASSUME NEW j \in 1..len + 1, j # i, failures'[ip][j] = m
          PROVE  /\ got[m] = 2 /\ m \notin batch'
                 /\ \A l \in 1..len + 1 : failures'[ip][l] = m => l \in {i, j}
      <4>1. CASE j \in 1..len
        <5>1. got[m] = 2 /\ m \notin batch /\ m # n
          BY <2>2, <2>4, <2>5, <3>1, <3>3, <4>1
        <5>2. \A l \in 1..len : failures[ip][l] = m => l \in {i, j}
          BY <2>2, <2>4, <2>5, <3>1, <3>3, <4>1
        <5> QED
          BY <2>2, <2>3, <5>1, <5>2
      <4>2. CASE j = len + 1
        <5>1. m = n /\ got[m] = 2 /\ m \notin batch'
          BY <2>2, <2>4, <2>5, <3>1, <3>3, <4>2
        <5>2. \A l \in 1..len : failures[ip][l] = m => l = i
          BY <2>2, <2>4, <2>5, <3>1, <5>1
        <5> QED
          BY <2>2, <2>3, <4>2, <5>1, <5>2
      <4> QED
        BY <2>3, <4>1, <4>2
    <3> QED
      BY <1>2, <2>2, <3>1, <3>2, <3>3 DEF CountedAsReturned
  <2>6. CASE i = len + 1
    <3>1. n \notin batch' /\ failures'[ip][i] = n
      BY <2>2, <2>6
    <3>2. ASSUME NEW j \in 1..len + 1, j # i, failures'[ip][j] = n
          PROVE  /\ got[n] = 2
                 /\ \A l \in 1..len + 1 : failures'[ip][l] = n => l \in {i, j}
      <4>1. j \in 1..len /\ failures[ip][j] = n
        BY <2>2, <2>3, <2>6, <3>2
      <4>2. got[n] = 2
        BY <2>2, <2>4, <4>1
      <4>3. \A l \in 1..len : failures[ip][l] = n => l = j
        BY <2>2, <2>4, <4>1
      <4> QED
        BY <2>2, <2>3, <2>6, <4>2, <4>3
    <3> QED
      BY <1>2, <2>2, <3>1, <3>2 DEF CountedAsReturned
  <2> QED
    BY <1>2, <2>2, <2>3, <2>5, <2>6
<1> QED
  BY <1>1, <1>2

(* The window the failure is counted in holds the last c failures before   *)
(* it: none of them, nor the failure itself, stands in an earlier alert,   *)
(* unless its line came in the middle of a poll. *)
LEMMA OpenUnreported ==
  ASSUME DetectionIInv, NEW n, NEW ip, ReadsFailure(n, ip)
  PROVE  \E c \in Nat, len \in Nat :
           /\ Counted(failedByIp[ip]).count = c + 1
           /\ c <= Len(since[ip])
           /\ Len(failures[ip]) = len /\ c <= len
           /\ LastWithin(Append(since[ip], now), c + 1, Minutes5)
           /\ \A alert \in Attacks : alert.ip = ip =>
                \A i \in len + 1 - c..len + 1 :
                  failures'[ip][i] \in ToSet(alert.lines) => failures'[ip][i] \in amid
<1>1. PICK len \in Nat : len = Len(failures[ip])
  BY FailureJoins, FailuresKnown
<1>2. ip \in Addresses /\ IInv /\ now \in Nat \ {0}
      /\ Threshold \in Int /\ Minutes5 \in Nat /\ since[ip] \in Seq(Int)
      /\ Len(since[ip]) \in Nat /\ Len(since[ip]) <= len
  BY <1>1, FailureJoins, FailuresKnown, WindowOf DEF DetectionIInv
<1>3. PICK c \in Nat, start \in 1..now :
        /\ Counted(failedByIp[ip]) = [count |-> c + 1, windowStart |-> start]
        /\ now - start <= Minutes5
        /\ Window(since[ip], c, start, now, Threshold, Minutes5)
  BY <1>2, CountedIn
<1>4. c <= Len(since[ip])
  BY <1>2, <1>3 DEF Window
<1>5. LastWithin(Append(since[ip], now), c + 1, Minutes5)
  BY <1>2, <1>3, WindowTruth
<1>6. c <= failedByIp[ip].count /\ failedByIp[ip].count \in Nat
  <2>1. PICK d \in Nat : d = failedByIp[ip].count
    <3>1. failedByIp[ip].count \in 0..Limit(Threshold) - 1
      BY <1>2, WindowOf
    <3> QED
      BY <3>1
  <2>2. Counted(failedByIp[ip]).count = c + 1
    BY <1>3
  <2>3. Counted(failedByIp[ip]).count = d + 1 \/ Counted(failedByIp[ip]).count = 0 + 1
    BY <2>1 DEF Counted
  <2>4. c = d \/ c = 0
    BY <2>2, <2>3
  <2> QED
    BY <2>1, <2>4
<1>7. ASSUME NEW alert \in Attacks, alert.ip = ip, NEW i \in len + 1 - c..len + 1,
             failures'[ip][i] \in ToSet(alert.lines)
      PROVE  failures'[ip][i] \in amid
  <2>1. CASE i = len + 1
    <3>1. failures'[ip][i] = n /\ n \in batch /\ (got[n] = 2 => n \in amid)
      BY <1>1, <2>1, FailureJoins
    <3>2. n \in batch => got[n] = 2
      BY <1>7, <3>1 DEF DetectionIInv, AttacksClosed
    <3> QED
      BY <3>1, <3>2
  <2>2. CASE i # len + 1
    <3>1. i \in 1..len /\ i > len - c
      BY <1>2, <1>4, <2>2
    <3>2. i > len - failedByIp[ip].count
      BY <1>6, <3>1
    <3>3. failures'[ip][i] = failures[ip][i]
      BY <1>1, <3>1, FailureJoins
    <3> QED
      BY <1>1, <1>7, <3>1, <3>2, <3>3 DEF DetectionIInv, AttacksClosed
  <2> QED
    BY <2>1, <2>2
<1>8. Counted(failedByIp[ip]).count = c + 1 /\ c <= len
  BY <1>2, <1>3, <1>4
<1> QED
  BY <1>1, <1>4, <1>5, <1>7, <1>8

(* The failures since the last alert were written near the checks that     *)
(* counted them, and so was the one that is read. *)
LEMMA FailuresInTime ==
  ASSUME DetectionIInv, NEW n, NEW ip, ReadsFailure(n, ip)
  PROVE  \A i \in 1..Len(since[ip]) + 1 :
           Near(failures'[ip][Len(failures[ip]) - Len(since[ip]) + i],
                Append(since[ip], now)[i])
<1>1. PICK len \in Nat, s \in Nat :
        len = Len(failures[ip]) /\ s = Len(since[ip]) /\ s <= len
  BY FailureJoins, FailuresKnown
<1>2. ip \in Addresses /\ since[ip] \in Seq(Int) /\ now \in Int
  BY FailureJoins, FailuresKnown, Numbers
<1>3. /\ \A i \in 1..s : Append(since[ip], now)[i] = since[ip][i]
      /\ Append(since[ip], now)[s + 1] = now
  BY <1>1, <1>2, AppendFacts
<1> SUFFICES ASSUME NEW i \in 1..s + 1
             PROVE  Near(failures'[ip][len - s + i], Append(since[ip], now)[i])
  BY <1>1
<1>4. CASE i = s + 1
  <2>1. len - s + i = len + 1
    BY <1>4
  <2>2. failures'[ip][len + 1] = n /\ n \in batch
    BY <1>1, FailureJoins
  <2>3. Near(n, now)
    BY <2>2 DEF DetectionIInv, ChecksInTime
  <2> QED
    BY <1>3, <1>4, <2>1, <2>2, <2>3
<1>5. CASE i \in 1..s
  <2>1. Near(failures[ip][len - s + i], since[ip][i])
    BY <1>1, <1>2, <1>5 DEF DetectionIInv, CountedInTime
  <2>2. len - s + i \in 1..len
    <3>1. s <= len /\ i \in Nat /\ 1 <= i /\ i <= s
      BY <1>1, <1>5
    <3> QED
      BY <3>1
  <2>3. failures'[ip][len - s + i] = failures[ip][len - s + i]
    BY <1>1, <2>2, FailureJoins
  <2> QED
    BY <1>3, <1>5, <2>1, <2>3
<1>6. i \in 1..s \/ i = s + 1
  OBVIOUS
<1> QED
  BY <1>4, <1>5, <1>6

(* What reading a line leaves true of the log and the check. *)
LEMMA ReadsSettled ==
  ASSUME DetectionIInv, NEW n, NEW ip, Reads(n, ip),
         UNCHANGED <<clock, checking, now>>,
         failures' \in [Addresses -> Seq(Nat)]
  PROVE  Settled'
<1>1. /\ batch' \subseteq batch
      /\ UNCHANGED <<event, held, amid, got, lost, replaced, watching, polled,
                     blind, lastRead, clock, checking, now>>
  BY DEF Reads, logVars
<1>2. DetectionTypeOK' /\ FeedKept'
  BY <1>1 DEF DetectionIInv, DetectionTypeOK, FeedKept
<1>3. BatchReturned'
  BY <1>1 DEF DetectionIInv, BatchReturned
<1>4. ChecksInTime'
  <2>1. ChecksInTime
    BY DEF DetectionIInv
  <2>2. Wait' = Wait
    BY <1>1 DEF Wait
  <2> QED
    BY <1>1, <2>1, <2>2 DEF ChecksInTime, Near, Unread
<1> QED
  BY <1>2, <1>3, <1>4 DEF Settled

(* A login counts nothing. *)
LEMMA ReadsLoginStep ==
  ASSUME DetectionIInv, NEW n, NEW ip, ReadsLogin(n, ip)
  PROVE  Quiet /\ Settled'
<1>1. /\ Reads(n, ip)
      /\ UNCHANGED <<clock, checking, now, failedByIp, since, failures, handed>>
      /\ raised' = raised \cup {[type |-> "ssh_login", ip |-> ip, lines |-> <<n>>]}
  BY DEF ReadsLogin, Reads, ReadLogin
<1>2. batch' \subseteq batch /\ UNCHANGED <<event, amid, got>>
  BY <1>1 DEF Reads, logVars
<1>3. Attacks' = Attacks
  BY <1>1 DEF Attacks
<1>4. Quiet
  BY <1>1, <1>2, <1>3, Numbers DEF Quiet
<1>5. failures' \in [Addresses -> Seq(Nat)]
  BY <1>1 DEF DetectionIInv, DetectionTypeOK
<1> QED
  BY <1>1, <1>4, <1>5, ReadsSettled

(* A failure below the threshold: the window is still open. *)
LEMMA CountsFailureStep ==
  ASSUME DetectionIInv, NEW n, NEW ip, CountsFailure(n, ip)
  PROVE  Settled' /\ FailuresReturned' /\ AttacksClosed' /\ CountedInTime'
         /\ CountsAreFailures' /\ SpanBounded'
<1>1. ReadsFailure(n, ip) /\ Reads(n, ip) /\ raised' = raised
      /\ UNCHANGED <<clock, checking, now>>
      /\ since' = [since EXCEPT ![ip] = Append(@, now)]
      /\ failedByIp' = [failedByIp EXCEPT ![ip] = Counted(failedByIp[ip])]
  BY DEF CountsFailure, ReadsFailure, CountFailure
<1>2. PICK c \in Nat, len \in Nat :
           /\ Counted(failedByIp[ip]).count = c + 1
           /\ c <= Len(since[ip])
           /\ Len(failures[ip]) = len /\ c <= len
           /\ \A alert \in Attacks : alert.ip = ip =>
                \A i \in len + 1 - c..len + 1 :
                  failures'[ip][i] \in ToSet(alert.lines) => failures'[ip][i] \in amid
  BY <1>1, OpenUnreported
<1>3. /\ ip \in Addresses
      /\ batch' \subseteq batch
      /\ UNCHANGED <<event, held, amid, got, handed>>
      /\ failures' \in [Addresses -> Seq(Nat)]
      /\ Len(failures'[ip]) = len + 1
      /\ \A other \in Addresses \ {ip} : failures'[other] = failures[other]
  BY <1>1, <1>2, FailureJoins
<1>4. since \in [Addresses -> Seq(Int)] /\ since[ip] \in Seq(Int) /\ now \in Int
      /\ \A other \in Addresses : failedByIp[other].count \in Int
      /\ DOMAIN failedByIp = Addresses
  <2>1. since \in [Addresses -> Seq(Int)] /\ now \in 1..clock /\ clock \in Nat
    BY DEF DetectionIInv, IInv, TypeOK
  <2>2. now \in Int
    BY <2>1
  <2>3. failedByIp \in [Addresses -> [count : 0..Limit(Threshold) - 1,
                                      windowStart : 0..now]]
    BY DEF DetectionIInv, IInv, TypeOK
  <2>4. \A other \in Addresses : failedByIp[other].count \in 0..Limit(Threshold) - 1
    BY <2>3
  <2> QED
    BY <1>3, <2>1, <2>2, <2>3, <2>4
<1>5. PICK s \in Nat : s = Len(since[ip]) /\ s <= len
  BY <1>2, <1>3, FailuresKnown
<1>6. /\ since'[ip] = Append(since[ip], now) /\ Len(since'[ip]) = s + 1
      /\ \A other \in Addresses \ {ip} : since'[other] = since[other]
  BY <1>1, <1>3, <1>4, <1>5
<1>7. /\ failedByIp'[ip].count = c + 1
      /\ \A other \in Addresses \ {ip} : failedByIp'[other] = failedByIp[other]
  BY <1>1, <1>2, <1>3, <1>4
<1>8. Attacks' = Attacks
  BY <1>1, <1>3 DEF Attacks
<1>9. Settled'
  BY <1>1, <1>3, ReadsSettled
<1>10. FailuresReturned'
  <2>1. \A other \in Addresses : Len(since'[other]) <= Len(failures'[other])
    <3>1. Len(since'[ip]) <= Len(failures'[ip])
      BY <1>3, <1>5, <1>6
    <3>2. \A other \in Addresses \ {ip} : Len(since'[other]) <= Len(failures'[other])
      BY <1>3, <1>6 DEF DetectionIInv, FailuresReturned
    <3> QED
      BY <3>1, <3>2
  <2>2. \A other \in Addresses : \A i \in 1..Len(failures'[other]) :
          CountedAsReturned(other, i)'
    BY <1>1, FailureReturned
  <2> QED
    BY <2>1, <2>2 DEF FailuresReturned
<1>11. AttacksClosed'
  <2> SUFFICES ASSUME NEW alert \in Attacks
               PROVE  /\ alert.ip \in Addresses
                      /\ alert.lines \in Seq(Nat)
                      /\ \A m \in ToSet(alert.lines) :
                           m \in 1..Len(event) /\ got[m] > 0 /\ (m \in batch' => got[m] = 2)
                      /\ \A i \in 1..Len(failures'[alert.ip]) :
                           /\ i > Len(failures'[alert.ip]) - failedByIp'[alert.ip].count
                           /\ failures'[alert.ip][i] \in ToSet(alert.lines)
                           => failures'[alert.ip][i] \in amid
    BY <1>3, <1>8 DEF AttacksClosed
  <2>1. /\ alert.ip \in Addresses
        /\ alert.lines \in Seq(Nat)
        /\ \A m \in ToSet(alert.lines) :
             m \in 1..Len(event) /\ got[m] > 0 /\ (m \in batch => got[m] = 2)
        /\ \A i \in 1..Len(failures[alert.ip]) :
             /\ i > Len(failures[alert.ip]) - failedByIp[alert.ip].count
             /\ failures[alert.ip][i] \in ToSet(alert.lines)
             => failures[alert.ip][i] \in amid
    BY DEF DetectionIInv, AttacksClosed
  <2>2. CASE alert.ip # ip
    BY <1>3, <1>7, <2>1, <2>2
  <2>3. CASE alert.ip = ip
    <3>1. ASSUME NEW i \in 1..len + 1, i > len + 1 - (c + 1),
                 failures'[ip][i] \in ToSet(alert.lines)
          PROVE  failures'[ip][i] \in amid
      <4>1. i \in len + 1 - c..len + 1
        BY <3>1
      <4> QED
        BY <1>2, <2>3, <3>1, <4>1
    <3> QED
      BY <1>3, <1>7, <2>1, <2>3, <3>1
  <2> QED
    BY <2>2, <2>3
<1>12. CountedInTime'
  <2> SUFFICES ASSUME NEW other \in Addresses, NEW i \in 1..Len(since'[other])
               PROVE  Near(failures[other][Len(failures[other]) - Len(since[other]) + i],
                           since[other][i])'
    BY DEF CountedInTime
  <2>1. PICK j : j = Len(failures'[other]) - Len(since'[other]) + i
    OBVIOUS
  <2>2. CASE other = ip
    <3>1. i \in 1..s + 1
      BY <1>6, <2>2
    <3>2. Near(failures'[ip][len - s + i], Append(since[ip], now)[i])
      BY <1>1, <1>2, <1>5, <3>1, FailuresInTime
    <3>3. i \in Int /\ s \in Int /\ len \in Int
      BY <3>1
    <3>4. j = (len + 1) - (s + 1) + i
      BY <1>3, <1>6, <2>1, <2>2
    <3>5. j = len - s + i
      BY <3>3, <3>4
    <3>6. Near(failures'[other][j], since'[other][i])
      BY <1>6, <2>2, <3>2, <3>5
    <3> QED
      BY <1>3, <2>1, <3>6 DEF Near
  <2>3. CASE other # ip
    <3>1. /\ failures'[other] = failures[other] /\ since'[other] = since[other]
          /\ i \in 1..Len(since[other])
      BY <1>3, <1>6, <2>3
    <3>2. Near(failures[other][j], since[other][i])
      BY <2>1, <3>1 DEF DetectionIInv, CountedInTime
    <3> QED
      BY <1>3, <2>1, <3>1, <3>2 DEF Near
  <2> QED
    BY <2>2, <2>3
<1>13. CountsAreFailures' /\ SpanBounded'
  BY <1>3, <1>8 DEF DetectionIInv, CountsAreFailures, SpanBounded
<1> QED
  BY <1>9, <1>10, <1>11, <1>12, <1>13

(* The last c + 1 lines counted of an address that has len + 1. *)
LastCounted(lines, ip, c, len) ==
  /\ lines \in Seq(Nat) /\ Len(lines) = c + 1
  /\ \A i \in 1..c + 1 : /\ len - c + i \in len + 1 - c..len + 1
                         /\ len - c + i \in 1..len + 1
                         /\ lines[i] = failures'[ip][len - c + i]
  /\ \A m \in ToSet(lines) : \E i \in 1..c + 1 : m = lines[i]

(* The alert that is raised stands for these. *)
LEMMA ReportedLines ==
  ASSUME DetectionIInv, NEW n, NEW ip, ReadsFailure(n, ip),
         NEW c \in Nat, NEW len \in Nat,
         Counted(failedByIp[ip]).count = c + 1,
         Len(failures[ip]) = len, c <= len,
         NEW lines, lines = Reported(n, ip).lines
  PROVE  LastCounted(lines, ip, c, len)
<1>1. PICK more \in Seq(Nat) : more = failures'[ip] /\ Len(more) = len + 1
  BY FailureJoins
<1>2. more = Append(failures[ip], n)
  BY <1>1, FailureJoins DEF ReadsFailure, DetectionIInv, DetectionTypeOK
<1>3. lines = SubSeq(more, Len(more) - (c + 1) + 1, Len(more))
  BY <1>2 DEF Reported
<1>4. PICK size \in 1..Len(more) : size = c + 1
  BY <1>1
<1>5. /\ lines \in Seq(Nat) /\ Len(lines) = c + 1
      /\ \A i \in 1..c + 1 : lines[i] = more[Len(more) - (c + 1) + i]
  <2>1. lines = SubSeq(more, Len(more) - size + 1, Len(more))
    BY <1>3, <1>4
  <2>2. /\ lines \in Seq(Nat) /\ Len(lines) = size
        /\ \A i \in 1..size : lines[i] = more[Len(more) - size + i]
    BY <2>1, LastOnes
  <2> QED
    BY <1>4, <2>2
<1>6. \A i \in 1..c + 1 : /\ Len(more) - (c + 1) + i = len - c + i
                          /\ len - c + i \in len + 1 - c..len + 1
                          /\ len - c + i \in 1..len + 1
  BY <1>1
<1>7. \A m \in ToSet(lines) : \E i \in 1..c + 1 : m = lines[i]
  BY <1>5 DEF ToSet
<1> QED
  BY <1>1, <1>5, <1>6, <1>7 DEF LastCounted

(* The failure that reaches it: the window's failures become an alert's. *)
LEMMA ReportsAttackStep ==
  ASSUME DetectionIInv, NEW n, NEW ip, ReportsAttack(n, ip)
  PROVE  Settled' /\ FailuresReturned' /\ AttacksClosed' /\ CountedInTime'
         /\ CountsAreFailures' /\ SpanBounded'
<1>1. ReadsFailure(n, ip) /\ Reads(n, ip)
      /\ raised' = raised \cup {Reported(n, ip)}
      /\ UNCHANGED <<clock, checking, now>>
      /\ since' = [since EXCEPT ![ip] = <<>>]
      /\ failedByIp' = [failedByIp EXCEPT ![ip] = [count |-> 0, windowStart |-> now]]
  BY DEF ReportsAttack, ReadsFailure, ReportAttack
<1>2. PICK c \in Nat, len \in Nat :
           /\ Counted(failedByIp[ip]).count = c + 1
           /\ c <= Len(since[ip])
           /\ Len(failures[ip]) = len /\ c <= len
           /\ LastWithin(Append(since[ip], now), c + 1, Minutes5)
           /\ \A alert \in Attacks : alert.ip = ip =>
                \A i \in len + 1 - c..len + 1 :
                  failures'[ip][i] \in ToSet(alert.lines) => failures'[ip][i] \in amid
  BY <1>1, OpenUnreported
<1>3. /\ ip \in Addresses
      /\ batch' \subseteq batch
      /\ UNCHANGED <<event, held, amid, got, handed>>
      /\ failures' \in [Addresses -> Seq(Nat)]
      /\ Len(failures'[ip]) = len + 1
      /\ \A other \in Addresses \ {ip} : failures'[other] = failures[other]
  BY <1>1, <1>2, FailureJoins
<1> DEFINE new == Reported(n, ip)
           lines == new.lines
<1>4. new.type = "ssh_bruteforce" /\ new.ip = ip
  BY DEF Reported
<1>5. /\ lines \in Seq(Nat) /\ Len(lines) = c + 1
      /\ \A i \in 1..c + 1 : /\ len - c + i \in len + 1 - c..len + 1
                             /\ len - c + i \in 1..len + 1
                             /\ lines[i] = failures'[ip][len - c + i]
      /\ \A m \in ToSet(lines) : \E i \in 1..c + 1 : m = lines[i]
  <2>1. ASSUME NEW l, l = Reported(n, ip).lines
        PROVE  LastCounted(l, ip, c, len)
    BY <1>1, <1>2, <2>1, ReportedLines
  <2> QED
    BY <2>1 DEF LastCounted
<1> HIDE DEF new
<1>6. Attacks' = Attacks \cup {new}
  BY <1>1, <1>3, <1>4 DEF Attacks, new
<1>7. /\ since'[ip] = <<>>
      /\ \A other \in Addresses \ {ip} : since'[other] = since[other]
      /\ failedByIp'[ip].count = 0
      /\ \A other \in Addresses \ {ip} : failedByIp'[other] = failedByIp[other]
  BY <1>1, <1>3 DEF DetectionIInv, IInv, TypeOK
<1>8. Settled'
  BY <1>1, <1>3, ReadsSettled
<1>9. \A other \in Addresses : \A i \in 1..Len(failures'[other]) :
        CountedAsReturned(other, i)'
  BY <1>1, FailureReturned
<1>10. FailuresReturned'
  <2>1. Len(since'[ip]) <= Len(failures'[ip])
    <3>1. Len(<<>>) = 0 /\ 0 <= len + 1
      OBVIOUS
    <3> QED
      BY <1>3, <1>7, <3>1
  <2>2. \A other \in Addresses \ {ip} : Len(since'[other]) <= Len(failures'[other])
    BY <1>3, <1>7 DEF DetectionIInv, FailuresReturned
  <2> QED
    BY <1>9, <2>1, <2>2 DEF FailuresReturned
(* What the alert's lines are. *)
<1>11. \A i \in 1..c + 1 : LET m == lines[i] IN
         /\ m \in 1..Len(event) /\ event[m].kind = "failed" /\ event[m].ip = ip
         /\ got[m] > 0 /\ (m \in batch' => got[m] = 2)
         /\ \A j \in 1..c + 1 : j # i /\ lines[j] = m =>
              /\ m \in amid
              /\ \A k \in 1..c + 1 : lines[k] = m => k \in {i, j}
  <2> TAKE i \in 1..c + 1
  <2>1. PICK m : m = lines[i]
    OBVIOUS
  <2>2. PICK p \in 1..len + 1 : p = len - c + i /\ m = failures'[ip][p]
    BY <1>5, <2>1
  <2>3. CountedAsReturned(ip, p)'
    BY <1>3, <1>9, <2>2
  <2>4. /\ m \in 1..Len(event) /\ event[m].kind = "failed" /\ event[m].ip = ip
        /\ got[m] > 0 /\ (m \in batch' => got[m] = 2)
        /\ \A q \in 1..len + 1 : q # p /\ failures'[ip][q] = m =>
             /\ got[m] = 2
             /\ \A r \in 1..len + 1 : failures'[ip][r] = m => r \in {p, q}
    BY <1>3, <2>2, <2>3 DEF CountedAsReturned
  <2>5. ASSUME NEW j \in 1..c + 1, j # i, lines[j] = m
        PROVE  m \in amid /\ \A k \in 1..c + 1 : lines[k] = m => k \in {i, j}
    <3>1. PICK q \in 1..len + 1 : q = len - c + j /\ m = failures'[ip][q]
      BY <1>5, <2>5
    <3>2. q # p
      BY <2>2, <2>5, <3>1
    <3>3. got[m] = 2 /\ \A r \in 1..len + 1 : failures'[ip][r] = m => r \in {p, q}
      BY <2>4, <3>1, <3>2
    <3>4. m \in amid
      <4>1. m \in 1..Len(Story)
        BY <2>4, Numbers
      <4> QED
        BY <3>3, <4>1 DEF DetectionIInv, FeedKept
    <3>5. ASSUME NEW k \in 1..c + 1, lines[k] = m PROVE k \in {i, j}
      <4>1. PICK r \in 1..len + 1 : r = len - c + k /\ m = failures'[ip][r]
        BY <1>5, <3>5
      <4>2. r = p \/ r = q
        BY <3>3, <4>1
      <4> QED
        BY <2>2, <3>1, <4>1, <4>2
    <3> QED
      BY <3>4, <3>5
  <2> QED
    BY <2>1, <2>4, <2>5
<1>12. \A m \in ToSet(lines) :
         /\ m \in 1..Len(event) /\ event[m].kind = "failed" /\ event[m].ip = ip
         /\ got[m] > 0 /\ (m \in batch' => got[m] = 2)
  <2> TAKE m \in ToSet(lines)
  <2>1. PICK i \in 1..c + 1 : m = lines[i]
    BY <1>5
  <2> QED
    BY <1>11, <2>1
<1>13. AttacksClosed'
  <2>1. ASSUME NEW alert \in Attacks
        PROVE  /\ alert.ip \in Addresses
               /\ alert.lines \in Seq(Nat)
               /\ \A m \in ToSet(alert.lines) :
                    m \in 1..Len(event) /\ got[m] > 0 /\ (m \in batch' => got[m] = 2)
               /\ alert.ip # ip =>
                    \A i \in 1..Len(failures'[alert.ip]) :
                      /\ i > Len(failures'[alert.ip]) - failedByIp'[alert.ip].count
                      /\ failures'[alert.ip][i] \in ToSet(alert.lines)
                      => failures'[alert.ip][i] \in amid
    BY <1>3, <1>7 DEF DetectionIInv, AttacksClosed
  <2>2. \A i \in 1..Len(failures'[ip]) :
          ~(i > Len(failures'[ip]) - failedByIp'[ip].count)
    BY <1>3, <1>7
  <2> QED
    BY <1>3, <1>4, <1>5, <1>6, <1>12, <2>1, <2>2 DEF AttacksClosed
<1>14. CountedInTime'
  <2> SUFFICES ASSUME NEW other \in Addresses, NEW i \in 1..Len(since'[other])
               PROVE  Near(failures[other][Len(failures[other]) - Len(since[other]) + i],
                           since[other][i])'
    BY DEF CountedInTime
  <2>1. other # ip
    BY <1>7
  <2>2. PICK j : j = Len(failures'[other]) - Len(since'[other]) + i
    OBVIOUS
  <2>3. /\ failures'[other] = failures[other] /\ since'[other] = since[other]
        /\ i \in 1..Len(since[other])
    BY <1>3, <1>7, <2>1
  <2>4. Near(failures[other][j], since[other][i])
    BY <2>2, <2>3 DEF DetectionIInv, CountedInTime
  <2> QED
    BY <1>3, <2>2, <2>3, <2>4 DEF Near
<1>15. CountsAreFailures'
  <2>1. ToSet(lines) \cap amid = {} => Cardinality(ToSet(lines)) = Len(lines)
    <3> SUFFICES ASSUME ToSet(lines) \cap amid = {}
                 PROVE  Cardinality(ToSet(lines)) = Len(lines)
      OBVIOUS
    <3>1. \A i \in 1..Len(lines) : lines[i] \in ToSet(lines)
      BY DEF ToSet
    <3>2. \A i, j \in 1..Len(lines) : lines[i] = lines[j] => i = j
      BY <1>5, <1>11, <3>1
    <3> QED
      BY <1>5, <3>2, Once
  <2>2. Len(lines) <= 2 * Cardinality(ToSet(lines))
    <3>1. \A i, j, k \in 1..Len(lines) :
            lines[i] = lines[j] /\ lines[j] = lines[k] /\ i # j => k \in {i, j}
      BY <1>5, <1>11
    <3> QED
      BY <1>5, <3>1, AtMostTwice
  <2>3. \A other \in Attacks : ToSet(lines) \cap ToSet(other.lines) \subseteq amid
    <3> SUFFICES ASSUME NEW other \in Attacks,
                        NEW m \in ToSet(lines), m \in ToSet(other.lines)
                 PROVE  m \in amid
      OBVIOUS
    <3>1. event[m].ip = ip
      BY <1>12
    <3>2. event[m].ip = other.ip
      BY DEF DetectionIInv, CountsAreFailures
    <3>3. PICK i \in 1..c + 1 : m = lines[i]
      BY <1>5
    <3>4. len - c + i \in len + 1 - c..len + 1 /\ m = failures'[ip][len - c + i]
      BY <1>5, <3>3
    <3> QED
      BY <1>2, <3>1, <3>2, <3>4
  <2>4. \A alert \in Attacks :
          /\ \A m \in ToSet(alert.lines) : event[m].kind = "failed" /\ event[m].ip = alert.ip
          /\ ToSet(alert.lines) \cap amid = {}
               => Cardinality(ToSet(alert.lines)) = Len(alert.lines)
          /\ Len(alert.lines) <= 2 * Cardinality(ToSet(alert.lines))
          /\ \A other \in Attacks \ {alert} :
               ToSet(alert.lines) \cap ToSet(other.lines) \subseteq amid
    BY DEF DetectionIInv, CountsAreFailures
  <2> SUFFICES ASSUME NEW alert \in Attacks \cup {new}
               PROVE  /\ \A m \in ToSet(alert.lines) :
                           event[m].kind = "failed" /\ event[m].ip = alert.ip
                      /\ ToSet(alert.lines) \cap amid = {}
                           => Cardinality(ToSet(alert.lines)) = Len(alert.lines)
                      /\ Len(alert.lines) <= 2 * Cardinality(ToSet(alert.lines))
                      /\ \A other \in (Attacks \cup {new}) \ {alert} :
                           ToSet(alert.lines) \cap ToSet(other.lines) \subseteq amid
    BY <1>3, <1>6 DEF CountsAreFailures
  <2>5. CASE alert \in Attacks
    BY <2>3, <2>4, <2>5
  <2>6. CASE alert = new
    BY <1>4, <1>12, <2>1, <2>2, <2>3, <2>6
  <2> QED
    BY <2>5, <2>6
<1>16. SpanBounded'
  <2>1. PICK s \in Nat : s = Len(since[ip]) /\ c <= s /\ s <= len
    BY <1>2, <1>3, FailuresKnown
  <2> DEFINE times == Append(since[ip], now)
  <2>2. Len(times) = s + 1 /\ times[s + 1] = now /\ \A i \in 1..s + 1 : times[i] \in 1..now
    <3>1. since[ip] \in Seq(Int) /\ now \in Nat \ {0}
          /\ \A i \in 1..s : since[ip][i] \in 1..now
      BY <1>3, <2>1, WindowOf DEF DetectionIInv, Window
    <3>2. /\ Len(times) = s + 1 /\ times[s + 1] = now
          /\ \A i \in 1..s : times[i] = since[ip][i]
      BY <2>1, <3>1, AppendFacts
    <3>3. \A i \in 1..s + 1 : i \in 1..s \/ i = s + 1
      BY <2>1
    <3> QED
      BY <3>1, <3>2, <3>3
  <2>3. \A i \in s + 1 - c..s + 1 : now - times[i] <= Minutes5
    <3>1. \A i \in Len(times) - (c + 1) + 1..Len(times) :
            times[Len(times)] - times[i] <= Minutes5
      BY <1>2 DEF LastWithin
    <3>2. Len(times) - (c + 1) + 1 = s + 1 - c
      BY <2>1, <2>2
    <3> QED
      BY <2>2, <3>1, <3>2
  <2>4. \A i \in 1..s + 1 : Near(failures'[ip][len - s + i], times[i])
    BY <1>1, <1>2, <2>1, FailuresInTime
  <2> HIDE DEF times
  <2>5. ASSUME NEW i \in 1..c + 1
        PROVE  /\ event[lines[i]].at \in Nat
               /\ event[lines[i]].at <= now + MaxGap
               /\ event[lines[i]].at >= now - Minutes5 - LongestWait
    <3>1. PICK q : q = s - c + i
      OBVIOUS
    <3>2. q \in 1..s + 1 /\ q \in s + 1 - c..s + 1 /\ len - s + q = len - c + i
      <4>1. c <= s /\ i \in Nat /\ 1 <= i /\ i <= c + 1
        BY <2>1
      <4> QED
        BY <3>1, <4>1
    <3>3. Near(lines[i], times[q])
      BY <1>5, <2>4, <3>2
    <3>4. PICK t : t = times[q] /\ t \in 1..now /\ now - t <= Minutes5
      BY <2>2, <2>3, <3>2
    <3>5. PICK at \in Nat : at = event[lines[i]].at
      BY <1>11, Numbers
    <3>6. at >= t - LongestWait /\ at <= t + MaxGap
      BY <3>3, <3>4, <3>5 DEF Near
    <3>7. now \in Nat /\ MaxGap \in Nat /\ Minutes5 \in Nat /\ LongestWait \in Nat
      BY Numbers
    <3>8. t \in Nat /\ t <= now /\ t >= now - Minutes5
      BY <3>4, <3>7
    <3>9. at <= now + MaxGap /\ at >= now - Minutes5 - LongestWait
      BY <3>6, <3>7, <3>8
    <3> QED
      BY <3>5, <3>9
  <2>6. ASSUME NEW i \in 1..c + 1, NEW j \in 1..c + 1
        PROVE  event[lines[j]].at - event[lines[i]].at
                 <= Minutes5 + MaxGap + LongestWait
    <3>1. PICK a \in Nat, b \in Nat : a = event[lines[i]].at /\ b = event[lines[j]].at
      BY <2>5
    <3>2. b <= now + MaxGap /\ a >= now - Minutes5 - LongestWait
      BY <2>5, <3>1
    <3>3. b - a <= Minutes5 + MaxGap + LongestWait
      BY <3>2, Numbers
    <3> QED
      BY <3>1, <3>3
  <2>7. \A alert \in Attacks : \A i, j \in 1..Len(alert.lines) :
          event[alert.lines[j]].at - event[alert.lines[i]].at
            <= Minutes5 + MaxGap + LongestWait
    BY DEF DetectionIInv, SpanBounded
  <2> QED
    BY <1>3, <1>5, <1>6, <2>6, <2>7 DEF SpanBounded
<1> QED
  BY <1>8, <1>10, <1>13, <1>14, <1>15, <1>16

(* Nothing is there at first. *)
LEMMA DetectionInitIInv == DetectionInit => DetectionIInv
<1> SUFFICES ASSUME DetectionInit PROVE DetectionIInv
  OBVIOUS
<1>1. IInv
  BY InitIInv DEF DetectionInit
<1>2. /\ event = <<>> /\ held = {} /\ amid = {} /\ batch = {}
      /\ got = [n \in 1..Len(Story) |-> 0]
      /\ watching = FALSE /\ polled = FALSE /\ checking = FALSE
      /\ replaced = "no" /\ blind = 0 /\ lastRead = 0 /\ now = 1
      /\ failures = [ip \in Addresses |-> <<>>] /\ raised = {} /\ handed = {}
  BY DEF DetectionInit, Init, Feed!FeedInit, Feed!Lines
<1>3. Len(event) = 0 /\ \A n : n \notin 1..Len(event)
  BY <1>2
<1>4. \A n \in 1..Len(Story) : got[n] = 0
  BY <1>2
<1>5. Attacks = {}
  BY <1>2 DEF Attacks
<1>6. DetectionTypeOK
  <2>1. Len(Story) \in Nat
    BY DetectionAssumption DEF DetectionAssumption
  <2>2. <<>> \in Seq([kind : {"accepted", "failed"}, ip : Addresses, at : Nat])
    OBVIOUS
  <2>3. event \in Seq([kind : {"accepted", "failed"}, ip : Addresses, at : Nat])
    BY <1>2, <2>2
  <2>4. Len(event) <= Len(Story)
    BY <1>3, <2>1
  <2>5. got \in [1..Len(Story) -> 0..2]
    BY <1>2
  <2>6. <<>> \in Seq(Nat)
    OBVIOUS
  <2>7. failures \in [Addresses -> Seq(Nat)]
    BY <1>2, <2>6
  <2>8. held \subseteq 1..Len(event) /\ amid \subseteq 1..Len(event)
        /\ batch \subseteq 1..Len(event)
        /\ watching \in BOOLEAN /\ polled \in BOOLEAN
        /\ replaced \in {"no", "since", "amid"}
    BY <1>2
  <2>9. blind \in 0..MaxBlind /\ lastRead \in 0..now
    BY <1>2, DetectionAssumption DEF DetectionAssumption
  <2> QED
    BY <2>9, <2>3, <2>4, <2>5, <2>7, <2>8 DEF DetectionTypeOK
<1>7. FeedKept /\ BatchReturned
  BY <1>2, <1>4 DEF FeedKept, BatchReturned
<1>8. \A ip \in Addresses : Len(failures[ip]) = 0 /\ Len(since[ip]) = 0
                            /\ \A i : i \notin 1..0
  BY <1>2 DEF DetectionInit, Init
<1>9. FailuresReturned
  BY <1>8 DEF FailuresReturned
<1>10. CountedInTime
  BY <1>8 DEF CountedInTime
<1>11. ChecksInTime
  BY <1>2, <1>3 DEF ChecksInTime
<1>12. AttacksClosed /\ CountsAreFailures /\ SpanBounded
  BY <1>5 DEF AttacksClosed, CountsAreFailures, SpanBounded
<1> QED
  BY <1>1, <1>6, <1>7, <1>9, <1>10, <1>11, <1>12 DEF DetectionIInv

(* Every step keeps the invariant. *)
LEMMA DetectionNextKeeps == DetectionIInv /\ [DetectionNext]_detectionVars => DetectionIInv'
<1> SUFFICES ASSUME DetectionIInv, [DetectionNext]_detectionVars PROVE DetectionIInv'
  OBVIOUS
<1>1. IInv'
  BY DetectionSteps, NextKeepsIInv DEF DetectionIInv
<1>2. CASE Quiet /\ Settled'
  BY <1>1, <1>2, QuietKeeps DEF DetectionIInv, Settled
<1>3. CASE ReadLine
  <2>1. PICK n \in batch, ip \in Addresses :
          ReadsLogin(n, ip) \/ CountsFailure(n, ip) \/ ReportsAttack(n, ip)
    BY <1>3, ReadLineCases DEF DetectionIInv
  <2>2. CASE ReadsLogin(n, ip)
    BY <1>2, <2>2, ReadsLoginStep
  <2>3. CASE CountsFailure(n, ip)
    BY <1>1, <2>3, CountsFailureStep DEF DetectionIInv, Settled
  <2>4. CASE ReportsAttack(n, ip)
    BY <1>1, <2>4, ReportsAttackStep DEF DetectionIInv, Settled
  <2> QED
    BY <2>1, <2>2, <2>3, <2>4
<1>4. CASE UNCHANGED detectionVars
  <2>1. /\ UNCHANGED <<clock, checking, now, failedByIp, since>>
        /\ UNCHANGED <<event, held, amid, got, lost, replaced, watching, polled,
                       batch, blind, lastRead, failures, raised, handed>>
    BY <1>4 DEF detectionVars, vars, logVars, monitorVars, historyVars
  <2>2. Quiet
    BY <2>1, Numbers DEF Quiet, Attacks
  <2>3. DetectionTypeOK' /\ FeedKept' /\ BatchReturned'
    BY <2>1 DEF DetectionIInv, DetectionTypeOK, FeedKept, BatchReturned
  <2>4. ChecksInTime'
    <3>1. ChecksInTime
      BY DEF DetectionIInv
    <3>2. Wait' = Wait
      BY <2>1 DEF Wait
    <3> QED
      BY <2>1, <3>1, <3>2 DEF ChecksInTime, Near, Unread
  <2> QED
    BY <1>2, <2>2, <2>3, <2>4 DEF Settled
<1>5. CASE Pass
  BY <1>2, <1>5, PassStep
<1>6. CASE Write
  BY <1>2, <1>6, WriteStep
<1>7. CASE Rotate
  BY <1>2, <1>7, RotateStep
<1>8. CASE StartCheck
  BY <1>2, <1>8, StartCheckStep
<1>9. CASE FirstPoll
  BY <1>2, <1>9, FirstPollStep
<1>10. CASE Poll
  BY <1>2, <1>10, PollStep
<1>11. CASE HandAlerts
  BY <1>2, <1>11, HandAlertsStep
<1>12. CASE PollFails
  BY <1>2, <1>12, PollFailsStep
<1> QED
  BY <1>3, <1>4, <1>5, <1>6, <1>7, <1>8, <1>9, <1>10, <1>11, <1>12
  DEF DetectionNext, Check

(* The invariant of the monitor on a real log, for every log, gap and      *)
(* threshold: which lines were returned, counted and reported, how often,  *)
(* and when they were written.                                             *)
THEOREM DetectionInvariant == DetectionSpec => []DetectionIInv
BY DetectionInitIInv, DetectionNextKeeps, PTL DEF DetectionSpec

(* What a brute-force alert counts is failures of its address, of no other *)
(* alert, and none more than twice: twice only if its line came in the     *)
(* middle of a poll.                                                       *)
THEOREM CountsReal == DetectionSpec => []CountsAreFailures
<1>1. DetectionIInv => CountsAreFailures
  BY DEF DetectionIInv
<1> QED
  BY <1>1, DetectionInvariant, PTL

(* The failures of one brute-force alert lie within five minutes, twice    *)
(* the longest time from one check to the next, and that time again for    *)
(* every poll that may fail before one that does not.                      *)
THEOREM SpansBounded == DetectionSpec => []SpanBounded
<1>1. DetectionIInv => SpanBounded
  BY DEF DetectionIInv
<1> QED
  BY <1>1, DetectionInvariant, PTL

(* On a real log the monitor does what SshLogMonitor allows: what was      *)
(* proved of it holds for the lines a tailer returns.                      *)
THEOREM DetectionIsMonitor == DetectionSpec => Spec
<1>1. DetectionInit => Init
  BY DEF DetectionInit
<1>2. DetectionIInv /\ [DetectionNext]_detectionVars => [Next]_vars
  BY DetectionSteps DEF DetectionIInv
<1> QED
  BY <1>1, <1>2, DetectionInvariant, PTL DEF DetectionSpec, Spec

(* Its log and its tailer's polls are those of a line feed. *)
THEOREM DetectionReadsFeed == DetectionSpec => Feed!FeedSpec
<1>1. DetectionInit => Feed!FeedInit
  BY DEF DetectionInit
<1>2. DetectionIInv /\ [DetectionNext]_detectionVars => [Feed!FeedNext]_(Feed!feedVars)
  <2> SUFFICES ASSUME DetectionIInv, [DetectionNext]_detectionVars
               PROVE  [Feed!FeedNext]_(Feed!feedVars)
    OBVIOUS
  <2>1. CASE UNCHANGED <<event, held, amid, got>>
    BY <2>1 DEF Feed!feedVars
  <2>2. CASE Write
    <3>1. CASE checking /\ watching
      <4>1. Feed!Arrive(TRUE)
        BY <2>2, <3>1 DEF Write, Feed!Arrive
      <4> QED
        BY <4>1 DEF Feed!FeedNext
    <3>2. CASE ~(checking /\ watching)
      <4>1. Feed!Arrive(FALSE)
        BY <2>2, <3>2 DEF Write, Feed!Arrive
      <4> QED
        BY <4>1 DEF Feed!FeedNext
    <3> QED
      BY <3>1, <3>2
  <2>3. CASE Rotate \/ FirstPoll
    <3>1. Feed!Drop(held)
      BY <2>3 DEF Rotate, FirstPoll, PollSucceeds
    <3> QED
      BY <3>1 DEF Feed!FeedNext
  <2>4. CASE Poll
    <3>1. \E lines \in SUBSET held : Feed!Poll(lines)
      BY <2>4, PollReturns
    <3> QED
      BY <3>1 DEF Feed!FeedNext
  <2>5. CASE Pass \/ StartCheck \/ PollFails \/ ReadLine \/ HandAlerts
             \/ UNCHANGED detectionVars
    <3>1. UNCHANGED <<event, held, amid, got>>
      BY <2>5 DEF Pass, StartCheck, PollFails, ReadLine, HandAlerts, detectionVars,
                  logVars
    <3> QED
      BY <2>1, <3>1
  <2> QED
    BY <2>2, <2>3, <2>4, <2>5 DEF DetectionNext, Check
<1> QED
  BY <1>1, <1>2, DetectionInvariant, PTL DEF DetectionSpec, Feed!FeedSpec

(* A login that is kept stays kept. *)
LEMMA LoginStaysKept ==
  ASSUME DetectionIInv, [DetectionNext]_detectionVars,
         NEW n \in 1..Len(event), event[n].kind = "accepted", Kept(n)
  PROVE  Kept(n)'
<1>1. CASE Pass \/ StartCheck \/ PollFails \/ UNCHANGED detectionVars
  <2>1. UNCHANGED <<lost, held, got, batch, raised, handed>>
    BY <1>1 DEF Pass, StartCheck, PollFails, detectionVars, logVars, monitorVars, historyVars
  <2> QED
    BY <2>1 DEF Kept, Unread
<1>2. CASE Write
  <2>1. held \subseteq held' /\ UNCHANGED <<lost, got, batch, raised, handed>>
    BY <1>2 DEF Write, Feed!Arrive, monitorVars, historyVars
  <2> QED
    BY <2>1 DEF Kept, Unread
<1>3. CASE Rotate \/ FirstPoll
  <2>1. /\ lost' = lost \cup {m \in held : Unread(m)}
        /\ UNCHANGED <<batch, raised, handed>>
    BY <1>3 DEF Rotate, FirstPoll, PollSucceeds, monitorVars
  <2> QED
    BY <2>1 DEF Kept, Unread
<1>4. CASE Poll
  <2>1. batch = {} /\ lost \subseteq lost' /\ UNCHANGED <<raised, handed>>
    BY <1>4 DEF Poll, PollSucceeds, DetectionIInv, BatchReturned
  <2>2. CASE Unread(n)
    <3>1. PICK lines \in SUBSET held :
            /\ Feed!Poll(lines) /\ batch' = lines
            /\ \A m \in held : Unread(m) /\ m \notin lines
                 => m \in lost' \/ replaced = "amid"
      BY <1>4, PollReturns
    <3>2. n \notin batch' => n \in held' /\ got'[n] = 0
      <4>1. n \in held /\ got[n] = 0 /\ n \in 1..Len(Story)
        BY <2>2, Numbers DEF Unread
      <4> QED
        BY <3>1, <4>1 DEF Feed!Poll, Feed!Lines
    <3> QED
      BY <3>2 DEF Kept, Unread
  <2> QED
    BY <2>1, <2>2 DEF Kept
<1>5. CASE HandAlerts
  <2>1. handed' = handed \cup raised /\ UNCHANGED <<lost, held, got, batch>>
    BY <1>5 DEF HandAlerts, logVars
  <2> QED
    BY <2>1 DEF Kept, Unread
<1>6. CASE ReadLine
  <2>1. PICK m \in batch, ip \in Addresses :
          ReadsLogin(m, ip) \/ CountsFailure(m, ip) \/ ReportsAttack(m, ip)
    BY <1>6, ReadLineCases DEF DetectionIInv
  <2>2. /\ batch' = batch \ {m} /\ raised \subseteq raised'
        /\ UNCHANGED <<lost, held, got, handed>>
    BY <2>1 DEF ReadsLogin, CountsFailure, ReportsAttack, ReadsFailure, Reads, logVars
  <2>3. CASE n # m
    BY <2>2, <2>3 DEF Kept, Unread
  <2>4. CASE n = m
    <3>1. ReadsLogin(m, ip)
      BY <2>1, <2>4 DEF CountsFailure, ReportsAttack, ReadsFailure
    <3> DEFINE login == [type |-> "ssh_login", ip |-> ip, lines |-> <<m>>]
    <3>2. login \in raised'
      BY <3>1 DEF ReadsLogin
    <3>3. login.type = "ssh_login" /\ n \in ToSet(login.lines)
      BY <2>4 DEF ToSet
    <3> HIDE DEF login
    <3> QED
      BY <3>2, <3>3 DEF Kept
  <2> QED
    BY <2>3, <2>4
<1> QED
  BY <1>1, <1>2, <1>3, <1>4, <1>5, <1>6 DEF DetectionNext, Check

(* No login is forgotten on its way to the AlertManager, for every log,    *)
(* however it is rotated and the polls fail: it was there before the first *)
(* poll, or went with its file, or is behind the offset in a file that was *)
(* not seen to be new; or it is to be returned, to be read, or was told.   *)
THEOREM LoginsAreKept == DetectionSpec => []LoginsKept
<1>1. DetectionInit => LoginsKept
  <2> SUFFICES ASSUME DetectionInit PROVE LoginsKept
    OBVIOUS
  <2>1. Len(event) = 0
    BY DEF DetectionInit
  <2>2. \A n : n \notin 1..Len(event)
    BY <2>1
  <2> QED
    BY <2>2 DEF LoginsKept
<1>2. DetectionIInv /\ LoginsKept /\ [DetectionNext]_detectionVars => LoginsKept'
  <2> SUFFICES ASSUME DetectionIInv, LoginsKept, [DetectionNext]_detectionVars,
                      NEW n \in 1..Len(event'), event'[n].kind = "accepted"
               PROVE  Kept(n)'
    BY DEF LoginsKept, Kept
  <2>1. CASE ~Write
    <3>1. event' = event
      BY <2>1 DEF DetectionNext, Check, Pass, Rotate, StartCheck, PollFails, FirstPoll,
                  Poll, PollSucceeds, ReadLine, HandAlerts, detectionVars, logVars
    <3>2. Kept(n)
      BY <3>1 DEF LoginsKept, Kept
    <3> QED
      BY <3>1, <3>2, LoginStaysKept
  <2>2. CASE Write
    <3>1. Quiet /\ Len(event') = Len(event) + 1 /\ Len(event) \in Nat
      BY <2>2, WriteStep, Numbers DEF Write
    <3>2. CASE n \in 1..Len(event)
      <4>1. event[n].kind = "accepted"
        BY <3>1, <3>2 DEF Quiet
      <4>2. Kept(n)
        BY <3>2, <4>1 DEF LoginsKept, Kept
      <4> QED
        BY <3>2, <4>1, <4>2, LoginStaysKept
    <3>3. CASE n = Len(event) + 1
      <4>1. n \in held' /\ got' = got
        BY <2>2, <3>3 DEF Write, Feed!Arrive
      <4>2. n \in 1..Len(Story)
        BY <2>2, <3>1, <3>3, Numbers DEF Write
      <4>3. got[n] \in 0..2 /\ (got[n] > 0 => n <= Len(event))
        BY <4>2 DEF DetectionIInv, DetectionTypeOK, FeedKept
      <4>4. got[n] = 0
        BY <3>1, <3>3, <4>3
      <4> QED
        BY <4>1, <4>4 DEF Kept, Unread
    <3> QED
      BY <3>1, <3>2, <3>3
  <2> QED
    BY <2>1, <2>2
<1> QED
  BY <1>1, <1>2, DetectionInvariant, PTL DEF DetectionSpec
============================================================================
