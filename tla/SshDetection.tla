---------------------------- MODULE SshDetection ----------------------------
(***************************************************************************)
(* The SSH monitor on a real log: SshLogMonitor counts what its tailer     *)
(* returns (LineFeed), while sshd goes on writing and the file is rotated. *)
(* Checks come as late as the other monitors on the thread make them, and  *)
(* their polls may fail.  The lines know when they were written, the code  *)
(* does not look: every line of a check counts as of the moment the check  *)
(* began.  The agent keeps nothing over a restart, so a behaviour is one   *)
(* life of it: it may begin when there are lines in the log already.       *)
(***************************************************************************)
EXTENDS SshLogMonitor, FiniteSets, SequencesExt

CONSTANTS
  Story,          \* the lines sshd writes, one after the other
  MaxGap,         \* the longest time from the beginning of one check to
                  \* its end, and to the beginning of the next
  MaxAmid,        \* bound on the lines written in the middle of a poll
  MaxRotations,   \* bound on the rotations of the log
  MaxBlind        \* bound on the polls that fail one after the other

ASSUME DetectionAssumption ==
  /\ Story \in Seq([kind : {"accepted", "failed"}, ip : Addresses])
  /\ MaxGap \in Nat \ {0}
  /\ MaxRotations \in Nat
  /\ MaxAmid \in Nat
  /\ MaxBlind \in Nat

VARIABLES
  (* the log *)
  event,        \* the lines sshd wrote, with the time of each
  held, amid, got,  \* the feed: see LineFeed
  rotations,    \* rotations so far
  replaced,     \* whether the file in the log is another one than the one
                \* the last poll measured: "no", or "since" that poll, or
                \* "amid" the one of this check, between its stat and open
  (* the monitor *)
  watching,     \* its tailer's initialized_
  polled,       \* check() is past readNewLines
  batch,        \* the lines still to come of those it returned
  blind,        \* the polls that failed since the last one that did not
  (* history *)
  lastRead,     \* when the check began whose poll was that last one
  failures,     \* per address, the lines that were counted
  raised,       \* this check's alerts, each with the lines it stands for
  handed,       \* the alerts given to the AlertManager
  lost          \* lines that were never returned

logVars == <<event, held, amid, got, rotations, replaced>>
monitorVars == <<watching, polled, batch, blind>>
historyVars == <<lastRead, failures, raised, handed, lost>>
detectionVars == <<vars, logVars, monitorVars, historyVars>>

(* sshd writes no lines of 64 KiB: the feed is prompt, in either agent.    *)
Feed ==
  INSTANCE LineFeed WITH
    MaxLines <- Len(Story), prompt <- TRUE, last <- Len(event)

DetectionInit ==
  /\ Init
  /\ event = <<>>
  /\ Feed!FeedInit
  /\ rotations = 0
  /\ replaced = "no"
  /\ watching = FALSE
  /\ polled = FALSE
  /\ batch = {}
  /\ blind = 0
  /\ lastRead = 0
  /\ failures = [ip \in Addresses |-> <<>>]
  /\ raised = {}
  /\ handed = {}
  /\ lost = {}

----------------------------------------------------------------------------
(* The world: time, sshd, and logrotate.  What they do while the lines     *)
(* returned are gone through makes no difference until the next check      *)
(* begins, and is left for then.                                           *)

Pass ==
  /\ ~polled
  /\ watching \/ checking => clock - now < MaxGap
  /\ Tick
  /\ UNCHANGED <<logVars, monitorVars, historyVars>>

Write ==
  /\ ~polled
  /\ Len(event) < Len(Story)
  /\ LET line == Story[Len(event) + 1]
     IN  event' = Append(event, [kind |-> line.kind, ip |-> line.ip, at |-> clock])
  /\ checking /\ watching => Cardinality(amid) < MaxAmid
  /\ Feed!Arrive(checking /\ watching)
  /\ UNCHANGED <<vars, rotations, replaced, monitorVars, historyVars>>

Unread(n) == n \in held /\ got[n] = 0 /\ n \notin lost

(* The file goes away, and its lines with it; the lines that follow are in *)
(* another file.                                                           *)
Rotate ==
  /\ ~polled
  /\ rotations < MaxRotations
  /\ rotations' = rotations + 1
  /\ \/ ~watching /\ UNCHANGED replaced
     \/ watching /\ replaced # "amid" /\ replaced' = "since"
     \/ watching /\ checking /\ replaced' = "amid"
  /\ UNCHANGED event
  /\ Feed!Drop(held)
  /\ lost' = lost \cup {n \in held : Unread(n)}
  /\ UNCHANGED <<vars, monitorVars, lastRead, failures, raised, handed>>

----------------------------------------------------------------------------
(* One check. *)

StartCheck ==
  /\ BeginCheck
  /\ UNCHANGED <<logVars, monitorVars, historyVars>>

(* There is no file, or its stat or its open fails: nothing is returned    *)
(* and nothing skipped, and a first poll is still to come.                 *)
PollFails ==
  /\ checking /\ ~polled
  /\ blind < MaxBlind
  /\ blind' = blind + 1
  /\ polled' = TRUE
  /\ replaced' = IF replaced = "amid" THEN "since" ELSE replaced
  /\ UNCHANGED <<vars, event, held, amid, got, rotations, watching, batch,
                 historyVars>>

(* Past the stat and the open. *)
PollSucceeds ==
  /\ checking /\ ~polled
  /\ polled' = TRUE
  /\ blind' = 0
  /\ lastRead' = now
  /\ UNCHANGED <<vars, event, rotations, failures, raised, handed>>

(* The first poll of a life skips what is there. *)
FirstPoll ==
  /\ ~watching
  /\ PollSucceeds
  /\ watching' = TRUE
  /\ Feed!Drop(held)
  /\ lost' = lost \cup {n \in held : Unread(n)}
  /\ replaced' = "no"
  /\ UNCHANGED batch

(* The lines a poll may repeat were written in the middle of the last one. *)
Repeatable == {n \in held : got[n] = 1 /\ event[n].at >= lastRead}

(* The lines before the offset.  In the file it was left in, they were     *)
(* returned.  In another one they are any that come first, or none when    *)
(* that file is shorter than the size last measured: it is read from its   *)
(* beginning.                                                              *)
MayBeBehind ==
  {{}} \cup {{m \in held : Unread(m) /\ m <= n} : n \in IF replaced = "no" THEN {} ELSE held}

(* Variant: only the newest of the lines is handed to the loop. *)
PollNewest ==
  /\ watching
  /\ PollSucceeds
  /\ LET lines == {n \in held : Unread(n)}
     IN  /\ Feed!Poll(lines)
         /\ batch' = IF lines = {} THEN {} ELSE {Max(lines)}
  /\ replaced' = "no"
  /\ UNCHANGED <<watching, lost>>

(* A later one returns everything new, and what it must repeat, but for    *)
(* what lies before the offset.  If the file came after the size was       *)
(* measured, the next poll may find that; if before, it is not noticed,    *)
(* and nothing ever goes back.                                             *)
Poll ==
  /\ watching
  /\ PollSucceeds
  /\ \E behind \in MayBeBehind, repeats \in SUBSET Repeatable :
       /\ LET lines == repeats \cup ({n \in held : Unread(n)} \ behind)
          IN  Feed!Poll(lines) /\ batch' = lines
       /\ lost' = IF replaced = "since" THEN lost \cup behind ELSE lost
  /\ replaced' = IF replaced = "amid" THEN "since" ELSE "no"
  /\ UNCHANGED watching

(* The next of the lines it returned, in the order of the log. *)
ReadLine ==
  LET n     == Min(batch)
      ip    == event[n].ip
      lines == Append(failures[ip], n)
      count == Counted(failedByIp[ip]).count
      alert(type, basis) == [type |-> type, ip |-> ip, lines |-> basis]
  IN
  /\ batch # {}
  /\ batch' = batch \ {n}
  /\ \/ /\ event[n].kind = "accepted"
        /\ ReadLogin(ip)
        /\ raised' = raised \cup {alert("ssh_login", <<n>>)}
        /\ UNCHANGED failures
     \/ /\ event[n].kind = "failed"
        /\ CountFailure(ip)
        /\ failures' = [failures EXCEPT ![ip] = lines]
        /\ UNCHANGED raised
     \/ /\ event[n].kind = "failed"
        /\ ReportAttack(ip)
        /\ failures' = [failures EXCEPT ![ip] = lines]
        /\ raised' = raised \cup
             {alert("ssh_bruteforce", SubSeq(lines, Len(lines) - count + 1, Len(lines)))}
  /\ UNCHANGED <<logVars, watching, polled, blind, lastRead, handed, lost>>

(* The check returns, and the AlertManager has its alerts. *)
HandAlerts ==
  /\ polled /\ batch = {}
  /\ EndCheck
  /\ polled' = FALSE
  /\ handed' = handed \cup raised
  /\ raised' = {}
  /\ UNCHANGED <<logVars, watching, batch, blind, lastRead, failures, lost>>

Check ==
  StartCheck \/ PollFails \/ FirstPoll \/ Poll \/ ReadLine \/ HandAlerts

DetectionNext ==
  \/ Pass
  \/ Write
  \/ Rotate
  \/ Check

(* The loop of the application calls check() again and again. *)
DetectionSpec == DetectionInit /\ [][DetectionNext]_detectionVars /\ WF_detectionVars(Check)

----------------------------------------------------------------------------
Attacks == {alert \in raised \cup handed : alert.type = "ssh_bruteforce"}

(* The number in a brute-force alert may count a failure twice, if its     *)
(* line came in the middle of a poll, but not more: an alert of n stands   *)
(* for n failures of its address, or at least half as many.  Nor do two    *)
(* alerts share any other line.                                            *)
CountsAreFailures ==
  \A alert \in Attacks :
    LET lines == ToSet(alert.lines) IN
    /\ \A n \in lines : event[n].kind = "failed" /\ event[n].ip = alert.ip
    /\ lines \cap amid = {} => Cardinality(lines) = Len(alert.lines)
    /\ Len(alert.lines) <= 2 * Cardinality(lines)
    /\ \A other \in Attacks \ {alert} : lines \cap ToSet(other.lines) \subseteq amid

(* "Window: 5 minutes" is the time between checks, not between failures:   *)
(* those of one alert lie at most five minutes apart, and twice the        *)
(* longest time from one check to the next, and once more that time for    *)
(* every poll that may fail before one that does not.                      *)
LongestWait == (MaxBlind + 1) * MaxGap

SpanBounded ==
  \A alert \in Attacks :
    \A i, j \in 1..Len(alert.lines) :
      event[alert.lines[j]].at - event[alert.lines[i]].at
        <= Minutes5 + MaxGap + LongestWait

(* Where a line can be: lost, or still to be returned, or still to be      *)
(* read, or told.  Lost are lines that were there before the first poll,   *)
(* that went with their file, and those before the offset in a file that   *)
(* replaced another unnoticed.                                             *)
Kept(n) ==
  \/ n \in lost
  \/ Unread(n)
  \/ n \in batch
  \/ \E alert \in raised \cup handed :
       alert.type = "ssh_login" /\ n \in ToSet(alert.lines)

(* No login is forgotten on its way to the AlertManager. *)
LoginsKept ==
  \A n \in 1..Len(event) : event[n].kind = "accepted" => Kept(n)

(* The lines of one kind. *)
LinesOf(kind) == {n \in 1..Len(Story) : Story[n].kind = kind}

(* Every login is reported, however often a poll fails in between, unless  *)
(* its line is there before the first poll, is rotated away before it is   *)
(* read, or is behind the offset in a file that was not seen to be new.    *)
LoginsReported ==
  \A n \in LinesOf("accepted") :
    n \in held
      ~> \/ n \in lost
         \/ \E alert \in handed : alert.type = "ssh_login" /\ n \in ToSet(alert.lines)

(* The failures of n's address, and those after line m that did not come   *)
(* in the middle of a poll: a rotation there may spread them over two.     *)
FailuresUpTo(n) == {k \in LinesOf("failed") : k <= n /\ Story[k].ip = Story[n].ip}
FailuresBetween(m, n) == {k \in FailuresUpTo(n) \ amid : m < k}

(* A backlog of the threshold's number of failures is never missed,        *)
(* however the windows lie and however often the polls fail before one     *)
(* returns it: less than that many failures before its last line, an alert *)
(* about its address was raised or one of its lines was lost (see Kept).   *)
Backlog(n) ==
  /\ Unread(n) /\ n \notin amid
  /\ Cardinality({k \in FailuresBetween(0, n) : Unread(k)}) >= Threshold

BacklogsReported ==
  \A n \in {k \in LinesOf("failed") : Cardinality(FailuresUpTo(k)) >= Threshold} :
    Backlog(n)
      ~> \/ \E alert \in handed :
              /\ alert.type = "ssh_bruteforce" /\ alert.ip = Story[n].ip
              /\ Last(alert.lines) <= n
              /\ Cardinality(FailuresBetween(Last(alert.lines), n)) < Threshold
         \/ \E k \in lost \cap FailuresBetween(0, n) :
              Cardinality(FailuresBetween(k, n)) < Threshold
----------------------------------------------------------------------------
(* The inductive invariant of CountsAreFailures and SpanBounded.           *)
DetectionTypeOK ==
  /\ event \in Seq([kind : {"accepted", "failed"}, ip : Addresses, at : Nat])
  /\ Len(event) <= Len(Story)
  /\ held \subseteq 1..Len(event) /\ amid \subseteq 1..Len(event)
  /\ batch \subseteq 1..Len(event)
  /\ got \in [1..Len(Story) -> 0..2]
  /\ watching \in BOOLEAN /\ polled \in BOOLEAN
  /\ replaced \in {"no", "since", "amid"}
  /\ blind \in 0..MaxBlind
  /\ lastRead \in 0..now
  /\ failures \in [Addresses -> Seq(Nat)]

(* A line is returned twice only if it came in the middle of a poll. *)
FeedKept ==
  /\ \A n \in 1..Len(Story) : got[n] > 0 => n <= Len(event)
  /\ \A n \in 1..Len(Story) : got[n] = 2 => n \in amid
  /\ \A n \in held : got[n] = 0 \/ (got[n] = 1 /\ n \in amid)

BatchReturned ==
  /\ polled => checking
  /\ ~polled => batch = {}
  /\ \A n \in batch : got[n] > 0

(* The line at i was returned once for each time it was counted. *)
CountedAsReturned(ip, i) ==
  LET counted == failures[ip]
      n       == counted[i]
  IN  /\ n \in 1..Len(event)
      /\ event[n].kind = "failed" /\ event[n].ip = ip
      /\ got[n] > 0
      /\ n \in batch => got[n] = 2
      /\ \A j \in 1..Len(counted) :
           j # i /\ counted[j] = n =>
             /\ got[n] = 2 /\ n \notin batch
             /\ \A k \in 1..Len(counted) : counted[k] = n => k \in {i, j}

FailuresReturned ==
  \A ip \in Addresses :
    /\ Len(since[ip]) <= Len(failures[ip])
    /\ \A i \in 1..Len(failures[ip]) : CountedAsReturned(ip, i)

(* The failures in the window that is open are those of no alert yet.      *)
AttacksClosed ==
  \A alert \in Attacks :
    /\ alert.ip \in Addresses
    /\ alert.lines \in Seq(Nat)
    /\ \A n \in ToSet(alert.lines) :
         n \in 1..Len(event) /\ got[n] > 0 /\ (n \in batch => got[n] = 2)
    /\ LET counted == failures[alert.ip]
       IN  \A i \in 1..Len(counted) :
             /\ i > Len(counted) - failedByIp[alert.ip].count
             /\ counted[i] \in ToSet(alert.lines)
             => counted[i] \in amid

(* When the lines were written: those to come not before the check that    *)
(* last read the log, which was one gap ago for every poll that failed     *)
(* since, and one more; and so those of the failures counted since the     *)
(* last alert about their address.                                         *)
Near(n, time) ==
  /\ event[n].at <= time + MaxGap
  /\ event[n].at >= time - LongestWait

Wait == (IF checking /\ ~polled THEN blind + 1 ELSE blind) * MaxGap

ChecksInTime ==
  /\ \A n \in 1..Len(event) : event[n].at <= clock
  /\ watching \/ checking => clock - now <= MaxGap
  /\ watching =>
       /\ now - lastRead <= Wait
       /\ \A n \in held : Unread(n) => event[n].at >= lastRead
       /\ replaced = "amid" =>
            /\ checking /\ ~polled
            /\ \A n \in held : Unread(n) => event[n].at >= now
  /\ \A n \in batch : Near(n, now)

CountedInTime ==
  \A ip \in Addresses : \A i \in 1..Len(since[ip]) :
    Near(failures[ip][Len(failures[ip]) - Len(since[ip]) + i], since[ip][i])

DetectionIInv ==
  /\ IInv
  /\ DetectionTypeOK
  /\ FeedKept
  /\ BatchReturned
  /\ FailuresReturned
  /\ AttacksClosed
  /\ ChecksInTime
  /\ CountedInTime
  /\ CountsAreFailures
  /\ SpanBounded
=============================================================================
