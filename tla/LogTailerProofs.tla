--------------------------- MODULE LogTailerProofs ---------------------------
(***************************************************************************)
(* The tailers of both agents for every number of lines, files, long lines *)
(* and failed opens: nothing that was in the log before the first poll is  *)
(* returned, and no unit behind the offset is skipped, however the log is  *)
(* written to and rotated between the steps of a poll.                     *)
(***************************************************************************)
EXTENDS LogTailer, SequenceFacts, TLAPS

(* Where a read of the Go agent stops: not after the end of the file, and  *)
(* not before its offset unless the file ends there.                       *)
LEMMA GoStops ==
  ASSUME TailerTypeOK
  PROVE  /\ GoStopsAt \in Nat
         /\ GoStopsAt <= Len(log)
         /\ offset <= Len(log) => offset <= GoStopsAt
<1> DEFINE beyond == {i \in offset + 1..Len(log) : TooLong(i)}
<1>1. offset \in Nat /\ Len(log) \in Nat
  BY DEF TailerTypeOK
<1>2. CASE beyond = {}
  BY <1>1, <1>2 DEF GoStopsAt
<1>3. CASE beyond # {}
  <2>1. beyond \in SUBSET Nat
    BY <1>1
  <2>2. Min(beyond) \in beyond
    BY <1>3, <2>1, MinMember
  <2>3. GoStopsAt = Min(beyond)
    BY <1>3 DEF GoStopsAt
  <2> QED
    BY <1>1, <2>2, <2>3
<1> QED
  BY <1>2, <1>3

(* What is appended: the new units follow those that were there. *)
LEMMA Appended ==
  ASSUME TailerTypeOK, NEW n \in Lines, NEW units \in Seq(Units),
         AppendUnits(n, units)
  PROVE  /\ log' \in Seq(Units)
         /\ Len(log') = Len(log) + Len(units)
         /\ Len(log) \in Nat /\ Len(units) \in Nat
         /\ \A i \in 1..Len(log) : log'[i] = log[i]
         /\ \A i \in 1..Len(log') :
              i \in 1..Len(log)
              \/ (i - Len(log) \in 1..Len(units) /\ log'[i] = units[i - Len(log)])
         /\ exists /\ exists' = exists /\ file' = file
         /\ UNCHANGED <<tailerVars, pollHistory>>
<1>1. log \in Seq(Units) /\ log' = log \o units
  BY DEF TailerTypeOK, AppendUnits
<1>2. /\ log \o units \in Seq(Units)
      /\ Len(log \o units) = Len(log) + Len(units)
      /\ Len(log) \in Nat /\ Len(units) \in Nat
      /\ \A i \in 1..Len(log) : (log \o units)[i] = log[i]
      /\ \A i \in 1..Len(units) : (log \o units)[i + Len(log)] = units[i]
  BY <1>1
<1>3. \A i \in 1..Len(log') :
        i \in 1..Len(log)
        \/ (i - Len(log) \in 1..Len(units) /\ log'[i] = units[i - Len(log)])
  <2> SUFFICES ASSUME NEW i \in 1..Len(log'), i \notin 1..Len(log)
               PROVE  i - Len(log) \in 1..Len(units)
                      /\ log'[i] = units[i - Len(log)]
    OBVIOUS
  <2>1. i - Len(log) \in 1..Len(units) /\ (i - Len(log)) + Len(log) = i
    BY <1>1, <1>2
  <2> QED
    BY <1>1, <1>2, <2>1
<1>4. exists /\ exists' = exists /\ file' = file /\ UNCHANGED <<tailerVars, pollHistory>>
  BY DEF AppendUnits
<1> QED
  BY <1>1, <1>2, <1>3, <1>4

(* A line's units. *)
LEMMA LineUnits ==
  ASSUME NEW n \in Lines
  PROVE  /\ << <<n, "head">> >> \in Seq(Units)
         /\ << <<n, "end">> >> \in Seq(Units)
         /\ << <<n, "head">>, <<n, "end">> >> \in Seq(Units)
  BY DEF Units

(* What each writer that appends does: the log holds what it held, and     *)
(* what follows is not of those lines that were there at the first poll.   *)
Grows ==
  /\ exists /\ exists' = exists /\ file' = file
  /\ log' \in Seq(Units)
  /\ Len(log') >= Len(log)
  /\ \A i \in 1..Len(log) : log'[i] = log[i]
  /\ \A i \in 1..Len(log') : i \in 1..Len(log) \/ log'[i] \notin skipped
  /\ written' \in 0..MaxLines
  /\ NumberedUp'
  /\ UNCHANGED <<tailerVars, pollHistory>>

LEMMA WriteLineGrows ==
  ASSUME TailerIInv, WriteLine
  PROVE  Grows
<1> DEFINE n == written + 1
           units == << <<n, "head">>, <<n, "end">> >>
<1>1. TailerTypeOK /\ NumberedUp /\ MaxLines \in Nat
  BY TailerAssumption DEF TailerIInv
<1>2. written \in 0..MaxLines /\ n \in Lines /\ written' = n /\ AppendUnits(n, units)
  BY <1>1 DEF WriteLine, TailerTypeOK, Lines
<1>3. units \in Seq(Units) /\ Len(units) = 2
  BY <1>2, LineUnits
<1> HIDE DEF units
<1>4. /\ log' \in Seq(Units)
      /\ Len(log') = Len(log) + 2
      /\ Len(log) \in Nat
      /\ \A i \in 1..Len(log) : log'[i] = log[i]
      /\ \A i \in 1..Len(log') :
           i \in 1..Len(log)
           \/ (i - Len(log) \in 1..2 /\ log'[i] = units[i - Len(log)])
      /\ exists /\ exists' = exists /\ file' = file
      /\ UNCHANGED <<tailerVars, pollHistory>>
  BY <1>1, <1>2, <1>3, Appended
<1>5. \A k \in 1..2 : units[k] = <<n, "head">> \/ units[k] = <<n, "end">>
  BY DEF units
<1>6. \A u \in skipped : u[1] <= written /\ u[1] # n
  BY <1>1, <1>2 DEF NumberedUp, TailerTypeOK, Units, Lines
<1>7. \A i \in 1..Len(log') : i \in 1..Len(log) \/ log'[i] \notin skipped
  BY <1>4, <1>5, <1>6
<1>8. ~MidLine'
  <2>1. log'[Len(log')] = units[2]
    BY <1>4
  <2> QED
    BY <2>1 DEF MidLine, Last, units
<1>9. NumberedUp'
  <2>1. \A i \in 1..Len(log') : log'[i][1] <= n
    <3> SUFFICES ASSUME NEW i \in 1..Len(log') PROVE log'[i][1] <= n
      OBVIOUS
    <3>1. CASE i \in 1..Len(log)
      <4>1. log'[i] = log[i] /\ log[i] \in Units /\ log[i][1] <= written
        BY <1>1, <1>4, <3>1 DEF NumberedUp, TailerTypeOK
      <4>2. log[i][1] \in Lines
        BY <4>1 DEF Units
      <4> QED
        BY <1>2, <4>1, <4>2 DEF Lines
    <3>2. CASE i \notin 1..Len(log)
      <4>1. log'[i][1] = n
        BY <1>4, <1>5, <3>2
      <4> QED
        BY <1>2, <4>1
    <3> QED
      BY <3>1, <3>2
  <2>2. \A u \in skipped : u[1] <= n
    BY <1>1, <1>2, <1>6 DEF TailerTypeOK, Units, Lines
  <2>3. skipped' = skipped
    BY <1>4 DEF pollHistory
  <2> QED
    BY <1>2, <1>8, <2>1, <2>2, <2>3 DEF NumberedUp
<1> QED
  BY <1>2, <1>4, <1>7, <1>9 DEF Grows, Lines

LEMMA StartLineGrows ==
  ASSUME TailerIInv, StartLine
  PROVE  Grows
<1> DEFINE n == written + 1
           units == << <<n, "head">> >>
<1>1. TailerTypeOK /\ NumberedUp /\ MaxLines \in Nat
  BY TailerAssumption DEF TailerIInv
<1>2. written \in 0..MaxLines /\ n \in Lines /\ written' = n /\ AppendUnits(n, units)
  BY <1>1 DEF StartLine, TailerTypeOK, Lines
<1>3. units \in Seq(Units) /\ Len(units) = 1 /\ units[1] = <<n, "head">>
  BY <1>2, LineUnits
<1> HIDE DEF units
<1>4. /\ log' \in Seq(Units)
      /\ Len(log') = Len(log) + 1
      /\ Len(log) \in Nat
      /\ \A i \in 1..Len(log) : log'[i] = log[i]
      /\ \A i \in 1..Len(log') :
           i \in 1..Len(log)
           \/ (i - Len(log) \in 1..1 /\ log'[i] = units[i - Len(log)])
      /\ exists /\ exists' = exists /\ file' = file
      /\ UNCHANGED <<tailerVars, pollHistory>>
  BY <1>1, <1>2, <1>3, Appended
<1>5. \A i \in 1..Len(log') : i \in 1..Len(log) \/ log'[i] = <<n, "head">>
  BY <1>3, <1>4
<1>6. \A u \in skipped : u[1] <= n /\ u[1] # n
  BY <1>1, <1>2 DEF NumberedUp, TailerTypeOK, Units, Lines
<1>7. \A i \in 1..Len(log') : i \in 1..Len(log) \/ log'[i] \notin skipped
  BY <1>5, <1>6
<1>8. \A i \in 1..Len(log') : log'[i][1] <= n /\ log'[i] # <<n, "end">>
  <2> SUFFICES ASSUME NEW i \in 1..Len(log')
               PROVE  log'[i][1] <= n /\ log'[i] # <<n, "end">>
    OBVIOUS
  <2>1. CASE i \in 1..Len(log)
    <3>1. log'[i] = log[i] /\ log[i] \in Units /\ log[i][1] <= written
      BY <1>1, <1>4, <2>1 DEF NumberedUp, TailerTypeOK
    <3>2. log[i][1] \in Lines
      BY <3>1 DEF Units
    <3> QED
      BY <1>2, <3>1, <3>2 DEF Lines
  <2>2. CASE i \notin 1..Len(log)
    <3>1. log'[i] = <<n, "head">>
      BY <1>5, <2>2
    <3> QED
      BY <1>2, <3>1
  <2> QED
    BY <2>1, <2>2
<1>9. Last(log)' = <<n, "head">>
  BY <1>4, <1>5 DEF Last
<1>10. skipped' = skipped
  BY <1>4 DEF pollHistory
<1>11. NumberedUp'
  BY <1>2, <1>6, <1>8, <1>9, <1>10 DEF NumberedUp
<1> QED
  BY <1>2, <1>4, <1>7, <1>11 DEF Grows, Lines

LEMMA FinishLineGrows ==
  ASSUME TailerIInv, FinishLine
  PROVE  Grows
<1> DEFINE n == written
           units == << <<n, "end">> >>
<1>1. TailerTypeOK /\ NumberedUp /\ MaxLines \in Nat
  BY TailerAssumption DEF TailerIInv
<1>2. MidLine /\ AppendUnits(n, units) /\ written' = n
  BY DEF FinishLine
<1>3. n \in Lines
  <2>1. Last(log) = <<n, "head">> /\ log # <<>>
    BY <1>1, <1>2 DEF NumberedUp, MidLine
  <2>2. Last(log) \in Units
    BY <1>1, <2>1 DEF TailerTypeOK, Last
  <2> QED
    BY <2>1, <2>2 DEF Units
<1>4. units \in Seq(Units) /\ Len(units) = 1 /\ units[1] = <<n, "end">>
  BY <1>3, LineUnits
<1> HIDE DEF units
<1>5. /\ log' \in Seq(Units)
      /\ Len(log') = Len(log) + 1
      /\ Len(log) \in Nat
      /\ \A i \in 1..Len(log) : log'[i] = log[i]
      /\ \A i \in 1..Len(log') :
           i \in 1..Len(log)
           \/ (i - Len(log) \in 1..1 /\ log'[i] = units[i - Len(log)])
      /\ exists /\ exists' = exists /\ file' = file
      /\ UNCHANGED <<tailerVars, pollHistory>>
  BY <1>1, <1>2, <1>3, <1>4, Appended
<1>6. \A i \in 1..Len(log') : i \in 1..Len(log) \/ log'[i] = <<n, "end">>
  BY <1>4, <1>5
<1>7. \A i \in 1..Len(log') : i \in 1..Len(log) \/ log'[i] \notin skipped
  BY <1>1, <1>2, <1>6 DEF NumberedUp
<1>8. \A i \in 1..Len(log') : log'[i][1] <= n
  <2>1. n <= n
    BY <1>3 DEF Lines
  <2> QED
    BY <1>1, <1>5, <1>6, <2>1 DEF NumberedUp
<1>9. ~MidLine'
  <2>1. Last(log)' = <<n, "end">>
    BY <1>5, <1>6 DEF Last
  <2> QED
    BY <2>1 DEF MidLine
<1>10. skipped' = skipped
  BY <1>5 DEF pollHistory
<1>11. NumberedUp'
  BY <1>1, <1>2, <1>8, <1>9, <1>10 DEF NumberedUp
<1> QED
  BY <1>1, <1>2, <1>5, <1>7, <1>11 DEF Grows, TailerTypeOK

(* Appending keeps the invariant: no position of the tailer moves, and     *)
(* what is behind it stays what it was.                                    *)
LEMMA GrowsKeeps ==
  ASSUME TailerIInv, Grows
  PROVE  TailerIInv'
<1>1. TailerTypeOK /\ Measured /\ HistoryBehind /\ HistoryNotReplayed /\ ReadToOffset
  BY DEF TailerIInv
<1>2. /\ exists /\ exists' /\ file' = file
      /\ log' \in Seq(Units)
      /\ Len(log) \in Nat /\ Len(log') \in Nat /\ Len(log') >= Len(log)
      /\ \A i \in 1..Len(log) : i \in 1..Len(log') /\ log'[i] = log[i]
      /\ \A i \in 1..Len(log') : i \in 1..Len(log) \/ log'[i] \notin skipped
  BY <1>1 DEF Grows, TailerTypeOK
<1>3. UNCHANGED <<agent, initialized, offset, lastSize, polling, size, given,
                  skipped, sizeFile, lastFile, missed>>
  BY DEF Grows, tailerVars, pollHistory
<1>4. TailerTypeOK'
  BY <1>1, <1>2, <1>3 DEF TailerTypeOK, Grows
<1>5. Measured'
  BY <1>1, <1>2, <1>3 DEF Measured, TailerTypeOK
<1>6. HistoryBehind'
  BY <1>1, <1>2, <1>3 DEF HistoryBehind
<1>7. HistoryNotReplayed'
  BY <1>1, <1>3 DEF HistoryNotReplayed, Times
<1>8. ReadToOffset'
  <2> SUFFICES ASSUME initialized, file \notin missed,
                      file = IF polling THEN sizeFile ELSE lastFile
               PROVE  /\ offset <= Len(log')
                      /\ \A i \in 1..offset : Returned(i)'
    BY <1>2, <1>3 DEF ReadToOffset
  <2>1. offset <= Len(log) /\ \A i \in 1..offset : Returned(i)
    BY <1>1, <1>2 DEF ReadToOffset
  <2>2. offset \in Nat
    BY <1>1 DEF TailerTypeOK
  <2>3. \A i \in 1..offset : log'[i] = log[i]
    BY <1>2, <2>1, <2>2
  <2> QED
    BY <1>2, <1>3, <2>1, <2>2, <2>3 DEF Returned, TooLong, Times
<1> QED
  BY <1>4, <1>5, <1>6, <1>7, <1>8 DEF TailerIInv, Grows

(* Rotation: an empty log, or none, has no position that could be wrong.   *)
LEMMA RotationKeeps ==
  ASSUME TailerIInv, Unlink \/ Create
  PROVE  TailerIInv'
<1>1. /\ TailerTypeOK /\ NumberedUp /\ Measured /\ HistoryBehind
      /\ HistoryNotReplayed
  BY DEF TailerIInv
<1>2. /\ log' = <<>> /\ Len(log') = 0 /\ ~MidLine'
      /\ exists' \in BOOLEAN
      /\ written' = written
      /\ UNCHANGED <<agent, initialized, offset, lastSize, polling, size, given,
                     skipped, sizeFile, lastFile, missed>>
  BY DEF Unlink, Create, tailerVars, pollHistory, MidLine
<1>3. (~exists' /\ file' = file) \/ file' = file + 1
  BY DEF Unlink, Create
<1>4. TailerTypeOK'
  BY <1>1, <1>2, <1>3 DEF TailerTypeOK
<1>5. NumberedUp'
  BY <1>1, <1>2 DEF NumberedUp
<1>6. Measured'
  BY <1>1, <1>2, <1>3 DEF Measured, TailerTypeOK
<1>7. HistoryBehind'
  BY <1>1, <1>2 DEF HistoryBehind
<1>8. HistoryNotReplayed'
  BY <1>1, <1>2 DEF HistoryNotReplayed, Times
<1>9. ReadToOffset'
  <2> SUFFICES ASSUME exists', file' = IF polling THEN sizeFile ELSE lastFile
               PROVE  FALSE
    BY <1>2 DEF ReadToOffset
  <2>1. file' = file + 1 /\ file \in Nat /\ lastFile \in Nat /\ sizeFile \in Nat
    BY <1>1, <1>3 DEF TailerTypeOK
  <2> QED
    BY <1>1, <2>1 DEF Measured
<1> QED
  BY <1>4, <1>5, <1>6, <1>7, <1>8, <1>9 DEF TailerIInv

LEMMA FirstPollKeeps ==
  ASSUME TailerIInv, FirstPoll
  PROVE  TailerIInv'
<1>1. /\ TailerTypeOK /\ NumberedUp /\ Measured /\ HistoryBehind
      /\ HistoryNotReplayed
  BY DEF TailerIInv
<1>2. /\ exists /\ ~initialized /\ initialized' = TRUE
      /\ offset' = Len(log) /\ lastSize' = Len(log)
      /\ skipped' = {log[i] : i \in 1..Len(log)}
      /\ lastFile' = file
      /\ UNCHANGED <<exists, file, log, written, agent, polling, size, given,
                     sizeFile, missed>>
  BY <1>1 DEF FirstPoll, fileVars, ToSet, TailerTypeOK
<1>3. Len(log) \in Nat /\ skipped' \subseteq Units /\ ~polling
  BY <1>1, <1>2 DEF TailerTypeOK, Measured
<1>4. TailerTypeOK'
  BY <1>1, <1>2, <1>3 DEF TailerTypeOK
<1>5. NumberedUp'
  BY <1>1, <1>2 DEF NumberedUp, MidLine
<1>6. Measured'
  BY <1>1, <1>2, <1>3 DEF Measured, TailerTypeOK
<1>7. HistoryBehind'
  BY <1>1, <1>2, <1>3 DEF HistoryBehind
<1>8. HistoryNotReplayed'
  <2> SUFFICES ASSUME NEW u \in Units PROVE Times(u)' = 0
    BY <1>3 DEF HistoryNotReplayed
  <2>1. u \in Pieces /\ <<u[1], "whole">> \in Pieces
    BY DEF Units, Pieces
  <2> QED
    BY <1>1, <1>2, <2>1 DEF HistoryBehind, Times
<1>9. ReadToOffset'
  BY <1>2, <1>3 DEF ReadToOffset, Returned
<1> QED
  BY <1>4, <1>5, <1>6, <1>7, <1>8, <1>9 DEF TailerIInv

(* The size measured decides whether the offset is one of this file: it is *)
(* if the file is the one measured before, and otherwise it falls to the   *)
(* start or the file joins those missed.                                   *)
LEMMA StatKeeps ==
  ASSUME TailerIInv, Stat
  PROVE  TailerIInv'
<1>1. /\ TailerTypeOK /\ NumberedUp /\ Measured /\ HistoryBehind
      /\ HistoryNotReplayed /\ ReadToOffset
  BY DEF TailerIInv
<1>2. /\ exists /\ initialized /\ ~polling /\ polling' = TRUE
      /\ size' = Len(log) /\ sizeFile' = file
      /\ offset' = IF Len(log) < lastSize THEN 0 ELSE offset
      /\ missed' = IF ReplacementMissed THEN missed \cup {file} ELSE missed
      /\ UNCHANGED <<exists, file, log, written, agent, initialized, lastSize,
                     given, skipped, lastFile>>
  BY DEF Stat, fileVars, OffsetAfterStat
<1>3. Len(log) \in Nat /\ lastSize \in Nat /\ offset \in Nat /\ file \in Nat
      /\ lastFile \in Nat
  BY <1>1 DEF TailerTypeOK
<1>4. lastFile = file => offset' = offset
  BY <1>1, <1>2, <1>3 DEF Measured
<1>5. TailerTypeOK'
  BY <1>1, <1>2, <1>3 DEF TailerTypeOK
<1>6. NumberedUp'
  BY <1>1, <1>2 DEF NumberedUp, MidLine
<1>7. Measured'
  BY <1>1, <1>2, <1>3 DEF Measured
<1>8. HistoryBehind'
  BY <1>1, <1>2, <1>3, <1>4 DEF HistoryBehind
<1>9. HistoryNotReplayed'
  BY <1>1, <1>2 DEF HistoryNotReplayed, Times
<1>10. ReadToOffset'
  <2> SUFFICES ASSUME file \notin missed'
               PROVE  /\ offset' <= Len(log)
                      /\ \A i \in 1..offset' : Returned(i)'
    BY <1>2 DEF ReadToOffset
  <2>1. file \notin missed /\ ~ReplacementMissed
    BY <1>2
  <2>2. CASE lastFile = file
    <3>1. offset <= Len(log) /\ \A i \in 1..offset : Returned(i)
      BY <1>1, <1>2, <2>1, <2>2 DEF ReadToOffset
    <3> QED
      BY <1>2, <1>4, <2>2, <3>1 DEF Returned, TooLong, Times
  <2>3. CASE lastFile # file
    <3>1. offset' = 0
      BY <1>2, <1>3, <2>1, <2>3 DEF ReplacementMissed
    <3> QED
      BY <1>3, <3>1
  <2> QED
    BY <2>2, <2>3
<1> QED
  BY <1>5, <1>6, <1>7, <1>8, <1>9, <1>10 DEF TailerIInv

LEMMA OpenFailsKeeps ==
  ASSUME TailerIInv, OpenFails
  PROVE  TailerIInv'
<1>1. /\ TailerTypeOK /\ NumberedUp /\ Measured /\ HistoryBehind
      /\ HistoryNotReplayed /\ ReadToOffset
  BY DEF TailerIInv
<1>2. /\ polling /\ polling' = FALSE /\ size' = 0 /\ sizeFile' = 0
      /\ UNCHANGED <<exists, file, log, written, agent, initialized, offset,
                     lastSize, given, skipped, lastFile, missed>>
  BY DEF OpenFails, EndPoll, fileVars
<1>3. TailerTypeOK'
  <2>1. exists' \in BOOLEAN /\ initialized' \in BOOLEAN /\ polling' \in BOOLEAN
    BY <1>1, <1>2, Zenon DEF TailerTypeOK
  <2>2. {file', offset', lastSize', size', lastFile', sizeFile'} \subseteq Nat
    BY <1>1, <1>2, SMT DEF TailerTypeOK
  <2> QED
    BY <1>1, <1>2, <2>1, <2>2, Zenon DEF TailerTypeOK
<1>4. NumberedUp'
  BY <1>1, <1>2 DEF NumberedUp, MidLine
<1>5. Measured'
  BY <1>1, <1>2 DEF Measured
<1>6. HistoryBehind'
  BY <1>1, <1>2 DEF HistoryBehind
<1>7. HistoryNotReplayed'
  BY <1>1, <1>2 DEF HistoryNotReplayed, Times
<1>8. ReadToOffset'
  <2> SUFFICES ASSUME initialized, exists, file \notin missed, file = lastFile
               PROVE  /\ offset <= Len(log)
                      /\ \A i \in 1..offset : Returned(i)'
    BY <1>2 DEF ReadToOffset
  <2>1. sizeFile = file
    BY <1>1, <1>2 DEF Measured, TailerTypeOK
  <2>2. offset <= Len(log) /\ \A i \in 1..offset : Returned(i)
    BY <1>1, <1>2, <2>1 DEF ReadToOffset
  <2> QED
    BY <1>2, <2>2 DEF Returned, TooLong, Times
<1> QED
  BY <1>3, <1>4, <1>5, <1>6, <1>7, <1>8 DEF TailerIInv

(* What the pieces returned do to the count of each unit: those of the     *)
(* lines read are returned once more, and no other.                        *)
LEMMA UnitsCounted ==
  ASSUME TailerTypeOK, NEW units \in SUBSET Units, NEW u \in Units,
         given' = [p \in Pieces |->
                     IF p \in PiecesOf(units) THEN given[p] + 1 ELSE given[p]]
  PROVE  /\ Times(u) \in Nat
         /\ Times(u)' = IF u \in units THEN Times(u) + 1 ELSE Times(u)
<1>1. u \in Pieces /\ <<u[1], "whole">> \in Pieces
  BY DEF Units, Pieces
<1>2. given[u] \in Nat /\ given[<<u[1], "whole">>] \in Nat
  BY <1>1 DEF TailerTypeOK
<1>3. PICK n \in Lines, k \in {"head", "end"} : u = <<n, k>>
  BY DEF Units
<1>4. <<n, "whole">> \in PiecesOf(units)
        <=> <<n, "head">> \in units /\ <<n, "end">> \in units
  BY <1>1, <1>3 DEF PiecesOf
<1>5. u \in PiecesOf(units)
        <=> u \in units /\ ~(<<n, "head">> \in units /\ <<n, "end">> \in units)
  BY <1>1, <1>3 DEF PiecesOf
<1>6. /\ given'[u] = IF u \in PiecesOf(units) THEN given[u] + 1 ELSE given[u]
      /\ given'[<<n, "whole">>] = IF <<n, "whole">> \in PiecesOf(units)
                                  THEN given[<<n, "whole">>] + 1
                                  ELSE given[<<n, "whole">>]
  BY <1>1, <1>3
<1>7. u[1] = n
  BY <1>3
<1>8. CASE u \in units
  BY <1>2, <1>3, <1>4, <1>5, <1>6, <1>7, <1>8 DEF Times
<1>9. CASE u \notin units
  BY <1>2, <1>3, <1>4, <1>5, <1>6, <1>7, <1>9 DEF Times
<1> QED
  BY <1>2, <1>8, <1>9 DEF Times

(* What a read returns begins at the offset and ends where the next one    *)
(* will begin, or before.                                                  *)
LEMMA ReadRange ==
  ASSUME TailerIInv, Read
  PROVE  /\ offset' \in Nat
         /\ UnitsRead \in SUBSET Units
         /\ \A i \in 1..Len(log) : i > offset /\ i <= offset' /\ offset <= Len(log)
              /\ (agent = "cpp" => size <= Len(log))
              => log[i] \in UnitsRead \/ (agent = "go" /\ TooLong(i))
         /\ \A u \in UnitsRead : \E i \in 1..Len(log) : i > offset /\ u = log[i]
         /\ agent = "cpp" => offset' = size
         /\ agent = "go" => /\ offset <= offset'
                            /\ offset <= Len(log) => offset' <= Len(log)
<1> DEFINE stop == IF agent = "go" THEN GoStopsAt ELSE Len(log)
           read == {j \in offset + 1..stop : agent = "go" => ~TooLong(j)}
<1>1. TailerTypeOK
  BY DEF TailerIInv
<1>2. /\ offset \in Nat /\ size \in Nat /\ Len(log) \in Nat
      /\ agent \in {"cpp", "go"}
      /\ \A i \in 1..Len(log) : log[i] \in Units
  BY <1>1 DEF TailerTypeOK
<1>3. /\ GoStopsAt \in Nat /\ GoStopsAt <= Len(log)
      /\ offset <= Len(log) => offset <= GoStopsAt
  BY <1>1, GoStops
<1>4. /\ agent = "cpp" => offset' = size
      /\ agent = "go" => offset' = IF Len(log) < offset THEN offset ELSE GoStopsAt
  BY DEF Read, OffsetAfterRead, CppOffsetAfterRead, GoOffsetAfterRead
<1>5. UnitsRead = {log[i] : i \in read}
  BY DEF UnitsRead
<1>6. stop \in Nat /\ stop <= Len(log)
  BY <1>2, <1>3
<1>7. \A i \in read : i \in 1..Len(log) /\ i > offset
  BY <1>2, <1>6
<1>8. \A i \in 1..Len(log) : i > offset /\ i <= offset' /\ offset <= Len(log)
         /\ (agent = "cpp" => size <= Len(log))
         => i \in read \/ (agent = "go" /\ TooLong(i))
  BY <1>2, <1>3, <1>4, <1>6
<1>9. offset' \in Nat /\ (agent = "go" => /\ offset <= offset'
                                          /\ offset <= Len(log) => offset' <= Len(log))
  BY <1>2, <1>3, <1>4
<1> HIDE DEF read
<1> QED
  BY <1>2, <1>4, <1>5, <1>7, <1>8, <1>9

LEMMA ReadKeeps ==
  ASSUME TailerIInv, Read
  PROVE  TailerIInv'
<1>1. /\ TailerTypeOK /\ NumberedUp /\ Measured /\ HistoryBehind
      /\ HistoryNotReplayed /\ ReadToOffset
  BY DEF TailerIInv
<1>2. /\ polling /\ polling' = FALSE /\ exists /\ size' = 0 /\ sizeFile' = 0
      /\ lastSize' = size /\ lastFile' = sizeFile
      /\ given' = [p \in Pieces |->
                     IF p \in PiecesOf(UnitsRead) THEN given[p] + 1 ELSE given[p]]
      /\ UNCHANGED <<exists, file, log, written, agent, initialized, skipped,
                     missed>>
  BY DEF Read, EndPoll, fileVars
<1>3. /\ initialized
      /\ {file, size, lastFile, sizeFile, offset, lastSize, Len(log)} \subseteq Nat
      /\ sizeFile \in lastFile..file
      /\ sizeFile = file => size <= Len(log)
      /\ agent \in {"cpp", "go"}
  BY <1>1, <1>2 DEF Measured, TailerTypeOK
<1>4. /\ offset' \in Nat
      /\ UnitsRead \in SUBSET Units
      /\ \A i \in 1..Len(log) : i > offset /\ i <= offset' /\ offset <= Len(log)
           /\ (agent = "cpp" => size <= Len(log))
           => log[i] \in UnitsRead \/ (agent = "go" /\ TooLong(i))
      /\ \A u \in UnitsRead : \E i \in 1..Len(log) : i > offset /\ u = log[i]
      /\ agent = "cpp" => offset' = size
      /\ agent = "go" => /\ offset <= offset'
                         /\ offset <= Len(log) => offset' <= Len(log)
  BY ReadRange
<1>5. \A u \in Units : /\ Times(u) \in Nat
                       /\ Times(u)' = IF u \in UnitsRead THEN Times(u) + 1 ELSE Times(u)
  BY <1>1, <1>2, <1>4, UnitsCounted
<1>6. TailerTypeOK'
  <2>1. exists' \in BOOLEAN /\ initialized' \in BOOLEAN /\ polling' \in BOOLEAN
    BY <1>1, <1>2, Zenon DEF TailerTypeOK
  <2>2. {file', offset', lastSize', size', lastFile', sizeFile'} \subseteq Nat
    BY <1>2, <1>3, <1>4, SMT
  <2>3. given' \in [Pieces -> Nat]
    <3>1. \A p \in Pieces : given[p] \in Nat /\ given[p] + 1 \in Nat
      BY <1>1 DEF TailerTypeOK
    <3> QED
      BY <1>2, <3>1
  <2> QED
    BY <1>1, <1>2, <2>1, <2>2, <2>3, Zenon DEF TailerTypeOK
<1>7. NumberedUp'
  BY <1>1, <1>2 DEF NumberedUp, MidLine
<1>8. Measured'
  BY <1>1, <1>2, <1>3 DEF Measured
<1>9. HistoryBehind'
  <2> SUFFICES ASSUME NEW i \in 1..Len(log), log[i] \in skipped
               PROVE  lastFile' = file /\ i <= offset' /\ i <= lastSize'
    BY <1>2, <1>3 DEF HistoryBehind
  <2>1. lastFile = file /\ i <= offset /\ i <= size
    BY <1>1, <1>2 DEF HistoryBehind
  <2>2. sizeFile = file
    BY <1>3, <2>1
  <2> QED
    BY <1>2, <1>3, <1>4, <2>1, <2>2
<1>10. HistoryNotReplayed'
  <2> SUFFICES ASSUME NEW u \in skipped PROVE Times(u)' = 0
    BY <1>2 DEF HistoryNotReplayed
  <2>1. u \in Units /\ Times(u) = 0
    BY <1>1 DEF HistoryNotReplayed, TailerTypeOK
  <2>2. u \notin UnitsRead
    <3> SUFFICES ASSUME NEW i \in 1..Len(log), i > offset, u = log[i] PROVE FALSE
      BY <1>4
    <3>1. i <= offset
      BY <1>1 DEF HistoryBehind
    <3> QED
      BY <1>3, <3>1
  <2> QED
    BY <1>5, <2>1, <2>2
<1>11. ReadToOffset'
  <2> SUFFICES ASSUME file \notin missed, file = sizeFile
               PROVE  /\ offset' <= Len(log)
                      /\ \A i \in 1..offset' : Returned(i)'
    BY <1>2 DEF ReadToOffset
  <2>1. offset <= Len(log) /\ \A i \in 1..offset : Returned(i)
    BY <1>1, <1>2, <1>3 DEF ReadToOffset
  <2>2. size <= Len(log) /\ offset' <= Len(log)
    BY <1>3, <1>4, <2>1
  <2>3. ASSUME NEW i \in 1..offset', log[i] \notin skipped,
               ~(agent = "go" /\ TooLong(i))
        PROVE  Times(log[i])' > 0
    <3>1. i \in 1..Len(log)
      BY <1>3, <1>4, <2>2
    <3>2. log[i] \in Units
      BY <1>1, <3>1 DEF TailerTypeOK
    <3>3. CASE i <= offset
      <4>1. Times(log[i]) > 0
        BY <1>3, <2>1, <2>3, <3>1, <3>3 DEF Returned
      <4> QED
        BY <1>2, <1>3, <1>5, <3>2, <4>1
    <3>4. CASE i > offset
      <4>1. log[i] \in UnitsRead
        BY <1>4, <2>1, <2>2, <2>3, <3>1, <3>4
      <4> QED
        BY <1>2, <1>3, <1>5, <3>2, <4>1
    <3> QED
      BY <1>3, <3>1, <3>3, <3>4
  <2>4. \A i \in 1..offset' : Returned(i)'
    <3> SUFFICES ASSUME NEW i \in 1..offset', log[i] \notin skipped,
                        ~(agent = "go" /\ TooLong(i))
                 PROVE  Times(log[i])' > 0
      BY <1>2 DEF Returned, TooLong, Times
    <3> QED
      BY <2>3
  <2> QED
    BY <2>2, <2>4
<1> QED
  BY <1>6, <1>7, <1>8, <1>9, <1>10, <1>11 DEF TailerIInv

(* The invariant holds initially and is kept by every step: the offset is  *)
(* never one of another file without the replacement being counted as      *)
(* missed, and what is behind it is history or was returned.               *)
THEOREM TailerInvariant == Spec => []TailerIInv
<1>1. Init => TailerIInv
  <2> SUFFICES ASSUME Init PROVE TailerIInv
    OBVIOUS
  <2>1. Len(log) = 0 /\ log \in Seq(Units) /\ ~MidLine /\ skipped = {}
        /\ ~initialized /\ ~polling
    BY DEF Init, MidLine
  <2>2. TailerTypeOK
    <3>1. given \in [Pieces -> Nat]
      BY DEF Init
    <3>2. written \in 0..MaxLines /\ agent \in {"cpp", "go"}
      BY TailerAssumption DEF Init, TailerAssumption
    <3>3. exists \in BOOLEAN /\ initialized \in BOOLEAN /\ polling \in BOOLEAN
      BY Zenon DEF Init
    <3>4. {file, offset, lastSize, size, lastFile, sizeFile} \subseteq Nat
      BY SMT DEF Init
    <3> QED
      BY <2>1, <3>1, <3>2, <3>3, <3>4, Zenon DEF TailerTypeOK
  <2>3. NumberedUp
    BY <2>1 DEF NumberedUp
  <2>4. Measured
    BY <2>1 DEF Init, Measured
  <2>5. HistoryBehind /\ HistoryNotReplayed
    BY <2>1 DEF Init, HistoryBehind, HistoryNotReplayed
  <2>6. ReadToOffset
    BY <2>1 DEF ReadToOffset
  <2> QED
    BY <2>2, <2>3, <2>4, <2>5, <2>6 DEF TailerIInv
<1>2. TailerIInv /\ [Next]_vars => TailerIInv'
  <2> SUFFICES ASSUME TailerIInv, [Next]_vars PROVE TailerIInv'
    OBVIOUS
  <2>1. CASE WriteLine \/ StartLine \/ FinishLine
    BY <2>1, WriteLineGrows, StartLineGrows, FinishLineGrows, GrowsKeeps
  <2>2. CASE Unlink \/ Create
    BY <2>2, RotationKeeps
  <2>3. CASE Poll
    BY <2>3, FirstPollKeeps, StatKeeps, OpenFailsKeeps, ReadKeeps DEF Poll
  <2>4. CASE UNCHANGED vars
    BY <2>4 DEF vars, fileVars, tailerVars, pollHistory, writeHistory, TailerIInv,
       TailerTypeOK, NumberedUp, MidLine, Measured, HistoryBehind,
       HistoryNotReplayed, Times, ReadToOffset, Returned, TooLong
  <2> QED
    BY <2>1, <2>2, <2>3, <2>4 DEF Next, Writers
<1> QED
  BY <1>1, <1>2, PTL DEF Spec

(* No line that predates the first poll is ever returned: a restarted      *)
(* agent raises no alert for what its predecessor saw.                     *)
THEOREM NothingReplayed == Spec => []HistoryNotReplayed
<1>1. TailerIInv => HistoryNotReplayed
  BY DEF TailerIInv
<1> QED
  BY <1>1, TailerInvariant, PTL

(* Between two polls, everything before the offset was returned, unless it *)
(* predates the first poll, is the beginning of a line too long for Go, or *)
(* its file took the place of another unnoticed.                           *)
THEOREM NothingSkipped == Spec => []NoGap
<1>1. TailerIInv => NoGap
  <2> SUFFICES ASSUME TailerIInv, initialized, ~polling, exists, lastFile = file,
                      file \notin missed,
                      NEW i \in 1..Len(log), i <= offset, log[i] \notin skipped,
                      ~(agent = "go" /\ TooLong(i))
               PROVE  Times(log[i]) > 0
    BY DEF NoGap
  <2>1. \A j \in 1..offset : Returned(j)
    BY DEF TailerIInv, ReadToOffset
  <2>2. offset \in Nat
    BY DEF TailerIInv, TailerTypeOK
  <2>3. Returned(i)
    BY <2>1, <2>2
  <2> QED
    BY <2>3 DEF Returned
<1> QED
  BY <1>1, TailerInvariant, PTL

----------------------------------------------------------------------------
(* Lines returned twice, or in pieces *)

(* The counts are naturals. *)
LEMMA TimesNat ==
  ASSUME TailerTypeOK, NEW u \in Units
  PROVE  /\ Times(u) \in Nat
         /\ given[<<u[1], "whole">>] \in Nat /\ given[u] \in Nat
         /\ given[<<u[1], "whole">>] <= Times(u) /\ given[u] <= Times(u)
<1>1. u \in Pieces /\ <<u[1], "whole">> \in Pieces
  BY DEF Units, Pieces
<1>2. given[u] \in Nat /\ given[<<u[1], "whole">>] \in Nat
  BY <1>1 DEF TailerTypeOK
<1> QED
  BY <1>2 DEF Times

(* A unit is in the log once. *)
LEMMA LogDistinct ==
  ASSUME TailerTypeOK, LogOrder, NEW i \in 1..Len(log), NEW j \in 1..Len(log),
         log[i] = log[j]
  PROVE  i = j
<1>1. /\ log[i] \in Units /\ log[i][1] \in Nat
      /\ i \in Nat /\ j \in Nat
  BY DEF TailerTypeOK, Units, Lines
<1>2. ~(i < j) /\ ~(j < i)
  BY <1>1 DEF LogOrder
<1> QED
  BY <1>1, <1>2

(* What each of the writers that append does, beside keeping what is there *)
(* (Grows): the units that follow are of one line, and were not returned.  *)
Appends(n) ==
  /\ Grows
  /\ n \in Lines
  /\ \A i \in 1..Len(log') :
       i \in 1..Len(log) \/ (log'[i][1] = n /\ Times(log'[i]) = 0)
  /\ \A m \in Lines : Times(<<m, "end">>) > 0 => m < n
  /\ \/ home[n] = file
     \/ Times(<<n, "head">>) = 0 /\ Times(<<n, "end">>) = 0
  /\ home' = [home EXCEPT ![n] = file]
  /\ raced' = IF polling THEN raced \cup {n} ELSE raced
  /\ swapped' = IF polling /\ file # sizeFile THEN swapped \cup {n} ELSE swapped
  /\ slow \subseteq slow' /\ slow' \subseteq Lines
  /\ LogOrder'
  /\ NotYet'

(* Appending keeps the order of the log. *)
LEMMA OrderGrows ==
  ASSUME TailerIInv, PollIInv, Grows, NEW n \in Lines, n >= written,
         home' = [home EXCEPT ![n] = file],
         \A i \in 1..Len(log') : i \in 1..Len(log) \/ log'[i][1] = n,
         \/ n > written /\ ~MidLine /\ slow' = slow
            /\ Len(log') = Len(log) + 2
            /\ log'[Len(log) + 1] = <<n, "head">>
            /\ log'[Len(log) + 2] = <<n, "end">>
         \/ n > written /\ ~MidLine /\ slow' = slow \cup {n}
            /\ Len(log') = Len(log) + 1
            /\ log'[Len(log) + 1] = <<n, "head">>
         \/ n = written /\ MidLine /\ slow' = slow
            /\ Len(log') = Len(log) + 1
            /\ log'[Len(log) + 1] = <<n, "end">>
  PROVE  LogOrder'
<1>1. PICK len \in Nat : len = Len(log)
  BY DEF TailerIInv, TailerTypeOK
<1>2. /\ Len(log') \in Nat /\ len <= Len(log')
      /\ \A i \in 1..len : i \in 1..Len(log') /\ log'[i] = log[i]
      /\ \A i \in 1..len : log[i] \in Units /\ log[i][1] \in Lines
                           /\ log[i][1] <= written /\ log[i][1] \in Nat
      /\ n \in Nat /\ written \in Nat
      /\ file' = file
  <2>1. /\ log \in Seq(Units) /\ written \in 0..MaxLines /\ MaxLines \in Nat
        /\ \A i \in 1..Len(log) : log[i][1] <= written
    BY TailerAssumption DEF TailerIInv, TailerTypeOK, NumberedUp
  <2>2. /\ log' \in Seq(Units) /\ Len(log') >= Len(log) /\ file' = file
        /\ \A i \in 1..Len(log) : log'[i] = log[i]
    BY DEF Grows
  <2>3. \A i \in 1..len : log[i] \in Units /\ log[i][1] \in Lines
    BY <1>1, <2>1 DEF Units
  <2>4. Len(log') \in Nat /\ len <= Len(log') /\ n \in Nat /\ written \in Nat
    BY <1>1, <2>1, <2>2 DEF Lines
  <2> QED
    BY <1>1, <2>1, <2>2, <2>3, <2>4 DEF Lines
<1>3. len > 0 => (MidLine <=> log[len][2] = "head")
  BY <1>1 DEF MidLine, Last, TailerIInv, TailerTypeOK
<1>4. MidLine => len > 0 /\ log[len] = <<written, "head">>
  BY <1>1 DEF MidLine, Last, TailerIInv, TailerTypeOK, NumberedUp
<1>5. LogOrder /\ home \in [Lines -> Nat]
  BY DEF PollIInv, HistoryTypeOK
<1>6. ASSUME NEW i \in 1..Len(log'), NEW j \in 1..Len(log'), i < j
      PROVE  \/ log'[i][1] < log'[j][1]
             \/ /\ log'[i][1] = log'[j][1]
                /\ log'[i][2] = "head" /\ log'[j][2] = "end"
  <2>1. CASE j \in 1..len
    <3>1. i \in 1..len
      BY <1>6, <2>1
    <3>2. \/ log[i][1] < log[j][1]
          \/ log[i][1] = log[j][1] /\ log[i][2] = "head" /\ log[j][2] = "end"
      BY <1>1, <1>5, <1>6, <2>1, <3>1 DEF LogOrder
    <3> QED
      BY <1>2, <2>1, <3>1, <3>2
  <2>2. CASE j \notin 1..len /\ i \in 1..len
    <3>1. log'[j][1] = n /\ log'[i] = log[i]
      BY <1>1, <1>2, <2>2
    <3>2. CASE n > written
      BY <1>2, <2>2, <3>1, <3>2
    <3>3. CASE n = written
      <4>1. MidLine /\ j = len + 1 /\ log'[j] = <<n, "end">>
        BY <1>1, <1>2, <2>2, <3>3
      <4>2. log[len] = <<n, "head">>
        BY <1>4, <3>3, <4>1
      <4>3. CASE i = len
        BY <1>2, <2>2, <3>1, <4>1, <4>2, <4>3
      <4>4. CASE i < len
        <5>1. \/ log[i][1] < log[len][1]
              \/ log[i][1] = log[len][1] /\ log[len][2] = "end"
          BY <1>1, <1>5, <2>2, <4>4 DEF LogOrder
        <5> QED
          BY <3>1, <4>2, <5>1
      <4> QED
        BY <2>2, <4>3, <4>4
    <3> QED
      BY <1>2, <3>2, <3>3
  <2>3. CASE j \notin 1..len /\ i \notin 1..len
    BY <1>1, <1>2, <1>6, <2>3
  <2> QED
    BY <2>1, <2>2, <2>3
<1>7. ASSUME NEW i \in 1..Len(log') PROVE home'[log'[i][1]] = file'
  BY <1>1, <1>2, <1>5 DEF LogOrder
<1>8. ASSUME NEW i \in 1..Len(log'), log'[i][2] = "end"
      PROVE  i > 1 /\ log'[i - 1] = <<log'[i][1], "head">>
  <2>1. CASE i \in 1..len
    <3>1. i > 1 /\ log[i - 1] = <<log[i][1], "head">>
      BY <1>1, <1>2, <1>5, <1>8, <2>1 DEF LogOrder
    <3>2. i - 1 \in 1..len
      BY <2>1, <3>1
    <3> QED
      BY <1>2, <2>1, <3>1, <3>2
  <2>2. CASE i \notin 1..len
    <3>1. CASE n > written
      <4>1. i = len + 2 /\ log'[len + 1] = <<n, "head">> /\ log'[i] = <<n, "end">>
        BY <1>1, <1>2, <1>8, <2>2, <3>1
      <4>2. i - 1 = len + 1
        BY <4>1
      <4> QED
        BY <4>1, <4>2
    <3>2. CASE n = written
      <4>1. MidLine /\ i = len + 1 /\ log'[i] = <<n, "end">>
        BY <1>1, <1>2, <2>2, <3>2
      <4>2. len > 0 /\ log[len] = <<n, "head">> /\ len \in 1..len
        BY <1>4, <3>2, <4>1
      <4>3. i - 1 = len
        BY <4>1
      <4> QED
        BY <1>2, <4>1, <4>2, <4>3
    <3> QED
      BY <1>2, <3>1, <3>2
  <2> QED
    BY <2>1, <2>2
<1>9. ASSUME NEW i \in 1..Len(log'), log'[i][2] = "head"
      PROVE  IF i = Len(log') THEN log'[i][1] \in slow'
             ELSE log'[i + 1] = <<log'[i][1], "end">>
  <2>1. CASE i \in 1..len /\ i # len
    <3>1. log[i + 1] = <<log[i][1], "end">>
      BY <1>1, <1>2, <1>5, <1>9, <2>1 DEF LogOrder
    <3>2. i + 1 \in 1..len /\ i # Len(log')
      BY <1>2, <2>1
    <3> QED
      BY <1>2, <2>1, <3>1, <3>2
  <2>2. CASE i = len
    <3>1. MidLine /\ log[len] = <<written, "head">> /\ log'[i] = log[i]
      BY <1>2, <1>3, <1>4, <1>9, <2>2
    <3>2. n = written /\ Len(log') = len + 1 /\ log'[len + 1] = <<n, "end">>
      BY <1>1, <3>1
    <3> QED
      BY <2>2, <3>1, <3>2
  <2>3. CASE i = len + 1
    BY <1>1, <1>9, <2>3
  <2>4. CASE i = len + 2
    BY <1>1, <1>2, <1>9, <2>4
  <2> QED
    BY <1>1, <1>2, <2>1, <2>2, <2>3, <2>4
<1> QED
  BY <1>6, <1>7, <1>8, <1>9 DEF LogOrder

LEMMA WriteLineAppends ==
  ASSUME TailerIInv, PollIInv, WriteLine
  PROVE  \E n \in Lines : Appends(n)
<1>1. PICK n \in Lines : n = written + 1
  BY TailerAssumption DEF WriteLine, Lines, TailerIInv, TailerTypeOK
<1>2. Grows
  BY WriteLineGrows
<1>3. PICK len \in Nat : len = Len(log)
  BY DEF TailerIInv, TailerTypeOK
<1>4. /\ AppendUnits(n, << <<n, "head">>, <<n, "end">> >>)
      /\ ~MidLine /\ written' = n /\ slow' = slow
      /\ written \in Nat /\ n > written
  BY <1>1 DEF WriteLine, TailerIInv, TailerTypeOK
<1>5. /\ log \in Seq(Units)
      /\ << <<n, "head">>, <<n, "end">> >> \in Seq(Units)
      /\ log' = log \o << <<n, "head">>, <<n, "end">> >>
  BY <1>4, LineUnits DEF AppendUnits, TailerIInv, TailerTypeOK
<1>6. /\ Len(log') = len + 2
      /\ log'[len + 1] = <<n, "head">> /\ log'[len + 2] = <<n, "end">>
  BY <1>3, <1>5
<1>7. \A i \in 1..Len(log') : i \in 1..len \/ i = len + 1 \/ i = len + 2
  BY <1>6
<1>8. \A u \in Units : u[1] > written => Times(u) = 0
  BY DEF PollIInv, NotYet
<1>9. <<n, "head">> \in Units /\ <<n, "end">> \in Units
  BY DEF Units
<1>10. Times(<<n, "head">>) = 0 /\ Times(<<n, "end">>) = 0
  BY <1>4, <1>8, <1>9
<1>11. ASSUME NEW m \in Lines, Times(<<m, "end">>) > 0 PROVE m < n
  <2>1. <<m, "end">> \in Units /\ m \in Nat
    BY DEF Units, Lines
  <2>2. ~(m > written)
    BY <1>8, <1>11, <2>1
  <2> QED
    BY <1>1, <1>4, <2>1, <2>2
<1>12. /\ home' = [home EXCEPT ![n] = file]
       /\ raced' = IF polling THEN raced \cup {n} ELSE raced
       /\ swapped' = IF polling /\ file # sizeFile THEN swapped \cup {n} ELSE swapped
       /\ given' = given
  BY <1>4 DEF AppendUnits, pollHistory
<1>13. \A i \in 1..Len(log') :
         i \in 1..Len(log) \/ (log'[i][1] = n /\ Times(log'[i]) = 0)
  BY <1>3, <1>6, <1>7, <1>10
<1>14. LogOrder'
  <2>1. n >= written
    BY <1>1, <1>4
  <2> QED
    BY <1>2, <1>3, <1>4, <1>6, <1>12, <1>13, <2>1, OrderGrows
<1>15. NotYet'
  <2>1. ~MidLine'
    <3>1. Last(log') = <<n, "end">>
      BY <1>6 DEF Last
    <3> QED
      BY <3>1 DEF MidLine
  <2>2. ASSUME NEW u \in Units, u[1] > n PROVE Times(u)' = 0
    <3>1. u[1] \in Nat
      BY DEF Units, Lines
    <3>2. u[1] > written
      BY <1>1, <1>4, <2>2, <3>1
    <3> QED
      BY <1>8, <1>12, <3>2 DEF Times
  <2> QED
    BY <1>4, <2>1, <2>2 DEF NotYet
<1>16. slow' \subseteq Lines
  BY <1>4 DEF PollIInv, HistoryTypeOK
<1> QED
  BY <1>2, <1>4, <1>10, <1>11, <1>12, <1>13, <1>14, <1>15, <1>16 DEF Appends

LEMMA StartLineAppends ==
  ASSUME TailerIInv, PollIInv, StartLine
  PROVE  \E n \in Lines : Appends(n)
<1>1. PICK n \in Lines : n = written + 1
  BY TailerAssumption DEF StartLine, Lines, TailerIInv, TailerTypeOK
<1>2. Grows
  BY StartLineGrows
<1>3. PICK len \in Nat : len = Len(log)
  BY DEF TailerIInv, TailerTypeOK
<1>4. /\ AppendUnits(n, << <<n, "head">> >>)
      /\ ~MidLine /\ written' = n /\ slow' = slow \cup {n}
      /\ written \in Nat /\ n > written
  BY <1>1 DEF StartLine, TailerIInv, TailerTypeOK
<1>5. /\ log \in Seq(Units)
      /\ << <<n, "head">> >> \in Seq(Units)
      /\ log' = log \o << <<n, "head">> >>
  BY <1>4, LineUnits DEF AppendUnits, TailerIInv, TailerTypeOK
<1>6. Len(log') = len + 1 /\ log'[len + 1] = <<n, "head">>
  BY <1>3, <1>5
<1>7. \A i \in 1..Len(log') : i \in 1..len \/ i = len + 1
  BY <1>6
<1>8. \A u \in Units : u[1] > written => Times(u) = 0
  BY DEF PollIInv, NotYet
<1>9. <<n, "head">> \in Units /\ <<n, "end">> \in Units
  BY DEF Units
<1>10. Times(<<n, "head">>) = 0 /\ Times(<<n, "end">>) = 0
  BY <1>4, <1>8, <1>9
<1>11. ASSUME NEW m \in Lines, Times(<<m, "end">>) > 0 PROVE m < n
  <2>1. <<m, "end">> \in Units /\ m \in Nat
    BY DEF Units, Lines
  <2>2. ~(m > written)
    BY <1>8, <1>11, <2>1
  <2> QED
    BY <1>1, <1>4, <2>1, <2>2
<1>12. /\ home' = [home EXCEPT ![n] = file]
       /\ raced' = IF polling THEN raced \cup {n} ELSE raced
       /\ swapped' = IF polling /\ file # sizeFile THEN swapped \cup {n} ELSE swapped
       /\ given' = given
  BY <1>4 DEF AppendUnits, pollHistory
<1>13. \A i \in 1..Len(log') :
         i \in 1..Len(log) \/ (log'[i][1] = n /\ Times(log'[i]) = 0)
  BY <1>3, <1>6, <1>7, <1>10
<1>14. LogOrder'
  <2>1. n >= written
    BY <1>1, <1>4
  <2> QED
    BY <1>2, <1>3, <1>4, <1>6, <1>12, <1>13, <2>1, OrderGrows
<1>15. NotYet'
  <2>1. ASSUME NEW u \in Units, u[1] > n \/ u = <<n, "end">> PROVE Times(u)' = 0
    <3>1. u[1] \in Nat
      BY DEF Units, Lines
    <3>2. u[1] > written
      BY <1>1, <1>4, <2>1, <3>1
    <3> QED
      BY <1>8, <1>12, <3>2 DEF Times
  <2> QED
    BY <1>4, <2>1 DEF NotYet
<1>16. slow' \subseteq Lines
  BY <1>4 DEF PollIInv, HistoryTypeOK
<1> QED
  BY <1>2, <1>4, <1>10, <1>11, <1>12, <1>13, <1>14, <1>15, <1>16 DEF Appends

LEMMA FinishLineAppends ==
  ASSUME TailerIInv, PollIInv, FinishLine
  PROVE  \E n \in Lines : Appends(n)
<1>1. MidLine /\ written' = written /\ slow' = slow
  BY DEF FinishLine
<1>2. Grows
  BY FinishLineGrows
<1>3. PICK len \in Nat : len = Len(log)
  BY DEF TailerIInv, TailerTypeOK
<1>4. len > 0 /\ log[len] = <<written, "head">> /\ log[len] \in Units
  BY <1>1, <1>3 DEF MidLine, Last, TailerIInv, TailerTypeOK, NumberedUp
<1>5. PICK n \in Lines : n = written
  BY <1>4 DEF Units
<1>6. AppendUnits(n, << <<n, "end">> >>)
  BY <1>5 DEF FinishLine
<1>7. /\ log \in Seq(Units)
      /\ << <<n, "end">> >> \in Seq(Units)
      /\ log' = log \o << <<n, "end">> >>
  BY <1>6, LineUnits DEF AppendUnits, TailerIInv, TailerTypeOK
<1>8. Len(log') = len + 1 /\ log'[len + 1] = <<n, "end">>
  BY <1>3, <1>7
<1>9. \A i \in 1..Len(log') : i \in 1..len \/ i = len + 1
  BY <1>8
<1>10. \A u \in Units : u[1] > n \/ u = <<n, "end">> => Times(u) = 0
  BY <1>1, <1>5 DEF PollIInv, NotYet
<1>11. <<n, "end">> \in Units
  BY DEF Units
<1>12. Times(<<n, "end">>) = 0
  BY <1>10, <1>11
<1>13. ASSUME NEW m \in Lines, Times(<<m, "end">>) > 0 PROVE m < n
  <2>1. <<m, "end">> \in Units /\ m \in Nat /\ n \in Nat
    BY DEF Units, Lines
  <2>2. ~(m > n) /\ m # n
    BY <1>10, <1>12, <1>13, <2>1
  <2> QED
    BY <2>1, <2>2
<1>14. home[n] = file
  BY <1>3, <1>4, <1>5 DEF PollIInv, LogOrder
<1>15. /\ home' = [home EXCEPT ![n] = file]
       /\ raced' = IF polling THEN raced \cup {n} ELSE raced
       /\ swapped' = IF polling /\ file # sizeFile THEN swapped \cup {n} ELSE swapped
       /\ given' = given
  BY <1>6 DEF AppendUnits, pollHistory
<1>16. \A i \in 1..Len(log') :
         i \in 1..Len(log) \/ (log'[i][1] = n /\ Times(log'[i]) = 0)
  BY <1>3, <1>8, <1>9, <1>12
<1>17. LogOrder'
  <2>1. n >= written
    BY <1>5 DEF Lines
  <2> QED
    BY <1>1, <1>2, <1>3, <1>5, <1>8, <1>15, <1>16, <2>1, OrderGrows
<1>18. NotYet'
  <2>1. ~MidLine'
    <3>1. Last(log') = <<n, "end">>
      BY <1>8 DEF Last
    <3> QED
      BY <3>1 DEF MidLine
  <2>2. \A u \in Units : Times(u)' = Times(u)
    BY <1>15 DEF Times
  <2> QED
    BY <1>1, <1>5, <1>10, <2>1, <2>2 DEF NotYet
<1>19. slow' \subseteq Lines
  BY <1>1 DEF PollIInv, HistoryTypeOK
<1> QED
  BY <1>1, <1>2, <1>12, <1>13, <1>14, <1>15, <1>16, <1>17, <1>18, <1>19
     DEF Appends

(* Appending: no position of the tailer moves, and what is appended while  *)
(* a poll is under way is known to be.                                     *)
LEMMA AppendKeepsPolls ==
  ASSUME TailerIInv, PollIInv, NEW n \in Lines, Appends(n)
  PROVE  PollIInv'
<1>1. PICK len \in Nat : len = Len(log)
  BY DEF TailerIInv, TailerTypeOK
<1>2. /\ exists /\ exists' /\ file' = file
      /\ Len(log') \in Nat /\ len <= Len(log')
      /\ \A i \in 1..len : log'[i] = log[i]
      /\ log' \in Seq(Units)
  BY <1>1 DEF Appends, Grows
<1>3. UNCHANGED <<agent, initialized, offset, lastSize, polling, size, given,
                  latest, sizeFile, lastFile, missed>>
  BY DEF Appends, Grows, tailerVars, pollHistory
<1>4. \A u : Times(u)' = Times(u)
  BY <1>3 DEF Times
<1>5. \A i \in 1..Len(log') :
        i \in 1..len \/ (log'[i][1] = n /\ Times(log'[i]) = 0)
  BY <1>1 DEF Appends
<1>6. /\ raced \subseteq raced' /\ swapped \subseteq swapped'
      /\ raced' \subseteq Lines /\ swapped' \subseteq Lines
      /\ slow \subseteq slow' /\ slow' \subseteq Lines
      /\ polling => n \in raced' /\ (file # sizeFile => n \in swapped')
  BY DEF Appends, PollIInv, HistoryTypeOK
<1>7. Disturbed \subseteq Disturbed'
  BY <1>3, <1>6 DEF Disturbed
<1>8. HistoryTypeOK'
  <2>1. home' \in [Lines -> Nat]
    BY DEF Appends, PollIInv, HistoryTypeOK, TailerIInv, TailerTypeOK
  <2> QED
    BY <1>3, <1>6, <2>1 DEF PollIInv, HistoryTypeOK
<1>9. OffsetWithin'
  BY <1>3 DEF PollIInv, OffsetWithin
<1>10. RacesKnown'
  <2> SUFFICES ASSUME polling, NEW i \in 1..Len(log')
               PROVE  /\ sizeFile # file => Times(log'[i]) = 0
                                            /\ log'[i][1] \in raced' \cap swapped'
                      /\ sizeFile = file /\ i > size
                           => Times(log'[i]) = 0 /\ log'[i][1] \in raced'
    BY <1>2, <1>3, <1>4 DEF RacesKnown
  <2>1. CASE i \in 1..len
    BY <1>1, <1>2, <1>6, <2>1 DEF PollIInv, RacesKnown
  <2>2. CASE i \notin 1..len
    BY <1>5, <1>6, <2>2
  <2> QED
    BY <2>1, <2>2
<1>11. \A i : Ahead(i)' <=> Ahead(i)
  BY <1>2, <1>3 DEF Ahead
<1>12. RepeatsKnown'
  <2> SUFFICES ASSUME NEW i \in 1..Len(log'), Ahead(i), Times(log'[i]) > 0
               PROVE  /\ Times(log'[i]) = 1
                      /\ log'[i][1] \in Disturbed'
                      /\ Prompt /\ given[<<log'[i][1], "whole">>] > 0
                           => log'[i][1] \in latest
    BY <1>2, <1>3, <1>4, <1>11 DEF RepeatsKnown, Prompt
  <2>1. i \in 1..len /\ log'[i] = log[i]
    BY <1>2, <1>5
  <2> QED
    BY <1>1, <1>7, <2>1 DEF PollIInv, RepeatsKnown
<1>13. InOrder'
  <2> SUFFICES ASSUME NEW m \in Lines \ Disturbed', Times(<<m, "end">>) > 0,
                      NEW i \in 1..Len(log'), Ahead(i)
               PROVE  m < log'[i][1]
    BY <1>4, <1>11 DEF InOrder
  <2>1. CASE i \in 1..len
    BY <1>1, <1>2, <1>7, <2>1 DEF PollIInv, InOrder
  <2>2. CASE i \notin 1..len
    BY <1>5, <2>2 DEF Appends
  <2> QED
    BY <2>1, <2>2
<1>14. OffsetBetweenLines'
  <2> SUFFICES ASSUME NEW i \in 1..Len(log'), log'[i][2] = "head"
               PROVE  /\ /\ initialized /\ i = offset
                         /\ file = (IF polling THEN sizeFile ELSE lastFile)
                         => \/ log'[i][1] \in slow'
                            \/ file \in missed
                            \/ agent = "go" /\ log'[i][1] \in LongLines
                      /\ polling /\ sizeFile = file /\ i = size
                           => log'[i][1] \in slow'
    BY <1>2, <1>3 DEF OffsetBetweenLines
  <2>1. CASE i \in 1..len
    BY <1>1, <1>2, <1>6, <2>1 DEF PollIInv, OffsetBetweenLines
  <2>2. CASE i \notin 1..len
    <3>1. i > len
      BY <1>2, <2>2
    <3>2. initialized /\ file = (IF polling THEN sizeFile ELSE lastFile)
            => file \in missed \/ offset <= len
      BY <1>1, <1>2 DEF TailerIInv, ReadToOffset
    <3>3. polling /\ sizeFile = file => size <= len
      BY <1>1, <1>2 DEF TailerIInv, Measured
    <3>4. offset \in Nat /\ size \in Nat
      BY DEF TailerIInv, TailerTypeOK
    <3> QED
      BY <1>1, <3>1, <3>2, <3>3, <3>4
  <2> QED
    BY <2>1, <2>2
<1>15. RepeatsExplained'
  BY <1>4, <1>7 DEF PollIInv, RepeatsExplained
<1>16. TornOnlyMidLine'
  <2> SUFFICES ASSUME NEW k \in Lines,
                      given[<<k, "head">>] + given[<<k, "end">>] > 0
               PROVE  \/ k \in slow' \cup swapped'
                      \/ home'[k] \in missed
                      \/ agent = "go" /\ k \in LongLines
    BY <1>3 DEF TornOnlyMidLine
  <2>1. \/ k \in slow \cup swapped
        \/ home[k] \in missed
        \/ agent = "go" /\ k \in LongLines
    BY DEF PollIInv, TornOnlyMidLine
  <2>2. CASE k # n \/ home[n] = file
    <3>1. home'[k] = home[k]
      BY <2>2 DEF Appends, PollIInv, HistoryTypeOK
    <3> QED
      BY <1>6, <2>1, <3>1
  <2>3. CASE k = n /\ Times(<<n, "head">>) = 0 /\ Times(<<n, "end">>) = 0
    <3>1. <<n, "head">> \in Units /\ <<n, "end">> \in Units
      BY DEF Units
    <3>2. /\ given[<<n, "head">>] \in Nat /\ given[<<n, "end">>] \in Nat
          /\ given[<<n, "head">>] <= 0 /\ given[<<n, "end">>] <= 0
      BY <2>3, <3>1, TimesNat DEF TailerIInv
    <3> QED
      BY <2>3, <3>2
  <2> QED
    BY <2>2, <2>3 DEF Appends
<1> QED
  BY <1>8, <1>9, <1>10, <1>12, <1>13, <1>14, <1>15, <1>16 DEF PollIInv, Appends

LEMMA RotationKeepsPolls ==
  ASSUME TailerIInv, PollIInv, Unlink \/ Create
  PROVE  PollIInv'
<1>1. /\ log' = <<>> /\ Len(log') = 0 /\ ~MidLine /\ ~MidLine'
      /\ UNCHANGED <<written, agent, offset, lastSize, polling, size, given,
                     latest, missed, home, slow, raced, swapped>>
  BY DEF Unlink, Create, tailerVars, pollHistory, writeHistory, MidLine
<1>2. \A i \in 1..Len(log') : FALSE
  BY <1>1
<1>3. \A u : Times(u)' = Times(u)
  BY <1>1 DEF Times
<1>4. HistoryTypeOK' /\ OffsetWithin'
  BY <1>1 DEF PollIInv, HistoryTypeOK, OffsetWithin
<1>5. NotYet'
  BY <1>1, <1>3 DEF PollIInv, NotYet
<1>6. LogOrder' /\ RacesKnown' /\ RepeatsKnown' /\ InOrder' /\ OffsetBetweenLines'
  BY <1>2 DEF LogOrder, RacesKnown, RepeatsKnown, InOrder, OffsetBetweenLines
<1>7. RepeatsExplained' /\ TornOnlyMidLine'
  BY <1>1, <1>3 DEF PollIInv, RepeatsExplained, TornOnlyMidLine, Disturbed
<1> QED
  BY <1>4, <1>5, <1>6, <1>7 DEF PollIInv

LEMMA FirstPollKeepsPolls ==
  ASSUME TailerIInv, PollIInv, FirstPoll
  PROVE  PollIInv'
<1>1. /\ ~initialized /\ ~polling
      /\ offset' = Len(log) /\ lastSize' = Len(log) /\ lastFile' = file
      /\ UNCHANGED <<file, log, written, agent, polling, size, given, latest,
                     sizeFile, missed, home, slow, raced, swapped>>
  BY DEF FirstPoll, fileVars, writeHistory, TailerIInv, Measured
<1>2. \A u \in Units : Times(u)' = 0
  <2> SUFFICES ASSUME NEW u \in Units PROVE Times(u)' = 0
    OBVIOUS
  <2>1. u \in Pieces /\ <<u[1], "whole">> \in Pieces
    BY DEF Units, Pieces
  <2> QED
    BY <1>1, <2>1 DEF Times, TailerIInv, HistoryBehind
<1>3. \A i \in 1..Len(log) : log[i] \in Units
  BY DEF TailerIInv, TailerTypeOK
<1>4. HistoryTypeOK' /\ LogOrder'
  BY <1>1 DEF PollIInv, HistoryTypeOK, LogOrder
<1>5. NotYet' /\ RacesKnown'
  BY <1>1, <1>2 DEF NotYet, RacesKnown
<1>6. OffsetWithin'
  <2>1. Len(log) \in Nat
    BY DEF TailerIInv, TailerTypeOK
  <2> QED
    BY <1>1, <2>1 DEF OffsetWithin
<1>7. RepeatsKnown'
  BY <1>1, <1>2, <1>3 DEF RepeatsKnown
<1>8. InOrder'
  <2>1. \A m \in Lines : Times(<<m, "end">>)' = 0
    BY <1>2 DEF Units
  <2> QED
    BY <2>1 DEF InOrder
<1>9. OffsetBetweenLines'
  BY <1>1 DEF OffsetBetweenLines, PollIInv, LogOrder
<1>10. RepeatsExplained'
  BY <1>2 DEF RepeatsExplained
<1>11. TornOnlyMidLine'
  BY <1>1 DEF PollIInv, TornOnlyMidLine
<1> QED
  BY <1>4, <1>5, <1>6, <1>7, <1>8, <1>9, <1>10, <1>11 DEF PollIInv

LEMMA StatKeepsPolls ==
  ASSUME TailerIInv, PollIInv, Stat
  PROVE  PollIInv'
<1>1. /\ exists /\ initialized /\ ~polling /\ polling' = TRUE
      /\ size' = Len(log) /\ sizeFile' = file
      /\ offset' = IF Len(log) < lastSize THEN 0 ELSE offset
      /\ missed' = IF ReplacementMissed THEN missed \cup {file} ELSE missed
      /\ UNCHANGED <<exists, file, log, written, agent, initialized, lastSize,
                     given, latest, lastFile, home, slow, raced, swapped>>
  BY DEF Stat, fileVars, OffsetAfterStat, writeHistory
<1>2. /\ Len(log) \in Nat /\ lastSize \in Nat /\ offset \in Nat
      /\ \A i \in 1..Len(log) : i \in Nat /\ i <= Len(log) /\ i # 0
  BY DEF TailerIInv, TailerTypeOK
<1>3. lastFile = file => offset' = offset
  BY <1>1, <1>2 DEF TailerIInv, Measured
<1>4. \A u : Times(u)' = Times(u)
  BY <1>1 DEF Times
<1>5. HistoryTypeOK' /\ LogOrder'
  BY <1>1 DEF PollIInv, HistoryTypeOK, LogOrder
<1>6. NotYet'
  BY <1>1, <1>4 DEF PollIInv, NotYet, MidLine
<1>7. OffsetWithin'
  BY <1>1, <1>2 DEF PollIInv, OffsetWithin
<1>8. RacesKnown'
  BY <1>1, <1>2 DEF RacesKnown
<1>9. \A i : Ahead(i)' <=> Ahead(i)
  BY <1>1, <1>3 DEF Ahead
<1>10. Disturbed' = Disturbed
  BY <1>1 DEF Disturbed
<1>11. RepeatsKnown'
  BY <1>1, <1>4, <1>9, <1>10 DEF PollIInv, RepeatsKnown, Prompt
<1>12. InOrder'
  BY <1>1, <1>4, <1>9, <1>10 DEF PollIInv, InOrder
<1>13. OffsetBetweenLines'
  <2> SUFFICES ASSUME NEW i \in 1..Len(log), log[i][2] = "head"
               PROVE  /\ i = offset' => \/ log[i][1] \in slow
                                        \/ file \in missed'
                                        \/ agent = "go" /\ log[i][1] \in LongLines
                      /\ i = Len(log) => log[i][1] \in slow
    BY <1>1 DEF OffsetBetweenLines
  <2>1. i = Len(log) => log[i][1] \in slow
    BY DEF PollIInv, LogOrder
  <2>2. CASE lastFile = file
    BY <1>1, <1>3, <2>1, <2>2 DEF PollIInv, OffsetBetweenLines
  <2>3. CASE lastFile # file
    <3>1. offset' = 0 \/ file \in missed'
      BY <1>1, <1>2, <2>3 DEF ReplacementMissed
    <3> QED
      BY <1>2, <2>1, <3>1
  <2> QED
    BY <2>2, <2>3
<1>14. RepeatsExplained'
  BY <1>4, <1>10 DEF PollIInv, RepeatsExplained
<1>15. TornOnlyMidLine'
  BY <1>1 DEF PollIInv, TornOnlyMidLine
<1> QED
  BY <1>5, <1>6, <1>7, <1>8, <1>11, <1>12, <1>13, <1>14, <1>15 DEF PollIInv

LEMMA OpenFailsKeepsPolls ==
  ASSUME TailerIInv, PollIInv, OpenFails
  PROVE  PollIInv'
<1>1. /\ polling /\ polling' = FALSE
      /\ UNCHANGED <<exists, file, log, written, agent, initialized, offset,
                     lastSize, given, latest, lastFile, missed, home, slow,
                     raced, swapped>>
  BY DEF OpenFails, EndPoll, fileVars, writeHistory
<1>2. \A u : Times(u)' = Times(u)
  BY <1>1 DEF Times
<1>3. HistoryTypeOK' /\ LogOrder'
  BY <1>1 DEF PollIInv, HistoryTypeOK, LogOrder
<1>4. NotYet'
  BY <1>1, <1>2 DEF PollIInv, NotYet, MidLine
<1>5. OffsetWithin' /\ RacesKnown'
  BY <1>1 DEF PollIInv, OffsetWithin, RacesKnown
<1>6. \A i : Ahead(i)' <=> Ahead(i)
  BY <1>1 DEF Ahead
<1>7. Disturbed' = Disturbed
  BY <1>1 DEF Disturbed
<1>8. RepeatsKnown' /\ InOrder'
  BY <1>1, <1>2, <1>6, <1>7 DEF PollIInv, RepeatsKnown, InOrder, Prompt
<1>9. OffsetBetweenLines'
  <2>1. lastFile = file => sizeFile = file
    BY <1>1 DEF TailerIInv, TailerTypeOK, Measured
  <2> QED
    BY <1>1, <2>1 DEF PollIInv, OffsetBetweenLines
<1>10. RepeatsExplained'
  BY <1>2, <1>7 DEF PollIInv, RepeatsExplained
<1>11. TornOnlyMidLine'
  BY <1>1 DEF PollIInv, TornOnlyMidLine
<1> QED
  BY <1>3, <1>4, <1>5, <1>8, <1>9, <1>10, <1>11 DEF PollIInv

(* The pieces of a line that are returned, by the units that were read.    *)
LEMMA PieceFacts ==
  ASSUME NEW units, NEW n \in Lines
  PROVE  /\ <<n, "whole">> \in PiecesOf(units)
              <=> <<n, "head">> \in units /\ <<n, "end">> \in units
         /\ <<n, "head">> \in PiecesOf(units)
              <=> <<n, "head">> \in units /\ <<n, "end">> \notin units
         /\ <<n, "end">> \in PiecesOf(units)
              <=> <<n, "head">> \notin units /\ <<n, "end">> \in units
BY DEF PiecesOf, Pieces

(* Which units of the log a read returns, and where it leaves the offset.  *)
LEMMA ReadUnits ==
  ASSUME TailerIInv, PollIInv, Read
  PROVE  /\ offset' \in Nat /\ offset <= offset'
         /\ \A u \in UnitsRead : \E i \in 1..Len(log) : u = log[i] /\ i > offset
         /\ \A i \in 1..Len(log) :
              log[i] \in UnitsRead
                <=> i > offset /\ (agent = "go" => i <= offset' /\ ~TooLong(i))
         /\ agent = "cpp" => offset' = size
         /\ agent = "go" /\ offset <= Len(log)
              => offset' = Len(log)
                 \/ (offset' \in 1..Len(log) /\ TooLong(offset'))
<1> DEFINE stop == IF agent = "go" THEN GoStopsAt ELSE Len(log)
           read == {j \in offset + 1..stop : agent = "go" => ~TooLong(j)}
           beyond == {i \in offset + 1..Len(log) : TooLong(i)}
<1>1. TailerTypeOK
  BY DEF TailerIInv
<1>2. PICK len \in Nat : len = Len(log)
  BY <1>1 DEF TailerTypeOK
<1>3. offset \in Nat /\ size \in Nat /\ agent \in {"cpp", "go"}
  BY <1>1 DEF TailerTypeOK
<1>4. /\ GoStopsAt \in Nat /\ GoStopsAt <= len
      /\ offset <= len => offset <= GoStopsAt
  BY <1>1, <1>2, GoStops
<1>5. /\ agent = "cpp" => offset' = size
      /\ agent = "go" => offset' = IF len < offset THEN offset ELSE GoStopsAt
  BY <1>2 DEF Read, OffsetAfterRead, CppOffsetAfterRead, GoOffsetAfterRead
<1>6. agent = "cpp" => offset <= size
  BY DEF PollIInv, OffsetWithin, Read
<1>7. UnitsRead = {log[i] : i \in read}
  BY DEF UnitsRead
<1>8. stop \in Nat /\ stop <= len /\ (agent = "cpp" => stop = len)
      /\ (agent = "go" => stop = GoStopsAt)
  BY <1>2, <1>3, <1>4
<1>9. \A i \in 1..len :
        i \in read <=> i > offset /\ (agent = "go" => i <= offset' /\ ~TooLong(i))
  BY <1>3, <1>4, <1>5, <1>8
<1>10. read \subseteq 1..len
  BY <1>3, <1>8
<1>11. \A i \in read : i > offset
  BY <1>9, <1>10
<1>12. agent = "go" /\ offset <= len
         => offset' = len \/ (offset' \in 1..len /\ TooLong(offset'))
  <2> SUFFICES ASSUME agent = "go", offset <= len
               PROVE  offset' = len \/ (offset' \in 1..len /\ TooLong(offset'))
    OBVIOUS
  <2>1. offset' = GoStopsAt
    BY <1>2, <1>3, <1>5
  <2>2. CASE beyond = {}
    BY <1>2, <2>1, <2>2 DEF GoStopsAt
  <2>3. CASE beyond # {}
    <3>1. beyond \in SUBSET Nat
      BY <1>3
    <3>2. Min(beyond) \in beyond
      BY <2>3, <3>1, MinMember
    <3>3. GoStopsAt = Min(beyond)
      BY <2>3 DEF GoStopsAt
    <3> QED
      BY <1>2, <1>3, <2>1, <3>2, <3>3
  <2> QED
    BY <2>2, <2>3
<1>13. offset' \in Nat /\ offset <= offset'
  BY <1>2, <1>3, <1>4, <1>5, <1>6
<1> HIDE DEF read
<1>14. \A i \in 1..len : log[i] \in UnitsRead <=> i \in read
  <2> SUFFICES ASSUME NEW i \in 1..len, log[i] \in UnitsRead PROVE i \in read
    BY <1>7
  <2>1. PICK j \in read : log[i] = log[j]
    BY <1>7
  <2>2. i = j
    BY <1>1, <1>2, <1>10, <2>1, LogDistinct DEF PollIInv
  <2> QED
    BY <2>1, <2>2
<1> QED
  BY <1>2, <1>5, <1>7, <1>9, <1>10, <1>11, <1>12, <1>13, <1>14

(* What a read does to the units of the log that are still ahead when it   *)
(* is over.                                                                *)
LEMMA AheadOfRead ==
  ASSUME TailerIInv, PollIInv, Read, NEW i \in 1..Len(log), Ahead(i)'
  PROVE  /\ Ahead(i)
         /\ \/ Times(log[i]) = 0 /\ log[i][1] \in Disturbed
            \/ /\ sizeFile = file /\ i > offset'
               /\ agent = "go" /\ log[i] \notin UnitsRead
               /\ ~Prompt
<1>1. /\ polling /\ lastFile' = sizeFile /\ file' = file
      /\ agent \in {"cpp", "go"}
      /\ {file, lastFile, sizeFile, offset, size} \subseteq Nat
      /\ sizeFile \in lastFile..file
      /\ i \in Nat /\ i <= Len(log) /\ Len(log) \in Nat
  BY DEF Read, fileVars, TailerIInv, TailerTypeOK, Measured
<1>2. /\ offset' \in Nat /\ offset <= offset'
      /\ log[i] \in UnitsRead
           <=> i > offset /\ (agent = "go" => i <= offset' /\ ~TooLong(i))
      /\ agent = "cpp" => offset' = size
      /\ agent = "go" /\ offset <= Len(log)
           => offset' = Len(log)
              \/ (offset' \in 1..Len(log) /\ TooLong(offset'))
  BY ReadUnits
<1>3. i > offset' \/ sizeFile # file
  BY <1>1 DEF Ahead
<1>4. Ahead(i)
  BY <1>1, <1>2, <1>3 DEF Ahead
<1>5. /\ sizeFile # file => Times(log[i]) = 0 /\ log[i][1] \in raced \cap swapped
      /\ sizeFile = file /\ i > size => Times(log[i]) = 0 /\ log[i][1] \in raced
  BY <1>1 DEF PollIInv, RacesKnown
<1>6. CASE sizeFile # file
  BY <1>4, <1>5, <1>6 DEF Disturbed
<1>7. CASE sizeFile = file /\ agent = "cpp"
  BY <1>2, <1>3, <1>4, <1>5, <1>7 DEF Disturbed
<1>8. CASE sizeFile = file /\ agent = "go"
  <2>1. i > offset' /\ ~(i <= offset') /\ offset <= Len(log) /\ offset' # Len(log)
    BY <1>1, <1>2, <1>3, <1>8
  <2>2. TooLong(offset')
    BY <1>2, <1>8, <2>1
  <2>3. ~Prompt
    BY <1>8, <2>2 DEF Prompt, TooLong
  <2> QED
    BY <1>2, <1>4, <1>8, <2>1, <2>3
<1> QED
  BY <1>1, <1>6, <1>7, <1>8

(* Reading: what is returned a second time was appended in the middle of a *)
(* poll, and what is returned in pieces began, or ended, where the read did. *)
LEMMA ReadKeepsPolls ==
  ASSUME TailerIInv, PollIInv, Read
  PROVE  PollIInv'
<1>1. /\ polling /\ polling' = FALSE /\ lastSize' = size /\ lastFile' = sizeFile
      /\ given' = [p \in Pieces |->
                     IF p \in PiecesOf(UnitsRead) THEN given[p] + 1 ELSE given[p]]
      /\ latest' = {n \in Lines : <<n, "whole">> \in PiecesOf(UnitsRead)}
      /\ UNCHANGED <<exists, file, log, written, agent, initialized, missed,
                     home, slow, raced, swapped>>
  BY DEF Read, EndPoll, fileVars, writeHistory
<1>2. /\ agent \in {"cpp", "go"}
      /\ {file, lastFile, sizeFile, offset, size} \subseteq Nat
      /\ sizeFile \in lastFile..file
      /\ Len(log) \in Nat
      /\ \A i \in 1..Len(log) : log[i] \in Units /\ log[i][1] \in Lines
  BY <1>1 DEF TailerIInv, TailerTypeOK, Measured, Units
<1>3. /\ offset' \in Nat /\ offset <= offset'
      /\ \A u \in UnitsRead : \E i \in 1..Len(log) : u = log[i] /\ i > offset
      /\ \A i \in 1..Len(log) :
           log[i] \in UnitsRead
             <=> i > offset /\ (agent = "go" => i <= offset' /\ ~TooLong(i))
      /\ agent = "cpp" => offset' = size
      /\ agent = "go" /\ offset <= Len(log)
           => offset' = Len(log) \/ (offset' \in 1..Len(log) /\ TooLong(offset'))
  BY ReadUnits
<1>4. UnitsRead \in SUBSET Units
  BY <1>2, <1>3
<1>5. \A u \in Units : /\ Times(u) \in Nat
                       /\ Times(u)' = IF u \in UnitsRead THEN Times(u) + 1 ELSE Times(u)
  BY <1>1, <1>4, UnitsCounted DEF TailerIInv
<1>6. \A i \in 1..Len(log) : Ahead(i)' =>
        /\ Ahead(i)
        /\ \/ Times(log[i]) = 0 /\ log[i][1] \in Disturbed
           \/ /\ sizeFile = file /\ i > offset'
              /\ agent = "go" /\ log[i] \notin UnitsRead
              /\ ~Prompt
  BY AheadOfRead
<1>7. Disturbed' = Disturbed /\ Prompt' = Prompt
  BY <1>1 DEF Disturbed, Prompt
<1>8. HistoryTypeOK' /\ LogOrder'
  BY <1>1 DEF PollIInv, HistoryTypeOK, LogOrder
<1>9. NotYet'
  <2> SUFFICES ASSUME NEW u \in Units,
                      u[1] > written \/ (MidLine /\ u = <<written, "end">>)
               PROVE  u \notin UnitsRead
    BY <1>1, <1>5 DEF PollIInv, NotYet, MidLine
  <2>1. ASSUME NEW i \in 1..Len(log), u = log[i] PROVE FALSE
    <3>1. log[i][1] <= written /\ (MidLine => log[i] # <<written, "end">>)
      BY DEF TailerIInv, NumberedUp
    <3>2. written \in Nat /\ log[i][1] \in Nat
      BY <1>2 DEF TailerIInv, TailerTypeOK, Lines
    <3> QED
      BY <2>1, <3>1, <3>2
  <2> QED
    BY <1>3, <2>1
<1>10. OffsetWithin' /\ RacesKnown'
  BY <1>1, <1>2, <1>3 DEF OffsetWithin, RacesKnown
<1>11. RepeatsKnown'
  <2> SUFFICES ASSUME NEW i \in 1..Len(log), Ahead(i)', Times(log[i])' > 0
               PROVE  /\ Times(log[i])' = 1
                      /\ log[i][1] \in Disturbed
                      /\ Prompt /\ given'[<<log[i][1], "whole">>] > 0
                           => log[i][1] \in latest'
    BY <1>1, <1>7 DEF RepeatsKnown, Times
  <2>1. CASE Times(log[i]) = 0 /\ log[i][1] \in Disturbed
    <3>1. Times(log[i])' = 1
      BY <1>1, <1>2, <1>5, <2>1
    <3>2. given[<<log[i][1], "whole">>] = 0
      BY <1>2, <2>1, TimesNat DEF TailerIInv
    <3>3. <<log[i][1], "whole">> \in Pieces
      BY <1>2 DEF Pieces
    <3>4. given'[<<log[i][1], "whole">>] > 0
            => <<log[i][1], "whole">> \in PiecesOf(UnitsRead)
      BY <1>1, <3>2, <3>3
    <3> QED
      BY <1>1, <1>2, <2>1, <3>1, <3>4
  <2>2. CASE log[i] \notin UnitsRead /\ ~Prompt
    <3>1. Times(log[i])' = Times(log[i])
      BY <1>1, <1>2, <1>5, <2>2
    <3> QED
      BY <1>6, <2>2, <3>1 DEF PollIInv, RepeatsKnown
  <2> QED
    BY <1>6, <2>1, <2>2
<1>12. InOrder'
  <2> SUFFICES ASSUME NEW m \in Lines \ Disturbed, Times(<<m, "end">>)' > 0,
                      NEW i \in 1..Len(log), Ahead(i)'
               PROVE  m < log[i][1]
    BY <1>1, <1>7 DEF InOrder, Times
  <2>1. <<m, "end">> \in Units
    BY DEF Units
  <2>2. CASE <<m, "end">> \notin UnitsRead
    <3>1. Times(<<m, "end">>) > 0
      BY <1>5, <2>1, <2>2
    <3> QED
      BY <1>6, <3>1 DEF PollIInv, InOrder
  <2>3. CASE <<m, "end">> \in UnitsRead
    <3>1. PICK j \in 1..Len(log) : log[j] = <<m, "end">> /\ j > offset
      BY <1>3, <2>3
    <3>2. j < i
      <4>1. sizeFile = file
        <5>1. sizeFile # file => log[j][1] \in raced \cap swapped
          BY <1>1 DEF PollIInv, RacesKnown
        <5> QED
          BY <3>1, <5>1 DEF Disturbed
      <4>2. i > offset'
        BY <1>1, <4>1 DEF Ahead
      <4>3. CASE agent = "cpp"
        <5>1. j > size => log[j][1] \in raced
          BY <1>1, <4>1 DEF PollIInv, RacesKnown
        <5>2. ~(j > size)
          BY <3>1, <4>3, <5>1 DEF Disturbed
        <5> QED
          BY <1>2, <1>3, <4>2, <4>3, <5>2
      <4>4. CASE agent = "go"
        <5>1. j <= offset'
          BY <1>3, <2>3, <3>1, <4>4
        <5> QED
          BY <1>3, <4>2, <5>1
      <4> QED
        BY <1>2, <4>3, <4>4
    <3> QED
      BY <3>1, <3>2 DEF PollIInv, LogOrder
  <2> QED
    BY <2>2, <2>3
<1>13. OffsetBetweenLines'
  <2> SUFFICES ASSUME NEW i \in 1..Len(log), log[i][2] = "head",
                      file = sizeFile, i = offset'
               PROVE  \/ log[i][1] \in slow
                      \/ agent = "go" /\ log[i][1] \in LongLines
    BY <1>1 DEF OffsetBetweenLines
  <2>1. CASE agent = "cpp"
    BY <1>1, <1>3, <2>1 DEF PollIInv, OffsetBetweenLines
  <2>2. CASE agent = "go"
    <3>1. offset <= Len(log)
      BY <1>2, <1>3
    <3>2. i = Len(log) => log[i][1] \in slow
      BY DEF PollIInv, LogOrder
    <3> QED
      BY <1>3, <2>2, <3>1, <3>2 DEF TooLong
  <2> QED
    BY <1>2, <2>1, <2>2
<1>14. RepeatsExplained'
  <2> SUFFICES ASSUME NEW u \in Units
               PROVE  /\ Times(u)' <= 2
                      /\ Times(u)' = 2 => u[1] \in Disturbed
    BY <1>7 DEF RepeatsExplained
  <2>1. CASE u \notin UnitsRead
    BY <1>5, <2>1 DEF PollIInv, RepeatsExplained
  <2>2. CASE u \in UnitsRead
    <3>1. PICK i \in 1..Len(log) : u = log[i] /\ i > offset
      BY <1>3, <2>2
    <3>2. Times(u) > 0 => Times(u) = 1 /\ u[1] \in Disturbed
      BY <3>1 DEF PollIInv, RepeatsKnown, Ahead
    <3>3. Times(u) \in Nat /\ Times(u)' = Times(u) + 1
      BY <1>5, <2>2
    <3> QED
      BY <3>2, <3>3
  <2> QED
    BY <2>1, <2>2
<1>15. TornOnlyMidLine'
  <2> SUFFICES ASSUME NEW n \in Lines,
                      given'[<<n, "head">>] + given'[<<n, "end">>] > 0
               PROVE  \/ n \in slow \cup swapped
                      \/ home[n] \in missed
                      \/ agent = "go" /\ n \in LongLines
    BY <1>1 DEF TornOnlyMidLine
  <2>1. /\ <<n, "head">> \in Units /\ <<n, "end">> \in Units
        /\ <<n, "head">> \in Pieces /\ <<n, "end">> \in Pieces
    BY DEF Units, Pieces
  <2>2. CASE given[<<n, "head">>] + given[<<n, "end">>] > 0
    BY <2>2 DEF PollIInv, TornOnlyMidLine
  <2>3. CASE <<n, "head">> \in UnitsRead /\ <<n, "end">> \notin UnitsRead
    <3>1. PICK i \in 1..Len(log) : log[i] = <<n, "head">> /\ i > offset
      BY <1>3, <2>3
    <3>2. IF i = Len(log) THEN n \in slow ELSE log[i + 1] = <<n, "end">>
      BY <3>1 DEF PollIInv, LogOrder
    <3>3. CASE i # Len(log)
      <4>1. PICK j \in 1..Len(log) : j = i + 1
        BY <1>2, <3>3
      <4>2. log[j] = <<n, "end">> /\ j > offset /\ ~TooLong(j)
        BY <1>2, <3>1, <3>2, <3>3, <4>1 DEF TooLong
      <4>3. agent = "go" /\ ~(j <= offset')
        BY <1>3, <2>3, <4>2
      <4>4. i <= offset' /\ ~TooLong(i)
        BY <1>3, <2>3, <3>1, <4>3
      <4>5. i = offset' /\ offset <= Len(log) /\ offset' # Len(log)
        BY <1>2, <1>3, <3>1, <3>3, <4>1, <4>3, <4>4
      <4> QED
        BY <1>3, <4>3, <4>4, <4>5
    <3> QED
      BY <3>2, <3>3
  <2>4. CASE <<n, "end">> \in UnitsRead /\ <<n, "head">> \notin UnitsRead
    <3>1. PICK i \in 1..Len(log) : log[i] = <<n, "end">> /\ i > offset
      BY <1>3, <2>4
    <3>2. i > 1 /\ log[i - 1] = <<n, "head">> /\ home[n] = file
      BY <3>1 DEF PollIInv, LogOrder
    <3>3. PICK j \in 1..Len(log) : j = i - 1
      BY <1>2, <3>2
    <3>4. log[j] = <<n, "head">> /\ j >= offset
      BY <1>2, <3>1, <3>2, <3>3
    <3>5. CASE j > offset
      <4>1. agent = "go" /\ (j <= offset' => TooLong(j))
        BY <1>3, <2>4, <3>4, <3>5
      <4>2. i <= offset'
        BY <1>3, <2>4, <3>1, <4>1
      <4>3. j <= offset'
        BY <1>3, <3>3, <4>2
      <4> QED
        BY <3>4, <4>1, <4>3 DEF TooLong
    <3>6. CASE j = offset
      <4>1. CASE sizeFile = file
        <5>1. initialized
          BY <1>1 DEF TailerIInv, Measured
        <5> QED
          BY <1>1, <3>2, <3>4, <3>6, <4>1, <5>1 DEF PollIInv, OffsetBetweenLines
      <4>2. CASE sizeFile # file
        BY <1>1, <3>4, <4>2 DEF PollIInv, RacesKnown
      <4> QED
        BY <4>1, <4>2
    <3> QED
      BY <1>2, <3>4, <3>5, <3>6
  <2>5. CASE <<n, "head">> \notin PiecesOf(UnitsRead)
             /\ <<n, "end">> \notin PiecesOf(UnitsRead)
    <3>1. given'[<<n, "head">>] = given[<<n, "head">>]
          /\ given'[<<n, "end">>] = given[<<n, "end">>]
      BY <1>1, <2>1, <2>5
    <3> QED
      BY <2>2, <3>1
  <2> QED
    BY <2>3, <2>4, <2>5, PieceFacts
<1> QED
  BY <1>8, <1>9, <1>10, <1>11, <1>12, <1>13, <1>14, <1>15 DEF PollIInv

(* Nothing of what the polls have done so far is undone by a step: what a  *)
(* later poll may return again came in the middle of one, and follows      *)
(* whatever was returned in its turn.                                      *)
THEOREM PollInvariant == Spec => [](TailerIInv /\ PollIInv)
<1>1. Init => PollIInv
  <2> SUFFICES ASSUME Init PROVE PollIInv
    OBVIOUS
  <2>1. /\ log = <<>> /\ Len(log) = 0 /\ ~polling /\ offset = 0 /\ lastSize = 0
        /\ given = [p \in Pieces |-> 0]
        /\ latest = {} /\ slow = {} /\ raced = {} /\ swapped = {}
        /\ home = [n \in Lines |-> 0]
    BY DEF Init
  <2>2. HistoryTypeOK
    BY <2>1 DEF HistoryTypeOK
  <2>3. \A u \in Units : Times(u) = 0
    BY <2>1 DEF Times, Units, Pieces
  <2>4. NotYet /\ RepeatsExplained
    BY <2>3 DEF NotYet, RepeatsExplained
  <2>5. TornOnlyMidLine
    BY <2>1 DEF TornOnlyMidLine, Pieces
  <2>6. LogOrder /\ RepeatsKnown /\ InOrder /\ OffsetBetweenLines
    BY <2>1 DEF LogOrder, RepeatsKnown, InOrder, OffsetBetweenLines
  <2>7. OffsetWithin /\ RacesKnown
    BY <2>1 DEF OffsetWithin, RacesKnown
  <2> QED
    BY <2>2, <2>4, <2>5, <2>6, <2>7 DEF PollIInv
<1>2. TailerIInv /\ PollIInv /\ [Next]_vars => PollIInv'
  <2> SUFFICES ASSUME TailerIInv, PollIInv, [Next]_vars PROVE PollIInv'
    OBVIOUS
  <2>1. CASE WriteLine \/ StartLine \/ FinishLine
    <3>1. PICK n \in Lines : Appends(n)
      BY <2>1, WriteLineAppends, StartLineAppends, FinishLineAppends
    <3> QED
      BY <3>1, AppendKeepsPolls
  <2>2. CASE Unlink \/ Create
    BY <2>2, RotationKeepsPolls
  <2>3. CASE Poll
    BY <2>3, FirstPollKeepsPolls, StatKeepsPolls, OpenFailsKeepsPolls,
       ReadKeepsPolls DEF Poll
  <2>4. CASE UNCHANGED vars
    BY <2>4 DEF vars, fileVars, tailerVars, pollHistory, writeHistory,
       PollIInv, HistoryTypeOK, LogOrder, NotYet, MidLine, OffsetWithin, RacesKnown,
       Ahead, RepeatsKnown, InOrder, OffsetBetweenLines, RepeatsExplained,
       TornOnlyMidLine, Disturbed, Prompt, Times
  <2> QED
    BY <2>1, <2>2, <2>3, <2>4 DEF Next, Writers
<1> QED
  BY <1>1, <1>2, TailerInvariant, PTL DEF Spec

(* A line is returned a second time only if it was appended in the middle  *)
(* of a poll, and never a third time.                                      *)
THEOREM RepeatsHaveAReason == Spec => []RepeatsExplained
<1>1. PollIInv => RepeatsExplained
  BY DEF PollIInv
<1> QED
  BY <1>1, PollInvariant, PTL

(* A line appended in one write is torn only by an offset that belongs to  *)
(* another file, or by the scanner's limit.                                *)
THEOREM TornLinesHaveAReason == Spec => []TornOnlyMidLine
<1>1. PollIInv => TornOnlyMidLine
  BY DEF PollIInv
<1> QED
  BY <1>1, PollInvariant, PTL

----------------------------------------------------------------------------
(* Refinement *)

(* The lines whose end is in the log. *)
LEMMA EndsInLog ==
  ASSUME TailerIInv, NEW i \in 1..Len(log), NEW n \in Lines, log[i] = <<n, "end">>
  PROVE  n \in 1..Finished
<1>1. n \in Nat /\ n >= 1 /\ written \in Nat
  BY DEF TailerIInv, TailerTypeOK, Lines
<1>2. n <= written /\ (MidLine => <<n, "end">> # <<written, "end">>)
  BY DEF TailerIInv, NumberedUp
<1>3. MidLine => n # written
  BY <1>2
<1> QED
  BY <1>1, <1>2, <1>3 DEF Finished

(* What a sequence of units consists of. *)
LEMMA UnitSet ==
  ASSUME NEW units \in Seq(Units)
  PROVE  \A u : u \in ToSet(units) <=> \E i \in 1..Len(units) : u = units[i]
BY DEF ToSet

(* A line that is finished arrives in the feed. *)
LEMMA FinishArrives ==
  ASSUME TailerIInv, PollIInv, NEW n \in Lines, Appends(n),
         Finished = n - 1, Finished' = n,
         \E i \in 1..Len(log') : i \notin 1..Len(log) /\ log'[i] = <<n, "end">>
  PROVE  \E amidPoll \in BOOLEAN : Feed!Arrive(amidPoll)
<1>1. /\ n \in Nat /\ n <= MaxLines /\ MaxLines \in Nat /\ n - 1 < MaxLines
      /\ (n - 1) + 1 = n
      /\ 1..n = 1..(n - 1) \cup {n}
      /\ n \notin 1..(n - 1)
  BY TailerAssumption DEF Lines
<1>2. /\ given' = given /\ latest' = latest /\ skipped' = skipped /\ agent' = agent
      /\ Prompt' = Prompt /\ TimesWhole' = TimesWhole
  BY DEF Appends, Grows, tailerVars, pollHistory, Prompt, TimesWhole
<1>3. Disturbed' \ {n} = Disturbed \ {n}
  BY <1>2 DEF Disturbed, Appends
<1>4. Amid' = IF n \in Disturbed' THEN Amid \cup {n} ELSE Amid
  BY <1>1, <1>3 DEF Amid
<1>5. /\ \A u : u \in ToSet(log) <=> \E i \in 1..Len(log) : u = log[i]
      /\ \A u : u \in ToSet(log') <=> \E i \in 1..Len(log') : u = log'[i]
  <2>1. log \in Seq(Units) /\ log' \in Seq(Units)
    BY DEF TailerIInv, TailerTypeOK, Appends, Grows
  <2> QED
    BY <2>1, UnitSet
<1>6. /\ \A i \in 1..Len(log) : i \in 1..Len(log') /\ log'[i] = log[i]
      /\ \A i \in 1..Len(log') :
           i \in 1..Len(log) \/ (log'[i][1] = n /\ log'[i] \notin skipped)
  <2>1. /\ Len(log) \in Nat /\ Len(log') \in Nat /\ Len(log') >= Len(log)
        /\ \A i \in 1..Len(log) : log'[i] = log[i]
    BY DEF Appends, Grows, TailerIInv, TailerTypeOK
  <2>2. \A i \in 1..Len(log') : i \in 1..Len(log) \/ log'[i][1] = n
    BY DEF Appends
  <2>3. \A i \in 1..Len(log') : i \in 1..Len(log) \/ log'[i] \notin skipped
    BY DEF Appends, Grows
  <2>4. \A i \in 1..Len(log) : i \in 1..Len(log')
    BY <2>1
  <2> QED
    BY <2>1, <2>2, <2>3, <2>4
<1>7. \A k \in Lines : k # n =>
        (<<k, "end">> \in ToSet(log') <=> <<k, "end">> \in ToSet(log))
  BY <1>5, <1>6
<1>8. <<n, "end">> \in ToSet(log') \ skipped
  BY <1>5, <1>6
<1>9. given[<<n, "whole">>] = 0
  <2>1. <<n, "end">> \in Units
    BY DEF Units
  <2>2. Times(<<n, "end">>) = 0
    BY DEF Appends
  <2> QED
    BY <2>1, <2>2, TimesNat DEF TailerIInv
<1>10. Held' = Held \cup {n}
  <2>1. \A k \in Lines : k # n => (k \in Amid' <=> k \in Amid)
    BY <1>4
  <2>2. \A k \in Lines : k # n => (k \in Held' <=> k \in Held)
    BY <1>2, <1>7, <2>1 DEF Held
  <2>3. n \in Held'
    BY <1>2, <1>8, <1>9 DEF Held
  <2>4. Held \subseteq Lines /\ Held' \subseteq Lines
    BY DEF Held, Lines
  <2> QED
    BY <2>2, <2>3, <2>4
<1>11. CASE n \in Disturbed'
  <2>1. Feed!Arrive(TRUE)
    BY <1>1, <1>2, <1>4, <1>10, <1>11 DEF Feed!Arrive
  <2> QED
    BY <2>1
<1>12. CASE n \notin Disturbed'
  <2>1. Feed!Arrive(FALSE)
    BY <1>1, <1>2, <1>4, <1>10, <1>12 DEF Feed!Arrive
  <2> QED
    BY <2>1
<1> QED
  BY <1>11, <1>12

(* Beginning a line changes nothing for the feed. *)
LEMMA StartStutters ==
  ASSUME TailerIInv, PollIInv, NEW n \in Lines, Appends(n),
         Finished = n - 1, Finished' = n - 1,
         \A i \in 1..Len(log') : i \in 1..Len(log) \/ log'[i] = <<n, "head">>
  PROVE  UNCHANGED Feed!feedVars
<1>1. n \in Nat /\ n \notin 1..(n - 1)
  BY DEF Lines
<1>2. /\ given' = given /\ latest' = latest /\ skipped' = skipped /\ agent' = agent
      /\ Prompt' = Prompt /\ TimesWhole' = TimesWhole
  BY DEF Appends, Grows, tailerVars, pollHistory, Prompt, TimesWhole
<1>3. Disturbed' \ {n} = Disturbed \ {n}
  BY <1>2 DEF Disturbed, Appends
<1>4. Amid' = Amid
  BY <1>1, <1>3 DEF Amid
<1>5. /\ \A u : u \in ToSet(log) <=> \E i \in 1..Len(log) : u = log[i]
      /\ \A u : u \in ToSet(log') <=> \E i \in 1..Len(log') : u = log'[i]
  <2>1. log \in Seq(Units) /\ log' \in Seq(Units)
    BY DEF TailerIInv, TailerTypeOK, Appends, Grows
  <2> QED
    BY <2>1, UnitSet
<1>6. \A i \in 1..Len(log) : i \in 1..Len(log') /\ log'[i] = log[i]
  <2>1. /\ Len(log) \in Nat /\ Len(log') \in Nat /\ Len(log') >= Len(log)
        /\ \A i \in 1..Len(log) : log'[i] = log[i]
    BY DEF Appends, Grows, TailerIInv, TailerTypeOK
  <2> QED
    BY <2>1
<1>7. \A k \in Lines : <<k, "end">> \in ToSet(log') <=> <<k, "end">> \in ToSet(log)
  BY <1>5, <1>6
<1>8. Held' = Held
  BY <1>2, <1>4, <1>7 DEF Held, Lines
<1> QED
  BY <1>2, <1>4, <1>8 DEF Feed!feedVars

(* Rotation, and the first poll, leave nothing to return of what was there. *)
LEMMA RotationDrops ==
  ASSUME TailerIInv, Unlink \/ Create \/ FirstPoll
  PROVE  Feed!Drop(Held)
<1>1. /\ UNCHANGED <<written, agent, given, latest, raced, swapped>>
      /\ Finished' = Finished
  BY DEF Unlink, Create, FirstPoll, fileVars, tailerVars, pollHistory,
     writeHistory, Finished, MidLine
<1>2. Amid' = Amid /\ Prompt' = Prompt /\ TimesWhole' = TimesWhole
  BY <1>1 DEF Amid, Disturbed, Prompt, TimesWhole
<1>3. ToSet(log') \ skipped' = {}
  BY DEF Unlink, Create, FirstPoll, fileVars, ToSet
<1>4. Held' = Held \ Held
  BY <1>3 DEF Held
<1> QED
  BY <1>1, <1>2, <1>4 DEF Feed!Drop

LEMMA PollStutters ==
  ASSUME Stat \/ OpenFails \/ UNCHANGED vars
  PROVE  UNCHANGED Feed!feedVars
<1>1. UNCHANGED <<log, written, agent, given, latest, skipped, raced, swapped>>
  BY DEF Stat, OpenFails, vars, fileVars, tailerVars, pollHistory, writeHistory
<1>2. Finished' = Finished /\ Prompt' = Prompt /\ TimesWhole' = TimesWhole
  BY <1>1 DEF Finished, MidLine, Prompt, TimesWhole
<1>3. Amid' = Amid
  BY <1>1, <1>2 DEF Amid, Disturbed
<1>4. Held' = Held
  BY <1>1, <1>2, <1>3 DEF Held
<1> QED
  BY <1>2, <1>3, <1>4 DEF Feed!feedVars

(* A read is a poll of the feed: it returns lines that are due. *)
LEMMA ReadPolls ==
  ASSUME TailerIInv, PollIInv, Read
  PROVE  latest' \in SUBSET Held /\ Feed!Poll(latest')
<1>1. /\ given' = [p \in Pieces |->
                     IF p \in PiecesOf(UnitsRead) THEN given[p] + 1 ELSE given[p]]
      /\ latest' = {n \in Lines : <<n, "whole">> \in PiecesOf(UnitsRead)}
      /\ UNCHANGED <<log, written, agent, skipped, raced, swapped>>
  BY DEF Read, fileVars, writeHistory
<1>2. Finished' = Finished /\ Prompt' = Prompt /\ Amid' = Amid
  BY <1>1 DEF Finished, MidLine, Prompt, Amid, Disturbed
<1>3. \A n \in Lines : given[<<n, "whole">>] \in Nat
  BY DEF TailerIInv, TailerTypeOK, Pieces
<1>4. \A n \in Lines :
        given'[<<n, "whole">>] = IF n \in latest' THEN given[<<n, "whole">>] + 1
                                 ELSE given[<<n, "whole">>]
  BY <1>1 DEF Pieces
<1>5. ASSUME NEW n \in latest'
      PROVE  /\ n \in Held
             /\ TimesWhole[n] = 0 =>
                  \A m \in Lines \ Amid : TimesWhole[m] > 0 => m < n
  <2>1. n \in Lines /\ <<n, "end">> \in UnitsRead
    BY <1>1, <1>5, PieceFacts
  <2>2. PICK i \in 1..Len(log) : log[i] = <<n, "end">> /\ i > offset
    BY <2>1, ReadUnits
  <2>3. n \in 1..Finished
    BY <2>1, <2>2, EndsInLog
  <2>4. /\ log[i] \in Units /\ Times(log[i]) \in Nat
        /\ given[<<n, "whole">>] \in Nat /\ given[<<n, "whole">>] <= Times(log[i])
    <3>1. log[i][1] = n
      BY <2>2
    <3>2. log[i] \in Units
      BY DEF TailerIInv, TailerTypeOK
    <3> QED
      BY <3>1, <3>2, TimesNat DEF TailerIInv
  <2>5. log[i] \notin skipped
    <3>1. log[i] \in skipped => i <= offset
      BY DEF TailerIInv, HistoryBehind
    <3>2. offset \in Nat
      BY DEF TailerIInv, TailerTypeOK
    <3> QED
      BY <2>2, <3>1, <3>2
  <2>6. <<n, "end">> \in ToSet(log) \ skipped
    <3>1. log \in Seq(Units)
      BY DEF TailerIInv, TailerTypeOK
    <3> QED
      BY <2>2, <2>5, <3>1, UnitSet
  <2>7. Times(log[i]) > 0 =>
          /\ Times(log[i]) = 1 /\ n \in Disturbed
          /\ Prompt /\ given[<<n, "whole">>] > 0 => n \in latest
    BY <2>2 DEF PollIInv, RepeatsKnown, Ahead
  <2>8. \/ given[<<n, "whole">>] = 0
        \/ given[<<n, "whole">>] = 1 /\ n \in Amid /\ (Prompt => n \in latest)
    BY <2>3, <2>4, <2>7 DEF Amid
  <2>9. n \in Held
    BY <2>1, <2>6, <2>8 DEF Held
  <2>10. ASSUME NEW m \in Lines \ Amid, TimesWhole[m] > 0 PROVE m < n
    <3>1. <<m, "end">> \in Units /\ m \in Nat /\ m >= 1
      BY DEF Units, Lines
    <3>2. Times(<<m, "end">>) > 0
      <4>1. given[<<m, "whole">>] > 0
        BY <2>10 DEF TimesWhole
      <4> QED
        BY <3>1, <4>1, TimesNat DEF TailerIInv
    <3>3. ~(m > written) /\ ~(MidLine /\ m = written)
      BY <3>1, <3>2 DEF PollIInv, NotYet
    <3>4. m \in 1..Finished
      <4>1. written \in Nat
        BY DEF TailerIInv, TailerTypeOK
      <4> QED
        BY <3>1, <3>3, <4>1 DEF Finished
    <3>5. m \notin Disturbed
      BY <3>4 DEF Amid
    <3> QED
      BY <2>2, <3>2, <3>5 DEF PollIInv, InOrder, Ahead
  <2> QED
    BY <2>9, <2>10
<1>6. latest' \in SUBSET Held
  BY <1>5
<1>7. \A n \in latest' : Feed!MayReturn(n)
  BY <1>5 DEF Feed!MayReturn, Feed!Lines, Lines
<1>8. TimesWhole' = [n \in Lines |-> IF n \in latest' THEN TimesWhole[n] + 1
                                     ELSE TimesWhole[n]]
  BY <1>4 DEF TimesWhole, Lines
<1>9. Held' = {n \in Held : IF Prompt \/ n \in latest'
                            THEN TimesWhole[n] = 0 /\ (n \in latest' => n \in Amid)
                            ELSE TRUE}
  <2> DEFINE due == {n \in Held : IF Prompt \/ n \in latest'
                            THEN TimesWhole[n] = 0 /\ (n \in latest' => n \in Amid)
                            ELSE TRUE}
  <2>1. ASSUME NEW n \in Lines PROVE n \in Held' <=> n \in due
    <3>1. n \in Held' <=>
            /\ <<n, "end">> \in ToSet(log) \ skipped
            /\ \/ given'[<<n, "whole">>] = 0
               \/ /\ given'[<<n, "whole">>] = 1 /\ n \in Amid
                  /\ Prompt => n \in latest'
      BY <1>1, <1>2 DEF Held, Lines
    <3>2. n \in Held <=>
            /\ <<n, "end">> \in ToSet(log) \ skipped
            /\ \/ given[<<n, "whole">>] = 0
               \/ /\ given[<<n, "whole">>] = 1 /\ n \in Amid
                  /\ Prompt => n \in latest
      BY DEF Held
    <3>3. TimesWhole[n] = given[<<n, "whole">>]
      BY DEF TimesWhole
    <3>4. CASE n \in latest'
      <4>1. given'[<<n, "whole">>] # 0
            /\ (given'[<<n, "whole">>] = 1 <=> given[<<n, "whole">>] = 0)
        BY <1>3, <1>4, <3>4
      <4> QED
        BY <3>1, <3>2, <3>3, <3>4, <4>1
    <3>5. CASE n \notin latest'
      <4>1. given'[<<n, "whole">>] = given[<<n, "whole">>]
        BY <1>4, <3>5
      <4> QED
        BY <3>1, <3>2, <3>3, <3>5, <4>1
    <3> QED
      BY <3>4, <3>5
  <2>2. Held' \subseteq Lines /\ Held \subseteq Lines
    BY DEF Held, Lines
  <2> QED
    BY <2>1, <2>2
<1> QED
  BY <1>2, <1>6, <1>7, <1>8, <1>9 DEF Feed!Poll, Feed!Lines, Lines

(* Each step of the writers and of a tailer is a step of the feed, or      *)
(* leaves it alone.                                                        *)
LEMMA NextFeeds ==
  ASSUME TailerIInv, PollIInv, [Next]_vars
  PROVE  [Feed!FeedNext]_(Feed!feedVars)
<1>1. PICK len \in Nat : len = Len(log)
  BY DEF TailerIInv, TailerTypeOK
<1>2. log \in Seq(Units) /\ written \in Nat
  BY DEF TailerIInv, TailerTypeOK
<1>3. CASE WriteLine
  <2>1. PICK n \in Lines : Appends(n)
    BY <1>3, WriteLineAppends
  <2>2. written + 1 \in Lines
    BY <1>2, <1>3, TailerAssumption DEF WriteLine, Lines
  <2>3. log' = log \o << <<written + 1, "head">>, <<written + 1, "end">> >>
    BY <1>3 DEF WriteLine, AppendUnits
  <2>4. /\ Len(log') = len + 2
        /\ log'[len + 1] = <<written + 1, "head">>
        /\ log'[len + 2] = <<written + 1, "end">>
    BY <1>1, <1>2, <2>2, <2>3, LineUnits
  <2>5. len + 2 \in 1..Len(log') /\ len + 2 \notin 1..Len(log)
    BY <1>1, <2>4
  <2>6. n = written + 1
    BY <2>1, <2>4, <2>5 DEF Appends
  <2>7. Finished = n - 1 /\ Finished' = n
    <3>1. ~MidLine /\ written' = written + 1
      BY <1>3 DEF WriteLine
    <3>2. ~MidLine'
      BY <2>4 DEF MidLine, Last
    <3> QED
      BY <1>2, <2>6, <3>1, <3>2 DEF Finished
  <2>8. \E amidPoll \in BOOLEAN : Feed!Arrive(amidPoll)
    BY <2>1, <2>4, <2>5, <2>6, <2>7, FinishArrives
  <2> QED
    BY <2>8 DEF Feed!FeedNext
<1>4. CASE FinishLine
  <2>1. PICK n \in Lines : Appends(n)
    BY <1>4, FinishLineAppends
  <2>2. MidLine /\ written' = written
    BY <1>4 DEF FinishLine
  <2>3. written \in Lines
    <3>1. len > 0 /\ log[len] = <<written, "head">>
      BY <1>1, <2>2 DEF MidLine, Last, TailerIInv, TailerTypeOK, NumberedUp
    <3>2. log[len] \in Units
      BY <1>1, <1>2, <3>1
    <3> QED
      BY <3>1, <3>2 DEF Units
  <2>4. log' = log \o << <<written, "end">> >>
    BY <1>4 DEF FinishLine, AppendUnits
  <2>5. Len(log') = len + 1 /\ log'[len + 1] = <<written, "end">>
    BY <1>1, <1>2, <2>3, <2>4, LineUnits
  <2>6. len + 1 \in 1..Len(log') /\ len + 1 \notin 1..Len(log)
    BY <1>1, <2>5
  <2>7. n = written
    BY <2>1, <2>5, <2>6 DEF Appends
  <2>8. Finished = n - 1 /\ Finished' = n
    <3>1. ~MidLine'
      BY <2>5 DEF MidLine, Last
    <3> QED
      BY <2>2, <2>7, <3>1 DEF Finished
  <2>9. \E amidPoll \in BOOLEAN : Feed!Arrive(amidPoll)
    BY <2>1, <2>5, <2>6, <2>7, <2>8, FinishArrives
  <2> QED
    BY <2>9 DEF Feed!FeedNext
<1>5. CASE StartLine
  <2>1. PICK n \in Lines : Appends(n)
    BY <1>5, StartLineAppends
  <2>2. written + 1 \in Lines
    BY <1>2, <1>5, TailerAssumption DEF StartLine, Lines
  <2>3. log' = log \o << <<written + 1, "head">> >>
    BY <1>5 DEF StartLine, AppendUnits
  <2>4. Len(log') = len + 1 /\ log'[len + 1] = <<written + 1, "head">>
    BY <1>1, <1>2, <2>2, <2>3, LineUnits
  <2>5. len + 1 \in 1..Len(log') /\ len + 1 \notin 1..Len(log)
    BY <1>1, <2>4
  <2>6. n = written + 1
    BY <2>1, <2>4, <2>5 DEF Appends
  <2>7. Finished = n - 1 /\ Finished' = n - 1
    <3>1. ~MidLine /\ written' = written + 1
      BY <1>5 DEF StartLine
    <3>2. MidLine'
      BY <2>4 DEF MidLine, Last
    <3> QED
      BY <1>2, <2>6, <3>1, <3>2 DEF Finished
  <2>8. \A i \in 1..Len(log') : i \in 1..Len(log) \/ log'[i] = <<n, "head">>
    <3>1. \A i \in 1..Len(log') : i \in 1..len \/ i = len + 1
      BY <2>4
    <3> QED
      BY <1>1, <2>4, <2>6, <3>1
  <2> QED
    BY <2>1, <2>7, <2>8, StartStutters
<1>6. CASE Unlink \/ Create \/ FirstPoll
  <2>1. Held \in SUBSET Held
    OBVIOUS
  <2> QED
    BY <1>6, <2>1, RotationDrops DEF Feed!FeedNext
<1>7. CASE Stat \/ OpenFails \/ UNCHANGED vars
  BY <1>7, PollStutters
<1>8. CASE Read
  BY <1>8, ReadPolls DEF Feed!FeedNext
<1> QED
  BY <1>3, <1>4, <1>5, <1>6, <1>7, <1>8 DEF Next, Writers, Poll

(* The tailers of both agents implement the feed: whole lines, each once   *)
(* and in the order they were written, unless they came in the middle of a *)
(* poll.                                                                   *)
THEOREM TailersImplementFeed == Spec => ImplementsFeed
<1>1. Init => Feed!FeedInit
  <2> SUFFICES ASSUME Init PROVE Feed!FeedInit
    OBVIOUS
  <2>1. log = <<>> /\ written = 0 /\ raced = {} /\ swapped = {}
        /\ given = [p \in Pieces |-> 0]
    BY DEF Init
  <2>2. Finished = 0 /\ Amid = {}
    BY <2>1 DEF Finished, MidLine, Amid, Disturbed
  <2>3. Held = {}
    BY <2>1 DEF Held, ToSet
  <2>4. TimesWhole = [n \in Lines |-> 0]
    BY <2>1 DEF TimesWhole, Lines, Pieces
  <2>5. Prompt \in BOOLEAN
    BY DEF Prompt
  <2> QED
    BY <2>2, <2>3, <2>4, <2>5 DEF Feed!FeedInit, Feed!Lines, Lines
<1>2. TailerIInv /\ PollIInv /\ [Next]_vars => [Feed!FeedNext]_(Feed!feedVars)
  BY NextFeeds
<1> QED
  BY <1>1, <1>2, PollInvariant, PTL DEF Spec, ImplementsFeed, Feed!FeedSpec
==============================================================================
