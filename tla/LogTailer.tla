----------------------------- MODULE LogTailer -----------------------------
(***************************************************************************)
(* LogTailer::readNewLines of src/security/LogTailer.cpp and ReadNewLines  *)
(* of agent-go/internal/logtailer, against a log that other processes      *)
(* append to and rotate at any moment.  A poll is two steps, because the   *)
(* log may change between them: Stat (exists, file_size and the rotation   *)
(* test) and Read (open, seek and read to the end of the file).            *)
(*                                                                         *)
(* A line is two units of the file: its head, and its end with the         *)
(* newline.  Most lines are appended whole; a writer caught between the    *)
(* two leaves a line that getline returns although it is not finished.     *)
(* The head of a long line is its first 64 KiB, all that the scanner of    *)
(* the Go agent has room for.                                              *)
(***************************************************************************)
EXTENDS Naturals, Sequences, SequencesExt

CONSTANTS
  Agents,           \* the agents whose tailers are compared: "cpp", "go"
  MaxLines,         \* bound on the lines ever written
  LongLines,        \* the lines of more than 64 KiB
  MaxFiles,         \* bound on the files ever created at the path
  MaxOpenFailures   \* bound on the opens refused although the file exists

ASSUME TailerAssumption ==
  /\ Agents \subseteq {"cpp", "go"}
  /\ MaxLines \in Nat
  /\ LongLines \subseteq 1..MaxLines
  /\ MaxFiles \in Nat \ {0}
  /\ MaxOpenFailures \in Nat

VARIABLES
  (* the log *)
  exists,       \* there is a file at the path
  file,         \* number of the newest file at the path
  log,          \* units of that file
  written,      \* lines written so far: they are 1..written
  (* the tailer *)
  agent,        \* whose tailer it is, in this behaviour
  initialized,  \* LogTailer::initialized_
  offset,       \* LogTailer::offset_
  lastSize,     \* LogTailer::last_size_
  polling,      \* between the Stat and the Read of a poll
  size,         \* readNewLines's local `size`
  openFailures, \* opens refused so far
  (* history *)
  given,        \* how often each piece of a line was returned
  latest,       \* the lines the latest poll returned whole
  skipped,      \* units in the file at the first poll
  home,         \* the file each line was written to, 0 before it is
  slow,         \* lines written in two steps
  raced,        \* lines with a unit appended between a Stat and its Read
  swapped,      \* the raced lines whose file was created in between as well
  sizeFile,     \* the file `size` is the size of, 0 outside a poll
  lastFile,     \* the file `lastSize` is the size of
  missed        \* files whose replacement of another went unnoticed

fileVars == <<exists, file, log, written>>
tailerVars == <<agent, initialized, offset, lastSize, polling, size,
                openFailures>>
pollHistory == <<given, latest, skipped, sizeFile, lastFile, missed>>
writeHistory == <<home, slow, raced, swapped>>
vars == <<fileVars, tailerVars, pollHistory, writeHistory>>

Lines == 1..MaxLines
Units == Lines \X {"head", "end"}
Pieces == Lines \X {"whole", "head", "end"}

Init ==
  /\ exists \in BOOLEAN
  /\ file = 1
  /\ log = <<>>
  /\ written = 0
  /\ agent \in Agents
  /\ initialized = FALSE
  /\ offset = 0
  /\ lastSize = 0
  /\ polling = FALSE
  /\ size = 0
  /\ openFailures = 0
  /\ given = [p \in Pieces |-> 0]
  /\ latest = {}
  /\ skipped = {}
  /\ home = [n \in Lines |-> 0]
  /\ slow = {}
  /\ raced = {}
  /\ swapped = {}
  /\ sizeFile = 0
  /\ lastFile = 1
  /\ missed = {}

----------------------------------------------------------------------------
(* The processes that write and rotate the log (external to the agents). *)

MidLine == log # <<>> /\ Last(log)[2] = "head"

(* Units of line n reach the end of the file. *)
AppendUnits(n, units) ==
  /\ exists
  /\ log' = log \o units
  /\ home' = [home EXCEPT ![n] = file]
  /\ raced' = IF polling THEN raced \cup {n} ELSE raced
  /\ swapped' = IF polling /\ file # sizeFile THEN swapped \cup {n} ELSE swapped
  /\ UNCHANGED <<exists, file, tailerVars, pollHistory>>

WriteLine ==
  /\ ~MidLine
  /\ written < MaxLines
  /\ written' = written + 1
  /\ AppendUnits(written + 1, << <<written + 1, "head">>, <<written + 1, "end">> >>)
  /\ UNCHANGED slow

StartLine ==
  /\ ~MidLine
  /\ written < MaxLines
  /\ written' = written + 1
  /\ slow' = slow \cup {written + 1}
  /\ AppendUnits(written + 1, << <<written + 1, "head">> >>)

FinishLine ==
  /\ MidLine
  /\ AppendUnits(written, << <<written, "end">> >>)
  /\ UNCHANGED <<written, slow>>

(* The log is moved away, or deleted: nothing is at the path any more. *)
Unlink ==
  /\ exists /\ ~MidLine
  /\ exists' = FALSE
  /\ log' = <<>>
  /\ UNCHANGED <<file, written, tailerVars, pollHistory, writeHistory>>

(* An empty file takes its place, or is truncated in its place. *)
Create ==
  /\ ~MidLine
  /\ file < MaxFiles
  /\ exists' = TRUE
  /\ file' = file + 1
  /\ log' = <<>>
  /\ UNCHANGED <<written, tailerVars, pollHistory, writeHistory>>

----------------------------------------------------------------------------
(* One poll.  A poll that finds no file returns at once and changes        *)
(* nothing, so it is no step.                                              *)

(* Variant: the first poll leaves the offset at the start of the file. *)
FirstPollAtStart ==
  /\ exists /\ ~initialized
  /\ initialized' = TRUE
  /\ lastSize' = Len(log)
  /\ skipped' = ToSet(log)
  /\ lastFile' = file
  /\ UNCHANGED <<fileVars, agent, offset, polling, size, openFailures, given,
                 latest, sizeFile, missed, writeHistory>>

(* The first poll only remembers where the file ends. *)
FirstPoll ==
  /\ exists /\ ~initialized
  /\ initialized' = TRUE
  /\ offset' = Len(log)
  /\ lastSize' = Len(log)
  /\ skipped' = ToSet(log)
  /\ lastFile' = file
  /\ UNCHANGED <<fileVars, agent, polling, size, openFailures, given, latest,
                 sizeFile, missed, writeHistory>>

(* Variant: no rotation test. *)
OffsetKept == offset

(* A file that became smaller is a new one, to be read from its start. *)
OffsetAfterStat == IF Len(log) < lastSize THEN 0 ELSE offset

(* The file is another one than the one measured before and not shorter:   *)
(* its size does not give it away.                                         *)
ReplacementMissed == file # lastFile /\ Len(log) >= lastSize /\ offset # 0

Stat ==
  /\ exists /\ initialized /\ ~polling
  /\ polling' = TRUE
  /\ size' = Len(log)
  /\ sizeFile' = file
  /\ offset' = OffsetAfterStat
  /\ missed' = IF ReplacementMissed THEN missed \cup {file} ELSE missed
  /\ UNCHANGED <<fileVars, agent, initialized, lastSize, openFailures, given,
                 latest, skipped, lastFile, writeHistory>>

(* The poll's locals are gone when it returns. *)
EndPoll ==
  /\ polling' = FALSE
  /\ size' = 0
  /\ sizeFile' = 0

(* The open fails: the file is gone again, or may not be read.  The offset *)
(* the Stat has set stays, lastSize does not follow.                       *)
OpenFails ==
  /\ polling
  /\ exists => openFailures < MaxOpenFailures
  /\ openFailures' = IF exists THEN openFailures + 1 ELSE openFailures
  /\ EndPoll
  /\ UNCHANGED <<fileVars, agent, initialized, offset, lastSize, given, latest,
                 skipped, lastFile, missed, writeHistory>>

(* What the getline loop returns for these units: every line that both     *)
(* begins and ends here, the rest of one begun before, and the beginning   *)
(* of one that is not finished.                                            *)
PiecesOf(units) ==
  {p \in Pieces :
     /\ <<p[1], "head">> \in units <=> p[2] # "end"
     /\ <<p[1], "end">> \in units <=> p[2] # "head"}

(* The loop ends at the end of the file, where the stream's tellg() is     *)
(* always -1: the size measured before the read is what is kept.           *)
CppOffsetAfterRead == size

TooLong(i) == log[i][2] = "head" /\ log[i][1] \in LongLines

(* Where a read of the Go agent comes to: the scanner gives up on a line   *)
(* that fills its buffer, and what it has filled it with is consumed.      *)
GoStopsAt ==
  LET beyond == {i \in offset + 1..Len(log) : TooLong(i)}
  IN  IF beyond = {} THEN Len(log) ELSE Min(beyond)

(* Variants: the offset is always the size measured; the end of the file.  *)
OffsetAtSize == size
OffsetAtEnd == IF Len(log) < offset THEN offset ELSE Len(log)

(* Seek(0, 1) tells where the scanner stopped. *)
GoOffsetAfterRead == IF Len(log) < offset THEN offset ELSE GoStopsAt

OffsetAfterRead ==
  IF agent = "cpp" THEN CppOffsetAfterRead ELSE GoOffsetAfterRead

(* The units of the lines returned: a line too long for Go is not. *)
UnitsRead ==
  LET stop == IF agent = "go" THEN GoStopsAt ELSE Len(log)
  IN  {log[i] : i \in {j \in offset + 1..stop : agent = "go" => ~TooLong(j)}}

Read ==
  /\ polling /\ exists
  /\ LET pieces == PiecesOf(UnitsRead)
     IN  /\ given' = [p \in Pieces |-> IF p \in pieces THEN given[p] + 1 ELSE given[p]]
         /\ latest' = {n \in Lines : <<n, "whole">> \in pieces}
  /\ offset' = OffsetAfterRead
  /\ lastSize' = size
  /\ lastFile' = sizeFile
  /\ EndPoll
  /\ UNCHANGED <<fileVars, agent, initialized, openFailures, skipped, missed,
                 writeHistory>>

----------------------------------------------------------------------------
Writers == WriteLine \/ StartLine \/ FinishLine \/ Unlink \/ Create

Poll == FirstPoll \/ Stat \/ OpenFails \/ Read

Next == Writers \/ Poll

(* The application polls every log once a second, for ever. *)
Spec == Init /\ [][Next]_vars /\ WF_vars(Poll)

----------------------------------------------------------------------------
(* How often a unit of a line was returned, in whatever piece. *)
Times(u) == given[<<u[1], "whole">>] + given[u]

(* What was in the log before the first poll is never returned, rotation   *)
(* or not: a restarted agent does not alert on old lines.                  *)
HistoryNotReplayed == \A u \in skipped : Times(u) = 0

(* No gap: of the file whose size the tailer remembers, everything before  *)
(* the offset was returned, unless the file replaced a shorter one         *)
(* unnoticed, its contents predate the first poll, or (Go) it is the       *)
(* beginning of a line that is too long.                                   *)
NoGap ==
  initialized /\ ~polling /\ exists /\ lastFile = file /\ file \notin missed
    => \A i \in 1..Len(log) :
         i <= offset /\ log[i] \notin skipped /\ ~(agent = "go" /\ TooLong(i))
           => Times(log[i]) > 0

(* The lines that a poll may return although an earlier one has.           *)
Disturbed == IF agent = "cpp" THEN raced ELSE swapped

(* A unit is returned twice only when it was appended between the size     *)
(* measurement and the read of one poll (C++: the offset falls back to the *)
(* size; Go: only if the file was replaced in between), never three times. *)
RepeatsExplained ==
  \A u \in Units :
    /\ Times(u) <= 2
    /\ Times(u) = 2 => u[1] \in Disturbed

(* A line that was appended in one write is returned in one piece, unless  *)
(* its file was read with an offset that belonged to another file, or it   *)
(* is too long for Go.  (A torn line matches no pattern, or the wrong one.) *)
TornOnlyMidLine ==
  \A n \in Lines :
    given[<<n, "head">>] + given[<<n, "end">>] > 0
      => \/ n \in slow \cup swapped
         \/ home[n] \in missed
         \/ agent = "go" /\ n \in LongLines

(* Again and again there is nothing left to return: every finished line in *)
(* the log was returned, whole or in pieces, or predates the first poll,   *)
(* or is in a file whose arrival was missed.  A line that is too long for  *)
(* the scanner does not keep the Go agent from those that follow it.       *)
EventuallyReturned ==
  []<>(\A n \in Lines :
         <<n, "end">> \in ToSet(log) =>
           \/ Times(<<n, "end">>) > 0
           \/ <<n, "end">> \in skipped
           \/ file \in missed)

(* The tailer implements the feed of whole lines the monitors build on:    *)
(* in the order they were written, none overtaken by a later one, a second *)
(* time only if they were appended in the middle of a poll, and then by    *)
(* the next one, unless a line too long for Go stops that.                 *)
Prompt == agent = "cpp" \/ LongLines = {}
Finished == IF MidLine THEN written - 1 ELSE written
Amid == Disturbed \cap 1..Finished

(* The lines in the log that a poll may still return. *)
Held ==
  {n \in Lines :
     /\ <<n, "end">> \in ToSet(log) \ skipped
     /\ \/ given[<<n, "whole">>] = 0
        \/ /\ given[<<n, "whole">>] = 1 /\ n \in Amid
           /\ Prompt => n \in latest}

TimesWhole == [n \in Lines |-> given[<<n, "whole">>]]

Feed == INSTANCE LineFeed
          WITH prompt <- Prompt, last <- Finished, held <- Held,
               amid <- Amid, got <- TimesWhole

ImplementsFeed == Feed!FeedSpec

(* docs/security.md:50 says of the log monitors "During runtime, it reads  *)
(* only new lines": no line is returned a second time.                     *)
OnlyNewLines == \A n \in Lines : given[<<n, "whole">>] <= 1
----------------------------------------------------------------------------
(* The inductive invariant of NoGap and HistoryNotReplayed.                *)
TailerTypeOK ==
  /\ exists \in BOOLEAN /\ initialized \in BOOLEAN /\ polling \in BOOLEAN
  /\ agent \in {"cpp", "go"}
  /\ log \in Seq(Units) /\ skipped \subseteq Units
  /\ written \in 0..MaxLines
  /\ {file, offset, lastSize, size, lastFile, sizeFile} \subseteq Nat
  /\ given \in [Pieces -> Nat]

(* Lines are numbered as they are written: what is appended next is new.   *)
NumberedUp ==
  /\ \A i \in 1..Len(log) : log[i][1] <= written
  /\ \A u \in skipped : u[1] <= written
  /\ MidLine => /\ Last(log) = <<written, "head">>
                /\ <<written, "end">> \notin skipped
                /\ \A i \in 1..Len(log) : log[i] # <<written, "end">>

(* The sizes are those of the files they are kept for, which only grow.    *)
Measured ==
  /\ ~exists => log = <<>>
  /\ ~initialized => ~polling
  /\ lastFile <= file
  /\ polling => sizeFile \in lastFile..file
  /\ exists /\ initialized /\ lastFile = file => lastSize <= Len(log)
  /\ exists /\ polling /\ sizeFile = file => size <= Len(log)

(* What was there at the first poll stays behind the offset, and behind    *)
(* whatever a poll may set the offset to.                                  *)
HistoryBehind ==
  /\ ~initialized => skipped = {} /\ \A p \in Pieces : given[p] = 0
  /\ \A i \in 1..Len(log) :
       log[i] \in skipped =>
         /\ lastFile = file
         /\ i <= offset /\ i <= lastSize
         /\ polling => i <= size

(* While the tailer knows which file it is reading, what is behind the     *)
(* offset was returned.                                                    *)
Returned(i) ==
  log[i] \notin skipped /\ ~(agent = "go" /\ TooLong(i)) => Times(log[i]) > 0

ReadToOffset ==
  /\ initialized /\ exists /\ file \notin missed
  /\ file = IF polling THEN sizeFile ELSE lastFile
  => /\ offset <= Len(log)
     /\ \A i \in 1..offset : Returned(i)

TailerIInv ==
  /\ TailerTypeOK
  /\ NumberedUp
  /\ Measured
  /\ HistoryBehind
  /\ HistoryNotReplayed
  /\ ReadToOffset

----------------------------------------------------------------------------
(* The inductive invariant of the other properties, and of the feed.       *)

(* The lines in the log are those written since it is there, in order,     *)
(* each with its head before its end; the last one may lack the end.       *)
LogOrder ==
  /\ \A i, j \in 1..Len(log) :
       i < j => \/ log[i][1] < log[j][1]
                \/ log[i][1] = log[j][1] /\ log[i][2] = "head" /\ log[j][2] = "end"
  /\ \A i \in 1..Len(log) : home[log[i][1]] = file
  /\ \A i \in 1..Len(log) :
       log[i][2] = "end" => i > 1 /\ log[i - 1] = <<log[i][1], "head">>
  /\ \A i \in 1..Len(log) :
       log[i][2] = "head" => IF i = Len(log) THEN log[i][1] \in slow
                             ELSE log[i + 1] = <<log[i][1], "end">>

HistoryTypeOK ==
  /\ latest \subseteq Lines
  /\ slow \subseteq Lines /\ raced \subseteq Lines /\ swapped \subseteq Lines
  /\ home \in [Lines -> Nat]

(* What is not written yet was not returned. *)
NotYet ==
  \A u \in Units :
    u[1] > written \/ (MidLine /\ u = <<written, "end">>) => Times(u) = 0

(* In C++ the offset is never beyond the size it may fall back to. *)
OffsetWithin == agent = "cpp" => offset <= lastSize /\ (polling => offset <= size)

(* What is appended between a Stat and its Read is known to be.            *)
RacesKnown ==
  polling =>
    \A i \in 1..Len(log) :
      /\ sizeFile # file => Times(log[i]) = 0 /\ log[i][1] \in raced \cap swapped
      /\ sizeFile = file /\ i > size => Times(log[i]) = 0 /\ log[i][1] \in raced

(* A later poll may return the unit at i, whether it was returned or not.  *)
Ahead(i) == i > offset \/ lastFile # file

RepeatsKnown ==
  \A i \in 1..Len(log) :
    Ahead(i) /\ Times(log[i]) > 0 =>
      /\ Times(log[i]) = 1
      /\ log[i][1] \in Disturbed
      /\ Prompt /\ given[<<log[i][1], "whole">>] > 0 => log[i][1] \in latest

(* What is ahead follows everything that was returned in its order.        *)
InOrder ==
  \A m \in Lines \ Disturbed :
    Times(<<m, "end">>) > 0 => \A i \in 1..Len(log) : Ahead(i) => m < log[i][1]

(* In a file that was not missed, the offset lies between two lines, but   *)
(* for lines written in two steps and those too long for Go.               *)
OffsetBetweenLines ==
  \A i \in 1..Len(log) :
    log[i][2] = "head" =>
      /\ initialized /\ file = (IF polling THEN sizeFile ELSE lastFile) /\ i = offset
           => \/ log[i][1] \in slow
              \/ file \in missed
              \/ agent = "go" /\ log[i][1] \in LongLines
      /\ polling /\ sizeFile = file /\ i = size => log[i][1] \in slow

PollIInv ==
  /\ HistoryTypeOK
  /\ LogOrder
  /\ NotYet
  /\ OffsetWithin
  /\ RacesKnown
  /\ RepeatsKnown
  /\ InOrder
  /\ OffsetBetweenLines
  /\ RepeatsExplained
  /\ TornOnlyMidLine
============================================================================
