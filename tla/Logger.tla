------------------------------- MODULE Logger -------------------------------
(***************************************************************************)
(* The agent's own log: Logger (src/util/Logger.cpp) and logger.New        *)
(* (agent-go/internal/logger/logger.go), on a disk that can fill up.  Both *)
(* open the file once and fall back to stderr if they cannot.  A line is   *)
(* its number; one mutex, or slog's, makes the writing of a line one step. *)
(***************************************************************************)
EXTENDS Naturals, FiniteSets

CONSTANTS
  MaxLogLines,    \* bound on the lines one process logs
  MaxRoomChanges  \* bound on the times the disk fills up or is freed

ASSUME LoggerAssumption == MaxLogLines \in Nat /\ MaxRoomChanges \in Nat

VARIABLES
  room,         \* the disk has room for a line
  roomChanges,  \* bound: times that changed
  sink,         \* where lines go: "stderr" or "file"
  bad,          \* stream_ has failed
  lines,        \* lines logged by this process
  lost,         \* history: lines that reached neither file nor stderr
  full          \* history: lines logged to the file while the disk was full

diskVars == <<room, roomChanges>>
logVars == <<sink, bad, lines, lost, full>>

FreshLog ==
  /\ sink = "stderr"
  /\ bad = FALSE
  /\ lines = 0
  /\ lost = {} /\ full = {}

LoggerInit == room = TRUE /\ roomChanges = 0 /\ FreshLog

(* The disk fills up, or is freed. *)
RoomChanges ==
  /\ roomChanges < MaxRoomChanges
  /\ roomChanges' = roomChanges + 1
  /\ room' = ~room
  /\ UNCHANGED logVars

(* A new process. *)
ForgetLog ==
  /\ sink' = "stderr"
  /\ bad' = FALSE
  /\ lines' = 0
  /\ lost' = {} /\ full' = {}
  /\ UNCHANGED diskVars

(* Variant: the file is used without a look at whether it could be opened. *)
InitializeUnchecked(path) ==
  /\ sink' = "file"
  /\ bad' \in IF path = "" THEN {TRUE} ELSE BOOLEAN
  /\ UNCHANGED <<diskVars, lines, lost, full>>

(* Logger::initialize; the file cannot be opened, or it can. *)
Initialize(path) ==
  /\ sink' \in IF path = "" THEN {"stderr"} ELSE {"stderr", "file"}
  /\ UNCHANGED <<diskVars, bad, lines, lost, full>>

(* Logger::log.  What does not fit sets the stream's badbit, after which   *)
(* it writes nothing more; slog ignores the error and tries the next line. *)
Log(program) ==
  LET line == lines + 1
      missed == sink = "file" /\ (bad \/ ~room)
  IN
  /\ lines < MaxLogLines
  /\ lines' = line
  /\ lost' = IF missed THEN lost \cup {line} ELSE lost
  /\ full' = IF sink = "file" /\ ~room THEN full \cup {line} ELSE full
  /\ bad' = (bad \/ (program = "cpp" /\ missed))
  /\ UNCHANGED <<diskVars, sink>>

----------------------------------------------------------------------------
(* A line is missing from the log only because the disk was full: when it  *)
(* was logged or, for the C++ agent, when some earlier line of the same    *)
(* process was, since its stream does not recover.                         *)
LinesExplained(program) ==
  \A line \in lost :
    \/ line \in full
    \/ program = "cpp" /\ \E earlier \in full : earlier < line

(* With which the losses are explained by induction: lines are numbered in *)
(* order, and a failed stream has met a full disk before.                  *)
LogKnows(program) ==
  /\ lines \in Nat
  /\ \A line \in full : line \in 1..lines
  /\ bad => program = "cpp" /\ full # {}
=============================================================================
