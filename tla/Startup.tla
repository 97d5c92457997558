------------------------------ MODULE Startup ------------------------------
(***************************************************************************)
(* From the command line to the running agent: main in src/main.cpp and in *)
(* agent-go/cmd/agent/main.go, with the configuration each loads and the   *)
(* log each opens, under systemd (Restart=always) or started by hand.      *)
(* Meanwhile the file is edited and the process is stopped or killed.      *)
(*                                                                         *)
(* What the running agent does is modelled in Agent and GoAgent; here it   *)
(* logs lines until it ends.  The file is read in one step; an editor that *)
(* is half-way through saving it leaves a malformed one.                   *)
(***************************************************************************)
EXTENDS Configuration, Logger

CONSTANTS
  Starts,       \* the arguments the agent can be started with, each with
                \* what the file can hold at that time
  Edited,       \* what the file can hold after an edit
  ServiceLine,  \* those in the units' ExecStart
  ConfigPath,   \* the path of the file; every other path has none
  MaxEdits,     \* bound on the edits of the file
  MaxDeaths     \* bound on the times the process is stopped or killed

ASSUME StartupAssumption ==
  /\ \A start \in Starts : start[1] \in Seq(STRING) /\ IsJson(start[2].json)
  /\ \A file \in Edited : IsJson(file.json)
  /\ MaxEdits \in Nat /\ MaxDeaths \in Nat

VARIABLES
  program,      \* "cpp" or "go"
  arguments,    \* the command line
  supervised,   \* the process is a service of systemd
  configured,   \* the environment has the token and the chat
  document,     \* the file at ConfigPath
  edits,        \* bound: edits so far
  deaths,       \* bound: times it was stopped or killed
  phase,        \* "options", "load", "log", "test", "run", "exited", "killed"
  rest,         \* arguments still to be read
  options,      \* the flags read
  path,         \* config_path
  seen,         \* the file that was loaded: stands for the configuration
  status,       \* the exit status
  ran,          \* history: this process began to monitor
  delivered     \* history: its test message reached the chat

worldVars == <<program, arguments, supervised, configured>>
fileVars == <<document, edits>>
processVars == <<phase, rest, options, path, seen, status, ran, delivered>>
startupVars == <<worldVars, fileVars, deaths, processVars, diskVars, logVars>>

Init ==
  /\ program \in {"cpp", "go"}
  /\ \E start \in Starts : arguments = start[1] /\ document = start[2]
  /\ supervised \in IF arguments = ServiceLine THEN BOOLEAN ELSE {FALSE}
  /\ configured \in BOOLEAN
  /\ edits = 0 /\ deaths = 0
  /\ phase = "options"
  /\ rest = arguments
  /\ options = {}
  /\ path = "./config.json"
  /\ seen = Missing
  /\ status = 0
  /\ ran = FALSE /\ delivered = FALSE
  /\ LoggerInit

Exit(code) == phase' = "exited" /\ status' = code

----------------------------------------------------------------------------
(* The options, one by one *)

Reading == phase = "options" /\ rest # <<>>
Flags == {"--once", "--test-telegram"}
                 \cup (IF program = "go" THEN {"--version"} ELSE {})
Answers == {"--help"} \cup (IF program = "cpp" THEN {"--version"} ELSE {})
IsFlag(argument) == argument \in Flags \cup Answers \cup {"--config", "--unknown"}
OptionsOnly == UNCHANGED <<path, seen, ran, delivered>>

TakeFlag ==
  /\ Reading
  /\ Head(rest) \in Flags
  /\ options' = options \cup {Head(rest)}
  /\ rest' = Tail(rest)
  /\ UNCHANGED <<phase, status>> /\ OptionsOnly

TakePath ==
  /\ Reading
  /\ Head(rest) = "--config"
  /\ Len(rest) > 1
  /\ path' = rest[2]
  /\ rest' = Tail(Tail(rest))
  /\ UNCHANGED <<phase, options, seen, status, ran, delivered>>

(* Version or help: printed at once, whatever follows. *)
Answer ==
  /\ Reading
  /\ Head(rest) \in Answers
  /\ Exit(0)
  /\ UNCHANGED <<rest, options>> /\ OptionsOnly

(* --config without a path, or something unknown.  Go's flag package takes *)
(* the first argument that is not a flag for the end of the flags.         *)
Refuse ==
  /\ Reading
  /\ \/ rest = <<"--config">>
     \/ /\ Head(rest) \notin Flags \cup Answers \cup {"--config"}
        /\ program = "go" => IsFlag(Head(rest))
  /\ Exit(2)
  /\ UNCHANGED <<rest, options>> /\ OptionsOnly

StopReading ==
  /\ Reading
  /\ program = "go"
  /\ ~IsFlag(Head(rest))
  /\ rest' = <<>>
  /\ UNCHANGED <<phase, options, status>> /\ OptionsOnly

(* All options are read; the Go agent looks at --version only now. *)
OptionsRead ==
  /\ phase = "options"
  /\ rest = <<>>
  /\ IF "--version" \in options THEN Exit(0)
     ELSE phase' = "load" /\ UNCHANGED status
  /\ UNCHANGED <<rest, options>> /\ OptionsOnly

ReadOptions ==
  TakeFlag \/ TakePath \/ Answer \/ Refuse \/ StopReading \/ OptionsRead

----------------------------------------------------------------------------
(* The configuration, the log, and what was asked for *)

FileAt(name) == IF name = ConfigPath THEN document ELSE Missing

(* Config::load; what it throws ends the process with 1. *)
Load ==
  /\ phase = "load"
  /\ seen' = FileAt(path)
  /\ IF Accepts(program, seen')
     THEN phase' = "log" /\ UNCHANGED status
     ELSE Exit(1)
  /\ UNCHANGED <<rest, options, path, ran, delivered, diskVars, logVars>>

OpenLog ==
  /\ phase = "log"
  /\ Initialize(Settings(program, seen).log_file[2])
  /\ phase' = IF "--test-telegram" \in options THEN "test" ELSE "run"
  /\ ran' = (phase' = "run")
  /\ UNCHANGED <<rest, options, path, seen, status, delivered>>

(* Variant: the result of the request is not looked at. *)
SendTestUnchecked ==
  /\ phase = "test"
  /\ Exit(0)
  /\ delivered' \in IF configured THEN BOOLEAN ELSE {FALSE}
  /\ UNCHANGED <<rest, options, path, seen, ran, diskVars, logVars>>

(* sendTestMessage: nothing is sent without token and chat; a request that *)
(* fails may have reached the chat all the same.                           *)
SendTest ==
  /\ phase = "test"
  /\ \/ configured /\ delivered' = TRUE /\ Exit(0)
     \/ configured /\ delivered' = TRUE /\ Exit(1)
     \/ delivered' = FALSE /\ Exit(1)
  /\ UNCHANGED <<rest, options, path, seen, ran, diskVars, logVars>>

(* One cycle and then the end, or on until a signal comes. *)
Finish ==
  /\ phase = "run"
  /\ "--once" \in options
  /\ Exit(0)
  /\ UNCHANGED <<rest, options, path, seen, ran, delivered, diskVars, logVars>>

LogLine ==
  /\ phase = "run"
  /\ Log(program)
  /\ UNCHANGED processVars

Process ==
  /\ \/ ReadOptions /\ UNCHANGED <<diskVars, logVars>>
     \/ Load \/ OpenLog \/ SendTest \/ Finish \/ LogLine
  /\ UNCHANGED <<worldVars, fileVars, deaths>>

----------------------------------------------------------------------------
(* The world *)

(* A signal that the running agent handles, or one that nothing handles. *)
Die ==
  /\ phase \notin {"exited", "killed"}
  /\ deaths < MaxDeaths
  /\ deaths' = deaths + 1
  /\ \/ phase = "run" /\ Exit(0)
     \/ phase' = "killed" /\ UNCHANGED status
  /\ UNCHANGED <<worldVars, fileVars, rest, options, path, seen, ran, delivered,
                 diskVars, logVars>>

Edit ==
  /\ edits < MaxEdits
  /\ edits' = edits + 1
  /\ document' \in Edited \ {document}
  /\ UNCHANGED <<worldVars, deaths, processVars, diskVars, logVars>>

DiskChanges ==
  /\ RoomChanges
  /\ UNCHANGED <<worldVars, fileVars, deaths, processVars>>

StartAgain ==
  /\ phase' = "options"
  /\ rest' = arguments
  /\ options' = {}
  /\ path' = "./config.json"
  /\ seen' = Missing
  /\ status' = 0
  /\ ran' = FALSE /\ delivered' = FALSE
  /\ ForgetLog
  /\ UNCHANGED <<worldVars, fileVars, deaths>>

(* Variant: Restart=on-failure. *)
RestartOnFailure ==
  /\ supervised
  /\ phase = "killed" \/ (phase = "exited" /\ status # 0)
  /\ StartAgain

(* Restart=always, every five seconds: systemd's limit on starts (five in  *)
(* ten seconds) is never reached.                                          *)
Restart ==
  /\ supervised
  /\ phase \in {"exited", "killed"}
  /\ StartAgain

Next == Process \/ Die \/ Edit \/ DiskChanges \/ Restart

(* The process is scheduled, its one request ends after 8 seconds, and     *)
(* systemd does what the unit says.                                        *)
Spec ==
  /\ Init
  /\ [][Next]_startupVars
  /\ WF_startupVars(Process)
  /\ WF_startupVars(Restart)

----------------------------------------------------------------------------
Given(option) == \E i \in DOMAIN arguments : arguments[i] = option

(* What the exit status says.  0: the agent monitored to its end, its test *)
(* message was delivered, or version or help was asked for.  1: it did not *)
(* monitor, because its file was refused or its test failed.  2: it did    *)
(* not even look for the file.  A test never monitors, and nothing is sent *)
(* or monitored on a file that was refused.                                *)
StatusTells ==
  /\ ran \/ delivered => Accepts(program, seen)
  /\ "--test-telegram" \in options => ~ran
  /\ phase = "exited" =>
       CASE status = 0 -> \/ ran \/ delivered
                          \/ Given("--version") \/ Given("--help")
         [] status = 1 -> ~ran /\ (\/ ~Accepts(program, seen)
                                   \/ "--test-telegram" \in options)
         [] status = 2 -> seen = Missing /\ ~ran /\ ~delivered

(* A file written as documented means the same to both agents: what the    *)
(* C++ one accepts the Go one accepts, with the same value in every field. *)
(* What only the Go one accepts has a blank name, a blank key or a topic   *)
(* that is not positive.                                                   *)
SameMeaning ==
  AsDocumented(document) =>
    /\ CppAccepts(document) =>
         /\ GoAccepts(document)
         /\ GoSettings(document.json) = CppSettings(document.json)
    /\ GoAccepts(document) /\ ~CppAccepts(document) =>
         OnlyCppRefuses(GoSettings(document.json))

(* No line of the agent's log is lost but for a disk that was full. *)
LossesExplained == LinesExplained(program)

(* However often the file was broken, and the process with it: if it is    *)
(* repaired for good, the service runs in the end, with an accepted file.  *)
Recovers ==
  supervised /\ <>[]Accepts(program, document)
    => <>[](phase = "run" /\ Accepts(program, seen))

----------------------------------------------------------------------------
(* The inductive invariant: what the process can rely on in each phase.    *)
OptionsGiven ==
  /\ \E start \in Starts : arguments = start[1]
  /\ rest \in Seq(STRING)
  /\ \A i \in DOMAIN rest : Given(rest[i])
  /\ \A option \in options : Given(option)

PhaseKnows ==
  /\ phase \in {"options", "load", "log", "test", "run", "exited", "killed"}
  /\ status \in 0..2
  /\ ran \in BOOLEAN /\ delivered \in BOOLEAN
  /\ phase \in {"options", "load"} => seen = Missing
  /\ phase \in {"options", "load", "log", "test"} => ~ran /\ ~delivered
  /\ phase \in {"log", "test", "run"} => Accepts(program, seen)
  /\ phase = "test" => "--test-telegram" \in options
  /\ phase = "run" => ran

StartupIInv == OptionsGiven /\ PhaseKnows /\ StatusTells
=============================================================================
