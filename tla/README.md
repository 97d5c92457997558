# CacheWraith server monitoring: a TLA+ verification project

The repository holds two monitoring agents for one host, which do the same work:
a C++20 agent (`src/src`, `src/include`) and its migration to Go (`src/agent-go`).
An agent polls the host once a second, turns what it sees into alerts, limits
their rate and posts them to a Telegram chat. This directory models the logic
between the system calls: the start and the configuration, the threads and their
shutdown, the schedule, the log tailing, the counting, the cooldowns, the delivery
and the agent's own log. TLC checks the models on
small instances; TLAPS proves the main results for every value of the constants.

## 1. The system

### Components, their state and operations

| Component | State | Operations | What makes it correct |
|---|---|---|---|
| Process (`main.cpp`) | `g_app`, signal handlers | start, run, reset; `handleSignal` on any thread | a signal ends the agent; no handler uses freed memory; what was queued is tried before exit |
| Scheduler (`Application.cpp`, `main.go`) | countdown per monitor, `running_` / context | a pass over the monitors per second, `runOnce` | neither drift nor starvation, also when a check throws |
| Log tailer (`LogTailer.cpp`, `logtailer.go`) | offset, last size, initialised | `readNewLines` | no gap, no replay, repeats and torn lines only where explained |
| SSH log monitor (`SshLogMonitor.cpp`, `ssh.go`) | counter and window start per address | `check` | alerts stand for real bursts; sure bursts are reported |
| Nginx log monitor (`NginxLogMonitor.cpp`, `nginx.go`) | two counters and one window per address | `check` | the same, for two counts in one window |
| Resource monitors (RAM, disk, CPU) | none | `check` | an alert exactly at the configured threshold |
| Service and website monitors | child process, HTTP request | `check` | no outage missed, every alarm explained |
| Alert manager (`AlertManager.cpp`, `telegram.go`) | routes | `handle`, `findThreadId` | no spam, right topic |
| Cooldown manager (`CooldownManager.cpp`, `cooldown.go`) | time of the last alert per identity | `shouldSend` | spacing; nothing withheld without reason |
| Telegram notifier (`TelegramNotifier.cpp`) | queue, mutex, condition variable, worker | `enqueue`, `run`, destructor | nothing lost, repeated or reordered; drained on exit |
| Start (`main.cpp`, `main.go`) | options, exit status | parse the options, load, open the log, test message, run | the exit status tells what happened; the service recovers when its file is repaired |
| Configuration (`Config.cpp`, `config.go`) | the fields | `load`, `validate` | a documented file means the same to both agents |
| Logger (`Logger.cpp`, `logger.go`) | the stream | `initialize`, `log` | a line is lost only to a full disk |
| Utilities, parsers | - | strings, environment, regular expressions | (not modelled, see section 7) |

### How they interact

```
command line, config.json            the agent's own log
        |                                   ^
        v                                   |
signal --> handler --> Application::running_        log writers, logrotate
                            |                               |
main --> Application --> monitors (in turn) <--- LogTailer <-+
                            | alerts
                       AlertManager --> CooldownManager
                            | enqueue
                       TelegramNotifier queue --> worker thread --> Telegram
```

The C++ agent has two threads (main and the notifier's worker), and signal
handlers that run on either. The Go agent has one goroutine that also sends the
alerts, and a context that the first signal cancels. Everything else runs
beside them: the processes that write and rotate logs, services and sites that
come and go, `systemctl` children, the service manager that restarts the agent.

### What is hard

Wakeups and the shutdown of the worker; a signal handler that races with the destruction
of the object it calls; files that change between `stat` and `read`; counters in windows
that do not slide; cooldowns that outlive failed deliveries but not restarts; checks
that a cancellation cuts short; a log monitor that counts lines by the time it reads
them; a file that was broken by an edit and strikes at the next restart. `PROJECT.json`
lists every such point with its line ("hazards") and the properties that watch it. Some
are what the code does and nothing prevents: a rotation that is not noticed, a
`systemctl` that hangs, an alert lost with its one try. No property can exclude those;
they have none, or a note that says which exception of a property names them.

## 2. The modules

| Module | Models | Main correspondence |
|---|---|---|
| `AlertChannel` | what the notifier promises | a FIFO that tries every alert once and closes when drained |
| `TelegramQueue` | `TelegramNotifier::State` | one action per critical section: `Push`, `Notify`, `TestFails`, `Park`, `Take`, `Exit`, `FinishSend`, `SetStopping`, `NotifyStop`, `Join`; spurious wakeups included |
| `LineFeed` | what a tailer promises the monitor that polls it | whole lines `Arrive`, are returned by `Poll` or lost by `Drop`; in a `prompt` feed a line returned twice is returned by two polls in a row |
| `LogTailer` | `readNewLines` of both agents (`agent` says whose tailer a behaviour has) | a poll is `Stat` and `Read`, or `OpenFails`; writers and rotation are external actions between them; the scanner of the Go agent gives up on a line of more than 64 KiB |
| `TumblingWindow` | the window test of both log monitors, and what a window implies | pure operators |
| `SshLogMonitor` | `SshLogMonitor::check` | `BeginCheck` reads the clock, one action per line, `EndCheck` |
| `SshDetection` | the SSH monitor on a log that is written and rotated meanwhile | extends `SshLogMonitor`, on `LineFeed`; `StartCheck`, `PollFails`, `FirstPoll`, `Poll`, `ReadLine`, `HandAlerts`; lines know when they were written, and the lines a poll returned are a set of line numbers, read from the least on; a poll can fail, and a rotation can go unnoticed (`MayBeBehind`) |
| `NginxLogMonitor` | `NginxLogMonitor::check` | the same; `ReadRequest` does a line's three tests in the code's order |
| `CooldownManager` | `shouldSend` | `SendUnlimited`, `SendDue`, `Suppress` |
| `CooldownParity` | the Go `ShouldSend` in lockstep with the C++ one | extends `CooldownManager`; `Seconds` is the Go agent's own switch over the types |
| `AlertManager` | `handle`, `findThreadId`, delivery, restarts | extends `CooldownParity`; the queue is a sequence |
| `Schedule` | the countdowns of `addMonitor`/`runScheduled` and of `scheduledMonitor` | `CountOn`, `CountAnew`, on whose turn it is |
| `Agent` | `main`, the handler, `Application` | extends `Schedule`, and `AlertChannel`, which stands for the notifier |
| `GoAgent` | `main.go`, `Manager.Handle`, `Send` | extends `Schedule`; passes counted modulo the interval, no bound on time |
| `ResourceMonitors` | RAM, disk and CPU checks | `OpenFails`, or one action per triple of `/proc/meminfo`; one per path |
| `ProbeMonitors` | service and website checks of both agents | `Cancel` (Go), `Fork`, `Exec`, `Answer`, `Killed`, `Wait`; `Fetch` |
| `HealthMonitors` | `Application::runOnce`'s view of the two | extends both; a behaviour is one check of a resource, or one of the services and sites, which share no state |
| `Configuration` | `Config::load`, `validate` and their Go twins | pure operators on JSON values: `CppSettings`, `CppValid`, `GoSettings`, `GoValid` |
| `Logger` | `Logger::initialize`, `log`, and `slog` | `Initialize`, `Log`; the disk fills up and is freed |
| `Startup` | `main` of both agents, from the options to the exit status, under systemd | extends `Configuration` and `Logger`; one action per option, `Load`, `OpenLog`, `SendTest`, `Finish`, `Restart` |
| `SequenceFacts` | lemmas on sequences, finite sets, division and windows | used by the proofs |
| `*Proofs` | theorems | section 6 |
| `MC*` | instances for TLC | section 3 |

Composition: `Agent` uses the abstract channel instead of `TelegramQueue`, and
`TelegramQueue` is shown to implement that channel (`ImplementsChannel`), so the
properties of the process do not need the queue's details. In the same way
`SshDetection` is built on `LineFeed`, which `LogTailer` is shown to implement for
both agents (`ImplementsFeed`, and proved to: `TailersImplementFeed`). The feed leaves open
which of the unread lines a poll returns; `SshDetection` says which the code can leave out:
all of them when the poll fails, and those behind the offset in a file that replaced
another unnoticed. sshd writes no
lines of 64 KiB, so `SshDetection` takes the feed to be prompt; a line too long for
the scanner of the Go agent can put off the second return of another by several polls,
which a feed that always is prompt would exclude. `Schedule` is the part the two
agents' schedulers have in common. `CooldownParity` extends the cooldown manager with
its Go twin, and `AlertManager` extends both with their surroundings. `Startup`
puts the configuration and the logger into the process that uses them; what the
process does once it runs is the subject of `Agent` and `GoAgent`.

Definitions introduced by a comment "Variant:" are plausible wrong versions of
the definition that follows. No specification uses them; `PROJECT.json`
("mutants") says which property notices each.

Variables marked "history" record what happened for the sake of the properties.
No action's guard or effect on another variable depends on them.

## 3. The runs

| Run | Question | Instance |
|---|---|---|
| `telegram_queue` | does the queue lose, repeat or reorder a message, or a wakeup; does the destructor return; does it implement the channel | 3 messages, one notifier |
| `log_tailer` | gaps, replays, repeats and torn lines under growth and rotation, for both agents; do they implement the feed | 3 lines, of which the second is too long for Go, 2 files, 1 failing open |
| `log_tailer_only_new` | is a line ever returned twice (documented: no) | C++, 2 lines, 1 file; violated |
| `cooldown_parity_off` | do they agree for a cooldown of zero (documented: yes) | violated by the second alert of an identity: C++ sends it, Go withholds it |
| `alert_manager` | spam, justified silence and routing over restarts and failures, and do both agents answer alike | 3 types, two of one class and one that bypasses the cooldown, one key; no routes, or one on each level; 4 alerts, clock to 3, 1 restart |
| `ssh_detection` | what an alert of n failures in 5 minutes stands for on a real log, and what is never missed | 1 address, threshold 2, window 1, at most 1 between checks, 1 failing poll in a row, 1 line in the middle of a poll, 1 rotation, clock to 6; failure, login, failure |
| `ssh_threshold` | is the documented threshold exact | violated |
| `nginx_log` | the same for both counts in the common window | 2 addresses, thresholds 3 and 2, window 2, clock to 4, 5 lines |
| `agent` | memory, exit, schedule and liveness under signals | 3 monitors, interval 3, 2 alerts, 7 passes, 2 signals |
| `go_agent` | false alarms, schedule and liveness under cancellation | 3 monitors, interval 3, 2 alerts per check, no bound on passes |
| `health` | thresholds, missing values, lines without units; missed outages, unexplained alarms | 6 amounts, 4 percentages, up to 2 extra lines or paths; 2 services, 2 sites, 2 changes; either agent |
| `startup` | what the exit status says, do both agents read a file alike, are log lines lost, does the service recover | every command line of at most 2 arguments; some 130 files, each with one field or two that differ from the default, or malformed, missing, or followed by garbage; 1 edit, 1 death, 2 log lines, 2 changes of the disk |

### Bounds

- *Messages* (`MaxMessages`): two messages can be reordered, one can be in flight
  while another waits and a third is pushed; three cover every pair of
  positions in queue, worker and chat. The proofs have no bound but `Nat`.
- *Lines and files* (`MaxLines` = 3, `MaxFiles` = 2): a rotation needs two files; one that
  replaces another unnoticed needs as many lines as the other had, and one more to
  be read with the wrong offset.
- *Windows*: a sure burst is 2n-1 events within a window, three for the thresholds of
  2 and five for that of 3; the clock of each run lets two windows run out.
- *SSH detection*: with a threshold of 2, two failures make an alert and one line
  returned twice makes one as well; the login between them is one more line that a poll
  can return, lose or leave. With a gap of 1 and one failing poll in a row (`MaxBlind`)
  a line can wait for two checks, and with a window of 1 a backlog is older than its
  window; the bound of `SpanBounded` is reached. The rotation can fall before a poll or
  between its stat and its open, be noticed by that poll, by the next, or by none.
- *Start*: files differ in one field because the fields are converted one by one, and
  in two where validation looks at several. For a number the values lie on either
  side of each limit, and one is beyond an `int`: `IntValues` (4096) stands for 2^32, and
  only the wrap itself matters. Command lines of two arguments contain every option
  followed by every other. One death and one edit give a service that dies
  on a file broken meanwhile, or is repaired after it died.
- *Passes* (`MaxPasses` = 7): with an interval of 3, monitors are due in passes 1, 4
  and 7, so that a drift of one pass would show twice. `GoAgent` counts passes
  modulo the interval and needs no bound.
- *Signals*: two, so that one can be handled on each thread, or the second arrive
  while the first is being handled.
- *Time, alerts* (`MaxTime`, `MaxAlerts`): long enough for a cooldown to run out
  and for the alert after it. In `AlertManager` the bounds are per life of the
  agent and in total time.
- The model constants are small numbers, not the code's (60, 120, 900): only their
  order matters to the properties. `ResourceMonitors` keeps the factor 100 and
  takes a width of the block counts that, as in reality, the products fit into.

Where deadlock is not checked (`CHECK_DEADLOCK FALSE`), the system really may stop:
the notifier is destroyed, nobody writes to a log that is not there, a process that
nobody restarts has ended, or the instance is at a bound of its clock or its
alerts. `agent`, `go_agent` and `health` have an explicit final step instead and are
checked for deadlock, and so is `nginx_log`, where a check can always begin or end.
`nginx_log` uses symmetry: its actions, initial state and invariants treat all
addresses alike, no address is named in the instance, and no liveness is checked
there.

## 4. Abstractions

- A request to Telegram is one step with an outcome; its 8 second timeout is
  what justifies its fairness. A message is a number, or the identity and
  time of its alert. The text is not modelled.
- Lines of the log monitors are parsed lines: an address and the class of the
  event. A log line of the tailer is a head and an end.
- The log is read at one instant in `Read`; what is appended between the
  measurement and that instant is the race the code has. A write that falls
  between two reads of one `getline` loop behaves as one before or after it.
- A monitor in `Agent` is its number; a check that throws and one that does not
  take the same step, because the code does the same after both.
- Only signals that the handler can see are modelled; their delivery on main's
  thread is atomic, because main does nothing in between, and on the worker's is
  two steps, between which main goes on. Reading `g_app` there while main
  resets it is a data race in the C++ sense: the model allows both outcomes
  that builds produce (the pointer tested is used, or it is loaded again).
- `ProbeMonitors` leaves out the guard on service names, which no configuration
  that passes the validation of either agent can reach (`CppValid`, `GoValid`), and a
  service listed twice.
- A JSON value is its kind and its data; texts are model values, and which of them
  are blank or unsafe for `systemctl` are the constants `Blank` and `Unsafe`. Texts
  that mean the same to both agents are one text.
- The configuration file is read in one step; an editor half-way through saving it
  leaves a malformed one.
- A line of the agent's own log is its number; it is written in one step, under the
  logger's mutex.
- In `SshDetection` what happens to the log while the returned lines are gone through
  is left for the next check, which is when the code would first see it.
- In `SshDetection` the lines of a file that came between the polls, unnoticed, are
  numbers and not bytes: those behind the offset are any that come first. Why a
  poll fails (no file, no `stat`, no open) makes no difference: nothing is returned, and
  at most the offset falls to 0 before the open, which is one of the offsets the next
  poll of a file that was replaced may have.
- `ResourceMonitors` relies on the kernel: `MemTotal`, `MemFree` and `MemAvailable`
  are the first lines, and no part is larger than its total.
- The Go resource monitors' own arithmetic (floating point, in a library) is not
  modelled, and in `GoAgent` a check is one step that may return alerts.

Files that are not as documented mean different things to the two agents. `Configuration`
models both, and `SameMeaning` claims nothing about them:

- a number with a fraction (`60.0`) or beyond 32 bits, and a boolean for a number, are
  converted by C++, truncated or wrapped, and refused by Go (a boolean only where the
  C++ type is not the library's own, so not for `website_timeout_seconds` and
  `load_average_1m`); what does not fit 32 bits is kept by Go;
- what follows the first JSON value is ignored by C++ and refused by Go;
- a section that is not an object is ignored by C++ and refused by Go;
- a list that is `null` keeps its default in C++ and is empty in Go; a `null` in a
  list is refused by C++;
- `alert_threads: null` is refused by C++ and empty in Go.

Go also matches keys without regard to case; that is not modelled.

## 5. Fairness

- `TelegramQueue`: weak fairness of the worker's steps and of the owner's steps
  once it has begun them. Threads are scheduled, and a mutex that is free again
  and again is acquired because the number of competing acquisitions is finite:
  enqueues are bounded by the messages there are. Nobody is obliged to
  enqueue or to destroy, and spurious wakeups need not happen.
- `LogTailer`: polls go on; they happen once a second.
- `SshDetection`: checks begin and end, because the application calls them again and
  again. Time, sshd and logrotate need not go on. That polls do not fail for ever is the
  bound `MaxBlind`: of a log that can never be read again nothing can be reported.
- `Startup`: the process goes on until it ends, and systemd starts a service again
  that has ended (`Restart=always`). With `RestartSec=5` the default limit of five starts in ten
  seconds is never reached. Nobody is obliged to edit the file, to stop the
  process or to free the disk.
- `Agent`: main, the worker and a handler in progress go on. Sleeps last a second,
  curl has timeouts, `systemctl` is assumed to return. Signals need not come.
- `GoAgent`: the same, and strong fairness of the select's cancellation case:
  `select` chooses at random among ready cases, so a case that is ready in every
  pass is chosen in the end. With weak fairness the ticker could win for ever.
- `ProbeMonitors`: the agent and its child go on and systemd answers. The code has
  no timeout there: `waitpid` waits as long as `systemctl` does.

## 6. What is proved

`tlapm` checks every proof to its leaves. The assumptions are the `ASSUME`s of the
modules: bounds are naturals, `interval_seconds` is positive (`Config::validate`),
thresholds and cooldowns are any integers.

- `TelegramQueueProofs`: `InductiveInvariant`, and from it `TypeCorrect`, `WakeupNotLost`,
  `AllAccountedFor`, `ChatOrdered`, `DestructorDrains`, and `RefinesChannel`: the initial
  state and every step of the queue map to the channel's. The strengthening
  relates the lock, the places of owner and worker and the condition variable:
  a waiting worker with work to do implies a notification not yet made.
- `AlertProofs`, on the way of an alert: `CooldownInvariant` (the map holds, for every
  limited identity let through, the time of its last alert), hence
  `CooldownTypeCorrect`, `AlertsSpaced` and `SuppressionsJustified`; `CooldownsAgree`:
  with positive cooldowns the two agents give the same answers, because their maps are
  equal (`ParityIInv`). The case of other cooldowns is a finding (section 8). Around it
  the alert manager: `ManagerInvariant` says that the map remembers exactly what this
  life of the agent forwarded (`MapIsForwarded`, `ForwardedIsMapped`), and that messages
  of one identity are apart wherever they are, also those of which one is in the chat
  and the other still queued (`QueueSpaced`); without this `ChatSpaced` is not kept by a
  delivery. From it follow `ManagerTypeCorrect`, `ChatIsSpaced`, `WithheldReasons` and
  `Routing`. `ManagersAgree` is `CooldownsAgree` over restarts; both assume
  `AllLimited`, that every cooldown is positive.
- `AlertProofs`, on the checks that raise it: `HealthInvariant` for `HealthMonitors`. Of
  the memory it says what the map of `/proc/meminfo` holds after each line read
  (`MemInfoRead`) and what the kernel's file looks like (`MemInfoShape`); of the disks,
  that the paths judged so far are reported exactly if they are full (`PathsJudged`); of
  services and sites, that whoever was judged was up at some time in the check or is
  reported (`Settled`), and that a child that is dead knows what there was to know
  (`ChildKnows`). Hence `MemoryReported` (exactly, if the file could be opened, and
  never if not), `DisksReported`, `OutagesReported` and `ReportsExplained`. The
  arithmetic is the code's: rounded-down percentages, and a width of the block counts
  that their hundredfold fits into. That 2^`Width` is a natural number is an assumption
  because the provers know nothing of powers.
- `LogTailerProofs`: `TailerInvariant`, for both agents and every number of lines,
  files, long lines and failed opens. Its main conjuncts say that the sizes the tailer
  keeps are those of the files it keeps them for, which only grow (`Measured`), that
  what was there at the first poll lies behind the offset and behind whatever the poll
  under way may set it to (`HistoryBehind`), and that what lies behind the offset was
  returned while the tailer's file is the one at the path (`ReadToOffset`). `NumberedUp`
  is needed to know that appended units are new. `Stat` is the case that matters: the
  offset either belongs to the file measured, or falls to 0, or the file joins those
  whose replacement was missed. `NothingReplayed` and `NothingSkipped` follow. What was
  returned how often needs more, `PollInvariant`: the lines in the log are in order,
  each with its head before its end (`LogOrder`); what the offset has not passed was
  returned at most once, and only if its line came in the middle of a poll
  (`RepeatsKnown`); what is appended between a `Stat` and its `Read` is known to be
  (`RacesKnown`); the offset of a file that was not missed lies between two lines
  (`OffsetBetweenLines`). From it come `RepeatsHaveAReason` and `TornLinesHaveAReason`,
  and, since what is ahead of the offset follows all that was returned in its order
  (`InOrder`), the refinement: `TailersImplementFeed` maps every step of the writers and
  of either tailer to a step of `LineFeed` or to none. `Held` and `TimesWhole` are the
  mapping.
- `StartupProofs`: `StatusTold` from `StartupIInv` (what the process can rely on in each
  phase: which arguments it has read, that a test or a run has an accepted file);
  `LossExplained` from `LogKnows` (lines are numbered in order and a failed stream has
  met a full disk); `MeaningIsSame`, field by field: for every value that is as
  documented the two conversions give the same, and where both do the validations differ
  only in what `OnlyCppRefuses` lists. The files are assumed to hold JSON values
  (`IsJson`).
- `SshLogMonitorProofs` and `NginxLogMonitorProofs`, on the lemmas of `SequenceFacts`:
  the history of an address's events since the last alert splits into windows: the last
  `count` events lie within the current one, the earlier ones lie in windows that ran
  out, in each of which fewer than the threshold were counted. This is kept by each case
  of a line (`WindowEmpty`, `WindowOpened`, `EventAdded`, `WindowAdvanced`,
  `WindowLater`) and implies that alerts are true (`AttacksReal`, `BurstsReal`) and that
  2n-1 events within one window are never left unreported (`AttacksReported`,
  `BurstsReported`). `SureBurst` is the best bound: the run `ssh_threshold` shows that n
  events can be missed. But not n events of one check: a check reads the clock once, so
  no window splits them (`ChecksAlwaysReport`, in both modules). This is the safety part
  of `BacklogsReported`.
- `SshLogMonitorProofs`, on a real log: `DetectionInvariant` for `SshDetection`, for
  every log, threshold, window, gap between checks and number of polls that fail in a
  row. A line was counted no more often than it was returned (`FailuresReturned`), and
  is returned twice only if it came in the middle of a poll (`FeedKept`); no line
  counted in the window that is open stands in an alert, with the same exception
  (`AttacksClosed`). So the lines of an alert are, but for those, as many as it counts,
  and no other alert's: `CountsReal`. The argument counts with the lemmas `Once` and
  `AtMostTwice`: a sequence in which nothing is more than twice is at most twice as long
  as it has elements. For `SpansBounded` the invariant knows when the log was last read
  (`lastRead`), which was one gap ago for every poll that failed since and one more
  (`Wait`), and that what is still to be returned was written after it; so it bounds
  when the lines of the check under way were written (`ChecksInTime`), hence those of
  the failures counted since the last alert (`CountedInTime`), each near the time it was
  counted at; the times it was counted at fit the window. Without the failing polls the
  bound would be five minutes and twice the gap; each adds a gap. `LoginsAreKept` is the
  safety part of `LoginsReported`: a login is to be returned, or to be read, or in an
  alert, or lost, and lost it is only before the first poll, with its file, or behind
  the offset in a file whose replacement went unnoticed (`Poll` and `Rotate` are the
  steps that add to `lost`). Two refinements tie the module to those around it:
  `DetectionIsMonitor` (every step is one of `SshLogMonitor` or none, so what was proved
  of its `Spec` holds here) and `DetectionReadsFeed` (its log is a `LineFeed`). TLC
  checked the invariant on the instance of `ssh_detection`, with one line more in the
  middle of polls, before it was proved.
- `AgentProofs`: `AgentInvariant` relates the place main is at to the life of the
  object, the channel's phase and the handler. `HandlerSafe` needs that main frees the
  memory only after the worker was joined; `ExitDrained` that it closes the channel
  first; `CrashesExplained` that main leaves `run` only after a stop or with `--once`.
  `ScheduleKept` is proved from `Countdowns`, which gives every countdown as a function
  of the pass and of the monitor's turn in it; passes are not bounded.
  `GoAgentInvariant` does the same for the Go agent, where passes are counted modulo the
  interval (`GoCountdowns`, hence `GoScheduleKept`), and relates the alerts in hand to
  the cancellation (`OnlyReasons`, hence `NoAlarmIsFalse`).

Some properties are proved and not listed in a run. `ImplementsChannel` says as much
as `ChatInOrder` and `Drained` of the chat's order and of the destructor's return;
`Spacing` and `SuppressionJustified` are what `ChatSpaced` and `WithheldHasReason` rest on;
`AttacksAreReal` is sharpened by `CountsAreFailures` and `SpanBounded`. The type
invariants are conjuncts of proved invariants, and no run repeats them.

Every invariant that a passing run checks is proved, and so are `ImplementsFeed`,
`SameAnswers` with positive cooldowns, and the safety part of `ImplementsChannel`. Only
model-checked: liveness (`EventuallyReturned`, `LoginsReported`, `BacklogsReported`,
`StopHonoured`, `SignalEnds`,
`AllMonitored`, `CheckEnds`, `Recovers`, and that the queue's owner and worker go on,
which `ImplementsChannel` adds to `RefinesChannel`), because it needs fairness and
ENABLED, which are out of the prover's reach. The three documents' claims of section 8
are refuted by TLC.

## 7. What is not modelled

- The line parsers: regular expressions over text, without state, covered by the
  repository's tests. The log monitors' models begin with parsed lines.
- String utilities, environment and time formatting: pure functions. `trim` and
  `isSafeSystemdServiceName` appear as the constants `Blank` and `Unsafe`.
- The Go resource monitors: they compare floating-point percentages that a library
  computes, and keep no state.
- An exception from the construction of `Application` (`std::thread` in
  `TelegramNotifier.cpp:26`), which `main.cpp:80-82` turn into status 1: `Startup` has
  no step for it.
- Rotation or deletion of the agent's own log while it is open.
- An exception that leaves `run` with `--once`, the destruction of static objects after it,
  and a signal during it.
- Durations: how long a pass, a drain or a request takes. So the delay a slow check
  causes to the log monitors, or the time a shutdown takes, is not bounded;
  `SpanBounded` says what such a delay does to an alert.
- The growth of the queue and of the per-address counters, for which the code has no limit
  that could be stated.

## 8. Disagreements between documents and code

1. `docs/security.md:50` says that only new lines are read; the C++ tailer reads a line again
   that was appended between the size measurement and the read (`OnlyNewLines`).
   The cause is line 52 of `LogTailer.cpp`: after the loop `tellg()` is always -1.
2. `agent-go/README.md:91` claims feature parity; a cooldown of zero means "no limit" in
   C++ and 900 seconds in Go, which withholds the second alert where C++ sends it
   (`SameAnswers`).
3. `docs/configuration.md:133` describes a threshold in 5 minutes; the window tumbles, so
   that many failures can pass (`ThresholdReported`). What holds is proved.

`docs/configuration.md:74` and `docs/architecture.md:15` describe one interval for all
monitors; `Application.cpp:23-24` register the log monitors with a period of one
second. `Period` in `Agent` follows the code, and no run is devoted to it.

## 9. Plan

Done, in the order of importance: notifier queue and its channel, log tailer and the
feed it implements, cooldown and parity, windows and log monitors, process and
scheduler, alert manager, Go loop, resource and probe monitors, SSH detection on a
real log, start, configuration and logger.

Next:

1. The Nginx monitor on `LineFeed`, as `SshDetection` does it for the SSH monitor.
2. `ProbeMonitors` with the process: a false alarm caused by the stop itself (a
   `systemctl` killed by the signal) is delivered by the C++ agent's drain. The Go agent
   withholds what a cancelled check reports (`NoFalseAlarm`); a child that is killed
   before the context is cancelled is outside `GoAgent`, and belongs here too.
3. Liveness of the tailer and the monitors under the scheduler's fairness instead of
   their own.
4. Proofs: what the Nginx monitor on `LineFeed` will need; bounds on the counters of
   `SshDetection` in terms of the lines of its log.
