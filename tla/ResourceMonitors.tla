-------------------------- MODULE ResourceMonitors --------------------------
(***************************************************************************)
(* One check of RamMonitor, DiskMonitor or CpuMonitor (src/monitor/): what *)
(* it reads, the integer arithmetic it judges it by, and the alerts.       *)
(*                                                                         *)
(* /proc/meminfo is read in triples key, value, unit, but the counts of    *)
(* huge pages have no unit: the key of the next line is taken for it, and  *)
(* the reading ends there.                                                 *)
(***************************************************************************)
EXTENDS Integers, Sequences

CONSTANTS
  Counts,       \* amounts of memory, of blocks, and loads (in tenths)
  Percents,     \* thresholds: Config::validate keeps them in 1..100
  Width,        \* bits of fsblkcnt_t, whose arithmetic wraps
  MaxInput      \* bound on the lines after the first ones, and on the paths

ASSUME ResourceAssumption ==
  /\ Counts \subseteq Nat
  /\ Percents \subseteq 1..100
  /\ Width \in Nat /\ 2^Width \in Nat
  /\ \A n \in Counts : 100 * n < 2^Width
  /\ MaxInput \in Nat

VARIABLES
  monitor,      \* "ram", "disk" or "load"
  opens,        \* /proc/meminfo can be opened
  percent,      \* the monitor's threshold
  file,         \* what there is to read: lines, file systems or one load
  rest,         \* what is left of it
  values,       \* RamMonitor: the map of what was read
  raised,       \* the alerts returned: positions in file, or "memory"
  finished

resourceVars == <<monitor, opens, percent, file, rest, values, raised, finished>>

LineKeys == {"MemTotal", "MemFree", "MemAvailable", "Buffers", "HugePages"}
Line(key, n) == [key |-> key, value |-> n, unit |-> key # "HugePages"]

SeqsUpTo(S, n) == UNION {[1..k -> S] : k \in 0..n}

(* The kernel's order: the total, what is free, what is available (from    *)
(* 3.14 on), and the rest, where lines without a unit come last but one.   *)
AvailableLines == {<<>>} \cup {<<Line("MemAvailable", n)>> : n \in Counts}
OtherLines == SeqsUpTo({Line("Buffers", 0), Line("HugePages", 0)}, MaxInput)
MemInfo ==
  {<<Line("MemTotal", total), Line("MemFree", free)>> \o available \o others :
     total \in Counts, free \in Counts,
     available \in AvailableLines, others \in OtherLines}

Has(key) == \E i \in DOMAIN file : file[i].key = key
Amount(key) == file[CHOOSE i \in DOMAIN file : file[i].key = key].value

WithinTotal(lines) ==
  \A i \in DOMAIN lines :
    lines[i].key \in {"MemFree", "MemAvailable"} => lines[i].value <= lines[1].value

FileSystems ==
  {fs \in [readable : BOOLEAN, blocks : Counts, free : Counts] :
     fs.free <= fs.blocks /\ (~fs.readable => fs.blocks = 0)}

ResourceInit ==
  /\ percent \in Percents
  /\ \/ monitor = "ram" /\ file \in {lines \in MemInfo : WithinTotal(lines)}
     \/ monitor = "disk" /\ file \in SeqsUpTo(FileSystems, MaxInput)
     \/ monitor = "load" /\ file \in SeqsUpTo(Counts, 1)
  /\ opens \in {TRUE, monitor # "ram"}
  /\ rest = file
  /\ values = [key \in {} |-> 0]
  /\ raised = <<>>
  /\ finished = FALSE

----------------------------------------------------------------------------
(* RamMonitor::check *)

(* No alert, whatever the memory. *)
OpenFails ==
  /\ monitor = "ram" /\ ~opens /\ ~finished
  /\ finished' = TRUE
  /\ UNCHANGED <<monitor, opens, percent, file, rest, values, raised>>

Store(line) ==
  values' = [key \in DOMAIN values \cup {line.key} |->
               IF key = line.key THEN line.value ELSE values[key]]

ReadLine ==
  /\ monitor = "ram" /\ opens /\ rest # <<>>
  /\ Head(rest).unit
  /\ Store(Head(rest))
  /\ rest' = Tail(rest)
  /\ UNCHANGED <<monitor, opens, percent, file, raised, finished>>

(* The triple is complete if another line follows; the next one never is. *)
ReadUnitless ==
  /\ monitor = "ram" /\ opens /\ rest # <<>>
  /\ ~Head(rest).unit
  /\ IF Len(rest) > 1 THEN Store(Head(rest)) ELSE UNCHANGED values
  /\ rest' = <<>>
  /\ UNCHANGED <<monitor, opens, percent, file, raised, finished>>

(* operator[] of the map: a key that is not there counts as 0. *)
Value(key) == IF key \in DOMAIN values THEN values[key] ELSE 0

(* Variant: what is free is taken for what is available. *)
FreeMemory == Value("MemFree")

AvailableMemory ==
  IF "MemAvailable" \in DOMAIN values THEN Value("MemAvailable")
  ELSE Value("MemFree")

(* Variant: the quotient is taken first. *)
QuotientFirst(used, total) == (used \div total) * 100

UsedPercent(used, total) == (used * 100) \div total

JudgeRam ==
  /\ monitor = "ram" /\ opens /\ rest = <<>> /\ ~finished
  /\ finished' = TRUE
  /\ LET total == Value("MemTotal")
     IN  IF \/ total <= 0
            \/ AvailableMemory < 0
            \/ UsedPercent(total - AvailableMemory, total) < percent
         THEN UNCHANGED raised
         ELSE raised' = <<"memory">>
  /\ UNCHANGED <<monitor, opens, percent, file, rest, values>>

----------------------------------------------------------------------------
(* DiskMonitor::check *)

Position == Len(file) - Len(rest) + 1

(* Variant: a path that cannot be read ends the check. *)
GiveUpUnreadable ==
  /\ monitor = "disk" /\ rest # <<>>
  /\ ~Head(rest).readable \/ Head(rest).blocks = 0
  /\ rest' = <<>>
  /\ UNCHANGED <<monitor, opens, percent, file, values, raised, finished>>

(* Not a mounted path, or a file system without blocks. *)
SkipPath ==
  /\ monitor = "disk" /\ rest # <<>>
  /\ ~Head(rest).readable \/ Head(rest).blocks = 0
  /\ rest' = Tail(rest)
  /\ UNCHANGED <<monitor, opens, percent, file, values, raised, finished>>

Wrapped(n) == n % 2^Width

JudgePath ==
  /\ monitor = "disk" /\ rest # <<>>
  /\ Head(rest).readable /\ Head(rest).blocks # 0
  /\ LET fs   == Head(rest)
         used == Wrapped(fs.blocks - fs.free)
     IN  IF Wrapped(used * 100) \div fs.blocks >= percent
         THEN raised' = Append(raised, Position)
         ELSE UNCHANGED raised
  /\ rest' = Tail(rest)
  /\ UNCHANGED <<monitor, opens, percent, file, values, finished>>

EndPaths ==
  /\ monitor = "disk" /\ rest = <<>> /\ ~finished
  /\ finished' = TRUE
  /\ UNCHANGED <<monitor, opens, percent, file, rest, values, raised>>

----------------------------------------------------------------------------
(* CpuMonitor::check; its threshold is a load, here in tenths. *)

JudgeLoad ==
  /\ monitor = "load" /\ ~finished
  /\ raised' = IF file # <<>> /\ file[1] >= percent THEN <<1>> ELSE <<>>
  /\ finished' = TRUE
  /\ UNCHANGED <<monitor, opens, percent, file, rest, values>>

ResourceNext ==
  \/ OpenFails \/ ReadLine \/ ReadUnitless \/ JudgeRam
  \/ SkipPath \/ JudgePath \/ EndPaths
  \/ JudgeLoad

----------------------------------------------------------------------------
(* Memory is reported exactly when /proc/meminfo can be opened and what is *)
(* used of it reaches the percent configured (docs/configuration.md:127),  *)
(* whatever the file says after the lines that count, and on kernels that  *)
(* do not say what is available.  If it cannot be opened, nothing tells    *)
(* the operator that memory is not watched.                                *)
RamReached ==
  monitor = "ram" /\ finished =>
    LET total == Amount("MemTotal")
        used  == total - Amount(IF Has("MemAvailable") THEN "MemAvailable"
                                ELSE "MemFree")
    IN  raised # <<>> <=> opens /\ total > 0 /\ 100 * used >= percent * total

(* Exactly the paths whose file system is used to the percent configured   *)
(* are reported, in the order of the configuration: one that cannot be     *)
(* read, or has no blocks, does not keep the others from being judged.     *)
Full(fs) ==
  fs.blocks > 0 /\ 100 * (fs.blocks - fs.free) >= percent * fs.blocks

DiskReached ==
  monitor = "disk" /\ finished =>
    /\ \A i, j \in DOMAIN raised : i < j => raised[i] < raised[j]
    /\ {raised[i] : i \in DOMAIN raised} = {i \in DOMAIN file : Full(file[i])}

----------------------------------------------------------------------------
(* The inductive invariant.  What is left to read is the end of the file.  *)
Done == Len(file) - Len(rest)

ResourceTypeOK ==
  /\ monitor \in {"ram", "disk", "load", "none"}
  /\ percent \in 1..100
  /\ opens \in BOOLEAN
  /\ finished \in BOOLEAN
  /\ Done >= 0
  /\ \A i \in DOMAIN rest : rest[i] = file[Done + i]
  /\ finished /\ monitor = "disk" => rest = <<>>
  /\ finished /\ monitor = "ram" /\ opens => rest = <<>>

(* The lines that count are the first ones, and have their units: after    *)
(* one without a unit there is none of them.                               *)
KeysThatCount == {"MemTotal", "MemFree", "MemAvailable"}
Place(key) == CASE key = "MemTotal" -> 1 [] key = "MemFree" -> 2 [] OTHER -> 3

Lines == [key : LineKeys, value : Nat, unit : BOOLEAN]

MemInfoShape ==
  /\ file \in Seq(Lines) /\ rest \in Seq(Lines)
  /\ Len(file) >= 2 /\ file[1].key = "MemTotal" /\ file[2].key = "MemFree"
  /\ \A i \in DOMAIN file : file[i].unit <=> file[i].key # "HugePages"
  /\ \A i \in DOMAIN file :
       file[i].key \in KeysThatCount => i = Place(file[i].key)
  /\ WithinTotal(file)

(* Every line that counts and was read is in the map, with its value.      *)
MemInfoRead ==
  /\ \A i \in DOMAIN file :
       file[i].key \in KeysThatCount \cap DOMAIN values
         => values[file[i].key] = file[i].value
  /\ \A i \in 1..Done :
       file[i].key \in KeysThatCount => file[i].key \in DOMAIN values
  /\ DOMAIN values \subseteq {file[i].key : i \in DOMAIN file}

(* The paths judged so far are reported exactly if they are full.          *)
PathsJudged ==
  /\ file \in Seq(FileSystems) /\ rest \in Seq(FileSystems)
  /\ raised \in Seq(1..Len(file))
  /\ \A i \in 1..Len(raised) : raised[i] <= Done
  /\ \A i, j \in 1..Len(raised) : i < j => raised[i] < raised[j]
  /\ {raised[i] : i \in 1..Len(raised)} = {i \in 1..Done : Full(file[i])}

ResourceIInv ==
  /\ ResourceTypeOK
  /\ monitor = "ram" =>
       /\ MemInfoShape /\ MemInfoRead
       /\ ~finished => raised = <<>>
       /\ RamReached
  /\ monitor = "disk" => PathsJudged
=============================================================================
