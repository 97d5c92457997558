---------------------------- MODULE StartupProofs ----------------------------
(***************************************************************************)
(* Starting up, for every command line, every file and every sequence of   *)
(* edits, deaths and restarts: what the exit status tells, what the log    *)
(* can lose, and that a documented file means the same to both agents.     *)
(***************************************************************************)
EXTENDS Startup, SequenceFacts, TLAPS

Types == {"text", "int", "long", "double", "list", "id", "ids"}

(* The names of the fields, by type. *)
TextFields == {"server_name", "log_file", "ssh_auth", "nginx_access"}
ListFields == {"disk_paths", "services", "websites", "nginx_suspicious_paths"}
IntFields == {"interval_seconds", "ram_percent", "disk_percent",
              "ssh_failed_attempts", "nginx_requests_per_minute",
              "nginx_404_per_minute", "default_seconds", "resource_alert_seconds",
              "website_alert_seconds", "service_alert_seconds",
              "ssh_bruteforce_seconds", "web_scan_seconds"}
OtherFields == {"load_average_1m", "website_timeout_seconds",
                "default_thread_id", "alert_threads"}

(* What the schema says of types and of the fields with a rule of their    *)
(* own.                                                                    *)
LEMMA SchemaFacts ==
  /\ \A field \in Fields :
       /\ TypeOf(field) \in Types
       /\ TypeOf(field) = "id" => Default(field) = Null
       /\ field = "alert_threads" => TypeOf(field) = "ids"
  /\ {"default_thread_id", "alert_threads"} \subseteq Fields
  /\ TypeOf("default_thread_id") = "id" /\ TypeOf("alert_threads") = "ids"
<1>1. Fields = TextFields \cup ListFields \cup IntFields \cup OtherFields
  BY DEF Fields, Schema, TextFields, ListFields, IntFields, OtherFields
<1>2. \A field \in TextFields : TypeOf(field) = "text"
  <2>1. /\ TypeOf("server_name") = "text" /\ TypeOf("log_file") = "text"
        /\ TypeOf("ssh_auth") = "text" /\ TypeOf("nginx_access") = "text"
    BY DEF TypeOf, Schema, Field
  <2> QED
    BY <2>1 DEF TextFields
<1>3. \A field \in ListFields : TypeOf(field) = "list"
  <2>1. /\ TypeOf("disk_paths") = "list" /\ TypeOf("services") = "list"
        /\ TypeOf("websites") = "list"
        /\ TypeOf("nginx_suspicious_paths") = "list"
    BY DEF TypeOf, Schema, Field
  <2> QED
    BY <2>1 DEF ListFields
<1>4. \A field \in IntFields : TypeOf(field) = "int"
  <2>1. /\ TypeOf("interval_seconds") = "int" /\ TypeOf("ram_percent") = "int"
        /\ TypeOf("disk_percent") = "int" /\ TypeOf("ssh_failed_attempts") = "int"
        /\ TypeOf("nginx_requests_per_minute") = "int"
        /\ TypeOf("nginx_404_per_minute") = "int"
    BY DEF TypeOf, Schema, Field
  <2>2. /\ TypeOf("default_seconds") = "int"
        /\ TypeOf("resource_alert_seconds") = "int"
        /\ TypeOf("website_alert_seconds") = "int"
        /\ TypeOf("service_alert_seconds") = "int"
        /\ TypeOf("ssh_bruteforce_seconds") = "int"
        /\ TypeOf("web_scan_seconds") = "int"
    BY DEF TypeOf, Schema, Field
  <2> QED
    BY <2>1, <2>2 DEF IntFields
<1>5. /\ TypeOf("load_average_1m") = "double"
      /\ TypeOf("website_timeout_seconds") = "long"
      /\ TypeOf("default_thread_id") = "id" /\ TypeOf("alert_threads") = "ids"
  BY DEF TypeOf, Schema, Field
<1>6. Default("default_thread_id") = Null
  BY DEF Default, Schema, Field, Value, Null
<1>7. \A field \in Fields :
        /\ TypeOf(field) \in Types
        /\ TypeOf(field) = "id" => Default(field) = Null
  BY <1>1, <1>2, <1>3, <1>4, <1>5, <1>6 DEF OtherFields, Types
<1>8. {"default_thread_id", "alert_threads"} \subseteq Fields
  BY <1>1 DEF OtherFields
<1> QED
  BY <1>5, <1>7, <1>8

(* A value that is as documented has one meaning. *)
LEMMA ValuesAgree ==
  ASSUME NEW field \in Fields, NEW v, IsValue(v),
         ValueAsDocumented(field, v)
  PROVE  Unmarshalled(TypeOf(field), v, Default(field)) =
           IF v # Null \/ field = "alert_threads"
           THEN Get(TypeOf(field), v) ELSE Default(field)
<1> DEFINE type == TypeOf(field)
<1>0. v = <<v[1], v[2]>>
  BY DEF IsValue
<1>1. CASE type \in {"int", "long"}
  <2>1. v[1] = "int" /\ Wrapped(v[2]) = v[2] /\ v # Null
    <3>1. TypeOf(field) = "int" \/ TypeOf(field) = "long"
      BY <1>1
    <3>2. CASE TypeOf(field) = "int"
      BY <3>2 DEF ValueAsDocumented, Null
    <3>3. CASE TypeOf(field) = "long"
      BY <3>3 DEF ValueAsDocumented, Null
    <3> QED
      BY <3>1, <3>2, <3>3
  <2>2. Get(type, v) = v
    BY <1>0, <1>1, <2>1 DEF Get, Value
  <2>3. Unmarshalled(type, v, Default(field)) = v
    BY <1>1, <2>1 DEF Unmarshalled
  <2> QED
    BY <2>1, <2>2, <2>3
<1>2. CASE type = "double"
  BY <1>0, <1>2 DEF ValueAsDocumented, Get, Unmarshalled, Value, Null
<1>3. CASE type = "id"
  <2>1. Default(field) = Null /\ field # "alert_threads"
    BY <1>3, SchemaFacts
  <2>2. CASE v = Null
    BY <1>3, <2>1, <2>2 DEF Unmarshalled
  <2>3. CASE v # Null
    BY <1>0, <1>3, <2>3 DEF ValueAsDocumented, Get, Unmarshalled, Value
  <2> QED
    BY <2>2, <2>3
<1>4. CASE type = "ids"
  <2>1. v # Null /\ v[1] = "object" /\ AllIn(v, {"int"})
    BY <1>4 DEF ValueAsDocumented, Null
  <2>2. AllIn(v, {"int", "float", "bool"}) /\ AllIn(v, {"int", "null"})
    BY <2>1 DEF AllIn
  <2> QED
    BY <1>4, <2>1, <2>2 DEF Get, Unmarshalled
<1>5. CASE type = "list"
  <2>1. v # Null /\ v[1] = "list" /\ AllIn(v, {"text"})
    BY <1>5 DEF ValueAsDocumented, Null
  <2>2. AllIn(v, {"text", "null"})
    BY <2>1 DEF AllIn
  <2>3. \A i \in DOMAIN v[2] : GoElement(v, i, Default(field)) = v[2][i]
    BY <2>1 DEF AllIn, Elements, GoElement, Null
  <2>4. [i \in DOMAIN v[2] |-> GoElement(v, i, Default(field))] = v[2]
    BY <2>1, <2>3 DEF IsValue
  <2>5. Unmarshalled("list", v, Default(field)) = Value("list", v[2])
    BY <2>1, <2>2, <2>4 DEF Unmarshalled
  <2>6. Get("list", v) = v
    BY <2>1 DEF Get
  <2> QED
    BY <1>0, <1>5, <2>1, <2>5, <2>6 DEF Value
<1>6. CASE type = "text"
  BY <1>0, <1>6 DEF ValueAsDocumented, Get, Unmarshalled, Null
<1> QED
  BY <1>1, <1>2, <1>3, <1>4, <1>5, <1>6, SchemaFacts DEF Types

(* Both agents read the same settings from a documented file. *)
LEMMA SettingsAgree ==
  ASSUME NEW file, AsDocumented(file), IsJson(file.json)
  PROVE  CppSettings(file.json) = GoSettings(file.json)
<1>1. ASSUME NEW field \in Fields
      PROVE  SetIfPresent(Holder(file.json, field), field) =
               IF Has(Holder(file.json, field), field)
               THEN Unmarshalled(TypeOf(field), At(Holder(file.json, field), field),
                                 Default(field))
               ELSE Default(field)
  <2> DEFINE holder == Holder(file.json, field)
  <2>1. CASE Has(holder, field)
    <3>1. IsValue(At(holder, field))
      BY <2>1 DEF IsJson
    <3>2. Unmarshalled(TypeOf(field), At(holder, field), Default(field)) =
            IF At(holder, field) # Null \/ field = "alert_threads"
            THEN Get(TypeOf(field), At(holder, field)) ELSE Default(field)
      BY <2>1, <3>1, ValuesAgree DEF AsDocumented
    <3> QED
      BY <2>1, <3>2 DEF SetIfPresent
  <2>2. CASE ~Has(holder, field)
    BY <2>2 DEF SetIfPresent
  <2> QED
    BY <2>1, <2>2
<1> QED
  BY <1>1 DEF CppSettings, GoSettings

(* The topics of a documented file are integers. *)
LEMMA TopicsInt ==
  ASSUME NEW file, AsDocumented(file), IsJson(file.json)
  PROVE  LET s == GoSettings(file.json)
         IN  /\ s.default_thread_id # Null => s.default_thread_id[2] \in Int
             /\ \A key \in DOMAIN s.alert_threads[2] :
                  s.alert_threads[2][key][2] \in Int
<1> DEFINE s == GoSettings(file.json)
           held(field) == At(Holder(file.json, field), field)
           has(field) == Has(Holder(file.json, field), field)
<1>1. \A field \in Fields :
        s[field] = IF has(field)
                   THEN Unmarshalled(TypeOf(field), held(field), Default(field))
                   ELSE Default(field)
  BY DEF GoSettings
<1>2. \A field \in Fields :
        has(field) => ValueAsDocumented(field, held(field)) /\ IsValue(held(field))
  BY DEF AsDocumented, IsJson
<1> HIDE DEF s, held, has
<1>3. s.default_thread_id # Null => s.default_thread_id[2] \in Int
  <2> DEFINE v == held("default_thread_id")
  <2>1. CASE ~has("default_thread_id")
    BY <1>1, <2>1, SchemaFacts
  <2>2. CASE has("default_thread_id")
    <3>1. s.default_thread_id = Unmarshalled("id", v, Default("default_thread_id"))
      BY <1>1, <2>2, SchemaFacts
    <3>2. v[1] = "int" => v[2] \in Int
      BY <1>2, <2>2, SchemaFacts DEF IsValue
    <3> QED
      BY <3>1, <3>2 DEF Unmarshalled, Error
  <2> QED
    BY <2>1, <2>2
<1>4. \A key \in DOMAIN s.alert_threads[2] : s.alert_threads[2][key][2] \in Int
  <2> DEFINE v == held("alert_threads")
  <2>1. CASE ~has("alert_threads")
    <3>1. s.alert_threads = Default("alert_threads")
      BY <1>1, <2>1, SchemaFacts
    <3>2. Default("alert_threads") = Value("object", << >>)
      BY DEF Default, Schema, Field, Value
    <3> QED
      BY <3>1, <3>2 DEF Value
  <2>2. CASE has("alert_threads")
    <3>1. s.alert_threads = Unmarshalled("ids", v, Default("alert_threads"))
      BY <1>1, <2>2, SchemaFacts
    <3>2. v[1] = "object" /\ AllIn(v, {"int"}) /\ IsValue(v)
      BY <1>2, <2>2, SchemaFacts DEF ValueAsDocumented
    <3>3. \A key \in DOMAIN v[2] : v[2][key][2] \in Int
      BY <3>2 DEF IsValue, AllIn, Elements
    <3>4. v # Null /\ AllIn(v, {"int", "null"})
      BY <3>2 DEF Null, AllIn
    <3>5. s.alert_threads = Value("object", [key \in DOMAIN v[2] |->
                                               Value("int", v[2][key][2])])
      BY <3>1, <3>2, <3>4 DEF Unmarshalled
    <3> QED
      BY <3>3, <3>5 DEF Value
  <2> QED
    BY <2>1, <2>2
<1> QED
  BY <1>3, <1>4 DEF s

(* What a documented file means to the two agents. *)
LEMMA FilesAgree ==
  ASSUME NEW file, AsDocumented(file), IsJson(file.json)
  PROVE  /\ CppAccepts(file) =>
              /\ GoAccepts(file)
              /\ GoSettings(file.json) = CppSettings(file.json)
         /\ GoAccepts(file) /\ ~CppAccepts(file) =>
              OnlyCppRefuses(GoSettings(file.json))
<1> DEFINE s == GoSettings(file.json)
<1>1. CppSettings(file.json) = s
  BY SettingsAgree
<1>2. file.state = "parsed" /\ GoShape(file.json)
  BY DEF AsDocumented, GoShape
<1>3. /\ s.default_thread_id # Null => s.default_thread_id[2] \in Int
      /\ \A key \in DOMAIN s.alert_threads[2] : s.alert_threads[2][key][2] \in Int
  BY TopicsInt
<1>4. CppAccepts(file) <=> (\A field \in Fields : s[field] # Error) /\ CppValid(s)
  BY <1>1, <1>2 DEF CppAccepts
<1>5. GoAccepts(file) <=> (\A field \in Fields : s[field] # Error) /\ GoValid(s)
  BY <1>2 DEF GoAccepts
<1> HIDE DEF s
<1>6. CppValid(s) => GoValid(s)
  BY ConfigurationAssumption DEF CppValid, GoValid
<1>7. GoValid(s) /\ ~CppValid(s) => OnlyCppRefuses(s)
  <2> SUFFICES ASSUME GoValid(s), ~OnlyCppRefuses(s) PROVE CppValid(s)
    OBVIOUS
  <2>1. s.server_name[2] \notin Blank
    BY DEF OnlyCppRefuses
  <2>2. s.default_thread_id # Null => s.default_thread_id[2] > 0
    BY <1>3 DEF OnlyCppRefuses
  <2>3. \A key \in DOMAIN s.alert_threads[2] :
          key \notin Blank /\ s.alert_threads[2][key][2] > 0
    <3> SUFFICES ASSUME NEW key \in DOMAIN s.alert_threads[2]
                 PROVE  key \notin Blank /\ s.alert_threads[2][key][2] > 0
      OBVIOUS
    <3>1. s.alert_threads[2][key][2] \in Int
      BY <1>3
    <3>2. key \notin Blank /\ ~(s.alert_threads[2][key][2] <= 0)
      BY DEF OnlyCppRefuses
    <3> QED
      BY <3>1, <3>2
  <2> QED
    BY <2>1, <2>2, <2>3 DEF CppValid, GoValid
<1> QED
  BY <1>1, <1>4, <1>5, <1>6, <1>7 DEF s

----------------------------------------------------------------------------
(* The exit status *)

(* The process starts in the inductive invariant, and starts again in it.  *)
Fresh ==
  /\ \E start \in Starts : arguments = start[1]
  /\ rest = arguments /\ options = {}
  /\ phase = "options" /\ seen = Missing /\ status = 0
  /\ ran = FALSE /\ delivered = FALSE

LEMMA FreshProcess == Fresh => StartupIInv
<1> SUFFICES ASSUME Fresh PROVE StartupIInv
  OBVIOUS
<1> USE DEF Fresh
<1>1. rest \in Seq(STRING) /\ \A i \in DOMAIN rest : Given(rest[i])
  BY StartupAssumption DEF Given
<1>2. status \in 0..2
  OBVIOUS
<1>3. PhaseKnows
  BY <1>2, Zenon DEF PhaseKnows
<1>4. StatusTells
  BY Zenon DEF StatusTells
<1> QED
  BY <1>1, <1>3, <1>4 DEF StartupIInv, OptionsGiven

(* What follows when the command line stays and a part of the arguments    *)
(* has been read.                                                          *)
LEMMA ArgumentsRead ==
  ASSUME OptionsGiven, rest # <<>>
  PROVE  /\ Given(Head(rest))
         /\ Tail(rest) \in Seq(STRING)
         /\ \A i \in DOMAIN Tail(rest) : Given(Tail(rest)[i])
<1>1. /\ rest \in Seq(STRING)
      /\ Head(rest) = rest[1] /\ Tail(rest) \in Seq(STRING)
      /\ Len(rest) \in Nat \ {0} /\ Len(Tail(rest)) = Len(rest) - 1
      /\ \A i \in 1..Len(Tail(rest)) : Tail(rest)[i] = rest[i + 1]
  BY TailFacts DEF OptionsGiven
<1>2. DOMAIN rest = 1..Len(rest) /\ DOMAIN Tail(rest) = 1..Len(Tail(rest))
  BY <1>1
<1>3. 1 \in DOMAIN rest /\ \A i \in DOMAIN Tail(rest) : i + 1 \in DOMAIN rest
  BY <1>1, <1>2
<1> QED
  BY <1>1, <1>2, <1>3 DEF OptionsGiven

(* Every option, once read, was given. *)
LEMMA ReadKeepsOptions ==
  ASSUME OptionsGiven, ReadOptions, UNCHANGED arguments
  PROVE  OptionsGiven'
<1>0. \A option : Given(option)' <=> Given(option)
  BY DEF Given
<1>1. CASE TakeFlag
  <2>1. rest' = Tail(rest) /\ options' = options \cup {Head(rest)} /\ rest # <<>>
    BY <1>1 DEF TakeFlag, Reading
  <2> QED
    BY <1>0, <2>1, ArgumentsRead DEF OptionsGiven
<1>2. CASE TakePath
  <2>1. /\ rest' = Tail(Tail(rest)) /\ options' = options
        /\ rest # <<>> /\ Len(rest) > 1
    BY <1>2 DEF TakePath, Reading
  <2>2. /\ Tail(rest) \in Seq(STRING) /\ Tail(rest) # <<>>
        /\ \A i \in DOMAIN Tail(rest) : Given(Tail(rest)[i])
    <3>1. rest \in Seq(STRING)
      BY DEF OptionsGiven
    <3> QED
      BY <2>1, <3>1, ArgumentsRead
  <2>3. /\ Tail(Tail(rest)) \in Seq(STRING)
        /\ Len(Tail(rest)) \in Nat \ {0}
        /\ Len(Tail(Tail(rest))) = Len(Tail(rest)) - 1
        /\ \A i \in 1..Len(Tail(Tail(rest))) : Tail(Tail(rest))[i] = Tail(rest)[i + 1]
    BY <2>2, TailFacts
  <2>4. /\ DOMAIN Tail(rest) = 1..Len(Tail(rest))
        /\ DOMAIN Tail(Tail(rest)) = 1..Len(Tail(Tail(rest)))
    BY <2>2, <2>3
  <2>5. \A i \in DOMAIN Tail(Tail(rest)) : Given(Tail(Tail(rest))[i])
    <3>1. \A i \in DOMAIN Tail(Tail(rest)) : i + 1 \in DOMAIN Tail(rest)
      BY <2>3, <2>4
    <3> QED
      BY <2>2, <2>3, <2>4, <3>1
  <2> QED
    BY <1>0, <2>1, <2>3, <2>5 DEF OptionsGiven
<1>3. CASE Answer \/ Refuse \/ OptionsRead
  BY <1>0, <1>3 DEF Answer, Refuse, OptionsRead, OptionsGiven
<1>4. CASE StopReading
  BY <1>0, <1>4 DEF StopReading, OptionsGiven
<1> QED
  BY <1>1, <1>2, <1>3, <1>4 DEF ReadOptions

(* Reading the options ends with the right status, or goes on to the file. *)
LEMMA ReadKeepsStatus ==
  ASSUME StartupIInv, ReadOptions, UNCHANGED <<arguments, program>>
  PROVE  PhaseKnows' /\ StatusTells'
<1>0. /\ phase = "options" /\ seen = Missing /\ ran = FALSE /\ delivered = FALSE
      /\ UNCHANGED <<seen, ran, delivered>>
  <2>1. phase = "options" /\ UNCHANGED <<seen, ran, delivered>>
    BY DEF ReadOptions, TakeFlag, TakePath, Answer, Refuse, StopReading,
           OptionsRead, Reading, OptionsOnly
  <2> QED
    BY <2>1 DEF StartupIInv, PhaseKnows
<1>1. \/ phase' = "options" /\ status' = status
      \/ phase' = "load" /\ status' = status
      \/ phase' = "exited" /\ status' = 2
      \/ phase' = "exited" /\ status' = 0 /\ (Given("--version") \/ Given("--help"))
  <2>1. CASE TakeFlag \/ TakePath \/ StopReading
    BY <1>0, <2>1 DEF TakeFlag, TakePath, StopReading
  <2>2. CASE Answer
    <3>1. Head(rest) \in {"--help", "--version"} /\ rest # <<>>
      BY <2>2 DEF Answer, Answers, Reading
    <3>2. Given(Head(rest))
      BY <3>1, ArgumentsRead DEF StartupIInv
    <3> QED
      BY <2>2, <3>1, <3>2 DEF Answer, Exit
  <2>3. CASE Refuse
    BY <2>3 DEF Refuse, Exit
  <2>4. CASE OptionsRead
    BY <2>4 DEF OptionsRead, Exit, StartupIInv, OptionsGiven
  <2> QED
    BY <2>1, <2>2, <2>3, <2>4 DEF ReadOptions
<1>2. status \in 0..2
  BY DEF StartupIInv, PhaseKnows
<1>3. PhaseKnows'
  <2>1. status' \in 0..2
    BY <1>1, <1>2
  <2> QED
    BY <1>0, <1>1, <2>1, Zenon DEF PhaseKnows
<1>4. \A option : Given(option)' <=> Given(option)
  BY DEF Given
<1>5. StatusTells'
  <2>1. 2 # 0 /\ 2 # 1 /\ 1 # 0
    OBVIOUS
  <2>2. phase' = "exited" =>
          \/ status' = 2
          \/ status' = 0 /\ (Given("--version") \/ Given("--help"))
    BY <1>1
  <2> QED
    BY <1>0, <1>4, <2>1, <2>2, Zenon DEF StatusTells
<1> QED
  BY <1>3, <1>5

(* A step that leaves the command line and its options alone. *)
LEMMA OptionsKept ==
  ASSUME OptionsGiven, UNCHANGED <<arguments, rest, options>>
  PROVE  OptionsGiven' /\ \A option : Given(option)' <=> Given(option)
  BY DEF OptionsGiven, Given

(* The configuration is loaded, and refused or accepted. *)
LEMMA LoadStep ==
  ASSUME PhaseKnows, StatusTells, Load, program' = program
  PROVE  PhaseKnows' /\ StatusTells'
<1>0. /\ phase = "load" /\ ~ran /\ ~delivered
      /\ UNCHANGED <<options, ran, delivered>>
      /\ status \in 0..2 /\ ran \in BOOLEAN /\ delivered \in BOOLEAN
  BY Zenon DEF Load, PhaseKnows
<1>1. CASE Accepts(program, seen') /\ phase' = "log" /\ status' = status
  BY <1>0, <1>1, Zenon DEF PhaseKnows, StatusTells
<1>2. CASE ~Accepts(program, seen') /\ phase' = "exited" /\ status' = 1
  <2>1. status' \in 0..2 /\ 1 # 0 /\ 1 # 2
    BY <1>2
  <2> QED
    BY <1>0, <1>2, <2>1, Zenon DEF PhaseKnows, StatusTells
<1> QED
  BY <1>1, <1>2, Zenon DEF Load, Exit

(* The log is opened, and the process tests or runs. *)
LEMMA OpenLogStep ==
  ASSUME PhaseKnows, StatusTells, OpenLog, program' = program
  PROVE  PhaseKnows' /\ StatusTells'
<1>0. /\ phase = "log" /\ ~ran /\ ~delivered /\ Accepts(program, seen)
      /\ UNCHANGED <<options, seen, status, delivered>>
      /\ status \in 0..2 /\ delivered \in BOOLEAN
      /\ ran' = (phase' = "run")
      /\ phase' = IF "--test-telegram" \in options THEN "test" ELSE "run"
  BY Zenon DEF OpenLog, PhaseKnows
<1>1. CASE phase' = "test" /\ "--test-telegram" \in options /\ ran' = FALSE
  BY <1>0, <1>1, Zenon DEF PhaseKnows, StatusTells
<1>2. CASE phase' = "run" /\ "--test-telegram" \notin options /\ ran' = TRUE
  BY <1>0, <1>2, Zenon DEF PhaseKnows, StatusTells
<1>3. "test" # "run"
  OBVIOUS
<1> QED
  BY <1>0, <1>1, <1>2, <1>3, Zenon

(* The test succeeded with its message delivered, or it failed. *)
LEMMA SendTestStep ==
  ASSUME PhaseKnows, StatusTells, SendTest, program' = program
  PROVE  PhaseKnows' /\ StatusTells'
<1>0. /\ phase = "test" /\ ~ran /\ Accepts(program, seen)
      /\ "--test-telegram" \in options
      /\ UNCHANGED <<options, seen, ran>> /\ ran \in BOOLEAN
      /\ phase' = "exited"
      /\ \/ delivered' = TRUE /\ status' = 0
         \/ delivered' = TRUE /\ status' = 1
         \/ delivered' = FALSE /\ status' = 1
  BY Zenon DEF SendTest, PhaseKnows, Exit
<1>1. status' \in 0..2 /\ 1 # 0 /\ 1 # 2 /\ 0 # 2
  BY <1>0
<1> QED
  BY <1>0, <1>1, Zenon DEF PhaseKnows, StatusTells

(* The running agent ends, by itself or because it is told to. *)
LEMMA EndStep ==
  ASSUME PhaseKnows, StatusTells, phase = "run", phase' = "exited", status' = 0,
         UNCHANGED <<program, options, seen, ran, delivered>>
  PROVE  PhaseKnows' /\ StatusTells'
<1>1. status' \in 0..2 /\ 0 # 1 /\ 0 # 2
  OBVIOUS
<1> QED
  BY <1>1, Zenon DEF PhaseKnows, StatusTells

(* The process is killed, or nothing happens to it. *)
LEMMA KilledStep ==
  ASSUME PhaseKnows, StatusTells, phase' = "killed" \/ phase' = phase,
         UNCHANGED <<program, arguments, options, seen, status, ran, delivered>>
  PROVE  PhaseKnows' /\ StatusTells'
<1>1. \A option : Given(option)' <=> Given(option)
  BY DEF Given
<1> QED
  BY <1>1, Zenon DEF PhaseKnows, StatusTells

(* Every step keeps the inductive invariant. *)
LEMMA NextStartup == StartupIInv /\ [Next]_startupVars => StartupIInv'
<1> SUFFICES ASSUME StartupIInv, [Next]_startupVars PROVE StartupIInv'
  OBVIOUS
<1>0. OptionsGiven /\ PhaseKnows /\ StatusTells
  BY DEF StartupIInv
<1>1. CASE ReadOptions /\ UNCHANGED <<worldVars, fileVars, deaths>>
  BY <1>0, <1>1, ReadKeepsOptions, ReadKeepsStatus DEF StartupIInv, worldVars
<1>2. CASE Load /\ UNCHANGED <<worldVars, fileVars, deaths>>
  BY <1>0, <1>2, OptionsKept, LoadStep DEF StartupIInv, worldVars, Load
<1>3. CASE OpenLog /\ UNCHANGED <<worldVars, fileVars, deaths>>
  BY <1>0, <1>3, OptionsKept, OpenLogStep DEF StartupIInv, worldVars, OpenLog
<1>4. CASE SendTest /\ UNCHANGED <<worldVars, fileVars, deaths>>
  BY <1>0, <1>4, OptionsKept, SendTestStep DEF StartupIInv, worldVars, SendTest
<1>5. CASE Finish /\ UNCHANGED <<worldVars, fileVars, deaths>>
  BY <1>0, <1>5, OptionsKept, EndStep DEF StartupIInv, worldVars, Finish, Exit
<1>6. CASE UNCHANGED <<worldVars, processVars>>
  BY <1>0, <1>6, OptionsKept, KilledStep DEF StartupIInv, worldVars, processVars
<1>7. CASE Die
  <2>1. UNCHANGED <<arguments, program, rest, options, seen, ran, delivered>>
    BY <1>7 DEF Die, worldVars
  <2>2. CASE phase = "run" /\ Exit(0)
    BY <1>0, <2>1, <2>2, OptionsKept, EndStep DEF StartupIInv, Exit
  <2>3. CASE phase' = "killed" /\ UNCHANGED status
    BY <1>0, <2>1, <2>3, OptionsKept, KilledStep DEF StartupIInv
  <2> QED
    BY <1>7, <2>2, <2>3 DEF Die
<1>8. CASE Restart
  <2>1. Fresh'
    BY <1>0, <1>8 DEF Restart, StartAgain, Fresh, worldVars, OptionsGiven
  <2>2. Fresh' => StartupIInv'
    BY FreshProcess, PTL
  <2> QED
    BY <2>1, <2>2
<1>9. CASE LogLine /\ UNCHANGED <<worldVars, fileVars, deaths>>
  BY <1>6, <1>9 DEF LogLine
<1>10. CASE Edit \/ DiskChanges \/ UNCHANGED startupVars
  BY <1>6, <1>10 DEF Edit, DiskChanges, startupVars
<1> QED
  BY <1>1, <1>2, <1>3, <1>4, <1>5, <1>7, <1>8, <1>9, <1>10 DEF Next, Process

(* The exit status tells what the process did, in every run of either      *)
(* agent, with every command line and every file.                          *)
THEOREM StatusTold == Spec => []StatusTells
<1>1. Init => StartupIInv
  <2>1. Init => Fresh
    BY DEF Init, Fresh
  <2> QED
    BY <2>1, FreshProcess
<1>2. StartupIInv => StatusTells
  BY DEF StartupIInv
<1> QED
  BY <1>1, <1>2, NextStartup, PTL DEF Spec

----------------------------------------------------------------------------
(* A documented file means the same to both agents, whatever it contains   *)
(* and however it is edited.                                               *)
THEOREM MeaningIsSame == Spec => []SameMeaning
<1> DEFINE Parsed == IsJson(document.json)
<1>1. Init => Parsed
  BY StartupAssumption DEF Init
<1>2. Parsed /\ [Next]_startupVars => Parsed'
  <2> SUFFICES ASSUME Parsed, [Next]_startupVars PROVE IsJson(document'.json)
    OBVIOUS
  <2>1. CASE Edit
    BY <2>1, StartupAssumption DEF Edit
  <2>2. CASE document' = document
    BY <2>2
  <2> QED
    BY <2>1, <2>2
       DEF Next, Process, Die, DiskChanges, Restart, StartAgain, fileVars, startupVars
<1>3. Parsed => SameMeaning
  BY FilesAgree DEF SameMeaning
<1> QED
  BY <1>1, <1>2, <1>3, PTL DEF Spec

----------------------------------------------------------------------------
(* The agent's own log *)

LogIInv == LogKnows(program) /\ LossesExplained

(* A process that starts has lost nothing. *)
LEMMA FreshLogged == FreshLog => LogIInv
  BY DEF FreshLog, LogIInv, LogKnows, LossesExplained, LinesExplained

(* A line is lost to a disk that is full, or to a stream that met one.     *)
LEMMA LogStep ==
  ASSUME LogIInv, Log(program), program' = program
  PROVE  LogIInv'
<1> DEFINE line == lines + 1
           missed == sink = "file" /\ (bad \/ ~room)
<1>0. /\ lines \in Nat /\ lines' = line
      /\ \A l \in full : l \in 1..lines
      /\ bad => program = "cpp" /\ full # {}
      /\ \A l \in lost :
           \/ l \in full
           \/ program = "cpp" /\ \E earlier \in full : earlier < l
  BY DEF LogIInv, LogKnows, LossesExplained, LinesExplained, Log
<1>1. /\ full' = IF sink = "file" /\ ~room THEN full \cup {line} ELSE full
      /\ lost' = IF missed THEN lost \cup {line} ELSE lost
      /\ bad' = (bad \/ (program = "cpp" /\ missed))
  BY DEF Log
<1>2. full \subseteq full'
  BY <1>1
<1>3. missed => line \in full' \/ (program = "cpp" /\ \E earlier \in full' : earlier < line)
  <2>1. CASE ~room
    BY <1>1, <2>1
  <2>2. CASE bad
    BY <1>0, <1>2, <2>2
  <2> QED
    BY <2>1, <2>2
<1>4. \A l \in lost' :
        \/ l \in full'
        \/ program = "cpp" /\ \E earlier \in full' : earlier < l
  BY <1>0, <1>1, <1>2, <1>3
<1>5. \A l \in full' : l \in 1..lines'
  BY <1>0, <1>1
<1>6. bad' => program = "cpp" /\ full' # {}
  <2>1. CASE bad
    BY <1>0, <1>2, <2>1
  <2>2. CASE ~bad /\ program = "cpp" /\ missed
    BY <1>1, <2>2
  <2> QED
    BY <1>1, <2>1, <2>2
<1>7. lines' \in Nat
  BY <1>0
<1> QED
  BY <1>4, <1>5, <1>6, <1>7
     DEF LogIInv, LogKnows, LossesExplained, LinesExplained

(* Nothing else loses a line: opening the log only decides where it goes.  *)
LEMMA NextLog == LogIInv /\ [Next]_startupVars => LogIInv'
<1> SUFFICES ASSUME LogIInv, [Next]_startupVars PROVE LogIInv'
  OBVIOUS
<1>1. CASE program' = program /\ UNCHANGED <<bad, lines, lost, full>>
  BY <1>1 DEF LogIInv, LogKnows, LossesExplained, LinesExplained
<1>2. CASE LogLine /\ UNCHANGED worldVars
  BY <1>2, LogStep DEF LogLine, worldVars
<1>3. CASE Restart
  <2>1. FreshLog'
    BY <1>3 DEF Restart, StartAgain, ForgetLog, FreshLog
  <2>2. FreshLog' => LogIInv'
    BY FreshLogged, PTL
  <2> QED
    BY <2>1, <2>2
<1>4. CASE OpenLog /\ UNCHANGED worldVars
  BY <1>1, <1>4 DEF OpenLog, Initialize, worldVars
<1>5. CASE RoomChanges /\ UNCHANGED worldVars
  BY <1>1, <1>5 DEF RoomChanges, logVars, worldVars
<1>6. CASE UNCHANGED worldVars /\ UNCHANGED logVars
  BY <1>1, <1>6 DEF logVars, worldVars
<1> QED
  BY <1>2, <1>3, <1>4, <1>5, <1>6
     DEF Next, Process, Load, SendTest, Finish, Die, Edit, DiskChanges, startupVars

(* The log misses only lines for which the disk had no room or, in the C++ *)
(* agent, those after such a line.                                         *)
THEOREM LossExplained == Spec => []LossesExplained
<1>1. Init => LogIInv
  BY FreshLogged DEF Init, LoggerInit
<1>2. LogIInv => LossesExplained
  BY DEF LogIInv
<1> QED
  BY <1>1, <1>2, NextLog, PTL DEF Spec
=============================================================================
