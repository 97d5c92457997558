---------------------------- MODULE Configuration ----------------------------
(***************************************************************************)
(* Config::load and validate (src/app/Config.cpp) and Load and Validate    *)
(* (agent-go/internal/config/config.go): what each agent makes of the same *)
(* file.  A JSON value is a pair of its kind and its data: of a number the *)
(* integer part ("float" stands for every number not written as an         *)
(* integer), of a list or an object its values.  Texts that mean the same  *)
(* to both agents are one text.                                            *)
(***************************************************************************)
EXTENDS Integers, Sequences

CONSTANTS
  Unsafe,       \* the names that isSafeSystemdServiceName refuses
  Blank,        \* the texts of which trim leaves nothing
  IntValues     \* number of values of a C++ int: 2^32

ASSUME ConfigurationAssumption ==
  /\ "" \in Unsafe
  /\ "" \in Blank
  /\ IntValues \in Nat \ {0}

Null == << "null", 0 >>
Error == << "error", 0 >>     \* an exception, or an error that is returned
Missing == [state |-> "missing", json |-> Null]

Value(kind, data) == <<kind, data>>
Field(section, type, kind, data) ==
  [section |-> section, type |-> type, default |-> Value(kind, data)]
ListOf(text) == << Value("text", text) >>

(* Every field: its section, its type and its default. *)
Schema == [
  server_name               |-> Field("", "text", "text", "cachewraith-vps-01"),
  interval_seconds          |-> Field("", "int", "int", 60),
  log_file                  |-> Field("", "text", "text", "log"),
  disk_paths                |-> Field("", "list", "list", ListOf("/")),
  services                  |-> Field("", "list", "list", << >>),
  websites                  |-> Field("", "list", "list", << >>),
  nginx_suspicious_paths    |-> Field("", "list", "list", ListOf("/.env")),
  ram_percent               |-> Field("thresholds", "int", "int", 90),
  disk_percent              |-> Field("thresholds", "int", "int", 90),
  load_average_1m           |-> Field("thresholds", "double", "float", 4),
  ssh_failed_attempts       |-> Field("thresholds", "int", "int", 10),
  nginx_requests_per_minute |-> Field("thresholds", "int", "int", 120),
  nginx_404_per_minute      |-> Field("thresholds", "int", "int", 30),
  website_timeout_seconds   |-> Field("thresholds", "long", "int", 5),
  default_seconds           |-> Field("cooldowns", "int", "int", 900),
  resource_alert_seconds    |-> Field("cooldowns", "int", "int", 900),
  website_alert_seconds     |-> Field("cooldowns", "int", "int", 300),
  service_alert_seconds     |-> Field("cooldowns", "int", "int", 300),
  ssh_bruteforce_seconds    |-> Field("cooldowns", "int", "int", 600),
  web_scan_seconds          |-> Field("cooldowns", "int", "int", 600),
  default_thread_id         |-> Field("telegram", "id", "null", 0),
  alert_threads             |-> Field("telegram", "ids", "object", << >>),
  ssh_auth                  |-> Field("logs", "text", "text", "auth.log"),
  nginx_access              |-> Field("logs", "text", "text", "access.log")]

Fields == DOMAIN Schema
Section(field) == Schema[field].section
TypeOf(field) == Schema[field].type
Default(field) == Schema[field].default
Sections == {Section(field) : field \in Fields} \ {""}

Has(json, key) == json[1] = "object" /\ key \in DOMAIN json[2]
At(json, key) == json[2][key]

(* The object that should hold the field; no section holds nothing. *)
Holder(json, field) ==
  IF Section(field) = "" THEN json
  ELSE IF Has(json, Section(field)) THEN At(json, Section(field)) ELSE Null

Elements(json) == {json[2][i] : i \in DOMAIN json[2]}
AllIn(json, kinds) == \A element \in Elements(json) : element[1] \in kinds

(* What the parsers hand over: a number's data is an integer, a list's is  *)
(* a function of its places.                                               *)
IsValue(value) ==
  /\ value = <<value[1], value[2]>>
  /\ value[1] = "int" => value[2] \in Int
  /\ value[1] = "list" => value[2] = [i \in DOMAIN value[2] |-> value[2][i]]
  /\ value[1] = "object" =>
       \A element \in Elements(value) : element[1] = "int" => element[2] \in Int

IsJson(json) ==
  \A field \in Fields :
    Has(Holder(json, field), field) => IsValue(At(Holder(json, field), field))

----------------------------------------------------------------------------
(* The C++ agent *)

(* The conversion of a number to int keeps its lowest bits. *)
Wrapped(n) == ((n + IntValues \div 2) % IntValues) - (IntValues \div 2)

(* nlohmann's get<T>: an arithmetic type takes every number and, unless it *)
(* is the library's own int64 or double, booleans too (long is that int64, *)
(* long long is not).                                                      *)
Get(type, json) ==
  CASE type = "int" /\ json[1] \in {"int", "float", "bool"} ->
         Value("int", Wrapped(json[2]))
    [] type = "long" /\ json[1] \in {"int", "float"} -> Value("int", json[2])
    [] type = "double" /\ json[1] \in {"int", "float"} -> Value("float", json[2])
    [] type = "id" /\ json[1] \in {"int", "float", "bool"} -> Value("int", json[2])
    [] type = "ids" /\ json[1] = "object"
                    /\ AllIn(json, {"int", "float", "bool"}) ->
         Value("object", [key \in DOMAIN json[2] |->
                            Value("int", json[2][key][2])])
    [] type = "text" /\ json[1] = "text" -> json
    [] type = "list" /\ json[1] = "list" /\ AllIn(json, {"text"}) -> json
    [] OTHER -> Error

(* Variant: a null is converted like every other value. *)
SetIfContained(json, field) ==
  IF Has(json, field) THEN Get(TypeOf(field), At(json, field))
  ELSE Default(field)

(* setIfPresent, and the two fields of telegram: alert_threads alone is    *)
(* converted even if it is null.                                           *)
SetIfPresent(json, field) ==
  IF Has(json, field) /\ (At(json, field) # Null \/ field = "alert_threads")
  THEN Get(TypeOf(field), At(json, field))
  ELSE Default(field)

CppSettings(json) ==
  [field \in Fields |-> SetIfPresent(Holder(json, field), field)]

(* Config::validate. *)
CppValid(s) ==
  /\ s.server_name[2] \notin Blank
  /\ s.interval_seconds[2] > 0
  /\ s.ram_percent[2] \in 1..100 /\ s.disk_percent[2] \in 1..100
  /\ s.website_timeout_seconds[2] \in 1..120
  /\ \A service \in Elements(s.services) : service[2] \notin Unsafe
  /\ s.default_thread_id # Null => s.default_thread_id[2] > 0
  /\ \A key \in DOMAIN s.alert_threads[2] :
       key \notin Blank /\ s.alert_threads[2][key][2] > 0

(* The stream's operator reads one value and leaves what follows it. *)
CppAccepts(file) ==
  /\ file.state \in {"parsed", "trailing"}
  /\ \A field \in Fields : CppSettings(file.json)[field] # Error
  /\ CppValid(CppSettings(file.json))

----------------------------------------------------------------------------
(* The Go agent *)

(* json.Unmarshal into a field that holds its default: null leaves a       *)
(* scalar alone, and empties a pointer, a list or a map.  A null element   *)
(* leaves what its place in the list held before.                          *)
GoElement(json, i, default) ==
  IF json[2][i] # Null THEN json[2][i]
  ELSE IF i \in DOMAIN default[2] THEN default[2][i] ELSE Value("text", "")

Unmarshalled(type, json, default) ==
  CASE json = Null ->
         (CASE type = "list" -> Value("list", << >>)
            [] type = "ids" -> Value("object", << >>)
            [] type = "id" -> Null
            [] OTHER -> default)
    [] type \in {"int", "long", "id"} /\ json[1] = "int" -> json
    [] type = "double" /\ json[1] \in {"int", "float"} -> Value("float", json[2])
    [] type = "ids" /\ json[1] = "object" /\ AllIn(json, {"int", "null"}) ->
         Value("object", [key \in DOMAIN json[2] |->
                            Value("int", json[2][key][2])])
    [] type = "text" /\ json[1] = "text" -> json
    [] type = "list" /\ json[1] = "list" /\ AllIn(json, {"text", "null"}) ->
         Value("list", [i \in DOMAIN json[2] |-> GoElement(json, i, default)])
    [] OTHER -> Error

GoSettings(json) ==
  [field \in Fields |->
     IF Has(Holder(json, field), field)
     THEN Unmarshalled(TypeOf(field), At(Holder(json, field), field), Default(field))
     ELSE Default(field)]

(* The document and its sections are objects, or null. *)
GoShape(json) ==
  /\ json[1] \in {"object", "null"}
  /\ \A section \in Sections :
       Has(json, section) => At(json, section)[1] \in {"object", "null"}

(* Config.Validate. *)
GoValid(s) ==
  /\ s.server_name[2] # ""
  /\ s.interval_seconds[2] > 0
  /\ s.ram_percent[2] \in 1..100 /\ s.disk_percent[2] \in 1..100
  /\ s.website_timeout_seconds[2] \in 1..120
  /\ \A service \in Elements(s.services) : service[2] \notin Unsafe

GoAccepts(file) ==
  /\ file.state = "parsed"
  /\ GoShape(file.json)
  /\ \A field \in Fields : GoSettings(file.json)[field] # Error
  /\ GoValid(GoSettings(file.json))

----------------------------------------------------------------------------
Accepts(program, file) ==
  IF program = "cpp" THEN CppAccepts(file) ELSE GoAccepts(file)
Settings(program, file) ==
  IF program = "cpp" THEN CppSettings(file.json) ELSE GoSettings(file.json)

(* The file is as documented: every field has its type, and a number fits. *)
ValueAsDocumented(field, value) ==
  CASE TypeOf(field) \in {"int", "long"} ->
         value[1] = "int" /\ Wrapped(value[2]) = value[2]
    [] TypeOf(field) = "double" -> value[1] \in {"int", "float"}
    [] TypeOf(field) = "id" -> value[1] \in {"int", "null"}
    [] TypeOf(field) = "ids" -> value[1] = "object" /\ AllIn(value, {"int"})
    [] TypeOf(field) = "list" -> value[1] = "list" /\ AllIn(value, {"text"})
    [] TypeOf(field) = "text" -> value[1] = "text"

AsDocumented(file) ==
  /\ file.state = "parsed"
  /\ file.json[1] = "object"
  /\ \A section \in Sections :
       Has(file.json, section) => At(file.json, section)[1] = "object"
  /\ \A field \in Fields :
       Has(Holder(file.json, field), field) =>
         ValueAsDocumented(field, At(Holder(file.json, field), field))

(* What only the C++ agent refuses in such a file. *)
OnlyCppRefuses(s) ==
  \/ s.server_name[2] \in Blank
  \/ s.default_thread_id # Null /\ s.default_thread_id[2] <= 0
  \/ \E key \in DOMAIN s.alert_threads[2] :
       key \in Blank \/ s.alert_threads[2][key][2] <= 0
=============================================================================
