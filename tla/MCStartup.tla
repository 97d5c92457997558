----------------------------- MODULE MCStartup -----------------------------
(* Startup for TLC: command lines of at most two arguments, files with one *)
(* field or two, of every type and with the values around each limit.      *)
EXTENDS Startup, TLC

Words == {"--config", "--once", "--test-telegram", "--version", "--help",
          "--unknown", "word"}
MCServiceLine == <<"--config", "./config.json">>
MCCommandLines ==
  {<<>>, MCServiceLine} \cup {<<w>> : w \in Words}
                        \cup {<<w, v>> : w \in Words, v \in Words}

Number(n) == Value("int", n)
Text(t) == Value("text", t)
List(texts) == Value("list", texts)
Object(fields) == Value("object", fields)
File(json) == [state |-> "parsed", json |-> json]

(* One field with a value of its own, in its section. *)
With(field, value) ==
  IF Section(field) = "" THEN field :> value
  ELSE Section(field) :> Object(field :> value)

Odd == {Null, Value("float", 7), Value("bool", 1), Object(<<>>)}
Values == [type \in {"text", "int", "long", "double", "list", "id", "ids"} |->
  CASE type = "text" -> {Text(""), Text(" "), Text("x")}
    [] type = "int" -> {Number(-1), Number(0), Number(1), Number(100), Number(101), Number(4096 + 50)}
    [] type = "long" -> {Number(0), Number(1), Number(120), Number(121)}
    [] type = "double" -> {Number(3)}
    [] type = "list" -> {List(<<>>), List(<<Text("ssh")>>), List(<<Text("a;b")>>),
                         List(<<Null>>), List(<<Text("ssh"), Null>>)}
    [] type = "id" -> {Number(-1), Number(0), Number(14)}
    [] type = "ids" -> {Object("ssh" :> Number(14)), Object(" " :> Number(14)),
                        Object("ssh" :> Number(0)), Object("ssh" :> Null),
                        Object("ssh" :> Value("bool", 1))}]

Varied == {"server_name", "interval_seconds", "log_file", "disk_paths", "services",
           "ram_percent", "disk_percent", "load_average_1m", "ssh_failed_attempts",
           "website_timeout_seconds", "default_seconds", "default_thread_id",
           "alert_threads", "ssh_auth"}

OneField == UNION {{With(field, value) : value \in Values[TypeOf(field)] \cup Odd} :
                     field \in Varied}
TwoFields == {With("interval_seconds", Number(n)) @@ With(field, value) :
                n \in {0, 5}, field \in {"server_name"}, value \in Values["text"]}
Oddities == {Section(field) :> value : field \in {"ram_percent", "alert_threads"},
                                       value \in {Null, Number(5)}}

MCDocuments ==
  {File(Object(fields)) : fields \in OneField \cup TwoFields \cup Oddities}
    \cup {File(json) : json \in {Null, Number(5), Object(<<>>)}}
    \cup {[state |-> "trailing", json |-> Object(<<>>)],
          [state |-> "malformed", json |-> Null], Missing}

Malformed == [state |-> "malformed", json |-> Null]
WithTopic == File(Object("telegram" :> Object("default_thread_id" :> Number(14))))

MCStarts == ({MCServiceLine} \X MCDocuments) \cup (MCCommandLines \X {WithTopic})
MCEdited == {WithTopic, Malformed}
=============================================================================
