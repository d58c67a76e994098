---------------------------- MODULE LuauRuntime ----------------------------
(* The script runtime: luau/runtime over luau/src/lib.rs, and the program    *)
(* cmd/luau that runs a script with it.  A script runs on the main state or, *)
(* with --async, on a coroutine of it.  What the script does is a choice; what *)
(* a call of a registered function then does is the code's.  Functions pass  *)
(* values on a stack: the arguments from index 1, the results at its top.    *)
EXTENDS Integers, Sequences, FiniteSets

LOCAL INSTANCE SequencesExt
LOCAL INSTANCE FiniteSetsExt
LOCAL INSTANCE TLC

CONSTANTS Modules,     \* names a script may require
          Modes,       \* {"sync", "async"} or one of them
          OutCap,      \* 16 in the code: the channel of the agent's output
          MaxEmits,    \* bound: chunks a script emits
          MaxRuns,     \* bound: scripts run on one runtime
          Keys,        \* keys of the runtime's store; "" is refused
          Values,      \* Lua values a script stores or encodes
          Requests,    \* Lua values it gives to __builtin.http
          MaxInt,      \* 2^63, the greatest integer a JSON number is made of
          MaxIndex     \* i32::MAX

\* What the constants have to satisfy; assumed where the module is instantiated.
RuntimeAssumption == OutCap \in Nat \ {0} /\ {MaxEmits, MaxRuns, MaxInt, MaxIndex} \subseteq Nat

VARIABLES kind,        \* runtime of the program: "minimal", "tool", "agent"
          files,       \* modules with a file under libs_dir
          cache,       \* bytecode_cache
          script,      \* "ready", "sync", "async", "yielded", "ok", "error", "crashed"
          runs,
          slot,        \* the wrapper registry["_luau_state"] names: "main", "thread", "freed"
          loaded,      \* Runtime::loaded
          exports,     \* names with a value in the table __loaded
          loading,     \* the modules whose body is running, innermost last
          bodies,      \* history: how often a module's body has run
          answer,      \* the last answer of require
          skipped,     \* history: a call of a registered function did nothing
          input,       \* the one line for the agent is still in its channel
          output, emitted, collected,   \* the agent's output: channel, accepted, gathered
          collector,   \* output_collector: "running", "printed", "gone"
          kvs,         \* Runtime::kvs: key -> JSON value, or Null
          stored,      \* history: the Lua value of each key
          frame        \* what the last builtin returned to the script

lua == <<slot, loaded, exports, loading, bodies, answer>>
io == <<input, output, emitted, collected, collector>>
values == <<kvs, stored, frame>>
vars == <<kind, files, cache, script, runs, lua, skipped, io, values>>

------------------------------------------------------------------------------
\* Values and the stack: LuaStackOps, over Luau's own stack machine.

Nil == [t |-> "nil"]
Number(n) == [t |-> "number", n |-> n]
String(s) == [t |-> "string", s |-> s]
Text(j) == [t |-> "text", j |-> j]          \* the string of a JSON value
Table(f) == [t |-> "table", f |-> f]        \* f: key -> value, never Nil
EmptyTable == Table([k \in {} |-> Nil])

\* A negative index counts from the top.
At(s, i) == IF i < 0 THEN Len(s) + i + 1 ELSE i
Push(s, v) == Append(s, v)
Pop(s, n) == SubSeq(s, 1, Len(s) - n)

\* A field that is set to nil is gone.
Put(f, k, v) ==
  [x \in (IF v = Nil THEN DOMAIN f \ {k} ELSE DOMAIN f \cup {k}) |-> IF x = k THEN v ELSE f[x]]

\* Key at the top, replaced by the value; key and value.
GetTable(s, i) ==
  LET f == s[At(s, i)].f IN [s EXCEPT ![Len(s)] = IF @ \in DOMAIN f THEN f[@] ELSE Nil]
SetTable(s, i) ==
  Pop([s EXCEPT ![At(s, i)] = Table(Put(@.f, s[Len(s) - 1], s[Len(s)]))], 2)

------------------------------------------------------------------------------
\* JSON: what is null, a number or a string is written as in Lua.  Numbers are whole;
\* "nan" is a number that JSON has not, which is no key here.

Null == [t |-> "null"]
Array(a) == [t |-> "array", a |-> a]
Object(o) == [t |-> "object", o |-> o]

\* `as i64` and `as i32` saturate.
Cast(n, max) == IF n > max THEN max ELSE IF n < -max THEN -max ELSE n

\* The name of a key in an object.
KeyName(k) == IF k.t = "number" THEN String(ToString(Cast(k.n, MaxInt))) ELSE k

RECURSIVE LuaToJson(_, _)

\* Not the code: as many elements as there are keys.
TableToJsonDense(s, i) ==
  LET f == s[i].f
      Element(acc, k) ==
        LET r == LuaToJson(GetTable(Push(acc.s, Number(k)), i), -1)
        IN  [a |-> Append(acc.a, r.json), s |-> Pop(r.s, 1)]
      all == FoldLeft(Element, [a |-> <<>>, s |-> s], [k \in 1 .. Cardinality(DOMAIN f) |-> k])
  IN  [json |-> Array(all.a), s |-> all.s]

\* lua_table_to_json.  A table whose keys are all positive integers is an array as
\* long as its greatest key, as an i32; any other is an object, where what is neither a string
\* nor a number is no key.  Its two passes leave the key of `next` below the value.
TableToJson(s, i) ==
  LET f == s[i].f
      numbers == {k.n : k \in {x \in DOMAIN f : x.t = "number"}}
      isArray == f # [k \in {} |-> Nil] /\ \A k \in DOMAIN f : k.t = "number" /\ k.n >= 1
      Element(acc, k) ==
        LET r == LuaToJson(GetTable(Push(acc.s, Number(k)), i), -1)
        IN  [a |-> Append(acc.a, r.json), s |-> Pop(r.s, 1)]
      Member(acc, k) ==
        LET r == LuaToJson(acc.s \o <<k, f[k]>>, -1)
        IN  [o |-> [x \in DOMAIN acc.o \cup {KeyName(k)} |-> IF x = KeyName(k) THEN r.json ELSE acc.o[x]],
             s |-> Pop(r.s, 2)]
      elements == FoldLeft(Element, [a |-> <<>>, s |-> s], [k \in 1 .. Cast(Max(numbers), MaxIndex) |-> k])
      members == FoldLeft(Member, [o |-> [x \in {} |-> Null], s |-> s],
                          SetToSeq({k \in DOMAIN f : k.t \in {"string", "number"}}))
  IN  IF isArray THEN [json |-> Array(elements.a), s |-> elements.s]
      ELSE [json |-> Object(members.o), s |-> members.s]

\* The JSON of the value at index i, and the stack that is left.
LuaToJson(s, i) ==
  LET v == s[At(s, i)] IN
  CASE v.t = "table" -> TableToJson(s, At(s, i))
    [] v.t = "number" -> [json |-> Number(Cast(v.n, MaxInt)), s |-> s]
    [] v.t \in {"string", "boolean", "text"} -> [json |-> v, s |-> s]
    [] OTHER -> [json |-> Null, s |-> s]

\* json_to_lua: the stack with the value on top.
RECURSIVE JsonToLua(_, _)
JsonToLua(s, j) ==
  LET made == Push(s, EmptyTable)
      table_idx == Len(made)
      Element(acc, k) == SetTable(JsonToLua(Push(acc, Number(k)), j.a[k]), table_idx)
      Member(acc, k) == SetTable(JsonToLua(Push(acc, k), j.o[k]), table_idx)
  IN CASE j.t = "array" -> FoldLeft(Element, made, [k \in 1 .. Len(j.a) |-> k])
       [] j.t = "object" -> FoldLeft(Member, made, SetToSeq(DOMAIN j.o))
       [] j.t = "null" -> Push(s, Nil)
       [] OTHER -> Push(s, j)

------------------------------------------------------------------------------
\* __builtin.http: the request is read from a table, the response is a table.

\* to_string reads strings and numbers; at an index it makes the number a string.
IsText(v) == v.t \in {"string", "number", "text"}
AsString(v) == IF v.t = "number" THEN String(ToString(v.n)) ELSE v

\* parse_http_request: an error, or what is asked for.  A header that is no string
\* or number is left out; a key that is a number is made a string on the stack,
\* and `next` does not know it.
ParseHttpRequest(v) ==
  LET Field(k) == IF String(k) \in DOMAIN v.f THEN v.f[String(k)] ELSE Nil
      Headers == IF Field("headers").t = "table" THEN Field("headers").f ELSE <<>>
      named == {k \in DOMAIN Headers : k.t = "string" /\ IsText(Headers[k])}
  IN  IF v.t # "table" THEN [err |-> "request must be a table"]
      ELSE IF ~IsText(Field("url")) \/ Field("url") = String("") THEN [err |-> "url is required"]
      ELSE IF \E k \in DOMAIN Headers : k.t = "number" THEN [err |-> "invalid key to next"]
      ELSE [url |-> AsString(Field("url")),
            method |-> IF IsText(Field("method")) THEN AsString(Field("method")) ELSE String("GET"),
            headers |-> [k \in named |-> AsString(Headers[k])]]

\* execute_http_async: what the service may answer, here with what it was asked.  A
\* method that is not one of the seven (in capitals here) is refused before anything is sent, and a
\* body that cannot be read is empty.
ExecuteHttp(q) ==
  IF q.method.s \notin {"GET", "POST", "PUT", "PATCH", "DELETE", "HEAD", "OPTIONS"}
  THEN {[err |-> "unsupported HTTP method"]}
  ELSE {[err |-> "request failed"]} \cup
       {[status |-> 200, body |-> b, headers |-> q.headers] : b \in {q.url, String("")}}

\* The response is a table on the stack.
PushHttpError(s, err) ==
  Push(s, Table(String("status") :> Number(0) @@ String("err") :> String(err)))

PushHttpResponse(s, r) ==
  IF "err" \in DOMAIN r THEN PushHttpError(s, r.err)
  ELSE Push(s, Table(String("status") :> Number(r.status) @@ String("body") :> r.body
                       @@ String("headers") :> Table(r.headers)))

------------------------------------------------------------------------------
\* The functions a runtime registers, by what a script can observe of them:
\* __builtin.* and require always, rt.* with a tool or an agent.
Builtins == {"http", "json", "kvs", "log", "env", "time", "require"}

RuntimeContext(k) == IF k = "minimal" THEN {} ELSE {"rt"}

ToolIo(k) == IF k = "tool" THEN {"input", "output"} ELSE {}

AgentIo(k) == IF k = "agent" THEN {"recv", "emit"} ELSE {}

Registered(k) == Builtins \cup RuntimeContext(k) \cup ToolIo(k) \cup AgentIo(k)

\* precompile_modules: every file under libs_dir, by its module name.  A file
\* that does not compile ends the program before any script runs.
PrecompileModules(fs) == fs

Init ==
  /\ kind \in {"minimal", "tool", "agent"} /\ files \in SUBSET Modules
  /\ cache \in {PrecompileModules(files), {}}      \* a host need not precompile
  /\ script = "ready" /\ runs = 0 /\ slot = "main"
  /\ loaded = {} /\ exports = {} /\ loading = <<>> /\ bodies = [m \in Modules |-> 0]
  /\ answer = [name |-> "", how |-> "none"] /\ skipped = FALSE
  /\ input = (kind = "agent") /\ output = <<>> /\ emitted = <<>> /\ collected = <<>>
  /\ collector = (IF kind = "agent" THEN "running" ELSE "gone")
  /\ kvs = [k \in Keys |-> Null] /\ stored = [k \in Keys |-> Nil] /\ frame = <<>>

------------------------------------------------------------------------------
\* Running a script.

\* run_minimal, run_tool, run_agent with or without --async.  run_async makes a
\* coroutine; luau_newthread writes its wrapper into the registry, which all
\* coroutines of a state share.
NewThread == slot' = "thread"

Start(mode) ==
  /\ script \in {"ready", "ok"}
  /\ runs < IF kind = "minimal" THEN MaxRuns ELSE 1   \* the program runs one script
  /\ script' = mode /\ runs' = runs + 1
  /\ IF mode = "async" THEN NewThread ELSE UNCHANGED slot
  /\ UNCHANGED <<kind, files, cache, loaded, exports, loading, bodies, answer, skipped, io, values>>

\* Thread::drop: the wrapper is deleted, the registry still names it.
DropThread == slot' = IF slot = "thread" THEN "freed" ELSE slot

\* What follows a script in the program: the sender of the output is dropped
\* when it succeeded; after an error the process exits at once.
End(how) ==
  /\ script' = how
  /\ collector' = IF how = "error" THEN "gone" ELSE collector
  /\ UNCHANGED <<kind, files, cache, runs, loaded, exports, loading, bodies, answer,
                 skipped, input, output, emitted, collected, values>>

ScriptEnds(how) ==
  /\ script = "sync" /\ loading = <<>> /\ how \in {"ok", "error"}
  /\ End(how) /\ UNCHANGED slot

\* The first resume, or the last: the coroutine has ended and is dropped.
CoroutineEnds(how) ==
  /\ script = "async" /\ how \in {"ok", "error"}
  /\ End(how) /\ DropThread

\* coroutine.yield.  The loop of run_async waits for a completed request; the
\* runtime holds a sender, so the branch that would break the loop is not taken.
CoroutineYields ==
  /\ script = "async" /\ script' = "yielded"
  /\ UNCHANGED <<kind, files, cache, runs, lua, skipped, io, values>>

------------------------------------------------------------------------------
\* Calls of registered functions.

Running == script \in {"sync", "async"}

\* rust_external_callback runs the function if the wrapper in the registry is
\* the one it was registered with.
Reaches == slot = "main"

\* Otherwise the call returns no value; through a freed wrapper, anything.
CallSkipped ==
  /\ Running /\ ~Reaches
  /\ skipped' = TRUE
  /\ script' \in {script} \cup (IF slot = "freed" THEN {"crashed"} ELSE {})
  /\ UNCHANGED <<kind, files, cache, runs, lua, io, values>>

\* require, up to the body of the module.
RequireUnflagged(m) ==
  IF m \in exports THEN UNCHANGED <<loaded, loading, bodies>> /\ answer' = [name |-> m, how |-> "value"]
  ELSE /\ loaded' = loaded
       /\ IF m \in cache \cup files
          THEN loading' = Append(loading, m) /\ bodies' = [bodies EXCEPT ![m] = @ + 1] /\ UNCHANGED answer
          ELSE UNCHANGED <<loading, bodies>> /\ answer' = [name |-> m, how |-> "missing"]

Find(m) ==
  IF m \in exports THEN UNCHANGED <<loaded, loading, bodies>> /\ answer' = [name |-> m, how |-> "value"]
  ELSE IF m \in loaded
  THEN UNCHANGED <<loaded, loading, bodies>> /\ answer' = [name |-> m, how |-> "circular"]
  ELSE /\ loaded' = loaded \cup {m}
       /\ IF m \in cache \cup files
          THEN loading' = Append(loading, m) /\ bodies' = [bodies EXCEPT ![m] = @ + 1] /\ UNCHANGED answer
          ELSE UNCHANGED <<loading, bodies>> /\ answer' = [name |-> m, how |-> "missing"]

Require(m) ==
  /\ Running /\ Reaches /\ Len(loading) <= Cardinality(Modules)
  /\ Find(m)
  /\ UNCHANGED <<kind, files, cache, script, runs, slot, exports, skipped, io, values>>

\* The body has run: its value is kept, an error is caught, and both answer the
\* require that is waiting.
BodyEnds(how) ==
  /\ loading # <<>> /\ how \in {"value", "nil", "error"}
  /\ LET m == Last(loading) IN
     /\ loading' = Front(loading)
     /\ exports' = IF how = "value" THEN exports \cup {m} ELSE exports
     /\ answer' = [name |-> m, how |-> how]
  /\ UNCHANGED <<kind, files, cache, script, runs, slot, loaded, bodies, skipped, io, values>>

\* rt.recv: the line, once; then nothing.
Recv ==
  /\ Running /\ Reaches /\ "recv" \in Registered(kind) /\ input
  /\ input' = FALSE
  /\ UNCHANGED <<kind, files, cache, script, runs, lua, skipped, output, emitted, collected, collector, values>>

\* rt.emit: try_send; the script hears of a full channel and may go on.
EmitUnheard ==
  /\ Running /\ Reaches /\ "emit" \in Registered(kind) /\ Len(emitted) < MaxEmits
  /\ emitted' = Append(emitted, Len(emitted))
  /\ output' = IF Len(output) < OutCap THEN Append(output, Len(emitted)) ELSE output
  /\ UNCHANGED <<kind, files, cache, script, runs, lua, skipped, input, collected, collector,
                 values>>

Emit ==
  /\ Running /\ Reaches /\ "emit" \in Registered(kind) /\ Len(emitted) < MaxEmits
  /\ Len(output) < OutCap
  /\ emitted' = Append(emitted, Len(emitted)) /\ output' = Append(output, Len(emitted))
  /\ UNCHANGED <<kind, files, cache, script, runs, lua, skipped, input, collected, collector,
                 values>>

\* output_collector, and the print that follows it.
Collect ==
  /\ collector = "running" /\ output # <<>>
  /\ collected' = Append(collected, Head(output)) /\ output' = Tail(output)
  /\ UNCHANGED <<kind, files, cache, script, runs, lua, skipped, input, emitted, collector, values>>

PrintOutput ==
  /\ collector = "running" /\ script = "ok" /\ output = <<>>
  /\ collector' = "printed"
  /\ UNCHANGED <<kind, files, cache, script, runs, lua, skipped, input, output, emitted, collected, values>>

------------------------------------------------------------------------------
\* The other builtins: what they leave for the script.

Builtin == Running /\ Reaches /\ UNCHANGED <<kind, files, cache, script, runs, lua, skipped, io>>

Results(s, n) == SubSeq(s, Len(s) - n + 1, Len(s))

\* Not the code: the value at the top is taken for the key's.
KvsSetTop(k, v) ==
  /\ Builtin /\ frame' = <<>>
  /\ kvs' = IF k = "" THEN kvs ELSE [kvs EXCEPT ![k] = LuaToJson(<<String(k), v>>, 1).json]
  /\ stored' = IF k = "" THEN stored ELSE [stored EXCEPT ![k] = v]

KvsSet(k, v) ==
  /\ Builtin /\ frame' = <<>>
  /\ kvs' = IF k = "" THEN kvs ELSE [kvs EXCEPT ![k] = LuaToJson(<<String(k), v>>, 2).json]
  /\ stored' = IF k = "" THEN stored ELSE [stored EXCEPT ![k] = v]

KvsGet(k) ==
  /\ Builtin
  /\ frame' = Results(JsonToLua(<<String(k)>>, kvs[k]), 1)
  /\ UNCHANGED <<kvs, stored>>

KvsDel(k) ==
  /\ Builtin /\ frame' = <<>>
  /\ kvs' = [kvs EXCEPT ![k] = Null] /\ stored' = [stored EXCEPT ![k] = Nil]

\* The text of the value; the value of a text, or nil.
JsonEncode(v) ==
  /\ Builtin
  /\ LET r == LuaToJson(<<v>>, 1) IN frame' = Results(Push(r.s, Text(r.json)), 1)
  /\ UNCHANGED <<kvs, stored>>

JsonDecode ==
  /\ Builtin /\ frame # <<>>
  /\ frame' = IF frame[1].t = "text" THEN Results(JsonToLua(frame, frame[1].j), 1) ELSE <<Nil>>
  /\ UNCHANGED <<kvs, stored>>

\* __builtin.http: the task is blocked until the service answers or the request
\* fails.  An error that Luau raises inside the function leaves it through Rust,
\* to the script or not at all.
Http(v) ==
  LET q == ParseHttpRequest(v)
  IN  /\ Running /\ Reaches
      /\ IF "err" \notin DOMAIN q
         THEN script' = script /\ \E r \in ExecuteHttp(q) : frame' = Results(PushHttpResponse(<<v>>, r), 1)
         ELSE IF q.err = "invalid key to next"
         THEN script' \in {script, "crashed"} /\ frame' = <<>>
         ELSE script' = script /\ frame' = Results(PushHttpError(<<v>>, q.err), 1)
      /\ UNCHANGED <<kind, files, cache, runs, lua, skipped, io, kvs, stored>>

Next ==
  \/ \E mode \in Modes : Start(mode)
  \/ \E how \in {"ok", "error"} : ScriptEnds(how) \/ CoroutineEnds(how)
  \/ CoroutineYields \/ CallSkipped
  \/ \E m \in Modules : Require(m)
  \/ \E how \in {"value", "nil", "error"} : BodyEnds(how)
  \/ Recv \/ Emit \/ Collect \/ PrintOutput
  \/ \E k \in Keys : KvsGet(k) \/ KvsDel(k) \/ \E v \in Values : KvsSet(k, v)
  \/ \E v \in Values : JsonEncode(v)
  \/ \E v \in Requests : Http(v)
  \/ JsonDecode

\* The tasks run; a script ends when it does not wait for something.
Fairness ==
  /\ WF_vars(Collect) /\ WF_vars(PrintOutput)
  /\ WF_vars(\E how \in {"ok", "error"} : ScriptEnds(how) \/ CoroutineEnds(how))

Spec == Init /\ [][Next]_vars /\ Fairness

------------------------------------------------------------------------------
\* A module's body runs at most once, whatever requires it, however often, and
\* however its body ended (require.rs: __loaded, then the flag of the load).
BodiesRunOnce == \A m \in Modules : bodies[m] <= 1

\* What the agent was told is accepted is what is printed, in order, when the
\* script has ended well.
AcceptedIsPrinted == collector = "printed" => collected = emitted

\* What a script reads back of v: the data of it.  Functions are gone, and the keys
\* of a table that is no array are strings.
RECURSIVE Plain(_)
Plain(v) ==
  LET isArray == \A k \in DOMAIN v.f : k.t = "number" /\ k.n >= 1
      Name(k) == IF isArray THEN k ELSE KeyName(k)
      kept == {k \in DOMAIN v.f : k.t \in {"string", "number"} /\ Plain(v.f[k]) # Nil}
  IN  CASE v.t = "function" -> Nil
        [] v.t = "table" -> Table([n \in {Name(k) : k \in kept} |->
                                     Plain(v.f[CHOOSE k \in kept : Name(k) = n])])
        [] OTHER -> v

\* Its numbers are JSON's and within the range of the casts, its keys too.
RECURSIVE Exact(_)
Exact(v) ==
  CASE v.t = "nan" -> FALSE
    [] v.t = "number" -> v.n \in -MaxInt .. MaxInt
    [] v.t = "table" -> \A k \in DOMAIN v.f : (k.t = "number" => k.n \in -MaxIndex .. MaxIndex) /\ Exact(k) /\ Exact(v.f[k])
    [] OTHER -> TRUE

\* What is stored under a key, or written as JSON and parsed, is what a script gets
\* back, nested tables, arrays with holes and mixed keys included, as long as json.rs
\* can cast its numbers; and the stack is as it was whatever the value.
ValuesReadBack ==
  /\ \A k \in Keys : Exact(stored[k]) => JsonToLua(<<>>, kvs[k]) = <<Plain(stored[k])>>
  /\ script = "ready" => \A v, w \in Values :
       LET r == LuaToJson(<<w, v>>, -1) IN
       r.s = <<w, v>> /\ (Exact(v) => JsonToLua(<<w>>, r.json) = <<w, Plain(v)>>)

\* Not so: whatever the numbers.  A number beyond 2^63 comes back as 2^63, NaN as nil,
\* and an array ends at 2^31 - 1 (json.rs:64, :97).
NumbersReadBack ==
  \A k \in Keys : JsonToLua(<<>>, kvs[k]) = <<Plain(stored[k])>>

\* Reading a request leaves the script running.
RequestsRead == script # "crashed" \/ slot = "freed"

\* require.rs:47, "Module is being loaded right now - this is a circular
\* require": refuted by a module whose load failed.
CircularIsCircular == answer.how = "circular" => \E i \in DOMAIN loading : loading[i] = answer.name

\* A function registered with the state runs when a script calls it, on a
\* coroutine of the state as well (luau_wrapper.cpp:680).
CallsReachTheFunction == ~skipped

\* lib.rs:157, a coroutine that yields without a pending request ends the loop.
YieldedScriptEnds == script = "yielded" ~> script \in {"ok", "error"}
=============================================================================
