------------------------------ MODULE CliTools ------------------------------
(* The command line tools of the speech and model services: cmd/doubaospeech, *)
(* cmd/minimax and cmd/dashscope.  Every invocation is a process; those of a  *)
(* tool share its file of contexts (~/.giztoy/<app>/config.yaml), which a     *)
(* config command reads whole and writes whole.  A service command takes its  *)
(* context from it, builds the tool's client from the credentials in the      *)
(* context, sends its input, reads the answer and writes the output.          *)
EXTENDS Integers, Sequences, FiniteSets

CONSTANTS Proc,        \* invocations
          Name,        \* names of contexts
          Commands,    \* the service commands tried, a subset of ServiceCommands
          MaxSend,     \* bound: pieces of input of a command
          MaxAudio     \* bound: pieces of audio of an answer

VARIABLES file,        \* the tool and its config file; is: "none", "empty" (being written), "cut" or "config"
          proc,        \* what each invocation does
          out          \* [p -> the audio in its output file, or NoFile]

vars == <<file, proc, out>>

NoName == "-"
NoFile == -1
NoContexts == [n \in {} |-> NoName]
EmptyConfig(app) == [app |-> app, is |-> "config", contexts |-> NoContexts, current |-> NoName]

------------------------------------------------------------------------------
\* The service commands.  sends: its input goes out in pieces before it reads;
\* clears: a new response discards what was read; error, timeout: what ends its
\* loop, "fail" or "break" ("wait": it reads on, "never": no time limit);
\* empty: what no audio means, "fail", "skip" (no file) or "ok"; file: the audio
\* goes to the output file.

Command(sends, clears, error, timeout, empty, writes) ==
  [sends |-> sends, clears |-> clears, error |-> error, timeout |-> timeout, empty |-> empty, file |-> writes]

TtsStreamV1 == Command(FALSE, FALSE, "fail", "never", "ok", TRUE)
TtsStreamV2 == Command(FALSE, FALSE, "fail", "never", "ok", TRUE)
TtsBidirectional == Command(TRUE, FALSE, "fail", "never", "fail", TRUE)
PodcastSamiBreaks == Command(FALSE, FALSE, "break", "never", "fail", TRUE)
PodcastSami == Command(FALSE, FALSE, "fail", "never", "fail", TRUE)
AsrStreamV1 == Command(TRUE, FALSE, "fail", "never", "ok", FALSE)
AsrStreamV2 == Command(TRUE, FALSE, "fail", "never", "ok", FALSE)
TranslationStream == Command(TRUE, FALSE, "fail", "never", "ok", FALSE)
RealtimeConnect == Command(FALSE, FALSE, "break", "wait", "ok", FALSE)
RealtimeTest == Command(FALSE, FALSE, "fail", "break", "ok", FALSE)
OmniChat == Command(TRUE, TRUE, "break", "break", "skip", TRUE)
MinimaxSpeechStream == Command(FALSE, FALSE, "fail", "never", "ok", TRUE)
MinimaxTextStream == Command(FALSE, FALSE, "fail", "never", "ok", FALSE)

\* Commands of one request and one answer differ in the request alone.
TtsSynthesize == Command(FALSE, FALSE, "fail", "never", "skip", TRUE)
AsrRecognize == Command(FALSE, FALSE, "fail", "never", "ok", FALSE)
AsrFile == Command(FALSE, FALSE, "fail", "never", "ok", FALSE)
PodcastSubmit == Command(FALSE, FALSE, "fail", "never", "ok", FALSE)
MeetingCreate == Command(FALSE, FALSE, "fail", "never", "ok", FALSE)
MediaSubtitle == Command(FALSE, FALSE, "fail", "never", "ok", FALSE)
VoiceCloneTrain == Command(FALSE, FALSE, "fail", "never", "ok", FALSE)
MinimaxVideo == Command(FALSE, FALSE, "fail", "never", "ok", FALSE)
MinimaxVoice == Command(FALSE, FALSE, "fail", "never", "ok", FALSE)
MinimaxFile == Command(FALSE, FALSE, "fail", "never", "ok", FALSE)
MinimaxImage == Command(FALSE, FALSE, "fail", "never", "ok", FALSE)
MinimaxMusic == Command(FALSE, FALSE, "fail", "never", "ok", TRUE)

OneAnswer ==
  [synthesize |-> TtsSynthesize, recognize |-> AsrRecognize, asr_file |-> AsrFile, submit |-> PodcastSubmit,
   meeting |-> MeetingCreate, subtitle |-> MediaSubtitle, train |-> VoiceCloneTrain, video |-> MinimaxVideo,
   voice |-> MinimaxVoice, upload |-> MinimaxFile, image |-> MinimaxImage, music |-> MinimaxMusic]

Streaming ==
  [tts_v1 |-> TtsStreamV1, tts_v2 |-> TtsStreamV2, bidirectional |-> TtsBidirectional, sami |-> PodcastSami,
   asr_v1 |-> AsrStreamV1, asr_v2 |-> AsrStreamV2, translation |-> TranslationStream,
   connect |-> RealtimeConnect, test |-> RealtimeTest, omni |-> OmniChat,
   speech |-> MinimaxSpeechStream, text |-> MinimaxTextStream]

ServiceCommands == DOMAIN OneAnswer \cup DOMAIN Streaming

Of(c) == IF c \in DOMAIN OneAnswer THEN OneAnswer[c] ELSE Streaming[c]

MinimaxCommands == {"video", "voice", "upload", "image", "music", "speech", "text"}

CommandsOf(app) ==
  CASE app = "minimax" -> MinimaxCommands
    [] app = "dashscope" -> {"omni"}
    [] app = "doubaospeech" -> ServiceCommands \ (MinimaxCommands \cup {"omni"})

------------------------------------------------------------------------------
\* A context: its api_key, the client credentials a file written by hand may
\* have, and the extra values, of which the credentials matter.  A value is
\* given, given as the empty string, or not given.
Absent == "absent"
NoClient == [app_id |-> Absent, api_key |-> Absent]

Context(key, client, extra) == [api_key |-> key, client |-> client, extra |-> extra]

\* Context::get_extra, with what the caller takes when there is none.
GetExtra(ctx, k, default) == IF ctx.extra[k] = Absent THEN default ELSE ctx.extra[k]

NoExtra == [k \in {"app_id", "token", "api_key"} |-> Absent]

\* add-context of each tool: what it requires and the context it makes.
DoubaoRequires(args) == args.token # Absent \/ args.api_key # Absent

DoubaoContext(args) ==
  Context(args.app_id, NoClient, [app_id |-> args.app_id, token |-> args.token, api_key |-> args.api_key])

MinimaxContext(args) == Context(args.api_key, NoClient, NoExtra)
DashscopeContext(args) == Context(args.api_key, NoClient, NoExtra)

Requires(app, args) == app = "doubaospeech" => DoubaoRequires(args)

NewContext(app, args) ==
  CASE app = "doubaospeech" -> DoubaoContext(args)
    [] app = "minimax" -> MinimaxContext(args)
    [] app = "dashscope" -> DashscopeContext(args)

------------------------------------------------------------------------------
\* The clients.  A client is the credentials its requests are signed with, or
\* NoSuchClient when the builder refuses.
NoSuchClient == [app_id |-> "", access_token |-> Absent, api_key |-> Absent, access_key |-> Absent]

\* ClientBuilder::build: an app id, and at least one way to authenticate.
DoubaoBuild(c) ==
  IF c.app_id = "" \/ (c.api_key = Absent /\ c.access_token = Absent /\ c.access_key = Absent)
  THEN NoSuchClient ELSE c

MinimaxBuild(key) == IF key = "" THEN NoSuchClient ELSE [NoSuchClient EXCEPT !.app_id = Absent, !.api_key = key]
DashscopeBuild(key) == IF key = "" THEN NoSuchClient ELSE [NoSuchClient EXCEPT !.app_id = Absent, !.api_key = key]

\* create_client: the app id and the token of the client credentials, or else
\* the token or the key of the extra values.
DoubaoClient(ctx) ==
  LET id == IF ctx.client # NoClient THEN ctx.client.app_id ELSE GetExtra(ctx, "app_id", ctx.api_key)
      token == IF ctx.client.api_key \notin {Absent, ""} THEN ctx.client.api_key ELSE ctx.extra["token"]
  IN IF id = "" \/ (token = Absent /\ ctx.extra["api_key"] = Absent) THEN NoSuchClient
     ELSE DoubaoBuild([app_id |-> id, access_token |-> token, access_key |-> Absent,
                       api_key |-> IF token = Absent THEN ctx.extra["api_key"] ELSE Absent])

MinimaxClient(ctx) == MinimaxBuild(ctx.api_key)
DashscopeClient(ctx) == DashscopeBuild(ctx.api_key)

Client(app, ctx) ==
  CASE app = "doubaospeech" -> DoubaoClient(ctx)
    [] app = "minimax" -> MinimaxClient(ctx)
    [] app = "dashscope" -> DashscopeClient(ctx)

\* The credential a request is signed with: each kind of endpoint looks at the
\* client's in an order of its own; a V1 WebSocket puts only the token in its URL.
FirstGiven(s) ==
  IF \A i \in DOMAIN s : s[i] = Absent THEN Absent
  ELSE s[CHOOSE i \in DOMAIN s : s[i] # Absent /\ \A j \in 1 .. i - 1 : s[j] = Absent]

DefaultHeaders(c) == FirstGiven(<<c.api_key, c.access_token, c.access_key>>)
V2HeadersTokenOnly(c) == FirstGiven(<<c.access_key, c.access_token>>)
V2Headers(c) == FirstGiven(<<c.access_key, c.access_token, c.api_key>>)
SessionHeaders(c) == FirstGiven(<<c.access_token, c.api_key, c.access_key>>)
DialHeaders(c) == FirstGiven(<<c.access_key, c.access_token, c.api_key>>)
WsAuthParams(c) == c.access_token
MinimaxHeaders(c) == c.api_key
DashscopeHeaders(c) == c.api_key

SignedWith(cmd, c) ==
  CASE cmd \in {"asr_v1", "translation"} -> WsAuthParams(c)
    [] cmd \in {"asr_file", "tts_v2"} -> V2Headers(c)
    [] cmd \in {"bidirectional", "sami", "asr_v2"} -> SessionHeaders(c)
    [] cmd \in {"connect", "test"} -> DialHeaders(c)
    [] cmd \in MinimaxCommands -> MinimaxHeaders(c)
    [] cmd = "omni" -> DashscopeHeaders(c)
    [] OTHER -> DefaultHeaders(c)

------------------------------------------------------------------------------
\* What is typed: the credentials of an add-context, and a command with or
\* without -c.  get-context, list-contexts and view are one: they only read.
ArgsOf(app) ==
  IF app = "doubaospeech"
  THEN [app_id : {"id"}, token : {Absent, "tok"}, api_key : {Absent, "key"}]
       \cup {[app_id |-> "", token |-> "tok", api_key |-> Absent], [app_id |-> "id", token |-> "", api_key |-> Absent]}
  ELSE [api_key : {"", "key"}]

NoArgs == [api_key |-> Absent]

ConfigOps == {"add", "delete", "use", "show"}

Invocations(app) ==
  [op : {"add"}, name : Name, args : ArgsOf(app)] \cup [op : {"delete", "use", "show"}, name : Name, args : {NoArgs}]
  \cup [op : Commands \cap CommandsOf(app), name : Name \cup {NoName}, args : {NoArgs}]

\* Files written by hand, with and without client credentials.
HandWritten(app) ==
  IF app = "doubaospeech"
  THEN {Context("", [app_id |-> "id", api_key |-> "ck"], NoExtra),
        Context("", [app_id |-> "id", api_key |-> ""], [NoExtra EXCEPT !["token"] = "tok"]),
        Context("id", NoClient, [NoExtra EXCEPT !["api_key"] = "key"])}
  ELSE {Context("key", NoClient, NoExtra)}

\* Two service commands share nothing: at most one is among the processes.
Init ==
  \E app \in {"doubaospeech", "minimax", "dashscope"} :
    /\ file \in {[EmptyConfig(app) EXCEPT !.is = "none"]}
                \cup {[EmptyConfig(app) EXCEPT !.contexts = [n \in Name |-> ctx], !.current = c] :
                        ctx \in HandWritten(app), c \in Name}
    /\ \E f \in [Proc -> Invocations(app)] :
         /\ \A p, q \in Proc : p # q => f[p].op \in ConfigOps \/ f[q].op \in ConfigOps
         /\ proc = [p \in Proc |-> [pc |-> "start", op |-> f[p].op, name |-> f[p].name, args |-> f[p].args]]
    /\ out = [p \in Proc |-> NoFile]

Set(p, r) == proc' = [proc EXCEPT ![p] = r]
Goto(p, pc) == proc' = [proc EXCEPT ![p].pc = pc]
Exit(p, how) == proc' = [proc EXCEPT ![p].pc = how]

\* load_config: no file is a new file with no context.  A file that another
\* process has just truncated, or of which it wrote only the beginning, does not
\* parse, or, depending on the YAML library and on where it was cut, is a config
\* with what the beginning holds.
LoadConfig(p) ==
  /\ proc[p].pc = "start"
  /\ \/ LET cfg == [file EXCEPT !.is = "config"] IN
          /\ file' = IF file.is = "none" THEN cfg ELSE file
          /\ Set(p, [pc |-> "loaded", op |-> proc[p].op, name |-> proc[p].name, args |-> proc[p].args, cfg |-> cfg])
     \/ file.is \in {"empty", "cut"} /\ UNCHANGED file /\ Exit(p, "error")
  /\ UNCHANGED out

\* add_context, delete_context, use_context on the config loaded.
AddContext(cfg, n, ctx) ==
  [cfg EXCEPT !.contexts = [m \in DOMAIN @ \cup {n} |-> IF m = n THEN ctx ELSE @[m]]]

Without(contexts, n) == [m \in DOMAIN contexts \ {n} |-> contexts[m]]

DeleteContextKeepsCurrent(cfg, n) == [cfg EXCEPT !.contexts = Without(@, n)]

DeleteContext(cfg, n) ==
  [cfg EXCEPT !.contexts = Without(@, n), !.current = IF @ = n THEN NoName ELSE @]

UseContext(cfg, n) == [cfg EXCEPT !.current = n]

Changed(cfg, op, n, args) ==
  CASE op = "add" -> AddContext(cfg, n, NewContext(cfg.app, args))
    [] op = "delete" -> DeleteContext(cfg, n)
    [] op = "use" -> UseContext(cfg, n)

\* ConfigCommand::run on the config loaded.
Run(p) ==
  /\ proc[p].pc = "loaded" /\ proc[p].op \in ConfigOps
  /\ CASE proc[p].op = "show" -> UNCHANGED file /\ Exit(p, "ok")
       [] \/ proc[p].op = "add" /\ Requires(file.app, proc[p].args)
          \/ proc[p].op \in {"delete", "use"} /\ proc[p].name \in DOMAIN proc[p].cfg.contexts ->
            /\ file' = [EmptyConfig(file.app) EXCEPT !.is = "empty"]        \* Config::save: fs::write truncates, then writes
            /\ Set(p, [proc[p] EXCEPT !.pc = "saving", !.cfg = Changed(proc[p].cfg, proc[p].op, proc[p].name, proc[p].args)])
       [] OTHER -> UNCHANGED file /\ Exit(p, "error")
  /\ UNCHANGED out

DoubaoConfigRun(p) == file.app = "doubaospeech" /\ Run(p)
MinimaxConfigRun(p) == file.app = "minimax" /\ Run(p)
DashscopeConfigRun(p) == file.app = "dashscope" /\ Run(p)

\* The write of fs::write, or its failure: nothing, or a beginning of the new
\* content, is written when the disk is full or the process is killed.  The
\* current context stands before the contexts.
SaveConfig(p) ==
  /\ proc[p].pc = "saving"
  /\ \/ file' = proc[p].cfg /\ Exit(p, "ok")
     \/ UNCHANGED file /\ Exit(p, "cut")
     \/ \E kept \in SUBSET DOMAIN proc[p].cfg.contexts :
          /\ file' = [proc[p].cfg EXCEPT !.is = "cut", !.contexts = [n \in kept |-> @[n]]]
          /\ Exit(p, "cut")
  /\ UNCHANGED out

\* Each tool has a cli_config.rs of its own.
DoubaoConfigFile(p) == file.app = "doubaospeech" /\ (LoadConfig(p) \/ SaveConfig(p))
MinimaxConfigFile(p) == file.app = "minimax" /\ (LoadConfig(p) \/ SaveConfig(p))
DashscopeConfigFile(p) == file.app = "dashscope" /\ (LoadConfig(p) \/ SaveConfig(p))

------------------------------------------------------------------------------
\* resolve_context: -c, or the current context.
ResolveContext(cfg, n) == IF n # NoName THEN n ELSE cfg.current

\* get_context, create_client and load_request, which fails on a file it cannot
\* read; then the request is sent, or the session opened.
Begin(p) ==
  /\ proc[p].pc = "loaded" /\ proc[p].op \in Commands
  /\ LET n == ResolveContext(proc[p].cfg, proc[p].name) IN
       IF n \notin DOMAIN proc[p].cfg.contexts THEN Exit(p, "error")
       ELSE LET ctx == proc[p].cfg.contexts[n]
                client == Client(file.app, ctx)
            IN IF client = NoSuchClient THEN Set(p, [pc |-> "noclient", op |-> proc[p].op, ctx |-> ctx])
               ELSE \/ Exit(p, "error")
                    \/ \E k \in (IF Of(proc[p].op).sends THEN 1 .. MaxSend ELSE {0}) :
                         Set(p, [pc |-> IF proc[p].op = "omni" THEN "created" ELSE "send", op |-> proc[p].op,
                                 ctx |-> ctx, with |-> SignedWith(proc[p].op, client),
                                 left |-> k, audio |-> 0, saw |-> "nothing"])
  /\ UNCHANGED <<file, out>>

DoubaoBegin(p) == file.app = "doubaospeech" /\ Begin(p)
MinimaxBegin(p) == file.app = "minimax" /\ Begin(p)
DashscopeBegin(p) == file.app = "dashscope" /\ Begin(p)

\* merge_config, then the flag: whose audio file, if any.
MergeConfig(dst, src) == IF src # "" THEN src ELSE dst

\* The chat waits for session.created, without which it fails, updates the
\* session and waits for session.updated, with or without which it goes on: with
\* an audio file it sends that, else it asks for input.
WaitForEvent(p) ==
  /\ proc[p].pc \in {"created", "updated"}
  /\ CASE proc[p].pc = "created" -> Goto(p, "updated") \/ Exit(p, "error")
       [] proc[p].pc = "updated" ->
            \E input, flag \in {"", "audio"} :
              Goto(p, IF MergeConfig(MergeConfig("", input), flag) # "" THEN "send" ELSE "prompt")
  /\ UNCHANGED <<file, out>>

\* The interactive loop: a line is an audio file to send, a command, or the end.
\* It reads no events and writes no file.
Prompt(p) ==
  /\ proc[p].pc = "prompt"
  /\ \/ proc[p].left > 0 /\ Set(p, [proc[p] EXCEPT !.left = @ - 1])
     \/ Exit(p, "ok")
  /\ UNCHANGED <<file, out>>

\* The service refuses the client or its request, or the connection fails.
Refused(p) ==
  /\ proc[p].pc = "send" /\ Exit(p, "error") /\ UNCHANGED <<file, out>>

SendPiece(p) ==
  /\ proc[p].pc = "send"
  /\ IF proc[p].left > 0 THEN Set(p, [proc[p] EXCEPT !.left = @ - 1]) ELSE Goto(p, "recv")
  /\ UNCHANGED <<file, out>>

RecvAudio(p) ==
  /\ proc[p].pc = "recv" /\ proc[p].op \in DOMAIN Streaming /\ proc[p].audio < MaxAudio
  /\ Set(p, [proc[p] EXCEPT !.audio = @ + 1])
  /\ UNCHANGED <<file, out>>

\* EVENT_TYPE_RESPONSE_CREATED: what was read is of an earlier response.
RecvCreated(p) ==
  /\ proc[p].pc = "recv" /\ Of(proc[p].op).clears /\ proc[p].audio > 0
  /\ Set(p, [proc[p] EXCEPT !.audio = 0])
  /\ UNCHANGED <<file, out>>

\* The last piece, or the stream's end.
RecvEnd(p) ==
  /\ proc[p].pc = "recv"
  /\ \E n \in (IF proc[p].op \in DOMAIN OneAnswer THEN {0, 1} ELSE {proc[p].audio}) :
       Set(p, [proc[p] EXCEPT !.pc = "write", !.audio = n, !.saw = "end"])
  /\ UNCHANGED <<file, out>>

\* The stream ends early and without an error: the loops take None for the end.
RecvNone(p) ==
  /\ proc[p].pc = "recv" /\ proc[p].op \in DOMAIN Streaming
  /\ Set(p, [proc[p] EXCEPT !.pc = "write", !.saw = "none"])
  /\ UNCHANGED <<file, out>>

RecvError(p) ==
  /\ proc[p].pc = "recv"
  /\ IF Of(proc[p].op).error = "fail" THEN Exit(p, "error")
     ELSE Set(p, [proc[p] EXCEPT !.pc = "write", !.saw = "error"])
  /\ UNCHANGED <<file, out>>

RecvTimeout(p) ==
  /\ proc[p].pc = "recv" /\ Of(proc[p].op).timeout = "break"
  /\ Set(p, [proc[p] EXCEPT !.pc = "write", !.saw = "timeout"])
  /\ UNCHANGED <<file, out>>

\* output_bytes and output_result.
Write(p) ==
  /\ proc[p].pc = "write"
  /\ IF Of(proc[p].op).empty = "fail" /\ proc[p].audio = 0
     THEN Exit(p, "error") /\ UNCHANGED out
     ELSE /\ Exit(p, "ok")
          /\ out' = IF Of(proc[p].op).file /\ ~(Of(proc[p].op).empty = "skip" /\ proc[p].audio = 0) THEN [out EXCEPT ![p] = proc[p].audio] ELSE out
  /\ UNCHANGED file

MinimaxWrite(p) == file.app = "minimax" /\ Write(p)
DashscopeWrite(p) == file.app = "dashscope" /\ Write(p)
DoubaoWrite(p) == file.app = "doubaospeech" /\ Write(p)

Step(p) ==
  \/ DoubaoConfigFile(p) \/ MinimaxConfigFile(p) \/ DashscopeConfigFile(p)
  \/ DoubaoConfigRun(p) \/ MinimaxConfigRun(p) \/ DashscopeConfigRun(p)
  \/ DoubaoBegin(p) \/ MinimaxBegin(p) \/ DashscopeBegin(p)
  \/ WaitForEvent(p) \/ Prompt(p) \/ Refused(p) \/ SendPiece(p)
  \/ RecvAudio(p) \/ RecvCreated(p) \/ RecvEnd(p) \/ RecvNone(p) \/ RecvError(p) \/ RecvTimeout(p)
  \/ DoubaoWrite(p) \/ MinimaxWrite(p) \/ DashscopeWrite(p)

Next == \E p \in Proc : Step(p)

Spec == Init /\ [][Next]_vars

------------------------------------------------------------------------------
Service(p) == proc[p].op \in Commands

\* A file that is not being written names a context it has, whatever processes
\* changed it at the same time: use-context and delete-context race.  A file of
\* which a save wrote only the beginning is excepted, and what is made from it.
CurrentExists ==
  \/ file.is # "config" \/ \E p \in Proc : proc[p].pc = "cut"
  \/ file.current = NoName \/ file.current \in DOMAIN file.contexts

\* No output file is left by a command that was told of an error or ran out of
\* time, the chat of dashscope excepted (its loop breaks on an error and writes);
\* and a command of one answer leaves it whole.
NoFileAfterError ==
  \A p \in Proc : Service(p) /\ proc[p].op # "omni" /\ out[p] # NoFile =>
    IF proc[p].op \in DOMAIN Streaming THEN proc[p].saw \in {"end", "none"} ELSE proc[p].saw = "end"

\* Not so: a file is whole.  A stream that ends early leaves what came before.
FileIsWhole ==
  \A p \in Proc : Service(p) /\ proc[p].op # "omni" /\ out[p] # NoFile => proc[p].saw = "end"

\* Not so: what add-context reported as added stays while nobody deletes it.  Two
\* processes load the same file, and the second save undoes the first.
AddedStays ==
  file.is = "config" /\ (\A p \in Proc : proc[p].op # "delete" /\ proc[p].pc # "cut") =>
    \A p \in Proc : proc[p].op = "add" /\ proc[p].pc = "ok" => proc[p].name \in DOMAIN file.contexts

\* The secrets a context holds (doubaospeech keeps the app id in api_key too),
\* and whether an add-context was given no empty value.
Secrets(ctx) ==
  ({ctx.client.api_key, ctx.extra["token"], ctx.extra["api_key"]}
   \cup (IF file.app = "doubaospeech" THEN {} ELSE {ctx.api_key})) \ {Absent, ""}

NothingEmpty(args) == \A k \in DOMAIN args : args[k] # ""

\* A context that add-context took, and that was given no empty value, is one
\* the tool's create_client builds a client from, whoever uses it and when.
AcceptedUsable ==
  \A p \in Proc : proc[p].op = "add" /\ proc[p].pc \in {"saving", "ok"} /\ NothingEmpty(proc[p].args)
                  => Client(file.app, proc[p].cfg.contexts[proc[p].name]) # NoSuchClient

\* Every request of a command is signed with a secret of its context, although
\* the endpoints look for it in different places and orders; the V1 WebSockets
\* of recognition and translation only when the secret is a token, and a context
\* whose token is the empty string excepted.
RequestsSigned ==
  \A p \in Proc :
    /\ Service(p) /\ "with" \in DOMAIN proc[p]
    /\ ~(proc[p].op \in {"asr_v1", "translation"} /\ proc[p].ctx.client.api_key \in {Absent, ""} /\ proc[p].ctx.extra["token"] = Absent)
    /\ proc[p].ctx.extra["token"] # ""
    => proc[p].with \in Secrets(proc[p].ctx)
=============================================================================
