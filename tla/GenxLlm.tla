------------------------------ MODULE GenxLlm ------------------------------
(* To a language model and back, rust/genx: the conversation a caller puts   *)
(* together (context.rs), the request openai.rs or gemini.rs makes of it, the *)
(* task that reads the events of the answer and fills a stream, and what the *)
(* stream's readers make of it: the collected tool calls (stream.rs) and the *)
(* lines that match/matcher.rs recognises.  A text is a sequence of numbers, *)
(* one for each piece that was said, and 0 for a line's end.                 *)
EXTENDS Integers, Sequences, FiniteSets

LOCAL INSTANCE SequencesExt

CONSTANTS Services,    \* {"openai", "gemini"} or one of them
          Fragments,   \* pieces of text; "nl" is a line's end
          RuleNames,   \* the fragments that begin a line of a known rule
          Indices,     \* tool calls of one answer
          MaxEvents,   \* bound: events before the service ends its answer
          Names,       \* names of prompts and of speakers
          MaxSaid      \* bound: pieces of a conversation

VARIABLES svc,
          sent,        \* what the service has sent: [t, ...]
          phase,       \* the caller: "build"; the request: "asked", "invoked";
                       \* the service: "content", "finished", "counted", "closed"
          reason,      \* how the service ended the answer
          usage,       \* final_usage: whether a usage was read
          task,        \* the reading task runs
          chunks,      \* the stream's buffer
          status, told,   \* how the builder ended the stream, and the usage it gave
          text, calls, pending, results,  \* the readers of the stream
          contexts,    \* the contexts of one request; the last is being built
          said,        \* history: the pieces of the conversation
          request,     \* the body that was made of them
          answer       \* what invoke returned

readers == <<text, calls, pending, results>>
asking == <<contexts, said, request, answer>>
answering == <<sent, reason, usage, task, chunks, status, told, readers>>
vars == <<svc, phase, answering, asking>>

NoCall == [name |-> "", args |-> <<>>]
NoContext == [prompts |-> <<>>, messages |-> <<>>, tools |-> <<>>, params |-> "none"]
NoRequest == [system |-> <<>>, contents |-> <<>>, tools |-> <<>>, params |-> "none"]

Init ==
  /\ svc \in Services /\ sent = <<>> /\ phase = "build" /\ reason = "none"
  /\ contexts = <<NoContext>> /\ said = <<>> /\ request = NoRequest /\ answer = <<>>
  /\ usage = FALSE /\ task = FALSE /\ chunks = <<>> /\ status = "open" /\ told = FALSE
  /\ text = <<>> /\ calls = [i \in Indices |-> NoCall] /\ pending = <<>> /\ results = <<>>

------------------------------------------------------------------------------
\* ModelContextBuilder, and the contexts of one request in a row (MultiModelContext;
\* the matcher puts its own behind the caller's).  Thoughts are left out: no
\* service is told them.

\* A prompt of the last one's name goes on with it, on a line of its own.
AddPrompt(c, n, t) ==
  LET last == Last(c.prompts) IN
  IF c.prompts # <<>> /\ last.name = n
  THEN [c EXCEPT !.prompts = Append(Front(@), [name |-> n,
          text |-> (IF last.text = <<>> THEN <<>> ELSE Append(last.text, 0)) \o t])]
  ELSE [c EXCEPT !.prompts = Append(@, [name |-> n, text |-> t])]

\* Contents of the last message's role and name are added to it.
AddMessage(c, m) ==
  LET last == Last(c.messages) IN
  IF c.messages # <<>> /\ last.kind = "contents" /\ m.kind = "contents"
     /\ last.role = m.role /\ last.name = m.name
  THEN [c EXCEPT !.messages = Append(Front(@), [last EXCEPT !.parts = @ \o m.parts])]
  ELSE [c EXCEPT !.messages = Append(@, m)]

Call(p) == [kind |-> "call", role |-> "model", name |-> "", parts |-> <<p>>]
Result(p, id) == [kind |-> "result", role |-> "tool", name |-> "", id |-> id, parts |-> <<p>>]

\* One more piece of the conversation, with what it makes of the last context.
Say(pieces, c) ==
  /\ phase = "build" /\ Len(said) + Len(pieces) <= MaxSaid
  /\ said' = said \o pieces
  /\ contexts' = Append(Front(contexts), c)
  /\ UNCHANGED <<svc, phase, answering, request, answer>>

Context == Last(contexts)
Fresh == Len(said) + 1
CallIds == {p \in 1..Len(said) : said[p].t = "message" /\ said[p].kind = "call"}

SayPrompt(n, t) == Say(<<[t |-> "prompt", empty |-> t = <<>>]>>, AddPrompt(Context, n, t))

SayContents(role, n, parts) ==
  Say(<<[t |-> "message", kind |-> "contents", role |-> role, empty |-> parts = <<>>]>>,
      AddMessage(Context, [kind |-> "contents", role |-> role, name |-> n, parts |-> parts]))

ToolCall ==
  Say(<<[t |-> "message", kind |-> "call", role |-> "model", empty |-> FALSE]>>,
      AddMessage(Context, Call(Fresh)))

ToolResult(id) ==
  Say(<<[t |-> "message", kind |-> "result", role |-> "tool", empty |-> FALSE]>>,
      AddMessage(Context, Result(Fresh, id)))

\* add_tool_call_result: both, under an id of their own.
AddToolCallResult ==
  Say(<<[t |-> "message", kind |-> "call", role |-> "model", empty |-> FALSE],
        [t |-> "message", kind |-> "result", role |-> "tool", empty |-> FALSE]>>,
      AddMessage(AddMessage(Context, Call(Fresh)), Result(Fresh + 1, Fresh)))

\* A function, or the web search, which has no schema.
AddTool(tool) == Say(<<[t |-> tool]>>, [Context EXCEPT !.tools = Append(@, <<tool, Fresh>>)])

SetParams == Say(<<[t |-> "params"]>>, [Context EXCEPT !.params = "caller"])

\* The context is built; another one follows it in the request.
AddContext ==
  /\ phase = "build" /\ Len(contexts) < 2
  /\ contexts' = Append(contexts, NoContext)
  /\ UNCHANGED <<svc, phase, answering, said, request, answer>>

------------------------------------------------------------------------------
\* The request.

Combined(field) == FlattenSeq([i \in 1..Len(contexts) |-> contexts[i][field]])

\* The parameters of the first context that has some, or the generator's.
Params ==
  IF \E i \in 1..Len(contexts) : contexts[i].params = "caller" THEN "caller" ELSE "config"

\* openai.rs, convert_messages: a message each.  Contents of a tool, and a message
\* without contents, are left out.
OpenAiContents(messages) ==
  LET Role(m) == IF m.kind = "contents" /\ m.role = "user" THEN "user"
                 ELSE IF m.role = "model" THEN "assistant" ELSE "tool"
      kept == SelectSeq(messages, LAMBDA m :
                m.kind = "contents" => m.role # "tool" /\ m.parts # <<>>)
  IN  [i \in 1..Len(kept) |-> [role |-> Role(kept[i]), parts |-> kept[i].parts]]

\* convert_tools: the web search is skipped.
Functions(tools) == SelectSeq(tools, LAMBDA x : x[1] = "function")

\* Not the code: what is flushed has the role of the message that flushes it.
GeminiContentsLate(messages) ==
  LET Step(acc, m) ==
        LET role == IF m.role = "model" THEN "model" ELSE "user"
            flush == acc.role \notin {"none", role} /\ acc.parts # <<>>
        IN  [role |-> role, parts |-> (IF flush THEN <<>> ELSE acc.parts) \o m.parts,
             contents |-> IF flush THEN Append(acc.contents, [role |-> role, parts |-> acc.parts])
                          ELSE acc.contents]
      end == FoldLeft(Step, [role |-> "none", parts |-> <<>>, contents |-> <<>>], messages)
  IN  IF end.parts = <<>> THEN end.contents
      ELSE Append(end.contents, [role |-> end.role, parts |-> end.parts])

\* gemini.rs, convert_request: the parts of messages of one role are gathered, and
\* flushed when the role changes; a tool speaks for the user.
GeminiContents(messages) ==
  LET Step(acc, m) ==
        LET role == IF m.role = "model" THEN "model" ELSE "user"
            flush == acc.role \notin {"none", role} /\ acc.parts # <<>>
        IN  [role |-> role, parts |-> (IF flush THEN <<>> ELSE acc.parts) \o m.parts,
             contents |-> IF flush THEN Append(acc.contents, [role |-> acc.role, parts |-> acc.parts])
                          ELSE acc.contents]
      end == FoldLeft(Step, [role |-> "none", parts |-> <<>>, contents |-> <<>>], messages)
  IN  IF end.parts = <<>> THEN end.contents
      ELSE Append(end.contents, [role |-> end.role, parts |-> end.parts])

\* build_request: a system message for each prompt, and the functions (convert_tools);
\* invoke asks for one function of its own.
BuildRequest(mode) ==
  LET prompts == Combined("prompts") IN
  [system |-> [i \in 1..Len(prompts) |-> prompts[i].text],
   contents |-> OpenAiContents(Combined("messages")),
   tools |-> IF mode = "asked" THEN Functions(Combined("tools")) ELSE <<>>,
   params |-> Params]

\* convert_request: one instruction of all prompts, a line each, and no tools.
ConvertRequest ==
  LET prompts == Combined("prompts")
      Line(so_far, p) == Append(so_far, 0) \o p.text
  IN [system |-> IF prompts = <<>> THEN <<>> ELSE <<FoldLeft(Line, prompts[1].text, Tail(prompts))>>,
      contents |-> GeminiContents(Combined("messages")),
      tools |-> <<>>,
      params |-> Params]

\* generate_stream and invoke send the request.
Ask(mode) ==
  /\ phase = "build" /\ phase' = mode
  /\ request' = IF svc = "openai" THEN BuildRequest(mode) ELSE ConvertRequest
  /\ UNCHANGED <<svc, answering, contexts, said, answer>>

\* The conversation stays with the caller.
HandedOver == contexts' = <<NoContext>> /\ said' = <<>> /\ request' = NoRequest

\* The connection fails, or the status is no success: an error for the caller.
Refused ==
  /\ phase \in {"asked", "invoked"} /\ phase' = "closed" /\ status' = "aborted" /\ HandedOver
  /\ UNCHANGED <<svc, sent, reason, usage, task, chunks, told, readers, answer>>

\* The reading task is started.
Accepted ==
  /\ phase = "asked" /\ phase' = "content" /\ task' = TRUE /\ HandedOver
  /\ UNCHANGED <<svc, sent, reason, usage, chunks, status, told, readers, answer>>

\* invoke: the arguments of the first call, or the text if there is none; Gemini
\* is asked for the text.
Invoked(message) ==
  LET given == IF svc = "openai" /\ "call" \in message THEN <<"call">>
               ELSE IF "content" \in message THEN <<"content">> ELSE <<>>
  IN  /\ phase = "invoked" /\ phase' = "closed" /\ HandedOver
      /\ answer' = given /\ status' = IF given = <<>> THEN "aborted" ELSE "done"
      /\ UNCHANGED <<svc, sent, reason, usage, task, chunks, told, readers>>

------------------------------------------------------------------------------
\* The reading task, an event a step; how the bytes are cut into events is the
\* business of LineStream.  What follows the end of the task is not read.

Send(e) == sent' = Append(sent, e)

ReadText(f) ==
  /\ phase = "content" /\ task /\ Len(sent) < MaxEvents
  /\ Send([t |-> "text", s |-> f])
  /\ chunks' = Append(chunks, [t |-> "text", s |-> f])
  /\ UNCHANGED <<svc, phase, reason, usage, task, status, told, readers, asking>>

\* A piece of a tool call: the first has the name, all have some arguments.
ReadToolCall(i) ==
  /\ svc = "openai" /\ phase = "content" /\ task /\ Len(sent) < MaxEvents
  /\ LET first == \A k \in 1..Len(sent) : ~(sent[k].t = "tool" /\ sent[k].index = i)
         e == [t |-> "tool", index |-> i, name |-> IF first THEN "f" ELSE "", arg |-> Len(sent)]
     IN  Send(e) /\ chunks' = Append(chunks, e)
  /\ UNCHANGED <<svc, phase, reason, usage, task, status, told, readers, asking>>

\* done, truncated, blocked, abort of the builder: the task gives the usage it
\* has and returns.
Finish(how) == status' = how /\ told' = usage /\ task' = FALSE

Outcome(r) ==
  CASE r = "stop" -> "done"
    [] r = "length" -> "truncated"
    [] r = "filter" -> "blocked"
    [] r = "other" -> "open"

ReadFinish(r) ==
  /\ phase = "content" /\ task /\ phase' = "finished" /\ reason' = r
  /\ Send([t |-> "finish"])
  /\ IF Outcome(r) # "open" THEN Finish(Outcome(r)) ELSE UNCHANGED <<status, told, task>>
  /\ UNCHANGED <<svc, usage, chunks, readers, asking>>

\* The usage: OpenAI sends it in an event of its own behind the finish reason,
\* Gemini with any event.
SendUsage ==
  /\ phase = (IF svc = "openai" THEN "finished" ELSE "content")
  /\ phase' = IF svc = "openai" THEN "counted" ELSE phase
  /\ ~\E k \in 1..Len(sent) : sent[k].t = "usage"
  /\ Send([t |-> "usage"])
  /\ usage' = (usage \/ task)
  /\ UNCHANGED <<svc, reason, task, chunks, status, told, readers, asking>>

\* An event that is not JSON stops OpenAI's task and is skipped by Gemini's.
ReadMalformed ==
  /\ phase = "content" /\ task /\ Len(sent) < MaxEvents
  /\ Send([t |-> "bad"])
  /\ IF svc = "openai" THEN Finish("aborted") ELSE UNCHANGED <<status, told, task>>
  /\ UNCHANGED <<svc, phase, reason, usage, chunks, readers, asking>>

\* An error object of Gemini, or a broken connection.
ReadError ==
  /\ phase = "content" /\ task /\ phase' = "closed" /\ reason' = "error"
  /\ Finish("aborted")
  /\ UNCHANGED <<svc, sent, usage, chunks, readers, asking>>

\* "[DONE]" or the end of the body.
ReadEnd ==
  /\ phase \in {"content", "finished", "counted"} /\ phase' = "closed"
  /\ IF task THEN Finish("done") ELSE UNCHANGED <<status, told, task>>
  /\ UNCHANGED <<svc, sent, reason, usage, chunks, readers, asking>>

------------------------------------------------------------------------------
\* The readers.

\* Not the code: a piece with a name begins the call anew.
CollectAnew(c) ==
  calls' = [calls EXCEPT ![c.index] = [name |-> c.name, args |-> IF c.name = "" THEN Append(@.args, c.arg) ELSE @.args]]

\* collect_tool_calls_streamed: by index; a name that is given replaces, the
\* arguments are appended.
Collect(c) ==
  calls' = [calls EXCEPT ![c.index] =
              [name |-> IF c.name = "" THEN @.name ELSE c.name, args |-> Append(@.args, c.arg)]]

\* parse_line: a line of a known rule, or raw text.
ParseLine(line) == [rule |-> line[1] \in RuleNames, line |-> line]

\* match_stream: lines are cut off the pending text as they are completed.
MatchText(f) ==
  IF f # "nl" THEN pending' = Append(pending, f) /\ UNCHANGED results
  ELSE /\ pending' = <<>>
       /\ results' = IF pending = <<>> THEN results ELSE Append(results, ParseLine(pending))

TakeChunk ==
  /\ chunks # <<>> /\ chunks' = Tail(chunks)
  /\ LET c == Head(chunks) IN
       IF c.t = "text"
       THEN text' = Append(text, c.s) /\ MatchText(c.s) /\ UNCHANGED calls
       ELSE Collect(c) /\ UNCHANGED <<text, pending, results>>
  /\ UNCHANGED <<svc, sent, phase, reason, usage, task, status, told, asking>>

\* The stream's end: the line that is left counts when the answer is complete.
TakeEnd ==
  /\ chunks = <<>> /\ status \in {"done", "truncated", "blocked"} /\ pending # <<>>
  /\ results' = IF status = "done" THEN Append(results, ParseLine(pending)) ELSE results
  /\ pending' = <<>>
  /\ UNCHANGED <<svc, sent, phase, reason, usage, task, chunks, status, told, text, calls, asking>>

Next ==
  \/ \E n \in Names, t \in {<<>>, <<Fresh>>} : SayPrompt(n, t)
  \/ \E role \in {"user", "model", "tool"}, n \in Names, parts \in {<<>>, <<Fresh>>} :
       SayContents(role, n, parts)
  \/ ToolCall \/ AddToolCallResult \/ (\E id \in CallIds : ToolResult(id))
  \/ \E tool \in {"function", "search"} : AddTool(tool)
  \/ SetParams \/ AddContext
  \/ \E mode \in {"asked", "invoked"} : Ask(mode)
  \/ Refused \/ Accepted \/ \E message \in SUBSET {"call", "content"} : Invoked(message)
  \/ \E f \in Fragments : ReadText(f)
  \/ \E i \in Indices : ReadToolCall(i)
  \/ \E r \in {"stop", "length", "filter", "other"} : ReadFinish(r)
  \/ SendUsage \/ ReadMalformed \/ ReadError \/ ReadEnd
  \/ TakeChunk \/ TakeEnd

Spec == Init /\ [][Next]_vars

------------------------------------------------------------------------------
Of(t) == SelectSeq(sent, LAMBDA e : e.t = t)
CallPieces(i) == SelectSeq(sent, LAMBDA e : e.t = "tool" /\ e.index = i)
AllRead == ~task /\ chunks = <<>>

LineStarts == {k \in 1..Len(text) : text[k] # "nl" /\ (k = 1 \/ text[k - 1] = "nl")}

\* However the pieces of several tool calls and of the text are interleaved,
\* every call is put together from its own pieces in their order, the lines
\* recognised are the lines of the text, and an answer that was cut off or
\* withheld is never given as a complete one.
AnswerIntact ==
  AllRead =>
    /\ text = [k \in 1..Len(Of("text")) |-> Of("text")[k].s]
    /\ \A i \in Indices :
         /\ calls[i].args = [k \in 1..Len(CallPieces(i)) |-> CallPieces(i)[k].arg]
         /\ CallPieces(i) # <<>> => calls[i].name = "f"
    /\ (status = "done" /\ pending = <<>>) =>
         /\ Len(results) = Cardinality(LineStarts)
         /\ FlattenSeq([k \in 1..Len(results) |-> results[k].line])
              = SelectSeq(text, LAMBDA f : f # "nl")
    /\ reason \in {"length", "filter", "error"} => status # "done"

\* A request has every piece of the conversation once, in its order and under the
\* role it was said in, however messages of one role or name were merged and
\* whatever empty messages are between them; pieces of prompts never share a line,
\* and OpenAI is offered every function.  (Contents of a tool reach Gemini only.)
RequestIntact ==
  LET Pieces(P(_)) == SelectSeq([p \in 1..Len(said) |-> p], LAMBDA p : P(said[p]))
      Spoken(e) == e.t = "message" /\ ~e.empty
                   /\ (svc = "openai" /\ e.kind = "contents" => e.role # "tool")
      As(e) == IF svc = "gemini" THEN (IF e.role = "model" THEN "model" ELSE "user")
               ELSE IF e.role = "model" THEN "assistant" ELSE e.role
      spoken == Pieces(Spoken)
      parts == FlattenSeq([i \in 1..Len(request.contents) |->
                 LET c == request.contents[i] IN [j \in 1..Len(c.parts) |-> <<c.role, c.parts[j]>>]])
      lines == FlattenSeq(request.system)
  IN phase \in {"asked", "invoked"} =>
       /\ parts = [i \in 1..Len(spoken) |-> <<As(said[spoken[i]]), spoken[i]>>]
       /\ SelectSeq(lines, LAMBDA p : p # 0) = Pieces(LAMBDA e : e.t = "prompt" /\ ~e.empty)
       /\ \A i \in 1..Len(request.system) : LET body == request.system[i] IN
            \A j \in 1..Len(body) - 1 : body[j] = 0 \/ body[j + 1] = 0
       /\ (svc = "openai" /\ phase = "asked") =>
            [i \in 1..Len(request.tools) |-> request.tools[i][2]] = Pieces(LAMBDA e : e.t = "function")

\* Every function of the context is offered to the model: refuted for Gemini, whose
\* request has no tools (gemini.rs:188).
FunctionsOffered ==
  phase = "asked" =>
    Len(request.tools) = Len(SelectSeq(said, LAMBDA e : e.t = "function"))

\* "Add stream options to get usage in streaming mode" (openai.rs): a complete
\* answer has the usage the service counted.
UsageReported ==
  (phase = "closed" /\ status = "done" /\ \E k \in 1..Len(sent) : sent[k].t = "usage") => told
=============================================================================
