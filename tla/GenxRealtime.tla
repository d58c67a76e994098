---------------------------- MODULE GenxRealtime ----------------------------
(* The realtime transformers of rust/genx/src/transformers:                  *)
(* dashscope_realtime.rs and doubao_realtime.rs over their SDK sessions.     *)
(* One task forwards the input's streams to the service, a second turns the  *)
(* service's events into output chunks; they share the queue of stream ids.  *)
(* Stream k of the input is the user's k-th turn; id 0 is a fresh id.        *)
EXTENDS Integers, Sequences

CONSTANTS Services,    \* {"dashscope", "doubao"} or one of them
          Turns,       \* how many streams the input has
          AudioSize,   \* bytes of audio in a stream's data chunk
          ChunkSize,   \* input_chunk_size
          Cap          \* room in the output channel

VARIABLES svc,
          input,      \* chunks the upstream has still to give: [kind, id]
          inEnd,      \* "open", then "none" or "err"
          ipc,        \* the input loop: "read", "op", "senderr", "join", "done"
          todo,       \* the session calls left for the current chunk
          last,       \* the call after which the input loop ends
          buf,        \* audio_buf: bytes
          queue, respId, assigned,   \* StreamState
          lock,       \* the SDK session's mutex: "none" or "events"
          sent, turn, alive,         \* the service: calls to serve, turns, up
          events,     \* events made and not received: [type, turn, late]
          epc, esend, \* the event loop and the chunks it is sending
          chan, given, rxOpen,       \* the output channel and its reader
          stray       \* an event came later than its turn's order allows

sess  == <<sent, turn, alive>>
state == <<queue, respId, assigned>>
outs  == <<chan, given, rxOpen>>
ev    == <<epc, esend, stray>>
inp   == <<input, inEnd, ipc, todo, last, buf>>
vars  == <<svc, inp, state, lock, sess, events, ev, outs>>

Streams == [i \in 1..(3 * Turns) |->
              [kind |-> <<"bos", "audio", "eos">>[((i - 1) % 3) + 1],
               id |-> ((i - 1) \div 3) + 1]]

\* transform: the session is connected and, for DashScope, created and
\* configured before the tasks start.
Init ==
  /\ svc \in Services /\ input = Streams /\ inEnd = "open" /\ ipc = "read"
  /\ todo = <<>> /\ last = "none" /\ buf = 0
  /\ queue = <<>> /\ respId = 0 /\ assigned = FALSE /\ lock = "none"
  /\ sent = <<>> /\ turn = 0 /\ alive = TRUE /\ events = <<>>
  /\ epc = "recv" /\ esend = <<>> /\ chan = <<>> /\ given = <<>> /\ rxOpen = TRUE
  /\ stray = FALSE

------------------------------------------------------------------------------
\* The stream ids.

\* Not the code: every chunk of a stream queues its id.
PushStreamIdAlways(id) == queue' = Append(queue, id)

PushStreamId(id) ==
  queue' = IF svc = "dashscope" /\ queue # <<>> /\ queue[Len(queue)] = id
           THEN queue ELSE Append(queue, id)

PopForResponse ==
  /\ respId' = IF queue = <<>> THEN 0 ELSE Head(queue)
  /\ queue' = IF queue = <<>> THEN queue ELSE Tail(queue)
  /\ assigned' = TRUE

\* DashScope: the first event of a turn takes the id, the others find it taken.
EnsureResponseStreamIdForTurn ==
  IF assigned THEN UNCHANGED state ELSE PopForResponse

ResetTurnAssignment == assigned' = FALSE /\ UNCHANGED <<queue, respId>>

------------------------------------------------------------------------------
\* The input loop.

\* flush_audio_buffer: whole pieces, then the rest when it is asked for.
Flush(n, rest) ==
  [i \in 1..(n \div ChunkSize) |-> "append"] \o
  (IF rest /\ n % ChunkSize # 0 THEN <<"append">> ELSE <<>>)

\* forward_input: the calls a chunk leads to.
Calls(c, n) ==
  IF svc = "dashscope"
  THEN CASE c.kind = "bos"   -> <<"cancel">>
         [] c.kind = "audio" -> Flush(n, FALSE)
         [] c.kind = "eos"   -> Flush(n, TRUE) \o <<"commit", "create">>
  ELSE CASE c.kind = "bos"   -> <<>>
         [] c.kind = "audio" -> <<"append">>
         [] c.kind = "eos"   -> <<"silence">>

ForwardInput ==
  /\ ipc = "read" /\ inEnd = "open" /\ input # <<>>
  /\ LET c == Head(input)
         n == IF c.kind = "audio" THEN buf + AudioSize ELSE buf
     IN  /\ IF svc = "dashscope" \/ c.kind = "bos"
            THEN PushStreamId(c.id) /\ UNCHANGED <<respId, assigned>>
            ELSE UNCHANGED state
         /\ todo' = Calls(c, n)
         /\ buf' = IF svc = "doubao" \/ c.kind = "eos" THEN 0 ELSE n % ChunkSize
         /\ ipc' = IF Calls(c, n) = <<>> THEN "read" ELSE "op"
  /\ input' = Tail(input)
  /\ UNCHANGED <<svc, inEnd, last, lock, sess, events, ev, outs>>

\* The upstream ends: the audio left is flushed and the session closed, in the
\* error's case once the error is in the output.
InputEnds ==
  /\ ipc = "read" /\ inEnd = "open"
  /\ \E how \in {"none", "err"} :
       /\ how = "none" => input = <<>>
       /\ inEnd' = how
       /\ todo' = (IF svc = "dashscope" /\ how = "none" THEN Flush(buf, TRUE) ELSE <<>>)
                    \o <<"close">>
       /\ ipc' = IF how = "err" THEN "senderr" ELSE "op"
  /\ last' = "close"
  /\ UNCHANGED <<svc, input, buf, state, lock, sess, events, ev, outs>>

\* One call on the session.  DashScope's waits for the session's mutex.  A call
\* on a session that is gone fails: cancel and the calls of the end ignore it,
\* any other stops the loop with an error in the output.
SessionCall ==
  /\ ipc = "op"
  /\ svc = "dashscope" => lock = "none"
  /\ LET op == Head(todo) IN
       /\ sent' = IF alive THEN Append(sent, op) ELSE sent
       /\ \/ /\ alive \/ op = "cancel" \/ last = "close"
             /\ todo' = Tail(todo)
             /\ ipc' = IF Tail(todo) # <<>> THEN "op"
                       ELSE IF last = "close" THEN "join" ELSE "read"
          \/ /\ ~alive /\ op # "cancel" /\ last # "close"
             /\ ipc' = "senderr" /\ todo' = <<>>
  /\ UNCHANGED <<svc, input, inEnd, last, buf, state, lock, turn, alive, events, ev, outs>>

SendInputError ==
  /\ ipc = "senderr"
  /\ \/ Len(chan) < Cap /\ rxOpen /\ chan' = Append(chan, [kind |-> "err"])
     \/ ~rxOpen /\ UNCHANGED chan
  /\ ipc' = IF todo = <<>> THEN "join" ELSE "op"
  /\ UNCHANGED <<svc, input, inEnd, todo, last, buf, state, lock, sess, events, ev, given, rxOpen>>

\* events_done.await; then the last sender is dropped.
Join ==
  /\ ipc = "join" /\ epc = "done" /\ ipc' = "done"
  /\ UNCHANGED <<svc, input, inEnd, todo, last, buf, state, lock, sess, events, ev, outs>>

------------------------------------------------------------------------------
\* The service, as the transformers use it: it serves calls in order, answers a
\* turn with one response, and may fail at any time.

\* A transcript comes late behind a part of the answer that is done, the end of the
\* recognition when the turn had one already.
Late(types, i) ==
  \/ types[i] = "transcript" /\ \E j \in 1..(i - 1) : types[j] \in {"textdone", "audiodone"}
  \/ types[i] = "asrended" /\ \E j \in 1..(i - 1) : types[j] = "asrended"

Events(k, types) ==
  [i \in 1..Len(types) |-> [type |-> types[i], turn |-> k, late |-> Late(types, i)]]

\* "other" is any type the transformer does not know: session.updated,
\* response.done and most of those that event.rs lists.
DashScopeAnswers(k) ==
  {Events(k, <<"transcript", "created", "text", "textdone", "audio", "audiodone">>),
   Events(k, <<"created", "transcript", "audio", "audiodone", "textdone">>),
   Events(k, <<"empty", "created", "text", "textdone", "transcript", "audio", "audiodone">>),
   Events(k, <<"created", "audio", "audiodone", "transcript">>),
   Events(k, <<"created", "audio", "audiodone", "other">>)}

\* Every text of the user ends the recognition (parse_json_message); "other" is an
\* event without a type and without content.
DoubaoAnswers(k) ==
  {Events(k, <<"asr", "asrended", "started", "chat", "audio", "finished">>),
   Events(k, <<"asrended", "asrended", "started", "audio", "finished">>),
   Events(k, <<"asrended", "started", "other">>)}

Answers(k) == IF svc = "dashscope" THEN DashScopeAnswers(k) ELSE DoubaoAnswers(k)

\* A cancel cuts off what the service has not sent, which it confirms with
\* response.done.
Cut(n) ==
  events' = IF n = Len(events) THEN events ELSE SubSeq(events, 1, n) \o Events(turn, <<"other">>)

Serve ==
  /\ alive /\ sent # <<>> /\ sent' = Tail(sent)
  /\ CASE Head(sent) \in {"create", "silence"} ->
            /\ turn' = turn + 1 /\ UNCHANGED alive
            /\ \E a \in Answers(turn + 1) : events' = events \o a
       [] Head(sent) = "cancel" -> (\E n \in 0..Len(events) : Cut(n)) /\ UNCHANGED <<turn, alive>>
       [] Head(sent) = "close" -> alive' = FALSE /\ UNCHANGED <<turn, events>>
       [] OTHER -> UNCHANGED <<turn, alive, events>>
  /\ UNCHANGED <<svc, inp, state, lock, ev, outs>>

Fail ==
  /\ alive /\ alive' = FALSE
  /\ events' = events \o Events(turn, <<"error">>)
  /\ UNCHANGED <<svc, inp, state, lock, sent, turn, ev, outs>>

------------------------------------------------------------------------------
\* The event loop.

Out(who, kind, e, id) == [kind |-> kind, who |-> who, turn |-> e.turn, id |-> id]

\* handle_event of each transformer: what an event does to the ids, and the
\* chunks it sends.
HandleDashScopeEvent(e) ==
  CASE e.type = "transcript" ->
         /\ EnsureResponseStreamIdForTurn
         /\ esend' = <<Out("user", "data", e, respId'), Out("user", "eos", e, respId')>>
    [] e.type = "empty" -> EnsureResponseStreamIdForTurn /\ esend' = <<>>
    [] e.type = "created" ->
         EnsureResponseStreamIdForTurn /\ esend' = <<Out("model", "bos", e, respId')>>
    [] e.type \in {"text", "audio"} ->
         UNCHANGED state /\ esend' = <<Out("model", "data", e, respId)>>
    [] e.type \in {"textdone", "audiodone"} ->
         ResetTurnAssignment /\ esend' = <<Out("model", "eos", e, respId)>>
    [] e.type \in {"error", "other"} -> UNCHANGED state /\ esend' = <<[kind |-> "err"]>>

HandleDoubaoEvent(e) ==
  CASE e.type = "asr" -> UNCHANGED state /\ esend' = <<Out("user", "data", e, respId)>>
    [] e.type = "asrended" -> PopForResponse /\ esend' = <<>>
    [] e.type = "started" ->
         /\ UNCHANGED state
         /\ esend' = <<Out("model", "bos", e, respId), Out("model", "data", e, respId)>>
    [] e.type \in {"chat", "audio"} ->
         UNCHANGED state /\ esend' = <<Out("model", "data", e, respId)>>
    [] e.type = "finished" -> UNCHANGED state /\ esend' = <<Out("model", "eos", e, respId)>>
    [] e.type \in {"error", "other"} -> UNCHANGED state /\ esend' = <<[kind |-> "err"]>>

HandleEvent(e) ==
  IF svc = "dashscope" THEN HandleDashScopeEvent(e) ELSE HandleDoubaoEvent(e)

\* DashScope's recv takes the session's mutex and keeps it while it waits.
RecvLock ==
  /\ svc = "dashscope" /\ epc = "recv" /\ lock = "none"
  /\ lock' = "events"
  /\ UNCHANGED <<svc, inp, state, sess, events, ev, outs>>

MayRecv == epc = "recv" /\ (svc = "dashscope" => lock = "events")

RecvEvent ==
  /\ MayRecv /\ events # <<>>
  /\ events' = Tail(events) /\ lock' = "none"
  /\ HandleEvent(Head(events))
  /\ epc' = IF esend' = <<>> THEN "recv" ELSE "send"
  /\ stray' = (stray \/ Head(events).late)
  /\ UNCHANGED <<svc, inp, sess, outs>>

\* The end of the events: DashScope's channel closes with the connection.  The
\* Doubao session holds a sender of its own, so its recv goes on waiting.
RecvNone ==
  /\ MayRecv /\ svc = "dashscope" /\ ~alive /\ events = <<>>
  /\ epc' = "done" /\ lock' = "none"
  /\ UNCHANGED <<svc, inp, state, sess, events, esend, stray, outs>>

\* Not the code: an error event is sent on, and the loop goes on.
SendChunkIgnoring ==
  /\ epc = "send"
  /\ \/ /\ rxOpen /\ Len(chan) < Cap
        /\ chan' = IF Head(esend).kind = "err" THEN chan ELSE Append(chan, Head(esend))
        /\ esend' = Tail(esend)
        /\ epc' = IF Tail(esend) # <<>> THEN "send" ELSE "recv"
     \/ ~rxOpen /\ epc' = "done" /\ esend' = <<>> /\ UNCHANGED chan
  /\ UNCHANGED <<svc, inp, state, lock, sess, events, given, rxOpen, stray>>

SendChunk ==
  /\ epc = "send"
  /\ \/ /\ rxOpen /\ Len(chan) < Cap
        /\ chan' = Append(chan, Head(esend)) /\ esend' = Tail(esend)
        /\ epc' = IF Tail(esend) # <<>> THEN "send"
                  ELSE IF Head(esend).kind = "err" THEN "done" ELSE "recv"
     \/ ~rxOpen /\ epc' = "done" /\ esend' = <<>> /\ UNCHANGED chan
  /\ UNCHANGED <<svc, inp, state, lock, sess, events, given, rxOpen, stray>>

\* The reader of the output.
Take ==
  /\ rxOpen /\ chan # <<>>
  /\ given' = Append(given, Head(chan)) /\ chan' = Tail(chan)
  /\ UNCHANGED <<svc, inp, state, lock, sess, events, ev, rxOpen>>

CloseOutput ==
  /\ rxOpen /\ rxOpen' = FALSE
  /\ UNCHANGED <<svc, inp, state, lock, sess, events, ev, chan, given>>

Next ==
  \/ ForwardInput \/ InputEnds \/ SessionCall \/ SendInputError \/ Join
  \/ Serve \/ Fail
  \/ RecvLock \/ RecvEvent \/ RecvNone \/ SendChunk
  \/ Take \/ CloseOutput

Spec == Init /\ [][Next]_vars

\* The tasks run, the mutex is handed over in order, the service serves what it
\* gets and the output is read.  Nothing makes the service fail.
Fairness ==
  /\ WF_vars(ForwardInput) /\ WF_vars(InputEnds) /\ SF_vars(SessionCall)
  /\ WF_vars(SendInputError) /\ WF_vars(Join) /\ WF_vars(Serve)
  /\ WF_vars(RecvLock) /\ WF_vars(RecvEvent) /\ WF_vars(RecvNone)
  /\ WF_vars(SendChunk) /\ WF_vars(Take)

FairSpec == Spec /\ Fairness

------------------------------------------------------------------------------
\* What the model said, and is about to say, in order.
Said == SelectSeq(given \o chan \o esend, LAMBDA c : c.kind # "err" /\ c.who = "model")

\* Two tasks push and pop the queue, and a turn has several events that may be its
\* first.  Whatever the user says while an answer is under way, and whatever cancels
\* cut off, the chunks of the model's k-th answer carry the id of the user's k-th
\* stream for as long as no event is late; and however late they are, no id is gone
\* back to: an answer never carries that of an earlier stream than the one before.
TurnIds ==
  /\ stray \/ \A i \in 1..Len(Said) : Said[i].id = Said[i].turn
  /\ \A i, j \in 1..Len(Said) : i < j /\ Said[j].id # 0 => Said[i].id <= Said[j].id

\* A failure of the service reaches the reader of the output.
Failed == ~alive /\ \E i \in 1..Len(events) : events[i].type = "error"
Told == ~rxOpen \/ \E i \in 1..Len(given) : given[i].kind = "err"
FailureHeard == Failed ~> Told

\* "Background tasks exit when `input.next()` returns `None` or `Err`"
\* (transformers/mod.rs): once the input has ended, so do the tasks.
BackgroundTasksExit == (inEnd # "open") ~> (ipc = "done")
=============================================================================
