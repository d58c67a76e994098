--------------------------- MODULE NativeHandles ---------------------------
(***************************************************************************)
(* The Rust wrappers of native libraries: ncnn and onnx (Net, Extractor,   *)
(* Mat; Env, Session, Tensor), the voiceprint model that threads share     *)
(* under a read-write lock (voiceprint/src/model_ncnn.rs), the PortAudio   *)
(* stream, the Opus encoder and decoder, and the Luau states of different  *)
(* threads, which share one registry of Rust functions (luau/src/lib.rs).  *)
(*                                                                         *)
(* A native object is named by the place of its handle.  `live` holds the  *)
(* objects the library has created and not destroyed, `held` those a Rust  *)
(* value will destroy when it is dropped; every library call may fail      *)
(* (external).  Tensors' contents are left out; of the audio, the number   *)
(* of feature frames is kept.                                              *)
(***************************************************************************)
EXTENDS Integers, Sequences, FiniteSets, FiniteSetsExt, SequencesExt

CONSTANTS
    Threads,        \* threads that share one NCNNModel
    FrameCounts,    \* feature frames of the audio given to extract
    SegFrames,      \* SEG_FRAMES (300)
    HopFrames,      \* HOP_FRAMES (150)
    Capacity,       \* frames_per_buffer of the audio device
    Configs,        \* its channels: [in, out], 0 for none
    Channels,       \* channels of the codecs
    SampleCounts,   \* lengths of the slices given to write, encode
    Scripts,        \* Luau states, each used by a thread of its own
    MaxDepth,       \* scripts and functions that call each other
    MaxFaults,      \* library calls that may fail
    MaxCalls        \* calls of extract, run, open_stream, the codec and the states made

VARIABLES
    live,       \* native objects that exist
    held,       \* native objects some Rust handle owns
    nul,        \* a parameter text with a NUL byte was given to a constructor
    closed,     \* NCNNModelInner.closed
    thread,     \* per thread: [at, todo, covered, failed, frames, result]
    pa,         \* INIT_RESULT: "none", "ok", "failed"
    stream,     \* the Stream value: [at, running, in, out], at "none", "open", "closed"
    touched,    \* the most samples copied through the device buffer or the codec's input
    allowed,    \* the samples there was room for in that call
    faults, calls,
    funcs,      \* GLOBAL_FUNCS: function id -> the state it was registered in
    next_id,    \* GLOBAL_FUNC_NEXT_ID
    script      \* per state: [func_ids, reach, stack, slot, stale]

scriptVars == <<funcs, next_id, script>>
vars == <<live, held, nul, closed, thread, pa, stream, touched, allowed, faults, calls, scriptVars>>
modelVars == <<nul, closed, thread>>
deviceVars == <<pa, stream, touched, allowed>>

Net == <<"caller", "net">>
LostNet == <<"nobody", "net">>
Env == <<"caller", "env">>
Session == <<"caller", "session">>
Input == <<"caller", "tensor">>
Result == <<"caller", "result">>
Codecs == {<<"caller", "encoder">>, <<"caller", "decoder">>}
Encoder == <<"caller", "encoder">>
Decoder == <<"caller", "decoder">>
Mat(t) == <<t, "mat">>
Extractor(t) == <<t, "extractor">>
Output(t) == <<t, "output">>
OfThread(t) == {Mat(t), Extractor(t), Output(t)}

Idle == [at |-> "idle", todo |-> << >>, covered |-> {}, failed |-> 0, frames |-> 0, result |-> "none"]

NoStream == [at |-> "none", running |-> FALSE, in |-> 0, out |-> 0]

\* A state's Rust side: func_ids, the functions its scripts can still name, what runs in
\* it, the innermost last (a script <<0>>, a coroutine <<-1>>, a function <<its id>>), the
\* wrapper its registry names ("gone": one that was freed), and whether a call read that.
NoScript == [func_ids |-> {}, reach |-> {}, stack |-> << >>, slot |-> "state", stale |-> FALSE]

Init ==
    /\ live = {} /\ held = {} /\ nul = FALSE /\ closed = FALSE
    /\ thread = [t \in Threads |-> Idle]
    /\ pa = "none" /\ stream = NoStream /\ touched = 0 /\ allowed = 0
    /\ faults = 0 /\ calls = 0
    /\ funcs = [id \in {} |-> "none"] /\ next_id = 1
    /\ script = [s \in Scripts |-> NoScript]

Fails == faults < MaxFaults /\ faults' = faults + 1
Succeeds == UNCHANGED faults
Counted == calls < MaxCalls /\ calls' = calls + 1

\* A constructor that succeeds: the object and its handle.
Create(objs) == live' = live \cup objs /\ held' = held \cup objs

\* Handles go out of scope: Drop destroys what they own.
Drop(objs) == live' = live \ (objs \cap held) /\ held' = held \ objs

Untouched == UNCHANGED <<live, held>>

----------------------------------------------------------------------------
(* ncnn *)

\* NcnnOption::new and its drop when the constructor that uses it returns.
WithOption(A) == \/ Fails /\ Untouched /\ UNCHANGED nul
                 \/ A

\* Not the code: a failed load returns without ncnn_net_destroy.
NetLoadFailsLeaks == live' = live \cup {LostNet} /\ held' = held

\* load_param or load_model fails: the net just created is destroyed.
NetLoadFails == live' = live \ {Net} /\ held' = held

\* Net::from_memory.  Empty data is refused; CString::new runs after the net
\* was created and its error is returned without destroying it.
NetFromMemory ==
    \/ Untouched /\ UNCHANGED <<faults, nul>>                   \* EmptyData
    \/ Fails /\ Untouched /\ UNCHANGED nul                      \* net_create failed
    \/ Succeeds /\ nul' = TRUE /\ live' = live \cup {LostNet} /\ held' = held
    \/ Fails /\ NetLoadFails /\ UNCHANGED nul
    \/ Succeeds /\ Create({Net}) /\ UNCHANGED nul

\* Net::from_file: the same with two path strings in place of the data.
NetFromFile ==
    \/ Fails /\ Untouched /\ UNCHANGED nul
    \/ Succeeds /\ nul' = TRUE /\ live' = live \cup {LostNet} /\ held' = held
    \/ Fails /\ NetLoadFails /\ UNCHANGED nul
    \/ Succeeds /\ Create({Net}) /\ UNCHANGED nul

\* ncnn::load_model: an id that is not registered is refused, the registered
\* data is loaded with FP16 off.
LoadModel == \/ Untouched /\ UNCHANGED <<faults, nul>>
             \/ WithOption(NetFromMemory)

\* NCNNModel::from_memory, or from_net with a net loaded by path or by id.
\* Init has no model; it is built once.
OpenModel ==
    /\ Net \notin live /\ ~closed /\ Counted
    /\ \/ WithOption(NetFromMemory) \/ NetFromFile \/ LoadModel
    /\ UNCHANGED <<closed, thread>> /\ UNCHANGED deviceVars

----------------------------------------------------------------------------
(* NCNNModel: extract under the read lock, close under the write lock *)

Readers == {t \in Threads : thread[t].at # "idle"}

\* The starts of the windows of SEG_FRAMES frames, HOP_FRAMES apart.
Starts(n) == {s \in 0 .. n : s % HopFrames = 0 /\ s + SegFrames <= n}
Window(s) == s + 1 .. s + SegFrames

\* Not the code: no window for the frames behind the last whole hop.
SegmentsNoTail(n) ==
    IF n <= SegFrames THEN << 1 .. n >>
    ELSE LET in_order == SetToSortSeq(Starts(n), <)
         IN  [i \in DOMAIN in_order |-> Window(in_order[i])]

\* The segments of extract: the whole audio when it is short; else the
\* windows and one more that covers the end when the last stops before it.
Segments(n) ==
    IF n <= SegFrames THEN << 1 .. n >>
    ELSE LET in_order == SetToSortSeq(Starts(n), <)
             tail     == n - SegFrames
         IN  [i \in DOMAIN in_order |-> Window(in_order[i])]
                \o (IF tail > Max(Starts(n)) THEN <<Window(tail)>> ELSE << >>)

\* extract takes the read lock; a closed model, and audio too short for one
\* frame, give it back at once.
BeginExtract(t) ==
    /\ thread[t].at = "idle" /\ Counted
    /\ \/ /\ closed
          /\ thread' = [thread EXCEPT ![t] = [Idle EXCEPT !.result = "closed"]]
       \/ /\ ~closed /\ Net \in held
          /\ \E n \in FrameCounts :
                thread' = [thread EXCEPT ![t] =
                    IF n = 0 THEN [Idle EXCEPT !.result = "too short"]
                    ELSE [Idle EXCEPT !.at = "mat", !.todo = Segments(n), !.frames = n]]
    /\ Untouched /\ UNCHANGED <<nul, closed, faults>> /\ UNCHANGED deviceVars

\* The end of a segment: everything extract_segment holds is dropped.  A
\* failed segment is skipped when the audio is long and fails the call when
\* it is the only one; the last segment ends the call.
EndSegment(t, ok) ==
    LET th      == thread[t]
        covered == IF ok THEN th.covered \cup Head(th.todo) ELSE th.covered
        failed  == IF ok THEN th.failed ELSE th.failed + 1
        rest    == Tail(th.todo)
        result  == IF covered = {} THEN "failed" ELSE "embedding"
    IN  /\ thread' = [thread EXCEPT ![t] =
              [at |-> IF rest = << >> THEN "idle" ELSE "mat", todo |-> rest,
               covered |-> covered, failed |-> failed, frames |-> th.frames,
               result |-> IF rest = << >> THEN result ELSE "none"]]
        /\ Drop(OfThread(t))

\* Mat::new_2d with the features of the segment (new_3d is alike).
NewMat(t) ==
    /\ thread[t].at = "mat"
    /\ \/ Fails /\ EndSegment(t, FALSE)
       \/ /\ Succeeds /\ Create({Mat(t)})
          /\ thread' = [thread EXCEPT ![t].at = "extractor"]
    /\ UNCHANGED <<nul, closed, calls>> /\ UNCHANGED deviceVars

\* Net::extractor.
NewExtractor(t) ==
    /\ thread[t].at = "extractor"
    /\ \/ Fails /\ EndSegment(t, FALSE)
       \/ /\ Succeeds /\ Create({Extractor(t)})
          /\ thread' = [thread EXCEPT ![t].at = "input"]
    /\ UNCHANGED <<nul, closed, calls>> /\ UNCHANGED deviceVars

\* Extractor::set_input.
SetInput(t) ==
    /\ thread[t].at = "input"
    /\ \/ Fails /\ EndSegment(t, FALSE)
       \/ /\ Succeeds /\ Untouched
          /\ thread' = [thread EXCEPT ![t].at = "run"]
    /\ UNCHANGED <<nul, closed, calls>> /\ UNCHANGED deviceVars

\* Extractor::extract: the output Mat.
Extract(t) ==
    /\ thread[t].at = "run"
    /\ \/ Fails /\ EndSegment(t, FALSE)
       \/ /\ Succeeds /\ Create({Output(t)})
          /\ thread' = [thread EXCEPT ![t].at = "data"]
    /\ UNCHANGED <<nul, closed, calls>> /\ UNCHANGED deviceVars

\* Mat::float_data copies the output; a null pointer is an error.
FloatData(t) ==
    /\ thread[t].at = "data"
    /\ \/ Fails /\ EndSegment(t, FALSE)
       \/ Succeeds /\ EndSegment(t, TRUE)
    /\ UNCHANGED <<nul, closed, calls>> /\ UNCHANGED deviceVars

\* Not the code: close with a read lock, which extract holds as well.
CloseModelShared ==
    /\ Net \in held /\ ~closed
    /\ closed' = TRUE /\ Drop({Net})
    /\ UNCHANGED <<nul, thread, faults, calls>> /\ UNCHANGED deviceVars

\* NCNNModel::close waits for the write lock, then drops the net; again, it
\* does nothing.  So does the end of the model, which no extract outlives.
CloseModel ==
    /\ Readers = {}
    /\ Net \in held /\ ~closed
    /\ closed' = TRUE /\ Drop({Net})
    /\ UNCHANGED <<nul, thread, faults, calls>> /\ UNCHANGED deviceVars

----------------------------------------------------------------------------
(* onnx *)

\* check_status: the status object of a failure is released with its message.
OrtFails == Fails

OnnxRest == UNCHANGED modelVars /\ UNCHANGED deviceVars

\* Env::new; check_status releases the status object of a failure.
NewEnv ==
    /\ Env \notin live /\ Counted
    /\ \/ OrtFails /\ Untouched
       \/ Succeeds /\ Create({Env})
    /\ OnnxRest

\* Env::new_session (and onnx::load_model): the options are released before
\* the status is looked at.
NewSession ==
    /\ Env \in held /\ Session \notin live /\ Counted
    /\ \/ Untouched /\ Succeeds         \* no data, or an unknown id
       \/ OrtFails /\ Untouched            \* neither options nor session, or options released
       \/ Succeeds /\ Create({Session})
    /\ OnnxRest

\* Tensor::new: data shorter than the shape is refused; the memory info is
\* released before the status is looked at.
NewTensor ==
    /\ Input \notin held /\ Counted
    /\ \/ Succeeds /\ Untouched         \* no data, or too short
       \/ OrtFails /\ Untouched
       \/ Succeeds /\ Create({Input})
    /\ OnnxRest

\* Session::run: the output values become Tensors.
RunSession ==
    /\ Session \in held /\ Input \in held /\ Result \notin held
    /\ \/ Succeeds /\ Untouched         \* names and tensors differ in number
       \/ OrtFails /\ Untouched
       \/ Succeeds /\ Create({Result})
    /\ UNCHANGED calls /\ OnnxRest

\* Tensor::float_data (with shape) copies a tensor out.
TensorData ==
    /\ Input \in held \/ Result \in held
    /\ OrtFails /\ Untouched
    /\ UNCHANGED calls /\ OnnxRest

\* Drop for Tensor, Session and Env, in any order: no type keeps one in the other.
DropTensor == /\ \E t \in {Input, Result} \cap held : Drop({t})
              /\ UNCHANGED <<faults, calls>> /\ OnnxRest
DropSession == Session \in held /\ Drop({Session}) /\ UNCHANGED <<faults, calls>> /\ OnnxRest
DropEnv == Env \in held /\ Drop({Env}) /\ UNCHANGED <<faults, calls>> /\ OnnxRest

----------------------------------------------------------------------------
(* PortAudio stream and Opus codecs: one owner, one call at a time *)

DeviceRest == UNCHANGED modelVars

Device == {<<"caller", "pa_stream">>, <<"caller", "buffer">>}

\* Not the code: room for the output alone.
BufferOut(c) == Capacity * c.out
\* The buffer is made for the direction with more channels.
Buffer(c) == Capacity * Max({c.in, c.out})

\* initialize (once per process; a failure is remembered), then open_stream: a
\* stream whose buffer cannot be allocated is closed again.
OpenStream ==
    /\ stream.at # "open" /\ Counted
    /\ \/ pa = "failed" /\ UNCHANGED <<pa, stream, faults>> /\ Untouched
       \/ pa = "none" /\ Fails /\ pa' = "failed" /\ UNCHANGED stream /\ Untouched
       \/ /\ pa # "failed" /\ pa' = "ok"
          /\ \/ Fails /\ Untouched /\ UNCHANGED stream
             \/ /\ Succeeds /\ Create(Device)
                /\ \E c \in Configs : stream' = [at |-> "open", running |-> FALSE, in |-> c.in, out |-> c.out]
    /\ UNCHANGED <<touched, allowed>> /\ DeviceRest

\* Stream::start and stop: only an open stream is passed to the library.
StartStop ==
    /\ stream.at = "open"
    /\ \/ Fails /\ UNCHANGED stream
       \/ Succeeds /\ \E on \in BOOLEAN : stream' = [stream EXCEPT !.running = on]
    /\ Untouched /\ UNCHANGED <<pa, touched, allowed, calls>> /\ DeviceRest

\* Stream::read fills and copies the whole buffer; the library refuses when the stream
\* is stopped.
ReadStream ==
    /\ stream.at # "none" /\ Counted
    /\ IF stream.at = "open" /\ stream.in # 0
       THEN \/ Fails /\ UNCHANGED <<touched, allowed>>
            \/ /\ Succeeds /\ stream.running
               /\ touched' = Capacity * stream.in /\ allowed' = Buffer(stream)
       ELSE UNCHANGED <<faults, touched, allowed>>
    /\ Untouched /\ UNCHANGED <<pa, stream>> /\ DeviceRest

\* Not the code: only the alignment is checked before the copy.
WriteFitsAligned(n) == n % stream.out = 0

\* Stream::write refuses more samples than the buffer holds, and part of a frame.
WriteFits(n) == n <= Capacity * stream.out /\ n % stream.out = 0

\* The samples are copied before the library may refuse them.
WriteStream ==
    /\ stream.at # "none" /\ Counted
    /\ \E n \in SampleCounts :
         IF stream.at = "open" /\ stream.out # 0 /\ WriteFits(n)
         THEN /\ touched' = n /\ allowed' = Buffer(stream)
              /\ Fails \/ (Succeeds /\ stream.running)
         ELSE UNCHANGED <<touched, allowed, faults>>
    /\ Untouched /\ UNCHANGED <<pa, stream>> /\ DeviceRest

\* Stream::close, also from drop: once; the buffer is freed even when
\* Pa_CloseStream reports an error.
CloseStream ==
    /\ stream.at = "open"
    /\ Fails \/ Succeeds
    /\ stream' = [stream EXCEPT !.at = "closed", !.running = FALSE] /\ Drop(Device)
    /\ UNCHANGED <<pa, touched, allowed, calls>> /\ DeviceRest

\* Encoder::new and Decoder::new, and their drop.
NewCodec ==
    /\ Counted
    /\ \E c \in Codecs \ live : (Fails /\ Untouched) \/ (Succeeds /\ Create({c}))
    /\ UNCHANGED deviceVars /\ DeviceRest

DropCodec ==
    /\ \E c \in Codecs \cap held : Drop({c})
    /\ UNCHANGED <<faults, calls>> /\ UNCHANGED deviceVars /\ DeviceRest

\* Encoder::encode and encode_to of a slice of n samples and a frame of f samples a
\* channel.
Encode ==
    /\ Encoder \in held /\ Counted
    /\ \E n \in SampleCounts, f \in 0 .. Capacity :
         IF n < f * Channels THEN UNCHANGED <<touched, allowed, faults>>
         ELSE touched' = f * Channels /\ allowed' = n /\ (Fails \/ Succeeds)
    /\ Untouched /\ UNCHANGED <<pa, stream>> /\ DeviceRest

\* Decoder::decode into a buffer of Capacity frames made for the call (5760 in
\* the code); decode_plc likewise with the count it is given.
Decode ==
    /\ Decoder \in held /\ Counted
    /\ \E f \in 0 .. Capacity :
         touched' = f * Channels /\ allowed' = Capacity * Channels
    /\ Fails \/ Succeeds
    /\ Untouched /\ UNCHANGED <<pa, stream>> /\ DeviceRest

\* Decoder::decode_to into the caller's slice: the frames it may hold are its
\* length over the channels, rounded down.
DecodeTo ==
    /\ Decoder \in held /\ Counted
    /\ \E n \in SampleCounts : \E f \in 0 .. n \div Channels :
         touched' = f * Channels /\ allowed' = n
    /\ Fails \/ Succeeds
    /\ Untouched /\ UNCHANGED <<pa, stream>> /\ DeviceRest

----------------------------------------------------------------------------
(* Luau states: one thread each, one registry of functions for all *)

Lua(s) == <<s, "state">>
Coroutine(s) == <<s, "coroutine">>
ChunkName(s, d) == <<s, "chunkname", d>>

Idling(s) == script[s].stack = << >>
\* A script or a coroutine runs; else Rust code does, between calls or in a function that
\* a script called.
InScript(s) == ~Idling(s) /\ Last(script[s].stack)[1] <= 0
InRust(s) == ~InScript(s)
Enter(s, frame) == /\ Len(script[s].stack) < MaxDepth
                   /\ script' = [script EXCEPT ![s].stack = Append(@, frame)]
Leave(s) == script' = [script EXCEPT ![s].stack = Front(@)]

ScriptRest == UNCHANGED modelVars /\ UNCHANGED deviceVars

\* State::new.
NewState(s) ==
    /\ Lua(s) \notin live /\ Counted
    /\ \/ Fails /\ Untouched
       \/ Succeeds /\ Create({Lua(s)})
    /\ UNCHANGED scriptVars /\ ScriptRest

\* register_func: it borrows the state alone, so nothing runs in it and it has no
\* coroutine.  The function is in the registry and in func_ids before its name is
\* looked at; a name with a NUL byte is an error then.  A name in use is taken over.
RegisterFunc(s) ==
    /\ Lua(s) \in held /\ Coroutine(s) \notin held /\ Idling(s) /\ Counted
    /\ funcs' = [id \in DOMAIN funcs \cup {next_id} |-> IF id = next_id THEN s ELSE funcs[id]]
    /\ next_id' = next_id + 1
    /\ \E named \in BOOLEAN, over \in SUBSET script[s].reach :
          /\ Cardinality(over) <= 1
          /\ script' = [script EXCEPT ![s].func_ids = @ \cup {next_id},
                                      ![s].reach = IF named THEN (@ \ over) \cup {next_id} ELSE @]
    /\ Untouched /\ UNCHANGED faults /\ ScriptRest

\* unregister_func: the name becomes nil, the registry keeps the function.
UnregisterFunc(s) ==
    /\ Lua(s) \in held /\ InRust(s)
    /\ \E id \in script[s].reach : script' = [script EXCEPT ![s].reach = @ \ {id}]
    /\ Untouched /\ UNCHANGED <<faults, calls, funcs, next_id>> /\ ScriptRest

\* compile and load_bytecode: the compiler's buffer is copied and freed before the
\* call returns, and exists only when it succeeds.
Compile(s) ==
    /\ Lua(s) \in held /\ InRust(s)
    /\ Fails
    /\ Untouched /\ UNCHANGED calls /\ UNCHANGED scriptVars /\ ScriptRest

\* do_string_opt (do_string and pcall, which have no chunk name) enters the script, also
\* from a function; the chunk name is a string the call has taken out of Rust's hands.
DoString(s) ==
    /\ Lua(s) \in held /\ InRust(s)
    /\ Untouched \/ Create({ChunkName(s, Len(script[s].stack) + 1)})
    /\ Enter(s, <<0>>)
    /\ UNCHANGED <<faults, calls, funcs, next_id>> /\ ScriptRest

\* The script returns or fails: the chunk name is freed, then check_error looks at
\* the result.
StringEnds(s) ==
    /\ InScript(s) /\ Last(script[s].stack) = <<0>>
    /\ Fails \/ Succeeds
    /\ Drop({ChunkName(s, Len(script[s].stack))})
    /\ Leave(s)
    /\ UNCHANGED <<calls, funcs, next_id>> /\ ScriptRest

\* external_func_wrapper takes the wrapper the registry names and calls
\* rust_external_callback with it: the function is looked up under the read lock and
\* called after it is released, when the wrapper is that of its state.  Else the script
\* gets no results; a wrapper that was freed is read all the same (and when the process
\* crashes on that, nothing follows).
Callback(s) ==
    /\ InScript(s)
    /\ \E id \in script[s].reach :
          \/ /\ id \in DOMAIN funcs /\ funcs[id] = s /\ script[s].slot = "state"
             /\ Enter(s, <<id>>)
          \/ script[s].slot = "gone" /\ script' = [script EXCEPT ![s].stale = TRUE]
    /\ Untouched /\ UNCHANGED <<faults, calls, funcs, next_id>> /\ ScriptRest

\* The function returns or panics; the temporary State is forgotten.
CallbackReturns(s) ==
    /\ InRust(s) /\ ~Idling(s) /\ Leave(s)
    /\ Untouched /\ UNCHANGED <<faults, calls, funcs, next_id>> /\ ScriptRest

\* new_thread: the registry of the state names the coroutine's wrapper from now on.
\* (The functions here make none.)
NewCoroutine(s) ==
    /\ Lua(s) \in held /\ Coroutine(s) \notin live /\ Idling(s) /\ Counted
    /\ \/ Fails /\ Untouched /\ UNCHANGED script
       \/ Succeeds /\ Create({Coroutine(s)}) /\ script' = [script EXCEPT ![s].slot = "coroutine"]
    /\ UNCHANGED <<funcs, next_id>> /\ ScriptRest

\* Thread::resume after load_bytecode, until it yields, returns or fails.
Resume(s) ==
    /\ Coroutine(s) \in held /\ Idling(s)
    /\ \/ Fails /\ UNCHANGED script
       \/ Succeeds /\ Enter(s, <<-1>>)
    /\ Untouched /\ UNCHANGED <<calls, funcs, next_id>> /\ ScriptRest

ResumeReturns(s) ==
    /\ InScript(s) /\ Last(script[s].stack) = <<-1>> /\ Leave(s)
    /\ Untouched /\ UNCHANGED <<faults, calls, funcs, next_id>> /\ ScriptRest

\* Drop for Thread frees its wrapper; the registry of the state still names it.
DropCoroutine(s) ==
    /\ Coroutine(s) \in held /\ Idling(s)
    /\ Drop({Coroutine(s)}) /\ script' = [script EXCEPT ![s].slot = "gone"]
    /\ UNCHANGED <<faults, calls, funcs, next_id>> /\ ScriptRest

\* Not the code: drop empties the registry the states share.
DropStateAll(s) ==
    /\ Lua(s) \in held /\ Coroutine(s) \notin held /\ Idling(s)
    /\ funcs' = [id \in {} |-> "none"]
    /\ script' = [script EXCEPT ![s] = NoScript]
    /\ Drop({Lua(s)})
    /\ UNCHANGED <<faults, calls, next_id>> /\ ScriptRest

\* Drop for State: its own functions leave the registry, then it is closed.
DropState(s) ==
    /\ Lua(s) \in held /\ Coroutine(s) \notin held /\ Idling(s)
    /\ funcs' = [id \in DOMAIN funcs \ script[s].func_ids |-> funcs[id]]
    /\ script' = [script EXCEPT ![s] = NoScript]
    /\ Drop({Lua(s)})
    /\ UNCHANGED <<faults, calls, next_id>> /\ ScriptRest

----------------------------------------------------------------------------

ThreadStep(t) == \/ BeginExtract(t) \/ NewMat(t) \/ NewExtractor(t)
                 \/ SetInput(t) \/ Extract(t) \/ FloatData(t)

ScriptStep(s) == \/ NewState(s) \/ RegisterFunc(s) \/ UnregisterFunc(s) \/ Compile(s)
                 \/ DoString(s) \/ StringEnds(s) \/ Callback(s) \/ CallbackReturns(s)
                 \/ NewCoroutine(s) \/ Resume(s) \/ ResumeReturns(s) \/ DropCoroutine(s)
                 \/ DropState(s)

OtherStep ==
    \/ OpenModel \/ CloseModel
    \/ \E t \in Threads : ThreadStep(t)
    \/ NewEnv \/ NewSession \/ NewTensor \/ RunSession \/ TensorData \/ DropTensor \/ DropSession \/ DropEnv
    \/ OpenStream \/ StartStop \/ ReadStream \/ WriteStream \/ CloseStream
    \/ NewCodec \/ DropCodec \/ Encode \/ Decode \/ DecodeTo

Next ==
    \/ OtherStep /\ UNCHANGED scriptVars
    \/ \E s \in Scripts : ScriptStep(s)

Spec == Init /\ [][Next]_vars

----------------------------------------------------------------------------
(* Properties *)

\* A thread in extract uses its net, and the mat, extractor and output it has made so
\* far, while they exist, although close may be called from another thread; an open
\* audio stream has its native stream and buffer, and no call reads or writes past the
\* buffer it was given, which the device shares between both directions
\* (model_ncnn.rs:113-129, portaudio/mod.rs:300-325).
UsedWhileAlive ==
    /\ \A t \in Threads : thread[t].at # "idle" => Net \in live
    /\ \A t \in Threads : /\ thread[t].at \in {"extractor", "input", "run", "data"} => Mat(t) \in live
                          /\ thread[t].at \in {"input", "run", "data"} => Extractor(t) \in live
                          /\ thread[t].at = "data" => Output(t) \in live
    /\ stream.at = "open" <=> Device \subseteq live
    /\ touched <= allowed

\* Not so: no call reads a wrapper that was freed.
WrapperAlive == \A s \in Scripts : ~script[s].stale

\* Not so: a session has its environment; nothing keeps the environment from being
\* dropped first.
SessionInEnv == Session \in live => Env \in live

\* No error path loses a native object: what exists is owned by a handle that
\* will destroy it, except the net of a constructor that met a NUL byte in its
\* text (ncnn.rs:84-144, model_ncnn.rs:221-258).
NoneOrphaned == held \subseteq live /\ (~nul => live = held)

\* An embedding that no segment failed for covers every frame of the audio,
\* its end included, and an error is returned only when no segment succeeded
\* (model_ncnn.rs:160-201).
WindowsCover ==
    \A t \in Threads :
        /\ thread[t].result = "embedding" =>
              /\ thread[t].covered # {}
              /\ thread[t].failed = 0 => thread[t].covered = 1 .. thread[t].frames
        /\ thread[t].result = "failed" => thread[t].covered = {} /\ thread[t].failed > 0

\* The registry all states share holds the functions of the states that exist and
\* no others, whatever other threads register and drop meanwhile: a function a
\* script can name is found there, is its own state's, and stays there while it
\* runs, with whatever scripts it runs itself, although the lock is released (lib.rs:488-534, 574-592, 893-950).
RegistryOwned ==
    /\ \A id \in DOMAIN funcs : Lua(funcs[id]) \in live /\ id \in script[funcs[id]].func_ids
    /\ \A s \in Scripts : \A id \in script[s].func_ids : id \in DOMAIN funcs /\ funcs[id] = s
    /\ \A s \in Scripts : script[s].reach \subseteq script[s].func_ids
    /\ \A s \in Scripts : \A i \in DOMAIN script[s].stack :
          script[s].stack[i][1] > 0 => script[s].stack[i][1] \in DOMAIN funcs
=============================================================================
