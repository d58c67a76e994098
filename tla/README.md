# TLA+ models of giztoy

giztoy is a framework for AI toys and devices. The Rust workspace (`src/rust`) is the
implementation these specifications follow; the Go, Luau and C packages mirror it or
bind to it.

## The system

* **buffer**: three thread-safe queues that can be closed or failed, `BlockBuffer`,
  `RingBuffer` and `Buffer`. The streams of genx stand on the first.
* **mqtt0**: an MQTT broker (one task per connection, a registry of client ids, two
  topic tries, one bounded channel per session), a client, and the packets of MQTT 3.1.1
  and 5 on a stream.
* **chatgear**: what a device and its server say to each other. Connections over MQTT
  or over an in-process pipe carry audio frames, states, stats and commands; ports keep
  the current state and hand the rest to the application; a listener with an embedded
  broker discovers devices.
* **audio**: a mixer of tracks, a resampler, MP3, Ogg and Opus, portaudio.
* **genx**: streams of message chunks, combinators of streams, realtime input with a
  jitter buffer, transformers (realtime models, speech to text and back, voiceprints),
  generators over OpenAI and Gemini, registries loaded from files, intent matching.
* **doubaospeech, minimax, dashscope, openai-realtime**: clients of the services, over
  HTTP with retries and polling and over WebSockets with background tasks.
* **memory, recall, graph, vecstore, vecid, voiceprint**: conversations that are
  compressed into segments, the indexes they are found with, identities of speakers.
* **luau, trie, onnx, ncnn**, and the **command line tools**.

They interact as follows. The application's threads meet in the buffers. A chatgear
listener owns a broker, whose handler and sessions are tasks; a device's connection is
an mqtt0 client. A transformer reads a genx stream, drives a provider session and fills
another genx stream, the audio of which goes to the mixer. The memory writes through
recall to the key-value store, the graph and the vector index. What is hard in all of
them is the same: tasks and threads that meet between an await or an unlock and the
next lock, bounded channels that fill up, ends that must be noticed on the other side,
bytes that arrive cut anywhere, and failures between two writes. `PROJECT.json` lists
the places under `hazards`, each with the property that is about it.

## Modules

The abstract specification is `ClosableQueue`: a queue that can be closed or failed,
whose `Policy` says what a full queue does. `BlockBuffer` ("block"), `RingBuffer`
("overwrite") and `Buffer` ("grow") are proved to implement it, and `GenxStream` is
written over what it promises. The proofs about these two have a module of their own;
those about `Buffer`, `RingBuffer`, `Broker`, `KeepAlive`, `MqttClient`, `Listener` and
`GearPort` stand at the end of the module they are about.

| Module | Models | State and actions |
|---|---|---|
| `BlockBuffer`, `RingBuffer`, `Buffer` | `buffer/src` | One action is one critical section; `call[t]` is the call thread t is inside, the wait sets are the condition variables. `SpuriousWakeup` lets a wait return for no reason. |
| `BlockBufferProofs` | | Theorems about `BlockBuffer` and `GenxStream`. |
| `MqttTrie` | `mqtt0/src/trie.rs` | Nodes are named by their paths; insert, remove and update are descents, `MatchTopic` the lookup with its backtracking. |
| `Broker` | `mqtt0/src/broker.rs` | A session is a connection, its task and its sender. What happens under one lock is one action: a takeover is `Connect`, a `Purge` per filter, `Announce` and the routing of the event. |
| `KeepAlive` | the timers of `client.rs` and `broker.rs` | Ticks of half a second; the client's task against the broker's timeout. |
| `MqttClient` | `mqtt0/src/client.rs` | Tasks that share one reader and one writer lock; requests, recv with timeouts, the keep-alive task. |
| `MqttWire` | `mqtt0/src/protocol.rs`, version detection | Numbered bytes, chunks, a pending read that is dropped at any await. |
| `GearPort` | `chatgear/src/server_port.rs`, `stats.rs` | The loops of `recv_from`, the handlers, the read-write lock `closed`, close. |
| `Listener` | `chatgear/src/listener.rs` | A task per message, the port map, a channel per kind of message, the sweep, the application that accepts and drops ports. |
| `GearPipe`, `GearMqtt` | `conn_pipe.rs`, `client_port.rs`; `conn_mqtt.rs`, `conn_mqtt_server.rs` | The way of a message from one end to the other and how it ends. |
| `Mixer` | `audio/src/pcm/mixer.rs`, `track.rs` | Writers, the reader and the controlling thread; rings with their condition variables. |
| `Resampler`, `Mp3Codec`, `OggOpus` | `audio/src/resampler`, `codec` | Windows, blocks and pages over numbered samples and frames; in `Resampler` the source, its short and failing reads, the partial frame, the queue of converted frames. |
| `NativeHandles` | ncnn, onnx, portaudio, opus wrappers, `luau/src/lib.rs` | Which native objects live, which are owned, who uses them; Luau states of several threads over one registry of Rust functions, their callbacks and coroutines. |
| `GenxStream`, `StreamUtils` | `genx/src/stream.rs`, `tee.rs`, `stream_utils.rs` | Builder, clones of the reading end; the tasks of the combinators. |
| `GenxInput` | `genx/src/input` | Jitter buffer, late frames, silence. |
| `GenxRealtime`, `GenxSpeech` | `genx/src/transformers` | Input task, event task, session lock, stream ids; stream by stream conversion. |
| `GenxLlm`, `MatchRules`, `GenxRegistry` | `context.rs`, `openai.rs`, `gemini.rs`, `match`, `modelloader` | Conversations, requests and readers of model streams, rules and their text form, registration from files. |
| `DoubaoStream`, `DoubaoRealtime`, `DoubaoProtocol` | `doubaospeech` sessions and frames | The handshake and requests of each service, receive loops, last markers, sessions that share a socket, callers that send while another task closes. |
| `ProviderHttp`, `LineStream`, `RealtimeWs` | doubaospeech, minimax, dashscope, openai-realtime | Requests with retries and polls; streamed bodies; the two loops of a WebSocket session. |
| `Memory`, `Graph`, `Hnsw`, `VecId`, `Voiceprint` | the crates of those names, and `recall` | Steps between two accesses to the store; in `Memory` with failures and restarts, compression and the compaction of bucket after bucket. |
| `PathTrie`, `LuauRuntime` | `trie`, `luau` and `cmd/luau` | Lookup with precedence; require, coroutines, the agent's channels, values, JSON with its casts, store, HTTP. |
| `CliTools`, `MatchBench` | `cmd`, and the builders of the clients | Processes that share a configuration file, from the credentials in a context over the client and its signed requests to the answer in a file; the benchmark and its live server. |
| `MCBlockBuffer`, `MCNetwork`, `MCSpeech`, `MCLibrary` | | Instances for TLC. |

Each module's heading comment says what it abstracts. The rules are the same
everywhere: control is kept, data is reduced to what the code tells apart. A sample, a
frame or a message is its number, so that a loss, a repetition or a swap shows; a byte
stream is a sequence that may be cut anywhere; a service, a device or a library is an
external process that may do what its interface allows. Every lock region is one action
and every await or unlock ends one. Names of variables and operations are those of the
source.

Operators introduced by a comment that starts with "Not the code" are wrong variants of
the definition that follows. Nothing uses them; they exist so that a run can be repeated
with the bug in place to see that the property notices.

Notes on single modules:

* Buffers. `notify_one` removes an arbitrary member of the wait set, `notify_all` empties
  it; `Resume` runs the loop body of a woken thread when it gets the mutex. `ret` is the
  result of the last call that returned; the refinement checks it against the abstract
  queue. Empty slices and getters change nothing and are left out. `CounterMod` stands
  for 2^64 in `RingBuffer`; `MaxLen` bounds `Buffer`.
* Broker. Filters and topics are opaque; the constants `Matching` and `SharedMatching`
  give the nodes a lookup tries, in order, which is what `GetIsFirstMatch` establishes of
  the trie for filters without the `$queue` prefix. A packet carries one filter. The end
  of a loop for whatever reason is `EndLoop`; why the timer ends it is in `KeepAlive`.
  `acked` and `latest` are history variables. The lists of handles and of tracked filters
  are filtered with `Retain`, defined by positions (`Selected`, `Rank`): the prover cannot
  expand `SelectSeq`. In a group of shared subscribers `insert` keeps one handle of a client
  id, so the handle of a replaced session, not yet purged or left behind
  (`broker_takeover_leak`), keeps that of the new session out although its SUBACK grants it.
  `ServedIffAcked` and `SlotsExact` say for which sessions they hold.
* Listener. A message no channel takes (`NoKind`) still creates and announces a port. A
  message that finds its channel full, or the receivers gone, is in `discarded`.
* Resampler. A source that gives short reads while the rate is converted has its blocks
  filled up with silence in mid-stream; the run has sources that fill a block when the rate
  changes. A read that fails loses the bytes of a partial frame, and the frames are said to
  be kept until then.
* Memory. Callers let `append` choose the time, and each conversation has one handle. The
  two scans of `compact_bucket` are one step. A segment carries the set of messages it was
  made from. `Earlier` are segments an earlier process left, so that a compaction has
  several sources without a long prelude. A compaction that is cut short begins anew at
  the same key, so a segment is the one that was stored while nothing is cut. If it was
  cut between two of its deletions, the next one starts from the sources that are left and
  writes over the result: what the deleted ones told of is `torn`, and excepted.
  `Remembered` is said of one conversation, since two that compact at once lose messages in
  the same way without any failure.
* NativeHandles. Callbacks make no coroutine. After `new_thread` the functions of the state
  itself are not called until the coroutine is gone, since the registry of the C++ wrapper
  names the coroutine under the same pointer. Once it is dropped a call reads the freed
  wrapper (`stale`); what that does is not modelled further, and `NativeSafe` says nothing
  of it. Nothing is said either of a `Session` that outlives its `Env`.
* Mixer. A track may be closed for writing and then closed again with a fade. The runs open
  no input on a track that is closed (`LateInput`).
* RealtimeWs. `recv` takes `&mut self`, so the caller receives or sends, never both. The
  read loop answers pings through the bounded queue the caller fills: `Locked` is the state
  in which the queues are full and loops and caller wait in a circle, and the progress
  property says that calls return or end there.
* ProviderHttp. Polls get any answer a request gets. `unsure` counts the server errors that
  were answered although the task was started, which the model, unlike the client, can see.
* `LuauRuntime`: `MaxInt` and `MaxIndex` stand for 2^63 - 1 and 2^31 - 1, and the casts
  saturate there. `Hnsw`, `VecId`: a vector is a number, which in `Hnsw` an update may
  change, and the distance a difference; random levels are any level.

## Runs

`MCBlockBuffer` instantiates one module. The other three are sums: a behaviour of
`MCNetwork` is a behaviour of one of its parts, chosen in the initial state by `part`.
The parts that theorems are about are extended: `MCNetwork` extends `Broker`,
`MqttClient`, `KeepAlive`, `Listener` and `GearPort`, `MCSpeech` extends `BlockBuffer` and
`GenxStream`, `MCLibrary` extends `RingBuffer`. Their constants get values in the cfg, their own
invariants are checked as they stand, and their variables stay as they began while another
part runs. The other parts are instances whose variables live in the slots x1, x2, ...;
unused slots stay 0. One run therefore checks many instances, and the properties defined
in the sum speak of groups of parts, each conjunct guarded by `part = ...`. Parts do not
interact: composition in the sense of the code is inside the modules (client and server
ends, tasks and services).

| Run | Parts and size | Shows |
|---|---|---|
| `block_buffer` | 3 threads, 2 slots, slices of 1, 2 and 3 | Types, ring bookkeeping, no sleeper on a closed buffer, `BlockBuffer` implements `ClosableQueue`. |
| `network` | broker (subscriptions, takeover, publish), client, keep-alive, wire, port, listener, pipe, MQTT connections; 1.4 million states | see below |
| `network_progress` | buffers, broker, client, port, listener, pipe, under fairness; 180 thousand states | see below |
| `speech` | a `BlockBuffer` used by elements, genx, sessions and requests of the providers, mixer, benchmark, identities of speakers, command line tools; 2.9 million states | see below |
| `speech_progress` | streams, combinators, realtime, sessions, HTTP, benchmark, mixer, under fairness; 370 thousand states | see below |
| `library` | a `RingBuffer`, codecs, native handles, memory, graph, indexes, tries, Luau; 1.2 million states | see below |
| `block_buffer_batch` | slices of 2, fair | *violation*: a write of two elements wakes one reader, a second sleeps on. |
| `broker_takeover_leak` | 2 sessions of one client id | *violation*: a replaced session that subscribes after the takeover leaves a handle behind when every session has ended. |
| `trie_zero_levels` | patterns with `#` | *violation*: `a/#` is not found for the path `a`, which the documentation says it matches. |
| `hnsw_crowded` | 4 vectors, lists of 2 | *violation*: an updated vector may end up linked to itself only, and the search for another vector ends at it. |
| `memory_pair` | 2 conversations of one memory | *violation*: two compactions at once store under one key. |
| `resampler_channels` | stereo to mono with rate conversion | *violation*: half of the frames are lost. |

### network

* `RegistryCurrent`, `MessagesAllowed`: no late cleanup unregisters the current session;
  nothing forbidden is routed, through an alias either. `ServedIffAcked`: a session is
  served what it was granted whatever other sessions of its client id do. `SlotsExact`:
  the tracked filters are what the tries hold and the limit counts, the limit bounds the
  handles, and the cleanup leaves none. `GrantsServed` says all of it again of larger
  brokers: shared groups and a stranger, three sessions of one client id, a publisher.
* `SubscribeTellsTruth`: until a request has reported `UnexpectedPacket`, subscribe reports
  what the server answered for that filter. `NothingLost`: recv gives the messages in order
  and, under the same condition, all of them. `LiveClientKept`: a client with automatic
  pings is never taken for dead, whatever the rounding.
* `PacketsIntact`: packets survive any cut and any abandoned read; the version of a
  CONNECT that came whole is recognised; commands and audio of a pipe in order and the
  error last; messages over MQTT in order, unchanged, once, or dropped whole.
* `NewestKept`: the port keeps the newest state. `ChangesReplay`: the changes it tells of
  add up to its stats. `AnnouncedOnce`: no device is announced twice while its port lives.
  `Conserved`: each message of a device is in exactly one place of the listener.

### network_progress

`BufferSpec` (`Buffer` implements `ClosableQueue`), `SleepersWake` (no element or free slot
waits for ever next to a sleeper; closing returns every call), `BrokerProgress` (routing
ends although receivers do not read, requests return, ended sessions are forgotten for
good), `ShutdownEnds` (the keep-alive task, close of a port with its tasks, the task of a
pipe, a swept port).

### speech

`NoLostWakeup` (while calls on a `BlockBuffer` move one element, each element or free slot
has a woken thread on its way), `EndsAgree` (clones agree on how a stream ended, and
together receive every chunk accepted before the end, in order), `AudioInOrder` (frames are not emitted late
or twice; order and completeness of what a track plays),
`AnswersIntact` (what was said reaches the model once, in order and in its role;
interleaved tool calls, lines and streams of the answer come out whole, a final result that
repeats its utterances is the text of one whole stream; the k-th answer has the k-th
stream's id until an event comes late, and no id is gone back to; combinators give each
output its exact share; whole frames read back and cut ones are refused), `RulesAgree`
(the order of files does not matter; an answer in the format asked for is understood; the
benchmark of the rules counts every case once), `NoneTwice` (retries do
not start tasks twice, unless a server error was answered for a task that was started; a
closed session takes at most one message too many, and at most one leaves behind its
finish), `CommandsSound`
(a command that was told of an error leaves no file; a context that was accepted makes
a client, and every request carries the credentials of the context its command read),
`IdsStable` (identities keep their ids and never share one, whatever reclusters overlap;
the speaker is the one the last hashes call for), and the action property `LastIsLast` (nothing is received after the
last result).

### speech_progress

`StreamsEnd`, `CallsReturn` and `MixerEnds`: streams end for every clone, tasks of
combinators finish over bounded channels, failures are heard, every recv, request, close
and HTTP call returns (a realtime session may lock up as `Locked` says, and in no other
way), writers to a full ring return and the reader of a closed mixer comes to the end.

### library

`WindowOK` (the two counters of a `RingBuffer`, wrapped or not, name distinct filled slots,
so `take().unwrap()` cannot panic), `QueueSpec` (it implements the `ClosableQueue` that
overwrites), `CodecsReadBack` (every frame and sample once and in order, the end after the
last; of a chained Ogg file the first link, and of an MP3 all but what a failing flush drops),
`NativeSafe` (an ncnn model and an audio stream are used while they exist although another
thread closes them, nothing is orphaned, windows cover the audio; a Luau state
that is dropped takes its own functions out of the shared registry and no others), `MemoryKept`
(a message of a conversation is there or in a segment whatever fails or crashes, except
between two deletions of a compaction; segments are
found under their ids; revert goes to the last user message), `LookupsAnswer` (what the
graph, the vector index, updated vectors included, and the tries hold is found, the most
specific first), and `LuauRuns` (a module's body runs once, accepted output is printed in
order; what a script stores or encodes comes back, nested, with holes and mixed keys, as
long as its numbers are within the casts).

### Bounds

Three threads are the least with a sleeper, a woken thread and a thief; two suffice
where all sleepers are woken. Two slots distinguish full, empty and neither, and a slice
of three cannot fit. Counters modulo 8 wrap after a few writes. Three sessions of one
client id allow a takeover of a takeover while the first is still cleaning up (the part
that has them; the extended broker has two clients, or two sessions of one). Channels
hold one message, so that the second finds them full; sequences of messages are two to
four long, enough for one that is lost, swapped or left behind. A page holds two
segments and a segment two bytes, so that frames of 0, 2 and 4 bytes are empty, end on a
segment and end on a page. Two turns, two sessions, two files and two processes are what
the interleavings need; three speakers allow a majority to change. One service command runs next to the
commands that change the configuration; two Luau states suffice to find another's
function in the registry. The memory starts with three old segments or none, so that a
compaction has several to delete and can be cut in between. Numbers reach one beyond what the casts hold. DBSCAN is compared
with its definition on every store of up to four embeddings; two reclusters overlap on
stores of two.
Every bound is a constant of its module, named where it is declared. In `MCLibrary` the
formats, conversations, faults, clock and vectors are constants of the run, since the
violations are found with other values of them.

Where one member stands for all (t1, h1, s1, w1 in the progress properties), the members
are treated alike by the module.

Deadlock is checked for `block_buffer`: a buffer can always be closed, reset or read.
The other runs play finite scripts (so many messages, calls, sessions), after which there
is nothing left to do; that nothing stops before its time is what the progress
properties say.

### Fairness

A thread that was notified gets the mutex eventually: no critical section blocks while
holding it. A task that can run is run by tokio, also when it is woken by a channel or a
timer. Both are weak fairness of that thread's or task's step. tokio's mutexes are
granted in order, so a caller of the shared session in `GenxRealtime` gets the lock even
if it is taken again and again: strong fairness of `SessionCall`.

The progress runs assume besides that what stands at the other side plays its part: applications go
on reading what they are sent (`Accept`, `Receive`, `RecvStateEvent`, `RecvStatsChanges`,
`Recv`, `Take`), a service answers a request it has taken or its connection ends
(`Answer`, `Serve`, `ServiceAnswers`, `ServiceEnds`, `TaskFinishes`), and the user's input
ends (`InputEnds`). Each is needed, since the code waits there without a timeout. Nothing
is assumed of the broker's clients: they may stop, and writing to one is not fair.

In a sum the k-th process of each part shares one fairness condition, which is the same as one each, since
only one part runs.

### Wrong variants

Each property has a wrong variant of the code that breaks it, listed under `mutants`.
The others in the modules were tried as well; two of them are caught by another property
than the one they stand next to: `ReadSomeQuiet` by `NoLostWakeup`, `SwapForgets` by
`MixerEnds`.

### What else TLC refutes

These are stated in the modules, and do not hold of the code or hold only in part. They
have no run of their own.

| Property | Fails because |
|---|---|
| `KeepAlive!SilenceBounded` | An outgoing message restarts the broker's timer (`broker.rs:694`). |
| `Listener!Discovered` | With a full accept channel the port stays in the map unannounced. |
| `GearPort!NewestKept` | If `recv_from` and handlers are used together: check and write are under two locks. |
| `GearMqtt!ReceiversEnd` | `listen_mqtt_server`: the connection owns the broker that owns the senders. |
| `RingBuffer!WindowOK` | If the counters wrap (`WriteItems` without its bound `InReach`) and the capacity does not divide their range. |
| `MqttTrie!GetComplete` | Of overlapping filters a lookup gives the subscribers of the most specific one. |
| `MqttTrie!RemoveUndoesInsert` | For `$queue/a`, stored without the prefix and looked up with it. |
| `MqttWire!VersionRecognised` | A CONNECT that arrives in pieces is taken for version 4. |
| `Mixer!Drained` | A resampled input is left before its last partial block is played. |
| `MixerEnds` | An input that is opened on a closed track (`LateInput`) is not drained, and its writer waits. |
| `Mp3Codec` order | Buffers that are no multiple of a sample, or pieces that split a stereo frame. |
| `Mp3Codec!AllEncoded` | A failing flush of LAME is swallowed (`encoder.rs:258`). |
| `OggOpus!SamplesAgree` | The table in `toc.rs` for 20 ms CELT. |
| `OggOpus!LinksRead` | The reader stops after the first link of a chained file (`opus_reader.rs:146`). |
| `NativeHandles!WrapperAlive` | The wrapper's registry keeps the coroutine that was closed (`luau_wrapper.cpp:557`, `:688`). |
| `NativeHandles!SessionInEnv` | Nothing keeps an `Env` while its sessions live. |
| `GenxStream!NothingBehindEnd` | A second producer adds between `done` and the closing of the buffer. |
| `GenxRealtime!BackgroundTasksExit` | recv holds the session's mutex, or the session owns a sender. |
| `GenxLlm!UsageReported`, `!FunctionsOffered` | The stream is done at the finish reason, before the usage event; Gemini's request has no tools. |
| `Memory!RememberedAlways` | A compaction that is cut between two deletions, or meets another one there, is redone over its own result (`compact.rs:78`, `:104`). |
| `Memory!DeletedIsGone` | The vectors of a deleted persona stay (`host.rs:139`); a segment stored behind the delete has no id. |
| `DoubaoStream!FinishSent` | A text that is first and last sends no finish. |
| `DoubaoRealtime!OwnEvents`, `!ClosedLoopEnds` | All loops read one socket; a full channel stops a closed loop. |
| `ProviderHttp!AcceptedReported` | The client rejects the code 0 that the operations take for success. |
| `ProviderHttp!StartedAtMostOnce` | After a server error a request that did start a task is repeated (`http.rs:90`). |
| `RealtimeWs!NeverLocked` | A ping answered through a full queue (`websocket.rs:366`). |
| `CliTools!AddedStays`, `!FileIsWhole` | Two processes load and save the whole configuration; a stream that ends early leaves a partial file. |
| `LineStream!TextIntact` | Each chunk is decoded on its own, also inside a character. |
| `VecId!ResetForgets` | A reset between a recluster's read and its write. |
| `LuauRuntime!CallsReachTheFunction`, `!YieldedScriptEnds`, `!CircularIsCircular`, `!RequestsRead`, `!NumbersReadBack` | Coroutines have another state pointer; a yield without a request; a failed load stays marked; headers in an array (`http.rs:166`); numbers beyond 2^63 and indices beyond 2^31 (`json.rs:64`, `:97`). |
| `MatchBench!DoneBounded` | Two files that give one name. |

## Proofs

Every theorem holds for every value of the constants that satisfies the assumption named
with it: any number of threads, sessions, devices or filters, any capacity, any bound. An
assumption is evaluated by TLC on the values of the run. The runs check the same
definitions on small instances.

| Module | Theorems | Assumes |
|---|---|---|
| `BlockBufferProofs` | `TypeCorrect`, `RingCorrect`, `SleepersCorrect` (`TypeOK`, `RingOK`, `SleepersAreBlocked`) and `Refinement` (`QueueSpec`) | a positive capacity (the code asserts it or takes 1); slices are non-empty; `None` is no value and no error |
| | `WakeupsKept` (`NoLostWakeup`) | besides, `SingleCalls`: finitely many threads, calls that move one element |
| | `EndsCorrect` (`EndsAgree`), about `GenxStream` | nothing |
| `RingBuffer` | `TypeCorrect`, `WindowCorrect` (`WindowOK`), `Refinement` (`QueueSpec`) | `RingAssumption`: a positive capacity smaller than the range of the counters |
| `Buffer` | `TypeCorrect`, `Refinement` (`QueueSpec`) | `BufferAssumption` |
| `Broker` | `RegistryCorrect` (`RegistryCurrent`), `MessagesCorrect` (`MessagesAllowed`), `ServedCorrect` (`ServedIffAcked`), `SlotsCorrect` (`SlotsExact`) | `BrokerAssumption`: a session has one client id, the constants have their types |
| `KeepAlive` | `LiveClientIsKept` (`LiveClientKept`) | `KeepAliveAssumption`: an interval of at least two seconds, a delay shorter than it |
| `MqttClient` | `TruthCorrect` (`SubscribeTellsTruth`) | `ClientAssumption`; `Exclusive`: no call runs beside a request |
| | `NothingLostCorrect` (`NothingLost`) | `ClientAssumption`; calls may run beside requests |
| `Listener` | `AnnouncedCorrect` (`AnnouncedOnce`), `ConservedCorrect` (`Conserved`) | `ListenerAssumption` |
| `GearPort` | `NewestCorrect` (`NewestKept`) | `OneFeeder`: either `recv_from` or one handler feeds the port |
| | `ReplayCorrect` (`ChangesReplay`) | `OneFeeder`; `ReportsOK`: times are numbers and an absent value is none of the present ones |

`SingleCalls`, `OneFeeder` and `Exclusive` are not conveniences. Without each
of them the property fails, and TLC shows how: a batch that wakes one reader
(`block_buffer_batch`), two feeders between the two locks, two requests of which one reads
the other's answer. The theorems about `RingBuffer` hold for every capacity. Its module has
one bound that they inherit, `InReach` in `WriteItems`: if the capacity does not divide 2^64,
that is, if it is no power of two, a write is modelled only while the counters stay below
2^64. Beyond that the property is false ("What else TLC refutes").

In the buffers `IInv` is the inductive invariant, elsewhere `StreamInv`, `BrokerInv`,
`KeepAliveInv`, `ClientInv`, `ListenerInv` and `PortInv`; lemmas show that the initial states
satisfy it and that each action keeps it. Why it is what it is:

* `BlockBuffer`: types, ring and sleepers together. None is inductive alone: that `read`
  hands over elements and not empty slots (types) needs the ring bookkeeping; the
  bookkeeping needs that a resumed write has something left, which is in
  `SleepersAreBlocked`; and that needs the types of the calls. The argument starts from
  lemmas on modular arithmetic, goes on to what `Push`, `Pop` and `Clear` do to the ring,
  then to each operation. The refinement maps the ring to the sequence from head to tail
  and every critical section to one abstract operation or none; it needs that an error
  closes (`ErrorCloses`), which is an invariant of its own. The wake-ups count: a write of
  one element notifies one thread, so the elements never outnumber the threads on their
  way as long as someone sleeps; the lemmas are about the cardinalities of the wait sets.
* `GenxStream`: one producer at a time is between winning the flag `done` and closing the
  buffer, and the result is told before the event is written (`WinnerOK`). Until the event
  is written, and while it is still in the buffer, no handle has ended (`EventOK`). This is
  what makes a handle that finds the buffer empty and closed right in taking the shared
  result. The position of the event in the buffer says how many chunks come before it
  (`Numbered`); chunks that another producer adds behind it do not disturb that. All of it
  except the types allows for a reader that broke the stream off (`hurt`).
* `RingBuffer`: `WindowAt`, the same with counters that are never reduced except by
  overflow. Where the capacity divides their range (`Aligned`) the slot of a counter is the
  same before and after the overflow; where it does not, the invariant carries that the
  window ends before the overflow (`InReach`). The lemmas `CounterAdd` and those that follow
  make one argument of both cases. An overwriting write is taken
  element by element.
* `Buffer`: types, and that an error closes; the refinement is then direct, since the
  contents are the abstract queue.
* `Broker`: where a task can be (`Place`), what it does afterwards, and which packet it
  holds there (`TasksOK`). The registry holds the latest session of a client id exactly
  while that session receives or has yet to clean up (`RegistryOK`): `RegistryCurrent`
  follows, and it is kept since a cleanup removes the entry only if it is its own. Every
  message in hand or in a channel is one that the checks let through, also when its topic
  came from an alias (`MessagesOK`).
  The handles need a second invariant, `GrantInv`, which uses the first. A session that no
  other has replaced is served what it was acknowledged except for the filter its task
  has in hand (`Served`). As long as no other session of the client id was there, each
  filter is tracked as often as its handle is stored, give or take the one slot that a
  subscription has reserved or an unsubscription has yet to release (`Fits`); once the
  session has left its loop, no more handles are stored than its purge has still to visit.
  That others do not interfere is `PurgesOK`: a purge is of the session itself or of one
  that was replaced. The lemmas on lists say how often an element is in a list after
  `Append`, `Tail` and `Retain`. The limit counts entries of the tracked list; it
  bounds the handles because each handle has a position of its own in that list
  (an injection, so no sum over filters is needed).
* `KeepAlive`: while the client is alive the broker's timer is at most the client's
  interval and what the packet in flight has been delayed. `Slack` says that the timeout
  is the interval and at least one keep-alive more, for odd and even values.
* `MqttClient`: at most one request is unanswered (`OneRequest`), and either its packet is
  on the way up or its acknowledgement on the way down, never both (`UpOK`, `DownOK`); an
  acknowledgement on the way says what the server decided for the filter of the call that
  waits. All of it holds until a request met an unexpected packet and gave up, after
  which its answer is left on the wire; so the invariant has that alternative.
  `NothingLost` has its own, `LostInv`: what was received and what is on the way down
  are, one after the other, in ascending order, and no number is missing unless a
  request has thrown one away (`StreamOK`). It does not matter who reads: every action
  takes the first packet, passes it to the application or is at fault.
* `Listener`: ports are numbered as they are made, the map holds the last port of a device,
  and announced ports are older than the next one (`MapOK`). For `Conserved` besides that
  a port that was not made yet has nothing and that a port in the map belongs to its
  device (`ChannelsOK`); what waits and what was read are seen as sets, and each action
  moves one message, or all that wait in a port, from one set to another.
* `GearPort`: at each place of the feeder, how the event in its hand compares with the
  state and with the newest event taken (`FedOK`). `ReplayCorrect` follows the changes
  on the way (`OnTheWay`: the channel, and the one a feeder is sending) between the stats
  of the port and the replica of the application. Field by field they form a chain
  (`Replays`): each may replace the one before it and the value the application has, and
  the last that is present is the value of the port. That the merge on the other side
  accepts each of them needs the order of times of a field (`Order`) and of resets
  (`ResetOrder`).

Only model-checked:

* liveness, and everything that depends on fairness: the prover has neither;
* `GrantsServed`, which repeats on larger instances what the theorems about `Broker` say
  of every instance. For shared groups and a replaced session nothing stronger than
  `ServedIffAcked` and `SlotsExact` is true, see the note on the broker;
* modules with recursive operators (`MqttTrie`, `Hnsw`, `VecId`, `Voiceprint`, `PathTrie`,
  `LuauRuntime`), of which the prover loses its SMT backend;
* `PacketsIntact`, and the parts of `MCSpeech` and `MCLibrary` besides the buffers and the
  stream. Their modules use `SelectSeq` and recursive functions in what they state (what a reader has
  got is compared with what filtering the input leaves), and what those compute for every
  input takes an induction that the prover cannot do. `Broker` shows the way round it: define
  the filter by positions, and state what it leaves by counts.

## Not modelled

`PROJECT.json` gives the reason for every part. In short:

* sockets, TLS, WebSocket and WebRTC adapters, logging, argument parsing: I/O;
* the encoding of MQTT packets, Opus, LAME, minimp3, rubato, the Luau virtual machine and
  inference: third-party code, external where it is used;
* serialised types, request bodies of the speech services, prompts and option builders:
  values without state;
* samples, filter banks, scores and ranking: floating point;
* songs, encodings, time formats and embedding clients: tables and conversions;
* the Go, Luau and C packages, which mirror the Rust code.

Within modelled parts, commands of a gear, which only write to a connection, and option
setters are left out.

## What could follow

Not proved yet and within reach, in this order:

1. `GearPipe` (`ItemsInOrder`, `ErrorComesLast`), with the filter of `received` replaced
   by the two increasing sequences it is made of, as in `LostInv`.
2. `Graph` (`BothEnds`), `DoubaoRealtime` (`OneOverrun`, `FinishIsLast`), `CliTools`
   (`CurrentExists`).
