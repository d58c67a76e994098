------------------------------ MODULE MCSpeech ------------------------------
(***************************************************************************)
(* Small instances, for TLC, of the modules about genx, the speech and     *)
(* model providers, the audio mixer, the identities of speakers and the    *)
(* command line tools.                                                     *)
(*                                                                         *)
(* A behaviour is a behaviour of one part.  GenxStream, and BlockBuffer on *)
(* which it stands, are extended: their variables are this module's and    *)
(* stay as they began while another part runs.  The variables of the other *)
(* parts live in x1, x2, ...; an INSTANCE says which is which, and those   *)
(* that the running part does not need stay 0.                             *)
(***************************************************************************)
EXTENDS BlockBuffer, GenxStream, TLC

CONSTANTS
    Parts,   \* the parts that are checked
    Nil      \* no value

VARIABLES
    part,    \* the part of this behaviour
    x1, x2, x3, x4, x5, x6, x7, x8, x9, x10, x11, x12, x13, x14, x15, x16, x17, x18,
    x19, x20, x21

slots == <<x1, x2, x3, x4, x5, x6, x7, x8, x9, x10, x11, x12, x13, x14, x15, x16, x17,
           x18, x19, x20, x21>>
speech_vars == <<part, slots, vars, stream_vars>>

UnusedAfter18 == <<x19, x20, x21, vars, stream_vars>>
UnusedAfter17 == <<x18, UnusedAfter18>>
UnusedAfter16 == <<x17, UnusedAfter17>>
UnusedAfter15 == <<x16, UnusedAfter16>>
UnusedAfter13 == <<x14, x15, UnusedAfter15>>
UnusedAfter12 == <<x13, UnusedAfter13>>
UnusedAfter10 == <<x11, x12, UnusedAfter12>>
UnusedAfter9 == <<x10, UnusedAfter10>>
UnusedAfter8 == <<x9, UnusedAfter9>>
UnusedAfter7 == <<x8, UnusedAfter8>>
UnusedAfter6 == <<x7, UnusedAfter7>>
UnusedAfter4 == <<x5, x6, UnusedAfter6>>
UnusedAfter3 == <<x4, UnusedAfter4>>

Rest3 == UNCHANGED <<part, UnusedAfter3>>
Rest4 == UNCHANGED <<part, UnusedAfter4>>
Rest6 == UNCHANGED <<part, UnusedAfter6>>
Rest7 == UNCHANGED <<part, UnusedAfter7>>
Rest8 == UNCHANGED <<part, UnusedAfter8>>
Rest9 == UNCHANGED <<part, UnusedAfter9>>
Rest10 == UNCHANGED <<part, UnusedAfter10>>
Rest12 == UNCHANGED <<part, UnusedAfter12>>
Rest13 == UNCHANGED <<part, UnusedAfter13>>
Rest15 == UNCHANGED <<part, UnusedAfter15>>
Rest16 == UNCHANGED <<part, UnusedAfter16>>
Rest17 == UNCHANGED <<part, UnusedAfter17>>
Rest18 == UNCHANGED <<part, UnusedAfter18>>
Rest21 == UNCHANGED <<part, vars, stream_vars>>
BlockRest == UNCHANGED <<part, slots, stream_vars>>
StreamRest == UNCHANGED <<part, slots, vars>>

\* What is written to the BlockBuffer: one element at a time, the case in which no
\* wake-up is lost.
OneElement == {<<"a">>}

\* Inputs of the stream combinators: one, three with an empty one, two.
StreamInputs == {<< <<"blob", "text", "blob">> >>,
                 << <<"text", "none">>, << >>, <<"blob">> >>,
                 << <<"blob", "text">>, <<"text">> >>}

\* Configuration files that fit together, that clash, and that are refused.
Entry(n, m) == [name |-> n, model |-> m]
File(t, k, es) == [type |-> t, key |-> k, entries |-> es]
ConfigFiles == {File("generator", TRUE, <<Entry("a", "x")>>),
                File("generator", TRUE, <<Entry("b", "x"), Entry("a", "y")>>),
                File("generator", FALSE, <<Entry("a", "x")>>),
                File("segmentor", FALSE, <<Entry("s", "a"), Entry("", "a")>>),
                File("segmentor", FALSE, <<Entry("s", "b")>>),
                File("profiler", FALSE, <<Entry("s", "a")>>),
                File("unknown", TRUE, << >>)}
\* A file of models, an answer expected or given in a benchmark.
ModelFile(n) == [kind |-> "openai", key |-> TRUE, names |-> <<n>>]
Answer(rule, args) == [rule |-> rule, args |-> args]

\* Rule files: typed, unlabelled and oddly labelled variables, two rules of one name,
\* an unknown variable, a pattern of three.
Var(label, type) == [label |-> label, type |-> type]
Rule(n, vs, ps) == [name |-> n, vars |-> vs, patterns |-> ps,
                    examples |-> << <<"s">>, <<"s", "", "o">>, <<"s", "u">> >>]
PlayPatterns == << << <<"play", "title", "count">> >>, << <<"play", "title">>, <<"title">> >> >>
RuleFiles ==
    {<<Rule("play", ("title" :> Var("song title", "string")) @@ ("count" :> Var(l, t)), PlayPatterns),
       Rule(n, ("count" :> Var("how long", "bool")), << << <<"wait", "count">> >>, << <<"wait">> >> >>)>>
     : l \in {"how many", "", "[bracket]"}, t \in {"int", "bool", "wrong"}, n \in {"wait", "play"}}
    \cup {<<Rule("play", ("title" :> Var("t", "")), << << <<"play", "count">> >> >>)>>,
          <<Rule("play", ("title" :> Var("t", "")), << << <<"a">>, <<"b">>, <<"c">> >> >>)>>}

\* Bodies of a line stream: what comes first and last, with or without a comment line.
Line(k, n) == [kind |-> k, wide |-> FALSE, note |-> n]
LineBodies == {<<Line(a, FALSE), Line("ok", n), Line(b, FALSE)>> :
               a \in {"ok", "junk", "last"}, b \in {"ok", "last", "error", "junk", "done"}, n \in BOOLEAN}

-----------------------------------------------------------------------------
(* The parts. *)

\* The four stream combinators over inputs of both types.
Utils == INSTANCE StreamUtils WITH
    Kinds <- {"split", "seq", "merge", "interleaved"}, Inputs <- StreamInputs, Cap <- 1,
    kind <- x1, input <- x2, fails <- x3, at <- x4, turn <- x5, active <- x6,
    mime <- x7, held <- x8, chan <- x9, live <- x10, out <- x11, task <- x12

\* Stamps that overlap, leave gaps and come late.
Input == INSTANCE GenxInput WITH
    Stamps <- {0, 2, 3, 4, 6, 9}, Dur <- 2, LateWindow <- 3, MaxLoss <- 3,
    JitterSize <- 2, MinReady <- 2, MaxReads <- 4, jitter <- x1, seq <- x2,
    lastEnd <- x3, out <- x4, eof <- x5, reads <- x6, given <- x7, lost <- x8,
    closed <- x9

\* Two turns, the second spoken while the first is answered.
Turn == INSTANCE GenxRealtime WITH
    Services <- {"dashscope", "doubao"}, Turns <- 2, AudioSize <- 3, ChunkSize <- 2,
    Cap <- 1, svc <- x1, input <- x2, inEnd <- x3, ipc <- x4, todo <- x5, last <- x6,
    buf <- x7, queue <- x8, respId <- x9, assigned <- x10, lock <- x11, sent <- x12,
    turn <- x13, alive <- x14, events <- x15, epc <- x16, esend <- x17, chan <- x18,
    given <- x19, rxOpen <- x20, stray <- x21

\* One turn, for the failures of the service.
One == INSTANCE GenxRealtime WITH
    Services <- {"dashscope", "doubao"}, Turns <- 1, AudioSize <- 3, ChunkSize <- 2,
    Cap <- 1, svc <- x1, input <- x2, inEnd <- x3, ipc <- x4, todo <- x5, last <- x6,
    buf <- x7, queue <- x8, respId <- x9, assigned <- x10, lock <- x11, sent <- x12,
    turn <- x13, alive <- x14, events <- x15, epc <- x16, esend <- x17, chan <- x18,
    given <- x19, rxOpen <- x20, stray <- x21

\* Streams of up to four chunks through the three transformers.
Speech == INSTANCE GenxSpeech WITH
    Kinds <- {"tts", "asr", "mp3"}, MaxChunks <- 4, kind <- x1, read <- x2,
    named <- x3, buf <- x4, sid <- x5, pc <- x6, heard <- x7, eosDue <- x8, out <- x9,
    unheard <- x10

\* Two configuration files read in either order.
Reg == INSTANCE GenxRegistry WITH
    Files <- {"f1", "f2"}, Contents <- ConfigFiles, Patterns <- {"p"},
    Transformers <- {"t1", "t2"}, MaxHandles <- 2, NoT <- Nil, order <- x1,
    content <- x2, pass <- x3, at <- x4, routes <- x5, names <- x6, pc <- x7,
    table <- x8, calls <- x9

\* Answers of four events with interleaved tool calls.
Llm == INSTANCE GenxLlm WITH
    Services <- {"openai", "gemini"}, Fragments <- {"a", "nl"}, RuleNames <- {"r"},
    Indices <- {0, 1}, MaxEvents <- 4, Names <- {"", "n"}, MaxSaid <- 3, svc <- x1, sent <- x2, phase <- x3, reason <- x4,
    usage <- x5, task <- x6, chunks <- x7, status <- x8, told <- x9, text <- x10,
    calls <- x11, pending <- x12, results <- x13, contexts <- x14, said <- x15,
    request <- x16, answer <- x17

\* Rules with typed and unlabelled variables; values that hold a comma are
\* lists of two.
Match == INSTANCE MatchRules WITH
    Vars <- {"title", "count"}, Values <- {<<"x">>, <<"1">>, <<"no">>, <<"a", "b">>},
    file <- x1, rules <- x2, matcher <- x3, asked <- x4, line <- x5, result <- x6

\* Two models and two cases, and a client that watches.
Bench == INSTANCE MatchBench WITH
    ConfigDirs <- {<<ModelFile("a"), ModelFile("b")>>},
    Patterns <- {"all", <<{"b"}, {"a", "b"}>>},
    Cases <- <<Answer("r", {<<"k", 1>>}), Answer("nothing", {})>>,
    All <- "all", Nothing <- "nothing", MaxChunks <- 2,
    Answers <- {Answer("r", {<<"k", 1>>, <<"l", 1>>}), Answer("r", {<<"k", 2>>}), Answer("nothing", {})},
    registry <- x1, models <- x2, status <- x3, progress <- x4, report <- x5, at <- x6,
    call <- x7, watch <- x8

\* The streaming services of doubaospeech, two tasks that receive.
Doubao == INSTANCE DoubaoStream WITH
    Services <- {"asr", "st", "sami", "podcast", "duplex", "ttsws", "tts2", "asr2"},
    Receivers <- {"r1", "r2"}, MaxMessages <- 2, MaxTexts <- 1, MaxRecvs <- 1,
    ChanCap <- 1, svc <- x1, phase <- x2, sentUp <- x3, texts <- x4, final <- x5,
    wire <- x6, sent <- x7, over <- x8, closed <- x9, task <- x10, held <- x11,
    chan <- x12, rx <- x13, late <- x14, calls <- x15, got <- x16, sending <- x17,
    sink <- x18

\* The same with one task that receives.
Recv == INSTANCE DoubaoStream WITH
    Services <- {"asr", "st", "sami", "podcast", "duplex", "ttsws", "tts2", "asr2"},
    Receivers <- {"r1"}, MaxMessages <- 2, MaxTexts <- 1, MaxRecvs <- 1, ChanCap <- 1,
    svc <- x1, phase <- x2, sentUp <- x3, texts <- x4, final <- x5, wire <- x6,
    sent <- x7, over <- x8, closed <- x9, task <- x10, held <- x11, chan <- x12,
    rx <- x13, late <- x14, calls <- x15, got <- x16, sending <- x17, sink <- x18

\* The realtime sessions over channels of one: enough requests and events for every
\* queue to be full with one more in hand.
Ws == INSTANCE RealtimeWs WITH
    Kinds <- {"dashscope", "openai"}, Cap <- 1, MaxSends <- 3,
    MaxEvents <- 3, kind <- x1, wq <- x2, up <- x3, down <- x4, ev <- x5, writer <- x6,
    reader <- x7, held <- x8, senders <- x9, over <- x10, snd <- x11, sends <- x12,
    rcv <- x13, session <- x14, events <- x15

\* Two sessions on one connection.
Sess == INSTANCE DoubaoRealtime WITH
    MaxSessions <- 2, MaxEvents <- 1, Cap <- 1, Kinds <- {"text", "status", "error", "unknown", "audio", "junk"},
    MaxLate <- 2, Prompt <- FALSE, Retry <- TRUE,
    made <- x1, state <- x2, flag <- x3, loop <- x4, reader <- x5, held <- x6,
    chan <- x7, wire <- x8, count <- x9, finish <- x10, over <- x11, after <- x12,
    stray <- x13, call <- x14, late <- x15

\* Every operation of the provider clients, up to two retries.
Http == INSTANCE ProviderHttp WITH
    MaxRetries <- 2, op <- x1, phase <- x2, attempt <- x3, reply <- x4, result <- x5,
    polling <- x6, task <- x7, made <- x8, unsure <- x9

\* Frames with and without identifier and payload, whole and cut.
Frames == INSTANCE DoubaoProtocol WITH
    MaxId <- 2, MaxPayload <- 3, Ids <- {<< >>, <<"s", "t">>, <<"s", "t", "u">>},
    Payloads <- {<< >>, <<1, 2, 3>>, <<1, 2, 3, 4>>}, sent <- x1, zipped <- x2, frame <- x3,
    got <- x4

\* Bodies of three messages cut anywhere.
Lines == INSTANCE LineStream WITH
    Readers <- {"sse_text", "sse_speech", "tts", "tts_v2"}, Bodies <- LineBodies,
    MaxBuffer <- 50, reader <- x1, body <- x2, rest <- x3, buffer <- x4, out <- x5,
    status <- x6

\* A track with two inputs, written by two threads through rings of one.
Mix == INSTANCE Mixer WITH
    Writer <- {"w1", "w2"}, Cap <- 1, ReadLen <- 2, Chunk <- 2, Kinds <- {"plain"},
    WriteSizes <- {2}, SilenceGap <- 1, AutoClose <- FALSE, Callback <- TRUE, LateInput <- FALSE,
    MaxTracks <- 1, MaxInputs <- 2, MaxWritten <- 2, tracks <- x1, mixer <- x2,
    track <- x3, ring <- x4, thread <- x5, reader <- x6, ctl <- x7

\* The same with one thread.
Mono == INSTANCE Mixer WITH
    Writer <- {"w1"}, Cap <- 1, ReadLen <- 2, Chunk <- 2, Kinds <- {"plain"},
    WriteSizes <- {2}, SilenceGap <- 0, AutoClose <- FALSE, Callback <- FALSE, LateInput <- FALSE,
    MaxTracks <- 1, MaxInputs <- 2, MaxWritten <- 2, tracks <- x1, mixer <- x2,
    track <- x3, ring <- x4, thread <- x5, reader <- x6, ctl <- x7

\* Two processes of the command line tools.
Cli == INSTANCE CliTools WITH
    Proc <- {1, 2}, Name <- {"x"},
    Commands <- {"synthesize", "recognize", "asr_file", "submit", "meeting",
                 "subtitle", "train", "video", "voice", "upload", "image", "music",
                 "tts_v1", "tts_v2", "bidirectional", "sami", "asr_v1", "asr_v2",
                 "translation", "connect", "test", "omni", "speech", "text"},
    MaxSend <- 1, MaxAudio <- 1, file <- x1, proc <- x2, out <- x3

\* Embeddings that are near, apart and in between, clustered by two threads.
Ids == INSTANCE VecId WITH
    Directions <- {0, 1, 3}, Thresholds <- {1, 2}, MinSamples <- {1, 2},
    Threads <- {"t1", "t2"}, MaxStored <- 2, MaxSets <- 1, store <- x1, buckets <- x2,
    nextId <- x3, eps <- x4, minPts <- x5, pc <- x6, seen <- x7, with <- x8, sets <- x9

\* More of them, clustered by one.
Bridge == INSTANCE VecId WITH
    Directions <- {0, 1, 3}, Thresholds <- {1, 2}, MinSamples <- {1, 3},
    Threads <- {"t1"}, MaxStored <- 4, MaxSets <- 0, store <- x1, buckets <- x2,
    nextId <- x3, eps <- x4, minPts <- x5, pc <- x6, seen <- x7, with <- x8, sets <- x9

\* Three speakers and a window of three.
Voice == INSTANCE Voiceprint WITH
    Hashes <- {"a", "b", "c"}, Width <- 3, Num <- 3, Den <- 4, Seg <- 2,
    MaxSamples <- 5, window <- x1, pos <- x2, filled <- x3, accum <- x4, chunk <- x5,
    label <- x6, heard <- x7, old <- x8, count <- x9

-----------------------------------------------------------------------------
Idle18 == x19 = 0 /\ x20 = 0 /\ x21 = 0
Idle17 == x18 = 0 /\ Idle18
Idle16 == x17 = 0 /\ Idle17
Idle15 == x16 = 0 /\ Idle16
Idle13 == x14 = 0 /\ x15 = 0 /\ Idle15
Idle12 == x13 = 0 /\ Idle13
Idle10 == x11 = 0 /\ x12 = 0 /\ Idle12
Idle9 == x10 = 0 /\ Idle10
Idle8 == x9 = 0 /\ Idle9
Idle7 == x8 = 0 /\ Idle8
Idle6 == x7 = 0 /\ Idle7
Idle4 == x5 = 0 /\ x6 = 0 /\ Idle6
Idle3 == x4 = 0 /\ Idle4
Idle0 == x1 = 0 /\ x2 = 0 /\ x3 = 0 /\ Idle3

SpeechInit ==
    /\ part \in Parts
    /\ Init /\ (part = "block" \/ count = 0)
    /\ StreamInit
    /\ part \in {"block", "stream"} => Idle0
    /\ part = "utils" => Utils!Init /\ Idle12
    /\ part = "input" => Input!Init /\ Idle9
    /\ part = "realtime" => Turn!Init
    /\ part = "oneturn" => One!Init
    /\ part = "speech" => Speech!Init /\ Idle10
    /\ part = "registry" => Reg!Init /\ Idle9
    /\ part = "llm" => Llm!Init /\ Idle17
    /\ part = "rules" => Match!Init /\ Idle6
    /\ part = "bench" => Bench!Init /\ Idle8
    /\ part = "doubao" => Doubao!Init /\ Idle18
    /\ part = "recv" => Recv!Init /\ Idle18
    /\ part = "websocket" => Ws!Init /\ Idle15
    /\ part = "sessions" => Sess!Init /\ Idle15
    /\ part = "http" => Http!Init /\ Idle9
    /\ part = "frames" => Frames!Init /\ Idle4
    /\ part = "lines" => Lines!Init /\ Idle6
    /\ part = "mixer" => Mix!Init /\ Idle7
    /\ part = "onewriter" => Mono!Init /\ Idle7
    /\ part = "cli" => Cli!Init /\ Idle3
    /\ part = "vecid" => Ids!Init /\ Idle9
    /\ part = "clusters" => Bridge!Init /\ Idle9
    /\ part = "voiceprint" => Voice!Init /\ Idle9

SpeechNext ==
    \/ part = "block" /\ Next /\ BlockRest
    \/ part = "stream" /\ StreamNext /\ StreamRest
    \/ part = "utils" /\ Utils!Next /\ Rest12
    \/ part = "input" /\ Input!Next /\ Rest9
    \/ part = "realtime" /\ Turn!Next /\ Rest21
    \/ part = "oneturn" /\ One!Next /\ Rest21
    \/ part = "speech" /\ Speech!Next /\ Rest10
    \/ part = "registry" /\ Reg!Next /\ Rest9
    \/ part = "llm" /\ Llm!Next /\ Rest17
    \/ part = "rules" /\ Match!Next /\ Rest6
    \/ part = "bench" /\ Bench!Next /\ Rest8
    \/ part = "doubao" /\ Doubao!Next /\ Rest18
    \/ part = "recv" /\ Recv!Next /\ Rest18
    \/ part = "websocket" /\ Ws!Next /\ Rest15
    \/ part = "sessions" /\ Sess!Next /\ Rest15
    \/ part = "http" /\ Http!Next /\ Rest9
    \/ part = "frames" /\ Frames!Next /\ Rest4
    \/ part = "lines" /\ Lines!Next /\ Rest6
    \/ part = "mixer" /\ Mix!Next /\ Rest7
    \/ part = "onewriter" /\ Mono!Next /\ Rest7
    \/ part = "cli" /\ Cli!Next /\ Rest3
    \/ part = "vecid" /\ Ids!Next /\ Rest9
    \/ part = "clusters" /\ Bridge!Next /\ Rest9
    \/ part = "voiceprint" /\ Voice!Next /\ Rest9

SpeechSpec == SpeechInit /\ [][SpeechNext]_speech_vars

\* What moves in the parts that are checked for progress.
moving == <<slots, stream_vars>>

\* The fairness of the modules: every task, service and caller goes on when it can.
\* The k-th such process of each part share a condition, since only one part runs.
\* The input task of a realtime transformer competes for the session's lock, which
\* tokio hands over in order: strong fairness.
SpeechFairSpec ==
    /\ SpeechSpec
    /\ WF_moving(\/ part = "stream" /\ Finishing("p1") /\ StreamRest
                 \/ part = "utils" /\ Utils!Work /\ Rest12
                 \/ part = "oneturn" /\ One!ForwardInput /\ Rest21
                 \/ part = "bench" /\ Bench!Runner /\ Rest8
                 \/ part = "recv" /\ Recv!ServiceEnds /\ Rest18
                 \/ part = "websocket" /\ Ws!Push /\ Rest15
                 \/ part = "http" /\ Http!Call /\ Rest9
                 \/ part = "onewriter" /\ Mono!ReaderStep /\ Rest7)
    /\ WF_moving(\/ part = "stream" /\ Finishing("p2") /\ StreamRest
                 \/ part = "utils" /\ Utils!Recv(1) /\ Rest12
                 \/ part = "oneturn" /\ One!InputEnds /\ Rest21
                 \/ part = "bench" /\ (Bench!ReadStatus \/ Bench!ReadProgress) /\ Rest8
                 \/ part = "recv" /\ (Recv!Handshake \/ Recv!Write \/ Recv!WriteFails) /\ Rest18
                 \/ part = "websocket" /\ Ws!Write /\ Rest15
                 \/ part = "http" /\ Http!ServiceAnswers /\ Rest9
                 \/ part = "onewriter" /\ Mono!CtlStep /\ Rest7)
    /\ WF_moving(\/ part = "stream" /\ Next1("h1") /\ StreamRest
                 \/ part = "utils" /\ Utils!Recv(2) /\ Rest12
                 \/ part = "oneturn" /\ One!SendInputError /\ Rest21
                 \/ part = "recv" /\ (Recv!TaskCheck \/ Recv!TaskReads \/ Recv!TaskPushes) /\ Rest18
                 \/ part = "websocket" /\ Ws!Serve /\ Rest15
                 \/ part = "http" /\ Http!Handle /\ Rest9
                 \/ part = "onewriter" /\ Mono!FadeStep /\ Rest7)
    /\ WF_moving(\/ part = "stream" /\ Next1("h2") /\ StreamRest
                 \/ part = "oneturn" /\ One!Join /\ Rest21
                 \/ part = "recv" /\ Recv!Receive("r1") /\ Rest18
                 \/ part = "websocket" /\ (Ws!Read \/ Ws!PushEvent \/ Ws!PushPong) /\ Rest15
                 \/ part = "http" /\ Http!Backoff /\ Rest9
                 \/ part = "onewriter" /\ Mono!WriteInto("w1") /\ Rest7)
    /\ WF_moving(\/ part = "oneturn" /\ One!Serve /\ Rest21
                 \/ part = "websocket" /\ Ws!Recv /\ Rest15
                 \/ part = "http" /\ Http!Status /\ Rest9
                 \/ part = "onewriter" /\ Mono!Swap("w1") /\ Rest7)
    /\ WF_moving(\/ part = "oneturn" /\ One!RecvLock /\ Rest21
                 \/ part = "websocket" /\ Ws!Received /\ Rest15
                 \/ part = "http" /\ Http!Poll /\ Rest9)
    /\ WF_moving(\/ part = "oneturn" /\ One!RecvEvent /\ Rest21
                 \/ part = "http" /\ Http!TaskFinishes /\ Rest9)
    /\ WF_moving(part = "oneturn" /\ One!RecvNone /\ Rest21)
    /\ WF_moving(part = "oneturn" /\ One!SendChunk /\ Rest21)
    /\ WF_moving(part = "oneturn" /\ One!Take /\ Rest21)
    /\ SF_moving(part = "oneturn" /\ One!SessionCall /\ Rest21)

-----------------------------------------------------------------------------
(* Properties.  NoLostWakeup is that of BlockBuffer, EndsAgree that of       *)
(* GenxStream.                                                              *)

\* A stream that is being ended ends for every clone (h1 stands for each), the task of
\* a combinator ends although its channels are bounded, and a failure of a realtime
\* service reaches the reader of the output.
StreamsEnd ==
    (\/ part = "stream" /\ Ending
     \/ part = "utils"
     \/ part = "oneturn" /\ One!Failed)
    ~> (\/ part = "stream" /\ Ended("h1")
        \/ part = "utils" /\ Utils!TaskDone
        \/ part = "oneturn" /\ One!Told)

\* What a caller said reaches the model once, in order and in its role; and however the
\* pieces of answers are interleaved and the bytes of frames and lines are cut, every
\* tool call, line, frame and stream comes out whole, and what was cut off is never given
\* as complete.  The k-th answer has the id of the user's k-th stream until an event of a
\* turn comes late, and never that of an earlier stream than the answer before it.  Every
\* output of split, composite_seq, merge and merge_interleaved is its share of the inputs,
\* in order and whole.
AnswersIntact ==
    /\ part = "utils" => Utils!SharesExact
    /\ part = "llm" => Llm!RequestIntact /\ Llm!AnswerIntact
    /\ part = "speech" => Speech!StreamsWhole
    /\ part = "realtime" => Turn!TurnIds
    /\ part = "frames" => Frames!ReadBack
    /\ part = "lines" => Lines!CutsDoNotMatter

\* What configuration means does not depend on the order of its files; a model that
\* keeps to the prompt's format is understood, and rules survive being written out.  A
\* client of the benchmark of the rules is told "all_done" only with the progress
\* complete, and every case is in the report once.
RulesAgree ==
    /\ part = "registry" => Reg!OrderDoesNotMatter
    /\ part = "rules" => Match!AnswersUnderstood /\ Match!RulesReadBack
    /\ part = "bench" => Bench!AllDoneIsComplete /\ Bench!CasesCounted

\* Calls return: every recv once the connection has ended, every request and close
\* of a realtime session unless all its queues are full and each waits for the next,
\* every HTTP call with its retries and polls; and a client of the benchmark learns
\* the end of the run.
CallsReturn ==
    /\ (\/ part = "recv" /\ Recv!Receiving("r1")
        \/ part = "websocket" /\ Ws!Sending
        \/ part = "http" /\ Http!Calling
        \/ part = "bench" /\ Bench!Watching)
       ~> (\/ part = "recv" /\ ~Recv!Receiving("r1")
           \/ part = "websocket" /\ (~Ws!Sending \/ Ws!Locked)
           \/ part = "http" /\ Http!Returned
           \/ part = "bench" /\ Bench!ToldTheEnd)
    /\ (part = "websocket" /\ Ws!Closing) ~> (part = "websocket" /\ (Ws!Ended \/ Ws!Locked))

\* A recv that starts after the result marked last was delivered returns nothing
\* more, whatever the service still sends.
LastIsLast == [][part = "doubao" => Doubao!NothingAfterLast]_slots

\* A call starts at most one task, and one more for each server error answered although
\* the task was started, after which the request is repeated; a closed session takes
\* at most one more message off the socket it shares, and after its finish message at
\* most the one under way is written.
NoneTwice ==
    /\ part = "http" => Http!StartedOnce
    /\ part = "sessions" => Sess!OneOverrun /\ Sess!FinishIsLast

\* A frame of the realtime input is given at most the late window behind the one
\* before it, and audio that comes in order leaves on its own time line, gaps filled.
\* What a track plays are the samples of its inputs, in the order in which the inputs
\* were opened, and an input is left only when all that was written to it is played.
AudioInOrder ==
    /\ part = "input" => Input!AtMostLate /\ Input!OnTime
    /\ part = "mixer" => Mix!PlayedInOrder /\ Mix!Drained

\* A write to a track returns although its ring is full, and the reader of a closed
\* mixer comes to the end.
MixerEnds ==
    /\ (part = "onewriter" /\ Mono!Writing("w1")) ~> (part = "onewriter" /\ Mono!Returned("w1"))
    /\ (part = "onewriter" /\ Mono!WritesClosed) ~> (part = "onewriter" /\ Mono!ReaderEnded)

\* The configuration names a context it has whatever processes change it, unless a save
\* was cut short; a context a tool accepted is one its client can be built from, every
\* request a command makes is signed with a secret of the context it runs with, and no
\* output file is left by a command that was told of an error.
CommandsSound ==
    part = "cli" => /\ Cli!CurrentExists /\ Cli!NoFileAfterError
                    /\ Cli!AcceptedUsable /\ Cli!RequestsSigned

\* No two identities share an id whatever reclusters overlap, clusters are what DBSCAN
\* defines, and the speaker is the one that the last hashes call for.
IdsStable ==
    /\ part = "vecid" => Ids!IdsUnique
    /\ part = "clusters" => Bridge!IdsUnique
    /\ part = "clusters" /\ x2 = << >> => Bridge!Clustered
    /\ part = "voiceprint" => Voice!SpeakerIsRecent
=============================================================================
