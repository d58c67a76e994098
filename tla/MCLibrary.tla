----------------------------- MODULE MCLibrary -----------------------------
(***************************************************************************)
(* Small instances, for TLC, of the modules about the libraries: a buffer, *)
(* codecs, native handles, memory and its indexes, tries and the Luau      *)
(* runtime.                                                                *)
(*                                                                         *)
(* A behaviour is a behaviour of one part.  RingBuffer is extended: its    *)
(* variables are this module's and stay as they began while another part   *)
(* runs.  The variables of the other parts live in x1, x2, ...; an         *)
(* INSTANCE says which is which, and those that the running part does not  *)
(* need stay 0.                                                            *)
(***************************************************************************)
EXTENDS RingBuffer, TLC

CONSTANTS
    Parts,            \* the parts that are checked
    Formats,          \* the formats of the resampler
    Conversations,    \* the conversations of the memory
    MaxFaults,        \* bound: failures and crashes of the memory
    MaxTime,          \* bound: the clock of the memory
    Vectors           \* the vectors of the index

VARIABLES
    part,    \* the part of this behaviour
    x1, x2, x3, x4, x5, x6, x7, x8, x9, x10, x11, x12, x13, x14, x15, x16, x17,
    x18, x19, x20

slots == <<x1, x2, x3, x4, x5, x6, x7, x8, x9, x10, x11, x12, x13, x14, x15, x16, x17,
           x18, x19, x20>>
library_vars == <<part, slots, vars>>

UnusedAfter16 == <<x17, x18, x19, x20, vars>>
UnusedAfter13 == <<x14, x15, x16, UnusedAfter16>>
UnusedAfter11 == <<x12, x13, UnusedAfter13>>
UnusedAfter6 == <<x7, x8, x9, x10, x11, UnusedAfter11>>
UnusedAfter5 == <<x6, UnusedAfter6>>
UnusedAfter2 == <<x3, x4, x5, UnusedAfter5>>

Rest2 == UNCHANGED <<part, UnusedAfter2>>
Rest5 == UNCHANGED <<part, UnusedAfter5>>
Rest6 == UNCHANGED <<part, UnusedAfter6>>
Rest11 == UNCHANGED <<part, UnusedAfter11>>
Rest13 == UNCHANGED <<part, UnusedAfter13>>
Rest14 == UNCHANGED <<part, x15, x16, UnusedAfter16>>
Rest16 == UNCHANGED <<part, UnusedAfter16>>
Rest20 == UNCHANGED <<part, vars>>
RingRest == UNCHANGED <<part, slots>>

\* What is written to the RingBuffer: as much as fits, and more than fits.
RingBatches == {<<"a", "b">>, <<"b", "b", "a">>}

\* The first bytes of Opus packets: every first byte, some second bytes.
PacketHeads == {<< >>} \cup {<<a>> : a \in 0 .. 255} \cup {3, 131, 255} \X {0, 1, 6, 48, 129}

\* The format of a resampler: whether source and target are stereo, whether it converts
\* the rate, whether the reader may return short.
Format(src, dst, rates, short) == [src |-> src, dst |-> dst, rates |-> rates, short |-> short]
SameChannels == {Format(c, c, TRUE, FALSE) : c \in BOOLEAN}
                \cup {Format(c, d, FALSE, s) : c \in BOOLEAN, d \in BOOLEAN, s \in BOOLEAN}
StereoToMono == {Format(TRUE, FALSE, TRUE, FALSE)}

\* Vectors on a line, some of which change: as many as the lists of a layer hold, and
\* one more.
Line3 == [a |-> {0, 3}, b |-> {1, 4}, c |-> {3}]
Line4 == [a |-> {0}, b |-> {1}, c |-> {3}, d |-> {6}]

TopicPatterns == {<<"a", "b">>, <<"+", "b">>, <<"a", "#">>, <<"#">>, <<"$SYS", "#">>}
TopicNames == {<<"a">>, <<"a", "b">>, <<"b", "b">>, <<"a", "b", "a">>, <<"$SYS", "b">>}
RoutePatterns == {<< >>, <<"a">>, <<"a", "b">>, <<"a", "+">>, <<"+", "b">>, <<"+", "c">>,
                  <<"#">>, <<"a", "#">>, <<"#", "a">>, <<"a", "b", "c">>}
RoutePaths == {<< >>, <<"a">>, <<"a", "b">>, <<"a", "c">>, <<"c", "b">>, <<"a", "b", "d">>,
               <<"a", "b", "c">>, <<"c", "d">>}

\* An array with a hole and a function in it, a table with mixed keys in an array, numbers
\* and keys at the limits of the casts; then beyond them.
LuaValues ==
    LET Num(n) == [t |-> "number", n |-> n]
        Str(s) == [t |-> "string", s |-> s]
    IN {[t |-> "table", f |-> Num(2) :> Num(9) @@ Num(3) :> [t |-> "function"] @@ Num(4) :>
            [t |-> "table", f |-> Num(1) :> Num(-9) @@ Str("a") :> [t |-> "table", f |-> << >>]
                                  @@ [t |-> "boolean"] :> Str("x")]],
        [t |-> "table", f |-> Num(1) :> Num(10) @@ Num(2) :> [t |-> "nan"] @@ Num(5) :> Num(1)]}

\* Requests: no table, no URL, a method of its own, headers by name, headers in an array.
LuaRequests ==
    LET Str(s) == [t |-> "string", s |-> s]
        Headers(h) == [t |-> "table", f |-> Str("url") :> Str("u") @@ Str("headers") :> [t |-> "table", f |-> h]]
    IN {Str("u"), [t |-> "table", f |-> << >>],
        [t |-> "table", f |-> Str("url") :> Str("u") @@ Str("method") :> Str("TRACE")],
        Headers(Str("a") :> Str("x") @@ Str("b") :> [t |-> "number", n |-> 1] @@ Str("c") :> [t |-> "boolean"]),
        Headers([t |-> "number", n |-> 1] :> Str("x"))}

-----------------------------------------------------------------------------
(* The parts. *)

\* Two streams, frames of no byte, one full segment and one full page.
Ogg == INSTANCE OggOpus WITH
    Lace <- 2, MaxSegments <- 2, FrameLens <- {0, 2, 4}, MaxFrames <- 2,
    MaxStreams <- 2, Writers <- {"opus", "ogg", "foreign"}, Readers <- {"opus", "sync"},
    MayFail <- TRUE, FirstBytes <- PacketHeads, writer <- x1, streams <- x2,
    queued <- x3, file <- x4, cut <- x5, finished <- x6, frames <- x7, reader <- x8,
    pos <- x9, pending <- x10, known_streams <- x11, eos_streams <- x12,
    continued <- x13, all_eos <- x14, got <- x15, outcome <- x16

\* Formats that keep the number of channels, or convert it without resampling; the
\* converter makes three frames of two.
Res == INSTANCE Resampler WITH
    Frames <- 5, Extra <- 1, Block <- 2, Produced <- 3, ReadLens <- {0, 2, 4, 7, 8},
    Formats <- Formats, MayFail <- TRUE, format <- x1, taken <- x2, buffered <- x3,
    lost <- x4, leftover <- x5, close_err <- x6, resampler <- x7, out <- x8,
    produced <- x9, given <- x10, result <- x11

\* Three frames after a tag; pieces of whole sample frames.
Mp3 == INSTANCE Mp3Codec WITH
    TagLen <- 1, FrameLen <- 2, FrameCount <- 3, PcmLen <- 3, SampleSize <- 2,
    InputCap <- 3, ReadLens <- {4, 10}, Channels <- 2, Chunks <- {2, 4}, PcmTotal <- 8,
    codec <- x1, offset <- x2, input_pos <- x3, input_len <- x4, frame <- x5,
    pcm_pos <- x6, pcm_len <- x7, call <- x8, played <- x9, ended <- x10, lame <- x11,
    enc_closed <- x12, held <- x13, written <- x14, given <- x15, failed <- x16

\* Two threads, audio shorter than a segment and not a multiple of it, two scripts.
Native == INSTANCE NativeHandles WITH
    Threads <- {"t1", "t2"}, FrameCounts <- {0, 3, 7}, SegFrames <- 4, HopFrames <- 2,
    Capacity <- 2, Configs <- {[in |-> 1, out |-> 0], [in |-> 0, out |-> 2], [in |-> 2, out |-> 1]},
    Channels <- 2, SampleCounts <- {0, 3, 4, 5, 6}, MaxDepth <- 3, MaxFaults <- 1,
    Scripts <- {"s1", "s2"}, MaxCalls <- 4, live <- x1, held <- x2, nul <- x3, closed <- x4, thread <- x5,
    pa <- x6, stream <- x7, touched <- x8, allowed <- x9, faults <- x10, calls <- x11,
    funcs <- x12, next_id <- x13, script <- x14

\* Conversations of one persona, new or with enough old segments to compact two of them.
Mem == INSTANCE Memory WITH
    Conv <- Conversations, MaxMessages <- 2, MaxChars <- 3, Limit <- <<1, 3>>, MaxResults <- 1,
    Earlier <- {0, 3}, MaxFaults <- MaxFaults, MaxCalls <- 2, MaxTime <- MaxTime, clock <- x1,
    msgs <- x2, revert <- x3, segs <- x4, sids <- x5, vec <- x6, graph <- x7, said <- x8,
    handle <- x9, removed <- x10, cut <- x11, host <- x12, torn <- x13

\* Three entities, two tasks.
Gr == INSTANCE Graph WITH
    Label <- {"a", "b", "c"}, Type <- {"t"}, Attr <- {"x"}, Task <- {"t1", "t2"},
    MaxOps <- 4, ents <- x1, fwd <- x2, rev <- x3, task <- x4, ops <- x5

\* Lists of two links on a layer.
Near == INSTANCE Hnsw WITH
    Vectors <- Vectors, M <- 2, Ef <- 3, MaxLevel <- 1, MaxOps <- 6, nodes <- x1,
    id_map <- x2, entry_id <- x3, max_level <- x4, free <- x5, ops <- x6

\* Patterns that overlap.
Topics == INSTANCE MqttTrie WITH
    Pattern <- TopicPatterns, Topic <- TopicNames, Val <- {1, 2}, MaxValues <- 2,
    node <- x1, inserted <- x2

\* Patterns that overlap, some refused.
Routes == INSTANCE PathTrie WITH
    Patterns <- RoutePatterns, Paths <- RoutePaths, Values <- {1}, trie <- x1,
    refused <- x2

\* Two modules that may require each other.
Luau == INSTANCE LuauRuntime WITH
    Modules <- {"a", "b"}, Modes <- {"sync", "async"}, OutCap <- 1, MaxEmits <- 2,
    MaxRuns <- 2, Keys <- {"", "k"}, Values <- LuaValues,
    Requests <- LuaRequests, MaxInt <- 9, MaxIndex <- 4, kind <- x1, files <- x2, cache <- x3, script <- x4, runs <- x5,
    slot <- x6, loaded <- x7, exports <- x8, loading <- x9, bodies <- x10,
    answer <- x11, skipped <- x12, input <- x13, output <- x14, emitted <- x15,
    collected <- x16, collector <- x17, kvs <- x18, stored <- x19, frame <- x20

ASSUME RuntimeConstants == Luau!RuntimeAssumption
ASSUME RingConstants == RingAssumption

-----------------------------------------------------------------------------
Idle16 == x17 = 0 /\ x18 = 0 /\ x19 = 0 /\ x20 = 0
Idle14 == x15 = 0 /\ x16 = 0 /\ Idle16
Idle13 == x14 = 0 /\ Idle14
Idle11 == x12 = 0 /\ x13 = 0 /\ Idle13
Idle6 == x7 = 0 /\ x8 = 0 /\ x9 = 0 /\ x10 = 0 /\ x11 = 0 /\ Idle11
Idle5 == x6 = 0 /\ Idle6
Idle2 == x3 = 0 /\ x4 = 0 /\ x5 = 0 /\ Idle5
Idle0 == x1 = 0 /\ x2 = 0 /\ Idle2

LibraryInit ==
    /\ part \in Parts
    /\ Init
    /\ part = "ring" => Idle0
    /\ part = "ogg" => Ogg!Init /\ Idle16
    /\ part = "resampler" => Res!Init /\ Idle11
    /\ part = "mp3" => Mp3!Init /\ Idle16
    /\ part = "native" => Native!Init /\ Idle14
    /\ part = "memory" => Mem!Init /\ Idle13
    /\ part = "graph" => Gr!Init /\ Idle5
    /\ part = "hnsw" => Near!Init /\ Idle6
    /\ part = "topics" => Topics!Init /\ Idle2
    /\ part = "paths" => Routes!Init /\ Idle2
    /\ part = "luau" => Luau!Init

LibraryNext ==
    \/ part = "ring" /\ Next /\ RingRest
    \/ part = "ogg" /\ Ogg!Next /\ Rest16
    \/ part = "resampler" /\ Res!Next /\ Rest11
    \/ part = "mp3" /\ Mp3!Next /\ Rest16
    \/ part = "native" /\ Native!Next /\ Rest14
    \/ part = "memory" /\ Mem!Next /\ Rest13
    \/ part = "graph" /\ Gr!Next /\ Rest5
    \/ part = "hnsw" /\ Near!Next /\ Rest6
    \/ part = "topics" /\ Topics!Next /\ Rest2
    \/ part = "paths" /\ Routes!Next /\ Rest2
    \/ part = "luau" /\ Luau!Next /\ Rest20

LibrarySpec == LibraryInit /\ [][LibraryNext]_library_vars

-----------------------------------------------------------------------------
(* Properties. *)

\* Whatever wrote a container or a compressed file and however it is cut into pieces,
\* what is read or converted is every frame and sample, once and in order, and the end
\* is reported only after the last one.  Two losses are excepted, since the code tells
\* nobody of them: what a failing flush of LAME drops, and the links of a chained Ogg
\* file behind the first.
CodecsReadBack ==
    /\ part = "ogg" => Ogg!ReadBack /\ Ogg!PagesNumbered
    /\ part = "ogg" /\ x4 = << >> => Ogg!LengthsAgree
    /\ part = "resampler" => Res!FramesKept
    /\ part = "mp3" => Mp3!DecodedInOrder /\ Mp3!EncodedInOrder

\* The objects of an ncnn model and of an audio stream are used only while they exist, no
\* native object is lost on an error path, an embedding covers all of the audio, and the
\* registry that Luau states share holds a function while it can be called.
NativeSafe ==
    part = "native" => /\ Native!UsedWhileAlive /\ Native!NoneOrphaned
                       /\ Native!WindowsCover /\ Native!RegistryOwned

\* A message is in its conversation or in a segment whatever fails or crashes, unless a
\* compaction was cut short between two deletions; a segment is found under its id and
\* what it tells of in the graph, and revert goes back to the last message of the user.
MemoryKept ==
    part = "memory" => Mem!Remembered /\ Mem!SegmentsKept /\ Mem!GraphComplete /\ Mem!RevertIsLastUser

\* What is stored is found.  Both ends of a relation agree whatever calls interleave,
\* and expand finds what can be reached; the search for a stored vector returns it,
\* from an entry point at the top; a lookup in a trie, which tries a level's
\* alternatives in turn and goes back, finds the most specific pattern that matches,
\* and remove undoes insert.
LookupsAnswer ==
    /\ part = "graph" => Gr!BothEnds /\ Gr!ExpandIsReach
    /\ part = "hnsw" => Near!EntryAtTop /\ Near!StoredIsFound
    /\ part = "topics" => Topics!GetIsFirstMatch /\ Topics!RemoveUndoesInsert
    /\ part = "paths" => Routes!MostSpecific

\* The body of a module runs once however often it is required, what an agent was told
\* is accepted is printed, in order, and values come back from the store and from JSON
\* as they were, as long as their numbers and indices are within the casts.
LuauRuns ==
    part = "luau" => Luau!BodiesRunOnce /\ Luau!AcceptedIsPrinted /\ Luau!ValuesReadBack

\* A path is found when a stored pattern covers it the way the documentation says ("Matches
\* zero or more path segments", docs/en/lib/trie/doc.md).
HashCoversNone == part = "paths" => Routes!HashCoversNone

\* A stored vector is the first that the search for it returns, with more vectors than
\* a list holds links.
CrowdedIsFound == part = "hnsw" => Near!StoredIsFound

\* A segment is found under its id when two conversations are compressed at once.
SegmentsKept == part = "memory" => Mem!SegmentsKept

\* Every frame comes through the conversion of the number of channels.
ChannelsKept == part = "resampler" => Res!FramesKept
=============================================================================
