------------------------------ MODULE OggOpus ------------------------------
(***************************************************************************)
(* Opus frames in an Ogg container: audio/src/codec/ogg and the packet     *)
(* source of genx/src/input/opus_ogg_stream.rs.                            *)
(*                                                                         *)
(* A file is written by OpusWriter (several streams, one frame to a page), *)
(* by OggEncoder (one stream, packets given with their flags), or by some  *)
(* other program that packs segments into pages as the format allows, and  *)
(* may chain files (a link begins when every stream before it has ended);  *)
(* it is read by OpusPacketReader under OpusOggStream, or page by page by  *)
(* OggSync.  A byte of a frame is the frame's number; a segment holds at   *)
(* most Lace bytes (255 in the code) and a page MaxSegments segments (255).*)
(* The disk may fill up, which cuts a page off at any of its bytes.  What  *)
(* the readers do depends on the pages alone, so they are run on the       *)
(* finished file.                                                          *)
(***************************************************************************)
EXTENDS Integers, Sequences, FiniteSets, SequencesExt

CONSTANTS
    Lace, MaxSegments,  \* the format's limits
    FrameLens,          \* the lengths of the frames that are written
    MaxFrames,          \* frames written to a file
    MaxStreams,         \* streams begun in a file
    Writers,            \* a subset of {"opus", "ogg", "foreign"}
    Readers,            \* a subset of {"opus", "sync"}
    MayFail,            \* whether the disk may fill up
    FirstBytes          \* beginnings of packets: sequences of at most two bytes

VARIABLES
    writer,     \* which program writes
    streams,    \* serial_no -> the writer's record of the stream
    queued,     \* serial_no -> segments another program has not yet put in a page
    file,       \* the pages
    cut,        \* what follows the last page: "nothing", a piece of a "header" or of a "body"
    finished,   \* no more pages will come
    frames,     \* serial_no -> the frames that were accepted: number, length, granule
    reader,     \* which reader
    pos,        \* pages read
    pending,    \* packets read and not yet delivered
    known_streams, eos_streams, continued, all_eos,
    got,        \* packets (OggSync: pages) delivered
    outcome     \* "reading", "end", "empty", "error", "closed"

writing == <<writer, streams, queued, file, cut, finished, frames>>
reading == <<reader, pos, pending, known_streams, eos_streams, continued, all_eos, got, outcome>>
vars == <<writing, reading>>

Serial == DOMAIN streams
Frame(i, len) == [k \in 1 .. len |-> <<"frame", i>>]
OpusHead == << <<"head", 0>> >>
OpusTags == << <<"tags", 0>> >>
IsHeader(p) == p # << >> /\ p[1][1] # "frame"

FrameCount == Len(FlattenSeq([s \in 1 .. Cardinality(Serial) |-> frames[s]]))

Init ==
    /\ writer \in Writers /\ reader \in Readers
    /\ streams = << >> /\ queued = << >> /\ file = << >> /\ cut = "nothing"
    /\ finished = FALSE /\ frames = << >>
    /\ pos = 0 /\ pending = << >> /\ known_streams = {} /\ eos_streams = {}
    /\ continued = << >> /\ all_eos = FALSE /\ got = << >> /\ outcome = "reading"

-----------------------------------------------------------------------------
(* Pages.                                                                  *)

\* Not the code: a packet of exactly k * Lace bytes without its closing segment.
NSegmentsTight(len) ==
    IF len > 0 THEN (len + Lace - 1) \div Lace ELSE 1

\* The number of segments of a payload.
NSegments(len) ==
    IF len > 0 THEN len \div Lace + 1 ELSE 1

\* create_page: the payload is one packet, in one page.
CreatePage(payload, type, granule, index, serial) ==
    LET len == Len(payload)
        n == NSegments(len)
    IN  [serial |-> serial, type |-> type, granule |-> granule, index |-> index,
         table |-> [i \in 1 .. n |-> IF i < n THEN Lace ELSE len - (n - 1) * Lace],
         payload |-> payload]

\* OggEncoder::write_packet: the segment table by repeated subtraction.
PacketPage(data, type, granule, index) ==
    LET full == Len(data) \div Lace
    IN  [serial |-> 1, type |-> type, granule |-> granule, index |-> index,
         table |-> Append([i \in 1 .. full |-> Lace], Len(data) - full * Lace),
         payload |-> data]

\* write_all of several pages: the first n get to the disk, and if that is not
\* all, a piece of the next one.
Emit(pages, n) ==
    /\ file' = file \o SubSeq(pages, 1, n)
    /\ IF n = Len(pages) THEN cut' = cut
       ELSE MayFail /\ cut' \in {"header", "body"}

\* How many of the pages get to the disk; none, once a write has failed.
Emitted(pages) ==
    IF cut = "nothing" THEN 0 .. Len(pages) ELSE {0}

-----------------------------------------------------------------------------
(* OpusWriter.                                                             *)

\* Not the code: a stream is begun at any time.
StreamBeginAnytime ==
    /\ writer = "opus" /\ ~finished /\ cut = "nothing"
    /\ Cardinality(Serial) < MaxStreams
    /\ LET s == Cardinality(Serial) + 1
       IN  \E n \in Emitted(<<1>>) :
             /\ Emit(<<CreatePage(OpusHead, {"bos"}, 0, 0, s)>>, n)
             /\ IF n = 1
                THEN /\ streams' = Append(streams, [granule |-> 0, index |-> 1, tags |-> FALSE, ended |-> FALSE, link |-> 1])
                     /\ frames' = Append(frames, << >>)
                ELSE UNCHANGED <<streams, frames>>
    /\ UNCHANGED <<writer, queued, finished, reading>>

\* stream_begin, also from new: refused once any stream has written its tags;
\* the serial number is the number of streams so far plus one.
StreamBegin ==
    /\ writer = "opus" /\ ~finished /\ cut = "nothing"
    /\ Cardinality(Serial) < MaxStreams
    /\ \A s \in Serial : ~streams[s].tags
    /\ LET s == Cardinality(Serial) + 1
       IN  \E n \in Emitted(<<1>>) :
             /\ Emit(<<CreatePage(OpusHead, {"bos"}, 0, 0, s)>>, n)
             /\ IF n = 1
                THEN /\ streams' = Append(streams, [granule |-> 0, index |-> 1, tags |-> FALSE, ended |-> FALSE, link |-> 1])
                     /\ frames' = Append(frames, << >>)
                ELSE UNCHANGED <<streams, frames>>
    /\ UNCHANGED <<writer, queued, finished, reading>>

\* write_tags_page_for: the tags, once, before whatever comes first.
TagsPages(s) ==
    IF streams[s].tags THEN << >> ELSE <<CreatePage(OpusTags, {}, 0, streams[s].index, s)>>

\* stream_write (write_frame for the first stream) of a frame that fits a page.
StreamWrite(s, len) ==
    LET st == streams[s]
        tags == TagsPages(s)
        index == st.index + Len(tags)
        i == FrameCount + 1
        page == CreatePage(Frame(i, len), {}, st.granule + 1, index, s)
    IN  /\ writer = "opus" /\ ~finished /\ ~st.ended
        /\ FrameCount < MaxFrames /\ st.granule < MaxFrames
        /\ NSegments(len) <= MaxSegments
        /\ \E n \in Emitted(Append(tags, page)) :
             /\ Emit(Append(tags, page), n)
             /\ IF n < Len(tags) THEN UNCHANGED streams
                ELSE streams' = [streams EXCEPT ![s] =
                         [granule |-> @.granule + 1, index |-> index + 1, tags |-> TRUE, ended |-> FALSE, link |-> 1]]
             /\ frames' = IF n = Len(tags) + 1 THEN [frames EXCEPT ![s] = Append(@, <<i, len, st.granule + 1>>)]
                          ELSE frames
        /\ UNCHANGED <<writer, queued, finished, reading>>

\* What stream_end writes: nothing for a stream that has ended.
EndPages(s) ==
    IF streams[s].ended THEN << >>
    ELSE TagsPages(s) \o
         <<CreatePage(<< >>, {"eos"}, streams[s].granule, streams[s].index + Len(TagsPages(s)), s)>>

\* stream_end.
StreamEnd(s) ==
    /\ writer = "opus" /\ ~finished /\ ~streams[s].ended
    /\ \E n \in Emitted(EndPages(s)) :
         /\ Emit(EndPages(s), n)
         /\ IF n < Len(TagsPages(s)) THEN UNCHANGED streams
            ELSE streams' = [streams EXCEPT ![s].tags = TRUE, ![s].ended = TRUE,
                                            ![s].index = @ + Len(TagsPages(s)) + Len(TagsPages(s))]
    /\ UNCHANGED <<writer, queued, finished, frames, reading>>

\* close and drop: every stream is ended, in whatever order the map has, and
\* an error does not keep the others from being ended.
Close ==
    /\ writer = "opus" /\ ~finished
    /\ \E order \in {f \in [1 .. Cardinality(Serial) -> Serial] : IsInjective(f)} :
         LET pages == FlattenSeq([k \in 1 .. Cardinality(Serial) |-> EndPages(order[k])])
         IN  \E n \in Emitted(pages) : Emit(pages, n)
    /\ finished' = TRUE
    /\ UNCHANGED <<writer, streams, queued, frames, reading>>

\* stream_write of a frame too large for a page: the assertion unwinds, after
\* the tags are out, and drop ends every stream.
StreamWritePanics(s, len) ==
    /\ writer = "opus" /\ ~finished /\ ~streams[s].ended
    /\ NSegments(len) > MaxSegments
    /\ LET before == TagsPages(s)
           ends == FlattenSeq([t \in Serial |-> IF t = s THEN SubSeq(EndPages(t), Len(before) + 1, Len(EndPages(t)))
                                                ELSE EndPages(t)])
       IN  \E n \in Emitted(before \o ends) : Emit(before \o ends, n)
    /\ finished' = TRUE
    /\ UNCHANGED <<writer, streams, queued, frames, reading>>

-----------------------------------------------------------------------------
(* OggEncoder: the caller passes the headers and the flags.                *)

\* write_packet: the first packet begins the stream, the second has the tags,
\* the caller marks the last one; sequence and granule count on.
WritePacket(len, eos) ==
    LET k == Len(file)
        i == FrameCount + 1
        data == IF k = 0 THEN OpusHead ELSE IF k = 1 THEN OpusTags ELSE Frame(i, len)
        type == IF k = 0 THEN {"bos"} ELSE IF eos THEN {"eos"} ELSE {}
        granule == IF k < 2 THEN 0 ELSE FrameCount + 1
    IN  /\ writer = "ogg" /\ ~finished /\ FrameCount < MaxFrames
        /\ (k < 2 => ~eos) /\ len \div Lace + 1 <= MaxSegments
        /\ \E n \in Emitted(<<1>>) :
             /\ Emit(<<PacketPage(data, type, granule, k)>>, n)
             /\ frames' = IF k = 0 THEN << << >> >>
                          ELSE IF k >= 2 /\ n = 1 THEN << Append(frames[1], <<i, len, granule>>) >>
                          ELSE frames
             /\ streams' = <<[granule |-> granule, index |-> k + 1, tags |-> k >= 1, ended |-> eos, link |-> 1]>>
             /\ finished' = (eos \/ n = 0)
        /\ UNCHANGED <<writer, queued, reading>>

\* into_inner: the caller is done, whether or not it marked a last packet.
IntoInner ==
    /\ writer = "ogg" /\ ~finished
    /\ finished' = TRUE
    /\ UNCHANGED <<writer, streams, queued, file, cut, frames, reading>>

-----------------------------------------------------------------------------
(* A file from elsewhere: packets cut into segments, segments put into     *)
(* pages as they come, a packet running over from page to page.            *)

\* A stream begins before the data of its link, or begins the next link.
ForeignBegin ==
    /\ writer = "foreign" /\ ~finished /\ Cardinality(Serial) < MaxStreams
    /\ LET s == Cardinality(Serial) + 1
           link == 1 + Cardinality({streams[t].link : t \in {u \in Serial : streams[u].ended}})
       IN  /\ \A t \in Serial : IF streams[t].link = link THEN ~streams[t].tags ELSE streams[t].ended
           /\ file' = Append(file, CreatePage(OpusHead, {"bos"}, 0, 0, s))
           /\ streams' = Append(streams, [granule |-> 0, index |-> 1, tags |-> FALSE, ended |-> FALSE, link |-> link])
           /\ queued' = Append(queued, << [start |-> TRUE, data |-> OpusTags, granule |-> 0] >>)
           /\ frames' = Append(frames, << >>)
    /\ UNCHANGED <<writer, cut, finished, reading>>

ForeignPacket(s, len) ==
    LET i == FrameCount + 1
        g == streams[s].granule + 1
        n == len \div Lace + 1
        segment(k) == [start |-> k = 1, granule |-> g,
                       data |-> SubSeq(Frame(i, len), (k - 1) * Lace + 1, IF k < n THEN k * Lace ELSE len)]
    IN  /\ writer = "foreign" /\ ~streams[s].ended /\ FrameCount < MaxFrames /\ len > 0
        /\ queued' = [queued EXCEPT ![s] = @ \o [k \in 1 .. n |-> segment(k)]]
        /\ streams' = [streams EXCEPT ![s].granule = g]
        /\ frames' = [frames EXCEPT ![s] = Append(@, <<i, len, g>>)]
        /\ UNCHANGED <<writer, file, cut, finished, reading>>

ForeignPage(s, n, eos) ==
    LET segments == SubSeq(queued[s], 1, n)
        done == {k \in 1 .. n : Len(segments[k].data) < Lace}
    IN  /\ writer = "foreign" /\ ~streams[s].ended
        /\ n \in 1 .. MaxSegments /\ n <= Len(queued[s]) /\ (eos => n = Len(queued[s]))
        /\ file' = Append(file, [serial |-> s, index |-> streams[s].index,
                type |-> (IF segments[1].start THEN {} ELSE {"cont"}) \cup (IF eos THEN {"eos"} ELSE {}),
                granule |-> IF done = {} THEN -1 ELSE segments[CHOOSE k \in done : \A j \in done : j <= k].granule,
                table |-> [k \in 1 .. n |-> Len(segments[k].data)],
                payload |-> FlattenSeq([k \in 1 .. n |-> segments[k].data])])
        /\ queued' = [queued EXCEPT ![s] = SubSeq(@, n + 1, Len(@))]
        /\ streams' = [streams EXCEPT ![s].tags = TRUE, ![s].index = @ + 1, ![s].ended = eos]
        /\ UNCHANGED <<writer, cut, finished, frames, reading>>

ForeignDone ==
    /\ writer = "foreign" /\ ~finished /\ Serial # {} /\ \A s \in Serial : streams[s].ended
    /\ finished' = TRUE
    /\ UNCHANGED <<writer, streams, queued, file, cut, frames, reading>>

-----------------------------------------------------------------------------
(* OpusPacketReader and OpusOggStream.                                     *)

\* The packets a page completes, after what an earlier page left, and the rest.
Packets(page, carried) ==
    LET step(acc, lacing) ==
            LET current == acc.current \o SubSeq(page.payload, acc.offset + 1, acc.offset + lacing)
                ends == lacing < Lace /\ current # << >>
            IN  [offset |-> acc.offset + lacing,
                 current |-> IF ends THEN << >> ELSE current,
                 packets |-> IF ends THEN Append(acc.packets, current) ELSE acc.packets]
    IN  FoldLeft(step, [offset |-> 0, current |-> carried, packets |-> << >>], page.table)

\* Not the code: one continued packet for the whole file.
CarriedAny(page) ==
    IF "cont" \in page.type /\ DOMAIN continued # {}
    THEN continued[CHOOSE s \in DOMAIN continued : TRUE] ELSE << >>

\* A continued page takes up what its own stream left behind.
Carried(page) ==
    IF "cont" \in page.type /\ page.serial \in DOMAIN continued THEN continued[page.serial] ELSE << >>

\* Not the code: the first stream to end ends the file.
AllEosFirst(page) ==
    all_eos \/ "eos" \in page.type

\* The file has ended when every stream begun so far has ended.
AllEos(page) ==
    all_eos \/ /\ "eos" \in page.type /\ known_streams # {}
               /\ Cardinality(eos_streams \cup {page.serial}) >= Cardinality(known_streams)

\* read_page: a page that begins a stream is only noted; the packets of any
\* other are queued, all but the last without a granule.
ReadPage ==
    LET page == file[pos + 1]
        s == page.serial
        r == Packets(page, Carried(page))
        n == Len(r.packets)
        packet(i) == [data |-> r.packets[i], granule |-> IF i = n THEN page.granule ELSE -1, serial |-> s]
    IN  /\ pos < Len(file) /\ pos' = pos + 1
        /\ IF "bos" \in page.type
           THEN /\ known_streams' = known_streams \cup {s}
                /\ eos_streams' = IF "eos" \in page.type THEN eos_streams \cup {s} ELSE eos_streams
                /\ UNCHANGED <<pending, continued, all_eos>>
           ELSE /\ continued' = [t \in (DOMAIN continued \ {s}) \cup (IF r.current # << >> THEN {s} ELSE {}) |->
                                   IF t = s THEN r.current ELSE continued[t]]
                /\ eos_streams' = IF "eos" \in page.type THEN eos_streams \cup {s} ELSE eos_streams
                /\ all_eos' = AllEos(page)
                /\ pending' = pending \o SelectSeq([i \in 1 .. n |-> packet(i)], LAMBDA p : ~IsHeader(p.data))
                /\ UNCHANGED known_streams
        /\ UNCHANGED <<got, outcome>>

\* The end of the file: clean between pages and within a page header, an
\* error within a page.
EndOfFile ==
    /\ pos = Len(file)
    /\ outcome' = IF cut = "body" THEN "error"
                  ELSE IF reader = "opus" /\ got = << >> THEN "empty" ELSE "end"
    /\ UNCHANGED <<pos, pending, known_streams, eos_streams, continued, all_eos, got>>

\* The iterator ends when every stream has.
Exhausted ==
    /\ pending = << >> /\ all_eos
    /\ outcome' = IF got = << >> THEN "empty" ELSE "end"
    /\ UNCHANGED <<pos, pending, known_streams, eos_streams, continued, all_eos, got>>

\* read_packet: a queued packet first, then the end, then another page.
ReadPacket ==
    \/ /\ pending # << >>
       /\ got' = Append(got, Head(pending)) /\ pending' = Tail(pending)
       /\ UNCHANGED <<pos, known_streams, eos_streams, continued, all_eos, outcome>>
    \/ Exhausted
    \/ pending = << >> /\ ~all_eos /\ (ReadPage \/ EndOfFile)

\* next of the stream: as long as it is open and has not ended.
NextChunk ==
    /\ reader = "opus" /\ finished /\ outcome = "reading"
    /\ ReadPacket
    /\ UNCHANGED <<writing, reader>>

\* close and close_with_error of the stream: next fails from now on.
CloseStream ==
    /\ reader = "opus" /\ finished /\ outcome = "reading"
    /\ outcome' = "closed"
    /\ UNCHANGED <<writing, reader, pos, pending, known_streams, eos_streams, continued, all_eos, got>>

\* OggSync::read_page.
SyncPage ==
    /\ reader = "sync" /\ finished /\ outcome = "reading"
    /\ \/ /\ pos < Len(file) /\ pos' = pos + 1
          /\ got' = Append(got, file[pos + 1])
          /\ UNCHANGED <<pending, known_streams, eos_streams, continued, all_eos, outcome>>
       \/ EndOfFile
    /\ UNCHANGED <<writing, reader>>

-----------------------------------------------------------------------------
(* What the first bytes of an Opus packet say about it                     *)
(* (audio/src/codec/opus/toc.rs and frame.rs): the configuration, the      *)
(* number of frames, their length in microseconds, the samples at the      *)
(* coded bandwidth and the step of an Ogg page's granule.                  *)

\* toc: an empty packet has the byte 0.
Toc(p) == IF p = << >> THEN 0 ELSE p[1]
Configuration(p) == Toc(p) \div 8
FrameCode(p) == Toc(p) % 4

\* bandwidth and its sample_rate, by configuration.
SampleRate(c) ==
    CASE c \in 0 .. 3 \cup 16 .. 19 -> 8000
      [] c \in 4 .. 7 -> 12000
      [] c \in 8 .. 11 \cup 20 .. 23 -> 16000
      [] c \in 12 .. 13 \cup 24 .. 27 -> 24000
      [] OTHER -> 48000

\* mode.
Mode(c) == IF c <= 11 THEN "Silk" ELSE IF c <= 15 THEN "Hybrid" ELSE "CELT"

\* Not the code: the hybrid configurations in the order of the others.
FrameDurationShifted(c) ==
    CASE c \in {16, 20, 24, 28} -> 2500
      [] c \in {17, 21, 25, 29} -> 5000
      [] c \in {0, 4, 8, 12, 18, 22, 26, 30} -> 10000
      [] c \in {1, 5, 9, 13, 19, 23, 27, 31} -> 20000
      [] c \in {2, 6, 10, 14} -> 40000
      [] OTHER -> 60000

\* frame_duration.
FrameDuration(c) ==
    CASE c \in {16, 20, 24, 28} -> 2500
      [] c \in {17, 21, 25, 29} -> 5000
      [] c \in {0, 4, 8, 12, 14, 18, 22, 26, 30} -> 10000
      [] c \in {1, 5, 9, 13, 15, 19, 23, 27, 31} -> 20000
      [] c \in {2, 6, 10} -> 40000
      [] OTHER -> 60000

\* samples.
Samples(c) ==
    << 80, 160, 320, 480, 120, 240, 480, 720, 160, 320, 640, 960,
       240, 480, 480, 960,
       20, 40, 80, 120, 40, 80, 160, 240, 60, 120, 240, 480, 120, 240, 480, 960 >>[c + 1]

\* page_granule_increment.
PageGranuleIncrement(c) ==
    CASE c \in {16, 20, 24, 28} -> 120
      [] c \in {17, 21, 25, 29} -> 240
      [] c \in {0, 4, 8, 12, 14, 18, 22, 26, 30} -> 480
      [] c \in {1, 5, 9, 13, 15, 19, 23, 27, 31} -> 960
      [] c \in {2, 6, 10} -> 1920
      [] OTHER -> 2880

\* parse_frame_count_byte, and the count in duration: six bits.
CountOf(byte) == byte % 64

\* duration of a packet: one frame, two, or as many as the second byte says.
Duration(p) ==
    LET fd == FrameDuration(Configuration(p))
    IN  IF p = << >> THEN 0
        ELSE CASE FrameCode(p) = 0 -> fd
               [] FrameCode(p) \in {1, 2} -> 2 * fd
               [] OTHER -> IF Len(p) < 2 THEN 0 ELSE fd * CountOf(p[2])

-----------------------------------------------------------------------------
Next ==
    \/ StreamBegin \/ Close
    \/ \E s \in Serial : \/ StreamEnd(s)
                         \/ \E len \in FrameLens :
                              StreamWrite(s, len) \/ StreamWritePanics(s, len) \/ ForeignPacket(s, len)
                         \/ \E n \in 1 .. MaxSegments, eos \in BOOLEAN : ForeignPage(s, n, eos)
    \/ \E len \in FrameLens, eos \in BOOLEAN : WritePacket(len, eos)
    \/ IntoInner \/ ForeignBegin \/ ForeignDone
    \/ NextChunk \/ CloseStream \/ SyncPage

Spec == Init /\ [][Next]_vars

-----------------------------------------------------------------------------
(* What is read is what was written.                                       *)

\* The frames of one stream a reader should see: an empty one is not a packet.
Readable(s) == SelectSeq(frames[s], LAMBDA f : f[2] > 0)

\* A delivered packet is the frame it should be.
IsFrame(p, f) ==
    /\ p.data = Frame(f[1], f[2])
    /\ p.granule \in {f[3], -1}

\* Whatever program wrote the file and however its packets lie in pages, the
\* packets delivered for a stream are that stream's frames, whole, in order
\* and with their granules; when the reader reports the end of a file that
\* was written to its end, none of the first link is missing, however its
\* streams are interleaved; it calls the file empty only if there was no frame
\* there (opus_writer.rs:133, opus_reader.rs:68).  Of a chained file the reader
\* gives the first link and nothing of the others (opus_reader.rs:146).
ReadBack ==
    reader = "opus" =>
      /\ \A s \in Serial :
           LET mine == SelectSeq(got, LAMBDA p : p.serial = s)
           IN  /\ Len(mine) <= Len(Readable(s))
               /\ \A i \in 1 .. Len(mine) : IsFrame(mine[i], Readable(s)[i])
               /\ outcome = "end" /\ cut = "nothing" =>
                    Len(mine) = IF streams[s].link = 1 THEN Len(Readable(s)) ELSE 0
      /\ outcome = "empty" /\ cut = "nothing" =>
           \A s \in Serial : streams[s].link = 1 => Readable(s) = << >>

\* Not so: every link of a chained file is read.
LinksRead ==
    reader = "opus" /\ outcome \in {"end", "empty"} /\ cut = "nothing" =>
      \A s \in Serial : Len(SelectSeq(got, LAMBDA p : p.serial = s)) = Len(Readable(s))

\* The pages of a stream are numbered without a gap: its beginning, its tags,
\* its frames, and one end (opus_writer.rs:118, :160, :222).
PagesNumbered ==
    \A s \in Serial :
      LET mine == SelectSeq(file, LAMBDA p : p.serial = s)
      IN  /\ \A i \in 1 .. Len(mine) : mine[i].index = i - 1
          /\ \A i \in 1 .. Len(mine) - 1 : "eos" \notin mine[i].type

\* What the tables say of a packet agrees: the step of the granule is the frame's
\* length at 48 kHz, and the frames of a packet are whole multiples of it; only
\* CELT has frames under 10 ms and only SILK frames over 20 ms (toc.rs:87, :128).
LengthsAgree ==
    \A p \in FirstBytes :
      LET c == Configuration(p)
          fd == FrameDuration(c)
      IN  /\ PageGranuleIncrement(c) * 125 = fd * 6
          /\ (p # << >> => Duration(p) % fd = 0)
          /\ (fd < 10000 => Mode(c) = "CELT")
          /\ (fd > 20000 => Mode(c) = "Silk")

\* The samples of a configuration are its frame length at the rate of its
\* bandwidth (toc.rs:99).
SamplesAgree ==
    \A p \in FirstBytes :
      LET c == Configuration(p)
      IN  Samples(c) * 1000000 = FrameDuration(c) * SampleRate(c)
=============================================================================
