------------------------------ MODULE Mp3Codec ------------------------------
(***************************************************************************)
(* The MP3 decoder and encoder of audio/src/codec/mp3.                     *)
(*                                                                         *)
(* The decoder reads bytes from a source into a buffer, has minimp3        *)
(* (external) decode the frame at the front of it, and copies the PCM      *)
(* samples out into the caller's buffer: a loop within read.  The encoder  *)
(* hands PCM to LAME (external), which keeps some back, and writes what    *)
(* LAME returns.  Samples are numbered; lengths are scaled down.           *)
(***************************************************************************)
EXTENDS Integers, Sequences, SequencesExt, FiniteSetsExt

CONSTANTS
    TagLen,         \* bytes before the first frame, which minimp3 skips
    FrameLen,       \* bytes of a frame
    FrameCount,     \* frames in the source
    PcmLen,         \* samples a frame decodes to
    SampleSize,     \* bytes of a sample of all channels
    InputCap,       \* size of input_buf (16 K)
    ReadLens,       \* sizes of the buffers read is called with
    Channels,       \* of the encoder
    Chunks,         \* lengths of the pieces the encoder is given, in samples
    PcmTotal        \* samples the encoder is given

VARIABLES
    codec,          \* which of the two is looked at
    offset,         \* bytes of the source before input_buf
    input_pos, input_len,
    frame,          \* the frame in pcm
    pcm_pos, pcm_len,
    call,           \* the running read: its buffer's length and total_read
    played,         \* samples delivered: <<frame, sample>>
    ended,          \* the last read returned nothing

    lame,           \* "none", "open", "freed"
    enc_closed,     \* closed
    held,           \* frames LAME keeps
    written,        \* frames written
    given,          \* samples passed to write
    failed          \* failures of the encoder that the caller was "told" of, and "untold" ones

decoder == <<offset, input_pos, input_len, frame, pcm_pos, pcm_len, call, played, ended>>
encoder == <<lame, enc_closed, held, written, given, failed>>
vars == <<codec, decoder, encoder>>

Idle == [len |-> 0, total |-> 0]
SourceLen == TagLen + FrameCount * FrameLen
Least(a, b) == Min({a, b})

Init ==
    /\ codec \in {"decoder", "encoder"}
    /\ offset = 0 /\ input_pos = 0 /\ input_len = 0
    /\ frame = 0 /\ pcm_pos = 0 /\ pcm_len = 0
    /\ call = Idle /\ played = << >> /\ ended = FALSE
    /\ lame = "none" /\ enc_closed = FALSE /\ held = << >> /\ written = << >>
    /\ given = 0 /\ failed = {}

-----------------------------------------------------------------------------
(* The decoder: read, one turn of its loop at a time.                      *)

Read(len) ==
    /\ call = Idle /\ ~ended
    /\ call' = [len |-> len, total |-> 0]
    /\ UNCHANGED <<offset, input_pos, input_len, frame, pcm_pos, pcm_len, played, ended, encoder>>

\* The samples copy_pcm has room for.
Copyable == Least((call.len - call.total) \div SampleSize, pcm_len - pcm_pos)

\* copy_pcm.
CopyPcm ==
    /\ call # Idle /\ Copyable > 0
    /\ played' = played \o [i \in 1 .. Copyable |-> <<frame, pcm_pos + i>>]
    /\ pcm_pos' = pcm_pos + Copyable
    /\ call' = [call EXCEPT !.total = @ + Copyable * SampleSize]
    /\ UNCHANGED <<offset, input_pos, input_len, frame, pcm_len, ended, encoder>>

\* read returns what it has.
Return ==
    /\ call' = Idle
    /\ ended' = (call.total = 0)

\* The buffer is full.
ReadFull ==
    /\ call # Idle /\ call.total = call.len
    /\ Return
    /\ UNCHANGED <<offset, input_pos, input_len, frame, pcm_pos, pcm_len, played, encoder>>

\* What a read of the source into room bytes may return.
Sourced(room) ==
    LET most == Least(room, SourceLen - offset - input_len)
    IN  Least(1, most) .. most

Decoding == call # Idle /\ Copyable = 0 /\ call.total < call.len

\* refill_input: everything was used; nothing more ends the read.
RefillInput ==
    /\ Decoding /\ input_pos >= input_len
    /\ \E n \in Sourced(InputCap) :
             /\ offset' = offset + input_len /\ input_pos' = 0 /\ input_len' = n
             /\ IF n = 0 THEN Return ELSE UNCHANGED <<call, ended>>
    /\ UNCHANGED <<frame, pcm_pos, pcm_len, played, encoder>>

\* mp3dec_decode_frame at the front of the buffer: bytes it skips, a frame, or
\* nothing because the frame is not all there.
Decoded ==
    LET at == offset + input_pos
        have == input_len - input_pos
    IN  IF at < TagLen THEN [bytes |-> Least(TagLen - at, have), samples |-> 0]
        ELSE IF have >= FrameLen THEN [bytes |-> FrameLen, samples |-> PcmLen]
        ELSE [bytes |-> 0, samples |-> 0]

\* decode_frame: a frame replaces the samples of the one before.
DecodeFrame ==
    /\ Decoding /\ input_pos < input_len /\ Decoded.bytes > 0
    /\ input_pos' = input_pos + Decoded.bytes
    /\ IF Decoded.samples > 0
       THEN /\ frame' = (offset + input_pos - TagLen) \div FrameLen + 1
            /\ pcm_pos' = 0 /\ pcm_len' = Decoded.samples
       ELSE UNCHANGED <<frame, pcm_pos, pcm_len>>
    /\ UNCHANGED <<offset, input_len, call, played, ended, encoder>>

\* Not the code: the buffer is refilled without keeping the piece of a frame.
ShiftForgets ==
    /\ Decoding /\ input_pos < input_len /\ Decoded.bytes = 0
    /\ \E n \in Sourced(InputCap) :
         /\ offset' = offset + input_len /\ input_pos' = 0
         /\ input_len' = n
         /\ IF n = 0 THEN Return ELSE UNCHANGED <<call, ended>>
    /\ UNCHANGED <<frame, pcm_pos, pcm_len, played, encoder>>

\* shift_and_refill: the piece of a frame moves to the front.
ShiftAndRefill ==
    /\ Decoding /\ input_pos < input_len /\ Decoded.bytes = 0
    /\ \E n \in Sourced(InputCap - (input_len - input_pos)) :
         /\ offset' = offset + input_pos /\ input_pos' = 0
         /\ input_len' = input_len - input_pos + n
         /\ IF n = 0 THEN Return ELSE UNCHANGED <<call, ended>>
    /\ UNCHANGED <<frame, pcm_pos, pcm_len, played, encoder>>

-----------------------------------------------------------------------------
(* The encoder.                                                            *)

\* init: LAME is opened at the first write; it may fail.
Opened == IF lame = "none" THEN {"none", "open"} ELSE {lame}

\* write of the next k samples, whole frames of all channels; LAME keeps some
\* of what it has, and the writer may fail.
WritePcm(k) ==
    /\ ~enc_closed /\ "told" \notin failed /\ k <= PcmTotal - given
    /\ \E h \in Opened :
         /\ lame' = h
         /\ LET frames == [i \in 1 .. k \div Channels |->
                              [c \in 1 .. Channels |-> given + (i - 1) * Channels + c]]
                all == held \o frames
            IN  IF h = "none" THEN failed' = failed \cup {"told"} /\ UNCHANGED <<held, written>>
                ELSE \E keep \in 0 .. Len(all) :
                       /\ held' = SubSeq(all, Len(all) - keep + 1, Len(all))
                       /\ \/ failed' = failed /\ written' = written \o SubSeq(all, 1, Len(all) - keep)
                          \/ keep < Len(all) /\ failed' = failed \cup {"told"} /\ UNCHANGED written
         /\ given' = given + k
    /\ UNCHANGED <<enc_closed, decoder>>

\* flush: what LAME keeps is written; nothing before the first write.  An error
\* of the writer is returned, one of LAME, which consumes what it keeps, is not.
FlushPcm ==
    /\ lame = "open" /\ ~enc_closed /\ "told" \notin failed
    /\ held' = << >>
    /\ \/ failed' = failed /\ written' = written \o held
       \/ held # << >> /\ (\E f \in {"told", "untold"} : failed' = failed \cup {f}) /\ UNCHANGED written
    /\ UNCHANGED <<lame, enc_closed, given, decoder>>

\* Not the code: LAME is closed before it is flushed.
ClosePcmUnflushed ==
    /\ ~enc_closed /\ enc_closed' = TRUE
    /\ held' = << >> /\ lame' = IF lame = "open" THEN "freed" ELSE lame
    /\ UNCHANGED <<given, written, failed, decoder>>

\* close: flushed and closed at once; LAME is freed whatever the flush does.
ClosePcm ==
    /\ ~enc_closed /\ enc_closed' = TRUE
    /\ held' = << >> /\ lame' = IF lame = "open" THEN "freed" ELSE lame
    /\ \/ failed' = failed /\ written' = written \o held
       \/ held # << >> /\ failed' = failed \cup {"told"} /\ UNCHANGED written
    /\ UNCHANGED <<given, decoder>>

\* drop: LAME is freed, unflushed.
Drop ==
    /\ lame = "open" /\ "told" \in failed
    /\ lame' = "freed" /\ enc_closed' = TRUE /\ held' = << >>
    /\ UNCHANGED <<written, given, failed, decoder>>

\* encode_pcm_stream: the source piece by piece, closed at its end, dropped at
\* an error; a caller of its own may flush in between.
EncodePcmStream ==
    \/ \E k \in Chunks : WritePcm(k)
    \/ FlushPcm
    \/ given = PcmTotal /\ "told" \notin failed /\ ClosePcm
    \/ Drop

Next ==
    /\ codec' = codec
    /\ \/ /\ codec = "decoder"
          /\ \/ \E len \in ReadLens : Read(len)
             \/ CopyPcm \/ ReadFull \/ RefillInput \/ DecodeFrame \/ ShiftAndRefill
       \/ codec = "encoder" /\ EncodePcmStream

Spec == Init /\ [][Next]_vars

-----------------------------------------------------------------------------
AllSamples == [k \in 1 .. FrameCount * PcmLen |-> <<(k - 1) \div PcmLen + 1, ((k - 1) % PcmLen) + 1>>]

\* Whatever pieces the source returns and however a frame lies across the
\* buffer, every sample of every frame is delivered once and in order, and
\* read only reports the end after the last one (decoder.rs:176).
DecodedInOrder ==
    /\ IsPrefix(played, AllSamples)
    /\ ended => played = AllSamples

\* The frames written are frames of the samples given, in order and each channel
\* in its place; none is missing between them, and once close has returned
\* without any error all of them are there, unless a flush of LAME failed, which
\* nobody is told; and LAME is freed (encoder.rs:193, :258, :288).
EncodedInOrder ==
    /\ \A i \in 1 .. Len(written) : \A c \in 1 .. Channels : (written[i][c] - c) % Channels = 0
    /\ \A i \in 1 .. Len(written) - 1 : written[i][1] < written[i + 1][1]
    /\ "untold" \notin failed => \A i \in 1 .. Len(written) : written[i][1] = (i - 1) * Channels + 1
    /\ enc_closed /\ failed = {} => Len(written) = given \div Channels
    /\ enc_closed => lame # "open"

\* Not so: an encoder that reported no error wrote everything.
AllEncoded == enc_closed /\ "told" \notin failed => Len(written) = given \div Channels
=============================================================================
