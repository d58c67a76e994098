----------------------------- MODULE Resampler -----------------------------
(***************************************************************************)
(* Soxr, the resampling reader (audio/src/resampler): SampleReader, which  *)
(* turns a byte source into whole frames, the channel conversion, and the  *)
(* rate conversion in fixed blocks of frames.                              *)
(*                                                                         *)
(* The source holds Frames frames, numbered from 1, and Extra bytes of one *)
(* that is cut off.  What the samples are is left out: a frame stays the   *)
(* frame it was through both conversions, 0 is a frame of silence and      *)
(* Slipped one put together from two.  The library's converter takes Block *)
(* frames at a time and gives back Produced; with buffers of the sizes it  *)
(* asks for it does not fail.                                              *)
(***************************************************************************)
EXTENDS Integers, Sequences, SequencesExt, FiniteSetsExt

CONSTANTS
    Frames,     \* frames in the source
    Extra,      \* bytes after them, less than a frame
    Block,      \* input_frames_next of the converter
    Produced,   \* frames it writes for a block
    ReadLens,   \* sizes of the buffers read is called with, in bytes
    Formats,    \* records: src and dst (whether stereo), rates (whether they differ),
                \*   short (whether the source may return less than it was asked for)
    MayFail     \* whether the source may fail

VARIABLES
    format,     \* one of Formats
    taken,      \* bytes taken from the source
    buffered,   \* bytes of an incomplete frame in SampleReader
    lost,       \* such bytes that a failing read has thrown away
    leftover,   \* converted bytes not yet returned
    close_err,  \* whether an error is stored for the next read
    resampler,  \* whether the converter is still there
    out,        \* frames converted, in order
    produced,   \* frames the conversion has given
    given,      \* bytes returned
    result      \* of the last read: "data", "nothing" (Ok(0)), "error", "empty" (no buffer)

vars == <<format, taken, buffered, lost, leftover, close_err, resampler, out, produced, given, result>>

Slipped == -1
FrameBytes(stereo) == IF stereo THEN 4 ELSE 2
SrcFrame == FrameBytes(format.src)
DstFrame == FrameBytes(format.dst)
SourceBytes == Frames * SrcFrame + Extra
Least(a, b) == Min({a, b})

Init ==
    /\ format \in Formats
    /\ taken = 0 /\ buffered = 0 /\ lost = 0 /\ leftover = 0 /\ close_err = FALSE
    /\ resampler = format.rates
    /\ out = << >> /\ produced = 0 /\ given = 0 /\ result = "data"

\* What SampleReader::read may get from the source for len bytes: nothing at its end.
Taken(len) ==
    LET room == (len \div SrcFrame) * SrcFrame - buffered
        most == Least(room, SourceBytes - taken)
    IN  IF format.short /\ most > 0 THEN 1 .. most ELSE {most}

\* Not the code: the incomplete frame is dropped instead of kept.
WholeFramesDrops(rn) ==
    [bytes |-> ((buffered + rn) \div SrcFrame) * SrcFrame, kept |-> 0]

\* SampleReader::read: whole frames only, the rest kept for the next call.
WholeFrames(rn) ==
    [bytes |-> ((buffered + rn) \div SrcFrame) * SrcFrame, kept |-> (buffered + rn) % SrcFrame]

\* The bytes asked of SampleReader for len bytes of the destination's channels.
SourceLen(len) ==
    CASE format.src /\ ~format.dst -> 2 * len
      [] format.src = format.dst -> len
      [] OTHER -> len \div 2

\* The frames in so many bytes, after those taken before: stereo_to_mono and
\* mono_to_stereo make one of one.
FramesFrom(bytes) ==
    LET start == taken - buffered
    IN  [i \in 1 .. bytes \div SrcFrame |->
            IF start % SrcFrame = 0 THEN start \div SrcFrame + i ELSE Slipped]

\* A block for the converter: what was read, cut or filled up with silence.
Padded(frames) ==
    [i \in 1 .. Block |-> IF i <= Len(frames) THEN frames[i] ELSE 0]

\* An error of read_and_process is returned, and stored for the next call too.
Fails ==
    /\ result' = "error" /\ close_err' = TRUE
    /\ UNCHANGED <<leftover, out, produced, given>>

\* Soxr was closed: the converter is gone.
ConverterGone ==
    /\ format.rates /\ ~resampler
    /\ Fails /\ UNCHANGED <<taken, buffered, lost>>

\* The source fails, after SampleReader has taken its bytes out of the buffer.
SourceFails ==
    /\ MayFail /\ (format.rates => resampler)
    /\ buffered' = 0 /\ lost' = lost + buffered
    /\ Fails /\ UNCHANGED taken

\* read_and_process into a buffer of len bytes: a block, or as much as fits.
ReadAndProcess(len) ==
    /\ format.rates => resampler
    /\ \E rn \in Taken(SourceLen(IF format.rates THEN Block * SrcFrame ELSE len)) :
         LET whole == WholeFrames(rn)
             frames == FramesFrom(whole.bytes)
             made == IF format.rates THEN Produced ELSE Len(frames)
             n == Least(len, made * DstFrame)
         IN  /\ taken' = taken + rn /\ buffered' = whole.kept
             /\ IF whole.bytes = 0
                THEN /\ result' = "nothing"
                     /\ UNCHANGED <<leftover, out, produced, given>>
                ELSE /\ result' = "data"
                     /\ out' = out \o (IF format.rates THEN Padded(frames) ELSE frames)
                     /\ produced' = produced + made
                     /\ given' = given + n
                     /\ leftover' = made * DstFrame - n
    /\ UNCHANGED <<lost, close_err>>

\* read refuses a buffer of less than a frame; one of no bytes gets none.
ReadTooSmall(len) ==
    /\ len < DstFrame
    /\ result' = IF len = 0 THEN "empty" ELSE "error"
    /\ UNCHANGED <<taken, buffered, lost, leftover, close_err, out, produced, given>>

\* It returns first what is left over ...
ReadLeftover(len) ==
    /\ len >= DstFrame /\ leftover > 0
    /\ LET n == Least(len, leftover)
       IN  leftover' = leftover - n /\ given' = given + n
    /\ result' = "data"
    /\ UNCHANGED <<taken, buffered, lost, close_err, out, produced>>

\* ... then a stored error, once ...
ReadError(len) ==
    /\ len >= DstFrame /\ leftover = 0 /\ close_err
    /\ close_err' = FALSE /\ result' = "error"
    /\ UNCHANGED <<taken, buffered, lost, leftover, out, produced, given>>

\* ... then what the source has.
ReadSource(len) ==
    /\ len >= DstFrame /\ leftover = 0 /\ ~close_err
    /\ ConverterGone \/ SourceFails \/ ReadAndProcess(len)

Read(len) ==
    /\ ReadTooSmall(len) \/ ReadLeftover(len) \/ ReadError(len) \/ ReadSource(len)
    /\ UNCHANGED <<format, resampler>>

\* close_with_error: an earlier error is kept; the converter is dropped.
CloseWithError ==
    /\ close_err' = TRUE /\ resampler' = FALSE
    /\ UNCHANGED <<format, taken, buffered, lost, leftover, out, produced, given, result>>

Next == CloseWithError \/ \E len \in ReadLens : Read(len)

Spec == Init /\ [][Next]_vars

-----------------------------------------------------------------------------

\* As long as no failing read has thrown bytes away: every frame is converted once and in
\* order, however short the reads are, and silence is only added after the last of
\* them; none is missing once the source is used up, nor when read says so by
\* returning nothing.  And every byte that was converted is returned or left over
\* (sample_reader.rs:32 "Reads data into buf, returning 0 or a multiple of
\* sample_size bytes").
FramesKept ==
    /\ given + leftover = produced * DstFrame
    /\ lost = 0 =>
        LET real == SelectSeq(out, LAMBDA f : f # 0)
        IN  /\ \A i \in 1 .. Len(real) : real[i] = i
            /\ \A i \in 1 .. Len(out) : out[i] = 0 => Len(real) = Frames /\ i > Frames
            /\ taken = SourceBytes \/ (result = "nothing" /\ ~format.short) => Len(real) = Frames
=============================================================================
