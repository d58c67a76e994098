-------------------------------- MODULE Mixer --------------------------------
(***************************************************************************)
(* The audio mixer (rust/audio/src/pcm/mixer.rs, track.rs): threads write  *)
(* into the ring buffers of tracks, one thread reads the mix, one thread   *)
(* controls the tracks and the mixer.                                      *)
(*                                                                         *)
(* A sample is <<ring buffer, position>>; what a track contributes to the  *)
(* mix is recorded per track, the sum and the gain are left out.  A        *)
(* resampled input turns Chunk samples into Chunk samples at a time.       *)
(***************************************************************************)
EXTENDS Integers, Sequences, FiniteSets, SequencesExt

CONSTANTS
    Writer,       \* threads that write to tracks or open new inputs
    Cap,          \* samples a ring buffer holds (10 s of audio)
    ReadLen,      \* samples per read of the mix (at most 60 ms)
    Chunk,        \* RESAMPLE_CHUNK_SIZE
    Kinds,        \* of inputs: "plain" (format as is), "rate" (resampled)
    WriteSizes,   \* samples per call that writes
    SilenceGap,   \* reads of silence after the last track
    AutoClose,    \* MixerOptions::auto_close
    Callback,     \* whether there is an on_track_closed
    LateInput,    \* whether inputs are opened on tracks that are being or have been closed
    MaxTracks, MaxInputs, MaxWritten  \* bounds: tracks, ring buffers, samples per ring buffer

VARIABLES
    tracks,       \* MixerState::tracks, track numbers
    mixer,        \* [closed, err: BOOLEAN, silence]
    track,        \* per created track: [inputs, current, closed, err, fading, out]
    ring,         \* per ring buffer: [own (of a TrackWriter), buf, closed, err, written, read]
    thread,       \* per writer: [pc, ring, left, track]
    reader,       \* [pc, todo, room (samples wanted), data, removed]
    ctl           \* the controlling thread: [pc, todo, err]

vars == <<tracks, mixer, track, ring, thread, reader, ctl>>

NewRing(own) == [own |-> own, buf |-> << >>, closed |-> FALSE, err |-> FALSE, written |-> 0, read |-> 0]
NewInput(r, kind) == [ring |-> r, kind |-> kind, accum |-> << >>, eof |-> FALSE, flushed |-> FALSE]
NewTrack(r) == [inputs |-> <<NewInput(r, "plain")>>, current |-> r,
                closed |-> FALSE, err |-> FALSE, fading |-> "no", out |-> << >>]
Idle == [pc |-> "idle", ring |-> 0, left |-> 0, track |-> 0]
Running == [pc |-> "idle", todo |-> << >>, room |-> 0, data |-> FALSE, removed |-> 0]
Ready == [pc |-> "idle", todo |-> << >>, err |-> FALSE]

Init ==
    /\ tracks = << >> /\ track = << >> /\ ring = << >>
    /\ mixer = [closed |-> FALSE, err |-> FALSE, silence |-> SilenceGap]
    /\ thread = [w \in Writer |-> Idle]
    /\ reader = Running /\ ctl = Ready

\* The mixer's lock: held by a read between its waits, and by mixer-wide calls.
Locked == reader.pc \in {"mixing", "reading", "read"} \/ ctl.pc = "mixer"
\* The lock on a track's inputs, which read_full holds.
InputsLocked(t) == reader.pc \in {"reading", "read"} /\ Head(reader.todo) = t

-----------------------------------------------------------------------------
\* Writers.

\* TrackRingBuf::write copies what fits, or sleeps until there is room.
WriteInto(w) ==
    LET r == thread[w].ring  free == Cap - Len(ring[r].buf)
        n == IF thread[w].left < free THEN thread[w].left ELSE free
    IN /\ thread[w].pc = "write"
       /\ \/ /\ ring[r].err \/ ring[r].closed
             /\ thread' = [thread EXCEPT ![w] = Idle]
             /\ UNCHANGED ring
          \/ /\ ~ring[r].err /\ ~ring[r].closed /\ n = 0
             /\ thread' = [thread EXCEPT ![w].pc = "asleep"]
             /\ UNCHANGED ring
          \/ /\ ~ring[r].err /\ ~ring[r].closed /\ n > 0
             /\ ring' = [ring EXCEPT ![r].buf = @ \o [i \in 1 .. n |-> <<r, ring[r].written + i>>],
                                     ![r].written = @ + n]
             /\ thread' = [thread EXCEPT ![w] = IF @.left = n THEN Idle ELSE [@ EXCEPT !.left = @ - n]]
       /\ UNCHANGED <<tracks, mixer, track, reader, ctl>>

\* Track::write and TrackWriter::write_bytes: the first takes the ring buffer that is
\* current now, the second keeps the one it was made with.
Write(w, r, n) ==
    /\ thread[w].pc = "idle" /\ ring[r].written + n <= MaxWritten
    /\ thread' = [thread EXCEPT ![w] = [pc |-> "write", ring |-> r, left |-> n, track |-> 0]]
    /\ UNCHANGED <<tracks, mixer, track, ring, reader, ctl>>

\* Not the code: the new input is read first.
InputFirst(w, t, kind) ==
    /\ thread[w].pc = "idle" /\ Len(ring) < MaxInputs /\ ~InputsLocked(t)
    /\ LateInput \/ (~track[t].closed /\ t \notin Range(ctl.todo))
    /\ ring' = Append(ring, NewRing(TRUE))
    /\ track' = [track EXCEPT ![t].inputs = <<NewInput(Len(ring) + 1, kind)>> \o @]
    /\ thread' = [thread EXCEPT ![w] = [pc |-> "swap", ring |-> Len(ring) + 1, left |-> 0, track |-> t]]
    /\ UNCHANGED <<tracks, mixer, reader, ctl>>

\* Track::input registers a new ring buffer with the track ...
Input(w, t, kind) ==
    /\ thread[w].pc = "idle" /\ Len(ring) < MaxInputs /\ ~InputsLocked(t)
    /\ LateInput \/ (~track[t].closed /\ t \notin Range(ctl.todo))
    /\ ring' = Append(ring, NewRing(TRUE))
    /\ track' = [track EXCEPT ![t].inputs = Append(@, NewInput(Len(ring) + 1, kind))]
    /\ thread' = [thread EXCEPT ![w] = [pc |-> "swap", ring |-> Len(ring) + 1, left |-> 0, track |-> t]]
    /\ UNCHANGED <<tracks, mixer, reader, ctl>>

\* Closing a ring buffer wakes every writer that sleeps on it.
Woken(rs) ==
    [w \in Writer |-> IF thread[w].pc = "asleep" /\ thread[w].ring \in rs
                      THEN [thread[w] EXCEPT !.pc = "write"] ELSE thread[w]]
CloseRing(rs, err) ==
    /\ ring' = [r \in DOMAIN ring |-> IF r \in rs THEN [ring[r] EXCEPT !.closed = TRUE, !.err = @ \/ err]
                                      ELSE ring[r]]
    /\ thread' = Woken(rs)

\* Not the code: the previous input stays open.
SwapForgets(w) ==
    LET t == thread[w].track
    IN /\ thread[w].pc = "swap"
       /\ ring' = ring
       /\ thread' = [thread EXCEPT ![w] = Idle]
       /\ track' = [track EXCEPT ![t].current = thread[w].ring]
       /\ UNCHANGED <<tracks, mixer, reader, ctl>>

\* ... and closes the one it replaces.
Swap(w) ==
    LET t == thread[w].track  old == track[t].current
    IN /\ thread[w].pc = "swap"
       /\ ring' = [ring EXCEPT ![old].closed = TRUE]
       /\ thread' = [Woken({old}) EXCEPT ![w] = Idle]
       /\ track' = [track EXCEPT ![t].current = thread[w].ring]
       /\ UNCHANGED <<tracks, mixer, reader, ctl>>

\* TrackWriter::close_write, of the ring buffer that Track::input returned.
CloseInput(w, r) ==
    /\ thread[w].pc = "idle" /\ ring[r].own /\ ~ring[r].closed
    /\ \A v \in Writer : thread[v].pc = "swap" => thread[v].ring # r
    /\ CloseRing({r}, FALSE)
    /\ UNCHANGED <<tracks, mixer, track, reader, ctl>>

-----------------------------------------------------------------------------
\* The reader.

\* TrackInput::read: an input and its ring buffer after a read of up to room samples,
\* and the result.
Take(s, n) == SubSeq(s, 1, IF Len(s) < n THEN Len(s) ELSE n)
Rest(s, n) == SubSeq(s, n + 1, Len(s))

\* Not the code: a closed ring buffer is at its end, whatever it holds.
RingReadCloses(r, room) ==
    CASE r.err -> [res |-> "error", got |-> << >>, ring |-> r]
      [] ~r.err /\ (r.buf = << >> \/ r.closed) ->
           [res |-> IF r.closed THEN "eof" ELSE "empty", got |-> << >>, ring |-> r]
      [] OTHER -> [res |-> "data", got |-> Take(r.buf, room),
                   ring |-> [r EXCEPT !.buf = Rest(@, room), !.read = @ + Len(Take(r.buf, room))]]

RingRead(r, room) ==
    CASE r.err -> [res |-> "error", got |-> << >>, ring |-> r]
      [] ~r.err /\ r.buf = << >> -> [res |-> IF r.closed THEN "eof" ELSE "empty", got |-> << >>, ring |-> r]
      [] OTHER -> LET got == Take(r.buf, room)
                  IN [res |-> "data", got |-> got,
                      ring |-> [r EXCEPT !.buf = Rest(@, Len(got)), !.read = @ + Len(got)]]

\* read_resampled: everything in the ring buffer is pulled into accum; a full block, or
\* at the end what is left, goes through the resampler, and what of it does not fit
\* into the caller's buffer is dropped.
Resampled(in, r, room) ==
    LET pulled == IF in.eof \/ r.err THEN << >> ELSE r.buf
        accum  == in.accum \o pulled
        eof    == in.eof \/ (r.closed /\ ~r.err)
        ring2  == IF pulled = << >> THEN r ELSE [r EXCEPT !.buf = << >>, !.read = @ + Len(pulled)]
        Out(res, got, a, flushed) ==
            [res |-> res, got |-> got, ring |-> ring2,
             in |-> [in EXCEPT !.accum = a, !.eof = eof, !.flushed = flushed]]
    IN CASE Len(accum) >= Chunk -> Out("data", Take(Take(accum, Chunk), room), Rest(accum, Chunk), FALSE)
         [] Len(accum) < Chunk /\ eof /\ ~in.flushed /\ accum # << >> ->
              Out("data", Take(accum, room), << >>, FALSE)
         [] Len(accum) < Chunk /\ eof /\ (in.flushed \/ accum = << >>) -> Out("eof", << >>, << >>, TRUE)
         [] OTHER -> Out("empty", << >>, accum, FALSE)

ReadOf(in, r, room) ==
    IF in.kind = "rate" THEN Resampled(in, r, room)
    ELSE LET rd == RingRead(r, room) IN [res |-> rd.res, got |-> rd.got, ring |-> rd.ring, in |-> in]

\* Without tracks: the end, silence, or a wait.
NoTracks ==
    \/ /\ mixer.closed \/ AutoClose
       /\ reader' = [reader EXCEPT !.pc = "eof"] /\ mixer' = [mixer EXCEPT !.closed = TRUE]
    \/ /\ ~mixer.closed /\ ~AutoClose /\ mixer.silence < SilenceGap
       /\ mixer' = [mixer EXCEPT !.silence = @ + 1] /\ UNCHANGED reader
    \/ /\ ~mixer.closed /\ ~AutoClose /\ mixer.silence >= SilenceGap
       /\ reader' = [reader EXCEPT !.pc = "waiting"] /\ UNCHANGED mixer

\* read_mixed takes the lock and looks at the state of the mixer.
BeginRead ==
    /\ reader.pc = "idle" /\ ~Locked
    /\ \/ /\ mixer.err
          /\ reader' = [reader EXCEPT !.pc = "failed"] /\ UNCHANGED mixer
       \/ /\ ~mixer.err /\ tracks # << >>
          /\ reader' = [Running EXCEPT !.pc = "mixing", !.todo = tracks] /\ UNCHANGED mixer
       \/ ~mixer.err /\ tracks = << >> /\ NoTracks
    /\ UNCHANGED <<tracks, track, ring, thread, ctl>>

\* InternalTrack::read_full on the next track: one that was closed with an error leaves
\* the mixer unread.
StartTrack ==
    LET t == Head(reader.todo)
    IN /\ reader.pc = "mixing" /\ reader.todo # << >>
       /\ reader' = IF track[t].err THEN [reader EXCEPT !.todo = Tail(@), !.removed = @ + 1]
                    ELSE [reader EXCEPT !.pc = "reading", !.room = ReadLen]
       /\ tracks' = IF track[t].err THEN SelectSeq(tracks, LAMBDA u : u # t) ELSE tracks
       /\ UNCHANGED <<mixer, track, ring, thread, ctl>>

\* The first input is read; at its end, or after an error, it is removed.  A read from a
\* ring buffer that is not closed wakes one of its sleeping writers.
ReadInput ==
    LET t == Head(reader.todo)  in == Head(track[t].inputs)  r == in.ring
        rd == ReadOf(in, ring[r], reader.room)
        sleepers == {w \in Writer : thread[w].pc = "asleep" /\ thread[w].ring = r}
    IN /\ reader.pc = "reading" /\ reader.room > 0 /\ track[t].inputs # << >>
       /\ ring' = [ring EXCEPT ![r] = rd.ring]
       /\ track' = [track EXCEPT ![t].out = @ \o rd.got,
                                 ![t].inputs = IF rd.res \in {"eof", "error"} THEN Tail(@) ELSE <<rd.in>> \o Tail(@)]
       /\ IF rd.ring.read > ring[r].read /\ ~ring[r].closed /\ sleepers # {}
            THEN \E w \in sleepers : thread' = [thread EXCEPT ![w].pc = "write"]
            ELSE UNCHANGED thread
       /\ reader' = [reader EXCEPT !.room = @ - Len(rd.got), !.pc = IF rd.res = "empty" THEN "read" ELSE @]
       /\ UNCHANGED <<tracks, mixer, ctl>>

\* The buffer is full, the first input has nothing more, or there is no input left.  In
\* the last case a track with closed writing is done, unless something was read.
EndTrack ==
    LET t == Head(reader.todo)
        some == reader.room < ReadLen
        done == reader.pc = "reading" /\ ~some /\ track[t].closed
    IN /\ \/ reader.pc = "read"
          \/ reader.pc = "reading" /\ (reader.room = 0 \/ track[t].inputs = << >>)
       /\ tracks' = IF done THEN SelectSeq(tracks, LAMBDA u : u # t) ELSE tracks
       /\ reader' = [reader EXCEPT !.pc = "mixing", !.todo = Tail(@), !.data = @ \/ some,
                                   !.removed = @ + (IF done THEN 1 ELSE 0)]
       /\ UNCHANGED <<mixer, track, ring, thread, ctl>>

\* All tracks read: the mix is returned, or the callbacks, if there are, are made and the
\* loop goes round, or the reader waits.
EndRead ==
    /\ reader.pc = "mixing" /\ reader.todo = << >>
    /\ mixer' = IF reader.data THEN [mixer EXCEPT !.silence = 0] ELSE mixer
    /\ reader' = [Running EXCEPT !.pc = IF reader.data \/ (reader.removed > 0 /\ Callback) THEN "idle" ELSE "waiting"]
    /\ UNCHANGED <<tracks, track, ring, thread, ctl>>

\* The condition variable, or its timeout of 100 ms: a notification that comes before
\* the wait is lost, the timeout makes up for it.
WakeReader ==
    /\ reader.pc = "waiting"
    /\ reader' = Running
    /\ UNCHANGED <<tracks, mixer, track, ring, thread, ctl>>

-----------------------------------------------------------------------------
\* The controlling thread.

CreateTrack ==
    /\ ctl.pc = "idle" /\ ~Locked /\ ~mixer.err /\ ~mixer.closed
    /\ Len(track) < MaxTracks /\ Len(ring) < MaxInputs
    /\ ring' = Append(ring, NewRing(FALSE))
    /\ track' = Append(track, NewTrack(Len(ring) + 1))
    /\ tracks' = Append(tracks, Len(track) + 1)
    /\ UNCHANGED <<mixer, thread, reader, ctl>>

\* TrackCtrl::close_write, close_with_error and close (with a fade-out: close_write now,
\* close_with_error when the fade is over); a second close_write changes nothing.
CloseTrack(t, err, fade) ==
    /\ ctl.pc = "idle" /\ ~track[t].err /\ (~track[t].closed \/ err \/ fade)
    /\ fade => track[t].fading = "no"
    /\ ctl' = [pc |-> "track", todo |-> <<t>>, err |-> err /\ ~fade]
    /\ track' = [track EXCEPT ![t].fading = IF fade THEN "yes" ELSE @]
    /\ UNCHANGED <<tracks, mixer, ring, thread, reader>>

\* Mixer::close_write and close_with_error.
CloseMixer(err) ==
    /\ ctl.pc = "idle" /\ ~Locked /\ ~mixer.err /\ (err \/ ~mixer.closed)
    /\ mixer' = [mixer EXCEPT !.closed = TRUE, !.err = err]
    /\ ctl' = [pc |-> "mixer", todo |-> tracks, err |-> err]
    /\ UNCHANGED <<tracks, track, ring, thread, reader>>

\* TrackCtrlInner::close_write and close_with_error of the next track of ctl.todo, in
\* the order of the locks they take: the current ring buffer, the track's flag, and
\* then the last input, or with an error all of them.
CloseCurrent ==
    LET t == Head(ctl.todo)
    IN /\ ctl.pc \in {"track", "mixer"} /\ ctl.todo # << >> /\ ~ctl.err
       /\ ~track[t].closed /\ ~ring[track[t].current].closed
       /\ CloseRing({track[t].current}, FALSE)
       /\ UNCHANGED <<tracks, mixer, track, reader, ctl>>
SetClosed ==
    LET t == Head(ctl.todo)
    IN /\ ctl.pc \in {"track", "mixer"} /\ ctl.todo # << >>
       /\ IF ctl.err THEN ~track[t].err ELSE ~track[t].closed /\ ring[track[t].current].closed
       /\ track' = [track EXCEPT ![t].closed = TRUE, ![t].err = @ \/ ctl.err]
       /\ UNCHANGED <<tracks, mixer, ring, thread, reader, ctl>>
LastRing(t) == IF track[t].inputs = << >> THEN {} ELSE {Last(track[t].inputs).ring}
AllRings(t) == {track[t].inputs[i].ring : i \in DOMAIN track[t].inputs}

\* Not the code: close_write leaves an input alone that is being opened.
CloseInputsOnError ==
    LET t == Head(ctl.todo)
    IN /\ ctl.pc \in {"track", "mixer"} /\ ctl.todo # << >> /\ ~InputsLocked(t)
       /\ IF ctl.err THEN track[t].err ELSE track[t].closed
       /\ CloseRing(IF ctl.err THEN AllRings(t) ELSE {}, ctl.err)
       /\ ctl' = IF Len(ctl.todo) = 1 THEN Ready ELSE [ctl EXCEPT !.todo = Tail(@)]
       /\ UNCHANGED <<tracks, mixer, track, reader>>

CloseInputs ==
    LET t == Head(ctl.todo)
    IN /\ ctl.pc \in {"track", "mixer"} /\ ctl.todo # << >>
       /\ ~InputsLocked(t)
       /\ IF ctl.err THEN track[t].err ELSE track[t].closed
       /\ CloseRing(IF ctl.err THEN AllRings(t) ELSE LastRing(t), ctl.err)
       /\ ctl' = IF Len(ctl.todo) = 1 THEN Ready ELSE [ctl EXCEPT !.todo = Tail(@)]
       /\ UNCHANGED <<tracks, mixer, track, reader>>
CloseNone ==
    /\ ctl.pc = "mixer" /\ ctl.todo = << >>
    /\ ctl' = Ready
    /\ UNCHANGED <<tracks, mixer, track, ring, thread, reader>>

\* The fade-out thread has stepped the gain down to 0 and closes the track.
FadeOver(t) ==
    /\ track[t].fading = "yes"
    /\ track' = [track EXCEPT ![t].fading = "over", ![t].closed = TRUE, ![t].err = TRUE]
    /\ UNCHANGED <<tracks, mixer, ring, thread, reader, ctl>>
FadeInputs(t) ==
    /\ track[t].fading = "over" /\ ~InputsLocked(t)
    /\ track' = [track EXCEPT ![t].fading = "no"]
    /\ CloseRing(AllRings(t), TRUE)
    /\ UNCHANGED <<tracks, mixer, reader, ctl>>

-----------------------------------------------------------------------------
ReaderStep == BeginRead \/ StartTrack \/ ReadInput \/ EndTrack \/ EndRead \/ WakeReader
CtlStep == CloseCurrent \/ SetClosed \/ CloseInputs \/ CloseNone
FadeStep == \E t \in DOMAIN track : FadeOver(t) \/ FadeInputs(t)

Next ==
    \/ \E w \in Writer : WriteInto(w) \/ Swap(w)
    \/ \E w \in Writer, r \in DOMAIN ring : CloseInput(w, r) \/ \E n \in WriteSizes : Write(w, r, n)
    \/ \E w \in Writer, t \in DOMAIN track, kind \in Kinds : Input(w, t, kind)
    \/ ReaderStep \/ CreateTrack \/ CtlStep \/ FadeStep
    \/ \E t \in DOMAIN track, err, fade \in BOOLEAN : CloseTrack(t, err, fade)
    \/ \E err \in BOOLEAN : CloseMixer(err)

\* The mix is read all the time, woken threads run, and calls that began return.
Spec ==
    /\ Init /\ [][Next]_vars
    /\ WF_vars(ReaderStep) /\ WF_vars(CtlStep) /\ WF_vars(FadeStep)
    /\ \A w \in Writer : WF_vars(WriteInto(w)) /\ WF_vars(Swap(w))

-----------------------------------------------------------------------------
\* What a track plays comes from one input after the other, in the order they were
\* opened, each from its first sample on and without a gap (mixer.rs:568-572).
PlayedInOrder ==
    \A t \in DOMAIN track : LET out == track[t].out IN
        /\ \A i \in 2 .. Len(out) :
              \/ out[i] = <<out[i-1][1], out[i-1][2] + 1>>
              \/ out[i][1] > out[i-1][1] /\ out[i][2] = 1
        /\ out # << >> => out[1][2] = 1

\* An input is given up only when everything its writers were told is written has been
\* played, unless its track was closed with an error: "The previous input is closed and
\* will be drained by the mixer" (mixer.rs:571).
Played(t, r) == {i \in DOMAIN track[t].out : track[t].out[i][1] = r}
Drained ==
    \A t \in DOMAIN track : \A r \in DOMAIN ring :
        (~track[t].err /\ Played(t, r) # {} /\ r \notin AllRings(t)) => Cardinality(Played(t, r)) = ring[r].written

Writing(w) == thread[w].pc = "write"
Returned(w) == thread[w].pc = "idle"

\* A call that writes returns: every sleeping writer is woken, by the reader or by a close.
WritersReturn == \A w \in Writer : Writing(w) ~> Returned(w)

WritesClosed == mixer.closed
ReaderEnded == reader.pc \in {"eof", "failed"}

\* After close_write or close of the mixer the reader comes to the end, or to the error.
ReaderEnds == WritesClosed ~> ReaderEnded
=============================================================================
