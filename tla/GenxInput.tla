------------------------------ MODULE GenxInput ------------------------------
(* Realtime audio input, rust/genx/src/input: stamped Opus frames are read,  *)
(* late and malformed ones dropped, the others put in order by a jitter      *)
(* buffer, and small gaps filled with silence.  Time is counted in units of  *)
(* half a frame; a frame and a piece of silence last Dur units.              *)
EXTENDS Integers, Sequences, FiniteSets

LOCAL INSTANCE FiniteSetsExt

CONSTANTS Stamps,       \* the time stamps frames come with
          Dur,          \* the length of a frame (20 ms)
          LateWindow,   \* late_window (100 ms)
          MaxLoss,      \* max_loss (5 s)
          JitterSize,   \* jitter_buffer_size
          MinReady,     \* min_ready_frames
          MaxReads      \* bound: frames read

VARIABLES jitter,    \* frames waiting: [stamp, seq]
          seq,       \* the jitter buffer's counter
          lastEnd,   \* the end of the last frame emitted, or NoStamp
          out,       \* what is waiting to be given to the caller
          eof, reads,
          given,     \* what the caller has received
          lost,      \* frames dropped: late, malformed or crowded out
          closed

vars == <<jitter, seq, lastEnd, out, eof, reads, given, lost, closed>>

NoStamp == -100
Silence == [stamp |-> NoStamp, seq |-> 0]

Init ==
  /\ jitter = {} /\ seq = 0 /\ lastEnd = NoStamp /\ out = <<>> /\ eof = FALSE
  /\ reads = 0 /\ given = <<>> /\ lost = 0 /\ closed = FALSE

\* Not the code: no frame is too late.
IsLateFrameNever(stamp) == FALSE

IsLateFrame(stamp) == lastEnd # NoStamp /\ stamp + LateWindow < lastEnd

\* The heap's order: the earliest stamp, then the first that came.
Before(a, b) == a.stamp < b.stamp \/ (a.stamp = b.stamp /\ a.seq < b.seq)
Earliest(s) == CHOOSE a \in s : \A b \in s \ {a} : Before(a, b)

\* The jitter buffer's push: over its size the earliest frame goes.
Push(stamp) ==
  LET all == jitter \cup {[stamp |-> stamp, seq |-> seq]} IN
  /\ seq' = seq + 1
  /\ IF Cardinality(all) > JitterSize
     THEN jitter' = all \ {Earliest(all)} /\ lost' = lost + 1
     ELSE jitter' = all /\ UNCHANGED lost

MayEmit == jitter # {} /\ (eof \/ Cardinality(jitter) >= MinReady)

\* What parse_stamped makes of a packet: a stamp, or nothing for one that is too
\* short, of another version or empty.
Parsed == Stamps \cup {NoStamp}

\* next reads when it has nothing to give and may not emit.
ReadOne ==
  /\ ~closed /\ out = <<>> /\ ~MayEmit /\ ~eof /\ reads < MaxReads
  /\ reads' = reads + 1
  /\ \E s \in Parsed :
       IF s = NoStamp \/ IsLateFrame(s)
       THEN lost' = lost + 1 /\ UNCHANGED <<jitter, seq>>
       ELSE Push(s)
  /\ UNCHANGED <<lastEnd, out, eof, given, closed>>

ReadEof ==
  /\ ~closed /\ out = <<>> /\ ~MayEmit /\ ~eof
  /\ eof' = TRUE
  /\ UNCHANGED <<jitter, seq, lastEnd, out, reads, given, lost, closed>>

\* Not the code: the gap is measured from the start of the last frame.
SilencesFromStart(stamp) ==
  IF lastEnd = NoStamp \/ stamp - lastEnd + Dur <= 0 THEN 0 ELSE (stamp - lastEnd + Dur) \div Dur

\* How many pieces of silence go before a frame.
Silences(stamp) ==
  IF lastEnd = NoStamp \/ stamp - lastEnd <= 0 \/ stamp - lastEnd > MaxLoss THEN 0
  ELSE (stamp - lastEnd) \div Dur

TryEmitOne ==
  /\ ~closed /\ out = <<>> /\ MayEmit
  /\ LET f == Earliest(jitter) IN
       /\ jitter' = jitter \ {f}
       /\ out' = [i \in 1..Silences(f.stamp) |-> Silence] \o <<f>>
       /\ lastEnd' = f.stamp + Dur
  /\ UNCHANGED <<seq, eof, reads, given, lost, closed>>

GiveChunk ==
  /\ ~closed /\ out # <<>>
  /\ given' = Append(given, Head(out)) /\ out' = Tail(out)
  /\ UNCHANGED <<jitter, seq, lastEnd, eof, reads, lost, closed>>

Close ==
  /\ ~closed /\ closed' = TRUE
  /\ UNCHANGED <<jitter, seq, lastEnd, out, eof, reads, given, lost>>

Next == ReadOne \/ ReadEof \/ TryEmitOne \/ GiveChunk \/ Close
Spec == Init /\ [][Next]_vars

IsFrame(x) == x.stamp # NoStamp
Frames(s) == SelectSeq(s, IsFrame)

\* However frames come, a frame that is given starts at most the late window
\* before the end of the frame given just before it: frames that waited in the
\* jitter buffer while others were emitted included.  Frames of one stamp keep
\* the order they came in.
AtMostLate ==
  LET g == Frames(given) IN
  /\ \A i \in 1..(Len(g) - 1) :
       \/ g[i].stamp + Dur <= g[i + 1].stamp + LateWindow
       \/ g[i].stamp <= g[i + 1].stamp
  /\ \A i, j \in 1..Len(g) : (i < j /\ g[i].stamp = g[j].stamp) => g[i].seq < g[j].seq

\* Audio that comes in order leaves on its own time line: with the silence, a
\* frame is given as long after the first as its stamp says, to within one
\* frame for each gap, as long as no gap was too long to fill.
Elapsed(g, k) == Dur * (k - 1)
InOrder(g) == \A i, j \in 1..Len(g) :
                (i < j /\ IsFrame(g[i]) /\ IsFrame(g[j])) => g[i].stamp + Dur <= g[j].stamp
OnTime ==
  LET g == given
      gaps == {Frames(g)[i + 1].stamp - Frames(g)[i].stamp - Dur : i \in 1..(Len(Frames(g)) - 1)}
  IN  (g # <<>> /\ InOrder(g) /\ \A x \in gaps : x <= MaxLoss) =>
        \A k \in 1..Len(g) : IsFrame(g[k]) =>
          LET late == g[k].stamp - g[1].stamp - Elapsed(g, k) IN
          0 <= late /\ late < Dur * Cardinality({x \in 1..k : IsFrame(g[x])})
=============================================================================
