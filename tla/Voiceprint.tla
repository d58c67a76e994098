----------------------------- MODULE Voiceprint -----------------------------
(* The speaker detector of rust/voiceprint/src/detector.rs and the           *)
(* transformer of rust/genx/src/transformers/voiceprint.rs that feeds it:    *)
(* audio arrives in chunks of any size, is cut into segments, each segment   *)
(* gives a voice hash or fails, and the chunks leave with the label of the   *)
(* current speaker.                                                          *)
(*                                                                           *)
(* A sample carries the hash its segment would give; "bad" is audio the      *)
(* model cannot embed.  The hash counts are visited in any order, as the     *)
(* code's hash map gives them.                                               *)
EXTENDS Integers, Sequences, FiniteSets

CONSTANTS Hashes,      \* voice hashes
          Width,       \* window_size
          Num, Den,    \* min_ratio, as a fraction
          Seg,         \* samples in a segment
          MaxSamples   \* bound: samples that arrive

NoLabel == "none"

VARIABLES window, pos, filled,   \* the detector
          accum,                 \* samples waiting for a whole segment
          chunk,                 \* the chunk under way: "none", "audio", "end"
          label,                 \* the current speaker
          heard,                 \* the hashes fed so far
          old,                   \* what the speaker was before the last hash
          count                  \* samples that have arrived

vars == <<window, pos, filled, accum, chunk, label, heard, old, count>>

Init ==
  /\ window = [i \in 0..(Width - 1) |-> NoLabel] /\ pos = 0 /\ filled = 0
  /\ accum = <<>> /\ chunk = "none" /\ label = NoLabel /\ heard = <<>> /\ old = NoLabel
  /\ count = 0

\* The first and second most frequent of the hashes, seen in one order.
RECURSIVE Top(_, _, _, _)
Top(order, n, first, second) ==
  IF order = <<>> THEN <<first, second>>
  ELSE LET h == Head(order) IN
       IF n[h] > n[first] THEN Top(Tail(order), n, h, first)
       ELSE IF n[h] > n[second] THEN Top(Tail(order), n, first, h)
       ELSE Top(Tail(order), n, first, second)

Orders == {o \in [1..Cardinality(Hashes) -> Hashes] : \A h \in Hashes : \E i \in DOMAIN o : o[i] = h}

\* Not the code: the slots start one too late.
SlotsLate(p, f) == {(p + Width - f + 1 + i) % Width : i \in 0..(f - 1)}

\* The ring's slots that hold the last f hashes.
Slots(p, f) == {(p + Width - f + i) % Width : i \in 0..(f - 1)}

\* The detector's answers to a hash, for the orders the counts may come in.
Verdicts(w, p, f) ==
  LET n == [h \in Hashes \cup {NoLabel} |->
              IF h = NoLabel THEN 0 ELSE Cardinality({s \in Slots(p, f) : w[s] = h})]
      verdict(o) ==
        LET t == Top(o, n, NoLabel, NoLabel) IN
        IF n[t[1]] * Den >= Num * f THEN [status |-> "single", speaker |-> t[1]]
        ELSE IF n[t[2]] > 0 /\ (n[t[1]] + n[t[2]]) * Den >= Num * f
        THEN [status |-> "overlap", speaker |-> t[1]]
        ELSE [status |-> "unknown", speaker |-> NoLabel]
  IN  {verdict(o) : o \in Orders}

\* feed, and what process_segment makes of the answer.
Feed(h) ==
  LET w == [window EXCEPT ![pos] = h]
      p == (pos + 1) % Width
      f == IF filled < Width THEN filled + 1 ELSE filled
  IN  /\ window' = w /\ pos' = p /\ filled' = f
      /\ heard' = Append(heard, h) /\ old' = label
      /\ IF f < 2 THEN UNCHANGED label
         ELSE \E v \in Verdicts(w, p, f) :
                label' = IF v.status = "unknown" THEN label ELSE v.speaker

\* A chunk of audio; the last one ends the stream.
Chunk ==
  /\ chunk = "none"
  /\ \E more \in UNION {[1..k -> Hashes \cup {"bad"}] : k \in 0..(MaxSamples - count)}, end \in BOOLEAN :
       /\ accum' = accum \o more /\ count' = count + Len(more)
       /\ chunk' = IF end THEN "end" ELSE "audio"
       /\ more = <<>> => end
  /\ UNCHANGED <<window, pos, filled, label, heard, old>>

\* A whole segment, or what is left of one at the end of the stream.
ProcessSegment ==
  /\ chunk # "none"
  /\ Len(accum) >= Seg \/ (chunk = "end" /\ accum # <<>>)
  /\ LET k == IF Len(accum) >= Seg THEN Seg ELSE Len(accum)
         h == accum[1]
     IN  /\ accum' = SubSeq(accum, k + 1, Len(accum))
         /\ IF h = "bad" THEN UNCHANGED <<window, pos, filled, heard, old, label>> ELSE Feed(h)
  /\ UNCHANGED <<chunk, count>>

\* The chunk leaves with the label.
Annotate ==
  /\ chunk \in {"audio", "end"}
  /\ Len(accum) < Seg /\ (chunk = "end" => accum = <<>>)
  /\ chunk' = "none"
  /\ UNCHANGED <<window, pos, filled, accum, label, heard, old, count>>

Reset ==
  /\ chunk = "none" /\ filled > 0 /\ accum = <<>>
  /\ window' = [i \in 0..(Width - 1) |-> NoLabel] /\ pos' = 0 /\ filled' = 0
  /\ heard' = <<>> /\ old' = label
  /\ UNCHANGED <<accum, chunk, label, count>>

Next == Chunk \/ ProcessSegment \/ Annotate \/ Reset
Spec == Init /\ [][Next]_vars

\* The hashes a decision looks at: the last Width ones.
Recent == SubSeq(heard, IF Len(heard) > Width THEN Len(heard) - Width + 1 ELSE 1, Len(heard))
Times(h) == Cardinality({i \in 1..Len(Recent) : Recent[i] = h})
TopTwo == LET s == {Times(a) + Times(b) : <<a, b>> \in {p \in Hashes \X Hashes : p[1] # p[2]}}
          IN  CHOOSE m \in s : \A x \in s : x <= m

\* The speaker after a hash is the one the last Width hashes call for,
\* whatever chunks the audio came in, however the ring has turned and in
\* whatever order the counts were visited: one of the most frequent when they
\* or the two most frequent together reach the ratio, and otherwise the
\* speaker there was before.
SpeakerIsRecent ==
  Len(heard) >= 2 =>
    IF TopTwo * Den >= Num * Len(Recent)
    THEN label # NoLabel /\ \A h \in Hashes : Times(h) <= Times(label)
    ELSE label = old
=============================================================================
