----------------------------- MODULE GenxSpeech -----------------------------
(* The stream-by-stream transformers of rust/genx/src/transformers: text to  *)
(* speech (tts_core.rs and its providers), speech to text                    *)
(* (doubao_asr_sauc.rs) and MP3 to Ogg (codec_mp3_to_ogg.rs).  Each gathers  *)
(* the chunks of its source type until the stream ends, converts them and    *)
(* passes chunks of other types on.                                          *)
EXTENDS Integers, Sequences

LOCAL INSTANCE SequencesExt

CONSTANTS Kinds,       \* {"tts", "asr", "mp3"}
          MaxChunks    \* bound: chunks read

VARIABLES kind,
          read,      \* the chunks the upstream gave: [of, id, src, eos, tok]
          named,     \* whether the current stream carries its id
          buf,       \* text_buffer, mp3_data, or the audio the session has
          sid,       \* current_stream_id, 0 when empty
          pc,        \* "read", "recv" (in finish_session_and_emit), "last" (there,
                     \* after the final result), "done"
          heard,     \* utterances of the session emitted: last_end_time
          eosDue,    \* emit_text_eos
          out,       \* what was sent: [kind, id, toks]
          unheard    \* audio whose session ended before it was recognised

vars == <<kind, read, named, buf, sid, pc, heard, eosDue, out, unheard>>

Init ==
  /\ kind \in Kinds /\ read = <<>> /\ named \in BOOLEAN /\ buf = <<>> /\ sid = 0
  /\ pc = "read" /\ heard = 0 /\ eosDue = FALSE /\ out = <<>> /\ unheard = {}

\* The upstream gives one stream after another; a stream that is named says so
\* in its first chunk, and may repeat its id.
Ended == {i \in 1..Len(read) : read[i].src /\ read[i].eos}
Current == IF \E i \in Ended : TRUE
           THEN 1 + read[CHOOSE i \in Ended : \A j \in Ended : j <= i].of ELSE 1
Fresh == \A i \in 1..Len(read) : read[i].of # Current

NextChunk(c) ==
  /\ Len(read) < MaxChunks
  /\ c.of = Current /\ c.tok = Len(read) + 1
  /\ c.id \in (IF ~named THEN {0} ELSE IF Fresh THEN {c.of} ELSE {0, c.of})

Chunks == [of : 1..MaxChunks, id : 0..MaxChunks, src : BOOLEAN, eos : BOOLEAN, tok : 1..MaxChunks]

\* The id the loop gives to what it sends: -k is the id it makes up for stream k.
IdAfter(c) == IF c.id # 0 THEN c.id ELSE IF sid = 0 THEN -c.of ELSE sid

Chunk(k, id, toks) == <<[kind |-> k, id |-> IF kind = "mp3" THEN 0 ELSE id, toks |-> toks]>>
Err == <<[kind |-> "err", id |-> 0, toks |-> <<>>]>>

\* MP3 chunks keep their own control part; the others get the current id.
PassThrough(c, id) ==
  <<[kind |-> IF c.eos THEN "othereos" ELSE "other", toks |-> <<c.tok>>,
     id |-> IF kind = "mp3" THEN c.id ELSE id]>>

\* What the provider gives for the buffer: speech in pieces, of which a failure
\* leaves only the first n; an MP3 stream as a whole or not at all.
Speech(id, n) ==
  Chunk("bos", id, <<>>) \o FlattenSeq([i \in 1..n |-> Chunk("data", id, <<buf[i]>>)])
ConvertMp3ToOgg(id, n) == IF n = Len(buf) THEN Chunk("data", id, buf) ELSE <<>>

Converted(id, n) ==
  IF buf = <<>> THEN <<>>
  ELSE IF kind = "tts" THEN Speech(id, n) ELSE ConvertMp3ToOgg(id, n)

\* Not the code: the buffer is not cleared.
FlushKeeps(id, tail) ==
  /\ out' = out \o Converted(id, Len(buf)) \o tail /\ buf' = buf /\ pc' = pc

\* flush_synthesis, flush_mp3: the buffer is converted and cleared, or the error
\* is sent and the task ends.
Flush(id, tail) ==
  \/ out' = out \o Converted(id, Len(buf)) \o tail /\ buf' = <<>> /\ pc' = pc
  \/ \E n \in 0..(Len(buf) - 1) :
       out' = out \o Converted(id, n) \o Err /\ pc' = "done" /\ UNCHANGED buf

\* The source type's end of stream.  The recogniser is told that the audio is
\* complete, and its results are awaited.
EndOfStream(id) ==
  IF kind = "asr" /\ buf # <<>>
  THEN /\ pc' = "recv" /\ heard' = 0 /\ eosDue' = TRUE /\ sid' = id /\ UNCHANGED <<buf, out>>
  ELSE /\ Flush(id, Chunk("eos", id, <<>>)) /\ sid' = 0 /\ UNCHANGED <<heard, eosDue>>

Handle(c) ==
  /\ pc = "read" /\ NextChunk(c) /\ read' = Append(read, c)
  /\ LET id == IdAfter(c) IN
       \/ c.src /\ c.eos /\ EndOfStream(id)
       \/ /\ c.src /\ ~c.eos /\ buf' = Append(buf, c.tok) /\ sid' = id
          /\ UNCHANGED <<pc, heard, eosDue, out>>
       \/ /\ ~c.src /\ out' = out \o PassThrough(c, id) /\ sid' = id
          /\ UNCHANGED <<pc, buf, heard, eosDue>>
  /\ named' \in (IF c.src /\ c.eos THEN BOOLEAN ELSE {named})
  /\ UNCHANGED <<kind, unheard>>

\* The three loops, one chunk a step.
RunTts(c) == kind = "tts" /\ Handle(c)
RunAsr(c) == kind = "asr" /\ Handle(c)
RunMp3(c) == kind = "mp3" /\ Handle(c)

ReadEnd ==
  /\ pc = "read"
  /\ IF kind = "asr" /\ buf # <<>>
     THEN pc' = "recv" /\ heard' = 0 /\ eosDue' = FALSE /\ UNCHANGED <<buf, out>>
     ELSE /\ \/ out' = out \o Converted(sid, Len(buf)) /\ buf' = <<>>
             \/ \E n \in 0..(Len(buf) - 1) : out' = out \o Converted(sid, n) \o Err /\ UNCHANGED buf
          /\ pc' = "done" /\ UNCHANGED <<heard, eosDue>>
  /\ UNCHANGED <<kind, read, named, sid, unheard>>

\* The upstream, the session or the reader of the output fails.
Break ==
  /\ pc \in {"read", "recv", "last"} /\ pc' = "done" /\ out' = out \o Err
  /\ UNCHANGED <<kind, read, named, buf, sid, heard, eosDue, unheard>>

\* Not the code: every definite utterance of a result is emitted.
NewUtterancesAll(n) ==
  FlattenSeq([i \in 1..n |-> Chunk("data", sid, <<buf[i]>>)])

\* The definite utterances of a result that end after last_end_time; results
\* repeat the utterances of the ones before.
NewUtterances(n) ==
  FlattenSeq([i \in 1..(n - heard) |-> Chunk("data", sid, <<buf[heard + i]>>)])

AsrResult ==
  /\ pc = "recv"
  /\ \E n \in heard..Len(buf) : out' = out \o NewUtterances(n) /\ heard' = n
  /\ UNCHANGED <<kind, read, named, buf, sid, pc, eosDue, unheard>>

\* The final result: its text, that of the whole stream, is sent when this result
\* brings no new utterance, whatever the results before it brought.
AsrFinal ==
  /\ pc = "recv" /\ pc' = "last"
  /\ \/ \E n \in (heard + 1)..Len(buf) : out' = out \o NewUtterances(n) /\ heard' = n
     \/ out' = out \o Chunk("text", sid, buf) /\ UNCHANGED heard
  /\ UNCHANGED <<kind, read, named, buf, sid, eosDue, unheard>>

\* The session gives no more results, after the final one or because its connection
\* is gone; it is closed.
AsrEnd ==
  /\ pc \in {"recv", "last"}
  /\ out' = out \o (IF eosDue THEN Chunk("eos", sid, <<>>) ELSE <<>>)
  /\ unheard' = unheard \cup {buf[i] : i \in (heard + 1)..Len(buf)}
  /\ pc' = IF eosDue THEN "read" ELSE "done"
  /\ buf' = <<>> /\ heard' = 0 /\ sid' = IF eosDue THEN 0 ELSE sid
  /\ UNCHANGED <<kind, read, named, eosDue>>

Next == (\E c \in Chunks : RunTts(c) \/ RunAsr(c) \/ RunMp3(c)) \/ ReadEnd \/ Break \/ AsrResult \/ AsrFinal \/ AsrEnd
Spec == Init /\ [][Next]_vars

------------------------------------------------------------------------------
\* What the streams read so far should become, item by item, source type only.
TrueId(c) ==
  IF kind = "mp3" THEN 0
  ELSE IF \E i \in 1..Len(read) : read[i].of = c.of /\ read[i].id # 0 THEN c.of ELSE -c.of
Src == SelectSeq(read, LAMBDA c : c.src /\ c.tok \notin unheard)
Reference == [i \in 1..Len(Src) |-> <<IF Src[i].eos THEN 0 ELSE Src[i].tok, TrueId(Src[i])>>]
Items(o) == IF o.kind = "eos" THEN <<<<0, o.id>>>>
            ELSE [i \in 1..Len(o.toks) |-> <<o.toks[i], o.id>>]
Sent(ks) == SelectSeq(out, LAMBDA o : o.kind \in ks)

\* Every stream comes out in its order, piece by piece, each once and under its own
\* id, its end behind its last piece; what a failure leaves is a prefix of it, and
\* audio is missing only when its session ended before its utterances came.  The text
\* of a final result is that of one whole stream, with nothing of that stream but its
\* end behind it.  Chunks of other types are neither lost nor repeated.
StreamsWhole ==
  /\ LET s == Sent({"data", "eos"}) IN
       IsPrefix(FlattenSeq([i \in 1..Len(s) |-> Items(s[i])]), Reference)
  /\ \A i \in 1..Len(out) : out[i].kind = "text" =>
       LET k == read[out[i].toks[1]].of IN
       /\ out[i].toks = [j \in 1..Len(out[i].toks) |->
                           SelectSeq(read, LAMBDA c : c.of = k /\ c.src /\ ~c.eos)[j].tok]
       /\ \A j \in (i + 1)..Len(out) : out[j].kind \in {"data", "text"} => read[out[j].toks[1]].of > k
  /\ LET p == Sent({"other", "othereos"})
         r == SelectSeq(read, LAMBDA c : ~c.src)
     IN  Len(p) = Len(r) /\ \A i \in 1..Len(p) : p[i].toks = <<r[i].tok>>
=============================================================================
