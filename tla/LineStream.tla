----------------------------- MODULE LineStream -----------------------------
(* The readers of streamed HTTP answers: minimax's SseReader with its two    *)
(* consumers (speech, text), and the line streams of doubaospeech's tts and  *)
(* tts_v2.  The body arrives in chunks cut anywhere; the reader collects     *)
(* them and takes messages out.                                              *)
(*                                                                           *)
(* A body is a sequence of tokens: a message's payload is two tokens, and    *)
(* where it is "wide" the border between the two is inside a character;      *)
(* "data" is the text "data:", "nl" a newline, "note" any other line's text. *)
EXTENDS Naturals, Sequences

LOCAL INSTANCE SequencesExt

CONSTANTS Readers,     \* of "sse_text", "sse_speech", "tts", "tts_v2"
          Bodies,      \* bound: the sequences of messages tried
          MaxBuffer    \* limit on what a line stream collects (1 MB), in tokens

\* How a message reads: a chunk, the last chunk, an error, not JSON, "[DONE]".
Kinds == {"ok", "last", "error", "junk", "done"}
Sse == {"sse_text", "sse_speech"}

Half(i, n) == [text |-> "part", msg |-> i, half |-> n]
Mark(x) == [text |-> x, msg |-> 0, half |-> 0]

\* How the service writes message i, and an unrelated line before it.
Rendered(r, i, note) ==
  (IF note THEN <<Mark("note"), Mark("nl")>> ELSE <<>>)
  \o (IF r \in Sse THEN <<Mark("data")>> ELSE <<>>) \o <<Half(i, 1), Half(i, 2), Mark("nl")>>
  \o (IF r \in Sse THEN <<Mark("nl")>> ELSE <<>>)

Body(r, b) == FlattenSeq([i \in 1..Len(b) |-> Rendered(r, i, b[i].note)])

VARIABLES reader, body,   \* the reader, and the messages of the body
          rest,           \* tokens that have not arrived
          buffer,         \* the reader's buffer
          out,            \* what it has yielded: message number and whether it is intact
          status          \* "open", "end", "error"

vars == <<reader, body, rest, buffer, out, status>>

Init ==
  /\ reader \in Readers /\ body \in Bodies
  /\ rest = Body(reader, body)
  /\ buffer = <<>> /\ out = <<>> /\ status = "open"

\* The conversion of one chunk to text: half a character at either end of it
\* becomes the replacement character.
Lossy(c) ==
  [k \in 1..Len(c) |->
    IF /\ c[k].text = "part" /\ body[c[k].msg].wide
       /\ (k = Len(c) /\ c[k].half = 1) \/ (k = 1 /\ c[k].half = 2)
    THEN [c[k] EXCEPT !.half = 0] ELSE c[k]]

Positions(x) == {k \in 1..Len(buffer) : buffer[k].text = x}
First(s) == CHOOSE k \in s : \A j \in s : k <= j

\* Not the code: an event is taken although its line may go on.
ExtractEarly ==
  LET lines == {p \in Positions("data") : p < Len(buffer)} IN
  IF lines = {} THEN 0 ELSE First(lines)

\* Where the next event is: the first "data:" whose line has ended, and was
\* the last to arrive so far or is followed by a blank line or by another event.
ExtractEvent ==
  LET end(p) == First({k \in Positions("nl") : k > p} \cup {Len(buffer) + 1})
      lines == {p \in Positions("data") :
                  /\ end(p) <= Len(buffer)
                  /\ end(p) = Len(buffer) \/ buffer[end(p) + 1].text \in {"nl", "data"}}
  IN  IF lines = {} THEN 0 ELSE First(lines)

LineEnds == Positions("nl") # {}
Ready == IF reader \in Sse THEN ExtractEvent # 0 ELSE LineEnds

\* The rest of the buffer without the newlines it starts with.
TrimNewlines(s) ==
  LET text == {k \in 1..Len(s) : s[k].text # "nl"} IN
  IF text = {} THEN <<>> ELSE SubSeq(s, First(text), Len(s))

\* A line's text (half of one is not JSON): which message it is, and whether it arrived intact.
Content(s) ==
  IF Len(s) # 2 \/ s[1].text # "part" THEN [msg |-> 0, whole |-> FALSE]
  ELSE [msg |-> s[1].msg,
        whole |-> s = <<Half(s[1].msg, 1), Half(s[1].msg, 2)>>]

KindOf(c) == IF c.msg = 0 THEN "junk" ELSE body[c.msg].kind

Yield(c) == out' = Append(out, c)

\* The stream's consumer: an event of the SSE streams.
SpeechEvent(c) ==
  \/ /\ KindOf(c) = "done" /\ status' = "end" /\ UNCHANGED out
  \/ /\ KindOf(c) \in {"junk", "error"} /\ status' = "error" /\ UNCHANGED out
  \/ /\ KindOf(c) \in {"ok", "last"} /\ Yield(c) /\ UNCHANGED status

TextEvent(c) ==
  \/ /\ KindOf(c) = "done" /\ status' = "end" /\ UNCHANGED out
  \/ /\ KindOf(c) = "junk" /\ status' = "error" /\ UNCHANGED out
  \/ /\ KindOf(c) \in {"ok", "last", "error"} /\ Yield(c) /\ UNCHANGED status

\* A line of the tts streams: what is not JSON is passed over.
TtsLine(c) ==
  \/ /\ KindOf(c) \in {"junk", "done"} /\ UNCHANGED <<out, status>>
  \/ /\ KindOf(c) = "error" /\ status' = "error" /\ UNCHANGED out
  \/ /\ KindOf(c) = "ok" /\ Yield(c) /\ UNCHANGED status
  \/ /\ KindOf(c) = "last" /\ Yield(c) /\ status' = "end"

TtsV2Line(c) == TtsLine(c)

ReadEvent ==
  /\ status = "open" /\ reader \in Sse /\ Ready
  /\ LET p == ExtractEvent
         q == First({k \in Positions("nl") : k > p} \cup {Len(buffer)})
         c == Content(SubSeq(buffer, p + 1, IF buffer[q].text = "nl" THEN q - 1 ELSE q))
     IN  /\ buffer' = TrimNewlines(SubSeq(buffer, q + 1, Len(buffer)))
         /\ IF reader = "sse_speech" THEN SpeechEvent(c) ELSE TextEvent(c)
  /\ UNCHANGED <<reader, body, rest>>

ReadLine ==
  /\ status = "open" /\ reader \notin Sse /\ Ready
  /\ LET q == First(Positions("nl"))
         c == Content(SubSeq(buffer, 1, q - 1))
     IN  /\ buffer' = SubSeq(buffer, q + 1, Len(buffer))
         /\ IF reader = "tts" THEN TtsLine(c) ELSE TtsV2Line(c)
  /\ UNCHANGED <<reader, body, rest>>

\* A chunk arrives when nothing more can be taken out.
Chunk ==
  /\ status = "open" /\ ~Ready /\ rest # <<>>
  /\ \E n \in 1..Len(rest) :
       LET c == SubSeq(rest, 1, n)
           all == buffer \o (IF reader = "tts_v2" THEN c ELSE Lossy(c))
       IN  /\ rest' = SubSeq(rest, n + 1, Len(rest))
           /\ buffer' = all
           /\ status' = IF reader \notin Sse /\ Len(all) > MaxBuffer THEN "error" ELSE status
  /\ UNCHANGED <<reader, body, out>>

Ends ==
  /\ status = "open" /\ ~Ready /\ rest = <<>>
  /\ status' = "end"
  /\ UNCHANGED <<reader, body, rest, buffer, out>>

Next == ReadEvent \/ ReadLine \/ Chunk \/ Ends
Spec == Init /\ [][Next]_vars

(* What a reader should give of a body, however it is cut.                   *)
Stops == IF reader = "sse_speech" THEN {"done", "junk", "error"}
         ELSE IF reader = "sse_text" THEN {"done", "junk"} ELSE {"error", "last"}
Fails == IF reader = "sse_speech" THEN {"junk", "error"}
         ELSE IF reader = "sse_text" THEN {"junk"} ELSE {"error"}
Skips == IF reader \in Sse THEN {} ELSE {"junk", "done"}
StopAt == First({k \in 1..Len(body) : body[k].kind \in Stops} \cup {Len(body) + 1})
Wanted(i) == \/ i < StopAt /\ body[i].kind \notin Skips
             \/ i = StopAt /\ body[i].kind = "last"

\* Whatever the chunks, a stream that has ended has yielded exactly the
\* messages before its end, in order and each once, and it has failed exactly
\* when the message that ended it is a failure.
CutsDoNotMatter ==
  status # "open" =>
    /\ \A j, k \in 1..Len(out) : j < k => out[j].msg < out[k].msg
    /\ {out[k].msg : k \in 1..Len(out)} = {i \in 1..Len(body) : Wanted(i)}
    /\ (status = "error") <=> (StopAt <= Len(body) /\ body[StopAt].kind \in Fails)

\* What is yielded arrived intact.
TextIntact == \A k \in 1..Len(out) : out[k].whole
=============================================================================
