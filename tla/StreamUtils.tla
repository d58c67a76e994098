----------------------------- MODULE StreamUtils -----------------------------
(* The stream combinators of rust/genx/src/stream_utils.rs: split, which     *)
(* routes one stream to two by a matcher, and composite_seq, merge and       *)
(* merge_interleaved, which make one stream of several.  All but merge run a *)
(* task between the inputs and bounded channels; merge reads its inputs when *)
(* it is read, which here is a channel of one place.                         *)
(*                                                                           *)
(* A chunk is where it comes from and whether it is a blob (what the matcher *)
(* looks for), text, or neither.                                             *)
EXTENDS Naturals, Sequences, FiniteSets

LOCAL INSTANCE SequencesExt

CONSTANTS Kinds,     \* of "split", "seq", "merge", "interleaved"
          Inputs,    \* bound: the inputs tried: sequences of sequences of chunk types
          Cap        \* capacity of a channel (100)

VARIABLES kind, input,
          fails,     \* the inputs that end with an error
          at,        \* input -> chunks taken from it
          turn,      \* the input to read next
          active,    \* the inputs that have not ended
          mime,      \* the type of the last chunk with a part, or "none"
          held,      \* what is being sent, in order: pairs of a channel and an item
          chan,      \* channel -> its contents
          live,      \* the channels whose reader is there
          out,       \* channel -> what its reader received
          task       \* "run", "done"

vars == <<kind, input, fails, at, turn, active, mime, held, chan, live, out, task>>

Channels == {1, 2}
Item(i, n, type) == [from |-> i, n |-> n, type |-> type]
ErrorItem == Item(0, 0, "error")
Eos(i, type) == Item(i, 0, IF type = "text" THEN "text_eos" ELSE "blob_eos")

Init ==
  /\ kind \in Kinds
  /\ input \in {x \in Inputs : kind = "split" => Len(x) = 1}
  /\ fails \in SUBSET (1..Len(input))
  /\ at = [i \in 1..Len(input) |-> 0] /\ turn = 1
  /\ active = 1..Len(input) /\ mime = "none" /\ held = <<>>
  /\ chan = [c \in Channels |-> <<>>] /\ live = (IF kind = "split" THEN {1, 2} ELSE {1})
  /\ out = [c \in Channels |-> <<>>] /\ task = "run"

Room == IF kind = "merge" THEN 1 ELSE Cap

\* Where split sends a chunk.
Route(type) == IF kind # "split" \/ type = "blob" THEN 1 ELSE 2

NextTurn(i) == IF i = Len(input) THEN 1 ELSE i + 1

\* A chunk of the input whose turn it is.
TakeChunk ==
  /\ task = "run" /\ held = <<>> /\ live # {} /\ turn \in active
  /\ at[turn] < Len(input[turn])
  /\ LET n == at[turn] + 1
         type == input[turn][n]
     IN  /\ at' = [at EXCEPT ![turn] = n]
         /\ mime' = IF type \in {"blob", "text"} THEN type ELSE mime
         /\ held' = IF Route(type) \in live THEN <<<<Route(type), Item(turn, n, type)>>>> ELSE <<>>
  /\ turn' = IF kind = "interleaved" THEN NextTurn(turn) ELSE turn
  /\ UNCHANGED <<kind, input, fails, active, chan, live, out, task>>

\* Not the code: the marker carries no type.
EosAfterAny(i, type) == Eos(i, "blob")

\* What composite_seq puts between an input and the next one.
EosAfter(i, type) == Eos(i, type)

\* The input has ended: the next one, or the end.
TakeEnd ==
  /\ task = "run" /\ held = <<>> /\ live # {} /\ turn \in active
  /\ at[turn] = Len(input[turn]) /\ turn \notin fails
  /\ active' = active \ {turn}
  /\ turn' = NextTurn(turn)
  /\ mime' = "none"
  /\ held' = IF kind = "seq" /\ turn < Len(input) /\ mime # "none"
             THEN <<<<1, EosAfter(turn, mime)>>>> ELSE <<>>
  /\ UNCHANGED <<kind, input, fails, at, chan, live, out, task>>

\* merge_interleaved passes over an input that has ended.
SkipEnded ==
  /\ task = "run" /\ held = <<>> /\ active # {} /\ turn \notin active
  /\ turn' = NextTurn(turn)
  /\ UNCHANGED <<kind, input, fails, at, active, mime, held, chan, live, out, task>>

\* The input fails: every reader is told, and the task is over.
TakeError ==
  /\ task = "run" /\ held = <<>> /\ live # {} /\ turn \in active
  /\ at[turn] = Len(input[turn]) /\ turn \in fails
  /\ held' = SelectSeq(<<<<1, ErrorItem>>, <<2, ErrorItem>>>>, LAMBDA x : x[1] \in live)
  /\ active' = {}
  /\ UNCHANGED <<kind, input, fails, at, turn, mime, chan, live, out, task>>

\* Not the code: a send waits for a reader that has gone.
SendWaits ==
  /\ task = "run" /\ held # <<>>
  /\ LET c == Head(held)[1] IN
       Len(chan[c]) < Room /\ c \in live /\ chan' = [chan EXCEPT ![c] = Append(@, Head(held)[2])]
  /\ held' = Tail(held)
  /\ UNCHANGED <<kind, input, fails, at, turn, active, mime, live, out, task>>

\* Sending waits for room, and fails when the reader has gone: split goes on
\* with the other reader.
Send ==
  /\ task = "run" /\ held # <<>>
  /\ LET c == Head(held)[1] IN
       \/ /\ c \in live /\ Len(chan[c]) < Room
          /\ chan' = [chan EXCEPT ![c] = Append(@, Head(held)[2])]
          /\ UNCHANGED task
       \/ /\ c \notin live
          /\ task' = IF kind = "split" THEN task ELSE "done"
          /\ UNCHANGED chan
  /\ held' = Tail(held)
  /\ UNCHANGED <<kind, input, fails, at, turn, active, mime, live, out>>

Finish ==
  /\ task = "run" /\ held = <<>> /\ (active = {} \/ live = {})
  /\ task' = "done"
  /\ UNCHANGED <<kind, input, fails, at, turn, active, mime, held, chan, live, out>>

Recv(c) ==
  /\ c \in live /\ chan[c] # <<>>
  /\ out' = [out EXCEPT ![c] = Append(@, Head(chan[c]))]
  /\ chan' = [chan EXCEPT ![c] = Tail(@)]
  /\ UNCHANGED <<kind, input, fails, at, turn, active, mime, held, live, task>>

\* A reader closes its stream.
Leave(c) ==
  /\ c \in live /\ kind # "merge"
  /\ live' = live \ {c} /\ chan' = [chan EXCEPT ![c] = <<>>]
  /\ UNCHANGED <<kind, input, fails, at, turn, active, mime, held, out, task>>

Work == TakeChunk \/ TakeEnd \/ SkipEnded \/ TakeError \/ Send \/ Finish
Next ==
  \/ TakeChunk \/ TakeEnd \/ SkipEnded \/ TakeError \/ Send \/ Finish
  \/ \E c \in Channels : Recv(c) \/ Leave(c)

\* The task runs, and readers read on until they leave.
Fairness == WF_vars(Work) /\ \A c \in Channels : WF_vars(Recv(c))
Spec == Init /\ [][Next]_vars /\ Fairness

Numbered(i) == [n \in 1..Len(input[i]) |-> Item(i, n, input[i][n])]
Typed(s) == SelectSeq(s, LAMBDA x : x.type \in {"blob", "text"})
\* What an output should carry of input i, markers included.
Share(c, i) ==
  CASE kind = "split" -> SelectSeq(Numbered(i), LAMBDA x : (x.type = "blob") <=> (c = 1))
    [] kind = "seq" /\ i < Len(input) /\ Typed(Numbered(i)) # <<>> ->
         Append(Numbered(i), Eos(i, Last(Typed(Numbered(i))).type))
    [] OTHER -> Numbered(i)
From(c, i) == SelectSeq(out[c], LAMBDA x : x.from = i)

\* A reader receives what is its share of every input in order, with nothing
\* lost, repeated or invented; all of it when no input has failed and it has
\* seen the end; and composite_seq and merge keep the inputs apart.
SharesExact ==
  \A c \in live :
    /\ \A i \in 1..Len(input) : IsPrefix(From(c, i), Share(c, i))
    /\ (task = "done" /\ chan[c] = <<>> /\ fails = {})
         => \A i \in 1..Len(input) : From(c, i) = Share(c, i)
    /\ kind \in {"seq", "merge"} =>
         \A j, k \in 1..Len(out[c]) :
           (j < k /\ out[c][k].type # "error") => out[c][j].from <= out[c][k].from

TaskDone == task = "done"

\* The task ends although channels are bounded and readers may leave at any time.
TaskEnds == <>TaskDone
=============================================================================
