----------------------------- MODULE GenxStream -----------------------------
(* The response stream of rust/genx/src/stream.rs: a StreamBuilder that      *)
(* generators fill, and the StreamImpl handles (clones share one buffer)     *)
(* that read it; a producer may also be the tee of tee.rs.  The buffer is    *)
(* the blocking one of the buffer crate, as ClosableQueue states it: a write *)
(* waits for room, closing lets readers drain, an error empties it.          *)
EXTENDS Integers, Sequences, FiniteSets

CONSTANTS Producers,   \* threads that fill the stream
          Handles,     \* clones of the stream that are read
          Size,        \* capacity of the buffer
          MaxAdds,     \* bound: chunks added
          Endings,     \* of "done", "truncated", "blocked", "error", "abort"
          MayClose     \* the handles may close the stream themselves

VARIABLES buffer, buffer_closed, buffer_failed,
          done,          \* the builder's flag
          result,        \* the shared result: a status or "none"
          stage,         \* producer -> "run", "won", "told", "wrote", "end"
          how,           \* producer -> the ending it has chosen
          added,         \* chunks accepted; the n-th is the number n
          before,        \* ... before the event of the ending
          local_result,  \* handle -> its own result
          ended,         \* handle -> its last next gave the end of the stream
          chunks,        \* chunks the handles have received, oldest first
          hurt           \* a handle broke the stream off

buffer_vars == <<buffer, buffer_closed, buffer_failed>>
builder_vars == <<done, result, stage, how, added, before>>
handle_vars == <<local_result, ended, chunks, hurt>>
stream_vars == <<buffer_vars, builder_vars, handle_vars>>

Status(e) == IF e = "abort" THEN "error" ELSE e

StreamInit ==
  /\ buffer = << >> /\ buffer_closed = FALSE /\ buffer_failed = FALSE
  /\ done = FALSE /\ result = "none" /\ added = 0 /\ before = 0
  /\ stage = [p \in Producers |-> "run"] /\ how = [p \in Producers |-> "none"]
  /\ local_result = [h \in Handles |-> "none"] /\ ended = [h \in Handles |-> FALSE]
  /\ chunks = << >> /\ hurt = FALSE

\* add: a closed stream refuses the chunk, a full one makes the caller wait.
AddChunk(p) ==
  /\ stage[p] = "run" /\ added < MaxAdds
  /\ ~buffer_closed /\ Len(buffer) < Size
  /\ buffer' = Append(buffer, [kind |-> "chunk", n |-> added + 1]) /\ added' = added + 1
  /\ UNCHANGED <<buffer_closed, buffer_failed, done, result, stage, how, before, handle_vars>>

\* Not the code: whoever ends the stream goes on, whether it was ended before or not.
BeginAgain(p, e) ==
  /\ stage[p] = "run"
  /\ how' = [how EXCEPT ![p] = e]
  /\ stage' = [stage EXCEPT ![p] = "won"]
  /\ done' = TRUE
  /\ UNCHANGED <<buffer_vars, result, added, before, handle_vars>>

\* The endings: the first to swap the flag goes on, the others return.
Begin(p, e) ==
  /\ stage[p] = "run"
  /\ how' = [how EXCEPT ![p] = e]
  /\ stage' = [stage EXCEPT ![p] = IF done THEN "end" ELSE "won"]
  /\ done' = TRUE
  /\ UNCHANGED <<buffer_vars, result, added, before, handle_vars>>

Done(p)       == Begin(p, "done")
Truncated(p)  == Begin(p, "truncated")
Blocked(p)    == Begin(p, "blocked")
Unexpected(p) == Begin(p, "error")
Abort(p)      == Begin(p, "abort")

SetResult(p) ==
  /\ stage[p] = "won"
  /\ result' = Status(how[p]) /\ stage' = [stage EXCEPT ![p] = "told"]
  /\ UNCHANGED <<buffer_vars, done, how, added, before, handle_vars>>

\* abort fails the buffer and drops what is in it.
FailBuffer(p) ==
  /\ stage[p] = "told" /\ how[p] = "abort"
  /\ IF buffer_failed THEN UNCHANGED buffer_vars
     ELSE buffer' = << >> /\ buffer_closed' = TRUE /\ buffer_failed' = TRUE
  /\ stage' = [stage EXCEPT ![p] = "end"]
  /\ UNCHANGED <<done, result, how, added, before, handle_vars>>

\* The other endings write their event; a stream closed by its reader refuses it.
WriteEnd(p) ==
  /\ stage[p] = "told" /\ how[p] # "abort"
  /\ \/ buffer_closed /\ stage' = [stage EXCEPT ![p] = "end"] /\ UNCHANGED <<buffer, before>>
     \/ /\ ~buffer_closed /\ Len(buffer) < Size
        /\ buffer' = Append(buffer, [kind |-> how[p], n |-> 0])
        /\ before' = added
        /\ stage' = [stage EXCEPT ![p] = "wrote"]
  /\ UNCHANGED <<buffer_closed, buffer_failed, done, result, how, added, handle_vars>>

\* Not the code: the write side stays open after the event.
CloseBufferNot(p) ==
  /\ stage[p] = "wrote"
  /\ stage' = [stage EXCEPT ![p] = "end"]
  /\ UNCHANGED <<buffer_vars, done, result, how, added, before, handle_vars>>

\* ... and close_write.
CloseBuffer(p) ==
  /\ stage[p] = "wrote"
  /\ buffer_closed' = TRUE /\ stage' = [stage EXCEPT ![p] = "end"]
  /\ UNCHANGED <<buffer, buffer_failed, done, result, how, added, before, handle_vars>>

\* Not the code: the end of a closed stream is taken for a success.
AtEndOk == IF result = "none" THEN "none" ELSE "done"

\* What a handle makes of the end of a closed stream: the shared result, if there is one.
AtEnd == result

\* next: a handle that has a result gives the end again.
Next1(h) ==
  /\ local_result[h] = "none"
  /\ \/ /\ buffer_failed
        /\ local_result' = [local_result EXCEPT ![h] = "error"] /\ ended' = [ended EXCEPT ![h] = TRUE]
        /\ UNCHANGED <<buffer, chunks>>
     \/ /\ ~buffer_failed /\ buffer # << >>
        /\ buffer' = Tail(buffer)
        /\ IF Head(buffer).kind = "chunk"
           THEN chunks' = Append(chunks, Head(buffer).n) /\ UNCHANGED <<local_result, ended>>
           ELSE /\ local_result' = [local_result EXCEPT ![h] = Head(buffer).kind]
                /\ ended' = [ended EXCEPT ![h] = TRUE] /\ UNCHANGED chunks
     \/ /\ ~buffer_failed /\ buffer = << >> /\ buffer_closed
        /\ local_result' = [local_result EXCEPT ![h] = AtEnd] /\ ended' = [ended EXCEPT ![h] = TRUE]
        /\ UNCHANGED <<buffer, chunks>>
  /\ UNCHANGED <<buffer_closed, buffer_failed, builder_vars, hurt>>

CloseStream(h) ==
  /\ MayClose /\ ~buffer_closed
  /\ buffer_closed' = TRUE /\ hurt' = TRUE
  /\ UNCHANGED <<buffer, buffer_failed, builder_vars, local_result, ended, chunks>>

CloseStreamWithError(h) ==
  /\ MayClose /\ ~buffer_failed
  /\ buffer' = << >> /\ buffer_closed' = TRUE /\ buffer_failed' = TRUE /\ hurt' = TRUE
  /\ UNCHANGED <<builder_vars, local_result, ended, chunks>>

Finishing(p) == SetResult(p) \/ FailBuffer(p) \/ WriteEnd(p) \/ CloseBuffer(p)

StreamNext ==
  \/ \E p \in Producers :
       \/ AddChunk(p) \/ SetResult(p) \/ FailBuffer(p) \/ WriteEnd(p) \/ CloseBuffer(p)
       \/ "done" \in Endings /\ Done(p)
       \/ "truncated" \in Endings /\ Truncated(p)
       \/ "blocked" \in Endings /\ Blocked(p)
       \/ "error" \in Endings /\ Unexpected(p)
       \/ "abort" \in Endings /\ Abort(p)
  \/ \E h \in Handles : Next1(h) \/ CloseStream(h) \/ CloseStreamWithError(h)

\* Generators finish what they begin, and the handles are read to the end.
StreamFairness ==
  /\ \A p \in Producers : WF_stream_vars(Finishing(p))
  /\ \A h \in Handles : WF_stream_vars(Next1(h))

StreamSpec == StreamInit /\ [][StreamNext]_stream_vars /\ StreamFairness

\* A handle that knows how the stream ended knows what the builder was told,
\* whichever clone read the event and however two endings raced, unless a
\* reader broke the stream off.
ResultAgrees ==
  \A h \in Handles : (ended[h] /\ ~hurt) => local_result[h] = result /\ result # "none"

\* The handles together receive the chunks in order and without a gap; and once one
\* of them has come to an end that is no abort, every chunk accepted before the event
\* of that ending was received, also by the handle that found the buffer empty
\* because another read the event.
ChunksWhole ==
  /\ chunks = [i \in 1 .. Len(chunks) |-> i]
  /\ (\E h \in Handles : ended[h]) /\ ~buffer_failed /\ ~hurt => Len(chunks) >= before

\* What done, truncated, blocked, unexpected and abort promise to every clone.
EndsAgree == ResultAgrees /\ ChunksWhole

Ending == done
Ended(h) == ended[h]

\* Every clone reaches the end once the stream is being ended, although only
\* one of them can read the event.
HandlesEnd == \A h \in Handles : Ending ~> Ended(h)

\* A chunk that was accepted is not behind the end of the stream.
NothingBehindEnd ==
  \A i \in 1..Len(buffer) : buffer[i].kind # "chunk" => i = Len(buffer)
=============================================================================
