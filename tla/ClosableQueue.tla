--------------------------- MODULE ClosableQueue ---------------------------
(***************************************************************************)
(* What the three buffers of the buffer crate (Buffer, BlockBuffer,        *)
(* RingBuffer) promise to their callers, with no slots, indices, locks or  *)
(* condition variables: a queue that several threads fill and drain and    *)
(* that can be closed for writing or failed with an error.                 *)
(*                                                                         *)
(* The buffers differ only in what a full queue does (Policy):             *)
(*   "grow"       the queue has no limit            (Buffer)               *)
(*   "block"      a put waits for room              (BlockBuffer)          *)
(*   "overwrite"  a put drops the oldest elements   (RingBuffer)           *)
(* Only safety is stated here: who is woken, and when, is the business of  *)
(* the detailed modules.                                                   *)
(***************************************************************************)
EXTENDS Integers, Sequences

CONSTANTS Thread,    \* the callers
          Batch,     \* the sequences a caller may put in one call
          Error,     \* the errors the queue may be failed with
          None,      \* no error
          Capacity,  \* the limit of the "block" and "overwrite" policies
          Policy     \* "grow", "block" or "overwrite"

VARIABLES queue,     \* the elements, oldest first
          closed,    \* the write side is closed
          err,       \* the error the queue was failed with, or None
          pending,   \* per thread: the put it is in the middle of
          ret        \* what the last call that returned gave its caller

vars == <<queue, closed, err, pending, ret>>

NoPut == [data |-> << >>, done |-> 0]

(***************************************************************************)
(* A result: its tag, how many elements it reports, the elements it hands  *)
(* over.  "ok" is Ok, "closed" Err(Closed), "failed" Err(ClosedWithError), *)
(* "done" Err(Done).                                                       *)
(***************************************************************************)
Result(tag, n, got) == [tag |-> tag, n |-> n, got |-> got]

Ok(n) == Result("ok", n, << >>)
Got(s) == Result("ok", Len(s), s)

Init == /\ queue \in {<< >>} \cup {b \in Batch : Policy = "block" /\ Len(b) = Capacity}
        /\ closed = FALSE
        /\ err = None
        /\ pending = [t \in Thread |-> NoPut]
        /\ ret = Result("none", 0, << >>)

\* The newest n elements of s.
Newest(s, n) == IF Len(s) <= n THEN s ELSE SubSeq(s, Len(s) - n + 1, Len(s))

\* The queue takes the elements of s at its end.
Accept(s) ==
    \/ Policy = "grow" /\ queue' = queue \o s
    \/ /\ Policy = "block"
       /\ Len(queue) + Len(s) <= Capacity
       /\ queue' = queue \o s
    \/ Policy = "overwrite" /\ queue' = Newest(queue \o s, Capacity)

\* Thread t puts elements first..last of d, the next ones of its call; the call
\* returns when they are the last ones, and only a blocking queue stops before.
Put(t, d, last) ==
    LET first == pending[t].done + 1 IN
    /\ ~closed
    /\ last < Len(d) => Policy = "block"
    /\ ret' = IF last = Len(d) THEN Ok(Len(d)) ELSE ret
    /\ pending[t] = NoPut \/ pending[t].data = d
    /\ last \in first .. Len(d)
    /\ Accept(SubSeq(d, first, last))
    /\ pending' = [pending EXCEPT ![t] =
                       IF last = Len(d) THEN NoPut ELSE [data |-> d, done |-> last]]
    /\ UNCHANGED <<closed, err>>

\* A put that meets a closed queue reports the elements already taken, if any,
\* and otherwise why none will be.
Refuse(t) ==
    /\ closed
    /\ ret' = IF pending[t].done > 0 THEN Ok(pending[t].done)
              ELSE Result(IF err = None THEN "closed" ELSE "failed", 0, << >>)
    /\ pending' = [pending EXCEPT ![t] = NoPut]
    /\ UNCHANGED <<queue, closed, err>>

\* A caller takes the n oldest elements.
Take(n) ==
    /\ err = None
    /\ queue # << >>
    /\ n \in 0 .. Len(queue)
    /\ queue' = SubSeq(queue, n + 1, Len(queue))
    /\ ret' = Got(SubSeq(queue, 1, n))
    /\ UNCHANGED <<closed, err, pending>>

\* End of stream: only a closed queue with nothing left reports it.
EndOfStream ==
    /\ closed /\ err = None /\ queue = << >>
    /\ ret' \in {Ok(0), Result("done", 0, << >>)}
    /\ UNCHANGED <<queue, closed, err, pending>>

Failed ==
    /\ err # None
    /\ ret' \in {Result("failed", 0, << >>), Result("done", 0, << >>)}
    /\ UNCHANGED <<queue, closed, err, pending>>

\* The n oldest elements are thrown away.
Drop(n) ==
    /\ n \in 1 .. Len(queue)
    /\ queue' = SubSeq(queue, n + 1, Len(queue))
    /\ UNCHANGED <<closed, err, pending, ret>>

Close ==
    /\ ~closed
    /\ closed' = TRUE
    /\ UNCHANGED <<queue, err, pending, ret>>

Fail(e) ==
    /\ err = None
    /\ err' = e
    /\ closed' = TRUE
    /\ queue' = << >>
    /\ UNCHANGED <<pending, ret>>

Next ==
    \/ \E t \in Thread, d \in Batch : \E last \in 1 .. Len(d) : Put(t, d, last)
    \/ \E t \in Thread : Refuse(t)
    \/ \E n \in 0 .. Len(queue) : Take(n) \/ Drop(n)
    \/ EndOfStream
    \/ Failed
    \/ Close
    \/ \E e \in Error : Fail(e)

Spec == Init /\ [][Next]_vars
=============================================================================
