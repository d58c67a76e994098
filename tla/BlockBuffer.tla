---------------------------- MODULE BlockBuffer ----------------------------
(***************************************************************************)
(* BlockBuffer<T> (rust/buffer/src/block_buffer.rs): a ring of Option<T>   *)
(* slots behind one mutex, with the condition variables not_full and       *)
(* not_empty.  Threads share it through clones.                            *)
(*                                                                         *)
(* A critical section (from lock or wake-up to return or wait) is one      *)
(* action.  A thread that waits sits in the wait set of its condition      *)
(* variable; a notification takes it out, and it then competes for the     *)
(* mutex like any other: the action that continues its call is enabled     *)
(* from then on.                                                           *)
(***************************************************************************)
EXTENDS Integers, Sequences, FiniteSets

CONSTANTS Thread,     \* threads holding a clone
          Value,      \* elements
          Error,      \* errors given to close_with_error
          None,       \* Option::None, for slots and for close_err
          Capacity,   \* buf.len()
          WriteData,  \* the slices passed to write
          ReadLen     \* the lengths of the destinations passed to read

ASSUME CapacityAssumption == Capacity \in Nat \ {0}
ASSUME WriteDataAssumption == WriteData \subseteq Seq(Value) \ {<< >>}
ASSUME ReadLenAssumption == ReadLen \subseteq Nat
ASSUME NoneAssumption == None \notin Value /\ None \notin Error

VARIABLES buf, head, tail, count,   \* the ring
          close_write, close_err,   \* the closed state
          call,                     \* per thread: the call it is inside, if any
          not_full, not_empty,      \* the wait sets of the condition variables
          ret                       \* the result of the last call that returned

ring == <<buf, head, tail, count>>
closing == <<close_write, close_err>>
waiting == <<not_full, not_empty>>
vars == <<ring, closing, call, waiting, ret>>

Slot == 0 .. Capacity - 1
Singles == {<<v>> : v \in Value}
Batches == WriteData \cup Singles

Idle == [op |-> "idle", data |-> << >>, written |-> 0, len |-> 0]
WriteCall(d, w) == [op |-> "write", data |-> d, written |-> w, len |-> 0]
AddCall(v) == [op |-> "add", data |-> <<v>>, written |-> 0, len |-> 0]
ReadCall(n) == [op |-> "read", data |-> << >>, written |-> 0, len |-> n]
NextCall == [op |-> "next", data |-> << >>, written |-> 0, len |-> 0]

Result(tag, n, got) == [tag |-> tag, n |-> n, got |-> got]

-----------------------------------------------------------------------------
\* BlockBuffer::new: all slots empty.
New == /\ buf = [s \in Slot |-> None]
       /\ count = 0

\* BlockBuffer::from_vec: as many slots as elements, all of them filled.
FromVec == /\ buf \in [Slot -> Value]
           /\ count = Capacity

Init == /\ New \/ FromVec
        /\ head = 0
        /\ tail = 0
        /\ close_write = FALSE
        /\ close_err = None
        /\ call = [t \in Thread |-> Idle]
        /\ not_full = {} /\ not_empty = {}
        /\ ret = Result("none", 0, << >>)

-----------------------------------------------------------------------------
(* The ring.                                                               *)

\* How far slot s lies after position from, going round.
Offset(s, from) == (s - from + Capacity) % Capacity

\* The first n elements of the ring, oldest first (to_vec is Window(count)).
Window(n) == [i \in 1 .. n |-> buf[(head + (i - 1)) % Capacity]]

\* Elements d[w+1] .. d[w+n] go to the n slots from tail on.
Push(d, w, n) ==
    /\ buf' = [s \in Slot |-> IF Offset(s, tail) < n THEN d[w + Offset(s, tail) + 1]
                                                    ELSE buf[s]]
    /\ tail' = (tail + n) % Capacity
    /\ count' = count + n
    /\ head' = head

\* Not the code: a head that is not taken modulo the capacity.
PopUnwrapped(n) ==
    /\ buf' = [s \in Slot |-> IF Offset(s, head) < n THEN None ELSE buf[s]]
    /\ head' = head + n
    /\ count' = count - n
    /\ tail' = tail

\* The n slots from head on are emptied.
Pop(n) ==
    /\ buf' = [s \in Slot |-> IF Offset(s, head) < n THEN None ELSE buf[s]]
    /\ head' = (head + n) % Capacity
    /\ count' = count - n
    /\ tail' = tail

\* Not the code: a clear that forgets tail.
ClearKeepsTail ==
    /\ buf' = [s \in Slot |-> None]
    /\ head' = 0 /\ tail' = tail /\ count' = 0

Clear ==
    /\ buf' = [s \in Slot |-> None]
    /\ head' = 0 /\ tail' = 0 /\ count' = 0

\* Condvar::notify_one: the wait sets it may leave behind.
NotifyOne(W) == IF W = {} THEN {W} ELSE {W \ {w} : w \in W}

-----------------------------------------------------------------------------
(* The four blocking operations.  Each is a loop around a wait; the        *)
(* operator is its body, run once from the call and again on each wake-up. *)

Return(t, r) == call' = [call EXCEPT ![t] = Idle] /\ ret' = r
Block(t, c) == call' = [call EXCEPT ![t] = c] /\ ret' = ret

Smaller(a, b) == IF a < b THEN a ELSE b

\* Not the code: a write interrupted half way reports an error.
WriteClosedForgets(t, d, w) ==
    /\ close_err # None \/ close_write
    /\ Return(t, Result(IF close_err # None THEN "failed" ELSE "closed", 0, << >>))
    /\ UNCHANGED <<ring, waiting>>

\* write finds the buffer closed.
WriteClosed(t, d, w) ==
    /\ close_err # None \/ close_write
    /\ Return(t, IF w > 0 THEN Result("ok", w, << >>)
                 ELSE Result(IF close_err # None THEN "failed" ELSE "closed", 0, << >>))
    /\ UNCHANGED <<ring, waiting>>

\* write finds no room.
WriteFull(t, d, w) ==
    /\ close_err = None /\ ~close_write
    /\ count = Capacity
    /\ Block(t, WriteCall(d, w))
    /\ not_full' = not_full \cup {t}
    /\ UNCHANGED <<ring, not_empty>>

\* Not the code: a write that fits whole, without the notification.
WriteBatchQuiet(t, d, w) ==
    /\ close_err = None /\ ~close_write
    /\ count < Capacity
    /\ w + Smaller(Capacity - count, Len(d) - w) = Len(d)
    /\ Push(d, w, Len(d) - w)
    /\ Return(t, Result("ok", Len(d), << >>))
    /\ UNCHANGED waiting

\* write stores what fits, wakes one reader, and returns or waits for the rest.
WriteBatch(t, d, w) ==
    /\ close_err = None /\ ~close_write
    /\ count < Capacity
    /\ LET n == Smaller(Capacity - count, Len(d) - w) IN
         /\ Push(d, w, n)
         /\ not_empty' \in NotifyOne(not_empty)
         /\ \/ /\ w + n = Len(d)
               /\ Return(t, Result("ok", Len(d), << >>))
               /\ not_full' = not_full
            \/ /\ w + n < Len(d)
               /\ Block(t, WriteCall(d, w + n))
               /\ not_full' = not_full \cup {t}

WriteLoop(t, d, w) ==
    /\ WriteClosed(t, d, w) \/ WriteFull(t, d, w) \/ WriteBatch(t, d, w)
    /\ UNCHANGED closing

AddLoop(t, v) ==
    /\ \/ /\ close_err # None \/ close_write
          /\ Return(t, Result(IF close_err # None THEN "failed" ELSE "closed", 0, << >>))
          /\ UNCHANGED <<ring, waiting>>
       \/ /\ close_err = None /\ ~close_write
          /\ count = Capacity
          /\ Block(t, AddCall(v))
          /\ not_full' = not_full \cup {t}
          /\ UNCHANGED <<ring, not_empty>>
       \/ /\ close_err = None /\ ~close_write
          /\ count < Capacity
          /\ Push(<<v>>, 0, 1)
          /\ not_empty' \in NotifyOne(not_empty)
          /\ not_full' = not_full
          /\ Return(t, Result("ok", 1, << >>))
    /\ UNCHANGED closing

\* read and next up to the point where they take elements: they fail after
\* close_with_error, end (with result eof) when closed and drained, else wait.
ReadClosed(t, failed, eof) ==
    /\ \/ close_err # None /\ Return(t, failed)
       \/ close_err = None /\ count = 0 /\ close_write /\ Return(t, eof)
    /\ UNCHANGED <<ring, waiting>>

ReadEmpty(t, c) ==
    /\ close_err = None /\ count = 0 /\ ~close_write
    /\ Block(t, c)
    /\ not_empty' = not_empty \cup {t}
    /\ UNCHANGED <<ring, not_full>>

\* Not the code: reading without waking a writer.
ReadSomeQuiet(t, n) ==
    /\ close_err = None /\ count > 0
    /\ Return(t, Result("ok", n, Window(n)))
    /\ Pop(n)
    /\ UNCHANGED waiting

\* They take n elements and wake one writer.
ReadSome(t, n) ==
    /\ close_err = None /\ count > 0
    /\ Return(t, Result("ok", n, Window(n)))
    /\ Pop(n)
    /\ not_full' \in NotifyOne(not_full)
    /\ not_empty' = not_empty

ReadLoop(t, len) ==
    /\ \/ ReadClosed(t, Result("failed", 0, << >>), Result("ok", 0, << >>))
       \/ ReadEmpty(t, ReadCall(len))
       \/ ReadSome(t, Smaller(len, count))
    /\ UNCHANGED closing

NextLoop(t) ==
    /\ \/ ReadClosed(t, Result("done", 0, << >>), Result("done", 0, << >>))
       \/ ReadEmpty(t, NextCall)
       \/ ReadSome(t, 1)
    /\ UNCHANGED closing

-----------------------------------------------------------------------------
(* The calls.                                                              *)

Write(t) == /\ call[t] = Idle
            /\ \E d \in WriteData : WriteLoop(t, d, 0)

Add(t) == /\ call[t] = Idle
          /\ \E v \in Value : AddLoop(t, v)

Read(t) == /\ call[t] = Idle
           /\ \E len \in ReadLen : ReadLoop(t, len)

NextItem(t) == /\ call[t] = Idle
               /\ NextLoop(t)

\* A thread that was notified gets the mutex back and goes round its loop.
Awake(t) == t \notin not_full \cup not_empty

Resume(t) ==
    /\ Awake(t)
    /\ \/ call[t].op = "write" /\ WriteLoop(t, call[t].data, call[t].written)
       \/ call[t].op = "add" /\ AddLoop(t, call[t].data[1])
       \/ call[t].op = "read" /\ ReadLoop(t, call[t].len)
       \/ call[t].op = "next" /\ NextLoop(t)

\* Condvar::wait may return without a notification.
SpuriousWakeup(t) ==
    /\ ~Awake(t)
    /\ not_full' = not_full \ {t}
    /\ not_empty' = not_empty \ {t}
    /\ UNCHANGED <<ring, closing, call, ret>>

\* Not the code: discarding several elements wakes one writer only.
DiscardWakesOne ==
    /\ close_err = None
    /\ \E n \in 0 .. count : Pop(n)
    /\ not_full' \in NotifyOne(not_full)
    /\ UNCHANGED <<closing, call, not_empty, ret>>

\* discard: with close_err set it returns the error and changes nothing.
Discard ==
    /\ close_err = None
    /\ \E n \in 0 .. count : Pop(n)
    /\ not_full' = {}
    /\ UNCHANGED <<closing, call, not_empty, ret>>

Reset ==
    /\ Clear
    /\ not_full' = {}
    /\ UNCHANGED <<closing, call, not_empty, ret>>

\* Not the code: closing wakes one thread of each kind.
CloseWriteWakesOne ==
    /\ ~close_write
    /\ close_write' = TRUE
    /\ not_full' \in NotifyOne(not_full) /\ not_empty' \in NotifyOne(not_empty)
    /\ UNCHANGED <<ring, close_err, call, ret>>

\* close_write, and close, which calls it; a second call changes nothing.
CloseWrite ==
    /\ ~close_write
    /\ close_write' = TRUE
    /\ not_full' = {} /\ not_empty' = {}
    /\ UNCHANGED <<ring, close_err, call, ret>>

\* Not the code: only readers are told of the error.
CloseWithErrorHalf ==
    /\ close_err = None
    /\ close_err' \in Error
    /\ Clear
    /\ close_write' = TRUE
    /\ not_empty' = {}
    /\ UNCHANGED <<call, not_full, ret>>

\* close_with_error; a second call changes nothing.
CloseWithError ==
    /\ close_err = None
    /\ close_err' \in Error
    /\ Clear
    /\ close_write' = TRUE
    /\ not_full' = {} /\ not_empty' = {}
    /\ UNCHANGED <<call, ret>>

Next ==
    \/ \E t \in Thread : \/ Write(t) \/ Add(t) \/ Read(t) \/ NextItem(t)
                         \/ Resume(t) \/ SpuriousWakeup(t)
    \/ Discard \/ Reset \/ CloseWrite \/ CloseWithError

Spec == Init /\ [][Next]_vars

\* A notified thread eventually gets the mutex: no critical section blocks while
\* holding it.  Nothing obliges a thread to make a new call.
FairSpec == Spec /\ \A t \in Thread : WF_vars(Resume(t))
-----------------------------------------------------------------------------
(* Properties.                                                             *)

Calls == [op : {"idle", "write", "add", "read", "next"},
          data : Seq(Value), written : Nat, len : Nat]
Results == [tag : {"none", "ok", "closed", "failed", "done"}, n : Nat, got : Seq(Value)]

\* The types of the state of a BlockBuffer and of its callers.
TypeOK ==
    /\ buf \in [Slot -> Value \cup {None}]
    /\ head \in Slot /\ tail \in Slot /\ count \in 0 .. Capacity
    /\ close_write \in BOOLEAN /\ close_err \in Error \cup {None}
    /\ call \in [Thread -> Calls]
    /\ not_full \subseteq Thread /\ not_empty \subseteq Thread
    /\ ret \in Results

\* The ring's bookkeeping: the occupied slots are exactly the count slots from
\* head on, and tail is the slot after them.  This is what keeps the
\* take().unwrap() of read and next from panicking with the mutex held, and
\* write and add from overwriting an unread element.
RingOK ==
    /\ tail = (head + count) % Capacity
    /\ \A s \in Slot : buf[s] # None <=> Offset(s, head) < count

\* A call in progress is one the buffer could not serve at once: a writer has
\* something left to write, and a sleeper sits on the condition variable its
\* operation waits on.  Nobody sleeps on a buffer that was closed, by
\* close_write or by close_with_error.
SleepersAreBlocked ==
    /\ \A t \in Thread :
         /\ call[t].op = "write" => call[t].data \in WriteData
                                   /\ call[t].written < Len(call[t].data)
         /\ call[t].op = "add" => call[t].data \in Singles
    /\ \A t \in not_full : call[t].op \in {"write", "add"}
    /\ \A t \in not_empty : call[t].op \in {"read", "next"}
    /\ close_write => not_full = {} /\ not_empty = {}

\* Callers that were woken but have not had the mutex yet.
WokenReaders == {t \in Thread \ not_empty : call[t].op \in {"read", "next"}}
WokenWriters == {t \in Thread \ not_full : call[t].op \in {"write", "add"}}

\* No wake-up is lost while every call moves one element (add, next, write and
\* read of one): if a reader sleeps, each stored element has a woken reader on
\* its way to it; if a writer sleeps, each free slot has a woken writer.  The
\* operations use notify_one, so a thief (a call that finds the element before
\* the woken one does), a discard or a reset in between must not break this.
NoLostWakeup ==
    /\ not_empty # {} => count <= Cardinality(WokenReaders)
    /\ not_full # {} => Capacity - count <= Cardinality(WokenWriters)

ReadersStarve == not_empty # {} /\ count > 0
WritersStarve == not_full # {} /\ count < Capacity

\* The same as a liveness property, the doc comments of read, next, write and
\* add ("Blocks when the buffer is empty until data becomes available", "Blocks
\* when the buffer is full until space becomes available"): the buffer does not
\* hold elements for ever while a reader sleeps.
ReadersProgress == ReadersStarve ~> ~ReadersStarve

\* ... nor keep free slots for ever while a writer sleeps.
WritersProgress == WritersStarve ~> ~WritersStarve

Stranded(t) == close_write /\ call[t] # Idle
Returned(t) == call[t] = Idle

\* Closing unblocks everyone: every call in progress on a closed buffer returns.
CloseUnblocks == \A t \in Thread : Stranded(t) ~> Returned(t)

\* The buffer is the blocking ClosableQueue: slots and indices hide nothing,
\* elements come out once, in the order they went in, and write reports exactly
\* the elements it stored, also when a close interrupts it half way.
PendingWrite ==
    [t \in Thread |-> IF call[t].op = "write" /\ call[t].written > 0
                        THEN [data |-> call[t].data, done |-> call[t].written]
                        ELSE [data |-> << >>, done |-> 0]]

Queue == INSTANCE ClosableQueue
    WITH queue <- Window(count), closed <- close_write, err <- close_err,
         pending <- PendingWrite, Batch <- Batches \cup [1 .. Capacity -> Value],
         Policy <- "block"

QueueSpec == Queue!Spec
=============================================================================
