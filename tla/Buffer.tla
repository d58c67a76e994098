------------------------------- MODULE Buffer -------------------------------
(***************************************************************************)
(* Buffer<T> (rust/buffer/src/buffer.rs): a growable VecDeque behind one   *)
(* mutex.  Writers never wait; readers wait on write_notify.  Critical     *)
(* sections and wait sets are modelled as in BlockBuffer.                  *)
(***************************************************************************)
EXTENDS Integers, Sequences, FiniteSets, SequenceTheorems, TLAPS

CONSTANTS Thread, Value, Error, None, WriteData, ReadLen,
          MaxLen      \* bound: writers stop here, where the program would grow

\* What the constants have to satisfy; assumed where the module is instantiated.
BufferAssumption ==
    /\ WriteData \subseteq Seq(Value) \ {<< >>}
    /\ ReadLen \subseteq Nat
    /\ None \notin Error
    /\ MaxLen \in Nat

VARIABLES buf,            \* the VecDeque
          close_write, close_err,
          call,           \* per thread: the read or next it is inside, if any
          write_notify,   \* the wait set of the condition variable
          ret             \* the result of the last call that returned

closing == <<close_write, close_err>>
vars == <<buf, closing, call, write_notify, ret>>

Singles == {<<v>> : v \in Value}

Idle == [op |-> "idle", len |-> 0]
ReadCall(n) == [op |-> "read", len |-> n]
NextCall == [op |-> "next", len |-> 0]

Result(tag, n, got) == [tag |-> tag, n |-> n, got |-> got]

Init == /\ buf = << >>
        /\ close_write = FALSE /\ close_err = None
        /\ call = [t \in Thread |-> Idle]
        /\ write_notify = {}
        /\ ret = Result("none", 0, << >>)

NotifyOne(W) == IF W = {} THEN {W} ELSE {W \ {w} : w \in W}
Smaller(x, y) == IF x < y THEN x ELSE y

\* pop_front, n times.
PopFront(n) == buf' = SubSeq(buf, n + 1, Len(buf))

Return(t, r) == call' = [call EXCEPT ![t] = Idle] /\ ret' = r

-----------------------------------------------------------------------------
\* write and add on a closed buffer.
WriteClosed(t) ==
    /\ call[t] = Idle
    /\ close_err # None \/ close_write
    /\ Return(t, Result(IF close_err # None THEN "failed" ELSE "closed", 0, << >>))
    /\ UNCHANGED <<buf, closing, write_notify>>

WriteItems(t, d) ==
    /\ call[t] = Idle
    /\ close_err = None /\ ~close_write
    /\ Len(buf) + Len(d) <= MaxLen
    /\ buf' = buf \o d
    /\ write_notify' \in NotifyOne(write_notify)
    /\ Return(t, Result("ok", Len(d), << >>))
    /\ UNCHANGED closing

Write(t) == WriteClosed(t) \/ \E d \in WriteData : WriteItems(t, d)
Add(t) == WriteClosed(t) \/ \E d \in Singles : WriteItems(t, d)

\* The loop of read and of next.
ReadLoop(t, c, want, failed, eof) ==
    /\ \/ /\ close_err # None
          /\ Return(t, failed)
          /\ UNCHANGED <<buf, write_notify>>
       \/ /\ close_err = None /\ buf = << >> /\ close_write
          /\ Return(t, eof)
          /\ UNCHANGED <<buf, write_notify>>
       \/ /\ close_err = None /\ buf = << >> /\ ~close_write
          /\ call' = [call EXCEPT ![t] = c]
          /\ write_notify' = write_notify \cup {t}
          /\ UNCHANGED <<buf, ret>>
       \/ /\ close_err = None /\ buf # << >>
          /\ LET n == Smaller(want, Len(buf)) IN
               /\ Return(t, Result("ok", n, SubSeq(buf, 1, n)))
               /\ PopFront(n)
          /\ UNCHANGED write_notify
    /\ UNCHANGED closing

ReadFrom(t, len) ==
    ReadLoop(t, ReadCall(len), len, Result("failed", 0, << >>), Result("ok", 0, << >>))
NextFrom(t) ==
    ReadLoop(t, NextCall, 1, Result("done", 0, << >>), Result("done", 0, << >>))

Read(t) == call[t] = Idle /\ \E len \in ReadLen : ReadFrom(t, len)
NextItem(t) == call[t] = Idle /\ NextFrom(t)

Resume(t) ==
    /\ t \notin write_notify
    /\ \/ call[t].op = "read" /\ ReadFrom(t, call[t].len)
       \/ call[t].op = "next" /\ NextFrom(t)

SpuriousWakeup(t) ==
    /\ t \in write_notify
    /\ write_notify' = write_notify \ {t}
    /\ UNCHANGED <<buf, closing, call, ret>>

Discard ==
    /\ close_err = None
    /\ \E n \in 0 .. Len(buf) : PopFront(n)
    /\ UNCHANGED <<closing, call, write_notify, ret>>

Reset == buf' = << >> /\ UNCHANGED <<closing, call, write_notify, ret>>

\* Not the code: closing wakes one reader.
CloseWriteWakesOne ==
    /\ ~close_write
    /\ close_write' = TRUE
    /\ write_notify' \in NotifyOne(write_notify)
    /\ UNCHANGED <<buf, close_err, call, ret>>

CloseWrite ==
    /\ ~close_write
    /\ close_write' = TRUE
    /\ write_notify' = {}
    /\ UNCHANGED <<buf, close_err, call, ret>>

\* Not the code: the elements survive the error.
CloseWithErrorKeeps ==
    /\ close_err = None
    /\ close_err' \in Error
    /\ close_write' = TRUE
    /\ write_notify' = {}
    /\ UNCHANGED <<buf, call, ret>>

CloseWithError ==
    /\ close_err = None
    /\ close_err' \in Error
    /\ buf' = << >>
    /\ close_write' = TRUE
    /\ write_notify' = {}
    /\ UNCHANGED <<call, ret>>

Next ==
    \/ \E t \in Thread : \/ Write(t) \/ Add(t) \/ Read(t) \/ NextItem(t)
                         \/ Resume(t) \/ SpuriousWakeup(t)
    \/ Discard \/ Reset \/ CloseWrite \/ CloseWithError

Spec == Init /\ [][Next]_vars

\* A notified thread eventually gets the mutex back.
FairSpec == Spec /\ \A t \in Thread : WF_vars(Resume(t))

-----------------------------------------------------------------------------
(* Properties.                                                             *)

\* The types of the state of a Buffer and of its callers; only readers sleep,
\* and none on a buffer that was closed, by close_write or by close_with_error.
TypeOK ==
    /\ buf \in Seq(Value) /\ Len(buf) <= MaxLen
    /\ close_write \in BOOLEAN /\ close_err \in Error \cup {None}
    /\ call \in [Thread -> [op : {"idle", "read", "next"}, len : Nat]]
    /\ write_notify \subseteq {t \in Thread : call[t] # Idle}
    /\ close_write => write_notify = {}
    /\ ret \in [tag : {"none", "ok", "closed", "failed", "done"}, n : Nat, got : Seq(Value)]

Stranded(t) == close_write /\ call[t] # Idle
Returned(t) == call[t] = Idle

\* Closing unblocks every reader.
CloseUnblocks == \A t \in Thread : Stranded(t) ~> Returned(t)

\* The buffer is the ClosableQueue that grows.
Queue == INSTANCE ClosableQueue
    WITH queue <- buf, closed <- close_write, err <- close_err,
         pending <- [t \in Thread |-> [data |-> << >>, done |-> 0]],
         Batch <- WriteData \cup Singles, Policy <- "grow", Capacity <- MaxLen

QueueSpec == Queue!Spec
-----------------------------------------------------------------------------
(* Proofs, for any threads, elements and batches.                          *)

Calls == [op : {"idle", "read", "next"}, len : Nat]

\* An error closes the write side as well; with it the types are inductive.
IInv == TypeOK /\ (close_err # None => close_write)

\* The calls of a Buffer, as records.
LEMMA CallsTyped ==
    /\ Idle \in Calls /\ Idle.op = "idle"
    /\ NextCall \in Calls /\ NextCall # Idle
    /\ \A n \in Nat : ReadCall(n) \in Calls /\ ReadCall(n) # Idle
<1>1. Idle.op = "idle" /\ NextCall.op = "next" /\ \A n : ReadCall(n).op = "read"
  BY DEF Idle, NextCall, ReadCall
<1>. QED  BY <1>1 DEF Calls, Idle, NextCall, ReadCall

\* What write and add store: at least one element.
LEMMA BatchValues ==
    ASSUME BufferAssumption, NEW d \in WriteData \cup Singles
    PROVE  d \in Seq(Value) /\ Len(d) >= 1
<1>1. CASE d \in WriteData
  BY <1>1, EmptySeq DEF BufferAssumption
<1>2. CASE d \in Singles
  <2>1. PICK v \in Value : d = <<v>>
    BY <1>2 DEF Singles
  <2>. QED  BY <2>1
<1>. QED  BY <1>1, <1>2

\* What discarding the n oldest elements leaves, and what reading them returns.
LEMMA Halves ==
    ASSUME NEW s \in Seq(Value), NEW n \in 0 .. Len(s)
    PROVE  /\ SubSeq(s, 1, n) \in Seq(Value) /\ Len(SubSeq(s, 1, n)) = n
           /\ SubSeq(s, n + 1, Len(s)) \in Seq(Value)
           /\ Len(SubSeq(s, n + 1, Len(s))) = Len(s) - n
BY SubSeqProperties

\* The first state is well typed.
LEMMA InitIInv == BufferAssumption /\ Init => IInv
<1>. SUFFICES ASSUME BufferAssumption, Init PROVE IInv
  OBVIOUS
<1>1. call \in [Thread -> Calls] /\ write_notify = {}
  BY CallsTyped DEF Init
<1>2. buf \in Seq(Value) /\ Len(buf) <= MaxLen
  BY DEF Init, BufferAssumption
<1>3. ret \in [tag : {"none", "ok", "closed", "failed", "done"}, n : Nat, got : Seq(Value)]
  BY DEF Init, Result
<1>. QED  BY <1>1, <1>2, <1>3 DEF Init, IInv, TypeOK, Calls

\* One round of the loop of read or next keeps the types.
LEMMA ReadTypes ==
    ASSUME BufferAssumption, IInv, NEW t \in Thread, t \notin write_notify,
           NEW c \in Calls, c # Idle, NEW want \in Nat,
           NEW failed, NEW eof, failed.n = 0, eof.n = 0,
           failed \in [tag : {"failed", "done"}, n : Nat, got : Seq(Value)],
           eof \in [tag : {"ok", "done"}, n : Nat, got : Seq(Value)],
           ReadLoop(t, c, want, failed, eof)
    PROVE  IInv'
<1>0. TypeOK /\ Len(buf) \in Nat /\ call \in [Thread -> Calls]
  BY DEF IInv, TypeOK, Calls
<1>1. CASE UNCHANGED buf /\ UNCHANGED write_notify /\ (Return(t, failed) \/ Return(t, eof))
  <2>1. call' \in [Thread -> Calls] /\ \A u \in Thread : u # t => call'[u] = call[u]
    BY <1>0, <1>1, CallsTyped DEF Return
  <2>2. write_notify' \subseteq {u \in Thread : call'[u] # Idle}
    BY <1>0, <1>1, <2>1 DEF TypeOK
  <2>3. ret' \in [tag : {"none", "ok", "closed", "failed", "done"}, n : Nat, got : Seq(Value)]
    BY <1>1 DEF Return
  <2>. QED  BY <1>0, <1>1, <2>1, <2>2, <2>3 DEF IInv, TypeOK, Calls, ReadLoop, closing
<1>2. CASE /\ close_err = None /\ buf = << >> /\ ~close_write
           /\ call' = [call EXCEPT ![t] = c]
           /\ write_notify' = write_notify \cup {t}
           /\ UNCHANGED <<buf, ret>>
  <2>1. call' \in [Thread -> Calls] /\ \A u \in Thread : call'[u] = IF u = t THEN c ELSE call[u]
    BY <1>0, <1>2
  <2>2. write_notify' \subseteq {u \in Thread : call'[u] # Idle}
    BY <1>0, <1>2, <2>1 DEF TypeOK
  <2>. QED  BY <1>0, <1>2, <2>1, <2>2 DEF IInv, TypeOK, Calls, ReadLoop, closing
<1>3. CASE /\ close_err = None /\ buf # << >>
           /\ LET n == Smaller(want, Len(buf)) IN
                /\ Return(t, Result("ok", n, SubSeq(buf, 1, n)))
                /\ PopFront(n)
           /\ UNCHANGED write_notify
  <2>. DEFINE n == Smaller(want, Len(buf))
  <2>1. n \in 0 .. Len(buf) /\ n \in Nat
    BY <1>0 DEF Smaller
  <2>2. Return(t, Result("ok", n, SubSeq(buf, 1, n))) /\ buf' = SubSeq(buf, n + 1, Len(buf))
    BY <1>3 DEF PopFront
  <2>. HIDE DEF n
  <2>3. /\ SubSeq(buf, 1, n) \in Seq(Value)
        /\ buf' \in Seq(Value) /\ Len(buf') = Len(buf) - n
    BY <1>0, <2>1, <2>2, Halves DEF TypeOK
  <2>4. buf' \in Seq(Value) /\ Len(buf') <= MaxLen
    BY <1>0, <2>1, <2>3 DEF TypeOK, BufferAssumption
  <2>5. ret' \in [tag : {"none", "ok", "closed", "failed", "done"}, n : Nat, got : Seq(Value)]
    BY <2>1, <2>2, <2>3 DEF Return, Result
  <2>6. call' \in [Thread -> Calls] /\ \A u \in Thread : u # t => call'[u] = call[u]
    BY <1>0, <2>2, CallsTyped DEF Return
  <2>7. write_notify' \subseteq {u \in Thread : call'[u] # Idle}
    BY <1>0, <1>3, <2>6 DEF TypeOK
  <2>. QED  BY <1>0, <1>3, <2>4, <2>5, <2>6, <2>7 DEF IInv, TypeOK, Calls, ReadLoop, closing
<1>. QED  BY <1>1, <1>2, <1>3 DEF ReadLoop

\* Every step keeps the types.
LEMMA NextIInv == BufferAssumption /\ IInv /\ [Next]_vars => IInv'
<1>. SUFFICES ASSUME BufferAssumption, IInv, [Next]_vars PROVE IInv'
  OBVIOUS
<1>0. /\ TypeOK /\ Len(buf) \in Nat /\ call \in [Thread -> Calls]
      /\ \A t \in Thread : call[t] = Idle => t \notin write_notify
  BY DEF IInv, TypeOK, Calls
<1>r. /\ Result("failed", 0, << >>) \in [tag : {"failed", "done"}, n : Nat, got : Seq(Value)]
      /\ Result("done", 0, << >>) \in [tag : {"failed", "done"}, n : Nat, got : Seq(Value)]
      /\ Result("ok", 0, << >>) \in [tag : {"ok", "done"}, n : Nat, got : Seq(Value)]
      /\ Result("done", 0, << >>) \in [tag : {"ok", "done"}, n : Nat, got : Seq(Value)]
      /\ Result("failed", 0, << >>).n = 0 /\ Result("done", 0, << >>).n = 0 /\ Result("ok", 0, << >>).n = 0
  BY DEF Result
<1>1. ASSUME NEW t \in Thread, WriteClosed(t) PROVE IInv'
  <2>1. call' = call
    BY <1>0, <1>1 DEF WriteClosed, Return
  <2>2. ret' \in [tag : {"none", "ok", "closed", "failed", "done"}, n : Nat, got : Seq(Value)]
    BY <1>1 DEF WriteClosed, Return, Result
  <2>. QED  BY <1>0, <1>1, <2>1, <2>2 DEF IInv, TypeOK, WriteClosed, closing
<1>2. ASSUME NEW t \in Thread, NEW d \in Seq(Value), WriteItems(t, d) PROVE IInv'
  <2>1. call' = call /\ write_notify' \subseteq write_notify
    BY <1>0, <1>2 DEF WriteItems, Return, NotifyOne
  <2>2. ret' \in [tag : {"none", "ok", "closed", "failed", "done"}, n : Nat, got : Seq(Value)]
    BY <1>2 DEF WriteItems, Return, Result
  <2>3. buf' \in Seq(Value) /\ Len(buf') = Len(buf) + Len(d)
    BY <1>0, <1>2, ConcatProperties DEF WriteItems, TypeOK
  <2>. QED  BY <1>0, <1>2, <2>1, <2>2, <2>3 DEF IInv, TypeOK, WriteItems, closing
<1>3. ASSUME NEW t \in Thread, Write(t) \/ Add(t) PROVE IInv'
  BY <1>1, <1>2, <1>3, BatchValues DEF Write, Add
<1>4. ASSUME NEW t \in Thread, t \notin write_notify, NEW len \in Nat, ReadFrom(t, len) PROVE IInv'
  BY <1>r, <1>4, CallsTyped, ReadTypes DEF ReadFrom
<1>5. ASSUME NEW t \in Thread, t \notin write_notify, NextFrom(t) PROVE IInv'
  BY <1>r, <1>5, CallsTyped, ReadTypes DEF NextFrom
<1>6. ASSUME NEW t \in Thread, Read(t) \/ NextItem(t) \/ Resume(t) PROVE IInv'
  <2>1. call[t].len \in Nat
    BY <1>0 DEF Calls
  <2>. QED  BY <1>0, <1>4, <1>5, <1>6, <2>1 DEF Read, NextItem, Resume, BufferAssumption
<1>7. ASSUME NEW t \in Thread, SpuriousWakeup(t) PROVE IInv'
  BY <1>0, <1>7 DEF SpuriousWakeup, IInv, TypeOK, closing
<1>8. CASE Discard
  <2>1. PICK n \in 0 .. Len(buf) : buf' = SubSeq(buf, n + 1, Len(buf))
    BY <1>8 DEF Discard, PopFront
  <2>2. buf' \in Seq(Value) /\ Len(buf') = Len(buf) - n
    BY <1>0, <2>1, Halves DEF TypeOK
  <2>3. Len(buf') <= MaxLen
    BY <1>0, <2>1, <2>2 DEF TypeOK, BufferAssumption
  <2>. QED  BY <1>0, <1>8, <2>2, <2>3 DEF Discard, IInv, TypeOK, closing
<1>9. ASSUME buf' = << >> PROVE buf' \in Seq(Value) /\ Len(buf') <= MaxLen
  BY <1>9 DEF BufferAssumption
<1>10. CASE Reset
  BY <1>0, <1>9, <1>10 DEF Reset, IInv, TypeOK, closing
<1>11. CASE CloseWrite
  BY <1>0, <1>11 DEF CloseWrite, IInv, TypeOK
<1>12. CASE CloseWithError
  BY <1>0, <1>9, <1>12 DEF CloseWithError, IInv, TypeOK
<1>13. CASE UNCHANGED vars
  BY <1>0, <1>13 DEF vars, closing, IInv, TypeOK
<1>. QED  BY <1>3, <1>6, <1>7, <1>8, <1>10, <1>11, <1>12, <1>13 DEF Next

\* A Buffer is well typed, only readers sleep, and none on a closed buffer.
THEOREM TypeCorrect ==
    ASSUME BufferAssumption
    PROVE  Spec => []TypeOK
<1>1. Spec => []IInv
  BY InitIInv, NextIInv, PTL DEF Spec
<1>. QED  BY <1>1, PTL DEF IInv

\* Every step of the buffer is a step of the queue that grows, or none.
LEMMA NextRefines == BufferAssumption /\ IInv /\ [Next]_vars => [Queue!Next]_(Queue!vars)
<1>. SUFFICES ASSUME BufferAssumption, IInv, [Next]_vars PROVE Queue!Next \/ UNCHANGED Queue!vars
  OBVIOUS
<1>0. TypeOK /\ Len(buf) \in Nat /\ buf \in Seq(Value) /\ (close_err # None => close_write)
  BY DEF IInv, TypeOK
<1>. DEFINE idle == [t \in Thread |-> [data |-> << >>, done |-> 0]]
<1>p. ASSUME NEW t \in Thread
      PROVE  /\ idle[t] = Queue!NoPut /\ idle[t].done = 0
             /\ idle = [idle EXCEPT ![t] = Queue!NoPut]
  BY DEF Queue!NoPut
<1>1. ASSUME NEW t \in Thread, WriteClosed(t) PROVE Queue!Refuse(t)
  BY <1>0, <1>1, <1>p DEF WriteClosed, Return, Result, closing, Queue!Refuse, Queue!Result
<1>2. ASSUME NEW t \in Thread, NEW d \in WriteData \cup Singles, WriteItems(t, d)
      PROVE  /\ d \in WriteData \cup Singles /\ Len(d) \in 1 .. Len(d)
             /\ Queue!Put(t, d, Len(d))
  <2>1. d \in Seq(Value) /\ Len(d) \in Nat /\ Len(d) \in 1 .. Len(d) /\ 0 + 1 = 1
    BY BatchValues
  <2>2. SubSeq(d, 1, Len(d)) = d
    BY <2>1, SubSeqFull
  <2>3. Queue!Accept(d)
    BY <1>2 DEF WriteItems, Queue!Accept
  <2>4. ret' = Queue!Ok(Len(d)) /\ ~close_write /\ UNCHANGED <<close_write, close_err>>
    BY <1>2 DEF WriteItems, Return, Result, closing, Queue!Ok, Queue!Result
  <2>5. /\ idle[t] = Queue!NoPut /\ idle[t].done + 1 = 1
        /\ idle = [idle EXCEPT ![t] = Queue!NoPut]
    BY <1>p
  <2>. HIDE DEF idle
  <2>6. /\ SubSeq(d, idle[t].done + 1, Len(d)) = d
        /\ Len(d) \in idle[t].done + 1 .. Len(d) /\ ~(Len(d) < Len(d))
    BY <2>1, <2>2, <2>5
  <2>. USE DEF idle
  <2>. QED  BY <2>1, <2>3, <2>4, <2>5, <2>6 DEF Queue!Put, Queue!Accept
<1>3. ASSUME NEW t \in Thread, Write(t) \/ Add(t) PROVE Queue!Next
  BY <1>1, <1>2, <1>3 DEF Write, Add, Queue!Next
<1>4. ASSUME NEW t \in Thread, NEW c, NEW want \in Nat, NEW failed, NEW eof,
             failed \in {Result("failed", 0, << >>), Result("done", 0, << >>)},
             eof \in {Result("ok", 0, << >>), Result("done", 0, << >>)},
             ReadLoop(t, c, want, failed, eof)
      PROVE  Queue!Next \/ UNCHANGED Queue!vars
  <2>1. CASE /\ close_err # None /\ Return(t, failed) /\ UNCHANGED <<buf, write_notify>>
    <3>1. Queue!Failed
      BY <1>4, <2>1 DEF ReadLoop, Return, Result, closing, Queue!Failed, Queue!Result
    <3>. QED  BY <3>1 DEF Queue!Next
  <2>2. CASE /\ close_err = None /\ buf = << >> /\ close_write /\ Return(t, eof)
             /\ UNCHANGED <<buf, write_notify>>
    <3>1. Queue!EndOfStream
      BY <1>4, <2>2 DEF ReadLoop, Return, Result, closing, Queue!EndOfStream, Queue!Result, Queue!Ok
    <3>. QED  BY <3>1 DEF Queue!Next
  <2>3. CASE UNCHANGED <<buf, ret>>
    BY <1>4, <2>3 DEF ReadLoop, closing, Queue!vars
  <2>4. CASE /\ close_err = None /\ buf # << >>
             /\ LET n == Smaller(want, Len(buf)) IN
                  /\ Return(t, Result("ok", n, SubSeq(buf, 1, n)))
                  /\ PopFront(n)
             /\ UNCHANGED write_notify
    <3>. DEFINE n == Smaller(want, Len(buf))
    <3>1. n \in 0 .. Len(buf)
      BY <1>0 DEF Smaller
    <3>2. Return(t, Result("ok", n, SubSeq(buf, 1, n))) /\ buf' = SubSeq(buf, n + 1, Len(buf))
      BY <2>4 DEF PopFront
    <3>. HIDE DEF n
    <3>3. Len(SubSeq(buf, 1, n)) = n
      BY <1>0, <3>1, Halves
    <3>4. Queue!Take(n)
      BY <1>4, <2>4, <3>1, <3>2, <3>3
         DEF ReadLoop, Return, Result, closing, Queue!Take, Queue!Got, Queue!Result
    <3>. QED  BY <3>1, <3>4 DEF Queue!Next
  <2>. QED  BY <1>4, <2>1, <2>2, <2>3, <2>4 DEF ReadLoop
<1>5. ASSUME NEW t \in Thread, Read(t) \/ NextItem(t) \/ Resume(t) PROVE Queue!Next \/ UNCHANGED Queue!vars
  <2>1. call[t].len \in Nat
    BY <1>0 DEF TypeOK
  <2>2. ASSUME NEW len \in Nat, ReadFrom(t, len) PROVE Queue!Next \/ UNCHANGED Queue!vars
    BY <1>4, <2>2 DEF ReadFrom
  <2>3. ASSUME NextFrom(t) PROVE Queue!Next \/ UNCHANGED Queue!vars
    BY <1>4, <2>3 DEF NextFrom
  <2>. QED  BY <1>5, <2>1, <2>2, <2>3 DEF Read, NextItem, Resume, BufferAssumption
<1>6. ASSUME UNCHANGED <<buf, closing, ret>> PROVE UNCHANGED Queue!vars
  BY <1>6 DEF Queue!vars, closing
<1>7. ASSUME NEW n \in 0 .. Len(buf), buf' = SubSeq(buf, n + 1, Len(buf)), UNCHANGED <<closing, ret>>
      PROVE  Queue!Next \/ UNCHANGED Queue!vars
  <2>1. CASE n = 0
    <3>1. buf' = buf
      BY <1>0, <1>7, <2>1, SubSeqFull
    <3>. QED  BY <1>6, <1>7, <3>1
  <2>2. CASE n # 0
    <3>1. n \in 1 .. Len(buf)
      BY <1>0, <2>2
    <3>2. Queue!Drop(n)
      BY <1>7, <3>1 DEF Queue!Drop, closing
    <3>. QED  BY <3>2 DEF Queue!Next
  <2>. QED  BY <2>1, <2>2
<1>8. CASE Discard
  BY <1>7, <1>8 DEF Discard, PopFront
<1>9. CASE Reset
  <2>1. Len(buf) \in 0 .. Len(buf) /\ SubSeq(buf, Len(buf) + 1, Len(buf)) = << >>
    BY <1>0, SubSeqEmpty
  <2>. QED  BY <1>7, <1>9, <2>1 DEF Reset
<1>10. CASE CloseWrite
  <2>1. Queue!Close
    BY <1>10 DEF CloseWrite, Queue!Close
  <2>. QED  BY <2>1 DEF Queue!Next
<1>11. CASE CloseWithError
  <2>1. PICK e \in Error : close_err' = e
    BY <1>11 DEF CloseWithError
  <2>2. Queue!Fail(e)
    BY <1>11, <2>1 DEF CloseWithError, Queue!Fail
  <2>. QED  BY <2>2 DEF Queue!Next
<1>. QED  BY <1>3, <1>5, <1>6, <1>8, <1>9, <1>10, <1>11 DEF Next, vars, SpuriousWakeup

\* For any threads, elements and batches, Buffer is the ClosableQueue that grows.
THEOREM Refinement ==
    ASSUME BufferAssumption
    PROVE  Spec => QueueSpec
<1>1. Spec => []IInv
  BY InitIInv, NextIInv, PTL DEF Spec
<1>2. Init => Queue!Init
  BY DEF Init, Queue!Init, Queue!NoPut, Queue!Result, Result
<1>. QED  BY <1>1, <1>2, NextRefines, PTL DEF Spec, QueueSpec, Queue!Spec
=============================================================================
