------------------------ MODULE BlockBufferProofs --------------------------
(***************************************************************************)
(* Proofs about BlockBuffer, for any threads, elements and capacity, and   *)
(* about the stream of genx that is built on one, for any producers and    *)
(* readers.                                                                *)
(*                                                                         *)
(* The ring lemmas come first: inside one turn of the ring, % is either    *)
(* the identity or one subtraction, and with that Push, Pop and Clear keep *)
(* RingOK by linear arithmetic.  The inductive invariant IInv adds to the  *)
(* ring what the blocked calls look like.  On IInv rest the refinement of  *)
(* ClosableQueue, operation by operation, and, for calls of one element,   *)
(* that no wake-up is lost: an operation notifies as often as it adds      *)
(* elements or frees slots.                                                *)
(***************************************************************************)
EXTENDS BlockBuffer, GenxStream, SequenceTheorems, FiniteSetTheorems, TLAPS

-----------------------------------------------------------------------------
(* Going round the ring.                                                   *)

Turn == 0 .. 2 * Capacity - 1

\* Within one turn, the remainder by the capacity is the number itself or the
\* number less the capacity: the index computations of every operation.
LEMMA Wrap ==
    ASSUME NEW x \in Turn
    PROVE  x % Capacity = IF x < Capacity THEN x ELSE x - Capacity
<1>1. CASE x < Capacity
  BY <1>1, CapacityAssumption DEF Turn
<1>2. CASE x >= Capacity
  BY <1>2, CapacityAssumption DEF Turn
<1>. QED  BY <1>1, <1>2, CapacityAssumption DEF Turn

\* The same for the distance from one slot to another.
LEMMA OffsetValue ==
    ASSUME NEW s \in Slot, NEW from \in Slot
    PROVE  Offset(s, from) = IF s < from THEN s - from + Capacity ELSE s - from
<1>1. s - from + Capacity \in Turn
  BY CapacityAssumption DEF Turn, Slot
<1>. QED  BY <1>1, Wrap, CapacityAssumption DEF Offset, Slot, Turn

\* The distance from one slot to another is less than a turn.
LEMMA OffsetRange ==
    ASSUME NEW s \in Slot, NEW from \in Slot
    PROVE  Offset(s, from) \in Slot
BY OffsetValue, CapacityAssumption DEF Slot

\* Storing n elements behind the c elements that start at slot h: the position
\* reached, and the slots that are then in use.
LEMMA PushArith ==
    ASSUME NEW h \in Slot, NEW c \in 0 .. Capacity, NEW n \in 0 .. Capacity, c + n <= Capacity,
           NEW t \in Slot, t = (h + c) % Capacity
    PROVE  /\ (t + n) % Capacity \in Slot
           /\ (t + n) % Capacity = (h + (c + n)) % Capacity
           /\ \A s \in Slot : Offset(s, h) < c + n <=> Offset(s, h) < c \/ Offset(s, t) < n
           /\ \A s \in Slot : Offset(s, t) < n => Offset(s, h) = c + Offset(s, t)
<1>. DEFINE u == (t + n) % Capacity
<1>1. h + c \in Turn /\ t + n \in Turn /\ h + (c + n) \in Turn
  BY CapacityAssumption DEF Turn, Slot
<1>2. t = IF h + c < Capacity THEN h + c ELSE h + c - Capacity
  BY <1>1, Wrap, CapacityAssumption DEF Slot
<1>3. u = IF t + n < Capacity THEN t + n ELSE t + n - Capacity
  BY <1>1, Wrap, CapacityAssumption DEF Slot
<1>4. (h + (c + n)) % Capacity = IF h + (c + n) < Capacity THEN h + (c + n) ELSE h + (c + n) - Capacity
  BY <1>1, Wrap, CapacityAssumption DEF Slot
<1>5. u \in Slot /\ u = (h + (c + n)) % Capacity
  <2>. HIDE DEF u
  <2>. QED  BY <1>2, <1>3, <1>4, CapacityAssumption DEF Slot
<1>6. ASSUME NEW s \in Slot
      PROVE  /\ Offset(s, h) < c + n <=> Offset(s, h) < c \/ Offset(s, t) < n
             /\ Offset(s, t) < n => Offset(s, h) = c + Offset(s, t)
  <2>1. Offset(s, h) = IF s < h THEN s - h + Capacity ELSE s - h
    BY OffsetValue
  <2>2. Offset(s, t) = IF s < t THEN s - t + Capacity ELSE s - t
    BY OffsetValue
  <2>. QED  BY <2>1, <2>2, <1>2, CapacityAssumption DEF Slot
<1>. QED  BY <1>5, <1>6

\* Removing the n oldest of the c elements that start at slot h.
LEMMA PopArith ==
    ASSUME NEW h \in Slot, NEW c \in 0 .. Capacity, NEW n \in 0 .. c
    PROVE  LET g == (h + n) % Capacity IN
           /\ g \in Slot
           /\ (g + (c - n)) % Capacity = (h + c) % Capacity
           /\ \A s \in Slot : Offset(s, g) < c - n <=> Offset(s, h) < c /\ ~(Offset(s, h) < n)
<1>. DEFINE g == (h + n) % Capacity
<1>1. h + c \in Turn /\ h + n \in Turn
  BY CapacityAssumption DEF Turn, Slot
<1>2. g = IF h + n < Capacity THEN h + n ELSE h + n - Capacity
  BY <1>1, Wrap, CapacityAssumption DEF Slot
<1>3. (h + c) % Capacity = IF h + c < Capacity THEN h + c ELSE h + c - Capacity
  BY <1>1, Wrap, CapacityAssumption DEF Slot
<1>. HIDE DEF g
<1>4. g \in Slot /\ g + (c - n) \in Turn
  BY <1>2, CapacityAssumption DEF Slot, Turn
<1>5. (g + (c - n)) % Capacity = IF g + (c - n) < Capacity THEN g + (c - n) ELSE g + (c - n) - Capacity
  BY <1>4, Wrap, CapacityAssumption DEF Slot
<1>6. (g + (c - n)) % Capacity = (h + c) % Capacity
  BY <1>2, <1>3, <1>5, CapacityAssumption DEF Slot
<1>7. ASSUME NEW s \in Slot
      PROVE  Offset(s, g) < c - n <=> Offset(s, h) < c /\ ~(Offset(s, h) < n)
  <2>1. Offset(s, h) = IF s < h THEN s - h + Capacity ELSE s - h
    BY OffsetValue
  <2>2. Offset(s, g) = IF s < g THEN s - g + Capacity ELSE s - g
    BY <1>4, OffsetValue
  <2>. QED  BY <2>1, <2>2, <1>2, CapacityAssumption DEF Slot
<1>. QED  BY <1>4, <1>6, <1>7 DEF g

-----------------------------------------------------------------------------
(* The operations on the ring keep its bookkeeping.                        *)

\* The ring part of the state, typed.
RingType ==
    /\ buf \in [Slot -> Value \cup {None}]
    /\ head \in Slot /\ tail \in Slot /\ count \in 0 .. Capacity

\* write and add: storing n elements in the n slots from tail on, when there is
\* room, keeps the bookkeeping of the ring.
LEMMA PushOK ==
    ASSUME RingType, RingOK,
           NEW d \in Seq(Value), NEW w \in Nat, NEW n \in 0 .. Capacity,
           count + n <= Capacity, w + n <= Len(d), Push(d, w, n)
    PROVE  RingType' /\ RingOK'
<1>1. /\ tail' \in Slot
      /\ tail' = (head' + count') % Capacity
      /\ \A s \in Slot : Offset(s, head') < count' <=> Offset(s, head) < count \/ Offset(s, tail) < n
  BY PushArith DEF RingType, RingOK, Push
<1>2. ASSUME NEW s \in Slot, Offset(s, tail) < n
      PROVE  d[w + Offset(s, tail) + 1] \in Value
  <2>1. Offset(s, tail) \in Slot
    BY OffsetRange DEF RingType
  <2>2. w + Offset(s, tail) + 1 \in 1 .. Len(d)
    BY <2>1, <1>2 DEF Slot
  <2>. QED  BY <2>2
<1>3. RingType'
  BY <1>1, <1>2 DEF RingType, Push
<1>4. ASSUME NEW s \in Slot
      PROVE  buf'[s] # None <=> Offset(s, head') < count'
  BY <1>1, <1>2, NoneAssumption DEF RingOK, Push
<1>. QED  BY <1>1, <1>3, <1>4 DEF RingOK

\* read, next and discard: emptying the n slots from head on.
LEMMA PopOK ==
    ASSUME RingType, RingOK, NEW n \in 0 .. count, Pop(n)
    PROVE  RingType' /\ RingOK'
<1>1. /\ head' \in Slot
      /\ tail' = (head' + count') % Capacity
      /\ \A s \in Slot : Offset(s, head') < count' <=> Offset(s, head) < count /\ ~(Offset(s, head) < n)
  BY PopArith DEF RingType, RingOK, Pop
<1>2. RingType'
  <2>1. count' \in 0 .. Capacity
    BY CapacityAssumption DEF RingType, Pop
  <2>. QED  BY <1>1, <2>1 DEF RingType, Pop
<1>3. ASSUME NEW s \in Slot
      PROVE  buf'[s] # None <=> Offset(s, head') < count'
  BY <1>1 DEF RingOK, Pop
<1>. QED  BY <1>1, <1>2, <1>3 DEF RingOK

\* reset and close_with_error.
LEMMA ClearOK ==
    ASSUME Clear
    PROVE  RingType' /\ RingOK'
<1>1. 0 \in Slot /\ (0 + 0) % Capacity = 0
  BY CapacityAssumption DEF Slot
<1>2. RingType'
  BY <1>1, CapacityAssumption DEF Clear, RingType
<1>3. \A s \in Slot : Offset(s, 0) \in Nat
  BY CapacityAssumption DEF Slot, Offset
<1>. QED  BY <1>1, <1>2, <1>3 DEF Clear, RingOK

-----------------------------------------------------------------------------
(* The inductive invariant.                                                *)

IInv == TypeOK /\ RingOK /\ SleepersAreBlocked

\* The elements handed over by read and next are elements: no slot of the
\* window is empty, so the take().unwrap() of the code always finds one.
LEMMA WindowValues ==
    ASSUME RingType, RingOK, NEW n \in 0 .. count
    PROVE  /\ Window(n) \in [1 .. n -> Value]
           /\ Window(n) \in Seq(Value)
           /\ Len(Window(n)) = n
<1>1. ASSUME NEW i \in 1 .. n
      PROVE  buf[(head + (i - 1)) % Capacity] \in Value
  <2>. DEFINE s == (head + (i - 1)) % Capacity
  <2>1. head + (i - 1) \in Turn
    BY CapacityAssumption DEF Turn, RingType, Slot
  <2>2. s = IF head + (i - 1) < Capacity THEN head + (i - 1) ELSE head + (i - 1) - Capacity
    BY <2>1, Wrap, CapacityAssumption DEF RingType, Slot
  <2>. HIDE DEF s
  <2>3. s \in Slot
    BY <2>2, CapacityAssumption DEF RingType, Slot
  <2>4. Offset(s, head) = IF s < head THEN s - head + Capacity ELSE s - head
    BY <2>3, OffsetValue DEF RingType
  <2>5. Offset(s, head) < count
    BY <2>2, <2>3, <2>4, CapacityAssumption DEF RingType, Slot
  <2>6. buf[s] # None
    BY <2>3, <2>5 DEF RingOK
  <2>7. buf[s] \in Value
    BY <2>3, <2>6 DEF RingType
  <2>. QED  BY <2>7 DEF s
<1>2. Window(n) \in [1 .. n -> Value]
  BY <1>1 DEF Window
<1>3. n \in Nat
  BY DEF RingType
<1>. QED  BY <1>2, <1>3

\* new and from_vec both establish it.
LEMMA InitIInv == Init => IInv
<1>. SUFFICES ASSUME Init PROVE IInv
  OBVIOUS
<1>1. 0 \in Slot /\ count \in 0 .. Capacity
  BY CapacityAssumption DEF Init, New, FromVec, Slot
<1>2. TypeOK
  <2>1. buf \in [Slot -> Value \cup {None}]
    BY DEF Init, New, FromVec
  <2>2. call \in [Thread -> Calls]
    BY DEF Init, Idle, Calls
  <2>3. ret \in Results
    BY DEF Init, Result, Results
  <2>. QED  BY <1>1, <2>1, <2>2, <2>3 DEF Init, TypeOK
<1>3. RingOK
  <2>1. tail = (head + count) % Capacity
    BY CapacityAssumption DEF Init, New, FromVec
  <2>2. ASSUME NEW s \in Slot
        PROVE  buf[s] # None <=> Offset(s, head) < count
    <3>1. Offset(s, 0) \in Slot
      BY <1>1, OffsetRange
    <3>2. CASE New
      BY <3>1, <3>2 DEF Init, New, Slot
    <3>3. CASE FromVec
      BY <3>1, <3>3, NoneAssumption, CapacityAssumption DEF Init, FromVec, Slot
    <3>. QED  BY <3>2, <3>3 DEF Init
  <2>. QED  BY <2>1, <2>2 DEF RingOK
<1>4. SleepersAreBlocked
  BY DEF Init, SleepersAreBlocked, Idle
<1>. QED  BY <1>2, <1>3, <1>4 DEF IInv

\* What a thread may be in the middle of.
ValidCall(c) ==
    /\ c \in Calls
    /\ c.op = "write" => c.data \in WriteData /\ c.written < Len(c.data)
    /\ c.op = "add" => c.data \in Singles

\* A step of an awake thread t that leaves it in call c, and asleep at most on
\* the condition variable of that call, keeps the calls and the wait sets right.
LEMMA CallStep ==
    ASSUME TypeOK, SleepersAreBlocked,
           NEW t \in Thread, Awake(t),
           NEW c, ValidCall(c), call' = [call EXCEPT ![t] = c],
           not_full' \subseteq not_full \cup {t}, not_empty' \subseteq not_empty \cup {t},
           t \in not_full' => c.op \in {"write", "add"} /\ ~close_write,
           t \in not_empty' => c.op \in {"read", "next"} /\ ~close_write,
           close_write' = close_write
    PROVE  /\ call' \in [Thread -> Calls]
           /\ not_full' \subseteq Thread /\ not_empty' \subseteq Thread
           /\ SleepersAreBlocked'
<1>1. call' \in [Thread -> Calls] /\ not_full' \subseteq Thread /\ not_empty' \subseteq Thread
  BY DEF TypeOK, ValidCall
<1>2. ASSUME NEW u \in Thread
      PROVE  /\ call'[u].op = "write" => call'[u].data \in WriteData
                                         /\ call'[u].written < Len(call'[u].data)
             /\ call'[u].op = "add" => call'[u].data \in Singles
  <2>1. CASE u = t
    BY <2>1 DEF TypeOK, ValidCall
  <2>2. CASE u # t
    BY <2>2 DEF TypeOK, SleepersAreBlocked
  <2>. QED  BY <2>1, <2>2
<1>3. \A u \in not_full' : call'[u].op \in {"write", "add"}
  BY DEF TypeOK, SleepersAreBlocked, Awake
<1>4. \A u \in not_empty' : call'[u].op \in {"read", "next"}
  BY DEF TypeOK, SleepersAreBlocked, Awake
<1>5. close_write' => not_full' = {} /\ not_empty' = {}
  BY DEF SleepersAreBlocked
<1>. QED  BY <1>1, <1>2, <1>3, <1>4, <1>5 DEF SleepersAreBlocked

\* notify_one only takes threads out of the wait set.
LEMMA NotifyOneShrinks ==
    ASSUME NEW W, NEW V \in NotifyOne(W)
    PROVE  V \subseteq W
BY DEF NotifyOne

\* The shape of every step of a blocking operation: the ring keeps its
\* bookkeeping, and so do the calls.
LEMMA OperationStep ==
    ASSUME IInv, RingType', RingOK', UNCHANGED closing, ret' \in Results,
           NEW t \in Thread, Awake(t),
           NEW c, ValidCall(c), call' = [call EXCEPT ![t] = c],
           not_full' \subseteq not_full \cup {t}, not_empty' \subseteq not_empty \cup {t},
           t \in not_full' => c.op \in {"write", "add"} /\ ~close_write,
           t \in not_empty' => c.op \in {"read", "next"} /\ ~close_write
    PROVE  IInv'
<1>1. /\ call' \in [Thread -> Calls]
      /\ not_full' \subseteq Thread /\ not_empty' \subseteq Thread
      /\ SleepersAreBlocked'
  BY CallStep DEF IInv, closing
<1>2. TypeOK'
  BY <1>1 DEF IInv, TypeOK, RingType, closing
<1>. QED  BY <1>1, <1>2 DEF IInv

\* Being outside of a call is always right.
LEMMA IdleValid == ValidCall(Idle)
BY DEF ValidCall, Idle, Calls

\* The loop of write.
LEMMA WriteStep ==
    ASSUME IInv, NEW t \in Thread, Awake(t),
           NEW d \in WriteData, NEW w \in Nat, w < Len(d), WriteLoop(t, d, w)
    PROVE  IInv'
<1>0. RingType /\ RingOK /\ TypeOK
  BY DEF IInv, TypeOK, RingType
<1>d. d \in Seq(Value) /\ Len(d) \in Nat
  BY WriteDataAssumption
<1>1. CASE WriteClosed(t, d, w)
  <2>1. RingType' /\ RingOK'
    BY <1>0, <1>1 DEF WriteClosed, ring, RingType, RingOK
  <2>2. ret' \in Results /\ call' = [call EXCEPT ![t] = Idle]
    BY <1>1 DEF WriteClosed, Return, Result, Results
  <2>3. UNCHANGED waiting /\ UNCHANGED closing
    BY <1>1 DEF WriteClosed, WriteLoop
  <2>. QED  BY <2>1, <2>2, <2>3, IdleValid, OperationStep DEF waiting, Awake
<1>2. CASE WriteFull(t, d, w)
  <2>1. RingType' /\ RingOK'
    BY <1>0, <1>2 DEF WriteFull, ring, RingType, RingOK
  <2>2. ValidCall(WriteCall(d, w)) /\ WriteCall(d, w).op = "write"
    BY <1>d DEF ValidCall, WriteCall, Calls
  <2>3. ret' \in Results /\ call' = [call EXCEPT ![t] = WriteCall(d, w)]
    BY <1>0, <1>2 DEF WriteFull, Block, TypeOK
  <2>4. not_full' = not_full \cup {t} /\ not_empty' = not_empty /\ UNCHANGED closing /\ ~close_write
    BY <1>2 DEF WriteFull, WriteLoop
  <2>. QED  BY <2>1, <2>2, <2>3, <2>4, OperationStep DEF Awake
<1>3. CASE WriteBatch(t, d, w)
  <2>. DEFINE n == Smaller(Capacity - count, Len(d) - w)
  <2>1. n \in 1 .. Capacity /\ count + n <= Capacity /\ w + n <= Len(d)
    BY <1>0, <1>3, <1>d, CapacityAssumption DEF WriteBatch, Smaller, RingType
  <2>2. Push(d, w, n) /\ UNCHANGED closing /\ ~close_write /\ not_empty' \in NotifyOne(not_empty)
    BY <1>3 DEF WriteBatch, WriteLoop
  <2>p. n \in 0 .. Capacity
    BY <2>1
  <2>. HIDE DEF n
  <2>3. RingType' /\ RingOK'
    BY <2>1, <2>2, <2>p, <1>0, <1>d, PushOK
  <2>4. not_empty' \subseteq not_empty
    BY <2>2, NotifyOneShrinks
  <2>5. CASE w + n = Len(d) /\ Return(t, Result("ok", Len(d), << >>)) /\ not_full' = not_full
    <3>1. ret' \in Results /\ call' = [call EXCEPT ![t] = Idle]
      BY <2>5, <1>d DEF Return, Result, Results
    <3>. QED  BY <2>2, <2>3, <2>4, <2>5, <3>1, IdleValid, OperationStep DEF Awake
  <2>6. CASE w + n < Len(d) /\ Block(t, WriteCall(d, w + n)) /\ not_full' = not_full \cup {t}
    <3>1. ValidCall(WriteCall(d, w + n)) /\ WriteCall(d, w + n).op = "write"
      BY <1>d, <2>1, <2>6 DEF ValidCall, WriteCall, Calls
    <3>2. ret' \in Results /\ call' = [call EXCEPT ![t] = WriteCall(d, w + n)]
      BY <1>0, <2>6 DEF Block, TypeOK
    <3>. QED  BY <2>2, <2>3, <2>4, <2>6, <3>1, <3>2, OperationStep DEF Awake
  <2>. QED  BY <1>3, <2>5, <2>6 DEF WriteBatch, n
<1>. QED  BY <1>1, <1>2, <1>3 DEF WriteLoop

\* The loop of add.
LEMMA AddStep ==
    ASSUME IInv, NEW t \in Thread, Awake(t), NEW v \in Value, AddLoop(t, v)
    PROVE  IInv'
<1>0. RingType /\ RingOK /\ TypeOK /\ UNCHANGED closing
  BY DEF IInv, TypeOK, RingType, AddLoop
<1>1. CASE UNCHANGED <<ring, waiting>> /\ \E tag \in {"failed", "closed"} : Return(t, Result(tag, 0, << >>))
  <2>1. RingType' /\ RingOK'
    BY <1>0, <1>1 DEF ring, RingType, RingOK
  <2>2. ret' \in Results /\ call' = [call EXCEPT ![t] = Idle]
    BY <1>1 DEF Return, Result, Results
  <2>. QED  BY <1>0, <1>1, <2>1, <2>2, IdleValid, OperationStep DEF waiting, Awake
<1>2. CASE /\ ~close_write
           /\ Block(t, AddCall(v))
           /\ not_full' = not_full \cup {t}
           /\ UNCHANGED <<ring, not_empty>>
  <2>1. RingType' /\ RingOK'
    BY <1>0, <1>2 DEF ring, RingType, RingOK
  <2>2. ValidCall(AddCall(v)) /\ AddCall(v).op = "add"
    BY DEF ValidCall, AddCall, Calls, Singles
  <2>3. ret' \in Results /\ call' = [call EXCEPT ![t] = AddCall(v)]
    BY <1>0, <1>2 DEF Block, TypeOK
  <2>. QED  BY <1>0, <1>2, <2>1, <2>2, <2>3, OperationStep DEF Awake
<1>3. CASE /\ count < Capacity
           /\ Push(<<v>>, 0, 1)
           /\ not_empty' \in NotifyOne(not_empty)
           /\ not_full' = not_full
           /\ Return(t, Result("ok", 1, << >>))
  <2>1. /\ <<v>> \in Seq(Value) /\ Len(<<v>>) = 1
        /\ 1 \in 0 .. Capacity /\ count + 1 <= Capacity /\ 0 + 1 <= 1
    BY <1>0, <1>3, CapacityAssumption DEF RingType
  <2>2. RingType' /\ RingOK'
    BY <1>0, <1>3, <2>1, PushOK
  <2>3. ret' \in Results /\ call' = [call EXCEPT ![t] = Idle]
    BY <1>3 DEF Return, Result, Results
  <2>4. not_empty' \subseteq not_empty
    BY <1>3, NotifyOneShrinks
  <2>. QED  BY <1>0, <1>3, <2>2, <2>3, <2>4, IdleValid, OperationStep DEF Awake
<1>. QED  BY <1>1, <1>2, <1>3 DEF AddLoop

\* The three ways a turn of the loop of read or next ends.
LEMMA ReadStep ==
    ASSUME IInv, NEW t \in Thread, Awake(t), UNCHANGED closing,
           NEW c \in Calls, c.op \in {"read", "next"},
           NEW n \in Nat, count > 0 => n <= count,
           NEW failed \in Results, NEW eof \in Results,
           ReadClosed(t, failed, eof) \/ ReadEmpty(t, c) \/ ReadSome(t, n)
    PROVE  IInv'
<1>0. RingType /\ RingOK /\ TypeOK
  BY DEF IInv, TypeOK, RingType
<1>1. CASE ReadClosed(t, failed, eof)
  <2>1. RingType' /\ RingOK'
    BY <1>0, <1>1 DEF ReadClosed, ring, RingType, RingOK
  <2>2. ret' \in Results /\ call' = [call EXCEPT ![t] = Idle]
    BY <1>1 DEF ReadClosed, Return
  <2>3. UNCHANGED waiting
    BY <1>1 DEF ReadClosed
  <2>. QED  BY <2>1, <2>2, <2>3, IdleValid, OperationStep DEF waiting, Awake
<1>2. CASE ReadEmpty(t, c)
  <2>1. RingType' /\ RingOK'
    BY <1>0, <1>2 DEF ReadEmpty, ring, RingType, RingOK
  <2>2. ValidCall(c)
    BY DEF ValidCall
  <2>3. ret' \in Results /\ call' = [call EXCEPT ![t] = c]
    BY <1>0, <1>2 DEF ReadEmpty, Block, TypeOK
  <2>4. not_empty' = not_empty \cup {t} /\ not_full' = not_full /\ ~close_write
    BY <1>2 DEF ReadEmpty
  <2>. QED  BY <2>1, <2>2, <2>3, <2>4, OperationStep DEF Awake
<1>3. CASE ReadSome(t, n)
  <2>1. n \in 0 .. count
    BY <1>0, <1>3 DEF ReadSome, RingType
  <2>2. RingType' /\ RingOK'
    BY <1>0, <1>3, <2>1, PopOK DEF ReadSome
  <2>3. Window(n) \in Seq(Value)
    BY <1>0, <2>1, WindowValues
  <2>4. ret' \in Results /\ call' = [call EXCEPT ![t] = Idle]
    BY <1>3, <2>3 DEF ReadSome, Return, Result, Results
  <2>5. not_full' \subseteq not_full /\ not_empty' = not_empty
    BY <1>3, NotifyOneShrinks DEF ReadSome
  <2>. QED  BY <2>2, <2>4, <2>5, IdleValid, OperationStep DEF Awake
<1>. QED  BY <1>1, <1>2, <1>3

\* A step that touches the ring as it may, takes threads out of the wait sets
\* and leaves the calls alone: discard, reset, the closes, spurious wake-ups.
LEMMA ControlStep ==
    ASSUME IInv, RingType', RingOK',
           close_write' \in BOOLEAN, close_err' \in Error \cup {None},
           not_full' \subseteq not_full, not_empty' \subseteq not_empty,
           close_write' = close_write \/ (not_full' = {} /\ not_empty' = {}),
           UNCHANGED <<call, ret>>
    PROVE  IInv'
<1>1. TypeOK'
  BY DEF IInv, TypeOK, RingType
<1>2. SleepersAreBlocked'
  BY DEF IInv, SleepersAreBlocked
<1>. QED  BY <1>1, <1>2 DEF IInv

\* Every step of the buffer keeps the invariant.
LEMMA NextIInv == IInv /\ [Next]_vars => IInv'
<1>. SUFFICES ASSUME IInv, [Next]_vars PROVE IInv'
  OBVIOUS
<1>0. RingType /\ RingOK /\ TypeOK /\ SleepersAreBlocked
  BY DEF IInv, TypeOK, RingType
<1>i. \A t \in Thread : call[t] = Idle => Awake(t)
  BY <1>0 DEF SleepersAreBlocked, Awake, Idle
<1>c. UNCHANGED closing => /\ close_write' \in BOOLEAN /\ close_err' \in Error \cup {None}
                           /\ close_write' = close_write
  BY <1>0 DEF closing, TypeOK
<1>r. /\ Result("failed", 0, << >>) \in Results /\ Result("done", 0, << >>) \in Results
      /\ Result("ok", 0, << >>) \in Results
  BY DEF Result, Results
<1>n. NextCall \in Calls /\ NextCall.op = "next"
  BY DEF NextCall, Calls
<1>l. ASSUME NEW t \in Thread, Awake(t), NEW len \in Nat, ReadLoop(t, len)
      PROVE  IInv'
  <2>1. ReadCall(len) \in Calls /\ ReadCall(len).op = "read"
    BY DEF ReadCall, Calls
  <2>2. Smaller(len, count) \in Nat /\ Smaller(len, count) <= count
    BY <1>0 DEF Smaller, RingType
  <2>. QED  BY <1>l, <1>r, <2>1, <2>2, ReadStep DEF ReadLoop
<1>m. ASSUME NEW t \in Thread, Awake(t), NextLoop(t)
      PROVE  IInv'
  <2>1. count > 0 => 1 <= count
    BY <1>0 DEF RingType
  <2>. QED  BY <1>m, <1>r, <1>n, <2>1, ReadStep DEF NextLoop
<1>1. ASSUME NEW t \in Thread, Write(t) PROVE IInv'
  <2>1. PICK d \in WriteData : WriteLoop(t, d, 0)
    BY <1>1 DEF Write
  <2>2. 0 < Len(d)
    BY WriteDataAssumption
  <2>. QED  BY <1>1, <1>i, <2>1, <2>2, WriteStep DEF Write
<1>2. ASSUME NEW t \in Thread, Add(t) PROVE IInv'
  BY <1>2, <1>i, AddStep DEF Add
<1>3. ASSUME NEW t \in Thread, Read(t) PROVE IInv'
  BY <1>3, <1>i, <1>l, ReadLenAssumption DEF Read
<1>4. ASSUME NEW t \in Thread, NextItem(t) PROVE IInv'
  BY <1>4, <1>i, <1>m DEF NextItem
<1>5. ASSUME NEW t \in Thread, Resume(t) PROVE IInv'
  <2>0. Awake(t) /\ call[t] \in Calls
    BY <1>0, <1>5 DEF Resume, TypeOK
  <2>1. CASE call[t].op = "write" /\ WriteLoop(t, call[t].data, call[t].written)
    <3>1. call[t].data \in WriteData /\ call[t].written \in Nat /\ call[t].written < Len(call[t].data)
      BY <1>0, <2>0, <2>1 DEF SleepersAreBlocked, Calls
    <3>. QED  BY <2>0, <2>1, <3>1, WriteStep
  <2>2. CASE call[t].op = "add" /\ AddLoop(t, call[t].data[1])
    <3>1. call[t].data[1] \in Value
      BY <1>0, <2>2 DEF SleepersAreBlocked, Singles
    <3>. QED  BY <2>0, <2>2, <3>1, AddStep
  <2>3. CASE call[t].op = "read" /\ ReadLoop(t, call[t].len)
    BY <2>0, <2>3, <1>l DEF Calls
  <2>4. CASE call[t].op = "next" /\ NextLoop(t)
    BY <2>0, <2>4, <1>m
  <2>. QED  BY <1>5, <2>1, <2>2, <2>3, <2>4 DEF Resume
<1>6. ASSUME NEW t \in Thread, SpuriousWakeup(t) PROVE IInv'
  <2>1. RingType' /\ RingOK'
    BY <1>0, <1>6 DEF SpuriousWakeup, ring, RingType, RingOK
  <2>. QED  BY <1>c, <1>6, <2>1, ControlStep DEF SpuriousWakeup
<1>7. CASE Discard
  <2>1. PICK n \in 0 .. count : Pop(n)
    BY <1>7 DEF Discard
  <2>2. RingType' /\ RingOK'
    BY <1>0, <2>1, PopOK
  <2>. QED  BY <1>c, <1>7, <2>2, ControlStep DEF Discard
<1>8. CASE Reset
  <2>1. RingType' /\ RingOK'
    BY <1>8, ClearOK DEF Reset
  <2>. QED  BY <1>c, <1>8, <2>1, ControlStep DEF Reset
<1>9. CASE CloseWrite
  <2>1. RingType' /\ RingOK'
    BY <1>0, <1>9 DEF CloseWrite, ring, RingType, RingOK
  <2>. QED  BY <1>0, <1>9, <2>1, ControlStep DEF CloseWrite, TypeOK
<1>10. CASE CloseWithError
  <2>1. RingType' /\ RingOK'
    BY <1>10, ClearOK DEF CloseWithError
  <2>. QED  BY <1>0, <1>10, <2>1, ControlStep DEF CloseWithError, TypeOK
<1>11. CASE UNCHANGED vars
  <2>1. RingType' /\ RingOK'
    BY <1>0, <1>11 DEF vars, ring, RingType, RingOK
  <2>. QED  BY <1>c, <1>11, <2>1, ControlStep DEF vars, waiting
<1>. QED  BY <1>1, <1>2, <1>3, <1>4, <1>5, <1>6, <1>7, <1>8, <1>9, <1>10, <1>11 DEF Next

\* IInv holds in every reachable state.
THEOREM Invariance == Spec => []IInv
<1>. QED  BY InitIInv, NextIInv, PTL DEF Spec

\* The state of a BlockBuffer, of its callers and of its results is always well
\* typed; in particular read and next only ever hand over elements.
THEOREM TypeCorrect == Spec => []TypeOK
<1>1. IInv => TypeOK
  BY DEF IInv
<1>. QED  BY <1>1, Invariance, PTL

\* For every capacity, the occupied slots are the count slots from head on: no
\* operation panics on an empty slot and none overwrites an unread element.
THEOREM RingCorrect == Spec => []RingOK
<1>1. IInv => RingOK
  BY DEF IInv
<1>. QED  BY <1>1, Invariance, PTL

\* For every number of threads: a call in progress is a blocked one, and nobody
\* sleeps on a closed buffer.
THEOREM SleepersCorrect == Spec => []SleepersAreBlocked
<1>1. IInv => SleepersAreBlocked
  BY DEF IInv
<1>. QED  BY <1>1, Invariance, PTL
-----------------------------------------------------------------------------
(* BlockBuffer implements ClosableQueue.  What an operation does to the    *)
(* slots is what the abstract operation does to the sequence of elements,  *)
(* Window(count).                                                          *)

\* The slot of the i-th oldest element, without the remainder.
LEMMA WindowSlot ==
    ASSUME NEW h \in Slot, NEW i \in 1 .. Capacity
    PROVE  LET s == (h + (i - 1)) % Capacity IN
           /\ s = IF h + (i - 1) < Capacity THEN h + (i - 1) ELSE h + (i - 1) - Capacity
           /\ s \in Slot
           /\ Offset(s, h) = i - 1
<1>. DEFINE s == (h + (i - 1)) % Capacity
<1>1. h + (i - 1) \in Turn
  BY CapacityAssumption DEF Turn, Slot
<1>2. s = IF h + (i - 1) < Capacity THEN h + (i - 1) ELSE h + (i - 1) - Capacity
  BY <1>1, Wrap, CapacityAssumption DEF Slot
<1>. HIDE DEF s
<1>3. s \in Slot
  BY <1>2, CapacityAssumption DEF Slot
<1>4. Offset(s, h) = i - 1
  BY <1>2, <1>3, OffsetValue, CapacityAssumption DEF Slot
<1>. QED  BY <1>2, <1>3, <1>4 DEF s

\* The elements of a ring b whose c filled slots start at h.
LEMMA WindowSeq ==
    ASSUME NEW b \in [Slot -> Value \cup {None}], NEW h \in Slot, NEW c \in 0 .. Capacity,
           \A s \in Slot : b[s] # None <=> Offset(s, h) < c
    PROVE  LET q == [i \in 1 .. c |-> b[(h + (i - 1)) % Capacity]] IN
           q \in Seq(Value) /\ Len(q) = c /\ q \in [1 .. c -> Value]
<1>. DEFINE q == [i \in 1 .. c |-> b[(h + (i - 1)) % Capacity]]
<1>1. ASSUME NEW i \in 1 .. c
      PROVE  b[(h + (i - 1)) % Capacity] \in Value
  <2>1. i \in 1 .. Capacity /\ i - 1 < c
    BY CapacityAssumption
  <2>. QED  BY <2>1, WindowSlot
<1>2. q \in [1 .. c -> Value] /\ c \in Nat
  BY <1>1
<1>. QED  BY <1>2

\* The same of the buffer, before and after a step.
LEMMA WindowsAreSeqs ==
    ASSUME RingType, RingOK, RingType', RingOK'
    PROVE  /\ Window(count) \in Seq(Value) /\ Len(Window(count)) = count
           /\ Window(count)' \in Seq(Value) /\ Len(Window(count)') = count'
<1>1. Window(count) \in Seq(Value) /\ Len(Window(count)) = count
  <2>1. count \in 0 .. count
    BY DEF RingType
  <2>. QED  BY <2>1, WindowValues
<1>2. Window(count)' \in Seq(Value) /\ Len(Window(count)') = count'
  <2>1. /\ buf' \in [Slot -> Value \cup {None}] /\ head' \in Slot /\ count' \in 0 .. Capacity
        /\ \A s \in Slot : buf'[s] # None <=> Offset(s, head') < count'
    BY DEF RingType, RingOK
  <2>2. Window(count)' = [i \in 1 .. count' |-> buf'[(head' + (i - 1)) % Capacity]]
    BY DEF Window
  <2>. QED  BY <2>1, <2>2, WindowSeq, SMTT(30)
<1>. QED  BY <1>1, <1>2

\* Storing elements w + 1 .. w + n of d appends them.
LEMMA WindowPush ==
    ASSUME RingType, RingOK,
           NEW d \in Seq(Value), NEW w \in Nat, NEW n \in 0 .. Capacity,
           count + n <= Capacity, w + n <= Len(d), Push(d, w, n)
    PROVE  /\ Window(count)' = Window(count) \o SubSeq(d, w + 1, w + n)
           /\ Len(SubSeq(d, w + 1, w + n)) = n
<1>. DEFINE new == SubSeq(d, w + 1, w + n)
            q == Window(count)
            r == Window(count)'
<1>0. RingType' /\ RingOK' /\ count' = count + n /\ head' = head /\ count \in Nat
  BY PushOK DEF Push, RingType
<1>1. /\ q \in Seq(Value) /\ Len(q) = count
      /\ r \in Seq(Value) /\ Len(r) = count + n
  BY <1>0, WindowsAreSeqs
<1>2. /\ new \in Seq(Value) /\ Len(new) = n
      /\ \A i \in 1 .. n : new[i] = d[w + i]
  <2>1. \A i \in w + 1 .. w + n : d[i] \in Value
    OBVIOUS
  <2>2. w + 1 \in Int /\ w + n \in Int
    OBVIOUS
  <2>3. /\ new \in Seq(Value)
        /\ Len(new) = IF w + 1 <= w + n THEN w + n - (w + 1) + 1 ELSE 0
        /\ \A i \in 1 .. w + n - (w + 1) + 1 : new[i] = d[w + 1 + i - 1]
    BY <2>1, <2>2, SubSeqProperties
  <2>. HIDE DEF new
  <2>. QED  BY <2>3
<1>. DEFINE all == q \o new
<1>3. /\ all \in Seq(Value) /\ Len(all) = count + n
      /\ \A i \in 1 .. count + n : all[i] = IF i <= count THEN q[i] ELSE new[i - count]
  <2>. HIDE DEF q, new
  <2>1. /\ all \in Seq(Value) /\ Len(all) = Len(q) + Len(new)
        /\ \A i \in 1 .. Len(q) + Len(new) : all[i] = IF i <= Len(q) THEN q[i] ELSE new[i - Len(q)]
    BY <1>1, <1>2, ConcatProperties, ZenonT(30)
  <2>. QED  BY <1>1, <1>2, <2>1
<1>a. \A s \in Slot : /\ Offset(s, head) < count + n <=> Offset(s, head) < count \/ Offset(s, tail) < n
                      /\ Offset(s, tail) < n => Offset(s, head) = count + Offset(s, tail)
  BY PushArith DEF RingType, RingOK
<1>4. ASSUME NEW i \in 1 .. count + n
      PROVE  r[i] = all[i]
  <2>. DEFINE s == (head + (i - 1)) % Capacity
  <2>1. s \in Slot /\ Offset(s, head) = i - 1
    BY <1>0, WindowSlot, CapacityAssumption DEF RingType
  <2>2. r[i] = buf'[s]
    BY <1>0 DEF Window
  <2>3. Offset(s, head) < count + n <=> Offset(s, head) < count \/ Offset(s, tail) < n
    BY <1>a, <2>1
  <2>4. Offset(s, tail) < n => Offset(s, head) = count + Offset(s, tail)
    BY <1>a, <2>1
  <2>5. buf'[s] = IF Offset(s, tail) < n THEN d[w + Offset(s, tail) + 1] ELSE buf[s]
    BY <2>1 DEF Push
  <2>6. i <= count => q[i] = buf[s]
    BY <1>0 DEF Window
  <2>7. Offset(s, tail) \in Int
    BY <2>1, OffsetRange DEF RingType, Slot
  <2>. HIDE DEF s, q, r, new, all
  <2>8. CASE i <= count
    <3>1. ~(Offset(s, tail) < n)
      BY <2>1, <2>4, <2>7, <2>8, OffsetRange, <1>0 DEF Slot, RingType
    <3>. QED  BY <3>1, <2>2, <2>5, <2>6, <2>8, <1>3, <1>0
  <2>9. CASE i > count
    <3>1. Offset(s, tail) = i - 1 - count /\ Offset(s, tail) < n
      BY <2>1, <2>3, <2>4, <2>7, <2>9, <1>0
    <3>2. i - count \in 1 .. n /\ w + (i - 1 - count) + 1 = w + (i - count)
      BY <2>9, <1>0
    <3>3. r[i] = d[w + (i - count)]
      BY <3>1, <3>2, <2>2, <2>5
    <3>4. all[i] = new[i - count] /\ new[i - count] = d[w + (i - count)]
      BY <3>2, <2>9, <1>2, <1>3, <1>0
    <3>. QED  BY <3>3, <3>4
  <2>. QED  BY <2>8, <2>9, <1>0
<1>5. r = all
  <2>. HIDE DEF r, all
  <2>. QED  BY <1>1, <1>3, <1>4, SeqEqual
<1>. QED  BY <1>2, <1>5

\* Emptying the n slots from head on removes the n oldest elements.
LEMMA WindowPop ==
    ASSUME RingType, RingOK, NEW n \in 0 .. count, Pop(n)
    PROVE  /\ Window(count)' = SubSeq(Window(count), n + 1, count)
           /\ Window(n) = SubSeq(Window(count), 1, n)
<1>. DEFINE q == Window(count)
            r == Window(count)'
            rest == SubSeq(q, n + 1, count)
<1>0. /\ RingType' /\ RingOK' /\ count' = count - n /\ n \in Nat
      /\ count \in Nat /\ count <= Capacity
  BY PopOK DEF Pop, RingType
<1>1. /\ q \in Seq(Value) /\ Len(q) = count
      /\ r \in Seq(Value) /\ Len(r) = count - n
  BY <1>0, WindowsAreSeqs
<1>2. /\ rest \in Seq(Value) /\ Len(rest) = count - n
      /\ \A i \in 1 .. count - n : rest[i] = q[n + i]
  <2>. HIDE DEF q
  <2>1. \A i \in n + 1 .. count : q[i] \in Value
    BY <1>0, <1>1
  <2>3. /\ rest \in Seq(Value)
        /\ Len(rest) = IF n + 1 <= count THEN count - (n + 1) + 1 ELSE 0
        /\ \A i \in 1 .. count - (n + 1) + 1 : rest[i] = q[n + 1 + i - 1]
    BY <2>1, <1>0, SubSeqProperties
  <2>. HIDE DEF rest
  <2>. QED  BY <2>3, <1>0
<1>3. ASSUME NEW i \in 1 .. count - n
      PROVE  r[i] = rest[i]
  <2>. DEFINE s == (head + (n + i - 1)) % Capacity
              g == (head + n) % Capacity
              u == (g + (i - 1)) % Capacity
  <2>1. n + i \in 1 .. Capacity /\ i \in 1 .. Capacity /\ n + i \in 1 .. count
    BY <1>0, CapacityAssumption
  <2>2. /\ s = IF head + (n + i - 1) < Capacity THEN head + (n + i - 1) ELSE head + (n + i - 1) - Capacity
        /\ s \in Slot /\ Offset(s, head) = n + i - 1
    BY <2>1, WindowSlot DEF RingType
  <2>3. g = head' /\ head' \in Slot /\ head \in Slot
    BY <1>0 DEF Pop, RingType
  <2>4. u = IF g + (i - 1) < Capacity THEN g + (i - 1) ELSE g + (i - 1) - Capacity
    BY <2>1, <2>3, WindowSlot
  <2>5. g = IF head + n < Capacity THEN head + n ELSE head + n - Capacity
    BY <2>3, <1>0, Wrap, CapacityAssumption DEF Turn, Slot
  <2>6. r[i] = buf'[u]
    BY <1>0, <2>3 DEF Window
  <2>7. q[n + i] = buf[s]
    BY <2>1 DEF Window
  <2>8. buf'[s] = buf[s]
    BY <2>2, <1>0 DEF Pop, Slot
  <2>. HIDE DEF s, g, u, q, r, rest
  <2>9. u = s
    BY <2>2, <2>3, <2>4, <2>5, <1>0, CapacityAssumption DEF Slot
  <2>. QED  BY <2>6, <2>7, <2>8, <2>9, <1>2
<1>4. r = rest
  <2>. HIDE DEF r, rest
  <2>. QED  BY <1>0, <1>1, <1>2, <1>3, SeqEqual
<1>5. Window(n) = SubSeq(q, 1, n)
  <2>1. /\ Window(n) \in Seq(Value) /\ Len(Window(n)) = n
        /\ \A i \in 1 .. n : Window(n)[i] = q[i]
    BY <1>0, WindowValues DEF Window
  <2>2. /\ SubSeq(q, 1, n) \in Seq(Value) /\ Len(SubSeq(q, 1, n)) = n
        /\ \A i \in 1 .. n : SubSeq(q, 1, n)[i] = q[i]
    <3>. HIDE DEF q
    <3>1. \A i \in 1 .. n : q[i] \in Value
      BY <1>0, <1>1
    <3>2. /\ SubSeq(q, 1, n) \in Seq(Value)
          /\ Len(SubSeq(q, 1, n)) = IF 1 <= n THEN n - 1 + 1 ELSE 0
          /\ \A i \in 1 .. n - 1 + 1 : SubSeq(q, 1, n)[i] = q[1 + i - 1]
      BY <3>1, <1>0, SubSeqProperties
    <3>. QED  BY <3>2, <1>0
  <2>. HIDE DEF q
  <2>. QED  BY <2>1, <2>2, SeqEqual
<1>. QED  BY <1>4, <1>5
\* close_with_error closes the write side too, whatever happens later.
ErrorCloses == close_err # None => close_write

\* No step takes the flag back.
LEMMA ErrorClosesNext == ErrorCloses /\ [Next]_vars => ErrorCloses'
<1>. SUFFICES ASSUME ErrorCloses, [Next]_vars PROVE ErrorCloses'
  OBVIOUS
<1>1. CASE UNCHANGED closing
  BY <1>1 DEF ErrorCloses, closing
<1>2. CASE CloseWrite \/ CloseWithError
  BY <1>2 DEF ErrorCloses, CloseWrite, CloseWithError
<1>. QED  BY <1>1, <1>2 DEF Next, vars, Write, Add, Read, NextItem, Resume, WriteLoop, AddLoop,
            ReadLoop, NextLoop, SpuriousWakeup, Discard, Reset

\* The state in which the abstract queue's operations start.
RInv == IInv /\ ErrorCloses

\* new is the empty queue, from_vec one that is full from the start.
LEMMA InitRefines == Init => Queue!Init
<1>. SUFFICES ASSUME Init PROVE Queue!Init
  OBVIOUS
<1>1. Window(count) \in {<< >>} \cup {b \in Batches \cup [1 .. Capacity -> Value] : "block" = "block" /\ Len(b) = Capacity}
  <2>1. CASE New
    <3>1. Window(count) = << >>
      BY <2>1 DEF New, Window
    <3>. QED  BY <3>1
  <2>2. CASE FromVec
    <3>1. RingType /\ RingOK /\ count = Capacity
      BY <2>2, InitIInv DEF FromVec, IInv, TypeOK, RingType
    <3>2. count \in 0 .. count
      BY <3>1, CapacityAssumption
    <3>3. Window(count) \in [1 .. Capacity -> Value] /\ Len(Window(count)) = Capacity
      BY <3>1, <3>2, WindowValues
    <3>. QED  BY <3>3
  <2>. QED  BY <2>1, <2>2 DEF Init
<1>2. PendingWrite = [t \in Thread |-> Queue!NoPut]
  BY DEF Init, Idle, PendingWrite, Queue!NoPut
<1>. QED  BY <1>1, <1>2 DEF Init, Queue!Init, Result, Queue!Result

\* What PendingWrite becomes when thread t goes over to call c.
LEMMA PendingStep ==
    ASSUME TypeOK, NEW t \in Thread, NEW c, call' = [call EXCEPT ![t] = c],
           NEW p, p = IF c.op = "write" /\ c.written > 0
                        THEN [data |-> c.data, done |-> c.written] ELSE Queue!NoPut
    PROVE  PendingWrite' = [PendingWrite EXCEPT ![t] = p]
BY DEF PendingWrite, Queue!NoPut, TypeOK

\* ... when the call returns ...
LEMMA PendingReturn ==
    ASSUME TypeOK, NEW t \in Thread, call' = [call EXCEPT ![t] = Idle]
    PROVE  PendingWrite' = [PendingWrite EXCEPT ![t] = Queue!NoPut]
BY DEF PendingWrite, Queue!NoPut, TypeOK, Idle

\* ... and when it waits with w elements of a write stored.
LEMMA PendingBlock ==
    ASSUME TypeOK, NEW t \in Thread, NEW d, NEW w \in Nat \ {0}, call' = [call EXCEPT ![t] = WriteCall(d, w)]
    PROVE  PendingWrite' = [PendingWrite EXCEPT ![t] = [data |-> d, done |-> w]]
<1>1. /\ WriteCall(d, w).op = "write" /\ WriteCall(d, w).written > 0
      /\ WriteCall(d, w).data = d /\ WriteCall(d, w).written = w
  BY DEF WriteCall
<1>. HIDE DEF WriteCall
<1>. QED  BY <1>1 DEF PendingWrite, TypeOK

\* The put a thread with c elements of its write stored is in the middle of.
LEMMA PendingNow ==
    ASSUME NEW t \in Thread
    PROVE  PendingWrite[t] = IF call[t].op = "write" /\ call[t].written > 0
                               THEN [data |-> call[t].data, done |-> call[t].written] ELSE Queue!NoPut
BY DEF PendingWrite, Queue!NoPut

\* A step of the abstract queue, or none.
QueueStep == Queue!Next \/ UNCHANGED Queue!vars

\* An operation that leaves the slots alone leaves the elements alone.
LEMMA WindowUnchanged == UNCHANGED ring => Window(count)' = Window(count)
BY DEF ring, Window

\* One turn of write, with w elements stored before: it is refused, waits, or puts
\* the next elements.
LEMMA WriteRefines ==
    ASSUME RInv, NEW t \in Thread, NEW d \in WriteData, NEW w \in Nat, w < Len(d),
           \/ call[t] = Idle /\ w = 0
           \/ call[t].op = "write" /\ call[t].data = d /\ call[t].written = w,
           WriteLoop(t, d, w)
    PROVE  QueueStep
<1>0. RingType /\ RingOK /\ TypeOK /\ ErrorCloses /\ UNCHANGED closing
  BY DEF RInv, IInv, TypeOK, RingType, WriteLoop
<1>d. d \in Seq(Value) /\ Len(d) \in Nat
  BY WriteDataAssumption
<1>p. PendingWrite[t] = IF w > 0 THEN [data |-> d, done |-> w] ELSE Queue!NoPut
  <2>1. CASE call[t] = Idle /\ w = 0
    <3>1. call[t].op # "write"
      BY <2>1 DEF Idle
    <3>2. ~(w > 0)
      BY <2>1
    <3>. QED  BY <3>1, <3>2, PendingNow
  <2>2. CASE call[t].op = "write" /\ call[t].data = d /\ call[t].written = w
    BY <2>2, PendingNow
  <2>. QED  BY <2>1, <2>2
<1>1. CASE WriteClosed(t, d, w)
  <2>1. close_write /\ UNCHANGED ring /\ call' = [call EXCEPT ![t] = Idle]
    BY <1>0, <1>1 DEF WriteClosed, ErrorCloses, Return
  <2>2. PendingWrite' = [PendingWrite EXCEPT ![t] = Queue!NoPut]
    BY <1>0, <2>1, PendingReturn
  <2>3. ret' = IF PendingWrite[t].done > 0 THEN Queue!Ok(PendingWrite[t].done)
               ELSE Queue!Result(IF close_err = None THEN "closed" ELSE "failed", 0, << >>)
    BY <1>p, <1>1 DEF WriteClosed, Return, Result, Queue!Ok, Queue!Result, Queue!NoPut
  <2>4. Queue!Refuse(t)
    BY <1>0, <2>1, <2>2, <2>3, WindowUnchanged DEF Queue!Refuse, closing
  <2>. QED  BY <2>4 DEF QueueStep, Queue!Next
<1>2. CASE WriteFull(t, d, w)
  <2>1. UNCHANGED ring /\ call' = [call EXCEPT ![t] = WriteCall(d, w)] /\ ret' = ret
    BY <1>2 DEF WriteFull, Block
  <2>2. PendingWrite' = [PendingWrite EXCEPT ![t] = PendingWrite[t]]
    BY <1>0, <1>p, <2>1, PendingStep DEF WriteCall
  <2>3. PendingWrite' = PendingWrite
    BY <2>2 DEF PendingWrite
  <2>. QED  BY <1>0, <2>1, <2>3, WindowUnchanged DEF QueueStep, Queue!vars, closing
<1>3. CASE WriteBatch(t, d, w)
  <2>. DEFINE n == Smaller(Capacity - count, Len(d) - w)
              last == w + n
  <2>1. n \in 1 .. Capacity /\ count + n <= Capacity /\ last <= Len(d)
    BY <1>0, <1>3, <1>d, CapacityAssumption DEF WriteBatch, Smaller, RingType
  <2>2. Push(d, w, n) /\ close_err = None /\ ~close_write
    BY <1>3 DEF WriteBatch
  <2>3. /\ last = Len(d) => Return(t, Result("ok", Len(d), << >>))
        /\ last # Len(d) => Block(t, WriteCall(d, last))
    BY <1>3, <2>1, <1>d DEF WriteBatch
  <2>. HIDE DEF n
  <2>p. n \in 0 .. Capacity /\ last \in w + 1 .. Len(d) /\ last \in 1 .. Len(d) /\ last > 0
    BY <2>1, <1>d
  <2>4. /\ Window(count)' = Window(count) \o SubSeq(d, w + 1, last)
        /\ Len(SubSeq(d, w + 1, last)) = n
    BY <1>0, <1>d, <2>1, <2>2, <2>p, WindowPush, ZenonT(30)
  <2>. HIDE DEF last
  <2>5. Len(Window(count)) = count
    <3>1. count \in 0 .. count
      BY <1>0 DEF RingType
    <3>. QED  BY <1>0, <3>1, WindowValues
  <2>6. Queue!Accept(SubSeq(d, w + 1, last))
    BY <2>1, <2>4, <2>5 DEF Queue!Accept
  <2>7. PendingWrite[t].done = w /\ (PendingWrite[t] = Queue!NoPut \/ PendingWrite[t].data = d)
    BY <1>p DEF Queue!NoPut
  <2>8. IF last = Len(d)
          THEN PendingWrite' = [PendingWrite EXCEPT ![t] = Queue!NoPut] /\ ret' = Queue!Ok(Len(d))
          ELSE PendingWrite' = [PendingWrite EXCEPT ![t] = [data |-> d, done |-> last]] /\ ret' = ret
    <3>1. CASE last = Len(d)
      <4>1. call' = [call EXCEPT ![t] = Idle] /\ ret' = Queue!Ok(Len(d))
        BY <2>3, <3>1 DEF Return, Result, Queue!Ok, Queue!Result
      <4>2. PendingWrite' = [PendingWrite EXCEPT ![t] = Queue!NoPut]
        BY <1>0, <4>1, PendingReturn
      <4>. QED  BY <3>1, <4>1, <4>2
    <3>2. CASE last # Len(d)
      <4>1. call' = [call EXCEPT ![t] = WriteCall(d, last)] /\ ret' = ret
        BY <2>3, <3>2 DEF Block
      <4>2. PendingWrite' = [PendingWrite EXCEPT ![t] = [data |-> d, done |-> last]]
        <5>1. last \in Nat \ {0}
          BY <2>p, <1>d
        <5>. QED  BY <1>0, <4>1, <5>1, PendingBlock
      <4>. QED  BY <3>2, <4>1, <4>2
    <3>. QED  BY <3>1, <3>2
  <2>9. Queue!Put(t, d, last)
    BY <1>0, <2>2, <2>p, <2>6, <2>7, <2>8 DEF Queue!Put, closing
  <2>. QED  BY <2>9, <2>p DEF QueueStep, Queue!Next, Batches
<1>. QED  BY <1>1, <1>2, <1>3 DEF WriteLoop

\* One turn of add.
LEMMA AddRefines ==
    ASSUME RInv, NEW t \in Thread, call[t].op \in {"idle", "add"}, NEW v \in Value, AddLoop(t, v)
    PROVE  QueueStep
<1>0. RingType /\ RingOK /\ TypeOK /\ ErrorCloses /\ UNCHANGED closing
  BY DEF RInv, IInv, TypeOK, RingType, AddLoop
<1>p. PendingWrite[t] = Queue!NoPut
  BY PendingNow
<1>1. CASE /\ close_err # None \/ close_write
           /\ Return(t, Result(IF close_err # None THEN "failed" ELSE "closed", 0, << >>))
           /\ UNCHANGED <<ring, waiting>>
  <2>1. close_write /\ UNCHANGED ring /\ call' = [call EXCEPT ![t] = Idle]
    BY <1>0, <1>1 DEF ErrorCloses, Return
  <2>2. PendingWrite' = [PendingWrite EXCEPT ![t] = Queue!NoPut]
    BY <1>0, <2>1, PendingReturn
  <2>3. ret' = IF PendingWrite[t].done > 0 THEN Queue!Ok(PendingWrite[t].done)
               ELSE Queue!Result(IF close_err = None THEN "closed" ELSE "failed", 0, << >>)
    BY <1>p, <1>1 DEF Return, Result, Queue!Result, Queue!NoPut
  <2>4. Queue!Refuse(t)
    BY <1>0, <2>1, <2>2, <2>3, WindowUnchanged DEF Queue!Refuse, closing
  <2>. QED  BY <2>4 DEF QueueStep, Queue!Next
<1>2. CASE Block(t, AddCall(v)) /\ UNCHANGED ring
  <2>1. call' = [call EXCEPT ![t] = AddCall(v)] /\ ret' = ret
    BY <1>2 DEF Block
  <2>2. PendingWrite' = [PendingWrite EXCEPT ![t] = PendingWrite[t]]
    BY <1>0, <1>p, <2>1, PendingStep, ZenonT(30) DEF AddCall
  <2>3. PendingWrite' = PendingWrite
    BY <2>2 DEF PendingWrite
  <2>. QED  BY <1>0, <1>2, <2>1, <2>3, WindowUnchanged DEF QueueStep, Queue!vars, closing
<1>3. CASE /\ close_err = None /\ ~close_write
           /\ count < Capacity
           /\ Push(<<v>>, 0, 1)
           /\ Return(t, Result("ok", 1, << >>))
  <2>1. /\ <<v>> \in Seq(Value) /\ Len(<<v>>) = 1 /\ <<v>> \in Batches
        /\ 1 \in 0 .. Capacity /\ count + 1 <= Capacity /\ 0 \in Nat /\ 0 + 1 <= Len(<<v>>)
    BY <1>0, <1>3, CapacityAssumption DEF RingType, Batches, Singles
  <2>2. /\ Window(count)' = Window(count) \o SubSeq(<<v>>, 0 + 1, 0 + 1)
        /\ Len(SubSeq(<<v>>, 0 + 1, 0 + 1)) = 1
    BY <1>0, <1>3, <2>1, WindowPush
  <2>3. Len(Window(count)) = count
    <3>1. count \in 0 .. count
      BY <1>0 DEF RingType
    <3>. QED  BY <1>0, <3>1, WindowValues
  <2>4. Queue!Accept(SubSeq(<<v>>, 0 + 1, 1))
    BY <2>1, <2>2, <2>3 DEF Queue!Accept
  <2>5. call' = [call EXCEPT ![t] = Idle] /\ ret' = Queue!Ok(Len(<<v>>))
    BY <1>3 DEF Return, Result, Queue!Ok, Queue!Result
  <2>6. PendingWrite' = [PendingWrite EXCEPT ![t] = Queue!NoPut]
    BY <1>0, <2>5, PendingReturn
  <2>7. Queue!NoPut.done = 0
    BY DEF Queue!NoPut
  <2>8. Queue!Put(t, <<v>>, 1)
    BY <1>0, <1>3, <1>p, <2>1, <2>4, <2>5, <2>6, <2>7 DEF Queue!Put, closing
  <2>9. 1 \in 1 .. Len(<<v>>)
    BY <2>1
  <2>. QED  BY <2>1, <2>8, <2>9 DEF QueueStep, Queue!Next
<1>. QED  BY <1>1, <1>2, <1>3 DEF AddLoop

\* One turn of read or next: the call fails, ends, waits, or takes elements.
LEMMA ReadRefines ==
    ASSUME RInv, NEW t \in Thread, call[t].op \in {"idle", "read", "next"}, UNCHANGED closing,
           NEW c, c.op \in {"read", "next"},
           NEW n \in Nat, count > 0 => n <= count,
           NEW failed \in {Result("failed", 0, << >>), Result("done", 0, << >>)},
           NEW eof \in {Result("ok", 0, << >>), Result("done", 0, << >>)},
           ReadClosed(t, failed, eof) \/ ReadEmpty(t, c) \/ ReadSome(t, n)
    PROVE  QueueStep
<1>0. RingType /\ RingOK /\ TypeOK
  BY DEF RInv, IInv, TypeOK, RingType
<1>p. PendingWrite[t] = Queue!NoPut
  BY PendingNow
<1>w. Window(count) \in Seq(Value) /\ Len(Window(count)) = count /\ count \in Nat
  <2>1. count \in 0 .. count
    BY <1>0 DEF RingType
  <2>. QED  BY <1>0, <2>1, WindowValues DEF RingType
<1>u. ASSUME NEW b, b.op # "write", call' = [call EXCEPT ![t] = b]
      PROVE  PendingWrite' = PendingWrite
  <2>1. PendingWrite' = [PendingWrite EXCEPT ![t] = PendingWrite[t]]
    BY <1>0, <1>p, <1>u, PendingStep
  <2>. QED  BY <2>1 DEF PendingWrite
<1>i. Idle.op # "write"
  BY DEF Idle
<1>1. CASE ReadClosed(t, failed, eof)
  <2>1. UNCHANGED ring /\ call' = [call EXCEPT ![t] = Idle]
    BY <1>1 DEF ReadClosed, Return
  <2>2. PendingWrite' = PendingWrite /\ Window(count)' = Window(count)
    BY <1>u, <1>i, <2>1, WindowUnchanged
  <2>3. CASE close_err # None
    <3>1. Queue!Failed
      BY <1>1, <2>2, <2>3 DEF ReadClosed, Return, Queue!Failed, Result, Queue!Result, closing
    <3>. QED  BY <3>1 DEF QueueStep, Queue!Next
  <2>4. CASE close_err = None
    <3>1. Window(count) = << >> /\ close_write /\ ret' = eof
      BY <1>w, <1>1, <2>4 DEF ReadClosed, Return
    <3>2. Queue!EndOfStream
      BY <2>2, <2>4, <3>1 DEF Queue!EndOfStream, Queue!Ok, Result, Queue!Result, closing
    <3>. QED  BY <3>2 DEF QueueStep, Queue!Next
  <2>. QED  BY <2>3, <2>4
<1>2. CASE ReadEmpty(t, c)
  <2>1. UNCHANGED ring /\ call' = [call EXCEPT ![t] = c] /\ ret' = ret
    BY <1>2 DEF ReadEmpty, Block
  <2>2. PendingWrite' = PendingWrite /\ Window(count)' = Window(count)
    BY <1>u, <2>1, WindowUnchanged
  <2>. QED  BY <2>1, <2>2 DEF QueueStep, Queue!vars, closing
<1>3. CASE ReadSome(t, n)
  <2>1. n \in 0 .. count /\ Pop(n) /\ close_err = None /\ count > 0
    BY <1>w, <1>3 DEF ReadSome
  <2>2. /\ Window(count)' = SubSeq(Window(count), n + 1, count)
        /\ Window(n) = SubSeq(Window(count), 1, n)
    BY <1>0, <2>1, WindowPop
  <2>3. call' = [call EXCEPT ![t] = Idle] /\ ret' = Result("ok", n, Window(n))
    BY <1>3 DEF ReadSome, Return
  <2>4. PendingWrite' = PendingWrite
    BY <1>u, <1>i, <2>3
  <2>5. Len(Window(n)) = n
    BY <1>0, <2>1, WindowValues
  <2>6. ret' = Queue!Got(SubSeq(Window(count), 1, n))
    BY <2>2, <2>3, <2>5 DEF Queue!Got, Queue!Result, Result
  <2>7. Window(count) # << >>
    BY <1>w, <2>1
  <2>8. Queue!Take(n)
    BY <1>w, <2>1, <2>2, <2>4, <2>6, <2>7 DEF Queue!Take, closing
  <2>. QED  BY <1>w, <2>1, <2>8 DEF QueueStep, Queue!Next
<1>. QED  BY <1>1, <1>2, <1>3

\* discard and reset: elements go, nothing is returned.
LEMMA DropRefines ==
    ASSUME RInv, NEW n \in 0 .. count, Window(count)' = SubSeq(Window(count), n + 1, count),
           UNCHANGED <<closing, call, ret>>
    PROVE  QueueStep
<1>0. RingType /\ RingOK
  BY DEF RInv, IInv, TypeOK, RingType
<1>w. Window(count) \in Seq(Value) /\ Len(Window(count)) = count /\ count \in Nat
  <2>1. count \in 0 .. count
    BY <1>0 DEF RingType
  <2>. QED  BY <1>0, <2>1, WindowValues DEF RingType
<1>p. PendingWrite' = PendingWrite
  BY DEF PendingWrite
<1>1. CASE n = 0
  <2>1. SubSeq(Window(count), 1, Len(Window(count))) = Window(count)
    BY <1>w, SubSeqFull
  <2>2. Window(count)' = Window(count)
    BY <1>1, <1>w, <2>1
  <2>. QED  BY <1>p, <2>2 DEF QueueStep, Queue!vars, closing
<1>2. CASE n > 0
  <2>1. Queue!Drop(n)
    BY <1>2, <1>w, <1>p DEF Queue!Drop, closing
  <2>. QED  BY <1>w, <2>1 DEF QueueStep, Queue!Next
<1>. QED  BY <1>1, <1>2, <1>w

\* A cleared buffer has no elements.
LEMMA ClearRefines ==
    ASSUME Clear
    PROVE  Window(count)' = << >>
BY DEF Clear, Window

\* Every step of the buffer is a step of the queue, or none.
LEMMA NextRefines == RInv /\ [Next]_vars => [Queue!Next]_(Queue!vars)
<1>. SUFFICES ASSUME RInv, [Next]_vars PROVE QueueStep
  BY DEF QueueStep
<1>0. RingType /\ RingOK /\ TypeOK /\ SleepersAreBlocked /\ ErrorCloses
  BY DEF RInv, IInv, TypeOK, RingType
<1>w. Window(count) \in Seq(Value) /\ Len(Window(count)) = count /\ count \in Nat
  <2>1. count \in 0 .. count
    BY <1>0 DEF RingType
  <2>. QED  BY <1>0, <2>1, WindowValues DEF RingType
<1>l. ASSUME NEW t \in Thread, call[t].op \in {"idle", "read", "next"}, NEW len \in Nat, ReadLoop(t, len)
      PROVE  QueueStep
  <2>1. ReadCall(len).op = "read" /\ Smaller(len, count) \in Nat /\ Smaller(len, count) <= count
    BY <1>0 DEF ReadCall, Smaller, RingType
  <2>. QED  BY <1>l, <2>1, ReadRefines DEF ReadLoop
<1>m. ASSUME NEW t \in Thread, call[t].op \in {"idle", "read", "next"}, NextLoop(t)
      PROVE  QueueStep
  <2>1. NextCall.op = "next" /\ (count > 0 => 1 <= count)
    BY <1>0 DEF NextCall, RingType
  <2>. QED  BY <1>m, <2>1, ReadRefines DEF NextLoop
<1>i. Idle.op = "idle"
  BY DEF Idle
<1>1. ASSUME NEW t \in Thread, Write(t) PROVE QueueStep
  <2>1. PICK d \in WriteData : WriteLoop(t, d, 0)
    BY <1>1 DEF Write
  <2>2. 0 < Len(d)
    BY WriteDataAssumption
  <2>. QED  BY <1>1, <2>1, <2>2, WriteRefines DEF Write
<1>2. ASSUME NEW t \in Thread, Add(t) PROVE QueueStep
  BY <1>2, <1>i, AddRefines DEF Add
<1>3. ASSUME NEW t \in Thread, Read(t) PROVE QueueStep
  BY <1>3, <1>i, <1>l, ReadLenAssumption DEF Read
<1>4. ASSUME NEW t \in Thread, NextItem(t) PROVE QueueStep
  BY <1>4, <1>i, <1>m DEF NextItem
<1>5. ASSUME NEW t \in Thread, Resume(t) PROVE QueueStep
  <2>0. call[t] \in Calls
    BY <1>0 DEF TypeOK
  <2>1. CASE call[t].op = "write" /\ WriteLoop(t, call[t].data, call[t].written)
    <3>1. call[t].data \in WriteData /\ call[t].written \in Nat /\ call[t].written < Len(call[t].data)
      BY <1>0, <2>0, <2>1 DEF SleepersAreBlocked, Calls
    <3>. QED  BY <2>1, <3>1, WriteRefines
  <2>2. CASE call[t].op = "add" /\ AddLoop(t, call[t].data[1])
    <3>1. call[t].data[1] \in Value
      BY <1>0, <2>2 DEF SleepersAreBlocked, Singles
    <3>. QED  BY <2>2, <3>1, AddRefines
  <2>3. CASE call[t].op = "read" /\ ReadLoop(t, call[t].len)
    BY <2>0, <2>3, <1>l DEF Calls
  <2>4. CASE call[t].op = "next" /\ NextLoop(t)
    BY <2>4, <1>m
  <2>. QED  BY <1>5, <2>1, <2>2, <2>3, <2>4 DEF Resume
<1>6. ASSUME UNCHANGED <<ring, closing, call, ret>> PROVE QueueStep
  BY <1>6, WindowUnchanged DEF QueueStep, Queue!vars, closing, PendingWrite
<1>7. CASE Discard
  <2>1. PICK n \in 0 .. count : Pop(n)
    BY <1>7 DEF Discard
  <2>2. Window(count)' = SubSeq(Window(count), n + 1, count)
    BY <1>0, <2>1, WindowPop
  <2>. QED  BY <1>7, <2>2, DropRefines DEF Discard
<1>8. CASE Reset
  <2>1. Window(count)' = << >> /\ SubSeq(Window(count), count + 1, count) = << >>
    BY <1>8, <1>w, ClearRefines, SubSeqEmpty DEF Reset
  <2>2. count \in 0 .. count
    BY <1>w
  <2>. QED  BY <1>8, <2>1, <2>2, DropRefines DEF Reset
<1>9. CASE CloseWrite
  <2>1. Queue!Close
    BY <1>9, WindowUnchanged DEF CloseWrite, Queue!Close, PendingWrite
  <2>. QED  BY <2>1 DEF QueueStep, Queue!Next
<1>10. CASE CloseWithError
  <2>1. PICK e \in Error : close_err' = e
    BY <1>10 DEF CloseWithError
  <2>2. Queue!Fail(e)
    BY <1>10, <2>1, ClearRefines DEF CloseWithError, Queue!Fail, PendingWrite
  <2>. QED  BY <2>2 DEF QueueStep, Queue!Next
<1>. QED  BY <1>1, <1>2, <1>3, <1>4, <1>5, <1>6, <1>7, <1>8, <1>9, <1>10
          DEF Next, vars, SpuriousWakeup

\* For every capacity, number of threads and mix of calls, BlockBuffer is the
\* ClosableQueue that blocks: elements come out once and in the order they went in,
\* and write reports exactly what it stored, also when a close interrupts it.
THEOREM Refinement == Spec => QueueSpec
<1>1. Init => ErrorCloses
  BY DEF Init, ErrorCloses
<1>2. Spec => []ErrorCloses
  BY <1>1, ErrorClosesNext, PTL DEF Spec
<1>3. Spec => []RInv
  BY <1>2, Invariance, PTL DEF RInv
<1>. QED  BY <1>3, InitRefines, NextRefines, PTL DEF Spec, QueueSpec, Queue!Spec
-----------------------------------------------------------------------------
(* No wake-up is lost, when calls move one element each.                   *)

\* What the theorem is about: finitely many threads, and writes and reads of one.
SingleCalls ==
    /\ IsFiniteSet(Thread)
    /\ \A d \in WriteData : Len(d) = 1
    /\ ReadLen \subseteq {1}

\* A read that waits is a read of one element.
ReadsOne == \A t \in Thread : call[t].op = "read" => call[t].len = 1

\* Counting the woken: threads that join, threads that leave.
LEMMA WokenCount ==
    ASSUME SingleCalls, NEW A \in SUBSET Thread, NEW B \in SUBSET Thread
    PROVE  /\ Cardinality(A) \in Nat /\ Cardinality(B) \in Nat
           /\ A \subseteq B => Cardinality(A) <= Cardinality(B)
           /\ \A x : A \ {x} \subseteq B => Cardinality(A) <= Cardinality(B) + 1
           /\ \A x : x \notin A /\ A \cup {x} \subseteq B => Cardinality(A) + 1 <= Cardinality(B)
<1>1. IsFiniteSet(A) /\ IsFiniteSet(B)
  BY FS_Subset DEF SingleCalls
<1>2. Cardinality(A) \in Nat /\ Cardinality(B) \in Nat
  BY <1>1, FS_CardinalityType
<1>3. A \subseteq B => Cardinality(A) <= Cardinality(B)
  BY <1>1, FS_Subset
<1>4. ASSUME NEW x, A \ {x} \subseteq B PROVE Cardinality(A) <= Cardinality(B) + 1
  <2>1. /\ IsFiniteSet(A \ {x})
        /\ Cardinality(A \ {x}) = IF x \in A THEN Cardinality(A) - 1 ELSE Cardinality(A)
    BY <1>1, FS_RemoveElement
  <2>2. Cardinality(A \ {x}) <= Cardinality(B)
    BY <1>1, <1>4, FS_Subset
  <2>. QED  BY <1>2, <2>1, <2>2
<1>5. ASSUME NEW x, x \notin A, A \cup {x} \subseteq B PROVE Cardinality(A) + 1 <= Cardinality(B)
  <2>1. Cardinality(A \cup {x}) = Cardinality(A) + 1
    BY <1>1, <1>5, FS_AddElement
  <2>2. Cardinality(A \cup {x}) <= Cardinality(B)
    BY <1>1, <1>5, FS_Subset
  <2>. QED  BY <2>1, <2>2
<1>. QED  BY <1>2, <1>3, <1>4, <1>5

\* The woken are threads.
LEMMA WokenAreThreads ==
    /\ WokenReaders \in SUBSET Thread /\ WokenWriters \in SUBSET Thread
    /\ WokenReaders' \in SUBSET Thread /\ WokenWriters' \in SUBSET Thread
BY DEF WokenReaders, WokenWriters

\* A put of one element wakes a reader for it, and took at most one writer's place.
LEMMA PutWakes ==
    ASSUME SingleCalls, IInv, NoLostWakeup,
           NEW t \in Thread, Awake(t), call[t].op \in {"idle", "write", "add"},
           call' = [call EXCEPT ![t] = Idle], count' = count + 1,
           not_empty' \in NotifyOne(not_empty), not_full' = not_full
    PROVE  NoLostWakeup'
<1>0. TypeOK /\ SleepersAreBlocked /\ count \in Nat /\ Capacity \in Nat
  BY CapacityAssumption DEF IInv, TypeOK
<1>1. ASSUME not_empty' # {} PROVE count' <= Cardinality(WokenReaders')
  <2>1. PICK x \in not_empty : not_empty' = not_empty \ {x}
    BY <1>1 DEF NotifyOne
  <2>2. x \notin WokenReaders /\ x \in Thread /\ x # t /\ call[x].op \in {"read", "next"}
    BY <1>0, <2>1 DEF WokenReaders, TypeOK, SleepersAreBlocked, Awake
  <2>3. WokenReaders \cup {x} \subseteq WokenReaders'
    BY <1>0, <2>1, <2>2 DEF WokenReaders, TypeOK
  <2>4. Cardinality(WokenReaders) + 1 <= Cardinality(WokenReaders') /\ Cardinality(WokenReaders) \in Nat
        /\ Cardinality(WokenReaders') \in Nat
    BY <2>2, <2>3, WokenCount, WokenAreThreads
  <2>. QED  BY <1>0, <2>1, <2>4 DEF NoLostWakeup
<1>2. ASSUME not_full' # {} PROVE Capacity - count' <= Cardinality(WokenWriters')
  <2>1. WokenWriters \ {t} \subseteq WokenWriters'
    BY <1>0 DEF WokenWriters, TypeOK
  <2>2. Cardinality(WokenWriters) <= Cardinality(WokenWriters') + 1 /\ Cardinality(WokenWriters) \in Nat
        /\ Cardinality(WokenWriters') \in Nat
    BY <2>1, WokenCount, WokenAreThreads
  <2>. QED  BY <1>0, <1>2, <2>2 DEF NoLostWakeup
<1>. QED  BY <1>1, <1>2 DEF NoLostWakeup

\* Taking one element wakes a writer for its slot, and took one reader's place.
LEMMA TakeWakes ==
    ASSUME SingleCalls, IInv, NoLostWakeup,
           NEW t \in Thread, Awake(t), call[t].op \in {"idle", "read", "next"},
           call' = [call EXCEPT ![t] = Idle], count' = count - 1,
           not_full' \in NotifyOne(not_full), not_empty' = not_empty
    PROVE  NoLostWakeup'
<1>0. TypeOK /\ SleepersAreBlocked /\ count \in Nat /\ Capacity \in Nat
  BY CapacityAssumption DEF IInv, TypeOK
<1>1. ASSUME not_full' # {} PROVE Capacity - count' <= Cardinality(WokenWriters')
  <2>1. PICK x \in not_full : not_full' = not_full \ {x}
    BY <1>1 DEF NotifyOne
  <2>2. x \notin WokenWriters /\ x \in Thread /\ x # t /\ call[x].op \in {"write", "add"}
    BY <1>0, <2>1 DEF WokenWriters, TypeOK, SleepersAreBlocked, Awake
  <2>3. WokenWriters \cup {x} \subseteq WokenWriters'
    BY <1>0, <2>1, <2>2 DEF WokenWriters, TypeOK
  <2>4. Cardinality(WokenWriters) + 1 <= Cardinality(WokenWriters') /\ Cardinality(WokenWriters) \in Nat
        /\ Cardinality(WokenWriters') \in Nat
    BY <2>2, <2>3, WokenCount, WokenAreThreads
  <2>. QED  BY <1>0, <2>1, <2>4 DEF NoLostWakeup
<1>2. ASSUME not_empty' # {} PROVE count' <= Cardinality(WokenReaders')
  <2>1. WokenReaders \ {t} \subseteq WokenReaders'
    BY <1>0 DEF WokenReaders, TypeOK
  <2>2. Cardinality(WokenReaders) <= Cardinality(WokenReaders') + 1 /\ Cardinality(WokenReaders) \in Nat
        /\ Cardinality(WokenReaders') \in Nat
    BY <2>1, WokenCount, WokenAreThreads
  <2>. QED  BY <1>0, <1>2, <2>2 DEF NoLostWakeup
<1>. QED  BY <1>1, <1>2 DEF NoLostWakeup

\* A thread that goes to sleep does so on a full or an empty buffer.
LEMMA WaitWakes ==
    ASSUME SingleCalls, IInv, NoLostWakeup,
           NEW t \in Thread, NEW c, call' = [call EXCEPT ![t] = c], count' = count,
           \/ /\ count = Capacity /\ c.op \in {"write", "add"} /\ call[t].op \in {"idle", "write", "add"}
              /\ not_empty' = not_empty
           \/ /\ count = 0 /\ c.op \in {"read", "next"} /\ call[t].op \in {"idle", "read", "next"}
              /\ not_full' = not_full
    PROVE  NoLostWakeup'
<1>0. TypeOK /\ SleepersAreBlocked /\ count \in Nat /\ Capacity \in Nat
  BY CapacityAssumption DEF IInv, TypeOK
<1>1. Cardinality(WokenReaders') \in Nat /\ Cardinality(WokenWriters') \in Nat
  BY WokenCount, WokenAreThreads
<1>2. CASE /\ count = Capacity /\ c.op \in {"write", "add"} /\ call[t].op \in {"idle", "write", "add"}
           /\ not_empty' = not_empty
  <2>1. WokenReaders' = WokenReaders
    BY <1>0, <1>2 DEF WokenReaders, TypeOK
  <2>. QED  BY <1>0, <1>1, <1>2, <2>1 DEF NoLostWakeup
<1>3. CASE /\ count = 0 /\ c.op \in {"read", "next"} /\ call[t].op \in {"idle", "read", "next"}
           /\ not_full' = not_full
  <2>1. WokenWriters' = WokenWriters
    BY <1>0, <1>3 DEF WokenWriters, TypeOK
  <2>. QED  BY <1>0, <1>1, <1>3, <2>1 DEF NoLostWakeup
<1>. QED  BY <1>2, <1>3

\* A step that makes no call, takes nobody's place and wakes all writers when it
\* frees slots: discard, reset, the closes, spurious wake-ups.
LEMMA ControlWakes ==
    ASSUME SingleCalls, IInv, NoLostWakeup, call' = call,
           count' \in 0 .. count, count' = count \/ not_full' = {},
           not_full' \subseteq not_full, not_empty' \subseteq not_empty
    PROVE  NoLostWakeup'
<1>0. TypeOK /\ count \in Nat /\ Capacity \in Nat
  BY CapacityAssumption DEF IInv, TypeOK
<1>1. WokenReaders \subseteq WokenReaders' /\ WokenWriters \subseteq WokenWriters'
  BY DEF WokenReaders, WokenWriters
<1>2. /\ Cardinality(WokenReaders) <= Cardinality(WokenReaders') /\ Cardinality(WokenReaders) \in Nat
      /\ Cardinality(WokenWriters) <= Cardinality(WokenWriters') /\ Cardinality(WokenWriters) \in Nat
      /\ Cardinality(WokenReaders') \in Nat /\ Cardinality(WokenWriters') \in Nat
  BY <1>1, WokenCount, WokenAreThreads
<1>. QED  BY <1>0, <1>2 DEF NoLostWakeup

\* On a closed buffer there is nobody to wake.
LEMMA ClosedWakes ==
    ASSUME IInv, close_write', close_write \/ (not_full' = {} /\ not_empty' = {}),
           close_write => UNCHANGED waiting
    PROVE  NoLostWakeup'
BY DEF IInv, SleepersAreBlocked, NoLostWakeup, waiting

\* A thread between calls sleeps on no condition variable.
LEMMA IdleAwake ==
    ASSUME IInv, NEW t \in Thread, call[t].op = "idle"
    PROVE  Awake(t)
BY DEF IInv, SleepersAreBlocked, Awake

\* One round of the loop of write or add, for one element.
LEMMA PutKeeps ==
    ASSUME SingleCalls, RInv, NoLostWakeup, NEW t \in Thread, Awake(t),
           call[t].op \in {"idle", "write", "add"}, NEW d \in Seq(Value), Len(d) = 1,
           WriteLoop(t, d, 0) \/ AddLoop(t, d[1])
    PROVE  NoLostWakeup'
<1>0. IInv /\ count \in Nat /\ Capacity \in Nat /\ ErrorCloses
  BY CapacityAssumption DEF RInv, IInv, TypeOK
<1>1. CASE (close_err # None \/ close_write) /\ UNCHANGED waiting /\ UNCHANGED closing
  <2>1. close_write /\ close_write'
    BY <1>0, <1>1 DEF ErrorCloses, closing
  <2>. QED  BY <1>0, <1>1, <2>1, ClosedWakes
<1>2. ASSUME NEW c, c.op \in {"write", "add"}, count = Capacity, Block(t, c), UNCHANGED <<ring, not_empty>>
      PROVE  NoLostWakeup'
  BY <1>0, <1>2, WaitWakes DEF Block, ring
<1>3. ASSUME count' = count + 1, call' = [call EXCEPT ![t] = Idle],
             not_empty' \in NotifyOne(not_empty), not_full' = not_full
      PROVE  NoLostWakeup'
  BY <1>0, <1>3, PutWakes
<1>4. WriteCall(d, 0).op = "write" /\ AddCall(d[1]).op = "add"
  BY DEF WriteCall, AddCall
<1>5. CASE WriteLoop(t, d, 0)
  <2>1. CASE WriteClosed(t, d, 0)
    BY <1>1, <1>5, <2>1 DEF WriteClosed, WriteLoop, waiting
  <2>2. CASE WriteFull(t, d, 0)
    BY <1>2, <1>4, <2>2 DEF WriteFull
  <2>3. CASE WriteBatch(t, d, 0)
    <3>1. count < Capacity => Smaller(Capacity - count, Len(d) - 0) = 1
      BY <1>0 DEF Smaller
    <3>2. count' = count + 1 /\ not_empty' \in NotifyOne(not_empty)
          /\ call' = [call EXCEPT ![t] = Idle] /\ not_full' = not_full
      BY <2>3, <3>1 DEF WriteBatch, Push, Return
    <3>. QED  BY <1>3, <3>2
  <2>. QED  BY <1>5, <2>1, <2>2, <2>3 DEF WriteLoop
<1>6. CASE AddLoop(t, d[1])
  <2>1. CASE close_err # None \/ close_write
    BY <1>1, <1>6, <2>1 DEF AddLoop
  <2>2. CASE close_err = None /\ ~close_write /\ count = Capacity
    BY <1>0, <1>2, <1>4, <1>6, <2>2 DEF AddLoop
  <2>3. CASE close_err = None /\ ~close_write /\ count # Capacity
    BY <1>3, <1>6, <2>3 DEF AddLoop, Push, Return
  <2>. QED  BY <2>1, <2>2, <2>3
<1>. QED  BY <1>5, <1>6

\* One round of the loop of read or next, for one element.
LEMMA TakeKeeps ==
    ASSUME SingleCalls, RInv, NoLostWakeup, NEW t \in Thread, Awake(t),
           call[t].op \in {"idle", "read", "next"}, ReadLoop(t, 1) \/ NextLoop(t)
    PROVE  NoLostWakeup'
<1>0. IInv /\ count \in Nat /\ ErrorCloses
  BY DEF RInv, IInv, TypeOK
<1>1. ASSUME NEW f, NEW e, ReadClosed(t, f, e), UNCHANGED closing PROVE NoLostWakeup'
  <2>1. close_write /\ close_write' /\ UNCHANGED waiting
    BY <1>0, <1>1 DEF ErrorCloses, closing, ReadClosed
  <2>. QED  BY <1>0, <2>1, ClosedWakes
<1>2. ASSUME NEW c, c.op \in {"read", "next"}, ReadEmpty(t, c) PROVE NoLostWakeup'
  BY <1>0, <1>2, WaitWakes DEF Block, ring, ReadEmpty
<1>3. ASSUME NEW n, count > 0 => n = 1, ReadSome(t, n) PROVE NoLostWakeup'
  BY <1>0, <1>3, TakeWakes DEF ReadSome, Return, Pop
<1>4. ReadCall(1).op = "read" /\ NextCall.op = "next" /\ (count > 0 => Smaller(1, count) = 1)
  BY <1>0 DEF ReadCall, NextCall, Smaller
<1>. QED  BY <1>1, <1>2, <1>3, <1>4 DEF ReadLoop, NextLoop

\* Reads keep asking for one element.
LEMMA ReadsOneNext == SingleCalls /\ IInv /\ ReadsOne /\ [Next]_vars => ReadsOne'
<1>. SUFFICES ASSUME SingleCalls, IInv, ReadsOne, [Next]_vars PROVE ReadsOne'
  OBVIOUS
<1>0. call \in [Thread -> Calls]
  BY DEF IInv, TypeOK
<1>1. ASSUME NEW t \in Thread, NEW c, c.op = "read" => c.len = 1, call' = [call EXCEPT ![t] = c]
      PROVE  ReadsOne'
  BY <1>0, <1>1 DEF ReadsOne
<1>2. CASE UNCHANGED call
  BY <1>2 DEF ReadsOne
<1>3. /\ Idle.op = "idle" /\ NextCall.op = "next" /\ ReadCall(1).len = 1
      /\ \A d, w : WriteCall(d, w).op = "write"
      /\ \A v : AddCall(v).op = "add"
  BY DEF Idle, NextCall, ReadCall, WriteCall, AddCall
<1>4. ASSUME NEW t \in Thread, NEW r, Return(t, r) PROVE ReadsOne'
  BY <1>1, <1>3, <1>4 DEF Return
<1>5. ASSUME NEW t \in Thread, NEW c, c.op = "read" => c.len = 1, Block(t, c) PROVE ReadsOne'
  BY <1>1, <1>5 DEF Block
<1>6. ASSUME NEW t \in Thread, NEW d, NEW w, WriteLoop(t, d, w) PROVE ReadsOne'
  BY <1>3, <1>4, <1>5, <1>6 DEF WriteLoop, WriteClosed, WriteFull, WriteBatch
<1>7. ASSUME NEW t \in Thread, NEW v, AddLoop(t, v) PROVE ReadsOne'
  BY <1>3, <1>4, <1>5, <1>7 DEF AddLoop
<1>8. ASSUME NEW t \in Thread, ReadLoop(t, 1) PROVE ReadsOne'
  BY <1>3, <1>4, <1>5, <1>8 DEF ReadLoop, ReadClosed, ReadEmpty, ReadSome
<1>9. ASSUME NEW t \in Thread, NextLoop(t) PROVE ReadsOne'
  BY <1>3, <1>4, <1>5, <1>9 DEF NextLoop, ReadClosed, ReadEmpty, ReadSome
<1>10. ASSUME NEW t \in Thread, Write(t) \/ Add(t) \/ Read(t) \/ NextItem(t) \/ Resume(t) PROVE ReadsOne'
  BY <1>6, <1>7, <1>8, <1>9, <1>10 DEF Write, Add, Read, NextItem, Resume, SingleCalls, ReadsOne
<1>. QED  BY <1>2, <1>10 DEF Next, SpuriousWakeup, Discard, Reset, CloseWrite, CloseWithError, vars

\* Every step keeps the wake-ups.
LEMMA WakeupNext == SingleCalls /\ RInv /\ ReadsOne /\ NoLostWakeup /\ [Next]_vars => NoLostWakeup'
<1>. SUFFICES ASSUME SingleCalls, RInv, ReadsOne, NoLostWakeup, [Next]_vars PROVE NoLostWakeup'
  OBVIOUS
<1>0. IInv /\ TypeOK /\ SleepersAreBlocked /\ count \in Nat /\ Idle.op = "idle"
  BY DEF RInv, IInv, TypeOK, Idle
<1>1. ASSUME NEW t \in Thread, Write(t) PROVE NoLostWakeup'
  BY <1>0, <1>1, IdleAwake, PutKeeps, WriteDataAssumption DEF Write, SingleCalls
<1>2. ASSUME NEW t \in Thread, Add(t) PROVE NoLostWakeup'
  <2>1. PICK v \in Value : AddLoop(t, v)
    BY <1>2 DEF Add
  <2>2. <<v>> \in Seq(Value) /\ Len(<<v>>) = 1 /\ <<v>>[1] = v
    OBVIOUS
  <2>. QED  BY <1>0, <1>2, <2>1, <2>2, IdleAwake, PutKeeps DEF Add
<1>3. ASSUME NEW t \in Thread, Read(t) \/ NextItem(t) PROVE NoLostWakeup'
  BY <1>0, <1>3, IdleAwake, TakeKeeps DEF Read, NextItem, SingleCalls
<1>4. ASSUME NEW t \in Thread, Resume(t) PROVE NoLostWakeup'
  <2>0. Awake(t) /\ call[t] \in Calls
    BY <1>0, <1>4 DEF Resume, TypeOK
  <2>1. CASE call[t].op = "write" /\ WriteLoop(t, call[t].data, call[t].written)
    <3>1. /\ call[t].data \in WriteData /\ call[t].written \in Nat
          /\ call[t].written < Len(call[t].data) /\ Len(call[t].data) = 1
      BY <1>0, <2>0, <2>1 DEF SleepersAreBlocked, SingleCalls, Calls
    <3>2. call[t].written = 0 /\ call[t].data \in Seq(Value)
      BY <3>1, WriteDataAssumption
    <3>. QED  BY <2>0, <2>1, <3>1, <3>2, PutKeeps
  <2>2. CASE call[t].op = "add" /\ AddLoop(t, call[t].data[1])
    <3>1. call[t].data \in Seq(Value) /\ Len(call[t].data) = 1
      <4>1. PICK v \in Value : call[t].data = <<v>>
        BY <1>0, <2>2 DEF SleepersAreBlocked, Singles
      <4>. QED  BY <4>1
    <3>. QED  BY <2>0, <2>2, <3>1, PutKeeps
  <2>3. CASE call[t].op = "read" /\ ReadLoop(t, call[t].len)
    BY <2>0, <2>3, TakeKeeps DEF ReadsOne
  <2>4. CASE call[t].op = "next" /\ NextLoop(t)
    BY <2>0, <2>4, TakeKeeps
  <2>. QED  BY <1>4, <2>1, <2>2, <2>3, <2>4 DEF Resume
<1>5. CASE UNCHANGED vars
  BY <1>0, <1>5, ControlWakes DEF vars, ring, waiting
<1>6. ASSUME NEW t \in Thread, SpuriousWakeup(t) PROVE NoLostWakeup'
  BY <1>0, <1>6, ControlWakes DEF SpuriousWakeup, ring
<1>7. CASE Discard \/ Reset
  <2>1. count' \in 0 .. count /\ not_full' = {} /\ not_empty' = not_empty /\ call' = call
    BY <1>0, <1>7 DEF Discard, Reset, Pop, Clear
  <2>. QED  BY <1>0, <2>1, ControlWakes
<1>8. CASE CloseWrite \/ CloseWithError
  BY <1>8 DEF CloseWrite, CloseWithError, NoLostWakeup
<1>. QED  BY <1>1, <1>2, <1>3, <1>4, <1>5, <1>6, <1>7, <1>8 DEF Next

\* While every call moves one element no wake-up is lost, whatever the capacity,
\* the number of threads and the order of calls, spurious wake-ups, discards,
\* resets and closes: notify_one is enough.
THEOREM WakeupsKept ==
    ASSUME SingleCalls
    PROVE  Spec => []NoLostWakeup
<1>1. Init => ErrorCloses /\ ReadsOne /\ NoLostWakeup
  BY DEF Init, ErrorCloses, ReadsOne, NoLostWakeup, Idle
<1>2. Spec => []RInv
  BY <1>1, ErrorClosesNext, Invariance, PTL DEF Spec, RInv
<1>3. RInv /\ ReadsOne /\ NoLostWakeup /\ [Next]_vars => ReadsOne' /\ NoLostWakeup'
  BY ReadsOneNext, WakeupNext DEF RInv
<1>. QED  BY <1>1, <1>2, <1>3, PTL DEF Spec
-----------------------------------------------------------------------------
(* The stream of genx that is built on the buffer (GenxStream): all clones   *)
(* learn the ending the builder was told, and together they receive every    *)
(* chunk before it.  One producer wins the flag (WinnerOK); as long as it    *)
(* has not written its event, and as long as the event is in the buffer,     *)
(* nobody has come to an end (EventOK); and the position of the event in the *)
(* buffer says how many chunks are still to come before it (Numbered).       *)

EndKind == {"done", "truncated", "blocked", "error"}
StreamEvent == [kind : EndKind \cup {"chunk"}, n : Nat]

StreamType ==
    /\ buffer \in Seq(StreamEvent) /\ chunks \in Seq(Nat) /\ added \in Nat /\ before \in Nat
    /\ stage \in [Producers -> {"run", "won", "told", "wrote", "end"}]
    /\ how \in [Producers -> EndKind \cup {"none", "abort"}]
    /\ local_result \in [Handles -> EndKind \cup {"none"}] /\ ended \in [Handles -> BOOLEAN]
    /\ result \in EndKind \cup {"none"}

Active(p) == stage[p] \in {"won", "told", "wrote"}

WinnerOK ==
    /\ ~done => result = "none" /\ \A p \in Producers : stage[p] = "run"
    /\ \A p, q \in Producers : Active(p) /\ Active(q) => p = q
    /\ \A p \in Producers : Active(p) =>
          how[p] # "none" /\ result = IF stage[p] = "won" THEN "none" ELSE Status(how[p])

NoEvent(b) == \A i \in 1 .. Len(b) : b[i].kind = "chunk"

\* The event of the ending is not written yet.
Unwritten == ~done \/ \E p \in Producers : stage[p] \in {"won", "told"}

EventOK ==
    /\ \A i \in 1 .. Len(buffer) : buffer[i].kind # "chunk" => buffer[i].kind = result
    /\ buffer_failed => buffer = << >> /\ buffer_closed /\ (~hurt => result = "error")
    /\ buffer_closed /\ ~hurt => result # "none"
    /\ Unwritten => NoEvent(buffer) /\ (buffer_closed => hurt)
    /\ (Unwritten \/ ~NoEvent(buffer)) /\ ~hurt => \A h \in Handles : ~ended[h]

\* The chunks in the buffer b go on after the g-th and end with the a-th; the event,
\* if it is there, stands behind the w-th.
Numbered(b, g, a, w) ==
    /\ NoEvent(b) => a = g + Len(b) /\ w <= g /\ \A j \in 1 .. Len(b) : b[j].n = g + j
    /\ \A i \in 1 .. Len(b) : b[i].kind # "chunk" =>
          /\ w = g + i - 1 /\ a = g + Len(b) - 1
          /\ \A j \in 1 .. Len(b) : j # i => b[j].kind = "chunk" /\ b[j].n = IF j < i THEN g + j ELSE g + j - 1

StreamInv ==
    /\ StreamType /\ WinnerOK /\ EventOK
    /\ buffer_failed \/ Numbered(buffer, Len(chunks), added, before)
    /\ ResultAgrees /\ ChunksWhole

\* AddChunk: one more chunk at the end of the buffer.
LEMMA NumberedChunk ==
    ASSUME NEW b \in Seq(StreamEvent), NEW g \in Nat, NEW a \in Nat, NEW w \in Nat, Numbered(b, g, a, w),
           NEW e \in StreamEvent, e.kind = "chunk", e.n = a + 1
    PROVE  /\ Numbered(Append(b, e), g, a + 1, w) /\ (NoEvent(Append(b, e)) <=> NoEvent(b))
           /\ \A i \in 1 .. Len(Append(b, e)) : Append(b, e)[i].kind # "chunk" =>
                 i \in 1 .. Len(b) /\ Append(b, e)[i] = b[i]
<1> DEFINE c == Append(b, e)
<1>1. /\ Len(b) \in Nat /\ Len(c) = Len(b) + 1 /\ c[Len(b) + 1] = e
      /\ \A i \in 1 .. Len(b) : c[i] = b[i] /\ b[i] \in StreamEvent
    OBVIOUS
<1> HIDE DEF c
<1>2. \A i \in 1 .. Len(c) : i \in 1 .. Len(b) \/ i = Len(b) + 1
    BY <1>1
<1>3. NoEvent(c) <=> NoEvent(b)
    BY <1>1, <1>2 DEF NoEvent
<1>4. \A i \in 1 .. Len(c) : c[i].kind # "chunk" => i \in 1 .. Len(b) /\ c[i] = b[i]
    BY <1>1, <1>2
<1>5. NoEvent(c) => a + 1 = g + Len(c) /\ w <= g /\ \A j \in 1 .. Len(c) : c[j].n = g + j
  <2> SUFFICES ASSUME NoEvent(c) PROVE a + 1 = g + Len(c) /\ w <= g /\ \A j \in 1 .. Len(c) : c[j].n = g + j
      OBVIOUS
  <2>1. a = g + Len(b) /\ w <= g /\ \A j \in 1 .. Len(b) : b[j].n = g + j
      BY <1>3 DEF Numbered
  <2>2. c[Len(b) + 1].n = g + (Len(b) + 1) /\ a + 1 = g + Len(c)
      BY <1>1, <2>1
  <2> QED
      BY <1>1, <1>2, <2>1, <2>2
<1>6. ASSUME NEW i \in 1 .. Len(c), c[i].kind # "chunk"
      PROVE  /\ w = g + i - 1 /\ a + 1 = g + Len(c) - 1
             /\ \A j \in 1 .. Len(c) : j # i => c[j].kind = "chunk" /\ c[j].n = IF j < i THEN g + j ELSE g + j - 1
  <2>1. /\ i \in 1 .. Len(b) /\ w = g + i - 1 /\ a = g + Len(b) - 1
        /\ \A j \in 1 .. Len(b) : j # i => b[j].kind = "chunk" /\ b[j].n = IF j < i THEN g + j ELSE g + j - 1
      BY <1>4, <1>6 DEF Numbered
  <2>2. \A j \in 1 .. Len(b) : j # i => c[j].kind = "chunk" /\ c[j].n = IF j < i THEN g + j ELSE g + j - 1
      BY <1>1, <2>1
  <2>3. i < Len(b) + 1 /\ Len(b) + 1 # i /\ c[Len(b) + 1].kind = "chunk" /\ c[Len(b) + 1].n = g + (Len(b) + 1) - 1
      BY <1>1, <2>1
  <2> QED
      BY <1>1, <1>2, <2>1, <2>2, <2>3
<1>7. Numbered(c, g, a + 1, w)
    BY <1>5, <1>6 DEF Numbered
<1> QED
    BY <1>3, <1>4, <1>7 DEF c

\* WriteEnd: the event at the end of the buffer, behind all that was accepted.
LEMMA NumberedEvent ==
    ASSUME NEW b \in Seq(StreamEvent), NEW g \in Nat, NEW a \in Nat, NEW w \in Nat, Numbered(b, g, a, w),
           NoEvent(b), NEW e \in StreamEvent, e.kind # "chunk"
    PROVE  /\ Numbered(Append(b, e), g, a, a)
           /\ \A i \in 1 .. Len(Append(b, e)) : Append(b, e)[i].kind # "chunk" => Append(b, e)[i] = e
<1> DEFINE c == Append(b, e)
<1>1. /\ Len(b) \in Nat /\ Len(c) = Len(b) + 1 /\ c[Len(b) + 1] = e
      /\ \A i \in 1 .. Len(b) : c[i] = b[i]
    OBVIOUS
<1> HIDE DEF c
<1>2. \A i \in 1 .. Len(c) : i \in 1 .. Len(b) \/ i = Len(b) + 1
    BY <1>1
<1>3. ~NoEvent(c)
    BY <1>1 DEF NoEvent
<1>4. \A i \in 1 .. Len(c) : c[i].kind # "chunk" => i = Len(b) + 1
    BY <1>1, <1>2 DEF NoEvent
<1>5. a = g + Len(b) /\ \A j \in 1 .. Len(b) : b[j].kind = "chunk" /\ b[j].n = g + j
    BY DEF Numbered, NoEvent
<1>6. ASSUME NEW i \in 1 .. Len(c), c[i].kind # "chunk"
      PROVE  /\ a = g + i - 1 /\ a = g + Len(c) - 1
             /\ \A j \in 1 .. Len(c) : j # i => c[j].kind = "chunk" /\ c[j].n = IF j < i THEN g + j ELSE g + j - 1
  <2>1. i = Len(b) + 1 /\ \A j \in 1 .. Len(c) : j # i => j \in 1 .. Len(b) /\ j < i
      BY <1>1, <1>2, <1>4, <1>6
  <2>2. a = g + i - 1 /\ a = g + Len(c) - 1
      BY <1>1, <1>5, <2>1
  <2> QED
      BY <1>1, <1>5, <2>1, <2>2
<1> QED
    BY <1>1, <1>3, <1>4, <1>6 DEF Numbered, c

\* Next1: a chunk or the event is taken from the front.
LEMMA NumberedTail ==
    ASSUME NEW b \in Seq(StreamEvent), b # << >>, NEW g \in Nat, NEW a \in Nat, NEW w \in Nat,
           Numbered(b, g, a, w)
    PROVE  /\ Tail(b) \in Seq(StreamEvent)
           /\ \A i \in 1 .. Len(Tail(b)) : i + 1 \in 1 .. Len(b) /\ Tail(b)[i] = b[i + 1]
           /\ b[1] = Head(b) /\ b[1] \in StreamEvent
           /\ b[1].kind = "chunk" => /\ b[1].n = g + 1 /\ Numbered(Tail(b), g + 1, a, w)
                                     /\ NoEvent(Tail(b)) <=> NoEvent(b)
           /\ b[1].kind # "chunk" => NoEvent(Tail(b)) /\ Numbered(Tail(b), g, a, w)
<1> DEFINE c == Tail(b)
<1>1. /\ c \in Seq(StreamEvent) /\ Len(b) \in Nat /\ Len(b) > 0 /\ Len(c) = Len(b) - 1
      /\ \A i \in 1 .. Len(c) : c[i] = b[i + 1]
      /\ b[1] = Head(b) /\ b[1] \in StreamEvent
    BY HeadTailProperties
<1> HIDE DEF c
<1>2. /\ \A i \in 1 .. Len(c) : i + 1 \in 1 .. Len(b)
      /\ \A i \in 1 .. Len(b) : i = 1 \/ (i - 1 \in 1 .. Len(c) /\ c[i - 1] = b[i])
  <2>1. \A i \in 1 .. Len(b) : i # 1 => i - 1 \in 1 .. Len(c) /\ (i - 1) + 1 = i
      BY <1>1
  <2> QED
      BY <1>1, <2>1
<1>3. CASE b[1].kind = "chunk"
  <2>1. NoEvent(c) <=> NoEvent(b)
    <3>1. ASSUME NoEvent(b), NEW i \in 1 .. Len(c) PROVE c[i].kind = "chunk"
        BY <1>1, <1>2, <3>1 DEF NoEvent
    <3>2. ASSUME NoEvent(c), NEW i \in 1 .. Len(b) PROVE b[i].kind = "chunk"
        BY <1>2, <1>3, <3>2 DEF NoEvent
    <3> QED
        BY <3>1, <3>2 DEF NoEvent
  <2>2. b[1].n = g + 1
    <3>1. CASE NoEvent(b)
        BY <1>1, <3>1 DEF Numbered
    <3>2. CASE ~NoEvent(b)
      <4>1. PICK i \in 1 .. Len(b) : b[i].kind # "chunk"
          BY <3>2 DEF NoEvent
      <4>2. i # 1 /\ 1 < i
          BY <1>1, <1>3, <4>1
      <4> QED
          BY <1>1, <4>1, <4>2 DEF Numbered
    <3> QED
        BY <3>1, <3>2
  <2>3. NoEvent(c) => a = (g + 1) + Len(c) /\ w <= g + 1 /\ \A j \in 1 .. Len(c) : c[j].n = (g + 1) + j
      BY <1>1, <1>2, <2>1 DEF Numbered
  <2>4. ASSUME NEW i \in 1 .. Len(c), c[i].kind # "chunk"
        PROVE  /\ w = (g + 1) + i - 1 /\ a = (g + 1) + Len(c) - 1
               /\ \A j \in 1 .. Len(c) : j # i => c[j].kind = "chunk" /\ c[j].n = IF j < i THEN (g + 1) + j ELSE (g + 1) + j - 1
    <3>1. i + 1 \in 1 .. Len(b) /\ b[i + 1].kind # "chunk"
        BY <1>1, <1>2, <2>4
    <3>2. /\ w = g + (i + 1) - 1 /\ a = g + Len(b) - 1
          /\ \A j \in 1 .. Len(b) : j # i + 1 => b[j].kind = "chunk" /\ b[j].n = IF j < i + 1 THEN g + j ELSE g + j - 1
        BY <3>1 DEF Numbered
    <3>3. ASSUME NEW j \in 1 .. Len(c), j # i
          PROVE  c[j].kind = "chunk" /\ c[j].n = IF j < i THEN (g + 1) + j ELSE (g + 1) + j - 1
      <4>1. j + 1 \in 1 .. Len(b) /\ j + 1 # i + 1 /\ c[j] = b[j + 1]
          BY <1>1, <1>2, <3>3
      <4>2. c[j].kind = "chunk" /\ c[j].n = IF j + 1 < i + 1 THEN g + (j + 1) ELSE g + (j + 1) - 1
          BY <3>2, <4>1
      <4> QED
          BY <4>2
    <3> QED
        BY <1>1, <3>2, <3>3
  <2>5. Numbered(c, g + 1, a, w)
      BY <2>3, <2>4 DEF Numbered
  <2> QED
      BY <1>1, <1>2, <1>3, <2>1, <2>2, <2>5 DEF c
<1>4. CASE b[1].kind # "chunk"
  <2>1. /\ 1 \in 1 .. Len(b) /\ w = g + 1 - 1 /\ a = g + Len(b) - 1
        /\ \A j \in 1 .. Len(b) : j # 1 => b[j].kind = "chunk" /\ b[j].n = IF j < 1 THEN g + j ELSE g + j - 1
      BY <1>1, <1>4 DEF Numbered
  <2>2. ASSUME NEW j \in 1 .. Len(c) PROVE c[j].kind = "chunk" /\ c[j].n = g + j
    <3>1. j + 1 \in 1 .. Len(b) /\ j + 1 # 1 /\ ~(j + 1 < 1) /\ c[j] = b[j + 1]
        BY <1>1, <1>2
    <3>2. c[j].kind = "chunk" /\ c[j].n = g + (j + 1) - 1
        BY <2>1, <3>1
    <3> QED
        BY <3>2
  <2>3. NoEvent(c)
      BY <2>2 DEF NoEvent
  <2>4. Numbered(c, g, a, w)
      BY <1>1, <2>1, <2>2, <2>3 DEF Numbered, NoEvent
  <2> QED
      BY <1>1, <1>2, <1>4, <2>3, <2>4 DEF c
<1> QED
    BY <1>3, <1>4

\* A new builder and its handles.
LEMMA InitStreamInv == StreamInit => StreamInv
<1> SUFFICES ASSUME StreamInit PROVE StreamInv
    OBVIOUS
<1>1. buffer = << >> /\ Len(buffer) = 0 /\ chunks = << >> /\ Len(chunks) = 0 /\ 1 .. 0 = {}
    BY DEF StreamInit
<1>2. StreamType
    BY DEF StreamInit, StreamType, EndKind
<1>3. WinnerOK
    BY DEF StreamInit, WinnerOK, Active
<1>4. NoEvent(buffer) /\ EventOK
    BY <1>1 DEF StreamInit, EventOK, NoEvent
<1>5. Numbered(buffer, Len(chunks), added, before)
    BY <1>1 DEF StreamInit, Numbered, NoEvent
<1>6. ResultAgrees /\ ChunksWhole
  <2>1. chunks = [i \in 1 .. Len(chunks) |-> i]
      BY <1>1
  <2> QED
      BY <2>1 DEF StreamInit, ResultAgrees, ChunksWhole
<1> QED
    BY <1>2, <1>3, <1>4, <1>5, <1>6 DEF StreamInv

\* A chunk comes behind all others, whether an event is there or not.
LEMMA AddChunkInv == ASSUME StreamInv, NEW p \in Producers, AddChunk(p) PROVE StreamInv'
<1> DEFINE e == [kind |-> "chunk", n |-> added + 1]
<1>0. /\ ~buffer_closed /\ buffer' = Append(buffer, e) /\ added' = added + 1
      /\ UNCHANGED <<buffer_closed, buffer_failed, done, result, stage, how, before, local_result, ended, chunks, hurt>>
    BY DEF AddChunk, handle_vars
<1>1. /\ buffer \in Seq(StreamEvent) /\ Len(chunks) \in Nat /\ added \in Nat /\ before \in Nat /\ ~buffer_failed
      /\ Numbered(buffer, Len(chunks), added, before)
    BY <1>0 DEF StreamInv, StreamType, EventOK
<1>2. e \in StreamEvent /\ e.kind = "chunk" /\ e.n = added + 1
    BY <1>1 DEF StreamEvent
<1> HIDE DEF e
<1>g. PICK g \in Nat : g = Len(chunks)
    BY <1>1
<1>3. /\ Numbered(Append(buffer, e), g, added + 1, before)
      /\ NoEvent(Append(buffer, e)) <=> NoEvent(buffer)
      /\ \A i \in 1 .. Len(Append(buffer, e)) :
            Append(buffer, e)[i].kind # "chunk" => i \in 1 .. Len(buffer) /\ Append(buffer, e)[i] = buffer[i]
    BY <1>1, <1>2, <1>g, NumberedChunk
<1>4. StreamType'
    BY <1>0, <1>1, <1>2 DEF StreamInv, StreamType
<1>5. WinnerOK'
    BY <1>0 DEF StreamInv, WinnerOK, Active
<1>6. EventOK'
    BY <1>0, <1>1, <1>3 DEF StreamInv, EventOK, Unwritten
<1>7. Numbered(buffer, Len(chunks), added, before)'
    BY <1>0, <1>g, <1>3
<1>8. ResultAgrees' /\ ChunksWhole'
    BY <1>0 DEF StreamInv, ResultAgrees, ChunksWhole
<1> QED
    BY <1>4, <1>5, <1>6, <1>7, <1>8 DEF StreamInv

\* The first to swap the flag becomes the winner, a later one returns.
LEMMA BeginInv ==
    ASSUME StreamInv, NEW p \in Producers, NEW e \in EndKind \cup {"abort"}, Begin(p, e)
    PROVE  StreamInv'
<1>0. /\ stage[p] = "run" /\ done' = TRUE /\ how' = [how EXCEPT ![p] = e]
      /\ stage' = [stage EXCEPT ![p] = IF done THEN "end" ELSE "won"]
      /\ UNCHANGED <<buffer, buffer_closed, buffer_failed, result, added, before, local_result, ended, chunks, hurt>>
    BY DEF Begin, buffer_vars, handle_vars
<1>1. /\ \A q \in Producers \ {p} : stage'[q] = stage[q] /\ how'[q] = how[q]
      /\ how'[p] = e /\ e # "none" /\ stage'[p] = IF done THEN "end" ELSE "won"
    BY <1>0 DEF StreamInv, StreamType, EndKind
<1>2. StreamType'
    BY <1>0 DEF StreamInv, StreamType
<1>3. ~Active(p) /\ \A q \in Producers \ {p} : Active(q)' <=> Active(q)
    BY <1>0, <1>1 DEF Active
<1>4. CASE done
  <2>1. ~Active(p)'
      BY <1>1, <1>4 DEF Active
  <2>2. WinnerOK'
      BY <1>0, <1>1, <1>3, <1>4, <2>1 DEF StreamInv, WinnerOK
  <2>3. Unwritten' => Unwritten
      BY <1>0, <1>1, <1>4 DEF Unwritten
  <2>4. EventOK'
      BY <1>0, <2>3 DEF StreamInv, EventOK
  <2> QED
      BY <1>0, <1>2, <2>2, <2>4 DEF StreamInv, ResultAgrees, ChunksWhole
<1>5. CASE ~done
  <2>1. stage'[p] = "won" /\ result = "none" /\ \A q \in Producers \ {p} : ~Active(q)'
      BY <1>1, <1>3, <1>5 DEF StreamInv, WinnerOK, Active
  <2>2. WinnerOK'
    <3>1. \A q, r \in Producers : Active(q)' /\ Active(r)' => q = r
        BY <2>1
    <3>2. \A q \in Producers : Active(q)' => how'[q] # "none" /\ result' = IF stage'[q] = "won" THEN "none" ELSE Status(how[q])'
        BY <1>0, <1>1, <2>1
    <3> QED
        BY <1>0, <3>1, <3>2 DEF WinnerOK
  <2>3. Unwritten
      BY <1>5 DEF Unwritten
  <2>4. EventOK'
      BY <1>0, <2>3 DEF StreamInv, EventOK
  <2> QED
      BY <1>0, <1>2, <2>2, <2>4 DEF StreamInv, ResultAgrees, ChunksWhole
<1> QED
    BY <1>4, <1>5

\* Nobody has come to an end yet, so nobody has another result.
LEMMA SetResultInv == ASSUME StreamInv, NEW p \in Producers, SetResult(p) PROVE StreamInv'
<1>0. /\ stage[p] = "won" /\ result' = Status(how[p]) /\ stage' = [stage EXCEPT ![p] = "told"]
      /\ UNCHANGED <<buffer, buffer_closed, buffer_failed, done, how, added, before, local_result, ended, chunks, hurt>>
    BY DEF SetResult, buffer_vars, handle_vars
<1>1. Active(p) /\ how[p] # "none" /\ how[p] \in EndKind \cup {"abort"} /\ done
    BY <1>0 DEF StreamInv, StreamType, WinnerOK, Active
<1>2. /\ \A q \in Producers \ {p} : stage'[q] = stage[q] /\ ~Active(q) /\ ~Active(q)'
      /\ stage'[p] = "told"
    BY <1>0, <1>1 DEF StreamInv, StreamType, WinnerOK, Active
<1>3. Unwritten /\ NoEvent(buffer)
    BY <1>0 DEF StreamInv, EventOK, Unwritten
<1>4. result' # "none" /\ (buffer_failed => hurt) /\ (buffer_closed => hurt) /\ (~hurt => \A h \in Handles : ~ended[h])
    BY <1>0, <1>1, <1>3 DEF StreamInv, EventOK, Status, EndKind
<1>5. StreamType'
    BY <1>0, <1>1 DEF StreamInv, StreamType, Status, EndKind
<1>6. WinnerOK'
    BY <1>0, <1>1, <1>2 DEF WinnerOK, Active, Status
<1>7. EventOK'
  <2>1. \A i \in 1 .. Len(buffer') : buffer'[i].kind = "chunk"
      BY <1>0, <1>3 DEF NoEvent
  <2> QED
      BY <1>0, <1>3, <1>4, <2>1 DEF StreamInv, EventOK, NoEvent
<1>8. ResultAgrees' /\ ChunksWhole'
    BY <1>0, <1>4 DEF StreamInv, ResultAgrees, ChunksWhole
<1> QED
    BY <1>0, <1>5, <1>6, <1>7, <1>8 DEF StreamInv

\* The winner is done with the flag: all others have given up.
LEMMA LastStage ==
    ASSUME StreamInv, NEW p \in Producers, stage[p] \in {"told", "wrote"},
           NEW s \in {"wrote", "end"}, stage' = [stage EXCEPT ![p] = s], UNCHANGED <<done, result, how>>
    PROVE  /\ WinnerOK' /\ ~Unwritten' /\ result # "none" /\ result = Status(how[p])
           /\ stage' \in [Producers -> {"run", "won", "told", "wrote", "end"}]
<1>1. Active(p) /\ how[p] # "none" /\ how[p] \in EndKind \cup {"abort"} /\ result = Status(how[p]) /\ done
    BY DEF StreamInv, StreamType, WinnerOK, Active
<1>2. /\ \A q \in Producers \ {p} : stage'[q] = stage[q] /\ ~Active(q) /\ ~Active(q)'
      /\ stage'[p] = s /\ stage' \in [Producers -> {"run", "won", "told", "wrote", "end"}]
    BY <1>1 DEF StreamInv, StreamType, WinnerOK, Active
<1>3. result # "none"
    BY <1>1 DEF Status, EndKind
<1>4. WinnerOK'
    BY <1>1, <1>2 DEF WinnerOK, Active, Status
<1>5. ~Unwritten'
    BY <1>1, <1>2 DEF Unwritten, Active
<1> QED
    BY <1>1, <1>2, <1>3, <1>4, <1>5

\* abort empties the buffer, which from then on gives the error.
LEMMA FailBufferInv == ASSUME StreamInv, NEW p \in Producers, FailBuffer(p) PROVE StreamInv'
<1>0. /\ stage[p] = "told" /\ how[p] = "abort" /\ stage' = [stage EXCEPT ![p] = "end"]
      /\ UNCHANGED <<done, result, how, added, before, local_result, ended, chunks, hurt>>
    BY DEF FailBuffer, handle_vars
<1>1. WinnerOK' /\ ~Unwritten' /\ result = "error" /\ stage' \in [Producers -> {"run", "won", "told", "wrote", "end"}]
    BY <1>0, LastStage DEF Status
<1>2. buffer' = << >> /\ buffer_closed' /\ buffer_failed'
    BY <1>0 DEF FailBuffer, buffer_vars, StreamInv, EventOK
<1>3. StreamType'
    BY <1>0, <1>1, <1>2 DEF StreamInv, StreamType
<1>4. NoEvent(buffer)' /\ \A i \in 1 .. Len(buffer') : FALSE
    BY <1>2 DEF NoEvent
<1>5. EventOK'
    BY <1>0, <1>1, <1>2, <1>4 DEF EventOK
<1>6. ResultAgrees' /\ ChunksWhole'
    BY <1>0, <1>2 DEF StreamInv, ResultAgrees, ChunksWhole
<1> QED
    BY <1>1, <1>2, <1>3, <1>5, <1>6 DEF StreamInv

\* The event comes behind every chunk that was accepted.
LEMMA WriteEndInv == ASSUME StreamInv, NEW p \in Producers, WriteEnd(p) PROVE StreamInv'
<1>0. /\ stage[p] = "told" /\ how[p] # "abort"
      /\ UNCHANGED <<buffer_closed, buffer_failed, done, result, how, added, local_result, ended, chunks, hurt>>
    BY DEF WriteEnd, handle_vars
<1>1. Unwritten /\ NoEvent(buffer) /\ (buffer_closed => hurt) /\ (~hurt => \A h \in Handles : ~ended[h])
    BY <1>0 DEF StreamInv, EventOK, Unwritten
<1>2. CASE buffer_closed /\ stage' = [stage EXCEPT ![p] = "end"] /\ UNCHANGED <<buffer, before>>
  <2>1. WinnerOK' /\ ~Unwritten' /\ stage' \in [Producers -> {"run", "won", "told", "wrote", "end"}]
      BY <1>0, <1>2, LastStage
  <2>2. StreamType' /\ EventOK'
      BY <1>0, <1>1, <1>2, <2>1 DEF StreamInv, StreamType, EventOK, NoEvent
  <2> QED
      BY <1>0, <1>2, <2>1, <2>2 DEF StreamInv, ResultAgrees, ChunksWhole
<1>3. CASE /\ ~buffer_closed /\ buffer' = Append(buffer, [kind |-> how[p], n |-> 0])
           /\ before' = added /\ stage' = [stage EXCEPT ![p] = "wrote"]
  <2> DEFINE e == [kind |-> how[p], n |-> 0]
  <2>1. WinnerOK' /\ ~Unwritten' /\ stage' \in [Producers -> {"run", "won", "told", "wrote", "end"}]
        /\ result # "none" /\ result = how[p]
      BY <1>0, <1>3, LastStage DEF Status
  <2>2. e \in StreamEvent /\ e.kind = result /\ e.kind # "chunk"
      BY <1>0, <2>1 DEF StreamInv, StreamType, StreamEvent, EndKind
  <2> HIDE DEF e
  <2>3. buffer \in Seq(StreamEvent) /\ Len(chunks) \in Nat /\ added \in Nat /\ before \in Nat
        /\ ~buffer_failed /\ Numbered(buffer, Len(chunks), added, before) /\ buffer' = Append(buffer, e)
      BY <1>3 DEF StreamInv, StreamType, EventOK, e
  <2>4. /\ Numbered(Append(buffer, e), Len(chunks), added, added)
        /\ \A i \in 1 .. Len(Append(buffer, e)) : Append(buffer, e)[i].kind # "chunk" => Append(buffer, e)[i] = e
      BY <1>1, <2>2, <2>3, NumberedEvent
  <2>5. StreamType'
      BY <1>0, <1>3, <2>1, <2>2, <2>3 DEF StreamInv, StreamType
  <2>6. EventOK'
      BY <1>0, <1>1, <1>3, <2>1, <2>2, <2>3, <2>4 DEF EventOK
  <2>7. Numbered(buffer, Len(chunks), added, before)'
      BY <1>0, <1>3, <2>3, <2>4
  <2>8. ResultAgrees' /\ ChunksWhole'
      BY <1>0, <1>1 DEF StreamInv, ResultAgrees, ChunksWhole
  <2> QED
      BY <2>1, <2>5, <2>6, <2>7, <2>8 DEF StreamInv
<1> QED
    BY <1>2, <1>3 DEF WriteEnd

\* close_write: who finds the buffer empty now finds the result.
LEMMA CloseBufferInv == ASSUME StreamInv, NEW p \in Producers, CloseBuffer(p) PROVE StreamInv'
<1>0. /\ stage[p] = "wrote" /\ stage' = [stage EXCEPT ![p] = "end"] /\ buffer_closed'
      /\ UNCHANGED <<buffer, buffer_failed, done, result, how, added, before, local_result, ended, chunks, hurt>>
    BY DEF CloseBuffer, handle_vars
<1>1. WinnerOK' /\ ~Unwritten' /\ result # "none" /\ stage' \in [Producers -> {"run", "won", "told", "wrote", "end"}]
    BY <1>0, LastStage
<1>2. StreamType' /\ EventOK'
    BY <1>0, <1>1 DEF StreamInv, StreamType, EventOK
<1> QED
    BY <1>0, <1>1, <1>2 DEF StreamInv, ResultAgrees, ChunksWhole

\* A handle that comes to an end has met the error, the event, or an empty buffer that
\* the builder has closed.
LEMMA Next1Inv == ASSUME StreamInv, NEW h \in Handles, Next1(h) PROVE StreamInv'
<1>0. UNCHANGED <<buffer_closed, buffer_failed, done, result, stage, how, added, before, hurt>>
    BY DEF Next1, builder_vars
<1>1. WinnerOK' /\ (Unwritten' <=> Unwritten)
    BY <1>0 DEF StreamInv, WinnerOK, Active, Unwritten
<1>2. ASSUME UNCHANGED <<buffer, chunks>>, NEW r, local_result' = [local_result EXCEPT ![h] = r],
             ended' = [ended EXCEPT ![h] = TRUE], r \in EndKind \cup {"none"},
             ~hurt => r = result /\ result # "none" /\ ~Unwritten, buffer = << >>
      PROVE  StreamInv'
  <2>1. StreamType'
      BY <1>0, <1>2 DEF StreamInv, StreamType
  <2>2. NoEvent(buffer) /\ NoEvent(buffer)'
      BY <1>2 DEF NoEvent
  <2>3. \A g \in Handles : ended'[g] => g = h \/ ended[g]
      BY <1>2 DEF StreamInv, StreamType
  <2>4. EventOK'
      BY <1>0, <1>1, <1>2, <2>2 DEF StreamInv, EventOK
  <2>5. ResultAgrees'
      BY <1>0, <1>2, <2>3 DEF StreamInv, StreamType, ResultAgrees
  <2>6. buffer_failed \/ before <= Len(chunks)
      BY <2>2 DEF StreamInv, Numbered
  <2>7. ChunksWhole'
      BY <1>0, <1>2, <2>6 DEF StreamInv, StreamType, ChunksWhole
  <2> QED
      BY <1>0, <1>1, <1>2, <2>1, <2>4, <2>5, <2>7 DEF StreamInv
<1>3. CASE /\ buffer_failed
           /\ local_result' = [local_result EXCEPT ![h] = "error"] /\ ended' = [ended EXCEPT ![h] = TRUE]
           /\ UNCHANGED <<buffer, chunks>>
  <2>1. buffer = << >> /\ (~hurt => result = "error" /\ ~Unwritten)
      BY <1>3 DEF StreamInv, EventOK
  <2>2. "error" \in EndKind \cup {"none"}
      BY DEF EndKind
  <2> QED
      BY <1>2, <1>3, <2>1, <2>2
<1>4. CASE /\ ~buffer_failed /\ buffer = << >> /\ buffer_closed
           /\ local_result' = [local_result EXCEPT ![h] = AtEnd] /\ ended' = [ended EXCEPT ![h] = TRUE]
           /\ UNCHANGED <<buffer, chunks>>
  <2>1. ~hurt => result # "none" /\ ~Unwritten
      BY <1>4 DEF StreamInv, EventOK
  <2>2. result \in EndKind \cup {"none"}
      BY DEF StreamInv, StreamType
  <2> QED
      BY <1>2, <1>4, <2>1, <2>2 DEF AtEnd
<1>5. CASE ~buffer_failed /\ buffer # << >> /\ buffer' = Tail(buffer)
  <2>0. /\ buffer \in Seq(StreamEvent) /\ Len(chunks) \in Nat /\ added \in Nat /\ before \in Nat
        /\ chunks \in Seq(Nat) /\ Numbered(buffer, Len(chunks), added, before)
      BY <1>5 DEF StreamInv, StreamType
  <2>1. /\ Tail(buffer) \in Seq(StreamEvent) /\ buffer[1] = Head(buffer) /\ buffer[1] \in StreamEvent
        /\ \A i \in 1 .. Len(Tail(buffer)) : i + 1 \in 1 .. Len(buffer) /\ Tail(buffer)[i] = buffer[i + 1]
        /\ buffer[1].kind = "chunk" =>
              /\ buffer[1].n = Len(chunks) + 1 /\ Numbered(Tail(buffer), Len(chunks) + 1, added, before)
              /\ NoEvent(Tail(buffer)) <=> NoEvent(buffer)
        /\ buffer[1].kind # "chunk" => NoEvent(Tail(buffer)) /\ Numbered(Tail(buffer), Len(chunks), added, before)
      BY <1>5, <2>0, NumberedTail
  <2>2. \A i \in 1 .. Len(buffer') : buffer'[i].kind # "chunk" => buffer'[i].kind = result
      BY <1>5, <2>1 DEF StreamInv, EventOK
  <2>3. CASE buffer[1].kind = "chunk"
    <3>0. chunks' = Append(chunks, Len(chunks) + 1) /\ UNCHANGED <<local_result, ended>>
        BY <1>5, <2>1, <2>3 DEF Next1
    <3>1. chunks' \in Seq(Nat) /\ Len(chunks') = Len(chunks) + 1
        BY <2>0, <3>0
    <3>2. StreamType'
        BY <1>0, <1>5, <2>1, <3>0, <3>1 DEF StreamInv, StreamType
    <3>3. EventOK'
        BY <1>0, <1>1, <1>5, <2>1, <2>2, <2>3, <3>0 DEF StreamInv, EventOK
    <3>4. Numbered(buffer, Len(chunks), added, before)'
        BY <1>0, <1>5, <2>1, <2>3, <3>1
    <3>5. chunks' = [i \in 1 .. Len(chunks') |-> i]
        BY <2>0, <3>0, <3>1 DEF StreamInv, ChunksWhole
    <3>6. ResultAgrees' /\ ChunksWhole'
        BY <1>0, <2>0, <3>0, <3>1, <3>5 DEF StreamInv, ResultAgrees, ChunksWhole
    <3> QED
        BY <1>1, <3>2, <3>3, <3>4, <3>6 DEF StreamInv
  <2>4. CASE buffer[1].kind # "chunk"
    <3>0. /\ local_result' = [local_result EXCEPT ![h] = buffer[1].kind] /\ ended' = [ended EXCEPT ![h] = TRUE]
          /\ UNCHANGED chunks
        BY <1>5, <2>1, <2>4 DEF Next1
    <3>1. 1 \in 1 .. Len(buffer) /\ ~NoEvent(buffer)
      <4>1. 1 \in 1 .. Len(buffer)
          BY <1>5, <2>0
      <4> QED
          BY <2>4, <4>1 DEF NoEvent
    <3>2. ~Unwritten /\ buffer[1].kind = result /\ result # "none" /\ buffer[1].kind \in EndKind \cup {"none"}
        BY <2>1, <2>4, <3>1 DEF StreamInv, EventOK, StreamEvent, EndKind
    <3>3. StreamType'
        BY <1>0, <1>5, <2>1, <3>0, <3>2 DEF StreamInv, StreamType
    <3>4. EventOK'
        BY <1>0, <1>1, <1>5, <2>1, <2>2, <2>4, <3>2 DEF StreamInv, EventOK
    <3>5. Numbered(buffer, Len(chunks), added, before)'
        BY <1>0, <1>5, <2>1, <2>4, <3>0
    <3>6. \A g \in Handles : ended'[g] => g = h \/ (ended[g] /\ local_result'[g] = local_result[g])
        BY <3>0 DEF StreamInv, StreamType
    <3>7. ResultAgrees'
        BY <1>0, <3>0, <3>2, <3>6 DEF StreamInv, StreamType, ResultAgrees
    <3>8. before <= Len(chunks)
        BY <2>1, <2>4 DEF Numbered
    <3>9. ChunksWhole'
        BY <1>0, <2>0, <3>0, <3>8 DEF StreamInv, ChunksWhole
    <3> QED
        BY <1>1, <3>3, <3>4, <3>5, <3>7, <3>9 DEF StreamInv
  <2> QED
      BY <2>3, <2>4
<1> QED
    BY <1>3, <1>4, <1>5 DEF Next1

\* A reader that breaks the stream off takes the promise with it.
LEMMA CloseStreamInv ==
    ASSUME StreamInv, NEW h \in Handles, CloseStream(h) \/ CloseStreamWithError(h)
    PROVE  StreamInv'
<1>0. /\ hurt' /\ buffer_closed'
      /\ UNCHANGED <<done, result, stage, how, added, before, local_result, ended, chunks>>
    BY DEF CloseStream, CloseStreamWithError, builder_vars
<1>1. WinnerOK' /\ (Unwritten' <=> Unwritten)
    BY <1>0 DEF StreamInv, WinnerOK, Active, Unwritten
<1>2. CASE CloseStream(h)
  <2>1. UNCHANGED <<buffer, buffer_failed>>
      BY <1>2 DEF CloseStream
  <2>2. StreamType' /\ EventOK'
      BY <1>0, <1>1, <2>1 DEF StreamInv, StreamType, EventOK
  <2> QED
      BY <1>0, <1>1, <2>1, <2>2 DEF StreamInv, ResultAgrees, ChunksWhole
<1>3. CASE CloseStreamWithError(h)
  <2>1. buffer' = << >> /\ buffer_failed'
      BY <1>3 DEF CloseStreamWithError
  <2>2. NoEvent(buffer)' /\ \A i \in 1 .. Len(buffer') : FALSE
      BY <2>1 DEF NoEvent
  <2>3. StreamType' /\ EventOK'
      BY <1>0, <1>1, <2>1, <2>2 DEF StreamInv, StreamType, EventOK
  <2> QED
      BY <1>0, <1>1, <2>1, <2>3 DEF StreamInv, ResultAgrees, ChunksWhole
<1> QED
    BY <1>2, <1>3

\* Every step of builder and handles keeps the invariant.
LEMMA NextStreamInv == StreamInv /\ [StreamNext]_stream_vars => StreamInv'
<1> SUFFICES ASSUME StreamInv, [StreamNext]_stream_vars PROVE StreamInv'
    OBVIOUS
<1>1. ASSUME NEW p \in Producers, NEW e \in EndKind \cup {"abort"}, Begin(p, e) PROVE StreamInv'
    BY <1>1, BeginInv
<1>2. ASSUME NEW p \in Producers, Done(p) \/ Truncated(p) \/ Blocked(p) \/ Unexpected(p) \/ Abort(p)
      PROVE  StreamInv'
    BY <1>1, <1>2 DEF Done, Truncated, Blocked, Unexpected, Abort, EndKind
<1>3. ASSUME NEW p \in Producers,
             AddChunk(p) \/ SetResult(p) \/ FailBuffer(p) \/ WriteEnd(p) \/ CloseBuffer(p)
      PROVE  StreamInv'
    BY <1>3, AddChunkInv, SetResultInv, FailBufferInv, WriteEndInv, CloseBufferInv
<1>4. ASSUME NEW h \in Handles, Next1(h) \/ CloseStream(h) \/ CloseStreamWithError(h) PROVE StreamInv'
    BY <1>4, Next1Inv, CloseStreamInv
<1>5. CASE UNCHANGED stream_vars
    BY <1>5 DEF stream_vars, buffer_vars, builder_vars, handle_vars, StreamInv, StreamType, WinnerOK, Active,
                EventOK, Unwritten, ResultAgrees, ChunksWhole
<1> QED
    BY <1>2, <1>3, <1>4, <1>5 DEF StreamNext

\* For any number of producers that race to end a stream, and of clones that read it:
\* unless a reader breaks the stream off, next of every clone ends with the result that
\* the builder's first done, truncated, blocked, unexpected or abort has set, and the
\* chunks add accepted before its event have been received, each once and in order.
THEOREM EndsCorrect == StreamSpec => []EndsAgree
<1>1. StreamInv => EndsAgree
    BY DEF StreamInv, EndsAgree
<1> QED
    BY InitStreamInv, NextStreamInv, <1>1, PTL DEF StreamSpec
=============================================================================
