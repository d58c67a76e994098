----------------------------- MODULE RingBuffer -----------------------------
(***************************************************************************)
(* RingBuffer<T> (rust/buffer/src/ring_buffer.rs): a ring that overwrites  *)
(* its oldest elements.  head and tail are virtual counters of usize width *)
(* that wrap at CounterMod = 2^width; a counter's slot is the counter      *)
(* modulo the capacity.  Only readers block, on write_notify.              *)
(*                                                                         *)
(* Critical sections and wait sets are modelled as in BlockBuffer.         *)
(***************************************************************************)
EXTENDS Integers, Sequences, FiniteSets, SequenceTheorems, TLAPS

CONSTANTS Thread, Value, Error, None,
          Capacity,    \* buf.len()
          CounterMod,  \* usize wraps here: 2^64 on the targets in use
          WriteData, ReadLen

\* What the constants have to satisfy; assumed where the module is instantiated.
RingAssumption ==
    /\ Capacity \in Nat \ {0}
    /\ CounterMod \in Nat /\ Capacity < CounterMod
    /\ WriteData \subseteq Seq(Value) \ {<< >>}
    /\ ReadLen \subseteq Nat
    /\ None \notin Value /\ None \notin Error

VARIABLES buf, head, tail, close_write, close_err,
          call,           \* per thread: the read or next it is inside, if any
          write_notify,   \* the wait set of the condition variable
          ret             \* the result of the last call that returned

ring == <<buf, head, tail>>
closing == <<close_write, close_err>>
vars == <<ring, closing, call, write_notify, ret>>

Slot == 0 .. Capacity - 1
Counter == 0 .. CounterMod - 1
Singles == {<<v>> : v \in Value}

Idle == [op |-> "idle", len |-> 0]
ReadCall(n) == [op |-> "read", len |-> n]
NextCall == [op |-> "next", len |-> 0]

Result(tag, n, got) == [tag |-> tag, n |-> n, got |-> got]

Init == /\ buf = [s \in Slot |-> None]
        /\ head = 0 /\ tail = 0
        /\ close_write = FALSE /\ close_err = None
        /\ call = [t \in Thread |-> Idle]
        /\ write_notify = {}
        /\ ret = Result("none", 0, << >>)

-----------------------------------------------------------------------------
\* usize::wrapping_add and wrapping_sub.
WrappingAdd(c, n) == (c + n) % CounterMod
WrappingSub(c, d) == (c - d) % CounterMod

\* The slot of a virtual counter.
Index(c) == c % Capacity

\* The n counters from c on name n consecutive slots.  A capacity that does not
\* divide 2^64 (any but a power of two) meets a jump where the counters wrap.
Aligned == CounterMod % Capacity = 0
InReach(c, n) == Aligned \/ c + n < CounterMod

\* len()
Count == WrappingSub(tail, head)

Smaller(x, y) == IF x < y THEN x ELSE y

\* to_vec is Window(Count): the n oldest elements.
Window(n) == [i \in 1 .. n |-> buf[Index(WrappingAdd(head, i - 1))]]

\* Not the code: head moves on one element late.
OverwriteLate(d) ==
    LET Hits(s) == {k \in 0 .. Len(d) - 1 : Index(WrappingAdd(tail, k)) = s}
        Final(s) == CHOOSE k \in Hits(s) : \A j \in Hits(s) : j <= k
        excess == Count + Len(d) - Capacity - 1
    IN /\ buf' = [s \in Slot |-> IF Hits(s) = {} THEN buf[s] ELSE d[Final(s) + 1]]
       /\ tail' = WrappingAdd(tail, Len(d))
       /\ head' = IF excess > 0 THEN WrappingAdd(head, excess) ELSE head

\* The loop of write: element k goes to the slot of counter tail + k, a later one
\* over an earlier one, and head moves on past what no longer fits.
Overwrite(d) ==
    LET Hits(s) == {k \in 0 .. Len(d) - 1 : Index(WrappingAdd(tail, k)) = s}
        Final(s) == CHOOSE k \in Hits(s) : \A j \in Hits(s) : j <= k
        excess == Count + Len(d) - Capacity
    IN /\ buf' = [s \in Slot |-> IF Hits(s) = {} THEN buf[s] ELSE d[Final(s) + 1]]
       /\ tail' = WrappingAdd(tail, Len(d))
       /\ head' = IF excess > 0 THEN WrappingAdd(head, excess) ELSE head

\* The n slots from head on are taken.
Pop(n) ==
    /\ buf' = [s \in Slot |-> IF \E k \in 0 .. n - 1 : Index(WrappingAdd(head, k)) = s
                                THEN None ELSE buf[s]]
    /\ head' = WrappingAdd(head, n)
    /\ tail' = tail

Clear == buf' = [s \in Slot |-> None] /\ head' = 0 /\ tail' = 0

NotifyOne(W) == IF W = {} THEN {W} ELSE {W \ {w} : w \in W}

-----------------------------------------------------------------------------
Return(t, r) == call' = [call EXCEPT ![t] = Idle] /\ ret' = r

\* write and add.  They never wait; on a closed buffer they fail.
WriteClosed(t) ==
    /\ call[t] = Idle
    /\ close_err # None \/ close_write
    /\ Return(t, Result(IF close_err # None THEN "failed" ELSE "closed", 0, << >>))
    /\ UNCHANGED <<ring, closing, write_notify>>

WriteItems(t, d) ==
    /\ call[t] = Idle
    /\ close_err = None /\ ~close_write
    /\ InReach(tail, Len(d))   \* bound: fewer than 2^64 elements, unless aligned
    /\ Overwrite(d)
    /\ write_notify' \in NotifyOne(write_notify)
    /\ Return(t, Result("ok", Len(d), << >>))
    /\ UNCHANGED closing

Write(t) == WriteClosed(t) \/ \E d \in WriteData : WriteItems(t, d)
Add(t) == WriteClosed(t) \/ \E d \in Singles : WriteItems(t, d)

\* The loop of read and of next: c is the call, want the number of elements
\* asked for, eof the result on a drained buffer, failed after an error.
ReadLoop(t, c, want, failed, eof) ==
    /\ \/ /\ close_err # None
          /\ Return(t, failed)
          /\ UNCHANGED <<ring, write_notify>>
       \/ /\ close_err = None /\ head = tail /\ close_write
          /\ Return(t, eof)
          /\ UNCHANGED <<ring, write_notify>>
       \/ /\ close_err = None /\ head = tail /\ ~close_write
          /\ call' = [call EXCEPT ![t] = c]
          /\ write_notify' = write_notify \cup {t}
          /\ UNCHANGED <<ring, ret>>
       \/ /\ close_err = None /\ head # tail
          /\ LET n == Smaller(want, Smaller(Count, Capacity)) IN
               /\ Return(t, Result("ok", n, Window(n)))
               /\ Pop(n)
          /\ UNCHANGED write_notify
    /\ UNCHANGED closing

ReadFrom(t, len) ==
    ReadLoop(t, ReadCall(len), len, Result("failed", 0, << >>), Result("ok", 0, << >>))
NextFrom(t) ==
    ReadLoop(t, NextCall, 1, Result("done", 0, << >>), Result("done", 0, << >>))

Read(t) == call[t] = Idle /\ \E len \in ReadLen : ReadFrom(t, len)
NextItem(t) == call[t] = Idle /\ NextFrom(t)

\* A reader that was notified goes round its loop.
Resume(t) ==
    /\ t \notin write_notify
    /\ \/ call[t].op = "read" /\ ReadFrom(t, call[t].len)
       \/ call[t].op = "next" /\ NextFrom(t)

SpuriousWakeup(t) ==
    /\ t \in write_notify
    /\ write_notify' = write_notify \ {t}
    /\ UNCHANGED <<ring, closing, call, ret>>

Discard ==
    /\ close_err = None
    /\ \E n \in 0 .. Smaller(Count, Capacity) : Pop(n)
    /\ UNCHANGED <<closing, call, write_notify, ret>>

\* reset, which wakes nobody: it only removes elements.
Reset == Clear /\ UNCHANGED <<closing, call, write_notify, ret>>

\* Not the code: closing wakes one reader.
CloseWriteWakesOne ==
    /\ ~close_write
    /\ close_write' = TRUE
    /\ write_notify' \in NotifyOne(write_notify)
    /\ UNCHANGED <<ring, close_err, call, ret>>

CloseWrite ==
    /\ ~close_write
    /\ close_write' = TRUE
    /\ write_notify' = {}
    /\ UNCHANGED <<ring, close_err, call, ret>>

\* Not the code: the elements survive the error.
CloseWithErrorKeeps ==
    /\ close_err = None
    /\ close_err' \in Error
    /\ close_write' = TRUE
    /\ write_notify' = {}
    /\ UNCHANGED <<ring, call, ret>>

CloseWithError ==
    /\ close_err = None
    /\ close_err' \in Error
    /\ Clear
    /\ close_write' = TRUE
    /\ write_notify' = {}
    /\ UNCHANGED <<call, ret>>

Next ==
    \/ \E t \in Thread : \/ Write(t) \/ Add(t) \/ Read(t) \/ NextItem(t)
                         \/ Resume(t) \/ SpuriousWakeup(t)
    \/ Discard \/ Reset \/ CloseWrite \/ CloseWithError

Spec == Init /\ [][Next]_vars

\* A notified thread eventually gets the mutex back.
FairSpec == Spec /\ \A t \in Thread : WF_vars(Resume(t))

-----------------------------------------------------------------------------
(* Properties.                                                             *)

\* The types of the state of a RingBuffer and of its callers.
TypeOK ==
    /\ buf \in [Slot -> Value \cup {None}]
    /\ head \in Counter /\ tail \in Counter
    /\ close_write \in BOOLEAN /\ close_err \in Error \cup {None}
    /\ call \in [Thread -> [op : {"idle", "read", "next"}, len : Nat]]
    /\ write_notify \subseteq Thread
    /\ ret \in [tag : {"none", "ok", "closed", "failed", "done"}, n : Nat, got : Seq(Value)]

\* "This maintains the invariant that tail.wrapping_sub(head) <= capacity at all
\* times" (the comment in write), and the counters, wrapping or not, name
\* distinct, filled slots: an empty one would make the take().unwrap() of read
\* and next panic, a shared one would lose an element.
WindowOK ==
    /\ Count <= Capacity
    /\ \A s \in Slot : buf[s] # None <=>
         \E k \in 0 .. Count - 1 : Index(WrappingAdd(head, k)) = s
    /\ \A j, k \in 0 .. Count - 1 :
         j # k => Index(WrappingAdd(head, j)) # Index(WrappingAdd(head, k))

Stranded(t) == close_write /\ call[t] # Idle
Returned(t) == call[t] = Idle

\* Closing unblocks every reader.
CloseUnblocks == \A t \in Thread : Stranded(t) ~> Returned(t)

\* The buffer is the ClosableQueue that overwrites: whatever the reads, discards,
\* resets and wraps in between, it holds the newest elements in order.
Queue == INSTANCE ClosableQueue
    WITH queue <- Window(Count), closed <- close_write, err <- close_err,
         pending <- [t \in Thread |-> [data |-> << >>, done |-> 0]],
         Batch <- WriteData \cup Singles, Policy <- "overwrite"

QueueSpec == Queue!Spec
-----------------------------------------------------------------------------
(* Remainders.                                                             *)

\* Dividing with remainder.
LEMMA DivLaw ==
    ASSUME NEW m \in Nat \ {0}, NEW a \in Int
    PROVE  /\ (a % m) \in 0 .. m - 1 /\ (a \div m) \in Int
           /\ a = m * (a \div m) + (a % m)
<1>1. a = m * (a \div m) + (a % m)
  OBVIOUS
<1>2. (a % m) \in 0 .. m - 1
  OBVIOUS
<1>3. (a \div m) \in Int
  OBVIOUS
<1>. QED  BY <1>1, <1>2, <1>3

\* The remainder is determined.
LEMMA DivUnique ==
    ASSUME NEW m \in Nat \ {0}, NEW q \in Int, NEW r \in 0 .. m - 1
    PROVE  ((m * q + r) % m) = r
OBVIOUS

\* Multiples of the divisor do not matter.
LEMMA ModShift ==
    ASSUME NEW m \in Nat \ {0}, NEW q \in Int, NEW a \in Int
    PROVE  ((a + m * q) % m) = (a % m)
<1>. DEFINE p == a \div m
            r == a % m
<1>1. r \in 0 .. m - 1 /\ p \in Int /\ a = m * p + r
  BY DivLaw
<1>. HIDE DEF p, r
<1>2. m * (p + q) = m * p + m * q /\ m * p \in Int /\ m * q \in Int
  BY <1>1
<1>3. a + m * q = m * (p + q) + r
  BY <1>1, <1>2
<1>4. p + q \in Int
  BY <1>1
<1>5. ((m * (p + q) + r) % m) = r
  BY <1>1, <1>4, DivUnique
<1>. QED  BY <1>3, <1>5 DEF r

\* Taking the remainder on the way to a remainder changes nothing.
LEMMA ModAdd ==
    ASSUME NEW m \in Nat \ {0}, NEW a \in Int, NEW b \in Int
    PROVE  (((a % m) + b) % m) = ((a + b) % m)
<1>. DEFINE p == a \div m
            r == a % m
<1>1. r \in 0 .. m - 1 /\ p \in Int /\ a = m * p + r
  BY DivLaw
<1>. HIDE DEF p, r
<1>2. m * p \in Int
  BY <1>1
<1>3. a + b = (r + b) + m * p /\ r + b \in Int
  BY <1>1, <1>2
<1>4. (((r + b) + m * p) % m) = ((r + b) % m)
  BY <1>1, <1>3, ModShift
<1>. QED  BY <1>3, <1>4 DEF r

\* The same for a difference.
LEMMA ModSub ==
    ASSUME NEW m \in Nat \ {0}, NEW a \in Int, NEW b \in Int
    PROVE  (((a % m) - (b % m)) % m) = ((a - b) % m)
<1>. DEFINE p == a \div m
            r == a % m
            q == b \div m
            s == b % m
<1>1. r \in 0 .. m - 1 /\ p \in Int /\ a = m * p + r /\ s \in 0 .. m - 1 /\ q \in Int /\ b = m * q + s
  BY DivLaw
<1>. HIDE DEF p, q, r, s
<1>2. m * (p - q) = m * p - m * q /\ m * p \in Int /\ m * q \in Int /\ p - q \in Int
  BY <1>1
<1>3. a - b = (r - s) + m * (p - q) /\ r - s \in Int
  BY <1>1, <1>2
<1>4. (((r - s) + m * (p - q)) % m) = ((r - s) % m)
  BY <1>2, <1>3, ModShift
<1>. QED  BY <1>3, <1>4 DEF r, s

\* ... and by a multiple of the divisor.
LEMMA ModNested ==
    ASSUME NEW m \in Nat \ {0}, NEW k \in Nat \ {0}, NEW a \in Int
    PROVE  ((a % (m * k)) % m) = (a % m)
<1>. DEFINE n == m * k
<1>1. n \in Nat \ {0}
  OBVIOUS
<1>. DEFINE p == a \div n
            r == a % n
<1>2. r \in 0 .. n - 1 /\ p \in Int /\ a = n * p + r
  <2>. HIDE DEF n
  <2>. QED  BY <1>1, DivLaw
<1>. HIDE DEF p, r
<1>3. n * p = m * (k * p) /\ k * p \in Int /\ r \in Int
  BY <1>1, <1>2
<1>4. a = r + m * (k * p)
  <2>. HIDE DEF n
  <2>. QED  BY <1>1, <1>2, <1>3
<1>5. ((r + m * (k * p)) % m) = (r % m)
  BY <1>3, ModShift
<1>. QED  BY <1>4, <1>5 DEF r

\* Numbers with the same remainder lie at least the divisor apart.
LEMMA ModApart ==
    ASSUME NEW m \in Nat \ {0}, NEW a \in Int, NEW b \in Int, a < b, (a % m) = (b % m)
    PROVE  a + m <= b
<1>. DEFINE p == a \div m
            q == b \div m
            r == a % m
<1>1. r \in 0 .. m - 1 /\ p \in Int /\ a = m * p + r /\ q \in Int /\ b = m * q + r
  BY DivLaw
<1>. HIDE DEF p, q, r
<1>2. q >= p + 1
  BY <1>1
<1>3. m * q >= m * (p + 1) /\ m * (p + 1) = m * p + m /\ m * p \in Int /\ m * q \in Int
  BY <1>1, <1>2
<1>. QED  BY <1>1, <1>3
-----------------------------------------------------------------------------
(* Counters and slots.                                                     *)

\* The slot i places after counter h.
At(h, i) == (h + i) % Capacity

\* Adding to a counter twice is adding once, and distances survive the wrap.
LEMMA CounterAdd ==
    ASSUME RingAssumption, NEW h \in Counter, NEW i \in Nat, NEW j \in Nat
    PROVE  /\ WrappingAdd(h, i) \in Counter
           /\ WrappingAdd(WrappingAdd(h, i), j) = WrappingAdd(h, i + j)
           /\ i - j \in 0 .. CounterMod - 1 =>
                WrappingSub(WrappingAdd(h, i), WrappingAdd(h, j)) = i - j
<1>0. CounterMod \in Nat \ {0} /\ h \in Int /\ h + i \in Int /\ h + j \in Int /\ i \in Int /\ j \in Int
  BY DEF RingAssumption, Counter
<1>1. ((h + i) % CounterMod) \in 0 .. CounterMod - 1
  BY <1>0, DivLaw
<1>2. ((((h + i) % CounterMod) + j) % CounterMod) = (((h + i) + j) % CounterMod)
  BY <1>0, ModAdd
<1>3. (h + i) + j = h + (i + j) /\ (h + i) - (h + j) = i - j
  BY <1>0
<1>4. ((((h + i) % CounterMod) - ((h + j) % CounterMod)) % CounterMod) = (((h + i) - (h + j)) % CounterMod)
  BY <1>0, ModSub
<1>5. ASSUME i - j \in 0 .. CounterMod - 1 PROVE ((i - j) % CounterMod) = i - j
  BY <1>0, <1>5
<1>. QED  BY <1>1, <1>2, <1>3, <1>4, <1>5 DEF WrappingAdd, WrappingSub, Counter

\* tail is Count after head.
LEMMA CountReaches ==
    ASSUME RingAssumption, NEW h \in Counter, NEW t \in Counter
    PROVE  /\ WrappingSub(t, h) \in Counter
           /\ WrappingAdd(h, WrappingSub(t, h)) = t
           /\ WrappingSub(t, h) = 0 <=> h = t
<1>0. CounterMod \in Nat \ {0} /\ h \in Int /\ t \in Int /\ t - h \in Int
  BY DEF RingAssumption, Counter
<1>1. ((t - h) % CounterMod) \in 0 .. CounterMod - 1
  BY <1>0, DivLaw
<1>2. ((((t - h) % CounterMod) + h) % CounterMod) = (((t - h) + h) % CounterMod)
  BY <1>0, ModAdd
<1>3. (t - h) + h = t /\ (t % CounterMod) = t
  BY <1>0 DEF Counter
<1>4. h + ((t - h) % CounterMod) = ((t - h) % CounterMod) + h
  BY <1>0, <1>1
<1>5. ((t - h) % CounterMod) = 0 => h = t
  <2>1. ASSUME ((t - h) % CounterMod) = 0 PROVE h = t
    <3>1. (h % CounterMod) = t /\ (h % CounterMod) = h
      BY <1>0, <1>2, <1>3, <2>1 DEF Counter
    <3>. QED  BY <3>1
  <2>. QED  BY <2>1
<1>6. h = t => ((t - h) % CounterMod) = 0
  BY <1>0
<1>. QED  BY <1>1, <1>2, <1>3, <1>4, <1>5, <1>6 DEF WrappingAdd, WrappingSub, Counter

\* Every place is one of the slots.
LEMMA AtSlot ==
    ASSUME RingAssumption, NEW h \in Counter, NEW i \in Nat
    PROVE  At(h, i) \in Slot
<1>0. Capacity \in Nat \ {0} /\ h + i \in Int
  BY DEF RingAssumption, Counter
<1>. QED  BY <1>0, DivLaw DEF At, Slot

\* The slot of a counter in reach: beyond the wrap when it is aligned, before it
\* otherwise.
LEMMA CounterSlot ==
    ASSUME RingAssumption, NEW h \in Counter, NEW i \in Nat, InReach(h, i)
    PROVE  Index(WrappingAdd(h, i)) = At(h, i) /\ At(h, i) \in Slot
<1>0. /\ Capacity \in Nat \ {0} /\ CounterMod \in Nat /\ Capacity < CounterMod
      /\ h + i \in Int /\ h + i \in Nat
  BY DEF RingAssumption, Counter
<1>1. CASE Aligned
  <2>. DEFINE k == CounterMod \div Capacity
  <2>1. k \in Int /\ CounterMod = Capacity * k + (CounterMod % Capacity)
    BY <1>0, DivLaw
  <2>. HIDE DEF k
  <2>2. Capacity * k \in Int /\ CounterMod = Capacity * k
    BY <1>0, <1>1, <2>1 DEF Aligned
  <2>3. k \in Nat \ {0}
    BY <1>0, <2>1, <2>2
  <2>4. (((h + i) % (Capacity * k)) % Capacity) = ((h + i) % Capacity)
    BY <1>0, <2>3, ModNested
  <2>. QED  BY <2>2, <2>4, AtSlot DEF Index, WrappingAdd, At
<1>2. CASE h + i < CounterMod
  <2>1. ((h + i) % CounterMod) = h + i
    BY <1>0, <1>2
  <2>. QED  BY <2>1, AtSlot DEF Index, WrappingAdd, At
<1>. QED  BY <1>1, <1>2 DEF InReach

\* What is in reach stays so from a counter in between.
LEMMA ReachMoves ==
    ASSUME RingAssumption, NEW h \in Counter, NEW m \in Nat, NEW n \in 0 .. m, InReach(h, m)
    PROVE  InReach(h, n) /\ InReach(WrappingAdd(h, n), m - n)
<1>0. CounterMod \in Nat /\ h \in Nat /\ n \in Nat /\ n <= m
  BY DEF RingAssumption, Counter
<1>1. CASE Aligned
  BY <1>1 DEF InReach
<1>2. CASE ~Aligned
  <2>1. h + m < CounterMod
    BY <1>2 DEF InReach
  <2>2. h + n < CounterMod /\ (h + n) + (m - n) < CounterMod /\ h + n \in Nat
    BY <1>0, <2>1
  <2>3. WrappingAdd(h, n) = h + n
    BY <1>0, <2>2 DEF WrappingAdd
  <2>. QED  BY <2>2, <2>3 DEF InReach
<1>. QED  BY <1>1, <1>2

\* Slots met within one turn differ, and one turn meets every slot.
LEMMA OneTurn ==
    ASSUME RingAssumption, NEW h \in Int
    PROVE  /\ \A i, j \in Int : i < j /\ At(h, i) = At(h, j) => i + Capacity <= j
           /\ \A i \in Int, s \in Slot : \E j \in i .. i + Capacity - 1 : At(h, j) = s
<1>0. Capacity \in Nat \ {0}
  BY DEF RingAssumption
<1>1. ASSUME NEW i \in Int, NEW j \in Int, i < j, At(h, i) = At(h, j) PROVE i + Capacity <= j
  <2>1. h + i \in Int /\ h + j \in Int /\ h + i < h + j
    BY <1>1
  <2>2. (h + i) + Capacity <= h + j
    BY <1>0, <1>1, <2>1, ModApart DEF At
  <2>. QED  BY <1>0, <1>1, <2>2
<1>2. ASSUME NEW i \in Int, NEW s \in Slot PROVE \E j \in i .. i + Capacity - 1 : At(h, j) = s
  <2>. DEFINE r == (s - (h + i)) % Capacity
  <2>1. s \in Int /\ s - (h + i) \in Int /\ h + i \in Int /\ (s % Capacity) = s
    BY <1>0 DEF Slot
  <2>2. r \in 0 .. Capacity - 1
    BY <1>0, <2>1, DivLaw
  <2>3. ((r + (h + i)) % Capacity) = (((s - (h + i)) + (h + i)) % Capacity)
    BY <1>0, <2>1, ModAdd
  <2>. HIDE DEF r
  <2>4. (s - (h + i)) + (h + i) = s /\ r + (h + i) = h + (i + r) /\ i + r \in i .. i + Capacity - 1
    BY <1>0, <2>1, <2>2
  <2>5. At(h, i + r) = s
    BY <2>1, <2>3, <2>4 DEF At
  <2>. QED  BY <2>4, <2>5
<1>. QED  BY <1>1, <1>2

-----------------------------------------------------------------------------
(* The operations on the ring.                                             *)

\* The ring of a state, in terms of slots: n elements from head on.
RingType ==
    /\ buf \in [Slot -> Value \cup {None}]
    /\ head \in Counter /\ tail \in Counter
WindowAt ==
    /\ Count \in 0 .. Capacity
    /\ \A s \in Slot : buf[s] # None <=> \E k \in 0 .. Count - 1 : At(head, k) = s
    /\ InReach(head, Count)

\* The window in terms of counters, as the property states it.
LEMMA WindowSlots ==
    ASSUME RingAssumption, RingType, WindowAt
    PROVE  WindowOK
<1>0. /\ Capacity \in Nat \ {0} /\ head \in Int /\ Count \in Counter /\ Counter \subseteq Nat /\ Count \in Nat
  BY CountReaches DEF RingAssumption, Counter, RingType, Count
<1>1. ASSUME NEW k \in 0 .. Count - 1 PROVE Index(WrappingAdd(head, k)) = At(head, k)
  <2>1. k \in Nat /\ k \in 0 .. Count
    BY <1>0
  <2>2. InReach(head, k)
    BY <1>0, <2>1, ReachMoves DEF RingType, WindowAt
  <2>. QED  BY <2>1, <2>2, CounterSlot DEF RingType
<1>2. ASSUME Count <= Capacity, NEW j \in 0 .. Count - 1, NEW k \in 0 .. Count - 1, At(head, j) = At(head, k)
      PROVE  j = k
  <2>1. j \in Int /\ k \in Int /\ ~(j + Capacity <= k) /\ ~(k + Capacity <= j)
    BY <1>0, <1>2
  <2>2. ~(j < k) /\ ~(k < j)
    BY <1>0, <1>2, <2>1, OneTurn
  <2>. QED  BY <2>1, <2>2
<1>. QED  BY <1>0, <1>1, <1>2 DEF WindowOK, WindowAt

\* After n places head has reached the slot of its (n + i)th element.
LEMMA HeadMoves ==
    ASSUME RingAssumption, NEW h \in Counter, NEW n \in Nat, NEW i \in Nat, InReach(h, n)
    PROVE  At(WrappingAdd(h, n), i) = At(h, n + i)
<1>0. /\ Capacity \in Nat \ {0} /\ h \in Nat /\ WrappingAdd(h, n) \in Counter /\ CounterMod \in Nat
      /\ WrappingAdd(h, n) \in Int
  BY CounterAdd DEF RingAssumption, Counter
<1>1. (WrappingAdd(h, n) % Capacity) = ((h + n) % Capacity)
  BY CounterSlot DEF Index, At
<1>. DEFINE w == WrappingAdd(h, n)
            v == h + n
<1>2. w \in Int /\ v \in Int /\ i \in Int /\ v + i = h + (n + i) /\ (w % Capacity) = (v % Capacity)
  BY <1>0, <1>1
<1>. HIDE DEF w, v
<1>3. (((w % Capacity) + i) % Capacity) = ((w + i) % Capacity)
  BY <1>0, <1>2, ModAdd
<1>4. (((v % Capacity) + i) % Capacity) = ((v + i) % Capacity)
  BY <1>0, <1>2, ModAdd
<1>. QED  BY <1>2, <1>3, <1>4 DEF At, w

\* Taking the n oldest elements: the window shrinks from its front, the rest stays.
LEMMA PopWindow ==
    ASSUME RingAssumption, RingType, WindowAt, NEW n \in 0 .. Count, Pop(n)
    PROVE  /\ RingType' /\ WindowAt' /\ Count' = Count - n
           /\ head' = WrappingAdd(head, n)
           /\ \A i \in 0 .. Count - n - 1 : buf'[At(head, n + i)] = buf[At(head, n + i)]
<1>0. /\ Capacity \in Nat \ {0} /\ Count \in 0 .. Capacity /\ Count \in Nat /\ n \in Nat /\ n <= Count
      /\ Capacity < CounterMod /\ CounterMod \in Nat /\ head \in Counter /\ head \in Int
  BY DEF RingAssumption, WindowAt, RingType, Counter
<1>1. /\ head' = WrappingAdd(head, n) /\ head' \in Counter /\ tail' = tail /\ tail = WrappingAdd(head, Count)
  BY <1>0, CounterAdd, CountReaches DEF Pop, RingType, Count
<1>2. Count' = Count - n
  <2>1. Count - n \in 0 .. CounterMod - 1
    BY <1>0
  <2>2. WrappingSub(WrappingAdd(head, Count), WrappingAdd(head, n)) = Count - n
    BY <1>0, <2>1, CounterAdd
  <2>. QED  BY <1>1, <2>2 DEF Count
<1>r. InReach(head, n) /\ InReach(head', Count')
  <2>1. InReach(head, Count)
    BY DEF WindowAt
  <2>. QED  BY <1>0, <1>1, <1>2, <2>1, ReachMoves
<1>3. ASSUME NEW k \in 0 .. Count PROVE Index(WrappingAdd(head, k)) = At(head, k) /\ At(head, k) \in Slot
  <2>1. k \in Nat /\ InReach(head, Count)
    BY <1>0 DEF WindowAt
  <2>2. InReach(head, k)
    BY <1>0, <2>1, ReachMoves
  <2>. QED  BY <1>0, <2>1, <2>2, CounterSlot
<1>4. /\ buf' \in [Slot -> Value \cup {None}]
      /\ \A s \in Slot : buf'[s] = IF \E k \in 0 .. n - 1 : At(head, k) = s THEN None ELSE buf[s]
  BY <1>0, <1>3 DEF Pop, RingType
<1>5. ASSUME NEW j \in 0 .. Count - 1, NEW k \in 0 .. Count - 1, j < k PROVE At(head, j) # At(head, k)
  <2>1. j \in Int /\ k \in Int /\ ~(j + Capacity <= k)
    BY <1>0
  <2>. QED  BY <1>0, <1>5, <2>1, OneTurn
<1>6. ASSUME NEW i \in 0 .. Count - n - 1
      PROVE  buf'[At(head, n + i)] = buf[At(head, n + i)] /\ At(head', i) = At(head, n + i) /\ At(head, n + i) \in Slot
  <2>1. n + i \in 0 .. Count - 1 /\ n + i \in 0 .. Count /\ i \in Nat /\ \A k \in 0 .. n - 1 : k < n + i /\ k \in 0 .. Count - 1
    BY <1>0
  <2>2. At(head', i) = At(head, n + i)
    BY <1>0, <1>1, <1>r, <2>1, HeadMoves
  <2>3. \A k \in 0 .. n - 1 : At(head, k) # At(head, n + i)
    BY <1>5, <2>1
  <2>. QED  BY <1>3, <1>4, <2>1, <2>2, <2>3
<1>7. ASSUME NEW s \in Slot PROVE buf'[s] # None <=> \E i \in 0 .. Count - n - 1 : At(head', i) = s
  <2>1. ASSUME NEW i \in 0 .. Count - n - 1, At(head', i) = s PROVE buf'[s] # None
    <3>1. n + i \in 0 .. Count - 1
      BY <1>0
    <3>. QED  BY <1>6, <2>1, <3>1 DEF WindowAt
  <2>2. ASSUME buf'[s] # None PROVE \E i \in 0 .. Count - n - 1 : At(head', i) = s
    <3>1. buf[s] # None /\ ~\E k \in 0 .. n - 1 : At(head, k) = s
      BY <1>4, <2>2
    <3>2. PICK k \in 0 .. Count - 1 : At(head, k) = s
      BY <3>1 DEF WindowAt
    <3>3. k - n \in 0 .. Count - n - 1 /\ n + (k - n) = k
      BY <1>0, <3>1, <3>2
    <3>. QED  BY <1>6, <3>2, <3>3
  <2>. QED  BY <2>1, <2>2
<1>8. Count' \in 0 .. Capacity /\ tail' \in Counter
  BY <1>0, <1>1, <1>2 DEF RingType
<1>9. InReach(head, Count)'
  BY <1>r DEF InReach, Aligned
<1>10. \A s \in Slot : buf'[s] # None <=> \E i \in 0 .. Count' - 1 : At(head', i) = s
  BY <1>2, <1>7
<1>. QED  BY <1>1, <1>2, <1>4, <1>6, <1>8, <1>9, <1>10 DEF RingType, WindowAt, At

\* Resetting empties the window.
LEMMA ClearWindow ==
    ASSUME RingAssumption, Clear
    PROVE  RingType' /\ WindowAt' /\ Count' = 0
<1>1. Count' = 0
  BY DEF RingAssumption, Clear, Count, WrappingSub
<1>2. InReach(head, Count)'
  BY <1>1 DEF RingAssumption, Clear, InReach
<1>. QED  BY <1>1, <1>2 DEF RingAssumption, RingType, WindowAt, Clear, Counter, Slot

\* The greatest of a set of numbers, the way the loop of write chooses it.
Greatest(S) == CHOOSE k \in S : \A j \in S : j <= k

\* A greatest element is the greatest.
LEMMA GreatestIs ==
    ASSUME NEW S \in SUBSET Int, NEW m \in S, \A j \in S : j <= m
    PROVE  Greatest(S) = m
<1>1. Greatest(S) \in S /\ \A j \in S : j <= Greatest(S)
  BY DEF Greatest
<1>2. Greatest(S) \in Int /\ m \in Int /\ Greatest(S) <= m /\ m <= Greatest(S)
  BY <1>1
<1>. QED  BY <1>2

\* The last of l elements, stored from counter t on, to reach slot s.
LEMMA LastHit ==
    ASSUME RingAssumption, NEW t \in Int, NEW l \in Nat, NEW s \in Slot,
           NEW H, H = {k \in 0 .. l - 1 : At(t, k) = s}, H # {}
    PROVE  /\ Greatest(H) \in H
           /\ \A i \in H : i + Capacity >= l => Greatest(H) = i
<1>0. Capacity \in Nat \ {0} /\ l - Capacity \in Int /\ H \in SUBSET Int
  BY DEF RingAssumption
<1>1. PICK k \in (l - Capacity) .. (l - Capacity) + Capacity - 1 : At(t, k) = s
  BY <1>0, OneTurn
<1>2. k \in Int /\ k < l /\ k + Capacity >= l
  BY <1>0
<1>3. ASSUME NEW i \in Int, i + Capacity >= l, i < l, At(t, i) = s, NEW j \in H PROVE j <= i
  <2>1. j \in Int /\ j < l /\ At(t, j) = s
    BY <1>3
  <2>2. i < j => i + Capacity <= j
    BY <1>3, <2>1, OneTurn
  <2>. QED  BY <1>0, <1>3, <2>1, <2>2
<1>4. \A j \in H : j <= k
  BY <1>1, <1>2, <1>3
<1>5. k \in H
  BY <1>1, <1>2, <1>4
<1>6. Greatest(H) \in H
  BY <1>0, <1>4, <1>5, GreatestIs
<1>7. ASSUME NEW i \in H, i + Capacity >= l PROVE Greatest(H) = i
  <2>1. i \in Int /\ i < l /\ At(t, i) = s
    BY <1>7
  <2>2. \A j \in H : j <= i
    BY <1>3, <1>7, <2>1
  <2>. QED  BY <1>0, <2>2, GreatestIs
<1>. QED  BY <1>6, <1>7

\* How far head moves when l elements come behind n.
Excess(n, l) == IF n + l > Capacity THEN n + l - Capacity ELSE 0

\* The loop of write, also for batches longer than the buffer: what is left is the
\* window after the Excess oldest elements, old ones first and then the new ones.
LEMMA OverwriteWindow ==
    ASSUME RingAssumption, RingType, WindowAt, NEW d \in Seq(Value), Overwrite(d),
           InReach(tail, Len(d)), NEW e, e = Excess(Count, Len(d))
    PROVE  /\ RingType' /\ WindowAt' /\ Count' = Count + Len(d) - e
           /\ e \in Nat /\ InReach(head, e) /\ head' = WrappingAdd(head, e)
           /\ \A i \in 0 .. Count + Len(d) - e - 1 :
                buf'[At(head, e + i)] = IF e + i < Count THEN buf[At(head, e + i)]
                                                         ELSE d[(e + i) - Count + 1]
<1>. DEFINE l == Len(d)
            H(s) == {k \in 0 .. l - 1 : Index(WrappingAdd(tail, k)) = s}
            F(s) == Greatest(H(s))
<1>0. /\ Capacity \in Nat \ {0} /\ Count \in 0 .. Capacity /\ Count \in Nat /\ l \in Nat
      /\ Capacity < CounterMod /\ CounterMod \in Nat /\ head \in Counter /\ head \in Int
      /\ tail \in Counter /\ tail \in Int
  BY DEF RingAssumption, WindowAt, RingType, Counter
<1>1. e \in Nat /\ Count + l - e \in 0 .. Capacity /\ e <= Count + l /\ (e = 0 \/ Count + l - e = Capacity)
  BY <1>0 DEF Excess
<1>2. /\ head' = WrappingAdd(head, e) /\ head' \in Counter
      /\ tail = WrappingAdd(head, Count)
      /\ tail' = WrappingAdd(head, Count + l) /\ tail' \in Counter
  <2>1. WrappingAdd(head, 0) = head
    BY <1>0 DEF WrappingAdd, Counter
  <2>2. head' = IF Count + l - Capacity > 0 THEN WrappingAdd(head, Count + l - Capacity) ELSE head
    BY DEF Overwrite
  <2>3. head' = WrappingAdd(head, e)
    BY <1>0, <2>1, <2>2 DEF Excess
  <2>4. tail = WrappingAdd(head, Count) /\ tail' = WrappingAdd(tail, l)
    BY <1>0, CountReaches DEF Overwrite, Count
  <2>5. tail' = WrappingAdd(head, Count + l) /\ tail' \in Counter /\ head' \in Counter
    BY <1>0, <1>1, <2>3, <2>4, CounterAdd
  <2>. QED  BY <2>3, <2>4, <2>5
<1>3. Count' = Count + l - e
  <2>1. Count + l \in Nat /\ (Count + l) - e \in 0 .. CounterMod - 1
    BY <1>0, <1>1
  <2>2. WrappingSub(WrappingAdd(head, Count + l), WrappingAdd(head, e)) = (Count + l) - e
    BY <1>0, <1>1, <2>1, CounterAdd
  <2>3. Count' = WrappingSub(tail', head')
    BY DEF Count
  <2>. QED  BY <1>0, <1>1, <1>2, <2>2, <2>3
<1>r. InReach(head, Count) /\ InReach(head, e) /\ InReach(head, Count)'
  <2>1. InReach(head, Count + l)
    <3>1. CASE Aligned
      BY <3>1 DEF InReach
    <3>2. CASE ~Aligned
      <4>1. head + Count < CounterMod /\ tail + l < CounterMod
        BY <3>2 DEF InReach, WindowAt
      <4>2. tail = head + Count
        <5>1. tail = (head + Count) % CounterMod
          BY <1>2 DEF WrappingAdd
        <5>2. head + Count \in Nat
          BY <1>0 DEF Counter
        <5>. HIDE DEF l
        <5>. QED  BY <1>0, <4>1, <5>1, <5>2
      <4>3. head + (Count + l) < CounterMod
        <5>. HIDE DEF l
        <5>. QED  BY <1>0, <4>1, <4>2
      <4>. QED  BY <4>3 DEF InReach
    <3>. QED  BY <3>1, <3>2
  <2>2. Count + l \in Nat /\ e \in 0 .. Count + l
    <3>. HIDE DEF l
    <3>. QED  BY <1>0, <1>1
  <2>3. InReach(head, e) /\ InReach(WrappingAdd(head, e), Count + l - e)
    <3>. HIDE DEF l
    <3>. QED  BY <1>0, <1>1, <2>1, <2>2, ReachMoves
  <2>4. InReach(head, Count)'
    BY <1>2, <1>3, <2>3 DEF InReach, Aligned
  <2>. QED  BY <2>3, <2>4 DEF WindowAt
<1>4. ASSUME NEW k \in Nat PROVE At(tail, k) = At(head, Count + k)
  BY <1>0, <1>2, <1>r, HeadMoves
<1>5. \A s \in Slot : buf'[s] = IF H(s) = {} THEN buf[s] ELSE d[F(s) + 1]
  BY DEF Overwrite, Greatest
<1>h. ASSUME NEW s PROVE H(s) = {k \in 0 .. l - 1 : At(tail, k) = s}
  <2>1. ASSUME NEW k \in 0 .. l - 1 PROVE Index(WrappingAdd(tail, k)) = At(tail, k)
    <3>1. k \in Nat /\ k \in 0 .. l
      <4>. HIDE DEF l
      <4>. QED  BY <1>0
    <3>2. InReach(tail, k)
      BY <1>0, <3>1, ReachMoves
    <3>. QED  BY <1>0, <3>1, <3>2, CounterSlot
  <2>. QED  BY <2>1
<1>. HIDE DEF H
<1>6. ASSUME NEW s \in Slot, H(s) # {} 
      PROVE  /\ F(s) \in H(s) /\ d[F(s) + 1] \in Value
             /\ \A k \in H(s) : k + Capacity >= l => F(s) = k
  <2>1. F(s) \in H(s) /\ \A k \in H(s) : k + Capacity >= l => F(s) = k
    BY <1>0, <1>6, <1>h, LastHit
  <2>. HIDE DEF F
  <2>2. F(s) + 1 \in 1 .. Len(d)
    <3>1. F(s) \in 0 .. Len(d) - 1
      BY <1>h, <2>1
    <3>. QED  BY <1>0, <3>1
  <2>. QED  BY <2>1, <2>2
<1>7. buf' \in [Slot -> Value \cup {None}]
  <2>1. \A s \in Slot : buf'[s] \in Value \cup {None}
    BY <1>5, <1>6 DEF RingType
  <2>2. buf' = [s \in Slot |-> buf'[s]]
    BY DEF Overwrite
  <2>. QED  BY <2>1, <2>2
<1>. HIDE DEF F
<1>8. ASSUME NEW i \in 0 .. Count + l - e - 1
      PROVE  /\ At(head, e + i) \in Slot /\ At(head', i) = At(head, e + i)
             /\ buf'[At(head, e + i)] = IF e + i < Count THEN buf[At(head, e + i)]
                                                         ELSE d[(e + i) - Count + 1]
  <2>. DEFINE s == At(head, e + i)
  <2>0. i \in Nat /\ e + i \in Nat /\ e + i \in Int /\ e + i < Count + l /\ e + i + Capacity >= Count + l
    BY <1>0, <1>1, SMTT(30)
  <2>1. s \in Slot /\ At(head', i) = s
    BY <1>0, <1>1, <1>2, <1>r, <2>0, AtSlot, HeadMoves, SMTT(30)
  <2>2. CASE e + i < Count
    <3>1. ASSUME NEW k \in H(s) PROVE FALSE
      <4>1. k \in Nat /\ k < l /\ At(head, Count + k) = s /\ Count + k \in Int /\ e + i < Count + k
        <5>1. k \in 0 .. l - 1 /\ At(tail, k) = s
          BY <1>h
        <5>2. k \in Nat /\ k < l /\ Count + k \in Int /\ e + i < Count + k
          BY <1>0, <2>0, <2>2, <5>1
        <5>. QED  BY <1>4, <5>1, <5>2
      <4>2. (e + i) + Capacity <= Count + k
        BY <1>0, <2>0, <4>1, OneTurn
      <4>. QED  BY <1>0, <2>0, <4>1, <4>2
    <3>2. H(s) = {}
      BY <3>1
    <3>. QED  BY <1>5, <2>1, <2>2, <3>2
  <2>3. CASE e + i >= Count
    <3>. DEFINE k == (e + i) - Count
    <3>1. k \in 0 .. l - 1 /\ k \in Nat /\ Count + k = e + i /\ k + Capacity >= l
      <4>. DEFINE x == e + i
      <4>1. x \in Nat /\ x < Count + l /\ x + Capacity >= Count + l /\ x >= Count
        BY <2>0, <2>3
      <4>. HIDE DEF x, l
      <4>2. x - Count \in 0 .. l - 1 /\ x - Count \in Nat /\ Count + (x - Count) = x /\ (x - Count) + Capacity >= l
        BY <1>0, <4>1
      <4>. QED  BY <4>2 DEF x
    <3>. HIDE DEF k
    <3>2. k \in H(s)
      BY <1>4, <1>h, <3>1
    <3>3. F(s) = k
      BY <1>6, <2>1, <3>1, <3>2
    <3>4. ~(e + i < Count) /\ k = (e + i) - Count
      BY <1>0, <2>0, <2>3 DEF k
    <3>5. buf'[s] = d[k + 1]
      BY <1>5, <2>1, <3>2, <3>3
    <3>. QED  BY <2>1, <3>4, <3>5
  <2>. QED  BY <2>0, <2>1, <2>2, <2>3, <1>0
<1>9. ASSUME NEW s \in Slot PROVE buf'[s] # None <=> \E i \in 0 .. Count + l - e - 1 : At(head', i) = s
  <2>1. ASSUME NEW i \in 0 .. Count + l - e - 1, At(head', i) = s PROVE buf'[s] # None
    <3>1. CASE e + i < Count
      <4>1. e + i \in 0 .. Count - 1
        BY <1>0, <1>1, <3>1, SMTT(30)
      <4>. QED  BY <1>8, <2>1, <3>1, <4>1 DEF WindowAt
    <3>2. CASE ~(e + i < Count)
      <4>1. (e + i) - Count + 1 \in 1 .. Len(d)
        <5>1. e \in Int /\ i \in Int /\ Count \in Int /\ Len(d) \in Int /\ i <= Count + Len(d) - e - 1
          BY <1>0, <1>1
        <5>. QED  BY <5>1, <3>2
      <4>. QED  BY <1>8, <2>1, <3>2, <4>1 DEF RingAssumption
    <3>. QED  BY <3>1, <3>2
  <2>2. ASSUME buf'[s] # None PROVE \E i \in 0 .. Count + l - e - 1 : At(head', i) = s
    <3>1. PICK j \in Int : j \in 0 .. Count + l - 1 /\ At(head, j) = s
      <4>1. CASE H(s) = {}
        <5>1. PICK j \in 0 .. Count - 1 : At(head, j) = s
          BY <1>5, <2>2, <4>1 DEF WindowAt
        <5>. QED  BY <1>0, <5>1
      <4>2. CASE H(s) # {}
        <5>1. PICK k \in H(s) : TRUE
          BY <4>2
        <5>2. k \in Nat /\ Count + k \in 0 .. Count + l - 1 /\ Count + k \in Int
          BY <1>0, <1>h, <5>1
        <5>. QED  BY <1>4, <1>h, <5>1, <5>2
      <4>. QED  BY <4>1, <4>2
    <3>2. CASE e = 0
      <4>1. j \in 0 .. Count + l - e - 1 /\ e + j = j
        BY <1>0, <3>1, <3>2
      <4>. QED  BY <1>8, <3>1, <4>1
    <3>3. CASE Count + l - e = Capacity
      <4>1. PICK m \in e .. e + Capacity - 1 : At(head, m) = s
        <5>1. e \in Int
          BY <1>1
        <5>. QED  BY <1>0, <5>1, OneTurn
      <4>2. m - e \in 0 .. Count + l - e - 1 /\ e + (m - e) = m
        BY <1>0, <1>1, <3>3, SMTT(30)
      <4>. QED  BY <1>8, <4>1, <4>2
    <3>. QED  BY <1>1, <3>2, <3>3
  <2>. QED  BY <2>1, <2>2
<1>. QED  BY <1>1, <1>2, <1>3, <1>r, <1>7, <1>8, <1>9 DEF RingType, WindowAt

-----------------------------------------------------------------------------
(* The contents.                                                           *)

\* The n elements from counter h on.
Contents(b, h, n) == [i \in 1 .. n |-> b[At(h, i - 1)]]

\* The window of a well-formed ring is a sequence of elements.
LEMMA ContentsAreValues ==
    ASSUME RingAssumption, NEW b \in [Slot -> Value \cup {None}], NEW h \in Counter,
           NEW c \in 0 .. Capacity,
           \A s \in Slot : b[s] # None <=> \E k \in 0 .. c - 1 : At(h, k) = s,
           NEW n \in 0 .. c
    PROVE  /\ Contents(b, h, n) \in Seq(Value) /\ Len(Contents(b, h, n)) = n
           /\ \A i \in 1 .. n : Contents(b, h, n)[i] = b[At(h, i - 1)]
<1>0. c \in Nat /\ n \in Nat /\ n <= c
  BY DEF RingAssumption
<1>1. ASSUME NEW i \in 1 .. n PROVE b[At(h, i - 1)] \in Value
  <2>1. i - 1 \in 0 .. c - 1 /\ i - 1 \in Nat
    BY <1>0
  <2>2. At(h, i - 1) \in Slot
    BY <2>1, AtSlot
  <2>. QED  BY <2>1, <2>2
<1>. QED  BY <1>0, <1>1 DEF Contents

\* to_vec in terms of slots.
LEMMA WindowContents ==
    ASSUME RingAssumption, NEW b, NEW h \in Counter, NEW n \in Nat, InReach(h, n)
    PROVE  [i \in 1 .. n |-> b[Index(WrappingAdd(h, i - 1))]] = Contents(b, h, n)
<1>2. ASSUME NEW i \in 1 .. n PROVE Index(WrappingAdd(h, i - 1)) = At(h, i - 1)
  <2>1. i - 1 \in Nat /\ i - 1 \in 0 .. n
    OBVIOUS
  <2>2. InReach(h, i - 1)
    BY <2>1, ReachMoves
  <2>. QED  BY <2>1, <2>2, CounterSlot
<1>. QED  BY <1>2 DEF Contents

\* The windows of this state and, after a step, of the next one.
LEMMA Windows ==
    ASSUME RingAssumption, RingType, WindowAt, NEW n \in 0 .. Count
    PROVE  /\ Window(n) \in Seq(Value) /\ Len(Window(n)) = n
           /\ \A i \in 1 .. n : Window(n)[i] = buf[At(head, i - 1)]
           /\ n \in Nat /\ Count \in Nat
<1>1. n \in Nat /\ Count \in Nat
  BY DEF WindowAt, RingAssumption
<1>r. InReach(head, n)
  <2>1. InReach(head, Count) /\ head \in Counter
    BY DEF RingType, WindowAt
  <2>. QED  BY <1>1, <2>1, ReachMoves
<1>2. Window(n) = Contents(buf, head, n)
  BY <1>1, <1>r, WindowContents DEF Window, RingType
<1>3. /\ Contents(buf, head, n) \in Seq(Value) /\ Len(Contents(buf, head, n)) = n
      /\ \A i \in 1 .. n : Contents(buf, head, n)[i] = buf[At(head, i - 1)]
  BY ContentsAreValues DEF RingType, WindowAt
<1>. QED  BY <1>1, <1>2, <1>3

\* The same of the next state.
LEMMA WindowNext ==
    ASSUME RingAssumption, RingType', WindowAt'
    PROVE  /\ Window(Count)' \in Seq(Value) /\ Len(Window(Count)') = Count'
           /\ \A i \in 1 .. Count' : Window(Count)'[i] = buf'[At(head', i - 1)]
           /\ Count' \in Nat
<1>0. /\ buf' \in [Slot -> Value \cup {None}] /\ head' \in Counter /\ Count' \in 0 .. Capacity
      /\ \A s \in Slot : buf'[s] # None <=> \E k \in 0 .. Count' - 1 : At(head', k) = s
      /\ InReach(head', Count')
  BY DEF RingType, WindowAt, At, InReach, Aligned
<1>1. Count' \in Nat /\ Count' \in 0 .. Count'
  BY <1>0 DEF RingAssumption
<1>2. Window(Count)' = Contents(buf', head', Count')
  <2>1. Window(Count)' = [i \in 1 .. Count' |-> buf'[Index(WrappingAdd(head', i - 1))]]
    BY DEF Window, Index, WrappingAdd
  <2>. QED  BY <1>0, <1>1, <2>1, WindowContents
<1>3. /\ Contents(buf', head', Count') \in Seq(Value) /\ Len(Contents(buf', head', Count')) = Count'
      /\ \A i \in 1 .. Count' : Contents(buf', head', Count')[i] = buf'[At(head', i - 1)]
  BY <1>0, <1>1, ContentsAreValues
<1>. QED  BY <1>1, <1>2, <1>3

\* Reading or discarding n elements takes them from the front.
LEMMA PopContents ==
    ASSUME RingAssumption, RingType, WindowAt, NEW n \in 0 .. Count, Pop(n)
    PROVE  /\ Window(Count)' = SubSeq(Window(Count), n + 1, Count)
           /\ Window(n) = SubSeq(Window(Count), 1, n)
<1>. DEFINE q == Window(Count)
            r == Window(Count)'
            f == Window(n)
<1>0. /\ RingType' /\ WindowAt' /\ Count' = Count - n /\ head' = WrappingAdd(head, n)
      /\ \A i \in 0 .. Count - n - 1 : buf'[At(head, n + i)] = buf[At(head, n + i)]
  BY PopWindow
<1>1. /\ Count \in Nat /\ n \in Nat /\ n <= Count /\ Count \in 0 .. Count
      /\ f \in Seq(Value) /\ Len(f) = n /\ \A i \in 1 .. n : f[i] = buf[At(head, i - 1)]
  BY Windows
<1>2. q \in Seq(Value) /\ Len(q) = Count /\ \A i \in 1 .. Count : q[i] = buf[At(head, i - 1)]
  BY <1>1, Windows
<1>3. r \in Seq(Value) /\ Len(r) = Count - n /\ \A i \in 1 .. Count - n : r[i] = buf'[At(head', i - 1)]
  BY <1>0, WindowNext
<1>. HIDE DEF q, r, f
<1>4. ASSUME NEW i \in 1 .. Count - n PROVE r[i] = q[n + i]
  <2>1. i - 1 \in 0 .. Count - n - 1 /\ i - 1 \in Nat /\ n + (i - 1) = (n + i) - 1 /\ n + i \in 1 .. Count
    BY <1>1
  <2>2. At(head', i - 1) = At(head, n + (i - 1))
    <3>1. InReach(head, Count) /\ head \in Counter
      BY DEF RingType, WindowAt
    <3>2. InReach(head, n)
      BY <1>1, <3>1, ReachMoves
    <3>. QED  BY <1>0, <1>1, <2>1, <3>2, HeadMoves DEF RingType
  <2>. QED  BY <1>0, <1>2, <1>3, <2>1, <2>2
<1>5. r = SubSeq(q, n + 1, Count)
  <2>1. \A i \in n + 1 .. Count : q[i] \in Value
    BY <1>1, <1>2
  <2>2. /\ SubSeq(q, n + 1, Count) \in Seq(Value)
        /\ Len(SubSeq(q, n + 1, Count)) = IF n + 1 <= Count THEN Count - (n + 1) + 1 ELSE 0
        /\ \A i \in 1 .. Count - (n + 1) + 1 : SubSeq(q, n + 1, Count)[i] = q[n + 1 + i - 1]
    BY <1>1, <2>1, SubSeqProperties
  <2>. DEFINE g == SubSeq(q, n + 1, Count)
  <2>a. Count \in Nat /\ n \in Nat /\ n <= Count
    BY <1>1
  <2>b. /\ Len(g) = IF n + 1 <= Count THEN Count - (n + 1) + 1 ELSE 0
        /\ \A i \in 1 .. Count - (n + 1) + 1 : g[i] = q[n + 1 + i - 1]
    BY <2>2
  <2>. HIDE DEF g
  <2>c. Count - (n + 1) + 1 = Count - n /\ \A i \in 1 .. Count - n : n + 1 + i - 1 = n + i
    BY <2>a
  <2>3. Len(g) = Count - n /\ \A i \in 1 .. Count - n : g[i] = q[n + i]
    <3>1. Len(g) = Count - n
      BY <2>a, <2>b
    <3>2. ASSUME NEW i \in 1 .. Count - n PROVE g[i] = q[n + i]
      BY <2>b, <2>c
    <3>. QED  BY <3>1, <3>2
  <2>4. g \in Seq(Value) /\ Len(r) = Len(g) /\ \A i \in 1 .. Len(r) : r[i] = g[i]
    <3>1. g \in Seq(Value)
      BY <2>2 DEF g
    <3>. QED  BY <1>3, <1>4, <2>3, <3>1
  <2>5. r = g
    BY <1>3, <2>4, SeqEqual
  <2>. QED  BY <2>5 DEF g
<1>6. f = SubSeq(q, 1, n)
  <2>1. \A i \in 1 .. n : q[i] \in Value
    BY <1>1, <1>2
  <2>2. /\ SubSeq(q, 1, n) \in Seq(Value)
        /\ Len(SubSeq(q, 1, n)) = IF 1 <= n THEN n - 1 + 1 ELSE 0
        /\ \A i \in 1 .. n - 1 + 1 : SubSeq(q, 1, n)[i] = q[1 + i - 1]
    BY <1>1, <2>1, SubSeqProperties
  <2>3. Len(SubSeq(q, 1, n)) = n /\ \A i \in 1 .. n : SubSeq(q, 1, n)[i] = q[i]
    BY <1>1, <2>2
  <2>4. \A i \in 1 .. n : f[i] = q[i]
    <3>1. \A i \in 1 .. n : i \in 1 .. Count
      BY <1>1
    <3>. QED  BY <1>1, <1>2, <3>1
  <2>. QED  BY <1>1, <2>2, <2>3, <2>4, SeqEqual
<1>. QED  BY <1>5, <1>6 DEF q, r, f

\* Writing leaves the newest elements, as many as fit.
LEMMA OverwriteContents ==
    ASSUME RingAssumption, RingType, WindowAt, NEW d \in Seq(Value), Overwrite(d), InReach(tail, Len(d))
    PROVE  Window(Count)' = Queue!Newest(Window(Count) \o d, Capacity)
<1>. DEFINE q == Window(Count)
            r == Window(Count)'
            l == Len(d)
            e == Excess(Count, l)
            s == q \o d
<1>0. /\ RingType' /\ WindowAt' /\ Count' = Count + l - e /\ e \in Nat /\ InReach(head, e)
      /\ head' = WrappingAdd(head, e)
      /\ \A i \in 0 .. Count + l - e - 1 :
           buf'[At(head, e + i)] = IF e + i < Count THEN buf[At(head, e + i)] ELSE d[(e + i) - Count + 1]
  BY OverwriteWindow
<1>1. Count \in Nat /\ Capacity \in Nat \ {0} /\ Count \in 0 .. Count /\ Count <= Capacity /\ l \in Nat
  BY DEF WindowAt, RingAssumption
<1>2. q \in Seq(Value) /\ Len(q) = Count /\ \A i \in 1 .. Count : q[i] = buf[At(head, i - 1)]
  BY <1>1, Windows
<1>3. r \in Seq(Value) /\ Len(r) = Count + l - e /\ \A i \in 1 .. Count + l - e : r[i] = buf'[At(head', i - 1)]
  BY <1>0, WindowNext
<1>4. /\ s \in Seq(Value) /\ Len(s) = Count + l
      /\ \A i \in 1 .. Count + l : s[i] = IF i <= Count THEN q[i] ELSE d[i - Count]
  <2>. HIDE DEF q
  <2>. QED  BY <1>2, ConcatProperties
<1>5. e = IF Count + l <= Capacity THEN 0 ELSE Count + l - Capacity
  BY <1>1 DEF Excess
<1>. HIDE DEF q, r, s, e, l
<1>6. ASSUME NEW i \in 1 .. Count + l - e PROVE r[i] = s[e + i]
  <2>1. /\ i - 1 \in 0 .. Count + l - e - 1 /\ i - 1 \in Nat /\ e + i \in 1 .. Count + l
        /\ (e + i) - 1 = e + (i - 1) /\ (e + (i - 1)) - Count + 1 = (e + i) - Count
        /\ (e + (i - 1) < Count <=> e + i <= Count) /\ e + i \in Nat
    BY <1>0, <1>1, <1>5
  <2>2. At(head', i - 1) = At(head, e + (i - 1))
    BY <1>0, <2>1, HeadMoves DEF RingType
  <2>3. r[i] = IF e + i <= Count THEN buf[At(head, e + (i - 1))] ELSE d[(e + i) - Count]
    BY <1>0, <1>3, <2>1, <2>2
  <2>4. e + i <= Count => e + i \in 1 .. Count
    BY <1>1, <2>1
  <2>. QED  BY <1>2, <1>4, <2>1, <2>3, <2>4
<1>7. CASE Count + l <= Capacity
  <2>1. e = 0 /\ Count + l - e = Count + l /\ \A i \in 1 .. Count + l : e + i = i
    BY <1>1, <1>5, <1>7
  <2>2. r = s
    <3>1. Len(r) = Len(s) /\ Len(r) = Count + l
      BY <1>3, <1>4, <2>1
    <3>2. ASSUME NEW i \in 1 .. Len(r) PROVE r[i] = s[i]
      BY <1>6, <2>1, <3>1, <3>2
    <3>. QED  BY <1>3, <1>4, <3>1, <3>2, SeqEqual
  <2>. QED  BY <1>4, <1>7, <2>2 DEF Queue!Newest, q, r, s
<1>8. CASE ~(Count + l <= Capacity)
  <2>. DEFINE m == (Count + l) - Capacity + 1
              n == Count + l
              g == SubSeq(s, m, n)
  <2>1. /\ m \in Int /\ n \in Int /\ m <= n /\ n - m + 1 = Capacity /\ m >= 1 /\ m - 1 = e
        /\ Count + l - e = Capacity /\ n = Len(s) /\ n \in Nat
    BY <1>1, <1>4, <1>5, <1>8
  <2>2. Len(r) = Capacity /\ \A i \in 1 .. Capacity : r[i] = s[e + i]
    BY <1>3, <1>6, <2>1
  <2>. HIDE DEF m, n
  <2>3. \A i \in m .. n : s[i] \in Value
    BY <1>4, <2>1
  <2>4. /\ g \in Seq(Value) /\ Len(g) = IF m <= n THEN n - m + 1 ELSE 0
        /\ \A i \in 1 .. n - m + 1 : g[i] = s[m + i - 1]
    BY <2>1, <2>3, SubSeqProperties
  <2>5. \A i \in 1 .. Capacity : m + i - 1 = e + i
    BY <1>0, <1>1, <2>1
  <2>6. Len(g) = Capacity /\ \A i \in 1 .. Capacity : g[i] = s[e + i]
    <3>. HIDE DEF g
    <3>. QED  BY <2>1, <2>4, <2>5
  <2>7. r = g
    <3>. HIDE DEF g
    <3>. QED  BY <1>1, <1>3, <2>2, <2>4, <2>6, SeqEqual
  <2>8. ~(Len(s) <= Capacity)
    BY <1>4, <1>8
  <2>9. Queue!Newest(s, Capacity) = SubSeq(s, Len(s) - Capacity + 1, Len(s))
    BY <2>8 DEF Queue!Newest
  <2>10. m = Len(s) - Capacity + 1 /\ n = Len(s)
    BY <1>4 DEF m, n
  <2>11. r = Queue!Newest(s, Capacity)
    BY <2>7, <2>9, <2>10
  <2>. QED  BY <2>11 DEF q, r, s
<1>. QED  BY <1>7, <1>8

-----------------------------------------------------------------------------
(* The inductive invariant.                                                *)

Calls == [op : {"idle", "read", "next"}, len : Nat]
Results == [tag : {"none", "ok", "closed", "failed", "done"}, n : Nat, got : Seq(Value)]

IInv == TypeOK /\ WindowAt /\ (close_err # None => close_write)

\* Calls and results are records of their types.
LEMMA RecordsTyped ==
    /\ Idle \in Calls /\ NextCall \in Calls /\ \A n \in Nat : ReadCall(n) \in Calls
    /\ \A tag \in {"none", "ok", "closed", "failed", "done"}, n \in Nat, got \in Seq(Value) :
         Result(tag, n, got) \in Results
    /\ \A tag \in {"none", "ok", "closed", "failed", "done"} : Result(tag, 0, << >>) \in Results
BY DEF Idle, NextCall, ReadCall, Calls, Result, Results

\* What write and add store: at least one element.
LEMMA BatchValues ==
    ASSUME RingAssumption, NEW d \in WriteData \cup Singles
    PROVE  d \in Seq(Value) /\ Len(d) >= 1
<1>1. CASE d \in WriteData
  BY <1>1, EmptySeq DEF RingAssumption
<1>2. CASE d \in Singles
  <2>1. PICK v \in Value : d = <<v>>
    BY <1>2 DEF Singles
  <2>. QED  BY <2>1
<1>. QED  BY <1>1, <1>2

\* A step with a good ring, a good call and a good result keeps the invariant.
LEMMA StepTypes ==
    ASSUME IInv, RingType', WindowAt', UNCHANGED closing, NEW t \in Thread, NEW c \in Calls,
           call' = call \/ call' = [call EXCEPT ![t] = c], ret' \in Results,
           write_notify' \subseteq Thread
    PROVE  IInv'
<1>1. call' \in [Thread -> Calls]
  BY DEF IInv, TypeOK, Calls
<1>. QED  BY <1>1 DEF IInv, TypeOK, RingType, Calls, Results, closing

\* A step that leaves the ring alone leaves its window alone.
LEMMA RingUnchanged ==
    ASSUME UNCHANGED ring
    PROVE  /\ RingType /\ WindowAt => RingType' /\ WindowAt' /\ Count' = Count
           /\ Window(Count)' = Window(Count)
BY DEF ring, RingType, WindowAt, Count, Window

\* How many elements a read takes.
LEMMA ReadCount ==
    ASSUME RingAssumption, IInv, NEW want \in Nat
    PROVE  Smaller(want, Smaller(Count, Capacity)) \in 0 .. Count /\ Smaller(Count, Capacity) = Count
BY DEF IInv, WindowAt, Smaller, RingAssumption

\* One round of the loop of read or next keeps the invariant.
LEMMA ReadTypes ==
    ASSUME RingAssumption, IInv, NEW t \in Thread, NEW c \in Calls, NEW want \in Nat,
           NEW failed \in Results, NEW eof \in Results, ReadLoop(t, c, want, failed, eof)
    PROVE  IInv'
<1>0. TypeOK /\ RingType /\ WindowAt /\ UNCHANGED closing /\ Idle \in Calls
  BY RecordsTyped DEF IInv, TypeOK, RingType, ReadLoop
<1>1. CASE UNCHANGED <<ring, write_notify>> /\ (Return(t, failed) \/ Return(t, eof))
  BY <1>0, <1>1, RingUnchanged, StepTypes DEF Return, TypeOK
<1>2. CASE call' = [call EXCEPT ![t] = c] /\ write_notify' = write_notify \cup {t} /\ UNCHANGED <<ring, ret>>
  BY <1>0, <1>2, RingUnchanged, StepTypes DEF TypeOK, Results
<1>3. CASE /\ LET n == Smaller(want, Smaller(Count, Capacity)) IN
                /\ Return(t, Result("ok", n, Window(n)))
                /\ Pop(n)
           /\ UNCHANGED write_notify
  <2>. DEFINE n == Smaller(want, Smaller(Count, Capacity))
  <2>1. n \in 0 .. Count /\ Pop(n) /\ Return(t, Result("ok", n, Window(n)))
    BY <1>3, ReadCount
  <2>. HIDE DEF n
  <2>2. Window(n) \in Seq(Value) /\ n \in Nat
    BY <1>0, <2>1, Windows
  <2>3. RingType' /\ WindowAt'
    BY <1>0, <2>1, PopWindow
  <2>4. Result("ok", n, Window(n)) \in Results
    BY <2>2, RecordsTyped
  <2>. QED  BY <1>0, <1>3, <2>1, <2>3, <2>4, StepTypes DEF Return, TypeOK
<1>. QED  BY <1>1, <1>2, <1>3 DEF ReadLoop

\* The first state satisfies the invariant.
LEMMA InitIInv == RingAssumption /\ Init => IInv
<1>. SUFFICES ASSUME RingAssumption, Init PROVE IInv
  OBVIOUS
<1>1. call \in [Thread -> Calls] /\ ret \in Results
  BY RecordsTyped DEF Init
<1>2. Count = 0
  BY DEF Init, Count, WrappingSub, RingAssumption
<1>3. WindowAt
  BY <1>2 DEF Init, WindowAt, RingAssumption, InReach
<1>4. 0 \in Counter /\ buf \in [Slot -> Value \cup {None}]
  BY DEF Init, Counter, RingAssumption
<1>. QED  BY <1>1, <1>3, <1>4 DEF Init, IInv, TypeOK, Calls, Results

\* Every step keeps the invariant.
LEMMA NextIInv == RingAssumption /\ IInv /\ [Next]_vars => IInv'
<1>. SUFFICES ASSUME RingAssumption, IInv, [Next]_vars PROVE IInv'
  OBVIOUS
<1>0. /\ TypeOK /\ RingType /\ WindowAt /\ Idle \in Calls /\ ret \in Results /\ write_notify \subseteq Thread
      /\ call \in [Thread -> Calls]
  BY RecordsTyped DEF IInv, TypeOK, RingType, Calls, Results
<1>1. ASSUME NEW t \in Thread, WriteClosed(t) PROVE IInv'
  <2>1. ret' \in Results
    BY <1>1, RecordsTyped DEF WriteClosed, Return
  <2>. QED  BY <1>0, <1>1, <2>1, RingUnchanged, StepTypes DEF WriteClosed, Return
<1>2. ASSUME NEW t \in Thread, NEW d \in WriteData \cup Singles, WriteItems(t, d) PROVE IInv'
  <2>0. d \in Seq(Value) /\ Len(d) \in Nat
    BY BatchValues
  <2>1. RingType' /\ WindowAt'
    BY <1>0, <1>2, <2>0, OverwriteWindow DEF WriteItems
  <2>2. << >> \in Seq(Value)
    OBVIOUS
  <2>3. ret' \in Results
    BY <1>2, <2>0, <2>2, RecordsTyped DEF WriteItems, Return
  <2>4. write_notify' \subseteq Thread
    BY <1>0, <1>2 DEF WriteItems, NotifyOne
  <2>. QED  BY <1>0, <1>2, <2>1, <2>3, <2>4, StepTypes DEF WriteItems, Return
<1>3. ASSUME NEW t \in Thread, Write(t) \/ Add(t) PROVE IInv'
  BY <1>1, <1>2, <1>3 DEF Write, Add
<1>4. ASSUME NEW t \in Thread, NEW len \in Nat, ReadFrom(t, len) PROVE IInv'
  BY <1>4, RecordsTyped, ReadTypes DEF ReadFrom
<1>5. ASSUME NEW t \in Thread, NextFrom(t) PROVE IInv'
  BY <1>5, RecordsTyped, ReadTypes DEF NextFrom
<1>6. ASSUME NEW t \in Thread, Read(t) \/ NextItem(t) \/ Resume(t) PROVE IInv'
  <2>1. call[t].len \in Nat
    BY <1>0 DEF Calls
  <2>. QED  BY <1>4, <1>5, <1>6, <2>1 DEF Read, NextItem, Resume, RingAssumption
<1>7. ASSUME RingType', WindowAt', UNCHANGED <<closing, call, ret>>, write_notify' \subseteq Thread
      PROVE  IInv'
  BY <1>0, <1>7 DEF IInv, TypeOK, RingType, closing
<1>8. ASSUME NEW t \in Thread, SpuriousWakeup(t) PROVE IInv'
  BY <1>0, <1>7, <1>8, RingUnchanged DEF SpuriousWakeup
<1>9. CASE Discard
  <2>1. PICK n \in 0 .. Count : Pop(n)
    <3>1. Smaller(Count, Capacity) = Count
      BY ReadCount
    <3>. QED  BY <1>9, <3>1 DEF Discard
  <2>. QED  BY <1>0, <1>7, <1>9, <2>1, PopWindow DEF Discard
<1>10. CASE Reset
  BY <1>0, <1>7, <1>10, ClearWindow DEF Reset
<1>11. CASE CloseWrite
  BY <1>0, <1>11, RingUnchanged DEF CloseWrite, IInv, TypeOK, RingType
<1>12. CASE CloseWithError
  BY <1>0, <1>12, ClearWindow DEF CloseWithError, IInv, TypeOK, RingType
<1>13. CASE UNCHANGED vars
  BY <1>0, <1>7, <1>13, RingUnchanged DEF vars
<1>. QED  BY <1>3, <1>6, <1>8, <1>9, <1>10, <1>11, <1>12, <1>13 DEF Next

\* A RingBuffer of any capacity is well typed: results and counters stay within
\* their types, and reads return elements, never an empty slot.
THEOREM TypeCorrect ==
    ASSUME RingAssumption
    PROVE  Spec => []TypeOK
<1>1. Spec => []IInv
  BY InitIInv, NextIInv, PTL DEF Spec
<1>. QED  BY <1>1, PTL DEF IInv

\* Whatever the capacity the window never exceeds it and names distinct, filled
\* slots, however long the batches: no take().unwrap() of read or next panics.  The
\* counters wrap when the capacity divides their range, and stay below it otherwise.
THEOREM WindowCorrect ==
    ASSUME RingAssumption
    PROVE  Spec => []WindowOK
<1>1. Spec => []IInv
  BY InitIInv, NextIInv, PTL DEF Spec
<1>2. IInv => WindowOK
  BY WindowSlots DEF IInv, TypeOK, RingType
<1>. QED  BY <1>1, <1>2, PTL

-----------------------------------------------------------------------------
(* RingBuffer implements ClosableQueue.                                    *)

QueueStep == Queue!Next \/ UNCHANGED Queue!vars

\* A put of the queue: the newest elements stay.
LEMMA PutRefines ==
    ASSUME RingAssumption, IInv, NEW t \in Thread, NEW d \in WriteData \cup Singles, WriteItems(t, d)
    PROVE  Queue!Put(t, d, Len(d)) /\ Len(d) \in 1 .. Len(d)
<1>. DEFINE idle == [u \in Thread |-> [data |-> << >>, done |-> 0]]
<1>1. d \in Seq(Value) /\ Len(d) \in Nat /\ Len(d) \in 1 .. Len(d)
  BY BatchValues
<1>2. SubSeq(d, 1, Len(d)) = d
  BY <1>1, SubSeqFull
<1>3. Window(Count)' = Queue!Newest(Window(Count) \o d, Capacity)
  BY <1>1, OverwriteContents DEF IInv, TypeOK, RingType, WriteItems
<1>4. ret' = Queue!Ok(Len(d)) /\ ~close_write /\ UNCHANGED <<close_write, close_err>>
  BY DEF WriteItems, Return, Result, closing, Queue!Ok, Queue!Result
<1>5. idle[t] = Queue!NoPut /\ idle[t].done + 1 = 1 /\ idle = [idle EXCEPT ![t] = Queue!NoPut]
  BY DEF Queue!NoPut
<1>. HIDE DEF idle
<1>6. /\ SubSeq(d, idle[t].done + 1, Len(d)) = d
      /\ Len(d) \in idle[t].done + 1 .. Len(d) /\ ~(Len(d) < Len(d))
  BY <1>1, <1>2, <1>5
<1>. USE DEF idle
<1>. QED  BY <1>1, <1>3, <1>4, <1>5, <1>6 DEF Queue!Put, Queue!Accept

\* Throwing away the n oldest elements.
LEMMA DropRefines ==
    ASSUME NEW n \in 0 .. Count, Count \in Nat, Window(Count) \in Seq(Value), Len(Window(Count)) = Count,
           Window(Count)' = SubSeq(Window(Count), n + 1, Count), UNCHANGED <<closing, ret>>
    PROVE  QueueStep
<1>1. CASE n = 0
  <2>1. SubSeq(Window(Count), 1, Count) = Window(Count) /\ n + 1 = 1
    BY <1>1, SubSeqFull
  <2>. QED  BY <2>1 DEF QueueStep, Queue!vars, closing
<1>2. CASE n # 0
  <2>1. n \in 1 .. Len(Window(Count)) /\ n \in 0 .. Len(Window(Count))
    BY <1>2
  <2>2. Queue!Drop(n)
    BY <2>1 DEF Queue!Drop, closing
  <2>. QED  BY <2>1, <2>2 DEF QueueStep, Queue!Next
<1>. QED  BY <1>1, <1>2

\* Every step of the buffer is a step of the queue that overwrites, or none.
LEMMA NextRefines == RingAssumption /\ IInv /\ [Next]_vars => [Queue!Next]_(Queue!vars)
<1>. SUFFICES ASSUME RingAssumption, IInv, [Next]_vars PROVE QueueStep
  BY DEF QueueStep
<1>0. /\ TypeOK /\ RingType /\ WindowAt /\ (close_err # None => close_write)
      /\ Count \in 0 .. Count /\ Count \in Nat
  BY DEF IInv, TypeOK, RingType, WindowAt, RingAssumption
<1>q. Window(Count) \in Seq(Value) /\ Len(Window(Count)) = Count /\ (Window(Count) = << >> <=> head = tail)
  <2>1. Window(Count) \in Seq(Value) /\ Len(Window(Count)) = Count
    BY <1>0, Windows
  <2>2. Count = 0 <=> head = tail
    BY <1>0, CountReaches DEF RingType, Count
  <2>. HIDE DEF Window
  <2>. QED  BY <2>1, <2>2, EmptySeq
<1>1. ASSUME NEW t \in Thread, Write(t) \/ Add(t) PROVE QueueStep
  <2>1. ASSUME WriteClosed(t) PROVE Queue!Refuse(t)
    BY <1>0, <2>1, RingUnchanged
       DEF WriteClosed, Return, Result, closing, Queue!Refuse, Queue!Result, Queue!NoPut
  <2>. QED  BY <1>1, <2>1, PutRefines DEF Write, Add, QueueStep, Queue!Next
<1>2. ASSUME NEW t \in Thread, NEW c, NEW want \in Nat, NEW failed, NEW eof,
             failed \in {Result("failed", 0, << >>), Result("done", 0, << >>)},
             eof \in {Result("ok", 0, << >>), Result("done", 0, << >>)},
             ReadLoop(t, c, want, failed, eof)
      PROVE  QueueStep
  <2>0. UNCHANGED <<close_write, close_err>>
    BY <1>2 DEF ReadLoop, closing
  <2>1. CASE close_err # None /\ Return(t, failed) /\ UNCHANGED ring
    <3>1. Queue!Failed
      BY <1>2, <2>0, <2>1, RingUnchanged DEF Return, Result, Queue!Failed, Queue!Result
    <3>. QED  BY <3>1 DEF Queue!Next, QueueStep
  <2>2. CASE close_err = None /\ head = tail /\ close_write /\ Return(t, eof) /\ UNCHANGED ring
    <3>1. Queue!EndOfStream
      BY <1>q, <1>2, <2>0, <2>2, RingUnchanged DEF Return, Result, Queue!EndOfStream, Queue!Result, Queue!Ok
    <3>. QED  BY <3>1 DEF Queue!Next, QueueStep
  <2>3. CASE UNCHANGED ring /\ UNCHANGED ret
    BY <2>0, <2>3, RingUnchanged DEF QueueStep, Queue!vars
  <2>4. CASE /\ close_err = None /\ head # tail
             /\ LET n == Smaller(want, Smaller(Count, Capacity)) IN
                  /\ Return(t, Result("ok", n, Window(n)))
                  /\ Pop(n)
    <3>. DEFINE n == Smaller(want, Smaller(Count, Capacity))
    <3>1. n \in 0 .. Count /\ Pop(n) /\ ret' = Result("ok", n, Window(n))
      BY <2>4, ReadCount DEF Return
    <3>. HIDE DEF n
    <3>2. /\ Window(Count)' = SubSeq(Window(Count), n + 1, Count)
          /\ Window(n) = SubSeq(Window(Count), 1, n) /\ Len(Window(n)) = n
      BY <1>0, <3>1, PopContents, Windows
    <3>3. Queue!Take(n)
      BY <1>q, <2>0, <2>4, <3>1, <3>2 DEF Result, Queue!Take, Queue!Got, Queue!Result
    <3>. QED  BY <1>q, <3>1, <3>3 DEF Queue!Next, QueueStep
  <2>. QED  BY <1>2, <2>1, <2>2, <2>3, <2>4 DEF ReadLoop
<1>3. ASSUME NEW t \in Thread, Read(t) \/ NextItem(t) \/ Resume(t) PROVE QueueStep
  <2>1. call[t].len \in Nat
    BY <1>0 DEF TypeOK
  <2>2. ASSUME NEW len \in Nat, ReadFrom(t, len) PROVE QueueStep
    BY <1>2, <2>2 DEF ReadFrom
  <2>3. ASSUME NextFrom(t) PROVE QueueStep
    BY <1>2, <2>3 DEF NextFrom
  <2>. QED  BY <1>3, <2>1, <2>2, <2>3 DEF Read, NextItem, Resume, RingAssumption
<1>4. ASSUME UNCHANGED <<ring, closing, ret>> PROVE QueueStep
  BY <1>4, RingUnchanged DEF QueueStep, Queue!vars, closing
<1>5. CASE Discard
  <2>1. PICK n \in 0 .. Count : Pop(n)
    <3>1. Smaller(Count, Capacity) = Count
      BY ReadCount
    <3>. QED  BY <1>5, <3>1 DEF Discard
  <2>. QED  BY <1>0, <1>q, <1>5, <2>1, PopContents, DropRefines DEF Discard
<1>6. ASSUME Clear PROVE Window(Count)' = << >>
  <2>1. Count' = 0 /\ RingType' /\ WindowAt'
    BY <1>6, ClearWindow
  <2>2. Window(Count)' \in Seq(Value) /\ Len(Window(Count)') = 0
    BY <2>1, WindowNext
  <2>. HIDE DEF Window
  <2>. QED  BY <2>2, EmptySeq
<1>7. CASE Reset
  <2>1. SubSeq(Window(Count), Count + 1, Count) = << >>
    BY <1>0, SubSeqEmpty
  <2>. QED  BY <1>0, <1>q, <1>6, <1>7, <2>1, DropRefines DEF Reset
<1>8. CASE CloseWrite
  <2>1. Queue!Close
    BY <1>8, RingUnchanged DEF CloseWrite, Queue!Close
  <2>. QED  BY <2>1 DEF Queue!Next, QueueStep
<1>9. CASE CloseWithError
  <2>1. PICK e \in Error : close_err' = e
    BY <1>9 DEF CloseWithError
  <2>2. Queue!Fail(e)
    BY <1>6, <1>9, <2>1 DEF CloseWithError, Queue!Fail
  <2>. QED  BY <2>2 DEF Queue!Next, QueueStep
<1>. QED  BY <1>1, <1>3, <1>4, <1>5, <1>7, <1>8, <1>9 DEF Next, vars, SpuriousWakeup

\* RingBuffer is the ClosableQueue that overwrites: it holds the newest elements, in
\* order, whatever the batches, reads, discards, resets and wraps of the counters.
THEOREM Refinement ==
    ASSUME RingAssumption
    PROVE  Spec => QueueSpec
<1>1. Spec => []IInv
  BY InitIInv, NextIInv, PTL DEF Spec
<1>2. Init => Queue!Init
  <2>1. Init => Count = 0
    BY DEF Init, Count, WrappingSub, RingAssumption
  <2>. QED  BY <2>1 DEF Init, Window, Queue!Init, Queue!NoPut, Queue!Result, Result
<1>. QED  BY <1>1, <1>2, NextRefines, PTL DEF Spec, QueueSpec, Queue!Spec
=============================================================================
