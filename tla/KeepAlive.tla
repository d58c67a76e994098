------------------------------ MODULE KeepAlive ------------------------------
(***************************************************************************)
(* Time in an mqtt0 connection: the client's keepalive_task                *)
(* (rust/mqtt0/src/client.rs) against the timeout of the broker's client   *)
(* loop (rust/mqtt0/src/broker.rs).  Time passes in ticks of half a        *)
(* second; a ping takes at most MaxDelay of them, scheduling included.     *)
(***************************************************************************)
EXTENDS Integers, Sequences, SequenceTheorems, TLAPS

CONSTANTS
    KeepAliveValues,  \* keep_alive of the CONNECT packet, in seconds, not 0
    MaxDelay          \* bound on the way of a packet, in ticks

VARIABLES
    keep_alive,
    alive,          \* the client runs
    client_timer,   \* ticks since the keep-alive task went to sleep
    flight,         \* ages of the pings on their way
    loop_timer,     \* ticks since the broker's loop began its select
    silence,        \* ticks since the broker last read a packet, up to a bound
    connected

timer_vars == <<keep_alive, alive, client_timer, flight, loop_timer, silence, connected>>

Ticks(seconds) == 2 * seconds

\* Not the code: a ping per keep_alive, and not two.
IntervalWhole(seconds) == Ticks(IF seconds > 1 THEN seconds ELSE 1)

\* Between two pings: (keep_alive / 2).max(1) seconds.
Interval(seconds) == Ticks(IF seconds \div 2 > 1 THEN seconds \div 2 ELSE 1)

\* What the broker waits for a select to end: (keep_alive * 3) / 2 seconds.
Timeout(seconds) == Ticks((seconds * 3) \div 2)

KeepAliveInit ==
    /\ keep_alive \in KeepAliveValues
    /\ alive = TRUE /\ connected = TRUE
    /\ client_timer = 0 /\ loop_timer = 0 /\ silence = 0
    /\ flight = << >>

\* keepalive_task: the interval is over.
SendPing ==
    /\ alive /\ connected /\ client_timer = Interval(keep_alive)
    /\ client_timer' = 0
    /\ flight' = Append(flight, 0)
    /\ UNCHANGED <<keep_alive, alive, loop_timer, silence, connected>>

\* client_loop_v4/v5 reads a packet, and begins the next select.
ReadPacket ==
    /\ connected /\ flight # << >>
    /\ flight' = Tail(flight)
    /\ loop_timer' = 0 /\ silence' = 0
    /\ UNCHANGED <<keep_alive, alive, client_timer, connected>>

\* It writes out a message of the session's channel: the select ends as well.
WriteMessage ==
    /\ connected
    /\ loop_timer' = 0
    /\ UNCHANGED <<keep_alive, alive, client_timer, flight, silence, connected>>

\* The timeout around the select is over.
TimeOut ==
    /\ connected /\ loop_timer = Timeout(keep_alive)
    /\ connected' = FALSE
    /\ UNCHANGED <<keep_alive, alive, client_timer, flight, loop_timer, silence>>

\* The client stops without a word.
Die ==
    /\ alive /\ connected
    /\ alive' = FALSE
    /\ UNCHANGED <<keep_alive, client_timer, flight, loop_timer, silence, connected>>

\* Timers that have run out act before time goes on.
Tick ==
    /\ connected
    /\ alive => client_timer < Interval(keep_alive)
    /\ loop_timer < Timeout(keep_alive)
    /\ \A i \in DOMAIN flight : flight[i] < MaxDelay
    /\ client_timer' = IF alive THEN client_timer + 1 ELSE client_timer
    /\ flight' = [i \in DOMAIN flight |-> flight[i] + 1]
    /\ loop_timer' = loop_timer + 1
    /\ silence' = IF silence > Timeout(keep_alive) THEN silence ELSE silence + 1
    /\ UNCHANGED <<keep_alive, alive, connected>>

KeepAliveNext == SendPing \/ ReadPacket \/ WriteMessage \/ TimeOut \/ Die \/ Tick

KeepAliveSpec == KeepAliveInit /\ [][KeepAliveNext]_timer_vars

-----------------------------------------------------------------------------
\* A client that runs with auto_keepalive is never taken for dead: two intervals
\* of keepalive_task fit into the broker's timeout whatever the rounding of
\* keep_alive, for every keep_alive of at least 2.
LiveClientKept == alive => connected

\* "disconnect if no packet received within 1.5 x keep_alive" (comment in
\* client_loop_v4): the broker does not stay longer than that with a silent client.
SilenceBounded == connected => silence <= Timeout(keep_alive)

-----------------------------------------------------------------------------
(* Proof that a live client is kept.  The broker's loop has been waiting for *)
(* no longer than the client's task has slept or, when a ping is on its way, *)
(* than an interval and the age of the oldest such ping; and the timeout is  *)
(* longer than an interval and the longest way, for a difference of exactly  *)
(* keep_alive seconds.                                                       *)

\* A ping is less than keep_alive seconds on its way.
KeepAliveAssumption ==
    /\ MaxDelay \in Nat
    /\ \A k \in KeepAliveValues : k \in Nat /\ k >= 2 /\ MaxDelay < Ticks(k)

\* Whatever the roundings of keep_alive / 2 and of keep_alive * 3 / 2.
LEMMA Slack ==
    ASSUME NEW k \in Nat, k >= 2
    PROVE  /\ Interval(k) \in Nat /\ Interval(k) > 0 /\ Timeout(k) \in Nat
           /\ Timeout(k) = Interval(k) + Ticks(k)
<1>1. PICK h \in Nat : k = 2 * h \/ k = 2 * h + 1
  <2>1. k \div 2 \in Nat /\ (k = 2 * (k \div 2) \/ k = 2 * (k \div 2) + 1)
      OBVIOUS
  <2> QED
      BY <2>1
<1>2. CASE k = 2 * h
  <2>1. k \div 2 = h /\ (k * 3) \div 2 = 3 * h /\ h >= 1
      BY <1>2
  <2> QED
      BY <1>2, <2>1 DEF Interval, Timeout, Ticks
<1>3. CASE k = 2 * h + 1
  <2>1. k \div 2 = h /\ (k * 3) \div 2 = 3 * h + 1 /\ h >= 1
      BY <1>3
  <2> QED
      BY <1>3, <2>1 DEF Interval, Timeout, Ticks
<1> QED
    BY <1>1, <1>2, <1>3

\* The elements of a sequence.
LEMMA Elements ==
    ASSUME NEW S, NEW s \in Seq(S)
    PROVE  /\ DOMAIN s = 1 .. Len(s) /\ Len(s) \in Nat
           /\ \A i \in 1 .. Len(s) : s[i] \in S
           /\ s # << >> => s[1] \in S
OBVIOUS

KeepType ==
    /\ keep_alive \in KeepAliveValues
    /\ alive \in BOOLEAN /\ connected \in BOOLEAN
    /\ client_timer \in Nat /\ loop_timer \in Nat
    /\ flight \in Seq(0 .. MaxDelay)

KeepAliveInv ==
    /\ KeepType
    /\ alive => /\ connected
                /\ client_timer <= Interval(keep_alive)
                /\ flight = << >> => loop_timer <= client_timer
                /\ flight # << >> => loop_timer <= Interval(keep_alive) + flight[1]

LEMMA InitKeepAliveInv == ASSUME KeepAliveAssumption PROVE KeepAliveInit => KeepAliveInv
<1> SUFFICES ASSUME KeepAliveInit PROVE KeepAliveInv
    OBVIOUS
<1>1. keep_alive \in Nat /\ keep_alive >= 2
    BY DEF KeepAliveAssumption, KeepAliveInit
<1>2. Interval(keep_alive) \in Nat
    BY <1>1, Slack
<1> QED
    BY <1>2 DEF KeepAliveInit, KeepAliveInv, KeepType

LEMMA NextKeepAliveInv == ASSUME KeepAliveAssumption PROVE KeepAliveInv /\ [KeepAliveNext]_timer_vars => KeepAliveInv'
<1> SUFFICES ASSUME KeepAliveInv, [KeepAliveNext]_timer_vars PROVE KeepAliveInv'
    OBVIOUS
<1> DEFINE I == Interval(keep_alive)
           T == Timeout(keep_alive)
<1>0. MaxDelay \in Nat /\ I \in Nat /\ I > 0 /\ T \in Nat /\ I + MaxDelay < T
  <2>1. keep_alive \in Nat /\ keep_alive >= 2 /\ MaxDelay < Ticks(keep_alive) /\ MaxDelay \in Nat
      BY DEF KeepAliveAssumption, KeepAliveInv, KeepType
  <2> QED
      BY <2>1, Slack DEF Ticks
<1>1. CASE SendPing
  <2>0. client_timer = I /\ client_timer' = 0 /\ flight' = Append(flight, 0)
        /\ UNCHANGED <<keep_alive, alive, loop_timer, connected>>
      BY <1>1 DEF SendPing
  <2>1. flight' \in Seq(0 .. MaxDelay) /\ flight' # << >>
        /\ flight'[1] = IF flight = << >> THEN 0 ELSE flight[1]
    <3>1. flight \in Seq(0 .. MaxDelay) /\ 0 \in 0 .. MaxDelay
        BY <1>0 DEF KeepAliveInv, KeepType
    <3> QED
        BY <2>0, <3>1
  <2>2. I' = I
      BY <2>0
  <2> QED
      BY <1>0, <2>0, <2>1, <2>2 DEF KeepAliveInv, KeepType
<1>2. CASE ReadPacket
  <2>1. flight' \in Seq(0 .. MaxDelay)
      BY <1>2, HeadTailProperties DEF ReadPacket, KeepAliveInv, KeepType
  <2>2. I' = I /\ flight' # << >> => flight'[1] \in Nat
      BY <1>0, <1>2, <2>1, SMTT(30) DEF ReadPacket
  <2> QED
      BY <1>0, <1>2, <2>1, <2>2, SMTT(30) DEF ReadPacket, KeepAliveInv, KeepType
<1>3. CASE WriteMessage
  <2>1. I' = I /\ (flight # << >> => flight[1] \in Nat)
      BY <1>0, <1>3 DEF WriteMessage, KeepAliveInv, KeepType
  <2> QED
      BY <1>0, <1>3, <2>1 DEF WriteMessage, KeepAliveInv, KeepType
<1>4. CASE TimeOut
  <2>1. flight # << >> => flight[1] \in 0 .. MaxDelay
      BY Elements DEF KeepAliveInv, KeepType
  <2>2. ~alive
      BY <1>0, <1>4, <2>1 DEF TimeOut, KeepAliveInv, KeepType
  <2> QED
      BY <1>4, <2>2 DEF TimeOut, KeepAliveInv, KeepType
<1>5. CASE Die
    BY <1>5 DEF Die, KeepAliveInv, KeepType
<1>6. CASE Tick
  <2>0. /\ \A i \in DOMAIN flight : flight[i] < MaxDelay
        /\ flight' = [i \in DOMAIN flight |-> flight[i] + 1]
        /\ loop_timer' = loop_timer + 1
        /\ alive => client_timer < I /\ client_timer' = client_timer + 1
        /\ ~alive => client_timer' = client_timer
        /\ UNCHANGED <<keep_alive, alive, connected>>
      BY <1>6 DEF Tick
  <2>1. flight' \in Seq(0 .. MaxDelay) /\ Len(flight') = Len(flight)
        /\ \A i \in 1 .. Len(flight) : flight'[i] = flight[i] + 1
    <3>1. flight \in Seq(0 .. MaxDelay)
        BY DEF KeepAliveInv, KeepType
    <3>2. DOMAIN flight = 1 .. Len(flight) /\ Len(flight) \in Nat
          /\ \A i \in 1 .. Len(flight) : flight[i] \in 0 .. MaxDelay
        BY <3>1, Elements
    <3>3. \A i \in 1 .. Len(flight) : flight[i] + 1 \in 0 .. MaxDelay
        BY <1>0, <2>0, <3>2
    <3> QED
        BY <2>0, <3>2, <3>3
  <2>2. /\ flight = << >> <=> flight' = << >>
        /\ flight # << >> => flight[1] \in 0 .. MaxDelay /\ flight'[1] = flight[1] + 1
      BY <1>0, <2>1 DEF KeepAliveInv, KeepType
  <2>3. I' = I
      BY <2>0
  <2> QED
      BY <1>0, <2>0, <2>1, <2>2, <2>3, SMTT(30) DEF KeepAliveInv, KeepType
<1>7. CASE UNCHANGED timer_vars
    BY <1>7 DEF timer_vars, KeepAliveInv, KeepType
<1> QED
    BY <1>1, <1>2, <1>3, <1>4, <1>5, <1>6, <1>7 DEF KeepAliveNext

\* A client whose keepalive_task runs is never timed out by client_loop_v4/v5, for
\* every keep_alive of at least 2 seconds and pings that take less than keep_alive.
THEOREM LiveClientIsKept == ASSUME KeepAliveAssumption PROVE KeepAliveSpec => []LiveClientKept
<1>1. KeepAliveInv => LiveClientKept
    BY DEF KeepAliveInv, LiveClientKept
<1> QED
    BY InitKeepAliveInv, NextKeepAliveInv, <1>1, PTL DEF KeepAliveSpec
==============================================================================
