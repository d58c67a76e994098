------------------------------ MODULE GearPort ------------------------------
(***************************************************************************)
(* The server's port to a device (rust/chatgear/src/server_port.rs): the   *)
(* tasks recv_from starts for states and stats, the handle_* entry points, *)
(* and close.  The device sends over a pipe (conn_pipe.rs).                *)
(*                                                                         *)
(* `mode` says how the application feeds the port: through recv_from, by   *)
(* calling the handlers, or both.  The loop for state events and the       *)
(* handlers read the time of the current state under one lock and write    *)
(* under another, so these are steps of their own; merging stats is one    *)
(* critical section.  `closed` is a tokio RwLock that a handler holds for  *)
(* reading until it returns; a waiting writer keeps new readers out.       *)
(* Audio goes past all this: GearPipe follows it.                          *)
(*                                                                         *)
(* A stats event is a record of its time, last_reset_at and a function     *)
(* from fields to values or Absent. A versioned field (volume, brightness, *)
(* light mode, system version, pair status, wifi store) has a value        *)
(* [at, val] with its own update_at; a plain one (battery, cellular, wifi, *)
(* NFC tag, shaking) is just compared.                                     *)
(***************************************************************************)
EXTENDS Integers, Sequences, FiniteSets, FiniteSetsExt, SequenceTheorems, TLAPS

CONSTANTS
    Handler,      \* tasks that call handle_state_event and handle_stats_event
    Modes,        \* subset of {"recv", "handle", "both"}
    Time,         \* times of state events
    StatsEvent,   \* stats events of the device
    EventCap,     \* capacity of a channel (32)
    MaxEvents,    \* bound: events of each kind
    Versioned, Plain, Absent   \* fields of the stats

VARIABLES
    mode,
    uplink,        \* state events the connection has for the state loop
    stats_uplink,  \* stats events it has for the stats loop
    uplink_open,   \* the device's end of the connection exists
    events_sent, stats_sent,   \* how many the device has sent
    loop, loop_event,   \* where the state loop is, and with which event
    stats_loop,         \* where the stats loop is: "recv", "send", "ended"
    pending,            \* the changes it is sending
    at, event,          \* handler -> where it is, and with which event
    gear_state,         \* time of the last state event kept, or 0
    gear_stats,         \* the merged stats, or Absent
    state_ch, stats_ch, \* channels to the application
    cancelled, closed, closing,   \* close: "no", "waiting" (for the lock), "done"
    consumed,           \* times of the state events taken from the uplink
    replica             \* the application's copy of the stats, kept from the changes

ups == <<uplink, stats_uplink, uplink_open>>
loops == <<loop, loop_event, stats_loop, pending>>
handlers == <<at, event>>
closes == <<cancelled, closed, closing>>
port_vars == <<mode, ups, events_sent, stats_sent, loops, handlers, gear_state, gear_stats,
              state_ch, stats_ch, closes, consumed, replica>>

-----------------------------------------------------------------------------
(* Merging of device reports: GearStatsEvent::merge_with and               *)
(* GearStatsChanges::to_event (chatgear/src/stats.rs), and                 *)
(* GearStateEvent::merge_with (chatgear/src/state.rs).                     *)

Field == Versioned \cup Plain

\* The value `new` of field f replaces `old`.
Takes(f, old, new) ==
    /\ new # Absent
    /\ \/ old = Absent
       \/ f \in Versioned /\ new.at >= old.at
       \/ f \in Plain /\ new # old

\* Not the code: a reset without any other change is not reported.
ChangesWithoutReset(self, other) ==
    LET taken == {f \in Field : Takes(f, self.fields[f], other.fields[f])} IN
    IF other.time < self.time \/ taken = {} THEN Absent
    ELSE [time |-> other.time,
          last_reset_at |-> IF other.last_reset_at > self.last_reset_at THEN other.last_reset_at ELSE Absent,
          fields |-> [f \in Field |-> IF f \in taken THEN other.fields[f] ELSE Absent]]

\* The changes to `self` that `other` brings: Absent when other is older or brings
\* nothing; else the new time and the fields that were taken.
Changes(self, other) ==
    LET taken == {f \in Field : Takes(f, self.fields[f], other.fields[f])}
        reset == other.last_reset_at > self.last_reset_at
    IN IF other.time < self.time \/ (taken = {} /\ ~reset) THEN Absent
       ELSE [time |-> other.time,
             last_reset_at |-> IF reset THEN other.last_reset_at ELSE Absent,
             fields |-> [f \in Field |-> IF f \in taken THEN other.fields[f] ELSE Absent]]

\* What `self` becomes.
Merged(self, other) ==
    IF other.time < self.time THEN self
    ELSE [time |-> other.time,
          last_reset_at |-> IF other.last_reset_at > self.last_reset_at THEN other.last_reset_at
                            ELSE self.last_reset_at,
          fields |-> [f \in Field |-> IF Takes(f, self.fields[f], other.fields[f])
                                      THEN other.fields[f] ELSE self.fields[f]]]

\* Changes as an event again, to be merged elsewhere.
ToEvent(changes) ==
    [changes EXCEPT !.last_reset_at = IF @ = Absent THEN 0 ELSE @]

-----------------------------------------------------------------------------
\* ServerPort::new and recv_from.
PortInit ==
    /\ mode \in Modes
    /\ uplink = << >> /\ stats_uplink = << >> /\ uplink_open = TRUE /\ events_sent = 0 /\ stats_sent = 0
    /\ loop = (IF mode = "handle" THEN "ended" ELSE "recv") /\ loop_event = 0
    /\ stats_loop = (IF mode = "handle" THEN "ended" ELSE "recv") /\ pending = Absent
    /\ at = [h \in Handler |-> "idle"] /\ event = [h \in Handler |-> 0]
    /\ gear_state = 0 /\ gear_stats = Absent
    /\ state_ch = << >> /\ stats_ch = << >>
    /\ cancelled = FALSE /\ closed = FALSE /\ closing = "no"
    /\ consumed = {} /\ replica = Absent

-----------------------------------------------------------------------------
(* The device and its end of the pipe; its events come in any order.       *)

SendState(t) ==
    /\ mode # "handle" /\ uplink_open /\ events_sent < MaxEvents
    /\ events_sent' = events_sent + 1 /\ uplink' = Append(uplink, t)
    /\ UNCHANGED <<mode, stats_uplink, uplink_open, stats_sent, loops, handlers, gear_state,
                   gear_stats, state_ch, stats_ch, closes, consumed, replica>>

SendStats(e) ==
    /\ mode # "handle" /\ uplink_open /\ stats_sent < MaxEvents
    /\ stats_sent' = stats_sent + 1 /\ stats_uplink' = Append(stats_uplink, e)
    /\ UNCHANGED <<mode, uplink, uplink_open, events_sent, loops, handlers, gear_state,
                   gear_stats, state_ch, stats_ch, closes, consumed, replica>>

\* The device's end is dropped.
DropUplink ==
    /\ mode # "handle" /\ uplink_open
    /\ uplink_open' = FALSE
    /\ UNCHANGED <<mode, uplink, stats_uplink, events_sent, stats_sent, loops, handlers, gear_state,
                   gear_stats, state_ch, stats_ch, closes, consumed, replica>>

-----------------------------------------------------------------------------
(* The state loop of recv_from.                                            *)

\* It takes an event, unless the select sees the cancellation; `closed` is read
\* before the event is used.
LoopRecv ==
    /\ loop = "recv" /\ uplink # << >>
    /\ uplink' = Tail(uplink)
    /\ loop_event' = Head(uplink)
    /\ loop' = IF closed THEN "ended" ELSE "check"
    /\ consumed' = IF closed THEN consumed ELSE consumed \cup {Head(uplink)}
    /\ UNCHANGED <<mode, stats_uplink, uplink_open, events_sent, stats_sent, stats_loop, pending,
                   handlers, gear_state, gear_stats, state_ch, stats_ch, closes, replica>>

\* Not the code: no filter.
LoopCheckBlind ==
    /\ loop = "check"
    /\ loop' = "write"
    /\ UNCHANGED <<mode, ups, events_sent, stats_sent, loop_event, stats_loop, pending, handlers,
                   gear_state, gear_stats, state_ch, stats_ch, closes, consumed, replica>>

\* An event older than the state is skipped ...
LoopCheck ==
    /\ loop = "check"
    /\ loop' = IF loop_event < gear_state THEN "recv" ELSE "write"
    /\ UNCHANGED <<mode, ups, events_sent, stats_sent, loop_event, stats_loop, pending, handlers,
                   gear_state, gear_stats, state_ch, stats_ch, closes, consumed, replica>>

LoopWrite ==
    /\ loop = "write"
    /\ gear_state' = loop_event
    /\ loop' = "send"
    /\ UNCHANGED <<mode, ups, events_sent, stats_sent, loop_event, stats_loop, pending, handlers,
                   gear_stats, state_ch, stats_ch, closes, consumed, replica>>

\* ... and one that was kept waits for room in the channel.
LoopSend ==
    /\ loop = "send" /\ Len(state_ch) < EventCap
    /\ state_ch' = Append(state_ch, loop_event)
    /\ loop' = "recv"
    /\ UNCHANGED <<mode, ups, events_sent, stats_sent, loop_event, stats_loop, pending, handlers,
                   gear_state, gear_stats, stats_ch, closes, consumed, replica>>

-----------------------------------------------------------------------------
(* The stats loop of recv_from.                                            *)

StatsRecv ==
    LET e == Head(stats_uplink)
        changes == IF gear_stats = Absent THEN Absent ELSE Changes(gear_stats, e)
    IN /\ stats_loop = "recv" /\ stats_uplink # << >>
       /\ stats_uplink' = Tail(stats_uplink)
       /\ IF closed
            THEN stats_loop' = "ended" /\ UNCHANGED <<gear_stats, pending, replica>>
            ELSE /\ gear_stats' = IF gear_stats = Absent THEN e ELSE Merged(gear_stats, e)
                 /\ pending' = changes
                 /\ stats_loop' = IF changes = Absent THEN "recv" ELSE "send"
                 /\ replica' = IF gear_stats = Absent THEN e ELSE replica
       /\ UNCHANGED <<mode, uplink, uplink_open, events_sent, stats_sent, loop, loop_event, handlers,
                      gear_state, state_ch, stats_ch, closes, consumed>>

StatsSend ==
    /\ stats_loop = "send" /\ Len(stats_ch) < EventCap
    /\ stats_ch' = Append(stats_ch, pending)
    /\ pending' = Absent /\ stats_loop' = "recv"
    /\ UNCHANGED <<mode, ups, events_sent, stats_sent, loop, loop_event, handlers, gear_state,
                   gear_stats, state_ch, closes, consumed, replica>>

\* The channel of either loop has ended, with the device's error or without.
LoopEnds ==
    /\ ~uplink_open
    /\ \/ loop = "recv" /\ uplink = << >> /\ loop' = "ended" /\ UNCHANGED stats_loop
       \/ stats_loop = "recv" /\ stats_uplink = << >> /\ stats_loop' = "ended" /\ UNCHANGED loop
    /\ UNCHANGED <<mode, ups, events_sent, stats_sent, loop_event, pending, handlers, gear_state,
                   gear_stats, state_ch, stats_ch, closes, consumed, replica>>

\* The select of either loop sees the cancellation while it waits for the uplink.
LoopCancelled ==
    /\ cancelled
    /\ \/ loop = "recv" /\ loop' = "ended" /\ UNCHANGED stats_loop
       \/ stats_loop = "recv" /\ stats_loop' = "ended" /\ UNCHANGED loop
    /\ UNCHANGED <<mode, ups, events_sent, stats_sent, loop_event, pending, handlers, gear_state,
                   gear_stats, state_ch, stats_ch, closes, consumed, replica>>

-----------------------------------------------------------------------------
(* handle_state_event and handle_stats_event.                              *)

Holding == {h \in Handler : at[h] # "idle"}

\* closed.read(), held until the handler returns.
Handle(h, t) ==
    /\ mode # "recv" /\ at[h] = "idle" /\ closing # "waiting" /\ events_sent < MaxEvents
    /\ events_sent' = events_sent + 1
    /\ at' = [at EXCEPT ![h] = IF closed THEN "idle" ELSE "check"]
    /\ event' = [event EXCEPT ![h] = IF closed THEN 0 ELSE t]
    /\ consumed' = IF closed THEN consumed ELSE consumed \cup {t}
    /\ UNCHANGED <<mode, ups, stats_sent, loops, gear_state, gear_stats,
                   state_ch, stats_ch, closes, replica>>

HandleCheck(h) ==
    /\ at[h] = "check"
    /\ at' = [at EXCEPT ![h] = IF event[h] < gear_state THEN "idle" ELSE "write"]
    /\ event' = [event EXCEPT ![h] = IF @ < gear_state THEN 0 ELSE @]
    /\ UNCHANGED <<mode, ups, events_sent, stats_sent, loops, gear_state, gear_stats,
                   state_ch, stats_ch, closes, consumed, replica>>

HandleWrite(h) ==
    /\ at[h] = "write"
    /\ gear_state' = event[h]
    /\ at' = [at EXCEPT ![h] = "send"]
    /\ UNCHANGED <<mode, ups, events_sent, stats_sent, loops, event, gear_stats,
                   state_ch, stats_ch, closes, consumed, replica>>

HandleSend(h) ==
    /\ at[h] = "send" /\ Len(state_ch) < EventCap
    /\ state_ch' = Append(state_ch, event[h])
    /\ at' = [at EXCEPT ![h] = "idle"] /\ event' = [event EXCEPT ![h] = 0]
    /\ UNCHANGED <<mode, ups, events_sent, stats_sent, loops, gear_state, gear_stats,
                   stats_ch, closes, consumed, replica>>

HandleStats(h, e) ==
    /\ mode # "recv" /\ at[h] = "idle" /\ closing # "waiting" /\ stats_sent < MaxEvents
    /\ stats_sent' = stats_sent + 1
    /\ at' = [at EXCEPT ![h] = IF closed THEN "idle" ELSE "merge"]
    /\ event' = [event EXCEPT ![h] = IF closed THEN 0 ELSE e]
    /\ UNCHANGED <<mode, ups, events_sent, loops, gear_state, gear_stats,
                   state_ch, stats_ch, closes, consumed, replica>>

\* One critical section; the first event is kept and not told of.
HandleMerge(h) ==
    LET e == event[h]
        changes == IF gear_stats = Absent THEN Absent ELSE Changes(gear_stats, e)
    IN /\ at[h] = "merge"
       /\ gear_stats' = IF gear_stats = Absent THEN e ELSE Merged(gear_stats, e)
       /\ replica' = IF gear_stats = Absent THEN e ELSE replica
       /\ at' = [at EXCEPT ![h] = IF changes = Absent THEN "idle" ELSE "tell"]
       /\ event' = [event EXCEPT ![h] = IF changes = Absent THEN 0 ELSE changes]
       /\ UNCHANGED <<mode, ups, events_sent, stats_sent, loops, gear_state, state_ch, stats_ch,
                      closes, consumed>>

HandleTell(h) ==
    /\ at[h] = "tell" /\ Len(stats_ch) < EventCap
    /\ stats_ch' = Append(stats_ch, event[h])
    /\ at' = [at EXCEPT ![h] = "idle"] /\ event' = [event EXCEPT ![h] = 0]
    /\ UNCHANGED <<mode, ups, events_sent, stats_sent, loops, gear_state, gear_stats,
                   state_ch, closes, consumed, replica>>

-----------------------------------------------------------------------------
(* The application.                                                        *)

RecvStateEvent ==
    /\ state_ch # << >>
    /\ state_ch' = Tail(state_ch)
    /\ UNCHANGED <<mode, ups, events_sent, stats_sent, loops, handlers, gear_state, gear_stats,
                   stats_ch, closes, consumed, replica>>

RecvStatsChanges ==
    /\ stats_ch # << >>
    /\ stats_ch' = Tail(stats_ch)
    /\ replica' = Merged(replica, ToEvent(Head(stats_ch)))
    /\ UNCHANGED <<mode, ups, events_sent, stats_sent, loops, handlers, gear_state, gear_stats,
                   state_ch, closes, consumed>>

\* Not the code: the tasks are not cancelled.
CloseForgetsTasks ==
    /\ closing = "no"
    /\ closing' = "waiting"
    /\ UNCHANGED <<mode, ups, events_sent, stats_sent, loops, handlers, gear_state, gear_stats,
                   state_ch, stats_ch, cancelled, closed, consumed, replica>>

\* close cancels the tasks and asks for the write lock ...
Close ==
    /\ closing = "no"
    /\ cancelled' = TRUE /\ closing' = "waiting"
    /\ UNCHANGED <<mode, ups, events_sent, stats_sent, loops, handlers, gear_state, gear_stats,
                   state_ch, stats_ch, closed, consumed, replica>>

\* ... which it gets when no handler is left inside.
CloseLocked ==
    /\ closing = "waiting" /\ Holding = {}
    /\ closed' = TRUE /\ closing' = "done"
    /\ UNCHANGED <<mode, ups, events_sent, stats_sent, loops, handlers, gear_state, gear_stats,
                   state_ch, stats_ch, cancelled, consumed, replica>>

-----------------------------------------------------------------------------
LoopStep == LoopRecv \/ LoopCheck \/ LoopWrite \/ LoopSend
StatsStep == StatsRecv \/ StatsSend
HandleStep(h) ==
    HandleCheck(h) \/ HandleWrite(h) \/ HandleSend(h) \/ HandleMerge(h) \/ HandleTell(h)

PortNext ==
    \/ \E t \in Time : SendState(t) \/ \E h \in Handler : Handle(h, t)
    \/ \E e \in StatsEvent : SendStats(e) \/ \E h \in Handler : HandleStats(h, e)
    \/ DropUplink \/ LoopStep \/ StatsStep \/ LoopEnds \/ LoopCancelled
    \/ \E h \in Handler : HandleStep(h)
    \/ RecvStateEvent \/ RecvStatsChanges \/ Close \/ CloseLocked

\* Tasks that can go on do, and the application reads what it is sent.
PortSpec ==
    /\ PortInit /\ [][PortNext]_port_vars
    /\ WF_port_vars(LoopStep) /\ WF_port_vars(StatsStep) /\ WF_port_vars(LoopEnds) /\ WF_port_vars(LoopCancelled)
    /\ \A h \in Handler : WF_port_vars(HandleStep(h))
    /\ WF_port_vars(RecvStateEvent) /\ WF_port_vars(RecvStatsChanges) /\ WF_port_vars(CloseLocked)

-----------------------------------------------------------------------------
\* Between two events the state is the newest one that came, in whatever order they
\* came ("Filter out-of-order events").
NewestKept ==
    loop \in {"recv", "ended"} /\ Holding = {} => gear_state = Max(consumed \cup {0})

\* An application that merges every GearStatsChanges it receives into the first
\* stats ends up with the same stats as the port: no change goes unreported, and
\* none is reported that was not made.
ChangesReplay ==
    gear_stats # Absent /\ stats_ch = << >> /\ stats_loop # "send" /\ Holding = {} =>
        replica.fields = gear_stats.fields /\ replica.last_reset_at = gear_stats.last_reset_at

PortClosing == closing = "waiting"
AllEnded == closing = "done" /\ loop = "ended" /\ stats_loop = "ended"

\* close returns and the tasks of recv_from end, although a handler holds the lock
\* and a task may wait for room, as long as the application goes on reading.
CloseEndsAll == PortClosing ~> AllEnded

-----------------------------------------------------------------------------
(* Proof that the newest state is kept by a port that is fed by one task at  *)
(* a time; two could both pass the check before either writes.  The event in *)
(* hand between the check and the write is the newest, or the state is; once *)
(* it is written, both are.                                                  *)

\* A port is fed by recv_from or by one caller of the handlers, never by both.
OneFeeder ==
    /\ Modes \subseteq {"recv", "handle"} /\ \E h \in Handler : Handler = {h}
    /\ Time \subseteq Nat

\* The newest of the events taken, `seen`.
IsNewest(t, seen) == t \in seen \cup {0} /\ \A u \in seen : u <= t

\* What holds of the state's time and the events taken while the one feeder is at
\* place w with event e.
FedOK(w, e, state, seen) ==
    /\ w = "check" => /\ e \in Nat
                      /\ e < state => IsNewest(state, seen)
                      /\ e >= state => IsNewest(e, seen)
    /\ w = "write" => e \in Nat /\ IsNewest(e, seen)
    /\ w = "send" => e \in Nat /\ IsNewest(e, seen) /\ state = e
    /\ w \notin {"check", "write", "send"} => IsNewest(state, seen)

Where == {"idle", "check", "write", "send", "merge", "tell"}

FeedType ==
    /\ mode \in Modes /\ uplink \in Seq(Time) /\ gear_state \in Nat /\ consumed \subseteq Nat
    /\ at \in [Handler -> Where] /\ event = [h \in Handler |-> event[h]]

FeedOK ==
    /\ mode = "recv" => FedOK(loop, loop_event, gear_state, consumed) /\ \A h \in Handler : at[h] = "idle"
    /\ mode = "handle" => loop = "ended" /\ \A h \in Handler : FedOK(at[h], event[h], gear_state, consumed)

PortInv == FeedType /\ FeedOK

\* The newest is what Max finds.
LEMMA NewestIsMax ==
    ASSUME consumed \subseteq Nat, NEW t \in Nat, IsNewest(t, consumed)
    PROVE  t = Max(consumed \cup {0})
<1> DEFINE S == consumed \cup {0}
           P(x) == x \in S /\ \A y \in S : x >= y
<1>1. P(t)
    BY DEF IsNewest
<1>2. \A x : P(x) => x = t
    BY <1>1
<1>3. Max(S) = CHOOSE x : P(x)
    BY DEF Max
<1> HIDE DEF P
<1> QED
    BY <1>1, <1>2, <1>3

LEMMA InitPortInv == ASSUME OneFeeder PROVE PortInit => PortInv
<1> SUFFICES ASSUME PortInit PROVE PortInv
    OBVIOUS
<1>1. FeedType
    BY DEF PortInit, FeedType, Where
<1>2. FeedOK
    BY DEF PortInit, FeedOK, FedOK, IsNewest
<1> QED
    BY <1>1, <1>2 DEF PortInv

\* Steps that concern neither the states nor their feeder.
LEMMA Elsewhere ==
    ASSUME PortInv, UNCHANGED <<mode, loop, loop_event, at, event, gear_state, consumed>>,
           uplink' \in Seq(Time)
    PROVE  PortInv'
<1>1. FeedType'
    BY DEF PortInv, FeedType
<1>2. FeedOK'
    BY DEF PortInv, FeedOK, FedOK, IsNewest
<1> QED
    BY <1>1, <1>2 DEF PortInv

\* Taking an event, testing it, writing it and being done, by either kind of feeder.
LEMMA Feeding ==
    ASSUME NEW seen \in SUBSET Nat, NEW state \in Nat, NEW w, NEW e, FedOK(w, e, state, seen)
    PROVE  /\ w \notin {"check", "write", "send"} =>
                 \A t \in Nat : FedOK("check", t, state, seen \cup {t})
           /\ w = "check" /\ e < state => FedOK("idle", 0, state, seen) /\ FedOK("recv", e, state, seen)
           /\ w = "check" /\ ~(e < state) => FedOK("write", e, state, seen)
           /\ w = "write" => FedOK("send", e, e, seen) /\ e \in Nat
           /\ w \notin {"check", "write"} =>
                 \A v, d : v \notin {"check", "write", "send"} => FedOK(v, d, state, seen)
BY DEF FedOK, IsNewest

LEMMA LoopKeeps ==
    ASSUME OneFeeder, PortInv, LoopStep
    PROVE  PortInv'
<1> USE DEF ups, loops, handlers, closes
<1>0. /\ mode = "recv" /\ mode' = "recv" /\ FedOK(loop, loop_event, gear_state, consumed)
      /\ \A h \in Handler : at[h] = "idle" /\ at'[h] = "idle"
      /\ UNCHANGED <<at, event>> /\ gear_state \in Nat /\ consumed \subseteq Nat
    BY DEF OneFeeder, PortInv, FeedType, FeedOK, LoopStep, LoopRecv, LoopCheck, LoopWrite, LoopSend
<1>1. CASE LoopRecv
  <2>1. uplink' \in Seq(Time) /\ Head(uplink) \in Nat
      BY <1>1, HeadTailProperties DEF LoopRecv, PortInv, FeedType, OneFeeder
  <2>2. FeedType'
      BY <1>0, <1>1, <2>1 DEF LoopRecv, PortInv, FeedType
  <2>3. FedOK(loop', loop_event', gear_state', consumed')
    <3>1. CASE closed
        BY <1>0, <1>1, <3>1, Feeding DEF LoopRecv
    <3>2. CASE ~closed
      <4>1. FedOK("check", Head(uplink), gear_state', consumed')
        <5>1. loop \notin {"check", "write", "send"} /\ consumed' = consumed \cup {Head(uplink)}
              /\ gear_state' = gear_state
            BY <1>1, <3>2 DEF LoopRecv
        <5> QED
            BY <1>0, <2>1, <5>1, Feeding
      <4> QED
          BY <1>1, <3>2, <4>1, Feeding DEF LoopRecv
    <3> QED
        BY <3>1, <3>2
  <2> QED
      BY <1>0, <2>2, <2>3 DEF PortInv, FeedOK
<1>2. CASE LoopCheck
  <2>1. FedOK(loop', loop_event', gear_state', consumed')
      BY <1>0, <1>2, Feeding DEF LoopCheck
  <2>2. FeedType'
      BY <1>0, <1>2 DEF LoopCheck, PortInv, FeedType
  <2> QED
      BY <1>0, <2>1, <2>2 DEF PortInv, FeedOK
<1>3. CASE LoopWrite
  <2>1. FedOK(loop', loop_event', gear_state', consumed')
      BY <1>0, <1>3, Feeding DEF LoopWrite
  <2>2. FeedType'
      BY <1>0, <1>3 DEF LoopWrite, PortInv, FeedType, FedOK
  <2> QED
      BY <1>0, <2>1, <2>2 DEF PortInv, FeedOK
<1>4. CASE LoopSend
  <2>1. FedOK(loop', loop_event', gear_state', consumed')
      BY <1>0, <1>4 DEF LoopSend, FedOK
  <2>2. FeedType'
      BY <1>0, <1>4 DEF LoopSend, PortInv, FeedType
  <2> QED
      BY <1>0, <2>1, <2>2 DEF PortInv, FeedOK
<1> QED
    BY <1>1, <1>2, <1>3, <1>4 DEF LoopStep

\* A handler at place w goes to place v; it is the only one.
LEMMA HandlerKeeps ==
    ASSUME OneFeeder, PortInv, NEW h \in Handler, mode = "handle", NEW v \in Where, NEW d,
           at' = [at EXCEPT ![h] = v], event' = [event EXCEPT ![h] = d], FedOK(v, d, gear_state', consumed'),
           gear_state' \in Nat, consumed' \subseteq Nat, UNCHANGED <<mode, uplink, loop>>
    PROVE  PortInv'
<1>1. FeedType'
    BY DEF PortInv, FeedType
<1>2. ASSUME NEW g \in Handler PROVE FedOK(at'[g], event'[g], gear_state', consumed')
  <2>1. g = h
      BY DEF OneFeeder
  <2>2. at'[g] = v /\ event'[g] = d
      BY <2>1 DEF PortInv, FeedType
  <2> QED
      BY <2>2
<1>3. FeedOK'
    BY <1>2 DEF PortInv, FeedOK
<1> QED
    BY <1>1, <1>3 DEF PortInv

LEMMA HandlesKeep ==
    ASSUME OneFeeder, PortInv, NEW h \in Handler,
           \/ HandleStep(h) \/ (\E t \in Time : Handle(h, t))
           \/ \E e \in StatsEvent : HandleStats(h, e)
    PROVE  PortInv'
<1> USE DEF ups, loops, handlers, closes
<1>0. /\ mode = "handle" /\ FedOK(at[h], event[h], gear_state, consumed) /\ UNCHANGED <<mode, uplink, loop>>
      /\ gear_state \in Nat /\ consumed \subseteq Nat /\ event = [event EXCEPT ![h] = event[h]]
  <2>1. mode \in {"recv", "handle"} /\ gear_state \in Nat /\ consumed \subseteq Nat
        /\ event = [event EXCEPT ![h] = event[h]]
      BY DEF OneFeeder, PortInv, FeedType
  <2>2. mode # "recv"
      BY DEF PortInv, FeedOK, HandleStep, Handle, HandleCheck, HandleWrite, HandleSend, HandleStats,
             HandleMerge, HandleTell
  <2>3. UNCHANGED <<mode, uplink, loop>>
      BY DEF HandleStep, Handle, HandleCheck, HandleWrite, HandleSend, HandleStats, HandleMerge,
             HandleTell
  <2> QED
      BY <2>1, <2>2, <2>3 DEF PortInv, FeedOK
<1>1. ASSUME NEW t \in Time, Handle(h, t) PROVE PortInv'
  <2>0. t \in Nat
      BY DEF OneFeeder
  <2>1. CASE closed
    <3>1. FedOK("idle", 0, gear_state', consumed')
        BY <1>0, <1>1, <2>1 DEF Handle, FedOK, IsNewest
    <3> QED
        BY <1>0, <1>1, <2>1, <3>1, HandlerKeeps DEF Where, Handle
  <2>2. CASE ~closed
    <3>1. FedOK("check", t, gear_state', consumed')
        BY <1>0, <1>1, <2>0, <2>2 DEF Handle, FedOK, IsNewest
    <3> QED
        BY <1>0, <1>1, <2>0, <2>2, <3>1, HandlerKeeps DEF Where, Handle
  <2> QED
      BY <2>1, <2>2
<1>2. CASE HandleCheck(h)
  <2>1. CASE event[h] < gear_state
    <3>1. FedOK("idle", 0, gear_state', consumed')
        BY <1>0, <1>2, <2>1, Feeding DEF HandleCheck
    <3> QED
        BY <1>0, <1>2, <2>1, <3>1, HandlerKeeps DEF Where, HandleCheck
  <2>2. CASE ~(event[h] < gear_state)
    <3>1. FedOK("write", event[h], gear_state', consumed')
        BY <1>0, <1>2, <2>2, Feeding DEF HandleCheck
    <3> QED
        BY <1>0, <1>2, <2>2, <3>1, HandlerKeeps DEF Where, HandleCheck
  <2> QED
      BY <2>1, <2>2
<1>3. CASE HandleWrite(h)
  <2>1. FedOK("send", event[h], gear_state', consumed') /\ gear_state' \in Nat
      BY <1>0, <1>3, Feeding DEF HandleWrite
  <2>2. at' = [at EXCEPT ![h] = "send"] /\ event' = [event EXCEPT ![h] = event[h]] /\ consumed' = consumed
      BY <1>0, <1>3 DEF HandleWrite
  <2> QED
      BY <1>0, <2>1, <2>2, HandlerKeeps DEF Where
<1>4. CASE HandleSend(h)
  <2>1. FedOK("idle", 0, gear_state', consumed')
      BY <1>0, <1>4, Feeding DEF HandleSend
  <2> QED
      BY <1>0, <1>4, <2>1, HandlerKeeps DEF Where, HandleSend
<1>5. ASSUME NEW e \in StatsEvent, HandleStats(h, e) PROVE PortInv'
  <2>1. \A d : FedOK("idle", d, gear_state', consumed') /\ FedOK("merge", d, gear_state', consumed')
      BY <1>0, <1>5, Feeding DEF HandleStats
  <2>2. CASE closed
      BY <1>0, <1>5, <2>1, <2>2, HandlerKeeps DEF Where, HandleStats
  <2>3. CASE ~closed
      BY <1>0, <1>5, <2>1, <2>3, HandlerKeeps DEF Where, HandleStats
  <2> QED
      BY <2>2, <2>3
<1>6. CASE HandleMerge(h)
  <2>1. \A d : FedOK("idle", d, gear_state', consumed') /\ FedOK("tell", d, gear_state', consumed')
      BY <1>0, <1>6, Feeding DEF HandleMerge
  <2>2. PICK v, d : v \in {"idle", "tell"} /\ at' = [at EXCEPT ![h] = v] /\ event' = [event EXCEPT ![h] = d]
      BY <1>6 DEF HandleMerge
  <2>3. gear_state' = gear_state /\ consumed' = consumed /\ v \in Where
      BY <1>6, <2>2 DEF HandleMerge, Where
  <2>4. FedOK(v, d, gear_state', consumed')
      BY <2>1, <2>2
  <2> QED
      BY <1>0, <2>2, <2>3, <2>4, HandlerKeeps
<1>7. CASE HandleTell(h)
  <2>1. FedOK("idle", 0, gear_state', consumed')
      BY <1>0, <1>7, Feeding DEF HandleTell
  <2> QED
      BY <1>0, <1>7, <2>1, HandlerKeeps DEF Where, HandleTell
<1> QED
    BY <1>1, <1>2, <1>3, <1>4, <1>5, <1>6, <1>7 DEF HandleStep

LEMMA NextPortInv == ASSUME OneFeeder PROVE PortInv /\ [PortNext]_port_vars => PortInv'
<1> SUFFICES ASSUME PortInv, [PortNext]_port_vars PROVE PortInv'
    OBVIOUS
<1> USE DEF ups, loops, handlers, closes
<1>0. uplink \in Seq(Time)
    BY DEF PortInv, FeedType
<1>1. ASSUME NEW t \in Time, SendState(t) PROVE PortInv'
  <2>1. uplink' \in Seq(Time)
      BY <1>0, <1>1 DEF SendState
  <2> QED
      BY <1>1, <2>1, Elsewhere DEF SendState
<1>2. ASSUME NEW e \in StatsEvent, SendStats(e) PROVE PortInv'
    BY <1>0, <1>2, Elsewhere DEF SendStats
<1>3. CASE LoopStep
    BY <1>3, LoopKeeps
<1>4. ASSUME NEW h \in Handler,
             \/ HandleStep(h) \/ (\E t \in Time : Handle(h, t))
           \/ \E e \in StatsEvent : HandleStats(h, e)
      PROVE  PortInv'
    BY <1>4, HandlesKeep
<1>5. CASE StatsStep
    BY <1>0, <1>5, Elsewhere DEF StatsStep, StatsRecv, StatsSend
<1>6. CASE LoopEnds \/ LoopCancelled
  <2>0. UNCHANGED <<mode, uplink, loop_event, at, event, gear_state, consumed>>
      BY <1>6 DEF LoopEnds, LoopCancelled
  <2>1. CASE loop' = loop
      BY <1>0, <2>0, <2>1, Elsewhere
  <2>2. CASE loop' # loop
    <3>1. loop = "recv" /\ loop' = "ended"
        BY <1>6, <2>2 DEF LoopEnds, LoopCancelled
    <3>2. mode = "recv" => FedOK(loop', loop_event', gear_state', consumed')
        BY <2>0, <3>1 DEF PortInv, FeedOK, FedOK, IsNewest
    <3>3. FeedType'
        BY <2>0 DEF PortInv, FeedType
    <3> QED
        BY <2>0, <3>1, <3>2, <3>3 DEF PortInv, FeedOK
  <2> QED
      BY <2>1, <2>2
<1>7. CASE DropUplink \/ RecvStateEvent \/ RecvStatsChanges \/ Close \/ CloseLocked
    BY <1>0, <1>7, Elsewhere DEF DropUplink, RecvStateEvent, RecvStatsChanges, Close, CloseLocked
<1>8. CASE UNCHANGED port_vars
    BY <1>0, <1>8, Elsewhere DEF port_vars
<1> QED
    BY <1>1, <1>2, <1>3, <1>4, <1>5, <1>6, <1>7, <1>8 DEF PortNext

\* Between two events the port keeps the newest state that came, in whatever order
\* states come and whatever stats, closes and cancellations come between: for any
\* times and any number of events, fed by recv_from or by one handler.
THEOREM NewestCorrect == ASSUME OneFeeder PROVE PortSpec => []NewestKept
<1>1. PortInv => NewestKept
  <2> SUFFICES ASSUME PortInv, loop \in {"recv", "ended"}, Holding = {}
               PROVE  gear_state = Max(consumed \cup {0})
      BY DEF NewestKept
  <2>1. mode \in {"recv", "handle"} /\ gear_state \in Nat /\ consumed \subseteq Nat
      BY DEF OneFeeder, PortInv, FeedType
  <2>2. IsNewest(gear_state, consumed)
    <3>1. CASE mode = "recv"
        BY <3>1 DEF PortInv, FeedOK, FedOK
    <3>2. CASE mode = "handle"
      <4>1. PICK h \in Handler : at[h] = "idle"
          BY DEF OneFeeder, Holding
      <4> QED
          BY <3>2, <4>1 DEF PortInv, FeedOK, FedOK
    <3> QED
        BY <2>1, <3>1, <3>2
  <2> QED
      BY <2>1, <2>2, NewestIsMax
<1> QED
    BY InitPortInv, NextPortInv, <1>1, PTL DEF PortSpec

-----------------------------------------------------------------------------
(* Proof that an application which merges the changes it is told ends up    *)
(* with the stats of the port.  Field by field, the changes on the way form *)
(* a chain, each of which may replace the one before it and the value the   *)
(* application has; the last of them is the value of the port.              *)

Value == {e.fields[f] : e \in StatsEvent, f \in Field} \cup {Absent}
Fields == {F \in [Field -> Value] : \A f \in Versioned : F[f] # Absent => F[f].at \in Nat}
Stats == [time : Nat, last_reset_at : Nat, fields : Fields]
Change == [time : Nat, last_reset_at : Nat \cup {Absent}, fields : Fields]

\* Times are numbers, and Absent (None) is no value of the code's types.
ReportsOK == StatsEvent \subseteq Stats /\ Absent \notin Nat /\ Absent \notin Stats /\ Absent \notin Change

\* p[2] may come after p[1] as the value of field f, and as the time of the last reset.
Order(f) == {p \in Value \X Value : /\ p[2] # Absent
                                    /\ \/ p[1] = Absent \/ f \in Plain
                                       \/ p[1].at \in Nat /\ p[2].at \in Nat /\ p[1].at <= p[2].at}
ResetOrder == {p \in Nat \X Nat : p[1] <= p[2]}

\* The change c of a value in that order.
Brings(ord, old, c, new) ==
    \/ c = Absent /\ new = old
    \/ c # Absent /\ <<old, c>> \in ord /\ new = c

\* The n changes v lead from r to g.
Replays(ord, r, v, n, g) ==
    /\ \A i \in 1 .. n : v[i] # Absent => <<r, v[i]>> \in ord
    /\ \A i, j \in 1 .. n : i < j /\ v[i] # Absent /\ v[j] # Absent => <<v[i], v[j]>> \in ord
    /\ \/ g = r /\ \A i \in 1 .. n : v[i] = Absent
       \/ \E i \in 1 .. n : v[i] = g /\ g # Absent /\ \A j \in 1 .. n : j > i => v[j] = Absent

\* The changes q lead from the stats r to the stats g.
Agreed(r, q, g) ==
    /\ q \in Seq(Change)
    /\ r.time <= g.time
    /\ \A i \in 1 .. Len(q) : r.time <= q[i].time /\ q[i].time <= g.time
    /\ \A i, j \in 1 .. Len(q) : i < j => q[i].time <= q[j].time
    /\ \A f \in Field : Replays(Order(f), r.fields[f], [i \in 1 .. Len(q) |-> q[i].fields[f]], Len(q), g.fields[f])
    /\ Replays(ResetOrder, r.last_reset_at, [i \in 1 .. Len(q) |-> q[i].last_reset_at], Len(q), g.last_reset_at)

\* The changes in the channel ch and the one that a feeder is sending.
Way(loop_at, change, ch, places, held) ==
    IF loop_at = "send" THEN Append(ch, change)
    ELSE IF \E h \in Handler : places[h] = "tell" THEN Append(ch, held[CHOOSE h \in Handler : places[h] = "tell"])
    ELSE ch

OnTheWay == Way(stats_loop, pending, stats_ch, at, event)

ReplayType ==
    /\ stats_uplink \in Seq(StatsEvent) /\ stats_ch \in Seq(Change)
    /\ mode = "handle" => stats_loop = "ended"
    /\ \A h \in Handler : at[h] = "merge" => event[h] \in StatsEvent

ReplayOK ==
    /\ gear_stats = Absent => OnTheWay = << >>
    /\ gear_stats # Absent => gear_stats \in Stats /\ replica \in Stats /\ Agreed(replica, OnTheWay, gear_stats)

ReplayInv == PortInv /\ ReplayType /\ ReplayOK

\* One more change, and one taken.
LEMMA ReplaysAppend ==
    ASSUME NEW ord, \A a, b, c : <<a, b>> \in ord /\ <<b, c>> \in ord => <<a, c>> \in ord,
           NEW r, NEW n \in Nat, NEW v, NEW g, Replays(ord, r, v, n, g),
           NEW c, NEW new, Brings(ord, g, c, new),
           NEW w, \A i \in 1 .. n : w[i] = v[i], w[n + 1] = c
    PROVE  Replays(ord, r, w, n + 1, new)
<1>0. \A i \in 1 .. n + 1 : i \in 1 .. n \/ i = n + 1
    OBVIOUS
<1>1. CASE c = Absent
  <2>1. new = g
      BY <1>1 DEF Brings
  <2>2. \A i \in 1 .. n + 1 : w[i] # Absent => i \in 1 .. n /\ w[i] = v[i]
      BY <1>0, <1>1
  <2>3. \A i \in 1 .. n + 1 : w[i] # Absent => <<r, w[i]>> \in ord
      BY <2>2 DEF Replays
  <2>4. \A i, j \in 1 .. n + 1 : i < j /\ w[i] # Absent /\ w[j] # Absent => <<w[i], w[j]>> \in ord
      BY <2>2 DEF Replays
  <2>5. \/ new = r /\ \A i \in 1 .. n + 1 : w[i] = Absent
        \/ \E i \in 1 .. n + 1 : w[i] = new /\ new # Absent /\ \A j \in 1 .. n + 1 : j > i => w[j] = Absent
    <3>1. CASE g = r /\ \A i \in 1 .. n : v[i] = Absent
        BY <2>1, <2>2, <3>1
    <3>2. ASSUME NEW i \in 1 .. n, v[i] = g, g # Absent, \A j \in 1 .. n : j > i => v[j] = Absent
          PROVE  i \in 1 .. n + 1 /\ w[i] = new /\ new # Absent /\ \A j \in 1 .. n + 1 : j > i => w[j] = Absent
        BY <2>1, <2>2, <3>2
    <3> QED
        BY <3>1, <3>2 DEF Replays
  <2> QED
      BY <2>3, <2>4, <2>5 DEF Replays
<1>2. CASE c # Absent
  <2>1. new = c /\ <<g, c>> \in ord
      BY <1>2 DEF Brings
  <2>2. <<r, c>> \in ord /\ \A i \in 1 .. n : v[i] # Absent => <<v[i], c>> \in ord
    <3>1. CASE g = r /\ \A i \in 1 .. n : v[i] = Absent
        BY <2>1, <3>1
    <3>2. ASSUME NEW k \in 1 .. n, v[k] = g, g # Absent, \A j \in 1 .. n : j > k => v[j] = Absent
          PROVE  <<r, c>> \in ord /\ \A i \in 1 .. n : v[i] # Absent => <<v[i], c>> \in ord
      <4>1. <<r, g>> \in ord
          BY <3>2 DEF Replays
      <4>2. ASSUME NEW i \in 1 .. n, v[i] # Absent PROVE <<v[i], c>> \in ord
        <5>1. i < k \/ i = k
            BY <3>2, <4>2
        <5>2. i < k => <<v[i], g>> \in ord
            BY <3>2, <4>2 DEF Replays
        <5> QED
            BY <2>1, <3>2, <5>1, <5>2
      <4> QED
          BY <2>1, <4>1, <4>2
    <3> QED
        BY <3>1, <3>2 DEF Replays
  <2>3. \A i \in 1 .. n + 1 : w[i] # Absent => <<r, w[i]>> \in ord
      BY <1>0, <2>2 DEF Replays
  <2>4. ASSUME NEW i \in 1 .. n + 1, NEW j \in 1 .. n + 1, i < j, w[i] # Absent, w[j] # Absent
        PROVE  <<w[i], w[j]>> \in ord
    <3>1. i \in 1 .. n /\ w[i] = v[i]
        BY <2>4
    <3>2. CASE j = n + 1
        BY <2>2, <2>4, <3>1, <3>2
    <3>3. CASE j \in 1 .. n
        BY <2>4, <3>1, <3>3 DEF Replays
    <3> QED
        BY <1>0, <3>2, <3>3
  <2>5. n + 1 \in 1 .. n + 1 /\ w[n + 1] = new /\ new # Absent /\ \A j \in 1 .. n + 1 : j > n + 1 => w[j] = Absent
      BY <1>2, <2>1
  <2> QED
      BY <2>3, <2>4, <2>5 DEF Replays
<1> QED
    BY <1>1, <1>2

LEMMA ReplaysTail ==
    ASSUME NEW ord, NEW r, NEW n \in Nat, n > 0, NEW v, NEW g, Replays(ord, r, v, n, g),
           NEW w, \A i \in 1 .. n - 1 : w[i] = v[i + 1]
    PROVE  /\ v[1] = Absent => Replays(ord, r, w, n - 1, g)
           /\ v[1] # Absent => Replays(ord, v[1], w, n - 1, g)
<1> DEFINE new == IF v[1] = Absent THEN r ELSE v[1]
<1>0. \A i \in 1 .. n - 1 : i + 1 \in 1 .. n /\ 1 \in 1 .. n /\ 1 < i + 1
    OBVIOUS
<1>1. \A i \in 1 .. n - 1 : w[i] # Absent => <<new, w[i]>> \in ord
    BY <1>0 DEF Replays
<1>2. \A i, j \in 1 .. n - 1 : i < j /\ w[i] # Absent /\ w[j] # Absent => <<w[i], w[j]>> \in ord
  <2> SUFFICES ASSUME NEW i \in 1 .. n - 1, NEW j \in 1 .. n - 1, i < j, w[i] # Absent, w[j] # Absent
               PROVE  <<w[i], w[j]>> \in ord
      OBVIOUS
  <2>1. i + 1 < j + 1
      OBVIOUS
  <2> QED
      BY <1>0, <2>1 DEF Replays
<1>3. \/ g = new /\ \A i \in 1 .. n - 1 : w[i] = Absent
      \/ \E i \in 1 .. n - 1 : w[i] = g /\ g # Absent /\ \A j \in 1 .. n - 1 : j > i => w[j] = Absent
  <2>1. CASE g = r /\ \A i \in 1 .. n : v[i] = Absent
      BY <1>0, <2>1
  <2>2. ASSUME NEW k \in 1 .. n, v[k] = g, g # Absent, \A j \in 1 .. n : j > k => v[j] = Absent
        PROVE  \/ g = new /\ \A i \in 1 .. n - 1 : w[i] = Absent
               \/ \E i \in 1 .. n - 1 : w[i] = g /\ g # Absent /\ \A j \in 1 .. n - 1 : j > i => w[j] = Absent
    <3>1. CASE k = 1
        BY <1>0, <2>2, <3>1
    <3>2. CASE k > 1
      <4>1. k - 1 \in 1 .. n - 1 /\ (k - 1) + 1 = k
          BY <3>2
      <4>2. w[k - 1] = g
          BY <2>2, <4>1
      <4>3. ASSUME NEW j \in 1 .. n - 1, j > k - 1 PROVE w[j] = Absent
        <5>1. j + 1 > k /\ j + 1 \in 1 .. n
            BY <4>3
        <5> QED
            BY <2>2, <5>1
      <4> QED
          BY <2>2, <4>1, <4>2, <4>3
    <3> QED
        BY <3>1, <3>2
  <2> QED
      BY <2>1, <2>2 DEF Replays
<1>4. Replays(ord, new, w, n - 1, g)
    BY <1>1, <1>2, <1>3 DEF Replays
<1> QED
    BY <1>4

\* The two orders are transitive.
LEMMA OrdersTransitive ==
    /\ \A f : \A a, b, c : <<a, b>> \in Order(f) /\ <<b, c>> \in Order(f) => <<a, c>> \in Order(f)
    /\ \A a, b, c : <<a, b>> \in ResetOrder /\ <<b, c>> \in ResetOrder => <<a, c>> \in ResetOrder
<1>1. ASSUME NEW f, NEW a, NEW b, NEW c, <<a, b>> \in Order(f), <<b, c>> \in Order(f)
      PROVE  <<a, c>> \in Order(f)
  <2>1. a \in Value /\ b \in Value /\ c \in Value /\ b # Absent /\ c # Absent
      BY <1>1 DEF Order
  <2>2. \/ a = Absent \/ f \in Plain
        \/ a.at \in Nat /\ b.at \in Nat /\ c.at \in Nat /\ a.at <= b.at /\ b.at <= c.at
      BY <1>1, <2>1 DEF Order
  <2>3. \/ a = Absent \/ f \in Plain
        \/ a.at \in Nat /\ c.at \in Nat /\ a.at <= c.at
      BY <2>2
  <2> QED
      BY <2>1, <2>3 DEF Order
<1>2. ASSUME NEW a, NEW b, NEW c, <<a, b>> \in ResetOrder, <<b, c>> \in ResetOrder
      PROVE  <<a, c>> \in ResetOrder
  <2>1. a \in Nat /\ b \in Nat /\ c \in Nat /\ a <= b /\ b <= c
      BY <1>2 DEF ResetOrder
  <2>2. a <= c
      BY <2>1
  <2> QED
      BY <2>1, <2>2 DEF ResetOrder
<1> QED
    BY <1>1, <1>2

\* The parts of stats and changes.
LEMMA StatsParts ==
    /\ \A s \in Stats : s.time \in Nat /\ s.last_reset_at \in Nat /\ s.fields \in Fields
    /\ \A c \in Change : c.time \in Nat /\ c.last_reset_at \in Nat \cup {Absent} /\ c.fields \in Fields
    /\ \A F \in Fields : F \in [Field -> Value] /\ \A f \in Versioned : F[f] # Absent => F[f].at \in Nat
BY DEF Stats, Change, Fields

\* A field takes a value exactly in the order that replays it.
LEMMA TakesInOrder ==
    ASSUME NEW f \in Field, NEW F \in Fields, NEW G \in Fields
    PROVE  /\ Takes(f, F[f], G[f]) => G[f] # Absent /\ <<F[f], G[f]>> \in Order(f)
           /\ G[f] # Absent /\ <<F[f], G[f]>> \in Order(f) => Takes(f, F[f], G[f]) \/ F[f] = G[f]
<1>1. F[f] \in Value /\ G[f] \in Value
    BY StatsParts
<1>2. f \in Versioned => (F[f] # Absent => F[f].at \in Nat) /\ (G[f] # Absent => G[f].at \in Nat)
    BY StatsParts
<1>3. f \in Versioned \/ f \in Plain
    BY DEF Field
<1>4. <<F[f], G[f]>> \in Order(f) <=> /\ G[f] # Absent
                                       /\ \/ F[f] = Absent \/ f \in Plain
                                          \/ F[f].at \in Nat /\ G[f].at \in Nat /\ F[f].at <= G[f].at
    BY <1>1 DEF Order
<1>5. CASE f \in Plain
    BY <1>4, <1>5 DEF Takes
<1>6. CASE f \notin Plain
    BY <1>2, <1>3, <1>4, <1>6 DEF Takes
<1> QED
    BY <1>5, <1>6

\* Changes tells what Merged does.
LEMMA ChangesTell ==
    ASSUME ReportsOK, NEW g \in Stats, NEW e \in StatsEvent, NEW m, m = Merged(g, e), NEW c, c = Changes(g, e)
    PROVE  /\ m \in Stats /\ g.time <= m.time
           /\ c = Absent => m.fields = g.fields /\ m.last_reset_at = g.last_reset_at
           /\ c # Absent => /\ c \in Change /\ c.time = m.time
                            /\ \A f \in Field : Brings(Order(f), g.fields[f], c.fields[f], m.fields[f])
                            /\ Brings(ResetOrder, g.last_reset_at, c.last_reset_at, m.last_reset_at)
<1> DEFINE taken == {f \in Field : Takes(f, g.fields[f], e.fields[f])}
           reset == e.last_reset_at > g.last_reset_at
           told == [f \in Field |-> IF f \in taken THEN e.fields[f] ELSE Absent]
           kept == [f \in Field |-> IF f \in taken THEN e.fields[f] ELSE g.fields[f]]
<1>0. e \in Stats /\ Absent \notin Nat /\ Absent \notin Change
    BY DEF ReportsOK
<1>1. /\ g.time \in Nat /\ g.last_reset_at \in Nat /\ g.fields \in Fields
      /\ e.time \in Nat /\ e.last_reset_at \in Nat /\ e.fields \in Fields
    BY <1>0, StatsParts
<1>2. CASE e.time < g.time
    BY <1>1, <1>2 DEF Merged, Changes
<1>3. CASE ~(e.time < g.time)
  <2>1. m = [time |-> e.time, last_reset_at |-> IF reset THEN e.last_reset_at ELSE g.last_reset_at,
             fields |-> kept]
      BY <1>3 DEF Merged
  <2>2. told \in Fields /\ kept \in Fields
    <3>1. \A f \in Field : g.fields[f] \in Value /\ e.fields[f] \in Value /\ Absent \in Value
        BY <1>1, StatsParts DEF Value
    <3>2. \A f \in Versioned : /\ g.fields[f] # Absent => g.fields[f].at \in Nat
                               /\ e.fields[f] # Absent => e.fields[f].at \in Nat
        BY <1>1, StatsParts
    <3>3. told \in [Field -> Value] /\ kept \in [Field -> Value]
        BY <3>1
    <3>4. ASSUME NEW f \in Versioned
          PROVE  (told[f] # Absent => told[f].at \in Nat) /\ (kept[f] # Absent => kept[f].at \in Nat)
      <4>1. f \in Field
          BY DEF Field
      <4>2. told[f] \in {Absent, e.fields[f]} /\ kept[f] \in {g.fields[f], e.fields[f]}
          BY <4>1
      <4> QED
          BY <3>2, <4>2
    <3> QED
        BY <3>3, <3>4 DEF Fields
  <2>3. m \in Stats /\ m.time = e.time /\ m.fields = kept
        /\ m.last_reset_at = IF reset THEN e.last_reset_at ELSE g.last_reset_at
      BY <1>1, <2>1, <2>2 DEF Stats
  <2>4. g.time <= m.time
      BY <1>1, <1>3, <2>3
  <2>5. CASE taken = {} /\ ~reset
    <3>1. c = Absent
        BY <1>3, <2>5 DEF Changes
    <3>2. kept = g.fields
      <4>1. g.fields = [f \in Field |-> g.fields[f]]
          BY <1>1, StatsParts
      <4>2. kept = [f \in Field |-> g.fields[f]]
          BY <2>5
      <4> QED
          BY <4>1, <4>2
    <3> QED
        BY <2>3, <2>4, <2>5, <3>1, <3>2
  <2>6. CASE ~(taken = {} /\ ~reset)
    <3>1. c = [time |-> e.time, last_reset_at |-> IF reset THEN e.last_reset_at ELSE Absent, fields |-> told]
        BY <1>3, <2>6 DEF Changes
    <3>2. c \in Change /\ c.time = e.time /\ c.fields = told
          /\ c.last_reset_at = IF reset THEN e.last_reset_at ELSE Absent
        BY <1>1, <2>2, <3>1 DEF Change
    <3>3. ASSUME NEW f \in Field PROVE Brings(Order(f), g.fields[f], told[f], kept[f])
      <4>1. CASE f \in taken
          BY <1>1, <4>1, TakesInOrder DEF Brings
      <4>2. CASE f \notin taken
          BY <4>2 DEF Brings
      <4> QED
          BY <4>1, <4>2
    <3>4. Brings(ResetOrder, g.last_reset_at, c.last_reset_at, m.last_reset_at)
        BY <1>0, <1>1, <2>3, <3>2 DEF Brings, ResetOrder
    <3> QED
        BY <1>0, <2>3, <2>4, <3>2, <3>3, <3>4
  <2> QED
      BY <2>5, <2>6
<1> QED
    BY <1>2, <1>3

\* A change in order is taken whole.
LEMMA ChangeTaken ==
    ASSUME ReportsOK, NEW r \in Stats, NEW c \in Change, r.time <= c.time,
           \A f \in Field : c.fields[f] # Absent => <<r.fields[f], c.fields[f]>> \in Order(f),
           c.last_reset_at # Absent => <<r.last_reset_at, c.last_reset_at>> \in ResetOrder,
           NEW m, m = Merged(r, ToEvent(c))
    PROVE  /\ m \in Stats /\ m.time = c.time
           /\ \A f \in Field : m.fields[f] = IF c.fields[f] = Absent THEN r.fields[f] ELSE c.fields[f]
           /\ m.last_reset_at = IF c.last_reset_at = Absent THEN r.last_reset_at ELSE c.last_reset_at
<1> DEFINE e == ToEvent(c)
           kept == [f \in Field |-> IF Takes(f, r.fields[f], c.fields[f]) THEN c.fields[f] ELSE r.fields[f]]
<1>1. /\ r.time \in Nat /\ r.last_reset_at \in Nat /\ r.fields \in Fields /\ c.time \in Nat
      /\ c.last_reset_at \in Nat \cup {Absent} /\ c.fields \in Fields /\ Absent \notin Nat
    BY StatsParts DEF ReportsOK
<1>2. /\ e.time = c.time /\ e.fields = c.fields
      /\ e.last_reset_at = IF c.last_reset_at = Absent THEN 0 ELSE c.last_reset_at
    BY DEF ToEvent, Change
<1>3. m = [time |-> c.time,
           last_reset_at |-> IF e.last_reset_at > r.last_reset_at THEN e.last_reset_at ELSE r.last_reset_at,
           fields |-> kept]
  <2> HIDE DEF e
  <2>1. ~(e.time < r.time)
      BY <1>1, <1>2
  <2>2. m = Merged(r, e)
      BY DEF e
  <2> QED
      BY <1>2, <2>1, <2>2 DEF Merged
<1>4. \A f \in Field : kept[f] = IF c.fields[f] = Absent THEN r.fields[f] ELSE c.fields[f]
  <2> SUFFICES ASSUME NEW f \in Field
               PROVE  kept[f] = IF c.fields[f] = Absent THEN r.fields[f] ELSE c.fields[f]
      OBVIOUS
  <2>1. CASE c.fields[f] = Absent
      BY <2>1 DEF Takes
  <2>2. CASE c.fields[f] # Absent
      BY <1>1, <2>2, TakesInOrder
  <2> QED
      BY <2>1, <2>2
<1>5. kept \in Fields
  <2>1. \A f \in Field : kept[f] \in {r.fields[f], c.fields[f]}
      OBVIOUS
  <2>2. \A f \in Field : r.fields[f] \in Value /\ c.fields[f] \in Value
      BY <1>1, StatsParts
  <2>3. \A f \in Versioned : /\ r.fields[f] # Absent => r.fields[f].at \in Nat
                             /\ c.fields[f] # Absent => c.fields[f].at \in Nat
      BY <1>1, StatsParts
  <2>4. kept \in [Field -> Value]
      BY <2>2
  <2>5. \A f \in Versioned : f \in Field
      BY DEF Field
  <2>6. \A f \in Versioned : kept[f] # Absent => kept[f].at \in Nat
      BY <2>1, <2>3, <2>5
  <2> QED
      BY <2>4, <2>6 DEF Fields
<1>6. (IF e.last_reset_at > r.last_reset_at THEN e.last_reset_at ELSE r.last_reset_at)
      = (IF c.last_reset_at = Absent THEN r.last_reset_at ELSE c.last_reset_at)
  <2>1. CASE c.last_reset_at = Absent
      BY <1>1, <1>2, <2>1
  <2>2. CASE c.last_reset_at # Absent
    <3>1. r.last_reset_at <= c.last_reset_at /\ c.last_reset_at \in Nat
        BY <1>1, <2>2 DEF ResetOrder
    <3> QED
        BY <1>1, <1>2, <2>2, <3>1
  <2> QED
      BY <2>1, <2>2
<1>7. (IF c.last_reset_at = Absent THEN r.last_reset_at ELSE c.last_reset_at) \in Nat
    BY <1>1
<1> HIDE DEF e, kept
<1> QED
    BY <1>1, <1>3, <1>4, <1>5, <1>6, <1>7 DEF Stats

LEMMA AgreedStart == ASSUME NEW e \in Stats PROVE Agreed(e, << >>, e)
<1>1. << >> \in Seq(Change) /\ Len(<< >>) = 0 /\ e.time <= e.time
    BY StatsParts
<1>2. \A ord, r, v : Replays(ord, r, v, 0, r)
    BY DEF Replays
<1> QED
    BY <1>1, <1>2 DEF Agreed

\* A merged event, told of or not.
LEMMA AgreedMerged ==
    ASSUME ReportsOK, NEW r \in Stats, NEW g \in Stats, NEW q, Agreed(r, q, g), NEW e \in StatsEvent,
           NEW m, m = Merged(g, e), NEW c, c = Changes(g, e)
    PROVE  /\ m \in Stats
           /\ c = Absent => Agreed(r, q, m)
           /\ c # Absent => c \in Change /\ Agreed(r, Append(q, c), m)
<1>0. q \in Seq(Change) /\ Len(q) \in Nat /\ r.time \in Nat /\ g.time \in Nat
    BY StatsParts DEF Agreed
<1>1. m \in Stats /\ m.time \in Nat /\ g.time <= m.time
    BY ChangesTell, StatsParts
<1>2. \A i \in 1 .. Len(q) : q[i] \in Change /\ q[i].time \in Nat
    BY <1>0, StatsParts
<1>3. ASSUME c = Absent PROVE Agreed(r, q, m)
  <2>0. Changes(g, e) = Absent
      BY <1>3
  <2>1. m.fields = g.fields /\ m.last_reset_at = g.last_reset_at
      BY <2>0, ChangesTell
  <2>2. r.time <= m.time /\ \A i \in 1 .. Len(q) : q[i].time <= m.time
      BY <1>0, <1>1, <1>2 DEF Agreed
  <2> QED
      BY <2>1, <2>2 DEF Agreed
<1>4. ASSUME c # Absent PROVE c \in Change /\ Agreed(r, Append(q, c), m)
  <2> DEFINE n == Len(q)
             p == Append(q, c)
  <2>1. /\ c \in Change /\ c.time = m.time
        /\ \A f \in Field : Brings(Order(f), g.fields[f], c.fields[f], m.fields[f])
        /\ Brings(ResetOrder, g.last_reset_at, c.last_reset_at, m.last_reset_at)
      BY <1>4, ChangesTell
  <2>2. /\ p \in Seq(Change) /\ Len(p) = n + 1 /\ n \in Nat
        /\ \A i \in 1 .. n : p[i] = q[i]
        /\ p[n + 1] = c
      BY <1>0, <2>1
  <2> HIDE DEF p, n
  <2>3. \A i \in 1 .. n + 1 : i \in 1 .. n \/ i = n + 1
      BY <2>2
  <2>4. /\ r.time <= m.time
        /\ \A i \in 1 .. n + 1 : r.time <= p[i].time /\ p[i].time <= m.time
    <3>1. \A i \in 1 .. n : r.time <= q[i].time /\ q[i].time <= m.time
        BY <1>0, <1>1, <1>2 DEF Agreed, n
    <3>2. r.time <= m.time
        BY <1>0, <1>1 DEF Agreed
    <3> QED
        BY <1>1, <2>1, <2>2, <2>3, <3>1, <3>2
  <2>5. \A i, j \in 1 .. n + 1 : i < j => p[i].time <= p[j].time
    <3> SUFFICES ASSUME NEW i \in 1 .. n + 1, NEW j \in 1 .. n + 1, i < j PROVE p[i].time <= p[j].time
        OBVIOUS
    <3>1. CASE j = n + 1
        BY <2>1, <2>2, <2>4, <3>1
    <3>2. CASE j \in 1 .. n
      <4>1. i \in 1 .. n
          BY <2>2, <3>2
      <4> QED
          BY <2>2, <3>2, <4>1 DEF Agreed, n
    <3> QED
        BY <2>3, <3>1, <3>2
  <2>6. ASSUME NEW f \in Field
        PROVE  Replays(Order(f), r.fields[f], [i \in 1 .. n + 1 |-> p[i].fields[f]], n + 1, m.fields[f])
    <3> DEFINE v == [i \in 1 .. n |-> q[i].fields[f]]
               w == [i \in 1 .. n + 1 |-> p[i].fields[f]]
    <3>1. Replays(Order(f), r.fields[f], v, n, g.fields[f])
        BY DEF Agreed, n
    <3>2. (\A i \in 1 .. n : w[i] = v[i]) /\ w[n + 1] = c.fields[f]
        BY <2>2
    <3> HIDE DEF v, w
    <3>3. Replays(Order(f), r.fields[f], w, n + 1, m.fields[f])
        BY <2>1, <2>2, <3>1, <3>2, OrdersTransitive, ReplaysAppend
    <3> QED
        BY <3>3 DEF w
  <2>7. Replays(ResetOrder, r.last_reset_at, [i \in 1 .. n + 1 |-> p[i].last_reset_at], n + 1, m.last_reset_at)
    <3> DEFINE v == [i \in 1 .. n |-> q[i].last_reset_at]
               w == [i \in 1 .. n + 1 |-> p[i].last_reset_at]
    <3>1. Replays(ResetOrder, r.last_reset_at, v, n, g.last_reset_at)
        BY DEF Agreed, n
    <3>2. (\A i \in 1 .. n : w[i] = v[i]) /\ w[n + 1] = c.last_reset_at
        BY <2>2
    <3> HIDE DEF v, w
    <3>3. Replays(ResetOrder, r.last_reset_at, w, n + 1, m.last_reset_at)
        BY <2>1, <2>2, <3>1, <3>2, OrdersTransitive, ReplaysAppend
    <3> QED
        BY <3>3 DEF w
  <2>8. Agreed(r, p, m)
      BY <2>2, <2>4, <2>5, <2>6, <2>7 DEF Agreed
  <2> QED
      BY <2>1, <2>8 DEF p
<1> QED
    BY <1>1, <1>3, <1>4

\* The application merges the first change.
LEMMA AgreedTaken ==
    ASSUME ReportsOK, NEW r \in Stats, NEW g \in Stats, NEW q, Agreed(r, q, g), q # << >>,
           NEW m, m = Merged(r, ToEvent(Head(q)))
    PROVE  m \in Stats /\ Agreed(m, Tail(q), g)
<1> DEFINE n == Len(q)
           c == q[1]
           t == Tail(q)
<1>0. /\ q \in Seq(Change) /\ n \in Nat /\ n > 0 /\ 1 \in 1 .. n /\ c \in Change /\ Head(q) = c
      /\ t \in Seq(Change) /\ Len(t) = n - 1 /\ \A i \in 1 .. n - 1 : t[i] = q[i + 1]
    BY DEF Agreed
<1>1. r.time <= c.time /\ c.time <= g.time
    BY <1>0 DEF Agreed
<1> HIDE DEF n, t
<1>2. \A f \in Field : c.fields[f] # Absent => <<r.fields[f], c.fields[f]>> \in Order(f)
  <2> SUFFICES ASSUME NEW f \in Field, c.fields[f] # Absent PROVE <<r.fields[f], c.fields[f]>> \in Order(f)
      OBVIOUS
  <2>1. Replays(Order(f), r.fields[f], [i \in 1 .. n |-> q[i].fields[f]], n, g.fields[f])
      BY DEF Agreed, n
  <2> QED
      BY <1>0, <2>1 DEF Replays
<1>3. c.last_reset_at # Absent => <<r.last_reset_at, c.last_reset_at>> \in ResetOrder
  <2>1. Replays(ResetOrder, r.last_reset_at, [i \in 1 .. n |-> q[i].last_reset_at], n, g.last_reset_at)
      BY DEF Agreed, n
  <2> QED
      BY <1>0, <2>1 DEF Replays
<1> HIDE DEF c
<1>4. /\ m \in Stats /\ m.time = c.time
      /\ \A f \in Field : m.fields[f] = IF c.fields[f] = Absent THEN r.fields[f] ELSE c.fields[f]
      /\ m.last_reset_at = IF c.last_reset_at = Absent THEN r.last_reset_at ELSE c.last_reset_at
    BY <1>0, <1>1, <1>2, <1>3, ChangeTaken
<1>5. \A i \in 1 .. n - 1 : i + 1 \in 1 .. n /\ 1 < i + 1
    BY <1>0
<1>6. /\ m.time <= g.time
      /\ \A i \in 1 .. n - 1 : m.time <= t[i].time /\ t[i].time <= g.time
  <2>1. \A i \in 1 .. n - 1 : c.time <= q[i + 1].time /\ q[i + 1].time <= g.time
      BY <1>0, <1>5 DEF Agreed, n, c
  <2> QED
      BY <1>0, <1>1, <1>4, <2>1
<1>7. \A i, j \in 1 .. n - 1 : i < j => t[i].time <= t[j].time
  <2> SUFFICES ASSUME NEW i \in 1 .. n - 1, NEW j \in 1 .. n - 1, i < j PROVE t[i].time <= t[j].time
      OBVIOUS
  <2>1. i + 1 < j + 1 /\ i + 1 \in 1 .. n /\ j + 1 \in 1 .. n
      BY <1>0
  <2> QED
      BY <1>0, <2>1 DEF Agreed, n
<1>8. ASSUME NEW f \in Field
      PROVE  Replays(Order(f), m.fields[f], [i \in 1 .. n - 1 |-> t[i].fields[f]], n - 1, g.fields[f])
  <2> DEFINE v == [i \in 1 .. n |-> q[i].fields[f]]
             w == [i \in 1 .. n - 1 |-> t[i].fields[f]]
  <2>1. Replays(Order(f), r.fields[f], v, n, g.fields[f])
      BY DEF Agreed, n
  <2>2. (\A i \in 1 .. n - 1 : w[i] = v[i + 1]) /\ v[1] = c.fields[f]
      BY <1>0, <1>5 DEF c
  <2> HIDE DEF v, w
  <2>3. m.fields[f] = IF v[1] = Absent THEN r.fields[f] ELSE v[1]
      BY <1>4, <2>2
  <2>4. n \in Nat /\ n > 0
      BY <1>0
  <2>5. Replays(Order(f), m.fields[f], w, n - 1, g.fields[f])
    <3>1. CASE v[1] = Absent
        BY <2>1, <2>2, <2>3, <2>4, <3>1, ReplaysTail
    <3>2. CASE v[1] # Absent
        BY <2>1, <2>2, <2>3, <2>4, <3>2, ReplaysTail
    <3> QED
        BY <3>1, <3>2
  <2> QED
      BY <2>5 DEF w
<1>9. Replays(ResetOrder, m.last_reset_at, [i \in 1 .. n - 1 |-> t[i].last_reset_at], n - 1, g.last_reset_at)
  <2> DEFINE v == [i \in 1 .. n |-> q[i].last_reset_at]
             w == [i \in 1 .. n - 1 |-> t[i].last_reset_at]
  <2>1. Replays(ResetOrder, r.last_reset_at, v, n, g.last_reset_at)
      BY DEF Agreed, n
  <2>2. (\A i \in 1 .. n - 1 : w[i] = v[i + 1]) /\ v[1] = c.last_reset_at
      BY <1>0, <1>5 DEF c
  <2> HIDE DEF v, w
  <2>3. m.last_reset_at = IF v[1] = Absent THEN r.last_reset_at ELSE v[1]
      BY <1>4, <2>2
  <2>4. n \in Nat /\ n > 0
      BY <1>0
  <2>5. Replays(ResetOrder, m.last_reset_at, w, n - 1, g.last_reset_at)
    <3>1. CASE v[1] = Absent
        BY <2>1, <2>2, <2>3, <2>4, <3>1, ReplaysTail
    <3>2. CASE v[1] # Absent
        BY <2>1, <2>2, <2>3, <2>4, <3>2, ReplaysTail
    <3> QED
        BY <3>1, <3>2
  <2> QED
      BY <2>5 DEF w
<1>10. Agreed(m, t, g)
    BY <1>0, <1>6, <1>7, <1>8, <1>9 DEF Agreed
<1> QED
    BY <1>4, <1>10 DEF t

\* What is sent is what the channel then holds, and what is taken comes off the front.
LEMMA TailOfAppend ==
    ASSUME NEW S, NEW s \in Seq(S), NEW c \in S, s # << >>
    PROVE  Tail(Append(s, c)) = Append(Tail(s), c) /\ Head(Append(s, c)) = Head(s) /\ Append(s, c) # << >>
<1> DEFINE a == Tail(Append(s, c))
           b == Append(Tail(s), c)
<1>1. a \in Seq(S) /\ b \in Seq(S) /\ Len(s) \in Nat /\ Len(s) > 0 /\ Len(a) = Len(s) /\ Len(b) = Len(s)
    OBVIOUS
<1>2. ASSUME NEW i \in 1 .. Len(s) PROVE a[i] = b[i]
    OBVIOUS
<1> HIDE DEF a, b
<1>3. a = b
    BY <1>1, <1>2, SeqEqual
<1> QED
    BY <1>3 DEF a, b

\* Where a change may be, for the one handler there is.
LEMMA WayIs ==
    ASSUME OneFeeder, NEW l, NEW p, NEW ch, NEW a, NEW ev
    PROVE  /\ l = "send" => Way(l, p, ch, a, ev) = Append(ch, p)
           /\ l # "send" => \A h \in Handler : a[h] = "tell" => Way(l, p, ch, a, ev) = Append(ch, ev[h])
           /\ l # "send" => \A h \in Handler : a[h] # "tell" => Way(l, p, ch, a, ev) = ch
<1>1. PICK one \in Handler : Handler = {one}
    BY DEF OneFeeder
<1>2. ASSUME a[one] = "tell" PROVE (CHOOSE h \in Handler : a[h] = "tell") = one
    BY <1>1, <1>2
<1>3. l = "send" => Way(l, p, ch, a, ev) = Append(ch, p)
    BY DEF Way
<1>4. ASSUME l # "send", a[one] = "tell" PROVE Way(l, p, ch, a, ev) = Append(ch, ev[one])
    BY <1>1, <1>2, <1>4 DEF Way
<1>5. ASSUME l # "send", a[one] # "tell" PROVE Way(l, p, ch, a, ev) = ch
    BY <1>1, <1>5 DEF Way
<1> QED
    BY <1>1, <1>3, <1>4, <1>5

\* Steps that leave the changes on their way and the stats alone.
LEMMA WaySame ==
    ASSUME OneFeeder, ReplayInv, PortInv', stats_uplink' \in Seq(StatsEvent),
           UNCHANGED <<mode, pending, stats_ch, gear_stats, replica>>,
           stats_loop' = stats_loop \/ (stats_loop = "recv" /\ stats_loop' = "ended"),
           \A h \in Handler : at'[h] = "tell" <=> at[h] = "tell",
           \A h \in Handler : at[h] = "tell" => event'[h] = event[h],
           \A h \in Handler : at'[h] = "merge" => event'[h] \in StatsEvent
    PROVE  ReplayInv'
<1>1. ReplayType'
    BY DEF ReplayInv, ReplayType
<1>2. OnTheWay' = OnTheWay
  <2>1. PICK h \in Handler : TRUE
      BY DEF OneFeeder
  <2>2. OnTheWay = Way(stats_loop, pending, stats_ch, at, event)
        /\ OnTheWay' = Way(stats_loop', pending', stats_ch', at', event')
      BY DEF OnTheWay
  <2>3. CASE stats_loop = "send"
    <3>1. OnTheWay = Append(stats_ch, pending)
        BY <2>2, <2>3, WayIs
    <3>2. OnTheWay' = Append(stats_ch', pending')
        BY <2>2, <2>3, WayIs
    <3> QED
        BY <3>1, <3>2
  <2>4. CASE stats_loop # "send" /\ at[h] = "tell"
    <3>1. OnTheWay = Append(stats_ch, event[h])
        BY <2>2, <2>4, WayIs
    <3>2. OnTheWay' = Append(stats_ch', event'[h])
        BY <2>2, <2>4, WayIs
    <3> QED
        BY <2>4, <3>1, <3>2
  <2>5. CASE stats_loop # "send" /\ at[h] # "tell"
    <3>1. OnTheWay = stats_ch
        BY <2>2, <2>5, WayIs
    <3>2. OnTheWay' = stats_ch'
        BY <2>2, <2>5, WayIs
    <3> QED
        BY <3>1, <3>2
  <2> QED
      BY <2>3, <2>4, <2>5
<1>3. ReplayOK'
    BY <1>2 DEF ReplayInv, ReplayOK
<1> QED
    BY <1>1, <1>3 DEF ReplayInv

\* A merge, by the stats loop or by the handler: the way is as it was or longer by the
\* changes.
LEMMA MergeKeeps ==
    ASSUME ReportsOK, ReplayOK, NEW e \in StatsEvent, NEW changes,
           changes = IF gear_stats = Absent THEN Absent ELSE Changes(gear_stats, e),
           gear_stats' = IF gear_stats = Absent THEN e ELSE Merged(gear_stats, e),
           replica' = IF gear_stats = Absent THEN e ELSE replica,
           OnTheWay' = IF changes = Absent THEN OnTheWay ELSE Append(OnTheWay, changes)
    PROVE  ReplayOK'
<1>1. CASE gear_stats = Absent
  <2>1. OnTheWay' = << >> /\ gear_stats' = e /\ replica' = e
      BY <1>1 DEF ReplayOK
  <2>2. e \in Stats /\ Agreed(e, << >>, e)
      BY AgreedStart DEF ReportsOK
  <2> QED
      BY <2>1, <2>2 DEF ReplayOK
<1>2. CASE gear_stats # Absent
  <2>1. gear_stats \in Stats /\ replica \in Stats /\ Agreed(replica, OnTheWay, gear_stats)
      BY <1>2 DEF ReplayOK
  <2>2. gear_stats' = Merged(gear_stats, e) /\ replica' = replica /\ changes = Changes(gear_stats, e)
      BY <1>2
  <2>3. /\ gear_stats' \in Stats
        /\ changes = Absent => Agreed(replica, OnTheWay, gear_stats')
        /\ changes # Absent => Agreed(replica, Append(OnTheWay, changes), gear_stats')
      BY <2>1, <2>2, AgreedMerged
  <2>4. Agreed(replica', OnTheWay', gear_stats')
      BY <2>2, <2>3
  <2>5. gear_stats' # Absent
      BY <2>3 DEF ReportsOK
  <2> QED
      BY <2>1, <2>2, <2>3, <2>4, <2>5 DEF ReplayOK
<1> QED
    BY <1>1, <1>2

LEMMA StatsStepReplays == ASSUME OneFeeder, ReportsOK, ReplayInv, PortInv', StatsStep PROVE ReplayInv'
<1> USE DEF ups, loops, handlers, closes
<1>0. /\ mode = "recv" /\ UNCHANGED <<mode, at, event>>
      /\ \A h \in Handler : at[h] = "idle" /\ at'[h] = "idle"
      /\ stats_uplink \in Seq(StatsEvent) /\ stats_ch \in Seq(Change)
  <2>1. mode \in {"recv", "handle"} /\ (mode = "handle" => stats_loop = "ended")
      BY DEF OneFeeder, ReplayInv, PortInv, FeedType, ReplayType
  <2>2. stats_loop # "ended" /\ UNCHANGED <<mode, at, event>>
      BY DEF StatsStep, StatsRecv, StatsSend
  <2> QED
      BY <2>1, <2>2 DEF ReplayInv, PortInv, FeedOK, ReplayType
<1>00. PICK h \in Handler : TRUE
    BY DEF OneFeeder
<1>01. OnTheWay = Way(stats_loop, pending, stats_ch, at, event)
       /\ OnTheWay' = Way(stats_loop', pending', stats_ch', at', event')
    BY DEF OnTheWay
<1>1. CASE StatsRecv
  <2>1. stats_uplink' \in Seq(StatsEvent) /\ Head(stats_uplink) \in StatsEvent
      BY <1>0, <1>1, HeadTailProperties DEF StatsRecv
  <2>2. CASE closed
    <3>1. /\ UNCHANGED <<mode, pending, stats_ch, gear_stats, replica, at, event>>
          /\ stats_loop = "recv" /\ stats_loop' = "ended"
        BY <1>1, <2>2 DEF StatsRecv
    <3> QED
        BY <1>0, <2>1, <3>1, WaySame
  <2>3. CASE ~closed
    <3> DEFINE e == Head(stats_uplink)
               changes == IF gear_stats = Absent THEN Absent ELSE Changes(gear_stats, e)
    <3>1. /\ gear_stats' = IF gear_stats = Absent THEN e ELSE Merged(gear_stats, e)
          /\ replica' = IF gear_stats = Absent THEN e ELSE replica
          /\ pending' = changes /\ stats_loop = "recv" /\ stats_ch' = stats_ch
          /\ stats_loop' = IF changes = Absent THEN "recv" ELSE "send"
        BY <1>1, <2>3 DEF StatsRecv
    <3> HIDE DEF changes, e
    <3>2. OnTheWay = stats_ch
        BY <1>0, <1>00, <1>01, <3>1, WayIs
    <3>3. changes = Absent => OnTheWay' = stats_ch'
        BY <1>0, <1>00, <1>01, <3>1, WayIs
    <3>4. changes # Absent => OnTheWay' = Append(stats_ch', pending')
        BY <1>01, <3>1, WayIs
    <3>5. ReplayOK'
      <4>1. OnTheWay' = IF changes = Absent THEN OnTheWay ELSE Append(OnTheWay, changes)
          BY <3>1, <3>2, <3>3, <3>4
      <4>2. changes = IF gear_stats = Absent THEN Absent ELSE Changes(gear_stats, e)
          BY DEF changes
      <4>3. e \in StatsEvent
          BY <2>1 DEF e
      <4> QED
          BY <3>1, <4>1, <4>2, <4>3, MergeKeeps DEF ReplayInv
    <3>6. ReplayType'
        BY <1>0, <2>1, <3>1 DEF ReplayType
    <3> QED
        BY <3>5, <3>6 DEF ReplayInv
  <2> QED
      BY <2>2, <2>3
<1>2. CASE StatsSend
  <2>1. /\ stats_loop = "send" /\ stats_loop' = "recv" /\ stats_ch' = Append(stats_ch, pending)
        /\ UNCHANGED <<gear_stats, replica, stats_uplink>>
      BY <1>2 DEF StatsSend
  <2>2. OnTheWay = Append(stats_ch, pending)
      BY <1>01, <2>1, WayIs
  <2>3. OnTheWay' = stats_ch'
    <3>1. stats_loop' # "send" /\ at'[h] # "tell"
        BY <1>0, <1>00, <2>1
    <3> QED
        BY <1>01, <3>1, WayIs
  <2>4. ReplayOK'
      BY <2>1, <2>2, <2>3 DEF ReplayInv, ReplayOK
  <2>5. stats_ch' \in Seq(Change)
    <3>1. gear_stats # Absent
        BY <1>0, <2>2 DEF ReplayInv, ReplayOK
    <3> QED
        BY <2>1, <2>2, <3>1 DEF ReplayInv, ReplayOK, Agreed
  <2>6. ReplayType'
      BY <1>0, <2>1, <2>5 DEF ReplayType
  <2> QED
      BY <2>4, <2>6 DEF ReplayInv
<1> QED
    BY <1>1, <1>2 DEF StatsStep

LEMMA HandlesReplay ==
    ASSUME OneFeeder, ReportsOK, ReplayInv, PortInv', NEW h \in Handler,
           \/ HandleStep(h) \/ (\E t \in Time : Handle(h, t))
           \/ \E e \in StatsEvent : HandleStats(h, e)
    PROVE  ReplayInv'
<1> USE DEF ups, loops, handlers, closes
<1>0. /\ mode = "handle" /\ stats_loop = "ended"
      /\ UNCHANGED <<mode, stats_uplink, stats_loop, pending>>
      /\ stats_uplink \in Seq(StatsEvent) /\ stats_ch \in Seq(Change)
      /\ at[h] = "merge" => event[h] \in StatsEvent
      /\ at \in [Handler -> Where] /\ event = [g \in Handler |-> event[g]] /\ Handler = {h}
  <2>1. mode \in {"recv", "handle"}
      BY DEF OneFeeder, ReplayInv, PortInv, FeedType
  <2>2. mode # "recv"
      BY DEF ReplayInv, PortInv, FeedOK, HandleStep, Handle, HandleCheck, HandleWrite, HandleSend,
             HandleStats, HandleMerge, HandleTell
  <2>3. UNCHANGED <<mode, stats_uplink, stats_loop, pending>>
      BY DEF HandleStep, Handle, HandleCheck, HandleWrite, HandleSend, HandleStats, HandleMerge,
             HandleTell
  <2>4. Handler = {h}
      BY DEF OneFeeder
  <2> QED
      BY <2>1, <2>2, <2>3, <2>4 DEF ReplayInv, ReplayType, PortInv, FeedType
<1>01. OnTheWay = Way(stats_loop, pending, stats_ch, at, event)
       /\ OnTheWay' = Way(stats_loop', pending', stats_ch', at', event')
    BY DEF OnTheWay
<1>1. CASE \/ (\E t \in Time : Handle(h, t)) \/ (\E e \in StatsEvent : HandleStats(h, e))
           \/ HandleCheck(h) \/ HandleWrite(h) \/ HandleSend(h)
  <2>1. UNCHANGED <<stats_ch, gear_stats, replica>>
      BY <1>1 DEF Handle, HandleStats, HandleCheck, HandleWrite, HandleSend
  <2>2. at[h] # "tell" /\ at'[h] # "tell" /\ (at'[h] = "merge" => event'[h] \in StatsEvent)
    <3>1. ASSUME NEW t \in Time, Handle(h, t) PROVE at[h] = "idle" /\ at'[h] \in {"idle", "check"}
        BY <1>0, <3>1 DEF Handle
    <3>2. ASSUME NEW e \in StatsEvent, HandleStats(h, e)
          PROVE  at[h] = "idle" /\ \/ at'[h] = "idle"
                                   \/ at'[h] = "merge" /\ event'[h] = e
        BY <1>0, <3>2 DEF HandleStats
    <3>3. ASSUME HandleCheck(h) PROVE at[h] = "check" /\ at'[h] \in {"idle", "write"}
        BY <1>0, <3>3 DEF HandleCheck
    <3>4. ASSUME HandleWrite(h) PROVE at[h] = "write" /\ at'[h] = "send"
        BY <1>0, <3>4 DEF HandleWrite
    <3>5. ASSUME HandleSend(h) PROVE at[h] = "send" /\ at'[h] = "idle"
        BY <1>0, <3>5 DEF HandleSend
    <3> QED
        BY <1>1, <3>1, <3>2, <3>3, <3>4, <3>5
  <2> QED
      BY <1>0, <2>1, <2>2, WaySame
<1>2. CASE HandleMerge(h)
  <2> DEFINE e == event[h]
             changes == IF gear_stats = Absent THEN Absent ELSE Changes(gear_stats, e)
  <2>1. /\ at[h] = "merge" /\ stats_ch' = stats_ch
        /\ gear_stats' = IF gear_stats = Absent THEN e ELSE Merged(gear_stats, e)
        /\ replica' = IF gear_stats = Absent THEN e ELSE replica
      BY <1>2 DEF HandleMerge
  <2>2. /\ at'[h] = IF changes = Absent THEN "idle" ELSE "tell"
        /\ event'[h] = IF changes = Absent THEN 0 ELSE changes
    <3>1. /\ at' = [at EXCEPT ![h] = IF changes = Absent THEN "idle" ELSE "tell"]
          /\ event' = [event EXCEPT ![h] = IF changes = Absent THEN 0 ELSE changes]
        BY <1>2 DEF HandleMerge
    <3> HIDE DEF changes, e
    <3> QED
        BY <1>0, <3>1
  <2>3. e \in StatsEvent
      BY <1>0, <2>1
  <2>4. changes = IF gear_stats = Absent THEN Absent ELSE Changes(gear_stats, e)
      OBVIOUS
  <2> HIDE DEF changes, e
  <2>5. OnTheWay = stats_ch
      BY <1>0, <1>01, <2>1, WayIs
  <2>6. changes = Absent => OnTheWay' = stats_ch'
      BY <1>0, <1>01, <2>2, WayIs
  <2>7. changes # Absent => OnTheWay' = Append(stats_ch', changes)
      BY <1>0, <1>01, <2>2, WayIs
  <2>8. ReplayOK'
    <3>1. OnTheWay' = IF changes = Absent THEN OnTheWay ELSE Append(OnTheWay, changes)
        BY <2>1, <2>5, <2>6, <2>7
    <3> QED
        BY <2>1, <2>3, <2>4, <3>1, MergeKeeps DEF ReplayInv
  <2>9. ReplayType'
      BY <1>0, <2>1, <2>2 DEF ReplayType
  <2> QED
      BY <2>8, <2>9 DEF ReplayInv
<1>3. CASE HandleTell(h)
  <2>1. /\ at[h] = "tell" /\ at'[h] = "idle" /\ stats_ch' = Append(stats_ch, event[h])
        /\ UNCHANGED <<gear_stats, replica>>
      BY <1>0, <1>3 DEF HandleTell
  <2>2. OnTheWay = Append(stats_ch, event[h])
      BY <1>0, <1>01, <2>1, WayIs
  <2>3. OnTheWay' = stats_ch'
    <3>1. stats_loop' # "send" /\ at'[h] # "tell"
        BY <1>0, <2>1
    <3> QED
        BY <1>01, <3>1, WayIs
  <2>4. ReplayOK'
      BY <2>1, <2>2, <2>3 DEF ReplayInv, ReplayOK
  <2>5. stats_ch' \in Seq(Change)
    <3>1. gear_stats # Absent
        BY <1>0, <2>2 DEF ReplayInv, ReplayOK
    <3> QED
        BY <2>1, <2>2, <3>1 DEF ReplayInv, ReplayOK, Agreed
  <2>6. ReplayType'
      BY <1>0, <2>1, <2>5 DEF ReplayType
  <2> QED
      BY <2>4, <2>6 DEF ReplayInv
<1> QED
    BY <1>1, <1>2, <1>3 DEF HandleStep

LEMMA ReceiptReplays == ASSUME OneFeeder, ReportsOK, ReplayInv, PortInv', RecvStatsChanges PROVE ReplayInv'
<1> USE DEF ups, loops, handlers, closes
<1>1. /\ stats_ch # << >> /\ stats_ch' = Tail(stats_ch)
      /\ replica' = Merged(replica, ToEvent(Head(stats_ch)))
      /\ UNCHANGED <<mode, stats_uplink, stats_loop, pending, at, event, gear_stats>>
    BY DEF RecvStatsChanges
<1>2. stats_ch \in Seq(Change) /\ stats_ch' \in Seq(Change)
    BY <1>1 DEF ReplayInv, ReplayType
<1>3. OnTheWay = Way(stats_loop, pending, stats_ch, at, event)
      /\ OnTheWay' = Way(stats_loop, pending, stats_ch', at, event)
    BY <1>1 DEF OnTheWay
<1>4. \/ OnTheWay = stats_ch /\ OnTheWay' = stats_ch'
      \/ \E c : OnTheWay = Append(stats_ch, c) /\ OnTheWay' = Append(stats_ch', c)
  <2>1. PICK h \in Handler : TRUE
      BY DEF OneFeeder
  <2>2. stats_loop = "send" => OnTheWay = Append(stats_ch, pending) /\ OnTheWay' = Append(stats_ch', pending)
      BY <1>3, WayIs
  <2>3. stats_loop # "send" /\ at[h] = "tell" =>
            OnTheWay = Append(stats_ch, event[h]) /\ OnTheWay' = Append(stats_ch', event[h])
      BY <1>3, WayIs
  <2>4. stats_loop # "send" /\ at[h] # "tell" => OnTheWay = stats_ch /\ OnTheWay' = stats_ch'
      BY <1>3, WayIs
  <2> QED
      BY <2>2, <2>3, <2>4
<1>5. OnTheWay # << >>
    BY <1>1, <1>2, <1>4
<1>6. gear_stats # Absent /\ gear_stats \in Stats /\ replica \in Stats /\ Agreed(replica, OnTheWay, gear_stats)
    BY <1>5 DEF ReplayInv, ReplayOK
<1>7. Head(OnTheWay) = Head(stats_ch) /\ OnTheWay' = Tail(OnTheWay)
  <2>1. CASE OnTheWay = stats_ch /\ OnTheWay' = stats_ch'
      BY <1>1, <2>1
  <2>2. ASSUME NEW c, OnTheWay = Append(stats_ch, c), OnTheWay' = Append(stats_ch', c)
        PROVE  Head(OnTheWay) = Head(stats_ch) /\ OnTheWay' = Tail(OnTheWay)
    <3>1. Append(stats_ch, c) \in Seq(Change)
        BY <1>6, <2>2 DEF Agreed
    <3>2. c \in Change
      <4>1. Len(stats_ch) + 1 \in DOMAIN Append(stats_ch, c) /\ Append(stats_ch, c)[Len(stats_ch) + 1] = c
          BY <1>2
      <4> QED
          BY <3>1, <4>1
    <3> QED
        BY <1>1, <1>2, <2>2, <3>2, TailOfAppend
  <2> QED
      BY <1>4, <2>1, <2>2
<1>8. replica' \in Stats /\ Agreed(replica', OnTheWay', gear_stats')
    BY <1>1, <1>5, <1>6, <1>7, AgreedTaken
<1>9. ReplayOK'
    BY <1>1, <1>6, <1>8 DEF ReplayOK
<1>10. ReplayType'
    BY <1>1, <1>2 DEF ReplayInv, ReplayType
<1> QED
    BY <1>9, <1>10 DEF ReplayInv

LEMMA InitReplayInv == ASSUME OneFeeder PROVE PortInit => ReplayInv
<1> SUFFICES ASSUME PortInit PROVE ReplayInv
    OBVIOUS
<1>1. PortInv
    BY InitPortInv
<1>2. ReplayType
    BY DEF PortInit, ReplayType
<1>3. OnTheWay = << >>
  <2>1. PICK h \in Handler : TRUE
      BY DEF OneFeeder
  <2>2. stats_loop # "send" /\ at[h] # "tell" /\ stats_ch = << >>
      BY DEF PortInit
  <2> QED
      BY <2>2, WayIs DEF OnTheWay
<1>4. ReplayOK
    BY <1>3 DEF PortInit, ReplayOK
<1> QED
    BY <1>1, <1>2, <1>4 DEF ReplayInv

LEMMA NextReplayInv == ASSUME OneFeeder, ReportsOK PROVE ReplayInv /\ [PortNext]_port_vars => ReplayInv'
<1> SUFFICES ASSUME ReplayInv, [PortNext]_port_vars PROVE ReplayInv'
    OBVIOUS
<1> USE DEF ups, loops, handlers, closes
<1>0. PortInv /\ PortInv'
    BY NextPortInv DEF ReplayInv
<1>1. stats_uplink \in Seq(StatsEvent) /\ \A h \in Handler : at[h] = "merge" => event[h] \in StatsEvent
    BY DEF ReplayInv, ReplayType
<1>2. ASSUME NEW t \in Time, SendState(t) PROVE ReplayInv'
    BY <1>0, <1>1, <1>2, WaySame DEF SendState
<1>3. ASSUME NEW e \in StatsEvent, SendStats(e) PROVE ReplayInv'
  <2>1. stats_uplink' \in Seq(StatsEvent)
      BY <1>1, <1>3 DEF SendStats
  <2> QED
      BY <1>0, <1>1, <1>3, <2>1, WaySame DEF SendStats
<1>4. CASE LoopStep
    BY <1>0, <1>1, <1>4, WaySame DEF LoopStep, LoopRecv, LoopCheck, LoopWrite, LoopSend
<1>5. ASSUME NEW h \in Handler,
             \/ HandleStep(h) \/ (\E t \in Time : Handle(h, t))
             \/ \E e \in StatsEvent : HandleStats(h, e)
      PROVE  ReplayInv'
    BY <1>0, <1>5, HandlesReplay
<1>6. CASE StatsStep
    BY <1>0, <1>6, StatsStepReplays
<1>7. CASE LoopEnds \/ LoopCancelled
    BY <1>0, <1>1, <1>7, WaySame DEF LoopEnds, LoopCancelled
<1>8. CASE DropUplink \/ RecvStateEvent \/ Close \/ CloseLocked
    BY <1>0, <1>1, <1>8, WaySame DEF DropUplink, RecvStateEvent, Close, CloseLocked
<1>9. CASE RecvStatsChanges
    BY <1>0, <1>9, ReceiptReplays
<1>10. CASE UNCHANGED port_vars
    BY <1>0, <1>1, <1>10, WaySame DEF port_vars
<1> QED
    BY <1>2, <1>3, <1>4, <1>5, <1>6, <1>7, <1>8, <1>9, <1>10 DEF PortNext

\* An application that merges the changes it receives has the stats of the port once
\* nothing is on its way, whatever the device reports and in whatever order: no change
\* goes untold and none is told that was not made, for any fields, values and times.
THEOREM ReplayCorrect == ASSUME OneFeeder, ReportsOK PROVE PortSpec => []ChangesReplay
<1>1. ReplayInv => ChangesReplay
  <2> SUFFICES ASSUME ReplayInv, gear_stats # Absent, stats_ch = << >>, stats_loop # "send", Holding = {}
               PROVE  replica.fields = gear_stats.fields /\ replica.last_reset_at = gear_stats.last_reset_at
      BY DEF ChangesReplay
  <2>1. PICK h \in Handler : at[h] # "tell"
      BY DEF OneFeeder, Holding
  <2>2. OnTheWay = << >>
      BY <2>1, WayIs DEF OnTheWay
  <2>3. gear_stats \in Stats /\ replica \in Stats /\ Agreed(replica, << >>, gear_stats)
      BY <2>2 DEF ReplayInv, ReplayOK
  <2>4. \A ord, r, v, g : Replays(ord, r, v, 0, g) => g = r
      BY DEF Replays
  <2>5. Len(<< >>) = 0
      OBVIOUS
  <2>6. /\ replica.last_reset_at = gear_stats.last_reset_at
        /\ \A f \in Field : replica.fields[f] = gear_stats.fields[f]
      BY <2>3, <2>4, <2>5 DEF Agreed
  <2>7. replica.fields \in [Field -> Value] /\ gear_stats.fields \in [Field -> Value]
      BY <2>3, StatsParts
  <2> QED
      BY <2>6, <2>7
<1> QED
    BY InitReplayInv, NextReplayInv, <1>1, PTL DEF PortSpec
==============================================================================
