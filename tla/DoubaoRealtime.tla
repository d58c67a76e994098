--------------------------- MODULE DoubaoRealtime ---------------------------
(* The realtime dialogue of rust/doubaospeech/src/realtime.rs: one           *)
(* connection, on which start_session may be called again after a session    *)
(* was closed.  Each session has a receive loop of its own; all loops read   *)
(* the one socket, under the connection's read lock, and hand what they read *)
(* to their own session's channel, whichever session it is for.              *)
(*                                                                           *)
(* The callers of a session send audio, text, greetings and interruptions    *)
(* while another task may close it: each looks at the closed flag, then      *)
(* waits for the connection's write lock.                                    *)
(*                                                                           *)
(* An event is the number of the session it is for and its kind; pings are   *)
(* left out.                                                                 *)
EXTENDS Naturals, Sequences, FiniteSets

CONSTANTS MaxSessions,   \* bound: sessions started on the connection
          MaxEvents,     \* bound: events the service sends per session
          Cap,           \* capacity of a session's event channel (100)
          Kinds,         \* the messages of the service: "text", "status", "error", "unknown" (JSON),
                         \* "audio", "junk" (binary)
          MaxLate,       \* bound: messages after a finish message
          Prompt,        \* the service answers a finish message within close's wait
          Retry          \* a caller whose start failed starts again on the connection

Session == 1..MaxSessions

VARIABLES made,     \* sessions made so far
          state,    \* session -> "new", "starting", "ready", "failed", "finishing", "closing", "closed"
          flag,     \* session -> its closed flag
          loop,     \* session -> its loop: "none", "check", "lock", "read", "push", "fail", "done"
          reader,   \* the session whose loop holds the read lock, or 0
          held,     \* session -> the event its loop is pushing
          chan,     \* session -> its event channel
          wire,     \* events on their way
          count,    \* session -> events sent for it
          finish,   \* sessions whose finish message the service has not answered
          over,     \* the connection has ended
          after,    \* session -> messages its loop took after it was closed
          stray,    \* events that were delivered to another session than theirs
          call,     \* session -> a caller of it is about to write
          late      \* session -> messages written after its finish message

vars == <<made, state, flag, loop, reader, held, chan, wire, count, finish,
          over, after, stray, call, late>>

sending == <<call, late>>

NoEvent == [for |-> 0, kind |-> "none"]

\* parse_json_message: a text is what the user or the bot said; a type it does
\* not know is no event.
ParseJson(m) ==
  CASE m.kind = "text" -> [m EXCEPT !.kind = "event"]
    [] m.kind = "status" -> [m EXCEPT !.kind = "started"]
    [] m.kind = "error" -> [m EXCEPT !.kind = "failed"]
    [] m.kind = "unknown" -> NoEvent

\* parse_binary_message: what does not unmarshal is no event; the session id of
\* the payload goes before that of the header.
ParseBinary(m) ==
  CASE m.kind = "junk" -> NoEvent
    [] m.kind = "audio" -> [m EXCEPT !.kind = "event"]
    [] m.kind = "ended" -> m

Parse(m) == IF m.kind \in {"audio", "junk", "ended"} THEN ParseBinary(m) ELSE ParseJson(m)

Init ==
  /\ made = 0
  /\ state = [s \in Session |-> "new"]
  /\ flag = [s \in Session |-> FALSE]
  /\ loop = [s \in Session |-> "none"]
  /\ reader = 0
  /\ held = [s \in Session |-> NoEvent]
  /\ chan = [s \in Session |-> <<>>]
  /\ wire = <<>> /\ count = [s \in Session |-> 0] /\ finish = {} /\ over = FALSE
  /\ after = [s \in Session |-> 0] /\ stray = {}
  /\ call = [s \in Session |-> FALSE] /\ late = [s \in Session |-> 0]

\* The start message with the session's id, a new channel, and the receive loop.  A caller starts a
\* session when it is done with the one before.
StartSession ==
  /\ made < MaxSessions /\ ~over
  /\ made > 0 => state[made] \in {"closed"} \cup (IF Retry THEN {"failed"} ELSE {})
  /\ LET s == made + 1 IN
       /\ made' = s
       /\ state' = [state EXCEPT ![s] = "starting"]
       /\ loop' = [loop EXCEPT ![s] = "check"]
  /\ UNCHANGED <<flag, reader, held, chan, wire, count, finish, over, after, stray, sending>>

\* start_session takes the first event in the channel, whatever it says.
Started(s) ==
  /\ state[s] = "starting" /\ chan[s] /= <<>>
  /\ chan' = [chan EXCEPT ![s] = Tail(@)]
  /\ state' = [state EXCEPT ![s] = "ready"]
  /\ UNCHANGED <<made, flag, loop, reader, held, wire, count, finish, over, after, stray, sending>>

\* The loop of s holds no event it could still push.
Pushed(s) == held[s] = NoEvent \/ Len(chan[s]) = Cap

\* The 10 seconds are over.  (The loop holds a sender, the channel never ends.)
StartTimesOut(s) ==
  /\ state[s] = "starting" /\ chan[s] = <<>>
  /\ wire = <<>> /\ \A t \in Session : Pushed(t)   \* 10 s: what was sent is read
  /\ state' = [state EXCEPT ![s] = "failed"]
  /\ UNCHANGED <<made, flag, loop, reader, held, chan, wire, count, finish, over, after, stray, sending>>

Recv(s) ==
  /\ state[s] = "ready" /\ chan[s] /= <<>>
  /\ chan' = [chan EXCEPT ![s] = Tail(@)]
  /\ UNCHANGED <<made, state, flag, loop, reader, held, wire, count, finish, over, after, stray, sending>>

\* Not the code: the flag is not looked at.
CheckNever(s) ==
  /\ state[s] \in {"ready", "finishing", "closing", "closed"}
  /\ ~call[s] /\ late[s] < MaxLate
  /\ call' = [call EXCEPT ![s] = TRUE]
  /\ UNCHANGED <<made, state, flag, loop, reader, held, chan, wire, count, finish, over, after, stray, late>>

\* The first half of a send: a closed session is an error.
Check(s) ==
  /\ state[s] \in {"ready", "finishing", "closing", "closed"} /\ ~flag[s]
  /\ ~call[s] /\ late[s] < MaxLate
  /\ call' = [call EXCEPT ![s] = TRUE]
  /\ UNCHANGED <<made, state, flag, loop, reader, held, chan, wire, count, finish, over, after, stray, late>>

\* The messages differ in what the service makes of them.
SendAudio(s) == Check(s)
SendText(s) == Check(s)
SayHello(s) == Check(s)
Interrupt(s) == Check(s)

\* The second half: the write lock is free.
WriteMessage(s) ==
  /\ call[s]
  /\ call' = [call EXCEPT ![s] = FALSE]
  /\ late' = IF state[s] \in {"closing", "closed"} /\ ~over THEN [late EXCEPT ![s] = @ + 1] ELSE late
  /\ UNCHANGED <<made, state, flag, loop, reader, held, chan, wire, count, finish, over, after, stray>>

\* close: the flag, then the finish message, then up to 5 seconds for the loop.
Close(s) ==
  /\ state[s] = "ready"
  /\ flag' = [flag EXCEPT ![s] = TRUE]
  /\ state' = [state EXCEPT ![s] = "finishing"]
  /\ UNCHANGED <<made, loop, reader, held, chan, wire, count, finish, over, after, stray, sending>>

WriteFinish(s) ==
  /\ state[s] = "finishing"
  /\ state' = [state EXCEPT ![s] = "closing"]
  /\ finish' = IF over THEN finish ELSE finish \cup {s}
  /\ UNCHANGED <<made, flag, loop, reader, held, chan, wire, count, over, after, stray, sending>>

Closed(s) ==
  /\ state[s] = "closing"
  /\ \/ loop[s] = "done"
     \/ s \notin finish /\ wire = <<>> /\ Pushed(s)   \* timed out after the answer
     \/ ~Prompt
  /\ state' = [state EXCEPT ![s] = "closed"]
  /\ UNCHANGED <<made, flag, loop, reader, held, chan, wire, count, finish, over, after, stray, sending>>

-----------------------------------------------------------------------------
(* The receive loop of session s *)

CheckFlag(s) ==
  /\ loop[s] = "check"
  /\ loop' = [loop EXCEPT ![s] = IF flag[s] THEN "done" ELSE "lock"]
  /\ UNCHANGED <<made, state, flag, reader, held, chan, wire, count, finish, over, after, stray, sending>>

LockReader(s) ==
  /\ loop[s] = "lock" /\ reader = 0
  /\ reader' = s
  /\ loop' = [loop EXCEPT ![s] = "read"]
  /\ UNCHANGED <<made, state, flag, held, chan, wire, count, finish, over, after, stray, sending>>

\* Binary and JSON messages become events, with the session id they carry; the
\* end of the connection ends the loop.
ReadMessage(s) ==
  /\ loop[s] = "read" /\ (wire /= <<>> \/ over)
  /\ reader' = 0
  /\ IF wire = <<>> THEN loop' = [loop EXCEPT ![s] = "done"] /\ UNCHANGED <<wire, held>>
     ELSE /\ wire' = Tail(wire)
          /\ held' = [held EXCEPT ![s] = Parse(Head(wire))]
          /\ loop' = [loop EXCEPT ![s] = IF Parse(Head(wire)) = NoEvent THEN "check" ELSE "push"]
  /\ after' = IF flag[s] /\ wire /= <<>> THEN [after EXCEPT ![s] = @ + 1] ELSE after
  /\ UNCHANGED <<made, state, flag, chan, count, finish, over, stray, sending>>

\* An error of the connection: the loop tells of it, the read lock in its hand, and ends.
ReadFails(s) ==
  /\ loop[s] = "read" /\ wire = <<>> /\ over
  /\ held' = [held EXCEPT ![s] = [for |-> s, kind |-> "failed"]]
  /\ loop' = [loop EXCEPT ![s] = "fail"]
  /\ UNCHANGED <<made, state, flag, reader, chan, wire, count, finish, over, after, stray, sending>>

PushFailure(s) ==
  /\ loop[s] = "fail" /\ Len(chan[s]) < Cap
  /\ chan' = [chan EXCEPT ![s] = Append(@, held[s])]
  /\ held' = [held EXCEPT ![s] = NoEvent]
  /\ reader' = 0
  /\ loop' = [loop EXCEPT ![s] = "done"]
  /\ UNCHANGED <<made, state, flag, wire, count, finish, over, after, stray, sending>>

\* The loop's own clone of the session keeps the receiver: sending never fails.
PushEvent(s) ==
  /\ loop[s] = "push" /\ Len(chan[s]) < Cap
  /\ chan' = [chan EXCEPT ![s] = Append(@, held[s])]
  /\ stray' = IF held[s].for = s THEN stray ELSE stray \cup {held[s]}
  /\ held' = [held EXCEPT ![s] = NoEvent]
  /\ loop' = [loop EXCEPT ![s] = "check"]
  /\ UNCHANGED <<made, state, flag, reader, wire, count, finish, over, after, sending>>

-----------------------------------------------------------------------------
(* The service (external) sends what it likes for the session that is       *)
(* running, and may answer a finish message.                                 *)

Live(s) == s = made /\ state[s] \in {"starting", "ready", "finishing", "closing"}

ServiceSends(s) ==
  /\ Live(s) /\ ~over /\ s \notin finish /\ count[s] < MaxEvents
  /\ \E kind \in Kinds : wire' = Append(wire, [for |-> s, kind |-> kind])
  /\ count' = [count EXCEPT ![s] = @ + 1]
  /\ UNCHANGED <<made, state, flag, loop, reader, held, chan, finish, over, after, stray, sending>>

ServiceFinishes(s) ==
  /\ s \in finish /\ ~over
  /\ finish' = finish \ {s}
  /\ wire' = Append(wire, [for |-> s, kind |-> "ended"])
  /\ UNCHANGED <<made, state, flag, loop, reader, held, chan, count, over, after, stray, sending>>

\* RealtimeConnection::close, or the service ends the connection.
ConnectionEnds ==
  /\ ~over /\ over' = TRUE
  /\ UNCHANGED <<made, state, flag, loop, reader, held, chan, wire, count, finish, after, stray, sending>>

LoopStep(s) ==
  CheckFlag(s) \/ LockReader(s) \/ ReadMessage(s) \/ PushEvent(s) \/ ReadFails(s) \/ PushFailure(s)

Next ==
  \/ StartSession \/ ConnectionEnds
  \/ \E s \in Session :
       \/ Started(s) \/ StartTimesOut(s) \/ Recv(s) \/ Close(s) \/ WriteFinish(s) \/ Closed(s)
       \/ SendAudio(s) \/ SendText(s) \/ SayHello(s) \/ Interrupt(s) \/ WriteMessage(s)
       \/ LoopStep(s) \/ ServiceSends(s) \/ ServiceFinishes(s)

\* Tasks run; the caller receives; the service answers what it is asked.
Fairness ==
  \A s \in Session :
    /\ WF_vars(LoopStep(s)) /\ WF_vars(Started(s)) /\ WF_vars(Recv(s))
    /\ WF_vars(WriteFinish(s)) /\ WF_vars(Closed(s)) /\ WF_vars(ServiceFinishes(s))

Spec == Init /\ [][Next]_vars /\ Fairness

-----------------------------------------------------------------------------
TypeOK ==
  /\ made \in 0..MaxSessions /\ reader \in {0} \cup Session
  /\ state \in [Session -> {"new", "starting", "ready", "failed", "finishing", "closing", "closed"}]
  /\ loop \in [Session -> {"none", "check", "lock", "read", "push", "fail", "done"}]

\* What the service sends for a session is delivered to that session: no loop
\* takes an event of another session off the socket.
OwnEvents == stray = {}

\* Closing stops the loop at the message it is waiting for: it takes one more
\* message off the socket the sessions share, at most, and so can take at most
\* one of the next session's.
OneOverrun == \A s \in Session : after[s] <= 1

\* What a session writes after its finish message was under way when close was
\* called: one message for each task that sends, here one.
FinishIsLast == \A s \in Session : late[s] <= 1

\* close() signals the receive loop to stop and waits for it to complete: the
\* loop of a closed session comes to its end.
ClosedLoopEnds == \A s \in Session : flag[s] ~> loop[s] = "done"
=============================================================================
