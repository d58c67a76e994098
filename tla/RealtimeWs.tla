----------------------------- MODULE RealtimeWs -----------------------------
(* The realtime sessions of rust/dashscope and rust/openai-realtime: a       *)
(* session is two channels and two background tasks around one WebSocket.    *)
(*                                                                           *)
(*   caller --write_tx--> write_loop --up--> service                         *)
(*   caller <--event_rx-- read_loop <--down-- service                        *)
(*                                                                           *)
(* All four queues are bounded (the socket by its buffers), so a task that   *)
(* does not read stops the one that feeds it.  The OpenAI read_loop answers  *)
(* pings through the write channel, the DashScope one only notes them.  recv *)
(* takes the session exclusively (&mut self): a caller that waits to send    *)
(* does not receive.  The service (external) handles a request when it has   *)
(* room for its answer.  So the four queues are a cycle, and it can lock up  *)
(* (Locked): the caller or read_loop waits for room in the write channel,    *)
(* write_loop for the service to read, the service for read_loop, and        *)
(* read_loop for the caller to receive.                                      *)
EXTENDS Naturals, Sequences

CONSTANTS Kinds,       \* subset of {"dashscope", "openai"}
          Cap,         \* capacity of each channel (100) and socket buffer
          MaxSends,    \* bound: requests the caller makes
          MaxEvents    \* bound: frames the service sends of its own accord

VARIABLES kind,
          wq, up, down, ev,   \* the four queues
          writer,    \* write_loop: "run", "done"
          reader,    \* read_loop: "read", "push", "pong", "done"
          held,      \* the event read_loop is pushing
          senders,   \* the event channel has a sender
          over,      \* the service has closed the connection
          snd,       \* a call that sends: "idle" or the message it pushes
          sends,     \* requests made
          rcv,       \* recv: "idle", "wait", "ended"
          session,   \* OpenAI: the session id is known
          events     \* frames sent by the service

vars == <<kind, wq, up, down, ev, writer, reader, held, senders, over, snd,
          sends, rcv, session, events>>

-----------------------------------------------------------------------------
(* What the caller can ask for; each is one text frame.                      *)

DashscopeRequests == {"update_session", "append_audio", "create_response"}
OpenaiRequests == {"update_session", "append_audio", "add_message", "create_response"}
Requests == IF kind = "dashscope" THEN DashscopeRequests ELSE OpenaiRequests

Frame(m) == IF m = "close" THEN "close" ELSE "text"

(* What read_loop hands to the caller for a text frame.  OpenAI turns an     *)
(* error event into Err; DashScope hands it on as an event.  A frame that is *)
(* no JSON is an Err in both.                                                *)
DashscopeParse(m) ==
  CASE m = "junk" -> "err"
    [] OTHER -> m

OpenaiParse(m) ==
  CASE m \in {"junk", "error"} -> "err"
    [] OTHER -> m

ParseEvent(m) == IF kind = "dashscope" THEN DashscopeParse(m) ELSE OpenaiParse(m)

Texts == {"created", "event", "error", "junk"}

-----------------------------------------------------------------------------
Init ==
  /\ kind \in Kinds
  /\ wq = <<>> /\ up = <<>> /\ down = <<>> /\ ev = <<>>
  /\ writer = "run" /\ reader = "read" /\ held = "no" /\ senders = TRUE
  /\ over = FALSE /\ snd = "idle" /\ sends = 0 /\ rcv = "idle"
  /\ session = FALSE /\ events = 0

\* send_event (every request) and close: a message into the write channel.
\* close ignores a failed send, a request returns the error: both return.  A recv
\* that waits is given up first.
Call(m) ==
  /\ snd = "idle" /\ sends < MaxSends
  /\ snd' = m
  /\ sends' = IF m = "close" THEN MaxSends ELSE sends + 1
  /\ rcv' = IF rcv = "wait" THEN "idle" ELSE rcv
  /\ UNCHANGED <<kind, wq, up, down, ev, writer, reader, held, senders, over,
                 session, events>>

Push ==
  /\ snd /= "idle" /\ (Len(wq) < Cap \/ writer = "done")
  /\ wq' = IF writer = "done" THEN wq ELSE Append(wq, Frame(snd))
  /\ snd' = "idle"
  /\ UNCHANGED <<kind, up, down, ev, writer, reader, held, senders, over, sends,
                 rcv, session, events>>

-----------------------------------------------------------------------------
(* write_loop *)

\* Not the code: after a failed write the loop stops taking messages but keeps
\* its end of the channel.
WriteSticks ==
  /\ writer = "run" /\ wq /= <<>> /\ Len(up) < Cap /\ ~over
  /\ up' = Append(up, Head(wq))
  /\ wq' = Tail(wq)
  /\ writer' = IF Head(wq) = "close" THEN "done" ELSE "run"
  /\ UNCHANGED <<kind, down, ev, reader, held, senders, over, snd, sends, rcv,
                 session, events>>

\* A Close message closes the socket's write side and ends the loop, and so does
\* a write that fails.
Write ==
  /\ writer = "run" /\ wq /= <<>> /\ (Len(up) < Cap \/ over)
  /\ up' = IF over THEN up ELSE Append(up, Head(wq))
  /\ writer' = IF over \/ Head(wq) = "close" THEN "done" ELSE "run"
  /\ wq' = IF writer' = "done" THEN <<>> ELSE Tail(wq)
  /\ UNCHANGED <<kind, down, ev, reader, held, senders, over, snd, sends, rcv,
                 session, events>>

-----------------------------------------------------------------------------
(* The service (external) *)

Serve ==
  /\ up /= <<>> /\ ~over /\ Len(down) < Cap
  /\ up' = Tail(up)
  /\ down' = CASE Head(up) = "close" -> Append(down, "close")
               [] Head(up) = "pong" -> down
               [] OTHER -> Append(down, "event")
  /\ over' = (Head(up) = "close")
  /\ UNCHANGED <<kind, wq, ev, writer, reader, held, senders, snd, sends, rcv,
                 session, events>>

ServiceSends(m) ==
  /\ ~over /\ events < MaxEvents /\ Len(down) < Cap
  /\ down' = Append(down, m)
  /\ events' = events + 1
  /\ over' = (m \in {"close", "drop"})
  /\ UNCHANGED <<kind, wq, up, ev, writer, reader, held, senders, snd, sends,
                 rcv, session>>

-----------------------------------------------------------------------------
(* read_loop *)

\* Not the code: another sender of the event channel is kept in the session.
ReaderDoneKept == reader' = "done" /\ senders' = TRUE

ReaderDone == reader' = "done" /\ senders' = FALSE

Read ==
  /\ reader = "read" /\ (down /= <<>> \/ over)
  /\ down' = IF down = <<>> THEN down ELSE Tail(down)
  /\ LET m == IF down = <<>> THEN "close" ELSE Head(down) IN
       \/ /\ m \in Texts
          /\ reader' = "push" /\ held' = ParseEvent(m) /\ UNCHANGED senders
       \/ /\ m = "drop"
          /\ reader' = "push" /\ held' = "drop" /\ UNCHANGED senders
       \/ /\ m = "ping"
          /\ reader' = IF kind = "openai" THEN "pong" ELSE "read"
          /\ UNCHANGED <<held, senders>>
       \/ /\ m = "close" /\ ReaderDone /\ UNCHANGED held
  /\ UNCHANGED <<kind, wq, up, ev, writer, over, snd, sends, rcv, session, events>>

\* A transport error is handed on and ends the loop.
PushEvent ==
  /\ reader = "push" /\ Len(ev) < Cap
  /\ ev' = Append(ev, IF held = "drop" THEN "err" ELSE held)
  /\ IF held = "drop" THEN ReaderDone ELSE reader' = "read" /\ UNCHANGED senders
  /\ held' = "no"
  /\ UNCHANGED <<kind, wq, up, down, writer, over, snd, sends, rcv, session, events>>

\* The pong waits for room in the write channel; without a write_loop read_loop
\* ends, too.
PushPong ==
  /\ reader = "pong" /\ (Len(wq) < Cap \/ writer = "done")
  /\ IF writer = "done" THEN ReaderDone /\ UNCHANGED wq
     ELSE wq' = Append(wq, "pong") /\ reader' = "read" /\ UNCHANGED senders
  /\ UNCHANGED <<kind, up, down, ev, writer, held, over, snd, sends, rcv,
                 session, events>>

-----------------------------------------------------------------------------
(* recv: a caller that has nothing to send receives *)

Recv ==
  /\ rcv = "idle" /\ snd = "idle"
  /\ rcv' = "wait"
  /\ UNCHANGED <<kind, wq, up, down, ev, writer, reader, held, senders, over,
                 snd, sends, session, events>>

\* OpenAI's recv notes the session id on its way.
Received ==
  /\ rcv = "wait" /\ (ev /= <<>> \/ ~senders)
  /\ IF ev = <<>>
     THEN rcv' = "ended" /\ UNCHANGED <<ev, session>>
     ELSE /\ ev' = Tail(ev) /\ rcv' = "idle"
          /\ session' = (session \/ (kind = "openai" /\ Head(ev) = "created"))
  /\ UNCHANGED <<kind, wq, up, down, writer, reader, held, senders, over, snd,
                 sends, events>>

Next ==
  \/ \E m \in Requests \cup {"close"} : Call(m)
  \/ Push \/ Write \/ Serve \/ Read \/ PushEvent \/ PushPong \/ Recv \/ Received
  \/ \E m \in Texts \cup {"ping", "close", "drop"} : ServiceSends(m)

\* Every ready task runs; the service handles requests, but need never send or
\* close of its own accord.
Fairness ==
  /\ WF_vars(Push) /\ WF_vars(Write) /\ WF_vars(Serve)
  /\ WF_vars(Read \/ PushEvent \/ PushPong)
  /\ WF_vars(Recv) /\ WF_vars(Received)

Spec == Init /\ [][Next]_vars /\ Fairness

-----------------------------------------------------------------------------
TypeOK ==
  /\ \A q \in {wq, up, ev} : Len(q) <= Cap
  /\ writer \in {"run", "done"} /\ reader \in {"read", "push", "pong", "done"}
  /\ rcv \in {"idle", "wait", "ended"}

Sending == snd /= "idle"

\* Every queue is full on the way from the write channel to the service and back,
\* and read_loop waits for the caller, who sends, or for the write channel.
\* Nothing moves any more.
Locked ==
  /\ Len(wq) = Cap /\ Len(up) = Cap /\ Len(down) = Cap /\ writer = "run" /\ ~over
  /\ \/ reader = "push" /\ Len(ev) = Cap /\ Sending
     \/ reader = "pong"

\* The cycle write channel - socket - event channel stands still in no other way:
\* every request and close returns, also when pings, full queues, a failed write
\* or the end of the connection come in between.
SendsReturn == Sending ~> (~Sending \/ Locked)

Closing == snd = "close"
Ended == rcv = "ended"

\* close() brings the session to its end, when it is not locked up: recv returns
\* None.
CloseEnds == Closing ~> (Ended \/ Locked)

\* Not so: the session never locks up.
NeverLocked == ~Locked
=============================================================================
