------------------------------ MODULE GearPipe ------------------------------
(***************************************************************************)
(* What goes through a pipe between a server and a device                  *)
(* (rust/chatgear/src/conn_pipe.rs): commands and audio to the device,     *)
(* read by the tasks of ClientPort::recv_from (client_port.rs), and audio  *)
(* to the server, read by the opus task of ServerPort::recv_from           *)
(* (server_port.rs).  A behaviour follows one of these lanes; they share   *)
(* nothing but the errors of the two ends.  State and stats events are     *)
(* followed in GearPort.                                                   *)
(*                                                                         *)
(* A channel ends when its sending end is dropped, not when it is closed:  *)
(* closing only notes an error for the other side.  The port behind the    *)
(* reading end may also be fed by its handle_* entry points.               *)
(***************************************************************************)
EXTENDS Integers, Sequences

CONSTANTS
    Lanes,        \* subset of {"command", "downlink_opus", "uplink_opus"}
    PipeCap,      \* capacity of the pipe's channel (32 or 1024)
    PortCap,      \* capacity of the port's channel (32 or 1024)
    MaxItems,     \* bound: items sent through the pipe
    MaxDirect,    \* bound: items handed to the port directly
    Error         \* the error an end is closed with

VARIABLES
    lane,
    sent,         \* items sent so far; the n-th is the number n
    pipe,         \* the channel of the lane
    end,          \* "open", "closed" (close_with_error was called), "dropped"
    err,          \* what it left in the shared state: "none" or Error
    task,         \* the port's task: "recv", "check", "send", or how it ended
    carried,      \* the item it carries
    direct,       \* items handed over directly so far; the n-th is -n
    handler,      \* the item a handler waits with, or 0
    port,         \* the channel of the port
    cancelled, closed,    \* of the port
    received      \* items the application behind the port has read

ends == <<end, err>>
handlers == <<direct, handler>>
closes == <<cancelled, closed>>
vars == <<lane, sent, pipe, ends, task, carried, handlers, port, closes, received>>

Init ==
    /\ lane \in Lanes
    /\ sent = 0 /\ pipe = << >> /\ end = "open" /\ err = "none"
    /\ task = "recv" /\ carried = 0 /\ direct = 0 /\ handler = 0 /\ port = << >>
    /\ cancelled = FALSE /\ closed = FALSE /\ received = << >>

-----------------------------------------------------------------------------
(* The sending end. *)

Send ==
    /\ end # "dropped" /\ sent < MaxItems /\ Len(pipe) < PipeCap
    /\ sent' = sent + 1
    /\ pipe' = Append(pipe, sent + 1)
    /\ UNCHANGED <<lane, ends, task, carried, handlers, port, closes, received>>

\* DownlinkTx and UplinkTx: a send waits for room, whether the end was closed or not.
DownlinkSend == lane # "uplink_opus" /\ Send
UplinkSend == lane = "uplink_opus" /\ Send

\* close_with_error of either end, or close, once; a second call changes nothing.
CloseEnd(e) ==
    /\ end = "open"
    /\ end' = "closed"
    /\ err' = e
    /\ UNCHANGED <<lane, sent, pipe, task, carried, handlers, port, closes, received>>

ServerCloses(e) == lane # "uplink_opus" /\ CloseEnd(e)
ClientCloses(e) == lane = "uplink_opus" /\ CloseEnd(e)

DropEnd ==
    /\ end # "dropped"
    /\ end' = "dropped"
    /\ UNCHANGED <<lane, sent, pipe, err, task, carried, handlers, port, closes, received>>

-----------------------------------------------------------------------------
(* The tasks of recv_from. *)

\* Not the code: the error is looked at before the channel.
RecvErrorFirst(then) ==
    /\ IF err # "none"
         THEN task' = err /\ UNCHANGED <<pipe, carried>>
         ELSE \/ pipe # << >> /\ carried' = Head(pipe) /\ pipe' = Tail(pipe) /\ task' = then
              \/ pipe = << >> /\ end = "dropped" /\ task' = "end" /\ UNCHANGED <<pipe, carried>>

\* A read of the pipe: an item, or, when the channel has ended, the error or the end.
Recv(then) ==
    \/ pipe # << >> /\ carried' = Head(pipe) /\ pipe' = Tail(pipe) /\ task' = then
    \/ /\ pipe = << >> /\ end = "dropped"
       /\ task' = (IF err # "none" THEN err ELSE "end")
       /\ UNCHANGED <<pipe, carried>>

RecvCommand ==
    /\ lane = "command" /\ task = "recv"
    /\ Recv("check")
    /\ UNCHANGED <<lane, sent, ends, handlers, port, closes, received>>

\* The task ends when the port was closed meanwhile ...
CheckClosed ==
    /\ task = "check"
    /\ task' = IF closed THEN "stopped" ELSE "send"
    /\ UNCHANGED <<lane, sent, pipe, ends, carried, handlers, port, closes, received>>

\* ... and else passes the command on.
PassOn ==
    /\ task = "send" /\ Len(port) < PortCap
    /\ port' = Append(port, carried)
    /\ task' = "recv"
    /\ UNCHANGED <<lane, sent, pipe, ends, carried, handlers, closes, received>>

\* Audio is passed on without a look at `closed`.
RecvDownlinkFrame ==
    /\ lane = "downlink_opus" /\ task = "recv"
    /\ Recv("send")
    /\ UNCHANGED <<lane, sent, ends, handlers, port, closes, received>>

RecvUplinkFrame ==
    /\ lane = "uplink_opus" /\ task = "recv"
    /\ Recv("send")
    /\ UNCHANGED <<lane, sent, ends, handlers, port, closes, received>>

Cancelled ==
    /\ task = "recv" /\ cancelled
    /\ task' = "stopped"
    /\ UNCHANGED <<lane, sent, pipe, ends, carried, handlers, port, closes, received>>

-----------------------------------------------------------------------------
(* The port. *)

\* handle_command, which holds the lock of `closed` until it returns, and
\* handle_opus_frame, which does not look at it.
HandleDirect ==
    /\ handler = 0 /\ direct < MaxDirect
    /\ direct' = direct + 1
    /\ handler' = IF lane = "command" /\ closed THEN 0 ELSE -(direct + 1)
    /\ UNCHANGED <<lane, sent, pipe, ends, task, carried, port, closes, received>>

HandlerSends ==
    /\ handler # 0 /\ Len(port) < PortCap
    /\ port' = Append(port, handler)
    /\ handler' = 0
    /\ UNCHANGED <<lane, sent, pipe, ends, task, carried, direct, closes, received>>

\* The application reads from the port.
Receive ==
    /\ port # << >>
    /\ received' = Append(received, Head(port))
    /\ port' = Tail(port)
    /\ UNCHANGED <<lane, sent, pipe, ends, task, carried, handlers, closes>>

\* close of the port cancels the task ...
CancelTask ==
    /\ ~cancelled
    /\ cancelled' = TRUE
    /\ UNCHANGED <<lane, sent, pipe, ends, task, carried, handlers, port, closed, received>>

\* ... and marks the port closed when no handler holds the lock.
MarkClosed ==
    /\ cancelled /\ ~closed
    /\ lane = "command" => handler = 0
    /\ closed' = TRUE
    /\ UNCHANGED <<lane, sent, pipe, ends, task, carried, handlers, port, cancelled, received>>

-----------------------------------------------------------------------------
TaskStep == RecvCommand \/ RecvDownlinkFrame \/ RecvUplinkFrame \/ CheckClosed \/ PassOn

Next ==
    \/ DownlinkSend \/ UplinkSend \/ DropEnd \/ TaskStep \/ Cancelled
    \/ HandleDirect \/ HandlerSends \/ Receive \/ CancelTask \/ MarkClosed
    \/ \E e \in {"none", Error} : ServerCloses(e) \/ ClientCloses(e)

\* Tasks run, the application reads and a close is carried through.
Spec ==
    /\ Init /\ [][Next]_vars
    /\ WF_vars(TaskStep) /\ WF_vars(Cancelled) /\ WF_vars(HandlerSends) /\ WF_vars(Receive)
    /\ WF_vars(MarkClosed)

-----------------------------------------------------------------------------
\* Items reach the application in the order they were sent, through the pipe or
\* directly, and none is skipped: what was read is the beginning of what was sent, up
\* to what a close throws away.
ItemsInOrder ==
    LET piped == SelectSeq(received, LAMBDA n : n > 0)
        handed == SelectSeq(received, LAMBDA n : n < 0)
    IN  /\ piped = [i \in 1 .. Len(piped) |-> i]
        /\ handed = [i \in 1 .. Len(handed) |-> -i]

\* The end of the pipe overtakes no item: when the task ends by itself, with the
\* error of the other end or without, everything sent is with the application or the
\* port.
ErrorComesLast ==
    task \in {"end", Error} => Len(SelectSeq(received \o port, LAMBDA n : n > 0)) = sent

Ending == end = "dropped" \/ cancelled
TaskOver == task \in {"end", "stopped", Error}

\* Once the sending end is gone or the port closed, the task ends.
TaskEnds == Ending ~> TaskOver
=============================================================================
