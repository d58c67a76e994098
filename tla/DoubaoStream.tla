---------------------------- MODULE DoubaoStream ----------------------------
(* The streaming sessions of rust/doubaospeech: one WebSocket, requests of   *)
(* the caller one way, results of the service the other.                     *)
(*                                                                           *)
(* Six services read the socket in recv itself ("asr", "st", "sami",         *)
(* "podcast", "duplex" and the pull stream "ttsws"); two have a background   *)
(* task that reads the socket and hands the results to recv over a bounded   *)
(* channel ("tts2", "asr2").  A message of the service is abstracted to what *)
(* the code tells apart: "data" and "last" carry a result, "bad" an API      *)
(* error, "mute" an error whose payload is no JSON, "junk" does not parse,   *)
(* the payload of "torn" does not decompress, "text" is a text frame where   *)
(* binary is expected, "other" a ping or pong.                               *)
(* "close" is a Close frame, "drop" a transport error, after which the       *)
(* socket yields nothing more.                                               *)
(*                                                                           *)
(* One task of the caller sends, one closes, the others receive.  What takes *)
(* the session by &mut, or the one stream there is, excludes other calls.    *)
EXTENDS Naturals, Sequences, FiniteSets

CONSTANTS Services,     \* the services to check
          Receivers,    \* tasks that may call recv on one session
          MaxMessages,  \* bound: messages the service sends (one more in tts2)
          MaxTexts,     \* bound: texts or audio chunks the caller sends
          MaxRecvs,     \* bound: recv calls per receiver
          ChanCap       \* capacity of the background task's channel (100)

VARIABLES svc,     \* the service of this session
          phase,   \* "open1", "wait1", "open2", "wait2" (tts2's handshake), "up",
                   \* "failed" or "dropped"
          sending, \* operations the open or send under way has still to write
          sentUp,  \* operations written
          texts,   \* calls of send
          final,   \* the caller's last text or chunk: "no", "sending", "sent"
          sink,    \* close: "open", "finish" and "close" under way, "shut"
          wire,    \* messages on their way to the client
          sent,    \* how many messages the service has sent
          over,    \* the socket yields nothing more once wire is empty
          closed,  \* the session's closed flag
          task,    \* the background task: "none", "check", "read", "push", "done"
          held,    \* the result the task is pushing
          chan,    \* the channel
          rx,      \* what each receiver is doing: "idle", "check", "wait"
          late,    \* receivers whose recv started after the last result
          calls,   \* recv calls made per receiver
          got      \* how a recv ended at last, and whether "last" was ever returned

vars == <<svc, phase, sending, sentUp, texts, final, sink, wire, sent, over, closed,
          task, held, chan, rx, late, calls, got>>
upward == <<sending, sentUp, texts, final, sink>>
downward == <<wire, sent, over>>
loop == <<task, held, chan>>
receiving == <<rx, late, calls, got>>

Background == {"tts2", "asr2"}
Messages == {"data", "last", "bad", "mute", "junk", "torn", "text",
             "other", "close", "drop"}

Out(give, ends) == [give |-> give, ends |-> ends]

-----------------------------------------------------------------------------
(* What each service does with one message: what it gives the caller ("no":  *)
(* nothing, it reads on) and whether it marks the session closed or leaves   *)
(* its loop.                                                                 *)

AsrHandle(m) ==
  CASE m = "data" -> Out("data", FALSE)
    [] m = "last" -> Out("last", TRUE)
    [] m \in {"bad", "drop"} -> Out("err", FALSE)
    [] m = "close" -> Out("none", TRUE)
    [] OTHER -> Out("no", FALSE)

TranslationHandle(m) == AsrHandle(m)

\* parse_message: an error whose payload is no JSON is dropped.
SamiParse(m) ==
  CASE m \in {"data", "last"} -> m
    [] m \in {"bad", "junk", "torn"} -> "err"
    [] OTHER -> "no"

SamiHandle(m) ==
  CASE m \in {"text", "other"} -> Out("no", FALSE)
    [] m = "close" -> Out("none", TRUE)
    [] m = "drop" -> Out("err", FALSE)
    [] OTHER -> Out(SamiParse(m), SamiParse(m) = "last")

PodcastHandle(m) ==
  CASE m = "data" -> Out("data", FALSE)
    [] m = "last" -> Out("last", TRUE)
    [] m \in {"bad", "drop"} -> Out("err", FALSE)
    [] m = "close" -> Out("none", TRUE)
    [] OTHER -> Out("no", FALSE)

\* Not the code: the last chunk of a duplex session leaves it open.
DuplexHandleOpen(m) ==
  IF m \in {"data", "last"} THEN Out(m, FALSE) ELSE AsrHandle(m)

DuplexHandle(m) ==
  CASE m = "data" -> Out("data", FALSE)
    [] m = "last" -> Out("last", TRUE)
    [] m \in {"bad", "mute", "junk", "torn", "drop"} -> Out("err", FALSE)
    [] m = "close" -> Out("none", TRUE)
    [] OTHER -> Out("no", FALSE)

\* A try_stream: after an error, too, nothing more is yielded.
TtsWsHandle(m) ==
  CASE m = "data" -> Out("data", FALSE)
    [] m = "last" -> Out("last", TRUE)
    [] m \in {"bad", "mute", "junk", "torn", "drop"} -> Out("err", TRUE)
    [] m = "close" -> Out("none", TRUE)
    [] OTHER -> Out("no", FALSE)

\* parse_tts_response: errors end the task, nothing is told to the caller.
TtsV2Parse(m) ==
  CASE m \in {"data", "last"} -> m
    [] m \in {"bad", "junk", "torn"} -> "err"
    [] OTHER -> "no"

TtsV2Loop(m) ==
  CASE m \in {"text", "other"} -> Out("no", FALSE)
    [] m \in {"close", "drop"} \/ TtsV2Parse(m) = "err" -> Out("no", TRUE)
    [] OTHER -> Out(TtsV2Parse(m), TtsV2Parse(m) = "last")

\* parse_asr_response: what is too short or no JSON is skipped.
AsrV2Parse(m) ==
  CASE m \in {"data", "last"} -> m
    [] m \in {"bad", "torn"} -> "err"
    [] OTHER -> "no"

AsrV2Loop(m) ==
  CASE m = "other" -> Out("no", FALSE)
    [] m \in {"text", "close", "drop"} \/ AsrV2Parse(m) = "err" -> Out("no", TRUE)
    [] OTHER -> Out(AsrV2Parse(m), AsrV2Parse(m) = "last")

Handle(m) ==
  CASE svc = "asr" -> AsrHandle(m)
    [] svc = "st" -> TranslationHandle(m)
    [] svc = "sami" -> SamiHandle(m)
    [] svc = "podcast" -> PodcastHandle(m)
    [] svc = "duplex" -> DuplexHandle(m)
    [] svc = "ttsws" -> TtsWsHandle(m)
    [] svc = "tts2" -> TtsV2Loop(m)
    [] svc = "asr2" -> AsrV2Loop(m)

-----------------------------------------------------------------------------
(* Opening a session: what open writes.  The background task already runs.   *)

AsrOpen == <<"start">>
TranslationOpen == <<"start">>
SamiOpen == <<"request">>
PodcastOpen == <<"request">>
DuplexOpen == <<>>
TtsWsOpen == <<"request">>
TtsV2Open == <<"start_connection">>
AsrV2Open == <<"session_start">>

Open(s) ==
  CASE s = "asr" -> AsrOpen [] s = "st" -> TranslationOpen
    [] s = "sami" -> SamiOpen [] s = "podcast" -> PodcastOpen
    [] s = "duplex" -> DuplexOpen [] s = "ttsws" -> TtsWsOpen
    [] s = "tts2" -> TtsV2Open [] s = "asr2" -> AsrV2Open

Init ==
  /\ svc \in Services
  /\ sending = Open(svc) /\ phase = IF sending = <<>> THEN "up" ELSE "open1"
  /\ sentUp = <<>> /\ texts = 0 /\ final = "no" /\ sink = "open"
  /\ wire = <<>> /\ sent = 0 /\ over = FALSE
  /\ closed = FALSE
  /\ task = IF svc \in Background THEN "check" ELSE "none"
  /\ held = "no" /\ chan = <<>>
  /\ rx = [r \in Receivers |-> "idle"]
  /\ late = {}
  /\ calls = [r \in Receivers |-> 0]
  /\ got = [ret |-> "no", last |-> FALSE]

\* bidirectional() of tts_v2 waits for any two results, each for 10 seconds;
\* the task's end or the timeout fails it.
Handshake ==
  /\ phase \in {"wait1", "wait2"}
  /\ \/ /\ chan /= <<>>
        /\ chan' = Tail(chan)
        /\ phase' = IF phase = "wait1" THEN "open2" ELSE "up"
        /\ sending' = IF phase = "wait1" THEN <<"start_session">> ELSE <<>>
     \/ /\ chan = <<>>     \* "connection closed", or the timeout
        /\ phase' = "failed"
        /\ UNCHANGED <<chan, sending>>
  /\ UNCHANGED <<svc, sentUp, texts, final, sink, downward, closed, task, held, receiving>>

\* Each operation is written under the lock of the sink, one after the other.
Write ==
  /\ sending /= <<>> /\ sink /= "shut"
  /\ sentUp' = Append(sentUp, Head(sending)) /\ sending' = Tail(sending)
  /\ phase' = IF phase = "open1" THEN IF svc = "tts2" THEN "wait1" ELSE "up"
              ELSE IF phase = "open2" THEN "wait2" ELSE phase
  /\ final' = IF final = "sending" /\ Len(sending) = 1 THEN "sent" ELSE final
  /\ UNCHANGED <<svc, texts, sink, downward, closed, loop, receiving>>
\* The connection is gone, or close was quicker: open or send fails.
WriteFails ==
  /\ sending /= <<>> /\ (over \/ sink = "shut")
  /\ sending' = <<>>
  /\ phase' = IF phase = "up" THEN "up" ELSE "failed"
  /\ final' = IF final = "sending" THEN "no" ELSE final
  /\ UNCHANGED <<svc, sentUp, texts, sink, downward, closed, loop, receiving>>

-----------------------------------------------------------------------------
(* Sending a text or an audio chunk.                                         *)

AsrSend(last) == IF last THEN <<"audio", "finish">> ELSE <<"audio">>
TranslationSend(last) == IF last THEN <<"audio", "finish">> ELSE <<"audio">>
DuplexSend(last) ==
  IF texts = 0 THEN <<"submit">>
  ELSE IF last THEN <<"finish">> ELSE <<"append">>
TtsV2Send(last) ==
  IF last THEN <<"task_request", "finish">> ELSE <<"task_request">>
\* The last chunk of audio carries the mark itself.
AsrV2Send(last) == IF last THEN <<"finish">> ELSE <<"audio">>

SendOps(last) ==
  CASE svc = "asr" -> AsrSend(last)
    [] svc = "st" -> TranslationSend(last)
    [] svc = "duplex" -> DuplexSend(last)
    [] svc = "tts2" -> TtsV2Send(last)
    [] svc = "asr2" -> AsrV2Send(last)

NoneReceives == \A r \in Receivers : rx[r] = "idle"
Closing == sink \in {"finish", "close"}

\* tts_v2's send_text does not look at the closed flag, the others do.
Send(last) ==
  /\ phase = "up" /\ svc \in {"asr", "st", "duplex", "tts2", "asr2"}
  /\ texts < MaxTexts /\ sending = <<>>
  /\ svc \in Background => NoneReceives
  /\ svc = "tts2" => ~Closing
  /\ svc /= "tts2" => ~closed
  /\ sending' = SendOps(last)
  /\ texts' = texts + 1 /\ final' = IF last THEN "sending" ELSE final
  /\ UNCHANGED <<svc, phase, sentUp, sink, downward, closed, loop, receiving>>

\* close: the flag, asr2's finish message, then the socket's write side; the service
\* answers with its own Close frame.
Close ==
  /\ phase = "up" /\ svc /= "ttsws" /\ ~closed
  /\ svc \in Background => NoneReceives
  /\ svc = "tts2" => sending = <<>>
  /\ closed' = TRUE
  /\ sink' = IF svc = "asr2" THEN "finish" ELSE "close"
  /\ UNCHANGED <<svc, phase, sending, sentUp, texts, final, downward, loop, receiving>>
CloseFinish ==
  /\ sink = "finish" /\ sink' = "close"
  /\ \/ sentUp' = Append(sentUp, "finish")
     \/ over /\ UNCHANGED sentUp
  /\ UNCHANGED <<svc, phase, sending, texts, final, downward, closed, loop, receiving>>
CloseSink ==
  /\ sink = "close" /\ sink' = "shut"
  /\ UNCHANGED <<svc, phase, sending, sentUp, texts, final, downward, closed, loop, receiving>>

\* The caller drops the session, and with it the channel's receiver.
Drop ==
  /\ phase = "up" /\ sending = <<>> /\ ~Closing /\ NoneReceives
  /\ phase' = "dropped" /\ chan' = <<>>
  /\ UNCHANGED <<svc, upward, downward, closed, task, held, receiving>>

-----------------------------------------------------------------------------
(* The service (external): any messages, at last the end of the connection.  *)

ServiceSends(m) ==
  /\ ~over /\ sent < MaxMessages + (IF svc = "tts2" THEN 1 ELSE 0)
  /\ wire' = Append(wire, m) /\ sent' = sent + 1
  /\ over' = (m \in {"close", "drop"})
  /\ UNCHANGED <<svc, phase, upward, closed, loop, receiving>>

ServiceEnds ==
  /\ ~over
  /\ over' = TRUE
  /\ UNCHANGED <<svc, phase, upward, wire, sent, closed, loop, receiving>>

-----------------------------------------------------------------------------
(* recv of the sessions that read the socket themselves.                     *)

Recv(r) ==
  /\ phase = "up" /\ rx[r] = "idle" /\ calls[r] < MaxRecvs
  /\ svc \in Background \cup {"ttsws"} => NoneReceives
  /\ svc \in Background => sending = <<>> /\ ~Closing
  /\ rx' = [rx EXCEPT ![r] = IF svc \in Background THEN "wait" ELSE "check"]
  /\ late' = IF got.last THEN late \cup {r}
             ELSE late \ {r}
  /\ calls' = [calls EXCEPT ![r] = @ + 1]
  /\ UNCHANGED <<svc, phase, upward, downward, closed, loop, got>>

\* The caller gives up on it: no result is lost.
Cancel(r) ==
  /\ rx[r] /= "idle" /\ rx' = [rx EXCEPT ![r] = "idle"]
  /\ got' = [got EXCEPT !.ret = "cancelled"]
  /\ UNCHANGED <<svc, phase, upward, downward, closed, loop, late, calls>>

Returns(r, what) ==
  /\ got' = [ret |-> what, last |-> got.last \/ what = "last"]
  /\ rx' = [rx EXCEPT ![r] = "idle"]

CheckClosed(r) ==
  /\ rx[r] = "check"
  /\ IF closed THEN Returns(r, "none")
     ELSE rx' = [rx EXCEPT ![r] = "wait"] /\ UNCHANGED got
  /\ UNCHANGED <<svc, phase, upward, downward, closed, loop, late, calls>>

\* duplex and ttsws look at the flag once, before the loop.
ReadSocket(r) ==
  /\ rx[r] = "wait" /\ svc \notin Background /\ wire /= <<>>
  /\ wire' = Tail(wire)
  /\ LET o == Handle(Head(wire)) IN
       /\ closed' = (closed \/ o.ends)
       /\ IF o.give = "no"
          THEN /\ rx' = [rx EXCEPT ![r] =
                           IF svc \in {"duplex", "ttsws"} THEN "wait" ELSE "check"]
               /\ UNCHANGED got
          ELSE Returns(r, o.give)
  /\ UNCHANGED <<svc, phase, upward, sent, over, loop, late, calls>>

SocketEnded(r) ==
  /\ rx[r] = "wait" /\ svc \notin Background /\ wire = <<>> /\ over
  /\ Returns(r, "none")
  /\ UNCHANGED <<svc, phase, upward, downward, closed, loop, late, calls>>

-----------------------------------------------------------------------------
(* The background task, and recv of the sessions that have one.              *)

TaskCheck ==
  /\ task = "check"
  /\ task' = IF closed THEN "done" ELSE "read"
  /\ UNCHANGED <<svc, phase, upward, downward, closed, held, chan, receiving>>

TaskReads ==
  /\ task = "read" /\ (wire /= <<>> \/ over)
  /\ IF wire = <<>> THEN task' = "done" /\ UNCHANGED <<wire, held>>
     ELSE LET o == Handle(Head(wire)) IN
            /\ wire' = Tail(wire)
            /\ held' = o.give
            /\ task' = IF o.give /= "no" THEN "push"
                       ELSE IF o.ends THEN "done" ELSE "check"
  /\ UNCHANGED <<svc, phase, upward, sent, over, closed, chan, receiving>>

\* Without a receiver the send fails.
TaskPushes ==
  LET gone == phase \in {"failed", "dropped"} IN
  /\ task = "push" /\ (Len(chan) < ChanCap \/ gone)
  /\ chan' = IF gone THEN chan ELSE Append(chan, held)
  /\ task' = IF gone \/ held = "last" THEN "done" ELSE "check"
  /\ held' = "no"
  /\ UNCHANGED <<svc, phase, upward, downward, closed, receiving>>

RecvChannel(r) ==
  /\ rx[r] = "wait" /\ svc \in Background /\ (chan /= <<>> \/ task = "done")
  /\ chan' = IF chan = <<>> THEN chan ELSE Tail(chan)
  /\ Returns(r, IF chan = <<>> THEN "none" ELSE Head(chan))
  /\ UNCHANGED <<svc, phase, upward, downward, closed, task, held, late, calls>>

Next ==
  \/ Handshake \/ Write \/ WriteFails \/ Close \/ CloseFinish \/ CloseSink \/ Drop \/ ServiceEnds
  \/ \E last \in BOOLEAN : Send(last)
  \/ \E m \in Messages : ServiceSends(m)
  \/ \E r \in Receivers :
       Recv(r) \/ Cancel(r) \/ CheckClosed(r) \/ ReadSocket(r) \/ SocketEnded(r) \/ RecvChannel(r)
  \/ TaskCheck \/ TaskReads \/ TaskPushes

Receive(r) == CheckClosed(r) \/ ReadSocket(r) \/ SocketEnded(r) \/ RecvChannel(r)

\* The executor runs every ready task; a connection comes to an end.
Fairness ==
  /\ WF_vars(ServiceEnds) /\ WF_vars(Handshake \/ Write \/ WriteFails)
  /\ WF_vars(TaskCheck \/ TaskReads \/ TaskPushes)
  /\ \A r \in Receivers : WF_vars(Receive(r))

Spec == Init /\ [][Next]_vars /\ Fairness

-----------------------------------------------------------------------------
TypeOK ==
  /\ svc \in Services
  /\ phase \in {"open1", "wait1", "open2", "wait2", "up", "failed", "dropped"}
  /\ wire \in Seq(Messages) /\ Len(chan) <= ChanCap
  /\ rx \in [Receivers -> {"idle", "check", "wait"}]
  /\ task \in {"none", "check", "read", "push", "done"}

\* A recv that starts after the result marked last has been delivered returns
\* nothing more, whatever the service still sends (after PODCAST_END SAMI sends
\* SESSION_FINISHED, say), in all services.
NothingAfterLast ==
  \A r \in late : (rx[r] /= "idle" /\ rx'[r] = "idle") => got'.ret \in {"none", "cancelled"}
LastIsLast == [][NothingAfterLast]_vars

\* The text or chunk the caller marks as the last ends the request: once send has
\* returned, the service was told to finish (tts.rs:704: "which sends `operation:
\* "finish"`").  Not so of a duplex session whose first text is its last.
FinishSent == final = "sent" => \E i \in 1..Len(sentUp) : sentUp[i] = "finish"

Receiving(r) == rx[r] /= "idle"

\* Every recv returns once the connection has come to an end, with two tasks
\* receiving, a full channel, or a close between the look at the flag and the
\* wait.
RecvReturns == \A r \in Receivers : Receiving(r) ~> ~Receiving(r)
=============================================================================
