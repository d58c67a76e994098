------------------------------ MODULE GearMqtt ------------------------------
(***************************************************************************)
(* A device and its server connected over MQTT: MQTTClientConn             *)
(* (chatgear/src/conn_mqtt.rs) on the device, MQTTServerConn               *)
(* (conn_mqtt_server.rs) on the server, either a client of a broker        *)
(* (dial_mqtt_server) or around a broker of its own (listen_mqtt_server).  *)
(*                                                                         *)
(* Each end publishes on its topics; what arrives is decoded by a receive  *)
(* loop, or by the broker's handler, and put into a bounded channel per    *)
(* kind without waiting: a full channel drops it.  The reads of the port   *)
(* above wait on the channels.  MQTT (external) keeps the order of what is *)
(* published to one end.                                                   *)
(***************************************************************************)
EXTENDS Integers, Sequences, FiniteSets, SequencesExt

CONSTANTS
    Modes,          \* a subset of {"client", "broker"}
    Topics,         \* a subset of Uplink \cup Downlink
    Cap,            \* capacity of a channel (1024 for audio, 32 for events)
    MaxSent,        \* bound: messages published
    Stamps,         \* timestamps of frames
    StampRange,     \* the timestamps that fit in seven bytes (2^56)
    FrameSizes,     \* bytes of a frame
    Methods,        \* the commands a port sends, by method
    States          \* the states a device reports

VARIABLES
    mode,           \* what the server is
    loop,           \* end -> its receive loop: "running", "ended"
    closed,         \* end -> closed
    inbox,          \* end -> messages published to it and not yet taken
    holding,        \* stats the server's loop holds while it waits for latest_stats, or NoStats
    chan,           \* topic -> the channel
    latest_stats,   \* the number of the stats event kept, 0 for none
    locked,         \* a reader holds the lock of latest_stats
    sent,           \* the messages published
    got,            \* topic -> messages delivered
    lost,           \* numbers of the messages that found a full channel or did not decode
    ended           \* topics whose read returned None

vars == <<mode, loop, closed, inbox, holding, chan, latest_stats, locked, sent, got, lost, ended>>

End == {"device", "server"}
Uplink == {"input_audio_stream", "state", "stats"}
Downlink == {"output_audio_stream", "command"}
Audio == {"input_audio_stream", "output_audio_stream"}
To(topic) == IF topic \in Uplink THEN "server" ELSE "device"

NoStats == [n |-> 0]

-----------------------------------------------------------------------------
(* What the messages carry.                                                *)

\* stamp_frame: the version takes the place of the stamp's first byte.
StampFrame(stamp, size) == [version |-> 1, stamp |-> stamp % StampRange, size |-> size]

\* Not the code: the version byte is read as part of the stamp.
UnstampFrameWhole(f) ==
    IF f.size >= 1 /\ f.version = 1 THEN <<f.version * StampRange + f.stamp, f.size>> ELSE << >>

\* unstamp_frame: nothing for a frame without data or another version.
UnstampFrame(f) ==
    IF f.size >= 1 /\ f.version = 1 THEN <<f.stamp, f.size>> ELSE << >>

\* command_type of the command each of the server port's methods sends.
CommandType(method) ==
    CASE method \in {"reset", "unpair"} -> "reset"
      [] method \in {"sleep", "shutdown"} -> "halt"
      [] method = "raise_call" -> "raise"
      [] method = "upgrade_firmware" -> "ota_upgrade"
      [] OTHER -> method

\* Command::parse: the variant of a type, or an error.
ParseCommand(type) ==
    IF type \in {"streaming", "reset", "raise", "halt", "set_volume", "set_brightness",
                 "set_light_mode", "set_wifi", "delete_wifi", "ota_upgrade"}
    THEN <<type>> ELSE << >>

\* GearState::from_str of what as_str gave: any other name is unknown.
FromStr(name) ==
    IF name \in {"shutting_down", "sleeping", "resetting", "ready", "recording",
                 "waiting_for_response", "streaming", "calling", "interrupted"}
    THEN name ELSE "unknown"

\* What can be sent on a topic.
Payloads(topic) ==
    IF topic \in Audio THEN Stamps \X FrameSizes
    ELSE IF topic = "command" THEN {CommandType(m) : m \in Methods}
    ELSE IF topic = "state" THEN States
    ELSE {"stats"}

\* What the other side makes of it: << >> if it cannot be decoded.
Decoded(m) ==
    IF ~m.valid THEN << >>
    ELSE IF m.topic \in Audio THEN UnstampFrame(StampFrame(m.payload[1], m.payload[2]))
    ELSE IF m.topic = "state" THEN <<FromStr(m.payload)>>
    ELSE <<m.payload>>

-----------------------------------------------------------------------------
(* The connections.                                                        *)

\* dial_mqtt: connected and subscribed, with its receive loop.
DialMqtt == "running"
\* dial_mqtt_server.
DialMqttServer == "running"
\* listen_mqtt_server: the broker's handler receives, there is no loop.
ListenMqttServer == "ended"

Init ==
    /\ mode \in Modes
    /\ loop = [e \in End |-> IF e = "device" THEN DialMqtt
                             ELSE IF mode = "client" THEN DialMqttServer ELSE ListenMqttServer]
    /\ closed = [e \in End |-> FALSE]
    /\ inbox = [e \in End |-> << >>] /\ holding = NoStats
    /\ chan = [t \in Topics |-> << >>] /\ latest_stats = 0 /\ locked = FALSE
    /\ sent = << >> /\ got = [t \in Topics |-> << >>] /\ lost = {} /\ ended = {}

\* send_* on either end: published whether or not this end was closed.
Publish(topic, payload, valid) ==
    /\ Len(sent) < MaxSent
    /\ LET m == [n |-> Len(sent) + 1, topic |-> topic, payload |-> payload, valid |-> valid]
       IN  /\ sent' = Append(sent, m)
           /\ inbox' = [inbox EXCEPT ![To(topic)] = Append(@, m)]
    /\ UNCHANGED <<mode, loop, closed, holding, chan, latest_stats, locked, got, lost, ended>>

\* try_send into the topic's channel.
TrySend(m) ==
    IF Len(chan[m.topic]) < Cap
    THEN chan' = [chan EXCEPT ![m.topic] = Append(@, m)] /\ UNCHANGED lost
    ELSE lost' = lost \cup {m.n} /\ UNCHANGED chan

\* receive_loop of the device: one message.
ReceiveLoop ==
    /\ loop["device"] = "running" /\ inbox["device"] # << >>
    /\ LET m == Head(inbox["device"])
       IN  IF Decoded(m) = << >> THEN lost' = lost \cup {m.n} /\ UNCHANGED chan ELSE TrySend(m)
    /\ inbox' = [inbox EXCEPT !["device"] = Tail(@)]
    /\ UNCHANGED <<mode, loop, closed, holding, latest_stats, locked, sent, got, ended>>

\* Not the code: a stats event goes to the channel before it is kept.
ServerReceiveLoopSendsFirst ==
    /\ loop["server"] = "running" /\ inbox["server"] # << >> /\ holding = NoStats
    /\ LET m == Head(inbox["server"])
       IN  IF Decoded(m) = << >> THEN lost' = lost \cup {m.n} /\ UNCHANGED <<chan, holding>>
           ELSE TrySend(m) /\ holding' = IF m.topic = "stats" THEN m ELSE NoStats
    /\ inbox' = [inbox EXCEPT !["server"] = Tail(@)]
    /\ UNCHANGED <<mode, loop, closed, latest_stats, locked, sent, got, ended>>

\* server_receive_loop: one message; a stats event waits for the lock first.
ServerReceiveLoop ==
    /\ loop["server"] = "running" /\ inbox["server"] # << >> /\ holding = NoStats
    /\ LET m == Head(inbox["server"])
       IN  IF Decoded(m) = << >> THEN lost' = lost \cup {m.n} /\ UNCHANGED <<chan, holding>>
           ELSE IF m.topic = "stats" THEN holding' = m /\ UNCHANGED <<chan, lost>>
           ELSE TrySend(m) /\ UNCHANGED holding
    /\ inbox' = [inbox EXCEPT !["server"] = Tail(@)]
    /\ UNCHANGED <<mode, loop, closed, latest_stats, locked, sent, got, ended>>

\* The lock is there: the event is kept, then sent.
KeepStats ==
    /\ holding # NoStats /\ ~locked
    /\ latest_stats' = holding.n
    /\ TrySend(holding)
    /\ holding' = NoStats
    /\ UNCHANGED <<mode, loop, closed, inbox, locked, sent, got, ended>>

\* BrokerMessageHandler::handle, in the broker's task for the device's
\* connection: not stopped by close, and a taken lock is not waited for.
Handle ==
    /\ mode = "broker" /\ inbox["server"] # << >>
    /\ LET m == Head(inbox["server"])
       IN  IF Decoded(m) = << >> THEN lost' = lost \cup {m.n} /\ UNCHANGED <<chan, latest_stats>>
           ELSE /\ TrySend(m)
                /\ latest_stats' = IF m.topic = "stats" /\ ~locked THEN m.n ELSE latest_stats
    /\ inbox' = [inbox EXCEPT !["server"] = Tail(@)]
    /\ UNCHANGED <<mode, loop, closed, holding, locked, sent, got, ended>>

\* A loop's select finds the token cancelled; it may have gone on for a while.
\* recv fails when the connection is lost.
LoopEnds(e) ==
    /\ loop[e] = "running" /\ (e = "server" => holding = NoStats)
    /\ loop' = [loop EXCEPT ![e] = "ended"]
    /\ UNCHANGED <<mode, closed, inbox, holding, chan, latest_stats, locked, sent, got, lost, ended>>

\* close of the device's connection.
CloseDevice ==
    /\ ~closed["device"] /\ closed' = [closed EXCEPT !["device"] = TRUE]
    /\ UNCHANGED <<mode, loop, inbox, holding, chan, latest_stats, locked, sent, got, lost, ended>>

\* close of the server's connection: cancels the loop, or the accepting of
\* connections in the broker.
CloseServer ==
    /\ ~closed["server"] /\ closed' = [closed EXCEPT !["server"] = TRUE]
    /\ UNCHANGED <<mode, loop, inbox, holding, chan, latest_stats, locked, sent, got, lost, ended>>

\* Whether a channel still has a sender: in the loop, or in the handler, which
\* the broker owns and the connection with it.
HasSender(topic) ==
    loop[To(topic)] = "running" \/ (To(topic) = "server" /\ mode = "broker")

\* recv_* of the server's connection.
RecvUplink(topic) ==
    /\ topic \in Uplink /\ topic \notin ended
    /\ \/ /\ chan[topic] # << >>
          /\ got' = [got EXCEPT ![topic] = Append(@, Head(chan[topic]))]
          /\ chan' = [chan EXCEPT ![topic] = Tail(@)]
          /\ UNCHANGED ended
       \/ /\ chan[topic] = << >> /\ ~HasSender(topic)
          /\ ended' = ended \cup {topic}
          /\ UNCHANGED <<got, chan>>
    /\ UNCHANGED <<mode, loop, closed, inbox, holding, latest_stats, locked, sent, lost>>

\* recv_opus_frame and recv_command of the device's connection.
RecvDownlink(topic) ==
    /\ topic \in Downlink /\ topic \notin ended
    /\ \/ /\ chan[topic] # << >>
          /\ got' = [got EXCEPT ![topic] = Append(@, Head(chan[topic]))]
          /\ chan' = [chan EXCEPT ![topic] = Tail(@)]
          /\ UNCHANGED ended
       \/ /\ chan[topic] = << >> /\ ~HasSender(topic)
          /\ ended' = ended \cup {topic}
          /\ UNCHANGED <<got, chan>>
    /\ UNCHANGED <<mode, loop, closed, inbox, holding, latest_stats, locked, sent, lost>>

\* latest_stats: the lock is held while the event is copied.
LatestStats ==
    /\ "stats" \in Topics /\ locked' = ~locked
    /\ UNCHANGED <<mode, loop, closed, inbox, holding, chan, latest_stats, sent, got, lost, ended>>

Next ==
    \/ \E t \in Topics : \/ \E p \in Payloads(t) : Publish(t, p, TRUE)
                         \/ Publish(t, CHOOSE p \in Payloads(t) : TRUE, FALSE)
    \/ ReceiveLoop \/ ServerReceiveLoop \/ KeepStats \/ Handle
    \/ \E e \in End : LoopEnds(e)
    \/ CloseDevice \/ CloseServer
    \/ \E t \in Topics : RecvUplink(t) \/ RecvDownlink(t)
    \/ LatestStats

\* The tasks run, the lock is given back, and the port above keeps reading.
FairSpec ==
    /\ Init /\ [][Next]_vars
    /\ \A e \in End : WF_vars(closed[e] /\ LoopEnds(e))
    /\ SF_vars(KeepStats) /\ WF_vars(locked /\ LatestStats)
    /\ \A t \in Topics : WF_vars(RecvUplink(t) \/ RecvDownlink(t))

-----------------------------------------------------------------------------
\* A message is what was sent: a stamp as far as seven bytes hold it, a state by its
\* name, a command as one that its reader can parse.
Unchanged(m) ==
    IF m.topic \in Audio THEN m.payload[1] \in 0 .. StampRange - 1 => Decoded(m) = m.payload
    ELSE /\ Decoded(m) = <<m.payload>>
         /\ m.topic = "command" => ParseCommand(m.payload) = <<m.payload>>

\* Each kind of message arrives in the order it was sent, unchanged and never
\* twice, and one that was sent is either still under way, delivered, or was
\* dropped for a full channel or because it does not decode; an audio frame's
\* stamp survives the version byte (conn_mqtt.rs:30, :158, conn_mqtt_server.rs:213, :260).
KeptInOrder ==
    \A t \in Topics :
      LET all == SelectSeq(sent, LAMBDA m : m.topic = t)
          under_way == SelectSeq(inbox[To(t)], LAMBDA m : m.topic = t)
          kept == got[t] \o chan[t] \o (IF holding # NoStats /\ t = "stats" THEN <<holding>> ELSE << >>)
      IN  /\ kept \o under_way = SelectSeq(all, LAMBDA m : m.n \notin lost)
          /\ \A i \in 1 .. Len(got[t]) : Unchanged(got[t][i])

\* The statistics latest_stats returns are never older than those a reader was
\* given: with a receive loop (conn_mqtt_server.rs:298).
LatestIsNewest ==
    mode = "client" => \A i \in 1 .. Len(got["stats"]) : got["stats"][i].n <= latest_stats

\* After close every read comes to an end (conn.rs:78).
ReceiversEnd ==
    \A t \in Topics : closed[To(t)] ~> t \in ended
=============================================================================
