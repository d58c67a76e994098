----------------------------- MODULE MCNetwork -----------------------------
(***************************************************************************)
(* Small instances, for TLC, of the modules that buffer and transport:     *)
(* the buffer crate, the mqtt0 broker and client, and the chatgear ports.  *)
(*                                                                         *)
(* A behaviour is a behaviour of one part.  The broker, the client with    *)
(* its keep-alive, the listener and the port are extended: their variables *)
(* are this module's, and stay as they began while another part runs.      *)
(* The variables of the other parts live in x1, x2, ...; an INSTANCE says  *)
(* which is which, and those that the running part does not need stay 0.   *)
(***************************************************************************)
EXTENDS Broker, MqttClient, KeepAlive, Listener, GearPort, TLC

CONSTANTS
    Parts,   \* the parts that are checked
    Nil      \* no value

VARIABLES
    part,    \* the part of this behaviour
    x1, x2, x3, x4, x5, x6, x7, x8, x9, x10, x11, x12, x13

slots == <<x1, x2, x3, x4, x5, x6, x7, x8, x9, x10, x11, x12, x13>>
extended == <<broker_vars, client_vars, timer_vars, listener_vars, port_vars>>
vars == <<part, slots, extended>>

UnusedAfter12 == <<x13, extended>>
UnusedAfter11 == <<x12, UnusedAfter12>>
UnusedAfter10 == <<x11, UnusedAfter11>>
UnusedAfter8 == <<x9, x10, UnusedAfter10>>
UnusedAfter6 == <<x7, x8, UnusedAfter8>>

Rest6 == UNCHANGED <<part, UnusedAfter6>>
Rest8 == UNCHANGED <<part, UnusedAfter8>>
Rest10 == UNCHANGED <<part, UnusedAfter10>>
Rest11 == UNCHANGED <<part, UnusedAfter11>>
Rest12 == UNCHANGED <<part, UnusedAfter12>>
Rest13 == UNCHANGED <<part, extended>>

\* What the extended parts leave alone.
BrokerRest == UNCHANGED <<part, slots, client_vars, timer_vars, listener_vars, port_vars>>
ClientRest == UNCHANGED <<part, slots, broker_vars, timer_vars, listener_vars, port_vars>>
TimerRest == UNCHANGED <<part, slots, broker_vars, client_vars, listener_vars, port_vars>>
ListenerRest == UNCHANGED <<part, slots, broker_vars, client_vars, timer_vars, port_vars>>
PortRest == UNCHANGED <<part, slots, broker_vars, client_vars, timer_vars, listener_vars>>

\* Topics, and the client ids of the sessions: three clients, one, and two.
Ordinary == <<"plain">>
Dollar == <<"$SYS">>
Denied == <<"denied">>
TooLong == <<"long">>
Stranger == "s1" :> "c1" @@ "s2" :> "c2" @@ "s3" :> "c3"
Same == "s1" :> "c1" @@ "s2" :> "c1" @@ "s3" :> "c1"
Own == "s1" :> "c1" @@ "s2" :> "c2"
Pair == "s1" :> "c1" @@ "s2" :> "c1"

\* Ordinary matches the normal and the group filter, the $SYS events match event.
SysTopics == {"connected", "disconnected"} \X {"c1", "c2", "c3"}
Topics == {Ordinary, Dollar, Denied, TooLong} \cup SysTopics
Matches == [t \in Topics |-> IF t = Ordinary THEN <<"normal">>
                             ELSE IF t \in SysTopics THEN <<"event">> ELSE << >>]
GroupMatches == [t \in Topics |-> IF t = Ordinary THEN <<{"group"}>> ELSE << >>]
NoGroups == [t \in Topics |-> << >>]

PublishTopics == {Ordinary, Denied}
MayPublishTo == {"c1", "c2"} \X {Ordinary}
MaySubscribeTo == {"c1", "c2"} \X {"normal", "event"}

\* Nobody publishes; a client, which may bind and use an alias, and the application;
\* the client alone.
NoMessages == [a \in {"s1", "s2", "s3", "app"} |-> 0]
OneMessage == "s1" :> 1 @@ "s2" :> 0 @@ "app" :> 1
SomeMessages == "s1" :> 2 @@ "s2" :> 0 @@ "app" :> 1
TwoMessages == "s1" :> 2 @@ "s2" :> 0 @@ "app" :> 0

\* Room for one message of each kind.  A device publishes two, the other one that no
\* channel takes or that fills one.
OneEach == [k \in Kind |-> 1]
DeviceKinds == "g1" :> {"opus", "state"} @@ "g2" :> {"state", NoKind}
DeviceMessages == "g1" :> 2 @@ "g2" :> 1

\* Reports of a device: of one time, a volume set later, a battery, a reset.
Report(time, reset, volume, battery) ==
    [time |-> time, last_reset_at |-> reset, fields |-> [volume |-> volume, battery |-> battery]]
Reports == {Report(1, 0, [at |-> 2, val |-> 1], [percent |-> 1]),
            Report(2, 1, [at |-> 1, val |-> 2], Nil),
            Report(2, 0, [at |-> 2, val |-> 2], [percent |-> 2])}

-----------------------------------------------------------------------------
(* The parts. *)

\* Calls that move one element: the case in which no wake-up is lost.
Block == INSTANCE BlockBuffer WITH
    Thread <- {"t1", "t2", "t3"}, Value <- {"a"}, Error <- {"e"}, None <- Nil,
    Capacity <- 2, WriteData <- {<<"a">>}, ReadLen <- {1}, buf <- x1, head <- x2,
    tail <- x3, count <- x4, close_write <- x5, close_err <- x6, call <- x7,
    not_full <- x8, not_empty <- x9, ret <- x10

\* Batches that fit and that are longer than the buffer; the counters wrap
\* after 8.
Ring == INSTANCE RingBuffer WITH
    Thread <- {"t1", "t2"}, Value <- {"a", "b"}, Error <- {"e"}, None <- Nil,
    Capacity <- 2, CounterMod <- 8, WriteData <- {<<"a", "b">>, <<"b", "b", "a">>},
    ReadLen <- {0, 1, 2}, buf <- x1, head <- x2, tail <- x3, close_write <- x4,
    close_err <- x5, call <- x6, write_notify <- x7, ret <- x8

\* The buffer that grows, up to three elements.
Grow == INSTANCE Buffer WITH
    Thread <- {"t1", "t2"}, Value <- {"a", "b"}, Error <- {"e"}, None <- Nil,
    WriteData <- {<<"a", "b">>}, ReadLen <- {0, 1, 2}, MaxLen <- 3, buf <- x1,
    close_write <- x2, close_err <- x3, call <- x4, write_notify <- x5, ret <- x6

\* Three clients, one of them not authenticated, a normal filter that the ACL
\* refuses, a shared one, and $SYS events.
Subs == INSTANCE Broker WITH
    Session <- {"s1", "s2", "s3"}, Client <- {"c1", "c2", "c3"}, ClientOf <- Stranger,
    Trusted <- {"c1", "c2"}, App <- "app", Filter <- {"normal", "group", "event"},
    Shared <- {"group"}, Invalid <- {}, Topic <- {Ordinary}, Reserved <- {}, Long <- {},
    Matching <- Matches, SharedMatching <- GroupMatches, CanPublish <- {},
    CanSubscribe <- {"c1", "c2", "c3"} \X {"group", "event"}, MaxSubs <- 2,
    MaxAlias <- 0, ChannelCap <- 1, SysEvents <- TRUE, IndexMod <- 2,
    MaxPublish <- NoMessages, None <- Nil, clients <- x1, client_subscriptions <- x2,
    subs <- x3, next_index <- x4, channel <- x5, pc <- x6, todo <- x7, work <- x8,
    aliases <- x9, published <- x10, acked <- x11, latest <- x12

\* Three sessions of one client id, and a filter the trie refuses.
Take == INSTANCE Broker WITH
    Session <- {"s1", "s2", "s3"}, Client <- {"c1"}, ClientOf <- Same,
    Trusted <- {"c1"}, App <- "app", Filter <- {"normal", "event"}, Shared <- {},
    Invalid <- {"event"}, Topic <- {Ordinary}, Reserved <- {}, Long <- {},
    Matching <- Matches, SharedMatching <- NoGroups, CanPublish <- {},
    CanSubscribe <- {"c1"} \X {"normal", "event"}, MaxSubs <- 1, MaxAlias <- 0,
    ChannelCap <- 1, SysEvents <- FALSE, IndexMod <- 2, MaxPublish <- NoMessages,
    None <- Nil, clients <- x1, client_subscriptions <- x2, subs <- x3,
    next_index <- x4, channel <- x5, pc <- x6, todo <- x7, work <- x8, aliases <- x9,
    published <- x10, acked <- x11, latest <- x12

\* Two clients that publish, directly and through an alias, what they may and
\* what they may not.
Pub == INSTANCE Broker WITH
    Session <- {"s1", "s2"}, Client <- {"c1", "c2"}, ClientOf <- Own,
    Trusted <- {"c1", "c2"}, App <- "app", Filter <- {"normal", "group"},
    Shared <- {"group"}, Invalid <- {}, Topic <- {Ordinary, Dollar, Denied, TooLong},
    Reserved <- {Dollar}, Long <- {TooLong}, Matching <- Matches,
    SharedMatching <- GroupMatches, CanPublish <- {"c1", "c2"} \X {Ordinary, Dollar, TooLong},
    CanSubscribe <- {"c1", "c2"} \X {"normal", "group"}, MaxSubs <- 1, MaxAlias <- 1,
    ChannelCap <- 1, SysEvents <- FALSE, IndexMod <- 2, MaxPublish <- TwoMessages,
    None <- Nil, clients <- x1, client_subscriptions <- x2, subs <- x3,
    next_index <- x4, channel <- x5, pc <- x6, todo <- x7, work <- x8, aliases <- x9,
    published <- x10, acked <- x11, latest <- x12

\* Packets of up to five bytes read in chunks of three.
Wire == INSTANCE MqttWire WITH
    Versions <- {4, 5},
    Credentials <- {<<"", "">>, <<"u", "">>, <<"u", "p">>, <<"u", "not utf8">>},
    LevelAt <- 3, ConnectSize <- 4, PeekSize <- 4, ChunkSize <- 3, MaxSize <- 4,
    MaxPackets <- 2, MaxPushes <- 1, WholeConnect <- TRUE, client <- x1, sent <- x2,
    fetched <- x3, read_buf <- x4, local <- x5, version <- x6, got <- x7, replies <- x8,
    login <- x9, state <- x10, pushes <- x11

\* Three items through channels of one, and one that a handler takes.
Pipe == INSTANCE GearPipe WITH
    Lanes <- {"command", "downlink_opus", "uplink_opus"}, PipeCap <- 1, PortCap <- 1,
    MaxItems <- 3, MaxDirect <- 1, Error <- "e", lane <- x1, sent <- x2, pipe <- x3,
    end <- x4, err <- x5, task <- x6, carried <- x7, direct <- x8, handler <- x9,
    port <- x10, cancelled <- x11, closed <- x12, received <- x13

\* Audio, stats and commands, through a receive loop and through the embedded
\* broker.
Mqtt == INSTANCE GearMqtt WITH
    Modes <- {"client", "broker"}, Topics <- {"input_audio_stream", "stats", "command"},
    Cap <- 1, MaxSent <- 2, Stamps <- {3}, StampRange <- 8, FrameSizes <- {0, 1},
    Methods <- {"unpair"}, States <- {"unknown", "ready"}, mode <- x1, loop <- x2, closed <- x3,
    inbox <- x4, holding <- x5, chan <- x6, latest_stats <- x7, locked <- x8,
    sent <- x9, got <- x10, lost <- x11, ended <- x12

ASSUME RingConstants == Ring!RingAssumption
ASSUME BufferConstants == Grow!BufferAssumption
ASSUME ClientConstants == ClientAssumption /\ Exclusive
ASSUME KeepAliveConstants == KeepAliveAssumption
ASSUME PortConstants == OneFeeder /\ ReportsOK
ASSUME ListenerConstants == ListenerAssumption
ASSUME BrokerConstants == BrokerAssumption /\ Subs!BrokerAssumption /\ Take!BrokerAssumption /\ Pub!BrokerAssumption

-----------------------------------------------------------------------------
Idle12 == x13 = 0
Idle11 == x12 = 0 /\ Idle12
Idle10 == x11 = 0 /\ Idle11
Idle8 == x9 = 0 /\ x10 = 0 /\ Idle10
Idle6 == x7 = 0 /\ x8 = 0 /\ Idle8
Idle0 == x1 = 0 /\ x2 = 0 /\ x3 = 0 /\ x4 = 0 /\ x5 = 0 /\ x6 = 0 /\ Idle6

Init ==
    /\ part \in Parts
    /\ part \in {"broker", "client", "keepalive", "listener", "port"} => Idle0
    /\ part = "block" => Block!Init /\ Idle10
    /\ part = "ring" => Ring!Init /\ Idle8
    /\ part = "buffer" => Grow!Init /\ Idle6
    /\ part = "subscriptions" => Subs!BrokerInit /\ Idle12
    /\ part = "takeover" => Take!BrokerInit /\ Idle12
    /\ part = "publish" => Pub!BrokerInit /\ Idle12
    /\ part = "wire" => Wire!Init /\ Idle11
    /\ part = "pipe" => Pipe!Init
    /\ part = "gearmqtt" => Mqtt!Init /\ Idle12
    /\ BrokerInit /\ ClientInit /\ ListenerInit
    /\ KeepAliveInit /\ (part = "keepalive" \/ keep_alive = 2)
    /\ PortInit /\ (part = "port" \/ mode = "recv")

Next ==
    \/ part = "block" /\ Block!Next /\ Rest10
    \/ part = "ring" /\ Ring!Next /\ Rest8
    \/ part = "buffer" /\ Grow!Next /\ Rest6
    \/ part = "broker" /\ BrokerNext /\ BrokerRest
    \/ part = "subscriptions" /\ Subs!BrokerNext /\ Rest12
    \/ part = "takeover" /\ Take!BrokerNext /\ Rest12
    \/ part = "publish" /\ Pub!BrokerNext /\ Rest12
    \/ part = "client" /\ ClientNext /\ ClientRest
    \/ part = "keepalive" /\ KeepAliveNext /\ TimerRest
    \/ part = "wire" /\ Wire!Next /\ Rest11
    \/ part = "port" /\ PortNext /\ PortRest
    \/ part = "listener" /\ ListenerNext /\ ListenerRest
    \/ part = "pipe" /\ Pipe!Next /\ Rest13
    \/ part = "gearmqtt" /\ Mqtt!Next /\ Rest12

Spec == Init /\ [][Next]_vars

\* The variables of the part that runs: the only ones that a step changes.
moving ==
    CASE part = "broker" -> broker_vars
      [] part = "client" -> client_vars
      [] part = "listener" -> listener_vars
      [] part = "port" -> port_vars
      [] OTHER -> slots

\* The fairness of the modules: every thread, task and peer goes on when it can.
\* A part has at most eight such processes; the k-th of each part share a
\* condition, since only one part runs.
FairSpec ==
    /\ Spec
    /\ WF_moving(\/ part = "block" /\ Block!Resume("t1") /\ Rest10
                 \/ part = "ring" /\ Ring!Resume("t1") /\ Rest8
                 \/ part = "buffer" /\ Grow!Resume("t1") /\ Rest6
                 \/ part = "broker" /\ Internal("s1") /\ BrokerRest
                 \/ part = "client" /\ ConnectDone /\ ClientRest
                 \/ part = "port" /\ LoopStep /\ PortRest
                 \/ part = "pipe" /\ Pipe!TaskStep /\ Rest13
                 \/ part = "listener" /\ RunAny /\ ListenerRest)
    /\ WF_moving(\/ part = "block" /\ Block!Resume("t2") /\ Rest10
                 \/ part = "ring" /\ Ring!Resume("t2") /\ Rest8
                 \/ part = "buffer" /\ Grow!Resume("t2") /\ Rest6
                 \/ part = "broker" /\ Internal("s2") /\ BrokerRest
                 \/ part = "client" /\ Wake /\ ClientRest
                 \/ part = "port" /\ StatsStep /\ PortRest
                 \/ part = "pipe" /\ Pipe!Cancelled /\ Rest13
                 \/ part = "listener" /\ Accept /\ ListenerRest)
    /\ WF_moving(\/ part = "block" /\ Block!Resume("t3") /\ Rest10
                 \/ part = "client" /\ Ping /\ ClientRest
                 \/ part = "port" /\ LoopCancelled /\ PortRest
                 \/ part = "pipe" /\ Pipe!Receive /\ Rest13
                 \/ part = "listener" /\ (ReadPort(1) \/ PortEnded(1)) /\ ListenerRest)
    /\ WF_moving(\/ part = "broker" /\ Internal("app") /\ BrokerRest
                 \/ part = "client" /\ Answer /\ ClientRest
                 \/ part = "port" /\ HandleStep("h") /\ PortRest
                 \/ part = "pipe" /\ Pipe!MarkClosed /\ Rest13)
    /\ WF_moving(\/ part = "client" /\ (WriteRequest("t1") \/ LockReader("t1") \/ Read("t1")) /\ ClientRest
                 \/ part = "pipe" /\ Pipe!HandlerSends /\ Rest13
                 \/ part = "port" /\ RecvStateEvent /\ PortRest)
    /\ WF_moving(\/ part = "client" /\ (WriteRequest("t2") \/ LockReader("t2") \/ Read("t2")) /\ ClientRest
                 \/ part = "port" /\ RecvStatsChanges /\ PortRest)
    /\ WF_moving(part = "port" /\ CloseLocked /\ PortRest)
    /\ WF_moving(part = "port" /\ LoopEnds /\ PortRest)

-----------------------------------------------------------------------------
(* Properties.  RegistryCurrent, MessagesAllowed, ServedIffAcked, SlotsExact,  *)
(* SubscribeTellsTruth, NothingLost, LiveClientKept, AnnouncedOnce, Conserved, *)
(* NewestKept and ChangesReplay are those of the modules.                      *)

\* Buffer is the ClosableQueue that grows, whatever reads, discards, resets and
\* closes come between.
BufferSpec ==
    /\ part = "buffer" => Grow!Queue!Init
    /\ [][part = "buffer" => [Grow!Queue!Next]_(Grow!Queue!vars)]_vars

\* Sleepers wake.  No element stays in a BlockBuffer for ever while a reader sleeps
\* and no free slot while a writer does; and closing any of the three buffers makes
\* every call return (the threads are alike: t1 stands for each).
SleepersWake ==
    /\ (part = "block" /\ Block!ReadersStarve) ~> (part = "block" /\ ~Block!ReadersStarve)
    /\ (part = "block" /\ Block!WritersStarve) ~> (part = "block" /\ ~Block!WritersStarve)
    /\ (\/ part = "block" /\ Block!Stranded("t1")
        \/ part = "ring" /\ Ring!Stranded("t1")
        \/ part = "buffer" /\ Grow!Stranded("t1"))
       ~> (\/ part = "block" /\ Block!Returned("t1")
           \/ part = "ring" /\ Ring!Returned("t1")
           \/ part = "buffer" /\ Grow!Returned("t1"))

\* The broker's properties with three clients of which one is a stranger, shared
\* groups, refused filters and $SYS events; with three sessions that take one client
\* id over from each other; and with two clients of which one publishes.
GrantsServed ==
    /\ part = "subscriptions" => Subs!SlotsExact /\ Subs!ServedIffAcked
    /\ part = "takeover" => Take!SlotsExact /\ Take!ServedIffAcked /\ Take!RegistryCurrent
    /\ part = "publish" => Pub!MessagesAllowed

\* Routing ends although receivers may never read, a client's subscribe returns
\* whatever else arrives, and a session whose loop has ended is forgotten for good
\* after some time.
BrokerProgress ==
    /\ (\/ part = "broker" /\ Routing("s1")
        \/ part = "client" /\ Requesting("t1"))
       ~> (\/ part = "broker" /\ Routed("s1")
           \/ part = "client" /\ ~Requesting("t1"))
    /\ (part = "broker" /\ Routing("app")) ~> (part = "broker" /\ Routed("app"))
    /\ (part = "broker" /\ Closing("s1")) ~> [](part = "broker" /\ Forgotten("s1"))

\* However TCP cuts the stream and however often a read is abandoned for an
\* outgoing message, the broker decodes and answers the packets that were written,
\* and recognises the version of a CONNECT that came whole.  What goes to and from a
\* device keeps its order: through a pipe no command or frame is skipped and the end
\* overtakes none; over MQTT each kind of message arrives in order, unchanged and
\* never twice, or is dropped whole, and latest_stats is never older than what a
\* reader was given.
PacketsIntact ==
    /\ part = "wire" => Wire!PacketsIntact /\ Wire!VersionRecognised
    /\ part = "pipe" => Pipe!ItemsInOrder /\ Pipe!ErrorComesLast
    /\ part = "gearmqtt" => Mqtt!KeptInOrder /\ Mqtt!LatestIsNewest

\* Shutting down comes to an end: once disconnect was called or a ping has failed
\* the client's keep-alive task ends; close of a port returns and the tasks of
\* recv_from end although a handler holds the lock and a task waits for room; the
\* task of a pipe ends, and a port the listener swept ends for its reader.
ShutdownEnds ==
    (\/ part = "client" /\ Stopped
     \/ part = "port" /\ PortClosing
     \/ part = "pipe" /\ Pipe!Ending
     \/ part = "listener" /\ Swept(1))
    ~> (\/ part = "client" /\ KeepaliveEnded
        \/ part = "port" /\ AllEnded
        \/ part = "pipe" /\ Pipe!TaskOver
        \/ part = "listener" /\ ~Swept(1))
=============================================================================
