SPECIFICATION FairSpec
CONSTANTS
    Parts = {"block", "ring", "buffer", "broker", "client", "port", "listener", "pipe"}
    Nil = Nil
    \* the broker: two clients, told of each other
    Session = {"s1", "s2"}
    Client = {"c1", "c2"}
    ClientOf <- Own
    Trusted = {"c1", "c2"}
    App = "app"
    Filter = {"normal"}
    Shared = {}
    Invalid = {}
    Topic <- PublishTopics
    Reserved = {}
    Long = {}
    Matching <- Matches
    SharedMatching <- NoGroups
    CanPublish <- MayPublishTo
    CanSubscribe <- MaySubscribeTo
    MaxSubs = 1
    MaxAlias = 0
    ChannelCap = 1
    SysEvents = TRUE
    IndexMod = 2
    MaxPublish <- OneMessage
    None = None
    \* the client
    Task = {"t1", "t2"}
    ClientFilter = {"f", "g"}
    Granted = {"f"}
    PkidMod = 3
    MaxRequests = 2
    MaxDelivered = 1
    MaxPings = 1
    Exclusive = TRUE
    \* its timers
    KeepAliveValues = {2, 3, 5}
    MaxDelay = 3
    \* the listener
    Gear = {"g1", "g2"}
    AcceptCap = 2
    Kind = {"opus", "state"}
    PortCap <- OneEach
    Publishes <- DeviceKinds
    MaxMessages <- DeviceMessages
    MaxPorts = 2
    NoPort = NoPort
    NoKind = NoKind
    \* the port
    Handler = {"h"}
    Modes = {"recv", "handle"}
    Time = {1, 2}
    StatsEvent <- Reports
    EventCap = 1
    MaxEvents = 2
    Versioned = {"volume"}
    Plain = {"battery"}
    Absent = Nil
PROPERTIES BufferSpec SleepersWake BrokerProgress ShutdownEnds
CHECK_DEADLOCK FALSE
