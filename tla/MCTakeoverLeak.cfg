SPECIFICATION Spec
CONSTANTS
    Parts = {"broker"}
    Nil = Nil
    \* the broker: two sessions of one client id
    Session = {"s1", "s2"}
    Client = {"c1"}
    ClientOf <- Pair
    Trusted = {"c1"}
    App = "app"
    Filter = {"normal"}
    Shared = {}
    Invalid = {}
    Topic <- PublishTopics
    Reserved = {}
    Long = {}
    Matching <- Matches
    SharedMatching <- NoGroups
    CanPublish <- MayPublishTo
    CanSubscribe <- MaySubscribeTo
    MaxSubs = 1
    MaxAlias = 1
    ChannelCap = 1
    SysEvents = FALSE
    IndexMod = 2
    MaxPublish <- SomeMessages
    None = None
    \* the client
    Task = {"t1", "t2"}
    ClientFilter = {"f", "g"}
    Granted = {"f"}
    PkidMod = 3
    MaxRequests = 2
    MaxDelivered = 1
    MaxPings = 1
    Exclusive = TRUE
    \* its timers
    KeepAliveValues = {2, 3, 5}
    MaxDelay = 3
    \* the listener
    Gear = {"g1", "g2"}
    AcceptCap = 2
    Kind = {"opus", "state"}
    PortCap <- OneEach
    Publishes <- DeviceKinds
    MaxMessages <- DeviceMessages
    MaxPorts = 3
    NoPort = NoPort
    NoKind = NoKind
    \* the port
    Handler = {"h"}
    Modes = {"recv", "handle"}
    Time = {1, 2}
    StatsEvent <- Reports
    EventCap = 1
    MaxEvents = 2
    Versioned = {"volume"}
    Plain = {"battery"}
    Absent = Nil
INVARIANTS HandlesOwned
CHECK_DEADLOCK FALSE
