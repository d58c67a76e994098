------------------------------ MODULE Listener ------------------------------
(***************************************************************************)
(* Discovery of devices (rust/chatgear/src/listener.rs): the handler of    *)
(* the embedded broker spawns a task per message, a map of ports under a   *)
(* lock, a channel of accepted ports, and the sweep of idle ports.         *)
(*                                                                         *)
(* A port is the set of channels one entry of the map leads to, one for    *)
(* each kind of message; its ends are the entry (senders) and the          *)
(* AcceptedPort (receivers).  The downlink of an AcceptedPort publishes    *)
(* through the broker (Broker!Publish) and changes nothing here.           *)
(***************************************************************************)
EXTENDS Integers, Sequences, FiniteSets, SequencesExt, FiniteSetsExt,
        SequenceTheorems, TLAPS

CONSTANTS
    Gear,         \* device ids
    Kind,         \* channels of a port: opus, state and stats
    AcceptCap,    \* capacity of the accept channel (32)
    PortCap,      \* kind -> capacity of a port's channel (1024, 32 and 32)
    Publishes,    \* gear -> kinds of messages it may publish
    MaxMessages,  \* bound: gear -> messages it publishes
    MaxPorts,     \* bound: ports created
    NoPort,
    NoKind        \* of a message no channel takes

VARIABLES
    device_sent, \* gear -> kinds of the messages published so far
    tasks,       \* spawned tasks: the message each has
    ports,       \* gear -> its entry of the map, a port number or NoPort
    idle,        \* gear -> no message for longer than the timeout
    made,        \* ports created so far; port p is of gear owner[p]
    owner,
    accept_ch,   \* accepted ports nobody has taken yet
    listening,   \* the Listener, and the receiver of accept_ch in it, exists
    swept,       \* the sweep goes on: close was not called
    held,        \* ports whose AcceptedPort the application holds
    port_ch,     \* port -> kind -> messages
    got,         \* port -> messages the application read from it
    discarded    \* messages handled that no receiver will see

channel_vars == <<port_ch, got, discarded>>
listener_vars == <<device_sent, tasks, ports, idle, made, owner, accept_ch, listening, swept,
                   held, channel_vars>>

Port == 1 .. MaxPorts
NewPort == [k \in Kind |-> << >>]

ListenerInit ==
    /\ device_sent = [g \in Gear |-> << >>] /\ tasks = {}
    /\ ports = [g \in Gear |-> NoPort] /\ idle = [g \in Gear |-> FALSE]
    /\ made = 0 /\ owner = [p \in Port |-> NoPort]
    /\ accept_ch = << >> /\ listening = TRUE /\ swept = TRUE /\ held = {}
    /\ port_ch = [p \in Port |-> NewPort] /\ got = [p \in Port |-> {}]
    /\ discarded = {}

\* MessageHandler::handle: a task of its own for every message of a device topic (any
\* other returns early).  NoKind is a type that the task does not know, or a payload
\* that does not parse.
HandleMessage(g, kind) ==
    LET m == [gear |-> g, n |-> Len(device_sent[g]) + 1, kind |-> kind]
    IN /\ Len(device_sent[g]) < MaxMessages[g]
       /\ device_sent' = [device_sent EXCEPT ![g] = Append(@, kind)]
       /\ tasks' = tasks \cup {m}
       /\ UNCHANGED <<ports, idle, made, owner, accept_ch, listening, swept, held, channel_vars>>

\* The receivers of port p exist.
Open(p) == p \in held \/ p \in ToSet(accept_ch)

\* Not the code: a full channel gives up its oldest message.
DeliverNewest(p, m, open) ==
    /\ IF open /\ m.kind # NoKind
       THEN /\ port_ch' = [port_ch EXCEPT ![p][m.kind] =
                              Append(IF Len(@) < PortCap[m.kind] THEN @ ELSE Tail(@), m)]
            /\ UNCHANGED discarded
       ELSE discarded' = discarded \cup {m} /\ UNCHANGED port_ch
    /\ UNCHANGED got

\* try_send of message m to the channel of its kind, if there is one.
DeliverToPort(p, m, open) ==
    /\ IF open /\ m.kind # NoKind /\ Len(port_ch[p][m.kind]) < PortCap[m.kind]
       THEN port_ch' = [port_ch EXCEPT ![p][m.kind] = Append(@, m)] /\ UNCHANGED discarded
       ELSE discarded' = discarded \cup {m} /\ UNCHANGED port_ch
    /\ UNCHANGED got

\* Not the code: every message announces its device again.
RunTaskAgain(m) ==
    LET p == ports[m.gear] IN
    /\ m \in tasks /\ p # NoPort
    /\ tasks' = tasks \ {m}
    /\ idle' = [idle EXCEPT ![m.gear] = FALSE]
    /\ accept_ch' = IF Len(accept_ch) < AcceptCap THEN Append(accept_ch, p) ELSE accept_ch
    /\ DeliverToPort(p, m, Open(p))
    /\ UNCHANGED <<device_sent, ports, made, owner, listening, swept, held>>

\* The task, under the map's write lock, for a device that has a port.
RunTask(m) ==
    LET p == ports[m.gear] IN
    /\ m \in tasks /\ p # NoPort
    /\ tasks' = tasks \ {m}
    /\ idle' = [idle EXCEPT ![m.gear] = FALSE]
    /\ DeliverToPort(p, m, Open(p))
    /\ UNCHANGED <<device_sent, ports, made, owner, accept_ch, listening, swept, held>>

\* ... and for one that has none: a port is made and announced, if there is room.
RunFirstTask(m) ==
    LET p == made + 1
        room == listening /\ Len(accept_ch) < AcceptCap
    IN /\ m \in tasks /\ ports[m.gear] = NoPort /\ made < MaxPorts
       /\ tasks' = tasks \ {m}
       /\ made' = p /\ owner' = [owner EXCEPT ![p] = m.gear]
       /\ ports' = [ports EXCEPT ![m.gear] = p]
       /\ idle' = [idle EXCEPT ![m.gear] = FALSE]
       /\ accept_ch' = IF room THEN Append(accept_ch, p) ELSE accept_ch
       /\ DeliverToPort(p, m, room)
       /\ UNCHANGED <<device_sent, listening, swept, held>>

\* Time passes without a message of g.
GoIdle(g) ==
    /\ ports[g] # NoPort /\ ~idle[g]
    /\ idle' = [idle EXCEPT ![g] = TRUE]
    /\ UNCHANGED <<device_sent, tasks, ports, made, owner, accept_ch, listening, swept, held, channel_vars>>

\* The sweep removes the idle entries, and their senders with them.
Sweep ==
    /\ swept /\ \E g \in Gear : idle[g]
    /\ ports' = [g \in Gear |-> IF idle[g] THEN NoPort ELSE ports[g]]
    /\ idle' = [g \in Gear |-> FALSE]
    /\ UNCHANGED <<device_sent, tasks, made, owner, accept_ch, listening, swept, held, channel_vars>>

\* Listener::accept.  The handler keeps a sender for good, so it never fails.
Accept ==
    /\ listening /\ accept_ch # << >>
    /\ held' = held \cup {Head(accept_ch)}
    /\ accept_ch' = Tail(accept_ch)
    /\ UNCHANGED <<device_sent, tasks, ports, idle, made, owner, listening, swept, channel_vars>>

\* Listener::close: the token ends the sweep and serve, which takes new connections.
\* The tasks of connections that exist go on, and their messages with them.
CloseListener ==
    /\ listening /\ swept
    /\ swept' = FALSE
    /\ UNCHANGED <<device_sent, tasks, ports, idle, made, owner, accept_ch, listening, held, channel_vars>>

\* The receivers of the ports in P are dropped with what waits in them.
DropReceivers(P) ==
    /\ discarded' = discarded \cup UNION {ToSet(port_ch[p][k]) : p \in P, k \in Kind}
    /\ port_ch' = [p \in Port |-> IF p \in P THEN NewPort ELSE port_ch[p]]
    /\ UNCHANGED got

\* The application drops the Listener, and with it what nobody accepted ...
DropListener ==
    /\ listening
    /\ listening' = FALSE
    /\ accept_ch' = << >>
    /\ DropReceivers(ToSet(accept_ch))
    /\ UNCHANGED <<device_sent, tasks, ports, idle, made, owner, swept, held>>

\* ... reads from a port it holds ...
ReadPort(p) == \E k \in Kind :
    /\ p \in held /\ port_ch[p][k] # << >>
    /\ got' = [got EXCEPT ![p] = @ \cup {Head(port_ch[p][k])}]
    /\ port_ch' = [port_ch EXCEPT ![p][k] = Tail(@)]
    /\ UNCHANGED <<device_sent, tasks, ports, idle, made, owner, accept_ch, listening, swept, held, discarded>>

\* ... and lets go of it when it likes, at the latest at its end: its entry is gone
\* and all is read, so that every receiver returns None.
DropPort(p) ==
    /\ p \in held
    /\ held' = held \ {p}
    /\ DropReceivers({p})
    /\ UNCHANGED <<device_sent, tasks, ports, idle, made, owner, accept_ch, listening, swept>>

PortEnded(p) ==
    /\ port_ch[p] = NewPort /\ \A g \in Gear : ports[g] # p
    /\ DropPort(p)

Run(m) == RunTask(m) \/ RunFirstTask(m)
RunAny == \E m \in tasks : Run(m)

ListenerNext ==
    \/ \E g \in Gear : GoIdle(g) \/ \E kind \in Publishes[g] : HandleMessage(g, kind)
    \/ RunAny
    \/ Sweep \/ Accept \/ CloseListener \/ DropListener
    \/ \E p \in Port : ReadPort(p) \/ DropPort(p)

\* Spawned tasks run, and the application accepts, reads and lets go.
ListenerSpec ==
    /\ ListenerInit /\ [][ListenerNext]_listener_vars
    /\ WF_listener_vars(RunAny) /\ WF_listener_vars(Accept)
    /\ \A p \in Port : WF_listener_vars(ReadPort(p)) /\ WF_listener_vars(PortEnded(p))

-----------------------------------------------------------------------------
\* What the devices published, and what waits in a channel or was read from one.
PublishedBy(g) == {[gear |-> g, n |-> n, kind |-> device_sent[g][n]] : n \in DOMAIN device_sent[g]}
PublishedMessages == UNION {PublishedBy(g) : g \in Gear}
Waiting(p) == UNION {ToSet(port_ch[p][k]) : k \in Kind}
Arrived(p) == Waiting(p) \cup got[p]

AllAccounted == tasks \cup discarded \cup UNION {Arrived(p) : p \in Port} = PublishedMessages
OnePlaceOnly ==
    /\ tasks \cap discarded = {}
    /\ \A p \in Port :
        /\ Arrived(p) \cap (tasks \cup discarded) = {} /\ Waiting(p) \cap got[p] = {}
        /\ \A q \in Port : p # q => Arrived(p) \cap Arrived(q) = {}
OwnPort == \A p \in Port : \A m \in Arrived(p) : m.gear = owner[p]
OwnChannel ==
    \A p \in Port, k \in Kind :
        /\ \A m \in ToSet(port_ch[p][k]) : m.kind = k
        /\ \A i, j \in DOMAIN port_ch[p][k] : i # j => port_ch[p][k][i] # port_ch[p][k][j]

\* "their data routed to the AcceptedPort": a message is with its task, in a channel
\* of one port of its own device, or read there, or discarded (a full channel, or
\* receivers that are gone), and in one of these places only: neither the end of a
\* port nor the next port of the same device loses, repeats or diverts a message.
Conserved == AllAccounted /\ OnePlaceOnly /\ OwnPort /\ OwnChannel

\* The application holds or finds in the channel at most one port that can still
\* receive for a device ("Blocks until a new device connects"): no device is
\* announced again while its port lives.
AnnouncedOnce ==
    /\ \A i, j \in DOMAIN accept_ch : i # j => accept_ch[i] # accept_ch[j]
    /\ held \cap ToSet(accept_ch) = {}
    /\ \A p \in held \cup ToSet(accept_ch), g \in Gear :
            owner[p] = g /\ ports[g] # NoPort => p <= ports[g]

Swept(p) == p \in held /\ \A g \in Gear : ports[g] # p

\* A port whose entry was swept comes to its end for the application.
SweptPortEnds == \A p \in Port : Swept(p) ~> p \notin held

-----------------------------------------------------------------------------
(* Proof that a device is announced once.  Ports are numbered as they are   *)
(* made, an entry of the map is the port its device got last, and a port is *)
(* announced only when it is made.                                          *)

\* NoPort is neither a device nor a port, and NoKind has no channel.
ListenerAssumption ==
    /\ NoPort \notin Gear /\ NoPort \notin Nat /\ MaxPorts \in Nat
    /\ NoKind \notin Kind /\ Publishes \in [Gear -> SUBSET (Kind \cup {NoKind})]

GearMessage == [gear : Gear, n : Nat, kind : Kind \cup {NoKind}]

\* What the application holds or can still take.
Announced == held \cup ToSet(accept_ch)

MapOK ==
    /\ made \in Nat
    /\ tasks \subseteq GearMessage /\ device_sent \in [Gear -> Seq(Kind \cup {NoKind})]
    /\ owner \in [Port -> Gear \cup {NoPort}]
    /\ ports \in [Gear -> Port \cup {NoPort}]
    /\ \A g \in Gear : ports[g] # NoPort => ports[g] <= made
    /\ accept_ch \in Seq(Port)
    /\ \A p \in Announced : p \in Port /\ p <= made

ListenerInv == MapOK /\ AnnouncedOnce

\* A queue's elements, with one more and without the first.
LEMMA QueueSets ==
    ASSUME NEW S, NEW q \in Seq(S), NEW p \in S
    PROVE  /\ ToSet(Append(q, p)) = ToSet(q) \cup {p} /\ Append(q, p) \in Seq(S)
           /\ q # << >> => /\ ToSet(q) = {Head(q)} \cup ToSet(Tail(q)) /\ Tail(q) \in Seq(S)
                           /\ Head(q) \in S
<1>1. Append(q, p) \in Seq(S) /\ Len(Append(q, p)) = Len(q) + 1 /\ Len(q) \in Nat
      /\ \A i \in 1 .. Len(q) + 1 : Append(q, p)[i] = IF i = Len(q) + 1 THEN p ELSE q[i]
    OBVIOUS
<1>2. ToSet(Append(q, p)) = ToSet(q) \cup {p}
  <2>1. ToSet(Append(q, p)) = {Append(q, p)[i] : i \in 1 .. Len(q) + 1}
      BY <1>1 DEF ToSet
  <2>2. ToSet(q) = {q[i] : i \in 1 .. Len(q)}
      BY DEF ToSet
  <2>3. 1 .. Len(q) + 1 = (1 .. Len(q)) \cup {Len(q) + 1}
      BY <1>1
  <2> QED
      BY <1>1, <2>1, <2>2, <2>3
<1>3. ASSUME q # << >> PROVE ToSet(q) = {Head(q)} \cup ToSet(Tail(q)) /\ Tail(q) \in Seq(S) /\ Head(q) \in S
  <2>1. Tail(q) \in Seq(S) /\ Head(q) \in S /\ Head(q) = q[1] /\ Len(q) >= 1 /\ Len(Tail(q)) = Len(q) - 1
        /\ \A i \in 1 .. Len(q) - 1 : Tail(q)[i] = q[i + 1]
      BY <1>3
  <2>2. ToSet(Tail(q)) = {q[i + 1] : i \in 1 .. Len(q) - 1}
    <3>1. DOMAIN Tail(q) = 1 .. Len(q) - 1
        BY <2>1
    <3>2. ToSet(Tail(q)) = {Tail(q)[i] : i \in 1 .. Len(q) - 1}
        BY <3>1 DEF ToSet
    <3> QED
        BY <2>1, <3>2
  <2>3. ToSet(q) = {q[i] : i \in 1 .. Len(q)}
      BY DEF ToSet
  <2>4. \A j \in 1 .. Len(q) : j = 1 \/ (j - 1 \in 1 .. Len(q) - 1 /\ (j - 1) + 1 = j)
      OBVIOUS
  <2>5. \A i \in 1 .. Len(q) - 1 : i + 1 \in 1 .. Len(q)
      OBVIOUS
  <2>6. 1 \in 1 .. Len(q)
      BY <2>1
  <2>7. ToSet(q) \subseteq {Head(q)} \cup ToSet(Tail(q))
    <3> SUFFICES ASSUME NEW j \in 1 .. Len(q) PROVE q[j] \in {Head(q)} \cup ToSet(Tail(q))
        BY <2>3
    <3> QED
        BY <2>1, <2>2, <2>4
  <2>8. {Head(q)} \cup ToSet(Tail(q)) \subseteq ToSet(q)
      BY <2>1, <2>2, <2>3, <2>5, <2>6
  <2> QED
      BY <2>1, <2>7, <2>8
<1> QED
    BY <1>1, <1>2, <1>3

\* A queue without repetition stays so.
Distinct(q) == \A i, j \in DOMAIN q : i # j => q[i] # q[j]

LEMMA QueueDistinct ==
    ASSUME NEW S, NEW q \in Seq(S), NEW p \in S, Distinct(q)
    PROVE  /\ p \notin ToSet(q) => Distinct(Append(q, p))
           /\ q # << >> => Distinct(Tail(q)) /\ Head(q) \notin ToSet(Tail(q))
<1>1. ASSUME p \notin ToSet(q) PROVE Distinct(Append(q, p))
  <2>1. Len(q) \in Nat /\ DOMAIN q = 1 .. Len(q) /\ DOMAIN Append(q, p) = 1 .. Len(q) + 1
        /\ \A i \in 1 .. Len(q) + 1 : Append(q, p)[i] = IF i = Len(q) + 1 THEN p ELSE q[i]
      OBVIOUS
  <2>2. \A i \in 1 .. Len(q) : q[i] # p
      BY <1>1, <2>1 DEF ToSet
  <2>3. \A i \in 1 .. Len(q) + 1 : i = Len(q) + 1 \/ i \in 1 .. Len(q)
      BY <2>1
  <2> QED
      BY <2>1, <2>2, <2>3 DEF Distinct
<1>2. ASSUME q # << >> PROVE Distinct(Tail(q)) /\ Head(q) \notin ToSet(Tail(q))
  <2>1. Len(q) \in Nat /\ Len(q) >= 1 /\ Head(q) = q[1] /\ DOMAIN q = 1 .. Len(q)
        /\ DOMAIN Tail(q) = 1 .. Len(q) - 1 /\ \A i \in 1 .. Len(q) - 1 : Tail(q)[i] = q[i + 1]
    <3>1. Tail(q) \in Seq(S) /\ Len(Tail(q)) = Len(q) - 1
        BY <1>2
    <3> QED
        BY <1>2, <3>1
  <2>2. \A i \in 1 .. Len(q) - 1 : i + 1 \in 1 .. Len(q) /\ i + 1 # 1
      BY <2>1
  <2>3. \A i, j \in 1 .. Len(q) - 1 : i # j => i + 1 # j + 1
      BY <2>1
  <2>4. 1 \in 1 .. Len(q)
      BY <2>1
  <2>5. Distinct(Tail(q))
      BY <2>1, <2>2, <2>3 DEF Distinct
  <2>6. Head(q) \notin ToSet(Tail(q))
      BY <2>1, <2>2, <2>4 DEF Distinct, ToSet
  <2> QED
      BY <2>5, <2>6
<1> QED
    BY <1>1, <1>2

\* The last conjunct of AnnouncedOnce.
Newest == \A p \in Announced, g \in Gear : owner[p] = g /\ ports[g] # NoPort => p <= ports[g]

LEMMA AnnouncedParts ==
    /\ AnnouncedOnce <=> Distinct(accept_ch) /\ held \cap ToSet(accept_ch) = {} /\ Newest
    /\ AnnouncedOnce' <=> Distinct(accept_ch') /\ held' \cap ToSet(accept_ch') = {} /\ Newest'
BY DEF AnnouncedOnce, Distinct, Newest, Announced

LEMMA InitListenerInv == ASSUME ListenerAssumption PROVE ListenerInit => ListenerInv
<1> SUFFICES ASSUME ListenerInit PROVE ListenerInv
    OBVIOUS
<1>1. ToSet(accept_ch) = {} /\ held = {}
    BY DEF ListenerInit, ToSet
<1>2. MapOK
    BY <1>1 DEF ListenerInit, MapOK, Announced, Port
<1>3. AnnouncedOnce
    BY <1>1, AnnouncedParts DEF ListenerInit, Distinct, Newest, Announced
<1> QED
    BY <1>2, <1>3 DEF ListenerInv

LEMMA NextListenerInv == ASSUME ListenerAssumption PROVE ListenerInv /\ [ListenerNext]_listener_vars => ListenerInv'
<1> SUFFICES ASSUME ListenerInv, [ListenerNext]_listener_vars PROVE ListenerInv'
    OBVIOUS
<1>0. MapOK /\ Distinct(accept_ch) /\ held \cap ToSet(accept_ch) = {} /\ Newest
    BY AnnouncedParts DEF ListenerInv
<1>1. ASSUME NEW g \in Gear, NEW kind \in Publishes[g], HandleMessage(g, kind) PROVE ListenerInv'
  <2>0. /\ kind \in Kind \cup {NoKind} /\ device_sent[g] \in Seq(Kind \cup {NoKind})
        /\ UNCHANGED <<ports, made, owner, accept_ch, held>>
      BY <1>0, <1>1 DEF ListenerAssumption, HandleMessage, MapOK
  <2>1. /\ tasks' \subseteq GearMessage
        /\ device_sent' \in [Gear -> Seq(Kind \cup {NoKind})]
      BY <1>0, <1>1, <2>0 DEF HandleMessage, MapOK, GearMessage
  <2>2. MapOK'
      BY <1>0, <2>0, <2>1 DEF MapOK, Announced
  <2>3. AnnouncedOnce'
      BY <1>1 DEF HandleMessage, ListenerInv, AnnouncedOnce
  <2> QED
      BY <2>2, <2>3 DEF ListenerInv
<1>2. ASSUME NEW m \in tasks, RunTask(m) PROVE ListenerInv'
  <2>1. MapOK'
      BY <1>0, <1>2 DEF RunTask, MapOK, Announced
  <2>2. AnnouncedOnce'
      BY <1>2 DEF RunTask, ListenerInv, AnnouncedOnce
  <2> QED
      BY <2>1, <2>2 DEF ListenerInv
<1>3. ASSUME NEW m \in tasks, RunFirstTask(m) PROVE ListenerInv'
  <2> DEFINE p == made + 1
  <2>0. /\ m.gear \in Gear /\ p \in Port /\ made \in Nat /\ made' = p
        /\ owner' = [owner EXCEPT ![p] = m.gear] /\ ports' = [ports EXCEPT ![m.gear] = p]
        /\ accept_ch' = Append(accept_ch, p) \/ accept_ch' = accept_ch
        /\ held' = held /\ tasks' = tasks \ {m} /\ device_sent' = device_sent
      BY <1>0, <1>3 DEF RunFirstTask, MapOK, Port, ListenerAssumption, GearMessage
  <2>1. accept_ch \in Seq(Port) /\ \A x \in Announced : x \in Port /\ x <= made
      BY <1>0 DEF MapOK
  <2>2. p \notin Announced
      BY <2>0, <2>1 DEF Port
  <2>3. accept_ch' \in Seq(Port) /\ ToSet(accept_ch') \subseteq ToSet(accept_ch) \cup {p}
        /\ Distinct(accept_ch')
    <3>1. Append(accept_ch, p) \in Seq(Port) /\ ToSet(Append(accept_ch, p)) = ToSet(accept_ch) \cup {p}
        BY <2>0, <2>1, QueueSets
    <3>2. p \notin ToSet(accept_ch)
        BY <2>2 DEF Announced
    <3>3. Distinct(Append(accept_ch, p))
        BY <1>0, <2>0, <2>1, <3>2, QueueDistinct
    <3>4. CASE accept_ch' = Append(accept_ch, p)
        BY <3>1, <3>3, <3>4
    <3>5. CASE accept_ch' = accept_ch
        BY <1>0, <2>1, <3>5
    <3> QED
        BY <2>0, <3>4, <3>5
  <2>4. Announced' \subseteq Announced \cup {p} /\ held' \cap ToSet(accept_ch') = {}
      BY <1>0, <2>0, <2>2, <2>3 DEF Announced
  <2>5. \A x \in Announced' : x \in Port /\ x <= made'
      BY <2>0, <2>1, <2>4 DEF Port
  <2>6. ports' \in [Gear -> Port \cup {NoPort}] /\ owner' \in [Port -> Gear \cup {NoPort}]
        /\ \A g \in Gear : ports'[g] # NoPort => ports'[g] <= made'
      BY <1>0, <2>0 DEF MapOK, Port
  <2>7. MapOK'
      BY <1>0, <2>0, <2>3, <2>5, <2>6 DEF MapOK
  <2>8. Newest'
    <3> SUFFICES ASSUME NEW x \in Announced', NEW g \in Gear, owner'[x] = g, ports'[g] # NoPort
                 PROVE  x <= ports'[g]
        BY DEF Newest
    <3>1. CASE g = m.gear
      <4>1. ports'[g] = p
          BY <1>0, <2>0, <3>1 DEF MapOK
      <4> QED
          BY <2>0, <2>5, <4>1
    <3>2. CASE g # m.gear
      <4>1. ports'[g] = ports[g]
          BY <1>0, <2>0, <3>2 DEF MapOK
      <4>2. x # p
          BY <1>0, <2>0, <3>2 DEF MapOK
      <4>3. owner[x] = g /\ x \in Announced
          BY <1>0, <2>0, <2>4, <2>5, <4>2 DEF MapOK
      <4> QED
          BY <1>0, <4>1, <4>3 DEF Newest
    <3> QED
        BY <3>1, <3>2
  <2> QED
      BY <2>3, <2>4, <2>7, <2>8, AnnouncedParts DEF ListenerInv
<1>4. ASSUME NEW g \in Gear, GoIdle(g) PROVE ListenerInv'
  <2>1. MapOK'
      BY <1>0, <1>4 DEF GoIdle, MapOK, Announced
  <2>2. AnnouncedOnce'
      BY <1>4 DEF GoIdle, ListenerInv, AnnouncedOnce
  <2> QED
      BY <2>1, <2>2 DEF ListenerInv
<1>5. CASE Sweep
  <2>1. /\ \A g \in Gear : ports'[g] = NoPort \/ ports'[g] = ports[g]
        /\ ports' \in [Gear -> Port \cup {NoPort}]
        /\ UNCHANGED <<device_sent, tasks, made, owner, accept_ch, held>>
      BY <1>0, <1>5 DEF Sweep, MapOK
  <2>2. MapOK' /\ Announced' = Announced
      BY <1>0, <2>1 DEF MapOK, Announced
  <2>3. Newest'
      BY <1>0, <2>1, <2>2 DEF Newest
  <2> QED
      BY <1>0, <2>1, <2>2, <2>3, AnnouncedParts DEF ListenerInv
<1>6. CASE Accept
  <2> DEFINE q == accept_ch
  <2>0. q # << >> /\ held' = held \cup {Head(q)} /\ accept_ch' = Tail(q)
        /\ UNCHANGED <<device_sent, tasks, ports, made, owner>> /\ q \in Seq(Port)
      BY <1>0, <1>6 DEF Accept, MapOK
  <2>1. Head(q) \in Port
      BY <2>0, HeadTailProperties
  <2>2. ToSet(q) = {Head(q)} \cup ToSet(Tail(q)) /\ Tail(q) \in Seq(Port)
        /\ Distinct(Tail(q)) /\ Head(q) \notin ToSet(Tail(q))
      BY <1>0, <2>0, <2>1, QueueSets, QueueDistinct
  <2>3. Announced' = Announced /\ held' \cap ToSet(accept_ch') = {}
      BY <1>0, <2>0, <2>2 DEF Announced
  <2>4. MapOK' /\ Newest'
      BY <1>0, <2>0, <2>2, <2>3 DEF MapOK, Newest
  <2> QED
      BY <2>0, <2>2, <2>3, <2>4, AnnouncedParts DEF ListenerInv
<1>7. ASSUME NEW p \in Port, ReadPort(p) PROVE ListenerInv'
  <2>1. MapOK'
      BY <1>0, <1>7 DEF ReadPort, MapOK, Announced
  <2>2. AnnouncedOnce'
      BY <1>7 DEF ReadPort, ListenerInv, AnnouncedOnce
  <2> QED
      BY <2>1, <2>2 DEF ListenerInv
<1>8. ASSUME NEW p \in Port, DropPort(p) PROVE ListenerInv'
  <2>0. held' \subseteq held /\ UNCHANGED <<device_sent, tasks, ports, made, owner, accept_ch>>
      BY <1>8 DEF DropPort
  <2>1. Announced' \subseteq Announced
      BY <2>0 DEF Announced
  <2>2. MapOK'
      BY <1>0, <2>0, <2>1 DEF MapOK
  <2>3. Newest' /\ held' \cap ToSet(accept_ch') = {}
      BY <1>0, <2>0, <2>1 DEF Newest
  <2> QED
      BY <1>0, <2>0, <2>2, <2>3, AnnouncedParts DEF ListenerInv
<1>9. CASE UNCHANGED listener_vars
  <2>1. MapOK'
      BY <1>0, <1>9 DEF listener_vars, MapOK, Announced
  <2>2. AnnouncedOnce'
      BY <1>9 DEF listener_vars, ListenerInv, AnnouncedOnce
  <2> QED
      BY <2>1, <2>2 DEF ListenerInv
<1>10. CASE CloseListener
  <2>1. MapOK'
      BY <1>0, <1>10 DEF CloseListener, MapOK, Announced
  <2>2. AnnouncedOnce'
      BY <1>10 DEF CloseListener, ListenerInv, AnnouncedOnce
  <2> QED
      BY <2>1, <2>2 DEF ListenerInv
<1>11. CASE DropListener
  <2>0. accept_ch' = << >> /\ UNCHANGED <<device_sent, tasks, ports, made, owner, held>>
      BY <1>11 DEF DropListener
  <2>1. ToSet(accept_ch') = {} /\ Distinct(accept_ch') /\ accept_ch' \in Seq(Port)
      BY <2>0 DEF ToSet, Distinct
  <2>2. Announced' \subseteq Announced
      BY <2>0, <2>1 DEF Announced
  <2>3. MapOK' /\ Newest'
      BY <1>0, <2>0, <2>1, <2>2 DEF MapOK, Newest
  <2> QED
      BY <2>1, <2>3, AnnouncedParts DEF ListenerInv
<1> QED
    BY <1>1, <1>2, <1>3, <1>4, <1>5, <1>6, <1>7, <1>8, <1>9, <1>10, <1>11
    DEF ListenerNext, RunAny, Run

\* However tasks, sweeps and the application interleave, a device has at most one
\* announced port that can still receive: for any number of devices and ports.
THEOREM AnnouncedCorrect == ASSUME ListenerAssumption PROVE ListenerSpec => []AnnouncedOnce
<1>1. ListenerInv => AnnouncedOnce
    BY DEF ListenerInv
<1> QED
    BY InitListenerInv, NextListenerInv, <1>1, PTL DEF ListenerSpec
-----------------------------------------------------------------------------
(* Proof that no message is lost or doubled.  What waits in a channel and   *)
(* what was read are seen as sets; a step moves one message, or all that    *)
(* wait in a port, from one set to another.  A port that is not made yet is *)
(* empty, and an entry of the map is a port of its own device.              *)

ChannelsOK ==
    /\ port_ch \in [Port -> [Kind -> Seq(GearMessage)]] /\ got \in [Port -> SUBSET GearMessage]
    /\ \A p \in Port : p > made => Arrived(p) = {}
    /\ \A g \in Gear : ports[g] # NoPort => owner[ports[g]] = g

ConservedInv == ListenerInv /\ ChannelsOK /\ Conserved

LEMMA ConservedInit == ASSUME ListenerAssumption PROVE ListenerInit => ConservedInv
<1> SUFFICES ASSUME ListenerInit PROVE ConservedInv
    OBVIOUS
<1>1. \A p \in Port, k \in Kind : port_ch[p][k] = << >> /\ ToSet(port_ch[p][k]) = {}
    BY DEF ListenerInit, NewPort, ToSet
<1>2. \A p \in Port : Waiting(p) = {} /\ got[p] = {} /\ Arrived(p) = {}
    BY <1>1 DEF ListenerInit, Waiting, Arrived
<1>3. PublishedMessages = {}
    BY DEF ListenerInit, PublishedMessages, PublishedBy
<1>4. ChannelsOK
    BY <1>2 DEF ListenerInit, ChannelsOK, NewPort
<1>5. Conserved
    BY <1>1, <1>2, <1>3 DEF ListenerInit, Conserved, AllAccounted, OnePlaceOnly, OwnPort, OwnChannel
<1> QED
    BY <1>4, <1>5, InitListenerInv DEF ConservedInv

\* A message that a device publishes is a new one.
LEMMA NewMessage ==
    ASSUME ListenerAssumption, ListenerInv, NEW g \in Gear, NEW kind \in Publishes[g],
           HandleMessage(g, kind)
    PROVE  \E m \in GearMessage : /\ m \notin PublishedMessages /\ tasks' = tasks \cup {m}
                                  /\ PublishedMessages' = PublishedMessages \cup {m}
<1> DEFINE n == Len(device_sent[g]) + 1
           m == [gear |-> g, n |-> n, kind |-> kind]
           q == device_sent[g]
<1>1. /\ kind \in Kind \cup {NoKind} /\ device_sent \in [Gear -> Seq(Kind \cup {NoKind})]
      /\ device_sent' = [device_sent EXCEPT ![g] = Append(q, kind)] /\ tasks' = tasks \cup {m}
    BY DEF ListenerAssumption, HandleMessage, ListenerInv, MapOK
<1>2. q \in Seq(Kind \cup {NoKind}) /\ Len(q) \in Nat /\ n \in Nat /\ m \in GearMessage
    BY <1>1 DEF GearMessage
<1>3. /\ DOMAIN Append(q, kind) = (1 .. Len(q)) \cup {n} /\ DOMAIN q = 1 .. Len(q)
      /\ Append(q, kind)[n] = kind /\ \A i \in 1 .. Len(q) : Append(q, kind)[i] = q[i]
  <2>1. Append(q, kind) \in Seq(Kind \cup {NoKind}) /\ Len(Append(q, kind)) = n
        /\ \A i \in 1 .. n : Append(q, kind)[i] = IF i = n THEN kind ELSE q[i]
      BY <1>1, <1>2
  <2> QED
      BY <1>2, <2>1
<1> HIDE DEF n, q
<1>4. PublishedBy(g)' = PublishedBy(g) \cup {m}
  <2>1. device_sent'[g] = Append(q, kind)
      BY <1>1
  <2>2. PublishedBy(g)' = {[gear |-> g, n |-> i, kind |-> Append(q, kind)[i]] : i \in (1 .. Len(q)) \cup {n}}
      BY <1>3, <2>1 DEF PublishedBy
  <2>3. PublishedBy(g) = {[gear |-> g, n |-> i, kind |-> q[i]] : i \in 1 .. Len(q)}
      BY <1>3 DEF PublishedBy, q
  <2> QED
      BY <1>3, <2>2, <2>3
<1>5. \A h \in Gear : h # g => PublishedBy(h)' = PublishedBy(h)
    BY <1>1 DEF PublishedBy
<1>6. m \notin PublishedMessages
  <2>1. \A h \in Gear : \A x \in PublishedBy(h) : x.gear = h /\ x.n \in DOMAIN device_sent[h]
      BY DEF PublishedBy
  <2>2. n \notin DOMAIN q
      BY <1>2, <1>3 DEF n
  <2> QED
      BY <2>1, <2>2 DEF PublishedMessages, q
<1>7. PublishedMessages' = PublishedMessages \cup {m}
    BY <1>4, <1>5 DEF PublishedMessages
<1> QED
    BY <1>1, <1>2, <1>6, <1>7

\* The effect of a delivery: message m, no longer with a task, waits in port p or is
\* discarded.
LEMMA Delivery ==
    ASSUME ListenerAssumption, MapOK, ChannelsOK, OwnChannel,
           NEW p \in Port, NEW open \in BOOLEAN, NEW m \in GearMessage,
           m \notin Arrived(p), DeliverToPort(p, m, open)
    PROVE  /\ port_ch' \in [Port -> [Kind -> Seq(GearMessage)]] /\ got' = got /\ OwnChannel'
           /\ \A r \in Port : r # p => Waiting(r)' = Waiting(r)
           /\ \/ Waiting(p)' = Waiting(p) \cup {m} /\ discarded' = discarded
              \/ Waiting(p)' = Waiting(p) /\ discarded' = discarded \cup {m}
<1> DEFINE k == m.kind
           q == port_ch[p][k]
<1>1. got' = got
    BY DEF DeliverToPort
<1>2. ASSUME open, k # NoKind, Len(q) < PortCap[k]
      PROVE  /\ port_ch' \in [Port -> [Kind -> Seq(GearMessage)]] /\ OwnChannel'
             /\ \A r \in Port : r # p => Waiting(r)' = Waiting(r)
             /\ Waiting(p)' = Waiting(p) \cup {m} /\ discarded' = discarded
  <2>1. /\ k \in Kind /\ q \in Seq(GearMessage) /\ discarded' = discarded
        /\ port_ch' = [port_ch EXCEPT ![p][k] = Append(q, m)]
    <3>1. k \in Kind
        BY <1>2 DEF GearMessage
    <3>2. q \in Seq(GearMessage)
        BY <3>1 DEF ChannelsOK
    <3> QED
        BY <1>2, <3>1, <3>2 DEF DeliverToPort
  <2>2. Append(q, m) \in Seq(GearMessage) /\ ToSet(Append(q, m)) = ToSet(q) \cup {m}
      BY <2>1, QueueSets
  <2>3. Distinct(q) /\ m \notin ToSet(q)
      BY <2>1 DEF OwnChannel, Distinct, Arrived, Waiting
  <2>4. Distinct(Append(q, m))
      BY <2>1, <2>3, QueueDistinct
  <2> HIDE DEF k, q
  <2>5. /\ port_ch'[p][k] = Append(q, m)
        /\ \A r \in Port, j \in Kind : r # p \/ j # k => port_ch'[r][j] = port_ch[r][j]
      BY <2>1 DEF ChannelsOK
  <2>6. port_ch' \in [Port -> [Kind -> Seq(GearMessage)]]
      BY <2>1, <2>2 DEF ChannelsOK
  <2>7. \A r \in Port, j \in Kind :
           ToSet(port_ch'[r][j]) = IF r = p /\ j = k THEN ToSet(port_ch[r][j]) \cup {m}
                                                     ELSE ToSet(port_ch[r][j])
    <3> SUFFICES ASSUME NEW r \in Port, NEW j \in Kind
                 PROVE  ToSet(port_ch'[r][j]) = IF r = p /\ j = k THEN ToSet(port_ch[r][j]) \cup {m}
                                                                   ELSE ToSet(port_ch[r][j])
        OBVIOUS
    <3>1. CASE r = p /\ j = k
        BY <2>2, <2>5, <3>1 DEF q
    <3>2. CASE r # p \/ j # k
        BY <2>5, <3>2
    <3> QED
        BY <3>1, <3>2
  <2>8. /\ \A r \in Port : r # p => Waiting(r)' = Waiting(r)
        /\ Waiting(p)' = Waiting(p) \cup {m}
    <3>1. ASSUME NEW r \in Port, r # p PROVE Waiting(r)' = Waiting(r)
        BY <2>7, <3>1 DEF Waiting
    <3>2. Waiting(p)' = Waiting(p) \cup {m}
      <4>1. Waiting(p)' = UNION {ToSet(port_ch'[p][j]) : j \in Kind}
          BY DEF Waiting
      <4>2. \A j \in Kind : ToSet(port_ch'[p][j]) = IF j = k THEN ToSet(port_ch[p][j]) \cup {m}
                                                              ELSE ToSet(port_ch[p][j])
          BY <2>7
      <4>3. \A x : x \in Waiting(p)' <=> \E j \in Kind : x \in ToSet(port_ch[p][j]) \/ (j = k /\ x = m)
          BY <4>1, <4>2
      <4>4. \A x : x \in Waiting(p) <=> \E j \in Kind : x \in ToSet(port_ch[p][j])
          BY DEF Waiting
      <4> QED
          BY <2>1, <4>3, <4>4
    <3> QED
        BY <3>1, <3>2
  <2>9. OwnChannel'
    <3> SUFFICES ASSUME NEW r \in Port, NEW j \in Kind
                 PROVE  (\A x \in ToSet(port_ch'[r][j]) : x.kind = j) /\ Distinct(port_ch'[r][j])
        BY DEF OwnChannel, Distinct
    <3>1. (\A x \in ToSet(port_ch[r][j]) : x.kind = j) /\ Distinct(port_ch[r][j])
        BY DEF OwnChannel, Distinct
    <3>2. CASE r = p /\ j = k
        BY <2>2, <2>4, <2>5, <3>1, <3>2 DEF q, k
    <3>3. CASE r # p \/ j # k
        BY <2>5, <3>1, <3>3
    <3> QED
        BY <3>2, <3>3
  <2> QED
      BY <2>1, <2>6, <2>8, <2>9
<1>3. ASSUME ~(open /\ k # NoKind /\ Len(q) < PortCap[k])
      PROVE  /\ port_ch' \in [Port -> [Kind -> Seq(GearMessage)]] /\ OwnChannel'
             /\ \A r \in Port : Waiting(r)' = Waiting(r)
             /\ discarded' = discarded \cup {m}
  <2>1. port_ch' = port_ch /\ discarded' = discarded \cup {m}
      BY <1>3 DEF DeliverToPort
  <2> QED
      BY <2>1 DEF ChannelsOK, OwnChannel, Waiting
<1> QED
    BY <1>1, <1>2, <1>3

\* Handling m in a port of its device keeps the account.
LEMMA TaskConserves ==
    ASSUME ListenerAssumption, ConservedInv, NEW m \in tasks, NEW p \in Port, NEW open \in BOOLEAN,
           tasks' = tasks \ {m}, device_sent' = device_sent, DeliverToPort(p, m, open),
           made' \in Nat, made' >= made, made' >= p,
           \A r \in Port : Arrived(r) # {} \/ r = p => owner'[r] = IF r = p THEN m.gear ELSE owner[r],
           Arrived(p) # {} => owner[p] = m.gear,
           \A g \in Gear : ports'[g] # NoPort => owner'[ports'[g]] = g
    PROVE  ChannelsOK' /\ Conserved'
<1>1. m \in GearMessage /\ m \notin Arrived(p) /\ MapOK /\ OwnChannel /\ ChannelsOK
    BY DEF ConservedInv, Conserved, OnePlaceOnly, ListenerInv, MapOK
<1>2. /\ port_ch' \in [Port -> [Kind -> Seq(GearMessage)]] /\ got' = got /\ OwnChannel'
      /\ \A r \in Port : r # p => Waiting(r)' = Waiting(r)
      /\ \/ Waiting(p)' = Waiting(p) \cup {m} /\ discarded' = discarded
         \/ Waiting(p)' = Waiting(p) /\ discarded' = discarded \cup {m}
    BY <1>1, Delivery
<1>3. /\ \A r \in Port : r # p => Arrived(r)' = Arrived(r)
      /\ \/ Arrived(p)' = Arrived(p) \cup {m} /\ discarded' = discarded
         \/ Arrived(p)' = Arrived(p) /\ discarded' = discarded \cup {m}
    BY <1>2 DEF Arrived
<1>4. PublishedMessages' = PublishedMessages
    BY DEF PublishedMessages, PublishedBy
<1>5. AllAccounted'
  <2>1. tasks \cup discarded \cup UNION {Arrived(r) : r \in Port} = PublishedMessages
      BY DEF ConservedInv, Conserved, AllAccounted
  <2> DEFINE all == UNION {Arrived(r) : r \in Port}
             all2 == UNION {Arrived(r)' : r \in Port}
  <2>2. \A x : x \in all <=> \E r \in Port : x \in Arrived(r)
      OBVIOUS
  <2>3. \A x : x \in all2 <=> \E r \in Port : x \in Arrived(r)'
      OBVIOUS
  <2>4. tasks \cup discarded \cup all = PublishedMessages
      BY <2>1
  <2> HIDE DEF all, all2
  <2>5. \A r \in Port : Arrived(r) \subseteq Arrived(r)' /\ (r # p => Arrived(r)' = Arrived(r))
      BY <1>3
  <2>6. \A x : x \in all2 <=> x \in all \/ x \in Arrived(p)'
      BY <2>2, <2>3, <2>5
  <2>7. Arrived(p) \subseteq all
      BY <2>2
  <2>8. tasks' \cup discarded' \cup all2 = PublishedMessages
      BY <1>3, <2>4, <2>6, <2>7
  <2> QED
      BY <1>4, <2>8 DEF AllAccounted, all2
<1>6. OnePlaceOnly'
  <2>1. OnePlaceOnly
      BY DEF ConservedInv, Conserved
  <2>2. (tasks \cap discarded = {})' /\ m \notin tasks' /\ m \notin discarded
      BY <1>3, <2>1 DEF OnePlaceOnly
  <2>3. \A r \in Port : m \notin Arrived(r) /\ m \notin Waiting(r) /\ m \notin got[r]
      BY <2>1 DEF OnePlaceOnly, Arrived
  <2>4. ASSUME NEW r \in Port
        PROVE  Arrived(r)' \cap (tasks' \cup discarded') = {} /\ Waiting(r)' \cap got'[r] = {}
    <3>1. Arrived(r) \cap (tasks \cup discarded) = {} /\ Waiting(r) \cap got[r] = {}
        BY <2>1 DEF OnePlaceOnly
    <3>2. CASE r # p
      <4>1. Arrived(r)' = Arrived(r) /\ Waiting(r)' = Waiting(r) /\ got'[r] = got[r]
            /\ discarded' \subseteq discarded \cup {m} /\ tasks' \subseteq tasks
          BY <1>2, <1>3, <3>2
      <4> QED
          BY <2>3, <3>1, <4>1
    <3>3. CASE r = p
      <4>1. /\ tasks' \subseteq tasks /\ got'[p] = got[p]
            /\ \/ /\ Arrived(p)' = Arrived(p) \cup {m} /\ Waiting(p)' = Waiting(p) \cup {m}
                  /\ discarded' = discarded
               \/ /\ Arrived(p)' = Arrived(p) /\ Waiting(p)' = Waiting(p)
                  /\ discarded' = discarded \cup {m}
          BY <1>2 DEF Arrived
      <4> QED
          BY <2>2, <2>3, <3>1, <3>3, <4>1
    <3> QED
        BY <3>2, <3>3
  <2>5. ASSUME NEW r \in Port, NEW s \in Port, r # s PROVE Arrived(r)' \cap Arrived(s)' = {}
    <3>1. Arrived(r) \cap Arrived(s) = {}
        BY <2>1, <2>5 DEF OnePlaceOnly
    <3> QED
        BY <1>3, <2>3, <2>5, <3>1
  <2> QED
      BY <2>2, <2>4, <2>5 DEF OnePlaceOnly
<1>7. OwnPort'
  <2> SUFFICES ASSUME NEW r \in Port, NEW x \in Arrived(r)' PROVE x.gear = owner'[r]
      BY DEF OwnPort
  <2>1. \A y \in Arrived(r) : y.gear = owner[r]
      BY DEF ConservedInv, Conserved, OwnPort
  <2>2. CASE r = p
    <3>1. x = m \/ x \in Arrived(p)
        BY <1>3, <2>2
    <3> QED
        BY <2>1, <2>2, <3>1
  <2>3. CASE r # p
      BY <1>3, <2>1, <2>3
  <2> QED
      BY <2>2, <2>3
<1>8. ChannelsOK'
  <2>1. \A r \in Port : r > made' => Arrived(r)' = {}
    <3> SUFFICES ASSUME NEW r \in Port, r > made' PROVE Arrived(r)' = {}
        OBVIOUS
    <3>1. made \in Nat /\ made' \in Nat /\ r \in Int /\ p \in Int
        BY <1>1 DEF MapOK, Port
    <3>2. r # p /\ r > made
        BY <3>1
    <3>3. Arrived(r) = {}
        BY <1>1, <3>2 DEF ChannelsOK
    <3> QED
        BY <1>3, <3>2, <3>3
  <2> QED
      BY <1>1, <1>2, <2>1 DEF ChannelsOK
<1> QED
    BY <1>2, <1>5, <1>6, <1>7, <1>8 DEF Conserved
\* Dropping the receivers of some ports moves what waited there.
LEMMA DropConserves ==
    ASSUME ConservedInv, NEW P \in SUBSET Port, DropReceivers(P),
           UNCHANGED <<device_sent, tasks, made, owner, ports>>
    PROVE  ChannelsOK' /\ Conserved'
<1> DEFINE gone == UNION {Waiting(p) : p \in P}
<1>0. ChannelsOK /\ AllAccounted /\ OnePlaceOnly /\ OwnPort /\ OwnChannel
    BY DEF ConservedInv, Conserved
<1>1. port_ch' \in [Port -> [Kind -> Seq(GearMessage)]] /\ got' = got
    BY <1>0 DEF DropReceivers, ChannelsOK, NewPort
<1>2. \A p \in Port : Waiting(p)' = IF p \in P THEN {} ELSE Waiting(p)
  <2> SUFFICES ASSUME NEW p \in Port PROVE Waiting(p)' = IF p \in P THEN {} ELSE Waiting(p)
      OBVIOUS
  <2>1. CASE p \in P
    <3>1. \A k \in Kind : port_ch'[p][k] = << >>
        BY <2>1 DEF DropReceivers, NewPort
    <3>2. \A k \in Kind : ToSet(port_ch'[p][k]) = {}
        BY <3>1 DEF ToSet
    <3> QED
        BY <2>1, <3>2 DEF Waiting
  <2>2. CASE p \notin P
    <3>1. port_ch'[p] = port_ch[p]
        BY <2>2 DEF DropReceivers
    <3> QED
        BY <2>2, <3>1 DEF Waiting
  <2> QED
      BY <2>1, <2>2
<1>3. discarded' = discarded \cup gone
  <2>1. \A x : x \in UNION {ToSet(port_ch[p][k]) : p \in P, k \in Kind}
               <=> \E p \in P, k \in Kind : x \in ToSet(port_ch[p][k])
      OBVIOUS
  <2>2. \A p \in P : \A x : x \in Waiting(p) <=> \E k \in Kind : x \in ToSet(port_ch[p][k])
      BY DEF Waiting
  <2>3. \A x : x \in gone <=> \E p \in P : x \in Waiting(p)
      OBVIOUS
  <2>4. UNION {ToSet(port_ch[p][k]) : p \in P, k \in Kind} = gone
      BY <2>1, <2>2, <2>3
  <2> QED
      BY <2>4 DEF DropReceivers
<1>4. \A p \in Port : /\ Arrived(p)' = (IF p \in P THEN {} ELSE Waiting(p)) \cup got[p]
                      /\ Arrived(p) = Waiting(p) \cup got[p] /\ Arrived(p)' \subseteq Arrived(p)
    BY <1>1, <1>2 DEF Arrived
<1>5. \A x : x \in gone <=> \E p \in P : x \in Waiting(p)
    OBVIOUS
<1> HIDE DEF gone
<1>6. AllAccounted'
  <2>1. PublishedMessages' = PublishedMessages
      BY DEF PublishedMessages, PublishedBy
  <2>2. tasks \cup discarded \cup UNION {Arrived(p) : p \in Port} = PublishedMessages
      BY <1>0 DEF AllAccounted
  <2>3. gone \cup UNION {Arrived(p)' : p \in Port} = UNION {Arrived(p) : p \in Port}
    <3>1. \A x : x \in UNION {Arrived(p)' : p \in Port} <=> \E p \in Port : x \in Arrived(p)'
        OBVIOUS
    <3>2. \A x : x \in UNION {Arrived(p) : p \in Port} <=> \E p \in Port : x \in Arrived(p)
        OBVIOUS
    <3>3. ASSUME NEW x, NEW p \in Port, x \in Arrived(p) PROVE x \in gone \/ \E r \in Port : x \in Arrived(r)'
        BY <1>4, <1>5, <3>3
    <3>4. ASSUME NEW x \in gone PROVE \E r \in Port : x \in Arrived(r)
        BY <1>4, <1>5
    <3>5. ASSUME NEW x, NEW p \in Port, x \in Arrived(p)' PROVE \E r \in Port : x \in Arrived(r)
        BY <1>4, <3>5
    <3> QED
        BY <3>1, <3>2, <3>3, <3>4, <3>5
  <2>4. tasks \cup discarded' \cup UNION {Arrived(p)' : p \in Port} = PublishedMessages
      BY <1>3, <2>2, <2>3
  <2> QED
      BY <2>1, <2>4 DEF AllAccounted
<1>7. OnePlaceOnly'
  <2>1. (tasks \cap discarded = {})'
    <3>1. \A x \in tasks : \A p \in P : x \notin Waiting(p)
        BY <1>0, <1>4 DEF OnePlaceOnly
    <3> QED
        BY <1>0, <1>3, <1>5, <3>1 DEF OnePlaceOnly
  <2>2. ASSUME NEW p \in Port PROVE Arrived(p)' \cap (tasks' \cup discarded') = {}
    <3>1. Arrived(p) \cap (tasks \cup discarded) = {} /\ Waiting(p) \cap got[p] = {}
        BY <1>0 DEF OnePlaceOnly
    <3>2. ASSUME NEW x \in Arrived(p)', x \in gone PROVE FALSE
      <4>1. PICK r \in P : x \in Waiting(r)
          BY <1>5, <3>2
      <4>2. CASE r = p
          BY <1>4, <3>1, <4>1, <4>2
      <4>3. CASE r # p
          BY <1>0, <1>4, <4>1, <4>3 DEF OnePlaceOnly
      <4> QED
          BY <4>2, <4>3
    <3> QED
        BY <1>3, <1>4, <3>1, <3>2
  <2>3. \A p \in Port : Waiting(p)' \cap got'[p] = {}
      BY <1>0, <1>1, <1>2 DEF OnePlaceOnly
  <2>4. \A p, r \in Port : p # r => Arrived(p)' \cap Arrived(r)' = {}
    <3> SUFFICES ASSUME NEW p \in Port, NEW r \in Port, p # r PROVE Arrived(p)' \cap Arrived(r)' = {}
        OBVIOUS
    <3>1. Arrived(p) \cap Arrived(r) = {}
        BY <1>0 DEF OnePlaceOnly
    <3> QED
        BY <1>4, <3>1
  <2> QED
      BY <2>1, <2>2, <2>3, <2>4 DEF OnePlaceOnly
<1>8. OwnPort'
    BY <1>0, <1>4 DEF OwnPort
<1>9. OwnChannel'
  <2> SUFFICES ASSUME NEW p \in Port, NEW k \in Kind
               PROVE  (\A x \in ToSet(port_ch'[p][k]) : x.kind = k) /\ Distinct(port_ch'[p][k])
      BY DEF OwnChannel, Distinct
  <2>1. CASE p \in P
    <3>1. port_ch'[p][k] = << >>
        BY <2>1 DEF DropReceivers, NewPort
    <3> QED
        BY <3>1 DEF ToSet, Distinct
  <2>2. CASE p \notin P
    <3>1. port_ch'[p][k] = port_ch[p][k]
        BY <2>2 DEF DropReceivers
    <3> QED
        BY <1>0, <3>1 DEF OwnChannel, Distinct
  <2> QED
      BY <2>1, <2>2
<1>10. ChannelsOK'
    BY <1>0, <1>1, <1>4 DEF ChannelsOK
<1> QED
    BY <1>6, <1>7, <1>8, <1>9, <1>10 DEF Conserved

\* Reading moves the head of one queue.
LEMMA ReadConserves ==
    ASSUME ConservedInv, NEW p \in Port, ReadPort(p)
    PROVE  ChannelsOK' /\ Conserved'
<1>0. ChannelsOK /\ AllAccounted /\ OnePlaceOnly /\ OwnPort /\ OwnChannel
    BY DEF ConservedInv, Conserved
<1>1. PICK k \in Kind :
        /\ port_ch[p][k] # << >> /\ got' = [got EXCEPT ![p] = @ \cup {Head(port_ch[p][k])}]
        /\ port_ch' = [port_ch EXCEPT ![p][k] = Tail(@)]
        /\ UNCHANGED <<device_sent, tasks, ports, made, owner, discarded>>
    BY DEF ReadPort
<1> DEFINE q == port_ch[p][k]
           h == Head(q)
<1>2. q \in Seq(GearMessage) /\ q # << >>
    BY <1>0, <1>1 DEF ChannelsOK
<1>3. h \in GearMessage
    BY <1>2, HeadTailProperties
<1>4. /\ ToSet(q) = {h} \cup ToSet(Tail(q)) /\ Tail(q) \in Seq(GearMessage)
      /\ Distinct(q) /\ Distinct(Tail(q)) /\ h \notin ToSet(Tail(q))
  <2>1. Distinct(q)
      BY <1>0 DEF OwnChannel, Distinct
  <2> QED
      BY <1>2, <1>3, <2>1, QueueSets, QueueDistinct
<1> HIDE DEF q, h
<1>5. /\ port_ch' \in [Port -> [Kind -> Seq(GearMessage)]] /\ port_ch'[p][k] = Tail(q)
      /\ \A r \in Port, j \in Kind : r # p \/ j # k => port_ch'[r][j] = port_ch[r][j]
  <2>1. port_ch' = [port_ch EXCEPT ![p][k] = Tail(q)]
      BY <1>1 DEF q
  <2> QED
      BY <1>0, <1>4, <2>1 DEF ChannelsOK
<1>6. /\ got' \in [Port -> SUBSET GearMessage] /\ got'[p] = got[p] \cup {h}
      /\ \A r \in Port : r # p => got'[r] = got[r]
    BY <1>0, <1>1, <1>3 DEF ChannelsOK, h, q
<1>7. \A r \in Port : r # p => Waiting(r)' = Waiting(r) /\ Arrived(r)' = Arrived(r)
    BY <1>5, <1>6 DEF Waiting, Arrived
<1>8. Waiting(p) = Waiting(p)' \cup {h} /\ h \notin Waiting(p)'
  <2>1. \A x : x \in Waiting(p) <=> \E j \in Kind : x \in ToSet(port_ch[p][j])
      BY DEF Waiting
  <2>2. \A x : x \in Waiting(p)' <=> \E j \in Kind : x \in ToSet(port_ch'[p][j])
      BY DEF Waiting
  <2>3. \A j \in Kind : j # k => port_ch'[p][j] = port_ch[p][j]
      BY <1>5
  <2>4. ToSet(port_ch[p][k]) = {h} \cup ToSet(port_ch'[p][k]) /\ h \notin ToSet(port_ch'[p][k])
      BY <1>4, <1>5 DEF q
  <2>5. \A j \in Kind : j # k => h \notin ToSet(port_ch[p][j])
    <3>1. h.kind = k
        BY <1>0, <2>4 DEF OwnChannel
    <3> QED
        BY <1>0, <3>1 DEF OwnChannel
  <2>6. h \notin Waiting(p)'
      BY <2>2, <2>3, <2>4, <2>5
  <2>7. \A x : x \in Waiting(p) <=> x \in Waiting(p)' \/ x = h
    <3>1. ASSUME NEW x, x \in Waiting(p) PROVE x \in Waiting(p)' \/ x = h
      <4>1. PICK j \in Kind : x \in ToSet(port_ch[p][j])
          BY <2>1, <3>1
      <4> QED
          BY <2>2, <2>3, <2>4, <4>1
    <3>2. ASSUME NEW x, x \in Waiting(p)' PROVE x \in Waiting(p)
      <4>1. PICK j \in Kind : x \in ToSet(port_ch'[p][j])
          BY <2>2, <3>2
      <4> QED
          BY <2>1, <2>3, <2>4, <4>1
    <3>3. h \in Waiting(p)
        BY <2>1, <2>4
    <3> QED
        BY <3>1, <3>2, <3>3
  <2> QED
      BY <2>6, <2>7
<1>9. Arrived(p)' = Arrived(p)
    BY <1>6, <1>8 DEF Arrived
<1>10. \A r \in Port : Arrived(r)' = Arrived(r)
    BY <1>7, <1>9
<1>11. AllAccounted'
  <2>1. PublishedMessages' = PublishedMessages
      BY <1>1 DEF PublishedMessages, PublishedBy
  <2> QED
      BY <1>0, <1>1, <1>10, <2>1 DEF AllAccounted
<1>12. OnePlaceOnly'
  <2>1. ASSUME NEW r \in Port PROVE Waiting(r)' \cap got'[r] = {}
    <3>1. Waiting(r) \cap got[r] = {}
        BY <1>0 DEF OnePlaceOnly
    <3>2. CASE r = p
        BY <1>6, <1>8, <3>1, <3>2
    <3>3. CASE r # p
        BY <1>6, <1>7, <3>1, <3>3
    <3> QED
        BY <3>2, <3>3
  <2> QED
      BY <1>0, <1>1, <1>10, <2>1 DEF OnePlaceOnly
<1>13. OwnPort'
    BY <1>0, <1>1, <1>10 DEF OwnPort
<1>14. OwnChannel'
  <2> SUFFICES ASSUME NEW r \in Port, NEW j \in Kind
               PROVE  (\A x \in ToSet(port_ch'[r][j]) : x.kind = j) /\ Distinct(port_ch'[r][j])
      BY DEF OwnChannel, Distinct
  <2>1. (\A x \in ToSet(port_ch[r][j]) : x.kind = j) /\ Distinct(port_ch[r][j])
      BY <1>0 DEF OwnChannel, Distinct
  <2>2. CASE r = p /\ j = k
      BY <1>4, <1>5, <2>1, <2>2 DEF q
  <2>3. CASE r # p \/ j # k
      BY <1>5, <2>1, <2>3
  <2> QED
      BY <2>2, <2>3
<1>15. ChannelsOK'
    BY <1>0, <1>1, <1>5, <1>6, <1>10 DEF ChannelsOK
<1> QED
    BY <1>11, <1>12, <1>13, <1>14, <1>15 DEF Conserved

\* Steps that touch no message.
LEMMA OthersConserve ==
    ASSUME ConservedInv, UNCHANGED <<device_sent, tasks, made, owner, channel_vars>>,
           \A g \in Gear : ports'[g] # NoPort => ports'[g] = ports[g]
    PROVE  ChannelsOK' /\ Conserved'
<1>0. ChannelsOK /\ AllAccounted /\ OnePlaceOnly /\ OwnPort /\ OwnChannel
    BY DEF ConservedInv, Conserved
<1>1. port_ch' = port_ch /\ got' = got /\ discarded' = discarded
    BY DEF channel_vars
<1>2. \A p \in Port : Waiting(p)' = Waiting(p) /\ Arrived(p)' = Arrived(p)
    BY <1>1 DEF Waiting, Arrived
<1>3. PublishedMessages' = PublishedMessages
    BY DEF PublishedMessages, PublishedBy
<1>4. ChannelsOK'
    BY <1>0, <1>1, <1>2 DEF ChannelsOK
<1>5. AllAccounted' /\ OnePlaceOnly'
    BY <1>0, <1>1, <1>2, <1>3 DEF AllAccounted, OnePlaceOnly
<1>6. OwnPort' /\ OwnChannel'
    BY <1>0, <1>1, <1>2 DEF OwnPort, OwnChannel
<1> QED
    BY <1>4, <1>5, <1>6 DEF Conserved

LEMMA ConservedNext ==
    ASSUME ListenerAssumption PROVE ConservedInv /\ [ListenerNext]_listener_vars => ConservedInv'
<1> SUFFICES ASSUME ConservedInv, [ListenerNext]_listener_vars PROVE ConservedInv'
    OBVIOUS
<1>0. ListenerInv' /\ ListenerInv /\ MapOK /\ ChannelsOK
    BY NextListenerInv DEF ConservedInv, ListenerInv
<1> SUFFICES ChannelsOK' /\ Conserved'
    BY <1>0 DEF ConservedInv
<1>1. ASSUME NEW g \in Gear, NEW kind \in Publishes[g], HandleMessage(g, kind)
      PROVE  ChannelsOK' /\ Conserved'
  <2>1. PICK m \in GearMessage : /\ m \notin PublishedMessages /\ tasks' = tasks \cup {m}
                                 /\ PublishedMessages' = PublishedMessages \cup {m}
      BY <1>0, <1>1, NewMessage
  <2>2. UNCHANGED <<ports, made, owner>> /\ port_ch' = port_ch /\ got' = got /\ discarded' = discarded
      BY <1>1 DEF HandleMessage, channel_vars
  <2>3. \A p \in Port : Waiting(p)' = Waiting(p) /\ Arrived(p)' = Arrived(p)
      BY <2>2 DEF Waiting, Arrived
  <2>4. AllAccounted /\ OnePlaceOnly /\ OwnPort /\ OwnChannel
      BY DEF ConservedInv, Conserved
  <2>5. m \notin discarded /\ \A p \in Port : m \notin Arrived(p)
      BY <2>1, <2>4 DEF AllAccounted
  <2>6. AllAccounted'
      BY <2>1, <2>2, <2>3, <2>4 DEF AllAccounted
  <2>7. OnePlaceOnly'
      BY <2>1, <2>2, <2>3, <2>4, <2>5 DEF OnePlaceOnly
  <2>8. OwnPort' /\ OwnChannel' /\ ChannelsOK'
      BY <1>0, <2>2, <2>3, <2>4 DEF OwnPort, OwnChannel, ChannelsOK
  <2> QED
      BY <2>6, <2>7, <2>8 DEF Conserved
<1>2. ASSUME NEW m \in tasks, RunTask(m) PROVE ChannelsOK' /\ Conserved'
  <2> DEFINE p == ports[m.gear]
  <2>1. /\ m.gear \in Gear /\ p \in Port /\ p <= made /\ owner[p] = m.gear /\ made \in Nat
        /\ tasks' = tasks \ {m} /\ DeliverToPort(p, m, Open(p))
        /\ UNCHANGED <<device_sent, ports, made, owner>>
      BY <1>0, <1>2 DEF RunTask, MapOK, ChannelsOK, GearMessage
  <2>2. Open(p) \in BOOLEAN
      BY DEF Open
  <2>3. \A g \in Gear : ports'[g] # NoPort => owner'[ports'[g]] = g
      BY <1>0, <2>1 DEF ChannelsOK
  <2> HIDE DEF p
  <2> QED
      BY <2>1, <2>2, <2>3, TaskConserves
<1>3. ASSUME NEW m \in tasks, RunFirstTask(m) PROVE ChannelsOK' /\ Conserved'
  <2> DEFINE p == made + 1
             room == listening /\ Len(accept_ch) < AcceptCap
  <2>1. /\ m.gear \in Gear /\ p \in Port /\ made \in Nat /\ made' = p /\ p > made
        /\ owner' = [owner EXCEPT ![p] = m.gear] /\ ports' = [ports EXCEPT ![m.gear] = p]
        /\ tasks' = tasks \ {m} /\ DeliverToPort(p, m, room) /\ device_sent' = device_sent
      BY <1>0, <1>3 DEF RunFirstTask, MapOK, Port, GearMessage, ListenerAssumption
  <2>2. room \in BOOLEAN
      OBVIOUS
  <2>3. Arrived(p) = {}
      BY <1>0, <2>1 DEF ChannelsOK
  <2>4. /\ owner \in [Port -> Gear \cup {NoPort}] /\ ports \in [Gear -> Port \cup {NoPort}]
        /\ \A g \in Gear : ports[g] # NoPort => ports[g] <= made /\ ports[g] \in Port /\ owner[ports[g]] = g
      BY <1>0 DEF MapOK, ChannelsOK
  <2>5. \A g \in Gear : ports'[g] # NoPort => owner'[ports'[g]] = g
    <3> SUFFICES ASSUME NEW g \in Gear, ports'[g] # NoPort PROVE owner'[ports'[g]] = g
        OBVIOUS
    <3>1. CASE g = m.gear
        BY <2>1, <2>4, <3>1
    <3>2. CASE g # m.gear
      <4>1. ports'[g] = ports[g] /\ ports[g] \in Port /\ ports[g] <= made /\ owner[ports[g]] = g
          BY <2>1, <2>4, <3>2
      <4>2. ports[g] # p
          BY <2>1, <4>1 DEF Port
      <4> QED
          BY <2>1, <2>4, <4>1, <4>2
    <3> QED
        BY <3>1, <3>2
  <2>6. \A r \in Port : owner'[r] = IF r = p THEN m.gear ELSE owner[r]
      BY <2>1, <2>4
  <2>7. made' \in Nat /\ made' >= made /\ made' >= p
      BY <2>1
  <2> HIDE DEF p, room
  <2> QED
      BY <2>1, <2>2, <2>3, <2>5, <2>6, <2>7, TaskConserves
<1>4. ASSUME NEW g \in Gear, GoIdle(g) PROVE ChannelsOK' /\ Conserved'
    BY <1>4, OthersConserve DEF GoIdle
<1>5. CASE Sweep
  <2>1. \A g \in Gear : ports'[g] # NoPort => ports'[g] = ports[g]
      BY <1>5 DEF Sweep
  <2> QED
      BY <1>5, <2>1, OthersConserve DEF Sweep
<1>6. CASE Accept
    BY <1>6, OthersConserve DEF Accept
<1>7. ASSUME NEW p \in Port, ReadPort(p) PROVE ChannelsOK' /\ Conserved'
    BY <1>7, ReadConserves
<1>8. ASSUME NEW p \in Port, DropPort(p) PROVE ChannelsOK' /\ Conserved'
    BY <1>8, DropConserves DEF DropPort
<1>9. CASE CloseListener
    BY <1>9, OthersConserve DEF CloseListener
<1>10. CASE DropListener
  <2>1. ToSet(accept_ch) \in SUBSET Port
      BY <1>0 DEF MapOK, Announced
  <2> QED
      BY <1>10, <2>1, DropConserves DEF DropListener
<1>11. CASE UNCHANGED listener_vars
    BY <1>11, OthersConserve DEF listener_vars
<1> QED
    BY <1>1, <1>2, <1>3, <1>4, <1>5, <1>6, <1>7, <1>8, <1>9, <1>10, <1>11
    DEF ListenerNext, RunAny, Run

\* Between a device and the readers of its ports no message is lost unaccounted for,
\* read twice or given to another device's port: for any number of devices, ports and
\* messages, and any order of tasks, sweeps, accepts and drops.
THEOREM ConservedCorrect == ASSUME ListenerAssumption PROVE ListenerSpec => []Conserved
<1>1. ConservedInv => Conserved
    BY DEF ConservedInv
<1> QED
    BY ConservedInit, ConservedNext, <1>1, PTL DEF ListenerSpec
==============================================================================
