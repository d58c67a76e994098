------------------------------- MODULE Broker -------------------------------
(***************************************************************************)
(* The mqtt0 broker (rust/mqtt0/src/broker.rs): connections, the registry  *)
(* of client ids, subscriptions, publishing and disconnection.             *)
(*                                                                         *)
(* Each connection is a task that runs run_client_v4/v5.  Tasks run in     *)
(* parallel and share `clients`, `client_subscriptions` and the two tries, *)
(* each behind its own lock: an action is what a task does under one lock, *)
(* or one try_send, and between two actions of one task any other task may *)
(* run.  A session stands for the connection and for its Arc<Sender>,      *)
(* whose pointer tells one session of a client id from another.            *)
(*                                                                         *)
(* Filters and topics are opaque: Matching and SharedMatching give, for a  *)
(* topic, the trie nodes that match it in the order a lookup tries them    *)
(* (checked in module MqttTrie).  A SUBSCRIBE or UNSUBSCRIBE packet has one *)
(* filter here; the code loops over the filters of a packet.  The callbacks *)
(* (Handler, on_connect, on_disconnect) do not touch the broker.           *)
(***************************************************************************)
EXTENDS Integers, Sequences, FiniteSets, SequencesExt, SequenceTheorems, FiniteSetTheorems,
        FunctionTheorems, TLAPS

CONSTANTS
    Session,         \* connections over the broker's life
    Client,          \* client ids
    ClientOf,        \* session -> the client id its CONNECT carries
    Trusted,         \* client ids the authenticator accepts
    App,             \* the program that embeds the broker, calling Broker::publish
    Filter,          \* filters of SUBSCRIBE packets
    Shared,          \* those of the form $share/{group}/{topic}
    Invalid,         \* those the trie refuses ("#" not last)
    Topic,           \* topics of PUBLISH packets
    Reserved,        \* those that start with '$'
    Long,            \* topics and filters longer than max_topic_length
    Matching,        \* topic -> the normal filters that match it, in trie order
    SharedMatching,  \* topic -> sequence of nodes, each the set of its Shared filters
    CanPublish,      \* <<client, topic>> pairs the authenticator's acl allows
    CanSubscribe,    \* <<client, filter>> pairs it allows
    MaxSubs,         \* max_subscriptions_per_client, 0 for no limit
    MaxAlias,        \* max_topic_alias
    ChannelCap,      \* capacity of a session's mpsc channel (100)
    SysEvents,       \* sys_events_enabled
    IndexMod,        \* next_index is kept modulo a common multiple of all group sizes
    MaxPublish,      \* bound: session or App -> messages it publishes
    None

\* What the constants have to satisfy; assumed where the module is instantiated.
BrokerAssumption ==
    /\ ClientOf \in [Session -> Client]
    /\ App \notin Session /\ None \notin Session /\ None \notin Topic
    /\ Trusted \subseteq Client /\ Shared \subseteq Filter /\ SysEvents \in BOOLEAN
    /\ MaxSubs \in Nat /\ MaxAlias \in Nat /\ ChannelCap \in Nat \ {0} /\ IndexMod \in Nat \ {0}
    /\ MaxPublish \in [Session \cup {App} -> Nat]
    /\ None \notin [topic : Topic, src : Session, n : Nat] /\ None \notin Seq(Filter)

VARIABLES
    clients,               \* client id -> the registered session, or None
    client_subscriptions,  \* client id -> its tracked filters, or None (no entry)
    subs,                  \* filter -> the handles stored at its trie node or group
    next_index,            \* shared filter -> its group's round-robin counter
    channel,               \* session -> messages sent to it and not yet written out
    pc, todo, work,        \* task -> where it is, what is left, the packet in hand
    aliases,               \* session -> alias -> topic or None (v5)
    published,             \* task -> packets published so far
    acked,                 \* session -> filters granted to it and not unsubscribed since
    latest                 \* client id -> the last session registered for it

registry == <<clients, client_subscriptions>>
tries == <<subs, next_index>>
task == <<pc, todo, work>>
ghosts == <<acked, latest>>
broker_vars == <<registry, tries, channel, task, aliases, published, ghosts>>

Actor == Session \cup {App}
Alias == 1 .. MaxAlias
SysTopic(c, what) == <<what, c>>

NoWork == [filter |-> None, victim |-> None, msg |-> None, stage |-> "none", after |-> "none"]

Message(topic, src, n) == [topic |-> topic, src |-> src, n |-> n]

BrokerInit ==
    /\ clients = [c \in Client |-> None]
    /\ client_subscriptions = [c \in Client |-> None]
    /\ subs = [f \in Filter |-> << >>]
    /\ next_index = [f \in Shared |-> 0]
    /\ channel = [s \in Session |-> << >>]
    /\ pc = [a \in Actor |-> IF a = App THEN "loop" ELSE "new"]
    /\ todo = [a \in Actor |-> << >>]
    /\ work = [a \in Actor |-> NoWork]
    /\ aliases = [s \in Session |-> [a \in Alias |-> None]]
    /\ published = [a \in Actor |-> 0]
    /\ acked = [s \in Session |-> {}]
    /\ latest = [c \in Client |-> None]

Goto(a, where, left, w) ==
    /\ pc' = [pc EXCEPT ![a] = where]
    /\ todo' = [todo EXCEPT ![a] = left]
    /\ work' = [work EXCEPT ![a] = w]

\* The elements of a list at the positions `at`, in their order, and Vec::retain:
\* those that are in the set `keep`.
Rank(at, i) == Cardinality({j \in at : j <= i})
Selected(list, at) ==
    [k \in 1 .. Cardinality(at) |-> list[CHOOSE i \in at : Rank(at, i) = k]]
Retain(list, keep) == Selected(list, {i \in DOMAIN list : list[i] \in keep})

-----------------------------------------------------------------------------
(* Connecting, run_client_v4/v5 up to the loop.                            *)

\* The CONNECT packet is authenticated, and acknowledged or refused.
Authenticate(s) ==
    /\ pc[s] = "new"
    /\ Goto(s, IF ClientOf[s] \in Trusted THEN "accepted" ELSE "gone", << >>, NoWork)
    /\ UNCHANGED <<registry, tries, channel, aliases, published, ghosts>>

\* Under the clients lock the session replaces whatever is registered for its
\* client id, and takes over the tracked filters of the one it replaces to purge
\* them.
Connect(s) ==
    LET c == ClientOf[s]
        old == clients[c]
        tracked == client_subscriptions[c]
    IN /\ pc[s] = "accepted"
       /\ clients' = [clients EXCEPT ![c] = s]
       /\ client_subscriptions' =
            IF old = None THEN client_subscriptions
            ELSE [client_subscriptions EXCEPT ![c] = None]
       /\ Goto(s, "purge", IF old = None \/ tracked = None THEN << >> ELSE tracked,
               [NoWork EXCEPT !.victim = old, !.after = "connected"])
       /\ latest' = [latest EXCEPT ![c] = s]
       /\ UNCHANGED <<tries, channel, aliases, published, acked>>

\* A filter's handles; a group that became empty is dropped, with its counter.
SetHandles(f, hs) ==
    /\ subs' = [subs EXCEPT ![f] = hs]
    /\ next_index' = IF f \in Shared /\ hs = << >> THEN [next_index EXCEPT ![f] = 0]
                     ELSE next_index

\* Not the code: handles are compared by client id.
PurgeByClient(s) ==
    LET f == Head(todo[s]) IN
    /\ pc[s] = "purge" /\ todo[s] # << >>
    /\ SetHandles(f, Retain(subs[f], {h \in Session : ClientOf[h] # ClientOf[work[s].victim]}))
    /\ Goto(s, "purge", Tail(todo[s]), work[s])
    /\ UNCHANGED <<registry, channel, aliases, published, ghosts>>

\* remove_client_subscriptions, one filter: the victim's handles go, by pointer.
Purge(s) ==
    LET f == Head(todo[s]) IN
    /\ pc[s] = "purge" /\ todo[s] # << >>
    /\ SetHandles(f, Retain(subs[f], Session \ {work[s].victim}))
    /\ Goto(s, "purge", Tail(todo[s]), work[s])
    /\ UNCHANGED <<registry, channel, aliases, published, ghosts>>

\* publish_sys_connected after the purge of a takeover, publish_sys_disconnected
\* after that of a cleanup.
Announce(s) ==
    LET what == work[s].after
        after == IF what = "connected" THEN "loop" ELSE "gone"
    IN /\ pc[s] = "purge" /\ todo[s] = << >>
       /\ IF SysEvents
            THEN Goto(s, "route", << >>,
                      [NoWork EXCEPT !.msg = Message(SysTopic(ClientOf[s], what), App, 0),
                                     !.after = after])
            ELSE Goto(s, after, << >>, NoWork)
       /\ UNCHANGED <<registry, tries, channel, aliases, published, ghosts>>

-----------------------------------------------------------------------------
(* Routing: route_to_subscribers and Broker::route_message.                *)

\* A trie lookup answers with the first of the matching nodes that is among the
\* full ones, if there is one.
FirstNode(nodes, full) ==
    LET hits == SelectSeq(nodes, LAMBDA n : n \in full)
    IN IF hits = << >> THEN << >> ELSE <<Head(hits)>>

\* The handles of the normal subscribers are copied out of the trie.
Route(a) ==
    LET hit == FirstNode(Matching[work[a].msg.topic], {f \in Filter : subs[f] # << >>}) IN
    /\ pc[a] = "route"
    /\ Goto(a, "send", IF hit = << >> THEN << >> ELSE subs[hit[1]],
            [work[a] EXCEPT !.stage = "normal"])
    /\ UNCHANGED <<registry, tries, channel, aliases, published, ghosts>>

\* The receiver lives from Connect to the end of the client loop.
Receiving(s) == /\ pc[s] \notin {"new", "accepted", "closing", "gone"}
                /\ work[s].after \notin {"disconnected", "gone"}

\* Not the code: send().await, which waits for room.
SendWaits(a) ==
    LET s == Head(todo[a]) IN
    /\ pc[a] = "send" /\ todo[a] # << >>
    /\ Receiving(s) => Len(channel[s]) < ChannelCap
    /\ channel' = IF Receiving(s) THEN [channel EXCEPT ![s] = Append(@, work[a].msg)] ELSE channel
    /\ Goto(a, "send", Tail(todo[a]), work[a])
    /\ UNCHANGED <<registry, tries, aliases, published, ghosts>>

\* try_send: a message to a full or closed channel is dropped.
Send(a) ==
    LET s == Head(todo[a]) IN
    /\ pc[a] = "send" /\ todo[a] # << >>
    /\ channel' = IF Receiving(s) /\ Len(channel[s]) < ChannelCap
                  THEN [channel EXCEPT ![s] = Append(@, work[a].msg)]
                  ELSE channel
    /\ Goto(a, "send", Tail(todo[a]), work[a])
    /\ UNCHANGED <<registry, tries, aliases, published, ghosts>>

\* One subscriber of each group of the first shared node that holds any, by
\* round robin.
RouteShared(a) ==
    LET hit == FirstNode(SharedMatching[work[a].msg.topic],
                         {n \in SUBSET Shared : \E f \in n : subs[f] # << >>})
        groups == IF hit = << >> THEN {} ELSE {f \in hit[1] : subs[f] # << >>}
        Pick(f) == subs[f][(next_index[f] % Len(subs[f])) + 1]
    IN /\ pc[a] = "send" /\ todo[a] = << >> /\ work[a].stage = "normal"
       /\ next_index' = [f \in Shared |-> IF f \in groups THEN (next_index[f] + 1) % IndexMod
                                                          ELSE next_index[f]]
       /\ Goto(a, "send", [i \in 1 .. Cardinality(groups) |-> Pick(SetToSeq(groups)[i])],
               [work[a] EXCEPT !.stage = "shared"])
       /\ UNCHANGED <<registry, subs, channel, aliases, published, ghosts>>

RouteDone(a) ==
    /\ pc[a] = "send" /\ todo[a] = << >> /\ work[a].stage = "shared"
    /\ Goto(a, work[a].after, << >>, NoWork)
    /\ UNCHANGED <<registry, tries, channel, aliases, published, ghosts>>

-----------------------------------------------------------------------------
(* The client loop.                                                        *)

\* handle_subscribe, first half: unless the topic is too long or the limit is
\* reached (a failure code, and nothing changes), a slot is reserved under the
\* lock that the limit was checked under.
Tracked(c) == IF client_subscriptions[c] = None THEN << >> ELSE client_subscriptions[c]

\* Not the code: the limit is checked with <=.
SubscribeOver(s, f) ==
    LET c == ClientOf[s] IN
    /\ pc[s] = "loop"
    /\ f \notin Long
    /\ MaxSubs > 0 => Len(Tracked(c)) <= MaxSubs
    /\ client_subscriptions' = [client_subscriptions EXCEPT ![c] = Append(Tracked(c), f)]
    /\ Goto(s, "subscribe", << >>, [NoWork EXCEPT !.filter = f])
    /\ UNCHANGED <<clients, tries, channel, aliases, published, ghosts>>

Subscribe(s, f) ==
    LET c == ClientOf[s] IN
    /\ pc[s] = "loop"
    /\ f \notin Long
    /\ MaxSubs > 0 => Len(Tracked(c)) < MaxSubs
    /\ client_subscriptions' = [client_subscriptions EXCEPT ![c] = Append(Tracked(c), f)]
    /\ Goto(s, "subscribe", << >>, [NoWork EXCEPT !.filter = f])
    /\ UNCHANGED <<clients, tries, channel, aliases, published, ghosts>>

\* Second half: the handle goes into the trie and the SUBACK grants the filter.
\* SharedGroup::add keeps one handle per client id.
InsertHandle(s) ==
    LET f == work[s].filter
        present == f \in Shared /\ \E i \in DOMAIN subs[f] : ClientOf[subs[f][i]] = ClientOf[s]
    IN /\ pc[s] = "subscribe"
       /\ <<ClientOf[s], f>> \in CanSubscribe /\ f \notin Invalid
       /\ SetHandles(f, IF present THEN subs[f] ELSE Append(subs[f], s))
       /\ acked' = [acked EXCEPT ![s] = @ \cup {f}]
       /\ Goto(s, "loop", << >>, NoWork)
       /\ UNCHANGED <<registry, channel, aliases, published, latest>>

\* The list without the last occurrence of f.
WithoutLast(list, f) ==
    LET at == {i \in DOMAIN list : list[i] = f} IN
    IF at = {} THEN list ELSE Selected(list, DOMAIN list \ {CHOOSE i \in at : \A j \in at : j <= i})

\* Not the code: a refused subscription keeps its slot.
RollBackForgets(s) ==
    /\ pc[s] = "subscribe"
    /\ <<ClientOf[s], work[s].filter>> \notin CanSubscribe \/ work[s].filter \in Invalid
    /\ Goto(s, "loop", << >>, NoWork)
    /\ UNCHANGED <<registry, tries, channel, aliases, published, ghosts>>

\* ... or the ACL or the trie refuses and remove_last_subscription gives the
\* slot back.
RollBack(s) ==
    LET f == work[s].filter
        c == ClientOf[s]
    IN /\ pc[s] = "subscribe"
       /\ <<c, f>> \notin CanSubscribe \/ f \in Invalid
       /\ client_subscriptions' =
            IF client_subscriptions[c] = None THEN client_subscriptions
            ELSE [client_subscriptions EXCEPT ![c] = WithoutLast(@, f)]
       /\ Goto(s, "loop", << >>, NoWork)
       /\ UNCHANGED <<clients, tries, channel, aliases, published, ghosts>>

\* Not the code: one of several equal handles is removed.
UnsubscribeOne(s, f) ==
    /\ pc[s] = "loop"
    /\ SetHandles(f, WithoutLast(subs[f], s))
    /\ acked' = [acked EXCEPT ![s] = @ \ {f}]
    /\ Goto(s, "unsubscribe", << >>, [NoWork EXCEPT !.filter = f])
    /\ UNCHANGED <<registry, channel, aliases, published, latest>>

\* handle_unsubscribe: the handles of the client id leave the trie ...
Unsubscribe(s, f) ==
    /\ pc[s] = "loop"
    /\ SetHandles(f, Retain(subs[f], {h \in Session : ClientOf[h] # ClientOf[s]}))
    /\ acked' = [r \in Session |-> IF ClientOf[r] = ClientOf[s] THEN acked[r] \ {f} ELSE acked[r]]
    /\ Goto(s, "unsubscribe", << >>, [NoWork EXCEPT !.filter = f])
    /\ UNCHANGED <<registry, channel, aliases, published, latest>>

\* ... and then the filter leaves the tracking; the UNSUBACK follows.
Untrack(s) ==
    LET f == work[s].filter
        c == ClientOf[s]
    IN /\ pc[s] = "unsubscribe"
       /\ client_subscriptions' =
            IF client_subscriptions[c] = None THEN client_subscriptions
            ELSE [client_subscriptions EXCEPT ![c] = Retain(@, Filter \ {f})]
       /\ Goto(s, "loop", << >>, NoWork)
       /\ UNCHANGED <<clients, tries, channel, aliases, published, ghosts>>

\* The checks of handle_publish_v4/v5 on the resolved topic.
MayPublish(s, t) == t \notin Long /\ t \notin Reserved /\ <<ClientOf[s], t>> \in CanPublish

\* A message that passes them is routed before the loop goes on; one that does
\* not is dropped.
PublishResolved(s, t) ==
    IF MayPublish(s, t)
    THEN Goto(s, "route", << >>, [NoWork EXCEPT !.msg = Message(t, s, published[s] + 1),
                                                !.after = "loop"])
    ELSE UNCHANGED task

\* PUBLISH with a topic and no alias.
Publish(s, t) ==
    /\ pc[s] = "loop" /\ published[s] < MaxPublish[s]
    /\ published' = [published EXCEPT ![s] = @ + 1]
    /\ PublishResolved(s, t)
    /\ UNCHANGED <<registry, tries, channel, aliases, ghosts>>

\* v5 PUBLISH with a topic and an alias: the alias is bound, whatever becomes of
\* the message.  Alias 0 and aliases above the limit are ignored.
PublishBinding(s, t, a) ==
    /\ pc[s] = "loop" /\ published[s] < MaxPublish[s]
    /\ published' = [published EXCEPT ![s] = @ + 1]
    /\ aliases' = [aliases EXCEPT ![s][a] = t]
    /\ PublishResolved(s, t)
    /\ UNCHANGED <<registry, tries, channel, ghosts>>

\* Not the code: the topic an alias stands for is not checked again.
PublishByAliasUnchecked(s, a) ==
    /\ pc[s] = "loop" /\ published[s] < MaxPublish[s]
    /\ aliases[s][a] # None
    /\ published' = [published EXCEPT ![s] = @ + 1]
    /\ Goto(s, "route", << >>, [NoWork EXCEPT !.msg = Message(aliases[s][a], s, published[s] + 1),
                                              !.after = "loop"])
    /\ UNCHANGED <<registry, tries, channel, aliases, ghosts>>

\* v5 PUBLISH with an alias only; an unbound one is ignored.
PublishByAlias(s, a) ==
    /\ pc[s] = "loop" /\ published[s] < MaxPublish[s]
    /\ aliases[s][a] # None
    /\ published' = [published EXCEPT ![s] = @ + 1]
    /\ PublishResolved(s, aliases[s][a])
    /\ UNCHANGED <<registry, tries, channel, aliases, ghosts>>

\* Broker::publish: no checks.
AppPublish(t) ==
    /\ pc[App] = "loop" /\ published[App] < MaxPublish[App]
    /\ published' = [published EXCEPT ![App] = @ + 1]
    /\ Goto(App, "route", << >>, [NoWork EXCEPT !.msg = Message(t, App, published[App] + 1),
                                                !.after = "loop"])
    /\ UNCHANGED <<registry, tries, channel, aliases, ghosts>>

\* The loop writes out the next message of its channel.
Deliver(s) ==
    /\ pc[s] = "loop" /\ channel[s] # << >>
    /\ channel' = [channel EXCEPT ![s] = Tail(@)]
    /\ UNCHANGED <<registry, tries, task, aliases, published, ghosts>>

\* The loop ends: DISCONNECT, end of the connection, a protocol error or the
\* keep-alive timeout.  Its receiver is dropped with what it holds.
EndLoop(s) ==
    /\ pc[s] = "loop"
    /\ channel' = [channel EXCEPT ![s] = << >>]
    /\ Goto(s, "closing", << >>, NoWork)
    /\ UNCHANGED <<registry, tries, aliases, published, ghosts>>

\* Not the code: no pointer comparison; tracked filters that are not purged.
CleanupBlind(s) ==
    /\ pc[s] = "closing"
    /\ clients' = [clients EXCEPT ![ClientOf[s]] = None]
    /\ client_subscriptions' = [client_subscriptions EXCEPT ![ClientOf[s]] = None]
    /\ Goto(s, "purge", Tracked(ClientOf[s]),
            [NoWork EXCEPT !.victim = s, !.after = "disconnected"])
    /\ UNCHANGED <<tries, channel, aliases, published, ghosts>>

CleanupForgets(s) ==
    LET mine == clients[ClientOf[s]] = s IN
    /\ pc[s] = "closing"
    /\ clients' = IF mine THEN [clients EXCEPT ![ClientOf[s]] = None] ELSE clients
    /\ client_subscriptions' = IF mine THEN [client_subscriptions EXCEPT ![ClientOf[s]] = None]
                               ELSE client_subscriptions
    /\ Goto(s, "gone", << >>, NoWork)
    /\ UNCHANGED <<tries, channel, aliases, published, ghosts>>

\* cleanup_client: only the session that is still the registered one gives up
\* the client id and the tracking; without tracked filters there is nothing more.
Cleanup(s) ==
    LET c == ClientOf[s]
        mine == clients[c] = s
        tracked == client_subscriptions[c]
    IN /\ pc[s] = "closing"
       /\ clients' = IF mine THEN [clients EXCEPT ![c] = None] ELSE clients
       /\ client_subscriptions' = IF mine THEN [client_subscriptions EXCEPT ![c] = None]
                                  ELSE client_subscriptions
       /\ IF mine /\ tracked # None
            THEN Goto(s, "purge", tracked,
                      [NoWork EXCEPT !.victim = s, !.after = "disconnected"])
            ELSE Goto(s, "gone", << >>, NoWork)
       /\ UNCHANGED <<tries, channel, aliases, published, ghosts>>

-----------------------------------------------------------------------------
\* What the broker does by itself, once begun.  Writing to a client is not among
\* it: the client may not read.
Internal(a) ==
    \/ Route(a) \/ Send(a) \/ RouteShared(a) \/ RouteDone(a)
    \/ a \in Session /\ \/ Connect(a) \/ Purge(a) \/ Announce(a) \/ InsertHandle(a)
                        \/ RollBack(a) \/ Untrack(a) \/ Cleanup(a)

\* What clients, connections and the application do.
External ==
    \/ \E s \in Session : \/ Authenticate(s) \/ Deliver(s) \/ EndLoop(s)
                          \/ \E f \in Filter : Subscribe(s, f) \/ Unsubscribe(s, f)
                          \/ \E t \in Topic : Publish(s, t) \/ \E a \in Alias : PublishBinding(s, t, a)
                          \/ \E a \in Alias : PublishByAlias(s, a)
    \/ \E t \in Topic : AppPublish(t)

BrokerNext == (\E a \in Actor : Internal(a)) \/ External

BrokerSpec == BrokerInit /\ [][BrokerNext]_broker_vars

\* Tokio runs every task that is ready; nobody has to send anything.
BrokerFairSpec == BrokerSpec /\ \A a \in Actor : WF_broker_vars(Internal(a))

-----------------------------------------------------------------------------
(* Properties.                                                             *)

Handles(f) == Range(subs[f])
Count(list, x) == Cardinality({i \in DOMAIN list : list[i] = x})
InFlight(m) == (\E s \in Session : m \in Range(channel[s])) \/ (\E a \in Actor : work[a].msg = m)

\* Registered sessions, tracked filters and stored handles are of their sets, and
\* a channel (mpsc::channel(100)) never holds more than its capacity.
TypeOK ==
    /\ clients \in [Client -> Session \cup {None}]
    /\ \A c \in Client : Range(Tracked(c)) \subseteq Filter
    /\ \A f \in Filter : Handles(f) \subseteq Session
    /\ \A s \in Session : Len(channel[s]) <= ChannelCap
    /\ DOMAIN pc = Actor

\* The registry (`clients`) names the last session that connected under a client
\* id until exactly that session has cleaned up: neither a takeover nor the late
\* cleanup_client of a replaced session, in whatever order, unregisters it.
RegistryCurrent ==
    \A c \in Client :
        LET s == latest[c] IN
        clients[c] = IF s # None /\ (Receiving(s) \/ pc[s] = "closing") THEN s ELSE None

\* So far no other session has connected under the client id.
Fresh(s) == pc[s] \in {"new", "accepted"}
Unrivalled(s) == \A r \in Session \ {s} : ClientOf[r] = ClientOf[s] => Fresh(r)

\* A session that no other has replaced is served exactly the filters it was
\* granted: a SUBACK means the handle is in the trie, an unsubscription that no
\* copy of it is left, whatever other sessions subscribe, purge or clean up.  In a
\* shared group the handle of an earlier session of the client id, not yet purged
\* or left behind (HandlesOwned), keeps that of the new one out, so there it is said
\* of the first session of a client id.
ServedIffAcked ==
    \A s \in Session, f \in Filter :
        /\ pc[s] = "loop" /\ latest[ClientOf[s]] = s
        /\ f \in Shared => Unrivalled(s)
        => (f \in acked[s] <=> s \in Handles(f))

\* A session whose task has ended, before any other connected under its client id,
\* has no handle left.
NoneLeft == \A s \in Session, f \in Filter : pc[s] = "gone" /\ Unrivalled(s) => s \notin Handles(f)

\* Nor does such a session ever hold more handles than max_subscriptions_per_client.
HandleLimit ==
    \A s \in Session :
        MaxSubs > 0 /\ Unrivalled(s) =>
            Cardinality(UNION {{f} \X {i \in DOMAIN subs[f] : subs[f][i] = s} : f \in Filter})
                <= MaxSubs

\* As long as no other session has taken the client id over: between two packets
\* the tracked filters of a client id are what is stored in the tries for it, with
\* multiplicity, so that no failed or repeated subscription leaks a slot of
\* max_subscriptions_per_client or escapes the cleanup; and the cleanup leaves none.
SlotsExact ==
    /\ \A s \in Session, f \in Filter :
          LET tracked == Count(Tracked(ClientOf[s]), f)
              held == Count(subs[f], s)
          IN pc[s] = "loop" /\ Unrivalled(s) =>
                IF f \in Shared THEN held \in {0, 1} /\ (tracked > 0 <=> held = 1)
                ELSE tracked = held
    /\ NoneLeft /\ HandleLimit

\* What a client publishes, directly or through a topic alias bound by an earlier
\* packet, reaches no channel unless its topic passed every check of
\* handle_publish_v4/v5.
MessagesAllowed ==
    \A s \in Session, t \in Topic :
        (\E n \in 1 .. MaxPublish[s] : InFlight(Message(t, s, n))) => MayPublish(s, t)

\* Once the task of every session of a client id has ended, none of their handles is
\* left ("disconnect the old client first and clean up its subscriptions"): nobody is
\* there any more to remove it.
HandlesOwned ==
    \A s \in Session, f \in Filter :
        (\A r \in Session : ClientOf[r] = ClientOf[s] => pc[r] = "gone") => s \notin Handles(f)

Closing(s) == pc[s] = "closing"
Forgotten(s) == /\ pc[s] = "gone" /\ \A c \in Client : clients[c] # s
                /\ \A f \in Filter : s \notin Handles(f)

\* A session whose loop has ended is gone from the registry and the tries for
\* good after some time.
EndedIsForgotten == \A s \in Session : Closing(s) ~> []Forgotten(s)

Routing(a) == pc[a] = "route"
Routed(a) == pc[a] \in {"loop", "gone"}

\* Routing a message ends, although receivers may never read: a publisher cannot
\* be held up by a subscriber's full channel, its own included (try_send).
PublishReturns == \A a \in Actor : Routing(a) ~> Routed(a)

-----------------------------------------------------------------------------
(* Proofs.  Both invariants are proved from the places a task can be in and  *)
(* what its packet in hand says there.  A task whose receiver lives, or that *)
(* has yet to clean up, is Live; whether it is follows from its place and    *)
(* from what comes after.                                                    *)

Place == {"new", "accepted", "purge", "route", "send", "loop", "subscribe", "unsubscribe",
          "closing", "gone"}
After == {"none", "connected", "disconnected", "loop", "gone"}

LiveAt(p, after) ==
    \/ p = "closing"
    \/ p \notin {"new", "accepted", "gone"} /\ after \notin {"disconnected", "gone"}

\* What comes after is known exactly while a task purges or routes.
Agrees(p, after) ==
    /\ p = "purge" => after \in {"connected", "disconnected"}
    /\ p \in {"route", "send"} => after \in {"loop", "gone"}
    /\ p \notin {"purge", "route", "send"} => after = "none"

\* The messages that the checks let through: those of the broker and of the
\* application, and those a session may publish.
Letter == [topic : Topic \cup ({"connected", "disconnected"} \X Client), src : Actor, n : Nat]
Allowed == {m \in Letter : m.src \in Session => MayPublish(m.src, m.topic)}

Works == [filter : Filter \cup {None}, victim : Session \cup {None}, msg : Allowed \cup {None},
          stage : {"none", "normal", "shared"}, after : After]

\* A task routes a message that was let through.
TaskOK(p, w) ==
    /\ p \in Place /\ w \in Works /\ Agrees(p, w.after)
    /\ p \in {"route", "send"} => w.msg \in Allowed

TasksOK ==
    /\ pc \in [Actor -> Place] /\ work \in [Actor -> Works]
    /\ \A a \in Actor : TaskOK(pc[a], work[a])

RegistryOK ==
    /\ clients \in [Client -> Session \cup {None}]
    /\ latest \in [Client -> Session \cup {None}]
    /\ \A c \in Client : latest[c] # None => ClientOf[latest[c]] = c
    /\ \A c \in Client :
          clients[c] = IF latest[c] # None /\ LiveAt(pc[latest[c]], work[latest[c]].after)
                       THEN latest[c] ELSE None

MessagesOK ==
    /\ channel \in [Session -> Seq(Allowed)]
    /\ aliases \in [Session -> [Alias -> Topic \cup {None}]]
    /\ published \in [Actor -> Nat]

BrokerInv == TasksOK /\ RegistryOK /\ MessagesOK

\* The packet in hand, field by field.
LEMMA NoWorkOK ==
    /\ NoWork \in Works /\ NoWork.after = "none"
    /\ \A f \in Filter : [NoWork EXCEPT !.filter = f] \in Works
                         /\ [NoWork EXCEPT !.filter = f].after = "none"
    /\ \A v \in Session \cup {None}, x \in After :
          [NoWork EXCEPT !.victim = v, !.after = x] \in Works
          /\ [NoWork EXCEPT !.victim = v, !.after = x].after = x
    /\ \A m \in Allowed, x \in After :
          /\ [NoWork EXCEPT !.msg = m, !.after = x] \in Works
          /\ [NoWork EXCEPT !.msg = m, !.after = x].after = x
          /\ [NoWork EXCEPT !.msg = m, !.after = x].msg = m
BY DEF NoWork, Works, After

LEMMA StageOK ==
    ASSUME NEW w \in Works, NEW g \in {"none", "normal", "shared"}
    PROVE  /\ [w EXCEPT !.stage = g] \in Works
           /\ [w EXCEPT !.stage = g].after = w.after /\ [w EXCEPT !.stage = g].msg = w.msg
BY DEF Works

LEMMA InitBrokerInv == ASSUME BrokerAssumption PROVE BrokerInit => BrokerInv
<1> SUFFICES ASSUME BrokerInit PROVE BrokerInv
    OBVIOUS
<1>1. TasksOK
  <2>1. pc \in [Actor -> Place] /\ work \in [Actor -> Works]
      BY NoWorkOK DEF BrokerInit, Place
  <2>2. ASSUME NEW a \in Actor PROVE TaskOK(pc[a], work[a])
      BY NoWorkOK DEF BrokerInit, Place, TaskOK, Agrees
  <2> QED
      BY <2>1, <2>2 DEF TasksOK
<1>2. RegistryOK
    BY DEF BrokerInit, RegistryOK
<1>3. MessagesOK
    BY DEF BrokerInit, MessagesOK
<1> QED
    BY <1>1, <1>2, <1>3 DEF BrokerInv

\* A task that moves on keeps the tasks well formed.
LEMMA GotoTasks ==
    ASSUME TasksOK, NEW a \in Actor, NEW p, NEW l, NEW w, Goto(a, p, l, w), TaskOK(p, w)
    PROVE  TasksOK'
<1>1. p \in Place /\ w \in Works
    BY DEF TaskOK
<1>2. pc' \in [Actor -> Place] /\ work' \in [Actor -> Works]
    BY <1>1 DEF TasksOK, Goto
<1>3. ASSUME NEW b \in Actor PROVE TaskOK(pc'[b], work'[b])
  <2>1. CASE b = a
      BY <2>1 DEF TasksOK, Goto
  <2>2. CASE b # a
      BY <2>2 DEF TasksOK, Goto
  <2> QED
      BY <2>1, <2>2
<1> QED
    BY <1>2, <1>3 DEF TasksOK

\* A task that stays Live, or stays not Live, does not concern the registry.
LEMMA GotoRegistry ==
    ASSUME BrokerAssumption, BrokerInv, NEW a \in Actor, NEW p, NEW l, NEW w, Goto(a, p, l, w),
           LiveAt(p, w.after) <=> LiveAt(pc[a], work[a].after),
           clients' = clients, latest' = latest
    PROVE  RegistryOK'
<1>1. ASSUME NEW s \in Session
      PROVE  LiveAt(pc'[s], work'[s].after) <=> LiveAt(pc[s], work[s].after)
  <2>1. s \in Actor
      BY DEF Actor
  <2>2. CASE s = a
      BY <2>1, <2>2 DEF BrokerInv, TasksOK, Goto
  <2>3. CASE s # a
      BY <2>1, <2>3 DEF BrokerInv, TasksOK, Goto
  <2> QED
      BY <2>2, <2>3
<1>2. ASSUME NEW c \in Client
      PROVE  clients'[c] = IF latest'[c] # None /\ LiveAt(pc'[latest'[c]], work'[latest'[c]].after)
                           THEN latest'[c] ELSE None
    BY <1>1 DEF BrokerInv, RegistryOK
<1> QED
    BY <1>2 DEF BrokerInv, RegistryOK

\* A step of one task that leaves the registry and its own liveness alone.
LEMMA PlainStep ==
    ASSUME BrokerAssumption, BrokerInv, NEW a \in Actor, NEW p, NEW l, NEW w, Goto(a, p, l, w),
           TaskOK(p, w), LiveAt(p, w.after) <=> LiveAt(pc[a], work[a].after),
           clients' = clients, latest' = latest, MessagesOK'
    PROVE  BrokerInv'
BY GotoTasks, GotoRegistry DEF BrokerInv

LEMMA SameMessages ==
    ASSUME MessagesOK, channel' = channel, aliases' = aliases, published' = published
    PROVE  MessagesOK'
BY DEF MessagesOK

\* Messages a session, the broker or the application may put into the channels.
LEMMA LetterAllowed ==
    ASSUME BrokerAssumption
    PROVE  /\ \A s \in Session, t \in Topic, n \in Nat :
                 MayPublish(s, t) => Message(t, s, n) \in Allowed
           /\ \A t \in Topic, n \in Nat : Message(t, App, n) \in Allowed
           /\ \A c \in Client, what \in {"connected", "disconnected"} :
                 Message(SysTopic(c, what), App, 0) \in Allowed
BY DEF BrokerAssumption, Message, SysTopic, Allowed, Letter, Actor

LEMMA RoutingStep ==
    ASSUME BrokerAssumption, BrokerInv, NEW a \in Actor,
           Route(a) \/ Send(a) \/ RouteShared(a) \/ RouteDone(a)
    PROVE  BrokerInv'
<1> USE DEF registry, tries, ghosts
<1>0. TaskOK(pc[a], work[a]) /\ work[a] \in Works /\ MessagesOK
    BY DEF BrokerInv, TasksOK
<1>1. CASE Route(a)
  <2> DEFINE w == [work[a] EXCEPT !.stage = "normal"]
  <2>1. TaskOK("send", w) /\ (LiveAt("send", w.after) <=> LiveAt(pc[a], work[a].after))
    <3> HIDE DEF w
    <3>1. w \in Works /\ w.after = work[a].after /\ w.msg = work[a].msg
        BY <1>0, StageOK DEF w
    <3> QED
        BY <1>0, <1>1, <3>1 DEF Route, TaskOK, Place, Agrees, LiveAt
  <2>2. PICK l : Goto(a, "send", l, w)
      BY <1>1 DEF Route
  <2>3. MessagesOK' /\ clients' = clients /\ latest' = latest
      BY <1>0, <1>1, SameMessages DEF Route
  <2> QED
      BY <2>1, <2>2, <2>3, PlainStep
<1>2. CASE Send(a)
  <2>1. TaskOK("send", work[a]) /\ LiveAt("send", work[a].after) = LiveAt(pc[a], work[a].after)
      BY <1>0, <1>2 DEF Send
  <2>2. Goto(a, "send", Tail(todo[a]), work[a]) /\ clients' = clients /\ latest' = latest
      BY <1>2 DEF Send
  <2>3. work[a].msg \in Allowed
      BY <1>0, <1>2 DEF Send, TaskOK
  <2>4. channel' \in [Session -> Seq(Allowed)]
    <3>1. channel \in [Session -> Seq(Allowed)]
        BY <1>0 DEF MessagesOK
    <3>2. ASSUME NEW s PROVE [channel EXCEPT ![s] = Append(@, work[a].msg)] \in [Session -> Seq(Allowed)]
      <4>1. \A r \in Session : Append(channel[r], work[a].msg) \in Seq(Allowed)
          BY <2>3, <3>1, AppendProperties
      <4> DEFINE A(x) == Append(x, work[a].msg)
      <4>2. \A r \in Session : A(channel[r]) \in Seq(Allowed)
          BY <4>1
      <4> HIDE DEF A
      <4>3. [channel EXCEPT ![s] = A(channel[s])] \in [Session -> Seq(Allowed)]
          BY <3>1, <4>2
      <4> QED
          BY <4>3 DEF A
    <3> QED
        BY <1>2, <3>1, <3>2 DEF Send
  <2>5. MessagesOK'
      BY <1>0, <1>2, <2>4 DEF Send, MessagesOK
  <2> QED
      BY <2>1, <2>2, <2>5, PlainStep
<1>3. CASE RouteShared(a)
  <2> DEFINE w == [work[a] EXCEPT !.stage = "shared"]
  <2>1. TaskOK("send", w) /\ (LiveAt("send", w.after) <=> LiveAt(pc[a], work[a].after))
    <3> HIDE DEF w
    <3>1. w \in Works /\ w.after = work[a].after /\ w.msg = work[a].msg
        BY <1>0, StageOK DEF w
    <3> QED
        BY <1>0, <1>3, <3>1 DEF RouteShared, TaskOK, Place, Agrees, LiveAt
  <2>2. PICK l : Goto(a, "send", l, w)
      BY <1>3 DEF RouteShared
  <2>3. MessagesOK' /\ clients' = clients /\ latest' = latest
      BY <1>0, <1>3, SameMessages DEF RouteShared
  <2> QED
      BY <2>1, <2>2, <2>3, PlainStep
<1>4. CASE RouteDone(a)
  <2>1. pc[a] = "send" /\ work[a].after \in {"loop", "gone"}
      BY <1>0, <1>4 DEF RouteDone, TaskOK, Agrees
  <2>2. TaskOK(work[a].after, NoWork)
        /\ (LiveAt(work[a].after, NoWork.after) <=> LiveAt(pc[a], work[a].after))
      BY <2>1, NoWorkOK DEF TaskOK, Place, Agrees, LiveAt
  <2>3. Goto(a, work[a].after, << >>, NoWork) /\ clients' = clients /\ latest' = latest
      BY <1>4 DEF RouteDone
  <2>4. MessagesOK'
      BY <1>0, <1>4, SameMessages DEF RouteDone
  <2> QED
      BY <2>2, <2>3, <2>4, PlainStep
<1> QED
    BY <1>1, <1>2, <1>3, <1>4

\* Connect makes its session the latest of its client id, and Live.
LEMMA ConnectStep ==
    ASSUME BrokerAssumption, BrokerInv, NEW s \in Session, Connect(s)
    PROVE  BrokerInv'
<1> USE DEF registry, tries, ghosts
<1> DEFINE c == ClientOf[s]
           w == [NoWork EXCEPT !.victim = clients[c], !.after = "connected"]
<1>0. s \in Actor /\ c \in Client /\ s # None /\ clients[c] \in Session \cup {None}
    BY DEF Actor, BrokerAssumption, BrokerInv, RegistryOK
<1>1. w \in Works /\ w.after = "connected"
    BY <1>0, NoWorkOK DEF After
<1>2. TaskOK("purge", w) /\ LiveAt("purge", w.after)
    BY <1>1 DEF TaskOK, Place, Agrees, LiveAt
<1>3. /\ \E l : Goto(s, "purge", l, w)
      /\ clients' = [clients EXCEPT ![c] = s] /\ latest' = [latest EXCEPT ![c] = s]
      /\ MessagesOK'
    BY SameMessages DEF Connect, BrokerInv
<1> HIDE DEF w
<1>4. TasksOK'
    BY <1>0, <1>2, <1>3, GotoTasks DEF BrokerInv
<1>5. RegistryOK'
  <2>1. clients' \in [Client -> Session \cup {None}] /\ latest' \in [Client -> Session \cup {None}]
      BY <1>0, <1>3 DEF BrokerInv, RegistryOK
  <2>2. ASSUME NEW d \in Client
        PROVE  /\ latest'[d] # None => ClientOf[latest'[d]] = d
               /\ clients'[d] = IF latest'[d] # None /\ LiveAt(pc'[latest'[d]], work'[latest'[d]].after)
                                THEN latest'[d] ELSE None
    <3>1. CASE d = c
      <4>1. clients'[d] = s /\ latest'[d] = s
          BY <1>0, <1>3, <3>1 DEF BrokerInv, RegistryOK
      <4>2. pc'[s] = "purge" /\ work'[s] = w
          BY <1>0, <1>3 DEF BrokerInv, TasksOK, Goto
      <4> QED
          BY <1>0, <1>2, <3>1, <4>1, <4>2
    <3>2. CASE d # c
      <4>1. clients'[d] = clients[d] /\ latest'[d] = latest[d] /\ latest[d] \in Session \cup {None}
          BY <1>3, <3>2 DEF BrokerInv, RegistryOK
      <4>2. latest[d] # None => latest[d] # s /\ latest[d] \in Actor
          BY <3>2, <4>1 DEF BrokerInv, RegistryOK, Actor
      <4>3. latest[d] # None => pc'[latest[d]] = pc[latest[d]] /\ work'[latest[d]] = work[latest[d]]
          BY <1>3, <4>2 DEF BrokerInv, TasksOK, Goto
      <4> QED
          BY <4>1, <4>3 DEF BrokerInv, RegistryOK
    <3> QED
        BY <3>1, <3>2
  <2> QED
      BY <2>1, <2>2 DEF RegistryOK
<1> QED
    BY <1>3, <1>4, <1>5 DEF BrokerInv

\* Cleanup makes its session not Live, and unregisters it exactly when it is the
\* latest: by RegistryOK a closing session is registered only then.
LEMMA CleanupStep ==
    ASSUME BrokerAssumption, BrokerInv, NEW s \in Session, Cleanup(s)
    PROVE  BrokerInv'
<1> USE DEF registry, tries, ghosts
<1> DEFINE c == ClientOf[s]
           mine == clients[c] = s
           w == [NoWork EXCEPT !.victim = s, !.after = "disconnected"]
<1>0. s \in Actor /\ c \in Client /\ s # None /\ clients[c] \in Session \cup {None}
    BY DEF Actor, BrokerAssumption, BrokerInv, RegistryOK
<1>1. PICK p, v : /\ p \in {"purge", "gone"} /\ v = IF p = "purge" THEN w ELSE NoWork
                  /\ \E l : Goto(s, p, l, v)
    BY DEF Cleanup
<1>2. v \in Works /\ v.after = IF p = "purge" THEN "disconnected" ELSE "none"
  <2>0. s \in Session \cup {None} /\ "disconnected" \in After
      BY DEF After
  <2>1. w \in Works /\ w.after = "disconnected"
    <3>1. \A u \in Session \cup {None}, x \in After :
            LET r == [NoWork EXCEPT !.victim = u, !.after = x] IN r \in Works /\ r.after = x
        BY NoWorkOK
    <3> QED
        BY <2>0, <3>1
  <2> QED
      BY <1>1, <2>1, NoWorkOK
<1>3. TaskOK(p, v) /\ ~LiveAt(p, v.after)
    BY <1>1, <1>2 DEF TaskOK, Place, Agrees, LiveAt
<1>4. MessagesOK' /\ latest' = latest /\ pc[s] = "closing"
      /\ clients' = IF mine THEN [clients EXCEPT ![c] = None] ELSE clients
    BY SameMessages DEF Cleanup, BrokerInv
<1> HIDE DEF w
<1>5. TasksOK'
    BY <1>0, <1>1, <1>3, GotoTasks DEF BrokerInv
<1>6. RegistryOK'
  <2>1. clients' \in [Client -> Session \cup {None}] /\ latest' \in [Client -> Session \cup {None}]
      BY <1>0, <1>4 DEF BrokerInv, RegistryOK
  <2>2. mine <=> latest[c] = s
      BY <1>0, <1>4 DEF BrokerInv, RegistryOK, LiveAt
  <2>3. ASSUME NEW d \in Client
        PROVE  clients'[d] = IF latest'[d] # None /\ LiveAt(pc'[latest'[d]], work'[latest'[d]].after)
                             THEN latest'[d] ELSE None
    <3>1. CASE latest[d] = s
      <4>1. d = c
          BY <1>0, <3>1 DEF BrokerInv, RegistryOK
      <4>2. clients'[d] = None
          BY <1>0, <1>4, <2>2, <3>1, <4>1 DEF BrokerInv, RegistryOK
      <4>3. pc'[s] = p /\ work'[s] = v
          BY <1>0, <1>1 DEF BrokerInv, TasksOK, Goto
      <4> QED
          BY <1>3, <1>4, <3>1, <4>2, <4>3
    <3>2. CASE latest[d] # s
      <4>1. clients'[d] = clients[d] /\ latest[d] \in Session \cup {None}
          BY <1>0, <1>4, <2>2, <3>2 DEF BrokerInv, RegistryOK
      <4>2. latest[d] # None => pc'[latest[d]] = pc[latest[d]] /\ work'[latest[d]] = work[latest[d]]
          BY <1>0, <1>1, <3>2, <4>1 DEF BrokerInv, TasksOK, Goto, Actor
      <4> QED
          BY <1>4, <4>1, <4>2 DEF BrokerInv, RegistryOK
    <3> QED
        BY <3>1, <3>2
  <2> QED
      BY <1>4, <2>1, <2>3 DEF BrokerInv, RegistryOK
<1> QED
    BY <1>4, <1>5, <1>6 DEF BrokerInv

\* The other steps of a connection: none makes or ends a Live session.
LEMMA SessionStep ==
    ASSUME BrokerAssumption, BrokerInv, NEW s \in Session,
           \/ Authenticate(s) \/ Purge(s) \/ Announce(s) \/ InsertHandle(s) \/ RollBack(s)
           \/ Untrack(s) \/ EndLoop(s)
           \/ \E f \in Filter : Subscribe(s, f) \/ Unsubscribe(s, f)
    PROVE  BrokerInv'
<1> USE DEF registry, tries, ghosts
<1>0. s \in Actor /\ TaskOK(pc[s], work[s]) /\ MessagesOK /\ App # s
    BY DEF BrokerInv, TasksOK, Actor, BrokerAssumption
<1>1. CASE Authenticate(s)
  <2>1. PICK p \in {"accepted", "gone"} : Goto(s, p, << >>, NoWork)
      BY <1>1 DEF Authenticate
  <2>2. TaskOK(p, NoWork) /\ (LiveAt(p, NoWork.after) <=> LiveAt(pc[s], work[s].after))
      BY <1>1, <2>1, NoWorkOK DEF Authenticate, TaskOK, Place, Agrees, LiveAt
  <2>3. MessagesOK' /\ clients' = clients /\ latest' = latest
      BY <1>0, <1>1, SameMessages DEF Authenticate
  <2> QED
      BY <1>0, <2>1, <2>2, <2>3, PlainStep
<1>2. CASE Purge(s)
  <2>1. Goto(s, "purge", Tail(todo[s]), work[s]) /\ pc[s] = "purge"
      BY <1>2 DEF Purge
  <2>2. MessagesOK' /\ clients' = clients /\ latest' = latest
      BY <1>0, <1>2, SameMessages DEF Purge
  <2> QED
      BY <1>0, <2>1, <2>2, PlainStep
<1>3. CASE Announce(s)
  <2> DEFINE what == work[s].after
             after == IF what = "connected" THEN "loop" ELSE "gone"
             m == Message(SysTopic(ClientOf[s], what), App, 0)
             w == [NoWork EXCEPT !.msg = m, !.after = after]
  <2>1. what \in {"connected", "disconnected"} /\ pc[s] = "purge"
      BY <1>0, <1>3 DEF Announce, TaskOK, Agrees
  <2>2. m \in Allowed
    <3>1. ClientOf[s] \in Client
        BY DEF BrokerAssumption
    <3> QED
        BY <2>1, <3>1, LetterAllowed
  <2>3. w \in Works /\ w.after = after /\ w.msg = m
    <3>1. after \in After
        BY DEF After
    <3> HIDE DEF m, after
    <3> QED
        BY <2>2, <3>1, NoWorkOK
  <2> HIDE DEF m
  <2>4. MessagesOK' /\ clients' = clients /\ latest' = latest
      BY <1>0, <1>3, SameMessages DEF Announce
  <2>5. Goto(s, "route", << >>, w) \/ Goto(s, after, << >>, NoWork)
      BY <1>3 DEF Announce, m
  <2> HIDE DEF w
  <2>6. CASE Goto(s, "route", << >>, w)
    <3>1. TaskOK("route", w) /\ (LiveAt("route", w.after) <=> LiveAt(pc[s], what))
        BY <2>1, <2>2, <2>3 DEF TaskOK, Place, Agrees, LiveAt
    <3> QED
        BY <1>0, <2>4, <2>6, <3>1, PlainStep
  <2>7. CASE Goto(s, after, << >>, NoWork)
    <3>1. TaskOK(after, NoWork) /\ (LiveAt(after, NoWork.after) <=> LiveAt(pc[s], what))
        BY <2>1, NoWorkOK DEF TaskOK, Place, Agrees, LiveAt
    <3> QED
        BY <1>0, <2>4, <2>7, <3>1, PlainStep
  <2> QED
      BY <2>5, <2>6, <2>7
<1>4. CASE InsertHandle(s) \/ RollBack(s) \/ Untrack(s)
  <2>1. Goto(s, "loop", << >>, NoWork) /\ pc[s] \in {"subscribe", "unsubscribe"}
      BY <1>4 DEF InsertHandle, RollBack, Untrack
  <2>2. TaskOK("loop", NoWork) /\ (LiveAt("loop", NoWork.after) <=> LiveAt(pc[s], work[s].after))
      BY <1>0, <2>1, NoWorkOK DEF TaskOK, Place, Agrees, LiveAt
  <2>3. MessagesOK' /\ clients' = clients /\ latest' = latest
      BY <1>0, <1>4, SameMessages DEF InsertHandle, RollBack, Untrack
  <2> QED
      BY <1>0, <2>1, <2>2, <2>3, PlainStep
<1>5. CASE EndLoop(s)
  <2>1. Goto(s, "closing", << >>, NoWork) /\ pc[s] = "loop"
      BY <1>5 DEF EndLoop
  <2>2. TaskOK("closing", NoWork) /\ (LiveAt("closing", NoWork.after) <=> LiveAt(pc[s], work[s].after))
      BY <1>0, <2>1, NoWorkOK DEF TaskOK, Place, Agrees, LiveAt
  <2>3. << >> \in Seq(Allowed)
      OBVIOUS
  <2>4. MessagesOK' /\ clients' = clients /\ latest' = latest
      BY <1>0, <1>5, <2>3 DEF EndLoop, MessagesOK
  <2> QED
      BY <1>0, <2>1, <2>2, <2>4, PlainStep
<1>6. ASSUME NEW f \in Filter, Subscribe(s, f) \/ Unsubscribe(s, f) PROVE BrokerInv'
  <2> DEFINE w == [NoWork EXCEPT !.filter = f]
  <2>1. w \in Works /\ w.after = "none"
      BY NoWorkOK
  <2>2. PICK p \in {"subscribe", "unsubscribe"} : Goto(s, p, << >>, w)
      BY <1>6 DEF Subscribe, Unsubscribe
  <2>3. pc[s] = "loop" /\ clients' = clients /\ latest' = latest
      BY <1>6 DEF Subscribe, Unsubscribe
  <2>4. MessagesOK'
      BY <1>0, <1>6, SameMessages DEF Subscribe, Unsubscribe
  <2> HIDE DEF w
  <2>5. TaskOK(p, w) /\ (LiveAt(p, w.after) <=> LiveAt(pc[s], work[s].after))
      BY <1>0, <2>1, <2>3 DEF TaskOK, Place, Agrees, LiveAt
  <2> QED
      BY <1>0, <2>2, <2>3, <2>4, <2>5, PlainStep
<1> QED
    BY <1>1, <1>2, <1>3, <1>4, <1>5, <1>6

\* A message whose topic passes the checks is let through, one that does not is
\* dropped.
LEMMA ResolvedStep ==
    ASSUME BrokerAssumption, BrokerInv, NEW s \in Session, NEW t \in Topic, pc[s] = "loop",
           PublishResolved(s, t), MessagesOK', clients' = clients, latest' = latest
    PROVE  BrokerInv'
<1>0. s \in Actor /\ TaskOK(pc[s], work[s])
    BY DEF BrokerInv, TasksOK, Actor
<1> DEFINE m == Message(t, s, published[s] + 1)
           w == [NoWork EXCEPT !.msg = m, !.after = "loop"]
<1>1. CASE MayPublish(s, t)
  <2>1. m \in Allowed
    <3>1. published[s] + 1 \in Nat
        BY <1>0 DEF BrokerInv, MessagesOK
    <3> QED
        BY <1>1, <3>1, LetterAllowed
  <2>2. Goto(s, "route", << >>, w)
      BY <1>1 DEF PublishResolved
  <2> HIDE DEF m
  <2>3. w \in Works /\ w.after = "loop" /\ w.msg = m
      BY <2>1, NoWorkOK DEF After
  <2> HIDE DEF w
  <2>4. TaskOK("route", w) /\ (LiveAt("route", w.after) <=> LiveAt(pc[s], work[s].after))
      BY <1>0, <2>1, <2>3 DEF TaskOK, Place, Agrees, LiveAt
  <2> QED
      BY <1>0, <2>2, <2>4, PlainStep
<1>2. CASE ~MayPublish(s, t)
  <2>1. UNCHANGED <<pc, work>>
      BY <1>2 DEF PublishResolved, task
  <2>2. TasksOK' /\ RegistryOK'
      BY <2>1 DEF BrokerInv, TasksOK, RegistryOK
  <2> QED
      BY <2>2 DEF BrokerInv
<1> QED
    BY <1>1, <1>2

LEMMA PublishStep ==
    ASSUME BrokerAssumption, BrokerInv, NEW s \in Session,
           \/ \E t \in Topic : Publish(s, t) \/ \E a \in Alias : PublishBinding(s, t, a)
           \/ \E a \in Alias : PublishByAlias(s, a)
    PROVE  BrokerInv'
<1> USE DEF registry, tries, ghosts
<1>0. s \in Actor /\ MessagesOK
    BY DEF BrokerInv, Actor
<1>1. ASSUME NEW t \in Topic, Publish(s, t) PROVE BrokerInv'
  <2>1. MessagesOK'
      BY <1>0, <1>1 DEF Publish, MessagesOK
  <2> QED
      BY <1>1, <2>1, ResolvedStep DEF Publish
<1>2. ASSUME NEW t \in Topic, NEW a \in Alias, PublishBinding(s, t, a) PROVE BrokerInv'
  <2>1. MessagesOK'
      BY <1>0, <1>2 DEF PublishBinding, MessagesOK
  <2> QED
      BY <1>2, <2>1, ResolvedStep DEF PublishBinding
<1>3. ASSUME NEW a \in Alias, PublishByAlias(s, a) PROVE BrokerInv'
  <2>1. MessagesOK'
      BY <1>0, <1>3 DEF PublishByAlias, MessagesOK
  <2>2. aliases[s][a] \in Topic
      BY <1>0, <1>3 DEF PublishByAlias, MessagesOK
  <2> QED
      BY <1>3, <2>1, <2>2, ResolvedStep DEF PublishByAlias
<1> QED
    BY <1>1, <1>2, <1>3

LEMMA AppStep ==
    ASSUME BrokerAssumption, BrokerInv, NEW t \in Topic, AppPublish(t)
    PROVE  BrokerInv'
<1> USE DEF registry, tries, ghosts
<1>0. App \in Actor /\ TaskOK(pc[App], work[App]) /\ MessagesOK /\ pc[App] = "loop"
    BY DEF BrokerInv, TasksOK, Actor, AppPublish
<1> DEFINE m == Message(t, App, published[App] + 1)
           w == [NoWork EXCEPT !.msg = m, !.after = "loop"]
<1>1. m \in Allowed
  <2>1. published[App] + 1 \in Nat
      BY <1>0 DEF MessagesOK
  <2> QED
      BY <2>1, LetterAllowed
<1>2. Goto(App, "route", << >>, w) /\ clients' = clients /\ latest' = latest
    BY DEF AppPublish
<1>3. MessagesOK'
    BY <1>0 DEF AppPublish, MessagesOK
<1> HIDE DEF m
<1>4. w \in Works /\ w.after = "loop" /\ w.msg = m
    BY <1>1, NoWorkOK DEF After
<1> HIDE DEF w
<1>5. TaskOK("route", w) /\ (LiveAt("route", w.after) <=> LiveAt(pc[App], work[App].after))
    BY <1>0, <1>1, <1>4 DEF TaskOK, Place, Agrees, LiveAt
<1> QED
    BY <1>0, <1>2, <1>3, <1>5, PlainStep

LEMMA DeliverStep ==
    ASSUME BrokerInv, NEW s \in Session, Deliver(s)
    PROVE  BrokerInv'
<1> USE DEF registry, tries, task, ghosts
<1>1. TasksOK' /\ RegistryOK'
    BY DEF BrokerInv, TasksOK, RegistryOK, Deliver
<1>2. channel' \in [Session -> Seq(Allowed)]
  <2>1. channel \in [Session -> Seq(Allowed)] /\ channel[s] # << >>
      BY DEF BrokerInv, MessagesOK, Deliver
  <2>2. Tail(channel[s]) \in Seq(Allowed)
      BY <2>1, HeadTailProperties
  <2> QED
      BY <2>1, <2>2 DEF Deliver
<1>3. MessagesOK'
    BY <1>2 DEF BrokerInv, MessagesOK, Deliver
<1> QED
    BY <1>1, <1>3 DEF BrokerInv

LEMMA NextBrokerInv == ASSUME BrokerAssumption PROVE BrokerInv /\ [BrokerNext]_broker_vars => BrokerInv'
<1> SUFFICES ASSUME BrokerInv, [BrokerNext]_broker_vars PROVE BrokerInv'
    OBVIOUS
<1>1. ASSUME NEW a \in Actor, Internal(a) PROVE BrokerInv'
  <2>1. CASE Route(a) \/ Send(a) \/ RouteShared(a) \/ RouteDone(a)
      BY <2>1, RoutingStep
  <2>2. CASE a \in Session /\ Connect(a)
      BY <2>2, ConnectStep
  <2>3. CASE a \in Session /\ Cleanup(a)
      BY <2>3, CleanupStep
  <2>4. CASE a \in Session /\ (Purge(a) \/ Announce(a) \/ InsertHandle(a) \/ RollBack(a) \/ Untrack(a))
      BY <2>4, SessionStep
  <2> QED
      BY <1>1, <2>1, <2>2, <2>3, <2>4 DEF Internal
<1>2. CASE External
  <2>1. ASSUME NEW s \in Session,
               \/ Authenticate(s) \/ EndLoop(s)
               \/ \E f \in Filter : Subscribe(s, f) \/ Unsubscribe(s, f)
        PROVE  BrokerInv'
      BY <2>1, SessionStep
  <2>2. ASSUME NEW s \in Session, Deliver(s) PROVE BrokerInv'
      BY <2>2, DeliverStep
  <2>3. ASSUME NEW s \in Session,
               \/ \E t \in Topic : Publish(s, t) \/ \E a \in Alias : PublishBinding(s, t, a)
               \/ \E a \in Alias : PublishByAlias(s, a)
        PROVE  BrokerInv'
      BY <2>3, PublishStep
  <2>4. ASSUME NEW t \in Topic, AppPublish(t) PROVE BrokerInv'
      BY <2>4, AppStep
  <2> QED
      BY <1>2, <2>1, <2>2, <2>3, <2>4 DEF External
<1>3. CASE UNCHANGED broker_vars
  <2> USE <1>3 DEF broker_vars, registry, task, ghosts
  <2>1. TasksOK'
      BY DEF BrokerInv, TasksOK
  <2>2. RegistryOK'
      BY DEF BrokerInv, RegistryOK
  <2>3. MessagesOK'
      BY DEF BrokerInv, MessagesOK
  <2> QED
      BY <2>1, <2>2, <2>3 DEF BrokerInv
<1> QED
    BY <1>1, <1>2, <1>3 DEF BrokerNext

LEMMA Invariance == ASSUME BrokerAssumption PROVE BrokerSpec => []BrokerInv
BY InitBrokerInv, NextBrokerInv, PTL DEF BrokerSpec

\* Whatever the order in which connections take over a client id and clean up,
\* the registry (`clients`) names the last session that connected under it until
\* exactly that session has cleaned up: for any number of sessions and client ids.
THEOREM RegistryCorrect == ASSUME BrokerAssumption PROVE BrokerSpec => []RegistryCurrent
<1>1. BrokerInv => RegistryCurrent
  <2> SUFFICES ASSUME BrokerInv, NEW c \in Client
               PROVE  clients[c] = IF latest[c] # None /\ (Receiving(latest[c]) \/ pc[latest[c]] = "closing")
                                   THEN latest[c] ELSE None
      BY DEF RegistryCurrent
  <2>1. latest[c] # None => latest[c] \in Actor
      BY DEF BrokerInv, RegistryOK, Actor
  <2>2. latest[c] # None =>
            (LiveAt(pc[latest[c]], work[latest[c]].after)
                <=> Receiving(latest[c]) \/ pc[latest[c]] = "closing")
      BY DEF LiveAt, Receiving
  <2> QED
      BY <2>2 DEF BrokerInv, RegistryOK
<1> QED
    BY Invariance, <1>1, PTL

\* No client's message is in a channel, or on its way to one, unless its topic
\* passed the checks of handle_publish_v4/v5, whichever packet bound the alias it
\* came through: for any number of sessions, topics and aliases.
THEOREM MessagesCorrect == ASSUME BrokerAssumption PROVE BrokerSpec => []MessagesAllowed
<1>1. BrokerInv => MessagesAllowed
  <2> SUFFICES ASSUME BrokerInv, NEW s \in Session, NEW t \in Topic, NEW n \in 1 .. MaxPublish[s],
                      InFlight(Message(t, s, n))
               PROVE  MayPublish(s, t)
      BY DEF MessagesAllowed
  <2> DEFINE m == Message(t, s, n)
  <2>1. m.src = s /\ m.topic = t
      BY DEF Message
  <2>2. m # None
    <3>1. m \in [topic : Topic, src : Session, n : Nat]
        BY DEF Message, BrokerAssumption
    <3> QED
        BY <3>1 DEF BrokerAssumption
  <2>3. m \in Allowed
    <3>1. ASSUME NEW r \in Session, m \in Range(channel[r]) PROVE m \in Allowed
      <4> HIDE DEF m
      <4>1. channel[r] \in Seq(Allowed)
          BY DEF BrokerInv, MessagesOK
      <4>2. PICK i \in DOMAIN channel[r] : m = channel[r][i]
          BY <3>1 DEF Range
      <4> QED
          BY <4>1, <4>2
    <3>2. ASSUME NEW a \in Actor, work[a].msg = m PROVE m \in Allowed
      <4>1. work[a] \in Works
          BY DEF BrokerInv, TasksOK
      <4> QED
          BY <2>2, <3>2, <4>1 DEF Works
    <3> QED
        BY <3>1, <3>2 DEF InFlight
  <2> HIDE DEF m
  <2> QED
      BY <2>1, <2>3 DEF Allowed
<1> QED
    BY Invariance, <1>1, PTL

-----------------------------------------------------------------------------
(* Lists: positions, and how often an element occurs.                      *)

\* Positions of a list are finite in number.
LEMMA Positions ==
    ASSUME NEW S, NEW list \in Seq(S), NEW I \in SUBSET DOMAIN list
    PROVE  IsFiniteSet(I) /\ Cardinality(I) \in Nat /\ I \subseteq Int
<1>1. DOMAIN list = 1 .. Len(list) /\ Len(list) \in Nat
    OBVIOUS
<1>2. IsFiniteSet(DOMAIN list)
    BY <1>1, FS_Interval
<1> QED
    BY <1>1, <1>2, FS_Subset, FS_CardinalityType

\* The ranks of positions number them without gaps.
LEMMA Ranks ==
    ASSUME NEW S, NEW list \in Seq(S), NEW I \in SUBSET DOMAIN list
    PROVE  /\ \A i \in I : Rank(I, i) \in 1 .. Cardinality(I)
           /\ \A i, k \in I : Rank(I, i) = Rank(I, k) => i = k
           /\ \A k \in 1 .. Cardinality(I) : \E i \in I : Rank(I, i) = k
<1> DEFINE n == Cardinality(I)
           Upto(i) == {j \in I : j <= i}
           rank == [i \in I |-> Cardinality(Upto(i))]
<1>1. /\ IsFiniteSet(I) /\ n \in Nat /\ I \subseteq Int
      /\ IsFiniteSet(1 .. n) /\ Cardinality(1 .. n) = n
  <2>1. IsFiniteSet(I) /\ n \in Nat /\ I \subseteq Int
    BY Positions
  <2> HIDE DEF n
  <2>2. IsFiniteSet(1 .. n) /\ Cardinality(1 .. n) = IF 1 > n THEN 0 ELSE n - 1 + 1
    <3>1. 1 \in Int /\ n \in Int
      BY <2>1
    <3> QED
      BY <3>1, FS_Interval
  <2> QED
    BY <2>1, <2>2
<1>2. ASSUME NEW i \in I
      PROVE  /\ IsFiniteSet(Upto(i)) /\ i \in Upto(i) /\ Upto(i) \subseteq I
             /\ Cardinality(Upto(i)) \in 1 .. n
  <2>1. i \in Upto(i) /\ Upto(i) \in SUBSET I
    BY <1>1
  <2>2. IsFiniteSet(Upto(i)) /\ Cardinality(Upto(i)) <= n
    BY <1>1, <2>1, FS_Subset
  <2>3. Cardinality(Upto(i)) \in Nat /\ Cardinality(Upto(i)) # 0
    BY <2>1, <2>2, FS_CardinalityType, FS_EmptySet
  <2> QED
    BY <1>1, <2>1, <2>2, <2>3
<1>3. ASSUME NEW i \in I, NEW j \in I, Cardinality(Upto(i)) = Cardinality(Upto(j))
      PROVE  i = j
  <2>1. ASSUME NEW x \in I, NEW y \in I, x < y PROVE Cardinality(Upto(x)) # Cardinality(Upto(y))
    <3>1. Upto(x) \in SUBSET Upto(y) /\ y \in Upto(y) /\ y \notin Upto(x)
      BY <1>1, <2>1
    <3> QED
      BY <1>2, <3>1, FS_Subset
  <2> HIDE DEF Upto
  <2>2. ~(i < j) /\ ~(j < i) /\ i \in Int /\ j \in Int
    BY <1>1, <1>3, <2>1
  <2> QED
    BY <2>2
<1>4. rank \in Surjection(I, 1 .. n)
  <2>1. rank \in Injection(I, 1 .. n)
    <3> HIDE DEF Upto
    <3> QED
      BY <1>2, <1>3 DEF Injection, IsInjective
  <2> HIDE DEF rank
  <2> QED
    BY <1>1, <2>1, FS_Injection
<1>5. \A k \in 1 .. n : \E i \in I : Cardinality(Upto(i)) = k
  <2> HIDE DEF Upto
  <2> QED
    BY <1>4 DEF Surjection
<1> QED
    BY <1>2, <1>3, <1>5 DEF Rank

\* Of finitely many positions one is the last: the one of the highest rank.
LEMMA LastOne ==
    ASSUME NEW S, NEW list \in Seq(S), NEW I \in SUBSET DOMAIN list, I # {}
    PROVE  \E i \in I : \A j \in I : j <= i
<1>1. IsFiniteSet(I) /\ Cardinality(I) \in Nat /\ I \subseteq Int /\ Cardinality(I) # 0
    BY Positions, FS_EmptySet
<1>2. PICK i \in I : Rank(I, i) = Cardinality(I)
  <2>1. Cardinality(I) \in 1 .. Cardinality(I)
    BY <1>1
  <2> QED
    BY <2>1, Ranks
<1>3. {j \in I : j <= i} \in SUBSET I
    OBVIOUS
<1>4. {j \in I : j <= i} = I
    BY <1>1, <1>2, <1>3, FS_Subset DEF Rank
<1> QED
    BY <1>4

LEMMA SelectedIs ==
    ASSUME NEW S, NEW list \in Seq(S), NEW I \in SUBSET DOMAIN list
    PROVE  /\ Selected(list, I) \in Seq(S)
           /\ DOMAIN Selected(list, I) = 1 .. Cardinality(I)
           /\ \E b \in Bijection(1 .. Cardinality(I), I) :
                  \A k \in 1 .. Cardinality(I) : Selected(list, I)[k] = list[b[k]]
<1> DEFINE n == Cardinality(I)
           at == [k \in 1 .. n |-> CHOOSE i \in I : Rank(I, i) = k]
<1>1. /\ \A i \in I : Rank(I, i) \in 1 .. n
      /\ \A i, k \in I : Rank(I, i) = Rank(I, k) => i = k
      /\ \A k \in 1 .. n : \E i \in I : Rank(I, i) = k
      /\ n \in Nat
    BY Ranks, Positions
<1>2. ASSUME NEW k \in 1 .. n PROVE at[k] \in I /\ Rank(I, at[k]) = k
    BY <1>1
<1>3. at \in [1 .. n -> I]
    BY <1>2
<1>4. at \in Injection(1 .. n, I)
    BY <1>2, <1>3 DEF Injection, IsInjective
<1>5. ASSUME NEW i \in I PROVE \E k \in 1 .. n : at[k] = i
  <2>1. Rank(I, i) \in 1 .. n /\ at[Rank(I, i)] \in I /\ Rank(I, at[Rank(I, i)]) = Rank(I, i)
    BY <1>1, <1>2
  <2> QED
    BY <1>1, <2>1
<1>6. at \in Bijection(1 .. n, I)
    BY <1>3, <1>4, <1>5 DEF Bijection, Surjection
<1>7. Selected(list, I) = [k \in 1 .. n |-> list[at[k]]]
    BY DEF Selected
<1>8. \A k \in 1 .. n : list[at[k]] \in S
    BY <1>2
<1> HIDE DEF at, n
<1>9. Selected(list, I) \in Seq(S)
    BY <1>1, <1>7, <1>8
<1> QED
    BY <1>6, <1>7, <1>9 DEF n

LEMMA SelectedHas ==
    ASSUME NEW S, NEW list \in Seq(S), NEW I \in SUBSET DOMAIN list
    PROVE  /\ Selected(list, I) \in Seq(S) /\ Len(Selected(list, I)) <= Len(list)
           /\ \A x : (\E k \in DOMAIN Selected(list, I) : Selected(list, I)[k] = x) <=> \E i \in I : list[i] = x
           /\ \A x : Count(Selected(list, I), x) = Cardinality({i \in I : list[i] = x})
<1> DEFINE n == Cardinality(I)
           s == Selected(list, I)
<1>1. PICK b \in Bijection(1 .. n, I) : \A k \in 1 .. n : s[k] = list[b[k]]
    BY SelectedIs
<1>2. s \in Seq(S) /\ DOMAIN s = 1 .. n
    BY SelectedIs
<1>3. /\ b \in [1 .. n -> I] /\ \A i \in I : \E k \in 1 .. n : b[k] = i
      /\ \A j, k \in 1 .. n : b[j] = b[k] => j = k
    BY DEF Bijection, Injection, Surjection, IsInjective
<1> HIDE DEF s
<1>4. \A x : (\E k \in DOMAIN s : s[k] = x) <=> \E i \in I : list[i] = x
    BY <1>1, <1>2, <1>3
<1>5. ASSUME NEW x PROVE Count(s, x) = Cardinality({i \in I : list[i] = x})
  <2> DEFINE K == {k \in DOMAIN s : s[k] = x}
             J == {i \in I : list[i] = x}
             c == [k \in K |-> b[k]]
  <2>1. c \in [K -> J] /\ \A k \in K : c[k] = b[k]
    BY <1>1, <1>2, <1>3
  <2>2. c \in Injection(K, J)
    BY <1>2, <1>3, <2>1 DEF Injection, IsInjective
  <2>3. c \in Surjection(K, J)
    <3>1. ASSUME NEW i \in J PROVE \E k \in K : c[k] = i
      <4>1. PICK k \in 1 .. n : b[k] = i
        BY <1>3
      <4>2. k \in K
        BY <1>1, <1>2, <4>1
      <4> QED
        BY <2>1, <4>1, <4>2
    <3> QED
      BY <2>1, <3>1 DEF Surjection
  <2>4. IsFiniteSet(K)
    BY <1>2, Positions
  <2>5. ExistsBijection(K, J)
    BY <2>2, <2>3 DEF Bijection, ExistsBijection
  <2> HIDE DEF K, J
  <2>6. Cardinality(J) = Cardinality(K)
    BY <2>4, <2>5, FS_Bijection
  <2> QED
    BY <2>6 DEF Count, K, J
<1>6. Len(s) <= Len(list)
  <2>1. DOMAIN list = 1 .. Len(list) /\ Len(list) \in Nat /\ IsFiniteSet(DOMAIN list)
    BY Positions
  <2>2. Cardinality(1 .. Len(list)) = Len(list)
    <3>1. 1 \in Int /\ Len(list) \in Int /\ Len(list) >= 0
      OBVIOUS
    <3>2. Cardinality(1 .. Len(list)) = IF 1 > Len(list) THEN 0 ELSE Len(list) - 1 + 1
      BY <3>1, FS_Interval
    <3> QED
      BY <3>1, <3>2
  <2>3. n <= Cardinality(DOMAIN list) /\ n \in Nat
    BY <2>1, FS_Subset, Positions
  <2> HIDE DEF n
  <2>4. Len(s) = n
    BY <1>2, <2>3
  <2> QED
    BY <2>1, <2>2, <2>3, <2>4
<1> QED
    BY <1>2, <1>4, <1>5, <1>6 DEF s

LEMMA CountIs ==
    ASSUME NEW S, NEW list \in Seq(S)
    PROVE  \A x : /\ Count(list, x) \in Nat
                  /\ Count(list, x) # 0 <=> \E i \in DOMAIN list : list[i] = x
                  /\ Count(list, x) # 0 <=> x \in Range(list)
<1> TAKE x
<1> DEFINE I == {i \in DOMAIN list : list[i] = x}
<1>1. IsFiniteSet(I) /\ Cardinality(I) \in Nat
    BY Positions
<1>2. Cardinality(I) = 0 <=> I = {}
    BY <1>1, FS_EmptySet
<1> QED
    BY <1>1, <1>2 DEF Count, Range

LEMMA CountEmpty == \A x : Count(<< >>, x) = 0
<1> TAKE x
<1>1. {i \in DOMAIN << >> : << >>[i] = x} = {}
    OBVIOUS
<1> QED
    BY <1>1, FS_EmptySet DEF Count

LEMMA CountAppend ==
    ASSUME NEW S, NEW list \in Seq(S), NEW e \in S
    PROVE  /\ Append(list, e) \in Seq(S) /\ Len(Append(list, e)) = Len(list) + 1
           /\ \A x : Count(Append(list, e), x) = IF x = e THEN Count(list, x) + 1 ELSE Count(list, x)
<1> DEFINE a == Append(list, e)
<1>1. /\ a \in Seq(S) /\ Len(a) = Len(list) + 1
      /\ DOMAIN a = DOMAIN list \cup {Len(list) + 1}
      /\ \A i \in DOMAIN list : a[i] = list[i]
      /\ a[Len(list) + 1] = e /\ Len(list) + 1 \notin DOMAIN list
    OBVIOUS
<1> HIDE DEF a
<1>2. ASSUME NEW x PROVE Count(a, x) = IF x = e THEN Count(list, x) + 1 ELSE Count(list, x)
  <2> DEFINE I == {i \in DOMAIN list : list[i] = x}
  <2>1. IsFiniteSet(I) /\ Len(list) + 1 \notin I
    BY <1>1, Positions
  <2>2. {i \in DOMAIN a : a[i] = x} = IF x = e THEN I \cup {Len(list) + 1} ELSE I
    BY <1>1
  <2> HIDE DEF I
  <2>3. Cardinality(I \cup {Len(list) + 1}) = Cardinality(I) + 1
    BY <2>1, FS_AddElement
  <2> QED
    BY <2>2, <2>3 DEF Count, I
<1> QED
    BY <1>1, <1>2 DEF a

LEMMA CountTail ==
    ASSUME NEW S, NEW list \in Seq(S), list # << >>
    PROVE  /\ Head(list) \in S /\ Tail(list) \in Seq(S) /\ Len(Tail(list)) <= Len(list)
           /\ \A x : x # Head(list) => Count(Tail(list), x) = Count(list, x)
<1> DEFINE t == Tail(list)
<1>1. /\ Head(list) \in S /\ t \in Seq(S) /\ Len(t) <= Len(list)
      /\ \A i \in DOMAIN t : i + 1 \in DOMAIN list /\ t[i] = list[i + 1]
      /\ \A i \in DOMAIN list : list[i] # Head(list) => i - 1 \in DOMAIN t /\ t[i - 1] = list[i]
      /\ \A i, j \in DOMAIN t : i + 1 = j + 1 => i = j
      /\ \A i \in DOMAIN list : (i - 1) + 1 = i
    OBVIOUS
<1> HIDE DEF t
<1>2. ASSUME NEW x, x # Head(list) PROVE Count(t, x) = Count(list, x)
  <2> DEFINE K == {i \in DOMAIN t : t[i] = x}
             J == {i \in DOMAIN list : list[i] = x}
             b == [i \in K |-> i + 1]
  <2>1. IsFiniteSet(K)
    BY <1>1, Positions
  <2>2. b \in [K -> J] /\ \A i \in K : b[i] = i + 1
    BY <1>1
  <2>3. \A j \in J : j - 1 \in K /\ b[j - 1] = j
    BY <1>1, <1>2
  <2>4. b \in Injection(K, J)
    BY <1>1, <2>2 DEF Injection, IsInjective
  <2>5. b \in Surjection(K, J)
    BY <2>2, <2>3 DEF Surjection
  <2>6. ExistsBijection(K, J)
    BY <2>4, <2>5 DEF Bijection, ExistsBijection
  <2> HIDE DEF K, J
  <2>7. Cardinality(J) = Cardinality(K)
    BY <2>1, <2>6, FS_Bijection
  <2> QED
    BY <2>7 DEF Count, K, J
<1> QED
    BY <1>1, <1>2 DEF t

LEMMA CountRetain ==
    ASSUME NEW S, NEW list \in Seq(S), NEW keep
    PROVE  /\ Retain(list, keep) \in Seq(S) /\ Len(Retain(list, keep)) <= Len(list)
           /\ \A x : Count(Retain(list, keep), x) = IF x \in keep THEN Count(list, x) ELSE 0
<1> DEFINE I == {i \in DOMAIN list : list[i] \in keep}
<1>1. I \in SUBSET DOMAIN list
    OBVIOUS
<1>2. Retain(list, keep) = Selected(list, I)
    BY DEF Retain
<1>3. ASSUME NEW x PROVE {i \in I : list[i] = x} = IF x \in keep THEN {i \in DOMAIN list : list[i] = x} ELSE {}
    OBVIOUS
<1>4. ASSUME NEW x PROVE Count(Retain(list, keep), x) = IF x \in keep THEN Count(list, x) ELSE 0
  <2>1. Count(Retain(list, keep), x) = Cardinality({i \in I : list[i] = x})
    BY <1>1, <1>2, SelectedHas
  <2> QED
    BY <1>3, <2>1, FS_EmptySet DEF Count
<1> HIDE DEF I
<1> QED
    BY <1>1, <1>2, <1>4, SelectedHas

LEMMA CountWithoutLast ==
    ASSUME NEW S, NEW list \in Seq(S), NEW f
    PROVE  /\ WithoutLast(list, f) \in Seq(S) /\ Len(WithoutLast(list, f)) <= Len(list)
           /\ \A x : Count(WithoutLast(list, f), x) =
                        IF x = f /\ Count(list, f) # 0 THEN Count(list, x) - 1 ELSE Count(list, x)
<1> DEFINE at == {i \in DOMAIN list : list[i] = f}
           last == CHOOSE i \in at : \A j \in at : j <= i
           I == DOMAIN list \ {last}
<1>1. Count(list, f) # 0 <=> at # {}
    BY CountIs
<1>2. CASE at = {}
    BY <1>1, <1>2 DEF WithoutLast
<1>3. CASE at # {}
  <2>1. last \in at
    <3>1. \E i \in at : \A j \in at : j <= i
      BY <1>3, LastOne
    <3> QED
      BY <3>1
  <2>2. WithoutLast(list, f) = Selected(list, I) /\ I \in SUBSET DOMAIN list
    BY <1>3 DEF WithoutLast
  <2> HIDE DEF last
  <2>3. last \in DOMAIN list /\ list[last] = f
    BY <2>1
  <2>4. ASSUME NEW x
        PROVE  Count(WithoutLast(list, f), x) = IF x = f THEN Count(list, x) - 1 ELSE Count(list, x)
    <3> DEFINE J == {i \in DOMAIN list : list[i] = x}
    <3>1. IsFiniteSet(J)
      BY Positions
    <3>2. {i \in I : list[i] = x} = IF x = f THEN J \ {last} ELSE J
      BY <2>3
    <3>3. x = f => last \in J
      BY <2>3
    <3> HIDE DEF J
    <3>4. x = f => Cardinality(J \ {last}) = Cardinality(J) - 1
      BY <3>1, <3>3, FS_RemoveElement
    <3>5. Count(WithoutLast(list, f), x) = Cardinality({i \in I : list[i] = x})
      BY <2>2, SelectedHas
    <3> QED
      BY <3>2, <3>4, <3>5 DEF Count, J
  <2> HIDE DEF I
  <2>5. WithoutLast(list, f) \in Seq(S) /\ Len(WithoutLast(list, f)) <= Len(list)
    BY <2>2, SelectedHas
  <2> QED
    BY <1>1, <1>3, <2>4, <2>5
<1> QED
    BY <1>2, <1>3

-----------------------------------------------------------------------------
(* Subscriptions.  A session's handles and what it was granted change in   *)
(* the same step, so that they agree unless another task removes handles:  *)
(* a purge takes those of a session that is replaced or cleaning up.       *)
(* While nobody else has the client id, its tracked filters are the        *)
(* handles, but for the packet in hand; once the cleanup has taken them,   *)
(* the filters still to be purged are an upper bound.                      *)

Live(s) == LiveAt(pc[s], work[s].after)
Held(f, s) == Count(subs[f], s)

HandlesType ==
    /\ subs \in [Filter -> Seq(Session)] /\ acked \in [Session -> SUBSET Filter]
    /\ client_subscriptions \in [Client -> Seq(Filter) \cup {None}]
    /\ todo = [a \in Actor |-> todo[a]]
    /\ \A s \in Session :
          /\ pc[s] = "purge" => todo[s] \in Seq(Filter)
          /\ pc[s] \in {"subscribe", "unsubscribe"} => work[s].filter \in Filter

LimitOK ==
    MaxSubs > 0 => /\ \A c \in Client : Len(Tracked(c)) <= MaxSubs
                   /\ \A s \in Session : pc[s] = "purge" => Len(todo[s]) <= MaxSubs

\* Before its first session a client id has no tracking and no latest session.
FreshOK ==
    /\ \A c \in Client : (\A r \in Session : ClientOf[r] = c => Fresh(r)) => client_subscriptions[c] = None
    /\ \A c \in Client : latest[c] # None => ~Fresh(latest[c])
    /\ \A s \in Session : Live(s) => latest[ClientOf[s]] # None

\* A purge is of the session itself, which has left the loop, or of one that was
\* replaced.
VictimOK(r, v) ==
    /\ v = r <=> ~Live(r)
    /\ v # None => ~Fresh(v) /\ ClientOf[v] = ClientOf[r] /\ (v # r => latest[ClientOf[r]] # v)
PurgesOK == \A r \in Session : pc[r] = "purge" => VictimOK(r, work[r].victim)

\* How often f is tracked (t) and held (h), for a task at p with the filter g in
\* hand.
Fits(p, g, f, t, h) ==
    LET due == IF p = "subscribe" /\ g = f THEN t - 1 ELSE t IN
    IF p = "unsubscribe" /\ g = f THEN h = 0
    ELSE IF f \in Shared THEN due >= 0 /\ h \in {0, 1} /\ (due > 0 <=> h = 1)
    ELSE due = h

Left(s) == IF pc[s] = "purge" THEN todo[s] ELSE << >>

Unborn(s) == Fresh(s) => acked[s] = {} /\ \A f \in Filter : Held(f, s) = 0
Served(s) ==
    latest[ClientOf[s]] = s /\ Live(s) =>
        \A f \in Filter : (f \in Shared => Unrivalled(s)) => (f \in acked[s] <=> Held(f, s) # 0)
Slots(s) ==
    Unrivalled(s) =>
        \A f \in Filter :
            IF Live(s) THEN Fits(pc[s], work[s].filter, f, Count(Tracked(ClientOf[s]), f), Held(f, s))
            ELSE Held(f, s) <= Count(Left(s), f)
SessionOK(s) == Unborn(s) /\ Served(s) /\ Slots(s)

GrantInv == HandlesType /\ LimitOK /\ FreshOK /\ PurgesOK /\ \A s \in Session : SessionOK(s)

LEMMA InitGrantInv == ASSUME BrokerAssumption PROVE BrokerInit => GrantInv
<1> SUFFICES ASSUME BrokerInit PROVE GrantInv
    OBVIOUS
<1>1. \A s \in Session : s \in Actor /\ s # App /\ pc[s] = "new" /\ todo[s] = << >> /\ Fresh(s) /\ ~Live(s)
    BY DEF BrokerInit, BrokerAssumption, Actor, Fresh, Live, LiveAt
<1>2. \A f \in Filter, s \in Session : Held(f, s) = 0
    BY CountEmpty DEF BrokerInit, Held
<1>3. HandlesType
    BY <1>1 DEF BrokerInit, HandlesType
<1>4. LimitOK
    BY <1>1 DEF BrokerInit, BrokerAssumption, LimitOK, Tracked
<1>5. FreshOK /\ PurgesOK
    BY <1>1 DEF BrokerInit, FreshOK, PurgesOK
<1>6. \A s \in Session : Left(s) = << >>
    BY <1>1 DEF Left
<1>7. ASSUME NEW s \in Session PROVE SessionOK(s)
  <2>1. Unborn(s) /\ Served(s)
    BY <1>1, <1>2 DEF BrokerInit, Unborn, Served
  <2>2. Slots(s)
    BY <1>1, <1>2, <1>6, CountEmpty DEF Slots
  <2> QED
    BY <2>1, <2>2 DEF SessionOK
<1> QED
    BY <1>3, <1>4, <1>5, <1>7 DEF GrantInv

\* One task moves; nobody goes back to before it connected.
LEMMA Moved ==
    ASSUME BrokerInv, GrantInv, NEW a \in Actor, NEW p, NEW l, NEW w, Goto(a, p, l, w),
           p \in {"new", "accepted"} => pc[a] \in {"new", "accepted"}
    PROVE  /\ pc'[a] = p /\ todo'[a] = l /\ work'[a] = w
           /\ \A b \in Actor \ {a} : pc'[b] = pc[b] /\ todo'[b] = todo[b] /\ work'[b] = work[b]
           /\ todo' = [b \in Actor |-> todo'[b]]
           /\ \A r \in Session : Fresh(r)' => Fresh(r)
           /\ \A r \in Session \ {a} : (Fresh(r)' <=> Fresh(r)) /\ (Live(r)' <=> Live(r))
           /\ \A r \in Session : Unrivalled(r)' => Unrivalled(r)
<1>1. /\ pc'[a] = p /\ todo'[a] = l /\ work'[a] = w
      /\ \A b \in Actor \ {a} : pc'[b] = pc[b] /\ todo'[b] = todo[b] /\ work'[b] = work[b]
      /\ todo' = [b \in Actor |-> todo'[b]]
    BY DEF BrokerInv, TasksOK, GrantInv, HandlesType, Goto
<1>2. \A r \in Session : r \in Actor
    BY DEF Actor
<1>3. \A r \in Session : Fresh(r)' => Fresh(r)
    BY <1>1, <1>2 DEF Fresh
<1>4. \A r \in Session \ {a} : (Fresh(r)' <=> Fresh(r)) /\ (Live(r)' <=> Live(r))
    BY <1>1, <1>2 DEF Fresh, Live
<1>5. \A r \in Session : Unrivalled(r)' => Unrivalled(r)
    BY <1>3 DEF Unrivalled
<1> QED
    BY <1>1, <1>3, <1>4, <1>5

\* What a step of another task may do to a session.
LEMMA Untouched ==
    ASSUME NEW s \in Session, SessionOK(s),
           pc'[s] = pc[s], todo'[s] = todo[s], work'[s] = work[s],
           acked'[s] \subseteq acked[s],
           Fresh(s) => \A f \in Filter : Held(f, s)' = Held(f, s),
           latest'[ClientOf[s]] = s =>
               /\ latest[ClientOf[s]] = s
               /\ \A f \in Filter : \/ Held(f, s)' = Held(f, s) /\ (f \in acked'[s] <=> f \in acked[s])
                                    \/ Held(f, s)' = 0 /\ f \notin acked'[s],
           Unrivalled(s)' =>
               /\ Unrivalled(s) /\ Tracked(ClientOf[s])' = Tracked(ClientOf[s])
               /\ \A f \in Filter : Held(f, s)' = Held(f, s)
    PROVE  SessionOK(s)'
<1>1. Fresh(s)' = Fresh(s) /\ Live(s)' = Live(s) /\ Left(s)' = Left(s)
    BY DEF Fresh, Live, Left
<1>2. Unborn(s)'
    BY <1>1 DEF SessionOK, Unborn
<1>3. Served(s)'
    BY <1>1 DEF SessionOK, Served
<1>4. Slots(s)'
    BY <1>1 DEF SessionOK, Slots
<1> QED
    BY <1>2, <1>3, <1>4 DEF SessionOK

\* Steps that leave the subscriptions alone.
LEMMA FrameStep ==
    ASSUME BrokerAssumption, BrokerInv, GrantInv, NEW a \in Actor, NEW p, NEW l, NEW w, Goto(a, p, l, w),
           p \notin {"purge", "subscribe", "unsubscribe"}, pc[a] \notin {"subscribe", "unsubscribe"},
           pc[a] = "purge" => todo[a] = << >>,
           p \in {"new", "accepted"} => pc[a] \in {"new", "accepted"},
           LiveAt(p, w.after) <=> LiveAt(pc[a], work[a].after),
           subs' = subs, acked' = acked, client_subscriptions' = client_subscriptions, latest' = latest
    PROVE  GrantInv'
<1>1. /\ pc'[a] = p /\ todo'[a] = l /\ work'[a] = w
      /\ \A b \in Actor \ {a} : pc'[b] = pc[b] /\ todo'[b] = todo[b] /\ work'[b] = work[b]
      /\ todo' = [b \in Actor |-> todo'[b]]
      /\ \A r \in Session : Fresh(r)' => Fresh(r)
      /\ \A r \in Session : Unrivalled(r)' => Unrivalled(r)
    BY Moved
<1>2. \A r \in Session : r \in Actor /\ (Live(r)' <=> Live(r))
    BY <1>1 DEF Actor, Live
<1>3. \A c : Tracked(c)' = Tracked(c)
    BY DEF Tracked
<1>4. \A f, s : Held(f, s)' = Held(f, s)
    BY DEF Held
<1>5. HandlesType'
    BY <1>1, <1>2 DEF GrantInv, HandlesType
<1>6. LimitOK'
    BY <1>1, <1>2, <1>3 DEF GrantInv, LimitOK
<1>7. FreshOK'
    BY <1>1, <1>2 DEF GrantInv, FreshOK, BrokerInv, RegistryOK
<1>8. PurgesOK'
  <2>1. ASSUME NEW r \in Session, pc'[r] = "purge" PROVE VictimOK(r, work[r].victim)'
    <3>1. r # a /\ pc[r] = "purge" /\ work'[r] = work[r]
      BY <1>1, <1>2, <2>1
    <3>2. PICK v \in Session \cup {None} : v = work[r].victim
      BY <1>2 DEF BrokerInv, TasksOK, Works
    <3>3. VictimOK(r, v)
      BY <3>1, <3>2 DEF GrantInv, PurgesOK
    <3>4. VictimOK(r, v)'
      BY <1>1, <1>2, <3>3 DEF VictimOK
    <3> QED
      BY <3>1, <3>2, <3>4
  <2> QED
    BY <2>1 DEF PurgesOK
<1>9. ASSUME NEW s \in Session PROVE SessionOK(s)'
  <2>1. CASE s # a
    <3>1. pc'[s] = pc[s] /\ todo'[s] = todo[s] /\ work'[s] = work[s] /\ SessionOK(s)
      BY <1>1, <1>2, <2>1 DEF GrantInv
    <3> QED
      BY <1>1, <1>3, <1>4, <3>1, Untouched
  <2>2. CASE s = a
    <3>1. Unborn(s)'
      BY <1>1, <1>4 DEF GrantInv, SessionOK, Unborn
    <3>2. Served(s)'
      BY <1>1, <1>2, <1>4 DEF GrantInv, SessionOK, Served
    <3>3. Slots(s)'
      <4>1. Left(s)' = << >> /\ Left(s) = << >>
        BY <1>1, <2>2 DEF Left
      <4>2. \A f, t, h : Fits(pc[s], work[s].filter, f, t, h) <=> Fits(pc'[s], work'[s].filter, f, t, h)
        BY <1>1, <2>2 DEF Fits
      <4> QED
        BY <1>1, <1>2, <1>3, <1>4, <4>1, <4>2 DEF GrantInv, SessionOK, Slots
    <3> QED
      BY <3>1, <3>2, <3>3 DEF SessionOK
  <2> QED
    BY <2>1, <2>2
<1> QED
    BY <1>5, <1>6, <1>7, <1>8, <1>9 DEF GrantInv

\* A step that changes nothing of the subscriptions and of the tasks.
LEMMA StillGrants ==
    ASSUME GrantInv, UNCHANGED <<task, subs, acked, client_subscriptions, latest>>
    PROVE  GrantInv'
<1>1. pc' = pc /\ todo' = todo /\ work' = work
    BY DEF task
<1>2. \A s \in Session : (Fresh(s)' <=> Fresh(s)) /\ (Live(s)' <=> Live(s)) /\ (Unrivalled(s)' <=> Unrivalled(s))
    BY <1>1 DEF Fresh, Live, Unrivalled
<1>3. (\A c : Tracked(c)' = Tracked(c)) /\ (\A f, s : Held(f, s)' = Held(f, s)) /\ \A s : Left(s)' = Left(s)
    BY <1>1 DEF Tracked, Held, Left
<1>4. HandlesType' /\ LimitOK'
    BY <1>1, <1>3 DEF GrantInv, HandlesType, LimitOK
<1>5. FreshOK'
    BY <1>1 DEF GrantInv, FreshOK, Fresh, Live
<1>6. PurgesOK'
    BY <1>1 DEF GrantInv, PurgesOK, VictimOK, Fresh, Live
<1>7. ASSUME NEW s \in Session PROVE SessionOK(s)'
  <2>1. SessionOK(s)
    BY DEF GrantInv
  <2> QED
    BY <1>1, <1>2, <1>3, <2>1, Untouched
<1> QED
    BY <1>4, <1>5, <1>6, <1>7 DEF GrantInv

\* A connected session moves without connecting anew: the others' purges stay sound.
LEMMA QuietStep ==
    ASSUME BrokerInv, GrantInv, NEW s \in Session, NEW p, NEW l, NEW w, Goto(s, p, l, w),
           p \notin {"new", "accepted"}, ~Fresh(s), latest' = latest, Live(s)' => Live(s),
           \A c \in Client : c # ClientOf[s] => client_subscriptions'[c] = client_subscriptions[c],
           p = "purge" => VictimOK(s, w.victim)'
    PROVE  FreshOK' /\ PurgesOK'
<1>0. s \in Actor /\ \A r \in Session : r \in Actor
    BY DEF Actor
<1>1. /\ pc'[s] = p /\ todo'[s] = l /\ work'[s] = w
      /\ \A b \in Actor \ {s} : pc'[b] = pc[b] /\ work'[b] = work[b]
      /\ \A r \in Session : Fresh(r)' => Fresh(r)
      /\ \A r \in Session \ {s} : (Fresh(r)' <=> Fresh(r)) /\ (Live(r)' <=> Live(r))
    BY <1>0, Moved
<1>2. FreshOK'
  <2>1. ~Fresh(s)'
    BY <1>1 DEF Fresh
  <2>2. ASSUME NEW c \in Client, \A r \in Session : ClientOf[r] = c => Fresh(r)'
        PROVE  client_subscriptions'[c] = None
    BY <1>1, <2>1, <2>2 DEF GrantInv, FreshOK
  <2>3. \A c \in Client : latest'[c] # None => ~Fresh(latest[c])'
    BY <1>1 DEF GrantInv, FreshOK, BrokerInv, RegistryOK
  <2>4. \A r \in Session : Live(r)' => latest'[ClientOf[r]] # None
    BY <1>1 DEF GrantInv, FreshOK
  <2> QED
    BY <2>2, <2>3, <2>4 DEF FreshOK
<1>3. ASSUME NEW r \in Session, pc'[r] = "purge" PROVE VictimOK(r, work[r].victim)'
  <2>1. CASE r = s
    BY <1>1, <1>3, <2>1
  <2>2. CASE r # s
    <3>1. pc[r] = "purge" /\ work'[r] = work[r]
      BY <1>0, <1>1, <1>3, <2>2
    <3>2. PICK v \in Session \cup {None} : v = work[r].victim
      BY <1>0 DEF BrokerInv, TasksOK, Works
    <3>3. VictimOK(r, v)
      BY <3>1, <3>2 DEF GrantInv, PurgesOK
    <3>4. VictimOK(r, v)'
      BY <1>1, <2>2, <3>3 DEF VictimOK
    <3> QED
      BY <3>1, <3>2, <3>4
  <2> QED
    BY <2>1, <2>2
<1> QED
    BY <1>2, <1>3 DEF PurgesOK

\* A session takes its client id over from the one that was registered.
LEMMA ConnectGrants ==
    ASSUME BrokerAssumption, BrokerInv, GrantInv, NEW s \in Session, Connect(s)
    PROVE  GrantInv'
<1> USE DEF registry, tries, ghosts
<1> DEFINE c == ClientOf[s]
           old == clients[c]
           l == IF old = None \/ client_subscriptions[c] = None THEN << >> ELSE client_subscriptions[c]
           w == [NoWork EXCEPT !.victim = old, !.after = "connected"]
<1>0. /\ s \in Actor /\ c \in Client /\ s # None
      /\ \A r \in Session : r \in Actor /\ ClientOf[r] \in Client
    BY DEF Actor, BrokerAssumption
<1>1. /\ pc[s] = "accepted" /\ Goto(s, "purge", l, w)
      /\ subs' = subs /\ acked' = acked /\ latest' = [latest EXCEPT ![c] = s]
      /\ client_subscriptions' = IF old = None THEN client_subscriptions
                                 ELSE [client_subscriptions EXCEPT ![c] = None]
    BY DEF Connect
<1>2. w.victim = old /\ w.after = "connected"
    BY DEF NoWork
<1> HIDE DEF w
<1>3. /\ pc'[s] = "purge" /\ todo'[s] = l /\ work'[s] = w
      /\ \A b \in Actor \ {s} : pc'[b] = pc[b] /\ todo'[b] = todo[b] /\ work'[b] = work[b]
      /\ todo' = [b \in Actor |-> todo'[b]]
      /\ \A r \in Session : Fresh(r)' => Fresh(r)
      /\ \A r \in Session \ {s} : (Fresh(r)' <=> Fresh(r)) /\ (Live(r)' <=> Live(r))
      /\ \A r \in Session : Unrivalled(r)' => Unrivalled(r)
    BY <1>0, <1>1, Moved
<1>4. Fresh(s) /\ ~Fresh(s)' /\ Live(s)'
    BY <1>1, <1>2, <1>3 DEF Fresh, Live, LiveAt
<1>5. old # None => old \in Session /\ old # s /\ ~Fresh(old) /\ ClientOf[old] = c
    BY <1>0, <1>4 DEF GrantInv, FreshOK, BrokerInv, RegistryOK
<1>6. latest'[c] = s /\ \A d \in Client \ {c} : latest'[d] = latest[d]
    BY <1>0, <1>1 DEF BrokerInv, RegistryOK
<1>7. /\ client_subscriptions \in [Client -> Seq(Filter) \cup {None}] /\ l \in Seq(Filter)
      /\ l = << >> \/ l = Tracked(c)
    BY <1>0 DEF GrantInv, HandlesType, Tracked
<1>8. /\ client_subscriptions' \in [Client -> Seq(Filter) \cup {None}]
      /\ \A d \in Client \ {c} : client_subscriptions'[d] = client_subscriptions[d]
      /\ client_subscriptions'[c] = IF old = None THEN client_subscriptions[c] ELSE None
    BY <1>0, <1>1, <1>7
<1>9. \A d \in Client : Tracked(d)' = Tracked(d) \/ Tracked(d)' = << >>
    BY <1>8 DEF Tracked
<1> HIDE DEF l, old
<1>10. HandlesType'
    BY <1>0, <1>1, <1>3, <1>7, <1>8 DEF GrantInv, HandlesType
<1>11. LimitOK'
  <2>1. Len(<< >>) = 0 /\ MaxSubs \in Nat
    BY DEF BrokerAssumption
  <2> QED
    BY <1>0, <1>3, <1>7, <1>9, <2>1 DEF GrantInv, LimitOK
<1>12. FreshOK'
  <2>1. ASSUME NEW d \in Client, \A r \in Session : ClientOf[r] = d => Fresh(r)'
        PROVE  client_subscriptions'[d] = None
    BY <1>3, <1>4, <1>8, <2>1 DEF GrantInv, FreshOK
  <2>2. ASSUME NEW d \in Client, latest'[d] # None PROVE ~Fresh(latest[d])'
    <3>1. latest[d] \in Session \cup {None}
      BY DEF BrokerInv, RegistryOK
    <3> QED
      BY <1>3, <1>4, <1>6, <2>2, <3>1 DEF GrantInv, FreshOK
  <2>3. \A r \in Session : Live(r)' => latest'[ClientOf[r]] # None
    BY <1>0, <1>3, <1>6 DEF GrantInv, FreshOK
  <2> QED
    BY <2>1, <2>2, <2>3 DEF FreshOK
<1>13. ASSUME NEW r \in Session, pc'[r] = "purge" PROVE VictimOK(r, work[r].victim)'
  <2>1. CASE r = s
    <3>1. PICK v : v = old
      OBVIOUS
    <3>2. VictimOK(s, v)'
      BY <1>0, <1>3, <1>4, <1>5, <1>6, <3>1 DEF VictimOK
    <3> QED
      BY <1>2, <1>3, <2>1, <3>1, <3>2
  <2>2. CASE r # s
    <3>1. pc[r] = "purge" /\ work'[r] = work[r]
      BY <1>0, <1>3, <1>13, <2>2
    <3>2. PICK v \in Session \cup {None} : v = work[r].victim
      BY <1>0 DEF BrokerInv, TasksOK, Works
    <3>3. VictimOK(r, v)
      BY <3>1, <3>2 DEF GrantInv, PurgesOK
    <3>4. VictimOK(r, v)'
      BY <1>0, <1>3, <1>4, <1>6, <2>2, <3>3 DEF VictimOK
    <3> QED
      BY <3>1, <3>2, <3>4
  <2> QED
    BY <2>1, <2>2
<1>14. \A f, r : Held(f, r)' = Held(f, r)
    BY <1>1 DEF Held
<1>15. ASSUME NEW r \in Session PROVE SessionOK(r)'
  <2>1. CASE r # s
    <3>1. pc'[r] = pc[r] /\ todo'[r] = todo[r] /\ work'[r] = work[r] /\ SessionOK(r)
      BY <1>0, <1>3, <2>1 DEF GrantInv
    <3>2. latest'[ClientOf[r]] = r => latest[ClientOf[r]] = r
      BY <1>0, <1>6, <2>1
    <3>3. Unrivalled(r)' => Unrivalled(r) /\ Tracked(ClientOf[r])' = Tracked(ClientOf[r])
      <4>1. Unrivalled(r)' => ClientOf[r] # c
        BY <1>4, <2>1 DEF Unrivalled
      <4> QED
        BY <1>0, <1>3, <1>8, <4>1 DEF Tracked
    <3> QED
      BY <1>1, <1>14, <3>1, <3>2, <3>3, Untouched
  <2>2. CASE r = s
    <3>1. SessionOK(s) /\ acked[s] = {} /\ \A f \in Filter : Held(f, s) = 0
      BY <1>4 DEF GrantInv, SessionOK, Unborn
    <3>2. Unborn(s)' /\ Served(s)'
      BY <1>1, <1>4, <1>14, <3>1 DEF Unborn, Served
    <3>3. Slots(s)'
      <4>1. SUFFICES ASSUME Unrivalled(s)', NEW f \in Filter
                     PROVE  Fits(pc'[s], work'[s].filter, f, Count(Tracked(c)', f), 0)
        BY <1>4, <1>14, <3>1 DEF Slots
      <4>2. old = None
        BY <1>3, <1>5, <4>1 DEF Unrivalled
      <4>3. \A q \in Session : ClientOf[q] = c => Fresh(q)
        BY <1>3, <1>4, <4>1 DEF Unrivalled
      <4>4. Tracked(c)' = << >>
        BY <1>0, <1>8, <4>2, <4>3 DEF GrantInv, FreshOK, Tracked
      <4> QED
        BY <1>3, <4>4, CountEmpty DEF Fits
    <3> QED
      BY <2>2, <3>2, <3>3 DEF SessionOK
  <2> QED
    BY <2>1, <2>2
<1> QED
    BY <1>10, <1>11, <1>12, <1>13, <1>15 DEF GrantInv, PurgesOK

\* The cleanup of a session that was not replaced takes its tracked filters.
LEMMA CleanupGrants ==
    ASSUME BrokerAssumption, BrokerInv, GrantInv, NEW s \in Session, Cleanup(s)
    PROVE  GrantInv'
<1> USE DEF registry, tries, ghosts
<1> DEFINE c == ClientOf[s]
           mine == clients[c] = s
           tracked == client_subscriptions[c]
           purging == mine /\ tracked # None
           p == IF purging THEN "purge" ELSE "gone"
           l == IF purging THEN tracked ELSE << >>
           w == IF purging THEN [NoWork EXCEPT !.victim = s, !.after = "disconnected"] ELSE NoWork
<1>0. /\ s \in Actor /\ c \in Client /\ s # None
      /\ \A r \in Session : r \in Actor /\ ClientOf[r] \in Client
    BY DEF Actor, BrokerAssumption
<1>1. /\ pc[s] = "closing" /\ Goto(s, p, l, w)
      /\ subs' = subs /\ acked' = acked /\ latest' = latest
      /\ client_subscriptions' = IF mine THEN [client_subscriptions EXCEPT ![c] = None]
                                 ELSE client_subscriptions
    BY DEF Cleanup
<1>2. p = "purge" => w.victim = s /\ w.after = "disconnected"
    BY DEF NoWork
<1> HIDE DEF w
<1>3. /\ pc'[s] = p /\ todo'[s] = l /\ work'[s] = w
      /\ \A b \in Actor \ {s} : pc'[b] = pc[b] /\ todo'[b] = todo[b] /\ work'[b] = work[b]
      /\ todo' = [b \in Actor |-> todo'[b]]
      /\ \A r \in Session : Unrivalled(r)' => Unrivalled(r)
    BY <1>0, <1>1, Moved
<1>4. ~Fresh(s) /\ ~Fresh(s)' /\ Live(s) /\ ~Live(s)'
    BY <1>1, <1>2, <1>3 DEF Fresh, Live, LiveAt
<1>5. client_subscriptions \in [Client -> Seq(Filter) \cup {None}] /\ l \in Seq(Filter)
    BY <1>0 DEF GrantInv, HandlesType
<1>6. /\ client_subscriptions' \in [Client -> Seq(Filter) \cup {None}]
      /\ \A d \in Client \ {c} : client_subscriptions'[d] = client_subscriptions[d]
      /\ client_subscriptions'[c] = client_subscriptions[c] \/ client_subscriptions'[c] = None
    BY <1>0, <1>1, <1>5
<1>7. \A d \in Client : Tracked(d)' = Tracked(d) \/ Tracked(d)' = << >>
    BY <1>6 DEF Tracked
<1>8. p = "purge" => l = Tracked(c)
    BY DEF Tracked
<1>9. VictimOK(s, s)'
    BY <1>4 DEF VictimOK
<1>10. HandlesType'
    BY <1>0, <1>1, <1>3, <1>5, <1>6 DEF GrantInv, HandlesType
<1>11. LimitOK'
  <2>1. Len(<< >>) = 0 /\ MaxSubs \in Nat
    BY DEF BrokerAssumption
  <2> HIDE DEF l, p
  <2> QED
    BY <1>0, <1>3, <1>7, <1>8, <2>1 DEF GrantInv, LimitOK
<1>12. FreshOK' /\ PurgesOK'
  <2>1. PICK x, y, z : x = p /\ y = l /\ z = w
    OBVIOUS
  <2>3. Goto(s, x, y, z) /\ x \notin {"new", "accepted"} /\ (x = "purge" => VictimOK(s, z.victim)')
    BY <1>1, <1>2, <1>9, <2>1
  <2>2. \A d \in Client : d # ClientOf[s] => client_subscriptions'[d] = client_subscriptions[d]
    BY <1>6
  <2> HIDE DEF p, l
  <2> QED
    BY <1>1, <1>4, <2>2, <2>3, QuietStep
<1>14. \A f, r : Held(f, r)' = Held(f, r)
    BY <1>1 DEF Held
<1>15. ASSUME NEW r \in Session PROVE SessionOK(r)'
  <2>1. CASE r # s
    <3>1. pc'[r] = pc[r] /\ todo'[r] = todo[r] /\ work'[r] = work[r] /\ SessionOK(r)
      BY <1>0, <1>3, <2>1 DEF GrantInv
    <3>3. Unrivalled(r)' => Unrivalled(r) /\ Tracked(ClientOf[r])' = Tracked(ClientOf[r])
      <4>1. Unrivalled(r)' => ClientOf[r] # c
        BY <1>4, <2>1 DEF Unrivalled
      <4> QED
        BY <1>0, <1>3, <1>6, <4>1 DEF Tracked
    <3> QED
      BY <1>1, <1>14, <3>1, <3>3, Untouched
  <2>2. CASE r = s
    <3>1. Unborn(s)' /\ Served(s)'
      BY <1>4 DEF Unborn, Served
    <3>2. Slots(s)'
      <4>1. SUFFICES ASSUME Unrivalled(s)', NEW f \in Filter
                     PROVE  Held(f, s) <= Count(Left(s)', f)
        BY <1>4, <1>14 DEF Slots
      <4>2. latest[c] = s
        BY <1>0, <1>3, <1>4, <4>1 DEF GrantInv, FreshOK, Unrivalled, BrokerInv, RegistryOK
      <4>3. mine
        BY <1>0, <1>4, <4>2 DEF BrokerInv, RegistryOK, Live
      <4>4. Left(s)' = Tracked(c)
        BY <1>3, <4>3 DEF Left, Tracked
      <4>5. Fits("closing", work[s].filter, f, Count(Tracked(c), f), Held(f, s))
        BY <1>1, <1>3, <1>4, <4>1 DEF GrantInv, SessionOK, Slots
      <4>6. Count(Tracked(c), f) \in Nat /\ Held(f, s) \in Nat
        <5>1. Tracked(c) \in Seq(Filter) /\ subs[f] \in Seq(Session)
          BY <1>0 DEF GrantInv, HandlesType, Tracked
        <5> QED
          BY <5>1, CountIs DEF Held
      <4> QED
        BY <4>4, <4>5, <4>6 DEF Fits
    <3> QED
      BY <2>2, <3>1, <3>2 DEF SessionOK
  <2> QED
    BY <2>1, <2>2
<1> QED
    BY <1>10, <1>11, <1>12, <1>15 DEF GrantInv

\* How a step changes the handles of one filter.
LEMMA HandlesSet ==
    ASSUME HandlesType, NEW f \in Filter, NEW hs \in Seq(Session), SetHandles(f, hs)
    PROVE  /\ subs' \in [Filter -> Seq(Session)]
           /\ \A r : Held(f, r)' = Count(hs, r)
           /\ \A g \in Filter \ {f} : \A r : Held(g, r)' = Held(g, r)
<1>1. subs' = [subs EXCEPT ![f] = hs] /\ subs \in [Filter -> Seq(Session)]
    BY DEF SetHandles, HandlesType
<1>2. subs' \in [Filter -> Seq(Session)] /\ subs'[f] = hs /\ \A g \in Filter \ {f} : subs'[g] = subs[g]
    BY <1>1
<1> QED
    BY <1>2 DEF Held

\* A purge takes the handles of a session that is gone or replaced, filter by
\* filter.
LEMMA PurgeGrants ==
    ASSUME BrokerAssumption, BrokerInv, GrantInv, NEW s \in Session, Purge(s)
    PROVE  GrantInv'
<1> USE DEF registry, tries, ghosts
<1> PICK f : f = Head(todo[s])
    OBVIOUS
<1>0. /\ s \in Actor /\ \A r \in Session : r \in Actor /\ ClientOf[r] \in Client
    BY DEF Actor, BrokerAssumption
<1>1. /\ pc[s] = "purge" /\ todo[s] # << >> /\ Goto(s, "purge", Tail(todo[s]), work[s])
      /\ SetHandles(f, Retain(subs[f], Session \ {work[s].victim}))
      /\ acked' = acked /\ latest' = latest /\ client_subscriptions' = client_subscriptions
    BY DEF Purge
<1>2. todo[s] \in Seq(Filter) /\ subs \in [Filter -> Seq(Session)]
    BY <1>1 DEF GrantInv, HandlesType
<1>3. /\ f \in Filter /\ Tail(todo[s]) \in Seq(Filter) /\ Len(Tail(todo[s])) <= Len(todo[s])
      /\ \A g : g # f => Count(Tail(todo[s]), g) = Count(todo[s], g)
    BY <1>1, <1>2, CountTail
<1>4. PICK v \in Session \cup {None} : v = work[s].victim
    BY <1>0 DEF BrokerInv, TasksOK, Works
<1>5. VictimOK(s, v)
    BY <1>1, <1>4 DEF GrantInv, PurgesOK
<1>6. /\ Retain(subs[f], Session \ {v}) \in Seq(Session)
      /\ \A x : Count(Retain(subs[f], Session \ {v}), x) =
                   IF x \in Session \ {v} THEN Count(subs[f], x) ELSE 0
  <2>1. subs[f] \in Seq(Session)
    BY <1>2, <1>3
  <2> QED
    BY <2>1, CountRetain
<1>7. /\ subs' \in [Filter -> Seq(Session)]
      /\ \A g \in Filter, r \in Session : Held(g, r)' = IF g = f /\ r = v THEN 0 ELSE Held(g, r)
  <2>1. /\ subs' \in [Filter -> Seq(Session)]
        /\ \A r : Held(f, r)' = Count(Retain(subs[f], Session \ {v}), r)
        /\ \A g \in Filter \ {f} : \A r : Held(g, r)' = Held(g, r)
    BY <1>1, <1>3, <1>4, <1>6, HandlesSet DEF GrantInv
  <2> QED
    BY <1>6, <2>1 DEF Held
<1>8. /\ pc'[s] = "purge" /\ todo'[s] = Tail(todo[s]) /\ work'[s] = work[s]
      /\ \A b \in Actor \ {s} : pc'[b] = pc[b] /\ todo'[b] = todo[b] /\ work'[b] = work[b]
      /\ todo' = [b \in Actor |-> todo'[b]]
      /\ \A r \in Session : Fresh(r)' => Fresh(r)
      /\ \A r \in Session : Unrivalled(r)' => Unrivalled(r)
    BY <1>0, <1>1, Moved
<1>9. ~Fresh(s) /\ ~Fresh(s)' /\ (Live(s)' <=> Live(s))
    BY <1>1, <1>8 DEF Fresh, Live
<1>10. \A c : Tracked(c)' = Tracked(c)
    BY <1>1 DEF Tracked
<1>11. HandlesType'
    BY <1>0, <1>1, <1>3, <1>7, <1>8 DEF GrantInv, HandlesType
<1>12. LimitOK'
  <2>1. MaxSubs > 0 => Len(todo'[s]) <= MaxSubs
    <3>1. Len(todo[s]) \in Nat /\ Len(Tail(todo[s])) \in Nat /\ MaxSubs \in Nat
      BY <1>2, <1>3, LenProperties DEF BrokerAssumption
    <3> QED
      BY <1>1, <1>3, <1>8, <3>1 DEF GrantInv, LimitOK
  <2> QED
    BY <1>0, <1>8, <1>10, <2>1 DEF GrantInv, LimitOK
<1>13. FreshOK' /\ PurgesOK'
  <2>1. VictimOK(s, v)'
    BY <1>1, <1>5, <1>8, <1>9 DEF VictimOK
  <2>3. Goto(s, "purge", Tail(todo[s]), work[s]) /\ "purge" \notin {"new", "accepted"}
    BY <1>1
  <2>4. PICK w : w = work[s]
    OBVIOUS
  <2>5. Goto(s, "purge", Tail(todo[s]), w) /\ VictimOK(s, w.victim)'
    BY <1>4, <2>1, <2>3, <2>4
  <2> QED
    BY <1>1, <1>9, <2>3, <2>5, QuietStep
<1>14. ASSUME NEW r \in Session PROVE SessionOK(r)'
  <2>0. SessionOK(r)
    BY DEF GrantInv
  <2>1. CASE r # s /\ r # v
    <3>1. pc'[r] = pc[r] /\ todo'[r] = todo[r] /\ work'[r] = work[r]
      BY <1>0, <1>8, <2>1
    <3>2. \A g \in Filter : Held(g, r)' = Held(g, r)
      BY <1>7, <2>1
    <3> QED
      BY <1>1, <1>8, <1>10, <2>0, <3>1, <3>2, Untouched
  <2>2. CASE r # s /\ r = v
    <3>1. pc'[r] = pc[r] /\ todo'[r] = todo[r] /\ work'[r] = work[r]
      BY <1>0, <1>8, <2>2
    <3>2. r # None /\ ~Fresh(r) /\ latest'[ClientOf[r]] # r /\ ClientOf[r] = ClientOf[s]
      BY <1>1, <1>5, <2>2 DEF VictimOK, BrokerAssumption
    <3>3. ~Unrivalled(r)'
      BY <1>9, <2>2, <3>2 DEF Unrivalled
    <3> QED
      BY <1>1, <2>0, <3>1, <3>2, <3>3, Untouched
  <2>3. CASE r = s
    <3>1. Unborn(s)'
      BY <1>9 DEF Unborn
    <3>2. CASE v = s
      <4>1. ~Live(s) /\ ~Live(s)'
        BY <1>5, <1>9, <3>2 DEF VictimOK
      <4>2. Served(s)'
        BY <4>1 DEF Served
      <4>3. Slots(s)'
        <5>1. SUFFICES ASSUME Unrivalled(s)', NEW g \in Filter
                       PROVE  Held(g, s)' <= Count(Tail(todo[s]), g)
          BY <1>8, <4>1 DEF Slots, Left
        <5>2. Held(g, s) <= Count(todo[s], g)
          BY <1>1, <1>8, <2>0, <2>3, <4>1, <5>1 DEF SessionOK, Slots, Left
        <5>3. Count(Tail(todo[s]), g) \in Nat
          BY <1>3, CountIs
        <5> QED
          BY <1>3, <1>7, <3>2, <5>2, <5>3
      <4> QED
        BY <2>3, <3>1, <4>2, <4>3 DEF SessionOK
    <3>3. CASE v # s
      <4>1. Live(s) /\ Live(s)'
        BY <1>5, <1>9, <3>3 DEF VictimOK
      <4>2. \A g \in Filter : Held(g, s)' = Held(g, s)
        BY <1>7, <3>3
      <4>3. Served(s)'
        BY <1>1, <1>8, <2>0, <2>3, <4>1, <4>2 DEF SessionOK, Served
      <4>4. Slots(s)'
        BY <1>1, <1>8, <1>10, <2>0, <2>3, <4>1, <4>2 DEF SessionOK, Slots
      <4> QED
        BY <2>3, <3>1, <4>3, <4>4 DEF SessionOK
    <3> QED
      BY <3>2, <3>3
  <2> QED
    BY <2>1, <2>2, <2>3
<1> QED
    BY <1>11, <1>12, <1>13, <1>14 DEF GrantInv

\* A step of the client loop that changes its tracking, so that it fits the handles
\* held before.
LEMMA TrackStep ==
    ASSUME BrokerAssumption, BrokerInv, GrantInv, NEW s \in Session, NEW p, NEW l, NEW w, Goto(s, p, l, w),
           p \notin {"new", "accepted", "purge"}, ~Fresh(s), pc[s] # "purge",
           p \in {"subscribe", "unsubscribe"} => w.filter \in Filter,
           Live(s), LiveAt(p, w.after), subs' = subs, acked' = acked, latest' = latest,
           client_subscriptions' \in [Client -> Seq(Filter) \cup {None}],
           \A d \in Client \ {ClientOf[s]} : client_subscriptions'[d] = client_subscriptions[d],
           MaxSubs > 0 => Len(Tracked(ClientOf[s])') <= MaxSubs,
           \A f \in Filter : \A h \in Nat :
               Fits(pc[s], work[s].filter, f, Count(Tracked(ClientOf[s]), f), h) =>
                   Fits(p, w.filter, f, Count(Tracked(ClientOf[s])', f), h)
    PROVE  GrantInv'
<1> DEFINE c == ClientOf[s]
<1>0. /\ s \in Actor /\ c \in Client
      /\ \A r \in Session : r \in Actor /\ ClientOf[r] \in Client
    BY DEF Actor, BrokerAssumption
<1>1. /\ pc'[s] = p /\ todo'[s] = l /\ work'[s] = w
      /\ \A b \in Actor \ {s} : pc'[b] = pc[b] /\ todo'[b] = todo[b] /\ work'[b] = work[b]
      /\ todo' = [b \in Actor |-> todo'[b]]
      /\ \A r \in Session : Unrivalled(r)' => Unrivalled(r)
    BY <1>0, Moved
<1>2. ~Fresh(s)' /\ Live(s)'
    BY <1>1 DEF Fresh, Live
<1>3. \A d \in Client \ {c} : Tracked(d)' = Tracked(d)
    BY DEF Tracked
<1>4. HandlesType'
    BY <1>0, <1>1 DEF GrantInv, HandlesType
<1>5. LimitOK'
    BY <1>0, <1>1, <1>3 DEF GrantInv, LimitOK
<1>6. FreshOK' /\ PurgesOK'
    BY <1>0, <1>2, QuietStep
<1>7. \A f, r : Held(f, r)' = Held(f, r)
    BY DEF Held
<1>8. ASSUME NEW r \in Session PROVE SessionOK(r)'
  <2>0. SessionOK(r)
    BY DEF GrantInv
  <2>1. CASE r # s
    <3>1. pc'[r] = pc[r] /\ todo'[r] = todo[r] /\ work'[r] = work[r]
      BY <1>0, <1>1, <2>1
    <3>2. Unrivalled(r)' => Unrivalled(r) /\ Tracked(ClientOf[r])' = Tracked(ClientOf[r])
      <4>1. Unrivalled(r)' => ClientOf[r] # c
        BY <1>2, <2>1 DEF Unrivalled
      <4> QED
        BY <1>0, <1>1, <1>3, <4>1
    <3> QED
      BY <1>7, <2>0, <3>1, <3>2, Untouched
  <2>2. CASE r = s
    <3>1. Unborn(s)'
      BY <1>2 DEF Unborn
    <3>2. Served(s)'
      BY <1>1, <1>2, <1>7, <2>0, <2>2 DEF SessionOK, Served
    <3>3. Slots(s)'
      <4>1. SUFFICES ASSUME Unrivalled(s)', NEW f \in Filter
                     PROVE  Fits(p, w.filter, f, Count(Tracked(c)', f), Held(f, s))
        BY <1>1, <1>2, <1>7 DEF Slots
      <4>2. Held(f, s) \in Nat
        BY CountIs DEF Held, GrantInv, HandlesType
      <4> QED
        BY <1>1, <2>0, <2>2, <4>1, <4>2 DEF SessionOK, Slots
    <3> QED
      BY <2>2, <3>1, <3>2, <3>3 DEF SessionOK
  <2> QED
    BY <2>1, <2>2
<1> QED
    BY <1>4, <1>5, <1>6, <1>8 DEF GrantInv

\* SUBSCRIBE, first half: the slot.
LEMMA SubscribeGrants ==
    ASSUME BrokerAssumption, BrokerInv, GrantInv, NEW s \in Session, NEW f \in Filter, Subscribe(s, f)
    PROVE  GrantInv'
<1> USE DEF registry, tries, ghosts
<1> DEFINE c == ClientOf[s]
           w == [NoWork EXCEPT !.filter = f]
<1>0. s \in Actor /\ c \in Client
    BY DEF Actor, BrokerAssumption
<1>1. /\ pc[s] = "loop" /\ Goto(s, "subscribe", << >>, w)
      /\ MaxSubs > 0 => Len(Tracked(c)) < MaxSubs
      /\ client_subscriptions' = [client_subscriptions EXCEPT ![c] = Append(Tracked(c), f)]
      /\ subs' = subs /\ acked' = acked /\ latest' = latest
    BY DEF Subscribe
<1>2. w.filter = f /\ w.after = "none"
    BY DEF NoWork
<1> HIDE DEF w
<1>3. ~Fresh(s) /\ Live(s) /\ LiveAt("subscribe", w.after)
  <2>1. work[s].after = "none"
    BY <1>0, <1>1 DEF BrokerInv, TasksOK, TaskOK, Agrees
  <2> QED
    BY <1>1, <1>2, <2>1 DEF Fresh, Live, LiveAt
<1>4. Tracked(c) \in Seq(Filter) /\ client_subscriptions \in [Client -> Seq(Filter) \cup {None}]
    BY <1>0 DEF GrantInv, HandlesType, Tracked
<1>5. /\ Append(Tracked(c), f) \in Seq(Filter) /\ Len(Append(Tracked(c), f)) = Len(Tracked(c)) + 1
      /\ \A x : Count(Append(Tracked(c), f), x) =
                   IF x = f THEN Count(Tracked(c), x) + 1 ELSE Count(Tracked(c), x)
    BY <1>4, CountAppend
<1>6. /\ client_subscriptions' \in [Client -> Seq(Filter) \cup {None}]
      /\ \A d \in Client \ {c} : client_subscriptions'[d] = client_subscriptions[d]
      /\ Tracked(c)' = Append(Tracked(c), f)
  <2> DEFINE new == Append(Tracked(c), f)
  <2>1. new # None /\ new \in Seq(Filter)
    BY <1>5 DEF BrokerAssumption
  <2>2. client_subscriptions' = [client_subscriptions EXCEPT ![c] = new]
    BY <1>1
  <2> HIDE DEF new
  <2>3. /\ client_subscriptions' \in [Client -> Seq(Filter) \cup {None}] /\ client_subscriptions'[c] = new
        /\ \A d \in Client \ {c} : client_subscriptions'[d] = client_subscriptions[d]
    BY <1>0, <1>4, <2>1, <2>2
  <2> QED
    BY <2>1, <2>3 DEF Tracked, new
<1>7. MaxSubs > 0 => Len(Tracked(c)') <= MaxSubs
  <2>1. Len(Tracked(c)) \in Nat /\ MaxSubs \in Nat
    BY <1>4, LenProperties DEF BrokerAssumption
  <2> QED
    BY <1>1, <1>5, <1>6, <2>1
<1>8. ASSUME NEW g \in Filter, NEW h \in Nat, Fits(pc[s], work[s].filter, g, Count(Tracked(c), g), h)
      PROVE  Fits("subscribe", w.filter, g, Count(Tracked(c)', g), h)
  <2>1. Count(Tracked(c), g) \in Nat
    BY <1>4, CountIs
  <2>2. Count(Tracked(c)', g) = IF g = f THEN Count(Tracked(c), g) + 1 ELSE Count(Tracked(c), g)
    BY <1>5, <1>6
  <2> QED
    BY <1>1, <1>2, <1>8, <2>1, <2>2 DEF Fits
<1> QED
    BY <1>1, <1>2, <1>3, <1>6, <1>7, <1>8, TrackStep

\* A refusal gives the slot back.
LEMMA RollBackGrants ==
    ASSUME BrokerAssumption, BrokerInv, GrantInv, NEW s \in Session, RollBack(s)
    PROVE  GrantInv'
<1> USE DEF registry, tries, ghosts
<1> DEFINE c == ClientOf[s]
<1> PICK f : f = work[s].filter
    OBVIOUS
<1>0. s \in Actor /\ c \in Client
    BY DEF Actor, BrokerAssumption
<1>1. /\ pc[s] = "subscribe" /\ Goto(s, "loop", << >>, NoWork)
      /\ client_subscriptions' = IF client_subscriptions[c] = None THEN client_subscriptions
                                 ELSE [client_subscriptions EXCEPT ![c] = WithoutLast(client_subscriptions[c], f)]
      /\ subs' = subs /\ acked' = acked /\ latest' = latest
    BY DEF RollBack
<1>2. f \in Filter
    BY <1>1 DEF GrantInv, HandlesType
<1>3. ~Fresh(s) /\ Live(s) /\ LiveAt("loop", NoWork.after)
  <2>1. work[s].after = "none" /\ NoWork.after = "none"
    BY <1>0, <1>1 DEF BrokerInv, TasksOK, TaskOK, Agrees, NoWork
  <2> QED
    BY <1>1, <2>1 DEF Fresh, Live, LiveAt
<1>4. Tracked(c) \in Seq(Filter) /\ client_subscriptions \in [Client -> Seq(Filter) \cup {None}]
    BY <1>0 DEF GrantInv, HandlesType, Tracked
<1>5. /\ WithoutLast(Tracked(c), f) \in Seq(Filter) /\ Len(WithoutLast(Tracked(c), f)) <= Len(Tracked(c))
      /\ \A x : Count(WithoutLast(Tracked(c), f), x) =
             IF x = f /\ Count(Tracked(c), f) # 0 THEN Count(Tracked(c), x) - 1 ELSE Count(Tracked(c), x)
    BY <1>4, CountWithoutLast
<1>6. /\ client_subscriptions' \in [Client -> Seq(Filter) \cup {None}]
      /\ \A d \in Client \ {c} : client_subscriptions'[d] = client_subscriptions[d]
      /\ \/ Tracked(c)' = WithoutLast(Tracked(c), f)
         \/ Tracked(c) = << >> /\ Tracked(c)' = << >>
  <2>1. CASE client_subscriptions[c] = None
    BY <1>1, <1>4, <2>1 DEF Tracked
  <2>2. CASE client_subscriptions[c] # None
    <3> DEFINE new == WithoutLast(Tracked(c), f)
    <3>1. new # None /\ new \in Seq(Filter)
      BY <1>5 DEF BrokerAssumption
    <3>2. client_subscriptions' = [client_subscriptions EXCEPT ![c] = new]
      BY <1>1, <2>2 DEF Tracked
    <3> HIDE DEF new
    <3>3. /\ client_subscriptions' \in [Client -> Seq(Filter) \cup {None}] /\ client_subscriptions'[c] = new
          /\ \A d \in Client \ {c} : client_subscriptions'[d] = client_subscriptions[d]
      BY <1>0, <1>4, <3>1, <3>2
    <3> QED
      BY <3>1, <3>3 DEF Tracked, new
  <2> QED
    BY <2>1, <2>2
<1>7. MaxSubs > 0 => Len(Tracked(c)') <= MaxSubs
  <2>1. /\ Len(Tracked(c)) \in Nat /\ Len(WithoutLast(Tracked(c), f)) \in Nat /\ MaxSubs \in Nat
        /\ Len(<< >>) = 0
    BY <1>4, <1>5, LenProperties DEF BrokerAssumption
  <2>2. MaxSubs > 0 => Len(Tracked(c)) <= MaxSubs
    BY <1>0 DEF GrantInv, LimitOK
  <2> QED
    BY <1>5, <1>6, <2>1, <2>2
<1>8. ASSUME NEW g \in Filter, NEW h \in Nat, Fits(pc[s], work[s].filter, g, Count(Tracked(c), g), h)
      PROVE  Fits("loop", NoWork.filter, g, Count(Tracked(c)', g), h)
  <2>1. Count(Tracked(c), g) \in Nat
    BY <1>4, CountIs
  <2>2. Count(Tracked(c)', g) =
           IF g = f /\ Count(Tracked(c), f) # 0 THEN Count(Tracked(c), g) - 1 ELSE Count(Tracked(c), g)
    BY <1>5, <1>6, CountEmpty
  <2>3. g = f => Count(Tracked(c), f) # 0
    BY <1>1, <1>8, <2>1 DEF Fits
  <2> QED
    BY <1>1, <1>8, <2>1, <2>2, <2>3 DEF Fits
<1> QED
    BY <1>1, <1>3, <1>6, <1>7, <1>8, TrackStep

\* UNSUBSCRIBE, second half.
LEMMA UntrackGrants ==
    ASSUME BrokerAssumption, BrokerInv, GrantInv, NEW s \in Session, Untrack(s)
    PROVE  GrantInv'
<1> USE DEF registry, tries, ghosts
<1> DEFINE c == ClientOf[s]
<1> PICK f : f = work[s].filter
    OBVIOUS
<1>0. s \in Actor /\ c \in Client
    BY DEF Actor, BrokerAssumption
<1>1. /\ pc[s] = "unsubscribe" /\ Goto(s, "loop", << >>, NoWork)
      /\ client_subscriptions' = IF client_subscriptions[c] = None THEN client_subscriptions
                                 ELSE [client_subscriptions EXCEPT ![c] = Retain(client_subscriptions[c], Filter \ {f})]
      /\ subs' = subs /\ acked' = acked /\ latest' = latest
    BY DEF Untrack
<1>2. f \in Filter
    BY <1>1 DEF GrantInv, HandlesType
<1>3. ~Fresh(s) /\ Live(s) /\ LiveAt("loop", NoWork.after)
  <2>1. work[s].after = "none" /\ NoWork.after = "none"
    BY <1>0, <1>1 DEF BrokerInv, TasksOK, TaskOK, Agrees, NoWork
  <2> QED
    BY <1>1, <2>1 DEF Fresh, Live, LiveAt
<1>4. Tracked(c) \in Seq(Filter) /\ client_subscriptions \in [Client -> Seq(Filter) \cup {None}]
    BY <1>0 DEF GrantInv, HandlesType, Tracked
<1> DEFINE new == Retain(Tracked(c), Filter \ {f})
<1>5. /\ new \in Seq(Filter) /\ Len(new) <= Len(Tracked(c))
      /\ \A x : Count(new, x) = IF x \in Filter \ {f} THEN Count(Tracked(c), x) ELSE 0
    BY <1>4, CountRetain
<1>6. /\ client_subscriptions' \in [Client -> Seq(Filter) \cup {None}]
      /\ \A d \in Client \ {c} : client_subscriptions'[d] = client_subscriptions[d]
      /\ Tracked(c)' = new \/ (Tracked(c) = << >> /\ Tracked(c)' = << >>)
  <2>1. CASE client_subscriptions[c] = None
    BY <1>1, <1>4, <2>1 DEF Tracked
  <2>2. CASE client_subscriptions[c] # None
    <3>1. new # None
      BY <1>5 DEF BrokerAssumption
    <3>2. client_subscriptions' = [client_subscriptions EXCEPT ![c] = new]
      BY <1>1, <2>2 DEF Tracked
    <3> HIDE DEF new
    <3>3. /\ client_subscriptions' \in [Client -> Seq(Filter) \cup {None}] /\ client_subscriptions'[c] = new
          /\ \A d \in Client \ {c} : client_subscriptions'[d] = client_subscriptions[d]
      BY <1>0, <1>4, <1>5, <3>2
    <3> QED
      BY <3>1, <3>3 DEF Tracked
  <2> QED
    BY <2>1, <2>2
<1> HIDE DEF new
<1>7. MaxSubs > 0 => Len(Tracked(c)') <= MaxSubs
  <2>1. Len(Tracked(c)) \in Nat /\ Len(new) \in Nat /\ MaxSubs \in Nat /\ Len(<< >>) = 0
    BY <1>4, <1>5, LenProperties DEF BrokerAssumption
  <2>2. MaxSubs > 0 => Len(Tracked(c)) <= MaxSubs
    BY <1>0 DEF GrantInv, LimitOK
  <2> QED
    BY <1>5, <1>6, <2>1, <2>2
<1>8. ASSUME NEW g \in Filter, NEW h \in Nat, Fits(pc[s], work[s].filter, g, Count(Tracked(c), g), h)
      PROVE  Fits("loop", NoWork.filter, g, Count(Tracked(c)', g), h)
  <2>1. Count(Tracked(c), g) \in Nat
    BY <1>4, CountIs
  <2>2. Count(Tracked(c)', g) = IF g = f THEN 0 ELSE Count(Tracked(c), g)
    BY <1>5, <1>6, CountEmpty
  <2> QED
    BY <1>1, <1>8, <2>1, <2>2 DEF Fits
<1> QED
    BY <1>1, <1>3, <1>6, <1>7, <1>8, TrackStep

\* SUBSCRIBE, second half: the handle and the grant.
LEMMA InsertGrants ==
    ASSUME BrokerAssumption, BrokerInv, GrantInv, NEW s \in Session, InsertHandle(s)
    PROVE  GrantInv'
<1> USE DEF registry, tries, ghosts
<1> PICK f : f = work[s].filter
    OBVIOUS
<1> DEFINE c == ClientOf[s]
           present == f \in Shared /\ \E i \in DOMAIN subs[f] : ClientOf[subs[f][i]] = ClientOf[s]
           hs == IF present THEN subs[f] ELSE Append(subs[f], s)
<1>0. /\ s \in Actor /\ c \in Client
      /\ \A r \in Session : r \in Actor /\ ClientOf[r] \in Client
    BY DEF Actor, BrokerAssumption
<1>1. /\ pc[s] = "subscribe" /\ Goto(s, "loop", << >>, NoWork) /\ SetHandles(f, hs)
      /\ acked' = [acked EXCEPT ![s] = acked[s] \cup {f}]
      /\ latest' = latest /\ client_subscriptions' = client_subscriptions
    BY DEF InsertHandle
<1>2. f \in Filter /\ subs[f] \in Seq(Session)
    BY <1>1 DEF GrantInv, HandlesType
<1>3. /\ hs \in Seq(Session)
      /\ \A r : Count(hs, r) = IF r = s /\ ~present THEN Count(subs[f], r) + 1 ELSE Count(subs[f], r)
    BY <1>2, CountAppend
<1>4. present /\ Unrivalled(s) => Held(f, s) # 0
  <2> SUFFICES ASSUME present, Unrivalled(s) PROVE Held(f, s) # 0
    OBVIOUS
  <2>1. PICK i \in DOMAIN subs[f] : ClientOf[subs[f][i]] = ClientOf[s]
    OBVIOUS
  <2>2. PICK r \in Session : r = subs[f][i]
    BY <1>2
  <2>3. Count(subs[f], r) # 0
    BY <1>2, <2>2, CountIs
  <2>4. ~Fresh(r)
    BY <1>2, <2>3 DEF GrantInv, SessionOK, Unborn, Held
  <2> QED
    BY <2>1, <2>2, <2>3, <2>4 DEF Unrivalled, Held
<1>5. f \in Shared /\ Held(f, s) # 0 => present
    BY <1>2, CountIs DEF Held
<1> HIDE DEF present, hs
<1>6. /\ subs' \in [Filter -> Seq(Session)]
      /\ \A g \in Filter : \A r : Held(g, r)' = IF g = f /\ r = s /\ ~present THEN Held(g, r) + 1 ELSE Held(g, r)
  <2>1. /\ subs' \in [Filter -> Seq(Session)] /\ \A r : Held(f, r)' = Count(hs, r)
        /\ \A g \in Filter \ {f} : \A r : Held(g, r)' = Held(g, r)
    BY <1>1, <1>2, <1>3, HandlesSet DEF GrantInv
  <2> QED
    BY <1>3, <2>1 DEF Held
<1>7. /\ acked' \in [Session -> SUBSET Filter] /\ acked'[s] = acked[s] \cup {f}
      /\ \A r \in Session \ {s} : acked'[r] = acked[r]
    BY <1>1, <1>2 DEF GrantInv, HandlesType
<1>8. /\ pc'[s] = "loop" /\ work'[s] = NoWork
      /\ \A b \in Actor \ {s} : pc'[b] = pc[b] /\ todo'[b] = todo[b] /\ work'[b] = work[b]
      /\ todo' = [b \in Actor |-> todo'[b]]
      /\ \A r \in Session : Unrivalled(r)' => Unrivalled(r)
    BY <1>0, <1>1, Moved
<1>9. ~Fresh(s) /\ ~Fresh(s)' /\ Live(s) /\ Live(s)'
  <2>1. work[s].after = "none" /\ NoWork.after = "none"
    BY <1>0, <1>1 DEF BrokerInv, TasksOK, TaskOK, Agrees, NoWork
  <2> QED
    BY <1>1, <1>8, <2>1 DEF Fresh, Live, LiveAt
<1>10. \A d : Tracked(d)' = Tracked(d)
    BY <1>1 DEF Tracked
<1>11. HandlesType'
    BY <1>0, <1>1, <1>6, <1>7, <1>8 DEF GrantInv, HandlesType
<1>12. LimitOK'
    BY <1>0, <1>8, <1>10 DEF GrantInv, LimitOK
<1>13. FreshOK' /\ PurgesOK'
    BY <1>1, <1>9, QuietStep
<1>14. ASSUME NEW r \in Session PROVE SessionOK(r)'
  <2>0. SessionOK(r)
    BY DEF GrantInv
  <2>1. CASE r # s
    <3>1. pc'[r] = pc[r] /\ todo'[r] = todo[r] /\ work'[r] = work[r]
      BY <1>0, <1>8, <2>1
    <3>2. acked'[r] = acked[r] /\ \A g \in Filter : Held(g, r)' = Held(g, r)
      BY <1>6, <1>7, <2>1
    <3> QED
      BY <1>1, <1>8, <1>10, <2>0, <3>1, <3>2, Untouched
  <2>2. CASE r = s
    <3>0. \A g \in Filter : Held(g, s) \in Nat /\ Count(Tracked(c), g) \in Nat
      <4>1. Tracked(c) \in Seq(Filter) /\ \A g \in Filter : subs[g] \in Seq(Session)
        BY <1>0 DEF GrantInv, HandlesType, Tracked
      <4> QED
        BY <4>1, CountIs DEF Held
    <3>1. Unborn(s)'
      BY <1>9 DEF Unborn
    <3>2. Served(s)'
      <4>1. SUFFICES ASSUME latest[c] = s, NEW g \in Filter, g \in Shared => Unrivalled(s)'
                     PROVE  g \in acked'[s] <=> Held(g, s)' # 0
        BY <1>1 DEF Served
      <4>2. CASE g # f
        BY <1>6, <1>7, <1>8, <1>9, <2>0, <2>2, <4>1, <4>2 DEF SessionOK, Served
      <4>3. CASE g = f
        <5>1. present => Held(f, s) # 0
          BY <1>4, <1>8, <4>1, <4>3 DEF present
        <5> QED
          BY <1>6, <1>7, <3>0, <4>3, <5>1
      <4> QED
        BY <4>2, <4>3
    <3>3. Slots(s)'
      <4>1. SUFFICES ASSUME Unrivalled(s)', NEW g \in Filter
                     PROVE  Fits("loop", work'[s].filter, g, Count(Tracked(c), g), Held(g, s)')
        BY <1>8, <1>9, <1>10 DEF Slots
      <4>2. Fits("subscribe", f, g, Count(Tracked(c), g), Held(g, s))
        BY <1>1, <1>8, <1>9, <2>0, <2>2, <4>1 DEF SessionOK, Slots
      <4>3. CASE g # f
        <5>1. Held(g, s)' = Held(g, s)
          BY <1>6, <4>3
        <5> QED
          BY <4>2, <4>3, <5>1 DEF Fits
      <4>4. CASE g = f
        <5>1. (present => Held(g, s) # 0) /\ (g \in Shared /\ Held(g, s) # 0 => present)
              /\ (present => g \in Shared)
          BY <1>4, <1>5, <1>8, <4>1, <4>4 DEF present
        <5>2. Held(g, s)' = IF present THEN Held(g, s) ELSE Held(g, s) + 1
          BY <1>6, <4>4
        <5> QED
          BY <3>0, <4>2, <4>4, <5>1, <5>2 DEF Fits
      <4> QED
        BY <4>3, <4>4
    <3> QED
      BY <2>2, <3>1, <3>2, <3>3 DEF SessionOK
  <2> QED
    BY <2>1, <2>2
<1> QED
    BY <1>11, <1>12, <1>13, <1>14 DEF GrantInv

\* UNSUBSCRIBE, first half: the handles of the client id.
LEMMA UnsubscribeGrants ==
    ASSUME BrokerAssumption, BrokerInv, GrantInv, NEW s \in Session, NEW f \in Filter, Unsubscribe(s, f)
    PROVE  GrantInv'
<1> USE DEF registry, tries, ghosts
<1> DEFINE c == ClientOf[s]
           others == {h \in Session : ClientOf[h] # ClientOf[s]}
           w == [NoWork EXCEPT !.filter = f]
<1>0. /\ s \in Actor /\ c \in Client
      /\ \A r \in Session : r \in Actor /\ ClientOf[r] \in Client
    BY DEF Actor, BrokerAssumption
<1>1. /\ pc[s] = "loop" /\ Goto(s, "unsubscribe", << >>, w) /\ SetHandles(f, Retain(subs[f], others))
      /\ acked' = [r \in Session |-> IF ClientOf[r] = ClientOf[s] THEN acked[r] \ {f} ELSE acked[r]]
      /\ latest' = latest /\ client_subscriptions' = client_subscriptions
    BY DEF Unsubscribe
<1>2. w.filter = f /\ w.after = "none"
    BY DEF NoWork
<1> HIDE DEF w
<1>3. /\ Retain(subs[f], others) \in Seq(Session)
      /\ \A x : Count(Retain(subs[f], others), x) = IF x \in others THEN Count(subs[f], x) ELSE 0
  <2>1. subs[f] \in Seq(Session)
    BY DEF GrantInv, HandlesType
  <2> QED
    BY <2>1, CountRetain
<1>4. /\ subs' \in [Filter -> Seq(Session)]
      /\ \A g \in Filter, r \in Session :
            Held(g, r)' = IF g = f /\ ClientOf[r] = ClientOf[s] THEN 0 ELSE Held(g, r)
  <2>1. /\ subs' \in [Filter -> Seq(Session)] /\ \A r : Held(f, r)' = Count(Retain(subs[f], others), r)
        /\ \A g \in Filter \ {f} : \A r : Held(g, r)' = Held(g, r)
    BY <1>1, <1>3, HandlesSet DEF GrantInv
  <2> QED
    BY <1>3, <2>1 DEF Held
<1>5. /\ acked' \in [Session -> SUBSET Filter]
      /\ \A r \in Session : acked'[r] = IF ClientOf[r] = ClientOf[s] THEN acked[r] \ {f} ELSE acked[r]
    BY <1>1 DEF GrantInv, HandlesType
<1>6. /\ pc'[s] = "unsubscribe" /\ work'[s] = w
      /\ \A b \in Actor \ {s} : pc'[b] = pc[b] /\ todo'[b] = todo[b] /\ work'[b] = work[b]
      /\ todo' = [b \in Actor |-> todo'[b]]
      /\ \A r \in Session : Unrivalled(r)' => Unrivalled(r)
    BY <1>0, <1>1, Moved
<1>7. ~Fresh(s) /\ ~Fresh(s)' /\ Live(s) /\ Live(s)'
  <2>1. work[s].after = "none"
    BY <1>0, <1>1 DEF BrokerInv, TasksOK, TaskOK, Agrees
  <2> QED
    BY <1>1, <1>2, <1>6, <2>1 DEF Fresh, Live, LiveAt
<1>8. \A d : Tracked(d)' = Tracked(d)
    BY <1>1 DEF Tracked
<1>9. HandlesType'
    BY <1>0, <1>1, <1>2, <1>4, <1>5, <1>6 DEF GrantInv, HandlesType
<1>10. LimitOK'
    BY <1>0, <1>6, <1>8 DEF GrantInv, LimitOK
<1>11. FreshOK' /\ PurgesOK'
    BY <1>1, <1>7, QuietStep
<1>12. ASSUME NEW r \in Session PROVE SessionOK(r)'
  <2>0. SessionOK(r)
    BY DEF GrantInv
  <2>1. CASE r # s
    <3>1. pc'[r] = pc[r] /\ todo'[r] = todo[r] /\ work'[r] = work[r] /\ acked'[r] \subseteq acked[r]
      BY <1>0, <1>5, <1>6, <2>1
    <3>2. Fresh(r) => \A g \in Filter : Held(g, r)' = Held(g, r)
      BY <1>4, <2>0 DEF SessionOK, Unborn
    <3>3. \A g \in Filter : \/ Held(g, r)' = Held(g, r) /\ (g \in acked'[r] <=> g \in acked[r])
                            \/ Held(g, r)' = 0 /\ g \notin acked'[r]
      BY <1>4, <1>5
    <3>4. Unrivalled(r)' => Unrivalled(r) /\ \A g \in Filter : Held(g, r)' = Held(g, r)
      BY <1>4, <1>6, <1>7, <2>1 DEF Unrivalled
    <3> QED
      BY <1>1, <1>8, <2>0, <3>1, <3>2, <3>3, <3>4, Untouched
  <2>2. CASE r = s
    <3>1. Unborn(s)'
      BY <1>7 DEF Unborn
    <3>2. Served(s)'
      BY <1>1, <1>4, <1>5, <1>6, <1>7, <2>0, <2>2 DEF SessionOK, Served
    <3>3. Slots(s)'
      <4>1. SUFFICES ASSUME Unrivalled(s)', NEW g \in Filter
                     PROVE  Fits("unsubscribe", f, g, Count(Tracked(c), g), Held(g, s)')
        BY <1>2, <1>6, <1>7, <1>8 DEF Slots
      <4>2. Fits("loop", work[s].filter, g, Count(Tracked(c), g), Held(g, s))
        BY <1>1, <1>6, <1>7, <2>0, <2>2, <4>1 DEF SessionOK, Slots
      <4>3. Held(g, s)' = IF g = f THEN 0 ELSE Held(g, s)
        BY <1>4
      <4> QED
        BY <4>2, <4>3 DEF Fits
    <3> QED
      BY <2>2, <3>1, <3>2, <3>3 DEF SessionOK
  <2> QED
    BY <2>1, <2>2
<1> QED
    BY <1>9, <1>10, <1>11, <1>12 DEF GrantInv

LEMMA RoutingGrants ==
    ASSUME BrokerAssumption, BrokerInv, GrantInv, NEW a \in Actor,
           Route(a) \/ Send(a) \/ RouteShared(a) \/ RouteDone(a)
    PROVE  GrantInv'
<1> USE DEF registry, tries, ghosts
<1>0. work[a] \in Works /\ Agrees(pc[a], work[a].after)
    BY DEF BrokerInv, TasksOK, TaskOK
<1>1. subs' = subs /\ acked' = acked /\ client_subscriptions' = client_subscriptions /\ latest' = latest
    BY DEF Route, Send, RouteShared, RouteDone
<1>2. pc[a] \in {"route", "send"}
    BY DEF Route, Send, RouteShared, RouteDone
<1>3. \E p, l, w : /\ Goto(a, p, l, w) /\ p \in {"send", "loop", "gone"}
                   /\ LiveAt(p, w.after) <=> LiveAt(pc[a], work[a].after)
  <2>1. CASE Route(a)
    <3>1. PICK l : Goto(a, "send", l, [work[a] EXCEPT !.stage = "normal"])
      BY <2>1 DEF Route
    <3>2. [work[a] EXCEPT !.stage = "normal"].after = work[a].after
      BY <1>0, StageOK
    <3>3. LiveAt("send", work[a].after) <=> LiveAt(pc[a], work[a].after)
      BY <1>2 DEF LiveAt
    <3> QED
      BY <3>1, <3>2, <3>3
  <2>2. CASE Send(a)
    BY <2>2 DEF Send
  <2>3. CASE RouteShared(a)
    <3>1. PICK l : Goto(a, "send", l, [work[a] EXCEPT !.stage = "shared"])
      BY <2>3 DEF RouteShared
    <3>2. [work[a] EXCEPT !.stage = "shared"].after = work[a].after
      BY <1>0, StageOK
    <3>3. LiveAt("send", work[a].after) <=> LiveAt(pc[a], work[a].after)
      BY <1>2 DEF LiveAt
    <3> QED
      BY <3>1, <3>2, <3>3
  <2>4. CASE RouteDone(a)
    <3>1. Goto(a, work[a].after, << >>, NoWork) /\ NoWork.after = "none"
      BY <2>4 DEF RouteDone, NoWork
    <3>2. work[a].after \in {"loop", "gone"}
      BY <1>0, <1>2 DEF Agrees
    <3>3. LiveAt(work[a].after, NoWork.after) <=> LiveAt(pc[a], work[a].after)
      BY <1>2, <3>1, <3>2 DEF LiveAt
    <3> QED
      BY <3>1, <3>2, <3>3
  <2> QED
    BY <2>1, <2>2, <2>3, <2>4
<1>4. PICK p, l, w : /\ Goto(a, p, l, w) /\ p \in {"send", "loop", "gone"}
                     /\ LiveAt(p, w.after) <=> LiveAt(pc[a], work[a].after)
    BY <1>3
<1> QED
    BY <1>1, <1>2, <1>4, FrameStep

\* Authentication, the announcements and the end of the loop.
LEMMA PassingGrants ==
    ASSUME BrokerAssumption, BrokerInv, GrantInv, NEW s \in Session,
           Authenticate(s) \/ Announce(s) \/ EndLoop(s)
    PROVE  GrantInv'
<1> USE DEF registry, tries, ghosts
<1>0. s \in Actor /\ Agrees(pc[s], work[s].after) /\ NoWork.after = "none"
    BY DEF Actor, BrokerInv, TasksOK, TaskOK, NoWork
<1>1. subs' = subs /\ acked' = acked /\ client_subscriptions' = client_subscriptions /\ latest' = latest
    BY DEF Authenticate, Announce, EndLoop
<1>2. pc[s] \in {"new", "loop"} \/ (pc[s] = "purge" /\ todo[s] = << >>)
    BY DEF Authenticate, Announce, EndLoop
<1>3. \E p, l, w : /\ Goto(s, p, l, w) /\ p \in {"accepted", "route", "loop", "closing", "gone"}
                   /\ p = "accepted" => pc[s] = "new"
                   /\ LiveAt(p, w.after) <=> LiveAt(pc[s], work[s].after)
  <2>1. CASE Authenticate(s)
    <3>1. /\ pc[s] = "new" /\ ~LiveAt(pc[s], work[s].after)
          /\ ~LiveAt("accepted", NoWork.after) /\ ~LiveAt("gone", NoWork.after)
      BY <2>1 DEF Authenticate, LiveAt
    <3>2. Goto(s, "accepted", << >>, NoWork) \/ Goto(s, "gone", << >>, NoWork)
      BY <2>1 DEF Authenticate
    <3> QED
      BY <3>1, <3>2
  <2>2. CASE Announce(s)
    <3>1. pc[s] = "purge" /\ work[s].after \in {"connected", "disconnected"}
      BY <1>0, <2>2 DEF Announce, Agrees
    <3> DEFINE after == IF work[s].after = "connected" THEN "loop" ELSE "gone"
               m == Message(SysTopic(ClientOf[s], work[s].after), App, 0)
               w == [NoWork EXCEPT !.msg = m, !.after = after]
    <3>2. Goto(s, "route", << >>, w) \/ Goto(s, after, << >>, NoWork)
      BY <2>2 DEF Announce
    <3>3. w.after = after
      <4> HIDE DEF m, after
      <4> QED
        BY DEF NoWork
    <3> HIDE DEF w
    <3>4. /\ LiveAt("route", w.after) <=> LiveAt(pc[s], work[s].after)
          /\ LiveAt(after, NoWork.after) <=> LiveAt(pc[s], work[s].after)
      BY <1>0, <3>1, <3>3 DEF LiveAt
    <3>5. after \in {"loop", "gone"}
      OBVIOUS
    <3> HIDE DEF after
    <3> QED
      BY <3>2, <3>4, <3>5
  <2>3. CASE EndLoop(s)
    <3>1. Goto(s, "closing", << >>, NoWork) /\ pc[s] = "loop" /\ work[s].after = "none"
      BY <1>0, <2>3 DEF EndLoop, Agrees
    <3>2. LiveAt("closing", NoWork.after) <=> LiveAt(pc[s], work[s].after)
      BY <3>1 DEF LiveAt
    <3> QED
      BY <3>1, <3>2
  <2> QED
    BY <2>1, <2>2, <2>3
<1>4. PICK p, l, w : /\ Goto(s, p, l, w) /\ p \in {"accepted", "route", "loop", "closing", "gone"}
                     /\ p = "accepted" => pc[s] = "new"
                     /\ LiveAt(p, w.after) <=> LiveAt(pc[s], work[s].after)
    BY <1>3
<1> QED
    BY <1>0, <1>1, <1>2, <1>4, FrameStep

\* What is published changes no subscription, and neither does writing it out.
LEMMA PublishGrants ==
    ASSUME BrokerAssumption, BrokerInv, GrantInv, NEW a \in Actor, pc[a] = "loop",
           subs' = subs, acked' = acked, client_subscriptions' = client_subscriptions, latest' = latest,
           \/ UNCHANGED task
           \/ \E m : Goto(a, "route", << >>, [NoWork EXCEPT !.msg = m, !.after = "loop"])
    PROVE  GrantInv'
<1>1. CASE UNCHANGED task
    BY <1>1, StillGrants
<1>2. CASE \E m : Goto(a, "route", << >>, [NoWork EXCEPT !.msg = m, !.after = "loop"])
  <2>1. PICK m : Goto(a, "route", << >>, [NoWork EXCEPT !.msg = m, !.after = "loop"])
    BY <1>2
  <2>2. work[a].after = "none" /\ [NoWork EXCEPT !.msg = m, !.after = "loop"].after = "loop"
    BY DEF BrokerInv, TasksOK, TaskOK, Agrees, NoWork
  <2>3. PICK w : w = [NoWork EXCEPT !.msg = m, !.after = "loop"]
    OBVIOUS
  <2>4. LiveAt("route", w.after) <=> LiveAt(pc[a], work[a].after)
    BY <2>2, <2>3 DEF LiveAt
  <2>5. Goto(a, "route", << >>, w)
    BY <2>1, <2>3
  <2> QED
    BY <2>4, <2>5, FrameStep
<1> QED
    BY <1>1, <1>2

LEMMA NextGrantInv ==
    ASSUME BrokerAssumption PROVE BrokerInv /\ GrantInv /\ [BrokerNext]_broker_vars => GrantInv'
<1> SUFFICES ASSUME BrokerInv, GrantInv, [BrokerNext]_broker_vars PROVE GrantInv'
    OBVIOUS
<1>1. ASSUME NEW a \in Actor, Internal(a) PROVE GrantInv'
  <2>1. CASE Route(a) \/ Send(a) \/ RouteShared(a) \/ RouteDone(a)
    BY <2>1, RoutingGrants
  <2>2. CASE a \in Session /\ (Connect(a) \/ Purge(a) \/ Cleanup(a))
    BY <2>2, ConnectGrants, PurgeGrants, CleanupGrants
  <2>3. CASE a \in Session /\ Announce(a)
    BY <2>3, PassingGrants
  <2>4. CASE a \in Session /\ (InsertHandle(a) \/ RollBack(a) \/ Untrack(a))
    BY <2>4, InsertGrants, RollBackGrants, UntrackGrants
  <2> QED
    BY <1>1, <2>1, <2>2, <2>3, <2>4 DEF Internal
<1>2. CASE External
  <2>0. \A s \in Session \cup {App} : s \in Actor
    BY DEF Actor
  <2> USE DEF registry, tries, ghosts
  <2>1. ASSUME NEW s \in Session, Authenticate(s) \/ EndLoop(s) PROVE GrantInv'
    BY <2>1, PassingGrants
  <2>2. ASSUME NEW s \in Session, NEW f \in Filter, Subscribe(s, f) \/ Unsubscribe(s, f) PROVE GrantInv'
    BY <2>2, SubscribeGrants, UnsubscribeGrants
  <2>3. ASSUME NEW s \in Session, Deliver(s) PROVE GrantInv'
    BY <2>3, StillGrants DEF Deliver
  <2>4. ASSUME NEW s \in Session, NEW t, PublishResolved(s, t)
        PROVE  \/ UNCHANGED task
               \/ \E m : Goto(s, "route", << >>, [NoWork EXCEPT !.msg = m, !.after = "loop"])
    BY <2>4 DEF PublishResolved
  <2>5. ASSUME NEW s \in Session, NEW t \in Topic, Publish(s, t) PROVE GrantInv'
    BY <2>0, <2>4, <2>5, PublishGrants DEF Publish
  <2>6. ASSUME NEW s \in Session, NEW t \in Topic, NEW a \in Alias, PublishBinding(s, t, a) PROVE GrantInv'
    BY <2>0, <2>4, <2>6, PublishGrants DEF PublishBinding
  <2>7. ASSUME NEW s \in Session, NEW a \in Alias, PublishByAlias(s, a) PROVE GrantInv'
    BY <2>0, <2>4, <2>7, PublishGrants DEF PublishByAlias
  <2>8. ASSUME NEW t \in Topic, AppPublish(t) PROVE GrantInv'
    BY <2>0, <2>8, PublishGrants DEF AppPublish
  <2> QED
    BY <1>2, <2>1, <2>2, <2>3, <2>5, <2>6, <2>7, <2>8 DEF External
<1>3. CASE UNCHANGED broker_vars
    BY <1>3, StillGrants DEF broker_vars, registry, tries, ghosts
<1> QED
    BY <1>1, <1>2, <1>3 DEF BrokerNext

LEMMA GrantInvariance == ASSUME BrokerAssumption PROVE BrokerSpec => [](BrokerInv /\ GrantInv)
<1>1. BrokerInit => BrokerInv /\ GrantInv
    BY InitBrokerInv, InitGrantInv
<1>2. BrokerInv /\ GrantInv /\ [BrokerNext]_broker_vars => BrokerInv' /\ GrantInv'
    BY NextBrokerInv, NextGrantInv
<1> QED
    BY <1>1, <1>2, PTL DEF BrokerSpec

\* While a session is the latest of its client id, a SUBACK means that its handle is
\* in the trie and an UNSUBACK that none is, whatever others subscribe, purge, take
\* over or clean up meanwhile (handle_subscribe, handle_unsubscribe,
\* remove_client_subscriptions): for any number of sessions, client ids and filters.
THEOREM ServedCorrect == ASSUME BrokerAssumption PROVE BrokerSpec => []ServedIffAcked
<1>1. BrokerInv /\ GrantInv => ServedIffAcked
  <2> SUFFICES ASSUME BrokerInv, GrantInv, NEW s \in Session, NEW f \in Filter,
                      pc[s] = "loop", latest[ClientOf[s]] = s, f \in Shared => Unrivalled(s)
               PROVE  f \in acked[s] <=> s \in Handles(f)
    BY DEF ServedIffAcked
  <2>1. Live(s)
    BY DEF Live, LiveAt, BrokerInv, TasksOK, TaskOK, Agrees, Actor
  <2>2. f \in acked[s] <=> Held(f, s) # 0
    BY <2>1 DEF GrantInv, SessionOK, Served
  <2>3. Held(f, s) # 0 <=> s \in Handles(f)
    BY CountIs DEF Held, Handles, GrantInv, HandlesType
  <2> QED
    BY <2>2, <2>3
<1> QED
    BY <1>1, GrantInvariance, PTL

\* The smaller of two finite sets fits into the larger.
LEMMA FitsInto ==
    ASSUME NEW A, NEW B, IsFiniteSet(A), IsFiniteSet(B), Cardinality(A) <= Cardinality(B)
    PROVE  \E g \in [A -> B] : \A x, y \in A : g[x] = g[y] => x = y
<1> DEFINE m == Cardinality(A)
           n == Cardinality(B)
<1>1. m \in Nat /\ n \in Nat /\ ExistsBijection(1 .. m, A) /\ ExistsBijection(1 .. n, B)
    BY FS_CardinalityType
<1>2. PICK b \in Bijection(1 .. n, B) : TRUE
    BY <1>1 DEF ExistsBijection
<1>3. ExistsBijection(A, 1 .. m)
    BY <1>1, Fun_ExistsBijSymmetric
<1>4. PICK a \in Bijection(A, 1 .. m) : TRUE
    BY <1>3 DEF ExistsBijection
<1>5. /\ a \in [A -> 1 .. m] /\ \A x, y \in A : a[x] = a[y] => x = y
      /\ b \in [1 .. n -> B] /\ \A i, j \in 1 .. n : b[i] = b[j] => i = j
    BY DEF Bijection, Injection, IsInjective
<1>6. m <= n
    OBVIOUS
<1> HIDE DEF m, n
<1>7. \A x \in A : a[x] \in 1 .. n
    BY <1>1, <1>5, <1>6
<1> DEFINE g == [x \in A |-> b[a[x]]]
<1>8. g \in [A -> B] /\ \A x, y \in A : g[x] = g[y] => x = y
    BY <1>5, <1>7
<1> QED
    BY <1>8

\* As many handles as positions of a list: their number is at most its length.
LEMMA HandlesBound ==
    ASSUME NEW s, NEW list \in Seq(Filter), subs \in [Filter -> Seq(Session)],
           \A f \in Filter : Count(subs[f], s) <= Count(list, f)
    PROVE  Cardinality(UNION {{f} \X {i \in DOMAIN subs[f] : subs[f][i] = s} : f \in Filter}) \in 0 .. Len(list)
<1> DEFINE P(f) == {i \in DOMAIN subs[f] : subs[f][i] = s}
           Q(f) == {i \in DOMAIN list : list[i] = f}
           U == UNION {{f} \X P(f) : f \in Filter}
<1>1. ASSUME NEW f \in Filter
      PROVE  \E g \in [P(f) -> Q(f)] : \A x, y \in P(f) : g[x] = g[y] => x = y
  <2>1. IsFiniteSet(P(f)) /\ IsFiniteSet(Q(f))
    BY Positions
  <2>2. Cardinality(P(f)) <= Cardinality(Q(f))
    BY DEF Count
  <2> HIDE DEF P, Q
  <2> QED
    BY <2>1, <2>2, FitsInto
<1> DEFINE G == [f \in Filter |-> CHOOSE g \in [P(f) -> Q(f)] : \A x, y \in P(f) : g[x] = g[y] => x = y]
<1>2. ASSUME NEW f \in Filter
      PROVE  G[f] \in [P(f) -> Q(f)] /\ \A x, y \in P(f) : G[f][x] = G[f][y] => x = y
  <2> HIDE DEF P, Q
  <2>1. G[f] = CHOOSE g \in [P(f) -> Q(f)] : \A x, y \in P(f) : g[x] = g[y] => x = y
    OBVIOUS
  <2> HIDE DEF G
  <2> QED
    BY <1>1, <2>1
<1>3. \A f \in Filter : \A i \in Q(f) : i \in DOMAIN list /\ list[i] = f
    OBVIOUS
<1> HIDE DEF G, P, Q
<1>4. ASSUME NEW x \in U PROVE x[1] \in Filter /\ x[2] \in P(x[1]) /\ x = <<x[1], x[2]>>
    OBVIOUS
<1> HIDE DEF U
<1> DEFINE h == [x \in U |-> G[x[1]][x[2]]]
<1>5. ASSUME NEW x \in U PROVE h[x] \in DOMAIN list /\ list[h[x]] = x[1]
  <2>1. G[x[1]][x[2]] \in Q(x[1])
    BY <1>2, <1>4
  <2> QED
    BY <1>3, <1>4, <2>1
<1>6. ASSUME NEW x \in U, NEW y \in U, h[x] = h[y] PROVE x = y
  <2>1. x[1] = y[1]
    BY <1>5, <1>6
  <2>2. x[2] = y[2]
    BY <1>2, <1>4, <1>6, <2>1
  <2> QED
    BY <1>4, <2>1, <2>2
<1>7. h \in [U -> DOMAIN list]
    BY <1>5
<1> HIDE DEF h
<1>8. h \in Injection(U, DOMAIN list)
    BY <1>6, <1>7 DEF Injection, IsInjective
<1>9. IsFiniteSet(DOMAIN list) /\ Cardinality(DOMAIN list) = Len(list)
  <2>1. DOMAIN list = 1 .. Len(list) /\ Len(list) \in Nat /\ 1 \in Int /\ Len(list) \in Int
    OBVIOUS
  <2>2. IsFiniteSet(1 .. Len(list)) /\ Cardinality(1 .. Len(list)) = IF 1 > Len(list) THEN 0 ELSE Len(list) - 1 + 1
    BY <2>1, FS_Interval
  <2> QED
    BY <2>1, <2>2
<1>10. Cardinality(U) <= Len(list) /\ Cardinality(U) \in Nat
    BY <1>8, <1>9, FS_Injection, FS_CardinalityType
<1>11. Cardinality(U) \in 0 .. Len(list)
    BY <1>10
<1> QED
    BY <1>11 DEF U, P

\* As long as a client id has had one session: between two packets its tracked
\* filters are the handles stored for it, so that no refused, repeated or withdrawn
\* subscription leaks a slot or escapes cleanup_client; the cleanup leaves no handle,
\* and never are there more than max_subscriptions_per_client: for any number of
\* sessions, client ids and filters, and any limit.
THEOREM SlotsCorrect == ASSUME BrokerAssumption PROVE BrokerSpec => []SlotsExact
<1>1. BrokerInv /\ GrantInv => SlotsExact
  <2> SUFFICES ASSUME BrokerInv, GrantInv PROVE SlotsExact
    OBVIOUS
  <2>0. /\ subs \in [Filter -> Seq(Session)]
        /\ \A s \in Session, f \in Filter : Held(f, s) \in Nat /\ (Held(f, s) # 0 <=> s \in Handles(f))
        /\ \A s \in Session : /\ s \in Actor /\ ClientOf[s] \in Client
                              /\ Tracked(ClientOf[s]) \in Seq(Filter) /\ Left(s) \in Seq(Filter)
    <3>1. subs \in [Filter -> Seq(Session)]
      BY DEF GrantInv, HandlesType
    <3>2. ASSUME NEW s \in Session, NEW f \in Filter PROVE Held(f, s) \in Nat /\ (Held(f, s) # 0 <=> s \in Handles(f))
      <4>1. subs[f] \in Seq(Session)
        BY <3>1
      <4> QED
        BY <4>1, CountIs DEF Held, Handles
    <3>3. ASSUME NEW s \in Session
          PROVE  /\ s \in Actor /\ ClientOf[s] \in Client
                 /\ Tracked(ClientOf[s]) \in Seq(Filter) /\ Left(s) \in Seq(Filter)
      BY DEF GrantInv, HandlesType, Actor, BrokerAssumption, Tracked, Left
    <3> QED
      BY <3>1, <3>2, <3>3
  <2>1. ASSUME NEW s \in Session, NEW f \in Filter, pc[s] = "loop", Unrivalled(s)
        PROVE  LET tracked == Count(Tracked(ClientOf[s]), f)
                   held == Count(subs[f], s)
               IN IF f \in Shared THEN held \in {0, 1} /\ (tracked > 0 <=> held = 1)
                  ELSE tracked = held
    <3>1. Live(s)
      BY <2>0, <2>1 DEF Live, LiveAt, BrokerInv, TasksOK, TaskOK, Agrees
    <3>2. Fits("loop", work[s].filter, f, Count(Tracked(ClientOf[s]), f), Held(f, s))
      BY <2>1, <3>1 DEF GrantInv, SessionOK, Slots
    <3> QED
      BY <3>2 DEF Fits, Held
  <2>2. NoneLeft
    <3> SUFFICES ASSUME NEW s \in Session, NEW f \in Filter, pc[s] = "gone", Unrivalled(s)
                 PROVE  s \notin Handles(f)
      BY DEF NoneLeft
    <3>1. ~Live(s) /\ Left(s) = << >>
      BY DEF Live, LiveAt, Left
    <3>2. Held(f, s) <= Count(<< >>, f)
      BY <3>1 DEF GrantInv, SessionOK, Slots
    <3> QED
      BY <2>0, <3>2, CountEmpty
  <2>3. HandleLimit
    <3> SUFFICES ASSUME NEW s \in Session, MaxSubs > 0, Unrivalled(s)
                 PROVE  Cardinality(UNION {{f} \X {i \in DOMAIN subs[f] : subs[f][i] = s} : f \in Filter})
                            <= MaxSubs
      BY DEF HandleLimit
    <3>1. PICK list \in Seq(Filter) : list = IF Live(s) THEN Tracked(ClientOf[s]) ELSE Left(s)
      BY <2>0
    <3>2. ASSUME NEW f \in Filter PROVE Count(subs[f], s) <= Count(list, f)
      <4>1. Count(list, f) \in Nat /\ Held(f, s) \in Nat
        BY <2>0, CountIs
      <4>2. CASE Live(s)
        <5>1. Fits(pc[s], work[s].filter, f, Count(list, f), Held(f, s))
          BY <3>1, <4>2 DEF GrantInv, SessionOK, Slots
        <5> QED
          BY <4>1, <5>1 DEF Fits, Held
      <4>3. CASE ~Live(s)
        BY <3>1, <4>3 DEF GrantInv, SessionOK, Slots, Held
      <4> QED
        BY <4>2, <4>3
    <3>3. Len(list) <= MaxSubs
      <4>1. Len(<< >>) = 0 /\ MaxSubs \in Nat
        BY DEF BrokerAssumption
      <4> QED
        BY <2>0, <3>1, <4>1 DEF GrantInv, LimitOK, Left
    <3> DEFINE n == Cardinality(UNION {{f} \X {i \in DOMAIN subs[f] : subs[f][i] = s} : f \in Filter})
    <3>4. n \in 0 .. Len(list)
      BY <2>0, <3>2, HandlesBound
    <3>5. Len(list) \in Nat /\ MaxSubs \in Nat
      BY LenProperties DEF BrokerAssumption
    <3> HIDE DEF n
    <3> QED
      BY <3>3, <3>4, <3>5 DEF n
  <2> QED
    BY <2>1, <2>2, <2>3 DEF SlotsExact
<1> QED
    BY <1>1, GrantInvariance, PTL

=============================================================================
