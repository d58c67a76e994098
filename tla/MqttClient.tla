----------------------------- MODULE MqttClient -----------------------------
(***************************************************************************)
(* The mqtt0 client (rust/mqtt0/src/client.rs): connecting, the requests,  *)
(* recv and the keep-alive task on one connection.                         *)
(*                                                                         *)
(* Tasks share the Client.  `reader` and `writer` are tokio mutexes: the   *)
(* head of `readers` holds the read half until a packet has come, the rest *)
(* wait in order; a write is one step.  The v4 and v5 variants differ in   *)
(* packet types only.  The server (external) answers as the broker's       *)
(* client loop does, request by request, and delivers messages in between. *)
(***************************************************************************)
EXTENDS Integers, Sequences, FiniteSets, SequenceTheorems, TLAPS

CONSTANTS
    Task,           \* tasks that call the client
    ClientFilter,   \* filters that are asked for
    Granted,        \* filters the server grants
    PkidMod,        \* packet identifiers are u16, kept modulo this
    MaxRequests,    \* bound: subscribe and unsubscribe calls
    MaxDelivered,   \* bound: messages the server delivers
    MaxPings,       \* bound: pings the keep-alive task sends
    Exclusive       \* docs/en/lib/mqtt0/issues.md: no recv during a request

\* What the constants have to satisfy; assumed where the module is instantiated.
ClientAssumption == PkidMod \in Nat \ {0}

VARIABLES
    conn,       \* "new", "dialing", "open", "failed" (connect returned an error)
    up, down,   \* packets on their way to and from the server
    peer,       \* the server still has the connection
    op,         \* task -> the call it is in
    readers,    \* tasks that hold (the head) or wait for the reader lock
    next_pkid,
    running,    \* the flag shared with the keep-alive task
    keepalive,  \* "none", "sleeping", "pinging", "ended"
    requests, delivered, pings, \* how many so far
    server_subs,    \* filters the server holds for this client
    received,       \* numbers of the messages recv has returned
    results,        \* filter -> what the last subscribe for it returned
    verdict,        \* filter -> what the server last answered for it
    unexpected      \* a request has returned UnexpectedPacket

net == <<up, down, peer>>
calls == <<op, readers>>
ka == <<running, keepalive, pings>>
history == <<server_subs, received, results, verdict, unexpected>>
client_vars == <<conn, net, calls, next_pkid, ka, requests, delivered, history>>

Idle == [kind |-> "idle"]
Packet(type) == [type |-> type]

ClientInit ==
    /\ conn = "new" /\ up = << >> /\ down = << >> /\ peer = TRUE
    /\ op = [t \in Task |-> Idle] /\ readers = << >>
    /\ next_pkid = 1
    /\ running = FALSE /\ keepalive = "none"
    /\ requests = 0 /\ delivered = 0 /\ pings = 0
    /\ server_subs = {} /\ received = << >> /\ unexpected = FALSE
    /\ results = [f \in ClientFilter |-> "none"] /\ verdict = [f \in ClientFilter |-> "none"]

-----------------------------------------------------------------------------
(* Connecting.                                                             *)

\* connect_v4/v5 writes CONNECT ...
Dial ==
    /\ conn = "new"
    /\ conn' = "dialing"
    /\ up' = Append(up, Packet("connect"))
    /\ UNCHANGED <<down, peer, calls, next_pkid, ka, requests, delivered, history>>

\* ... and returns a client, whose keep-alive task it starts, when the answer is
\* a CONNACK that accepts.
ConnectDone ==
    /\ conn = "dialing"
    /\ down # << >> \/ ~peer
    /\ IF down # << >> /\ Head(down) = [type |-> "connack", ok |-> TRUE]
         THEN conn' = "open" /\ running' = TRUE /\ keepalive' = "sleeping"
         ELSE conn' = "failed" /\ UNCHANGED <<running, keepalive>>
    /\ down' = IF down = << >> THEN down ELSE Tail(down)
    /\ UNCHANGED <<up, peer, calls, next_pkid, pings, requests, delivered, history>>

-----------------------------------------------------------------------------
(* Requests.                                                               *)

Start(t) == conn = "open" /\ op[t] = Idle
Undisturbed == Exclusive => \A t \in Task : op[t] = Idle

\* subscribe and unsubscribe take the next packet identifier (fetch_add) ...
Request(t, kind, f) ==
    /\ Start(t) /\ Undisturbed /\ requests < MaxRequests
    /\ requests' = requests + 1
    /\ next_pkid' = (next_pkid + 1) % PkidMod
    /\ op' = [op EXCEPT ![t] = [kind |-> kind, filter |-> f, pkid |-> next_pkid, at |-> "write"]]
    /\ UNCHANGED <<conn, net, readers, ka, delivered, history>>

\* ... write the packet under the writer lock, or fail with the connection ...
WriteRequest(t) ==
    /\ op[t].kind \in {"subscribe", "unsubscribe"} /\ op[t].at = "write"
    /\ IF peer
         THEN /\ up' = Append(up, [type |-> op[t].kind, filter |-> op[t].filter, pkid |-> op[t].pkid])
              /\ op' = [op EXCEPT ![t].at = "lock"]
         ELSE /\ op' = [op EXCEPT ![t] = Idle]
              /\ UNCHANGED up
    /\ UNCHANGED <<conn, down, peer, readers, next_pkid, ka, requests, delivered, history>>

\* ... and queue for the reader.
LockReader(t) ==
    /\ op[t].kind \in {"subscribe", "unsubscribe"} /\ op[t].at = "lock"
    /\ op' = [op EXCEPT ![t].at = "read"]
    /\ readers' = Append(readers, t)
    /\ UNCHANGED <<conn, net, next_pkid, ka, requests, delivered, history>>

\* Not the code: any acknowledgement is taken for a grant.
SubscribeResultAny(p) == IF p.type = "suback" THEN "ok" ELSE "unexpected"

\* What subscribe makes of the packet it reads, whatever its packet identifier.
SubscribeResult(p) ==
    IF p.type = "suback" THEN IF p.ok THEN "ok" ELSE "denied" ELSE "unexpected"

AckOf(kind) == IF kind = "subscribe" THEN "suback" ELSE "unsuback"

\* The packet that comes next ends the request.
TakeReply(t) ==
    /\ readers # << >> /\ Head(readers) = t /\ down # << >>
    /\ op[t].kind \in {"subscribe", "unsubscribe"}
    /\ down' = Tail(down) /\ readers' = Tail(readers)
    /\ op' = [op EXCEPT ![t] = Idle]
    /\ results' = IF op[t].kind = "subscribe"
                  THEN [results EXCEPT ![op[t].filter] = SubscribeResult(Head(down))]
                  ELSE results
    /\ unexpected' = (unexpected \/ Head(down).type # AckOf(op[t].kind))
    /\ UNCHANGED <<conn, up, peer, next_pkid, ka, requests, delivered, server_subs, received, verdict>>

-----------------------------------------------------------------------------
(* recv.                                                                   *)

Recv(t) ==
    /\ Start(t)
    /\ Exclusive => \A u \in Task : op[u].kind \in {"idle", "recv"}
    /\ op' = [op EXCEPT ![t] = [kind |-> "recv"]]
    /\ readers' = Append(readers, t)
    /\ UNCHANGED <<conn, net, next_pkid, ka, requests, delivered, history>>

\* Not the code: a packet that is no message ends recv, and so does it the call.
TakeMessageLoses(t) ==
    /\ readers # << >> /\ Head(readers) = t /\ down # << >> /\ op[t].kind = "recv"
    /\ down' = Tail(down)
    /\ readers' = IF Head(down).type = "pingresp" THEN Append(Tail(readers), t) ELSE Tail(readers)
    /\ op' = IF Head(down).type = "pingresp" THEN op ELSE [op EXCEPT ![t] = Idle]
    /\ UNCHANGED <<conn, up, peer, next_pkid, ka, requests, delivered, server_subs, received, results, verdict, unexpected>>

\* recv_v4/v5 returns a message; on any other packet it gives the lock up and
\* queues for it again.
TakeMessage(t) ==
    LET p == Head(down) IN
    /\ readers # << >> /\ Head(readers) = t /\ down # << >> /\ op[t].kind = "recv"
    /\ down' = Tail(down)
    /\ IF p.type = "publish"
         THEN /\ readers' = Tail(readers)
              /\ op' = [op EXCEPT ![t] = Idle]
              /\ received' = Append(received, p.n)
         ELSE /\ readers' = Append(Tail(readers), t)
              /\ UNCHANGED <<op, received>>
    /\ UNCHANGED <<conn, up, peer, next_pkid, ka, requests, delivered, server_subs, results, verdict, unexpected>>

\* recv_timeout drops the call, with its place in the queue; what was read of a
\* packet stays in read_buf.
RecvTimeout(t) ==
    /\ op[t].kind = "recv"
    /\ op' = [op EXCEPT ![t] = Idle]
    /\ readers' = SelectSeq(readers, LAMBDA u : u # t)
    /\ UNCHANGED <<conn, net, next_pkid, ka, requests, delivered, history>>

\* read_packet finds the end of the stream.
ReadFails(t) ==
    /\ readers # << >> /\ Head(readers) = t /\ down = << >> /\ ~peer
    /\ readers' = Tail(readers)
    /\ op' = [op EXCEPT ![t] = Idle]
    /\ results' = IF op[t].kind = "subscribe" THEN [results EXCEPT ![op[t].filter] = "closed"]
                  ELSE results
    /\ UNCHANGED <<conn, net, next_pkid, ka, requests, delivered, server_subs, received, verdict, unexpected>>

-----------------------------------------------------------------------------
(* disconnect and the keep-alive task.                                     *)

\* Called once (bound).
Disconnect(t) ==
    /\ Start(t) /\ running
    /\ running' = FALSE
    /\ up' = IF peer THEN Append(up, Packet("disconnect")) ELSE up
    /\ UNCHANGED <<conn, down, peer, calls, next_pkid, keepalive, pings, requests, delivered, history>>

\* Not the code: the flag is not looked at.
WakeBlind ==
    /\ keepalive = "sleeping"
    /\ pings < MaxPings
    /\ keepalive' = "pinging"
    /\ pings' = pings + 1
    /\ UNCHANGED <<conn, net, calls, next_pkid, running, requests, delivered, history>>

\* keepalive_task wakes after its interval and stops when the client does ...
Wake ==
    /\ keepalive = "sleeping"
    /\ running => pings < MaxPings
    /\ keepalive' = IF running THEN "pinging" ELSE "ended"
    /\ pings' = IF running THEN pings + 1 ELSE pings
    /\ UNCHANGED <<conn, net, calls, next_pkid, running, requests, delivered, history>>

\* ... or sends PINGREQ, and stops when that fails.
Ping ==
    /\ keepalive = "pinging"
    /\ IF peer
         THEN up' = Append(up, Packet("pingreq")) /\ keepalive' = "sleeping" /\ UNCHANGED running
         ELSE running' = FALSE /\ keepalive' = "ended" /\ UNCHANGED up
    /\ UNCHANGED <<conn, down, peer, calls, next_pkid, pings, requests, delivered, history>>

-----------------------------------------------------------------------------
(* The server.                                                             *)

\* Answers the next packet: CONNACK, SUBACK, UNSUBACK, PINGRESP, or the end.
Answer ==
    LET p == Head(up) IN
    /\ peer /\ up # << >>
    /\ up' = Tail(up)
    /\ \/ /\ p.type = "connect"
          /\ \E ok \in BOOLEAN : down' = Append(down, [type |-> "connack", ok |-> ok])
          /\ UNCHANGED <<peer, server_subs, verdict>>
       \/ /\ p.type = "subscribe"
          /\ down' = Append(down, [type |-> "suback", pkid |-> p.pkid, ok |-> p.filter \in Granted])
          /\ server_subs' = server_subs \cup ({p.filter} \cap Granted)
          /\ verdict' = [verdict EXCEPT ![p.filter] = IF p.filter \in Granted THEN "ok" ELSE "denied"]
          /\ UNCHANGED peer
       \/ /\ p.type = "unsubscribe"
          /\ down' = Append(down, [type |-> "unsuback", pkid |-> p.pkid])
          /\ server_subs' = server_subs \ {p.filter}
          /\ UNCHANGED <<peer, verdict>>
       \/ /\ p.type = "pingreq"
          /\ down' = Append(down, Packet("pingresp"))
          /\ UNCHANGED <<peer, server_subs, verdict>>
       \/ /\ p.type = "disconnect"
          /\ peer' = FALSE
          /\ UNCHANGED <<down, server_subs, verdict>>
    /\ UNCHANGED <<conn, calls, next_pkid, ka, requests, delivered, received, results, unexpected>>

ServerDelivers ==
    /\ peer /\ server_subs # {} /\ delivered < MaxDelivered
    /\ delivered' = delivered + 1
    /\ down' = Append(down, [type |-> "publish", n |-> delivered + 1])
    /\ UNCHANGED <<conn, up, peer, calls, next_pkid, ka, requests, history>>

CloseByPeer ==
    /\ conn # "new" /\ peer
    /\ peer' = FALSE
    /\ UNCHANGED <<conn, up, down, calls, next_pkid, ka, requests, delivered, history>>

-----------------------------------------------------------------------------
Read(t) == TakeReply(t) \/ TakeMessage(t) \/ ReadFails(t)

ClientNext ==
    \/ Dial \/ ConnectDone \/ Wake \/ Ping \/ Answer \/ ServerDelivers \/ CloseByPeer
    \/ \E t \in Task :
        \/ \E f \in ClientFilter, kind \in {"subscribe", "unsubscribe"} : Request(t, kind, f)
        \/ WriteRequest(t) \/ LockReader(t) \/ Read(t)
        \/ Recv(t) \/ RecvTimeout(t) \/ Disconnect(t)

\* Tasks that can go on do, the keep-alive task wakes, and the server answers and
\* goes on delivering; nobody has to call anything.
ClientSpec ==
    /\ ClientInit /\ [][ClientNext]_client_vars
    /\ WF_client_vars(ConnectDone) /\ WF_client_vars(Wake) /\ WF_client_vars(Ping) /\ WF_client_vars(Answer)
    /\ \A t \in Task : WF_client_vars(WriteRequest(t)) /\ WF_client_vars(LockReader(t)) /\ WF_client_vars(Read(t))

-----------------------------------------------------------------------------
\* What subscribe returns is what the server answered for that filter: Ok means
\* granted and AclDenied means denied, although the packet identifier of the
\* SUBACK is not compared; until a request has met a packet that is not its
\* answer and said so (UnexpectedPacket), which leaves the answer behind for the
\* next request.
SubscribeTellsTruth ==
    unexpected \/ \A f \in ClientFilter : results[f] \in {"ok", "denied"} => results[f] = verdict[f]

IsMessage(p) == p.type = "publish"

\* recv hands over every message of the connection once and in order, whoever
\* calls it and however many calls time out (recv_timeout) or read other packets:
\* what was returned is older than what is still on the way, and no message is
\* missing, but for one that a request took off the stream and failed on.
NothingLost ==
    /\ \A i, j \in DOMAIN received : i < j => received[i] < received[j]
    /\ \A i, j \in DOMAIN down :
           i < j /\ IsMessage(down[i]) /\ IsMessage(down[j]) => down[i].n < down[j].n
    /\ \A i \in DOMAIN received, j \in DOMAIN down :
           IsMessage(down[j]) => received[i] < down[j].n
    /\ \/ unexpected
       \/ \A n \in 1 .. delivered : \/ \E i \in DOMAIN received : received[i] = n
                                    \/ \E j \in DOMAIN down : IsMessage(down[j]) /\ down[j].n = n

Stopped == conn = "open" /\ ~running
KeepaliveEnded == keepalive = "ended"

\* Once disconnect was called or a ping has failed the keep-alive task ends.
KeepaliveEnds == Stopped ~> KeepaliveEnded

Requesting(t) == op[t].kind = "subscribe"

\* A request returns: it is answered or sees the end of the connection.
RequestsReturn == \A t \in Task : Requesting(t) ~> op[t] = Idle

-----------------------------------------------------------------------------
(* Why subscribe tells the truth.  Packet identifiers are not compared, so *)
(* the argument is that at most one request is unanswered: its packet is   *)
(* still on the way to the server, or its answer on the way back.          *)

ReqTypes == {"subscribe", "unsubscribe"}
AckTypes == {"suback", "unsuback"}

UpPackets == [type : {"connect", "disconnect", "pingreq"}]
             \cup [type : ReqTypes, filter : ClientFilter, pkid : Nat]
DownPackets == [type : {"pingresp"}] \cup [type : {"connack"}, ok : BOOLEAN]
               \cup [type : {"suback"}, pkid : Nat, ok : BOOLEAN]
               \cup [type : {"unsuback"}, pkid : Nat] \cup [type : {"publish"}, n : Nat]
Ops == [kind : {"idle", "recv"}]
       \cup [kind : ReqTypes, filter : ClientFilter, pkid : Nat, at : {"write", "lock", "read"}]

ClientType ==
    /\ op \in [Task -> Ops] /\ up \in Seq(UpPackets) /\ down \in Seq(DownPackets)
    /\ peer \in BOOLEAN /\ unexpected \in BOOLEAN /\ next_pkid \in Nat /\ delivered \in Nat
    /\ results \in [ClientFilter -> {"none", "ok", "denied", "unexpected", "closed"}]
    /\ verdict \in [ClientFilter -> {"none", "ok", "denied"}]

\* While a task is in a request no other task is in a call.
OneRequest == \A t, u \in Task : op[t].kind \in ReqTypes /\ u # t => op[u] = Idle

\* What the server says of a filter.
Verdict(f) == IF f \in Granted THEN "ok" ELSE "denied"
VerdictOK == \A f \in ClientFilter : verdict[f] \in {"none", Verdict(f)}

\* A request that has been written and has not returned.
Waits(o) == o.kind \in ReqTypes /\ o.at \in {"lock", "read"}

\* The packets the calls o can still have on the way, given the verdicts v.
ExpectedReqs(o) ==
    {p \in UpPackets : \E t \in Task : Waits(o[t]) /\ p.type = o[t].kind /\ p.filter = o[t].filter}
ExpectedAcks(o, v) ==
    {p \in DownPackets : \E t \in Task :
        /\ Waits(o[t]) /\ p.type = AckOf(o[t].kind)
        /\ p.type = "suback" => /\ p.ok <=> o[t].filter \in Granted
                                /\ v[o[t].filter] = Verdict(o[t].filter)}

Within(q, T, X) == \A i \in DOMAIN q : q[i].type \in T => q[i] \in X
OneOf(q, T) == \A i, j \in DOMAIN q : q[i].type \in T /\ q[j].type \in T => i = j
NoneOf(q, T) == \A i \in DOMAIN q : q[i].type \notin T

DownOK == Within(down, AckTypes, ExpectedAcks(op, verdict)) /\ OneOf(down, AckTypes)
UpOK == peer => /\ Within(up, ReqTypes, ExpectedReqs(op)) /\ OneOf(up, ReqTypes)
                /\ NoneOf(up, ReqTypes) \/ NoneOf(down, AckTypes)
ResultsOK == \A f \in ClientFilter : results[f] \in {"ok", "denied"} => results[f] = verdict[f]

ClientInv == /\ ClientType /\ OneRequest /\ VerdictOK
             /\ unexpected \/ (DownOK /\ UpOK /\ ResultsOK)

-----------------------------------------------------------------------------
(* Packets on the way.                                                     *)

LEMMA Appended ==
    ASSUME NEW S, NEW q \in Seq(S), NEW e \in S
    PROVE  /\ Append(q, e) \in Seq(S)
           /\ DOMAIN Append(q, e) = DOMAIN q \cup {Len(q) + 1}
           /\ \A i \in DOMAIN q : Append(q, e)[i] = q[i]
           /\ Append(q, e)[Len(q) + 1] = e
           /\ Len(q) + 1 \notin DOMAIN q
    OBVIOUS

LEMMA Rest ==
    ASSUME NEW S, NEW q \in Seq(S), q # << >>
    PROVE  /\ Head(q) \in S /\ Tail(q) \in Seq(S) /\ 1 \in DOMAIN q /\ Head(q) = q[1]
           /\ \A i \in DOMAIN Tail(q) : i + 1 \in DOMAIN q /\ i + 1 # 1 /\ Tail(q)[i] = q[i + 1]
           /\ \A i, j \in DOMAIN Tail(q) : i + 1 = j + 1 => i = j
    OBVIOUS

\* A packet of another type changes nothing.
LEMMA AppendOther ==
    ASSUME NEW S, NEW q \in Seq(S), NEW e \in S, NEW T, e.type \notin T
    PROVE  /\ Append(q, e) \in Seq(S)
           /\ \A X : Within(q, T, X) => Within(Append(q, e), T, X)
           /\ OneOf(q, T) => OneOf(Append(q, e), T)
           /\ NoneOf(q, T) => NoneOf(Append(q, e), T)
<1> DEFINE a == Append(q, e)
<1>1. /\ a \in Seq(S) /\ DOMAIN a = DOMAIN q \cup {Len(q) + 1}
      /\ \A i \in DOMAIN q : a[i] = q[i]
      /\ a[Len(q) + 1] = e
    BY Appended
<1> HIDE DEF a
<1>2. \A X : Within(q, T, X) => Within(a, T, X)
    BY <1>1 DEF Within
<1>3. OneOf(q, T) => OneOf(a, T)
    BY <1>1 DEF OneOf
<1>4. NoneOf(q, T) => NoneOf(a, T)
    BY <1>1 DEF NoneOf
<1> QED
    BY <1>1, <1>2, <1>3, <1>4 DEF a

\* The first packet of a type is the only one.
LEMMA AppendFirst ==
    ASSUME NEW S, NEW q \in Seq(S), NEW e \in S, NEW T, NEW X, NoneOf(q, T), e \in X
    PROVE  Append(q, e) \in Seq(S) /\ Within(Append(q, e), T, X) /\ OneOf(Append(q, e), T)
<1> DEFINE a == Append(q, e)
<1>1. /\ a \in Seq(S) /\ DOMAIN a = DOMAIN q \cup {Len(q) + 1}
      /\ \A i \in DOMAIN q : a[i] = q[i]
      /\ a[Len(q) + 1] = e
    BY Appended
<1> HIDE DEF a
<1>2. Within(a, T, X)
    BY <1>1 DEF Within, NoneOf
<1>3. OneOf(a, T)
    BY <1>1 DEF OneOf, NoneOf
<1> QED
    BY <1>1, <1>2, <1>3 DEF a

\* Taking the packet in front.
LEMMA TailKeeps ==
    ASSUME NEW S, NEW q \in Seq(S), q # << >>, NEW T
    PROVE  /\ Tail(q) \in Seq(S) /\ Head(q) \in S
           /\ \A X : Within(q, T, X) =>
                 Within(Tail(q), T, X) /\ (Head(q).type \in T => Head(q) \in X)
           /\ OneOf(q, T) => OneOf(Tail(q), T) /\ (Head(q).type \in T => NoneOf(Tail(q), T))
           /\ NoneOf(q, T) => NoneOf(Tail(q), T) /\ Head(q).type \notin T
<1> DEFINE r == Tail(q)
<1>1. /\ Head(q) \in S /\ r \in Seq(S) /\ 1 \in DOMAIN q /\ Head(q) = q[1]
      /\ \A i \in DOMAIN r : i + 1 \in DOMAIN q /\ i + 1 # 1 /\ r[i] = q[i + 1]
      /\ \A i, j \in DOMAIN r : i + 1 = j + 1 => i = j
    BY Rest
<1> HIDE DEF r
<1>2. \A X : Within(q, T, X) => Within(r, T, X) /\ (Head(q).type \in T => Head(q) \in X)
    BY <1>1 DEF Within
<1>3. OneOf(q, T) => OneOf(r, T)
    BY <1>1 DEF OneOf
<1>4. OneOf(q, T) /\ Head(q).type \in T => NoneOf(r, T)
    BY <1>1 DEF OneOf, NoneOf
<1>5. NoneOf(q, T) => NoneOf(r, T) /\ Head(q).type \notin T
    BY <1>1 DEF NoneOf
<1> QED
    BY <1>1, <1>2, <1>3, <1>4, <1>5 DEF r

LEMMA NoneIsWithin ==
    ASSUME NEW q, NEW T, NEW X, NoneOf(q, T)
    PROVE  Within(q, T, X) /\ OneOf(q, T)
    BY DEF NoneOf, Within, OneOf

LEMMA WithinGrows ==
    ASSUME NEW q, NEW T, NEW X, NEW Y, X \subseteq Y, Within(q, T, X)
    PROVE  Within(q, T, Y)
    BY DEF Within

\* A step after which every waiting call still waits for the same answer keeps
\* what is expected.
LEMMA ExpectGrows ==
    ASSUME NEW o, NEW n, NEW v,
           \A t \in Task : Waits(o[t]) =>
               Waits(n[t]) /\ n[t].kind = o[t].kind /\ n[t].filter = o[t].filter
    PROVE  ExpectedReqs(o) \subseteq ExpectedReqs(n) /\ ExpectedAcks(o, v) \subseteq ExpectedAcks(n, v)
<1>1. ExpectedReqs(o) \subseteq ExpectedReqs(n)
    BY DEF ExpectedReqs
<1>2. ExpectedAcks(o, v) \subseteq ExpectedAcks(n, v)
    BY DEF ExpectedAcks
<1> QED
    BY <1>1, <1>2

\* Nothing is expected when nobody waits.
LEMMA NobodyWaits ==
    ASSUME NEW o, NEW v, \A t \in Task : ~Waits(o[t])
    PROVE  /\ \A q : Within(q, ReqTypes, ExpectedReqs(o)) => NoneOf(q, ReqTypes)
           /\ \A q : Within(q, AckTypes, ExpectedAcks(o, v)) => NoneOf(q, AckTypes)
<1>1. ExpectedReqs(o) = {} /\ ExpectedAcks(o, v) = {}
    BY DEF ExpectedReqs, ExpectedAcks
<1> QED
    BY <1>1 DEF Within, NoneOf

\* Records of calls and packets.
LEMMA Records ==
    /\ Idle \in Ops /\ [kind |-> "recv"] \in Ops /\ ~Waits(Idle) /\ ~Waits([kind |-> "recv"])
    /\ Idle.kind = "idle"
    /\ \A type \in {"connect", "disconnect", "pingreq"} :
          Packet(type) \in UpPackets /\ Packet(type).type \notin ReqTypes
    /\ Packet("pingresp") \in DownPackets /\ Packet("pingresp").type \notin AckTypes
    BY DEF Idle, Ops, Waits, Packet, UpPackets, DownPackets, ReqTypes, AckTypes

-----------------------------------------------------------------------------
(* The invariant.                                                          *)

LEMMA InitClientInv == ClientInit => ClientInv
<1> SUFFICES ASSUME ClientInit PROVE ClientInv
    OBVIOUS
<1>1. ClientType
  <2>1. << >> \in Seq(UpPackets) /\ << >> \in Seq(DownPackets)
    OBVIOUS
  <2>2. [t \in Task |-> Idle] \in [Task -> Ops]
    BY Records
  <2> QED
    BY <2>1, <2>2 DEF ClientInit, ClientType
<1>2. OneRequest
    BY DEF ClientInit, OneRequest, Idle, ReqTypes
<1>3. VerdictOK
    BY DEF ClientInit, VerdictOK
<1>4. NoneOf(up, ReqTypes) /\ NoneOf(down, AckTypes)
    BY DEF ClientInit, NoneOf
<1>5. ResultsOK
    BY DEF ClientInit, ResultsOK
<1> QED
    BY <1>1, <1>2, <1>3, <1>4, <1>5, NoneIsWithin DEF ClientInv, DownOK, UpOK

\* Steps of the connection, the keep-alive task and the server that only put
\* packets of other types on the way or take some off.
LEMMA DialIInv == ASSUME ClientInv, Dial PROVE ClientInv'
<1>1. Packet("connect") \in UpPackets /\ Packet("connect").type \notin ReqTypes
    BY Records
<1>2. ClientType' /\ OneRequest' /\ VerdictOK' /\ ResultsOK' = ResultsOK /\ DownOK' = DownOK
    BY <1>1, AppendOther DEF ClientInv, Dial, calls, ka, history, ClientType, OneRequest, VerdictOK, ResultsOK, DownOK
<1>3. UpOK => UpOK'
    BY <1>1, AppendOther DEF ClientInv, Dial, calls, ka, history, ClientType, UpOK
<1> QED
    BY <1>2, <1>3 DEF ClientInv, Dial, history

LEMMA ConnectIInv == ASSUME ClientInv, ConnectDone PROVE ClientInv'
<1> USE DEF ConnectDone, calls, history
<1>1. down' = down \/ (down # << >> /\ down' = Tail(down))
    OBVIOUS
<1>2. ClientType' /\ OneRequest' /\ VerdictOK' /\ ResultsOK' = ResultsOK
    BY <1>1, TailKeeps DEF ClientInv, ClientType, OneRequest, VerdictOK, ResultsOK
<1>3. DownOK => DownOK'
    BY <1>1, TailKeeps DEF ClientInv, ClientType, DownOK
<1>4. UpOK => UpOK'
    BY <1>1, TailKeeps DEF ClientInv, ClientType, UpOK
<1> QED
    BY <1>2, <1>3, <1>4 DEF ClientInv

LEMMA PingIInv == ASSUME ClientInv, Wake \/ Ping PROVE ClientInv'
<1>1. Packet("pingreq") \in UpPackets /\ Packet("pingreq").type \notin ReqTypes
    BY Records
<1>2. /\ up' = up \/ up' = Append(up, Packet("pingreq"))
      /\ UNCHANGED <<down, peer, op, next_pkid, delivered, results, verdict, unexpected>>
    BY DEF Wake, Ping, calls, net, history
<1>3. ClientType' /\ OneRequest' /\ VerdictOK' /\ ResultsOK' = ResultsOK /\ DownOK' = DownOK
    BY <1>1, <1>2, AppendOther DEF ClientInv, ClientType, OneRequest, VerdictOK, ResultsOK, DownOK
<1>4. /\ \A X : Within(up, ReqTypes, X) => Within(up', ReqTypes, X)
      /\ OneOf(up, ReqTypes) => OneOf(up', ReqTypes)
      /\ NoneOf(up, ReqTypes) => NoneOf(up', ReqTypes)
  <2>1. CASE up' = up
    BY <2>1
  <2>2. CASE up' = Append(up, Packet("pingreq"))
    BY <1>1, <2>2, AppendOther DEF ClientInv, ClientType
  <2> QED
    BY <1>2, <2>1, <2>2
<1>5. UpOK => UpOK'
    BY <1>2, <1>4 DEF UpOK
<1> QED
    BY <1>2, <1>3, <1>5 DEF ClientInv

LEMMA DisconnectIInv == ASSUME ClientInv, NEW t \in Task, Disconnect(t) PROVE ClientInv'
<1> USE DEF Disconnect, calls, history
<1>1. Packet("disconnect") \in UpPackets /\ Packet("disconnect").type \notin ReqTypes
    BY Records
<1>2. ClientType' /\ OneRequest' /\ VerdictOK' /\ ResultsOK' = ResultsOK /\ DownOK' = DownOK
    BY <1>1, AppendOther DEF ClientInv, ClientType, OneRequest, VerdictOK, ResultsOK, DownOK
<1>3. UpOK => UpOK'
    BY <1>1, AppendOther DEF ClientInv, ClientType, UpOK
<1> QED
    BY <1>2, <1>3 DEF ClientInv

LEMMA DeliverIInv == ASSUME ClientInv, ServerDelivers PROVE ClientInv'
<1> USE DEF ServerDelivers, calls, history
<1> DEFINE e == [type |-> "publish", n |-> delivered + 1]
<1>1. e \in DownPackets /\ e.type \notin AckTypes /\ delivered + 1 \in Nat
    BY DEF ClientInv, ClientType, DownPackets, AckTypes
<1>2. down' = Append(down, e)
    OBVIOUS
<1> HIDE DEF e
<1>3. ClientType' /\ OneRequest' /\ VerdictOK' /\ ResultsOK' = ResultsOK
    BY <1>1, <1>2, AppendOther DEF ClientInv, ClientType, OneRequest, VerdictOK, ResultsOK
<1>4. DownOK => DownOK'
    BY <1>1, <1>2, AppendOther DEF ClientInv, ClientType, DownOK
<1>5. NoneOf(down, AckTypes) => NoneOf(down', AckTypes)
    BY <1>1, <1>2, AppendOther DEF ClientInv, ClientType
<1>6. UpOK => UpOK'
    BY <1>5 DEF UpOK
<1> QED
    BY <1>3, <1>4, <1>6 DEF ClientInv

LEMMA CloseByPeerIInv == ASSUME ClientInv, CloseByPeer PROVE ClientInv'
    BY DEF ClientInv, CloseByPeer, calls, history, ClientType, OneRequest, VerdictOK, ResultsOK, DownOK, UpOK

\* The server's answer.  An acknowledgement takes the place of its request.
LEMMA AnswerIInv == ASSUME ClientInv, Answer PROVE ClientInv'
<1> USE DEF calls, history
<1> DEFINE p == Head(up)
<1>1. /\ peer /\ up # << >> /\ up' = Tail(up) /\ op' = op /\ results' = results
      /\ unexpected' = unexpected /\ next_pkid' = next_pkid /\ delivered' = delivered
    BY DEF Answer
<1>2. p \in UpPackets /\ up' \in Seq(UpPackets) /\ down \in Seq(DownPackets)
    BY <1>1, TailKeeps DEF ClientInv, ClientType
<1>3. OneRequest'
    BY <1>1 DEF ClientInv, OneRequest
<1>4. CASE /\ p.type \notin ReqTypes /\ UNCHANGED <<server_subs, verdict>>
           /\ \/ /\ UNCHANGED peer
                 /\ \E e \in DownPackets : e.type \notin AckTypes /\ down' = Append(down, e)
              \/ peer' = FALSE /\ down' = down
  <2>1. down' \in Seq(DownPackets) /\ (NoneOf(down, AckTypes) => NoneOf(down', AckTypes))
    BY <1>2, <1>4, AppendOther
  <2>2. ClientType' /\ VerdictOK' /\ ResultsOK' = ResultsOK
    BY <1>1, <1>2, <1>4, <2>1 DEF ClientInv, ClientType, VerdictOK, ResultsOK
  <2>3. DownOK => DownOK'
    BY <1>1, <1>2, <1>4, AppendOther DEF DownOK
  <2>4. ASSUME UpOK PROVE UpOK'
    <3>1. /\ Within(up', ReqTypes, ExpectedReqs(op)) /\ OneOf(up', ReqTypes)
          /\ NoneOf(up, ReqTypes) => NoneOf(up', ReqTypes)
      BY <1>1, <2>4, TailKeeps DEF ClientInv, ClientType, UpOK
    <3> QED
      BY <1>1, <2>1, <2>4, <3>1 DEF UpOK
  <2> QED
    BY <1>1, <1>3, <2>2, <2>3, <2>4 DEF ClientInv
<1>5. CASE /\ p.type = "unsubscribe" /\ UNCHANGED <<peer, verdict>>
           /\ down' = Append(down, [type |-> "unsuback", pkid |-> p.pkid])
  <2> DEFINE e == [type |-> "unsuback", pkid |-> p.pkid]
  <2>1. e \in DownPackets /\ e.type = "unsuback" /\ "unsuback" \in AckTypes /\ p.type \in ReqTypes
    BY <1>2, <1>5 DEF UpPackets, DownPackets, AckTypes, ReqTypes
  <2>2. down' = Append(down, e)
    BY <1>5
  <2> HIDE DEF e
  <2>3. ClientType' /\ VerdictOK' /\ ResultsOK' = ResultsOK
    BY <1>1, <1>2, <1>5, <2>1, <2>2, Appended DEF ClientInv, ClientType, VerdictOK, ResultsOK
  <2>4. ASSUME DownOK, UpOK PROVE DownOK' /\ UpOK'
    <3>1. p \in ExpectedReqs(op) /\ NoneOf(up', ReqTypes) /\ NoneOf(down, AckTypes)
      BY <1>1, <1>2, <2>1, <2>4, TailKeeps DEF ClientInv, ClientType, UpOK
    <3>2. e \in ExpectedAcks(op, verdict)
      BY <2>1, <3>1, <1>5 DEF ExpectedReqs, ExpectedAcks, AckOf
    <3> QED
      BY <1>1, <1>2, <1>5, <2>1, <2>2, <3>1, <3>2, AppendFirst, NoneIsWithin DEF DownOK, UpOK
  <2> QED
    BY <1>1, <1>3, <2>3, <2>4 DEF ClientInv
<1>6. CASE /\ p.type = "subscribe" /\ UNCHANGED peer
           /\ down' = Append(down, [type |-> "suback", pkid |-> p.pkid, ok |-> p.filter \in Granted])
           /\ verdict' = [verdict EXCEPT ![p.filter] = Verdict(p.filter)]
  <2> DEFINE e == [type |-> "suback", pkid |-> p.pkid, ok |-> p.filter \in Granted]
  <2>a. p.filter \in ClientFilter /\ p.pkid \in Nat /\ "suback" \in AckTypes /\ p.type \in ReqTypes
    BY <1>2, <1>6 DEF UpPackets, AckTypes, ReqTypes
  <2>b. \A ok \in BOOLEAN : [type |-> "suback", pkid |-> p.pkid, ok |-> ok] \in DownPackets
    BY <2>a DEF DownPackets
  <2>c. (p.filter \in Granted) \in BOOLEAN
    OBVIOUS
  <2>1. e \in DownPackets /\ e.type = "suback" /\ (e.ok <=> p.filter \in Granted)
    <3>1. e \in DownPackets
      BY <2>b, <2>c, Zenon
    <3>2. e.type = "suback" /\ e.ok = (p.filter \in Granted)
      OBVIOUS
    <3> QED
      BY <3>1, <3>2
  <2>2. down' = Append(down, e)
    BY <1>6
  <2> HIDE DEF e
  <2>3. ClientType'
    BY <1>1, <1>2, <1>6, <2>a, <2>1, <2>2, Appended DEF ClientInv, ClientType, Verdict
  <2>4. VerdictOK' /\ verdict'[p.filter] = Verdict(p.filter)
    BY <1>6, <2>a DEF ClientInv, ClientType, VerdictOK
  <2>5. ASSUME ResultsOK PROVE ResultsOK'
    BY <1>1, <1>6, <2>5 DEF ClientInv, ClientType, VerdictOK, ResultsOK
  <2>6. ASSUME DownOK, UpOK PROVE DownOK' /\ UpOK'
    <3>1. p \in ExpectedReqs(op) /\ NoneOf(up', ReqTypes) /\ NoneOf(down, AckTypes)
      BY <1>1, <1>2, <2>a, <2>1, <2>6, TailKeeps DEF ClientInv, ClientType, UpOK
    <3>2. e \in ExpectedAcks(op, verdict')
      BY <2>1, <2>4, <3>1, <1>6 DEF ExpectedReqs, ExpectedAcks, AckOf
    <3> QED
      BY <1>1, <1>2, <1>6, <2>1, <2>2, <3>1, <3>2, AppendFirst, NoneIsWithin DEF DownOK, UpOK
  <2> QED
    BY <1>1, <1>3, <2>3, <2>4, <2>5, <2>6 DEF ClientInv
<1>7. \/ /\ p.type = "connect" /\ UNCHANGED <<peer, server_subs, verdict>>
         /\ \E ok \in BOOLEAN : down' = Append(down, [type |-> "connack", ok |-> ok])
      \/ /\ p.type = "pingreq" /\ UNCHANGED <<peer, server_subs, verdict>>
         /\ down' = Append(down, Packet("pingresp"))
      \/ p.type = "disconnect" /\ peer' = FALSE /\ UNCHANGED <<down, server_subs, verdict>>
      \/ /\ p.type = "unsubscribe" /\ UNCHANGED <<peer, verdict>>
         /\ down' = Append(down, [type |-> "unsuback", pkid |-> p.pkid])
      \/ /\ p.type = "subscribe" /\ UNCHANGED peer
         /\ down' = Append(down, [type |-> "suback", pkid |-> p.pkid, ok |-> p.filter \in Granted])
         /\ verdict' = [verdict EXCEPT ![p.filter] = Verdict(p.filter)]
    BY DEF Answer, Verdict
<1>8. /\ \A ok \in BOOLEAN : /\ [type |-> "connack", ok |-> ok] \in DownPackets
                             /\ [type |-> "connack", ok |-> ok].type \notin AckTypes
      /\ Packet("pingresp") \in DownPackets /\ Packet("pingresp").type \notin AckTypes
      /\ "connect" \notin ReqTypes /\ "pingreq" \notin ReqTypes /\ "disconnect" \notin ReqTypes
    BY Records DEF DownPackets, AckTypes, ReqTypes
<1> HIDE DEF p
<1> QED
    BY <1>4, <1>5, <1>6, <1>7, <1>8

\* The calls of tasks.  A step that moves one task, in no request before it, and
\* leaves the packets alone.
LEMMA RequestIInv ==
    ASSUME ClientAssumption, Exclusive, ClientInv, NEW t \in Task, NEW f \in ClientFilter, NEW kind \in ReqTypes,
           Request(t, kind, f)
    PROVE  ClientInv'
<1> USE DEF Request, net, history
<1> DEFINE o == [kind |-> kind, filter |-> f, pkid |-> next_pkid, at |-> "write"]
<1>1. o \in Ops /\ ~Waits(o)
    BY DEF ClientInv, ClientType, Ops, Waits
<1>2. op' = [op EXCEPT ![t] = o] /\ next_pkid' \in Nat
    BY DEF ClientAssumption, ClientInv, ClientType
<1>3. \A u \in Task : op[u] = Idle /\ ~Waits(op[u])
    BY Records DEF Undisturbed
<1> HIDE DEF o
<1>4. ClientType' /\ VerdictOK' /\ ResultsOK' = ResultsOK
    BY <1>1, <1>2 DEF ClientInv, ClientType, VerdictOK, ResultsOK
<1>5. OneRequest'
    BY <1>2, <1>3, Records DEF ClientInv, ClientType, OneRequest, ReqTypes
<1>6. ASSUME DownOK, UpOK PROVE DownOK' /\ UpOK'
  <2>1. NoneOf(down, AckTypes) /\ (peer => NoneOf(up, ReqTypes))
    BY <1>3, <1>6, NobodyWaits DEF DownOK, UpOK
  <2> QED
    BY <2>1, NoneIsWithin DEF DownOK, UpOK
<1> QED
    BY <1>4, <1>5, <1>6 DEF ClientInv

LEMMA WriteRequestIInv == ASSUME ClientInv, NEW t \in Task, WriteRequest(t) PROVE ClientInv'
<1> USE DEF history
<1> DEFINE e == [type |-> op[t].kind, filter |-> op[t].filter, pkid |-> op[t].pkid]
<1>1. /\ op[t].kind \in ReqTypes /\ op[t].at = "write" /\ ~Waits(op[t])
      /\ UNCHANGED <<down, peer, next_pkid, delivered, results, verdict, unexpected>>
    BY DEF WriteRequest, ReqTypes, Waits
<1>2. /\ op[t].filter \in ClientFilter /\ e \in UpPackets /\ e.type = op[t].kind /\ e.filter = op[t].filter
      /\ [op[t] EXCEPT !.at = "lock"] \in Ops
    BY <1>1 DEF ClientInv, ClientType, Ops, UpPackets, ReqTypes
<1>3. /\ Waits([op[t] EXCEPT !.at = "lock"]) /\ [op[t] EXCEPT !.at = "lock"].kind = op[t].kind
      /\ [op[t] EXCEPT !.at = "lock"].filter = op[t].filter
    BY <1>1 DEF ClientInv, ClientType, Ops, Waits, ReqTypes
<1>4. \/ peer /\ up' = Append(up, e) /\ op' = [op EXCEPT ![t] = [op[t] EXCEPT !.at = "lock"]]
      \/ ~peer /\ up' = up /\ op' = [op EXCEPT ![t] = Idle]
    BY DEF WriteRequest, ClientInv, ClientType
<1> HIDE DEF e
<1>9. up' \in Seq(UpPackets) /\ op' \in [Task -> Ops]
  <2>1. up \in Seq(UpPackets) /\ op \in [Task -> Ops] /\ Idle \in Ops
    BY Records DEF ClientInv, ClientType
  <2>2. Append(up, e) \in Seq(UpPackets)
    BY <1>2, <2>1, Appended
  <2>3. \A n \in Ops : [op EXCEPT ![t] = n] \in [Task -> Ops]
    BY <2>1
  <2> QED
    BY <1>2, <1>4, <2>1, <2>2, <2>3
<1>5. ClientType' /\ VerdictOK' /\ ResultsOK' = ResultsOK
    BY <1>1, <1>9 DEF ClientInv, ClientType, VerdictOK, ResultsOK
<1>6. \A u \in Task : u # t => op[u] = Idle /\ ~Waits(op[u])
    BY <1>1, Records DEF ClientInv, OneRequest
<1>7. OneRequest'
    BY <1>1, <1>4, <1>6, Records DEF ClientInv, ClientType, OneRequest, ReqTypes
<1>8. ASSUME DownOK, UpOK PROVE DownOK' /\ UpOK'
  <2>1. NoneOf(down, AckTypes) /\ (peer => NoneOf(up, ReqTypes))
    BY <1>1, <1>6, <1>8, NobodyWaits DEF DownOK, UpOK
  <2>2. DownOK'
    BY <1>1, <2>1, NoneIsWithin DEF DownOK
  <2>3. ASSUME peer
        PROVE  Within(up', ReqTypes, ExpectedReqs(op')) /\ OneOf(up', ReqTypes)
    <3>1. op'[t] = [op[t] EXCEPT !.at = "lock"]
      BY <1>4, <2>3 DEF ClientInv, ClientType
    <3>2. e \in ExpectedReqs(op')
      BY <1>2, <1>3, <3>1 DEF ExpectedReqs
    <3>3. up \in Seq(UpPackets) /\ up' = Append(up, e) /\ e \in UpPackets /\ NoneOf(up, ReqTypes)
      BY <1>2, <1>4, <2>1, <2>3 DEF ClientInv, ClientType
    <3> QED
      BY <3>2, <3>3, AppendFirst
  <2> QED
    BY <1>1, <2>1, <2>2, <2>3 DEF UpOK
<1> QED
    BY <1>1, <1>5, <1>7, <1>8 DEF ClientInv

LEMMA LockReaderIInv == ASSUME ClientInv, NEW t \in Task, LockReader(t) PROVE ClientInv'
<1> USE DEF net, history
<1> DEFINE o == [op[t] EXCEPT !.at = "read"]
<1>1. /\ op[t].kind \in ReqTypes /\ Waits(op[t]) /\ op' = [op EXCEPT ![t] = o]
      /\ UNCHANGED <<down, up, peer, next_pkid, delivered, results, verdict, unexpected>>
    BY DEF LockReader, ReqTypes, Waits, ClientInv, ClientType
<1>2. o \in Ops /\ Waits(o) /\ o.kind = op[t].kind /\ o.filter = op[t].filter
    BY <1>1 DEF ClientInv, ClientType, Ops, ReqTypes, Waits
<1> HIDE DEF o
<1>3. ClientType' /\ VerdictOK' /\ ResultsOK' = ResultsOK
    BY <1>1, <1>2 DEF ClientInv, ClientType, VerdictOK, ResultsOK
<1>9. \A u \in Task : u # t => op[u] = Idle
    BY <1>1 DEF ClientInv, OneRequest
<1>4. OneRequest'
    BY <1>1, <1>2, <1>9, Records DEF ClientInv, ClientType, OneRequest, ReqTypes
<1>5. ExpectedReqs(op) \subseteq ExpectedReqs(op') /\ ExpectedAcks(op, verdict) \subseteq ExpectedAcks(op', verdict)
    BY <1>1, <1>2, ExpectGrows DEF ClientInv, ClientType
<1>6. DownOK => DownOK'
    BY <1>1, <1>5, WithinGrows DEF DownOK
<1>7. UpOK => UpOK'
    BY <1>1, <1>5, WithinGrows DEF UpOK
<1> QED
    BY <1>1, <1>3, <1>4, <1>6, <1>7 DEF ClientInv

\* The reply in front of a request: an acknowledgement is its own, since no other
\* can be on the way.
LEMMA TakeReplyIInv == ASSUME ClientInv, NEW t \in Task, TakeReply(t) PROVE ClientInv'
<1> DEFINE p == Head(down)
           res == SubscribeResult(p)
<1>1. /\ op[t].kind \in ReqTypes /\ down # << >> /\ down' = Tail(down) /\ op' = [op EXCEPT ![t] = Idle]
      /\ results' = IF op[t].kind = "subscribe" THEN [results EXCEPT ![op[t].filter] = res] ELSE results
      /\ unexpected' = (unexpected \/ p.type # AckOf(op[t].kind))
      /\ UNCHANGED <<up, peer, next_pkid, delivered, verdict>>
    BY DEF TakeReply, ReqTypes
<1>2. op[t].filter \in ClientFilter /\ AckOf(op[t].kind) \in AckTypes
    BY <1>1 DEF ClientInv, ClientType, Ops, ReqTypes, AckOf, AckTypes
<1>3. p \in DownPackets /\ down' \in Seq(DownPackets)
    BY <1>1, TailKeeps DEF ClientInv, ClientType
<1>4. /\ res \in {"ok", "denied", "unexpected"}
      /\ p.type = "suback" => (res = "ok" /\ p.ok) \/ (res = "denied" /\ ~p.ok)
    BY DEF SubscribeResult
<1> HIDE DEF p, res
<1>5. ClientType' /\ VerdictOK'
    BY <1>1, <1>2, <1>3, <1>4, Records DEF ClientInv, ClientType, VerdictOK
<1>6. \A u \in Task : u # t => op[u] = Idle /\ ~Waits(op[u])
    BY <1>1, Records DEF ClientInv, OneRequest
<1>7. OneRequest'
    BY <1>1, <1>6, Records DEF ClientInv, ClientType, OneRequest, ReqTypes
<1>8. ASSUME DownOK, UpOK, ResultsOK, p.type = AckOf(op[t].kind)
      PROVE  DownOK' /\ UpOK' /\ ResultsOK'
  <2>1. p \in ExpectedAcks(op, verdict) /\ NoneOf(down', AckTypes) /\ ~NoneOf(down, AckTypes)
    BY <1>1, <1>2, <1>8, TailKeeps DEF ClientInv, ClientType, DownOK, p
  <2>2. peer => NoneOf(up, ReqTypes)
    BY <1>8, <2>1 DEF UpOK
  <2>3. DownOK' /\ UpOK'
    BY <1>1, <2>1, <2>2, NoneIsWithin DEF DownOK, UpOK
  <2>4. p.type = "suback" => /\ p.ok <=> op[t].filter \in Granted
                             /\ verdict[op[t].filter] = Verdict(op[t].filter)
    BY <1>6, <2>1 DEF ExpectedAcks
  <2>5. op[t].kind = "subscribe" => res = verdict[op[t].filter]
    BY <1>4, <1>8, <2>4 DEF AckOf, Verdict
  <2>6. ResultsOK'
    BY <1>1, <1>2, <1>8, <2>5 DEF ClientInv, ClientType, ResultsOK
  <2> QED
    BY <2>3, <2>6
<1> QED
    BY <1>1, <1>5, <1>7, <1>8 DEF ClientInv

\* recv: the task is in no request, before or after.
LEMMA RecvStep ==
    ASSUME ClientInv, NEW t \in Task, NEW o \in {Idle, [kind |-> "recv"]},
           op[t].kind \notin ReqTypes, op' = [op EXCEPT ![t] = o],
           (\A u \in Task : op[u].kind \notin ReqTypes) \/ o = Idle,
           down' = down \/ (down # << >> /\ down' = Tail(down)),
           UNCHANGED <<up, peer, next_pkid, delivered, results, verdict, unexpected>>
    PROVE  ClientInv'
<1>1. o \in Ops /\ o.kind \notin ReqTypes /\ ~Waits(op[t])
    BY Records DEF Waits, ReqTypes, Idle
<1>2. ClientType' /\ VerdictOK' /\ ResultsOK' = ResultsOK
    BY <1>1, TailKeeps DEF ClientInv, ClientType, VerdictOK, ResultsOK
<1>3. OneRequest'
    BY <1>1 DEF ClientInv, ClientType, OneRequest
<1>4. ExpectedReqs(op) \subseteq ExpectedReqs(op') /\ ExpectedAcks(op, verdict) \subseteq ExpectedAcks(op', verdict)
    BY <1>1, ExpectGrows DEF ClientInv, ClientType
<1>5. /\ \A X : Within(down, AckTypes, X) => Within(down', AckTypes, X)
      /\ OneOf(down, AckTypes) => OneOf(down', AckTypes)
      /\ NoneOf(down, AckTypes) => NoneOf(down', AckTypes)
  <2>1. CASE down' = down
    BY <2>1
  <2>2. CASE down # << >> /\ down' = Tail(down)
    BY <2>2, TailKeeps DEF ClientInv, ClientType
  <2> QED
    BY <2>1, <2>2
<1>6. DownOK => DownOK'
    BY <1>4, <1>5, WithinGrows DEF DownOK
<1>7. UpOK => UpOK'
    BY <1>4, <1>5, WithinGrows DEF UpOK
<1> QED
    BY <1>2, <1>3, <1>6, <1>7 DEF ClientInv

LEMMA RecvIInv ==
    ASSUME Exclusive, ClientInv, NEW t \in Task, Recv(t) \/ TakeMessage(t) \/ RecvTimeout(t)
    PROVE  ClientInv'
<1> USE DEF net, history
<1>1. CASE Recv(t)
  <2>1. op[t].kind \notin ReqTypes /\ \A u \in Task : op[u].kind \notin ReqTypes
    BY <1>1 DEF Recv, ReqTypes
  <2> QED
    BY <1>1, <2>1, RecvStep DEF Recv
<1>2. CASE TakeMessage(t)
  <2>1. op[t].kind = "recv" /\ op[t].kind \notin ReqTypes /\ op[t] = [kind |-> "recv"]
    BY <1>2 DEF TakeMessage, ReqTypes, ClientInv, ClientType, Ops
  <2>2. op' = [op EXCEPT ![t] = Idle] \/ op' = [op EXCEPT ![t] = [kind |-> "recv"]]
    BY <1>2, <2>1 DEF TakeMessage, ClientInv, ClientType
  <2>3. /\ down # << >> /\ down' = Tail(down)
        /\ UNCHANGED <<up, peer, next_pkid, delivered, results, verdict, unexpected>>
    BY <1>2 DEF TakeMessage
  <2>4. CASE op' = [op EXCEPT ![t] = Idle]
    BY <2>1, <2>3, <2>4, RecvStep
  <2>5. CASE op' = [op EXCEPT ![t] = [kind |-> "recv"]] /\ op' # [op EXCEPT ![t] = Idle]
    <3>1. \A u \in Task : op[u].kind \notin ReqTypes
      BY <2>1, Records DEF ClientInv, OneRequest
    <3> QED
      BY <2>1, <2>3, <2>5, <3>1, RecvStep
  <2> QED
    BY <2>2, <2>4, <2>5
<1>3. CASE RecvTimeout(t)
  <2>1. op[t].kind \notin ReqTypes
    BY <1>3 DEF RecvTimeout, ReqTypes
  <2> QED
    BY <1>3, <2>1, RecvStep DEF RecvTimeout
<1> QED
    BY <1>1, <1>2, <1>3

LEMMA ReadFailsIInv == ASSUME ClientInv, NEW t \in Task, ReadFails(t) PROVE ClientInv'
<1> USE DEF net
<1>1. /\ down = << >> /\ ~peer /\ op' = [op EXCEPT ![t] = Idle]
      /\ results' = IF op[t].kind = "subscribe" THEN [results EXCEPT ![op[t].filter] = "closed"]
                    ELSE results
      /\ UNCHANGED <<down, up, peer, next_pkid, delivered, verdict, unexpected>>
    BY DEF ReadFails
<1>2. op[t].kind = "subscribe" => op[t].filter \in ClientFilter
    BY DEF ClientInv, ClientType, Ops, ReqTypes
<1>3. ClientType' /\ VerdictOK'
    BY <1>1, <1>2, Records DEF ClientInv, ClientType, VerdictOK
<1>4. OneRequest'
    BY <1>1, Records DEF ClientInv, ClientType, OneRequest, ReqTypes
<1>5. NoneOf(down', AckTypes)
    BY <1>1 DEF NoneOf
<1>6. DownOK' /\ UpOK'
    BY <1>1, <1>5, NoneIsWithin DEF DownOK, UpOK
<1>7. ResultsOK => ResultsOK'
    BY <1>1, <1>2 DEF ClientInv, ClientType, ResultsOK
<1> QED
    BY <1>1, <1>3, <1>4, <1>6, <1>7 DEF ClientInv

LEMMA NextClientInv == ASSUME ClientAssumption, Exclusive PROVE ClientInv /\ [ClientNext]_client_vars => ClientInv'
<1> SUFFICES ASSUME ClientInv, [ClientNext]_client_vars PROVE ClientInv'
    OBVIOUS
<1>1. CASE UNCHANGED client_vars
    BY <1>1 DEF client_vars, net, calls, history, ClientInv, ClientType, OneRequest, VerdictOK, DownOK, UpOK, ResultsOK
<1>2. CASE Dial \/ ConnectDone \/ Wake \/ Ping \/ Answer \/ ServerDelivers \/ CloseByPeer
    BY <1>2, DialIInv, ConnectIInv, PingIInv, AnswerIInv, DeliverIInv, CloseByPeerIInv
<1>3. ASSUME NEW t \in Task,
             \/ \E f \in ClientFilter, kind \in {"subscribe", "unsubscribe"} : Request(t, kind, f)
             \/ WriteRequest(t) \/ LockReader(t) \/ Read(t)
             \/ Recv(t) \/ RecvTimeout(t) \/ Disconnect(t)
      PROVE  ClientInv'
  <2>1. ASSUME NEW f \in ClientFilter, NEW kind \in {"subscribe", "unsubscribe"}, Request(t, kind, f)
        PROVE  ClientInv'
    BY <2>1, RequestIInv DEF ReqTypes
  <2>2. CASE WriteRequest(t) \/ LockReader(t) \/ Disconnect(t)
    BY <2>2, WriteRequestIInv, LockReaderIInv, DisconnectIInv
  <2>3. CASE TakeReply(t) \/ ReadFails(t)
    BY <2>3, TakeReplyIInv, ReadFailsIInv
  <2>4. CASE Recv(t) \/ TakeMessage(t) \/ RecvTimeout(t)
    BY <2>4, RecvIInv
  <2> QED
    BY <1>3, <2>1, <2>2, <2>3, <2>4 DEF Read
<1> QED
    BY <1>1, <1>2, <1>3 DEF ClientNext

\* Whatever the tasks, filters and bounds: what subscribe returns is what the
\* server answered for that filter, although subscribe does not compare packet
\* identifiers (client.rs: subscribe_v4, subscribe_v5), as long as the callers
\* keep to one request at a time and no recv during it, and no request has
\* reported UnexpectedPacket.
THEOREM TruthCorrect == ASSUME ClientAssumption, Exclusive PROVE ClientSpec => []SubscribeTellsTruth
<1>1. ClientInv => SubscribeTellsTruth
    BY DEF ClientInv, ResultsOK, SubscribeTellsTruth
<1> QED
    BY InitClientInv, NextClientInv, <1>1, PTL DEF ClientSpec

-----------------------------------------------------------------------------
(* Why nothing is lost.  Messages are numbered when the server sends them, *)
(* so that each is newer than all before it; they leave the stream at its  *)
(* head only, to recv, or to a request, which then fails.  That connect    *)
(* takes none needs that nothing is subscribed before it has returned.     *)

Messages == {"publish"}

\* Before the connection is open there are no calls and no subscriptions.
Early == conn # "open" => /\ server_subs = {} /\ delivered = 0
                          /\ NoneOf(up, ReqTypes) /\ NoneOf(down, Messages)
                          /\ \A t \in Task : op[t] = Idle

\* The parts of NothingLost, of the messages r that were received and the
\* packets d on the way.
Ordered(r, d) ==
    /\ \A i, j \in DOMAIN r : i < j => r[i] < r[j]
    /\ \A i, j \in DOMAIN d : i < j /\ IsMessage(d[i]) /\ IsMessage(d[j]) => d[i].n < d[j].n
    /\ \A i \in DOMAIN r, j \in DOMAIN d : IsMessage(d[j]) => r[i] < d[j].n
Bounded(r, d, m) == /\ \A i \in DOMAIN r : r[i] <= m
                    /\ \A j \in DOMAIN d : IsMessage(d[j]) => d[j].n <= m
Complete(r, d, m) ==
    \A n \in 1 .. m : \/ \E i \in DOMAIN r : r[i] = n
                      \/ \E j \in DOMAIN d : IsMessage(d[j]) /\ d[j].n = n

StreamOK(r, d, m, failed) == Ordered(r, d) /\ Bounded(r, d, m) /\ (failed \/ Complete(r, d, m))

LostInv == /\ ClientType /\ received \in Seq(Nat) /\ Early
           /\ StreamOK(received, down, delivered, unexpected)

\* Packets that are no messages come and go without effect.
LEMMA OtherComes ==
    ASSUME NEW r \in Seq(Nat), NEW d \in Seq(DownPackets), NEW m \in Nat, NEW failed,
           NEW e \in DownPackets, ~IsMessage(e), StreamOK(r, d, m, failed)
    PROVE  StreamOK(r, Append(d, e), m, failed)
<1> DEFINE a == Append(d, e)
<1>1. /\ DOMAIN a = DOMAIN d \cup {Len(d) + 1} /\ \A i \in DOMAIN d : a[i] = d[i]
      /\ a[Len(d) + 1] = e
    BY Appended
<1> HIDE DEF a
<1>2. Ordered(r, a)
    BY <1>1 DEF StreamOK, Ordered
<1>3. Bounded(r, a, m)
    BY <1>1 DEF StreamOK, Bounded
<1>4. Complete(r, d, m) => Complete(r, a, m)
    BY <1>1 DEF Complete
<1> QED
    BY <1>2, <1>3, <1>4 DEF StreamOK, a

\* A new message is newer than all others.
LEMMA MessageComes ==
    ASSUME NEW r \in Seq(Nat), NEW d \in Seq(DownPackets), NEW m \in Nat, NEW failed,
           NEW e \in DownPackets, IsMessage(e), e.n = m + 1, StreamOK(r, d, m, failed)
    PROVE  StreamOK(r, Append(d, e), m + 1, failed)
<1> DEFINE a == Append(d, e)
<1>1. /\ DOMAIN a = DOMAIN d \cup {Len(d) + 1} /\ \A i \in DOMAIN d : a[i] = d[i]
      /\ a[Len(d) + 1] = e /\ \A i \in DOMAIN d : i < Len(d) + 1 /\ ~(Len(d) + 1 < i)
    BY Appended
<1>2. /\ \A i \in DOMAIN r : r[i] \in Nat
      /\ \A i \in DOMAIN d : IsMessage(d[i]) => d[i].n \in Nat
    BY DEF DownPackets, IsMessage
<1> HIDE DEF a
<1>3. Bounded(r, a, m + 1)
    BY <1>1, <1>2 DEF StreamOK, Bounded
<1>4. Ordered(r, a)
  <2>1. \A i, j \in DOMAIN a : i < j /\ IsMessage(a[i]) /\ IsMessage(a[j]) => a[i].n < a[j].n
    <3> SUFFICES ASSUME NEW i \in DOMAIN a, NEW j \in DOMAIN a, i < j, IsMessage(a[i]), IsMessage(a[j])
                 PROVE  a[i].n < a[j].n
      OBVIOUS
    <3>1. i \in DOMAIN d
      BY <1>1
    <3>2. CASE j \in DOMAIN d
      BY <1>1, <3>1, <3>2 DEF StreamOK, Ordered
    <3>3. CASE j = Len(d) + 1
      <4>1. a[i] = d[i] /\ d[i].n <= m /\ d[i].n \in Nat /\ a[j].n = m + 1
        BY <1>1, <1>2, <3>1, <3>3 DEF StreamOK, Bounded
      <4> QED
        BY <4>1
    <3> QED
      BY <1>1, <3>2, <3>3
  <2>2. ASSUME NEW i \in DOMAIN r, NEW j \in DOMAIN a, IsMessage(a[j]) PROVE r[i] < a[j].n
    <3>1. CASE j \in DOMAIN d
      BY <1>1, <2>2, <3>1 DEF StreamOK, Ordered
    <3>2. CASE j = Len(d) + 1
      <4>1. r[i] <= m /\ r[i] \in Nat /\ a[j].n = m + 1
        BY <1>1, <1>2, <3>2 DEF StreamOK, Bounded
      <4> QED
        BY <4>1
    <3> QED
      BY <1>1, <3>1, <3>2
  <2> QED
    BY <2>1, <2>2 DEF StreamOK, Ordered
<1>5. ASSUME Complete(r, d, m) PROVE Complete(r, a, m + 1)
  <2> SUFFICES ASSUME NEW n \in 1 .. (m + 1)
               PROVE  \/ \E i \in DOMAIN r : r[i] = n
                      \/ \E j \in DOMAIN a : IsMessage(a[j]) /\ a[j].n = n
    BY DEF Complete
  <2>1. CASE n = m + 1
    BY <1>1, <2>1
  <2>2. CASE n \in 1 .. m
    BY <1>1, <1>5, <2>2 DEF Complete
  <2> QED
    BY <2>1, <2>2
<1> QED
    BY <1>3, <1>4, <1>5 DEF StreamOK, a

\* The packet in front is taken: a message is received, lost to a failure, or
\* it was none.
LEMMA FrontTaken ==
    ASSUME NEW r \in Seq(Nat), NEW d \in Seq(DownPackets), d # << >>, NEW m \in Nat, NEW failed,
           StreamOK(r, d, m, failed)
    PROVE  /\ Ordered(r, Tail(d)) /\ Bounded(r, Tail(d), m)
           /\ ~IsMessage(Head(d)) => StreamOK(r, Tail(d), m, failed)
           /\ IsMessage(Head(d)) => Head(d).n \in Nat /\ StreamOK(Append(r, Head(d).n), Tail(d), m, failed)
<1> DEFINE p == Head(d)
           e == Tail(d)
<1>1. /\ p \in DownPackets /\ e \in Seq(DownPackets) /\ 1 \in DOMAIN d /\ p = d[1]
      /\ \A i \in DOMAIN e : i + 1 \in DOMAIN d /\ e[i] = d[i + 1]
      /\ \A i \in DOMAIN d : i = 1 \/ (i - 1 \in DOMAIN e /\ e[i - 1] = d[i])
      /\ \A i, j \in DOMAIN e : i < j => i + 1 < j + 1
      /\ \A i \in DOMAIN e : 1 < i + 1
    OBVIOUS
<1>2. IsMessage(p) => p.n \in Nat
    BY <1>1 DEF DownPackets, IsMessage
<1> HIDE DEF p, e
<1>3. Ordered(r, e)
    BY <1>1 DEF StreamOK, Ordered
<1>4. Bounded(r, e, m)
    BY <1>1 DEF StreamOK, Bounded
<1>5. ASSUME ~IsMessage(p), Complete(r, d, m) PROVE Complete(r, e, m)
  <2>1. ASSUME NEW j \in DOMAIN d, IsMessage(d[j]) PROVE j - 1 \in DOMAIN e /\ e[j - 1] = d[j]
    BY <1>1, <1>5, <2>1
  <2> QED
    BY <1>5, <2>1 DEF Complete
<1>6. ASSUME IsMessage(p) PROVE StreamOK(Append(r, p.n), e, m, failed)
  <2> DEFINE s == Append(r, p.n)
  <2>1. /\ DOMAIN s = DOMAIN r \cup {Len(r) + 1} /\ \A i \in DOMAIN r : s[i] = r[i]
        /\ s[Len(r) + 1] = p.n /\ \A i \in DOMAIN r : i < Len(r) + 1 /\ ~(Len(r) + 1 < i)
    BY <1>2, <1>6, Appended
  <2> HIDE DEF s
  <2>2. \A i \in DOMAIN r : r[i] < p.n
    BY <1>1, <1>6 DEF StreamOK, Ordered
  <2>3. \A j \in DOMAIN e : IsMessage(e[j]) => p.n < e[j].n
    BY <1>1, <1>6 DEF StreamOK, Ordered
  <2>4. Ordered(s, e)
    BY <1>3, <2>1, <2>2, <2>3 DEF StreamOK, Ordered
  <2>5. Bounded(s, e, m)
    BY <1>1, <1>4, <1>6, <2>1 DEF StreamOK, Bounded
  <2>6. ASSUME Complete(r, d, m) PROVE Complete(s, e, m)
    <3> SUFFICES ASSUME NEW n \in 1 .. m
                 PROVE  \/ \E i \in DOMAIN s : s[i] = n
                        \/ \E j \in DOMAIN e : IsMessage(e[j]) /\ e[j].n = n
      BY DEF Complete
    <3>1. CASE \E i \in DOMAIN r : r[i] = n
      BY <2>1, <3>1
    <3>2. CASE \E j \in DOMAIN d : IsMessage(d[j]) /\ d[j].n = n
      BY <1>1, <2>1, <3>2
    <3> QED
      BY <2>6, <3>1, <3>2 DEF Complete
  <2> QED
    BY <2>4, <2>5, <2>6 DEF StreamOK, s
<1> QED
    BY <1>2, <1>3, <1>4, <1>5, <1>6 DEF StreamOK, p, e

\* Types, whether or not the callers keep to one request at a time.
LEMMA NextClientType == ASSUME ClientAssumption PROVE ClientType /\ [ClientNext]_client_vars => ClientType'
<1> SUFFICES ASSUME ClientType, [ClientNext]_client_vars PROVE ClientType'
    OBVIOUS
<1> USE DEF net, calls, ka, history
<1>a. /\ op \in [Task -> Ops] /\ up \in Seq(UpPackets) /\ down \in Seq(DownPackets)
      /\ \A t \in Task : \A o \in Ops : [op EXCEPT ![t] = o] \in [Task -> Ops]
      /\ \A e \in UpPackets : Append(up, e) \in Seq(UpPackets)
      /\ \A e \in DownPackets : Append(down, e) \in Seq(DownPackets)
      /\ up # << >> => Head(up) \in UpPackets /\ Tail(up) \in Seq(UpPackets)
      /\ down # << >> => Tail(down) \in Seq(DownPackets)
    BY DEF ClientType
<1>1. CASE UNCHANGED client_vars
    BY <1>1 DEF client_vars, ClientType
<1>2. CASE Dial \/ ConnectDone \/ Wake \/ Ping \/ CloseByPeer
    BY <1>2, <1>a, Records DEF Dial, ConnectDone, Wake, Ping, CloseByPeer, ClientType
<1>3. CASE Answer
  <2> DEFINE p == Head(up)
  <2>1. p \in UpPackets /\ up' \in Seq(UpPackets)
    BY <1>3, <1>a DEF Answer
  <2>2. p.type \in ReqTypes => p.filter \in ClientFilter /\ p.pkid \in Nat
    BY <2>1 DEF UpPackets, ReqTypes
  <2>3. /\ \A ok \in BOOLEAN : [type |-> "connack", ok |-> ok] \in DownPackets
        /\ \A ok \in BOOLEAN, k \in Nat : [type |-> "suback", pkid |-> k, ok |-> ok] \in DownPackets
        /\ \A k \in Nat : [type |-> "unsuback", pkid |-> k] \in DownPackets
    BY DEF DownPackets
  <2>4. (p.filter \in Granted) \in BOOLEAN
    OBVIOUS
  <2>5. /\ peer' \in BOOLEAN
        /\ UNCHANGED <<op, unexpected, next_pkid, delivered, results>>
    BY <1>3 DEF Answer, ClientType
  <2>6. /\ \/ down' = down
           \/ \E ok \in BOOLEAN : down' = Append(down, [type |-> "connack", ok |-> ok])
           \/ p.type = "subscribe" /\ down' = Append(down, [type |-> "suback", pkid |-> p.pkid, ok |-> p.filter \in Granted])
           \/ p.type = "unsubscribe" /\ down' = Append(down, [type |-> "unsuback", pkid |-> p.pkid])
           \/ down' = Append(down, Packet("pingresp"))
        /\ \/ verdict' = verdict
           \/ p.type = "subscribe" /\ verdict' = [verdict EXCEPT ![p.filter] = Verdict(p.filter)]
    BY <1>3 DEF Answer, Verdict
  <2>7. "subscribe" \in ReqTypes /\ "unsubscribe" \in ReqTypes
    BY DEF ReqTypes
  <2> HIDE DEF p
  <2>8. p.type = "subscribe" => [type |-> "suback", pkid |-> p.pkid, ok |-> p.filter \in Granted] \in DownPackets
    BY <2>2, <2>3, <2>4, <2>7, Zenon
  <2>9. down' \in Seq(DownPackets)
    BY <1>a, <2>2, <2>3, <2>6, <2>7, <2>8, Records
  <2>10. verdict' \in [ClientFilter -> {"none", "ok", "denied"}]
    BY <2>2, <2>6, <2>7 DEF ClientType, Verdict
  <2> QED
    BY <1>a, <2>1, <2>5, <2>9, <2>10 DEF ClientType
<1>4. CASE ServerDelivers
  <2>1. [type |-> "publish", n |-> delivered + 1] \in DownPackets /\ delivered + 1 \in Nat
    BY DEF ClientType, DownPackets
  <2> QED
    BY <1>4, <1>a, <2>1 DEF ServerDelivers, ClientType
<1>5. ASSUME NEW t \in Task, NEW f \in ClientFilter, NEW kind \in {"subscribe", "unsubscribe"}, Request(t, kind, f)
      PROVE  ClientType'
  <2>1. [kind |-> kind, filter |-> f, pkid |-> next_pkid, at |-> "write"] \in Ops
    BY DEF ClientType, Ops, ReqTypes
  <2>2. (next_pkid + 1) % PkidMod \in Nat
    BY DEF ClientAssumption, ClientType
  <2> QED
    BY <1>5, <1>a, <2>1, <2>2 DEF Request, ClientType
<1>6. ASSUME NEW t \in Task, WriteRequest(t) \/ LockReader(t) PROVE ClientType'
  <2>1. /\ op[t].kind \in ReqTypes /\ op[t] \in Ops
        /\ UNCHANGED <<down, peer, unexpected, next_pkid, delivered, results, verdict>>
    BY <1>6, <1>a DEF WriteRequest, LockReader, ReqTypes
  <2>2. /\ [type |-> op[t].kind, filter |-> op[t].filter, pkid |-> op[t].pkid] \in UpPackets
        /\ \A at \in {"lock", "read"} : [op[t] EXCEPT !.at = at] \in Ops
    BY <2>1 DEF Ops, UpPackets, ReqTypes
  <2>3. up' \in Seq(UpPackets)
    BY <1>6, <1>a, <2>2 DEF WriteRequest, LockReader
  <2>4. op' \in [Task -> Ops]
    <3>1. \/ \E at \in {"lock", "read"} : op' = [op EXCEPT ![t] = [op[t] EXCEPT !.at = at]]
          \/ op' = [op EXCEPT ![t] = Idle]
      BY <1>6, <1>a DEF WriteRequest, LockReader
    <3> QED
      BY <1>a, <2>2, <3>1, Records
  <2> QED
    BY <2>1, <2>3, <2>4 DEF ClientType
<1>7. ASSUME NEW t \in Task, TakeReply(t) PROVE ClientType'
  <2>1. op[t].filter \in ClientFilter /\ SubscribeResult(Head(down)) \in {"ok", "denied", "unexpected"}
    BY <1>7, <1>a DEF TakeReply, SubscribeResult, Ops, ReqTypes
  <2>2. /\ down' = Tail(down) /\ down # << >> /\ op' = [op EXCEPT ![t] = Idle]
        /\ results' = results \/ results' = [results EXCEPT ![op[t].filter] = SubscribeResult(Head(down))]
        /\ unexpected' \in BOOLEAN
        /\ UNCHANGED <<up, peer, next_pkid, delivered, verdict>>
    BY <1>7 DEF TakeReply, ClientType
  <2>3. results' \in [ClientFilter -> {"none", "ok", "denied", "unexpected", "closed"}]
    BY <2>1, <2>2 DEF ClientType
  <2> QED
    BY <1>a, <2>2, <2>3, Records DEF ClientType
<1>8. ASSUME NEW t \in Task, Recv(t) \/ TakeMessage(t) \/ RecvTimeout(t) \/ Disconnect(t) PROVE ClientType'
  <2>1. CASE Recv(t) \/ RecvTimeout(t)
    BY <1>a, <2>1, Records DEF Recv, RecvTimeout, ClientType
  <2>2. CASE TakeMessage(t)
    BY <1>a, <2>2, Records DEF TakeMessage, ClientType
  <2>3. CASE Disconnect(t)
    BY <1>a, <2>3, Records DEF Disconnect, ClientType
  <2> QED
    BY <1>8, <2>1, <2>2, <2>3
<1>9. ASSUME NEW t \in Task, ReadFails(t) PROVE ClientType'
  <2>1. op[t].kind = "subscribe" => op[t].filter \in ClientFilter
    BY <1>a DEF Ops, ReqTypes
  <2> QED
    BY <1>9, <1>a, <2>1, Records DEF ReadFails, ClientType
<1> QED
    BY <1>1, <1>2, <1>3, <1>4, <1>5, <1>6, <1>7, <1>8, <1>9 DEF ClientNext, Read

\* Nothing is called, asked for or delivered before the connection is open.
LEMMA NextEarly == ClientType /\ Early /\ [ClientNext]_client_vars => Early'
<1> SUFFICES ASSUME ClientType, Early, [ClientNext]_client_vars, conn' # "open" PROVE Early'
    BY DEF Early
<1> USE DEF net, calls, ka, history
<1>1. conn # "open"
  <2>1. CASE ClientNext
    BY <2>1 DEF ClientNext, Read, Dial, ConnectDone, Wake, Ping, Answer, ServerDelivers, CloseByPeer, Request, WriteRequest,
        LockReader, TakeReply, TakeMessage, ReadFails, Recv, RecvTimeout, Disconnect
  <2>2. CASE UNCHANGED client_vars
    BY <2>2 DEF client_vars
  <2> QED
    BY <2>1, <2>2
<1>2. /\ server_subs = {} /\ delivered = 0 /\ NoneOf(up, ReqTypes) /\ NoneOf(down, Messages)
      /\ \A t \in Task : op[t] = Idle /\ op[t].kind = "idle"
      /\ up \in Seq(UpPackets) /\ down \in Seq(DownPackets)
    BY <1>1, Records DEF Early, ClientType
<1>3. CASE UNCHANGED client_vars
    BY <1>2, <1>3 DEF client_vars, Early
<1>4. CASE Dial \/ ConnectDone \/ Wake \/ Ping \/ CloseByPeer
  <2>1. /\ up' = up \/ up' = Append(up, Packet("connect")) \/ up' = Append(up, Packet("pingreq"))
        /\ down' = down \/ (down # << >> /\ down' = Tail(down))
        /\ UNCHANGED <<server_subs, delivered, op>>
    BY <1>4 DEF Dial, ConnectDone, Wake, Ping, CloseByPeer
  <2>2. NoneOf(up', ReqTypes)
    BY <1>2, <2>1, AppendOther, Records
  <2>3. NoneOf(down', Messages)
    <3>1. down # << >> => NoneOf(Tail(down), Messages)
      BY <1>2, TailKeeps
    <3> QED
      BY <1>2, <2>1, <3>1
  <2> QED
    BY <1>2, <2>1, <2>2, <2>3 DEF Early
<1>5. CASE Answer
  <2> DEFINE p == Head(up)
  <2>1. p \in UpPackets /\ p.type \notin ReqTypes /\ NoneOf(up', ReqTypes)
    BY <1>2, <1>5, TailKeeps DEF Answer
  <2>2. \/ down' = down
        \/ \E ok \in BOOLEAN : down' = Append(down, [type |-> "connack", ok |-> ok])
        \/ down' = Append(down, Packet("pingresp"))
    BY <1>5, <2>1 DEF Answer, ReqTypes
  <2>3. /\ \A ok \in BOOLEAN : /\ [type |-> "connack", ok |-> ok] \in DownPackets
                               /\ [type |-> "connack", ok |-> ok].type \notin Messages
        /\ Packet("pingresp") \in DownPackets /\ Packet("pingresp").type \notin Messages
    BY DEF DownPackets, Messages, Packet
  <2>4. NoneOf(down', Messages)
    BY <1>2, <2>2, <2>3, AppendOther
  <2>5. UNCHANGED <<server_subs, delivered, op>>
    BY <1>5, <2>1 DEF Answer, ReqTypes
  <2> QED
    BY <1>2, <2>1, <2>4, <2>5 DEF Early
<1>6. ~ServerDelivers
    BY <1>2 DEF ServerDelivers
<1>7. ASSUME NEW t \in Task
      PROVE  /\ ~\E f \in ClientFilter, kind \in {"subscribe", "unsubscribe"} : Request(t, kind, f)
             /\ ~WriteRequest(t) /\ ~LockReader(t) /\ ~TakeReply(t) /\ ~TakeMessage(t)
             /\ ~Recv(t) /\ ~RecvTimeout(t) /\ ~Disconnect(t)
    BY <1>1, <1>2 DEF Request, Start, WriteRequest, LockReader, TakeReply, TakeMessage, Recv, RecvTimeout, Disconnect
<1>8. ASSUME NEW t \in Task, ReadFails(t) PROVE Early'
    BY <1>2, <1>8 DEF ReadFails, ClientType, Early
<1> QED
    BY <1>3, <1>4, <1>5, <1>6, <1>7, <1>8 DEF ClientNext, Read

LEMMA InitLostInv == ClientInit => LostInv
<1> SUFFICES ASSUME ClientInit PROVE LostInv
    OBVIOUS
<1>1. ClientType
    BY InitClientInv DEF ClientInv
<1>2. Early
    BY DEF ClientInit, Early, NoneOf
<1>3. StreamOK(received, down, delivered, unexpected)
    BY DEF ClientInit, StreamOK, Ordered, Bounded, Complete
<1> QED
    BY <1>1, <1>2, <1>3 DEF ClientInit, LostInv

LEMMA NextLostInv == ASSUME ClientAssumption PROVE LostInv /\ [ClientNext]_client_vars => LostInv'
<1> SUFFICES ASSUME LostInv, [ClientNext]_client_vars
             PROVE  received' \in Seq(Nat) /\ StreamOK(received', down', delivered', unexpected')
    BY NextClientType, NextEarly DEF LostInv
<1> USE DEF net, calls, ka, history
<1>a. /\ down \in Seq(DownPackets) /\ received \in Seq(Nat) /\ delivered \in Nat
      /\ StreamOK(received, down, delivered, unexpected)
    BY DEF LostInv, ClientType
<1>1. CASE UNCHANGED <<received, down, delivered, unexpected>>
    BY <1>1, <1>a
<1>2. CASE ConnectDone
  <2>1. NoneOf(down, Messages)
    BY <1>2 DEF ConnectDone, LostInv, Early
  <2>2. down # << >> => ~IsMessage(Head(down))
    BY <1>a, <2>1, TailKeeps DEF IsMessage, Messages
  <2> QED
    BY <1>2, <1>a, <2>2, FrontTaken DEF ConnectDone
<1>3. CASE Answer
  <2>1. /\ UNCHANGED <<received, delivered, unexpected>>
        /\ down' = down \/ \E e \in DownPackets : ~IsMessage(e) /\ down' = Append(down, e)
    <3> DEFINE p == Head(up)
    <3>1. p \in UpPackets
      BY <1>3 DEF Answer, LostInv, ClientType
    <3>2. p.type \in ReqTypes => p.filter \in ClientFilter /\ p.pkid \in Nat
      BY <3>1 DEF UpPackets, ReqTypes
    <3>3. /\ \A ok \in BOOLEAN : /\ [type |-> "connack", ok |-> ok] \in DownPackets
                                 /\ ~IsMessage([type |-> "connack", ok |-> ok])
          /\ \A ok \in BOOLEAN, k \in Nat : /\ [type |-> "suback", pkid |-> k, ok |-> ok] \in DownPackets
                                            /\ ~IsMessage([type |-> "suback", pkid |-> k, ok |-> ok])
          /\ \A k \in Nat : /\ [type |-> "unsuback", pkid |-> k] \in DownPackets
                            /\ ~IsMessage([type |-> "unsuback", pkid |-> k])
          /\ Packet("pingresp") \in DownPackets /\ ~IsMessage(Packet("pingresp"))
      BY DEF DownPackets, IsMessage, Packet
    <3>4. \/ down' = down
          \/ \E ok \in BOOLEAN : down' = Append(down, [type |-> "connack", ok |-> ok])
          \/ p.type = "subscribe" /\ down' = Append(down, [type |-> "suback", pkid |-> p.pkid, ok |-> p.filter \in Granted])
          \/ p.type = "unsubscribe" /\ down' = Append(down, [type |-> "unsuback", pkid |-> p.pkid])
          \/ down' = Append(down, Packet("pingresp"))
      BY <1>3 DEF Answer
    <3>5. "subscribe" \in ReqTypes /\ "unsubscribe" \in ReqTypes /\ (p.filter \in Granted) \in BOOLEAN
      BY DEF ReqTypes
    <3>6. UNCHANGED <<received, delivered, unexpected>>
      BY <1>3 DEF Answer
    <3> HIDE DEF p
    <3> QED
      BY <3>2, <3>3, <3>4, <3>5, <3>6, Zenon
  <2> QED
    BY <1>a, <2>1, OtherComes
<1>4. CASE ServerDelivers
  <2> DEFINE e == [type |-> "publish", n |-> delivered + 1]
  <2>1. e \in DownPackets /\ IsMessage(e) /\ e.n = delivered + 1
    BY <1>a DEF DownPackets, IsMessage
  <2>2. down' = Append(down, e) /\ delivered' = delivered + 1 /\ UNCHANGED <<received, unexpected>>
    BY <1>4 DEF ServerDelivers
  <2> HIDE DEF e
  <2> QED
    BY <1>a, <2>1, <2>2, MessageComes
<1>5. ASSUME NEW t \in Task, TakeReply(t)
      PROVE  received' \in Seq(Nat) /\ StreamOK(received', down', delivered', unexpected')
  <2>1. /\ down # << >> /\ down' = Tail(down) /\ UNCHANGED <<received, delivered>>
        /\ unexpected' = (unexpected \/ Head(down).type # AckOf(op[t].kind))
    BY <1>5 DEF TakeReply
  <2>2. CASE IsMessage(Head(down))
    <3>1. unexpected'
      BY <2>1, <2>2 DEF IsMessage, AckOf
    <3>2. Ordered(received, Tail(down)) /\ Bounded(received, Tail(down), delivered)
      BY <1>a, <2>1, FrontTaken
    <3> QED
      BY <1>a, <2>1, <3>1, <3>2 DEF StreamOK
  <2>3. CASE ~IsMessage(Head(down))
    <3>1. StreamOK(received, Tail(down), delivered, unexpected)
      BY <1>a, <2>1, <2>3, FrontTaken
    <3> QED
      BY <1>a, <2>1, <3>1 DEF StreamOK
  <2> QED
    BY <2>2, <2>3
<1>6. ASSUME NEW t \in Task, TakeMessage(t)
      PROVE  received' \in Seq(Nat) /\ StreamOK(received', down', delivered', unexpected')
  <2>1. /\ down # << >> /\ down' = Tail(down) /\ UNCHANGED <<delivered, unexpected>>
        /\ received' = IF IsMessage(Head(down)) THEN Append(received, Head(down).n) ELSE received
    BY <1>6 DEF TakeMessage, IsMessage
  <2>2. CASE IsMessage(Head(down))
    <3>1. Head(down).n \in Nat /\ StreamOK(Append(received, Head(down).n), Tail(down), delivered, unexpected)
      BY <1>a, <2>1, <2>2, FrontTaken
    <3>2. Append(received, Head(down).n) \in Seq(Nat)
      BY <1>a, <3>1, Appended
    <3> QED
      BY <2>1, <2>2, <3>1, <3>2
  <2>3. CASE ~IsMessage(Head(down))
    BY <1>a, <2>1, <2>3, FrontTaken
  <2> QED
    BY <2>2, <2>3
<1>7. CASE Dial \/ Wake \/ Ping \/ CloseByPeer
    BY <1>1, <1>7 DEF Dial, Wake, Ping, CloseByPeer
<1>8. ASSUME NEW t \in Task,
             \/ \E f \in ClientFilter, kind \in {"subscribe", "unsubscribe"} : Request(t, kind, f)
             \/ WriteRequest(t) \/ LockReader(t) \/ ReadFails(t)
             \/ Recv(t) \/ RecvTimeout(t) \/ Disconnect(t)
      PROVE  UNCHANGED <<received, down, delivered, unexpected>>
    BY <1>8 DEF Request, WriteRequest, LockReader, ReadFails, Recv, RecvTimeout, Disconnect
<1>9. CASE UNCHANGED client_vars
    BY <1>1, <1>9 DEF client_vars
<1> QED
    BY <1>1, <1>2, <1>3, <1>4, <1>5, <1>6, <1>7, <1>8, <1>9 DEF ClientNext, Read

\* Whatever the tasks, filters and bounds, and whether or not the callers keep to
\* one request at a time: recv hands over every message once and in order, also
\* when calls time out or tasks take turns at the reader lock (client.rs: recv_v4,
\* recv_v5, recv_timeout); a message is missing only after a request has read it
\* in place of its answer and returned UnexpectedPacket.
THEOREM NothingLostCorrect == ASSUME ClientAssumption PROVE ClientSpec => []NothingLost
<1>1. LostInv => NothingLost
    BY DEF LostInv, StreamOK, Ordered, Complete, NothingLost
<1> QED
    BY InitLostInv, NextLostInv, <1>1, PTL DEF ClientSpec
=============================================================================
