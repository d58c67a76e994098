------------------------------ MODULE MqttWire ------------------------------
(***************************************************************************)
(* MQTT packets on a TCP connection (mqtt0/src/protocol.rs) and the        *)
(* broker's detection of the protocol version from the first bytes         *)
(* (mqtt0/src/broker.rs, handle_connection).                               *)
(*                                                                         *)
(* TCP delivers the bytes in order, cut anywhere.  The bytes of the stream *)
(* are numbered, and a packet is a number of them: the protocol level is   *)
(* byte LevelAt of a CONNECT, the first packet.  The broker's loop drops   *)
(* the pending read_packet future whenever an outgoing message is ready,   *)
(* so a read may be abandoned between any two chunks.  Decoding a packet   *)
(* that is there completely is the library's (external); it refuses a      *)
(* CONNECT of the other version.                                           *)
(***************************************************************************)
EXTENDS Integers, Sequences, SequencesExt, FiniteSetsExt

CONSTANTS
    Versions,       \* protocol versions of the clients, of {4, 5}
    Credentials,    \* <<user name, password>> of the client; "" is none
    LevelAt,        \* place of the protocol level in a CONNECT (9 in the code)
    ConnectSize,    \* bytes of a CONNECT
    PeekSize,       \* bytes of the first read (16)
    ChunkSize,      \* bytes of a later read (4096)
    MaxSize,        \* max_packet_size of the reader
    MaxPackets,     \* packets a client sends
    MaxPushes,      \* messages the broker pushes
    WholeConnect    \* whether a CONNECT arrives in one piece

VARIABLES
    client,     \* the client's version and credentials
    sent,       \* packets written by the client, in order
    fetched,    \* bytes of the stream the broker has read
    read_buf,   \* bytes read and not yet decoded
    local,      \* bytes held by the pending read future only (none in the code)
    version,    \* the version the broker took the connection for; 0 before
    got,        \* packets the broker decoded
    replies,    \* packets the broker wrote
    login,      \* the user name and password the broker authenticated
    state,      \* "peek", "open", or the error that ended the connection
    pushes

vars == <<client, sent, fetched, read_buf, local, version, got, replies, login, state, pushes>>

----------------------------------------------------------------------------
(* The packets *)

\* create_connect of v4: the login is set only when both parts are given; a
\* password that is not UTF-8 is replaced by the empty one.
ConnectV4(c) ==
    [kind |-> "connect", level |-> 4, pkid |-> 0,
     login |-> IF c[1] # "" /\ c[2] # "" THEN <<c[1], IF c[2] = "not utf8" THEN "" ELSE c[2]>> ELSE << >>]

\* create_connect of v5: the same, with the session expiry as a property.
ConnectV5(c) == [ConnectV4(c) EXCEPT !.level = 5]

\* The other packets of a client; a publish carries no identifier (QoS 0).
PacketV4(kind, pkid) ==
    [kind |-> kind, level |-> 4, pkid |-> IF kind \in {"subscribe", "unsubscribe"} THEN pkid ELSE 0,
     login |-> << >>]
PacketV5(kind, pkid) == [PacketV4(kind, pkid) EXCEPT !.level = 5]

Packet(v, kind, pkid) == IF v = 4 THEN PacketV4(kind, pkid) ELSE PacketV5(kind, pkid)

Kinds == {"publish", "long publish", "subscribe", "unsubscribe", "pingreq", "disconnect"}

\* Bytes of a packet.  A long publish is more than the broker accepts.
Size(p) == CASE p.kind = "connect" -> ConnectSize
             [] p.kind = "publish" -> 3
             [] p.kind = "long publish" -> MaxSize + 1
             [] p.kind \in {"subscribe", "unsubscribe"} -> 2
             [] OTHER -> 1

\* The bytes of packet i, and of the whole stream; byte <<i, k>> is place k of packet i.
Bytes(i) == [k \in 1 .. Size(sent[i]) |-> <<i, k>>]
Stream == FlattenSeq([i \in DOMAIN sent |-> Bytes(i)])
Available == Len(Stream) - fetched
Chunk(n) == SubSeq(Stream, fetched + 1, fetched + n)

Init ==
    /\ client \in [version : Versions, credentials : Credentials]
    /\ sent = << >> /\ fetched = 0 /\ read_buf = << >> /\ local = << >>
    /\ version = 0 /\ got = << >> /\ replies = << >> /\ login = << >>
    /\ state = "peek" /\ pushes = 0

----------------------------------------------------------------------------
(* The client *)

\* write_packet of the CONNECT, and of what follows once it is answered: encoded
\* into one buffer, written and flushed.
ClientConnect ==
    /\ sent = << >>
    /\ sent' = << IF client.version = 4 THEN ConnectV4(client.credentials)
                                        ELSE ConnectV5(client.credentials) >>
    /\ UNCHANGED <<client, fetched, read_buf, local, version, got, replies, login, state, pushes>>

ClientWrite ==
    /\ replies # << >> /\ Len(sent) <= MaxPackets
    /\ Last(sent).kind # "disconnect"
    /\ \E kind \in Kinds : sent' = Append(sent, Packet(client.version, kind, Len(sent)))
    /\ UNCHANGED <<client, fetched, read_buf, local, version, got, replies, login, state, pushes>>

----------------------------------------------------------------------------
(* The broker *)

\* What Packet::read makes of the buffer: a packet, "insufficient" bytes or an error.
Decode(buf) ==
    LET i == buf[1][1]
        n == Size(sent[i])
    IN  IF buf = << >> THEN "insufficient"
        ELSE IF buf[1][2] # 1 \/ n > MaxSize THEN "error"
        ELSE IF Len(buf) < n THEN "insufficient"
        ELSE IF SubSeq(buf, 1, n) # Bytes(i) THEN "error"
        ELSE IF sent[i].level # version THEN "error"
        ELSE "packet"

\* Not the code: the level is looked for one byte too early.
DetectEarly(buf) ==
    IF Len(buf) < 2 THEN 0 ELSE IF Len(buf) < LevelAt - 1 THEN 4
    ELSE IF buf[LevelAt - 1][2] = LevelAt THEN sent[1].level ELSE 4

\* detect_protocol_version: a buffer that ends before the level counts as v4.
Detect(buf) ==
    IF Len(buf) < 2 THEN 0 ELSE IF Len(buf) < LevelAt THEN 4
    ELSE IF buf[LevelAt][2] = LevelAt THEN sent[1].level ELSE 4

\* handle_connection: the first read, into a buffer of its own, and the choice of
\* the handler.
HandleConnection ==
    /\ state = "peek" /\ Available > 0
    /\ \E n \in 1 .. Min({PeekSize, Available}) :
        /\ WholeConnect => n = Min({PeekSize, Available})
        /\ read_buf' = Chunk(n) /\ fetched' = fetched + n
        /\ version' = Detect(read_buf')
        /\ state' = IF version' = 0 THEN "protocol error" ELSE "open"
    /\ UNCHANGED <<client, sent, local, got, replies, login, pushes>>

\* Not the code: the chunk stays in the future until the next read.
ReadChunkHeld ==
    /\ \E n \in 1 .. Min({ChunkSize, Available}) :
         /\ local' = Chunk(n) /\ fetched' = fetched + n
    /\ read_buf' = read_buf \o local

\* One read of the loop of read_packet: what came is appended to the caller's
\* buffer before anything else is awaited.
ReadChunk ==
    /\ \E n \in 1 .. Min({ChunkSize, Available}) :
         /\ read_buf' = read_buf \o Chunk(n) /\ fetched' = fetched + n
    /\ UNCHANGED local

\* read_packet waits for more bytes; the client may have closed the socket after
\* its last packet, which ends the connection.
ReadMore ==
    /\ state = "open"
    /\ Decode(read_buf) = "insufficient"
    /\ \/ Available > 0 /\ ReadChunk /\ UNCHANGED state
       \/ /\ Available = 0 /\ fetched > 0
          /\ state' = "closed" /\ UNCHANGED <<read_buf, local, fetched>>
    /\ UNCHANGED <<client, sent, version, got, replies, login, pushes>>

\* The packets of the broker: SUBACK and UNSUBACK answer the identifier.
ReplyV4(p) ==
    CASE p.kind = "connect" -> << [kind |-> "connack", pkid |-> 0] >>
      [] p.kind = "subscribe" -> << [kind |-> "suback", pkid |-> p.pkid] >>
      [] p.kind = "unsubscribe" -> << [kind |-> "unsuback", pkid |-> p.pkid] >>
      [] p.kind = "pingreq" -> << [kind |-> "pingresp", pkid |-> 0] >>
      [] OTHER -> << >>
ReplyV5(p) == ReplyV4(p)
Reply(p) == IF version = 4 THEN ReplyV4(p) ELSE ReplyV5(p)

\* read_packet returns: the packet leaves the buffer and is handled; the CONNECT is
\* authenticated with the login it carries, an error ends the connection.
ReadPacket ==
    /\ state = "open"
    /\ CASE Decode(read_buf) = "packet" ->
              LET p == sent[read_buf[1][1]]
              IN  /\ got' = Append(got, p)
                  /\ read_buf' = SubSeq(read_buf, Size(p) + 1, Len(read_buf))
                  /\ replies' = replies \o Reply(p)
                  /\ login' = IF p.kind # "connect" THEN login
                              ELSE IF p.login = << >> THEN <<"", "">> ELSE p.login
                  /\ state' = IF p.kind = "disconnect" THEN "closed" ELSE state
         [] Decode(read_buf) = "error" ->
              state' = "protocol error" /\ UNCHANGED <<got, read_buf, replies, login>>
         [] OTHER -> FALSE
    /\ UNCHANGED <<client, sent, fetched, local, version, pushes>>

\* The loop takes an outgoing message: the pending read future is dropped, with
\* what only it holds.
Push ==
    /\ state = "open" /\ got # << >> /\ pushes < MaxPushes
    /\ pushes' = pushes + 1 /\ local' = << >>
    /\ replies' = Append(replies, [kind |-> "publish", pkid |-> 0])
    /\ UNCHANGED <<client, sent, fetched, read_buf, version, got, login, state>>

Next == ClientConnect \/ ClientWrite \/ HandleConnection \/ ReadMore \/ ReadPacket \/ Push

Spec == Init /\ [][Next]_vars

----------------------------------------------------------------------------
(* Properties *)

\* However TCP cuts the stream and however often a read is abandoned for an
\* outgoing message, the broker decodes the packets the client wrote, in their
\* order, none twice and none garbled, and answers each once with its own
\* identifier (protocol.rs:23-45, broker.rs:706-746).
PacketsIntact ==
    /\ IsPrefix(got, sent)
    /\ FlattenSeq([i \in DOMAIN got |-> Bytes(i)]) \o read_buf \o local = SubSeq(Stream, 1, fetched)
    /\ SelectSeq(replies, LAMBDA r : r.kind # "publish") = FlattenSeq([i \in DOMAIN got |-> Reply(got[i])])

\* A connection ends with a protocol error only when the client wrote a packet
\* larger than the broker accepts: the version of a well-formed CONNECT is
\* recognised (broker.rs:418-458).
VersionRecognised ==
    /\ state = "protocol error" => \E i \in DOMAIN sent : Size(sent[i]) > MaxSize
    /\ got # << >> => version = client.version
=============================================================================
