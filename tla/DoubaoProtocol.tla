--------------------------- MODULE DoubaoProtocol ---------------------------
(* The binary frames of rust/doubaospeech/src/protocol.rs.  A frame is a     *)
(* sequence of cells: the header is one, a 32-bit number is one, each        *)
(* character of an identifier and each byte of a payload is one.  Gzip is    *)
(* the constructor Zip, which decompression takes off and which fails on     *)
(* anything else; the two size limits are in cells too.                      *)
EXTENDS Integers, Sequences

CONSTANTS MaxId,        \* limit on an identifier's length (1024)
          MaxPayload,   \* limit on a payload's length, compressed or not (100 MB)
          Ids,          \* bound: the identifiers tried, as sequences of cells
          Payloads      \* bound: the payloads tried

Types  == {"FullClient", "AudioOnlyClient", "FullServer", "AudioOnlyServer",
           "FrontEndResult", "Error"}
Flags  == {"NoSequence", "PosSequence", "NegSequence", "NegWithSeq", "WithEvent"}
\* Session start and connection started; audio received is a session's.
Events == {1, 50, 104}

Message == [type : Types, flags : Flags, event : Events \cup {0}, sequence : {0, -2},
            session_id : Ids, connect_id : Ids, error_code : {0, 7}, payload : Payloads]

NoMessage == [type |-> "FullClient", flags |-> "NoSequence", event |-> 0, sequence |-> 0,
              session_id |-> <<>>, connect_id |-> <<>>, error_code |-> 0, payload |-> <<>>]

Zip(p)   == <<"gzip", p>>
IsZip(p) == Len(p) = 2 /\ p[1] = "gzip"

IsConnectionEvent(e) == e \in {1, 2, 50, 51, 52}

Sized(s) == <<Len(s)>> \o s

\* The payload as it is sent.
Packed(m, gzip) == IF gzip /\ m.payload # <<>> THEN Zip(m.payload) ELSE m.payload

\* The header says how long it is, in words: what is beyond the first is skipped.
Header(m, gzip, words) ==
  <<[type |-> m.type, flags |-> m.flags, gzip |-> gzip, words |-> words]>>
  \o [i \in 1..(words - 1) |-> "header"]

Body(m, gzip) ==
  (IF m.flags \in {"PosSequence", "NegSequence"} THEN <<m.sequence>> ELSE <<>>)
  \o (IF m.flags # "WithEvent" THEN <<>>
      ELSE <<m.event>> \o (IF IsConnectionEvent(m.event) THEN <<>> ELSE Sized(m.session_id)))
  \o Sized(Packed(m, gzip))

Marshal(m, gzip) == Header(m, gzip, 1) \o Body(m, gzip)

(* Reading: the message so far, what is left of the frame, and whether a     *)
(* read has failed.                                                          *)
Number(c, field) ==
  IF ~c.ok \/ c.rest = <<>> THEN [c EXCEPT !.ok = FALSE]
  ELSE [c EXCEPT !.msg[field] = Head(c.rest), !.rest = Tail(c.rest)]

\* Not the code: what the length promises is not compared with what is there.
BytesTrusted(c, field, limit) ==
  IF ~c.ok \/ c.rest = <<>> THEN [c EXCEPT !.ok = FALSE]
  ELSE LET n == Head(c.rest)
           left == Tail(c.rest)
           k == IF n <= Len(left) THEN n ELSE Len(left)
       IN  IF n > limit THEN [c EXCEPT !.ok = FALSE]
           ELSE [c EXCEPT !.msg[field] = SubSeq(left, 1, k),
                          !.rest = SubSeq(left, k + 1, Len(left))]

Bytes(c, field, limit) ==
  IF ~c.ok \/ c.rest = <<>> THEN [c EXCEPT !.ok = FALSE]
  ELSE LET n == Head(c.rest)
           left == Tail(c.rest)
       IN  IF n > limit \/ Len(left) < n THEN [c EXCEPT !.ok = FALSE]
           ELSE [c EXCEPT !.msg[field] = SubSeq(left, 1, n),
                          !.rest = SubSeq(left, n + 1, Len(left))]

Sequence(c) ==
  IF c.msg.flags \in {"PosSequence", "NegSequence"} THEN Number(c, "sequence") ELSE c

EventAndId(c) ==
  IF c.msg.flags # "WithEvent" THEN c
  ELSE LET d == Number(c, "event") IN
       IF IsConnectionEvent(d.msg.event) THEN Bytes(d, "connect_id", MaxId)
       ELSE Bytes(d, "session_id", MaxId)

ErrorCode(c) == IF c.msg.type = "Error" THEN Number(c, "error_code") ELSE c

Decompress(c, gzip) ==
  IF ~c.ok \/ ~gzip \/ c.msg.payload = <<>> THEN c
  ELSE IF IsZip(c.msg.payload) /\ Len(c.msg.payload[2]) <= MaxPayload
  THEN [c EXCEPT !.msg.payload = c.msg.payload[2]]
  ELSE [c EXCEPT !.ok = FALSE]

Unmarshal(data) ==
  IF data = <<>> THEN [ok |-> FALSE, msg |-> NoMessage, rest |-> <<>>]
  ELSE LET h == Head(data)
           c == [ok |-> Len(data) >= h.words, rest |-> SubSeq(data, h.words + 1, Len(data)),
                 msg |-> [NoMessage EXCEPT !.type = h.type, !.flags = h.flags]]
       IN  Decompress(Bytes(ErrorCode(EventAndId(Sequence(c))), "payload", MaxPayload), h.gzip)

\* What a client sends: no error, no connection event with an identifier.
Sendable(m) ==
  /\ m.type # "Error" /\ m.error_code = 0 /\ m.connect_id = <<>>
  /\ m.flags \in {"PosSequence", "NegSequence"} \/ m.sequence = 0
  /\ IF m.flags = "WithEvent" THEN m.event # 0 /\ (m.event = 104 \/ m.session_id = <<>>)
     ELSE m.event = 0 /\ m.session_id = <<>>

VARIABLES sent, zipped,
          frame,   \* what is on the wire
          got      \* the result of reading it, once it is read

vars == <<sent, zipped, frame, got>>

Init ==
  /\ sent \in {m \in Message : Sendable(m)}
  /\ zipped \in BOOLEAN
  /\ frame = <<>> /\ got = <<>>

\* The frames of a message: that of marshal, and that of a peer with a longer header.
Frames == {Marshal(sent, zipped), Header(sent, zipped, 2) \o Body(sent, zipped)}

Send ==
  /\ frame = <<>> /\ frame' \in Frames
  /\ UNCHANGED <<sent, zipped, got>>

\* A peer that stops in the middle of a frame.
Cut ==
  /\ frame \in Frames /\ got = <<>>
  /\ \E n \in 1..(Len(frame) - 1) : frame' = SubSeq(frame, 1, n)
  /\ UNCHANGED <<sent, zipped, got>>

Receive ==
  /\ frame # <<>> /\ got = <<>> /\ got' = <<Unmarshal(frame)>>
  /\ UNCHANGED <<sent, zipped, frame>>

Next == Send \/ Cut \/ Receive
Spec == Init /\ [][Next]_vars

\* Whether a message keeps to the limits, before and after compression.
Fits == /\ Len(sent.session_id) <= MaxId /\ Len(sent.payload) <= MaxPayload
        /\ Len(Packed(sent, zipped)) <= MaxPayload

\* A frame is read if and only if it is whole and its message keeps to the limits,
\* and then as what was sent, with nothing left over: one that was cut off anywhere
\* is not read as a shorter message (a connection event, which carries no identifier
\* when a client sends it and one when the service does, is the exception).
ReadBack ==
  (got # <<>> /\ ~(sent.flags = "WithEvent" /\ IsConnectionEvent(sent.event)))
    => /\ got[1].ok <=> frame \in Frames /\ Fits
       /\ got[1].ok => got[1].msg = sent /\ got[1].rest = <<>>
=============================================================================
