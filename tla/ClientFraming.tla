--------------------------- MODULE ClientFraming ---------------------------
(***************************************************************************)
(* How the client's byte stream becomes packets.  The bridge cuts it into  *)
(* Minecraft frames and drops the movement ones (bridge/src/c2m.rs); the   *)
(* link carries the rest in order (module C2mLink); the server collects    *)
(* the bytes in rx_accum and cuts them again (core/src/mc_server.c,        *)
(* mc_packet.c, mc_varint.c).  Bytes come in pieces of any size at both    *)
(* places.  A frame is a VarInt length and a body; after Set Compression   *)
(* the body starts with a VarInt that is 0 for an uncompressed packet.     *)
(*                                                                         *)
(* VarInts keep their shape at a smaller width: a byte holds a group of    *)
(* the value in base Base and a continuation bit (Base is 128 in the       *)
(* code), at most MaxVarBytes bytes (5), IntBits bits in all (32).         *)
(***************************************************************************)
EXTENDS Integers, Sequences, SequencesExt, FiniteSets

CONSTANTS
    Base,                   \* values of one VarInt group
    MaxVarBytes,            \* bytes of the longest VarInt
    IntBits,                \* bits of the integer a VarInt carries
    FRAME_LENGTH_LIMIT,     \* MINECRAFT_FRAME_LENGTH_LIMIT of the bridge
    MAX_PACKET_BODY,        \* MC_MAX_PACKET_BODY of the server
    RxSlack,                \* rx_accum holds MAX_PACKET_BODY + RxSlack bytes
    Movement,               \* packet ids the bridge filters
    MAX_SERVERBOUND_ID,     \* MC_MAX_SERVERBOUND_PACKET_ID
    Hellos,                 \* bodies a client may send as its handshake
    Logins,                 \* bodies it may send as Login Start
    PlayBodies,             \* bodies it may send once it is in the game
    BadFrames,              \* byte sequences no client should send
    MaxPlay,                \* packets sent in the game
    ReadBlock               \* most bytes read at once, at either place

VARIABLES
    sent,       \* frames the client has sent, with what they are
    tcp,        \* their bytes the bridge has not read
    buffer,     \* minecraft_frame_buffer
    pending,    \* bytes on their way to the server (pending_tcp, the link, rx_ring)
    rx_accum,   \* bytes the server has collected
    state,      \* the server's connection state
    handled,    \* bodies it handled, in order
    failed      \* mc_server_receive has returned 0: the session is over

vars == <<sent, tcp, buffer, pending, rx_accum, state, handled, failed>>

ASSUME FramingAssumption ==
    /\ Base \in Nat \ {0, 1} /\ MaxVarBytes \in Nat \ {0} /\ IntBits \in Nat \ {0}
    /\ Base^(MaxVarBytes - 1) <= 2^IntBits /\ 2^IntBits <= Base^MaxVarBytes
    /\ FRAME_LENGTH_LIMIT <= MAX_PACKET_BODY

Byte == 0 .. 2 * Base - 1
Group(byte) == byte % Base
Continues(byte) == byte >= Base

-----------------------------------------------------------------------------
(* VarInts.  A read is [ok, value, used]; more says that bytes are missing. *)

RECURSIVE mc_varint_encode(_)
mc_varint_encode(v) ==
    IF v < Base THEN <<v>> ELSE <<Base + (v % Base)>> \o mc_varint_encode(v \div Base)

\* Index of the first byte without a continuation bit, 0 if there is none
\* within the longest VarInt.
VarIntEnd(src) ==
    LET ends == {i \in 1..MaxVarBytes : i <= Len(src) /\ ~Continues(src[i])}
    IN  IF ends = {} THEN 0 ELSE CHOOSE i \in ends : \A j \in ends : i <= j

RECURSIVE VarIntValue(_)
VarIntValue(src) ==
    IF src = <<>> THEN 0 ELSE Group(Head(src)) + Base * VarIntValue(Tail(src))

\* int32_t out of uint32_t.
Signed(v) == IF v >= 2^(IntBits - 1) THEN v - 2^IntBits ELSE v

\* The last byte of the longest VarInt must not carry bits past the width.
mc_varint_decode(src) ==
    LET end == VarIntEnd(src)
        value == VarIntValue(SubSeq(src, 1, end))
    IN  IF end = 0 \/ value >= 2^IntBits
        THEN [ok |-> FALSE, value |-> 0, used |-> 0]
        ELSE [ok |-> TRUE, value |-> Signed(value), used |-> end]

\* The bridge's reader does not look at the width.
read_minecraft_varint(src) ==
    LET end == VarIntEnd(src)
    IN  [ok |-> end > 0, more |-> end = 0 /\ Len(src) < MaxVarBytes,
         value |-> VarIntValue(SubSeq(src, 1, end)), used |-> end]

From(src, used) == SubSeq(src, used + 1, Len(src))

-----------------------------------------------------------------------------
(* The bridge's filter.                                                     *)

\* Fault: the filter takes the first byte of the body for the packet id.
ForwardByFirstByte(frame) ==
    LET len == read_minecraft_varint(frame)
        id == read_minecraft_varint(From(frame, len.used))
    IN  ~id.ok \/ id.value \notin Movement

\* Only a whole frame whose uncompressed length is 0 and whose packet id is a
\* movement id is dropped.
should_forward_minecraft_frame(frame) ==
    LET len == read_minecraft_varint(frame)
        body == From(frame, len.used)
        uncompressed == read_minecraft_varint(body)
        id == read_minecraft_varint(From(body, uncompressed.used))
    IN  \/ ~len.ok \/ Len(frame) # len.used + len.value
        \/ ~uncompressed.ok \/ uncompressed.value # 0
        \/ ~id.ok
        \/ id.value \notin Movement

\* Fault: the bytes are forwarded and stay in the buffer as well.
FailOpenKeeps(buf, out) == [buffer |-> buf, out |-> out \o buf]

\* A length that is no frame's: everything held is forwarded (fail open).
forward_buffer_fail_open(buf, out) == [buffer |-> <<>>, out |-> out \o buf]

\* Whole frames leave the buffer, forwarded or dropped.
RECURSIVE drain_filtered_minecraft_frames(_, _)
drain_filtered_minecraft_frames(buf, out) ==
    LET len == read_minecraft_varint(buf)
        frame_len == len.used + len.value
        frame == SubSeq(buf, 1, frame_len)
    IN  CASE len.more \/ (len.ok /\ len.value <= FRAME_LENGTH_LIMIT /\ Len(buf) < frame_len) ->
                 [buffer |-> buf, out |-> out]
          [] (~len.ok /\ ~len.more) \/ (len.ok /\ len.value > FRAME_LENGTH_LIMIT) ->
                 forward_buffer_fail_open(buf, out)
          [] OTHER ->
                 drain_filtered_minecraft_frames(
                     From(buf, frame_len),
                     IF should_forward_minecraft_frame(frame) THEN out \o frame ELSE out)

-----------------------------------------------------------------------------
(* The server.                                                              *)

classify_frame(src) ==
    LET end == VarIntEnd(src)
        len == mc_varint_decode(src)
    IN  CASE end = 0 -> IF Len(src) >= MaxVarBytes THEN "invalid" ELSE "need_more"
          [] end > 0 /\ (~len.ok \/ len.value < 0 \/ len.value > MAX_PACKET_BODY) -> "invalid"
          [] OTHER -> IF Len(src) >= len.used + len.value THEN "ready" ELSE "need_more"

\* Fault: the largest packet id is refused.
BadIdOffByOne(src) ==
    LET id == mc_varint_decode(src) IN id.ok /\ id.value >= MAX_SERVERBOUND_ID

\* A packet id that is complete and out of range, or too long to be an id.
BadId(src) ==
    LET id == mc_varint_decode(src)
    IN  IF ~id.ok THEN Len(src) >= MaxVarBytes
        ELSE id.value < 0 \/ id.value > MAX_SERVERBOUND_ID

\* What can be told of a frame whose end has not arrived.
partial_frame_has_invalid_packet_id(src, compressed) ==
    LET len == mc_varint_decode(src)
        body == From(src, len.used)
        data == mc_varint_decode(body)
        inner == From(body, data.used)
    IN  /\ len.ok
        /\ \/ len.value < 0 \/ len.value > MAX_PACKET_BODY
           \/ /\ body # <<>> /\ compressed
              /\ \/ ~data.ok /\ Len(body) >= MaxVarBytes
                 \/ data.ok /\ data.value # 0
                 \/ data.ok /\ inner # <<>> /\ BadId(inner)
           \/ body # <<>> /\ ~compressed /\ BadId(body)

\* handle_packet as far as framing sees it: the states it moves through and
\* the bodies it refuses (module McServer has the rest of it).
handle_packet(st, body) ==
    LET id == mc_varint_decode(body)
        rest == From(body, id.used)
        field == mc_varint_decode(rest)
    IN  CASE ~id.ok -> "refused"
          [] id.ok /\ st = "handshake" /\ id.value = 0 ->
                 IF body \in Hellos THEN "login" ELSE "refused"
          [] id.ok /\ st = "login" /\ id.value = 0 ->
                 IF field.ok /\ field.value > 0 /\ Len(rest) >= field.used + field.value
                 THEN "play" ELSE "refused"
          [] id.ok /\ st = "play" /\ id.value = 0 ->
                 IF field.ok /\ field.used = Len(rest) THEN st ELSE "refused"
          [] OTHER -> st

\* mc_packet_try_read and mc_packet_get_compressed_body: the body of a whole
\* frame, <<>> if the frame is refused.  A data length other than 0 is refused.
packet_body(frame, compressed) ==
    LET len == mc_varint_decode(frame)
        body == From(frame, len.used)
        data == mc_varint_decode(body)
    IN  IF ~compressed THEN body
        ELSE IF ~data.ok \/ data.value # 0 THEN <<>> ELSE From(body, data.used)

\* The loop of mc_server_receive over the collected bytes.
RECURSIVE receive_frames(_, _, _)
receive_frames(src, st, bodies) ==
    LET status == classify_frame(src)
        len == mc_varint_decode(src)
        frame == SubSeq(src, 1, len.used + len.value)
        body == packet_body(frame, st = "play")
        next == handle_packet(st, body)
        result(acc, ok) == [accum |-> acc, state |-> st, bodies |-> bodies, ok |-> ok]
    IN  CASE status = "need_more" ->
                 IF partial_frame_has_invalid_packet_id(src, st = "play")
                 THEN result(<<>>, FALSE) ELSE result(src, TRUE)
          [] status = "invalid" -> result(<<>>, FALSE)
          [] OTHER -> IF next = "refused" THEN result(<<>>, FALSE)
                      ELSE receive_frames(From(src, Len(frame)), next, Append(bodies, body))

mc_server_receive(bytes) ==
    IF Len(rx_accum) + Len(bytes) > MAX_PACKET_BODY + RxSlack
    THEN [accum |-> <<>>, state |-> state, bodies |-> <<>>, ok |-> FALSE]
    ELSE receive_frames(rx_accum \o bytes, state, <<>>)

-----------------------------------------------------------------------------
(* Actions.                                                                 *)

Init ==
    /\ sent = <<>> /\ tcp = <<>> /\ buffer = <<>> /\ pending = <<>>
    /\ rx_accum = <<>> /\ state = "handshake" /\ handled = <<>> /\ failed = FALSE

FrameOf(body, compressed) ==
    LET inner == IF compressed THEN <<0>> \o body ELSE body
    IN  mc_varint_encode(Len(inner)) \o inner

Send(bytes, kind, body) ==
    /\ tcp' = tcp \o bytes
    /\ sent' = Append(sent, [kind |-> kind, body |-> body])
    /\ UNCHANGED <<buffer, pending, rx_accum, state, handled, failed>>

\* The client opens with a handshake and Login Start, in the plain format.
ClientLogin ==
    /\ sent = <<>>
    /\ \E hello \in Hellos, login \in Logins :
          /\ tcp' = FrameOf(hello, FALSE) \o FrameOf(login, FALSE)
          /\ sent' = <<[kind |-> "wanted", body |-> hello], [kind |-> "wanted", body |-> login]>>
    /\ UNCHANGED <<buffer, pending, rx_accum, state, handled, failed>>

\* Once Set Compression and Login Success have reached it, it plays.
ClientPlay ==
    /\ state = "play" /\ Len(sent) < 2 + MaxPlay
    /\ \E body \in PlayBodies :
          Send(FrameOf(body, TRUE),
               IF body[1] \in Movement THEN "movement" ELSE "wanted", body)

\* A frame no client should send.
ClientBreaks ==
    /\ state = "play" /\ Len(sent) < 2 + MaxPlay
    /\ \E frame \in BadFrames : Send(frame, "bad", <<>>)

\* run_link_client reads what has arrived and filters it.
BridgeRead ==
    \E n \in 1..ReadBlock :
        LET drained == drain_filtered_minecraft_frames(buffer \o SubSeq(tcp, 1, n), <<>>)
        IN  /\ n <= Len(tcp)
            /\ tcp' = From(tcp, n)
            /\ buffer' = drained.buffer
            /\ pending' = pending \o drained.out
            /\ UNCHANGED <<sent, rx_accum, state, handled, failed>>

\* pump_server reads what has arrived; a refusal ends the session.
ServerRead ==
    /\ ~failed
    /\ \E n \in 1..ReadBlock :
        LET r == mc_server_receive(SubSeq(pending, 1, n))
        IN  /\ n <= Len(pending)
            /\ pending' = From(pending, n)
            /\ rx_accum' = r.accum
            /\ state' = r.state
            /\ handled' = handled \o r.bodies
            /\ failed' = ~r.ok
            /\ UNCHANGED <<sent, tcp, buffer>>

Next == ClientLogin \/ ClientPlay \/ ClientBreaks \/ BridgeRead \/ ServerRead

Spec == Init /\ [][Next]_vars

-----------------------------------------------------------------------------
(* Properties.                                                              *)

\* Types: what the bridge holds back never exceeds one frame, and rx_accum
\* never its array.
TypeOK ==
    /\ tcp \in Seq(Byte) /\ pending \in Seq(Byte)
    /\ buffer \in Seq(Byte) /\ Len(buffer) < FRAME_LENGTH_LIMIT + MaxVarBytes
    /\ rx_accum \in Seq(Byte) /\ Len(rx_accum) <= MAX_PACKET_BODY + RxSlack
    /\ state \in {"handshake", "login", "play"} /\ failed \in BOOLEAN

\* The bodies the server should handle: all but the movement ones, up to the
\* first frame that is none.
Wanted ==
    LET bad == {i \in DOMAIN sent : sent[i].kind = "bad"}
        good == SelectSeq(SubSeq(sent, 1, IF bad = {} THEN Len(sent)
                                          ELSE (CHOOSE i \in bad : \A j \in bad : i <= j) - 1),
                          LAMBDA p : p.kind = "wanted")
    IN  [i \in DOMAIN good |-> good[i].body]

\* push_filtered_tcp_bytes and mc_server_receive: however the bytes are cut,
\* the server handles the client's packets without the movement ones, each
\* once, whole and in order, and none from behind a broken frame.
HandledInOrder == IsPrefix(handled, Wanted)

\* Only a broken frame ends the session: the verdicts on a partial frame
\* (classify_frame, partial_frame_has_invalid_packet_id) never refuse a
\* proper one.  And nothing is held back or lost: when all bytes have been
\* read, every wanted packet has been handled and a broken frame refused.
AllHandled ==
    LET broken == \E i \in DOMAIN sent : sent[i].kind = "bad"
    IN  /\ failed => broken
        /\ tcp = <<>> /\ pending = <<>> => handled = Wanted /\ (broken => failed)

=============================================================================
