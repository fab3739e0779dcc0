----------------------------- MODULE LinkCodec -----------------------------
(***************************************************************************)
(* The UART frame codec: COBS blocks, a CRC and a zero delimiter, written  *)
(* twice, in C (core/src/mc_link.c, the firmware's end) and in Rust        *)
(* (bridge/src/link.rs, the bridge's end), and the firmware's receive      *)
(* step over it (mc_link_session_receive_bytes, pump_link_rx).             *)
(*                                                                         *)
(* The widths are parameters: a byte has ByteBits bits, the CRC twice as   *)
(* many, and 0xff, the code of a full COBS block, is the largest byte.     *)
(* The header keeps the fields the codec looks at (version and payload     *)
(* length); the type, flags, seq and ack bytes it only carries are one     *)
(* byte, the tag.  A behaviour starts with a stream: some frames, encoded, *)
(* then damaged once on the wire.  Both ends then read it in blocks of     *)
(* any size.                                                               *)
(***************************************************************************)
EXTENDS Integers, Sequences, SequencesExt, FiniteSets, Bitwise

CONSTANTS
    ByteBits,           \* bits of a byte (8 in the code)
    CrcPoly,            \* MC_LINK_CRC_POLY
    MAX_PAYLOAD,        \* MC_LINK_MAX_PAYLOAD
    MAX_ENCODED_LEN,    \* MC_LINK_MAX_ENCODED_LEN, delimiter included
    ClearTag,           \* tag of the frames that reset the parser (HELLO, RESET)
    FailTag,            \* tag of the frames handle_frame refuses
    MaxFrames,          \* frames in a damaged stream
    DamagedFrames       \* the frames a damaged stream is made of

VARIABLES
    sent,       \* the frames the stream was made of
    stream,     \* the bytes that reach the receiver
    pos,        \* how many of them have been read
    parser,     \* mc_link_parser_t
    handed,     \* frames given to handle_frame, in order
    kept,       \* the read bytes without those a cleared parser threw away
    decoder,    \* the bridge's Decoder
    received    \* its events, in order: frames, or Damaged for an error

vars == <<sent, stream, pos, parser, handed, kept, decoder, received>>

Byte == 0 .. 2^ByteBits - 1
DELIMITER == 0
VERSION == 2
FullCode == 2^ByteBits - 1      \* 0xff
HEADER_LEN == 3
CRC_LEN == 2
MAX_BODY_LEN == HEADER_LEN + MAX_PAYLOAD + CRC_LEN
Damaged == [tag |-> -1, payload |-> <<>>]

ASSUME CodecAssumption ==
    /\ ByteBits \in Nat /\ VERSION \in Byte
    /\ MAX_PAYLOAD \in Byte
    /\ {ClearTag, FailTag} \subseteq Byte

Frame == [tag : Byte, payload : BoundedSeq(Byte, MAX_PAYLOAD)]

-----------------------------------------------------------------------------
(* CRC and COBS, firmware side.                                             *)

\* One bit of the shift register.
crc16_bit(crc) ==
    IF crc >= 2^(2 * ByteBits - 1)
    THEN ((2 * crc) % 2^(2 * ByteBits)) ^^ CrcPoly
    ELSE 2 * crc

\* crc16_update for one byte, as a table.
crc16_byte ==
    [crc \in 0 .. 2^(2 * ByteBits) - 1, byte \in Byte |->
        FoldLeft(LAMBDA c, bit : crc16_bit(c),
                 crc ^^ (byte * 2^ByteBits), [bit \in 1..ByteBits |-> bit])]

crc16(bytes) ==
    FoldLeft(LAMBDA crc, byte : crc16_byte[crc, byte], 2^(2 * ByteBits) - 1, bytes)

CrcBytes(bytes) == <<crc16(bytes) % 2^ByteBits, crc16(bytes) \div 2^ByteBits>>

Header(f) == <<VERSION, f.tag, Len(f.payload)>>

BodyOf(f) == LET covered == Header(f) \o f.payload IN covered \o CrcBytes(covered)

cobs_stream_init ==
    [dst |-> <<>>, code_index |-> 0, code |-> 1, block_open |-> FALSE,
     trailing_zero_pending |-> FALSE, ok |-> TRUE]

\* The block's code byte is reserved, and written when the block is closed.
cobs_stream_open_block(e, cap) ==
    IF Len(e.dst) >= cap
    THEN [e EXCEPT !.ok = FALSE]
    ELSE [e EXCEPT !.dst = Append(@, 0), !.code_index = Len(e.dst) + 1,
                   !.code = 1, !.block_open = TRUE,
                   !.trailing_zero_pending = FALSE]

close_block(e, zero) ==
    [e EXCEPT !.dst[e.code_index] = e.code, !.block_open = FALSE,
              !.trailing_zero_pending = zero]

cobs_stream_write_byte(e, byte, cap) ==
    LET o == IF e.block_open THEN e ELSE cobs_stream_open_block(e, cap)
        w == [o EXCEPT !.dst = Append(@, byte), !.code = @ + 1]
    IN  CASE ~e.ok \/ ~o.ok -> [e EXCEPT !.ok = FALSE]
          [] byte = 0 -> close_block(o, TRUE)
          [] byte # 0 /\ Len(o.dst) >= cap -> [e EXCEPT !.ok = FALSE]
          [] OTHER -> IF w.code = FullCode THEN close_block(w, FALSE) ELSE w

\* Fault: a body that ends in a zero gets no last block.
FinishOpenBlockOnly(e, cap) == IF e.block_open THEN close_block(e, FALSE) ELSE e

\* An open block gets its code; a body that ended in a zero needs one more,
\* empty, block; a body that ended in a full block needs nothing.
cobs_stream_finish(e, cap) ==
    LET o == cobs_stream_open_block(e, cap)
    IN  CASE e.block_open -> close_block(e, FALSE)
          [] ~e.block_open /\ (e.dst = <<>> \/ e.trailing_zero_pending) ->
                 IF o.ok THEN close_block(o, FALSE) ELSE o
          [] OTHER -> e

\* mc_link_encode with out_cap = MAX_ENCODED_LEN; <<>> when it returns 0.
mc_link_encode(f) ==
    LET cap == MAX_ENCODED_LEN - 1
        written == FoldLeft(LAMBDA e, byte : cobs_stream_write_byte(e, byte, cap),
                            cobs_stream_init, BodyOf(f))
        done == cobs_stream_finish(written, cap)
    IN  IF Len(f.payload) > MAX_PAYLOAD \/ ~written.ok \/ ~done.ok
        THEN <<>>
        ELSE done.dst \o <<DELIMITER>>

\* The body decoded so far grows to at most cap bytes; <<-1>> is a failure.
RECURSIVE cobs_decode(_, _, _)
cobs_decode(src, dst, cap) ==
    IF src = <<>> THEN dst
    ELSE LET code == Head(src)
             left == Tail(src)
             copied == dst \o SubSeq(left, 1, code - 1)
             more == code # FullCode /\ code - 1 < Len(left)
         IN  IF code = 0 \/ code - 1 > Len(left) \/ Len(copied) > cap
                \/ (more /\ Len(copied) = cap)
             THEN <<-1>>
             ELSE cobs_decode(SubSeq(left, code, Len(left)),
                              IF more THEN Append(copied, 0) ELSE copied, cap)

\* The checks on a decoded body, the same ones at both ends.
frame_of_body(body) ==
    LET payload_len == body[3]
        covered == SubSeq(body, 1, HEADER_LEN + payload_len)
    IN  IF \/ Len(body) < HEADER_LEN + CRC_LEN
           \/ body[1] # VERSION
           \/ payload_len > MAX_PAYLOAD
           \/ Len(body) # HEADER_LEN + payload_len + CRC_LEN
           \/ SubSeq(body, Len(body) - 1, Len(body)) # CrcBytes(covered)
        THEN Damaged
        ELSE [tag |-> body[2], payload |-> SubSeq(covered, HEADER_LEN + 1, Len(covered))]

decode_frame_with_scratch(src) ==
    LET encoded == Front(src)
    IN  IF \/ Len(src) > MAX_ENCODED_LEN
           \/ Last(src) # DELIMITER
           \/ encoded = <<>>
           \/ Contains(encoded, DELIMITER)
        THEN Damaged
        ELSE frame_of_body(cobs_decode(encoded, <<>>, MAX_BODY_LEN))

-----------------------------------------------------------------------------
(* The firmware's incremental parser.                                       *)

\* The error counters of mc_link_parser_t are only logged and are left out.
mc_link_parser_init == [buf |-> <<>>, discarding |-> FALSE]

start_discarding == [buf |-> <<>>, discarding |-> TRUE]

\* A result is the parser after the call and the frame, or Damaged for NEED_MORE.
parser_try_one(p) ==
    LET delimiters == {i \in DOMAIN p.buf : p.buf[i] = DELIMITER}
        first == CHOOSE i \in delimiters : \A j \in delimiters : i <= j
        frame == decode_frame_with_scratch(SubSeq(p.buf, 1, first))
        rest == SubSeq(p.buf, first + 1, Len(p.buf))
    IN  CASE delimiters # {} -> [parser |-> [p EXCEPT !.buf = rest], frame |-> frame]
          [] delimiters = {} /\ Len(p.buf) = MAX_ENCODED_LEN ->
                 [parser |-> start_discarding, frame |-> Damaged]
          [] OTHER -> [parser |-> p, frame |-> Damaged]

\* Whole frames left in the buffer by an earlier call, damaged ones skipped.
RECURSIVE parser_try_buffered(_)
parser_try_buffered(p) ==
    LET r == parser_try_one(p)
    IN  IF r.frame # Damaged \/ Len(r.parser.buf) = Len(p.buf)
        THEN r
        ELSE parser_try_buffered(r.parser)

\* Fault: the bytes behind a frame are forgotten.
ForgetRest(p, rest) == p

\* After a frame the rest of the block is kept for the next call, if it fits.
store_rest(p, rest) ==
    LET capacity == MAX_ENCODED_LEN - Len(p.buf)
    IN  IF \/ Len(rest) > capacity
           \/ rest # <<>> /\ Len(rest) = capacity /\ ~Contains(rest, DELIMITER)
        THEN start_discarding
        ELSE [p EXCEPT !.buf = @ \o rest]

RECURSIVE parser_feed_bytes(_, _)
parser_feed_bytes(p, src) ==
    IF src = <<>> THEN parser_try_one(p)
    ELSE LET byte == Head(src)
             added == [p EXCEPT !.buf = Append(@, byte)]
             r == parser_try_one(added)
         IN  CASE p.discarding ->
                      parser_feed_bytes([p EXCEPT !.discarding = byte # DELIMITER],
                                        Tail(src))
               [] ~p.discarding /\ byte = DELIMITER /\ r.frame # Damaged ->
                      [r EXCEPT !.parser = store_rest(r.parser, Tail(src))]
               [] ~p.discarding /\ byte = DELIMITER /\ r.frame = Damaged ->
                      parser_feed_bytes(r.parser, Tail(src))
               [] ~p.discarding /\ byte # DELIMITER /\ Len(added.buf) = MAX_ENCODED_LEN ->
                      parser_feed_bytes(start_discarding, Tail(src))
               [] OTHER -> parser_feed_bytes(added, Tail(src))

\* A frame that was already buffered is returned without a look at src.
mc_link_parser_feed(p, src) ==
    LET r == IF p.discarding
             THEN [parser |-> [p EXCEPT !.buf = <<>>], frame |-> Damaged]
             ELSE parser_try_buffered(p)
    IN  IF r.frame # Damaged THEN r ELSE parser_feed_bytes(r.parser, src)

\* handle_frame: HELLO and RESET initialise the parser again, and so does
\* pump_link_rx when a frame is refused; either way the rest of the block
\* is gone.
RECURSIVE receive_frames(_, _)
receive_frames(r, frames) ==
    CASE r.frame = Damaged -> [parser |-> r.parser, frames |-> frames, thrown |-> 0]
      [] r.frame # Damaged /\ r.frame.tag \in {ClearTag, FailTag} ->
             [parser |-> mc_link_parser_init, frames |-> Append(frames, r.frame),
              thrown |-> Len(r.parser.buf)]
      [] OTHER -> receive_frames(mc_link_parser_feed(r.parser, <<>>),
                                 Append(frames, r.frame))

mc_link_session_receive_bytes(p, src) ==
    receive_frames(mc_link_parser_feed(p, src), <<>>)

-----------------------------------------------------------------------------
(* The bridge's encoder and decoder.                                        *)

cobs_encode_byte(e, byte) ==
    LET o == IF e.block_open THEN e
             ELSE [dst |-> Append(e.dst, 0), code_index |-> Len(e.dst) + 1,
                   code |-> 1, block_open |-> TRUE]
        w == [o EXCEPT !.dst = Append(@, byte), !.code = @ + 1]
        closed(x) == [x EXCEPT !.dst[x.code_index] = x.code, !.block_open = FALSE]
    IN  CASE byte = 0 -> closed(o)
          [] byte # 0 /\ w.code = FullCode -> closed(w)
          [] OTHER -> w

cobs_encode(input) ==
    LET e == FoldLeft(cobs_encode_byte,
                      [dst |-> <<0>>, code_index |-> 1, code |-> 1, block_open |-> TRUE],
                      input)
    IN  CASE e.block_open -> [e.dst EXCEPT ![e.code_index] = e.code]
          [] ~e.block_open /\ Last(input) = 0 -> Append(e.dst, 1)
          [] OTHER -> e.dst

encode(f) ==
    LET encoded == cobs_encode(BodyOf(f)) \o <<DELIMITER>>
    IN  IF Len(f.payload) > MAX_PAYLOAD \/ Len(encoded) > MAX_ENCODED_LEN
        THEN <<>>
        ELSE encoded

\* The bridge's COBS decoder grows its vector as far as the input reaches.
decode_one(src) ==
    LET encoded == Front(src)
    IN  IF Len(src) > MAX_ENCODED_LEN \/ Last(src) # DELIMITER \/ encoded = <<>>
           \/ Contains(encoded, DELIMITER)
        THEN Damaged
        ELSE frame_of_body(cobs_decode(encoded, <<>>, Len(encoded)))

feed_byte(d, byte, limit) ==
    LET grown == Append(d.buffer, byte)
    IN  CASE d.discarding /\ byte # DELIMITER -> d
          [] d.discarding /\ byte = DELIMITER ->
                 [d EXCEPT !.discarding = FALSE, !.events = Append(@, Damaged)]
          [] ~d.discarding /\ byte = DELIMITER /\ d.buffer = <<>> -> d
          [] ~d.discarding /\ byte = DELIMITER /\ d.buffer # <<>> ->
                 [d EXCEPT !.buffer = <<>>, !.events = Append(@, decode_one(grown))]
          [] ~d.discarding /\ byte # DELIMITER /\ Len(grown) >= limit ->
                 [d EXCEPT !.buffer = <<>>, !.discarding = TRUE]
          [] OTHER -> [d EXCEPT !.buffer = grown]

\* Fault: the buffer may fill up before it is given up.
FeedByteOffByOne(d, byte) == feed_byte(d, byte, MAX_ENCODED_LEN + 1)

\* Fault: the end of an over-long piece is not reported.
FeedByteSilently(d, byte) ==
    LET fed == feed_byte(d, byte, MAX_ENCODED_LEN)
    IN  IF d.discarding THEN [fed EXCEPT !.events = d.events] ELSE fed

Decoder_feed_byte(d, byte) == feed_byte(d, byte, MAX_ENCODED_LEN)

Decoder_feed(d, data) ==
    FoldLeft(Decoder_feed_byte,
             [buffer |-> d.buffer, discarding |-> d.discarding, events |-> <<>>], data)

-----------------------------------------------------------------------------
(* Streams and how they are read.                                           *)

Encoded(fs) == FlattenSeq([i \in DOMAIN fs |-> mc_link_encode(fs[i])])

\* What the wire may do to a stream: nothing, lose a byte, change one, add
\* one, or add a run of noise too long for any frame.
Damage(s) ==
    {s}
    \cup {RemoveAt(s, i) : i \in DOMAIN s}
    \cup {ReplaceAt(s, i, b) : i \in DOMAIN s, b \in Byte}
    \cup {SubSeq(s, 1, i) \o noise \o SubSeq(s, i + 1, Len(s)) :
              i \in 0..Len(s),
              noise \in {<<b>> : b \in Byte}
                        \cup {[j \in 1..n |-> 1] : n \in MAX_ENCODED_LEN - 1 .. MAX_ENCODED_LEN}}

\* Any one frame undisturbed, or several frames damaged once.
Init ==
    /\ \/ \E f \in Frame : sent = <<f>> /\ stream = mc_link_encode(f)
       \/ \E fs \in [1..MaxFrames -> DamagedFrames] :
             sent = fs /\ stream \in Damage(Encoded(fs))
    /\ pos = 0
    /\ parser = mc_link_parser_init
    /\ decoder = [buffer |-> <<>>, discarding |-> FALSE]
    /\ handed = <<>> /\ kept = <<>> /\ received = <<>>

\* One pump_link_rx (and one Decoder::feed at the other end) with the bytes
\* that have arrived, at most MC_TICK_BUDGET_RX_BYTES of them.
Receive ==
    \E n \in 1..(Len(stream) - pos) :
        LET block == SubSeq(stream, pos + 1, pos + n)
            r == mc_link_session_receive_bytes(parser, block)
            d == Decoder_feed(decoder, block)
        IN  /\ n <= MAX_ENCODED_LEN
            /\ pos' = pos + n
            /\ parser' = r.parser
            /\ handed' = handed \o r.frames
            /\ kept' = kept \o SubSeq(block, 1, n - r.thrown)
            /\ decoder' = [buffer |-> d.buffer, discarding |-> d.discarding]
            /\ received' = received \o d.events
            /\ UNCHANGED <<sent, stream>>

Next == Receive

Spec == Init /\ [][Next]_vars

-----------------------------------------------------------------------------
(* Properties.                                                              *)

\* Types: the parser's buffer never outgrows its array, and holds bytes.
TypeOK ==
    /\ pos \in 0..Len(stream)
    /\ parser.buf \in Seq(Byte) /\ Len(parser.buf) < MAX_ENCODED_LEN
    /\ decoder.buffer \in Seq(Byte) /\ Len(decoder.buffer) < MAX_ENCODED_LEN
    /\ parser.discarding \in BOOLEAN /\ decoder.discarding \in BOOLEAN
    /\ handed \in Seq(Frame)
    /\ received \in Seq(Frame \cup {Damaged})

\* The stretches of bytes that a delimiter ends, without it.
Pieces(bytes) ==
    LET ends == SetToSortSeq({i \in DOMAIN bytes : bytes[i] = DELIMITER}, <)
        start(k) == IF k = 1 THEN 1 ELSE ends[k - 1] + 1
    IN  [k \in DOMAIN ends |-> SubSeq(bytes, start(k), ends[k] - 1)]

\* The body ends in non-zero bytes that fill their last COBS block exactly.
EndsInFullBlock(f) ==
    LET body == BodyOf(f)
        zeros == {i \in DOMAIN body : body[i] = 0}
        run == Len(body) - (CHOOSE z \in zeros \cup {0} : \A y \in zeros : y <= z)
    IN  run > 0 /\ run % (FullCode - 1) = 0

\* What a piece is, said by the encoder alone: the encoding of a frame, or
\* that encoding with a redundant empty block after a full one.
Encodings ==
    [piece \in {Front(encode(f)) : f \in Frame}
               \cup {Front(encode(f)) \o <<1>> : f \in {g \in Frame : EndsInFullBlock(g)}}
        |-> CHOOSE f \in Frame :
                \/ Front(encode(f)) = piece
                \/ EndsInFullBlock(f) /\ Front(encode(f)) \o <<1>> = piece]

Intact(piece) == piece \in DOMAIN Encodings /\ Len(piece) < MAX_ENCODED_LEN

IntactFrames(bytes) ==
    LET intact == SelectSeq(Pieces(bytes), Intact)
    IN  [k \in DOMAIN intact |-> Encodings[intact[k]]]

\* mc_link_parser_feed and the loop around it: wherever the block boundaries
\* fall and whatever is damaged, the frames handled are exactly the intact
\* pieces of the bytes kept, once each and in order.  A damaged or over-long
\* piece costs no neighbour, and what a cleared parser throws away ends with
\* the block.
FramesExactlyOnce == handed = IntactFrames(kept)

\* Decoder::feed in the bridge reads the same frames out of the same bytes as
\* the firmware would, and reports every damaged piece exactly once (each
\* report ends the bridge's session, see process_serial_bytes).
BridgeAgrees ==
    LET pieces == Pieces(SubSeq(stream, 1, pos))
    IN  /\ SelectSeq(received, LAMBDA e : e # Damaged) = IntactFrames(SubSeq(stream, 1, pos))
        /\ Len(SelectSeq(received, LAMBDA e : e = Damaged))
             = Len(SelectSeq(pieces, LAMBDA p : p # <<>> /\ ~Intact(p)))

\* mc_link_encode and encode produce the same bytes for every frame, within
\* the length limit, with the delimiter at the end and nowhere else.
EncodersAgree ==
    \A i \in DOMAIN sent :
        LET bytes == mc_link_encode(sent[i])
        IN  /\ bytes = encode(sent[i])
            /\ Len(bytes) \in 2..MAX_ENCODED_LEN
            /\ \A k \in DOMAIN bytes : bytes[k] = DELIMITER <=> k = Len(bytes)

=============================================================================
