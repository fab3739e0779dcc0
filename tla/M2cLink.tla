------------------------------ MODULE M2cLink ------------------------------
(***************************************************************************)
(* The MCU-to-client (M2C) half of UART link v2 and the link reset: the    *)
(* firmware's main loop from the Minecraft server's TX ring through the    *)
(* session's two queues, link_pending and the UART, and the bridge's       *)
(* decoders, reset handshake, rate calibration and DATA_M2C sequence check.*)
(*                                                                         *)
(* Frames are cut into units so that a frame can be half written, half     *)
(* read, or split between link_pending and the session (which a maximal    *)
(* DATA_M2C is).  The last unit of a frame is its COBS delimiter.  Bytes   *)
(* from the server are named by the link session whose client data made    *)
(* the server talk and by their position, so a byte of a former session is *)
(* told from one of the present session.  C2mLink treats the other         *)
(* direction in full; here a DATA_C2M is what it makes the server do, and  *)
(* its sequence number, by which a firmware that has started again in the  *)
(* middle of a session knows that it has missed something.                 *)
(***************************************************************************)
EXTENDS Integers, Sequences

CONSTANTS
    Payload,       \* negotiated_payload
    TxRingCap,     \* capacity of the server's TX ring, in bytes
    SessionTxCap,  \* capacity of session->tx, in units
    ControlCap,    \* capacity of session->control_tx, in units
    ControlLen,    \* units of a control frame
    PendingCap,    \* MC_LINK_TX_PENDING_BYTES = MC_LINK_TX_MAX_BYTES_PER_LOOP
    SeqMod,        \* 65536
    ClientKinds,   \* what a DATA_C2M may do: subset of {"play", "handshake", "bad"}
    MaxResets,     \* bound: RESET frames sent
    MaxCrashes,    \* bound: restarts of the bridge and of the firmware, together
    MaxData,       \* bound: DATA_C2M frames of one link session
    MaxOut,        \* bound: bytes one server session produces
    MaxC2m,        \* bound: frames on the wire to the firmware
    MaxUart,       \* bound: units on the wire to the bridge
    MaxProbes,     \* bound: RATE_PROBE frames of one calibration
    MaxCopies,     \* bound: times a DATA_C2M is sent
    Noisy          \* whether the wire to the bridge may lose a unit (one in a link session)

ASSUME LinkAssumption ==
    /\ Payload \in Nat \ {0} /\ TxRingCap \in Nat /\ SessionTxCap \in Nat
    /\ ControlLen \in Nat \ {0} /\ PendingCap \in Nat /\ PendingCap >= ControlLen
    /\ ControlCap \in Nat /\ ControlCap >= 3 * ControlLen
    /\ SeqMod \in Nat /\ SeqMod > 1 /\ ClientKinds \subseteq {"play", "handshake", "bad"}
    /\ {MaxResets, MaxCrashes, MaxData, MaxOut, MaxC2m, MaxUart} \subseteq Nat
    /\ MaxProbes \in Nat \ {0} /\ MaxCopies \in Nat \ {0} /\ Noisy \in BOOLEAN

VARIABLES
    \* firmware
    pump,      \* the pump of the main loop that runs next
    session,   \* mc_link_session_t: tx, control_tx, active, remaining and the two sequence numbers
    pending,   \* link_pending: buf and pos
    tx_ring,   \* the server's TX ring
    rx,        \* what waits in the RX ring: NoRx or a client kind
    server,    \* the server: link (whose data it got, or 0), out (bytes produced)
    \* wires
    c2m, uart,
    \* bridge
    phase,     \* "boot", "idle", "wait" (reset handshake), "cal", "run" or "exit"
    next_reset_seq, reset_seq, saw_reset_ack,
    buffer,    \* units the current Decoder holds
    m2c_seq_expected,
    c2m_seq,   \* next_seq of the C2mSender
    unacked,   \* its outstanding frame, or NoRx
    probe,     \* calibration: nonce of the last probe, whether it is awaited, any hit
    \* history
    resets, crashes,
    link,      \* the current link session: a number no other link session has
    tcp,       \* bytes written to the client since the last READY
    last,      \* the last unit the firmware wrote since it started
    torn,      \* a unit was written that does not continue the one before
    excuse     \* disturbances of this link session: "noise", "cut echo", "drop", "restart", "reboot"

fwVars == <<pump, session, pending, tx_ring, rx, server, last, torn>>
bridgeVars == <<phase, next_reset_seq, reset_seq, saw_reset_ack, buffer,
                m2c_seq_expected, c2m_seq, unacked, probe, resets, crashes, link, tcp>>
sender == <<c2m_seq, unacked>>
history == <<resets, crashes, link>>
vars == <<fwVars, bridgeVars, c2m, uart, excuse>>

NoRx == [kind |-> "none"]
Byte == [link : 1..MaxResets, i : 1..MaxOut]
DataLen(n) == n + 1
Control(type, seq) == [type |-> type, seq |-> seq, data |-> <<>>, len |-> ControlLen]
Data(seq, bytes) == [type |-> "DATA_M2C", seq |-> seq, data |-> bytes,
                     len |-> DataLen(Len(bytes))]
Units(f) == [i \in 1..f.len |-> [frame |-> f, part |-> i]]
Delimiter(u) == u.part = u.frame.len
Follows(u, v) == IF Delimiter(u) THEN v.part = 1
                 ELSE v.frame = u.frame /\ v.part = u.part + 1
Drop(s, n) == SubSeq(s, n + 1, Len(s))
Lesser(a, b) == IF a < b THEN a ELSE b

Empty == [buf |-> <<>>, pos |-> 0]
Boot == [tx |-> <<>>, control_tx |-> <<>>, active |-> "NONE", remaining |-> 0,
         tx_seq_next |-> 0, rx_seq_expected |-> 0]
FreshServer == [link |-> 0, out |-> 0]
Silence == [frame |-> Control("READY", 0), part |-> ControlLen]
NoProbe == [nonce |-> 0, awaited |-> FALSE, hit |-> FALSE]

Init ==
    /\ pump = "rx" /\ session = Boot /\ pending = Empty /\ tx_ring = <<>>
    /\ rx = NoRx /\ server = FreshServer
    /\ c2m = <<>> /\ uart = <<>>
    /\ phase = "boot" /\ next_reset_seq = 1 /\ reset_seq = 0
    /\ resets = 0 /\ crashes = 0 /\ link = 0
    /\ c2m_seq = 0 /\ unacked = NoRx
    /\ saw_reset_ack = FALSE /\ buffer = <<>> /\ m2c_seq_expected = 0
    /\ probe = NoProbe /\ tcp = <<>>
    /\ last = Silence /\ torn = FALSE
    /\ excuse = {}

-----------------------------------------------------------------------------
(* mc_link_session.c: the session's two queues.                            *)

HasRoom(q, cap, f) == cap - Len(q) >= f.len
CanQueue(s, f) == HasRoom(s.control_tx, ControlCap, f)

\* Fault: the free space is not looked at.
queue_unchecked(s, f) == [s EXCEPT !.control_tx = @ \o Units(f)]

queue_control_frame(s, f) ==
    IF CanQueue(s, f) THEN [s EXCEPT !.control_tx = @ \o Units(f)] ELSE s

\* The length of the first complete frame of a queue, 0 if there is none.
next_frame_len(q) ==
    IF \E i \in 1..Len(q) : Delimiter(q[i])
    THEN CHOOSE i \in 1..Len(q) : /\ Delimiter(q[i])
                                  /\ \A j \in 1..(i - 1) : ~Delimiter(q[j])
    ELSE 0

truncate_ringbuf(q, keep) == SubSeq(q, 1, Lesser(keep, Len(q)))

\* Faults: the tail of a frame that has started on the UART is dropped too,
\* or the sequence numbers do not restart.
reset_discarding_active(s) ==
    [s EXCEPT !.tx_seq_next = 0, !.rx_seq_expected = 0, !.tx = <<>>,
              !.active = IF @ = "DATA" THEN "NONE" ELSE @,
              !.remaining = IF s.active = "DATA" THEN 0 ELSE @]
reset_keeping_seq(s) ==
    [s EXCEPT !.rx_seq_expected = 0,
              !.tx = IF s.active = "DATA" THEN truncate_ringbuf(@, s.remaining) ELSE <<>>]

reset_link_state_preserving_control_tx(s) ==
    [s EXCEPT !.tx_seq_next = 0, !.rx_seq_expected = 0,
              !.tx = IF s.active = "DATA" THEN truncate_ringbuf(@, s.remaining) ELSE <<>>]

reset_link_state(s) ==
    [reset_link_state_preserving_control_tx(s) EXCEPT
        !.control_tx = IF s.active = "CONTROL" THEN truncate_ringbuf(@, s.remaining) ELSE <<>>]

mc_link_session_drop_queued_data(s) ==
    [s EXCEPT !.tx = IF s.active = "DATA" THEN truncate_ringbuf(@, s.remaining) ELSE <<>>]

\* mc_link_session_queue_server_tx: one DATA_M2C from the server's TX ring.
ServerFrame == Data(session.tx_seq_next, SubSeq(tx_ring, 1, Lesser(Len(tx_ring), Payload)))
\* Fault: bytes leave the TX ring although their frame does not fit.
TxWaits == tx_ring # <<>>

CanQueueServerTx == tx_ring # <<>> /\ HasRoom(session.tx, SessionTxCap, ServerFrame)
mc_link_session_queue_server_tx ==
    IF tx_ring # <<>> /\ HasRoom(session.tx, SessionTxCap, ServerFrame)
    THEN [session EXCEPT !.tx = @ \o Units(ServerFrame),
                         !.tx_seq_next = (@ + 1) % SeqMod]
    ELSE session

\* mc_link_session_read_tx: control frames first, but never into a frame
\* that has been read in part.
Activated(s) ==
    IF s.active # "NONE" THEN s
    ELSE IF next_frame_len(s.control_tx) > 0
         THEN [s EXCEPT !.active = "CONTROL", !.remaining = next_frame_len(s.control_tx)]
    ELSE IF next_frame_len(s.tx) > 0
         THEN [s EXCEPT !.active = "DATA", !.remaining = next_frame_len(s.tx)]
    ELSE s
ActiveQueue(s) == IF s.active = "CONTROL" THEN s.control_tx ELSE s.tx
mc_link_session_read_tx(s) ==
    LET a == Activated(s)
        n == Lesser(a.remaining, PendingCap)
        left == a.remaining - n
        b == [a EXCEPT !.remaining = left, !.active = IF left = 0 THEN "NONE" ELSE @] IN
    IF a.active = "NONE" THEN [s |-> s, buf |-> <<>>]
    ELSE [s |-> IF a.active = "CONTROL" THEN [b EXCEPT !.control_tx = Drop(@, n)]
                ELSE [b EXCEPT !.tx = Drop(@, n)],
          buf |-> SubSeq(ActiveQueue(a), 1, n)]

-----------------------------------------------------------------------------
(* main.c: the firmware's main loop.                                       *)

link_pending_is_data_m2c(p) ==
    /\ p.buf # <<>> /\ p.pos = 0
    /\ p.buf = Units(p.buf[1].frame)
    /\ p.buf[1].frame.type = "DATA_M2C"

\* The part of drop_stale_link_tx_data that concerns link_pending.
dropped_pending(s, p) ==
    IF p.pos = 0 /\ s.active # "DATA" /\ link_pending_is_data_m2c(p) THEN Empty ELSE p

drop_stale_link_tx_data(s) ==
    /\ session' = mc_link_session_drop_queued_data(s)
    /\ pending' = dropped_pending(mc_link_session_drop_queued_data(s), pending)

\* What a drop does to the stream of this link session: sequenced frames
\* vanish, or bytes of the server do.
DropExcuse(s) ==
    (IF /\ mc_link_session_drop_queued_data(s) = s
        /\ dropped_pending(s, pending) = pending
     THEN {} ELSE {"drop"})
    \cup (IF tx_ring = <<>> THEN {} ELSE {"restart"})

reset_connection(s) ==
    /\ tx_ring' = <<>>
    /\ rx' = NoRx
    /\ server' = FreshServer
    /\ drop_stale_link_tx_data(s)

\* Fault: the connection is not reset after the link.
HandleResetLinkOnly(f) ==
    /\ session' = queue_control_frame(
                    queue_control_frame(reset_link_state(session), Control("RESET_ACK", f.seq)),
                    Control("READY", 0))
    /\ rx' = NoRx
    /\ UNCHANGED <<pending, tx_ring, server, excuse>>

\* handle_reset, then reset_connection("link_reset").
HandleReset(f) ==
    /\ reset_connection(
          queue_control_frame(
            queue_control_frame(reset_link_state(session), Control("RESET_ACK", f.seq)),
            Control("READY", 0)))
    /\ UNCHANGED excuse

\* handle_hello resets the link but not the connection.
HandleHello ==
    /\ session' = queue_control_frame(reset_link_state(session), Control("READY", 0))
    /\ rx' = NoRx
    /\ UNCHANGED <<pending, tx_ring, server, excuse>>

\* pump_link_rx when the receive fails: the connection, but not the link, is
\* reset.
ReceiveFailed(s) ==
    /\ reset_connection(s)
    /\ excuse' = excuse \cup {"restart"} \cup DropExcuse(s)

\* handle_data_c2m: a frame that comes again is only acknowledged, one out of
\* sequence refused.  An ACK that finds no room fails the receive.
HandleDataC2m(f) ==
    LET expected == session.rx_seq_expected
        duplicate == f.seq = (expected - 1) % SeqMod
        s == IF duplicate THEN session
             ELSE [session EXCEPT !.rx_seq_expected = (@ + 1) % SeqMod]
        ack == Control("ACK_C2M", s.rx_seq_expected) IN
    IF ~duplicate /\ f.seq # expected
    THEN ReceiveFailed(queue_control_frame(session, Control("ERROR", 0)))
    ELSE IF CanQueue(s, ack)
    THEN /\ session' = queue_control_frame(s, ack)
         /\ rx' = IF duplicate THEN rx ELSE f
         /\ UNCHANGED <<pending, tx_ring, server, excuse>>
    ELSE ReceiveFailed(s)

\* A RATE_PROBE is echoed.
HandleRateProbe(f) ==
    LET echo == Control("RATE_PROBE_ACK", f.seq) IN
    IF CanQueue(session, echo)
    THEN /\ session' = queue_control_frame(session, echo)
         /\ UNCHANGED <<pending, tx_ring, rx, server, excuse>>
    ELSE ReceiveFailed(session)

\* One read may bring several frames, so the pump may go on with the next.
PumpLinkRx ==
    /\ pump = "rx"
    /\ \/ /\ pump' = "server"
          /\ UNCHANGED <<session, pending, tx_ring, rx, server, c2m, excuse>>
       \/ /\ c2m # <<>> /\ rx = NoRx
          /\ c2m' = Tail(c2m)
          /\ pump' \in {"rx", "server"}
          /\ IF Head(c2m).type = "RESET" THEN HandleReset(Head(c2m))
             ELSE IF Head(c2m).type = "HELLO" THEN HandleHello
             ELSE IF Head(c2m).type = "DATA_C2M" THEN HandleDataC2m(Head(c2m))
             ELSE HandleRateProbe(Head(c2m))
    /\ UNCHANGED <<bridgeVars, uart, last, torn>>

\* mc_server_tick_at: a server that has heard from a client may queue a
\* packet, whole or not at all.
ServerOutput(ring, v) ==
    \/ tx_ring' = ring /\ server' = v
    \/ /\ v.link # 0
       /\ \E n \in 1..Lesser(MaxOut - v.out, TxRingCap - Len(ring)) :
             /\ tx_ring' = ring \o [i \in 1..n |-> [link |-> v.link, i |-> v.out + i]]
             /\ server' = [v EXCEPT !.out = @ + n]

\* pump_server when mc_server_receive fails: ERROR, a link reset, READY.
ServerReject ==
    LET e == Control("ERROR", 0)
        s == IF CanQueue(session, e)
             THEN queue_control_frame(
                    reset_link_state_preserving_control_tx(queue_control_frame(session, e)),
                    Control("READY", 0))
             ELSE session IN
    /\ reset_connection(s)
    /\ excuse' = excuse \cup {"restart"} \cup DropExcuse(s)

\* pump_server: the client's bytes, the credit update, then the tick.  A
\* handshake that is not the first drops what the server had to say.
ServerReceive ==
    LET s == IF rx = NoRx THEN session ELSE queue_control_frame(session, Control("ACK_C2M", 0))
        heard == IF rx # NoRx /\ server.link = 0 THEN [server EXCEPT !.link = rx.link]
                 ELSE server IN
    /\ rx' = NoRx
    /\ IF rx # NoRx /\ rx.kind = "handshake"
       THEN /\ drop_stale_link_tx_data(s)
            /\ excuse' = excuse \cup DropExcuse(s)
            /\ ServerOutput(<<>>, heard)
       ELSE /\ session' = s
            /\ UNCHANGED <<pending, excuse>>
            /\ ServerOutput(tx_ring, heard)

PumpServer ==
    /\ pump = "server"
    /\ pump' = "tx"
    /\ IF rx # NoRx /\ rx.kind = "bad" THEN ServerReject ELSE ServerReceive
    /\ UNCHANGED <<bridgeVars, c2m, uart, last, torn>>

\* The UART takes the units w.
Written(w) ==
    /\ uart' = uart \o w
    /\ last' = IF w = <<>> THEN last ELSE w[Len(w)]
    /\ torn' = (torn \/ \E i \in 1..Len(w) : ~Follows(IF i = 1 THEN last ELSE w[i - 1], w[i]))

\* pump_link_tx: finish link_pending, then queue one DATA_M2C, read the next
\* piece of a frame and start writing it.  The UART takes any part of what
\* it is offered.
PumpLinkTx ==
    /\ pump = "tx"
    /\ pump' = "rx"
    /\ LET left == Drop(pending.buf, pending.pos)
           room == MaxUart - Len(uart) IN
       \E n \in 0..Lesser(Len(left), room) :
          IF n < Len(left) \/ n = PendingCap
          THEN /\ Written(SubSeq(left, 1, n))
               /\ pending' = IF n = Len(left) THEN Empty ELSE [pending EXCEPT !.pos = @ + n]
               /\ UNCHANGED <<session, tx_ring>>
          ELSE LET r == mc_link_session_read_tx(mc_link_session_queue_server_tx) IN
               \E m \in 0..Lesser(Len(r.buf), Lesser(PendingCap, room) - n) :
                  /\ Written(left \o SubSeq(r.buf, 1, m))
                  /\ pending' = IF m = Len(r.buf) THEN Empty ELSE [buf |-> r.buf, pos |-> m]
                  /\ session' = r.s
                  /\ tx_ring' = IF CanQueueServerTx THEN Drop(tx_ring, Len(ServerFrame.data))
                                ELSE tx_ring
    /\ UNCHANGED <<rx, server, bridgeVars, c2m, excuse>>

-----------------------------------------------------------------------------
(* The bridge.                                                             *)

\* next_reset_seq and write_link_reset.
SendReset ==
    /\ resets < MaxResets
    /\ Len(c2m) < MaxC2m
    /\ resets' = resets + 1
    /\ c2m' = Append(c2m, [type |-> "RESET", seq |-> next_reset_seq])
    /\ next_reset_seq' = next_reset_seq + 1

\* reset_link_and_wait_ready: a RESET goes out once, with a new Decoder.
StartReset ==
    /\ SendReset
    /\ link' = resets + 1
    /\ c2m_seq' = 0 /\ unacked' = NoRx
    /\ phase' = "wait"
    /\ reset_seq' = next_reset_seq
    /\ saw_reset_ack' = FALSE
    /\ buffer' = <<>>
    /\ tcp' = <<>>

\* wait_for_ready at the start of the process: HELLO until READY.
SendHello ==
    /\ phase = "boot"
    /\ Len(c2m) < MaxC2m
    /\ c2m' = Append(c2m, [type |-> "HELLO"])
    /\ UNCHANGED <<fwVars, bridgeVars, uart, excuse>>

\* The process dies, or is started again after it gave up: only the bytes
\* in flight (some may be lost) and the firmware survive.
Crash ==
    /\ crashes < MaxCrashes
    /\ crashes' = crashes + 1
    /\ phase' = "boot" /\ next_reset_seq' = 1 /\ reset_seq' = 0
    /\ saw_reset_ack' = FALSE /\ buffer' = <<>> /\ m2c_seq_expected' = 0
    /\ c2m_seq' = 0 /\ unacked' = NoRx /\ probe' = NoProbe /\ tcp' = <<>>
    /\ \E k \in 0..Len(uart) : uart' = Drop(uart, k)
    /\ UNCHANGED <<fwVars, c2m, resets, link, excuse>>

\* A new TCP client.
Connect ==
    /\ phase = "idle"
    /\ StartReset
    /\ UNCHANGED <<fwVars, uart, m2c_seq_expected, probe, crashes, excuse>>

\* TCP end of file or error: send_link_reset and return to accept.
TcpEof ==
    /\ phase = "run"
    /\ SendReset
    /\ phase' = "idle"
    /\ c2m_seq' = 0 /\ unacked' = NoRx
    /\ UNCHANGED <<fwVars, uart, reset_seq, saw_reset_ack, buffer, m2c_seq_expected,
                   probe, crashes, link, tcp, excuse>>

\* needs_recalibration, or the last C2M sequence number.  The RX worker is
\* stopped, so units it had queued are lost.
Recalibrate ==
    /\ phase = "run"
    /\ StartReset
    /\ \E k \in 0..Len(uart) : uart' = Drop(uart, k)
    /\ UNCHANGED <<fwVars, m2c_seq_expected, probe, crashes, excuse>>

\* The handshake or the calibration fails: back to accept, with or without
\* a RESET, depending on the caller.
GiveUp ==
    /\ phase = "wait" \/ (phase = "cal" /\ ~probe.awaited /\ probe.nonce > 0)
    /\ phase' = "idle"
    /\ SendReset \/ UNCHANGED <<c2m, next_reset_seq, resets>>
    /\ UNCHANGED <<fwVars, uart, reset_seq, saw_reset_ack, buffer, m2c_seq_expected,
                   sender, probe, crashes, link, tcp, excuse>>

\* The Decoder sees one more unit: it answers "more", "error" or a frame.
Fed == Append(buffer, Head(uart))
Decoded ==
    IF ~Delimiter(Head(uart)) THEN [type |-> "more"]
    ELSE IF Fed = Units(Head(uart).frame) THEN Head(uart).frame
    ELSE [type |-> "error"]
Feed ==
    /\ uart # <<>>
    /\ buffer' = IF Delimiter(Head(uart)) THEN <<>> ELSE Fed

BootReceive ==
    /\ phase = "boot"
    /\ Feed
    /\ phase' = IF Decoded.type = "READY" THEN "idle" ELSE phase
    /\ \E k \in 1..Len(uart) : (Decoded.type # "READY" => k = 1) /\ uart' = Drop(uart, k)
    /\ UNCHANGED <<fwVars, c2m, next_reset_seq, reset_seq, saw_reset_ack, m2c_seq_expected,
                   sender, probe, history, tcp, excuse>>

MatchingResetAck(f) == f.type = "RESET_ACK" /\ f.seq = reset_seq

\* reset_link_and_wait_ready_with_seq reads a unit; READY counts only after
\* the RESET_ACK of this RESET.  The rest of the read is lost with READY.
WaitReceive ==
    /\ phase = "wait"
    /\ Feed
    /\ saw_reset_ack' = (saw_reset_ack \/ MatchingResetAck(Decoded))
    /\ IF Decoded.type = "READY" /\ saw_reset_ack
       THEN /\ phase' = "cal"
            /\ probe' = NoProbe
            /\ excuse' = {}
            /\ \E k \in 1..Len(uart) : uart' = Drop(uart, k)
       ELSE /\ uart' = Tail(uart)
            /\ UNCHANGED <<phase, probe, excuse>>
    /\ UNCHANGED <<fwVars, c2m, next_reset_seq, reset_seq, m2c_seq_expected, sender,
                   history, tcp>>

SendProbe ==
    /\ phase = "cal" /\ ~probe.awaited /\ probe.nonce < MaxProbes
    /\ Len(c2m) < MaxC2m
    /\ probe' = [probe EXCEPT !.nonce = @ + 1, !.awaited = TRUE]
    /\ c2m' = Append(c2m, [type |-> "RATE_PROBE", seq |-> probe.nonce + 1])
    /\ UNCHANGED <<fwVars, uart, phase, next_reset_seq, reset_seq, saw_reset_ack, buffer,
                   m2c_seq_expected, sender, history, tcp, excuse>>

\* wait_for_rate_probe_ack: DATA_M2C is an error that ends the bridge.
CalReceive ==
    /\ phase = "cal" /\ probe.awaited
    /\ Feed
    /\ uart' = Tail(uart)
    /\ LET hit == Decoded.type = "RATE_PROBE_ACK" /\ Decoded.seq = probe.nonce IN
          probe' = [probe EXCEPT !.awaited = ~hit, !.hit = @ \/ hit]
    /\ phase' = IF Decoded.type = "DATA_M2C" THEN "exit" ELSE phase
    /\ UNCHANGED <<fwVars, c2m, next_reset_seq, reset_seq, saw_reset_ack, m2c_seq_expected,
                   sender, history, tcp, excuse>>

\* Fault: every attempt reads with a Decoder of its own.
timeout_new_decoder ==
    /\ phase = "cal" /\ probe.awaited
    /\ probe' = [probe EXCEPT !.awaited = FALSE]
    /\ buffer' = <<>>
    /\ UNCHANGED <<fwVars, c2m, uart, phase, next_reset_seq, reset_seq, saw_reset_ack,
                   m2c_seq_expected, sender, history, tcp, excuse>>

\* The Decoder keeps what has come of an echo for the next attempt.
ProbeTimeout ==
    /\ phase = "cal" /\ probe.awaited
    /\ probe' = [probe EXCEPT !.awaited = FALSE]
    /\ UNCHANGED <<fwVars, c2m, uart, phase, next_reset_seq, reset_seq, saw_reset_ack,
                   buffer, m2c_seq_expected, sender, history, tcp, excuse>>

\* Calibration ends well: a new Decoder and the RX worker start, even while a
\* late echo has come in half.
CalDone ==
    /\ phase = "cal" /\ ~probe.awaited /\ probe.hit
    /\ phase' = "run"
    /\ buffer' = <<>>
    /\ excuse' = IF buffer = <<>> THEN excuse ELSE excuse \cup {"cut echo"}
    /\ m2c_seq_expected' = 0
    /\ UNCHANGED <<fwVars, c2m, uart, next_reset_seq, reset_seq, saw_reset_ack, probe,
                   sender, history, tcp>>

\* One DATA_C2M at a time, sent again until it is acknowledged.
SendClientData ==
    /\ phase = "run"
    /\ Len(c2m) < MaxC2m
    /\ \/ /\ unacked = NoRx /\ c2m_seq < MaxData
          /\ \E k \in ClientKinds :
                unacked' = [seq |-> c2m_seq, kind |-> k, copies |-> 1]
          /\ c2m_seq' = c2m_seq + 1
       \/ /\ unacked # NoRx /\ unacked.copies < MaxCopies
          /\ unacked' = [unacked EXCEPT !.copies = @ + 1]
          /\ UNCHANGED c2m_seq
    /\ c2m' = Append(c2m, [type |-> "DATA_C2M", seq |-> unacked'.seq,
                           kind |-> unacked'.kind, link |-> link])
    /\ UNCHANGED <<fwVars, uart, phase, next_reset_seq, reset_seq, saw_reset_ack, buffer,
                   m2c_seq_expected, probe, history, tcp, excuse>>

\* Fault: any sequence number is accepted.
accept_m2c_any(f) == TRUE

accept_m2c_sequence(f) == f.seq = m2c_seq_expected

\* handle_serial_frame for DATA_M2C.
RunData ==
    /\ Decoded.type = "DATA_M2C"
    /\ IF accept_m2c_sequence(Decoded)
       THEN /\ m2c_seq_expected' = (m2c_seq_expected + 1) % SeqMod
            /\ tcp' = tcp \o Decoded.data
            /\ UNCHANGED phase
       ELSE phase' = "exit" /\ UNCHANGED <<m2c_seq_expected, tcp>>
    /\ uart' = Tail(uart) /\ Feed
    /\ UNCHANGED <<c2m, next_reset_seq, reset_seq, saw_reset_ack, sender, resets, link>>

\* READY and ERROR start a link reset; the units after them that were read
\* already are lost.
RunReset ==
    /\ Decoded.type \in {"READY", "ERROR"}
    /\ StartReset
    /\ \E k \in 1..Len(uart) : uart' = Drop(uart, k)
    /\ UNCHANGED m2c_seq_expected

\* A decode error ends the bridge, an ACK_C2M releases the frame it answers
\* (c2m_seq follows its number); the other frames change nothing here.
RunOther ==
    /\ Decoded.type \notin {"DATA_M2C", "READY", "ERROR"}
    /\ unacked' = IF /\ Decoded.type = "ACK_C2M"
                     /\ unacked # NoRx /\ Decoded.seq = c2m_seq
                  THEN NoRx ELSE unacked
    /\ phase' = IF Decoded.type = "error" THEN "exit" ELSE phase
    /\ uart' = Tail(uart) /\ Feed
    /\ UNCHANGED <<c2m, next_reset_seq, reset_seq, saw_reset_ack, m2c_seq_expected,
                   c2m_seq, resets, link, tcp>>

RunReceive ==
    /\ phase = "run"
    /\ uart # <<>>
    /\ RunData \/ RunReset \/ RunOther
    /\ UNCHANGED <<fwVars, probe, crashes, excuse>>

-----------------------------------------------------------------------------
(* The wires.                                                              *)

\* The firmware's parser drops a damaged frame.
LoseC2m ==
    /\ c2m # <<>>
    /\ c2m' = Tail(c2m)
    /\ UNCHANGED <<fwVars, bridgeVars, uart, excuse>>

\* The bridge misses a unit.
LoseUnit ==
    /\ Noisy /\ "noise" \notin excuse
    /\ uart # <<>>
    /\ uart' = Tail(uart)
    /\ excuse' = excuse \cup {"noise"}
    /\ UNCHANGED <<fwVars, bridgeVars, c2m>>

\* The firmware starts again: what it held is gone, and what arrives while it
\* boots is not read.
Reboot ==
    /\ crashes < MaxCrashes
    /\ crashes' = crashes + 1
    /\ pump' = "rx" /\ session' = Boot /\ pending' = Empty /\ tx_ring' = <<>>
    /\ rx' = NoRx /\ server' = FreshServer /\ last' = Silence
    /\ \E k \in 0..Len(c2m) : c2m' = Drop(c2m, k)
    /\ excuse' = excuse \cup {"reboot"}
    /\ UNCHANGED <<torn, uart, phase, next_reset_seq, reset_seq, saw_reset_ack, buffer,
                   m2c_seq_expected, sender, probe, resets, link, tcp>>

Next ==
    \/ PumpLinkRx \/ PumpServer \/ PumpLinkTx
    \/ SendHello \/ BootReceive \/ Crash \/ Connect \/ TcpEof \/ Recalibrate \/ GiveUp \/ WaitReceive
    \/ SendProbe \/ CalReceive \/ ProbeTimeout \/ CalDone
    \/ SendClientData \/ RunReceive
    \/ LoseC2m \/ LoseUnit \/ Reboot

Spec == Init /\ [][Next]_vars

-----------------------------------------------------------------------------
(* Properties.                                                             *)

UnitOf(u) == /\ u.part \in 1..u.frame.len
             /\ u.frame.type \in {"DATA_M2C", "READY", "RESET_ACK", "RATE_PROBE_ACK",
                                  "ACK_C2M", "ERROR"}

\* Queues stay within their storage and hold units of frames; the active
\* queue really holds the rest of the frame that read_tx has begun.
TypeOK ==
    /\ pump \in {"rx", "server", "tx"}
    /\ Len(session.tx) <= SessionTxCap /\ Len(session.control_tx) <= ControlCap
    /\ session.active \in {"NONE", "CONTROL", "DATA"}
    /\ session.remaining \in 0..Len(ActiveQueue(session))
    /\ session.active = "NONE" <=> session.remaining = 0
    /\ session.tx_seq_next \in 0..(SeqMod - 1)
    /\ Len(pending.buf) <= PendingCap /\ pending.pos \in 0..Len(pending.buf)
    /\ Len(tx_ring) <= TxRingCap
    /\ server.link \in 0..MaxResets /\ server.out \in 0..MaxOut
    /\ phase \in {"boot", "idle", "wait", "cal", "run", "exit"}
    /\ m2c_seq_expected \in 0..(SeqMod - 1)
    /\ \A i \in 1..Len(uart) : UnitOf(uart[i])
    /\ \A i \in 1..Len(tcp) : tcp[i] \in Byte

\* Frames leave the UART whole: no reset, of the link or of the connection,
\* cuts a frame that has started, and no control frame lands inside one.
WireFramed == ~torn

\* What reaches the client was said by the server in this link session: no
\* byte of a former client, or from before a link reset, is ever passed on.
OnlyThisSession ==
    \A i \in 1..Len(tcp) : tcp[i].link = link

\* The client reads a prefix of what one server said, unless that server was
\* restarted or its frames were dropped in the link session: not even noise,
\* or a firmware that starts again and is fed the client's next frames, makes
\* it read on after a gap.
PrefixOfServer ==
    excuse \cap {"drop", "restart"} = {} => \A i \in 1..Len(tcp) : tcp[i].i = i

\* The bridge gives up (decode error, sequence mismatch, DATA_M2C during
\* calibration) only after noise on the wire, a drop of sequenced frames, a
\* reboot of the firmware, or a calibration that ended while the Decoder held
\* the first half of an echo.  An echo that is late but whole, in the next
\* attempt, the next profile or the running link, is no reason.
NoSpuriousExit ==
    phase = "exit" => excuse \cap {"noise", "cut echo", "drop", "reboot"} # {}

\* docs/protocol/uart-link-v2.md: the bridge requires consecutive DATA_M2C
\* sequence numbers, and the firmware increments seq; so, on an undisturbed
\* wire, the bridge does not meet a gap.
NoSequenceGap ==
    phase = "exit" => excuse \cap {"noise", "cut echo", "reboot"} # {}
=============================================================================
