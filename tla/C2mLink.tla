------------------------------ MODULE C2mLink ------------------------------
(***************************************************************************)
(* The client-to-MCU (C2M) half of UART link v2 within one link epoch:     *)
(* from the READY that ends a link reset to the RESET, error or shutdown   *)
(* that ends the epoch.                                                    *)
(*                                                                         *)
(* The bridge (bridge/src/c2m.rs, session.rs) is a stop-and-wait sender:   *)
(* one outstanding DATA_C2M, retransmitted on a timeout, throttled by the  *)
(* credit that ACK_C2M carries.  The firmware (firmware/mc_link_session.c, *)
(* main.c) writes in-order payloads into the RX ring, acknowledges them,   *)
(* and acknowledges again, unsolicited and with ack = 0, when the server   *)
(* consumes bytes.  The wire to the firmware loses frames (a frame that    *)
(* fails its CRC is silently dropped); a damaged frame to the bridge ends  *)
(* the bridge.                                                             *)
(*                                                                         *)
(* Bytes are named by their position in the client's (filtered) stream, so *)
(* loss, duplication and reordering are all visible in what the server     *)
(* consumes.                                                               *)
(***************************************************************************)
EXTENDS Integers, Sequences

CONSTANTS
    StreamLen,        \* bound: bytes the client sends
    TCP_PENDING_LIMIT,\* the bridge stops reading TCP at this many pending bytes
    PayloadCap,       \* negotiated payload of one frame
    InitialCredit,    \* credit announced by READY
    RxCap,            \* capacity of the firmware's RX ring
    RxBudget,         \* MC_TICK_BUDGET_RX_BYTES: bytes pump_server takes at once
    ControlCap,       \* control frames the session's control_tx ring can hold
    U16Max,           \* 65535: largest sequence number and largest credit
    MaxInFlight,      \* bound: frames on the wire towards the firmware
    MaxWire           \* bound: frames between the UART and the bridge's loop

ASSUME SizesAssumption ==
    /\ StreamLen \in Nat
    /\ TCP_PENDING_LIMIT \in Nat \ {0} /\ PayloadCap \in Nat \ {0}
    /\ RxCap \in Nat \ {0} /\ RxBudget \in Nat \ {0} /\ U16Max \in Nat \ {0}
    /\ MaxInFlight \in Nat \ {0} /\ MaxWire \in Nat \ {0}
    /\ InitialCredit \in Nat
    /\ InitialCredit <= RxCap /\ InitialCredit <= U16Max
    /\ ControlCap \in Nat /\ ControlCap >= 2

VARIABLES
    bridge,           \* "run", "reset" (RESET sent) or "exit"
    tcp_read,         \* stream bytes read from TCP so far
    pending_tcp,      \* C2mSender.pending_tcp
    outstanding,      \* C2mSender.outstanding: NoFrame or the DATA_C2M in flight
    next_seq,         \* C2mSender.next_seq
    credit,           \* C2mSender.credit
    c2m,              \* wire to the firmware
    m2c,              \* wire to the bridge and its serial RX worker's queue
    fw,               \* "up" or "reset" (the firmware has left this epoch)
    rx_seq_expected,  \* session->rx_seq_expected
    rx_ring,          \* contents of the RX ring
    control_tx,       \* control frames queued for the UART
    raised,           \* ERROR codes handle_data_c2m has raised
    conn_reset,       \* link_rx_error_count > 0, or a rejected packet without room for ERROR
    credit_lost,      \* a credit update found control_tx full (error_count)
    delivered         \* bytes mc_server_receive has accepted

bridgeVars == <<bridge, tcp_read, pending_tcp, outstanding, next_seq, credit>>
fwVars == <<fw, rx_seq_expected, rx_ring, control_tx, raised, conn_reset,
            credit_lost, delivered>>
vars == <<bridgeVars, c2m, m2c, fwVars>>

Byte == 1..StreamLen
Seqno == 0..U16Max
NoFrame == [type |-> "NONE"]
C2mFrame == [type : {"DATA_C2M"}, seq : Seqno, payload : Seq(Byte)]
ResetFrame == [type |-> "RESET"]
M2cFrame == [type : {"ACK_C2M", "ERROR", "READY", "RESET_ACK"},
             ack : Seqno, credit : Seqno]
Codes == {"SEQUENCE", "BAD_LENGTH", "RX_OVERFLOW"}

Control(t) == [type |-> t, ack |-> 0, credit |-> 0]
Ack(a, c) == [type |-> "ACK_C2M", ack |-> a, credit |-> c]

\* uint16_t arithmetic.
Succ(s) == IF s = U16Max THEN 0 ELSE s + 1
Pred(s) == IF s = 0 THEN U16Max ELSE s - 1

Lesser(a, b) == IF a < b THEN a ELSE b

\* s without its first n elements, and the first n elements of s.
Drop(s, n) == [i \in 1..(Len(s) - n) |-> s[i + n]]
Take(s, n) == [i \in 1..n |-> s[i]]
Without(s, k) == [i \in 1..(Len(s) - 1) |-> IF i < k THEN s[i] ELSE s[i + 1]]

Init ==
    /\ bridge = "run" /\ tcp_read = 0 /\ pending_tcp = <<>>
    /\ outstanding = NoFrame /\ next_seq = 0 /\ credit = InitialCredit
    /\ c2m = <<>> /\ m2c = <<>>
    /\ fw = "up" /\ rx_seq_expected = 0 /\ rx_ring = <<>> /\ control_tx = <<>>
    /\ raised = {} /\ conn_reset = FALSE /\ credit_lost = FALSE
    /\ delivered = <<>>

-----------------------------------------------------------------------------
(* The bridge: run_link_client and C2mSender.                              *)

\* The epoch's end as the bridge sees it: RESET goes out on the wire.
LeaveEpoch ==
    /\ bridge' = "reset"
    /\ c2m' = Append(c2m, ResetFrame)

\* TCP bytes, already filtered, join pending_tcp.
TcpRead ==
    /\ bridge = "run"
    /\ Len(pending_tcp) < TCP_PENDING_LIMIT
    /\ \E n \in 1..(StreamLen - tcp_read) :
          /\ tcp_read' = tcp_read + n
          /\ pending_tcp' = pending_tcp \o [i \in 1..n |-> tcp_read + i]
    /\ UNCHANGED <<bridge, outstanding, next_seq, credit, c2m, m2c, fwVars>>

\* End of file, or a TCP error: send_link_reset and return.
TcpEof ==
    /\ bridge = "run"
    /\ Len(pending_tcp) < TCP_PENDING_LIMIT
    /\ LeaveEpoch
    /\ UNCHANGED <<tcp_read, pending_tcp, outstanding, next_seq, credit, m2c, fwVars>>

\* Fault: the credit is not among the limits of the payload.
PayloadLenIgnoringCredit ==
    IF outstanding # NoFrame THEN 0 ELSE Lesser(Len(pending_tcp), PayloadCap)

\* 0 stands for None: something outstanding, nothing pending, or no credit.
next_payload_len ==
    IF outstanding # NoFrame THEN 0
    ELSE Lesser(Len(pending_tcp), Lesser(PayloadCap, credit))

\* next_frame_to_send, the UART write and mark_sent.
SendData ==
    /\ bridge = "run"
    /\ next_payload_len > 0
    /\ next_seq # U16Max
    /\ Len(c2m) < MaxInFlight
    /\ LET frame == [type |-> "DATA_C2M", seq |-> next_seq,
                     payload |-> Take(pending_tcp, next_payload_len)] IN
          /\ outstanding' = frame
          /\ c2m' = Append(c2m, frame)
    /\ credit' = credit - next_payload_len
    /\ next_seq' = Succ(next_seq)
    /\ UNCHANGED <<bridge, tcp_read, pending_tcp, m2c, fwVars>>

\* next_frame_to_send refuses the last sequence number: reset the link.
SequenceExhausted ==
    /\ bridge = "run"
    /\ next_payload_len > 0
    /\ next_seq = U16Max
    /\ LeaveEpoch
    /\ UNCHANGED <<tcp_read, pending_tcp, outstanding, next_seq, credit, m2c, fwVars>>

\* The retransmit timer fires: send the same frame again.
Retransmit ==
    /\ bridge = "run"
    /\ outstanding # NoFrame
    /\ Len(c2m) < MaxInFlight
    /\ c2m' = Append(c2m, outstanding)
    /\ UNCHANGED <<bridgeVars, m2c, fwVars>>

\* The retransmit timer fires once too often: needs_recalibration.
Recalibrate ==
    /\ bridge = "run"
    /\ outstanding # NoFrame
    /\ LeaveEpoch
    /\ UNCHANGED <<tcp_read, pending_tcp, outstanding, next_seq, credit, m2c, fwVars>>

\* Fault: any ACK_C2M passes for the answer to the outstanding frame.
HandleAckAny(f) ==
    LET hit == outstanding # NoFrame IN
    /\ credit' = f.credit
    /\ outstanding' = NoFrame
    /\ pending_tcp' = IF hit THEN Drop(pending_tcp, Len(outstanding.payload)) ELSE pending_tcp
    /\ UNCHANGED <<bridge, c2m>>

\* C2mSender::handle_ack.
HandleAck(f) ==
    LET hit == outstanding # NoFrame /\ f.ack = Succ(outstanding.seq)
        len == Len(outstanding.payload) IN
    /\ credit' = f.credit
    /\ outstanding' = IF hit /\ len <= Len(pending_tcp) THEN NoFrame ELSE outstanding
    /\ pending_tcp' = IF hit /\ len <= Len(pending_tcp)
                      THEN Drop(pending_tcp, len) ELSE pending_tcp
    /\ bridge' = IF hit /\ len > Len(pending_tcp) THEN "exit" ELSE bridge
    /\ UNCHANGED c2m

\* handle_serial_frame: READY and ERROR make the bridge reset the link, a
\* RESET_ACK out of a handshake is ignored.
BridgeReceive ==
    /\ bridge = "run"
    /\ m2c # <<>>
    /\ m2c' = Tail(m2c)
    /\ LET f == Head(m2c) IN
          IF f.type = "ACK_C2M" THEN HandleAck(f)
          ELSE /\ IF f.type = "RESET_ACK" THEN UNCHANGED <<bridge, c2m>> ELSE LeaveEpoch
               /\ UNCHANGED <<pending_tcp, outstanding, credit>>
    /\ UNCHANGED <<tcp_read, next_seq, fwVars>>

\* A damaged frame is a decode error: the bridge process exits.
BridgeDecodeError ==
    /\ bridge = "run"
    /\ m2c # <<>>
    /\ m2c' = Tail(m2c)
    /\ bridge' = "exit"
    /\ UNCHANGED <<tcp_read, pending_tcp, outstanding, next_seq, credit, c2m, fwVars>>

\* Noise on the wire: the firmware's parser drops a frame that fails its CRC.
LoseC2m ==
    /\ \E k \in 1..Len(c2m) : c2m' = Without(c2m, k)
    /\ UNCHANGED <<bridgeVars, m2c, fwVars>>

-----------------------------------------------------------------------------
(* The firmware: pump_link_rx, pump_server and pump_link_tx.               *)

\* Fault: the credit is the capacity of the ring, not its free space.
RxCapCredit(ring) == Lesser(RxCap, U16Max)

rx_free_credit(ring) == Lesser(RxCap - Len(ring), U16Max)

\* queue_control_frame: a frame that does not fit is not queued.
Queued(q, f) == IF Len(q) < ControlCap THEN Append(q, f) ELSE q

\* Faults: the test for a duplicate is missing, or a duplicate is written again.
VerdictNoDuplicateTest(f) ==
    IF f.seq # rx_seq_expected THEN "SEQUENCE"
    ELSE IF RxCap - Len(rx_ring) < Len(f.payload) THEN "RX_OVERFLOW"
    ELSE "accept"
VerdictWritesDuplicate(f) ==
    IF f.seq \notin {rx_seq_expected, Pred(rx_seq_expected)} THEN "SEQUENCE"
    ELSE IF RxCap - Len(rx_ring) < Len(f.payload) THEN "RX_OVERFLOW"
    ELSE "accept"

\* What handle_data_c2m finds, in the order of its tests.
Verdict(f) ==
    IF f.seq = Pred(rx_seq_expected) THEN "duplicate"
    ELSE IF f.seq # rx_seq_expected THEN "SEQUENCE"
    ELSE IF Len(f.payload) = 0 \/ Len(f.payload) > PayloadCap THEN "BAD_LENGTH"
    ELSE IF RxCap - Len(rx_ring) < Len(f.payload) THEN "RX_OVERFLOW"
    ELSE "accept"

\* handle_data_c2m inside pump_link_rx.  SEQUENCE, RX_OVERFLOW and a reply
\* that finds control_tx full fail the receive: pump_link_rx re-initialises
\* the parser, losing what the read brought after the frame (k frames), and
\* resets the connection.  The acknowledgement is the last step, so a frame
\* can be written and counted and yet fail.
HandleDataC2m(f) ==
    LET v == Verdict(f)
        ring == IF v = "accept" THEN rx_ring \o f.payload ELSE rx_ring
        expected == IF v = "accept" THEN Succ(rx_seq_expected) ELSE rx_seq_expected
        reply == IF v \in Codes THEN Control("ERROR")
                 ELSE Ack(expected, rx_free_credit(ring))
        ok == v \notin {"SEQUENCE", "RX_OVERFLOW"} /\ Len(control_tx) < ControlCap
    IN  /\ rx_seq_expected' = expected
        /\ control_tx' = Queued(control_tx, reply)
        /\ raised' = raised \cup (Codes \cap {v})
        /\ rx_ring' = IF ok THEN ring ELSE <<>>
        /\ conn_reset' = (conn_reset \/ ~ok)
        /\ \E k \in 1..Len(c2m) : (ok => k = 1) /\ c2m' = Drop(c2m, k)
        /\ UNCHANGED fw

\* handle_reset, then reset_connection: the firmware leaves the epoch.
HandleReset ==
    /\ rx_seq_expected' = 0
    /\ rx_ring' = <<>>
    /\ control_tx' = <<Control("RESET_ACK"), Control("READY")>>
    /\ c2m' = Tail(c2m)
    /\ fw' = "reset"
    /\ UNCHANGED <<raised, conn_reset>>

PumpLinkRx ==
    /\ fw = "up"
    /\ c2m # <<>>
    /\ IF Head(c2m).type = "RESET" THEN HandleReset ELSE HandleDataC2m(Head(c2m))
    /\ UNCHANGED <<bridgeVars, m2c, credit_lost, delivered>>

\* Fault: the freed credit is not announced.
PumpServerSilent ==
    LET n == Lesser(Len(rx_ring), RxBudget) IN
    /\ fw = "up"
    /\ n > 0
    /\ delivered' = delivered \o Take(rx_ring, n)
    /\ rx_ring' = Drop(rx_ring, n)
    /\ UNCHANGED <<bridgeVars, c2m, m2c, fw, rx_seq_expected, control_tx, raised,
                   conn_reset, credit_lost>>

\* pump_server: the server takes bytes and the freed credit is announced.
PumpServer ==
    LET n == Lesser(Len(rx_ring), RxBudget)
        rest == Drop(rx_ring, n) IN
    /\ fw = "up"
    /\ n > 0
    /\ delivered' = delivered \o Take(rx_ring, n)
    /\ rx_ring' = rest
    /\ control_tx' = Queued(control_tx, Ack(0, rx_free_credit(rest)))
    /\ credit_lost' = (credit_lost \/ Len(control_tx) = ControlCap)
    /\ UNCHANGED <<bridgeVars, c2m, m2c, fw, rx_seq_expected, raised, conn_reset>>

\* pump_server when mc_server_receive fails: reset_after_error, then
\* reset_connection.  With no room for the ERROR frame the link state stays.
PumpServerReject ==
    /\ fw = "up"
    /\ rx_ring # <<>>
    /\ rx_ring' = <<>>
    /\ IF Len(control_tx) < ControlCap
       THEN /\ control_tx' = Queued(Append(control_tx, Control("ERROR")), Control("READY"))
            /\ rx_seq_expected' = 0
            /\ fw' = "reset"
            /\ UNCHANGED conn_reset
       ELSE /\ conn_reset' = TRUE
            /\ UNCHANGED <<control_tx, rx_seq_expected, fw>>
    /\ UNCHANGED <<bridgeVars, c2m, m2c, raised, credit_lost, delivered>>

\* pump_link_tx puts the oldest control frame on the UART.
PumpLinkTx ==
    /\ control_tx # <<>>
    /\ Len(m2c) < MaxWire
    /\ m2c' = Append(m2c, Head(control_tx))
    /\ control_tx' = Tail(control_tx)
    /\ UNCHANGED <<bridgeVars, c2m, fw, rx_seq_expected, rx_ring, raised,
                   conn_reset, credit_lost, delivered>>

Next ==
    \/ TcpRead \/ TcpEof \/ SendData \/ SequenceExhausted \/ Retransmit \/ Recalibrate
    \/ BridgeReceive \/ BridgeDecodeError \/ LoseC2m
    \/ PumpLinkRx \/ PumpServer \/ PumpServerReject \/ PumpLinkTx

Spec == Init /\ [][Next]_vars

\* Both main loops run for ever.  Strong fairness of PumpLinkRx is the one
\* assumption on the wire: a frame sent again and again is not destroyed
\* every time.
FairSpec ==
    /\ Spec
    /\ WF_vars(SendData) /\ WF_vars(SequenceExhausted)
    /\ WF_vars(Retransmit) /\ WF_vars(BridgeReceive)
    /\ SF_vars(PumpLinkRx)
    /\ WF_vars(PumpServer) /\ WF_vars(PumpLinkTx)

-----------------------------------------------------------------------------
(* Properties.                                                             *)

\* Every variable keeps its type: sequence numbers and credit stay unsigned
\* 16-bit values and both queues of the session stay within their storage.
TypeOK ==
    /\ bridge \in {"run", "reset", "exit"}
    /\ tcp_read \in 0..StreamLen
    /\ pending_tcp \in Seq(Byte)
    /\ outstanding \in C2mFrame \cup {NoFrame}
    /\ next_seq \in Seqno /\ credit \in Seqno
    /\ c2m \in Seq(C2mFrame \cup {ResetFrame})
    /\ m2c \in Seq(M2cFrame)
    /\ fw \in {"up", "reset"}
    /\ rx_seq_expected \in Seqno
    /\ rx_ring \in Seq(Byte) /\ Len(rx_ring) <= RxCap
    /\ control_tx \in Seq(M2cFrame) /\ Len(control_tx) <= ControlCap
    /\ raised \in SUBSET Codes
    /\ conn_reset \in BOOLEAN /\ credit_lost \in BOOLEAN
    /\ delivered \in Seq(Byte)

\* Bytes the bridge has released from pending_tcp, and bytes the firmware
\* has taken over.
Released == tcp_read - Len(pending_tcp)
Taken == Len(delivered) + Len(rx_ring)

\* As long as the firmware has not dropped the connection, what the server
\* consumed, followed by what waits in the RX ring, is the client's stream
\* from its start: no loss, no duplicate, no reordering, whatever the wire
\* loses and however retransmissions race with acknowledgements.
InOrderOnce ==
    ~conn_reset =>
        /\ \A i \in 1..Len(delivered) : delivered[i] = i
        /\ \A i \in 1..Len(rx_ring) : rx_ring[i] = Len(delivered) + i

\* The bridge releases a byte only after the firmware has taken it: no
\* stale, repeated or unsolicited ACK_C2M (ack = 0) passes for the
\* acknowledgement of the outstanding frame.
ReleasedOnlyIfTaken ==
    fw = "up" /\ ~conn_reset => Released <= Taken

\* A sender that follows the protocol is never told SEQUENCE, BAD_LENGTH or
\* RX_OVERFLOW by handle_data_c2m, even after a retransmission overtakes an
\* acknowledgement or the RX ring is nearly full.
NoFlowError == raised = {}

\* When the sender may start a frame, the credit it holds is covered by free
\* space in the RX ring, although ACK_C2M overwrites the credit and several
\* of them, with older values, may still be on their way.
CreditCovered ==
    fw = "up" /\ outstanding = NoFrame => credit <= RxCap - Len(rx_ring)

\* The promise to the two ends of the link.
Stream == INSTANCE ReliableStream WITH
              sent <- tcp_read, delivered <- delivered, broken <- conn_reset
ImplementsReliableStream == Stream!Spec

\* The epoch goes on and no queue of the firmware has overflowed.
Healthy == bridge = "run" /\ fw = "up" /\ ~conn_reset /\ ~credit_lost

\* Every byte read from the client reaches the server, unless the epoch ends
\* or the firmware's control queue overflows (which loses an acknowledgement
\* or a credit update).
EventuallyDelivered ==
    \A k \in 1..StreamLen :
        tcp_read >= k ~> (Len(delivered) >= k \/ ~Healthy)

-----------------------------------------------------------------------------
(* The inductive invariant behind the safety properties.                   *)

IsData(i) == c2m[i].type = "DATA_C2M"
IsAck(f) == f.type = "ACK_C2M"

\* Sender and receiver agree on the sequence number up to the one frame in
\* flight.
SeqAgree ==
    /\ outstanding # NoFrame => next_seq = outstanding.seq + 1
    /\ fw = "up" =>
        /\ rx_seq_expected <= next_seq /\ next_seq <= rx_seq_expected + 1
        /\ outstanding = NoFrame => rx_seq_expected = next_seq

\* A DATA_C2M frame on the wire is the outstanding one or a copy of the one
\* before it, and the copies come first.
WireInv == fw = "up" =>
    \A i \in 1..Len(c2m) : IsData(i) =>
        /\ rx_seq_expected <= c2m[i].seq + 1
        /\ c2m[i].seq < next_seq
        /\ c2m[i].seq = rx_seq_expected => c2m[i] = outstanding
WireOrder == fw = "up" =>
    \A i, j \in 1..Len(c2m) :
        i < j /\ IsData(i) /\ IsData(j) => c2m[i].seq <= c2m[j].seq

SeqInv == SeqAgree /\ WireInv /\ WireOrder

\* The frames on their way to the bridge, oldest first, whether still in
\* control_tx or already on the UART.
Transit == Len(m2c) + Len(control_tx)
InTransit(i) == IF i <= Len(m2c) THEN m2c[i] ELSE control_tx[i - Len(m2c)]

Free == RxCap - Len(rx_ring)
Answers(f) == IsAck(f) /\ outstanding # NoFrame /\ f.ack = outstanding.seq + 1
Covered(f) == IsAck(f) => f.credit <= Free

\* The receiver has not yet taken the outstanding frame, or there is none.
Fresh == outstanding = NoFrame \/ outstanding.seq = rx_seq_expected

\* No acknowledgement promises more than was received.
AckBound == fw = "up" =>
    \A i \in 1..Transit : IsAck(InTransit(i)) => InTransit(i).ack <= rx_seq_expected

\* Credit and outstanding payload fit the free space.
RoomInv == fw = "up" =>
    /\ outstanding = NoFrame => credit <= Free
    /\ outstanding # NoFrame =>
          /\ Len(outstanding.payload) \in 1..PayloadCap
          /\ Fresh => Len(outstanding.payload) <= Free

\* The credit on its way is covered, except in the acknowledgements that are
\* older than the one that answers the outstanding frame.
CreditInv == fw = "up" =>
    /\ Fresh => \A i \in 1..Transit : Covered(InTransit(i))
    /\ \A i, j \in 1..Transit :
          i <= j /\ Answers(InTransit(i)) => Covered(InTransit(j))

AckInv == AckBound /\ RoomInv /\ CreditInv

\* Where every byte is: pending_tcp and the outstanding payload start where
\* the released bytes end, and the receiver is ahead by at most that payload.
PendingInv ==
    /\ Len(pending_tcp) <= tcp_read
    /\ \A i \in 1..Len(pending_tcp) : pending_tcp[i] = Released + i
PayloadInv == outstanding # NoFrame =>
    /\ Len(outstanding.payload) <= Len(pending_tcp)
    /\ \A i \in 1..Len(outstanding.payload) : outstanding.payload[i] = Released + i
TakenInv == fw = "up" /\ ~conn_reset =>
    Taken = IF Fresh THEN Released ELSE Released + Len(outstanding.payload)

DataInv == PendingInv /\ PayloadInv /\ TakenInv

IInv == TypeOK /\ SeqInv /\ AckInv /\ DataInv /\ InOrderOnce /\ NoFlowError
=============================================================================
