--------------------------- MODULE C2mLinkProofs ---------------------------
(***************************************************************************)
(* Proofs about C2mLink for every stream length, payload, ring and queue   *)
(* size, sequence space and wire bound: IInv is inductive, and implies the *)
(* safety properties the model checker checks on a small instance.         *)
(***************************************************************************)
EXTENDS C2mLink, TLAPS

-----------------------------------------------------------------------------
(* Sequences, as the functions the model builds them from.                 *)

\* Dropping the first n elements.
LEMMA DropFacts ==
    ASSUME NEW S, NEW s \in Seq(S), NEW n \in 0..Len(s)
    PROVE  /\ Drop(s, n) \in Seq(S)
           /\ Len(Drop(s, n)) = Len(s) - n
           /\ \A i \in 1..(Len(s) - n) : Drop(s, n)[i] = s[i + n]
  <1> DEFINE d == Drop(s, n)
  <1>1. Len(s) - n \in Nat
    OBVIOUS
  <1>2. \A i \in 1..(Len(s) - n) : d[i] = s[i + n] /\ s[i + n] \in S
    BY DEF Drop
  <1>3. d \in [1..(Len(s) - n) -> S]
    BY <1>2 DEF Drop
  <1>4. d \in Seq(S) /\ Len(d) = Len(s) - n
    BY <1>1, <1>3
  <1>5. QED
    BY <1>2, <1>4

\* Keeping the first n elements.
LEMMA TakeFacts ==
    ASSUME NEW S, NEW s \in Seq(S), NEW n \in 0..Len(s)
    PROVE  /\ Take(s, n) \in Seq(S)
           /\ Len(Take(s, n)) = n
           /\ \A i \in 1..n : Take(s, n)[i] = s[i]
  <1>1. Take(s, n) \in [1..n -> S]
    BY DEF Take
  <1>2. QED
    BY <1>1 DEF Take

\* Removing the k-th element: each element that stays keeps its order.
LEMMA WithoutFacts ==
    ASSUME NEW S, NEW s \in Seq(S), NEW k \in 1..Len(s)
    PROVE  /\ Without(s, k) \in Seq(S)
           /\ Len(Without(s, k)) = Len(s) - 1
           /\ \A i \in 1..(Len(s) - 1) :
                 Without(s, k)[i] = s[IF i < k THEN i ELSE i + 1]
  <1> DEFINE w == Without(s, k)
  <1>1. Len(s) - 1 \in Nat
    OBVIOUS
  <1>2. \A i \in 1..(Len(s) - 1) : w[i] = s[IF i < k THEN i ELSE i + 1] /\ w[i] \in S
    BY DEF Without
  <1>3. w \in [1..(Len(s) - 1) -> S]
    BY <1>2 DEF Without
  <1>4. QED
    BY <1>1, <1>2, <1>3

\* Appending one element.
LEMMA AppendFacts ==
    ASSUME NEW S, NEW s \in Seq(S), NEW e \in S
    PROVE  /\ Append(s, e) \in Seq(S)
           /\ Len(Append(s, e)) = Len(s) + 1
           /\ \A i \in 1..Len(s) : Append(s, e)[i] = s[i]
           /\ Append(s, e)[Len(s) + 1] = e
  OBVIOUS

\* Concatenation.
LEMMA ConcatFacts ==
    ASSUME NEW S, NEW s \in Seq(S), NEW t \in Seq(S)
    PROVE  /\ s \o t \in Seq(S)
           /\ Len(s \o t) = Len(s) + Len(t)
           /\ \A i \in 1..Len(s) : (s \o t)[i] = s[i]
           /\ \A i \in 1..Len(t) : (s \o t)[Len(s) + i] = t[i]
  OBVIOUS

\* Taking the head off.
LEMMA TailFacts ==
    ASSUME NEW S, NEW s \in Seq(S), s # <<>>
    PROVE  /\ Head(s) \in S /\ Head(s) = s[1]
           /\ Tail(s) \in Seq(S)
           /\ Len(s) \in Nat \ {0}
           /\ Len(Tail(s)) = Len(s) - 1
           /\ \A i \in 1..(Len(s) - 1) : Tail(s)[i] = s[i + 1]
  OBVIOUS

-----------------------------------------------------------------------------
(* Types.                                                                  *)

\* A frame out of handle_ack or the wire, and a control frame, have their
\* fields in range.
LEMMA FrameFacts ==
    /\ \A f \in C2mFrame : f.type = "DATA_C2M" /\ f.seq \in Seqno /\ f.payload \in Seq(Byte)
    /\ NoFrame.type = "NONE" /\ ResetFrame.type = "RESET"
    /\ \A f \in M2cFrame : f.ack \in Seqno /\ f.credit \in Seqno
    /\ \A t \in {"ACK_C2M", "ERROR", "READY", "RESET_ACK"} :
          Control(t) \in M2cFrame /\ Control(t).type = t
    /\ \A a, c \in Seqno : /\ Ack(a, c) \in M2cFrame /\ IsAck(Ack(a, c))
                           /\ Ack(a, c).ack = a /\ Ack(a, c).credit = c
  BY SizesAssumption DEF C2mFrame, M2cFrame, NoFrame, ResetFrame, Control, Ack, IsAck, Seqno

\* queue_control_frame keeps control_tx within its storage.
LEMMA QueuedFacts ==
    ASSUME NEW q \in Seq(M2cFrame), Len(q) <= ControlCap, NEW f \in M2cFrame
    PROVE  /\ Queued(q, f) \in Seq(M2cFrame)
           /\ Len(Queued(q, f)) <= ControlCap
           /\ Len(Queued(q, f)) \in {Len(q), Len(q) + 1}
           /\ \A i \in 1..Len(q) : Queued(q, f)[i] = q[i]
           /\ \A i \in 1..Len(Queued(q, f)) : i > Len(q) => Queued(q, f)[i] = f
           /\ Len(q) < ControlCap => Len(Queued(q, f)) = Len(q) + 1
  BY SizesAssumption, AppendFacts DEF Queued

\* rx_free_credit fits uint16_t and never exceeds the free space.
LEMMA CreditFacts ==
    ASSUME NEW ring \in Seq(Byte), Len(ring) <= RxCap
    PROVE  /\ rx_free_credit(ring) \in Seqno
           /\ rx_free_credit(ring) <= RxCap - Len(ring)
  BY SizesAssumption DEF rx_free_credit, Lesser, Seqno

\* The payload of the next frame is between 1 byte and what PayloadCap,
\* pending_tcp and the credit allow.
LEMMA PayloadLenFacts ==
    ASSUME TypeOK, next_payload_len > 0
    PROVE  /\ outstanding = NoFrame
           /\ next_payload_len \in 1..PayloadCap
           /\ next_payload_len <= Len(pending_tcp)
           /\ next_payload_len <= credit
  BY SizesAssumption DEF TypeOK, next_payload_len, Lesser, Seqno

LEMMA TypeInit == Init => TypeOK
  <1> SUFFICES ASSUME Init PROVE TypeOK
    OBVIOUS
  <1>1. \A S : <<>> \in Seq(S)
    OBVIOUS
  <1>2. Len(rx_ring) <= RxCap /\ Len(control_tx) <= ControlCap
    BY SizesAssumption DEF Init
  <1>3. 0 \in 0..StreamLen /\ 0 \in Seqno /\ InitialCredit \in Seqno
    BY SizesAssumption DEF Seqno
  <1>4. QED
    BY <1>1, <1>2, <1>3 DEF Init, TypeOK

LEMMA TypeNext == TypeOK /\ [Next]_vars => TypeOK'
  <1> SUFFICES ASSUME TypeOK, [Next]_vars PROVE TypeOK'
    OBVIOUS
  <1> USE SizesAssumption DEF bridgeVars, fwVars
  <1>1. CASE TcpRead
    <2> PICK n \in 1..(StreamLen - tcp_read) :
          /\ tcp_read' = tcp_read + n
          /\ pending_tcp' = pending_tcp \o [i \in 1..n |-> tcp_read + i]
      BY <1>1 DEF TcpRead
    <2>1. [i \in 1..n |-> tcp_read + i] \in Seq(Byte)
      BY DEF TypeOK, Byte
    <2>2. pending_tcp' \in Seq(Byte) /\ tcp_read' \in 0..StreamLen
      BY <2>1, ConcatFacts DEF TypeOK
    <2>3. QED
      BY <2>2, <1>1 DEF TcpRead, TypeOK
  <1>2. ASSUME LeaveEpoch, UNCHANGED <<tcp_read, pending_tcp, outstanding, next_seq,
                                       credit, m2c, fwVars>>
        PROVE  TypeOK'
    BY <1>2, AppendFacts DEF LeaveEpoch, TypeOK
  <1>3. CASE TcpEof
    BY <1>2, <1>3 DEF TcpEof
  <1>4. CASE SendData
    <2>1. next_payload_len \in 1..Len(pending_tcp) /\ next_payload_len <= credit
      BY <1>4, PayloadLenFacts DEF SendData, TypeOK
    <2> DEFINE frame == [type |-> "DATA_C2M", seq |-> next_seq,
                         payload |-> Take(pending_tcp, next_payload_len)]
    <2>2. frame \in C2mFrame
      BY <2>1, TakeFacts DEF TypeOK, C2mFrame
    <2>3. c2m' \in Seq(C2mFrame \cup {ResetFrame}) /\ outstanding' \in C2mFrame
      BY <2>2, <1>4, AppendFacts DEF SendData, TypeOK
    <2>4. credit' \in Seqno /\ next_seq' \in Seqno
      BY <2>1, <1>4 DEF SendData, TypeOK, Succ, Seqno
    <2>5. QED
      BY <2>3, <2>4, <1>4 DEF SendData, TypeOK
  <1>5. CASE SequenceExhausted
    BY <1>2, <1>5 DEF SequenceExhausted
  <1>6. CASE Retransmit
    BY <1>6, AppendFacts DEF Retransmit, TypeOK
  <1>7. CASE Recalibrate
    BY <1>2, <1>7 DEF Recalibrate
  <1>8. CASE BridgeReceive
    <2>1. m2c' \in Seq(M2cFrame) /\ Head(m2c) \in M2cFrame
      BY <1>8, TailFacts DEF BridgeReceive, TypeOK
    <2>2. CASE IsAck(Head(m2c))
      <3>1. HandleAck(Head(m2c))
        BY <1>8, <2>2 DEF BridgeReceive, IsAck
      <3>2. pending_tcp' \in Seq(Byte)
        <4>1. CASE outstanding # NoFrame /\ Len(outstanding.payload) <= Len(pending_tcp)
          <5>1. Len(outstanding.payload) \in 0..Len(pending_tcp)
            BY <4>1, FrameFacts DEF TypeOK
          <5>2. QED
            BY <3>1, <5>1, DropFacts DEF HandleAck, TypeOK
        <4>2. QED
          BY <3>1, <4>1 DEF HandleAck, TypeOK
      <3>3. credit' \in Seqno
        BY <3>1, <2>1, FrameFacts DEF HandleAck
      <3>4. QED
        BY <1>8, <2>1, <3>1, <3>2, <3>3 DEF BridgeReceive, HandleAck, TypeOK
    <2>3. CASE ~IsAck(Head(m2c))
      <3>1. UNCHANGED <<tcp_read, pending_tcp, outstanding, next_seq, credit, fwVars>>
        BY <1>8, <2>3 DEF BridgeReceive, IsAck
      <3>2. \/ bridge' = bridge /\ c2m' = c2m
            \/ bridge' = "reset" /\ c2m' = Append(c2m, ResetFrame)
        BY <1>8, <2>3 DEF BridgeReceive, IsAck, LeaveEpoch
      <3>3. Append(c2m, ResetFrame) \in Seq(C2mFrame \cup {ResetFrame})
        BY AppendFacts DEF TypeOK
      <3>4. QED
        BY <2>1, <3>1, <3>2, <3>3 DEF TypeOK
    <2>4. QED
      BY <2>2, <2>3
  <1>9. CASE BridgeDecodeError
    BY <1>9, TailFacts DEF BridgeDecodeError, TypeOK
  <1>10. CASE LoseC2m
    BY <1>10, WithoutFacts DEF LoseC2m, TypeOK
  <1>11. CASE PumpLinkRx
    <2> DEFINE f == Head(c2m)
    <2>1. f \in C2mFrame \cup {ResetFrame} /\ Len(c2m) \in Nat \ {0} /\ Tail(c2m) \in Seq(C2mFrame \cup {ResetFrame})
      BY <1>11, TailFacts DEF PumpLinkRx, TypeOK
    <2>2. CASE f.type = "RESET"
      <3>1. HandleReset
        BY <1>11, <2>2 DEF PumpLinkRx
      <3>2. control_tx' \in Seq(M2cFrame) /\ Len(control_tx') <= ControlCap
        BY <3>1, FrameFacts DEF HandleReset
      <3>3. QED
        BY <1>11, <2>1, <3>1, <3>2 DEF PumpLinkRx, HandleReset, TypeOK, Seqno
    <2>3. CASE f.type # "RESET"
      <3>1. HandleDataC2m(f) /\ f \in C2mFrame
        BY <1>11, <2>1, <2>3, FrameFacts DEF PumpLinkRx
      <3> DEFINE v == Verdict(f)
                 ring == IF v = "accept" THEN rx_ring \o f.payload ELSE rx_ring
                 expected == IF v = "accept" THEN Succ(rx_seq_expected) ELSE rx_seq_expected
      <3>2. f.payload \in Seq(Byte)
        BY <3>1, FrameFacts
      <3>3. ring \in Seq(Byte) /\ Len(ring) <= RxCap
        BY <3>2, ConcatFacts DEF TypeOK, Verdict
      <3>4. expected \in Seqno
        BY DEF TypeOK, Succ, Seqno
      <3>5. control_tx' \in Seq(M2cFrame) /\ Len(control_tx') <= ControlCap
        BY <3>1, <3>3, <3>4, QueuedFacts, CreditFacts, FrameFacts DEF HandleDataC2m, TypeOK
      <3>6. c2m' \in Seq(C2mFrame \cup {ResetFrame})
        BY <3>1, DropFacts DEF HandleDataC2m, TypeOK
      <3>7. rx_ring' \in Seq(Byte) /\ Len(rx_ring') <= RxCap
        BY <3>1, <3>3 DEF HandleDataC2m
      <3>8. QED
        BY <1>11, <3>1, <3>4, <3>5, <3>6, <3>7 DEF PumpLinkRx, HandleDataC2m, TypeOK
    <2>4. QED
      BY <2>2, <2>3
  <1>12. CASE PumpServer
    <2> DEFINE n == Lesser(Len(rx_ring), RxBudget)
    <2>1. n \in 0..Len(rx_ring)
      BY DEF TypeOK, Lesser
    <2>2. /\ Take(rx_ring, n) \in Seq(Byte)
          /\ Drop(rx_ring, n) \in Seq(Byte) /\ Len(Drop(rx_ring, n)) <= RxCap
      BY <2>1, TakeFacts, DropFacts DEF TypeOK
    <2> DEFINE a == Ack(0, rx_free_credit(Drop(rx_ring, n)))
    <2>3. control_tx' \in Seq(M2cFrame) /\ Len(control_tx') <= ControlCap
      <3>1. a \in M2cFrame
        BY <2>2, CreditFacts, FrameFacts DEF Seqno
      <3>2. control_tx' = Queued(control_tx, a)
        BY <1>12 DEF PumpServer
      <3> HIDE DEF a
      <3>3. QED
        BY <3>1, <3>2, QueuedFacts DEF TypeOK
    <2>4. delivered' \in Seq(Byte)
      BY <1>12, <2>2, ConcatFacts DEF PumpServer, TypeOK
    <2>5. QED
      BY <1>12, <2>2, <2>3, <2>4 DEF PumpServer, TypeOK
  <1>13. CASE PumpServerReject
    <2>1. CASE Len(control_tx) < ControlCap
      <3> DEFINE q == Append(control_tx, Control("ERROR"))
      <3>1. q \in Seq(M2cFrame) /\ Len(q) <= ControlCap
        BY <2>1, AppendFacts, FrameFacts DEF TypeOK
      <3>2. Queued(q, Control("READY")) \in Seq(M2cFrame)
            /\ Len(Queued(q, Control("READY"))) <= ControlCap
        <4> HIDE DEF q
        <4> QED BY <3>1, QueuedFacts, FrameFacts
      <3>3. control_tx' = Queued(q, Control("READY")) /\ conn_reset' = conn_reset
            /\ rx_seq_expected' = 0 /\ fw' = "reset"
        BY <1>13, <2>1 DEF PumpServerReject
      <3>4. QED
        BY <1>13, <3>2, <3>3 DEF PumpServerReject, TypeOK, Seqno
    <2>2. CASE ~(Len(control_tx) < ControlCap)
      BY <1>13, <2>2 DEF PumpServerReject, TypeOK
    <2>3. QED
      BY <2>1, <2>2
  <1>14. CASE PumpLinkTx
    BY <1>14, TailFacts, AppendFacts DEF PumpLinkTx, TypeOK
  <1>15. CASE UNCHANGED vars
    BY <1>15 DEF vars, TypeOK
  <1>16. QED
    BY <1>1, <1>3, <1>4, <1>5, <1>6, <1>7, <1>8, <1>9, <1>10, <1>11, <1>12, <1>13,
       <1>14, <1>15 DEF Next

\* Sequence numbers, credits and queues keep their width and capacity.
THEOREM TypeCorrect == Spec => []TypeOK
  BY TypeInit, TypeNext, PTL DEF Spec

-----------------------------------------------------------------------------
(* The inductive step.                                                     *)

\* What handle_data_c2m can meet: a copy of the frame acknowledged last, or
\* the outstanding frame, for which there is room.
LEMMA VerdictFacts ==
    ASSUME TypeOK, SeqInv, AckInv, fw = "up", c2m # <<>>, Head(c2m).type # "RESET"
    PROVE  LET f == Head(c2m) IN
           /\ f \in C2mFrame
           /\ \/ Verdict(f) = "duplicate" /\ f.seq + 1 = rx_seq_expected
              \/ /\ Verdict(f) = "accept"
                 /\ f.seq = rx_seq_expected /\ f = outstanding /\ outstanding # NoFrame
                 /\ rx_seq_expected < U16Max
                 /\ Succ(rx_seq_expected) = rx_seq_expected + 1
                 /\ next_seq = rx_seq_expected + 1
                 /\ f.payload \in Seq(Byte) /\ Len(f.payload) <= RxCap - Len(rx_ring)
  <1> DEFINE f == Head(c2m)
  <1>1. f \in C2mFrame /\ f = c2m[1] /\ Len(c2m) \in Nat \ {0} /\ 1 \in 1..Len(c2m)
    BY TailFacts, FrameFacts DEF TypeOK
  <1>2. f.seq \in 0..U16Max /\ f.type = "DATA_C2M" /\ f.payload \in Seq(Byte)
    BY <1>1, FrameFacts DEF Seqno
  <1>3. /\ rx_seq_expected <= f.seq + 1 /\ f.seq < next_seq
        /\ f.seq = rx_seq_expected => f = outstanding
        /\ next_seq <= rx_seq_expected + 1
    BY <1>1, <1>2 DEF SeqInv, SeqAgree, WireInv, IsData
  <1>4. rx_seq_expected \in 0..U16Max /\ next_seq \in 0..U16Max /\ U16Max \in Nat \ {0}
    BY SizesAssumption DEF TypeOK, Seqno
  <1>5. CASE f.seq + 1 = rx_seq_expected
    <2>1. Verdict(f) = "duplicate"
      BY <1>2, <1>4, <1>5 DEF Verdict, Pred
    <2>2. QED
      BY <1>1, <1>5, <2>1
  <1>6. CASE f.seq = rx_seq_expected
    <2>1. f = outstanding /\ outstanding # NoFrame
      BY <1>2, <1>3, <1>6, FrameFacts
    <2>2. Len(f.payload) \in 1..PayloadCap /\ Len(f.payload) <= RxCap - Len(rx_ring)
      BY <1>6, <2>1 DEF AckInv, RoomInv, Fresh, Free
    <2>3. f.seq # Pred(rx_seq_expected)
      BY <1>4, <1>6 DEF Pred
    <2>4. Verdict(f) = "accept"
      BY <1>2, <1>6, <2>2, <2>3, SizesAssumption, SMTT(30) DEF Verdict, TypeOK
    <2>5. rx_seq_expected < U16Max /\ Succ(rx_seq_expected) = rx_seq_expected + 1
          /\ next_seq = rx_seq_expected + 1
      BY <1>3, <1>4, <1>6 DEF Succ
    <2>6. QED
      BY <1>1, <1>2, <1>6, <2>1, <2>2, <2>4, <2>5
  <1>7. QED
    BY <1>2, <1>3, <1>4, <1>5, <1>6

\* The acknowledgement that answers the outstanding frame comes from a
\* receiver that has the frame.
LEMMA AckFacts ==
    ASSUME TypeOK, SeqInv, outstanding # NoFrame
    PROVE  /\ outstanding \in C2mFrame /\ outstanding.seq \in 0..U16Max
           /\ outstanding.payload \in Seq(Byte)
           /\ Succ(outstanding.seq) = outstanding.seq + 1
           /\ next_seq = outstanding.seq + 1
  BY FrameFacts, SizesAssumption DEF TypeOK, SeqInv, SeqAgree, Succ, Seqno

\* The numbers the steps below compute with.
LEMMA NumFacts ==
    ASSUME TypeOK
    PROVE  /\ rx_seq_expected \in Nat /\ next_seq \in Nat /\ credit \in Nat
           /\ rx_seq_expected <= U16Max /\ next_seq <= U16Max
           /\ U16Max \in Nat \ {0} /\ RxCap \in Nat /\ PayloadCap \in Nat
           /\ Len(rx_ring) \in Nat /\ Len(c2m) \in Nat /\ Len(m2c) \in Nat
           /\ Len(control_tx) \in Nat /\ Len(pending_tcp) \in Nat
           /\ Len(delivered) \in Nat /\ tcp_read \in Nat
           /\ Len(rx_ring) <= RxCap
  BY SizesAssumption DEF TypeOK, Seqno

\* DATA_C2M frames on the wire have a sequence number and a payload.
LEMMA WireFacts ==
    ASSUME TypeOK
    PROVE  \A i \in 1..Len(c2m) : IsData(i) =>
              c2m[i] \in C2mFrame /\ c2m[i].seq \in Nat
  <1> SUFFICES ASSUME NEW i \in 1..Len(c2m), IsData(i)
               PROVE  c2m[i] \in C2mFrame /\ c2m[i].seq \in Nat
    OBVIOUS
  <1>1. c2m[i] \in C2mFrame \cup {ResetFrame}
    BY DEF TypeOK
  <1>2. c2m[i] \in C2mFrame
    BY <1>1, FrameFacts DEF IsData
  <1>3. c2m[i].seq \in 0..U16Max
    BY <1>2, FrameFacts DEF Seqno
  <1>4. QED
    BY <1>2, <1>3, SizesAssumption

\* The wire facts do not depend on where a frame stands: they pass to any
\* wire whose frames are old ones in their old order.
LEMMA WireShrinks ==
    ASSUME WireInv, WireOrder,
           UNCHANGED <<outstanding, next_seq, fw, rx_seq_expected>>,
           NEW old \in [1..Len(c2m') -> 1..Len(c2m)],
           \A i \in 1..Len(c2m') : c2m'[i] = c2m[old[i]],
           \A i, j \in 1..Len(c2m') : i < j => old[i] < old[j]
    PROVE  WireInv' /\ WireOrder'
  <1>1. WireInv'
    BY DEF WireInv, IsData
  <1>2. WireOrder'
    <2> SUFFICES ASSUME fw' = "up", NEW i \in 1..Len(c2m'), NEW j \in 1..Len(c2m'),
                        i < j, IsData(i)', IsData(j)'
                 PROVE  c2m'[i].seq <= c2m'[j].seq
      BY DEF WireOrder
    <2>1. /\ old[i] \in 1..Len(c2m) /\ old[j] \in 1..Len(c2m) /\ old[i] < old[j]
          /\ c2m'[i] = c2m[old[i]] /\ c2m'[j] = c2m[old[j]]
      OBVIOUS
    <2>2. IsData(old[i]) /\ IsData(old[j])
      BY <2>1 DEF IsData
    <2>3. QED
      BY <2>1, <2>2 DEF WireOrder
  <1>3. QED
    BY <1>1, <1>2

\* One more frame at the end of the wire, not older than the others and, if
\* it is the one the receiver expects, the outstanding one.
LEMMA WireGrows ==
    ASSUME TypeOK, SeqInv, NEW e \in C2mFrame,
           UNCHANGED <<fw, rx_seq_expected>>, next_seq <= next_seq', next_seq' \in Nat,
           c2m' = Append(c2m, e), outstanding' = e,
           outstanding = NoFrame \/ outstanding = e,
           e.seq + 1 = next_seq'
    PROVE  WireInv' /\ WireOrder'
  <1> SUFFICES ASSUME fw = "up" PROVE WireInv' /\ WireOrder'
    BY DEF WireInv, WireOrder
  <1>1. e.seq \in Nat /\ e.type = "DATA_C2M"
    BY FrameFacts, SizesAssumption DEF Seqno
  <1>2. /\ Len(c2m') = Len(c2m) + 1 /\ Len(c2m) \in Nat
        /\ \A i \in 1..Len(c2m) : c2m'[i] = c2m[i]
        /\ c2m'[Len(c2m) + 1] = e
    BY AppendFacts DEF TypeOK
  <1>3. /\ rx_seq_expected \in Nat /\ next_seq \in Nat
        /\ rx_seq_expected <= next_seq /\ next_seq <= rx_seq_expected + 1
        /\ outstanding = NoFrame => rx_seq_expected = next_seq
    BY NumFacts DEF SeqInv, SeqAgree
  <1>4. \A i \in 1..Len(c2m) : IsData(i) =>
           /\ rx_seq_expected <= c2m[i].seq + 1 /\ c2m[i].seq < next_seq
           /\ c2m[i].seq = rx_seq_expected => c2m[i] = outstanding
           /\ c2m[i].seq \in Nat
    BY WireFacts DEF SeqInv, WireInv
  <1>5. ASSUME NEW i \in 1..Len(c2m'), IsData(i)'
        PROVE  /\ rx_seq_expected <= c2m'[i].seq + 1 /\ c2m'[i].seq < next_seq'
               /\ c2m'[i].seq = rx_seq_expected => c2m'[i] = e
    <2>1. CASE i \in 1..Len(c2m)
      <3>1. IsData(i) /\ c2m'[i] = c2m[i]
        BY <1>2, <1>5, <2>1 DEF IsData
      <3>2. CASE outstanding = e
        BY <1>3, <1>4, <2>1, <3>1, <3>2
      <3>3. CASE outstanding = NoFrame
        BY <1>3, <1>4, <2>1, <3>1, <3>3
      <3>4. QED
        BY <3>2, <3>3
    <2>2. CASE i = Len(c2m) + 1
      BY <1>1, <1>2, <1>3, <2>2
    <2>3. QED
      BY <1>2, <2>1, <2>2
  <1>6. ASSUME NEW i \in 1..Len(c2m'), NEW j \in 1..Len(c2m'), i < j,
               IsData(i)', IsData(j)'
        PROVE  c2m'[i].seq <= c2m'[j].seq
    <2>1. i \in 1..Len(c2m) /\ IsData(i) /\ c2m'[i] = c2m[i]
      BY <1>2, <1>6 DEF IsData
    <2>2. CASE j \in 1..Len(c2m)
      <3>1. IsData(j) /\ c2m'[j] = c2m[j]
        BY <1>2, <1>6, <2>2 DEF IsData
      <3>2. QED
        BY <1>6, <2>1, <2>2, <3>1 DEF SeqInv, WireOrder
    <2>3. CASE j = Len(c2m) + 1
      BY <1>1, <1>2, <1>4, <1>3, <2>1, <2>3
    <2>4. QED
      BY <1>2, <2>2, <2>3
  <1>7. QED
    BY <1>5, <1>6 DEF WireInv, WireOrder

\* The oldest frame on its way to the bridge is the one it reads next.
LEMMA TransitHead ==
    ASSUME TypeOK, m2c # <<>>
    PROVE  1 \in 1..Transit /\ InTransit(1) = Head(m2c) /\ Head(m2c) \in M2cFrame
  <1>1. /\ Head(m2c) = m2c[1] /\ Len(m2c) \in Nat \ {0} /\ Len(control_tx) \in Nat
        /\ Head(m2c) \in M2cFrame
    BY TailFacts DEF TypeOK
  <1>2. QED
    BY <1>1 DEF Transit, InTransit

\* Sender, wire and receiver go on agreeing about the sequence number.
LEMMA SeqNext ==
    ASSUME TypeOK, SeqInv, AckInv, TypeOK', [Next]_vars
    PROVE  SeqInv'
  <1> USE DEF bridgeVars, fwVars
  <1>1. ASSUME UNCHANGED <<outstanding, next_seq, fw, rx_seq_expected, c2m>>
        PROVE  SeqInv'
    BY <1>1 DEF SeqInv, SeqAgree, WireInv, WireOrder, IsData
  <1>2. CASE TcpRead \/ BridgeDecodeError \/ PumpServer \/ PumpLinkTx \/ UNCHANGED vars
    BY <1>1, <1>2 DEF TcpRead, BridgeDecodeError, PumpServer, PumpLinkTx, vars
  <1>3. ASSUME LeaveEpoch, UNCHANGED <<outstanding, next_seq, fw, rx_seq_expected>>
        PROVE  SeqInv'
    <2>1. /\ Len(c2m') = Len(c2m) + 1 /\ Len(c2m) \in Nat
          /\ \A i \in 1..Len(c2m) : c2m'[i] = c2m[i]
          /\ c2m'[Len(c2m) + 1] = ResetFrame
      BY <1>3, AppendFacts DEF LeaveEpoch, TypeOK
    <2>2. \A i \in 1..Len(c2m') :
             IsData(i)' => i \in 1..Len(c2m) /\ IsData(i) /\ c2m'[i] = c2m[i]
      BY <2>1, FrameFacts DEF IsData
    <2>3. SeqAgree'
      BY <1>3 DEF SeqInv, SeqAgree
    <2>4. WireInv'
      BY <1>3, <2>2 DEF SeqInv, WireInv
    <2>5. WireOrder'
      BY <1>3, <2>2 DEF SeqInv, WireOrder
    <2>6. QED
      BY <2>3, <2>4, <2>5 DEF SeqInv
  <1>4. CASE TcpEof \/ SequenceExhausted \/ Recalibrate
    BY <1>3, <1>4 DEF TcpEof, SequenceExhausted, Recalibrate
  <1>5. CASE SendData
    <2>1. outstanding = NoFrame /\ next_seq # U16Max
      BY <1>5, PayloadLenFacts DEF SendData
    <2>2. outstanding' \in C2mFrame /\ outstanding'.seq = next_seq
      <3>1. outstanding'.type = "DATA_C2M" /\ outstanding'.seq = next_seq
        BY <1>5 DEF SendData
      <3>2. QED
        BY <3>1, FrameFacts DEF TypeOK
    <2>3. next_seq' = next_seq + 1 /\ next_seq \in Nat
      BY <1>5, <2>1, NumFacts DEF SendData, Succ
    <2>4. c2m' = Append(c2m, outstanding') /\ UNCHANGED <<fw, rx_seq_expected>>
      BY <1>5 DEF SendData
    <2>5. WireInv' /\ WireOrder'
      BY <2>1, <2>2, <2>3, <2>4, WireGrows
    <2>6. SeqAgree'
      BY <2>1, <2>2, <2>3, <2>4, NumFacts, FrameFacts, SMTT(30) DEF SeqInv, SeqAgree
    <2>7. QED
      BY <2>5, <2>6 DEF SeqInv
  <1>6. CASE Retransmit
    <2>1. outstanding \in C2mFrame /\ outstanding.seq + 1 = next_seq
      BY <1>6, AckFacts DEF Retransmit
    <2>2. /\ UNCHANGED <<outstanding, next_seq, fw, rx_seq_expected>>
          /\ c2m' = Append(c2m, outstanding)
      BY <1>6 DEF Retransmit
    <2>3. WireInv' /\ WireOrder'
      BY <2>1, <2>2, WireGrows, NumFacts
    <2>4. QED
      BY <2>2, <2>3 DEF SeqInv, SeqAgree
  <1>7. CASE BridgeReceive
    <2>1. UNCHANGED <<next_seq, fw, rx_seq_expected>>
      BY <1>7 DEF BridgeReceive
    <2>2. CASE IsAck(Head(m2c))
      <3>1. HandleAck(Head(m2c)) /\ c2m' = c2m
        BY <1>7, <2>2 DEF BridgeReceive, HandleAck, IsAck
      <3>2. CASE outstanding' = outstanding
        BY <1>1, <2>1, <3>1, <3>2
      <3>3. CASE outstanding' # outstanding
        <4>1. /\ outstanding' = NoFrame /\ outstanding # NoFrame
              /\ Head(m2c).ack = Succ(outstanding.seq)
          BY <3>1, <3>3 DEF HandleAck
        <4>2. Head(m2c).ack = next_seq
          BY <4>1, AckFacts
        <4>3. fw = "up" => next_seq <= rx_seq_expected
          <5>1. 1 \in 1..Transit /\ InTransit(1) = Head(m2c)
            BY <1>7, TransitHead DEF BridgeReceive
          <5>2. QED
            BY <2>2, <4>2, <5>1 DEF AckInv, AckBound
        <4>4. fw = "up" => next_seq = rx_seq_expected
          BY <4>3, NumFacts DEF SeqInv, SeqAgree
        <4>5. SeqAgree'
          BY <2>1, <4>1, <4>4, NumFacts DEF SeqAgree
        <4>6. WireInv'
          BY <2>1, <3>1, <4>4, WireFacts, NumFacts DEF SeqInv, WireInv, IsData
        <4>7. WireOrder'
          BY <2>1, <3>1 DEF SeqInv, WireOrder, IsData
        <4>8. QED
          BY <4>5, <4>6, <4>7 DEF SeqInv
      <3>4. QED
        BY <3>2, <3>3
    <2>3. CASE ~IsAck(Head(m2c))
      <3>1. outstanding' = outstanding
        BY <1>7, <2>3 DEF BridgeReceive, IsAck
      <3>2. c2m' = c2m \/ LeaveEpoch
        BY <1>7, <2>3 DEF BridgeReceive, IsAck
      <3>3. QED
        BY <1>1, <1>3, <2>1, <3>1, <3>2
    <2>4. QED
      BY <2>2, <2>3
  <1>8. CASE LoseC2m
    <2> PICK k \in 1..Len(c2m) : c2m' = Without(c2m, k)
      BY <1>8 DEF LoseC2m
    <2>1. /\ Len(c2m') = Len(c2m) - 1 /\ Len(c2m) \in Nat
          /\ \A i \in 1..Len(c2m') : c2m'[i] = c2m[IF i < k THEN i ELSE i + 1]
      <3>1. c2m \in Seq(C2mFrame \cup {ResetFrame})
        BY DEF TypeOK
      <3>2. /\ Len(Without(c2m, k)) = Len(c2m) - 1 /\ Len(c2m) \in Nat
            /\ \A i \in 1..(Len(c2m) - 1) :
                  Without(c2m, k)[i] = c2m[IF i < k THEN i ELSE i + 1]
        BY <3>1, WithoutFacts
      <3>3. QED
        BY <3>2
    <2> DEFINE old == [i \in 1..Len(c2m') |-> IF i < k THEN i ELSE i + 1]
    <2>2. old \in [1..Len(c2m') -> 1..Len(c2m)]
      BY <2>1
    <2>3. /\ \A i \in 1..Len(c2m') : c2m'[i] = c2m[old[i]]
          /\ \A i, j \in 1..Len(c2m') : i < j => old[i] < old[j]
      BY <2>1
    <2>4. UNCHANGED <<outstanding, next_seq, fw, rx_seq_expected>>
      BY <1>8 DEF LoseC2m
    <2> HIDE DEF old
    <2>5. WireInv' /\ WireOrder'
      BY <2>2, <2>3, <2>4, WireShrinks DEF SeqInv
    <2>6. QED
      BY <2>4, <2>5 DEF SeqInv, SeqAgree
  <1>9. CASE PumpLinkRx
    <2>0. UNCHANGED <<outstanding, next_seq>> /\ fw = "up" /\ c2m # <<>>
      BY <1>9 DEF PumpLinkRx
    <2>1. CASE Head(c2m).type = "RESET"
      <3>1. fw' = "reset"
        BY <1>9, <2>1 DEF PumpLinkRx, HandleReset
      <3>2. QED
        BY <2>0, <3>1 DEF SeqInv, SeqAgree, WireInv, WireOrder
    <2>2. CASE Head(c2m).type # "RESET"
      <3> DEFINE f == Head(c2m)
      <3>1. HandleDataC2m(f) /\ fw' = fw
        BY <1>9, <2>2 DEF PumpLinkRx, HandleDataC2m
      <3>2. PICK k \in 1..Len(c2m) : c2m' = Drop(c2m, k)
        BY <3>1 DEF HandleDataC2m
      <3>3. /\ Len(c2m') = Len(c2m) - k /\ Len(c2m) \in Nat
            /\ \A i \in 1..Len(c2m') : c2m'[i] = c2m[i + k]
        <4>1. c2m \in Seq(C2mFrame \cup {ResetFrame}) /\ k \in 0..Len(c2m)
          BY DEF TypeOK
        <4>2. /\ Len(Drop(c2m, k)) = Len(c2m) - k /\ Len(c2m) \in Nat
              /\ \A i \in 1..(Len(c2m) - k) : Drop(c2m, k)[i] = c2m[i + k]
          BY <4>1, DropFacts
        <4>3. QED
          BY <3>2, <4>2
      <3> DEFINE old == [i \in 1..Len(c2m') |-> i + k]
      <3>4. /\ old \in [1..Len(c2m') -> 1..Len(c2m)]
            /\ \A i \in 1..Len(c2m') : c2m'[i] = c2m[old[i]] /\ old[i] > 1
            /\ \A i, j \in 1..Len(c2m') : i < j => old[i] < old[j]
        BY <3>3
      <3> HIDE DEF old
      <3>5. CASE Verdict(f) = "duplicate"
        <4>1. rx_seq_expected' = rx_seq_expected
          BY <3>1, <3>5 DEF HandleDataC2m
        <4>2. WireInv' /\ WireOrder'
          BY <2>0, <3>1, <3>4, <4>1, WireShrinks DEF SeqInv
        <4>3. QED
          BY <2>0, <3>1, <4>1, <4>2 DEF SeqInv, SeqAgree
      <3>6. CASE Verdict(f) = "accept"
        <4>1. /\ f.seq = rx_seq_expected /\ next_seq = rx_seq_expected + 1
              /\ outstanding = f /\ outstanding # NoFrame
              /\ Succ(rx_seq_expected) = rx_seq_expected + 1
              /\ f \in C2mFrame
          BY <2>0, <2>2, <3>6, VerdictFacts
        <4>2. rx_seq_expected' = rx_seq_expected + 1 /\ rx_seq_expected \in Nat
          BY <3>1, <3>6, <4>1, NumFacts DEF HandleDataC2m
        <4>3. f = c2m[1] /\ 1 \in 1..Len(c2m) /\ IsData(1)
          <5>1. f = c2m[1] /\ Len(c2m) \in Nat \ {0}
            BY <2>0, TailFacts DEF TypeOK
          <5>2. f.type = "DATA_C2M"
            BY <4>1, FrameFacts
          <5>3. QED
            BY <5>1, <5>2 DEF IsData
        <4>4. ASSUME NEW i \in 1..Len(c2m), i > 1, IsData(i)
              PROVE  c2m[i].seq = rx_seq_expected
          <5>1. c2m[1].seq <= c2m[i].seq
            BY <2>0, <4>3, <4>4 DEF SeqInv, WireOrder
          <5>2. c2m[i].seq < next_seq
            BY <2>0, <4>4 DEF SeqInv, WireInv
          <5>3. QED
            BY <4>1, <4>2, <4>3, <4>4, <5>1, <5>2, WireFacts
        <4>5. \A i \in 1..Len(c2m') : IsData(i)' => c2m'[i].seq = rx_seq_expected
          BY <3>4, <4>4 DEF IsData
        <4>6. WireInv' /\ WireOrder'
          BY <2>0, <4>1, <4>2, <4>5 DEF WireInv, WireOrder
        <4>7. SeqAgree'
          BY <2>0, <4>1, <4>2 DEF SeqInv, SeqAgree
        <4>8. QED
          BY <4>6, <4>7 DEF SeqInv
      <3>7. QED
        BY <2>0, <2>2, <3>5, <3>6, VerdictFacts
    <2>3. QED
      BY <2>1, <2>2
  <1>10. CASE PumpServerReject
    <2>1. UNCHANGED <<outstanding, next_seq, c2m>>
      BY <1>10 DEF PumpServerReject
    <2>2. fw' = "reset" \/ (fw' = fw /\ rx_seq_expected' = rx_seq_expected)
      BY <1>10 DEF PumpServerReject
    <2>3. QED
      BY <2>1, <2>2 DEF SeqInv, SeqAgree, WireInv, WireOrder, IsData
  <1>11. QED
    BY <1>2, <1>4, <1>5, <1>6, <1>7, <1>8, <1>9, <1>10 DEF Next

\* Frames on their way are control frames.
LEMMA TransitType ==
    ASSUME TypeOK
    PROVE  /\ Transit \in Nat
           /\ \A i \in 1..Transit : /\ InTransit(i) \in M2cFrame
                                    /\ InTransit(i).ack \in Nat /\ InTransit(i).credit \in Nat
  <1>1. Len(m2c) \in Nat /\ Len(control_tx) \in Nat /\ Transit \in Nat
    BY NumFacts DEF Transit
  <1>2. ASSUME NEW i \in 1..Transit
        PROVE  InTransit(i) \in M2cFrame
    <2>1. CASE i <= Len(m2c)
      BY <1>1, <2>1 DEF InTransit, TypeOK
    <2>2. CASE i > Len(m2c)
      <3>1. i - Len(m2c) \in 1..Len(control_tx)
        BY <1>1, <2>2 DEF Transit
      <3>2. QED
        BY <1>1, <2>2, <3>1 DEF InTransit, TypeOK
    <2>3. QED
      BY <1>1, <2>1, <2>2
  <1>3. \A f \in M2cFrame : f.ack \in Nat /\ f.credit \in Nat
    BY FrameFacts, SizesAssumption DEF Seqno
  <1>4. QED
    BY <1>1, <1>2, <1>3

\* Putting a frame on the UART does not change what is on its way.
LEMMA TransitSame ==
    ASSUME TypeOK, PumpLinkTx
    PROVE  Transit' = Transit /\ \A i \in 1..Transit : InTransit(i)' = InTransit(i)
  <1>1. /\ m2c' = Append(m2c, Head(control_tx)) /\ control_tx' = Tail(control_tx)
        /\ control_tx # <<>>
    BY DEF PumpLinkTx
  <1>2. /\ Len(control_tx) \in Nat \ {0} /\ Len(control_tx') = Len(control_tx) - 1
        /\ Head(control_tx) = control_tx[1] /\ Head(control_tx) \in M2cFrame
        /\ \A i \in 1..(Len(control_tx) - 1) : control_tx'[i] = control_tx[i + 1]
    BY <1>1, TailFacts DEF TypeOK
  <1>3. /\ Len(m2c) \in Nat /\ Len(m2c') = Len(m2c) + 1
        /\ \A i \in 1..Len(m2c) : m2c'[i] = m2c[i]
        /\ m2c'[Len(m2c) + 1] = control_tx[1]
    BY <1>1, <1>2, AppendFacts DEF TypeOK
  <1>4. Transit' = Transit /\ Transit \in Nat
    BY <1>2, <1>3 DEF Transit
  <1>5. ASSUME NEW i \in 1..Transit PROVE InTransit(i)' = InTransit(i)
    <2>1. CASE i <= Len(m2c)
      BY <1>3, <2>1 DEF InTransit
    <2>2. CASE i = Len(m2c) + 1
      BY <1>3, <2>2 DEF InTransit
    <2>3. CASE i > Len(m2c) + 1
      <3>1. i - Len(m2c) - 1 \in 1..(Len(control_tx) - 1)
        BY <1>2, <1>3, <2>3 DEF Transit
      <3>2. control_tx'[i - Len(m2c) - 1] = control_tx[i - Len(m2c)]
        <4>1. (i - Len(m2c) - 1) + 1 = i - Len(m2c)
          BY <1>3
        <4>2. control_tx'[i - Len(m2c) - 1] = control_tx[(i - Len(m2c) - 1) + 1]
          BY <1>2, <3>1
        <4>3. QED
          BY <4>1, <4>2
      <3>3. i - Len(m2c') = i - Len(m2c) - 1 /\ ~(i <= Len(m2c')) /\ ~(i <= Len(m2c))
        BY <1>3, <2>3
      <3>4. QED
        BY <3>2, <3>3 DEF InTransit
    <2>4. QED
      BY <1>3, <2>1, <2>2, <2>3
  <1>6. QED
    BY <1>4, <1>5

\* The bridge takes the oldest frame; the others move up by one.
LEMMA TransitShift ==
    ASSUME TypeOK, m2c # <<>>, m2c' = Tail(m2c), control_tx' = control_tx
    PROVE  /\ Transit' = Transit - 1 /\ Transit \in Nat
           /\ \A i \in 1..(Transit - 1) : InTransit(i)' = InTransit(i + 1)
  <1>1. /\ Len(m2c) \in Nat \ {0} /\ Len(m2c') = Len(m2c) - 1
        /\ \A i \in 1..(Len(m2c) - 1) : m2c'[i] = m2c[i + 1]
        /\ Len(control_tx) \in Nat
    BY TailFacts DEF TypeOK
  <1>2. Transit' = Transit - 1 /\ Transit \in Nat
    BY <1>1 DEF Transit
  <1>3. ASSUME NEW i \in 1..(Transit - 1) PROVE InTransit(i)' = InTransit(i + 1)
    <2>1. CASE i <= Len(m2c) - 1
      BY <1>1, <2>1 DEF InTransit
    <2>2. CASE i > Len(m2c) - 1
      <3>1. i - Len(m2c') = i + 1 - Len(m2c) /\ ~(i <= Len(m2c')) /\ ~(i + 1 <= Len(m2c))
        BY <1>1, <2>2
      <3>2. QED
        BY <3>1 DEF InTransit
    <2>3. QED
      BY <1>1, <2>1, <2>2
  <1>4. QED
    BY <1>2, <1>3

\* A queued control frame is the youngest on its way.
LEMMA TransitQueued ==
    ASSUME TypeOK, NEW a \in M2cFrame, m2c' = m2c, control_tx' = Queued(control_tx, a)
    PROVE  /\ Transit \in Nat /\ Transit' \in {Transit, Transit + 1}
           /\ Len(control_tx) < ControlCap => Transit' = Transit + 1
           /\ \A i \in 1..Transit : InTransit(i)' = InTransit(i)
           /\ \A i \in 1..Transit' : i > Transit => InTransit(i)' = a
  <1>1. /\ Len(control_tx) \in Nat /\ Len(m2c) \in Nat
        /\ Len(control_tx') \in {Len(control_tx), Len(control_tx) + 1}
        /\ Len(control_tx) < ControlCap => Len(control_tx') = Len(control_tx) + 1
        /\ \A i \in 1..Len(control_tx) : control_tx'[i] = control_tx[i]
        /\ \A i \in 1..Len(control_tx') : i > Len(control_tx) => control_tx'[i] = a
    <2>1. control_tx \in Seq(M2cFrame) /\ Len(control_tx) <= ControlCap
      BY DEF TypeOK
    <2>2. /\ Len(Queued(control_tx, a)) \in {Len(control_tx), Len(control_tx) + 1}
          /\ Len(control_tx) < ControlCap => Len(Queued(control_tx, a)) = Len(control_tx) + 1
          /\ \A i \in 1..Len(control_tx) : Queued(control_tx, a)[i] = control_tx[i]
          /\ \A i \in 1..Len(Queued(control_tx, a)) :
                i > Len(control_tx) => Queued(control_tx, a)[i] = a
      BY <2>1, QueuedFacts
    <2>3. QED
      BY <2>2, NumFacts
  <1>2. /\ Transit \in Nat /\ Transit' \in {Transit, Transit + 1}
        /\ Len(control_tx) < ControlCap => Transit' = Transit + 1
    BY <1>1 DEF Transit
  <1>3. ASSUME NEW i \in 1..Transit PROVE InTransit(i)' = InTransit(i)
    <2>1. ~(i <= Len(m2c)) => i - Len(m2c) \in 1..Len(control_tx)
      BY <1>1 DEF Transit
    <2>2. QED
      BY <1>1, <2>1 DEF InTransit
  <1>4. ASSUME NEW i \in 1..Transit', i > Transit PROVE InTransit(i)' = a
    <2>1. /\ i - Len(m2c) \in 1..Len(control_tx') /\ i - Len(m2c) > Len(control_tx)
          /\ ~(i <= Len(m2c))
      BY <1>1, <1>4 DEF Transit
    <2>2. QED
      BY <1>1, <2>1 DEF InTransit
  <1>5. QED
    BY <1>2, <1>3, <1>4

\* What is on its way to the bridge, and the room for the next frame, stay
\* covered by free space in the RX ring.
LEMMA AckNext ==
    ASSUME TypeOK, SeqInv, AckInv, TypeOK', [Next]_vars
    PROVE  AckInv'
  <1> USE DEF bridgeVars, fwVars
  <1>0. SUFFICES ASSUME fw' = "up" PROVE AckInv'
    BY DEF AckInv, AckBound, RoomInv, CreditInv
  <1>1. ASSUME UNCHANGED <<outstanding, credit, fw, rx_seq_expected, rx_ring, m2c, control_tx>>
        PROVE  AckInv'
    BY <1>1 DEF AckInv, AckBound, RoomInv, CreditInv, Transit, InTransit, Fresh, Free,
                Answers, Covered
  <1>2. CASE TcpRead \/ TcpEof \/ SequenceExhausted \/ Retransmit \/ Recalibrate
             \/ LoseC2m \/ UNCHANGED vars
    BY <1>1, <1>2 DEF TcpRead, TcpEof, SequenceExhausted, Retransmit, Recalibrate,
                      LoseC2m, LeaveEpoch, vars
  <1>3. CASE SendData
    <2>1. /\ UNCHANGED <<fw, rx_seq_expected, rx_ring, m2c, control_tx>> /\ fw = "up"
          /\ outstanding = NoFrame /\ outstanding'.seq = next_seq
          /\ outstanding'.payload = Take(pending_tcp, next_payload_len)
      BY <1>0, <1>3, PayloadLenFacts DEF SendData
    <2>2. /\ next_payload_len \in 1..PayloadCap /\ next_payload_len <= credit
          /\ next_payload_len \in 0..Len(pending_tcp)
      BY <1>3, PayloadLenFacts, NumFacts, SMTT(30) DEF SendData
    <2>3. Len(outstanding'.payload) = next_payload_len
      BY <2>1, <2>2, TakeFacts DEF TypeOK
    <2>4. credit <= Free /\ Free \in Int /\ credit \in Nat
      BY <2>1, NumFacts DEF AckInv, RoomInv, Free
    <2>5. rx_seq_expected = next_seq
      BY <2>1 DEF SeqInv, SeqAgree
    <2>6. outstanding' # NoFrame
      <3>1. outstanding'.type = "DATA_C2M"
        BY <1>3 DEF SendData
      <3>2. QED
        BY <3>1, FrameFacts
    <2>7. Free' = Free /\ Transit' = Transit /\ \A i : InTransit(i)' = InTransit(i)
      BY <2>1 DEF Free, Transit, InTransit
    <2>8. RoomInv'
      BY <2>2, <2>3, <2>4, <2>6, <2>7, NumFacts DEF RoomInv
    <2>9. \A i \in 1..Transit : Covered(InTransit(i))
      BY <2>1 DEF AckInv, CreditInv, Fresh
    <2>10. CreditInv'
      BY <2>7, <2>9 DEF CreditInv, Covered
    <2>11. AckBound'
      BY <2>1, <2>7 DEF AckInv, AckBound
    <2>12. QED
      BY <2>8, <2>10, <2>11 DEF AckInv
  <1>4. ASSUME m2c # <<>>, m2c' = Tail(m2c),
               UNCHANGED <<fw, rx_seq_expected, rx_ring, control_tx>>,
               \/ UNCHANGED <<outstanding, credit>>
               \/ IsAck(Head(m2c)) /\ HandleAck(Head(m2c))
        PROVE  AckInv'
    <2>1. /\ Transit' = Transit - 1 /\ Transit \in Nat /\ Free' = Free /\ fw = "up"
          /\ \A i \in 1..Transit' : i + 1 \in 1..Transit /\ InTransit(i)' = InTransit(i + 1)
      <3>1. Transit' = Transit - 1 /\ Transit \in Nat
            /\ \A i \in 1..(Transit - 1) : InTransit(i)' = InTransit(i + 1)
        BY <1>4, TransitShift
      <3>2. Free' = Free /\ fw = "up"
        BY <1>0, <1>4 DEF Free
      <3>3. QED
        BY <3>1, <3>2
    <2>2. AckBound'
      BY <1>4, <2>1 DEF AckInv, AckBound
    <2>3. 1 \in 1..Transit /\ InTransit(1) = Head(m2c)
      BY <1>4, TransitHead
    <2>4. CASE outstanding' = outstanding
      <3>1. Fresh' = Fresh
        BY <1>4, <2>4 DEF Fresh
      <3>2. CreditInv'
        BY <2>1, <2>4, <3>1 DEF AckInv, CreditInv, Answers, Covered
      <3>3. outstanding = NoFrame => credit' <= Free
        <4>1. CASE credit' = credit
          BY <2>1, <4>1 DEF AckInv, RoomInv
        <4>2. CASE credit' # credit
          <5>1. credit' = Head(m2c).credit /\ IsAck(Head(m2c))
            BY <1>4, <4>2 DEF HandleAck
          <5>2. QED
            BY <2>1, <2>3, <5>1 DEF AckInv, CreditInv, Fresh, Covered
        <4>3. QED
          BY <4>1, <4>2
      <3>4. RoomInv'
        BY <2>1, <2>4, <3>1, <3>3 DEF AckInv, RoomInv
      <3>5. QED
        BY <2>2, <3>2, <3>4 DEF AckInv
    <2>5. CASE outstanding' # outstanding
      <3>1. /\ outstanding' = NoFrame /\ outstanding # NoFrame /\ IsAck(Head(m2c))
            /\ Head(m2c).ack = Succ(outstanding.seq) /\ credit' = Head(m2c).credit
        BY <1>4, <2>5 DEF HandleAck
      <3>2. Answers(InTransit(1))
        BY <2>3, <3>1, AckFacts DEF Answers
      <3>3. \A j \in 1..Transit : Covered(InTransit(j))
        BY <2>1, <2>3, <3>2 DEF AckInv, CreditInv
      <3>4. credit' <= Free
        BY <2>3, <3>1, <3>3 DEF Covered
      <3>5. RoomInv'
        BY <2>1, <3>1, <3>4 DEF RoomInv
      <3>6. CreditInv'
        BY <2>1, <3>3 DEF CreditInv, Covered
      <3>7. QED
        BY <2>2, <3>5, <3>6 DEF AckInv
    <2>6. QED
      BY <2>4, <2>5
  <1>5. CASE BridgeReceive
    BY <1>4, <1>5 DEF BridgeReceive, IsAck
  <1>6. CASE BridgeDecodeError
    BY <1>4, <1>6 DEF BridgeDecodeError
  <1>7. CASE PumpLinkTx
    <2>1. Transit' = Transit /\ \A i \in 1..Transit : InTransit(i)' = InTransit(i)
      BY <1>7, TransitSame
    <2>2. UNCHANGED <<outstanding, credit, fw, rx_seq_expected, rx_ring>>
      BY <1>7 DEF PumpLinkTx
    <2>3. Free' = Free /\ Fresh' = Fresh
      BY <2>2 DEF Free, Fresh
    <2>4. QED
      BY <2>1, <2>2, <2>3 DEF AckInv, AckBound, RoomInv, CreditInv, Answers, Covered
  <1>8. ASSUME NEW a \in M2cFrame, IsAck(a), a.ack <= rx_seq_expected,
               m2c' = m2c, control_tx' = Queued(control_tx, a),
               UNCHANGED <<outstanding, credit, fw, rx_seq_expected>>,
               Free <= Free', Transit' = Transit \/ a.credit <= Free'
        PROVE  AckInv'
    <2>1. /\ Transit \in Nat /\ Transit' \in {Transit, Transit + 1}
          /\ \A i \in 1..Transit : InTransit(i)' = InTransit(i)
          /\ \A i \in 1..Transit' : i > Transit => InTransit(i)' = a
      BY <1>8, TransitQueued
    <2>2. Free \in Int /\ Free' \in Int /\ fw = "up" /\ Fresh' = Fresh
      BY <1>0, <1>8, NumFacts, SizesAssumption DEF Free, Fresh, TypeOK
    <2>3. \A i \in 1..Transit : Covered(InTransit(i)) => Covered(InTransit(i))'
      BY <1>8, <2>1, <2>2, TransitType DEF Covered
    <2>4. \A i \in 1..Transit' : i \in 1..Transit \/ (i > Transit /\ Covered(InTransit(i))')
      BY <1>8, <2>1, <2>2 DEF Covered
    <2>5. AckBound'
      BY <1>8, <2>1, <2>2, <2>4 DEF AckInv, AckBound
    <2>6. RoomInv'
      <3>1. outstanding # NoFrame => Len(outstanding.payload) \in Nat
        BY AckFacts
      <3>2. credit \in Nat
        BY NumFacts
      <3>3. QED
        BY <1>8, <2>2, <3>1, <3>2 DEF AckInv, RoomInv
    <2>7. CreditInv'
      <3>1. Fresh' => \A i \in 1..Transit' : Covered(InTransit(i))'
        BY <2>2, <2>3, <2>4 DEF AckInv, CreditInv
      <3>2. ASSUME NEW i \in 1..Transit', NEW j \in 1..Transit', i <= j, Answers(InTransit(i))'
            PROVE  Covered(InTransit(j))'
        <4>1. CASE j \in 1..Transit
          <5>1. i \in 1..Transit /\ Answers(InTransit(i))
            BY <1>8, <2>1, <3>2, <4>1 DEF Answers
          <5>2. QED
            BY <2>2, <2>3, <3>2, <4>1, <5>1 DEF AckInv, CreditInv
        <4>2. QED
          BY <2>4, <4>1
      <3>3. QED
        BY <3>1, <3>2 DEF CreditInv
    <2>8. QED
      BY <2>5, <2>6, <2>7 DEF AckInv
  <1>9. CASE PumpServer
    <2> DEFINE n == Lesser(Len(rx_ring), RxBudget)
               a == Ack(0, rx_free_credit(Drop(rx_ring, n)))
    <2>1. n \in 0..Len(rx_ring)
      BY SizesAssumption DEF TypeOK, Lesser
    <2>2. /\ rx_ring' = Drop(rx_ring, n) /\ m2c' = m2c /\ control_tx' = Queued(control_tx, a)
          /\ UNCHANGED <<outstanding, credit, fw, rx_seq_expected>>
      BY <1>9 DEF PumpServer
    <2>3. Len(rx_ring') = Len(rx_ring) - n /\ rx_ring' \in Seq(Byte) /\ Len(rx_ring') <= RxCap
      BY <2>1, <2>2, DropFacts DEF TypeOK
    <2>4. rx_free_credit(rx_ring') \in Seqno /\ rx_free_credit(rx_ring') <= Free'
      BY <2>3, CreditFacts DEF Free
    <2>5. a \in M2cFrame /\ IsAck(a) /\ a.ack = 0 /\ a.credit = rx_free_credit(rx_ring')
      BY <2>2, <2>4, FrameFacts, SizesAssumption DEF Seqno
    <2>6. Free <= Free' /\ 0 <= rx_seq_expected
      <3>1. Len(rx_ring) \in Nat /\ RxCap \in Nat /\ rx_seq_expected \in Nat
        BY NumFacts
      <3> HIDE DEF n
      <3>2. QED
        BY <2>1, <2>3, <3>1 DEF Free
    <2> HIDE DEF a
    <2>7. QED
      BY <1>8, <2>2, <2>4, <2>5, <2>6
  <1>10. CASE PumpServerReject
    <2>1. /\ rx_ring' = <<>>
          /\ UNCHANGED <<outstanding, credit, fw, rx_seq_expected, m2c, control_tx>>
      BY <1>0, <1>10 DEF PumpServerReject
    <2>2. /\ Transit' = Transit /\ \A i : InTransit(i)' = InTransit(i)
          /\ Free <= Free' /\ Free \in Int /\ Free' \in Int /\ fw = "up" /\ Fresh' = Fresh
      BY <1>0, <2>1, NumFacts DEF Transit, InTransit, Free, Fresh
    <2>3. \A i \in 1..Transit : Covered(InTransit(i)) => Covered(InTransit(i))'
      BY <2>2, TransitType DEF Covered
    <2>4. CreditInv'
      BY <2>1, <2>2, <2>3 DEF AckInv, CreditInv, Answers
    <2>5. RoomInv'
      <3>1. CASE outstanding = NoFrame
        BY <2>1, <2>2, <3>1, NumFacts DEF AckInv, RoomInv
      <3>2. CASE outstanding # NoFrame
        BY <2>1, <2>2, <3>2, NumFacts DEF AckInv, RoomInv
      <3>3. QED
        BY <3>1, <3>2
    <2>6. AckBound'
      BY <2>1, <2>2 DEF AckInv, AckBound
    <2>7. QED
      BY <2>4, <2>5, <2>6 DEF AckInv
  <1>11. CASE PumpLinkRx
    <2> DEFINE f == Head(c2m)
    <2>1. f.type # "RESET" /\ fw = "up" /\ c2m # <<>> /\ HandleDataC2m(f)
      BY <1>0, <1>11 DEF PumpLinkRx, HandleReset, HandleDataC2m
    <2>2. UNCHANGED <<outstanding, credit, fw, m2c>>
      BY <1>11, <2>1 DEF PumpLinkRx, HandleDataC2m
    <2> DEFINE room == Len(control_tx) < ControlCap
    <2>3. ~room => Transit' = Transit
      BY <2>1, <2>2 DEF HandleDataC2m, Queued, Transit
    <2>4. CASE Verdict(f) = "duplicate"
      <3> DEFINE a == Ack(rx_seq_expected, rx_free_credit(rx_ring))
      <3>1. /\ control_tx' = Queued(control_tx, a) /\ rx_seq_expected' = rx_seq_expected
            /\ rx_ring' = IF room THEN rx_ring ELSE <<>>
        BY <2>1, <2>4 DEF HandleDataC2m, Codes
      <3>2. rx_free_credit(rx_ring) \in Seqno /\ rx_free_credit(rx_ring) <= Free
        BY CreditFacts DEF TypeOK, Free
      <3>3. /\ a \in M2cFrame /\ IsAck(a) /\ a.ack = rx_seq_expected
            /\ a.credit = rx_free_credit(rx_ring)
        BY <3>2, FrameFacts DEF TypeOK
      <3>4. Free <= Free' /\ (room => Free' = Free)
        BY <3>1, NumFacts DEF Free
      <3>5. a.ack <= rx_seq_expected
        BY <3>3, NumFacts
      <3> HIDE DEF a
      <3>6. QED
        BY <1>8, <2>2, <2>3, <3>1, <3>2, <3>3, <3>4, <3>5
    <2>5. CASE Verdict(f) = "accept"
      <3> DEFINE ring == rx_ring \o f.payload
                 a == Ack(rx_seq_expected + 1, rx_free_credit(ring))
      <3>1. /\ f.seq = rx_seq_expected /\ f = outstanding /\ outstanding # NoFrame
            /\ rx_seq_expected < U16Max
            /\ Succ(rx_seq_expected) = rx_seq_expected + 1
            /\ f.payload \in Seq(Byte) /\ Len(f.payload) <= RxCap - Len(rx_ring)
        BY <2>1, <2>5, VerdictFacts
      <3>2. /\ control_tx' = Queued(control_tx, a)
            /\ rx_seq_expected' = rx_seq_expected + 1
            /\ rx_ring' = IF room THEN ring ELSE <<>>
        BY <2>1, <2>5, <3>1 DEF HandleDataC2m, Codes
      <3>3. ring \in Seq(Byte) /\ Len(ring) <= RxCap
        <4>1. rx_ring \in Seq(Byte)
          BY DEF TypeOK
        <4>2. ring \in Seq(Byte) /\ Len(ring) = Len(rx_ring) + Len(f.payload)
          BY <3>1, <4>1, ConcatFacts
        <4>3. Len(f.payload) \in Nat
          BY <3>1
        <4>4. RxCap \in Nat /\ Len(rx_ring) \in Nat
          BY NumFacts
        <4> HIDE DEF f, room, ring
        <4>5. QED
          BY <3>1, <4>2, <4>3, <4>4
      <3>4. /\ a \in M2cFrame /\ a.ack = rx_seq_expected + 1
            /\ a.credit <= RxCap - Len(ring)
        <4>1. rx_seq_expected + 1 \in Seqno
          BY <3>1, NumFacts, SMTT(30) DEF Seqno
        <4>2. rx_free_credit(ring) \in Seqno /\ rx_free_credit(ring) <= RxCap - Len(ring)
          BY <3>3, CreditFacts
        <4> HIDE DEF ring
        <4>3. QED
          BY <4>1, <4>2, FrameFacts
      <3> HIDE DEF a, ring
      <3>5. room => a.credit <= Free'
        BY <3>2, <3>4 DEF Free
      <3>6. /\ Transit \in Nat /\ Transit' \in {Transit, Transit + 1}
            /\ \A i \in 1..Transit : InTransit(i)' = InTransit(i)
            /\ \A i \in 1..Transit' : i > Transit => InTransit(i)' = a
        BY <2>2, <3>2, <3>4, TransitQueued
      <3>7. AckBound'
        <4>1. \A i \in 1..Transit : IsAck(InTransit(i)) =>
                 InTransit(i).ack <= rx_seq_expected /\ InTransit(i).ack \in Nat
          BY <2>1, TransitType DEF AckInv, AckBound
        <4>2. ASSUME NEW i \in 1..Transit', IsAck(InTransit(i)')
              PROVE  InTransit(i)'.ack <= rx_seq_expected + 1
          <5>1. CASE i \in 1..Transit
            BY <3>6, <4>1, <4>2, <5>1, NumFacts, SMTT(30)
          <5>2. CASE i > Transit
            BY <3>4, <3>6, <5>2, NumFacts, SMTT(30)
          <5>3. QED
            BY <3>6, <5>1, <5>2
        <4>3. QED
          BY <3>2, <4>2 DEF AckBound
      <3>8. ~Fresh'
        <4>1. outstanding.seq = rx_seq_expected /\ outstanding' = outstanding
          BY <2>2, <3>1
        <4>2. rx_seq_expected' # rx_seq_expected
          BY <3>2, NumFacts
        <4>3. QED
          BY <3>1, <4>1, <4>2 DEF Fresh
      <3>9. RoomInv'
        BY <2>1, <2>2, <3>1, <3>8 DEF AckInv, RoomInv
      <3>10. \A i \in 1..Transit : ~Answers(InTransit(i))'
        <4>1. \A i \in 1..Transit : IsAck(InTransit(i)) => InTransit(i).ack <= rx_seq_expected
          BY <2>1 DEF AckInv, AckBound
        <4>2. \A i \in 1..Transit : InTransit(i).ack \in Nat
          BY TransitType
        <4>3. QED
          BY <2>2, <3>1, <3>6, <4>1, <4>2, NumFacts, SMTT(30) DEF Answers
      <3>11. CreditInv'
        <4>1. ASSUME NEW i \in 1..Transit', NEW j \in 1..Transit', i <= j, Answers(InTransit(i))'
              PROVE  Covered(InTransit(j))'
          <5>1. i > Transit /\ j > Transit /\ Transit' # Transit
            BY <3>6, <3>10, <4>1
          <5>2. InTransit(j)' = a /\ room
            BY <2>3, <3>6, <5>1
          <5>3. QED
            BY <3>5, <5>2 DEF Covered
        <4>2. QED
          BY <3>8, <4>1 DEF CreditInv
      <3>12. QED
        BY <3>7, <3>9, <3>11 DEF AckInv
    <2>6. QED
      BY <2>1, <2>4, <2>5, VerdictFacts
  <1>12. QED
    BY <1>2, <1>3, <1>5, <1>6, <1>7, <1>9, <1>10, <1>11 DEF Next

\* Every byte stays where DataInv says, and the server's bytes in order.
LEMMA DataNext ==
    ASSUME TypeOK, SeqInv, AckInv, DataInv, InOrderOnce, TypeOK', [Next]_vars
    PROVE  DataInv' /\ InOrderOnce'
  <1> USE DEF bridgeVars, fwVars
  <1>0. Released \in Int /\ Taken \in Int /\ Len(pending_tcp) \in Nat /\ tcp_read \in Nat
        /\ Len(rx_ring) \in Nat /\ Len(delivered) \in Nat
    BY NumFacts DEF Released, Taken
  <1>1. ASSUME UNCHANGED <<tcp_read, pending_tcp, outstanding, fw, rx_seq_expected,
                           rx_ring, conn_reset, delivered>>
        PROVE  DataInv' /\ InOrderOnce'
    BY <1>1 DEF DataInv, PendingInv, PayloadInv, TakenInv, InOrderOnce, Released, Taken, Fresh
  <1>2. CASE TcpEof \/ SequenceExhausted \/ Retransmit \/ Recalibrate \/ BridgeDecodeError
             \/ LoseC2m \/ PumpLinkTx \/ UNCHANGED vars
    BY <1>1, <1>2 DEF TcpEof, SequenceExhausted, Retransmit, Recalibrate,
                      BridgeDecodeError, LoseC2m, PumpLinkTx, vars
  <1>3. CASE TcpRead
    <2> PICK n \in 1..(StreamLen - tcp_read) :
          /\ tcp_read' = tcp_read + n
          /\ pending_tcp' = pending_tcp \o [i \in 1..n |-> tcp_read + i]
      BY <1>3 DEF TcpRead
    <2> DEFINE new == [i \in 1..n |-> tcp_read + i]
    <2>1. pending_tcp \in Seq(Byte) /\ new \in Seq(Byte) /\ Len(new) = n /\ n \in Nat
      BY SizesAssumption DEF TypeOK, Byte
    <2>2. \A i \in 1..n : new[i] = tcp_read + i
      OBVIOUS
    <2> HIDE DEF new
    <2>3. /\ Len(pending_tcp') = Len(pending_tcp) + n
          /\ \A i \in 1..Len(pending_tcp) : pending_tcp'[i] = pending_tcp[i]
          /\ \A i \in 1..n : pending_tcp'[Len(pending_tcp) + i] = new[i]
      BY <2>1, ConcatFacts DEF new
    <2>4. Released' = Released
      BY <1>0, <2>1, <2>3 DEF Released
    <2>5. ASSUME NEW i \in 1..Len(pending_tcp') PROVE pending_tcp'[i] = Released + i
      <3>1. CASE i \in 1..Len(pending_tcp)
        BY <2>3, <3>1 DEF DataInv, PendingInv
      <3>2. CASE i > Len(pending_tcp)
        <4>1. i - Len(pending_tcp) \in 1..n /\ i = Len(pending_tcp) + (i - Len(pending_tcp))
          BY <1>0, <2>1, <2>3, <3>2
        <4>2. pending_tcp'[i] = tcp_read + (i - Len(pending_tcp))
          BY <2>2, <2>3, <4>1
        <4>3. QED
          BY <1>0, <4>2 DEF Released
      <3>3. QED
        BY <1>0, <3>1, <3>2
    <2>6. PendingInv'
      <3>1. Len(pending_tcp) <= tcp_read
        BY DEF DataInv, PendingInv
      <3>2. Len(pending_tcp') <= tcp_read'
        BY <1>0, <2>1, <2>3, <3>1
      <3>3. \A i \in 1..Len(pending_tcp') : pending_tcp'[i] = Released' + i
        BY <2>4, <2>5
      <3>4. QED
        BY <3>2, <3>3 DEF PendingInv
    <2>7. UNCHANGED <<outstanding, fw, rx_seq_expected, rx_ring, conn_reset, delivered>>
      BY <1>3 DEF TcpRead
    <2>8. PayloadInv'
      <3>1. outstanding # NoFrame => Len(outstanding.payload) \in Nat
        BY AckFacts
      <3>2. QED
        BY <1>0, <2>1, <2>3, <2>4, <2>7, <3>1 DEF DataInv, PayloadInv
    <2>9. TakenInv' /\ InOrderOnce'
      BY <2>4, <2>7 DEF DataInv, TakenInv, Taken, Fresh, InOrderOnce
    <2>10. QED
      BY <2>6, <2>8, <2>9 DEF DataInv
  <1>4. CASE SendData
    <2>1. /\ UNCHANGED <<tcp_read, pending_tcp, fw, rx_seq_expected, rx_ring, conn_reset, delivered>>
          /\ outstanding = NoFrame
          /\ outstanding' = [type |-> "DATA_C2M", seq |-> next_seq,
                             payload |-> Take(pending_tcp, next_payload_len)]
      BY <1>4, PayloadLenFacts DEF SendData
    <2>2. outstanding'.seq = next_seq /\ outstanding'.payload = Take(pending_tcp, next_payload_len)
      BY <2>1
    <2>3. next_payload_len \in 0..Len(pending_tcp)
      BY <1>0, <1>4, PayloadLenFacts DEF SendData
    <2>4. /\ Len(outstanding'.payload) = next_payload_len
          /\ \A i \in 1..next_payload_len : outstanding'.payload[i] = pending_tcp[i]
      <3>1. pending_tcp \in Seq(Byte)
        BY DEF TypeOK
      <3> HIDE DEF Take, next_payload_len
      <3>2. QED
        BY <2>2, <2>3, <3>1, TakeFacts
    <2>5. Released' = Released /\ Taken' = Taken
      BY <2>1 DEF Released, Taken
    <2>6. fw = "up" => Fresh'
      BY <2>1, <2>2 DEF SeqInv, SeqAgree, Fresh
    <2>7. fw = "up" /\ ~conn_reset => Taken = Released
      BY <2>1 DEF DataInv, TakenInv, Fresh
    <2>8. TakenInv'
      BY <2>1, <2>5, <2>6, <2>7 DEF TakenInv
    <2>9. PayloadInv'
      BY <1>0, <2>1, <2>3, <2>4, <2>5 DEF DataInv, PendingInv, PayloadInv
    <2>10. PendingInv' /\ InOrderOnce'
      BY <2>1, <2>5 DEF DataInv, PendingInv, InOrderOnce
    <2>11. QED
      BY <2>8, <2>9, <2>10 DEF DataInv
  <1>5. CASE BridgeReceive
    <2>1. UNCHANGED <<tcp_read, fw, rx_seq_expected, rx_ring, conn_reset, delivered>>
      BY <1>5 DEF BridgeReceive
    <2>2. CASE outstanding' = outstanding
      <3>1. pending_tcp' = pending_tcp
        BY <1>5, <2>2, AckFacts, FrameFacts DEF BridgeReceive, HandleAck
      <3>2. QED
        BY <1>1, <2>1, <2>2, <3>1
    <2>3. CASE outstanding' # outstanding
      <3> DEFINE len == Len(outstanding.payload)
      <3>1. /\ IsAck(Head(m2c)) /\ outstanding # NoFrame /\ outstanding' = NoFrame
            /\ Head(m2c).ack = Succ(outstanding.seq)
            /\ len <= Len(pending_tcp) /\ pending_tcp' = Drop(pending_tcp, len)
        BY <1>5, <2>3 DEF BridgeReceive, HandleAck, IsAck
      <3>2. len \in 0..Len(pending_tcp) /\ len \in Nat
        BY <1>0, <3>1, AckFacts
      <3> HIDE DEF len
      <3>3. /\ Len(pending_tcp') = Len(pending_tcp) - len
            /\ \A i \in 1..(Len(pending_tcp) - len) : pending_tcp'[i] = pending_tcp[i + len]
        BY <3>1, <3>2, DropFacts DEF TypeOK
      <3>4. Released' = Released + len
        BY <1>0, <2>1, <3>2, <3>3 DEF Released
      <3>5. PendingInv'
        <4>1. ASSUME NEW i \in 1..Len(pending_tcp') PROVE pending_tcp'[i] = Released' + i
          <5>1. i + len \in 1..Len(pending_tcp) /\ pending_tcp'[i] = pending_tcp[i + len]
            BY <1>0, <3>2, <3>3
          <5>2. pending_tcp[i + len] = Released + (i + len)
            BY <5>1 DEF DataInv, PendingInv
          <5>3. QED
            BY <1>0, <3>2, <3>4, <5>1, <5>2
        <4>2. QED
          BY <1>0, <2>1, <3>2, <3>3, <4>1 DEF DataInv, PendingInv
      <3>6. fw = "up" => ~Fresh
        <4>1. 1 \in 1..Transit /\ InTransit(1) = Head(m2c)
          BY <1>5, TransitHead DEF BridgeReceive
        <4>2. fw = "up" => outstanding.seq + 1 <= rx_seq_expected /\ outstanding.seq \in Nat
          BY <3>1, <4>1, AckFacts DEF AckInv, AckBound
        <4>3. QED
          BY <3>1, <4>2, NumFacts DEF Fresh
      <3>7. TakenInv'
        BY <2>1, <3>1, <3>4, <3>6 DEF DataInv, TakenInv, Taken, Fresh, len
      <3>8. PayloadInv' /\ InOrderOnce'
        BY <2>1, <3>1 DEF PayloadInv, InOrderOnce
      <3>9. QED
        BY <3>5, <3>7, <3>8 DEF DataInv
    <2>4. QED
      BY <2>2, <2>3
  <1>6. CASE PumpServer
    <2> DEFINE n == Lesser(Len(rx_ring), RxBudget)
    <2>1. n \in 0..Len(rx_ring) /\ n \in Nat
      BY SizesAssumption DEF TypeOK, Lesser
    <2>2. /\ rx_ring' = Drop(rx_ring, n) /\ delivered' = delivered \o Take(rx_ring, n)
          /\ UNCHANGED <<tcp_read, pending_tcp, outstanding, fw, rx_seq_expected, conn_reset>>
      BY <1>6 DEF PumpServer
    <2> HIDE DEF n
    <2>3. /\ Len(rx_ring') = Len(rx_ring) - n
          /\ \A i \in 1..(Len(rx_ring) - n) : rx_ring'[i] = rx_ring[i + n]
      BY <2>1, <2>2, DropFacts DEF TypeOK
    <2>4. /\ Take(rx_ring, n) \in Seq(Byte) /\ Len(Take(rx_ring, n)) = n
          /\ \A i \in 1..n : Take(rx_ring, n)[i] = rx_ring[i]
      BY <2>1, TakeFacts DEF TypeOK
    <2>5. /\ Len(delivered') = Len(delivered) + n
          /\ \A i \in 1..Len(delivered) : delivered'[i] = delivered[i]
          /\ \A i \in 1..n : delivered'[Len(delivered) + i] = rx_ring[i]
      <3> DEFINE t == Take(rx_ring, n)
      <3>1. delivered \in Seq(Byte)
        BY DEF TypeOK
      <3>2. t \in Seq(Byte) /\ Len(t) = n /\ (\A i \in 1..n : t[i] = rx_ring[i])
            /\ delivered' = delivered \o t
        BY <2>2, <2>4
      <3> HIDE DEF t
      <3>3. /\ Len(delivered \o t) = Len(delivered) + Len(t)
            /\ \A i \in 1..Len(delivered) : (delivered \o t)[i] = delivered[i]
            /\ \A i \in 1..Len(t) : (delivered \o t)[Len(delivered) + i] = t[i]
        <4>1. t \in Seq(Byte)
          BY <3>2
        <4>2. QED
          BY <3>1, <4>1
      <3>4. /\ Len(delivered') = Len(delivered) + Len(t)
            /\ \A i \in 1..Len(delivered) : delivered'[i] = delivered[i]
            /\ \A i \in 1..Len(t) : delivered'[Len(delivered) + i] = t[i]
        BY <3>2, <3>3, Zenon
      <3>5. QED
        BY <3>2, <3>4, Zenon
    <2>6. Taken' = Taken /\ Released' = Released /\ Fresh' = Fresh
      BY <1>0, <2>1, <2>2, <2>3, <2>5 DEF Taken, Released, Fresh
    <2>7. DataInv'
      BY <2>2, <2>6 DEF DataInv, PendingInv, PayloadInv, TakenInv
    <2>8. ASSUME ~conn_reset, NEW i \in 1..Len(delivered') PROVE delivered'[i] = i
      <3>1. CASE i \in 1..Len(delivered)
        BY <2>5, <2>8, <3>1 DEF InOrderOnce
      <3>2. CASE i > Len(delivered)
        <4>1. i - Len(delivered) \in 1..n /\ i = Len(delivered) + (i - Len(delivered))
          BY <1>0, <2>1, <2>5, <3>2
        <4>2. delivered'[i] = rx_ring[i - Len(delivered)] /\ i - Len(delivered) \in 1..Len(rx_ring)
          BY <1>0, <2>1, <2>5, <4>1
        <4>3. rx_ring[i - Len(delivered)] = Len(delivered) + (i - Len(delivered))
          BY <2>8, <4>2 DEF InOrderOnce
        <4>4. QED
          BY <4>1, <4>2, <4>3
      <3>3. QED
        BY <1>0, <3>1, <3>2
    <2>9. ASSUME ~conn_reset, NEW i \in 1..Len(rx_ring')
          PROVE  rx_ring'[i] = Len(delivered') + i
      <3>1. i + n \in 1..Len(rx_ring) /\ rx_ring'[i] = rx_ring[i + n]
        BY <1>0, <2>1, <2>3
      <3>2. rx_ring[i + n] = Len(delivered) + (i + n)
        BY <2>9, <3>1 DEF InOrderOnce
      <3>3. QED
        BY <1>0, <2>1, <2>5, <3>1, <3>2
    <2>10. QED
      BY <2>2, <2>7, <2>8, <2>9 DEF InOrderOnce
  <1>7. ASSUME rx_ring' = <<>>, fw' = "reset" \/ conn_reset',
               conn_reset' = conn_reset \/ conn_reset',
               UNCHANGED <<tcp_read, pending_tcp, outstanding, delivered>>
        PROVE  DataInv' /\ InOrderOnce'
    <2>1. Released' = Released
      BY <1>7 DEF Released
    <2>2. DataInv'
      BY <1>7, <2>1 DEF DataInv, PendingInv, PayloadInv, TakenInv
    <2>3. InOrderOnce'
      BY <1>7 DEF InOrderOnce
    <2>4. QED
      BY <2>2, <2>3
  <1>8. CASE PumpServerReject
    BY <1>7, <1>8 DEF PumpServerReject
  <1>9. CASE PumpLinkRx
    <2> DEFINE f == Head(c2m)
               room == Len(control_tx) < ControlCap
    <2>1. UNCHANGED <<tcp_read, pending_tcp, outstanding, delivered>> /\ fw = "up" /\ c2m # <<>>
      BY <1>9 DEF PumpLinkRx
    <2>2. CASE f.type = "RESET"
      <3>1. rx_ring' = <<>> /\ fw' = "reset" /\ conn_reset' = conn_reset
        BY <1>9, <2>2 DEF PumpLinkRx, HandleReset
      <3>2. QED
        BY <1>7, <2>1, <3>1
    <2>3. CASE f.type # "RESET" /\ ~room
      <3>1. rx_ring' = <<>> /\ conn_reset'
        BY <1>9, <2>3 DEF PumpLinkRx, HandleDataC2m
      <3>2. QED
        BY <1>7, <2>1, <3>1
    <2>4. CASE f.type # "RESET" /\ room /\ Verdict(f) = "duplicate"
      <3>1. UNCHANGED <<rx_ring, rx_seq_expected, fw>> /\ conn_reset' = conn_reset
        BY <1>9, <2>4 DEF PumpLinkRx, HandleDataC2m, TypeOK
      <3>2. QED
        BY <1>1, <2>1, <3>1
    <2>5. CASE f.type # "RESET" /\ room /\ Verdict(f) = "accept"
      <3>1. /\ f.seq = rx_seq_expected /\ f = outstanding /\ outstanding # NoFrame
            /\ Succ(rx_seq_expected) = rx_seq_expected + 1 /\ f.payload \in Seq(Byte)
        BY <2>1, <2>5, VerdictFacts
      <3>2. /\ rx_ring' = rx_ring \o f.payload /\ rx_seq_expected' = rx_seq_expected + 1
            /\ fw' = fw /\ conn_reset' = conn_reset
        BY <1>9, <2>5, <3>1 DEF PumpLinkRx, HandleDataC2m, TypeOK
      <3> DEFINE len == Len(f.payload)
      <3>3. /\ Len(rx_ring') = Len(rx_ring) + len /\ len \in Nat
            /\ \A i \in 1..Len(rx_ring) : rx_ring'[i] = rx_ring[i]
            /\ \A i \in 1..len : rx_ring'[Len(rx_ring) + i] = f.payload[i]
        <4>1. rx_ring \in Seq(Byte)
          BY DEF TypeOK
        <4>2. QED
          BY <3>1, <3>2, <4>1, ConcatFacts
      <3>4. Fresh /\ ~Fresh'
        <4>1. outstanding.seq = rx_seq_expected /\ outstanding' = outstanding
          BY <2>1, <3>1
        <4>2. rx_seq_expected' # rx_seq_expected
          BY <3>2, NumFacts
        <4> HIDE DEF f, room
        <4>3. QED
          BY <3>1, <4>1, <4>2 DEF Fresh
      <3>5. /\ ~conn_reset => Taken = Released
            /\ \A i \in 1..len : f.payload[i] = Released + i
        BY <2>1, <3>1, <3>4 DEF DataInv, TakenInv, PayloadInv
      <3> HIDE DEF len, f
      <3>6. Released' = Released /\ Taken' = Taken + len
        <4>1. Released' = Released
          BY <2>1 DEF Released
        <4>2. Len(delivered') = Len(delivered)
          BY <2>1
        <4>3. Taken' = Taken + len
          BY <1>0, <4>2, <3>3 DEF Taken
        <4>4. QED
          BY <4>1, <4>3
      <3>7. TakenInv'
        BY <2>1, <3>1, <3>2, <3>4, <3>5, <3>6 DEF TakenInv, len
      <3>8. PendingInv' /\ PayloadInv'
        BY <2>1, <3>6 DEF DataInv, PendingInv, PayloadInv
      <3>9. ASSUME ~conn_reset, NEW i \in 1..Len(rx_ring')
            PROVE  rx_ring'[i] = Len(delivered) + i
        <4>1. CASE i \in 1..Len(rx_ring)
          BY <3>3, <3>9, <4>1 DEF InOrderOnce
        <4>2. CASE i > Len(rx_ring)
          <5>1. i - Len(rx_ring) \in 1..len /\ i = Len(rx_ring) + (i - Len(rx_ring))
            BY <1>0, <3>3, <4>2
          <5>2. rx_ring'[i] = f.payload[i - Len(rx_ring)]
            BY <3>3, <5>1
          <5>3. f.payload[i - Len(rx_ring)] = Taken + (i - Len(rx_ring))
            BY <3>5, <3>9, <5>1
          <5>4. QED
            BY <1>0, <5>2, <5>3 DEF Taken
        <4>3. QED
          BY <1>0, <4>1, <4>2
      <3>10. InOrderOnce'
        BY <2>1, <3>2, <3>9 DEF InOrderOnce
      <3>11. QED
        BY <3>7, <3>8, <3>10 DEF DataInv
    <2>6. QED
      BY <2>1, <2>2, <2>3, <2>4, <2>5, VerdictFacts
  <1>10. QED
    BY <1>2, <1>3, <1>4, <1>5, <1>6, <1>8, <1>9 DEF Next

\* handle_data_c2m never finds a reason to raise an error.
LEMMA ErrorNext ==
    ASSUME TypeOK, SeqInv, AckInv, NoFlowError, [Next]_vars
    PROVE  NoFlowError'
  <1> USE DEF bridgeVars, fwVars, NoFlowError
  <1>1. CASE PumpLinkRx
    <2>1. CASE Head(c2m).type = "RESET"
      BY <1>1, <2>1 DEF PumpLinkRx, HandleReset
    <2>2. CASE Head(c2m).type # "RESET"
      <3>1. Verdict(Head(c2m)) \notin Codes
        BY <1>1, <2>2, VerdictFacts DEF PumpLinkRx, Codes
      <3>2. raised' = raised \cup (Codes \cap {Verdict(Head(c2m))})
        BY <1>1, <2>2 DEF PumpLinkRx, HandleDataC2m
      <3>3. QED
        BY <3>1, <3>2
    <2>3. QED
      BY <2>1, <2>2
  <1>2. CASE ~PumpLinkRx
    BY <1>2 DEF Next, vars, TcpRead, TcpEof, SendData, SequenceExhausted, Retransmit,
                Recalibrate, BridgeReceive, BridgeDecodeError, LoseC2m, PumpServer,
                PumpServerReject, PumpLinkTx
  <1>3. QED
    BY <1>1, <1>2

LEMMA IInvInit == Init => IInv
  <1> SUFFICES ASSUME Init PROVE IInv
    OBVIOUS
  <1>1. TypeOK
    BY TypeInit
  <1>2. SeqInv
    BY SizesAssumption DEF Init, SeqInv, SeqAgree, WireInv, WireOrder
  <1>3. Transit = 0 /\ Free = RxCap
    BY SizesAssumption DEF Init, Transit, Free
  <1>4. AckInv
    BY <1>3, SizesAssumption DEF Init, AckInv, AckBound, RoomInv, CreditInv
  <1>5. DataInv
    <2>1. Len(pending_tcp) = 0 /\ Len(rx_ring) = 0 /\ Len(delivered) = 0
      BY DEF Init
    <2>2. tcp_read = 0 /\ Released = 0 /\ Taken = 0 /\ Fresh
      <3>1. tcp_read = 0 /\ outstanding = NoFrame
        BY DEF Init
      <3>2. Released = 0 /\ Taken = 0
        BY <2>1, <3>1 DEF Released, Taken
      <3>3. QED
        BY <3>1, <3>2 DEF Fresh
    <2>3. PendingInv
      BY <2>1, <2>2 DEF PendingInv
    <2>4. PayloadInv
      BY DEF Init, PayloadInv
    <2>5. TakenInv
      BY <2>2 DEF TakenInv
    <2>6. QED
      BY <2>3, <2>4, <2>5 DEF DataInv
  <1>6. InOrderOnce /\ NoFlowError
    BY DEF Init, InOrderOnce, NoFlowError
  <1>7. QED
    BY <1>1, <1>2, <1>4, <1>5, <1>6 DEF IInv

\* The inductive invariant holds in every reachable state: sender, wire and
\* receiver agree on sequence numbers, credit and the place of every byte.
THEOREM Invariance == Spec => []IInv
  <1>1. IInv /\ [Next]_vars => IInv'
    BY TypeNext, SeqNext, AckNext, DataNext, ErrorNext DEF IInv
  <1>2. QED
    BY <1>1, IInvInit, PTL DEF Spec

\* Exactly-once, in-order delivery of the client's bytes to the server.
THEOREM InOrderOnceHolds == Spec => []InOrderOnce
  BY Invariance, PTL DEF IInv

\* The firmware never raises SEQUENCE, BAD_LENGTH or RX_OVERFLOW against the
\* bridge.
THEOREM NoFlowErrorHolds == Spec => []NoFlowError
  BY Invariance, PTL DEF IInv

\* The bridge releases only bytes that the firmware has taken.
THEOREM ReleasedOnlyIfTakenHolds == Spec => []ReleasedOnlyIfTaken
  <1>1. IInv => ReleasedOnlyIfTaken
    <2> SUFFICES ASSUME IInv, fw = "up", ~conn_reset PROVE Released <= Taken
      BY DEF ReleasedOnlyIfTaken
    <2>1. Taken = IF Fresh THEN Released ELSE Released + Len(outstanding.payload)
      BY DEF IInv, DataInv, TakenInv
    <2>2. ~Fresh => Len(outstanding.payload) \in Nat
      BY AckFacts DEF IInv, Fresh
    <2>3. Released \in Int
      BY NumFacts DEF IInv, Released
    <2>4. QED
      BY <2>1, <2>2, <2>3
  <1>2. QED
    BY <1>1, Invariance, PTL

\* The credit an idle sender holds fits into the RX ring.
THEOREM CreditCoveredHolds == Spec => []CreditCovered
  <1>1. IInv => CreditCovered
    BY DEF IInv, AckInv, RoomInv, Free, CreditCovered
  <1>2. QED
    BY <1>1, Invariance, PTL

-----------------------------------------------------------------------------
(* Refinement of ReliableStream.                                           *)

\* pump_server hands over the next bytes of the stream, or the connection
\* was dropped before.
LEMMA DeliverStep ==
    ASSUME IInv, IInv', PumpServer
    PROVE  Stream!Deliver \/ Stream!AfterBreak
  <1> USE DEF bridgeVars, fwVars
  <1> DEFINE n == Lesser(Len(rx_ring), RxBudget)
  <1>0. TypeOK /\ fw = "up"
    BY DEF IInv, PumpServer
  <1>1. /\ delivered' = delivered \o Take(rx_ring, n) /\ n > 0
        /\ UNCHANGED <<tcp_read, conn_reset>>
    BY DEF PumpServer
  <1>2. n \in 1..Len(rx_ring) /\ Len(rx_ring) \in Nat /\ Len(delivered) \in Nat
    BY <1>0, <1>1, SizesAssumption DEF TypeOK, Lesser
  <1> HIDE DEF n
  <1>3. CASE conn_reset
    BY <1>1, <1>3 DEF Stream!AfterBreak
  <1>4. CASE ~conn_reset
    <2>1. Len(delivered) + Len(rx_ring) <= tcp_read
      <3>1. Taken = IF Fresh THEN Released ELSE Released + Len(outstanding.payload)
        BY <1>0, <1>4 DEF IInv, DataInv, TakenInv
      <3>2. Released \in Int /\ tcp_read \in Nat /\ Len(pending_tcp) \in Nat
        BY <1>0, NumFacts DEF Released
      <3>3. ~Fresh => Len(outstanding.payload) \in Nat
                      /\ Len(outstanding.payload) <= Len(pending_tcp)
        BY <1>0, AckFacts DEF Fresh, IInv, DataInv, PayloadInv
      <3>4. Released <= tcp_read /\ Released + Len(pending_tcp) = tcp_read
        BY <3>2 DEF Released
      <3>5. Taken <= tcp_read
        BY <3>1, <3>2, <3>3, <3>4
      <3>6. QED
        BY <3>5 DEF Taken
    <2>2. tcp_read \in Nat
      BY <1>0, NumFacts
    <2>3. n \in 1..(tcp_read - Len(delivered))
      BY <1>2, <2>1, <2>2
    <2>4. Take(rx_ring, n) = Stream!Slice(Len(delivered), n)
      <3>1. \A i \in 1..n : rx_ring[i] = Len(delivered) + i
        BY <1>2, <1>4 DEF IInv, InOrderOnce
      <3>2. QED
        BY <3>1 DEF Take, Stream!Slice
    <2>5. QED
      BY <1>1, <1>4, <2>3, <2>4 DEF Stream!Deliver
  <1>5. QED
    BY <1>3, <1>4

LEMMA StreamStep ==
    ASSUME IInv, IInv', [Next]_vars
    PROVE  [Stream!Next]_(Stream!vars)
  <1> USE DEF bridgeVars, fwVars
  <1>1. CASE TcpRead
    <2>1. PICK n \in 1..(StreamLen - tcp_read) : tcp_read' = tcp_read + n
      BY <1>1 DEF TcpRead
    <2>2. tcp_read \in Nat
      BY NumFacts DEF IInv
    <2>3. UNCHANGED <<delivered, conn_reset>>
      BY <1>1 DEF TcpRead
    <2>4. n \in Nat \ {0}
      BY <2>1, <2>2, SizesAssumption
    <2>5. tcp_read' \in Nat /\ tcp_read' > tcp_read
      BY <2>1, <2>2, <2>4
    <2>6. QED
      BY <2>3, <2>5 DEF Stream!Send, Stream!Next
  <1>2. CASE PumpServer
    BY <1>2, DeliverStep DEF Stream!Next
  <1>3. ASSUME UNCHANGED <<tcp_read, delivered>>, conn_reset' = conn_reset \/ conn_reset' = TRUE
        PROVE  [Stream!Next]_(Stream!vars)
    BY <1>3 DEF Stream!Break, Stream!Next, Stream!vars
  <1>4. CASE PumpLinkRx
    <2>1. UNCHANGED <<tcp_read, delivered>>
      BY <1>4 DEF PumpLinkRx
    <2>2. CASE Head(c2m).type = "RESET"
      BY <1>3, <1>4, <2>1, <2>2 DEF PumpLinkRx, HandleReset
    <2>3. CASE Head(c2m).type # "RESET"
      <3>1. conn_reset' = conn_reset \/ conn_reset' = TRUE
        BY <1>4, <2>3 DEF PumpLinkRx, HandleDataC2m, IInv, TypeOK
      <3>2. QED
        BY <1>3, <2>1, <3>1
    <2>4. QED
      BY <2>2, <2>3
  <1>5. CASE PumpServerReject
    BY <1>3, <1>5 DEF PumpServerReject
  <1>6. CASE TcpEof \/ SendData \/ SequenceExhausted \/ Retransmit \/ Recalibrate
             \/ BridgeReceive \/ BridgeDecodeError \/ LoseC2m \/ PumpLinkTx \/ UNCHANGED vars
    BY <1>3, <1>6 DEF TcpEof, SendData, SequenceExhausted, Retransmit, Recalibrate,
                      BridgeReceive, BridgeDecodeError, LoseC2m, PumpLinkTx, vars
  <1>7. QED
    BY <1>1, <1>2, <1>4, <1>5, <1>6 DEF Next

\* The C2M half of the link implements the reliable byte stream of
\* ReliableStream, for every instance.
THEOREM Refinement == Spec => ImplementsReliableStream
  <1>1. Init => Stream!Init
    BY DEF Init, Stream!Init
  <1>2. IInv /\ IInv' /\ [Next]_vars => [Stream!Next]_(Stream!vars)
    BY StreamStep
  <1>3. QED
    BY <1>1, <1>2, Invariance, PTL DEF Spec, ImplementsReliableStream, Stream!Spec
=============================================================================
