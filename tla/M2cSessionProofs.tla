-------------------------- MODULE M2cSessionProofs --------------------------
(***************************************************************************)
(* The link reset separates one client from the next: what reaches a       *)
(* client was said in its own link session, for every size of the queues,  *)
(* of the wires and of the sequence numbers, as long as the bridge, whose  *)
(* RESET numbers begin again at 1, has not been started again.             *)
(***************************************************************************)
EXTENDS M2cLinkProofs

-----------------------------------------------------------------------------
(* The invariant.                                                          *)

\* The bridge has counted all the RESETs that were ever sent.
FirstRun == next_reset_seq = resets + 1

\* What is on its way to the bridge and cannot be called back, except for a
\* frame in link_pending of which nothing was written.
Line == uart \o Unsent(pending)

\* Units and bytes by what they carry: a DATA_M2C, no RESET_ACK but for the
\* RESETs A, and of those no DATA_M2C; the words of link session l.
DataUnit == {u \in Unit : u.frame.type = "DATA_M2C"}
AckIn(A) == {u \in Unit : u.frame.type = "RESET_ACK" => u.frame.seq \in A}
ControlUnit(A) == {u \in AckIn(A) : u.frame.type # "DATA_M2C"}
ByteOf(l) == {b \in Byte : b.link = l}
UnitOfLink(l) == {u \in Unit : u.frame.type = "DATA_M2C" => u.frame.data \in Seq(ByteOf(l))}

\* Requests of the bridge: no RESET but those of A; only probes and the data
\* of link session l.
ResetIn(A) == {f \in C2mFrame : f.type = "RESET" => f.seq \in A}
Probes == {f \in C2mFrame : f.type = "RATE_PROBE"}
RequestOf(l) == {f \in C2mFrame : \/ f.type = "RATE_PROBE"
                                  \/ f.type = "DATA_C2M" /\ f.link = l}

\* The RESETs that were sent, and those of them the bridge does not wait for.
Known == {k \in Nat : k < next_reset_seq}
Others == {k \in Known : k # reset_seq}

\* The control queue holds frames of the set C, the data queue of the set D.
Within(s, C, D) == s \in Session /\ s.control_tx \in Seq(C) /\ s.tx \in Seq(D)

Numbered ==
    /\ c2m \in Seq(ResetIn(Known)) /\ Line \in Seq(AckIn(Known))
    /\ session.control_tx \in Seq(ControlUnit(Known))
    /\ phase \in {"wait", "cal", "run"} => reset_seq = resets /\ link = resets

\* The data queue holds nothing but the rest of a frame that has begun.
OnlyTail(s) == s.tx # <<>> => s.active = "DATA" /\ s.remaining = Len(s.tx)

\* Nobody has spoken to the server since the reset.
Quiet == tx_ring = <<>> /\ rx = NoRx /\ server = FreshServer

\* The RESET of the bridge is lost or the last frame of those under way, and
\* no RESET_ACK is its own.
Asked ==
    /\ saw_reset_ack = FALSE /\ Line \in Seq(AckIn(Others))
    /\ session.control_tx \in Seq(ControlUnit(Others))
    /\ \A i \in 1..(Len(c2m) - 1) : c2m[i] \in ResetIn(Others)

\* The firmware has handled it and counts from 0 again.  Of the data queue it
\* kept the rest of a frame that had begun, which leaves before the RESET_ACK.
NoDataBehindAck(q) ==
    \A i, j \in 1..Len(q) : i < j /\ q[i] \notin AckIn(Others) => q[j] \in ControlUnit(Nat)
Answered ==
    /\ Quiet /\ c2m = <<>> /\ OnlyTail(session) /\ session.tx_seq_next = 0
    /\ \/ saw_reset_ack = FALSE /\ Line \in Seq(AckIn(Others))
       \/ saw_reset_ack = FALSE /\ session.tx = <<>> /\ NoDataBehindAck(Line)
       \/ session.tx = <<>> /\ Line \in Seq(ControlUnit(Nat))

\* During calibration nobody speaks to the server.
Calibrating ==
    /\ Quiet /\ session.tx = <<>> /\ session.tx_seq_next = 0
    /\ Line \in Seq(ControlUnit(Nat)) /\ c2m \in Seq(Probes)

\* Then all that comes belongs to this link session.
Running ==
    /\ c2m \in Seq(RequestOf(link))
    /\ rx # NoRx => rx.link = link
    /\ server.link \in {0, link}
    /\ tx_ring \in Seq(ByteOf(link))
    /\ session.tx \in Seq(UnitOfLink(link)) /\ Line \in Seq(UnitOfLink(link))

\* What holds of the first bridge that sends a RESET.
FirstInv ==
    /\ Numbered /\ tcp \in Seq(ByteOf(link))
    /\ phase = "wait" => Asked \/ Answered
    /\ phase = "cal" => Calibrating
    /\ phase = "run" => Running

SessionInv ==
    /\ next_reset_seq \in 1..(resets + 1)
    /\ Within(session, ControlUnit(Nat), DataUnit)
    /\ FirstRun => FirstInv

-----------------------------------------------------------------------------
(* Sequences.                                                              *)

LEMMA Elements ==
    ASSUME NEW S, NEW T, NEW q \in Seq(S), \A i \in 1..Len(q) : q[i] \in T
    PROVE  q \in Seq(T)
  OBVIOUS

LEMMA Regroup ==
    \A q, r, t \in Seq(Unit) : (q \o r) \o t = q \o (r \o t)
<1> SUFFICES ASSUME NEW q \in Seq(Unit), NEW r \in Seq(Unit), NEW t \in Seq(Unit)
             PROVE  (q \o r) \o t = q \o (r \o t)
  OBVIOUS
<1> QED
  BY ConcatAssociative

LEMMA TakeDrop ==
    ASSUME NEW S, NEW q \in Seq(S), NEW n \in 0..Len(q)
    PROVE  SubSeq(q, 1, n) \o Drop(q, n) = q
<1>1. /\ 1 \in 1..(Len(q) + 1) /\ n \in (1 - 1)..Len(q) /\ Len(q) \in n..Len(q)
  OBVIOUS
<1>2. SubSeq(q, 1, n) \o SubSeq(q, n + 1, Len(q)) = SubSeq(q, 1, Len(q))
  BY <1>1, ConcatAdjacentSubSeq
<1> QED
  BY <1>2, SubSeqFull DEF Drop

\* Dropping no more than the first part.
LEMMA DropConcat ==
    ASSUME NEW S, NEW q \in Seq(S), NEW r \in Seq(S), NEW n \in 0..Len(q)
    PROVE  Drop(q \o r, n) = Drop(q, n) \o r
<1> DEFINE w == q \o r
           d == Drop(q, n)
           a == Drop(w, n)
           b == d \o r
<1>1. /\ w \in Seq(S) /\ Len(w) = Len(q) + Len(r) /\ Len(q) \in Nat /\ Len(r) \in Nat
      /\ \A i \in 1..Len(q) : w[i] = q[i] /\ \A j \in 1..Len(r) : w[Len(q) + j] = r[j]
  BY ConcatFacts
<1>2. d \in Seq(S) /\ Len(d) = Len(q) - n /\ \A i \in 1..(Len(q) - n) : d[i] = q[n + i]
  BY DropFacts
<1>3. \A j \in 1..Len(r) : w[Len(q) + j] = r[j]
  BY ConcatFacts
<1> HIDE DEF w, d
<1>4. n \in 0..Len(w) /\ w \in Seq(S)
  BY <1>1
<1>5. a \in Seq(S) /\ Len(a) = Len(w) - n /\ \A i \in 1..(Len(w) - n) : a[i] = w[n + i]
  BY <1>4, DropFacts
<1>6. /\ b \in Seq(S) /\ Len(b) = Len(d) + Len(r) /\ \A i \in 1..Len(d) : b[i] = d[i]
  BY <1>2, ConcatFacts
<1>7. \A j \in 1..Len(r) : b[Len(d) + j] = r[j]
  BY <1>2, ConcatFacts
<1> HIDE DEF a, b
<1>8. Len(a) = Len(b) /\ Len(a) = (Len(q) - n) + Len(r)
  BY <1>1, <1>2, <1>5, <1>6
<1>9. ASSUME NEW i \in 1..Len(a) PROVE a[i] = b[i]
  <2>1. i \in 1..(Len(w) - n) /\ a[i] = w[n + i]
    BY <1>5
  <2>2. CASE i <= Len(q) - n
    <3>1. i \in 1..(Len(q) - n) /\ n + i \in 1..Len(q) /\ i \in 1..Len(d)
      BY <1>1, <1>2, <1>8, <2>2
    <3>2. w[n + i] = q[n + i]
      BY <3>1, ConcatFacts DEF w
    <3> QED
      BY <1>2, <1>6, <2>1, <3>1, <3>2
  <2>3. CASE ~(i <= Len(q) - n)
    <3> DEFINE j == i - (Len(q) - n)
    <3>1. j \in 1..Len(r) /\ n + i = Len(q) + j /\ i = Len(d) + j
      BY <1>1, <1>2, <1>8, <2>3
    <3> HIDE DEF j
    <3> QED
      BY <1>3, <1>7, <2>1, <3>1
  <2> QED
    BY <2>2, <2>3
<1> QED
  BY <1>5, <1>6, <1>8, <1>9, SeqEqual DEF a, b, w, d

LEMMA ConcatSplit ==
    ASSUME NEW S, NEW q \in Seq(S), NEW r \in Seq(S), NEW T, q \o r \in Seq(T)
    PROVE  q \in Seq(T) /\ r \in Seq(T)
<1> DEFINE w == q \o r
<1>1. /\ Len(w) = Len(q) + Len(r) /\ Len(q) \in Nat /\ Len(r) \in Nat
      /\ \A i \in 1..Len(q) : w[i] = q[i]
  BY ConcatFacts
<1>2. \A i \in 1..Len(r) : w[Len(q) + i] = r[i]
  BY ConcatFacts
<1>3. w \in Seq(T)
  OBVIOUS
<1> HIDE DEF w
<1>4. \A i \in 1..Len(w) : w[i] \in T
  BY <1>3
<1>5. ASSUME NEW i \in 1..Len(q) PROVE q[i] \in T
  <2>1. i \in 1..Len(w)
    BY <1>1
  <2> QED
    BY <1>1, <1>4, <2>1
<1>6. ASSUME NEW i \in 1..Len(r) PROVE r[i] \in T
  <2> DEFINE j == Len(q) + i
  <2>1. j \in 1..Len(w)
    BY <1>1
  <2>2. w[j] = r[i]
    BY <1>2
  <2> HIDE DEF j
  <2> QED
    BY <1>4, <2>1, <2>2
<1> QED
  BY <1>5, <1>6, Elements

-----------------------------------------------------------------------------
(* The line to the bridge.                                                 *)

LEMMA LineFacts ==
    ASSUME LinkInv
    PROVE  /\ uart \in Seq(Unit) /\ Unsent(pending) \in Seq(Unit) /\ Line \in Seq(Unit)
           /\ \A S : Line \in Seq(S) <=> uart \in Seq(S) /\ Unsent(pending) \in Seq(S)
<1>1. uart \in Seq(Unit) /\ Unsent(pending) \in Seq(Unit)
  BY UnsentFacts DEF LinkInv, WireTypes, WireInv, Steady
<1>2. Line \in Seq(Unit)
  BY <1>1, ConcatFacts DEF Line
<1>3. ASSUME NEW S, Line \in Seq(S) PROVE uart \in Seq(S) /\ Unsent(pending) \in Seq(S)
  BY <1>1, <1>3, ConcatSplit DEF Line
<1>4. ASSUME NEW S, uart \in Seq(S), Unsent(pending) \in Seq(S) PROVE Line \in Seq(S)
  BY <1>4, ConcatFacts DEF Line
<1> QED
  BY <1>1, <1>2, <1>3, <1>4

\* The bridge reads, or loses, the first units.
LEMMA LineRead ==
    ASSUME LinkInv, NEW k \in 0..Len(uart), uart' = Drop(uart, k), pending' = pending
    PROVE  Line' = Drop(Line, k) /\ k \in 0..Len(Line)
<1>1. uart \in Seq(Unit) /\ Unsent(pending) \in Seq(Unit)
  BY LineFacts
<1>2. Drop(Line, k) = Drop(uart, k) \o Unsent(pending)
  BY <1>1, DropConcat DEF Line
<1>3. Unsent(pending)' = Unsent(pending)
  BY DEF Unsent
<1>4. Len(Line) = Len(uart) + Len(Unsent(pending)) /\ Len(uart) \in Nat /\ Len(Unsent(pending)) \in Nat
  BY <1>1, ConcatFacts DEF Line
<1> QED
  BY <1>2, <1>3, <1>4 DEF Line

\* pump_link_tx moves units along the line and appends what it reads.
LEMMA LineWritten ==
    ASSUME LinkInv, PumpLinkTx
    PROVE  \/ Line' = Line /\ UNCHANGED <<session, tx_ring>>
           \/ LET r == mc_link_session_read_tx(mc_link_session_queue_server_tx) IN
              /\ Line' = Line \o r.buf /\ session' = r.s
              /\ tx_ring' = IF CanQueueServerTx THEN Drop(tx_ring, Len(ServerFrame.data)) ELSE tx_ring
<1> DEFINE r == mc_link_session_read_tx(mc_link_session_queue_server_tx)
           left == Unsent(pending)
<1>1. /\ FirmwareTypes /\ WireInv /\ uart \in Seq(Unit) /\ left \in Seq(Unit)
      /\ PendingOK(pending) /\ last \in Unit
  BY LineFacts DEF LinkInv, WireInv, Steady
<1>2. ASSUME NEW n \in 0..Len(left), Written(SubSeq(left, 1, n)),
             pending' = IF n = Len(left) THEN Empty ELSE [pending EXCEPT !.pos = @ + n]
      PROVE  Line' = Line
  <2> DEFINE a == SubSeq(left, 1, n)
             b == Drop(left, n)
  <2>1. Unsent(pending') = b
    BY <1>1, <1>2, PendingWritten
  <2>2. uart' = uart \o a
    BY <1>2 DEF Written
  <2>3. a \in Seq(Unit) /\ b \in Seq(Unit) /\ a \o b = left
    BY <1>1, TakeFacts, DropFacts, TakeDrop
  <2>4. Line' = uart' \o Unsent(pending')
    BY DEF Line, Unsent
  <2> HIDE DEF a, b
  <2>5. (uart \o a) \o b = uart \o (a \o b)
    BY <1>1, <2>3, Regroup
  <2> QED
    BY <2>1, <2>2, <2>3, <2>4, <2>5 DEF Line
<1>3. r.buf \in Seq(Unit) /\ Len(r.buf) <= PendingCap
  <2>1. LastOf(last, left) \in Unit /\ Sound(session, LastOf(last, left))
    BY <1>1, LastOfFacts DEF WireInv, Steady
  <2>2. Sound(mc_link_session_queue_server_tx, LastOf(last, left))
    BY <1>1, <2>1, QueueServerTxSound
  <2> HIDE DEF left
  <2> QED
    BY <2>1, <2>2, ReadSound
<1> HIDE DEF r
<1>4. ASSUME NEW m \in 0..Len(r.buf), Written(left \o SubSeq(r.buf, 1, m)),
             pending' = IF m = Len(r.buf) THEN Empty ELSE [buf |-> r.buf, pos |-> m]
      PROVE  Line' = Line \o r.buf
  <2> DEFINE a == SubSeq(r.buf, 1, m)
             b == Drop(r.buf, m)
  <2>1. Unsent(pending') = b
    BY <1>3, <1>4, PendingRead
  <2>2. uart' = uart \o (left \o a)
    BY <1>4 DEF Written
  <2>3. a \in Seq(Unit) /\ b \in Seq(Unit) /\ a \o b = r.buf
    BY <1>3, TakeFacts, DropFacts, TakeDrop
  <2>4. Line' = uart' \o Unsent(pending') /\ Line = uart \o left
    BY DEF Line, Unsent
  <2> HIDE DEF a, b, left
  <2>5. uart \o (left \o a) = (uart \o left) \o a /\ uart \o left \in Seq(Unit)
    <3>1. uart \o (left \o a) = (uart \o left) \o a
      BY <1>1, <2>3, Regroup
    <3>2. uart \o left \in Seq(Unit)
      BY <1>1, ConcatFacts
    <3> QED
      BY <3>1, <3>2
  <2> DEFINE c == uart \o left
  <2> HIDE DEF c
  <2>6. (c \o a) \o b = c \o (a \o b)
    BY <2>3, <2>5, Regroup DEF c
  <2> QED
    BY <2>1, <2>2, <2>3, <2>4, <2>5, <2>6 DEF c
<1> QED
  BY <1>1, <1>2, <1>4, PumpLinkTxCases DEF r

-----------------------------------------------------------------------------
(* What the session's operations do with the contents of the queues.       *)

LEMMA EmptyWithin == \A S : <<>> \in Seq(S)
  OBVIOUS

LEMMA TruncateWithin ==
    ASSUME NEW S, NEW q \in Seq(S), NEW n \in Nat
    PROVE  truncate_ringbuf(q, n) \in Seq(S)
<1>1. Lesser(n, Len(q)) \in 0..Len(q)
  BY DEF Lesser
<1> DEFINE m == Lesser(n, Len(q))
<1> HIDE DEF m
<1>2. SubSeq(q, 1, m) \in Seq(S)
  BY <1>1, TakeFacts DEF m
<1> QED
  BY <1>2 DEF truncate_ringbuf, m

\* All of a control frame's units are in the set its frame is in.
Harmless(f, A) ==
    f \in Frame /\ f.type # "DATA_M2C" /\ (f.type = "RESET_ACK" => f.seq \in A)

LEMMA HarmlessUnits ==
    ASSUME NEW A, NEW f, Harmless(f, A)
    PROVE  Units(f) \in Seq(ControlUnit(A))
<1>1. /\ f \in Frame /\ Units(f) \in Seq(Unit) /\ Len(Units(f)) = f.len
      /\ \A i \in 1..f.len : Units(f)[i] = [frame |-> f, part |-> i]
  BY UnitsFacts DEF Harmless
<1> DEFINE us == Units(f)
<1> HIDE DEF us
<1>2. ASSUME NEW i \in 1..Len(us) PROVE us[i] \in ControlUnit(A)
  <2>1. us[i] \in Unit /\ us[i] = [frame |-> f, part |-> i]
    BY <1>1 DEF us
  <2> QED
    BY <2>1 DEF Harmless, ControlUnit, AckIn
<1>3. us \in Seq(ControlUnit(A))
  BY <1>1, <1>2, Elements DEF us
<1> QED
  BY <1>3 DEF us

LEMMA QueueWithin ==
    ASSUME NEW A, NEW D, NEW s, Within(s, ControlUnit(A), D), NEW f, Harmless(f, A)
    PROVE  LET t == queue_control_frame(s, f) IN
           /\ Within(t, ControlUnit(A), D)
           /\ t.tx = s.tx /\ t.active = s.active /\ t.remaining = s.remaining
<1> DEFINE t == queue_control_frame(s, f)
           w == s.control_tx \o Units(f)
<1>1. CASE ~CanQueue(s, f)
  BY <1>1 DEF queue_control_frame
<1>2. CASE CanQueue(s, f)
  <2>1. w \in Seq(ControlUnit(A))
    BY HarmlessUnits, ConcatFacts DEF Within
  <2>2. t = [s EXCEPT !.control_tx = w]
    BY <1>2 DEF queue_control_frame
  <2> HIDE DEF w, t
  <2>3. w \in Seq(Unit)
    <3>1. ControlUnit(A) \subseteq Unit
      BY DEF ControlUnit, AckIn
    <3> QED
      BY <2>1, <3>1, SeqMonotonic
  <2>4. /\ t.control_tx = w /\ t.tx = s.tx /\ t.active = s.active /\ t.remaining = s.remaining
        /\ t \in Session
    BY <2>2, <2>3 DEF Session, Within
  <2> QED
    BY <2>1, <2>4 DEF Within, t
<1> QED
  BY <1>1, <1>2

LEMMA ResetsWithin ==
    ASSUME NEW C, NEW D, NEW s, Within(s, C, D)
    PROVE  /\ Within(reset_link_state(s), C, D)
           /\ Within(reset_link_state_preserving_control_tx(s), C, D)
           /\ Within(mc_link_session_drop_queued_data(s), C, D)
<1>1. /\ s \in Session /\ s.remaining \in Nat /\ s.tx \in Seq(Unit) /\ s.control_tx \in Seq(Unit)
      /\ 0 \in 0..(SeqMod - 1)
  BY BoundFacts DEF Session, Within
<1>2. /\ KeptData(s) \in Seq(D) /\ KeptControl(s) \in Seq(C) /\ s.control_tx \in Seq(C)
      /\ KeptData(s) \in Seq(Unit) /\ KeptControl(s) \in Seq(Unit)
  BY <1>1, EmptyWithin, TruncateWithin DEF KeptData, KeptControl, Within
<1> DEFINE a == KeptData(s)
           b == KeptControl(s)
           t == mc_link_session_drop_queued_data(s)
           v == reset_link_state_preserving_control_tx(s)
           w == reset_link_state(s)
<1>3. t = [s EXCEPT !.tx = a]
  BY DEF mc_link_session_drop_queued_data, KeptData
<1>4. v = [s EXCEPT !.tx_seq_next = 0, !.rx_seq_expected = 0, !.tx = a]
  BY DEF reset_link_state_preserving_control_tx, KeptData
<1>5. w = [v EXCEPT !.control_tx = b]
  <2>1. v.control_tx = s.control_tx
    BY <1>1, <1>4 DEF Session
  <2> HIDE DEF v
  <2> QED
    BY <2>1 DEF reset_link_state, KeptControl, v
<1> HIDE DEF a, b, t, v, w
<1>6. t \in Session /\ t.tx = a /\ t.control_tx = s.control_tx
  BY <1>1, <1>2, <1>3 DEF Session, a
<1>7. v \in Session /\ v.tx = a /\ v.control_tx = s.control_tx
  BY <1>1, <1>2, <1>4 DEF Session, a
<1>8. w \in Session /\ w.tx = a /\ w.control_tx = b
  BY <1>2, <1>5, <1>7 DEF Session, b
<1> QED
  BY <1>2, <1>6, <1>7, <1>8 DEF Within, a, b, t, v, w

\* A link reset starts the DATA_M2C numbers again, the others keep count.
LEMMA ResetsCount ==
    ASSUME NEW s \in Session
    PROVE  /\ reset_link_state(s) \in Session /\ reset_link_state(s).tx_seq_next = 0
           /\ mc_link_session_drop_queued_data(s) \in Session
           /\ mc_link_session_drop_queued_data(s).tx_seq_next = s.tx_seq_next
<1>1. Within(s, Unit, Unit)
  BY DEF Within, Session
<1>2. reset_link_state(s) \in Session /\ mc_link_session_drop_queued_data(s) \in Session
  BY <1>1, ResetsWithin DEF Within
<1> DEFINE v == reset_link_state_preserving_control_tx(s)
<1>3. v = [s EXCEPT !.tx_seq_next = 0, !.rx_seq_expected = 0, !.tx = KeptData(s)]
  BY DEF reset_link_state_preserving_control_tx, KeptData
<1> HIDE DEF v
<1>4. v.tx_seq_next = 0 /\ v \in Session
  <2>1. v \in Session
    BY <1>1, ResetsWithin DEF Within, v
  <2> QED
    BY <1>3, <2>1 DEF Session
<1>5. reset_link_state(s).tx_seq_next = 0
  BY <1>4 DEF reset_link_state, v, Session
<1>6. mc_link_session_drop_queued_data(s) = [s EXCEPT !.tx = KeptData(s)]
  BY DEF mc_link_session_drop_queued_data, KeptData
<1>7. mc_link_session_drop_queued_data(s).tx_seq_next = s.tx_seq_next
  BY <1>6 DEF Session
<1> QED
  BY <1>2, <1>5, <1>7

\* Nor does a control frame change them, or the data queue.
LEMMA QueueCounts ==
    ASSUME NEW s \in Session, NEW f \in Frame
    PROVE  LET t == queue_control_frame(s, f) IN
           t \in Session /\ t.tx_seq_next = s.tx_seq_next /\ t.tx = s.tx
<1> DEFINE t == queue_control_frame(s, f)
           w == s.control_tx \o Units(f)
<1>1. w \in Seq(Unit)
  BY UnitsFacts, ConcatFacts DEF Session
<1>2. t \in {s, [s EXCEPT !.control_tx = w]}
  BY DEF queue_control_frame
<1> HIDE DEF t, w
<1>3. t \in Session /\ t.tx_seq_next = s.tx_seq_next /\ t.tx = s.tx
  BY <1>1, <1>2 DEF Session
<1> QED
  BY <1>3 DEF t

-----------------------------------------------------------------------------
(* What the receive and server pumps do with it.                           *)

\* At most they drop a frame of link_pending, and what the server had to say.
Lessens ==
    /\ pending' \in {pending, Empty} /\ tx_ring' \in {tx_ring, <<>>}
    /\ server' \in {server, FreshServer}

LEMMA ResetConnectionWithin ==
    ASSUME NEW C, NEW D, NEW s, Within(s, C, D), reset_connection(s)
    PROVE  Within(session', C, D) /\ Lessens /\ Quiet'
<1>1. Within(mc_link_session_drop_queued_data(s), C, D)
  BY ResetsWithin
<1> QED
  BY <1>1 DEF reset_connection, drop_stale_link_tx_data, dropped_pending, Lessens, Quiet

LEMMA HarmlessControl ==
    ASSUME NEW A, NEW type \in FrameTypes \ {"DATA_M2C"}, NEW seq \in Nat,
           type = "RESET_ACK" => seq \in A
    PROVE  Harmless(Control(type, seq), A)
<1>1. Control(type, seq) \in Frame
  BY ControlFacts
<1> QED
  BY <1>1 DEF Harmless, Control

LEMMA HandleResetWithin ==
    ASSUME NEW A, NEW D, Within(session, ControlUnit(A), D),
           NEW f \in C2mFrame, f.type = "RESET", f.seq \in A, HandleReset(f)
    PROVE  Within(session', ControlUnit(A), D) /\ Lessens /\ Quiet'
<1> DEFINE a == reset_link_state(session)
           b == queue_control_frame(a, Control("RESET_ACK", f.seq))
           c == queue_control_frame(b, Control("READY", 0))
<1>1. Harmless(Control("RESET_ACK", f.seq), A) /\ Harmless(Control("READY", 0), A)
  <2>1. f.seq \in Nat
    BY DEF C2mFrame
  <2> QED
    BY <2>1, HarmlessControl DEF FrameTypes
<1>2. reset_connection(c)
  BY DEF HandleReset
<1>3. Within(a, ControlUnit(A), D)
  BY ResetsWithin
<1> HIDE DEF a
<1>4. Within(b, ControlUnit(A), D)
  BY <1>1, <1>3, QueueWithin
<1> HIDE DEF b
<1>5. Within(c, ControlUnit(A), D)
  BY <1>1, <1>4, QueueWithin
<1> HIDE DEF c
<1> QED
  BY <1>2, <1>5, ResetConnectionWithin

LEMMA HandleHelloWithin ==
    ASSUME NEW A, NEW D, Within(session, ControlUnit(A), D), HandleHello
    PROVE  Within(session', ControlUnit(A), D) /\ Lessens /\ rx' = NoRx
<1> DEFINE a == reset_link_state(session)
<1>1. Harmless(Control("READY", 0), A)
  BY HarmlessControl DEF FrameTypes
<1>2. Within(a, ControlUnit(A), D)
  BY ResetsWithin
<1>3. session' = queue_control_frame(a, Control("READY", 0)) /\ Lessens /\ rx' = NoRx
  BY DEF HandleHello, Lessens
<1> HIDE DEF a
<1> QED
  BY <1>1, <1>2, <1>3, QueueWithin

LEMMA HandleDataC2mWithin ==
    ASSUME NEW A, NEW D, Within(session, ControlUnit(A), D), NEW f, HandleDataC2m(f)
    PROVE  Within(session', ControlUnit(A), D) /\ Lessens /\ rx' \in {NoRx, rx, f}
<1> DEFINE duplicate == f.seq = (session.rx_seq_expected - 1) % SeqMod
           k == (session.rx_seq_expected + 1) % SeqMod
           v == [session EXCEPT !.rx_seq_expected = k]
           s == IF duplicate THEN session ELSE v
           ack == Control("ACK_C2M", s.rx_seq_expected)
           err == queue_control_frame(session, Control("ERROR", 0))
<1>1. \/ ReceiveFailed(err) \/ ReceiveFailed(s)
      \/ /\ session' = queue_control_frame(s, ack) /\ rx' \in {rx, f}
         /\ UNCHANGED <<pending, tx_ring, server>>
  BY DEF HandleDataC2m
<1>2. Within(err, ControlUnit(A), D)
  BY HarmlessControl, QueueWithin DEF FrameTypes
<1>3. Within(v, ControlUnit(A), D)
  <2>1. session \in Session /\ session.rx_seq_expected \in 0..(SeqMod - 1)
    BY DEF Within, Session
  <2>2. k \in 0..(SeqMod - 1)
    BY <2>1, BoundFacts
  <2> HIDE DEF k
  <2>3. v \in Session /\ v.tx = session.tx /\ v.control_tx = session.control_tx
    BY <2>1, <2>2 DEF Session
  <2> QED
    BY <2>3 DEF Within
<1> HIDE DEF v, err
<1>4. Within(s, ControlUnit(A), D)
  BY <1>3
<1> HIDE DEF s
<1>5. Harmless(ack, A)
  <2>1. s.rx_seq_expected \in Nat
    BY <1>4, BoundFacts DEF Within, Session
  <2> QED
    BY <2>1, HarmlessControl DEF FrameTypes
<1> HIDE DEF ack
<1>6. Within(queue_control_frame(s, ack), ControlUnit(A), D)
  BY <1>4, <1>5, QueueWithin
<1>7. ASSUME ReceiveFailed(err) \/ ReceiveFailed(s)
      PROVE  Within(session', ControlUnit(A), D) /\ Lessens /\ rx' = NoRx
  BY <1>2, <1>4, <1>7, ResetConnectionWithin DEF ReceiveFailed, Quiet
<1> QED
  BY <1>1, <1>6, <1>7 DEF Lessens

LEMMA HandleRateProbeWithin ==
    ASSUME NEW A, NEW D, Within(session, ControlUnit(A), D),
           NEW f \in C2mFrame, f.type = "RATE_PROBE", HandleRateProbe(f)
    PROVE  Within(session', ControlUnit(A), D) /\ Lessens /\ rx' \in {NoRx, rx}
<1> DEFINE echo == Control("RATE_PROBE_ACK", f.seq)
<1>1. \/ ReceiveFailed(session)
      \/ /\ session' = queue_control_frame(session, echo)
         /\ UNCHANGED <<pending, tx_ring, rx, server>>
  BY DEF HandleRateProbe
<1>2. Harmless(echo, A)
  <2>1. f.seq \in Nat
    BY DEF C2mFrame
  <2> QED
    BY <2>1, HarmlessControl DEF FrameTypes
<1> HIDE DEF echo
<1>3. Within(queue_control_frame(session, echo), ControlUnit(A), D)
  BY <1>2, QueueWithin
<1>4. CASE ReceiveFailed(session)
  BY <1>4, ResetConnectionWithin DEF ReceiveFailed, Quiet
<1> QED
  BY <1>1, <1>3, <1>4 DEF Lessens

LEMMA RxWithin ==
    ASSUME LinkInv, PumpLinkRx, NEW A, NEW D, Within(session, ControlUnit(A), D),
           c2m # <<>> => Head(c2m) \in ResetIn(A)
    PROVE  /\ Within(session', ControlUnit(A), D) /\ Lessens
           /\ \/ UNCHANGED <<session, pending, tx_ring, rx, server, c2m>>
              \/ /\ c2m # <<>> /\ c2m' = Tail(c2m) /\ rx = NoRx
                 /\ rx' = NoRx \/ (rx' = Head(c2m) /\ Head(c2m).type = "DATA_C2M")
                 /\ Head(c2m).type = "RESET" => HandleReset(Head(c2m))
<1>1. CASE UNCHANGED <<session, pending, tx_ring, rx, server, c2m>>
  BY <1>1 DEF Lessens
<1>2. CASE /\ c2m # <<>> /\ rx = NoRx /\ c2m' = Tail(c2m)
           /\ IF Head(c2m).type = "RESET" THEN HandleReset(Head(c2m))
              ELSE IF Head(c2m).type = "HELLO" THEN HandleHello
              ELSE IF Head(c2m).type = "DATA_C2M" THEN HandleDataC2m(Head(c2m))
              ELSE HandleRateProbe(Head(c2m))
  <2> DEFINE f == Head(c2m)
  <2>1. f \in ResetIn(A) /\ f \in C2mFrame /\ f.type \in {"RESET", "HELLO", "DATA_C2M", "RATE_PROBE"}
    BY <1>2 DEF ResetIn, C2mFrame
  <2>2. CASE f.type = "RESET"
    BY <1>2, <2>1, <2>2, HandleResetWithin DEF ResetIn, Quiet
  <2>3. CASE f.type = "HELLO"
    BY <1>2, <2>1, <2>3, HandleHelloWithin
  <2>4. CASE f.type = "DATA_C2M"
    BY <1>2, <2>1, <2>4, HandleDataC2mWithin
  <2>5. CASE f.type = "RATE_PROBE"
    BY <1>2, <2>1, <2>5, HandleRateProbeWithin
  <2> QED
    BY <2>1, <2>2, <2>3, <2>4, <2>5
<1> QED
  BY <1>1, <1>2 DEF PumpLinkRx

\* Data and probes of the client leave what is under way to the bridge alone,
\* or fail the receive.
KeepsStream ==
    /\ session' \in Session /\ session'.tx_seq_next = session.tx_seq_next
    /\ \/ "restart" \in excuse'
       \/ /\ session'.tx = session.tx /\ UNCHANGED <<pending, tx_ring, server, excuse>>

LEMMA FailedStream ==
    ASSUME NEW s \in Session, s.tx_seq_next = session.tx_seq_next, ReceiveFailed(s)
    PROVE  KeepsStream
<1>1. session' = mc_link_session_drop_queued_data(s) /\ "restart" \in excuse'
  BY DEF ReceiveFailed, reset_connection, drop_stale_link_tx_data
<1> QED
  BY <1>1, ResetsCount DEF KeepsStream

LEMMA DataC2mStream ==
    ASSUME session \in Session, NEW f, HandleDataC2m(f)
    PROVE  KeepsStream
<1> DEFINE duplicate == f.seq = (session.rx_seq_expected - 1) % SeqMod
           k == (session.rx_seq_expected + 1) % SeqMod
           v == [session EXCEPT !.rx_seq_expected = k]
           s == IF duplicate THEN session ELSE v
           ack == Control("ACK_C2M", s.rx_seq_expected)
           err == queue_control_frame(session, Control("ERROR", 0))
<1>1. \/ ReceiveFailed(err) \/ ReceiveFailed(s)
      \/ session' = queue_control_frame(s, ack) /\ UNCHANGED <<pending, tx_ring, server, excuse>>
  BY DEF HandleDataC2m
<1>2. err \in Session /\ err.tx_seq_next = session.tx_seq_next
  <2>1. Control("ERROR", 0) \in Frame
    BY ControlFacts DEF FrameTypes
  <2> QED
    BY <2>1, QueueCounts
<1>3. v \in Session /\ v.tx_seq_next = session.tx_seq_next /\ v.tx = session.tx
  <2>1. session.rx_seq_expected \in 0..(SeqMod - 1)
    BY DEF Session
  <2>2. k \in 0..(SeqMod - 1)
    BY <2>1, BoundFacts
  <2> HIDE DEF k
  <2> QED
    BY <2>2 DEF Session
<1> HIDE DEF v, err
<1>4. s \in Session /\ s.tx_seq_next = session.tx_seq_next /\ s.tx = session.tx
  BY <1>3
<1> HIDE DEF s
<1>5. ack \in Frame
  <2>1. s.rx_seq_expected \in Nat
    BY <1>4, BoundFacts DEF Session
  <2> QED
    BY <2>1, ControlFacts DEF FrameTypes
<1> HIDE DEF ack
<1>6. LET t == queue_control_frame(s, ack) IN
      t \in Session /\ t.tx_seq_next = session.tx_seq_next /\ t.tx = session.tx
  BY <1>4, <1>5, QueueCounts
<1> QED
  BY <1>1, <1>2, <1>4, <1>6, FailedStream DEF KeepsStream

LEMMA RxStream ==
    ASSUME LinkInv, PumpLinkRx, c2m # <<>> => Head(c2m).type \in {"DATA_C2M", "RATE_PROBE"}
    PROVE  KeepsStream
<1>1. session \in Session /\ c2m \in Seq(C2mFrame)
  BY DEF LinkInv, WireTypes, WireInv, Steady, Sound, SessionOK
<1>2. CASE UNCHANGED <<session, pending, tx_ring, server, excuse>>
  BY <1>1, <1>2 DEF KeepsStream
<1>3. CASE c2m # <<>> /\ HandleDataC2m(Head(c2m))
  BY <1>1, <1>3, DataC2mStream
<1>4. CASE c2m # <<>> /\ Head(c2m).type = "RATE_PROBE" /\ HandleRateProbe(Head(c2m))
  <2> DEFINE f == Head(c2m)
             echo == Control("RATE_PROBE_ACK", f.seq)
  <2>1. \/ ReceiveFailed(session)
        \/ session' = queue_control_frame(session, echo) /\ UNCHANGED <<pending, tx_ring, server, excuse>>
    BY <1>4 DEF HandleRateProbe
  <2>2. echo \in Frame
    <3>1. f \in C2mFrame
      BY <1>1, <1>4, TailFacts
    <3>2. f.seq \in Nat
      BY <1>4, <3>1 DEF C2mFrame
    <3> QED
      BY <3>2, ControlFacts DEF FrameTypes
  <2> HIDE DEF echo
  <2> QED
    BY <1>1, <2>1, <2>2, FailedStream, QueueCounts DEF KeepsStream
<1> QED
  BY <1>2, <1>3, <1>4 DEF PumpLinkRx

\* The server says nothing that is not of link session l.
LEMMA ServerOutputWithin ==
    ASSUME NEW l, NEW ring \in Seq(ByteOf(l)), Len(ring) <= TxRingCap,
           NEW v \in [link : 0..MaxResets, out : 0..MaxOut], v.link \in {0, l}, ServerOutput(ring, v)
    PROVE  tx_ring' \in Seq(ByteOf(l)) /\ server'.link = v.link
<1>0. ring \in Seq(Byte)
  <2>1. ByteOf(l) \subseteq Byte
    BY DEF ByteOf
  <2> QED
    BY <2>1, SeqMonotonic
<1>1. CASE tx_ring' = ring /\ server' = v
  BY <1>1
<1>2. CASE v.link # 0 /\ \E n \in 1..Lesser(MaxOut - v.out, TxRingCap - Len(ring)) :
               /\ tx_ring' = ring \o [i \in 1..n |-> [link |-> v.link, i |-> v.out + i]]
               /\ server' = [v EXCEPT !.out = @ + n]
  <2>1. PICK n \in 1..Lesser(MaxOut - v.out, TxRingCap - Len(ring)) :
               /\ tx_ring' = ring \o [i \in 1..n |-> [link |-> v.link, i |-> v.out + i]]
               /\ server' = [v EXCEPT !.out = @ + n]
    BY <1>2
  <2>2. /\ v.link \in 1..MaxResets /\ v.out \in Nat /\ v.out <= MaxOut /\ Len(ring) \in Nat
        /\ MaxOut \in Nat /\ TxRingCap \in Nat /\ MaxResets \in Nat /\ v.link = l
    BY <1>0, <1>2, FreshFacts
  <2>3. n \in Nat /\ v.out + n <= MaxOut
    BY <2>2 DEF Lesser
  <2> DEFINE said == [i \in 1..n |-> [link |-> v.link, i |-> v.out + i]]
  <2>4. ASSUME NEW i \in 1..n PROVE [link |-> v.link, i |-> v.out + i] \in ByteOf(l)
    BY <2>2, <2>3 DEF Byte, ByteOf
  <2>5. said \in Seq(ByteOf(l))
    BY <2>3, <2>4
  <2> HIDE DEF said
  <2> QED
    BY <2>1, <2>5, ConcatFacts DEF said
<1> QED
  BY <1>1, <1>2 DEF ServerOutput

\* What the server has heard and what it says in link session l.
SpeaksFor(l) ==
    (rx # NoRx => rx.link = l) /\ server.link \in {0, l} /\ tx_ring \in Seq(ByteOf(l))

LEMMA ServerWithin ==
    ASSUME LinkInv, PumpServer, NEW A, NEW D, Within(session, ControlUnit(A), D)
    PROVE  /\ Within(session', ControlUnit(A), D) /\ pending' \in {pending, Empty} /\ rx' = NoRx
           /\ Quiet => Quiet' /\ UNCHANGED <<session, pending>>
           /\ \A l \in Nat : SpeaksFor(l) => SpeaksFor(l)'
<1>1. CASE rx # NoRx /\ ServerReject
  <2> DEFINE e == Control("ERROR", 0)
             a == queue_control_frame(session, e)
             b == reset_link_state_preserving_control_tx(a)
             c == queue_control_frame(b, Control("READY", 0))
             s == IF CanQueue(session, e) THEN c ELSE session
  <2>1. reset_connection(s)
    BY <1>1 DEF ServerReject
  <2>2. Harmless(e, A) /\ Harmless(Control("READY", 0), A)
    BY HarmlessControl DEF FrameTypes
  <2> HIDE DEF e
  <2>3. Within(a, ControlUnit(A), D)
    BY <2>2, QueueWithin
  <2> HIDE DEF a
  <2>4. Within(b, ControlUnit(A), D)
    BY <2>3, ResetsWithin
  <2> HIDE DEF b
  <2>5. Within(c, ControlUnit(A), D)
    BY <2>2, <2>4, QueueWithin
  <2> HIDE DEF c
  <2>6. Within(s, ControlUnit(A), D)
    BY <2>5
  <2> HIDE DEF s
  <2>7. Within(session', ControlUnit(A), D) /\ Lessens /\ Quiet'
    BY <2>1, <2>6, ResetConnectionWithin
  <2>8. ASSUME NEW l \in Nat PROVE SpeaksFor(l)'
    BY <2>7, EmptyWithin DEF SpeaksFor, Quiet, FreshServer
  <2> QED
    BY <1>1, <2>7, <2>8 DEF Quiet, Lessens
<1>2. CASE ServerReceive
  <2> DEFINE s == IF rx = NoRx THEN session
                  ELSE queue_control_frame(session, Control("ACK_C2M", 0))
             heard == IF rx # NoRx /\ server.link = 0 THEN [server EXCEPT !.link = rx.link]
                      ELSE server
  <2>1. rx' = NoRx
    BY <1>2 DEF ServerReceive
  <2>2. \/ rx # NoRx /\ drop_stale_link_tx_data(s) /\ ServerOutput(<<>>, heard)
        \/ session' = s /\ pending' = pending /\ ServerOutput(tx_ring, heard)
    BY <1>2 DEF ServerReceive
  <2>3. Within(s, ControlUnit(A), D)
    <3>1. Harmless(Control("ACK_C2M", 0), A)
      BY HarmlessControl DEF FrameTypes
    <3> QED
      BY <3>1, QueueWithin
  <2>4. /\ heard \in [link : 0..MaxResets, out : 0..MaxOut] /\ tx_ring \in Seq(Byte)
        /\ Len(tx_ring) <= TxRingCap /\ Len(<<>>) <= TxRingCap
    BY FreshFacts DEF LinkInv, FirmwareTypes
  <2>5. Within(session', ControlUnit(A), D) /\ pending' \in {pending, Empty}
    <3>1. Within(mc_link_session_drop_queued_data(s), ControlUnit(A), D)
      BY <2>3, ResetsWithin
    <3> HIDE DEF s
    <3> QED
      BY <2>2, <2>3, <3>1 DEF drop_stale_link_tx_data, dropped_pending
  <2>6. ASSUME Quiet PROVE Quiet' /\ UNCHANGED <<session, pending>>
    <3>1. rx = NoRx /\ s = session /\ heard = server /\ server.link = 0 /\ tx_ring = <<>>
          /\ server = FreshServer
      BY <2>6 DEF Quiet, FreshServer
    <3>2. session' = session /\ pending' = pending /\ ServerOutput(tx_ring, server)
      BY <2>2, <3>1
    <3> QED
      BY <2>1, <3>1, <3>2 DEF ServerOutput, Quiet
  <2>7. ASSUME NEW l \in Nat, SpeaksFor(l) PROVE SpeaksFor(l)'
    <3>1. heard.link \in {0, l}
      BY <2>7 DEF SpeaksFor, LinkInv, FirmwareTypes
    <3>2. ServerOutput(<<>>, heard) \/ ServerOutput(tx_ring, heard)
      BY <2>2
    <3>3. <<>> \in Seq(ByteOf(l)) /\ tx_ring \in Seq(ByteOf(l))
      BY <2>7 DEF SpeaksFor
    <3> HIDE DEF heard
    <3>4. tx_ring' \in Seq(ByteOf(l)) /\ server'.link = heard.link
      BY <2>4, <3>1, <3>2, <3>3, ServerOutputWithin
    <3> QED
      BY <2>1, <3>1, <3>4 DEF SpeaksFor
  <2> QED
    BY <2>1, <2>5, <2>6, <2>7
<1> QED
  BY <1>1, <1>2 DEF PumpServer

-----------------------------------------------------------------------------
(* What the transmit pump does with it.                                    *)

LEMMA ReadWithin ==
    ASSUME NEW s, NEW u \in Unit, Sound(s, u), NEW C, NEW D, Within(s, C, D)
    PROVE  LET r == mc_link_session_read_tx(s) IN
           /\ Within(r.s, C, D) /\ (r.buf \in Seq(C) \/ r.buf \in Seq(D))
           /\ r.s.tx_seq_next = s.tx_seq_next
           /\ \/ r.s.tx = s.tx /\ r.buf \in Seq(C)
              \/ \E n \in 0..Len(s.tx) : r.buf = SubSeq(s.tx, 1, n) /\ r.s.tx = Drop(s.tx, n)
           /\ s.tx = <<>> => r.s.tx = <<>> /\ r.buf \in Seq(C)
           /\ s.tx # <<>> /\ OnlyTail(s) => OnlyTail(r.s) /\ r.buf \in Seq(D)
<1> DEFINE a == Activated(s)
           n == Lesser(a.remaining, PendingCap)
           left == a.remaining - n
           act == IF left = 0 THEN "NONE" ELSE a.active
           b == [a EXCEPT !.remaining = left, !.active = act]
           r == mc_link_session_read_tx(s)
<1>0. PendingCap \in Nat /\ PendingCap >= 1
  BY LinkAssumption DEF LinkAssumption
<1>1. /\ Sound(a, u) /\ a.tx = s.tx /\ a.control_tx = s.control_tx
      /\ s.active # "NONE" => a = s
      /\ a.tx_seq_next = s.tx_seq_next
  BY ActivatedSound
<1>2. /\ a \in Session /\ s.tx \in Seq(Unit) /\ s.control_tx \in Seq(Unit) /\ a.remaining \in Nat
      /\ a.active \in {"NONE", "CONTROL", "DATA"} /\ s \in Session
      /\ s.tx \in Seq(D) /\ s.control_tx \in Seq(C)
  BY <1>1 DEF Sound, SessionOK, Session, Within
<1>3. Sound(r.s, LastOf(u, r.buf))
  BY ReadSound
<1>4. r.s \in Session
  BY <1>3 DEF Sound, SessionOK
<1>5. CASE a.active = "NONE"
  <2>1. r = [s |-> s, buf |-> <<>>]
    BY <1>5 DEF mc_link_session_read_tx
  <2> HIDE DEF r
  <2>2. r.s = s /\ r.buf = <<>>
    BY <2>1
  <2> QED
    BY <1>2, <2>2, EmptyWithin DEF Within, r
<1>6. CASE a.active = "CONTROL"
  <2>1. a.remaining \in 1..Len(s.control_tx)
    BY <1>1, <1>6 DEF Sound, SessionFramed, ActiveQueue
  <2>2. n \in 0..Len(s.control_tx)
    BY <1>0, <2>1 DEF Lesser
  <2>3. r = [s |-> [b EXCEPT !.control_tx = Drop(@, n)], buf |-> SubSeq(a.control_tx, 1, n)]
    BY <1>6 DEF mc_link_session_read_tx, ActiveQueue
  <2> HIDE DEF n, r
  <2>4. /\ r.s.tx = s.tx /\ r.s.control_tx = Drop(s.control_tx, n) /\ r.buf = SubSeq(s.control_tx, 1, n)
        /\ r.s.tx_seq_next = s.tx_seq_next
    BY <1>1, <1>2, <2>3 DEF Session
  <2>5. SubSeq(s.control_tx, 1, n) \in Seq(C) /\ Drop(s.control_tx, n) \in Seq(C)
    <3>1. SubSeq(s.control_tx, 1, n) \in Seq(C)
      BY <1>2, <2>2, TakeFacts
    <3>2. Drop(s.control_tx, n) \in Seq(C)
      BY <1>2, <2>2, DropFacts
    <3> QED
      BY <3>1, <3>2
  <2>6. s.tx # <<>> => ~OnlyTail(s)
    BY <1>1, <1>6 DEF OnlyTail
  <2> QED
    BY <1>2, <1>4, <2>4, <2>5, <2>6 DEF Within, r
<1>7. CASE a.active = "DATA"
  <2>1. a.remaining \in 1..Len(s.tx) /\ s.tx # <<>>
    BY <1>1, <1>2, <1>7 DEF Sound, SessionFramed, ActiveQueue
  <2>2. n \in 0..Len(s.tx) /\ n <= a.remaining /\ n \in Nat
    BY <1>0, <1>2, <2>1 DEF Lesser
  <2>3. r = [s |-> [b EXCEPT !.tx = Drop(@, n)], buf |-> SubSeq(a.tx, 1, n)]
    BY <1>7 DEF mc_link_session_read_tx, ActiveQueue
  <2> HIDE DEF n, r
  <2>4. /\ r.s.control_tx = s.control_tx /\ r.s.tx = Drop(s.tx, n) /\ r.buf = SubSeq(s.tx, 1, n)
        /\ r.s.remaining = left /\ r.s.active = act /\ r.s.tx_seq_next = s.tx_seq_next
    <3> HIDE DEF left, act
    <3> QED
      BY <1>1, <1>2, <2>3 DEF Session
  <2>5. SubSeq(s.tx, 1, n) \in Seq(D) /\ Drop(s.tx, n) \in Seq(D) /\ Len(Drop(s.tx, n)) = Len(s.tx) - n
    <3> DEFINE q == s.tx
    <3>0. q \in Seq(D) /\ n \in 0..Len(q)
      BY <1>2, <2>2
    <3> HIDE DEF q
    <3>1. SubSeq(q, 1, n) \in Seq(D)
      BY <3>0, TakeFacts
    <3>2. Drop(q, n) \in Seq(D) /\ Len(Drop(q, n)) = Len(q) - n
      BY <3>0, DropFacts
    <3> QED
      BY <3>1, <3>2 DEF q
  <2>6. ASSUME OnlyTail(s) PROVE OnlyTail(r.s)
    <3>1. s.active = "DATA" /\ s.remaining = Len(s.tx)
      BY <2>1, <2>6 DEF OnlyTail
    <3>2. a.remaining = Len(s.tx)
      BY <1>1, <3>1
    <3>3. left = Len(r.s.tx)
      BY <2>4, <2>5, <3>2
    <3>4. r.s.tx # <<>> => left # 0
      BY <2>4, <2>5, <3>3
    <3> QED
      BY <1>7, <2>4, <3>3, <3>4 DEF OnlyTail
  <2>7. \E k \in 0..Len(s.tx) : r.buf = SubSeq(s.tx, 1, k) /\ r.s.tx = Drop(s.tx, k)
    BY <2>2, <2>4
  <2>8. Within(r.s, C, D) /\ r.buf \in Seq(D)
    BY <1>2, <1>4, <2>4, <2>5 DEF Within, r
  <2> QED
    BY <2>1, <2>4, <2>6, <2>7, <2>8 DEF r
<1> QED
  BY <1>2, <1>5, <1>6, <1>7

\* What is appended to the line comes from one of the queues.
LEMMA TxWithin ==
    ASSUME LinkInv, PumpLinkTx, NEW C, NEW D, Within(session, C, D),
           tx_ring # <<>> => Units(ServerFrame) \in Seq(D)
    PROVE  /\ Within(session', C, D)
           /\ \A l : tx_ring \in Seq(ByteOf(l)) => tx_ring' \in Seq(ByteOf(l))
           /\ tx_ring = <<>> => tx_ring' = <<>> /\ session'.tx_seq_next = session.tx_seq_next
           /\ \E w :
                 /\ Line' = Line \o w /\ (w \in Seq(C) \/ w \in Seq(D))
                 /\ tx_ring = <<>> /\ session.tx = <<>> => session'.tx = <<>> /\ w \in Seq(C)
                 /\ tx_ring = <<>> /\ session.tx # <<>> /\ OnlyTail(session) =>
                       OnlyTail(session') /\ w \in Seq(D)
<1> DEFINE s == mc_link_session_queue_server_tx
           r == mc_link_session_read_tx(s)
           u == LastOf(last, Unsent(pending))
           k == Len(ServerFrame.data)
<1>1. /\ FirmwareTypes /\ Sound(session, u) /\ u \in Unit /\ SessionOK(session)
      /\ Line \in Seq(Unit)
  BY LineFacts, LastOfFacts DEF LinkInv, WireInv, Steady, Sound
<1>2. Sound(s, u)
  BY <1>1, QueueServerTxSound
<1>3. /\ Within(s, C, D) /\ (tx_ring = <<>> => s = session)
  <2>1. CASE tx_ring # <<>> /\ HasRoom(session.tx, SessionTxCap, ServerFrame)
    <3> DEFINE w == session.tx \o Units(ServerFrame)
    <3>1. w \in Seq(D)
      BY <2>1, ConcatFacts DEF Within
    <3>2. s = [session EXCEPT !.tx = w, !.tx_seq_next = (@ + 1) % SeqMod]
      BY <2>1 DEF mc_link_session_queue_server_tx
    <3> HIDE DEF w
    <3>3. s.tx = w /\ s.control_tx = session.control_tx
      BY <1>1, <3>2 DEF SessionOK, Session
    <3>4. s \in Session
      BY <1>2 DEF Sound, SessionOK
    <3> QED
      BY <2>1, <3>1, <3>3, <3>4 DEF Within
  <2>2. CASE ~(tx_ring # <<>> /\ HasRoom(session.tx, SessionTxCap, ServerFrame))
    BY <2>2 DEF mc_link_session_queue_server_tx
  <2> QED
    BY <2>1, <2>2
<1> HIDE DEF s, u
<1>4. /\ Within(r.s, C, D) /\ (r.buf \in Seq(C) \/ r.buf \in Seq(D))
      /\ s.tx = <<>> => r.s.tx = <<>> /\ r.buf \in Seq(C)
      /\ s.tx # <<>> /\ OnlyTail(s) => OnlyTail(r.s) /\ r.buf \in Seq(D)
      /\ r.s.tx_seq_next = s.tx_seq_next
  BY <1>1, <1>2, <1>3, ReadWithin
<1>5. \A l : tx_ring \in Seq(ByteOf(l)) => Drop(tx_ring, k) \in Seq(ByteOf(l))
  <2>1. k \in 0..Len(tx_ring)
    BY <1>1, ServerFrameFacts
  <2> HIDE DEF k
  <2> QED
    BY <2>1, DropFacts
<1>6. CASE Line' = Line /\ UNCHANGED <<session, tx_ring>>
  <2>1. Line' = Line \o <<>>
    BY <1>1, <1>6, ConcatFacts
  <2> QED
    BY <1>6, <2>1, EmptyWithin
<1>7. CASE /\ Line' = Line \o r.buf /\ session' = r.s
           /\ tx_ring' = IF CanQueueServerTx THEN Drop(tx_ring, k) ELSE tx_ring
  <2>1. tx_ring = <<>> => ~CanQueueServerTx
    BY DEF CanQueueServerTx
  <2>2. tx_ring' \in {tx_ring, Drop(tx_ring, k)} /\ (tx_ring = <<>> => tx_ring' = <<>>)
    BY <1>7, <2>1
  <2> HIDE DEF r, k
  <2> QED
    BY <1>3, <1>4, <1>5, <1>7, <2>2
<1> QED
  BY <1>6, <1>7, LineWritten DEF s

LEMMA ServerFrameWithin ==
    ASSUME FirmwareTypes, SessionOK(session)
    PROVE  /\ Units(ServerFrame) \in Seq(DataUnit)
           /\ \A l : tx_ring \in Seq(ByteOf(l)) => Units(ServerFrame) \in Seq(UnitOfLink(l))
<1> DEFINE f == ServerFrame
           us == Units(f)
<1>1. /\ f \in Frame /\ f.type = "DATA_M2C" /\ f.data = SubSeq(tx_ring, 1, Lesser(Len(tx_ring), Payload))
      /\ Lesser(Len(tx_ring), Payload) \in 0..Len(tx_ring)
  BY ServerFrameFacts
<1> HIDE DEF f
<1>2. us \in Seq(Unit) /\ Len(us) = f.len /\ \A i \in 1..f.len : us[i] = [frame |-> f, part |-> i]
  BY <1>1, UnitsFacts
<1> HIDE DEF us
<1>3. ASSUME NEW i \in 1..Len(us) PROVE us[i] \in Unit /\ us[i].frame = f
  <2>1. us[i] \in Unit /\ us[i] = [frame |-> f, part |-> i]
    BY <1>2
  <2> QED
    BY <2>1
<1>4. us \in Seq(DataUnit)
  BY <1>1, <1>2, <1>3, Elements DEF DataUnit
<1>5. ASSUME NEW l, tx_ring \in Seq(ByteOf(l)) PROVE us \in Seq(UnitOfLink(l))
  <2> DEFINE n == Lesser(Len(tx_ring), Payload)
  <2> HIDE DEF n
  <2>1. f.data \in Seq(ByteOf(l))
    BY <1>1, <1>5, TakeFacts DEF n
  <2>2. \A i \in 1..Len(us) : us[i] \in UnitOfLink(l)
    BY <1>3, <2>1 DEF UnitOfLink
  <2> QED
    BY <1>2, <2>2, Elements
<1> QED
  BY <1>4, <1>5 DEF us, f

-----------------------------------------------------------------------------
(* The invariant and the firmware.                                         *)

LEMMA LineLessens ==
    ASSUME LinkInv, pending' \in {pending, Empty}, uart' = uart
    PROVE  \A S : Line \in Seq(S) => Line' \in Seq(S)
<1> SUFFICES ASSUME NEW S, Line \in Seq(S) PROVE Line' \in Seq(S)
  OBVIOUS
<1>1. uart \in Seq(S) /\ Unsent(pending) \in Seq(S) /\ Unsent(Empty) = <<>>
  BY LineFacts, EmptyFacts
<1>2. Line' = uart \o Unsent(pending')
  BY DEF Line, Unsent
<1>3. Unsent(pending') \in Seq(S)
  BY <1>1, EmptyWithin
<1> QED
  BY <1>1, <1>2, <1>3, ConcatFacts

LEMMA SetFacts ==
    /\ \A A : ControlUnit(A) \subseteq AckIn(A) /\ ControlUnit(A) \subseteq ControlUnit(Nat)
    /\ \A A : DataUnit \subseteq AckIn(A) /\ AckIn(A) \subseteq Unit
    /\ \A A, l : ControlUnit(A) \subseteq UnitOfLink(l)
    /\ Others \subseteq Known
  BY DEF ControlUnit, AckIn, DataUnit, UnitOfLink, Unit, Frame, Others

\* What the invariant is about, besides the session, the line and the wire.
bridgeSide == <<phase, next_reset_seq, reset_seq, saw_reset_ack, resets, link, tcp>>

LEMMA SameNumbers ==
    ASSUME UNCHANGED bridgeSide
    PROVE  Known' = Known /\ Others' = Others /\ (FirstRun' <=> FirstRun)
  BY DEF bridgeSide, Known, Others, FirstRun

\* The RESET that the bridge waits for is handled.
LEMMA DropOnlyTail ==
    ASSUME NEW s, NEW u \in Unit, Sound(s, u)
    PROVE  OnlyTail(mc_link_session_drop_queued_data(s))
<1> DEFINE t == mc_link_session_drop_queued_data(s)
<1>1. s \in Session /\ s.tx \in Seq(Unit)
  BY DEF Sound, SessionOK, Session
<1>2. t = [s EXCEPT !.tx = KeptData(s)]
  BY DEF mc_link_session_drop_queued_data, KeptData
<1> HIDE DEF t
<1>3. t.tx = KeptData(s) /\ t.active = s.active /\ t.remaining = s.remaining
  BY <1>1, <1>2 DEF Session
<1>4. CASE s.active = "DATA"
  <2>1. s.remaining \in 1..Len(s.tx) /\ Continues(u, s.tx) /\ Delimiter(s.tx[s.remaining])
    BY <1>4 DEF Sound, SessionFramed, ActiveQueue
  <2>2. Len(KeptData(s)) = s.remaining
    BY <1>1, <1>4, <2>1, TruncateFacts DEF KeptData
  <2> QED
    BY <1>3, <1>4, <2>2 DEF OnlyTail, t
<1>5. CASE s.active # "DATA"
  <2>1. KeptData(s) = <<>>
    BY <1>5 DEF KeptData
  <2> QED
    BY <1>3, <2>1 DEF OnlyTail, t
<1> QED
  BY <1>4, <1>5

LEMMA HandleResetTail ==
    ASSUME LinkInv, NEW f \in C2mFrame, f.type = "RESET", HandleReset(f)
    PROVE  OnlyTail(session') /\ session'.tx_seq_next = 0
<1> DEFINE a == reset_link_state(session)
           b == queue_control_frame(a, Control("RESET_ACK", f.seq))
           c == queue_control_frame(b, Control("READY", 0))
           u == LastOf(last, Unsent(pending))
<1>1. Control("RESET_ACK", f.seq) \in Frame /\ Control("READY", 0) \in Frame
  <2>1. f.seq \in Nat /\ "RESET_ACK" \in FrameTypes /\ "READY" \in FrameTypes
    BY DEF C2mFrame, FrameTypes
  <2> QED
    BY <2>1, ControlFacts
<1>2. Sound(session, u) /\ u \in Unit
  BY LineFacts, LastOfFacts DEF LinkInv, WireInv, Steady
<1>3. session' = mc_link_session_drop_queued_data(c)
  BY DEF HandleReset, reset_connection, drop_stale_link_tx_data
<1> HIDE DEF u
<1>4. Sound(a, u) /\ a \in Session /\ a.tx_seq_next = 0
  BY <1>2, ResetsSound, ResetsCount DEF Sound, SessionOK
<1> HIDE DEF a
<1>5. Sound(b, u) /\ b \in Session /\ b.tx_seq_next = 0
  BY <1>1, <1>2, <1>4, QueueControl, QueueCounts
<1> HIDE DEF b
<1>6. Sound(c, u) /\ c \in Session /\ c.tx_seq_next = 0
  BY <1>1, <1>2, <1>5, QueueControl, QueueCounts
<1> HIDE DEF c
<1> QED
  BY <1>2, <1>3, <1>6, DropOnlyTail, ResetsCount

LEMMA RxAsked ==
    ASSUME LinkInv, PumpLinkRx, Numbered, Asked, Within(session, ControlUnit(Nat), DataUnit)
    PROVE  Asked' \/ Answered'
<1>0. /\ UNCHANGED bridgeSide /\ UNCHANGED saw_reset_ack /\ uart' = uart /\ Others' = Others
      /\ c2m \in Seq(ResetIn(Known)) /\ c2m \in Seq(C2mFrame)
  BY SameNumbers DEF PumpLinkRx, bridgeVars, bridgeSide, Numbered, LinkInv, WireTypes
<1>1. Within(session, ControlUnit(Others), DataUnit)
  BY DEF Asked, Within
<1>2. CASE c2m # <<>> => Head(c2m) \in ResetIn(Others)
  <2>1. /\ Within(session', ControlUnit(Others), DataUnit) /\ Lessens
        /\ c2m' = c2m \/ (c2m # <<>> /\ c2m' = Tail(c2m))
    BY <1>1, <1>2, RxWithin
  <2>2. Line' \in Seq(AckIn(Others))
    BY <1>0, <2>1, LineLessens DEF Lessens, Asked
  <2>3. \A i \in 1..(Len(c2m') - 1) : c2m'[i] \in ResetIn(Others)
    <3>1. CASE c2m' = c2m
      BY <3>1 DEF Asked
    <3>2. CASE c2m # <<>> /\ c2m' = Tail(c2m)
      <4>1. /\ Len(c2m) \in Nat /\ Len(c2m') = Len(c2m) - 1
            /\ \A i \in 1..(Len(c2m) - 1) : c2m'[i] = c2m[i + 1]
        BY <1>0, <3>2, TailFacts
      <4> SUFFICES ASSUME NEW i \in 1..(Len(c2m') - 1) PROVE c2m'[i] \in ResetIn(Others)
        OBVIOUS
      <4> DEFINE j == i + 1
      <4>2. i \in 1..(Len(c2m) - 1) /\ j \in 1..(Len(c2m) - 1) /\ c2m'[i] = c2m[j]
        BY <4>1
      <4> HIDE DEF j
      <4> QED
        BY <4>2 DEF Asked
    <3> QED
      BY <2>1, <3>1, <3>2
  <2> QED
    BY <1>0, <2>1, <2>2, <2>3 DEF Asked, Within, bridgeSide
<1>3. CASE ~(c2m # <<>> => Head(c2m) \in ResetIn(Others))
  <2> DEFINE f == Head(c2m)
  <2>1. c2m # <<>> /\ f \in ResetIn(Known) /\ f \in C2mFrame /\ f = c2m[1] /\ Len(c2m) \in Nat \ {0}
    BY <1>0, <1>3, TailFacts DEF ResetIn
  <2>2. f.type = "RESET" /\ f.seq \in Known
    BY <1>3, <2>1 DEF ResetIn
  <2>3. Len(c2m) = 1
    <3> DEFINE n == Len(c2m)
    <3>1. ~(1 \in 1..(n - 1)) /\ n \in Nat \ {0}
      BY <1>3, <2>1 DEF Asked
    <3> HIDE DEF n
    <3>2. n = 1
      BY <3>1
    <3> QED
      BY <3>2 DEF n
  <2>4. Within(session, ControlUnit(Known), DataUnit)
    BY DEF Numbered, Within
  <2>5. \/ UNCHANGED <<session, pending, tx_ring, rx, server, c2m>>
        \/ c2m' = Tail(c2m) /\ HandleReset(f)
    BY <2>1, <2>2, <2>4, RxWithin
  <2>6. CASE UNCHANGED <<session, pending, tx_ring, rx, server, c2m>>
    <3>1. Line' \in Seq(AckIn(Others))
      BY <1>0, <2>6, LineLessens DEF Asked
    <3> QED
      BY <1>0, <2>6, <3>1 DEF Asked, bridgeSide
  <2>7. CASE c2m' = Tail(c2m) /\ HandleReset(f)
    <3>1. Lessens /\ Quiet'
      BY <2>1, <2>2, <2>4, <2>7, HandleResetWithin
    <3>2. OnlyTail(session') /\ session'.tx_seq_next = 0
      BY <2>1, <2>2, <2>7, HandleResetTail
    <3>3. c2m' = <<>>
      BY <1>0, <2>1, <2>3, <2>7, TailFacts
    <3>4. Line' \in Seq(AckIn(Others))
      BY <1>0, <3>1, LineLessens DEF Lessens, Asked
    <3> QED
      BY <1>0, <3>1, <3>2, <3>3, <3>4 DEF Answered, Asked, OnlyTail, bridgeSide
  <2> QED
    BY <2>5, <2>6, <2>7
<1> QED
  BY <1>2, <1>3

\* Nothing of the firmware moves while the bridge has not heard the answer.
LEMMA AnsweredStays ==
    ASSUME Answered, UNCHANGED bridgeSide,
           UNCHANGED <<session, pending, tx_ring, rx, server, c2m, uart>>
    PROVE  Answered'
<1>1. Line' = Line /\ Others' = Others
  BY SameNumbers DEF Line, Unsent
<1>2. NoDataBehindAck(Line) => NoDataBehindAck(Line)'
  BY <1>1 DEF NoDataBehindAck
<1> QED
  BY <1>1, <1>2 DEF Answered, Quiet, OnlyTail, bridgeSide

LEMMA EmptySeqOnly ==
    \A q : q \in Seq({}) <=> q = <<>>
<1>1. ASSUME NEW q \in Seq({}), q # <<>> PROVE FALSE
  <2>1. Head(q) \in {}
    BY <1>1, TailFacts
  <2> QED
    BY <2>1
<1> QED
  BY <1>1, EmptyWithin

LEMMA RxFirst ==
    ASSUME LinkInv, SessionInv, FirstRun, PumpLinkRx
    PROVE  FirstInv'
<1>0. /\ UNCHANGED bridgeSide /\ uart' = uart /\ Others' = Others /\ Known' = Known
      /\ Numbered /\ c2m \in Seq(ResetIn(Known)) /\ FirstInv
      /\ Within(session, ControlUnit(Nat), DataUnit) /\ c2m \in Seq(C2mFrame)
  BY SameNumbers DEF PumpLinkRx, bridgeVars, bridgeSide, SessionInv, FirstInv, Numbered, LinkInv, WireTypes
<1>1. Within(session, ControlUnit(Known), DataUnit) /\ (c2m # <<>> => Head(c2m) \in ResetIn(Known))
  BY <1>0, TailFacts DEF Numbered, Within
<1>2. /\ Within(session', ControlUnit(Known), DataUnit) /\ Lessens
      /\ \/ UNCHANGED <<session, pending, tx_ring, rx, server, c2m>>
         \/ /\ c2m # <<>> /\ c2m' = Tail(c2m)
            /\ rx' = NoRx \/ (rx' = Head(c2m) /\ Head(c2m).type = "DATA_C2M")
  BY <1>1, RxWithin
<1>3. \A S : Line \in Seq(S) => Line' \in Seq(S)
  BY <1>0, <1>2, LineLessens DEF Lessens
<1>4. \A S : c2m \in Seq(S) => c2m' \in Seq(S)
  BY <1>2, TailFacts
<1>5. Numbered'
  BY <1>0, <1>2, <1>3, <1>4 DEF Numbered, Within, bridgeSide
<1>6. ASSUME phase = "wait" PROVE Asked' \/ Answered'
  <2>1. CASE Asked
    BY <1>0, <2>1, RxAsked
  <2>2. CASE Answered
    <3>1. UNCHANGED <<session, pending, tx_ring, rx, server, c2m>>
      BY <1>2, <2>2 DEF Answered
    <3> QED
      BY <1>0, <2>2, <3>1, AnsweredStays
  <2> QED
    BY <1>0, <1>6, <2>1, <2>2 DEF FirstInv
<1>7. ASSUME phase = "cal" PROVE Calibrating'
  <2>1. Calibrating
    BY <1>0, <1>7 DEF FirstInv
  <2>2. Within(session', ControlUnit(Known), {})
    <3>1. Within(session, ControlUnit(Known), {})
      BY <1>1, <2>1, EmptySeqOnly DEF Within, Calibrating
    <3> QED
      BY <1>1, <3>1, RxWithin
  <2>3. session'.tx = <<>>
    BY <2>2, EmptySeqOnly DEF Within
  <2>4. c2m # <<>> => Head(c2m).type = "RATE_PROBE"
    <3>1. c2m # <<>> => Head(c2m) \in Probes
      BY <2>1, TailFacts DEF Calibrating
    <3> QED
      BY <3>1 DEF Probes
  <2>5. Quiet' /\ session'.tx_seq_next = 0
    BY <1>2, <2>1, <2>4, RxStream DEF Calibrating, Quiet, Lessens, KeepsStream
  <2> QED
    BY <1>3, <1>4, <2>1, <2>3, <2>5 DEF Calibrating
<1>8. ASSUME phase = "run" PROVE Running'
  <2>1. Running /\ link' = link
    BY <1>0, <1>8 DEF FirstInv, bridgeSide
  <2>2. Within(session', ControlUnit(Known), UnitOfLink(link))
    <3>1. Within(session, ControlUnit(Known), UnitOfLink(link))
      BY <1>1, <2>1 DEF Within, Running
    <3> QED
      BY <1>1, <3>1, RxWithin
  <2>3. rx' # NoRx => rx'.link = link
    <3>1. c2m # <<>> /\ Head(c2m).type = "DATA_C2M" => Head(c2m).link = link
      <4>1. c2m # <<>> => Head(c2m) \in RequestOf(link)
        BY <2>1, TailFacts DEF Running
      <4> QED
        BY <4>1 DEF RequestOf
    <3> QED
      BY <1>2, <2>1, <3>1 DEF Running
  <2>4. server'.link \in {0, link} /\ tx_ring' \in Seq(ByteOf(link))
    <3>1. server.link \in {0, link} /\ FreshServer.link = 0 /\ tx_ring \in Seq(ByteOf(link))
      BY <2>1 DEF Running, FreshServer
    <3>2. server' \in {server, FreshServer} /\ tx_ring' \in {tx_ring, <<>>}
      BY <1>2 DEF Lessens
    <3>3. server'.link \in {0, link}
      BY <3>1, <3>2
    <3> QED
      BY <3>1, <3>2, <3>3, EmptyWithin
  <2> QED
    BY <1>3, <1>4, <2>1, <2>2, <2>3, <2>4 DEF Running, Within
<1> QED
  BY <1>0, <1>5, <1>6, <1>7, <1>8 DEF FirstInv, bridgeSide

LEMMA ServerFirst ==
    ASSUME LinkInv, SessionInv, FirstRun, PumpServer
    PROVE  FirstInv'
<1>0. /\ UNCHANGED bridgeSide /\ uart' = uart /\ c2m' = c2m /\ Others' = Others /\ Known' = Known
      /\ Numbered /\ FirstInv
  BY SameNumbers DEF PumpServer, bridgeVars, bridgeSide, SessionInv, FirstInv
<1>1. Within(session, ControlUnit(Known), DataUnit)
  BY <1>0 DEF Numbered, Within, SessionInv
<1>2. /\ Within(session', ControlUnit(Known), DataUnit) /\ pending' \in {pending, Empty}
      /\ Quiet => Quiet' /\ UNCHANGED <<session, pending>>
      /\ \A l \in Nat : SpeaksFor(l) => SpeaksFor(l)'
  BY <1>1, ServerWithin
<1>3. \A S : Line \in Seq(S) => Line' \in Seq(S)
  BY <1>0, <1>2, LineLessens
<1>4. Numbered'
  BY <1>0, <1>2, <1>3 DEF Numbered, Within, bridgeSide
<1>5. ASSUME phase = "wait" PROVE Asked' \/ Answered'
  <2>1. CASE Asked
    <3>1. Within(session, ControlUnit(Others), DataUnit)
      BY <1>1, <2>1 DEF Asked, Within
    <3>2. Within(session', ControlUnit(Others), DataUnit)
      BY <3>1, ServerWithin
    <3> QED
      BY <1>0, <1>3, <2>1, <3>2 DEF Asked, Within, bridgeSide
  <2>2. CASE Answered
    <3>1. UNCHANGED <<session, pending, tx_ring, rx, server, c2m, uart>>
      BY <1>0, <1>2, <2>2 DEF Answered, Quiet
    <3> QED
      BY <1>0, <2>2, <3>1, AnsweredStays
  <2> QED
    BY <1>0, <1>5, <2>1, <2>2 DEF FirstInv
<1>6. ASSUME phase = "cal" PROVE Calibrating'
  <2>1. Calibrating
    BY <1>0, <1>6 DEF FirstInv
  <2> QED
    BY <1>0, <1>2, <1>3, <2>1 DEF Calibrating
<1>7. ASSUME phase = "run" PROVE Running'
  <2>1. Running /\ link' = link /\ link \in Nat
    BY <1>0, <1>7, BoundFacts DEF FirstInv, bridgeSide, LinkInv, BridgeTypes
  <2>2. Within(session', ControlUnit(Known), UnitOfLink(link))
    <3>1. Within(session, ControlUnit(Known), UnitOfLink(link))
      BY <1>1, <2>1 DEF Within, Running
    <3> QED
      BY <3>1, ServerWithin
  <2>3. SpeaksFor(link)'
    <3>1. SpeaksFor(link)
      BY <2>1 DEF Running, SpeaksFor
    <3>0. PICK l \in Nat : l = link
      BY <2>1
    <3>2. l \in Nat /\ SpeaksFor(l) /\ link' = l
      BY <2>1, <3>0, <3>1
    <3>3. SpeaksFor(l)'
      BY <1>2, <3>2
    <3>4. /\ rx' # NoRx => rx'.link = l
          /\ server'.link \in {0, l} /\ tx_ring' \in Seq(ByteOf(l))
      BY <3>2, <3>3 DEF SpeaksFor
    <3> QED
      BY <3>2, <3>4 DEF SpeaksFor
  <2> QED
    BY <1>0, <1>3, <2>1, <2>2, <2>3 DEF Running, Within, SpeaksFor
<1> QED
  BY <1>0, <1>4, <1>5, <1>6, <1>7 DEF FirstInv, bridgeSide

\* Control frames may follow the RESET_ACK.
LEMMA AppendBehind ==
    ASSUME NEW q \in Seq(Unit), NEW w \in Seq(ControlUnit(Nat)), NoDataBehindAck(q)
    PROVE  NoDataBehindAck(q \o w)
<1> DEFINE v == q \o w
<1>0. w \in Seq(Unit)
  <2>1. ControlUnit(Nat) \subseteq Unit
    BY DEF ControlUnit, AckIn
  <2> QED
    BY <2>1, SeqMonotonic
<1>1. /\ Len(v) = Len(q) + Len(w) /\ Len(q) \in Nat /\ Len(w) \in Nat
      /\ \A i \in 1..Len(q) : v[i] = q[i]
  BY <1>0, ConcatFacts
<1>2. \A i \in 1..Len(w) : v[Len(q) + i] = w[i]
  BY <1>0, ConcatFacts
<1> HIDE DEF v
<1>3. ASSUME NEW i \in 1..Len(v), NEW j \in 1..Len(v), i < j, v[i] \notin AckIn(Others)
      PROVE  v[j] \in ControlUnit(Nat)
  <2>1. CASE j <= Len(q)
    <3>1. i \in 1..Len(q) /\ j \in 1..Len(q)
      BY <1>1, <1>3, <2>1
    <3>2. v[i] = q[i] /\ v[j] = q[j]
      BY <1>1, <3>1
    <3> QED
      BY <1>3, <3>1, <3>2 DEF NoDataBehindAck
  <2>2. CASE ~(j <= Len(q))
    <3> DEFINE k == j - Len(q)
    <3>1. k \in 1..Len(w) /\ j = Len(q) + k
      BY <1>1, <2>2
    <3> HIDE DEF k
    <3>2. v[j] = w[k]
      BY <1>2, <3>1
    <3> QED
      BY <3>1, <3>2
  <2> QED
    BY <2>1, <2>2
<1> QED
  BY <1>3 DEF NoDataBehindAck, v

LEMMA NoAckNoData ==
    ASSUME NEW q \in Seq(AckIn(Others))
    PROVE  NoDataBehindAck(q)
  BY DEF NoDataBehindAck

LEMMA DropBehind ==
    ASSUME NEW q \in Seq(Unit), NEW k \in 0..Len(q), NoDataBehindAck(q)
    PROVE  NoDataBehindAck(Drop(q, k))
<1> DEFINE d == Drop(q, k)
<1>1. d \in Seq(Unit) /\ Len(d) = Len(q) - k /\ \A i \in 1..(Len(q) - k) : d[i] = q[k + i]
  BY DropFacts
<1> HIDE DEF d
<1>2. ASSUME NEW i \in 1..Len(d), NEW j \in 1..Len(d), i < j, d[i] \notin AckIn(Others)
      PROVE  d[j] \in ControlUnit(Nat)
  <2> DEFINE m == k + i
             n == k + j
  <2>1. m \in 1..Len(q) /\ n \in 1..Len(q) /\ m < n /\ d[i] = q[m] /\ d[j] = q[n]
    BY <1>1, <1>2
  <2> HIDE DEF m, n
  <2> QED
    BY <1>2, <2>1 DEF NoDataBehindAck
<1> QED
  BY <1>2 DEF NoDataBehindAck, d

LEMMA TxAnswered ==
    ASSUME LinkInv, PumpLinkTx, Answered, Within(session, ControlUnit(Nat), DataUnit)
    PROVE  Answered'
<1>0. /\ UNCHANGED bridgeSide /\ c2m' = c2m /\ rx' = rx /\ server' = server
      /\ Others' = Others /\ Line \in Seq(Unit)
      /\ tx_ring = <<>> /\ c2m = <<>> /\ OnlyTail(session)
  BY SameNumbers, LineFacts DEF PumpLinkTx, bridgeVars, bridgeSide, Answered, Quiet
<1>1. PICK w :
         /\ Line' = Line \o w
         /\ tx_ring' = <<>> /\ session'.tx_seq_next = session.tx_seq_next
         /\ session.tx = <<>> => session'.tx = <<>> /\ w \in Seq(ControlUnit(Nat))
         /\ session.tx # <<>> => OnlyTail(session') /\ w \in Seq(DataUnit)
  BY <1>0, TxWithin
<1>2. Quiet' /\ c2m' = <<>> /\ OnlyTail(session)' /\ session'.tx_seq_next = 0
  BY <1>0, <1>1 DEF Answered, Quiet, OnlyTail
<1>3. CASE session.tx # <<>>
  <2>1. saw_reset_ack = FALSE /\ Line \in Seq(AckIn(Others))
    BY <1>3 DEF Answered
  <2>2. w \in Seq(AckIn(Others))
    BY <1>1, <1>3, SetFacts, SeqMonotonic
  <2>3. Line' \in Seq(AckIn(Others))
    BY <1>1, <2>1, <2>2, ConcatFacts
  <2> QED
    BY <1>0, <1>2, <2>1, <2>3 DEF Answered, bridgeSide
<1>4. CASE session.tx = <<>>
  <2>1. session'.tx = <<>> /\ w \in Seq(ControlUnit(Nat))
    BY <1>1, <1>4
  <2>2. NoDataBehindAck(Line) => NoDataBehindAck(Line')
    BY <1>0, <1>1, <2>1, AppendBehind
  <2>3. NoDataBehindAck(Line') => NoDataBehindAck(Line)'
    BY <1>0 DEF NoDataBehindAck
  <2>4. Line \in Seq(AckIn(Others)) => NoDataBehindAck(Line)
    BY NoAckNoData
  <2>5. Line \in Seq(ControlUnit(Nat)) => Line' \in Seq(ControlUnit(Nat))
    BY <1>1, <2>1, ConcatFacts
  <2> QED
    BY <1>0, <1>2, <2>1, <2>2, <2>3, <2>4, <2>5 DEF Answered, bridgeSide
<1> QED
  BY <1>3, <1>4

LEMMA TxFirst ==
    ASSUME LinkInv, SessionInv, FirstRun, PumpLinkTx
    PROVE  FirstInv'
<1>0. /\ UNCHANGED bridgeSide /\ c2m' = c2m /\ rx' = rx /\ server' = server
      /\ Others' = Others /\ Known' = Known /\ Numbered /\ FirstInv
      /\ Within(session, ControlUnit(Nat), DataUnit) /\ FirmwareTypes /\ SessionOK(session)
  BY SameNumbers DEF PumpLinkTx, bridgeVars, bridgeSide, SessionInv, FirstInv, LinkInv, WireInv,
                     Steady, Sound
<1>1. Within(session, ControlUnit(Known), DataUnit)
  BY <1>0 DEF Numbered, Within
<1>2. Units(ServerFrame) \in Seq(DataUnit)
  BY <1>0, ServerFrameWithin
<1>3. /\ Within(session', ControlUnit(Known), DataUnit)
      /\ tx_ring = <<>> => tx_ring' = <<>>
      /\ \E w : Line' = Line \o w /\ (w \in Seq(ControlUnit(Known)) \/ w \in Seq(DataUnit))
  BY <1>1, <1>2, TxWithin
<1>4. Line' \in Seq(AckIn(Known))
  <2>1. PICK w : Line' = Line \o w /\ (w \in Seq(ControlUnit(Known)) \/ w \in Seq(DataUnit))
    BY <1>3
  <2>2. w \in Seq(AckIn(Known))
    BY <2>1, SetFacts, SeqMonotonic
  <2> QED
    BY <1>0, <2>1, <2>2, ConcatFacts DEF Numbered
<1>5. Numbered'
  BY <1>0, <1>3, <1>4 DEF Numbered, Within, bridgeSide
<1>6. ASSUME phase = "wait" PROVE Asked' \/ Answered'
  <2>1. CASE Asked
    <3>1. Within(session, ControlUnit(Others), DataUnit)
      BY <1>1, <2>1 DEF Asked, Within
    <3>2. PICK w : /\ Within(session', ControlUnit(Others), DataUnit) /\ Line' = Line \o w
                   /\ w \in Seq(ControlUnit(Others)) \/ w \in Seq(DataUnit)
      BY <1>2, <3>1, TxWithin
    <3>3. w \in Seq(AckIn(Others))
      BY <3>2, SetFacts, SeqMonotonic
    <3>4. Line' \in Seq(AckIn(Others))
      BY <2>1, <3>2, <3>3, ConcatFacts DEF Asked
    <3> QED
      BY <1>0, <2>1, <3>2, <3>4 DEF Asked, Within, bridgeSide
  <2>2. CASE Answered
    BY <1>0, <2>2, TxAnswered
  <2> QED
    BY <1>0, <1>6, <2>1, <2>2 DEF FirstInv
<1>7. ASSUME phase = "cal" PROVE Calibrating'
  <2>1. Calibrating /\ tx_ring = <<>> /\ session.tx = <<>>
    BY <1>0, <1>7 DEF FirstInv, Calibrating, Quiet
  <2>2. PICK w : /\ Line' = Line \o w /\ session'.tx = <<>> /\ w \in Seq(ControlUnit(Nat))
                 /\ session'.tx_seq_next = session.tx_seq_next
    BY <1>0, <1>2, <2>1, TxWithin
  <2>3. Line' \in Seq(ControlUnit(Nat))
    BY <2>1, <2>2, ConcatFacts DEF Calibrating
  <2> QED
    BY <1>0, <1>3, <2>1, <2>2, <2>3 DEF Calibrating, Quiet
<1>8. ASSUME phase = "run" PROVE Running'
  <2>1. Running /\ link' = link
    BY <1>0, <1>8 DEF FirstInv, bridgeSide
  <2>2. Within(session, ControlUnit(Known), UnitOfLink(link)) /\ Units(ServerFrame) \in Seq(UnitOfLink(link))
    BY <1>0, <1>1, <2>1, ServerFrameWithin DEF Within, Running
  <2>3. PICK w : /\ Within(session', ControlUnit(Known), UnitOfLink(link)) /\ Line' = Line \o w
                 /\ w \in Seq(ControlUnit(Known)) \/ w \in Seq(UnitOfLink(link))
                 /\ tx_ring' \in Seq(ByteOf(link))
    BY <2>1, <2>2, TxWithin DEF Running
  <2>4. w \in Seq(UnitOfLink(link))
    BY <2>3, SetFacts, SeqMonotonic
  <2>5. Line' \in Seq(UnitOfLink(link))
    BY <2>1, <2>3, <2>4, ConcatFacts DEF Running
  <2> QED
    BY <1>0, <2>1, <2>3, <2>5 DEF Running, Within
<1> QED
  BY <1>0, <1>5, <1>6, <1>7, <1>8 DEF FirstInv, bridgeSide

-----------------------------------------------------------------------------
(* The invariant and the bridge.                                           *)

\* The bridge reads, loses or throws away the first units of the line.
Shortens == \E k \in 0..Len(uart) : uart' = Drop(uart, k)

LEMMA ShortenFacts ==
    ASSUME LinkInv
    PROVE  /\ uart' = uart => Shortens
           /\ uart # <<>> /\ uart' = Tail(uart) => Shortens
           /\ (\E k \in 1..Len(uart) : uart' = Drop(uart, k)) => Shortens
<1>1. uart \in Seq(Unit) /\ Len(uart) \in Nat
  BY LineFacts
<1>2. Drop(uart, 0) = uart /\ 0 \in 0..Len(uart)
  BY <1>1 DEF Drop
<1>3. uart # <<>> => Tail(uart) = Drop(uart, 1) /\ 1 \in 0..Len(uart)
  BY <1>1, TailFacts
<1> QED
  BY <1>1, <1>2, <1>3 DEF Shortens

LEMMA LineShortens ==
    ASSUME LinkInv, Shortens, pending' = pending
    PROVE  \A S : Line \in Seq(S) => Line' \in Seq(S)
<1>1. PICK k \in 0..Len(uart) : uart' = Drop(uart, k)
  BY DEF Shortens
<1>2. Line' = Drop(Line, k) /\ k \in 0..Len(Line)
  BY <1>1, LineRead
<1> QED
  BY <1>2, DropFacts

\* A RESET is sent: its number is new, and known from now on.
LEMMA SendResetFirst ==
    ASSUME LinkInv, SessionInv, FirstRun, SendReset, session' = session,
           \A S : Line \in Seq(S) => Line' \in Seq(S)
    PROVE  /\ next_reset_seq' = resets' + 1 /\ resets' = next_reset_seq
           /\ c2m' \in Seq(ResetIn(Known')) /\ Line' \in Seq(AckIn(Known')) /\ Line' \in Seq(AckIn(Known))
           /\ session'.control_tx \in Seq(ControlUnit(Known'))
           /\ session.control_tx \in Seq(ControlUnit(Known))
           /\ Known \subseteq Known' /\ Known = {k \in Known' : k # next_reset_seq}
           /\ \A i \in 1..(Len(c2m') - 1) : c2m'[i] \in ResetIn(Known)
<1> DEFINE f == [type |-> "RESET", seq |-> next_reset_seq]
<1>1. /\ resets' = resets + 1 /\ next_reset_seq' = next_reset_seq + 1 /\ c2m' = Append(c2m, f)
      /\ next_reset_seq \in Nat /\ resets \in Nat /\ next_reset_seq = resets + 1
      /\ c2m \in Seq(ResetIn(Known)) /\ Line \in Seq(AckIn(Known))
      /\ session.control_tx \in Seq(ControlUnit(Known))
  BY BoundFacts DEF SendReset, LinkInv, BridgeTypes, SessionInv, FirstRun, FirstInv, Numbered
<1>2. Known \subseteq Known' /\ Known = {k \in Known' : k # next_reset_seq} /\ next_reset_seq \in Known'
  BY <1>1 DEF Known
<1>3. f \in C2mFrame /\ f.seq \in Known'
  BY <1>1, <1>2 DEF C2mFrame
<1>4. /\ ResetIn(Known) \subseteq ResetIn(Known') /\ AckIn(Known) \subseteq AckIn(Known')
      /\ ControlUnit(Known) \subseteq ControlUnit(Known') /\ f \in ResetIn(Known')
  BY <1>2, <1>3 DEF ResetIn, AckIn, ControlUnit
<1> HIDE DEF f
<1>5. Line' \in Seq(AckIn(Known)) /\ Line' \in Seq(AckIn(Known'))
  BY <1>1, <1>4, SeqMonotonic
<1>6. session'.control_tx \in Seq(ControlUnit(Known'))
  BY <1>1, <1>4, SeqMonotonic
<1>7. c2m' \in Seq(ResetIn(Known')) /\ Len(c2m') = Len(c2m) + 1 /\ \A i \in 1..Len(c2m) : c2m'[i] = c2m[i]
  <2>1. c2m \in Seq(ResetIn(Known'))
    BY <1>1, <1>4, SeqMonotonic
  <2> HIDE DEF f
  <2> QED
    BY <1>1, <1>4, <2>1
<1>8. \A i \in 1..(Len(c2m') - 1) : c2m'[i] \in ResetIn(Known)
  <2> SUFFICES ASSUME NEW i \in 1..(Len(c2m') - 1) PROVE c2m'[i] \in ResetIn(Known)
    OBVIOUS
  <2>1. i \in 1..Len(c2m)
    BY <1>1, <1>7
  <2> QED
    BY <1>1, <1>7, <2>1
<1> QED
  BY <1>1, <1>2, <1>5, <1>6, <1>7, <1>8

LEMMA StartResetFirst ==
    ASSUME LinkInv, SessionInv, FirstRun, StartReset, session' = session, pending' = pending, Shortens
    PROVE  FirstInv'
<1>1. /\ SendReset /\ link' = resets + 1 /\ phase' = "wait" /\ reset_seq' = next_reset_seq
      /\ saw_reset_ack' = FALSE /\ tcp' = <<>> /\ resets' = resets + 1
  BY DEF StartReset, SendReset
<1>2. \A S : Line \in Seq(S) => Line' \in Seq(S)
  BY LineShortens
<1>3. /\ next_reset_seq' = resets' + 1 /\ resets' = next_reset_seq
      /\ c2m' \in Seq(ResetIn(Known')) /\ Line' \in Seq(AckIn(Known')) /\ Line' \in Seq(AckIn(Known))
      /\ session'.control_tx \in Seq(ControlUnit(Known'))
      /\ session.control_tx \in Seq(ControlUnit(Known))
      /\ Known = {k \in Known' : k # next_reset_seq}
      /\ \A i \in 1..(Len(c2m') - 1) : c2m'[i] \in ResetIn(Known)
  BY <1>1, <1>2, SendResetFirst
<1>4. Others' = Known
  BY <1>1, <1>3 DEF Others
<1>5. Numbered'
  BY <1>1, <1>3 DEF Numbered
<1>6. Asked'
  BY <1>1, <1>3, <1>4 DEF Asked
<1>7. tcp' \in Seq(ByteOf(link'))
  BY <1>1, EmptyWithin
<1> QED
  BY <1>1, <1>5, <1>6, <1>7 DEF FirstInv

\* Without a RESET only the phase, the line and the requests change.
LEMMA SameFirst ==
    ASSUME LinkInv, FirstInv, UNCHANGED <<next_reset_seq, reset_seq, resets, link>>,
           session' = session, pending' = pending, Shortens
    PROVE  /\ Known' = Known /\ Others' = Others /\ Line' \in Seq(AckIn(Known'))
           /\ session'.control_tx \in Seq(ControlUnit(Known'))
           /\ \A S : Line \in Seq(S) => Line' \in Seq(S)
<1>1. Known' = Known /\ Others' = Others
  BY DEF Known, Others
<1>2. \A S : Line \in Seq(S) => Line' \in Seq(S)
  BY LineShortens
<1> QED
  BY <1>1, <1>2 DEF FirstInv, Numbered

\* The bridge sees the RESET_ACK it waits for only behind all DATA_M2C.
LEMMA WaitAnswered ==
    ASSUME LinkInv, Answered, uart # <<>>, uart' = Tail(uart), Known' = Known, Others' = Others,
           UNCHANGED <<session, pending, tx_ring, rx, server, c2m>>,
           saw_reset_ack' = (saw_reset_ack \/ MatchingResetAck(Decoded))
    PROVE  Answered'
<1>1. /\ uart \in Seq(Unit) /\ Line \in Seq(Unit) /\ uart' = Drop(uart, 1) /\ 1 \in 0..Len(uart)
      /\ Head(uart) = uart[1] /\ Len(uart) \in Nat \ {0}
  BY LineFacts, TailFacts
<1>2. Line' = Drop(Line, 1) /\ 1 \in 0..Len(Line) /\ Len(Line) \in Nat
  BY <1>1, LineRead
<1>3. Line[1] = Head(uart) /\ 1 \in 1..Len(Line)
  <2>1. Unsent(pending) \in Seq(Unit)
    BY LineFacts
  <2>2. \A i \in 1..Len(uart) : Line[i] = uart[i]
    BY <1>1, <2>1, ConcatFacts DEF Line
  <2> QED
    BY <1>1, <1>2, <2>2
<1>4. MatchingResetAck(Decoded) => Line[1] \notin AckIn(Others)
  <2> SUFFICES ASSUME MatchingResetAck(Decoded) PROVE Line[1] \notin AckIn(Others)
    OBVIOUS
  <2>1. Decoded.type = "RESET_ACK" /\ Decoded.seq = reset_seq
    BY DEF MatchingResetAck
  <2>2. Decoded = Head(uart).frame
    BY <1>1, <2>1, DecodedFacts DEF FrameTypes
  <2> QED
    BY <1>3, <2>1, <2>2 DEF AckIn, Others
<1>5. Line' \in Seq(Unit) /\ \A S : Line \in Seq(S) => Line' \in Seq(S)
  BY <1>1, <1>2, DropFacts
<1>6. /\ Quiet' /\ c2m' = <<>> /\ OnlyTail(session)' /\ (session.tx = <<>> => session'.tx = <<>>)
      /\ session'.tx_seq_next = 0
  BY DEF Answered, Quiet, OnlyTail
<1>7. CASE Line \in Seq(ControlUnit(Nat)) /\ session.tx = <<>>
  BY <1>5, <1>6, <1>7 DEF Answered
<1>8. CASE saw_reset_ack = FALSE /\ Line \in Seq(AckIn(Others))
  <2>1. Line[1] \in AckIn(Others)
    BY <1>3, <1>8
  <2>2. saw_reset_ack' = FALSE
    BY <1>4, <1>8, <2>1
  <2> QED
    BY <1>5, <1>6, <1>8, <2>2 DEF Answered
<1>9. CASE saw_reset_ack = FALSE /\ session.tx = <<>> /\ NoDataBehindAck(Line)
  <2>1. CASE ~MatchingResetAck(Decoded)
    <3>1. NoDataBehindAck(Line')
      BY <1>1, <1>2, <1>9, DropBehind
    <3>2. NoDataBehindAck(Line)'
      BY <3>1 DEF NoDataBehindAck
    <3>3. saw_reset_ack' = FALSE
      BY <1>9, <2>1
    <3> QED
      BY <1>6, <1>9, <3>2, <3>3 DEF Answered
  <2>2. CASE MatchingResetAck(Decoded)
    <3>1. /\ Len(Line') = Len(Line) - 1 /\ \A i \in 1..(Len(Line) - 1) : Line'[i] = Line[1 + i]
      BY <1>1, <1>2, DropFacts
    <3>2. ASSUME NEW i \in 1..Len(Line') PROVE Line'[i] \in ControlUnit(Nat)
      <4> DEFINE j == 1 + i
      <4>1. i \in 1..(Len(Line) - 1) /\ j \in 1..Len(Line) /\ 1 < j
        BY <1>2, <3>1
      <4>2. Line'[i] = Line[j]
        BY <3>1, <4>1
      <4> HIDE DEF j
      <4> QED
        BY <1>3, <1>4, <1>9, <2>2, <4>1, <4>2 DEF NoDataBehindAck
    <3>3. Line' \in Seq(ControlUnit(Nat))
      BY <1>5, <3>2, Elements
    <3> QED
      BY <1>6, <1>9, <3>3 DEF Answered
  <2> QED
    BY <2>1, <2>2
<1> QED
  BY <1>7, <1>8, <1>9 DEF Answered

LEMMA WaitAsked ==
    ASSUME LinkInv, Asked, uart # <<>>, uart' = Tail(uart), Known' = Known, Others' = Others,
           UNCHANGED <<session, pending, c2m>>,
           saw_reset_ack' = (saw_reset_ack \/ MatchingResetAck(Decoded))
    PROVE  Asked'
<1>1. \A S : Line \in Seq(S) => Line' \in Seq(S)
  BY ShortenFacts, LineShortens
<1>2. uart \in Seq(AckIn(Others))
  BY LineFacts DEF Asked
<1>3. Head(uart) \in AckIn(Others) /\ uart \in Seq(Unit)
  BY <1>2, TailFacts, LineFacts
<1>4. ~MatchingResetAck(Decoded)
  <2> SUFFICES ASSUME Decoded.type = "RESET_ACK", Decoded.seq = reset_seq PROVE FALSE
    BY DEF MatchingResetAck
  <2>1. Decoded = Head(uart).frame
    BY <1>3, DecodedFacts DEF FrameTypes
  <2> QED
    BY <1>3, <2>1 DEF AckIn, Others
<1>5. saw_reset_ack' = FALSE
  BY <1>4 DEF Asked
<1> QED
  BY <1>1, <1>5 DEF Asked

LEMMA WaitFirst ==
    ASSUME LinkInv, SessionInv, FirstRun, WaitReceive
    PROVE  FirstInv'
<1>1. /\ FirstInv /\ phase = "wait" /\ uart # <<>>
      /\ UNCHANGED <<session, pending, tx_ring, rx, server, c2m>>
      /\ UNCHANGED <<next_reset_seq, reset_seq, resets, link, tcp>>
      /\ saw_reset_ack' = (saw_reset_ack \/ MatchingResetAck(Decoded))
  BY DEF WaitReceive, Feed, SessionInv, fwVars, history
<1>2. Asked \/ Answered
  BY <1>1 DEF FirstInv
<1>3. CASE saw_reset_ack /\ phase' = "cal" /\ \E k \in 1..Len(uart) : uart' = Drop(uart, k)
  <2>1. Shortens
    BY <1>3, ShortenFacts
  <2>2. /\ Known' = Known /\ Line' \in Seq(AckIn(Known'))
        /\ session'.control_tx \in Seq(ControlUnit(Known'))
        /\ \A S : Line \in Seq(S) => Line' \in Seq(S)
    BY <1>1, <2>1, SameFirst
  <2>3. /\ Quiet /\ c2m = <<>> /\ session.tx = <<>> /\ session.tx_seq_next = 0
        /\ Line \in Seq(ControlUnit(Nat))
    BY <1>2, <1>3 DEF Asked, Answered
  <2>4. Calibrating'
    BY <1>1, <2>2, <2>3, EmptyWithin DEF Calibrating, Quiet
  <2>5. Numbered'
    BY <1>1, <1>3, <2>2 DEF Numbered, FirstInv
  <2> QED
    BY <1>1, <1>3, <2>4, <2>5 DEF FirstInv
<1>4. CASE uart' = Tail(uart) /\ phase' = phase
  <2>1. Shortens
    BY <1>1, <1>4, ShortenFacts
  <2>2. /\ Known' = Known /\ Others' = Others /\ Line' \in Seq(AckIn(Known'))
        /\ session'.control_tx \in Seq(ControlUnit(Known'))
    BY <1>1, <2>1, SameFirst
  <2>3. Asked' \/ Answered'
    BY <1>1, <1>2, <1>4, <2>2, WaitAsked, WaitAnswered
  <2>4. Numbered'
    BY <1>1, <1>4, <2>2 DEF Numbered, FirstInv
  <2> QED
    BY <1>1, <1>4, <2>3, <2>4 DEF FirstInv
<1> QED
  BY <1>3, <1>4 DEF WaitReceive

\* The steps after which the phase asks for nothing of the invariant, or for
\* what it asked for before.
LEMMA IdleFirst ==
    ASSUME LinkInv, FirstInv, UNCHANGED <<next_reset_seq, reset_seq, resets, link, tcp>>,
           c2m' \in Seq(ResetIn(Known)), session' = session, pending' = pending, Shortens,
           phase' \in {"boot", "idle", "exit"}
    PROVE  FirstInv'
<1>1. /\ Known' = Known /\ Line' \in Seq(AckIn(Known'))
      /\ session'.control_tx \in Seq(ControlUnit(Known'))
  BY SameFirst
<1> QED
  BY <1>1 DEF FirstInv, Numbered

LEMMA CalFirst ==
    ASSUME LinkInv, FirstInv, phase = "cal", phase' = "cal",
           UNCHANGED <<next_reset_seq, reset_seq, resets, link, tcp>>,
           c2m' \in Seq(Probes), UNCHANGED <<session, pending, tx_ring, rx, server>>, Shortens
    PROVE  FirstInv'
<1>1. /\ Known' = Known /\ Line' \in Seq(AckIn(Known'))
      /\ session'.control_tx \in Seq(ControlUnit(Known'))
      /\ \A S : Line \in Seq(S) => Line' \in Seq(S)
  BY SameFirst
<1>2. Calibrating'
  BY <1>1 DEF FirstInv, Calibrating, Quiet
<1>3. c2m' \in Seq(ResetIn(Known))
  <2>1. Probes \subseteq ResetIn(Known)
    BY DEF Probes, ResetIn
  <2> QED
    BY <2>1, SeqMonotonic
<1> QED
  BY <1>1, <1>2, <1>3 DEF FirstInv, Numbered

LEMMA RunFirst ==
    ASSUME LinkInv, FirstInv, phase = "run", phase' = "run",
           UNCHANGED <<next_reset_seq, reset_seq, resets, link>>, tcp' \in Seq(ByteOf(link)),
           c2m' \in Seq(RequestOf(link)), UNCHANGED <<session, pending, tx_ring, rx, server>>, Shortens
    PROVE  FirstInv'
<1>1. /\ Known' = Known /\ Line' \in Seq(AckIn(Known'))
      /\ session'.control_tx \in Seq(ControlUnit(Known'))
      /\ \A S : Line \in Seq(S) => Line' \in Seq(S)
  BY SameFirst
<1>2. Running'
  BY <1>1 DEF FirstInv, Running
<1>3. c2m' \in Seq(ResetIn(Known))
  <2>1. RequestOf(link) \subseteq ResetIn(Known)
    BY DEF RequestOf, ResetIn
  <2> QED
    BY <2>1, SeqMonotonic
<1> QED
  BY <1>1, <1>2, <1>3 DEF FirstInv, Numbered

LEMMA CalDoneFirst ==
    ASSUME LinkInv, SessionInv, FirstRun, CalDone
    PROVE  FirstInv'
<1>1. /\ FirstInv /\ Calibrating /\ phase' = "run"
      /\ UNCHANGED <<session, pending, tx_ring, rx, server, c2m, uart>>
      /\ UNCHANGED <<next_reset_seq, reset_seq, resets, link, tcp>>
  BY DEF CalDone, SessionInv, FirstInv, fwVars, history
<1>2. Shortens
  BY <1>1, ShortenFacts
<1>3. /\ Known' = Known /\ Line' \in Seq(AckIn(Known'))
      /\ session'.control_tx \in Seq(ControlUnit(Known'))
      /\ \A S : Line \in Seq(S) => Line' \in Seq(S)
  BY <1>1, <1>2, SameFirst
<1>4. Line' \in Seq(UnitOfLink(link)) /\ c2m' \in Seq(RequestOf(link))
  <2>1. Probes \subseteq RequestOf(link) /\ ControlUnit(Nat) \subseteq UnitOfLink(link)
    BY SetFacts DEF Probes, RequestOf
  <2>2. Line' \in Seq(ControlUnit(Nat)) /\ c2m' \in Seq(Probes)
    BY <1>1, <1>3 DEF Calibrating
  <2> QED
    BY <2>1, <2>2, SeqMonotonic
<1>5. Running'
  BY <1>1, <1>4, EmptyWithin DEF Calibrating, Quiet, Running, FreshServer
<1>6. phase = "cal"
  BY DEF CalDone
<1> QED
  BY <1>1, <1>3, <1>5, <1>6 DEF FirstInv, Numbered

\* The wires lose frames and units; the firmware may lose all it holds.
LEMMA LossFirst ==
    ASSUME LinkInv, SessionInv, FirstRun, UNCHANGED bridgeSide,
           NEW k \in 0..Len(c2m), c2m' = Drop(c2m, k),
           \A S : Line \in Seq(S) => Line' \in Seq(S),
           NoDataBehindAck(Line) => NoDataBehindAck(Line'),
           session' \in {session, Boot}, tx_ring' \in {tx_ring, <<>>}, rx' \in {rx, NoRx},
           server' \in {server, FreshServer}
    PROVE  FirstInv'
<1>1. /\ Known' = Known /\ Others' = Others /\ FirstInv /\ Numbered /\ c2m \in Seq(C2mFrame)
      /\ Len(c2m) \in Nat
  BY SameNumbers DEF SessionInv, FirstInv, LinkInv, WireTypes
<1>2. /\ Boot.tx = <<>> /\ Boot.control_tx = <<>> /\ Boot.tx_seq_next = 0
      /\ FreshServer.link = 0
  BY DEF Boot, FreshServer
<1>3. /\ Len(c2m') = Len(c2m) - k /\ \A i \in 1..(Len(c2m) - k) : c2m'[i] = c2m[k + i]
      /\ \A S : c2m \in Seq(S) => c2m' \in Seq(S)
  BY <1>1, DropFacts
<1>4. /\ \A S : session.tx \in Seq(S) => session'.tx \in Seq(S)
      /\ \A S : session.control_tx \in Seq(S) => session'.control_tx \in Seq(S)
      /\ OnlyTail(session) => OnlyTail(session')
      /\ session.tx = <<>> => session'.tx = <<>>
      /\ session.tx_seq_next = 0 => session'.tx_seq_next = 0
  BY <1>2, EmptyWithin DEF OnlyTail
<1>5. Numbered'
  BY <1>1, <1>3, <1>4 DEF Numbered, bridgeSide
<1>6. Quiet => Quiet'
  BY DEF Quiet
<1>7. ASSUME phase = "wait" PROVE Asked' \/ Answered'
  <2>1. CASE Asked
    <3>1. ASSUME NEW i \in 1..(Len(c2m') - 1) PROVE c2m'[i] \in ResetIn(Others)
      <4> DEFINE j == k + i
      <4>1. i \in 1..(Len(c2m) - k) /\ j \in 1..(Len(c2m) - 1)
        BY <1>1, <1>3
      <4>2. c2m'[i] = c2m[j]
        BY <1>3, <4>1
      <4> HIDE DEF j
      <4> QED
        BY <2>1, <4>1, <4>2 DEF Asked
    <3> QED
      BY <1>1, <1>4, <2>1, <3>1 DEF Asked, bridgeSide
  <2>2. CASE Answered
    <3>1. c2m' = <<>>
      BY <1>3, <2>2, EmptySeqOnly, EmptyWithin DEF Answered
    <3>2. NoDataBehindAck(Line') => NoDataBehindAck(Line)'
      BY <1>1 DEF NoDataBehindAck
    <3>3. OnlyTail(session)' /\ Quiet'
      BY <1>4, <1>6, <2>2 DEF Answered, OnlyTail
    <3> QED
      BY <1>1, <1>4, <2>2, <3>1, <3>2, <3>3 DEF Answered, bridgeSide
  <2> QED
    BY <1>1, <1>7, <2>1, <2>2 DEF FirstInv
<1>8. ASSUME phase = "cal" PROVE Calibrating'
  <2>1. Calibrating
    BY <1>1, <1>8 DEF FirstInv
  <2> QED
    BY <1>3, <1>4, <1>6, <2>1 DEF Calibrating
<1>9. ASSUME phase = "run" PROVE Running'
  <2>1. Running /\ link' = link
    BY <1>1, <1>9 DEF FirstInv, bridgeSide
  <2>2. server'.link \in {0, link} /\ (rx' # NoRx => rx'.link = link)
    BY <1>2, <2>1 DEF Running
  <2>3. tx_ring' \in Seq(ByteOf(link))
    BY <2>1, EmptyWithin DEF Running
  <2> QED
    BY <1>3, <1>4, <2>1, <2>2, <2>3 DEF Running
<1> QED
  BY <1>1, <1>5, <1>7, <1>8, <1>9 DEF FirstInv, bridgeSide

LEMMA LoseFirst ==
    ASSUME LinkInv, SessionInv, FirstRun, LoseC2m \/ LoseUnit \/ Reboot
    PROVE  FirstInv'
<1>0. /\ uart \in Seq(Unit) /\ Line \in Seq(Unit) /\ Unsent(pending) \in Seq(Unit)
      /\ c2m \in Seq(C2mFrame) /\ Len(c2m) \in Nat /\ Len(uart) \in Nat
  BY LineFacts DEF LinkInv, WireTypes
<1>1. Drop(c2m, 0) = c2m /\ 0 \in 0..Len(c2m)
  BY <1>0 DEF Drop
<1>2. CASE LoseC2m
  <2>1. /\ UNCHANGED bridgeSide /\ UNCHANGED <<session, pending, tx_ring, rx, server, uart>>
        /\ c2m # <<>> /\ c2m' = Tail(c2m)
    BY <1>2 DEF LoseC2m, fwVars, bridgeVars, bridgeSide
  <2>2. c2m' = Drop(c2m, 1) /\ 1 \in 0..Len(c2m)
    BY <1>0, <2>1, TailFacts
  <2>3. Line' = Line
    BY <2>1 DEF Line, Unsent
  <2> QED
    BY <2>1, <2>2, <2>3, LossFirst
<1>3. CASE LoseUnit
  <2>1. /\ UNCHANGED bridgeSide /\ UNCHANGED <<session, pending, tx_ring, rx, server, c2m>>
        /\ uart # <<>> /\ uart' = Tail(uart)
    BY <1>3 DEF LoseUnit, fwVars, bridgeVars, bridgeSide
  <2>2. uart' = Drop(uart, 1) /\ 1 \in 0..Len(uart)
    BY <1>0, <2>1, TailFacts
  <2>3. Line' = Drop(Line, 1) /\ 1 \in 0..Len(Line)
    BY <2>1, <2>2, LineRead
  <2>4. /\ \A S : Line \in Seq(S) => Line' \in Seq(S)
        /\ NoDataBehindAck(Line) => NoDataBehindAck(Line')
    BY <1>0, <2>3, DropFacts, DropBehind
  <2>5. c2m' = Drop(c2m, 0) /\ 0 \in 0..Len(c2m)
    BY <1>1, <2>1
  <2> QED
    BY <2>1, <2>4, <2>5, LossFirst
<1>4. CASE Reboot
  <2>1. PICK k \in 0..Len(c2m) : c2m' = Drop(c2m, k)
    BY <1>4 DEF Reboot
  <2>2. /\ UNCHANGED bridgeSide /\ session' = Boot /\ pending' = Empty /\ tx_ring' = <<>>
        /\ rx' = NoRx /\ server' = FreshServer /\ uart' = uart
    BY <1>4 DEF Reboot, bridgeSide
  <2>3. Line' = uart
    <3>1. Line' = uart \o Unsent(Empty)
      BY <2>2 DEF Line, Unsent
    <3> QED
      BY <1>0, <3>1, EmptyFacts, ConcatFacts
  <2>4. \A S : Line \in Seq(S) => Line' \in Seq(S)
    BY <2>3, LineFacts
  <2>5. NoDataBehindAck(Line) => NoDataBehindAck(Line')
    <3> SUFFICES ASSUME NoDataBehindAck(Line), NEW i \in 1..Len(uart), NEW j \in 1..Len(uart),
                        i < j, uart[i] \notin AckIn(Others)
                 PROVE  uart[j] \in ControlUnit(Nat)
      BY <2>3 DEF NoDataBehindAck
    <3>1. /\ \A n \in 1..Len(uart) : Line[n] = uart[n]
          /\ Len(Line) = Len(uart) + Len(Unsent(pending)) /\ Len(Unsent(pending)) \in Nat
      BY <1>0, ConcatFacts DEF Line
    <3>2. i \in 1..Len(Line) /\ j \in 1..Len(Line)
      BY <1>0, <3>1
    <3> QED
      BY <3>1, <3>2 DEF NoDataBehindAck
  <2> QED
    BY <2>1, <2>2, <2>4, <2>5, LossFirst
<1> QED
  BY <1>2, <1>3, <1>4

\* A bridge that starts before any RESET was sent is the first one too.
LEMMA CrashFirst ==
    ASSUME LinkInv, SessionInv, Crash, FirstRun'
    PROVE  FirstInv'
<1>1. /\ next_reset_seq' = 1 /\ resets' = resets /\ phase' = "boot" /\ tcp' = <<>>
      /\ UNCHANGED <<session, pending, c2m>> /\ Shortens
  BY DEF Crash, fwVars, Shortens
<1>2. FirstRun /\ next_reset_seq = 1
  <2>1. resets \in Nat /\ next_reset_seq \in 1..(resets + 1) /\ 1 = resets + 1
    BY <1>1, BoundFacts DEF SessionInv, LinkInv, BridgeTypes, FirstRun
  <2> QED
    BY <2>1 DEF FirstRun
<1>3. Known' = Known /\ Numbered
  BY <1>1, <1>2 DEF Known, SessionInv, FirstInv
<1>4. \A S : Line \in Seq(S) => Line' \in Seq(S)
  BY <1>1, LineShortens
<1>5. Numbered'
  BY <1>1, <1>3, <1>4 DEF Numbered
<1> QED
  BY <1>1, <1>5, EmptyWithin DEF FirstInv

\* Back to accept: the RESET, if there is one, is not waited for.
LEMMA SendResetIdle ==
    ASSUME LinkInv, SessionInv, FirstRun, SendReset, phase' = "idle",
           UNCHANGED <<session, pending, uart, link, tcp>>
    PROVE  FirstInv'
<1>1. Line' = Line
  BY DEF Line, Unsent
<1>2. /\ c2m' \in Seq(ResetIn(Known')) /\ Line' \in Seq(AckIn(Known'))
      /\ session'.control_tx \in Seq(ControlUnit(Known'))
  BY <1>1, SendResetFirst
<1> QED
  BY <1>2 DEF FirstInv, Numbered, SessionInv

LEMMA RunReceiveFirst ==
    ASSUME LinkInv, SessionInv, FirstRun, RunReceive
    PROVE  FirstInv'
<1>1. /\ FirstInv /\ phase = "run" /\ uart # <<>> /\ uart \in Seq(Unit) /\ Running
      /\ UNCHANGED <<session, pending, tx_ring, rx, server>>
      /\ c2m \in Seq(ResetIn(Known)) /\ c2m \in Seq(RequestOf(link)) /\ tcp \in Seq(ByteOf(link))
  BY LineFacts DEF RunReceive, SessionInv, FirstInv, Numbered, Running, fwVars
<1>2. CASE RunReset
  <2>1. StartReset /\ Shortens
    BY <1>2, ShortenFacts DEF RunReset
  <2> QED
    BY <1>1, <2>1, StartResetFirst
<1>3. CASE RunOther
  <2>1. /\ uart' = Tail(uart) /\ c2m' = c2m /\ phase' \in {"run", "exit"}
        /\ UNCHANGED <<next_reset_seq, reset_seq, resets, link, tcp>>
    BY <1>1, <1>3 DEF RunOther
  <2>2. Shortens
    BY <1>1, <2>1, ShortenFacts
  <2> QED
    BY <1>1, <2>1, <2>2, IdleFirst, RunFirst
<1>4. CASE RunData
  <2>1. /\ uart' = Tail(uart) /\ c2m' = c2m
        /\ UNCHANGED <<next_reset_seq, reset_seq, resets, link>>
        /\ Decoded.type = "DATA_M2C"
        /\ (phase' = "run" /\ tcp' = tcp \o Decoded.data) \/ (phase' = "exit" /\ tcp' = tcp)
    BY <1>1, <1>4 DEF RunData
  <2>2. Shortens
    BY <1>1, <2>1, ShortenFacts
  <2>3. Decoded.data \in Seq(ByteOf(link))
    <3>1. Decoded = Head(uart).frame
      BY <1>1, <2>1, DecodedFacts DEF FrameTypes
    <3>2. uart \in Seq(UnitOfLink(link))
      BY <1>1, LineFacts DEF Running
    <3>3. Head(uart) \in UnitOfLink(link)
      BY <1>1, <3>2, TailFacts
    <3> QED
      BY <2>1, <3>1, <3>3 DEF UnitOfLink
  <2>4. tcp \o Decoded.data \in Seq(ByteOf(link))
    BY <1>1, <2>3, ConcatFacts
  <2> QED
    BY <1>1, <2>1, <2>2, <2>4, IdleFirst, RunFirst
<1> QED
  BY <1>2, <1>3, <1>4 DEF RunReceive

LEMMA BridgeFirst ==
    ASSUME LinkInv, SessionInv, FirstRun,
           \/ SendHello \/ BootReceive \/ Connect \/ TcpEof \/ Recalibrate \/ GiveUp
           \/ WaitReceive \/ SendProbe \/ CalReceive \/ ProbeTimeout \/ CalDone
           \/ SendClientData \/ RunReceive
    PROVE  FirstInv'
<1>0. /\ FirstInv /\ c2m \in Seq(ResetIn(Known)) /\ c2m \in Seq(C2mFrame)
      /\ phase = "cal" => c2m \in Seq(Probes)
      /\ phase = "run" => c2m \in Seq(RequestOf(link)) /\ tcp \in Seq(ByteOf(link))
  BY DEF SessionInv, FirstInv, Numbered, Calibrating, Running, LinkInv, WireTypes
<1>1. CASE SendHello
  <2>1. /\ phase' = "boot" /\ uart' = uart /\ c2m' = Append(c2m, [type |-> "HELLO"])
        /\ UNCHANGED <<session, pending, next_reset_seq, reset_seq, resets, link, tcp>>
    BY <1>1 DEF SendHello, fwVars, bridgeVars
  <2>2. [type |-> "HELLO"] \in ResetIn(Known)
    BY DEF ResetIn, C2mFrame
  <2>3. c2m' \in Seq(ResetIn(Known)) /\ Shortens
    BY <1>0, <2>1, <2>2, ShortenFacts
  <2> QED
    BY <1>0, <2>1, <2>3, IdleFirst
<1>2. CASE BootReceive
  <2>1. /\ phase' \in {"boot", "idle"} /\ c2m' = c2m /\ Shortens
        /\ UNCHANGED <<session, pending, next_reset_seq, reset_seq, resets, link, tcp>>
    BY <1>2, ShortenFacts DEF BootReceive, fwVars, history
  <2> QED
    BY <1>0, <2>1, IdleFirst
<1>3. CASE Connect
  <2>1. StartReset /\ UNCHANGED <<session, pending>> /\ Shortens
    BY <1>3, ShortenFacts DEF Connect, fwVars
  <2> QED
    BY <2>1, StartResetFirst
<1>4. CASE TcpEof
  <2>1. SendReset /\ phase' = "idle" /\ UNCHANGED <<session, pending, uart, link, tcp>>
    BY <1>4 DEF TcpEof, fwVars
  <2> QED
    BY <2>1, SendResetIdle
<1>5. CASE Recalibrate
  <2>1. StartReset /\ UNCHANGED <<session, pending>> /\ Shortens
    BY <1>5 DEF Recalibrate, fwVars, Shortens
  <2> QED
    BY <2>1, StartResetFirst
<1>6. CASE GiveUp
  <2>1. /\ phase' = "idle" /\ UNCHANGED <<session, pending, uart, link, tcp, reset_seq>>
        /\ SendReset \/ UNCHANGED <<c2m, next_reset_seq, resets>>
    BY <1>6 DEF GiveUp, fwVars
  <2>2. CASE SendReset
    BY <2>1, <2>2, SendResetIdle
  <2>3. CASE UNCHANGED <<c2m, next_reset_seq, resets>>
    BY <1>0, <2>1, <2>3, ShortenFacts, IdleFirst
  <2> QED
    BY <2>1, <2>2, <2>3
<1>7. CASE SendProbe
  <2>1. /\ phase = "cal" /\ phase' = "cal" /\ uart' = uart
        /\ c2m' = Append(c2m, [type |-> "RATE_PROBE", seq |-> probe.nonce + 1])
        /\ UNCHANGED <<session, pending, tx_ring, rx, server>>
        /\ UNCHANGED <<next_reset_seq, reset_seq, resets, link, tcp>>
    BY <1>7 DEF SendProbe, fwVars, history
  <2>2. [type |-> "RATE_PROBE", seq |-> probe.nonce + 1] \in Probes
    <3>1. probe.nonce + 1 \in Nat
      BY DEF LinkInv, BridgeTypes
    <3> QED
      BY <3>1 DEF Probes, C2mFrame
  <2>3. c2m' \in Seq(Probes) /\ Shortens
    BY <1>0, <2>1, <2>2, ShortenFacts
  <2> QED
    BY <1>0, <2>1, <2>3, CalFirst
<1>8. CASE CalReceive
  <2>1. /\ phase = "cal" /\ phase' \in {"cal", "exit"} /\ c2m' = c2m
        /\ uart # <<>> /\ uart' = Tail(uart)
        /\ UNCHANGED <<session, pending, tx_ring, rx, server>>
        /\ UNCHANGED <<next_reset_seq, reset_seq, resets, link, tcp>>
    BY <1>8 DEF CalReceive, Feed, fwVars, history
  <2>2. Shortens
    BY <2>1, ShortenFacts
  <2> QED
    BY <1>0, <2>1, <2>2, CalFirst, IdleFirst
<1>9. CASE ProbeTimeout
  <2>1. /\ phase = "cal" /\ phase' = "cal" /\ c2m' = c2m /\ uart' = uart
        /\ UNCHANGED <<session, pending, tx_ring, rx, server>>
        /\ UNCHANGED <<next_reset_seq, reset_seq, resets, link, tcp>>
    BY <1>9 DEF ProbeTimeout, fwVars, history
  <2> QED
    BY <1>0, <2>1, ShortenFacts, CalFirst
<1>10. CASE SendClientData
  <2> DEFINE f == [type |-> "DATA_C2M", seq |-> unacked'.seq, kind |-> unacked'.kind, link |-> link]
  <2>1. /\ phase = "run" /\ phase' = "run" /\ uart' = uart /\ c2m' = Append(c2m, f)
        /\ UNCHANGED <<session, pending, tx_ring, rx, server>>
        /\ UNCHANGED <<next_reset_seq, reset_seq, resets, link, tcp>>
    BY <1>10 DEF SendClientData, fwVars, history
  <2>2. f \in RequestOf(link)
    <3>1. c2m' \in Seq(C2mFrame)
      BY <1>10, SendClientDataTypes DEF LinkInv, WireTypes
    <3>2. c2m'[Len(c2m) + 1] = f /\ Len(c2m') = Len(c2m) + 1 /\ Len(c2m) \in Nat
      <4> HIDE DEF f
      <4> QED
        BY <1>0, <2>1
    <3>3. f \in C2mFrame
      <4> DEFINE n == Len(c2m) + 1
      <4>1. n \in 1..Len(c2m') /\ c2m'[n] = f
        BY <3>2
      <4> HIDE DEF n, f
      <4> QED
        BY <3>1, <4>1
    <3> QED
      BY <3>3 DEF RequestOf
  <2> HIDE DEF f
  <2>3. c2m' \in Seq(RequestOf(link)) /\ Shortens
    BY <1>0, <2>1, <2>2, ShortenFacts
  <2> QED
    BY <1>0, <2>1, <2>3, RunFirst
<1> QED
  BY <1>1, <1>2, <1>3, <1>4, <1>5, <1>6, <1>7, <1>8, <1>9, <1>10,
     WaitFirst, CalDoneFirst, RunReceiveFirst

-----------------------------------------------------------------------------
(* The theorems.                                                           *)

LEMMA InitSessionInv == Init => SessionInv
<1> SUFFICES ASSUME Init PROVE SessionInv
  OBVIOUS
<1>1. Line = <<>>
  BY EmptyFacts DEF Init, Line
<1>2. Boot \in Session /\ Boot.tx = <<>> /\ Boot.control_tx = <<>>
  BY BootSteady DEF Steady, Sound, SessionOK, Boot
<1>3. Numbered
  BY <1>1, <1>2, EmptyWithin DEF Init, Numbered
<1>4. FirstInv
  BY <1>3, EmptyWithin DEF Init, FirstInv
<1> QED
  BY <1>2, <1>4, EmptyWithin DEF Init, SessionInv, Within

\* RESET numbers only restart at 1.
LEMMA NextNumber ==
    ASSUME LinkInv, SessionInv, Next
    PROVE  next_reset_seq' \in 1..(resets' + 1) /\ (FirstRun' /\ ~Crash => FirstRun)
<1>0. next_reset_seq \in 1..(resets + 1) /\ resets \in Nat
  BY BoundFacts DEF SessionInv, LinkInv, BridgeTypes
<1>1. \/ UNCHANGED <<next_reset_seq, resets>>
      \/ next_reset_seq' = next_reset_seq + 1 /\ resets' = resets + 1
      \/ Crash /\ next_reset_seq' = 1 /\ resets' = resets
  BY DEF Next, PumpLinkRx, PumpServer, PumpLinkTx, SendHello, BootReceive, Crash, Connect, TcpEof,
         Recalibrate, GiveUp, WaitReceive, SendProbe, CalReceive, ProbeTimeout, CalDone,
         SendClientData, RunReceive, RunData, RunReset, RunOther, LoseC2m, LoseUnit, Reboot,
         StartReset, SendReset, bridgeVars, history
<1> QED
  BY <1>0, <1>1 DEF FirstRun

\* Each kind of frame stays in its own queue.
LEMMA NextSorted ==
    ASSUME LinkInv, SessionInv, Next
    PROVE  Within(session', ControlUnit(Nat), DataUnit)
<1>0. Within(session, ControlUnit(Nat), DataUnit) /\ c2m \in Seq(C2mFrame) /\ FirmwareTypes
      /\ SessionOK(session)
  BY DEF SessionInv, LinkInv, WireTypes, WireInv, Steady, Sound
<1>1. CASE PumpLinkRx
  <2>1. c2m # <<>> => Head(c2m) \in ResetIn(Nat)
    <3>1. c2m # <<>> => Head(c2m) \in C2mFrame
      BY <1>0, TailFacts
    <3> QED
      BY <3>1 DEF ResetIn, C2mFrame
  <2> QED
    BY <1>0, <1>1, <2>1, RxWithin
<1>2. CASE PumpServer
  BY <1>0, <1>2, ServerWithin
<1>3. CASE PumpLinkTx
  BY <1>0, <1>3, TxWithin, ServerFrameWithin
<1>4. CASE Reboot
  <2>1. session' = Boot /\ Boot \in Session /\ Boot.tx = <<>> /\ Boot.control_tx = <<>>
    BY <1>4, BootSteady DEF Reboot, Steady, Sound, SessionOK, Boot
  <2> QED
    BY <2>1, EmptyWithin DEF Within
<1>5. CASE session' = session
  BY <1>0, <1>5
<1> QED
  BY <1>1, <1>2, <1>3, <1>4, <1>5
     DEF Next, SendHello, BootReceive, Crash, Connect, TcpEof, Recalibrate, GiveUp, WaitReceive,
         SendProbe, CalReceive, ProbeTimeout, CalDone, SendClientData, RunReceive, LoseC2m, LoseUnit,
         fwVars

LEMMA NextSessionInv == LinkInv /\ SessionInv /\ [Next]_vars => SessionInv'
<1> SUFFICES ASSUME LinkInv, SessionInv, [Next]_vars PROVE SessionInv'
  OBVIOUS
<1>1. CASE Next
  <2>1. next_reset_seq' \in 1..(resets' + 1) /\ (FirstRun' /\ ~Crash => FirstRun)
    BY <1>1, NextNumber
  <2>2. Within(session', ControlUnit(Nat), DataUnit)
    BY <1>1, NextSorted
  <2>3. FirstRun' => FirstInv'
    BY <1>1, <2>1, CrashFirst, RxFirst, ServerFirst, TxFirst, BridgeFirst, LoseFirst DEF Next
  <2> QED
    BY <2>1, <2>2, <2>3 DEF SessionInv
<1>2. CASE UNCHANGED vars
  <2>1. /\ UNCHANGED bridgeSide /\ UNCHANGED <<session, pending, tx_ring, rx, server, c2m, uart>>
        /\ UNCHANGED <<next_reset_seq, resets>>
    BY <1>2 DEF vars, fwVars, bridgeVars, bridgeSide
  <2>2. Line' = Line /\ Known' = Known /\ Others' = Others /\ (FirstRun' <=> FirstRun)
    BY <2>1, SameNumbers DEF Line, Unsent
  <2>3. FirstInv => FirstInv'
    BY <2>1, <2>2 DEF FirstInv, Numbered, Asked, Answered, Quiet, OnlyTail, NoDataBehindAck,
                      Calibrating, Running, bridgeSide
  <2> QED
    BY <2>1, <2>2, <2>3 DEF SessionInv, bridgeSide
<1> QED
  BY <1>1, <1>2

\* The invariant of the link reset holds in every state: no RESET_ACK but
\* that of the newest RESET answers the bridge, the firmware puts all it held
\* for the former client before it, and nobody speaks to the server between
\* handle_reset and the end of the calibration.
THEOREM SessionInvariance == Spec => []SessionInv
  BY InitSessionInv, NextSessionInv, LinkInvariance, PTL DEF Spec

\* What reaches a client was said by the server in its own link session: no
\* byte of a former client is passed on, whatever is lost on the wires and
\* however often the firmware starts again, as long as the bridge, whose
\* next_reset_seq begins again at 1, has not been started again after its
\* first RESET.
THEOREM OnlyThisSessionHolds == Spec => [](FirstRun => OnlyThisSession)
<1>1. LinkInv /\ SessionInv => (FirstRun => OnlyThisSession)
  <2> SUFFICES ASSUME LinkInv, SessionInv, FirstRun, NEW i \in 1..Len(tcp)
               PROVE  tcp[i].link = link
    BY DEF OnlyThisSession
  <2>1. tcp \in Seq(ByteOf(link))
    BY DEF SessionInv, FirstInv
  <2>2. tcp[i] \in ByteOf(link)
    BY <2>1
  <2> QED
    BY <2>2 DEF ByteOf
<1> QED
  BY <1>1, LinkInvariance, SessionInvariance, PTL
=============================================================================
