--------------------------- MODULE M2cLinkProofs ---------------------------
(***************************************************************************)
(* Frames leave the firmware's UART whole, for every size of the queues,   *)
(* of link_pending and of the frames, whatever is reset in between.        *)
(***************************************************************************)
EXTENDS M2cLink, SequenceTheorems, WellFoundedInduction, TLAPS

-----------------------------------------------------------------------------
(* Types.                                                                  *)

FrameTypes == {"DATA_M2C", "READY", "RESET_ACK", "RATE_PROBE_ACK", "ACK_C2M", "ERROR"}
Frame == [type : FrameTypes, seq : Nat, data : Seq(Byte), len : Nat \ {0}]
Unit == {u \in [frame : Frame, part : Nat \ {0}] : u.part <= u.frame.len}

C2mFrame ==
    [type : {"RESET", "RATE_PROBE"}, seq : Nat] \cup [type : {"HELLO"}]
    \cup [type : {"DATA_C2M"}, seq : Nat, kind : ClientKinds, link : 0..MaxResets]

Session == [tx : Seq(Unit), control_tx : Seq(Unit), active : {"NONE", "CONTROL", "DATA"},
            remaining : Nat, tx_seq_next : 0..(SeqMod - 1), rx_seq_expected : 0..(SeqMod - 1)]

\* The session's queues fit their storage.
SessionOK(s) ==
    s \in Session /\ Len(s.tx) <= SessionTxCap /\ Len(s.control_tx) <= ControlCap

PendingOK(p) ==
    p \in [buf : Seq(Unit), pos : Nat] /\ Len(p.buf) <= PendingCap /\ p.pos <= Len(p.buf)

FirmwareTypes ==
    /\ pump \in {"rx", "server", "tx"}
    /\ tx_ring \in Seq(Byte) /\ Len(tx_ring) <= TxRingCap
    /\ rx # NoRx => rx.link \in 0..MaxResets
    /\ server \in [link : 0..MaxResets, out : 0..MaxOut]

BridgeTypes ==
    /\ phase \in {"boot", "idle", "wait", "cal", "run", "exit"}
    /\ next_reset_seq \in Nat /\ resets \in 0..MaxResets /\ link \in 0..MaxResets
    /\ m2c_seq_expected \in 0..(SeqMod - 1)
    /\ c2m_seq \in Nat
    /\ unacked # NoRx => unacked \in [seq : Nat, kind : ClientKinds, copies : Nat]
    /\ probe \in [nonce : Nat, awaited : BOOLEAN, hit : BOOLEAN]
    /\ tcp \in Seq(Byte)

WireTypes == c2m \in Seq(C2mFrame) /\ uart \in Seq(Unit)

-----------------------------------------------------------------------------
(* The stream of units.                                                    *)

\* Neighbours belong together; the units q come after u without a tear.
Chain(q) == \A i \in 1..(Len(q) - 1) : Follows(q[i], q[i + 1])
Continues(u, q) == Chain(q) /\ (q # <<>> => Follows(u, q[1]))
LastOf(u, q) == IF q = <<>> THEN u ELSE q[Len(q)]

\* A queue that ends with a whole frame, and one that begins with one as well.
Closed(q) == q # <<>> => Delimiter(q[Len(q)])
Framed(q) == Chain(q) /\ Closed(q) /\ (q # <<>> => q[1].part = 1)

\* The session goes on after unit u: with the rest of the frame that read_tx
\* has begun, which it still holds to the end, or with any whole frame.
SessionFramed(s, u) ==
    /\ s.active = "NONE" => s.remaining = 0 /\ Delimiter(u)
    /\ s.active # "NONE" =>
          /\ s.remaining \in 1..Len(ActiveQueue(s))
          /\ Continues(u, ActiveQueue(s)) /\ Closed(ActiveQueue(s))
          /\ Delimiter(ActiveQueue(s)[s.remaining])
    /\ s.active # "CONTROL" => Framed(s.control_tx)
    /\ s.active # "DATA" => Framed(s.tx)

\* What the operations of mc_link_session.c preserve, whatever was sent last.
Sound(s, u) == SessionOK(s) /\ SessionFramed(s, u)

\* After unit u come what the UART has not taken of link_pending, p, and then
\* the session.
Unsent(p) == Drop(p.buf, p.pos)
Steady(s, p, u) ==
    PendingOK(p) /\ Continues(u, Unsent(p)) /\ Sound(s, LastOf(u, Unsent(p)))

WireInv == torn = FALSE /\ last \in Unit /\ Steady(session, pending, last)

LinkInv == FirmwareTypes /\ BridgeTypes /\ WireTypes /\ WireInv

-----------------------------------------------------------------------------
(* Sequences.                                                              *)

LEMMA ConcatFacts ==
    ASSUME NEW S, NEW q \in Seq(S), NEW r \in Seq(S)
    PROVE  /\ q \o r \in Seq(S) /\ Len(q \o r) = Len(q) + Len(r)
           /\ Len(q) \in Nat /\ Len(r) \in Nat
           /\ \A i \in 1..Len(q) : (q \o r)[i] = q[i]
           /\ \A i \in 1..Len(r) : (q \o r)[Len(q) + i] = r[i]
           /\ q = <<>> => q \o r = r
           /\ r = <<>> => q \o r = q
  OBVIOUS

LEMMA TakeFacts ==
    ASSUME NEW S, NEW q \in Seq(S), NEW n \in 0..Len(q)
    PROVE  /\ SubSeq(q, 1, n) \in Seq(S) /\ Len(SubSeq(q, 1, n)) = n
           /\ \A i \in 1..n : SubSeq(q, 1, n)[i] = q[i]
  OBVIOUS

LEMMA DropFacts ==
    ASSUME NEW S, NEW q \in Seq(S), NEW n \in 0..Len(q)
    PROVE  /\ Drop(q, n) \in Seq(S) /\ Len(Drop(q, n)) = Len(q) - n
           /\ \A i \in 1..(Len(q) - n) : Drop(q, n)[i] = q[n + i]
  BY DEF Drop

\* The tail of a tail.
LEMMA DropDrop ==
    ASSUME NEW S, NEW q \in Seq(S), NEW m \in 0..Len(q), NEW n \in 0..(Len(q) - m)
    PROVE  Drop(Drop(q, m), n) = Drop(q, m + n)
<1>1. /\ Drop(q, m) \in Seq(S) /\ Len(Drop(q, m)) = Len(q) - m
      /\ \A i \in 1..(Len(q) - m) : Drop(q, m)[i] = q[m + i]
  BY DropFacts
<1>2. m + n \in 0..Len(q)
  OBVIOUS
<1>3. /\ Drop(q, m + n) \in Seq(S) /\ Len(Drop(q, m + n)) = Len(q) - (m + n)
      /\ \A i \in 1..(Len(q) - (m + n)) : Drop(q, m + n)[i] = q[(m + n) + i]
  BY <1>2, DropFacts
<1> DEFINE d == Drop(q, m)
<1> HIDE DEF d
<1>4. n \in 0..Len(d)
  BY <1>1 DEF d
<1>5. /\ Drop(d, n) \in Seq(S) /\ Len(Drop(d, n)) = Len(d) - n
      /\ \A i \in 1..(Len(d) - n) : Drop(d, n)[i] = d[n + i]
  BY <1>1, <1>4, DropFacts DEF d
<1>6. ASSUME NEW i \in 1..(Len(q) - (m + n)) PROVE Drop(d, n)[i] = Drop(q, m + n)[i]
  <2>1. i \in 1..(Len(d) - n) /\ n + i \in 1..(Len(q) - m) /\ m + (n + i) = (m + n) + i
    BY <1>1 DEF d
  <2> QED
    BY <1>1, <1>3, <1>5, <2>1 DEF d
<1>7. Len(Drop(d, n)) = Len(Drop(q, m + n))
  BY <1>1, <1>3, <1>5 DEF d
<1> DEFINE a == Drop(d, n)
           b == Drop(q, m + n)
<1> HIDE DEF a, b
<1>8. a \in Seq(S) /\ b \in Seq(S) /\ Len(a) = Len(b) /\ \A i \in 1..Len(b) : a[i] = b[i]
  BY <1>3, <1>5, <1>6, <1>7 DEF a, b
<1>9. a = b
  BY <1>8, SeqEqual
<1> QED
  BY <1>9 DEF a, b, d

\* A set of naturals has a least element.
LEMMA Least ==
    ASSUME NEW T, T \subseteq Nat, T # {}
    PROVE  \E x \in T : \A y \in T : x <= y
<1> DEFINE Less == {ss \in Nat \X Nat : ss[1] < ss[2]}
<1>1. IsWellFoundedOn(Less, Nat)
  BY NatLessThanWellFounded DEF OpToRel
<1>2. PICK x \in T : \A y \in T : ~(<<y, x>> \in Less)
  BY <1>1, WFMin
<1>3. ASSUME NEW y \in T PROVE x <= y
  <2>1. ~(y < x)
    BY <1>2
  <2> QED
    BY <2>1
<1> QED
  BY <1>3

-----------------------------------------------------------------------------
(* The stream of units.                                                    *)

\* What comes after u and then goes on comes after u as a whole.
LEMMA JoinStreams ==
    ASSUME NEW u \in Unit, NEW q \in Seq(Unit), NEW r \in Seq(Unit),
           Continues(u, q), Continues(LastOf(u, q), r)
    PROVE  Continues(u, q \o r) /\ LastOf(u, q \o r) = LastOf(LastOf(u, q), r)
<1>1. CASE q = <<>>
  <2>1. q \o r = r /\ LastOf(u, q) = u
    BY <1>1, ConcatFacts DEF LastOf
  <2> QED
    BY <2>1
<1>2. CASE r = <<>>
  <2>1. q \o r = q
    BY <1>2, ConcatFacts
  <2> QED
    BY <1>2, <2>1 DEF LastOf
<1>3. CASE q # <<>> /\ r # <<>>
  <2> DEFINE w == q \o r
  <2>1. /\ w \in Seq(Unit) /\ Len(w) = Len(q) + Len(r)
        /\ \A i \in 1..Len(q) : w[i] = q[i]
        /\ \A i \in 1..Len(r) : w[Len(q) + i] = r[i]
    BY ConcatFacts
  <2>2. Len(q) \in Nat /\ Len(r) \in Nat /\ Len(q) >= 1 /\ Len(r) >= 1
    BY <1>3
  <2> HIDE DEF w
  <2>3. Follows(q[Len(q)], r[1])
    BY <1>3 DEF Continues, LastOf
  <2>4. ASSUME NEW i \in 1..(Len(w) - 1) PROVE Follows(w[i], w[i + 1])
    <3>1. CASE i < Len(q)
      <4>1. i \in 1..(Len(q) - 1) /\ i \in 1..Len(q) /\ i + 1 \in 1..Len(q)
        BY <2>1, <2>2, <3>1
      <4> QED
        BY <2>1, <4>1 DEF Continues, Chain
    <3>2. CASE i = Len(q)
      <4>1. 1 \in 1..Len(r) /\ i \in 1..Len(q)
        BY <2>2, <3>2
      <4>2. w[i] = q[Len(q)] /\ w[i + 1] = r[1]
        BY <2>1, <3>2, <4>1
      <4> QED
        BY <2>3, <4>2
    <3>3. CASE i > Len(q)
      <4> DEFINE k == i - Len(q)
      <4>1. k \in 1..(Len(r) - 1)
        BY <2>1, <2>2, <3>3
      <4>2. k \in 1..Len(r) /\ k + 1 \in 1..Len(r)
        BY <2>2, <4>1
      <4>3. i = Len(q) + k /\ i + 1 = Len(q) + (k + 1)
        BY <2>2
      <4> HIDE DEF k
      <4>4. w[i] = r[k] /\ w[i + 1] = r[k + 1]
        BY <2>1, <4>2, <4>3
      <4> QED
        BY <4>1, <4>4 DEF Continues, Chain
    <3> QED
      BY <2>1, <2>2, <3>1, <3>2, <3>3
  <2>5. w # <<>> /\ w[1] = q[1] /\ w[Len(w)] = r[Len(r)]
    <3>1. 1 \in 1..Len(q) /\ Len(r) \in 1..Len(r)
      BY <2>2
    <3> QED
      BY <2>1, <2>2, <3>1
  <2>6. Continues(u, w)
    BY <1>3, <2>4, <2>5 DEF Continues, Chain
  <2>7. LastOf(u, w) = LastOf(LastOf(u, q), r)
    BY <1>3, <2>5 DEF LastOf
  <2> QED
    BY <2>6, <2>7 DEF w
<1> QED
  BY <1>1, <1>2, <1>3

\* A stream may be cut anywhere.
LEMMA CutStream ==
    ASSUME NEW u \in Unit, NEW q \in Seq(Unit), Continues(u, q), NEW n \in 0..Len(q)
    PROVE  LET a == SubSeq(q, 1, n)
               b == Drop(q, n) IN
           /\ Continues(u, a) /\ Continues(LastOf(u, a), b)
           /\ LastOf(LastOf(u, a), b) = LastOf(u, q)
<1> DEFINE a == SubSeq(q, 1, n)
           b == Drop(q, n)
<1>1. /\ a \in Seq(Unit) /\ Len(a) = n /\ \A i \in 1..n : a[i] = q[i]
      /\ b \in Seq(Unit) /\ Len(b) = Len(q) - n /\ \A i \in 1..(Len(q) - n) : b[i] = q[n + i]
      /\ Len(q) \in Nat
  BY TakeFacts, DropFacts
<1> HIDE DEF a, b
<1>2. Chain(a)
  <2> SUFFICES ASSUME NEW i \in 1..(Len(a) - 1) PROVE Follows(a[i], a[i + 1])
    BY DEF Chain
  <2>1. i \in 1..n /\ i + 1 \in 1..n /\ i \in 1..(Len(q) - 1)
    BY <1>1
  <2> QED
    BY <1>1, <2>1 DEF Continues, Chain
<1>3. Chain(b)
  <2> SUFFICES ASSUME NEW i \in 1..(Len(b) - 1) PROVE Follows(b[i], b[i + 1])
    BY DEF Chain
  <2> DEFINE k == n + i
  <2>1. /\ i \in 1..(Len(q) - n) /\ i + 1 \in 1..(Len(q) - n) /\ k \in 1..(Len(q) - 1)
        /\ n + (i + 1) = k + 1
    BY <1>1
  <2>2. b[i] = q[k] /\ b[i + 1] = q[k + 1]
    BY <1>1, <2>1
  <2> HIDE DEF k
  <2> QED
    BY <2>1, <2>2 DEF Continues, Chain
<1>4. CASE n = 0
  <2>1. a = <<>> /\ b = q
    BY <1>1, <1>4, SeqEqual
  <2> QED
    BY <2>1 DEF LastOf, Continues, Chain, a, b
<1>5. CASE n # 0
  <2>1. n \in 1..n /\ 1 \in 1..n
    BY <1>5
  <2>2. a # <<>> /\ a[1] = q[1] /\ a[Len(a)] = q[n] /\ q # <<>>
    BY <1>1, <2>1
  <2>3. Continues(u, a) /\ LastOf(u, a) = q[n]
    BY <1>2, <2>2 DEF Continues, LastOf
  <2>4. CASE n = Len(q)
    <3>1. b = <<>>
      BY <1>1, <2>4
    <3> QED
      BY <1>3, <2>2, <2>3, <2>4, <3>1 DEF Continues, LastOf, a, b
  <2>5. CASE n # Len(q)
    <3>1. n \in 1..(Len(q) - 1) /\ 1 \in 1..(Len(q) - n) /\ Len(q) - n \in 1..(Len(q) - n)
      BY <1>1, <1>5, <2>5
    <3>2. b # <<>> /\ b[1] = q[n + 1] /\ b[Len(b)] = q[Len(q)]
      <4> DEFINE k == Len(q) - n
      <4>1. k \in 1..k /\ n + k = Len(q) /\ Len(b) = k /\ \A i \in 1..k : b[i] = q[n + i]
        BY <1>1, <3>1
      <4> HIDE DEF k
      <4> QED
        BY <1>1, <3>1, <4>1
    <3>3. Follows(q[n], q[n + 1])
      BY <3>1 DEF Continues, Chain
    <3> QED
      BY <1>3, <2>2, <2>3, <3>2, <3>3 DEF Continues, LastOf, a, b
  <2> QED
    BY <2>4, <2>5
<1> QED
  BY <1>4, <1>5 DEF a, b

\* A frame's units are a framed queue of their own.
LEMMA UnitsFacts ==
    ASSUME NEW f \in Frame
    PROVE  /\ Units(f) \in Seq(Unit) /\ Len(Units(f)) = f.len /\ Units(f) # <<>>
           /\ \A i \in 1..f.len : Units(f)[i] = [frame |-> f, part |-> i]
           /\ Framed(Units(f))
<1> DEFINE us == Units(f)
<1>1. f.len \in Nat /\ f.len >= 1
  BY DEF Frame
<1>2. \A i \in 1..f.len : us[i] = [frame |-> f, part |-> i]
  BY DEF Units
<1>3. ASSUME NEW i \in 1..f.len PROVE [frame |-> f, part |-> i] \in Unit
  BY <1>1 DEF Unit
<1>4. us \in Seq(Unit) /\ Len(us) = f.len
  BY <1>1, <1>3 DEF Units
<1> HIDE DEF us
<1>5. us # <<>>
  BY <1>1, <1>4
<1>6. ASSUME NEW i \in 1..(Len(us) - 1) PROVE Follows(us[i], us[i + 1])
  <2>1. i \in 1..f.len /\ i + 1 \in 1..f.len /\ i # f.len
    BY <1>1, <1>4
  <2>2. us[i] = [frame |-> f, part |-> i] /\ us[i + 1] = [frame |-> f, part |-> i + 1]
    BY <1>2, <2>1
  <2>3. us[i].frame = f /\ us[i].part = i /\ us[i + 1].frame = f /\ us[i + 1].part = i + 1
    BY <2>2
  <2> QED
    BY <2>1, <2>3 DEF Follows, Delimiter
<1>7. us[1].part = 1 /\ Delimiter(us[Len(us)])
  <2>1. 1 \in 1..f.len /\ f.len \in 1..f.len
    BY <1>1
  <2>2. us[1] = [frame |-> f, part |-> 1] /\ us[f.len] = [frame |-> f, part |-> f.len]
    BY <1>2, <2>1
  <2> QED
    BY <1>4, <2>2 DEF Delimiter
<1> QED
  BY <1>2, <1>4, <1>5, <1>6, <1>7 DEF Framed, Chain, Closed, us

\* After a delimiter a whole frame may follow, and nothing else.
LEMMA FramedAfterDelimiter ==
    ASSUME NEW u \in Unit, Delimiter(u), NEW q \in Seq(Unit)
    PROVE  Framed(q) <=> Continues(u, q) /\ Closed(q)
  BY DEF Framed, Continues, Follows

LEMMA SilenceFacts == Silence \in Unit /\ Delimiter(Silence)
<1>1. Control("READY", 0) \in Frame /\ Control("READY", 0).len = ControlLen
  <2>1. <<>> \in Seq(Byte)
    OBVIOUS
  <2>2. ControlLen \in Nat \ {0}
    BY LinkAssumption DEF LinkAssumption
  <2> QED
    BY <2>1, <2>2 DEF Control, Frame, FrameTypes
<1>2. ControlLen \in Nat \ {0}
  BY LinkAssumption DEF LinkAssumption
<1> QED
  BY <1>1, <1>2 DEF Silence, Unit, Delimiter

LEMMA LastOfFacts ==
    ASSUME NEW u \in Unit, NEW q \in Seq(Unit)
    PROVE  LastOf(u, q) \in Unit /\ (Closed(q) /\ q # <<>> => Delimiter(LastOf(u, q)))
<1>1. q # <<>> => Len(q) \in 1..Len(q)
  OBVIOUS
<1> QED
  BY <1>1 DEF LastOf, Closed

\* A frame queued behind whole frames.
LEMMA AppendFrame ==
    ASSUME NEW u \in Unit, NEW q \in Seq(Unit), NEW f \in Frame,
           Continues(u, q), Closed(q), q # <<>> \/ Delimiter(u)
    PROVE  LET w == q \o Units(f) IN
           /\ w \in Seq(Unit) /\ Len(w) = Len(q) + f.len
           /\ \A i \in 1..Len(q) : w[i] = q[i]
           /\ Continues(u, w) /\ Closed(w)
<1> DEFINE us == Units(f)
           w == q \o us
<1>1. us \in Seq(Unit) /\ Len(us) = f.len /\ us # <<>> /\ Framed(us)
  BY UnitsFacts
<1> HIDE DEF us
<1>2. w \in Seq(Unit) /\ Len(w) = Len(q) + f.len /\ \A i \in 1..Len(q) : w[i] = q[i]
  BY <1>1, ConcatFacts
<1>3. LastOf(u, q) \in Unit /\ Delimiter(LastOf(u, q))
  BY LastOfFacts DEF LastOf
<1>4. Continues(LastOf(u, q), us)
  BY <1>1, <1>3, FramedAfterDelimiter
<1>5. Continues(u, w) /\ LastOf(u, w) = LastOf(LastOf(u, q), us)
  BY <1>1, <1>4, JoinStreams
<1>6. Closed(w)
  <2>1. Delimiter(LastOf(LastOf(u, q), us))
    BY <1>1, <1>3, LastOfFacts DEF Framed
  <2> HIDE DEF w
  <2> QED
    BY <1>5, <2>1 DEF LastOf, Closed
<1> QED
  BY <1>2, <1>5, <1>6 DEF us

LEMMA AppendFramed ==
    ASSUME NEW q \in Seq(Unit), NEW f \in Frame, Framed(q)
    PROVE  /\ Framed(q \o Units(f)) /\ q \o Units(f) \in Seq(Unit)
           /\ Len(q \o Units(f)) = Len(q) + f.len
<1>1. Continues(Silence, q) /\ Closed(q)
  BY SilenceFacts, FramedAfterDelimiter
<1> DEFINE w == q \o Units(f)
<1>2. w \in Seq(Unit) /\ Continues(Silence, w) /\ Closed(w) /\ Len(w) = Len(q) + f.len
  BY <1>1, SilenceFacts, AppendFrame
<1> HIDE DEF w
<1>3. Framed(w)
  BY <1>2, SilenceFacts, FramedAfterDelimiter
<1> QED
  BY <1>2, <1>3 DEF w

\* A queue cut back to the end of its first frame.
LEMMA TruncateFacts ==
    ASSUME NEW u \in Unit, NEW q \in Seq(Unit), Continues(u, q),
           NEW n \in 1..Len(q), Delimiter(q[n])
    PROVE  LET w == truncate_ringbuf(q, n) IN
           /\ w \in Seq(Unit) /\ Len(w) = n /\ \A i \in 1..n : w[i] = q[i]
           /\ Continues(u, w) /\ Closed(w)
<1>1. truncate_ringbuf(q, n) = SubSeq(q, 1, n)
  BY DEF truncate_ringbuf, Lesser
<1> DEFINE w == SubSeq(q, 1, n)
<1>2. n \in 0..Len(q)
  OBVIOUS
<1>3. w \in Seq(Unit) /\ Len(w) = n /\ \A i \in 1..n : w[i] = q[i]
  BY <1>2, TakeFacts
<1>4. Continues(u, w)
  BY <1>2, CutStream
<1> HIDE DEF w
<1>5. Closed(w)
  BY <1>3 DEF Closed
<1> QED
  BY <1>1, <1>3, <1>4, <1>5 DEF w

-----------------------------------------------------------------------------
(* The session's operations keep its queues framed.                        *)

LEMMA EmptyFramed == Framed(<<>>) /\ <<>> \in Seq(Unit) /\ Len(<<>>) = 0
  BY DEF Framed, Chain, Closed

\* A frame more in the control queue, or in the data queue.
LEMMA QueueControl ==
    ASSUME NEW s, NEW u \in Unit, Sound(s, u), NEW f \in Frame
    PROVE  Sound(queue_control_frame(s, f), u)
<1>1. CASE ~CanQueue(s, f)
  BY <1>1 DEF queue_control_frame
<1>2. CASE CanQueue(s, f)
  <2> DEFINE q == s.control_tx
             w == q \o Units(f)
             t == [s EXCEPT !.control_tx = w]
  <2>1. queue_control_frame(s, f) = t
    BY <1>2 DEF queue_control_frame
  <2>2. s \in Session /\ q \in Seq(Unit) /\ s.tx \in Seq(Unit) /\ s.remaining \in Nat
    BY DEF Sound, SessionOK, Session
  <2>3. Len(q) + f.len <= ControlCap
    <3>1. f.len \in Nat /\ Len(q) \in Nat /\ ControlCap \in Nat
      BY <2>2, LinkAssumption DEF Frame, LinkAssumption
    <3> QED
      BY <1>2, <3>1 DEF CanQueue, HasRoom
  <2>4. s.active # "CONTROL" => Framed(w) /\ w \in Seq(Unit) /\ Len(w) = Len(q) + f.len
    BY <2>2, AppendFramed DEF Sound, SessionFramed
  <2>5. s.active = "CONTROL" => /\ w \in Seq(Unit) /\ Len(w) = Len(q) + f.len
                                /\ s.remaining \in 1..Len(w) /\ w[s.remaining] = q[s.remaining]
                                /\ Continues(u, w) /\ Closed(w)
    <3> SUFFICES ASSUME s.active = "CONTROL"
                 PROVE  /\ w \in Seq(Unit) /\ Len(w) = Len(q) + f.len
                        /\ s.remaining \in 1..Len(w) /\ w[s.remaining] = q[s.remaining]
                        /\ Continues(u, w) /\ Closed(w)
      OBVIOUS
    <3>1. s.remaining \in 1..Len(q) /\ Continues(u, q) /\ Closed(q)
      BY DEF Sound, SessionFramed, ActiveQueue
    <3>2. q # <<>>
      BY <2>2, <3>1
    <3>3. /\ w \in Seq(Unit) /\ Len(w) = Len(q) + f.len /\ \A i \in 1..Len(q) : w[i] = q[i]
          /\ Continues(u, w) /\ Closed(w)
      BY <2>2, <3>1, <3>2, AppendFrame
    <3>4. f.len \in Nat /\ Len(q) \in Nat
      BY <2>2 DEF Frame
    <3> HIDE DEF w
    <3> QED
      BY <3>1, <3>3, <3>4
  <2> HIDE DEF w
  <2>6. w \in Seq(Unit) /\ Len(w) <= ControlCap
    BY <2>3, <2>4, <2>5
  <2>7. /\ t \in Session /\ t.control_tx = w /\ t.tx = s.tx /\ t.active = s.active
        /\ t.remaining = s.remaining
    BY <2>2, <2>6 DEF Session
  <2> HIDE DEF t
  <2>8. SessionOK(t)
    BY <2>6, <2>7 DEF SessionOK, Sound
  <2>9. SessionFramed(t, u)
    BY <2>4, <2>5, <2>7 DEF SessionFramed, Sound, ActiveQueue
  <2> QED
    BY <2>1, <2>8, <2>9 DEF Sound
<1> QED
  BY <1>1, <1>2

LEMMA QueueData ==
    ASSUME NEW s, NEW u \in Unit, Sound(s, u), NEW f \in Frame, HasRoom(s.tx, SessionTxCap, f)
    PROVE  Sound([s EXCEPT !.tx = @ \o Units(f), !.tx_seq_next = (@ + 1) % SeqMod], u)
<1> DEFINE q == s.tx
           w == q \o Units(f)
           k == (s.tx_seq_next + 1) % SeqMod
           t == [s EXCEPT !.tx = w, !.tx_seq_next = k]
<1>1. /\ s \in Session /\ q \in Seq(Unit) /\ s.remaining \in Nat
      /\ s.active \in {"NONE", "CONTROL", "DATA"}
  BY DEF Sound, SessionOK, Session
<1>2. k \in 0..(SeqMod - 1)
  <2>1. s.tx_seq_next + 1 \in Nat /\ SeqMod \in Nat \ {0}
    BY <1>1, LinkAssumption DEF Session, LinkAssumption
  <2> QED
    BY <2>1
<1>3. Len(q) + f.len <= SessionTxCap
  <2>1. f.len \in Nat /\ Len(q) \in Nat /\ SessionTxCap \in Nat
    BY <1>1, LinkAssumption DEF Frame, LinkAssumption
  <2> QED
    BY <2>1 DEF HasRoom
<1>4. s.active # "DATA" => Framed(w) /\ w \in Seq(Unit) /\ Len(w) = Len(q) + f.len
  BY <1>1, AppendFramed DEF Sound, SessionFramed
<1>5. s.active = "DATA" => /\ w \in Seq(Unit) /\ Len(w) = Len(q) + f.len
                           /\ s.remaining \in 1..Len(w) /\ w[s.remaining] = q[s.remaining]
                           /\ Continues(u, w) /\ Closed(w)
  <2> SUFFICES ASSUME s.active = "DATA"
               PROVE  /\ w \in Seq(Unit) /\ Len(w) = Len(q) + f.len
                      /\ s.remaining \in 1..Len(w) /\ w[s.remaining] = q[s.remaining]
                      /\ Continues(u, w) /\ Closed(w)
    OBVIOUS
  <2>1. s.remaining \in 1..Len(q) /\ Continues(u, q) /\ Closed(q)
    BY DEF Sound, SessionFramed, ActiveQueue
  <2>2. q # <<>>
    BY <1>1, <2>1
  <2>3. /\ w \in Seq(Unit) /\ Len(w) = Len(q) + f.len /\ \A i \in 1..Len(q) : w[i] = q[i]
        /\ Continues(u, w) /\ Closed(w)
    BY <1>1, <2>1, <2>2, AppendFrame
  <2>4. f.len \in Nat /\ Len(q) \in Nat
    BY <1>1 DEF Frame
  <2> HIDE DEF w
  <2> QED
    BY <2>1, <2>3, <2>4
<1> HIDE DEF w, k
<1>6. w \in Seq(Unit) /\ Len(w) <= SessionTxCap
  BY <1>3, <1>4, <1>5
<1>7. /\ t \in Session /\ t.control_tx = s.control_tx /\ t.tx = w /\ t.active = s.active
      /\ t.remaining = s.remaining
  BY <1>1, <1>2, <1>6 DEF Session
<1> HIDE DEF t
<1>8. SessionOK(t)
  BY <1>6, <1>7 DEF SessionOK, Sound
<1>9. SessionFramed(t, u)
  <2>1. CASE s.active = "DATA"
    BY <1>5, <1>7, <2>1 DEF SessionFramed, Sound, ActiveQueue
  <2>2. CASE s.active # "DATA"
    <3>1. s.active # "NONE" => ActiveQueue(t) = ActiveQueue(s)
      BY <1>1, <1>7, <2>2 DEF ActiveQueue
    <3> QED
      BY <1>4, <1>7, <2>2, <3>1 DEF SessionFramed, Sound
  <2> QED
    BY <2>1, <2>2
<1> QED
  BY <1>8, <1>9 DEF Sound, t, w, k

\* The data queue is emptied, but for a frame that has begun.
KeptData(s) == IF s.active = "DATA" THEN truncate_ringbuf(s.tx, s.remaining) ELSE <<>>
KeptControl(s) == IF s.active = "CONTROL" THEN truncate_ringbuf(s.control_tx, s.remaining) ELSE <<>>

LEMMA CutData ==
    ASSUME NEW s, NEW u \in Unit, Sound(s, u), NEW t \in Session,
           t.tx = KeptData(s), t.control_tx = s.control_tx, t.active = s.active,
           t.remaining = s.remaining
    PROVE  Sound(t, u)
<1>1. /\ s \in Session /\ s.tx \in Seq(Unit) /\ Len(s.tx) <= SessionTxCap
      /\ Len(s.tx) \in Nat /\ SessionTxCap \in Nat
  BY LinkAssumption DEF Sound, SessionOK, Session, LinkAssumption
<1>2. CASE s.active = "DATA"
  <2>1. /\ s.remaining \in 1..Len(s.tx) /\ Continues(u, s.tx)
        /\ Delimiter(s.tx[s.remaining])
    BY <1>2 DEF Sound, SessionFramed, ActiveQueue
  <2>2. /\ t.tx \in Seq(Unit) /\ Len(t.tx) = s.remaining
        /\ t.tx[s.remaining] = s.tx[s.remaining]
        /\ Continues(u, t.tx) /\ Closed(t.tx)
    BY <1>1, <1>2, <2>1, TruncateFacts DEF KeptData
  <2>3. Len(t.tx) <= SessionTxCap /\ s.remaining \in 1..Len(t.tx)
    BY <1>1, <2>1, <2>2
  <2> QED
    BY <1>1, <1>2, <2>1, <2>2, <2>3 DEF Sound, SessionOK, SessionFramed, ActiveQueue
<1>3. CASE s.active # "DATA"
  <2>1. t.tx = <<>> /\ Framed(t.tx) /\ Len(t.tx) <= SessionTxCap
    BY <1>1, <1>3, EmptyFramed DEF KeptData
  <2>2. s.active # "NONE" => ActiveQueue(t) = ActiveQueue(s)
    BY <1>1, <1>3 DEF ActiveQueue, Session
  <2> QED
    BY <1>1, <1>3, <2>1, <2>2 DEF Sound, SessionOK, SessionFramed
<1> QED
  BY <1>2, <1>3

LEMMA CutControl ==
    ASSUME NEW s, NEW u \in Unit, Sound(s, u), NEW t \in Session,
           t.control_tx = KeptControl(s), t.tx = s.tx, t.active = s.active,
           t.remaining = s.remaining
    PROVE  Sound(t, u)
<1>1. /\ s \in Session /\ s.control_tx \in Seq(Unit) /\ Len(s.control_tx) <= ControlCap
      /\ Len(s.control_tx) \in Nat /\ ControlCap \in Nat
  BY LinkAssumption DEF Sound, SessionOK, Session, LinkAssumption
<1>2. CASE s.active = "CONTROL"
  <2> DEFINE q == s.control_tx
  <2>1. s.remaining \in 1..Len(q) /\ Continues(u, q) /\ Delimiter(q[s.remaining])
    BY <1>2 DEF Sound, SessionFramed, ActiveQueue
  <2>2. /\ t.control_tx \in Seq(Unit) /\ Len(t.control_tx) = s.remaining
        /\ t.control_tx[s.remaining] = q[s.remaining]
        /\ Continues(u, t.control_tx) /\ Closed(t.control_tx)
    BY <1>1, <1>2, <2>1, TruncateFacts DEF KeptControl
  <2>3. Len(t.control_tx) <= ControlCap /\ s.remaining \in 1..Len(t.control_tx)
    BY <1>1, <2>1, <2>2
  <2> QED
    BY <1>1, <1>2, <2>1, <2>2, <2>3 DEF Sound, SessionOK, SessionFramed, ActiveQueue
<1>3. CASE s.active # "CONTROL"
  <2>1. t.control_tx = <<>> /\ Framed(t.control_tx) /\ Len(t.control_tx) <= ControlCap
    BY <1>1, <1>3, EmptyFramed DEF KeptControl
  <2> QED
    BY <1>1, <1>3, <2>1 DEF Sound, SessionOK, SessionFramed, ActiveQueue
<1> QED
  BY <1>2, <1>3

LEMMA KeptFacts ==
    ASSUME NEW s, NEW u \in Unit, Sound(s, u)
    PROVE  KeptData(s) \in Seq(Unit) /\ KeptControl(s) \in Seq(Unit)
<1>1. /\ s \in Session /\ s.tx \in Seq(Unit) /\ s.control_tx \in Seq(Unit)
  BY DEF Sound, SessionOK, Session
<1>2. s.active = "DATA" => /\ s.remaining \in 1..Len(s.tx) /\ Continues(u, s.tx)
                           /\ Delimiter(s.tx[s.remaining])
  BY DEF Sound, SessionFramed, ActiveQueue
<1>3. s.active = "CONTROL" => /\ s.remaining \in 1..Len(s.control_tx) /\ Continues(u, s.control_tx)
                              /\ Delimiter(s.control_tx[s.remaining])
  BY DEF Sound, SessionFramed, ActiveQueue
<1>4. KeptData(s) \in Seq(Unit)
  BY <1>1, <1>2, EmptyFramed, TruncateFacts DEF KeptData
<1>5. KeptControl(s) \in Seq(Unit)
  BY <1>1, <1>3, EmptyFramed, TruncateFacts DEF KeptControl
<1> QED
  BY <1>4, <1>5

\* mc_link_session_drop_queued_data and the two link resets.
LEMMA ResetsSound ==
    ASSUME NEW s, NEW u \in Unit, Sound(s, u)
    PROVE  /\ Sound(mc_link_session_drop_queued_data(s), u)
           /\ Sound(reset_link_state_preserving_control_tx(s), u)
           /\ Sound(reset_link_state(s), u)
<1>0. s \in Session /\ KeptData(s) \in Seq(Unit) /\ KeptControl(s) \in Seq(Unit) /\ 0 \in 0..(SeqMod - 1)
  BY KeptFacts, LinkAssumption DEF Sound, SessionOK, LinkAssumption
<1>1. Sound(mc_link_session_drop_queued_data(s), u)
  <2> DEFINE t == mc_link_session_drop_queued_data(s)
  <2>1. /\ t \in Session /\ t.tx = KeptData(s) /\ t.control_tx = s.control_tx
        /\ t.active = s.active /\ t.remaining = s.remaining
    <3>1. t = [s EXCEPT !.tx = KeptData(s)]
      BY DEF mc_link_session_drop_queued_data, KeptData
    <3> HIDE DEF t
    <3> QED
      BY <1>0, <3>1 DEF Session
  <2> HIDE DEF t
  <2>2. Sound(t, u)
    BY <2>1, CutData
  <2> QED
    BY <2>2 DEF t
<1> DEFINE t == reset_link_state_preserving_control_tx(s)
<1>2. /\ t \in Session /\ t.tx = KeptData(s) /\ t.control_tx = s.control_tx
      /\ t.active = s.active /\ t.remaining = s.remaining
  <2>1. t = [s EXCEPT !.tx_seq_next = 0, !.rx_seq_expected = 0, !.tx = KeptData(s)]
    BY DEF reset_link_state_preserving_control_tx, KeptData
  <2> HIDE DEF t
  <2> QED
    BY <1>0, <2>1 DEF Session
<1>3. reset_link_state(s) = [t EXCEPT !.control_tx = KeptControl(s)]
  <2>1. reset_link_state(s) =
          [t EXCEPT !.control_tx = IF s.active = "CONTROL" THEN truncate_ringbuf(@, s.remaining)
                                   ELSE <<>>]
    BY DEF reset_link_state
  <2> HIDE DEF t
  <2> QED
    BY <1>2, <2>1 DEF KeptControl
<1> HIDE DEF t
<1>4. Sound(t, u)
  BY <1>2, CutData
<1> DEFINE v == reset_link_state(s)
<1>5. /\ v \in Session /\ v.control_tx = KeptControl(t) /\ v.tx = t.tx
      /\ v.active = t.active /\ v.remaining = t.remaining
  <2>1. KeptControl(t) = KeptControl(s)
    BY <1>2 DEF KeptControl
  <2>2. v = [t EXCEPT !.control_tx = KeptControl(s)]
    BY <1>3
  <2> HIDE DEF v
  <2> QED
    BY <1>0, <1>2, <2>1, <2>2 DEF Session
<1> HIDE DEF v
<1>6. Sound(v, u)
  BY <1>4, <1>5, CutControl
<1> QED
  BY <1>1, <1>4, <1>6 DEF t, v

\* next_frame_len finds the end of the first frame of a closed queue.
LEMMA NextFrame ==
    ASSUME NEW q \in Seq(Unit), Closed(q)
    PROVE  /\ q = <<>> => next_frame_len(q) = 0
           /\ q # <<>> => /\ next_frame_len(q) \in 1..Len(q)
                          /\ Delimiter(q[next_frame_len(q)])
                          /\ \A j \in 1..(next_frame_len(q) - 1) : ~Delimiter(q[j])
<1>1. CASE q = <<>>
  <2>1. ~\E i \in 1..Len(q) : Delimiter(q[i])
    BY <1>1
  <2> QED
    BY <1>1, <2>1 DEF next_frame_len
<1>2. CASE q # <<>>
  <2> DEFINE T == {i \in 1..Len(q) : Delimiter(q[i])}
             First(i) == Delimiter(q[i]) /\ \A j \in 1..(i - 1) : ~Delimiter(q[j])
  <2>1. Len(q) \in Nat /\ Len(q) \in T
    BY <1>2 DEF Closed
  <2>2. PICK i \in T : \A j \in T : i <= j
    <3>1. T \subseteq Nat /\ T # {}
      BY <2>1
    <3> HIDE DEF T
    <3> QED
      BY <3>1, Least
  <2>3. i \in 1..Len(q) /\ First(i)
    <3>1. ASSUME NEW j \in 1..(i - 1) PROVE ~Delimiter(q[j])
      <4>1. j \in 1..Len(q) /\ ~(i <= j)
        BY <2>1
      <4> QED
        BY <2>2, <4>1
    <3> QED
      BY <3>1
  <2>4. next_frame_len(q) = CHOOSE k \in 1..Len(q) : First(k)
    BY <2>3 DEF next_frame_len
  <2> HIDE DEF First
  <2>5. next_frame_len(q) \in 1..Len(q) /\ First(next_frame_len(q))
    BY <2>3, <2>4
  <2> QED
    BY <1>2, <2>5 DEF First
<1> QED
  BY <1>1, <1>2

\* read_tx picks a frame, unless there is none.
LEMMA ActivatedSound ==
    ASSUME NEW s, NEW u \in Unit, Sound(s, u)
    PROVE  LET a == Activated(s) IN
           /\ Sound(a, u)
           /\ a.tx = s.tx /\ a.control_tx = s.control_tx /\ a.tx_seq_next = s.tx_seq_next
           /\ a.rx_seq_expected = s.rx_seq_expected
           /\ a.active = "NONE" => a = s /\ s.tx = <<>> /\ s.control_tx = <<>>
           /\ s.active # "NONE" => a = s
<1>1. /\ s \in Session /\ s.tx \in Seq(Unit) /\ s.control_tx \in Seq(Unit)
      /\ s.active \in {"NONE", "CONTROL", "DATA"}
  BY DEF Sound, SessionOK, Session
<1>2. CASE s.active # "NONE"
  BY <1>2 DEF Activated
<1>3. CASE s.active = "NONE"
  <2> DEFINE k == next_frame_len(s.control_tx)
             n == next_frame_len(s.tx)
  <2>1. /\ Delimiter(u) /\ Framed(s.control_tx) /\ Framed(s.tx)
        /\ Closed(s.control_tx) /\ Closed(s.tx)
    BY <1>3 DEF Sound, SessionFramed, Framed
  <2>2. Continues(u, s.control_tx) /\ Continues(u, s.tx)
    BY <1>1, <2>1, FramedAfterDelimiter
  <2>3. /\ s.control_tx = <<>> => k = 0
        /\ s.control_tx # <<>> => k \in 1..Len(s.control_tx) /\ Delimiter(s.control_tx[k])
        /\ s.tx = <<>> => n = 0
        /\ s.tx # <<>> => n \in 1..Len(s.tx) /\ Delimiter(s.tx[n])
    BY <1>1, <2>1, NextFrame
  <2> HIDE DEF k, n
  <2>4. CASE s.control_tx # <<>>
    <3> DEFINE a == [s EXCEPT !.active = "CONTROL", !.remaining = k]
    <3>1. k > 0 /\ k \in Nat /\ k \in 1..Len(s.control_tx) /\ Delimiter(s.control_tx[k])
      BY <2>3, <2>4
    <3>2. Activated(s) = a
      BY <1>3, <3>1 DEF Activated, k
    <3>3. /\ a \in Session /\ a.tx = s.tx /\ a.control_tx = s.control_tx /\ a.active = "CONTROL"
          /\ a.remaining = k /\ a.tx_seq_next = s.tx_seq_next
          /\ a.rx_seq_expected = s.rx_seq_expected
      BY <1>1, <3>1 DEF Session
    <3> HIDE DEF a
    <3>4. SessionOK(a)
      BY <3>3 DEF Sound, SessionOK
    <3>5. SessionFramed(a, u)
      BY <2>1, <2>2, <3>1, <3>3 DEF SessionFramed, ActiveQueue
    <3> QED
      BY <1>3, <3>2, <3>3, <3>4, <3>5 DEF Sound
  <2>5. CASE s.control_tx = <<>> /\ s.tx # <<>>
    <3> DEFINE a == [s EXCEPT !.active = "DATA", !.remaining = n]
    <3>1. n > 0 /\ n \in Nat /\ k = 0 /\ n \in 1..Len(s.tx) /\ Delimiter(s.tx[n])
      BY <2>3, <2>5
    <3>2. Activated(s) = a
      BY <1>3, <3>1 DEF Activated, k, n
    <3>3. /\ a \in Session /\ a.tx = s.tx /\ a.control_tx = s.control_tx /\ a.active = "DATA"
          /\ a.remaining = n /\ a.tx_seq_next = s.tx_seq_next
          /\ a.rx_seq_expected = s.rx_seq_expected
      BY <1>1, <3>1 DEF Session
    <3> HIDE DEF a
    <3>4. SessionOK(a)
      BY <3>3 DEF Sound, SessionOK
    <3>5. SessionFramed(a, u)
      BY <2>1, <2>2, <3>1, <3>3 DEF SessionFramed, ActiveQueue
    <3> QED
      BY <1>3, <3>2, <3>3, <3>4, <3>5 DEF Sound
  <2>6. CASE s.control_tx = <<>> /\ s.tx = <<>>
    <3>1. Activated(s) = s
      BY <1>3, <2>3, <2>6 DEF Activated, k, n
    <3> QED
      BY <1>3, <2>6, <3>1
  <2> QED
    BY <2>4, <2>5, <2>6
<1> QED
  BY <1>2, <1>3

\* What is left of a queue when its first n units are read, of the r units
\* that remain of its first frame.
ReadOff(u, q, r, n) ==
    LET b == SubSeq(q, 1, n)
        d == Drop(q, n) IN
    /\ b \in Seq(Unit) /\ Len(b) = n /\ Continues(u, b) /\ LastOf(u, b) = q[n]
    /\ d \in Seq(Unit) /\ Len(d) = Len(q) - n /\ Continues(q[n], d) /\ Closed(d)
    /\ n < r => r - n \in 1..Len(d) /\ Delimiter(d[r - n])
    /\ n = r => Framed(d)

LEMMA ReadQueue ==
    ASSUME NEW u \in Unit, NEW q \in Seq(Unit), Continues(u, q), Closed(q),
           NEW r \in 1..Len(q), Delimiter(q[r]), NEW n \in 1..r
    PROVE  ReadOff(u, q, r, n)
<1> DEFINE b == SubSeq(q, 1, n)
           d == Drop(q, n)
<1>0. n \in 0..Len(q) /\ n \in 1..Len(q) /\ Len(q) \in Nat
  OBVIOUS
<1>1. /\ b \in Seq(Unit) /\ Len(b) = n /\ \A i \in 1..n : b[i] = q[i]
      /\ d \in Seq(Unit) /\ Len(d) = Len(q) - n /\ \A i \in 1..(Len(q) - n) : d[i] = q[n + i]
  <2>1. b \in Seq(Unit) /\ Len(b) = n /\ \A i \in 1..n : b[i] = q[i]
    BY <1>0, TakeFacts
  <2>2. d \in Seq(Unit) /\ Len(d) = Len(q) - n /\ \A i \in 1..(Len(q) - n) : d[i] = q[n + i]
    BY <1>0, DropFacts
  <2> QED
    BY <2>1, <2>2
<1>2. Continues(u, b) /\ Continues(LastOf(u, b), d)
  BY <1>0, CutStream
<1> HIDE DEF b, d
<1>3. LastOf(u, b) = q[n] /\ q[n] \in Unit
  BY <1>0, <1>1 DEF LastOf
<1>4. Closed(d)
  <2>1. CASE n = Len(q)
    <3>1. d = <<>>
      BY <1>1, <2>1
    <3> QED
      BY <3>1, EmptyFramed DEF Framed
  <2>2. CASE n # Len(q)
    <3> DEFINE k == Len(q) - n
    <3>1. k \in 1..k /\ n + k = Len(q) /\ Len(d) = k /\ \A i \in 1..k : d[i] = q[n + i]
      BY <1>0, <1>1, <2>2
    <3> HIDE DEF k
    <3>2. d[Len(d)] = q[Len(q)] /\ q # <<>>
      BY <1>0, <3>1
    <3> QED
      BY <3>2 DEF Closed
  <2> QED
    BY <2>1, <2>2
<1>5. n < r => r - n \in 1..Len(d) /\ Delimiter(d[r - n])
  <2> SUFFICES ASSUME n < r PROVE r - n \in 1..Len(d) /\ Delimiter(d[r - n])
    OBVIOUS
  <2> DEFINE k == r - n
  <2>1. k \in 1..(Len(q) - n) /\ n + k = r
    BY <1>0
  <2> HIDE DEF k
  <2>2. k \in 1..Len(d) /\ d[k] = q[r]
    BY <1>1, <2>1
  <2> QED
    BY <2>2 DEF k
<1>6. n = r => Framed(d)
  BY <1>1, <1>2, <1>3, <1>4, FramedAfterDelimiter
<1> QED
  BY <1>1, <1>2, <1>3, <1>4, <1>5, <1>6 DEF ReadOff, b, d

\* mc_link_session_read_tx takes the next units of the stream and leaves a
\* session that goes on after them.
LEMMA ReadSound ==
    ASSUME NEW s, NEW u \in Unit, Sound(s, u)
    PROVE  LET r == mc_link_session_read_tx(s) IN
           /\ r.buf \in Seq(Unit) /\ Len(r.buf) <= PendingCap
           /\ Continues(u, r.buf) /\ Sound(r.s, LastOf(u, r.buf))
<1> DEFINE a == Activated(s)
           n == Lesser(a.remaining, PendingCap)
           left == a.remaining - n
           act == IF left = 0 THEN "NONE" ELSE a.active
           q == ActiveQueue(a)
           r == mc_link_session_read_tx(s)
<1>0. PendingCap \in Nat /\ PendingCap >= 1 /\ SessionTxCap \in Nat /\ ControlCap \in Nat
  BY LinkAssumption DEF LinkAssumption
<1>1. Sound(a, u) /\ (a.active = "NONE" => a = s)
  BY ActivatedSound
<1>2. CASE a.active = "NONE"
  <2>1. r = [s |-> s, buf |-> <<>>]
    BY <1>2 DEF mc_link_session_read_tx
  <2> HIDE DEF r
  <2>2. r.buf = <<>> /\ r.s = s
    BY <2>1
  <2>3. Continues(u, <<>>) /\ LastOf(u, <<>>) = u
    BY EmptyFramed DEF Continues, LastOf, Framed
  <2> QED
    BY <1>0, <2>2, <2>3, EmptyFramed DEF r
<1>3. CASE a.active # "NONE"
  <2> DEFINE b == [a EXCEPT !.remaining = left, !.active = act]
             t == IF a.active = "CONTROL" THEN [b EXCEPT !.control_tx = Drop(@, n)]
                  ELSE [b EXCEPT !.tx = Drop(@, n)]
  <2>1. r = [s |-> t, buf |-> SubSeq(q, 1, n)]
    BY <1>3 DEF mc_link_session_read_tx
  <2> HIDE DEF a, r
  <2>2. /\ a \in Session /\ a.tx \in Seq(Unit) /\ a.control_tx \in Seq(Unit) /\ a.remaining \in Nat
        /\ a.active \in {"CONTROL", "DATA"} /\ q \in Seq(Unit)
        /\ Len(a.tx) <= SessionTxCap /\ Len(a.control_tx) <= ControlCap
    BY <1>1, <1>3 DEF Sound, SessionOK, Session, ActiveQueue
  <2>3. /\ a.remaining \in 1..Len(q) /\ Continues(u, q) /\ Closed(q)
        /\ Delimiter(q[a.remaining])
    BY <1>1, <1>3 DEF Sound, SessionFramed
  <2>4. n \in 1..a.remaining /\ n <= PendingCap /\ n \in Nat
    BY <1>0, <2>3 DEF Lesser
  <2> HIDE DEF n
  <2>5. left \in Nat /\ (left = 0 <=> n = a.remaining) /\ (left # 0 => n < a.remaining)
    BY <2>2, <2>4
  <2> DEFINE d == Drop(q, n)
             v == q[n]
  <2>6. /\ SubSeq(q, 1, n) \in Seq(Unit) /\ Len(SubSeq(q, 1, n)) = n
        /\ Continues(u, SubSeq(q, 1, n)) /\ LastOf(u, SubSeq(q, 1, n)) = v
        /\ d \in Seq(Unit) /\ Len(d) = Len(q) - n /\ Continues(v, d) /\ Closed(d)
        /\ n < a.remaining => a.remaining - n \in 1..Len(d) /\ Delimiter(d[a.remaining - n])
        /\ n = a.remaining => Framed(d)
    <3> DEFINE rem == a.remaining
    <3>1. /\ q \in Seq(Unit) /\ Continues(u, q) /\ Closed(q)
          /\ rem \in 1..Len(q) /\ Delimiter(q[rem]) /\ n \in 1..rem
      BY <2>2, <2>3, <2>4
    <3> HIDE DEF q, rem
    <3>2. ReadOff(u, q, rem, n)
      BY <3>1, ReadQueue
    <3> QED
      BY <3>2 DEF ReadOff, rem
  <2>7. Len(d) <= Len(q) /\ Len(q) \in Nat
    BY <2>2, <2>4, <2>6
  <2>8. n = a.remaining => Delimiter(v)
    BY <2>3
  <2>9. act \in {"NONE", "CONTROL", "DATA"}
    BY <2>2
  <2> HIDE DEF left, v, d
  <2>10. b \in Session /\ b.tx = a.tx /\ b.control_tx = a.control_tx /\ b.active = act /\ b.remaining = left
    <3> HIDE DEF act
    <3> QED
      BY <2>2, <2>5, <2>9 DEF Session
  <2> HIDE DEF b
  <2>11. CASE a.active = "CONTROL"
    <3>1. q = a.control_tx /\ Drop(a.control_tx, n) = d
      BY <2>11 DEF ActiveQueue, d
    <3>2. /\ t \in Session /\ t.tx = a.tx /\ t.control_tx = d /\ t.active = act /\ t.remaining = left
      <4>1. t = [b EXCEPT !.control_tx = d]
        BY <2>10, <2>11, <3>1
      <4> HIDE DEF t, act
      <4> QED
        BY <2>6, <2>10, <4>1 DEF Session
    <3>3. Len(d) <= ControlCap
      BY <1>0, <2>2, <2>7, <3>1
    <3> HIDE DEF t
    <3>4. SessionOK(t)
      BY <2>2, <3>2, <3>3 DEF SessionOK
    <3>5. Framed(a.tx)
      BY <1>1, <2>11 DEF Sound, SessionFramed
    <3>6. SessionFramed(t, v)
      <4>1. CASE left = 0
        <5>1. act = "NONE" /\ Framed(d) /\ Delimiter(v)
          BY <2>5, <2>6, <2>8, <4>1
        <5> QED
          BY <3>2, <3>5, <4>1, <5>1 DEF SessionFramed
      <4>2. CASE left # 0
        <5>1. act = "CONTROL" /\ left \in 1..Len(d) /\ Delimiter(d[left])
          BY <2>5, <2>6, <2>11, <4>2 DEF left
        <5>2. ActiveQueue(t) = d
          BY <3>2, <5>1 DEF ActiveQueue
        <5> QED
          BY <2>6, <3>2, <3>5, <5>1, <5>2 DEF SessionFramed
      <4> QED
        BY <4>1, <4>2
    <3> QED
      BY <2>1, <2>4, <2>6, <3>4, <3>6 DEF Sound, r, t
  <2>12. CASE a.active = "DATA"
    <3>1. q = a.tx /\ Drop(a.tx, n) = d
      BY <2>12 DEF ActiveQueue, d
    <3>2. /\ t \in Session /\ t.control_tx = a.control_tx /\ t.tx = d /\ t.active = act /\ t.remaining = left
      <4>1. t = [b EXCEPT !.tx = d]
        BY <2>10, <2>12, <3>1
      <4> HIDE DEF t, act
      <4> QED
        BY <2>6, <2>10, <4>1 DEF Session
    <3>3. Len(d) <= SessionTxCap
      BY <1>0, <2>2, <2>7, <3>1
    <3> HIDE DEF t
    <3>4. SessionOK(t)
      BY <2>2, <3>2, <3>3 DEF SessionOK
    <3>5. Framed(a.control_tx)
      BY <1>1, <2>12 DEF Sound, SessionFramed
    <3>6. SessionFramed(t, v)
      <4>1. CASE left = 0
        <5>1. act = "NONE" /\ Framed(d) /\ Delimiter(v)
          BY <2>5, <2>6, <2>8, <4>1
        <5> QED
          BY <3>2, <3>5, <4>1, <5>1 DEF SessionFramed
      <4>2. CASE left # 0
        <5>1. act = "DATA" /\ left \in 1..Len(d) /\ Delimiter(d[left])
          BY <2>5, <2>6, <2>12, <4>2 DEF left
        <5>2. ActiveQueue(t) = d
          BY <3>2, <5>1 DEF ActiveQueue
        <5> QED
          BY <2>6, <3>2, <3>5, <5>1, <5>2 DEF SessionFramed
      <4> QED
        BY <4>1, <4>2
    <3> QED
      BY <2>1, <2>4, <2>6, <3>4, <3>6 DEF Sound, r, t
  <2> QED
    BY <2>2, <2>11, <2>12
<1> QED
  BY <1>2, <1>3

-----------------------------------------------------------------------------
(* link_pending.                                                           *)

LEMMA UnsentFacts ==
    ASSUME NEW p, PendingOK(p)
    PROVE  /\ Unsent(p) \in Seq(Unit) /\ Len(Unsent(p)) = Len(p.buf) - p.pos
           /\ p.buf \in Seq(Unit) /\ p.pos \in 0..Len(p.buf) /\ Len(p.buf) \in Nat
           /\ p.pos = 0 => Unsent(p) = p.buf
<1>1. p.buf \in Seq(Unit) /\ p.pos \in 0..Len(p.buf) /\ Len(p.buf) \in Nat
  BY DEF PendingOK
<1>2. Drop(p.buf, p.pos) \in Seq(Unit) /\ Len(Drop(p.buf, p.pos)) = Len(p.buf) - p.pos
  BY <1>1, DropFacts
<1>3. p.pos = 0 => Drop(p.buf, p.pos) = p.buf
  BY <1>1 DEF Drop
<1> QED
  BY <1>1, <1>2, <1>3 DEF Unsent

LEMMA EmptyFacts ==
    PendingOK(Empty) /\ Unsent(Empty) = <<>>
<1>1. Empty.buf = <<>> /\ Empty.pos = 0 /\ PendingCap \in Nat
  BY LinkAssumption DEF Empty, LinkAssumption
<1>2. PendingOK(Empty)
  BY <1>1 DEF PendingOK, Empty
<1>3. Unsent(Empty) = Empty.buf
  BY <1>1, <1>2, UnsentFacts
<1> QED
  BY <1>1, <1>2, <1>3

\* One delimiter is as good as another.
LEMMA AnyDelimiter ==
    ASSUME NEW s, NEW u \in Unit, NEW v \in Unit, Delimiter(u), Delimiter(v), SessionFramed(s, v)
    PROVE  SessionFramed(s, u)
  BY DEF SessionFramed, Continues, Follows

\* drop_stale_link_tx_data: a frame in link_pending of which nothing has been
\* written may go, for the unit before it is a delimiter too.
LEMMA DropPending ==
    ASSUME NEW s, NEW p, NEW u \in Unit, Steady(s, p, u)
    PROVE  Steady(s, dropped_pending(s, p), u)
<1>1. CASE ~(p.pos = 0 /\ s.active # "DATA" /\ link_pending_is_data_m2c(p))
  BY <1>1 DEF dropped_pending
<1>2. CASE p.pos = 0 /\ s.active # "DATA" /\ link_pending_is_data_m2c(p)
  <2> DEFINE f == p.buf[1].frame
             v == LastOf(u, p.buf)
  <2>1. dropped_pending(s, p) = Empty
    BY <1>2 DEF dropped_pending
  <2>2. p.buf \in Seq(Unit) /\ p.buf # <<>> /\ p.buf = Units(f) /\ Unsent(p) = p.buf
    BY <1>2, UnsentFacts DEF link_pending_is_data_m2c, Steady
  <2>3. 1 \in 1..Len(p.buf)
    BY <2>2
  <2>4. p.buf[1] \in Unit
    BY <2>2, <2>3
  <2>5. f \in Frame
    BY <2>4 DEF Unit
  <2> HIDE DEF f
  <2>6. Framed(p.buf)
    BY <2>2, <2>5, UnitsFacts
  <2>7. Follows(u, p.buf[1]) /\ p.buf[1].part = 1
    BY <2>2, <2>6 DEF Steady, Continues, Framed
  <2>8. Delimiter(u)
    <3>1. u.part \in Nat \ {0}
      BY DEF Unit
    <3> QED
      BY <2>7, <3>1 DEF Follows
  <2>9. v \in Unit /\ Delimiter(v)
    BY <2>2, <2>6, LastOfFacts DEF Framed
  <2>10. SessionFramed(s, v) /\ SessionOK(s)
    BY <2>2 DEF Steady, Sound
  <2> HIDE DEF v
  <2>11. SessionFramed(s, u)
    BY <2>8, <2>9, <2>10, AnyDelimiter
  <2>12. Continues(u, <<>>) /\ LastOf(u, <<>>) = u
    BY EmptyFramed DEF Continues, LastOf, Framed
  <2> QED
    BY <2>1, <2>10, <2>11, <2>12, EmptyFacts DEF Steady, Sound
<1> QED
  BY <1>1, <1>2

LEMMA DropStale ==
    ASSUME NEW s, NEW p, NEW u \in Unit, Steady(s, p, u)
    PROVE  LET t == mc_link_session_drop_queued_data(s) IN Steady(t, dropped_pending(t, p), u)
<1> DEFINE t == mc_link_session_drop_queued_data(s)
<1>1. LastOf(u, Unsent(p)) \in Unit
  BY UnsentFacts, LastOfFacts DEF Steady
<1>2. Sound(t, LastOf(u, Unsent(p)))
  BY <1>1, ResetsSound DEF Steady
<1> HIDE DEF t
<1>3. Steady(t, p, u)
  BY <1>2 DEF Steady
<1> QED
  BY <1>3, DropPending DEF t

\* The session's operations, behind what is left of link_pending.
LEMMA SteadySession ==
    ASSUME NEW s, NEW p, NEW u \in Unit, Steady(s, p, u)
    PROVE  /\ Steady(reset_link_state(s), p, u)
           /\ Steady(reset_link_state_preserving_control_tx(s), p, u)
           /\ \A f \in Frame : Steady(queue_control_frame(s, f), p, u)
           /\ SessionOK(s) /\ PendingOK(p)
<1>1. LastOf(u, Unsent(p)) \in Unit
  BY UnsentFacts, LastOfFacts DEF Steady
<1> QED
  BY <1>1, ResetsSound, QueueControl DEF Steady, Sound

LEMMA ControlFacts ==
    ASSUME NEW type \in FrameTypes, NEW seq \in Nat
    PROVE  Control(type, seq) \in Frame
<1>1. ControlLen \in Nat \ {0} /\ <<>> \in Seq(Byte)
  BY LinkAssumption DEF LinkAssumption
<1> QED
  BY <1>1 DEF Control, Frame

LEMMA DataFacts ==
    ASSUME NEW seq \in Nat, NEW bytes \in Seq(Byte)
    PROVE  Data(seq, bytes) \in Frame
<1>1. Len(bytes) + 1 \in Nat \ {0} /\ "DATA_M2C" \in FrameTypes
  BY DEF FrameTypes
<1> QED
  BY <1>1 DEF Data, DataLen, Frame

-----------------------------------------------------------------------------
(* The firmware's steps.                                                   *)

\* What the receive and server pumps leave of the firmware.
Kept ==
    /\ Steady(session', pending', last)
    /\ tx_ring' \in Seq(Byte) /\ Len(tx_ring') <= TxRingCap
    /\ rx' # NoRx => rx'.link \in 0..MaxResets
    /\ server' \in [link : 0..MaxResets, out : 0..MaxOut]

LEMMA FreshFacts ==
    /\ FreshServer \in [link : 0..MaxResets, out : 0..MaxOut]
    /\ <<>> \in Seq(Byte) /\ Len(<<>>) = 0 /\ TxRingCap \in Nat /\ MaxOut \in Nat /\ MaxResets \in Nat
<1>1. TxRingCap \in Nat /\ MaxOut \in Nat /\ MaxResets \in Nat
  BY LinkAssumption DEF LinkAssumption
<1> QED
  BY <1>1 DEF FreshServer

LEMMA ResetConnectionKept ==
    ASSUME NEW s, WireInv, Steady(s, pending, last), reset_connection(s)
    PROVE  Kept
<1> DEFINE t == mc_link_session_drop_queued_data(s)
<1>1. /\ tx_ring' = <<>> /\ rx' = NoRx /\ server' = FreshServer
      /\ session' = t /\ pending' = dropped_pending(t, pending)
  BY DEF reset_connection, drop_stale_link_tx_data
<1>2. Steady(t, dropped_pending(t, pending), last)
  BY DropStale DEF WireInv
<1> QED
  BY <1>1, <1>2, FreshFacts DEF Kept

LEMMA ReceiveFailedKept ==
    ASSUME NEW s, WireInv, Steady(s, pending, last), ReceiveFailed(s)
    PROVE  Kept
  BY ResetConnectionKept DEF ReceiveFailed

LEMMA HandleResetKept ==
    ASSUME FirmwareTypes, WireInv, NEW f \in C2mFrame, f.type = "RESET", HandleReset(f)
    PROVE  Kept
<1> DEFINE a == reset_link_state(session)
           b == queue_control_frame(a, Control("RESET_ACK", f.seq))
           c == queue_control_frame(b, Control("READY", 0))
<1>1. Control("RESET_ACK", f.seq) \in Frame /\ Control("READY", 0) \in Frame
  <2>1. f.seq \in Nat /\ "RESET_ACK" \in FrameTypes /\ "READY" \in FrameTypes
    BY DEF C2mFrame, FrameTypes
  <2> QED
    BY <2>1, ControlFacts
<1>2. Steady(a, pending, last)
  BY SteadySession DEF WireInv
<1> HIDE DEF a
<1>3. Steady(b, pending, last)
  BY <1>1, <1>2, SteadySession DEF WireInv
<1> HIDE DEF b
<1>4. Steady(c, pending, last)
  BY <1>1, <1>3, SteadySession DEF WireInv
<1>5. reset_connection(c)
  BY DEF HandleReset, a, b
<1> HIDE DEF c
<1> QED
  BY <1>4, <1>5, ResetConnectionKept

LEMMA HandleHelloKept ==
    ASSUME FirmwareTypes, WireInv, HandleHello
    PROVE  Kept
<1>1. Control("READY", 0) \in Frame
  BY ControlFacts DEF FrameTypes
<1>2. Steady(reset_link_state(session), pending, last)
  BY SteadySession DEF WireInv
<1>3. Steady(session', pending, last)
  BY <1>1, <1>2, SteadySession DEF WireInv, HandleHello
<1> QED
  BY <1>3 DEF Kept, HandleHello, FirmwareTypes

\* A new expectation of sequence numbers does not touch the queues.
LEMMA CountSteady ==
    ASSUME NEW s, NEW p, NEW u \in Unit, Steady(s, p, u)
    PROVE  Steady([s EXCEPT !.rx_seq_expected = (@ + 1) % SeqMod], p, u)
<1> DEFINE k == (s.rx_seq_expected + 1) % SeqMod
           t == [s EXCEPT !.rx_seq_expected = k]
<1>1. s \in Session
  BY DEF Steady, Sound, SessionOK
<1>2. k \in 0..(SeqMod - 1)
  <2>1. s.rx_seq_expected + 1 \in Nat /\ SeqMod \in Nat \ {0}
    BY <1>1, LinkAssumption DEF Session, LinkAssumption
  <2> QED
    BY <2>1
<1> HIDE DEF k
<1>3. /\ t \in Session /\ t.tx = s.tx /\ t.control_tx = s.control_tx /\ t.active = s.active
      /\ t.remaining = s.remaining
  BY <1>1, <1>2 DEF Session
<1> HIDE DEF t
<1>4. Steady(t, p, u)
  BY <1>3 DEF Steady, Sound, SessionOK, SessionFramed, ActiveQueue
<1> QED
  BY <1>4 DEF t, k

LEMMA HandleDataC2mKept ==
    ASSUME FirmwareTypes, WireInv, NEW f \in C2mFrame, f.type = "DATA_C2M", HandleDataC2m(f)
    PROVE  Kept
<1> DEFINE duplicate == f.seq = (session.rx_seq_expected - 1) % SeqMod
           s == IF duplicate THEN session
                ELSE [session EXCEPT !.rx_seq_expected = (@ + 1) % SeqMod]
           ack == Control("ACK_C2M", s.rx_seq_expected)
           err == queue_control_frame(session, Control("ERROR", 0))
<1>1. last \in Unit /\ Steady(session, pending, last)
  BY DEF WireInv
<1>2. Steady(s, pending, last)
  <2>1. Steady([session EXCEPT !.rx_seq_expected = (@ + 1) % SeqMod], pending, last)
    BY <1>1, CountSteady
  <2> QED
    BY <1>1, <2>1
<1>3. Steady(err, pending, last)
  <2>1. Control("ERROR", 0) \in Frame
    BY ControlFacts DEF FrameTypes
  <2> QED
    BY <1>1, <2>1, SteadySession
<1> HIDE DEF s, err
<1>4. ack \in Frame
  <2>1. s.rx_seq_expected \in Nat /\ "ACK_C2M" \in FrameTypes
    BY <1>2 DEF Steady, Sound, SessionOK, Session, FrameTypes
  <2> QED
    BY <2>1, ControlFacts
<1> HIDE DEF ack
<1>5. Steady(queue_control_frame(s, ack), pending, last)
  BY <1>1, <1>2, <1>4, SteadySession
<1>6. f.link \in 0..MaxResets
  BY DEF C2mFrame
<1>7. \/ ReceiveFailed(err) \/ ReceiveFailed(s)
      \/ /\ session' = queue_control_frame(s, ack) /\ rx' \in {rx, f}
         /\ UNCHANGED <<pending, tx_ring, server>>
  BY DEF HandleDataC2m, s, err, ack
<1>8. CASE ReceiveFailed(err)
  BY <1>3, <1>8, ReceiveFailedKept
<1>9. CASE ReceiveFailed(s)
  BY <1>2, <1>9, ReceiveFailedKept
<1>10. CASE /\ session' = queue_control_frame(s, ack) /\ rx' \in {rx, f}
            /\ UNCHANGED <<pending, tx_ring, server>>
  BY <1>5, <1>6, <1>10 DEF Kept, FirmwareTypes
<1> QED
  BY <1>7, <1>8, <1>9, <1>10

LEMMA HandleRateProbeKept ==
    ASSUME FirmwareTypes, WireInv, NEW f \in C2mFrame, f.type = "RATE_PROBE", HandleRateProbe(f)
    PROVE  Kept
<1> DEFINE echo == Control("RATE_PROBE_ACK", f.seq)
<1>1. echo \in Frame
  <2>1. f.seq \in Nat /\ "RATE_PROBE_ACK" \in FrameTypes
    BY DEF C2mFrame, FrameTypes
  <2> QED
    BY <2>1, ControlFacts
<1>2. last \in Unit /\ Steady(session, pending, last)
  BY DEF WireInv
<1>3. \/ ReceiveFailed(session)
      \/ /\ session' = queue_control_frame(session, echo)
         /\ UNCHANGED <<pending, tx_ring, rx, server>>
  BY DEF HandleRateProbe
<1> HIDE DEF echo
<1>4. CASE ReceiveFailed(session)
  BY <1>2, <1>4, ReceiveFailedKept
<1>5. CASE session' = queue_control_frame(session, echo) /\ UNCHANGED <<pending, tx_ring, rx, server>>
  <2>1. Steady(session', pending, last)
    BY <1>1, <1>2, <1>5, SteadySession
  <2> QED
    BY <1>5, <2>1 DEF Kept, FirmwareTypes
<1> QED
  BY <1>3, <1>4, <1>5

LEMMA HandleKept ==
    ASSUME FirmwareTypes, WireInv, NEW f \in C2mFrame,
           IF f.type = "RESET" THEN HandleReset(f)
           ELSE IF f.type = "HELLO" THEN HandleHello
           ELSE IF f.type = "DATA_C2M" THEN HandleDataC2m(f)
           ELSE HandleRateProbe(f)
    PROVE  Kept
<1>1. f.type \in {"RESET", "HELLO", "DATA_C2M", "RATE_PROBE"}
  BY DEF C2mFrame
<1>2. CASE f.type = "RESET"
  BY <1>2, HandleResetKept
<1>3. CASE f.type = "HELLO"
  BY <1>3, HandleHelloKept
<1>4. CASE f.type = "DATA_C2M"
  BY <1>4, HandleDataC2mKept
<1>5. CASE f.type = "RATE_PROBE"
  BY <1>5, HandleRateProbeKept
<1> QED
  BY <1>1, <1>2, <1>3, <1>4, <1>5

LEMMA PumpLinkRxStep ==
    ASSUME FirmwareTypes, WireInv, WireTypes, PumpLinkRx
    PROVE  FirmwareTypes' /\ WireInv'
<1>1. pump' \in {"rx", "server"} /\ UNCHANGED <<last, torn>>
  BY DEF PumpLinkRx
<1>2. Kept
  <2>1. CASE UNCHANGED <<session, pending, tx_ring, rx, server>>
    BY <2>1 DEF Kept, FirmwareTypes, WireInv
  <2>2. CASE /\ c2m # <<>>
             /\ IF Head(c2m).type = "RESET" THEN HandleReset(Head(c2m))
                ELSE IF Head(c2m).type = "HELLO" THEN HandleHello
                ELSE IF Head(c2m).type = "DATA_C2M" THEN HandleDataC2m(Head(c2m))
                ELSE HandleRateProbe(Head(c2m))
    <3>1. Head(c2m) \in C2mFrame
      BY <2>2 DEF WireTypes
    <3> QED
      BY <2>2, <3>1, HandleKept
  <2> QED
    BY <2>1, <2>2 DEF PumpLinkRx
<1> QED
  BY <1>1, <1>2 DEF Kept, FirmwareTypes, WireInv

\* Whatever the server says has room in its ring and is within its session.
LEMMA ServerOutputKept ==
    ASSUME NEW ring \in Seq(Byte), Len(ring) <= TxRingCap,
           NEW v \in [link : 0..MaxResets, out : 0..MaxOut], ServerOutput(ring, v)
    PROVE  /\ tx_ring' \in Seq(Byte) /\ Len(tx_ring') <= TxRingCap
           /\ server' \in [link : 0..MaxResets, out : 0..MaxOut]
<1>1. CASE tx_ring' = ring /\ server' = v
  BY <1>1
<1>2. CASE v.link # 0 /\ \E n \in 1..Lesser(MaxOut - v.out, TxRingCap - Len(ring)) :
               /\ tx_ring' = ring \o [i \in 1..n |-> [link |-> v.link, i |-> v.out + i]]
               /\ server' = [v EXCEPT !.out = @ + n]
  <2>1. /\ v.link \in 1..MaxResets /\ v.out \in Nat /\ v.out <= MaxOut /\ Len(ring) \in Nat
        /\ MaxOut \in Nat /\ TxRingCap \in Nat /\ MaxResets \in Nat
    BY <1>2, FreshFacts
  <2>2. PICK n \in 1..Lesser(MaxOut - v.out, TxRingCap - Len(ring)) :
               /\ tx_ring' = ring \o [i \in 1..n |-> [link |-> v.link, i |-> v.out + i]]
               /\ server' = [v EXCEPT !.out = @ + n]
    BY <1>2
  <2>3. n \in Nat /\ v.out + n <= MaxOut /\ Len(ring) + n <= TxRingCap
    BY <2>1 DEF Lesser
  <2> DEFINE said == [i \in 1..n |-> [link |-> v.link, i |-> v.out + i]]
  <2>4. ASSUME NEW i \in 1..n PROVE [link |-> v.link, i |-> v.out + i] \in Byte
    BY <2>1, <2>3 DEF Byte
  <2>5. said \in Seq(Byte) /\ Len(said) = n
    BY <2>3, <2>4
  <2> HIDE DEF said
  <2>6. tx_ring' \in Seq(Byte) /\ Len(tx_ring') = Len(ring) + n
    BY <2>2, <2>5, ConcatFacts DEF said
  <2>7. v.out + n \in 0..MaxOut /\ Len(tx_ring') <= TxRingCap
    BY <2>1, <2>3, <2>6
  <2>8. server' \in [link : 0..MaxResets, out : 0..MaxOut]
    BY <2>2, <2>7
  <2> QED
    BY <2>6, <2>7, <2>8
<1> QED
  BY <1>1, <1>2 DEF ServerOutput

LEMMA ServerRejectKept ==
    ASSUME FirmwareTypes, WireInv, ServerReject
    PROVE  Kept
<1> DEFINE e == Control("ERROR", 0)
           a == queue_control_frame(session, e)
           b == reset_link_state_preserving_control_tx(a)
           c == queue_control_frame(b, Control("READY", 0))
           s == IF CanQueue(session, e) THEN c ELSE session
<1>1. e \in Frame /\ Control("READY", 0) \in Frame
  BY ControlFacts DEF FrameTypes
<1>2. last \in Unit /\ Steady(session, pending, last)
  BY DEF WireInv
<1>3. reset_connection(s)
  BY DEF ServerReject
<1> HIDE DEF e
<1>4. Steady(a, pending, last)
  BY <1>1, <1>2, SteadySession
<1> HIDE DEF a
<1>5. Steady(b, pending, last)
  BY <1>2, <1>4, SteadySession
<1> HIDE DEF b
<1>6. Steady(c, pending, last)
  BY <1>1, <1>2, <1>5, SteadySession
<1> HIDE DEF c
<1>7. Steady(s, pending, last)
  BY <1>2, <1>6
<1> HIDE DEF s
<1> QED
  BY <1>3, <1>7, ResetConnectionKept

LEMMA ServerReceiveKept ==
    ASSUME FirmwareTypes, WireInv, ServerReceive
    PROVE  Kept
<1> DEFINE s == IF rx = NoRx THEN session
                ELSE queue_control_frame(session, Control("ACK_C2M", 0))
           t == mc_link_session_drop_queued_data(s)
           heard == IF rx # NoRx /\ server.link = 0 THEN [server EXCEPT !.link = rx.link]
                    ELSE server
<1>1. last \in Unit /\ Steady(session, pending, last)
  BY DEF WireInv
<1>2. Steady(s, pending, last)
  <2>1. Control("ACK_C2M", 0) \in Frame
    BY ControlFacts DEF FrameTypes
  <2> QED
    BY <1>1, <2>1, SteadySession
<1>3. heard \in [link : 0..MaxResets, out : 0..MaxOut]
  BY DEF FirmwareTypes
<1>4. rx' = NoRx
  BY DEF ServerReceive
<1>5. \/ drop_stale_link_tx_data(s) /\ ServerOutput(<<>>, heard)
      \/ session' = s /\ pending' = pending /\ ServerOutput(tx_ring, heard)
  BY DEF ServerReceive
<1> HIDE DEF s, heard
<1>6. CASE drop_stale_link_tx_data(s) /\ ServerOutput(<<>>, heard)
  <2>1. Steady(session', pending', last)
    <3>1. Steady(t, dropped_pending(t, pending), last)
      BY <1>1, <1>2, DropStale
    <3> QED
      BY <1>6, <3>1 DEF drop_stale_link_tx_data
  <2>2. <<>> \in Seq(Byte) /\ Len(<<>>) <= TxRingCap
    BY FreshFacts
  <2>3. /\ tx_ring' \in Seq(Byte) /\ Len(tx_ring') <= TxRingCap
        /\ server' \in [link : 0..MaxResets, out : 0..MaxOut]
    BY <1>3, <1>6, <2>2, ServerOutputKept
  <2> QED
    BY <1>4, <2>1, <2>3 DEF Kept
<1>7. CASE session' = s /\ pending' = pending /\ ServerOutput(tx_ring, heard)
  BY <1>2, <1>3, <1>4, <1>7, ServerOutputKept DEF Kept, FirmwareTypes
<1> QED
  BY <1>5, <1>6, <1>7

LEMMA PumpServerStep ==
    ASSUME FirmwareTypes, WireInv, PumpServer
    PROVE  FirmwareTypes' /\ WireInv'
<1>1. Kept
  BY ServerRejectKept, ServerReceiveKept DEF PumpServer
<1> QED
  BY <1>1 DEF Kept, FirmwareTypes, WireInv, PumpServer

\* mc_link_session_queue_server_tx: a frame of the server's bytes, if it fits.
LEMMA ServerFrameFacts ==
    ASSUME FirmwareTypes, SessionOK(session)
    PROVE  /\ ServerFrame \in Frame /\ ServerFrame.type = "DATA_M2C"
           /\ ServerFrame.seq = session.tx_seq_next
           /\ ServerFrame.data = SubSeq(tx_ring, 1, Lesser(Len(tx_ring), Payload))
           /\ Lesser(Len(tx_ring), Payload) \in 0..Len(tx_ring)
           /\ Len(ServerFrame.data) = Lesser(Len(tx_ring), Payload)
<1> DEFINE n == Lesser(Len(tx_ring), Payload)
<1>1. tx_ring \in Seq(Byte) /\ Len(tx_ring) \in Nat /\ Payload \in Nat
  BY LinkAssumption DEF FirmwareTypes, LinkAssumption
<1>2. n \in 0..Len(tx_ring)
  BY <1>1 DEF Lesser
<1> HIDE DEF n
<1>3. SubSeq(tx_ring, 1, n) \in Seq(Byte) /\ Len(SubSeq(tx_ring, 1, n)) = n
  BY <1>1, <1>2, TakeFacts
<1>4. session.tx_seq_next \in Nat
  BY DEF SessionOK, Session
<1>5. ServerFrame = Data(session.tx_seq_next, SubSeq(tx_ring, 1, n))
  BY DEF ServerFrame, n
<1>6. ServerFrame \in Frame
  BY <1>3, <1>4, <1>5, DataFacts
<1>7. /\ ServerFrame.type = "DATA_M2C" /\ ServerFrame.seq = session.tx_seq_next
      /\ ServerFrame.data = SubSeq(tx_ring, 1, n)
  BY <1>5 DEF Data
<1> QED
  BY <1>2, <1>3, <1>6, <1>7 DEF n

LEMMA QueueServerTxSound ==
    ASSUME FirmwareTypes, NEW u \in Unit, Sound(session, u)
    PROVE  Sound(mc_link_session_queue_server_tx, u)
<1>1. ServerFrame \in Frame
  BY ServerFrameFacts DEF Sound
<1>2. CASE tx_ring # <<>> /\ HasRoom(session.tx, SessionTxCap, ServerFrame)
  BY <1>1, <1>2, QueueData DEF mc_link_session_queue_server_tx
<1>3. CASE ~(tx_ring # <<>> /\ HasRoom(session.tx, SessionTxCap, ServerFrame))
  BY <1>3 DEF mc_link_session_queue_server_tx
<1> QED
  BY <1>2, <1>3

\* Units that continue the stream do not tear it.
LEMMA WrittenFacts ==
    ASSUME NEW w \in Seq(Unit), uart \in Seq(Unit), last \in Unit, torn = FALSE,
           Continues(last, w), Written(w)
    PROVE  torn' = FALSE /\ last' = LastOf(last, w) /\ last' \in Unit /\ uart' = uart \o w
           /\ uart' \in Seq(Unit)
<1>1. uart' = uart \o w /\ last' = LastOf(last, w)
  BY DEF Written, LastOf
<1>2. last' \in Unit /\ uart' \in Seq(Unit)
  BY <1>1, LastOfFacts, ConcatFacts
<1>3. ASSUME NEW i \in 1..Len(w) PROVE Follows(IF i = 1 THEN last ELSE w[i - 1], w[i])
  <2>1. CASE i = 1
    <3>1. w # <<>>
      OBVIOUS
    <3> QED
      BY <2>1, <3>1 DEF Continues
  <2>2. CASE i # 1
    <3> DEFINE k == i - 1
    <3>1. k \in 1..(Len(w) - 1) /\ k + 1 = i
      BY <2>2
    <3>2. Follows(w[k], w[k + 1])
      <4> HIDE DEF k
      <4> QED
        BY <3>1 DEF Continues, Chain
    <3> QED
      BY <2>2, <3>1, <3>2
  <2> QED
    BY <2>1, <2>2
<1>4. torn' = FALSE
  <2>1. torn' = (torn \/ \E i \in 1..Len(w) : ~Follows(IF i = 1 THEN last ELSE w[i - 1], w[i]))
    BY DEF Written
  <2>2. ~\E i \in 1..Len(w) : ~Follows(IF i = 1 THEN last ELSE w[i - 1], w[i])
    BY <1>3
  <2> QED
    BY <2>1, <2>2
<1> QED
  BY <1>1, <1>2, <1>4

\* link_pending after n of its units were written, and when it is loaded with
\* units q of which the first m were written at once.
LEMMA PendingWritten ==
    ASSUME NEW p, PendingOK(p), NEW n \in 0..Len(Unsent(p)),
           NEW t, t = IF n = Len(Unsent(p)) THEN Empty ELSE [p EXCEPT !.pos = @ + n]
    PROVE  PendingOK(t) /\ Unsent(t) = Drop(Unsent(p), n)
<1> DEFINE left == Unsent(p)
           b == Drop(left, n)
<1>1. /\ left \in Seq(Unit) /\ Len(left) = Len(p.buf) - p.pos
      /\ p.buf \in Seq(Unit) /\ p.pos \in 0..Len(p.buf) /\ Len(p.buf) \in Nat
      /\ Len(p.buf) <= PendingCap
  BY UnsentFacts DEF PendingOK
<1>2. CASE n = Len(left)
  <2>1. b = <<>>
    BY <1>1, <1>2, DropFacts
  <2> QED
    BY <1>2, <2>1, EmptyFacts
<1>3. CASE n # Len(left)
  <2>1. t.buf = p.buf /\ t.pos = p.pos + n
    BY <1>3 DEF PendingOK
  <2>2. n \in 0..(Len(p.buf) - p.pos) /\ t.pos \in Nat /\ t.pos <= Len(p.buf)
    BY <1>1, <2>1
  <2>3. PendingOK(t)
    BY <1>1, <1>3, <2>1, <2>2 DEF PendingOK
  <2>4. Unsent(t) = b
    BY <1>1, <2>1, <2>2, DropDrop DEF Unsent
  <2> QED
    BY <2>3, <2>4
<1> QED
  BY <1>2, <1>3

LEMMA PendingRead ==
    ASSUME NEW q \in Seq(Unit), Len(q) <= PendingCap, NEW m \in 0..Len(q),
           NEW t, t = IF m = Len(q) THEN Empty ELSE [buf |-> q, pos |-> m]
    PROVE  PendingOK(t) /\ Unsent(t) = Drop(q, m)
<1>1. CASE m = Len(q)
  <2>1. Drop(q, m) = <<>>
    BY <1>1, DropFacts
  <2> QED
    BY <1>1, <2>1, EmptyFacts
<1>2. CASE m # Len(q)
  <2>1. t = [buf |-> q, pos |-> m] /\ t.buf = q /\ t.pos = m
    BY <1>2
  <2>2. PendingOK(t)
    BY <2>1 DEF PendingOK
  <2> QED
    BY <2>1, <2>2 DEF Unsent
<1> QED
  BY <1>1, <1>2

\* The first n units of link_pending are written.
LEMMA WritePending ==
    ASSUME WireInv, uart \in Seq(Unit), NEW n \in 0..Len(Unsent(pending)),
           Written(SubSeq(Unsent(pending), 1, n)),
           pending' = IF n = Len(Unsent(pending)) THEN Empty
                      ELSE [pending EXCEPT !.pos = @ + n],
           session' = session
    PROVE  WireInv' /\ uart' \in Seq(Unit)
<1> DEFINE left == Unsent(pending)
           a == SubSeq(left, 1, n)
           b == Drop(left, n)
           u == LastOf(last, a)
<1>1. /\ last \in Unit /\ torn = FALSE /\ PendingOK(pending) /\ Continues(last, left)
      /\ Sound(session, LastOf(last, left))
  BY DEF WireInv, Steady
<1>2. /\ left \in Seq(Unit) /\ Len(left) = Len(pending.buf) - pending.pos
      /\ pending.buf \in Seq(Unit) /\ pending.pos \in 0..Len(pending.buf) /\ Len(pending.buf) \in Nat
      /\ Len(pending.buf) <= PendingCap
  BY <1>1, UnsentFacts DEF PendingOK
<1>3. /\ Continues(last, a) /\ Continues(u, b) /\ LastOf(u, b) = LastOf(last, left) /\ a \in Seq(Unit)
  <2> HIDE DEF left
  <2> QED
    BY <1>1, <1>2, CutStream, TakeFacts DEF left
<1>4. torn' = FALSE /\ last' = u /\ last' \in Unit /\ uart' \in Seq(Unit)
  <2> HIDE DEF a
  <2> QED
    BY <1>1, <1>3, WrittenFacts DEF a
<1>5. PendingOK(pending') /\ Unsent(pending') = b
  BY <1>1, PendingWritten
<1> HIDE DEF left, a, b, u
<1>6. Steady(session', pending', last')
  BY <1>1, <1>3, <1>4, <1>5 DEF Steady
<1> QED
  BY <1>4, <1>6 DEF WireInv

\* All of link_pending is written, and the first m units of what is read next.
LEMMA WriteNext ==
    ASSUME FirmwareTypes, WireInv, uart \in Seq(Unit), NEW r,
           r = mc_link_session_read_tx(mc_link_session_queue_server_tx),
           NEW m \in 0..Len(r.buf),
           Written(Unsent(pending) \o SubSeq(r.buf, 1, m)),
           pending' = IF m = Len(r.buf) THEN Empty ELSE [buf |-> r.buf, pos |-> m],
           session' = r.s
    PROVE  WireInv' /\ uart' \in Seq(Unit)
<1> DEFINE left == Unsent(pending)
           v == LastOf(last, left)
           a == SubSeq(r.buf, 1, m)
           b == Drop(r.buf, m)
           u == LastOf(v, a)
           w == left \o a
<1>1. /\ last \in Unit /\ torn = FALSE /\ PendingOK(pending) /\ Continues(last, left)
      /\ Sound(session, v)
  BY DEF WireInv, Steady
<1>2. left \in Seq(Unit) /\ v \in Unit
  BY <1>1, UnsentFacts, LastOfFacts
<1> HIDE DEF left, v
<1>3. Sound(mc_link_session_queue_server_tx, v)
  BY <1>1, <1>2, QueueServerTxSound
<1>4. /\ r.buf \in Seq(Unit) /\ Len(r.buf) <= PendingCap
      /\ Continues(v, r.buf) /\ Sound(r.s, LastOf(v, r.buf))
  BY <1>2, <1>3, ReadSound
<1>5. /\ Continues(v, a) /\ Continues(u, b) /\ LastOf(u, b) = LastOf(v, r.buf) /\ a \in Seq(Unit)
  BY <1>2, <1>4, CutStream, TakeFacts
<1> HIDE DEF a
<1>6. w \in Seq(Unit) /\ Continues(last, w) /\ LastOf(last, w) = u
  BY <1>1, <1>2, <1>5, JoinStreams, ConcatFacts DEF v
<1>7. Written(w)
  BY DEF left, a
<1> HIDE DEF w, u
<1>8. torn' = FALSE /\ last' = u /\ last' \in Unit /\ uart' \in Seq(Unit)
  BY <1>1, <1>6, <1>7, WrittenFacts
<1>9. PendingOK(pending') /\ Unsent(pending') = b
  BY <1>4, PendingRead
<1> HIDE DEF b
<1>10. Steady(session', pending', last')
  BY <1>4, <1>5, <1>8, <1>9 DEF Steady
<1> QED
  BY <1>8, <1>10 DEF WireInv

\* One turn of pump_link_tx writes part of link_pending, or all of it and
\* part of what is read next.
LEMMA PumpLinkTxCases ==
    ASSUME FirmwareTypes, WireInv, uart \in Seq(Unit), PumpLinkTx
    PROVE  \/ /\ \E n \in 0..Len(Unsent(pending)) :
                    /\ Written(SubSeq(Unsent(pending), 1, n))
                    /\ pending' = IF n = Len(Unsent(pending)) THEN Empty
                                  ELSE [pending EXCEPT !.pos = @ + n]
              /\ UNCHANGED <<session, tx_ring>>
           \/ LET r == mc_link_session_read_tx(mc_link_session_queue_server_tx) IN
              /\ \E m \in 0..Len(r.buf) :
                    /\ Written(Unsent(pending) \o SubSeq(r.buf, 1, m))
                    /\ pending' = IF m = Len(r.buf) THEN Empty ELSE [buf |-> r.buf, pos |-> m]
              /\ session' = r.s
              /\ tx_ring' = IF CanQueueServerTx THEN Drop(tx_ring, Len(ServerFrame.data)) ELSE tx_ring
<1> DEFINE left == Unsent(pending)
           room == MaxUart - Len(uart)
           r == mc_link_session_read_tx(mc_link_session_queue_server_tx)
<1>1. PICK n \in 0..Lesser(Len(left), room) :
          IF n < Len(left) \/ n = PendingCap
          THEN /\ Written(SubSeq(left, 1, n))
               /\ pending' = IF n = Len(left) THEN Empty ELSE [pending EXCEPT !.pos = @ + n]
               /\ UNCHANGED <<session, tx_ring>>
          ELSE \E m \in 0..Lesser(Len(r.buf), Lesser(PendingCap, room) - n) :
                  /\ Written(left \o SubSeq(r.buf, 1, m))
                  /\ pending' = IF m = Len(r.buf) THEN Empty ELSE [buf |-> r.buf, pos |-> m]
                  /\ session' = r.s
                  /\ tx_ring' = IF CanQueueServerTx THEN Drop(tx_ring, Len(ServerFrame.data))
                                ELSE tx_ring
  BY DEF PumpLinkTx, Unsent
<1>2. left \in Seq(Unit) /\ Len(left) \in Nat /\ room \in Int /\ PendingCap \in Int
  <2>1. left \in Seq(Unit)
    BY UnsentFacts DEF WireInv, Steady
  <2>2. MaxUart \in Nat /\ PendingCap \in Nat
    BY LinkAssumption DEF LinkAssumption
  <2> HIDE DEF left
  <2> QED
    BY <2>1, <2>2
<1>3. r.buf \in Seq(Unit)
  <2>1. LastOf(last, left) \in Unit /\ Sound(session, LastOf(last, left))
    BY <1>2, LastOfFacts DEF WireInv, Steady
  <2>2. Sound(mc_link_session_queue_server_tx, LastOf(last, left))
    BY <2>1, QueueServerTxSound
  <2> HIDE DEF left
  <2> QED
    BY <2>1, <2>2, ReadSound
<1> HIDE DEF left, room, r
<1>4. n \in 0..Len(left) /\ n \in Int
  BY <1>2 DEF Lesser
<1>5. CASE n < Len(left) \/ n = PendingCap
  BY <1>1, <1>4, <1>5 DEF left
<1>6. CASE ~(n < Len(left) \/ n = PendingCap)
  <2>1. PICK m \in 0..Lesser(Len(r.buf), Lesser(PendingCap, room) - n) :
                  /\ Written(left \o SubSeq(r.buf, 1, m))
                  /\ pending' = IF m = Len(r.buf) THEN Empty ELSE [buf |-> r.buf, pos |-> m]
                  /\ session' = r.s
                  /\ tx_ring' = IF CanQueueServerTx THEN Drop(tx_ring, Len(ServerFrame.data))
                                ELSE tx_ring
    BY <1>1, <1>6
  <2>2. Len(r.buf) \in Nat /\ Lesser(PendingCap, room) - n \in Int
    BY <1>2, <1>3, <1>4 DEF Lesser
  <2>3. m \in 0..Len(r.buf)
    BY <2>2 DEF Lesser
  <2> QED
    BY <2>1, <2>3 DEF left, r
<1> QED
  BY <1>5, <1>6

LEMMA PumpLinkTxStep ==
    ASSUME FirmwareTypes, WireInv, uart \in Seq(Unit), PumpLinkTx
    PROVE  FirmwareTypes' /\ WireInv' /\ uart' \in Seq(Unit)
<1> DEFINE r == mc_link_session_read_tx(mc_link_session_queue_server_tx)
<1>1. pump' = "rx" /\ UNCHANGED <<rx, server>>
  BY DEF PumpLinkTx
<1>2. WireInv' /\ uart' \in Seq(Unit)
  BY PumpLinkTxCases, WritePending, WriteNext
<1>3. tx_ring' \in Seq(Byte) /\ Len(tx_ring') <= TxRingCap
  <2>1. tx_ring' \in {tx_ring, Drop(tx_ring, Len(ServerFrame.data))}
    BY PumpLinkTxCases
  <2>2. Len(ServerFrame.data) \in 0..Len(tx_ring)
    BY ServerFrameFacts DEF WireInv, Steady, Sound
  <2>3. tx_ring \in Seq(Byte) /\ Len(tx_ring) <= TxRingCap /\ Len(tx_ring) \in Nat /\ TxRingCap \in Nat
    BY FreshFacts DEF FirmwareTypes
  <2> DEFINE k == Len(ServerFrame.data)
  <2> HIDE DEF k
  <2>4. Drop(tx_ring, k) \in Seq(Byte) /\ Len(Drop(tx_ring, k)) = Len(tx_ring) - k
    BY <2>2, <2>3, DropFacts DEF k
  <2>5. Len(Drop(tx_ring, k)) <= TxRingCap
    BY <2>2, <2>3, <2>4 DEF k
  <2> QED
    BY <2>1, <2>3, <2>4, <2>5 DEF k
<1> QED
  BY <1>1, <1>2, <1>3 DEF FirmwareTypes

-----------------------------------------------------------------------------
(* The bridge's steps.                                                     *)

LEMMA BoundFacts ==
    /\ MaxResets \in Nat /\ SeqMod \in Nat \ {0} /\ 0 \in 0..(SeqMod - 1)
    /\ NoProbe \in [nonce : Nat, awaited : BOOLEAN, hit : BOOLEAN]
    /\ <<>> \in Seq(Byte)
<1>1. MaxResets \in Nat /\ SeqMod \in Nat \ {0}
  BY LinkAssumption DEF LinkAssumption
<1> QED
  BY <1>1 DEF NoProbe

LEMMA TailFacts ==
    ASSUME NEW S, NEW q \in Seq(S), q # <<>>
    PROVE  /\ Len(q) \in Nat \ {0} /\ Head(q) = q[1] /\ Head(q) \in S
           /\ Tail(q) \in Seq(S) /\ Len(Tail(q)) = Len(q) - 1
           /\ \A i \in 1..(Len(q) - 1) : Tail(q)[i] = q[i + 1]
           /\ Tail(q) = Drop(q, 1)
  BY DEF Drop

\* A RESET, whoever sends it.
LEMMA SendResetTypes ==
    ASSUME BridgeTypes, WireTypes, SendReset
    PROVE  /\ next_reset_seq' \in Nat /\ resets' \in 0..MaxResets /\ resets + 1 \in 0..MaxResets
           /\ c2m' \in Seq(C2mFrame)
<1>1. resets + 1 \in 0..MaxResets /\ resets' = resets + 1 /\ next_reset_seq' = next_reset_seq + 1
  BY BoundFacts DEF BridgeTypes, SendReset
<1>2. [type |-> "RESET", seq |-> next_reset_seq] \in C2mFrame
  BY DEF BridgeTypes, C2mFrame
<1> QED
  BY <1>1, <1>2 DEF SendReset, WireTypes, BridgeTypes

LEMMA StartResetTypes ==
    ASSUME BridgeTypes, WireTypes, StartReset
    PROVE  /\ phase' = "wait" /\ next_reset_seq' \in Nat /\ resets' \in 0..MaxResets
           /\ link' \in 0..MaxResets /\ c2m' \in Seq(C2mFrame) /\ c2m_seq' \in Nat
           /\ unacked' = NoRx /\ tcp' \in Seq(Byte)
  BY SendResetTypes, BoundFacts DEF StartReset

\* The frame that the Decoder returns is the one whose last unit it sees.
LEMMA DecodedFacts ==
    ASSUME uart \in Seq(Unit), uart # <<>>
    PROVE  /\ Decoded.type \in FrameTypes =>
                 /\ Delimiter(Head(uart)) /\ Fed = Units(Head(uart).frame)
                 /\ Decoded = Head(uart).frame /\ Decoded \in Frame
           /\ Decoded.type \in FrameTypes \cup {"more", "error"}
           /\ Head(uart) \in Unit
<1>1. Head(uart) \in Unit
  BY TailFacts
<1>2. Head(uart).frame \in Frame /\ Head(uart).frame.type \in FrameTypes
  BY <1>1 DEF Unit, Frame
<1>3. CASE Delimiter(Head(uart)) /\ Fed = Units(Head(uart).frame)
  BY <1>1, <1>2, <1>3 DEF Decoded
<1>4. CASE ~Delimiter(Head(uart))
  <2>1. Decoded = [type |-> "more"]
    BY <1>4 DEF Decoded
  <2> QED
    BY <1>1, <2>1 DEF FrameTypes
<1>5. CASE Delimiter(Head(uart)) /\ Fed # Units(Head(uart).frame)
  <2>1. Decoded = [type |-> "error"]
    BY <1>5 DEF Decoded
  <2> QED
    BY <1>1, <2>1 DEF FrameTypes
<1> QED
  BY <1>3, <1>4, <1>5

LEMMA RunReceiveTypes ==
    ASSUME BridgeTypes, WireTypes, RunReceive
    PROVE  BridgeTypes' /\ WireTypes'
<1>1. uart \in Seq(Unit) /\ uart # <<>> /\ UNCHANGED probe
  BY DEF RunReceive, WireTypes
<1>2. Tail(uart) \in Seq(Unit) /\ \A k \in 1..Len(uart) : Drop(uart, k) \in Seq(Unit)
  BY <1>1, TailFacts, DropFacts
<1>3. CASE RunData
  <2>1. Decoded \in Frame
    BY <1>1, <1>3, DecodedFacts DEF RunData, FrameTypes
  <2>2. Decoded.data \in Seq(Byte)
    BY <2>1 DEF Frame
  <2>3. (m2c_seq_expected + 1) % SeqMod \in 0..(SeqMod - 1)
    <3>1. m2c_seq_expected + 1 \in Nat
      BY BoundFacts DEF BridgeTypes
    <3> QED
      BY <3>1, BoundFacts
  <2>4. /\ m2c_seq_expected' \in 0..(SeqMod - 1)
        /\ tcp' \in Seq(Byte) /\ phase' \in {phase, "exit"}
    <3>1. tcp \o Decoded.data \in Seq(Byte)
      BY <2>2, ConcatFacts DEF BridgeTypes
    <3>2. \/ /\ m2c_seq_expected' = (m2c_seq_expected + 1) % SeqMod /\ tcp' = tcp \o Decoded.data
             /\ phase' = phase
          \/ phase' = "exit" /\ m2c_seq_expected' = m2c_seq_expected /\ tcp' = tcp
      BY <1>3 DEF RunData
    <3> QED
      BY <2>3, <3>1, <3>2 DEF BridgeTypes
  <2>5. /\ uart' \in Seq(Unit) /\ c2m' = c2m
        /\ UNCHANGED <<next_reset_seq, resets, link, c2m_seq, unacked>>
    BY <1>2, <1>3 DEF RunData, sender
  <2> QED
    BY <1>1, <2>4, <2>5 DEF BridgeTypes, WireTypes
<1>4. CASE RunReset
  <2>1. uart' \in Seq(Unit) /\ m2c_seq_expected' = m2c_seq_expected /\ StartReset
    BY <1>2, <1>4 DEF RunReset
  <2> QED
    BY <1>1, <2>1, StartResetTypes DEF BridgeTypes, WireTypes
<1>5. CASE RunOther
  <2>1. /\ uart' \in Seq(Unit) /\ c2m' = c2m /\ unacked' \in {unacked, NoRx} /\ phase' \in {phase, "exit"}
        /\ UNCHANGED <<next_reset_seq, resets, link, c2m_seq, tcp, m2c_seq_expected>>
    BY <1>2, <1>5 DEF RunOther
  <2> QED
    BY <1>1, <2>1 DEF BridgeTypes, WireTypes
<1> QED
  BY <1>3, <1>4, <1>5 DEF RunReceive

LEMMA SendClientDataTypes ==
    ASSUME BridgeTypes, WireTypes, SendClientData
    PROVE  BridgeTypes' /\ WireTypes'
<1>1. /\ UNCHANGED <<uart, phase, next_reset_seq, m2c_seq_expected, probe, resets, link, tcp>>
      /\ c2m' = Append(c2m, [type |-> "DATA_C2M", seq |-> unacked'.seq,
                             kind |-> unacked'.kind, link |-> link])
  BY DEF SendClientData, history
<1>2. unacked' \in [seq : Nat, kind : ClientKinds, copies : Nat] /\ c2m_seq' \in Nat
  <2>1. CASE unacked = NoRx /\ c2m_seq' = c2m_seq + 1
             /\ \E k \in ClientKinds : unacked' = [seq |-> c2m_seq, kind |-> k, copies |-> 1]
    BY <2>1 DEF BridgeTypes
  <2>2. CASE unacked # NoRx /\ unacked' = [unacked EXCEPT !.copies = @ + 1] /\ c2m_seq' = c2m_seq
    BY <2>2 DEF BridgeTypes
  <2> QED
    BY <2>1, <2>2 DEF SendClientData
<1>3. [type |-> "DATA_C2M", seq |-> unacked'.seq, kind |-> unacked'.kind, link |-> link] \in C2mFrame
  BY <1>2 DEF C2mFrame, BridgeTypes
<1> QED
  BY <1>1, <1>2, <1>3 DEF BridgeTypes, WireTypes

LEMMA BridgeStep ==
    ASSUME BridgeTypes, WireTypes,
           \/ SendHello \/ BootReceive \/ Crash \/ Connect \/ TcpEof \/ Recalibrate \/ GiveUp
           \/ WaitReceive \/ SendProbe \/ CalReceive \/ ProbeTimeout \/ CalDone
           \/ SendClientData \/ RunReceive
    PROVE  BridgeTypes' /\ WireTypes'
<1>0. /\ \A k \in 0..Len(uart) : Drop(uart, k) \in Seq(Unit)
      /\ \A k \in 1..Len(uart) : Drop(uart, k) \in Seq(Unit)
      /\ uart # <<>> => Tail(uart) \in Seq(Unit)
      /\ uart \in Seq(Unit) /\ c2m \in Seq(C2mFrame)
  BY DropFacts, TailFacts DEF WireTypes
<1>1. CASE SendHello
  <2>1. [type |-> "HELLO"] \in C2mFrame
    BY DEF C2mFrame
  <2> QED
    BY <1>0, <1>1, <2>1 DEF SendHello, bridgeVars, BridgeTypes, WireTypes
<1>2. CASE BootReceive
  BY <1>0, <1>2 DEF BootReceive, Feed, sender, history, BridgeTypes, WireTypes
<1>3. CASE Crash
  BY <1>0, <1>3, BoundFacts DEF Crash, BridgeTypes, WireTypes
<1>4. CASE Connect
  BY <1>0, <1>4, StartResetTypes DEF Connect, BridgeTypes, WireTypes
<1>5. CASE TcpEof
  BY <1>0, <1>5, SendResetTypes DEF TcpEof, BridgeTypes, WireTypes
<1>6. CASE Recalibrate
  BY <1>0, <1>6, StartResetTypes DEF Recalibrate, BridgeTypes, WireTypes
<1>7. CASE GiveUp
  BY <1>0, <1>7, SendResetTypes DEF GiveUp, sender, BridgeTypes, WireTypes
<1>8. CASE WaitReceive
  <2>1. uart # <<>> /\ uart' \in Seq(Unit) /\ probe' \in {probe, NoProbe} /\ phase' \in {phase, "cal"}
    BY <1>0, <1>8 DEF WaitReceive, Feed
  <2> QED
    BY <1>8, <2>1, BoundFacts DEF WaitReceive, sender, history, BridgeTypes, WireTypes
<1>9. CASE SendProbe
  <2>1. [type |-> "RATE_PROBE", seq |-> probe.nonce + 1] \in C2mFrame
    BY DEF C2mFrame, BridgeTypes
  <2>2. c2m' \in Seq(C2mFrame)
    BY <1>0, <1>9, <2>1 DEF SendProbe
  <2>3. probe' \in [nonce : Nat, awaited : BOOLEAN, hit : BOOLEAN]
    <3>1. probe' = [probe EXCEPT !.nonce = @ + 1, !.awaited = TRUE]
      BY <1>9 DEF SendProbe
    <3>2. /\ probe.nonce + 1 \in Nat /\ TRUE \in BOOLEAN
          /\ probe \in [nonce : Nat, awaited : BOOLEAN, hit : BOOLEAN]
      BY DEF BridgeTypes
    <3> QED
      BY <3>1, <3>2
  <2> QED
    BY <1>0, <1>9, <2>2, <2>3 DEF SendProbe, sender, history, BridgeTypes, WireTypes
<1>10. CASE CalReceive
  <2>1. \E hit \in BOOLEAN : probe' = [probe EXCEPT !.awaited = ~hit, !.hit = @ \/ hit]
    BY <1>10 DEF CalReceive
  <2>2. probe' \in [nonce : Nat, awaited : BOOLEAN, hit : BOOLEAN]
    BY <2>1 DEF BridgeTypes
  <2> QED
    BY <1>0, <1>10, <2>2 DEF CalReceive, Feed, sender, history, BridgeTypes, WireTypes
<1>11. CASE ProbeTimeout
  BY <1>0, <1>11 DEF ProbeTimeout, sender, history, BridgeTypes, WireTypes
<1>12. CASE CalDone
  BY <1>0, <1>12, BoundFacts DEF CalDone, sender, history, BridgeTypes, WireTypes
<1> QED
  BY <1>1, <1>2, <1>3, <1>4, <1>5, <1>6, <1>7, <1>8, <1>9, <1>10, <1>11, <1>12,
     SendClientDataTypes, RunReceiveTypes

-----------------------------------------------------------------------------
(* The theorems.                                                           *)

LEMMA BootSteady == Steady(Boot, Empty, Silence)
<1>1. /\ <<>> \in Seq(Unit) /\ Len(<<>>) = 0 /\ 0 \in 0..(SeqMod - 1)
      /\ SessionTxCap \in Nat /\ ControlCap \in Nat
  BY BoundFacts, LinkAssumption DEF LinkAssumption
<1>2. Boot \in Session /\ SessionOK(Boot)
  BY <1>1 DEF Boot, Session, SessionOK
<1>3. SessionFramed(Boot, Silence)
  BY EmptyFramed, SilenceFacts DEF Boot, SessionFramed
<1>4. Continues(Silence, <<>>) /\ LastOf(Silence, <<>>) = Silence
  BY EmptyFramed DEF Continues, LastOf, Framed
<1> QED
  BY <1>2, <1>3, <1>4, EmptyFacts DEF Steady, Sound

LEMMA InitLinkInv == Init => LinkInv
<1> SUFFICES ASSUME Init PROVE LinkInv
  OBVIOUS
<1>1. FirmwareTypes
  BY FreshFacts DEF Init, FirmwareTypes
<1>2. BridgeTypes
  BY BoundFacts DEF Init, BridgeTypes
<1>3. WireTypes
  BY DEF Init, WireTypes
<1> QED
  BY <1>1, <1>2, <1>3, BootSteady, SilenceFacts DEF Init, WireInv, LinkInv

LEMMA RebootStep ==
    ASSUME LinkInv, Reboot
    PROVE  LinkInv'
<1>2. WireInv'
  BY BootSteady, SilenceFacts DEF Reboot, WireInv, LinkInv
<1>3. FirmwareTypes'
  BY FreshFacts DEF Reboot, FirmwareTypes
<1>4. WireTypes'
  <2>1. \A k \in 0..Len(c2m) : Drop(c2m, k) \in Seq(C2mFrame)
    BY DropFacts DEF LinkInv, WireTypes
  <2> QED
    BY <2>1 DEF Reboot, LinkInv, WireTypes
<1>5. BridgeTypes'
  BY DEF Reboot, sender, LinkInv, BridgeTypes
<1> QED
  BY <1>2, <1>3, <1>4, <1>5 DEF LinkInv

LEMMA NextLinkInv == LinkInv /\ [Next]_vars => LinkInv'
<1> SUFFICES ASSUME LinkInv, [Next]_vars PROVE LinkInv'
  OBVIOUS
<1>0. FirmwareTypes /\ BridgeTypes /\ WireTypes /\ WireInv /\ uart \in Seq(Unit)
  BY DEF LinkInv, WireTypes
<1>1. CASE PumpLinkRx
  <2>1. c2m' \in Seq(C2mFrame) /\ UNCHANGED <<bridgeVars, uart>>
    BY <1>0, <1>1, TailFacts DEF PumpLinkRx, WireTypes
  <2> QED
    BY <1>0, <1>1, <2>1, PumpLinkRxStep DEF LinkInv, BridgeTypes, WireTypes, bridgeVars
<1>2. CASE PumpServer
  <2>1. UNCHANGED <<bridgeVars, c2m, uart>>
    BY <1>2 DEF PumpServer
  <2> QED
    BY <1>0, <1>2, <2>1, PumpServerStep DEF LinkInv, BridgeTypes, WireTypes, bridgeVars
<1>3. CASE PumpLinkTx
  <2>1. UNCHANGED <<bridgeVars, c2m>>
    BY <1>3 DEF PumpLinkTx
  <2> QED
    BY <1>0, <1>3, <2>1, PumpLinkTxStep DEF LinkInv, BridgeTypes, WireTypes, bridgeVars
<1>4. ASSUME UNCHANGED fwVars PROVE FirmwareTypes' /\ WireInv'
  BY <1>0, <1>4 DEF fwVars, FirmwareTypes, WireInv
<1>5. ASSUME \/ SendHello \/ BootReceive \/ Crash \/ Connect \/ TcpEof \/ Recalibrate \/ GiveUp
             \/ WaitReceive \/ SendProbe \/ CalReceive \/ ProbeTimeout \/ CalDone
             \/ SendClientData \/ RunReceive
      PROVE  LinkInv'
  <2>1. UNCHANGED fwVars
    BY <1>5 DEF SendHello, BootReceive, Crash, Connect, TcpEof, Recalibrate, GiveUp, WaitReceive,
                SendProbe, CalReceive, ProbeTimeout, CalDone, SendClientData, RunReceive
  <2> QED
    BY <1>0, <1>4, <1>5, <2>1, BridgeStep DEF LinkInv
<1>6. CASE LoseC2m
  <2>1. c2m' \in Seq(C2mFrame) /\ UNCHANGED <<fwVars, bridgeVars, uart>>
    BY <1>0, <1>6, TailFacts DEF LoseC2m, WireTypes
  <2> QED
    BY <1>0, <1>4, <2>1 DEF LinkInv, BridgeTypes, WireTypes, bridgeVars
<1>7. CASE LoseUnit
  <2>1. uart' \in Seq(Unit) /\ UNCHANGED <<fwVars, bridgeVars, c2m>>
    BY <1>0, <1>7, TailFacts DEF LoseUnit
  <2> QED
    BY <1>0, <1>4, <2>1 DEF LinkInv, BridgeTypes, WireTypes, bridgeVars
<1>8. CASE Reboot
  BY <1>8, RebootStep
<1>9. CASE UNCHANGED vars
  BY <1>0, <1>4, <1>9 DEF vars, LinkInv, BridgeTypes, WireTypes, bridgeVars
<1> QED
  BY <1>1, <1>2, <1>3, <1>5, <1>6, <1>7, <1>8, <1>9 DEF Next

\* The invariant holds in every state: what link_pending, the session's
\* queues and read_tx's memory of a frame that has begun say of the stream on
\* the UART stays true through every reset of mc_link_session.c and main.c.
THEOREM LinkInvariance == Spec => []LinkInv
  BY InitLinkInv, NextLinkInv, PTL DEF Spec

\* The queues of mc_link_session_t, link_pending and the rings stay within
\* their storage, and remaining is what read_tx left of the active frame.
THEOREM LinkTypeCorrect == Spec => []TypeOK
<1>1. LinkInv => TypeOK
  <2> SUFFICES ASSUME LinkInv PROVE TypeOK
    OBVIOUS
  <2>1. Steady(session, pending, last)
    BY DEF LinkInv, WireInv
  <2>2. /\ session \in Session /\ Len(session.tx) <= SessionTxCap
        /\ Len(session.control_tx) <= ControlCap
    BY <2>1 DEF Steady, Sound, SessionOK
  <2>3. /\ session.active \in {"NONE", "CONTROL", "DATA"} /\ session.remaining \in Nat
        /\ session.tx \in Seq(Unit) /\ session.control_tx \in Seq(Unit)
        /\ session.tx_seq_next \in 0..(SeqMod - 1)
    BY <2>2 DEF Session
  <2>4. /\ session.remaining \in 0..Len(ActiveQueue(session))
        /\ session.active = "NONE" <=> session.remaining = 0
    <3>1. CASE session.active = "NONE"
      BY <2>1, <2>3, <3>1 DEF Steady, Sound, SessionFramed, ActiveQueue
    <3>2. CASE session.active # "NONE"
      <4>1. session.remaining \in 1..Len(ActiveQueue(session))
        BY <2>1, <3>2 DEF Steady, Sound, SessionFramed
      <4> QED
        BY <3>2, <4>1
    <3> QED
      BY <3>1, <3>2
  <2>5. Len(pending.buf) <= PendingCap /\ pending.pos \in 0..Len(pending.buf)
    BY <2>1 DEF Steady, PendingOK
  <2>6. \A i \in 1..Len(uart) : UnitOf(uart[i])
    <3> SUFFICES ASSUME NEW i \in 1..Len(uart) PROVE UnitOf(uart[i])
      OBVIOUS
    <3>1. uart[i] \in Unit
      BY DEF LinkInv, WireTypes
    <3> QED
      BY <3>1 DEF Unit, Frame, FrameTypes, UnitOf
  <2>7. \A i \in 1..Len(tcp) : tcp[i] \in Byte
    BY DEF LinkInv, BridgeTypes
  <2>8. /\ pump \in {"rx", "server", "tx"} /\ Len(tx_ring) <= TxRingCap
        /\ server.link \in 0..MaxResets /\ server.out \in 0..MaxOut
    BY DEF LinkInv, FirmwareTypes
  <2>9. /\ phase \in {"boot", "idle", "wait", "cal", "run", "exit"}
        /\ m2c_seq_expected \in 0..(SeqMod - 1)
    BY DEF LinkInv, BridgeTypes
  <2> QED
    BY <2>2, <2>3, <2>4, <2>5, <2>6, <2>7, <2>8, <2>9 DEF TypeOK
<1> QED
  BY <1>1, LinkInvariance, PTL

\* Frames leave the UART whole: neither handle_reset, handle_hello, a failed
\* receive, a rejected packet nor a second handshake cuts a frame that has
\* started, and read_tx lets no control frame into one, however the UART
\* splits what it is offered.
THEOREM WireFramedHolds == Spec => []WireFramed
<1>1. LinkInv => WireFramed
  BY DEF LinkInv, WireInv, WireFramed
<1> QED
  BY <1>1, LinkInvariance, PTL
=============================================================================
