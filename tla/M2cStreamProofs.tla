-------------------------- MODULE M2cStreamProofs --------------------------
(***************************************************************************)
(* A client reads what its server said from the first byte on and without  *)
(* a gap, whatever the wire loses, as long as the firmware itself neither  *)
(* drops what it has numbered nor starts again.  And the bridge does not   *)
(* give up without a reason: noise, such a drop, a reboot, or a            *)
(* calibration that ended in the middle of an echo.                        *)
(***************************************************************************)
EXTENDS M2cSessionProofs

-----------------------------------------------------------------------------
(* The invariant.                                                          *)

\* The firmware has not thrown anything away in this link session.
Clean == excuse \cap {"drop", "restart", "reboot"} = {}

\* A place in the stream: the bytes before it and the number of the frame
\* that begins there.
Mark == [pos : Nat, seq : 0..(SeqMod - 1)]
NextSeq(k) == (k + 1) % SeqMod

\* With its delimiter a DATA_M2C has arrived: it has the number and the bytes
\* of its place, and leads to the next one.
Carries(u) == Delimiter(u) /\ u.frame.type = "DATA_M2C"
Step(a, u, b) ==
    IF Carries(u)
    THEN /\ u.frame.seq = a.seq
         /\ \A j \in 1..Len(u.frame.data) : u.frame.data[j].i = a.pos + j
         /\ b = [pos |-> a.pos + Len(u.frame.data), seq |-> NextSeq(a.seq)]
    ELSE b = a

\* A walk along the units q takes a step of the set R at each of them.
Walk(V, M, R, a, q, b) ==
    /\ V \in [0..Len(q) -> M]
    /\ V[0] = a /\ V[Len(q)] = b
    /\ \A i \in 1..Len(q) : <<V[i - 1], q[i], V[i]>> \in R
Path(M, R, a, q, b) == \E V : Walk(V, M, R, a, q, b)

\* The units of q lead from the mark a to the mark b.
Steps == {t \in Mark \X Unit \X Mark : Step(t[1], t[2], t[3])}
Leads(a, q, b) == Path(Mark, Steps, a, q, b)

\* What the client has got, and what the server has left to say.
Got == [pos |-> Len(tcp), seq |-> m2c_seq_expected]
Said == [pos |-> server.out - Len(tx_ring), seq |-> session.tx_seq_next]

\* The line begins where the client is, or one frame further if noise has
\* taken the delimiter of a frame.
Begins(a) == a = Got \/ ("noise" \in excuse /\ a.seq = NextSeq(m2c_seq_expected))

\* From there the line and the data queue lead to what is still in the ring.
InLine == \E a, m \in Mark : Begins(a) /\ Leads(a, Line, m) /\ Leads(m, session.tx, Said)
InRing == \A i \in 1..Len(tx_ring) : tx_ring[i].i = (server.out - Len(tx_ring)) + i

StreamInv ==
    FirstRun =>
        /\ phase \in {"wait", "cal"} => tcp = <<>>
        /\ Clean => \A i \in 1..Len(tcp) : tcp[i].i = i
        /\ Clean /\ phase = "run" => InRing /\ InLine

-----------------------------------------------------------------------------
(* Paths.                                                                  *)

LEMMA SeqFacts ==
    /\ SeqMod \in Nat /\ SeqMod > 1
    /\ \A k \in 0..(SeqMod - 1) : NextSeq(k) \in 0..(SeqMod - 1) /\ NextSeq(k) # k
<1>1. SeqMod \in Nat /\ SeqMod > 1
  BY LinkAssumption DEF LinkAssumption
<1>2. ASSUME NEW k \in 0..(SeqMod - 1)
      PROVE  NextSeq(k) \in 0..(SeqMod - 1) /\ NextSeq(k) # k
  <2>1. CASE k < SeqMod - 1
    <3>1. NextSeq(k) = k + 1
      BY <1>1, <2>1 DEF NextSeq
    <3> QED
      BY <1>1, <2>1, <3>1
  <2>2. CASE k = SeqMod - 1
    <3>1. NextSeq(k) = 0
      BY <1>1, <2>2 DEF NextSeq
    <3> QED
      BY <1>1, <2>2, <3>1
  <2> QED
    BY <1>1, <2>1, <2>2
<1> QED
  BY <1>1, <1>2

\* Two paths that meet make one.
LEMMA PathJoin ==
    ASSUME NEW M, NEW R, NEW q \in Seq(Unit), NEW r \in Seq(Unit), NEW a, NEW m, NEW b,
           Path(M, R, a, q, m), Path(M, R, m, r, b)
    PROVE  Path(M, R, a, q \o r, b)
<1> DEFINE n == Len(q)
           k == Len(r)
           w == q \o r
<1>0. PICK V : Walk(V, M, R, a, q, m)
  BY DEF Path
<1>1. PICK W : Walk(W, M, R, m, r, b)
  BY DEF Path
<1>2. n \in Nat /\ k \in Nat /\ Len(w) = n + k /\ \A i \in 1..n : w[i] = q[i]
  BY ConcatFacts
<1>3. \A i \in 1..k : w[n + i] = r[i]
  BY ConcatFacts
<1>4. /\ V \in [0..n -> M] /\ V[0] = a /\ V[n] = m
      /\ \A i \in 1..n : <<V[i - 1], q[i], V[i]>> \in R
      /\ W \in [0..k -> M] /\ W[0] = m /\ W[k] = b
      /\ \A i \in 1..k : <<W[i - 1], r[i], W[i]>> \in R
  BY <1>0, <1>1 DEF Walk
<1> DEFINE X == [i \in 0..(n + k) |-> IF i <= n THEN V[i] ELSE W[i - n]]
<1> HIDE DEF n, k, w
<1>5. ASSUME NEW i \in 0..n PROVE X[i] = V[i]
  <2>1. i \in 0..(n + k) /\ i <= n
    BY <1>2
  <2> QED
    BY <2>1
<1>6. ASSUME NEW i \in 0..k PROVE X[n + i] = W[i]
  <2>1. CASE i = 0
    <3>1. n + i = n /\ n \in 0..n
      BY <1>2, <2>1
    <3> QED
      BY <1>4, <1>5, <2>1, <3>1
  <2>2. CASE i # 0
    <3>1. n + i \in 0..(n + k) /\ ~(n + i <= n) /\ (n + i) - n = i
      BY <1>2, <2>2
    <3> QED
      BY <3>1
  <2> QED
    BY <2>1, <2>2
<1>7. X \in [0..Len(w) -> M]
  <2>1. ASSUME NEW i \in 0..(n + k) PROVE (IF i <= n THEN V[i] ELSE W[i - n]) \in M
    <3>1. CASE i <= n
      <4>1. i \in 0..n
        BY <1>2, <3>1
      <4> QED
        BY <1>4, <3>1, <4>1
    <3>2. CASE ~(i <= n)
      <4>1. i - n \in 0..k
        BY <1>2, <3>2
      <4> QED
        BY <1>4, <3>2, <4>1
    <3> QED
      BY <3>1, <3>2
  <2> QED
    BY <1>2, <2>1
<1> HIDE DEF X
<1>8. X[0] = a /\ X[Len(w)] = b
  <2>1. 0 \in 0..n /\ k \in 0..k
    BY <1>2
  <2> QED
    BY <1>2, <1>4, <1>5, <1>6, <2>1
<1>9. ASSUME NEW i \in 1..Len(w) PROVE <<X[i - 1], w[i], X[i]>> \in R
  <2>1. CASE i <= n
    <3>1. i \in 1..n /\ i \in 0..n /\ i - 1 \in 0..n
      BY <1>2, <2>1
    <3> QED
      BY <1>2, <1>4, <1>5, <3>1
  <2>2. CASE ~(i <= n)
    <3> DEFINE j == i - n
    <3>1. j \in 1..k /\ j \in 0..k /\ j - 1 \in 0..k /\ i = n + j /\ i - 1 = n + (j - 1)
      BY <1>2, <2>2
    <3> HIDE DEF j
    <3>2. X[i] = W[j] /\ X[i - 1] = W[j - 1] /\ w[i] = r[j]
      BY <1>3, <1>6, <3>1
    <3> QED
      BY <1>4, <3>1, <3>2
  <2> QED
    BY <2>1, <2>2
<1>10. Walk(X, M, R, a, w, b)
  BY <1>7, <1>8, <1>9 DEF Walk
<1> QED
  BY <1>10 DEF Path, w

\* A path can be cut anywhere.
LEMMA PathCut ==
    ASSUME NEW M, NEW R, NEW q \in Seq(Unit), NEW n \in 0..Len(q), NEW a, NEW b,
           Path(M, R, a, q, b)
    PROVE  \E m \in M : Path(M, R, a, SubSeq(q, 1, n), m) /\ Path(M, R, m, Drop(q, n), b)
<1> DEFINE t == SubSeq(q, 1, n)
           d == Drop(q, n)
           k == Len(q) - n
<1>0. PICK V : Walk(V, M, R, a, q, b)
  BY DEF Path
<1>1. /\ V \in [0..Len(q) -> M] /\ V[0] = a /\ V[Len(q)] = b
      /\ \A i \in 1..Len(q) : <<V[i - 1], q[i], V[i]>> \in R
  BY <1>0 DEF Walk
<1>2. t \in Seq(Unit) /\ Len(t) = n /\ \A i \in 1..n : t[i] = q[i]
  BY TakeFacts
<1>3. d \in Seq(Unit) /\ Len(d) = k /\ \A i \in 1..k : d[i] = q[n + i]
  BY DropFacts
<1>4. n \in Nat /\ Len(q) \in Nat /\ k \in Nat /\ n <= Len(q) /\ n + k = Len(q)
  OBVIOUS
<1> DEFINE X == [i \in 0..n |-> V[i]]
           Y == [i \in 0..k |-> V[n + i]]
<1> HIDE DEF t, d, k
<1>5. Walk(X, M, R, a, t, V[n])
  <2>1. \A i \in 0..n : i \in 0..Len(q) /\ X[i] = V[i]
    BY <1>4
  <2>2. X \in [0..n -> M]
    BY <1>1, <2>1
  <2> HIDE DEF X
  <2>3. ASSUME NEW i \in 1..n PROVE <<X[i - 1], t[i], X[i]>> \in R
    <3>1. i \in 1..Len(q) /\ i - 1 \in 0..n /\ i \in 0..n
      BY <1>4
    <3> QED
      BY <1>1, <1>2, <2>1, <3>1
  <2>4. 0 \in 0..n /\ n \in 0..n
    BY <1>4
  <2> QED
    BY <1>1, <1>2, <2>1, <2>2, <2>3, <2>4 DEF Walk
<1>6. Walk(Y, M, R, V[n], d, b)
  <2>1. \A i \in 0..k : n + i \in 0..Len(q) /\ Y[i] = V[n + i]
    BY <1>4
  <2>2. Y \in [0..k -> M]
    BY <1>1, <2>1
  <2> HIDE DEF Y
  <2>3. ASSUME NEW i \in 1..k PROVE <<Y[i - 1], d[i], Y[i]>> \in R
    <3> DEFINE j == n + i
    <3>1. j \in 1..Len(q) /\ i - 1 \in 0..k /\ i \in 0..k /\ n + (i - 1) = j - 1
      BY <1>4
    <3>2. Y[i] = V[j] /\ Y[i - 1] = V[j - 1] /\ d[i] = q[j]
      BY <1>3, <2>1, <3>1
    <3> HIDE DEF j
    <3> QED
      BY <1>1, <3>1, <3>2
  <2>4. 0 \in 0..k /\ k \in 0..k /\ n + 0 = n
    BY <1>4
  <2> QED
    BY <1>1, <1>3, <1>4, <2>1, <2>2, <2>3, <2>4 DEF Walk
<1>7. V[n] \in M
  BY <1>1, <1>4
<1> QED
  BY <1>5, <1>6, <1>7 DEF Path, t, d

\* The first unit, and the rest.
LEMMA PathFirst ==
    ASSUME NEW M, NEW R, NEW q \in Seq(Unit), q # <<>>, NEW a, NEW b, Path(M, R, a, q, b)
    PROVE  \E m \in M : <<a, q[1], m>> \in R /\ Path(M, R, m, Drop(q, 1), b)
<1>1. Len(q) \in Nat \ {0} /\ 1 \in 0..Len(q) /\ 1 \in 1..1
  BY TailFacts
<1> DEFINE t == SubSeq(q, 1, 1)
<1>2. t \in Seq(Unit) /\ Len(t) = 1 /\ t[1] = q[1]
  BY <1>1, TakeFacts
<1> HIDE DEF t
<1>3. PICK m \in M : Path(M, R, a, t, m) /\ Path(M, R, m, Drop(q, 1), b)
  BY <1>1, PathCut DEF t
<1>4. PICK V : Walk(V, M, R, a, t, m)
  BY <1>3 DEF Path
<1>5. V[0] = a /\ V[1] = m /\ <<V[1 - 1], t[1], V[1]>> \in R
  BY <1>1, <1>2, <1>4 DEF Walk
<1>6. 1 - 1 = 0
  OBVIOUS
<1> QED
  BY <1>2, <1>3, <1>5, <1>6

\* Units at which a path may stay where it is.
LEMMA PathStay ==
    ASSUME NEW M, NEW R, NEW q \in Seq(Unit), NEW a \in M,
           \A i \in 1..Len(q) : <<a, q[i], a>> \in R
    PROVE  Path(M, R, a, q, a)
<1> DEFINE V == [i \in 0..Len(q) |-> a]
<1>1. Len(q) \in Nat
  OBVIOUS
<1>2. V \in [0..Len(q) -> M] /\ \A i \in 0..Len(q) : V[i] = a
  OBVIOUS
<1> HIDE DEF V
<1>3. ASSUME NEW i \in 1..Len(q) PROVE <<V[i - 1], q[i], V[i]>> \in R
  <2>1. i \in 0..Len(q) /\ i - 1 \in 0..Len(q)
    BY <1>1
  <2> QED
    BY <1>2, <2>1
<1>4. Walk(V, M, R, a, q, a)
  BY <1>1, <1>2, <1>3 DEF Walk
<1> QED
  BY <1>4 DEF Path

\* A frame at whose delimiter a path goes from a to b.
LEMMA PathFrame ==
    ASSUME NEW M, NEW R, NEW f \in Frame, NEW a \in M, NEW b \in M,
           \A i \in 1..(f.len - 1) : <<a, [frame |-> f, part |-> i], a>> \in R,
           <<a, [frame |-> f, part |-> f.len], b>> \in R
    PROVE  Path(M, R, a, Units(f), b)
<1> DEFINE us == Units(f)
           n == f.len
           V == [i \in 0..n |-> IF i = n THEN b ELSE a]
<1>1. us \in Seq(Unit) /\ Len(us) = n /\ \A i \in 1..n : us[i] = [frame |-> f, part |-> i]
  BY UnitsFacts
<1>2. n \in Nat \ {0}
  BY DEF Frame
<1>3. /\ \A i \in 1..(n - 1) : <<a, [frame |-> f, part |-> i], a>> \in R
      /\ <<a, [frame |-> f, part |-> n], b>> \in R
  OBVIOUS
<1> HIDE DEF us, n
<1>4. /\ V \in [0..n -> M] /\ V[n] = b /\ \A i \in 0..(n - 1) : V[i] = a
  <2>1. V \in [0..n -> M]
    OBVIOUS
  <2>2. V[n] = b
    BY <1>2
  <2>3. \A i \in 0..(n - 1) : V[i] = a
    BY <1>2
  <2> QED
    BY <2>1, <2>2, <2>3
<1> HIDE DEF V
<1>5. ASSUME NEW i \in 1..n PROVE <<V[i - 1], us[i], V[i]>> \in R
  <2>1. i - 1 \in 0..(n - 1) /\ V[i - 1] = a
    BY <1>2, <1>4
  <2>2. CASE i = n
    BY <1>1, <1>3, <1>4, <2>1, <2>2
  <2>3. CASE i # n
    <3>1. i \in 1..(n - 1) /\ i \in 0..(n - 1)
      BY <1>2, <2>3
    <3> QED
      BY <1>1, <1>3, <1>4, <2>1, <3>1
  <2> QED
    BY <2>2, <2>3
<1>6. 0 \in 0..(n - 1)
  BY <1>2
<1>7. Walk(V, M, R, a, us, b)
  BY <1>1, <1>4, <1>5, <1>6 DEF Walk
<1> QED
  BY <1>7 DEF Path, us

\* A path begins and ends in its set.
LEMMA PathEnds ==
    ASSUME NEW M, NEW R, NEW q \in Seq(Unit), NEW a, NEW b, Path(M, R, a, q, b)
    PROVE  a \in M /\ b \in M
<1>1. PICK V : Walk(V, M, R, a, q, b)
  BY DEF Path
<1>2. V \in [0..Len(q) -> M] /\ V[0] = a /\ V[Len(q)] = b /\ Len(q) \in Nat
  BY <1>1 DEF Walk
<1>3. 0 \in 0..Len(q) /\ Len(q) \in 0..Len(q)
  BY <1>2
<1> QED
  BY <1>2, <1>3

-----------------------------------------------------------------------------
(* The bytes along a path.                                                 *)

\* Units that complete no DATA_M2C lead nowhere.
LEMMA LeadsNowhere ==
    ASSUME NEW q \in Seq(Unit), NEW a \in Mark, \A i \in 1..Len(q) : ~Carries(q[i])
    PROVE  Leads(a, q, a)
<1>1. \A i \in 1..Len(q) : <<a, q[i], a>> \in Steps
  BY DEF Step, Steps
<1> QED
  BY <1>1, PathStay DEF Leads

\* Control frames are such units.
LEMMA LeadsControl ==
    ASSUME NEW q, NEW A, q \in Seq(ControlUnit(A)), NEW a \in Mark
    PROVE  q \in Seq(Unit) /\ Leads(a, q, a)
<1>1. ControlUnit(A) \subseteq Unit /\ \A u \in ControlUnit(A) : ~Carries(u)
  BY DEF ControlUnit, AckIn, Carries
<1>2. q \in Seq(Unit)
  BY <1>1, SeqMonotonic
<1>3. \A i \in 1..Len(q) : ~Carries(q[i])
  BY <1>1
<1> QED
  BY <1>2, <1>3, LeadsNowhere

\* A whole DATA_M2C.
LEMMA LeadsFrame ==
    ASSUME NEW f \in Frame, NEW a \in Mark, f.type = "DATA_M2C", f.seq = a.seq,
           \A j \in 1..Len(f.data) : f.data[j].i = a.pos + j
    PROVE  Leads(a, Units(f), [pos |-> a.pos + Len(f.data), seq |-> NextSeq(a.seq)])
<1> DEFINE n == f.len
           b == [pos |-> a.pos + Len(f.data), seq |-> NextSeq(a.seq)]
           U(i) == [frame |-> f, part |-> i]
<1>1. n \in Nat \ {0} /\ f.data \in Seq(Byte)
  BY DEF Frame
<1>2. b \in Mark
  <2>0. a.seq \in 0..(SeqMod - 1) /\ a.pos \in Nat
    BY DEF Mark
  <2>1. NextSeq(a.seq) \in 0..(SeqMod - 1) /\ a.pos \in Nat /\ Len(f.data) \in Nat
    BY <1>1, <2>0, SeqFacts
  <2> QED
    BY <2>1 DEF Mark
<1>3. \A i \in 1..n : U(i) \in Unit /\ (Delimiter(U(i)) <=> i = n)
  BY <1>1 DEF Unit, Delimiter
<1>4. ASSUME NEW i \in 1..(n - 1) PROVE <<a, U(i), a>> \in Steps
  <2>1. i \in 1..n /\ i # n
    BY <1>1
  <2>2. U(i) \in Unit /\ ~Carries(U(i))
    BY <1>3, <2>1 DEF Carries
  <2> HIDE DEF U
  <2> QED
    BY <2>2 DEF Steps, Step
<1>5. <<a, U(n), b>> \in Steps
  <2>1. n \in 1..n
    BY <1>1
  <2>2. U(n) \in Unit /\ Carries(U(n)) /\ U(n).frame = f
    BY <1>3, <2>1 DEF Carries
  <2> HIDE DEF U
  <2>3. Step(a, U(n), b)
    BY <2>2 DEF Step
  <2> QED
    BY <1>2, <2>2, <2>3 DEF Steps
<1> HIDE DEF b
<1>6. Path(Mark, Steps, a, Units(f), b)
  BY <1>2, <1>4, <1>5, PathFrame
<1> QED
  BY <1>6 DEF Leads, b

-----------------------------------------------------------------------------
(* The firmware's steps.                                                   *)

\* Nothing moves on the line.
LEMMA StreamKept ==
    ASSUME InRing, InLine, Line' = Line, UNCHANGED <<tx_ring, tcp, m2c_seq_expected>>,
           "noise" \in excuse => "noise" \in excuse', server'.out = server.out,
           session'.tx = session.tx, session'.tx_seq_next = session.tx_seq_next
    PROVE  InRing' /\ InLine'
<1>1. PICK a, m \in Mark : Begins(a) /\ Leads(a, Line, m) /\ Leads(m, session.tx, Said)
  BY DEF InLine
<1>2. Said' = Said /\ Got' = Got
  BY DEF Said, Got
<1>3. Begins(a)'
  BY <1>1, <1>2 DEF Begins
<1>4. Leads(a, Line', m) /\ Leads(m, session'.tx, Said')
  BY <1>1, <1>2
<1> QED
  BY <1>3, <1>4 DEF InRing, InLine

LEMMA RxRun ==
    ASSUME LinkInv, PumpLinkRx, Running, Clean', InRing, InLine
    PROVE  Clean /\ InRing' /\ InLine'
<1>1. c2m # <<>> => Head(c2m).type \in {"DATA_C2M", "RATE_PROBE"}
  <2>1. c2m # <<>> => Head(c2m) \in RequestOf(link)
    BY TailFacts DEF Running
  <2> QED
    BY <2>1 DEF RequestOf
<1>2. KeepsStream
  BY <1>1, RxStream
<1>3. /\ session'.tx = session.tx /\ session'.tx_seq_next = session.tx_seq_next
      /\ UNCHANGED <<pending, tx_ring, server, excuse>>
  BY <1>2 DEF KeepsStream, Clean
<1>4. UNCHANGED <<uart, tcp, m2c_seq_expected>>
  BY DEF PumpLinkRx, bridgeVars
<1>5. Line' = Line
  BY <1>3, <1>4 DEF Line, Unsent
<1> QED
  BY <1>3, <1>4, <1>5, StreamKept DEF Clean

\* What the server says goes to the end of the ring.
LEMMA ServerSays ==
    ASSUME LinkInv, PumpServer, Clean'
    PROVE  /\ session'.tx = session.tx /\ session'.tx_seq_next = session.tx_seq_next
           /\ UNCHANGED <<pending, excuse>>
           /\ \/ tx_ring' = tx_ring /\ server'.out = server.out
              \/ \E l, n \in Nat :
                    /\ tx_ring' = tx_ring \o [i \in 1..n |-> [link |-> l, i |-> server.out + i]]
                    /\ server'.out = server.out + n
<1>0. session \in Session /\ server \in [link : 0..MaxResets, out : 0..MaxOut]
      /\ tx_ring \in Seq(Byte) /\ MaxOut \in Nat /\ TxRingCap \in Nat /\ MaxResets \in Nat
      /\ (rx # NoRx => rx.link \in 0..MaxResets)
  BY FreshFacts DEF LinkInv, FirmwareTypes, WireInv, Steady, Sound, SessionOK
<1>1. ServerReceive
  BY DEF PumpServer, ServerReject, Clean
<1> DEFINE s == IF rx = NoRx THEN session
                ELSE queue_control_frame(session, Control("ACK_C2M", 0))
           heard == IF rx # NoRx /\ server.link = 0 THEN [server EXCEPT !.link = rx.link]
                    ELSE server
<1>2. s.tx = session.tx /\ s.tx_seq_next = session.tx_seq_next
  <2>1. Control("ACK_C2M", 0) \in Frame
    BY ControlFacts DEF FrameTypes
  <2> QED
    BY <1>0, <2>1, QueueCounts
<1>3. heard.out = server.out /\ heard.link \in Nat
  BY <1>0
<1>4. \/ /\ drop_stale_link_tx_data(s) /\ excuse' = excuse \cup DropExcuse(s)
         /\ ServerOutput(<<>>, heard)
      \/ session' = s /\ UNCHANGED <<pending, excuse>> /\ ServerOutput(tx_ring, heard)
  BY <1>1 DEF ServerReceive
<1> HIDE DEF s, heard
<1>5. session' = s /\ UNCHANGED <<pending, excuse>> /\ ServerOutput(tx_ring, heard)
  <2>1. CASE /\ drop_stale_link_tx_data(s) /\ excuse' = excuse \cup DropExcuse(s)
             /\ ServerOutput(<<>>, heard)
    <3>1. "drop" \notin DropExcuse(s) /\ "restart" \notin DropExcuse(s)
      BY <2>1 DEF Clean
    <3>2. /\ mc_link_session_drop_queued_data(s) = s /\ dropped_pending(s, pending) = pending
          /\ tx_ring = <<>>
      BY <3>1 DEF DropExcuse
    <3>3. DropExcuse(s) = {}
      BY <3>2 DEF DropExcuse
    <3> QED
      BY <2>1, <3>2, <3>3 DEF drop_stale_link_tx_data
  <2> QED
    BY <1>4, <2>1
<1>6. CASE tx_ring' = tx_ring /\ server' = heard
  BY <1>2, <1>3, <1>5, <1>6
<1>7. CASE heard.link # 0 /\ \E n \in 1..Lesser(MaxOut - heard.out, TxRingCap - Len(tx_ring)) :
               /\ tx_ring' = tx_ring \o [i \in 1..n |-> [link |-> heard.link, i |-> heard.out + i]]
               /\ server' = [heard EXCEPT !.out = @ + n]
  <2>1. PICK n \in 1..Lesser(MaxOut - heard.out, TxRingCap - Len(tx_ring)) :
               /\ tx_ring' = tx_ring \o [i \in 1..n |-> [link |-> heard.link, i |-> heard.out + i]]
               /\ server' = [heard EXCEPT !.out = @ + n]
    BY <1>7
  <2>2. n \in Nat
    BY <1>0, <1>3 DEF Lesser
  <2>3. server'.out = server.out + n
    <3>1. heard \in [link : 0..MaxResets, out : 0..MaxOut]
      BY <1>0 DEF heard
    <3> QED
      BY <1>3, <2>1, <3>1
  <2>4. tx_ring' = tx_ring \o [i \in 1..n |-> [link |-> heard.link, i |-> server.out + i]]
    BY <1>3, <2>1
  <2> QED
    BY <1>2, <1>3, <1>5, <2>2, <2>3, <2>4
<1> QED
  BY <1>5, <1>6, <1>7 DEF ServerOutput

LEMMA ServerRun ==
    ASSUME LinkInv, PumpServer, Clean', InRing, InLine
    PROVE  Clean /\ InRing' /\ InLine'
<1>1. /\ session'.tx = session.tx /\ session'.tx_seq_next = session.tx_seq_next
      /\ UNCHANGED <<pending, excuse>>
      /\ \/ tx_ring' = tx_ring /\ server'.out = server.out
         \/ \E l, n \in Nat :
               /\ tx_ring' = tx_ring \o [i \in 1..n |-> [link |-> l, i |-> server.out + i]]
               /\ server'.out = server.out + n
  BY ServerSays
<1>2. UNCHANGED <<uart, tcp, m2c_seq_expected>>
  BY DEF PumpServer, bridgeVars
<1>3. Line' = Line
  BY <1>1, <1>2 DEF Line, Unsent
<1>4. CASE tx_ring' = tx_ring /\ server'.out = server.out
  BY <1>1, <1>2, <1>3, <1>4, StreamKept DEF Clean
<1>5. ASSUME NEW l \in Nat, NEW n \in Nat,
             tx_ring' = tx_ring \o [i \in 1..n |-> [link |-> l, i |-> server.out + i]],
             server'.out = server.out + n
      PROVE  InRing' /\ InLine'
  <2> DEFINE S == [link : Nat, i : Nat]
             said == [i \in 1..n |-> [link |-> l, i |-> server.out + i]]
             k == Len(tx_ring)
  <2>1. server.out \in Nat /\ tx_ring \in Seq(S) /\ k \in Nat
    <3>1. tx_ring \in Seq(Byte) /\ server \in [link : 0..MaxResets, out : 0..MaxOut]
          /\ MaxResets \in Nat /\ MaxOut \in Nat
      BY FreshFacts DEF LinkInv, FirmwareTypes
    <3>2. Byte \subseteq S
      BY <3>1 DEF Byte
    <3>3. tx_ring \in Seq(S)
      BY <3>1, <3>2, SeqMonotonic
    <3> QED
      BY <3>1, <3>3
  <2>2. said \in Seq(S) /\ Len(said) = n /\ \A i \in 1..n : said[i].i = server.out + i
    <3>1. \A i \in 1..n : [link |-> l, i |-> server.out + i] \in S
      BY <2>1
    <3> QED
      BY <1>5, <3>1
  <2>3. tx_ring' = tx_ring \o said
    BY <1>5
  <2> HIDE DEF S, said
  <2>4. Len(tx_ring') = k + n /\ \A i \in 1..k : tx_ring'[i] = tx_ring[i]
    BY <2>1, <2>2, <2>3, ConcatFacts
  <2>5. \A i \in 1..n : tx_ring'[k + i] = said[i]
    BY <2>1, <2>2, <2>3, ConcatFacts
  <2>6. server'.out - Len(tx_ring') = server.out - k
    BY <1>5, <2>1, <2>4
  <2>7. ASSUME NEW i \in 1..Len(tx_ring') PROVE tx_ring'[i].i = (server.out - k) + i
    <3>1. CASE i <= k
      <4>1. i \in 1..k
        BY <2>1, <2>4, <3>1
      <4> QED
        BY <2>4, <4>1 DEF InRing
    <3>2. CASE ~(i <= k)
      <4> DEFINE j == i - k
      <4>1. j \in 1..n /\ i = k + j /\ (server.out - k) + i = server.out + j
        BY <1>5, <2>1, <2>4, <3>2
      <4> HIDE DEF j
      <4> QED
        BY <2>2, <2>5, <4>1
    <3> QED
      BY <3>1, <3>2
  <2>8. InRing'
    BY <2>6, <2>7 DEF InRing
  <2>9. InLine'
    <3>1. PICK a, m \in Mark : Begins(a) /\ Leads(a, Line, m) /\ Leads(m, session.tx, Said)
      BY DEF InLine
    <3>2. Said' = Said /\ Got' = Got
      BY <1>1, <1>2, <2>6 DEF Said, Got
    <3>3. Begins(a)'
      BY <1>1, <1>2, <3>1, <3>2 DEF Begins
    <3>4. Leads(a, Line', m) /\ Leads(m, session'.tx, Said')
      BY <1>1, <1>3, <3>1, <3>2
    <3> QED
      BY <3>3, <3>4 DEF InLine
  <2> QED
    BY <2>8, <2>9
<1> QED
  BY <1>1, <1>4, <1>5 DEF Clean

\* A DATA_M2C takes its bytes from the front of the ring.
LEMMA QueueLeads ==
    ASSUME FirmwareTypes, SessionOK(session), InRing, NEW m \in Mark, Leads(m, session.tx, Said)
    PROVE  LET s == mc_link_session_queue_server_tx
               ring == IF CanQueueServerTx THEN Drop(tx_ring, Len(ServerFrame.data)) ELSE tx_ring
           IN  /\ Leads(m, s.tx, [pos |-> server.out - Len(ring), seq |-> s.tx_seq_next])
               /\ \A i \in 1..Len(ring) : ring[i].i = (server.out - Len(ring)) + i
<1> DEFINE s == mc_link_session_queue_server_tx
           f == ServerFrame
           k == Len(f.data)
           d == Drop(tx_ring, k)
<1>1. CASE ~CanQueueServerTx
  <2>1. s = session
    BY <1>1 DEF mc_link_session_queue_server_tx, CanQueueServerTx
  <2> QED
    BY <1>1, <2>1 DEF InRing, Said
<1>2. CASE CanQueueServerTx
  <2>0. /\ session \in Session /\ session.tx \in Seq(Unit) /\ tx_ring \in Seq(Byte)
        /\ Len(tx_ring) \in Nat /\ server.out \in Nat
    BY FreshFacts DEF SessionOK, Session, FirmwareTypes
  <2>1. s = [session EXCEPT !.tx = @ \o Units(f), !.tx_seq_next = (@ + 1) % SeqMod]
    BY <1>2 DEF mc_link_session_queue_server_tx, CanQueueServerTx
  <2>2. /\ f \in Frame /\ f.type = "DATA_M2C" /\ f.seq = session.tx_seq_next
        /\ k \in 0..Len(tx_ring) /\ f.data = SubSeq(tx_ring, 1, k)
    BY ServerFrameFacts
  <2> HIDE DEF s, f
  <2>3. s.tx = session.tx \o Units(f) /\ s.tx_seq_next = NextSeq(session.tx_seq_next)
    BY <2>0, <2>1 DEF Session, NextSeq
  <2> HIDE DEF k
  <2>4. \A i \in 1..k : f.data[i] = tx_ring[i]
    BY <2>0, <2>2, TakeFacts
  <2>5. d \in Seq(Byte) /\ Len(d) = Len(tx_ring) - k /\ \A i \in 1..(Len(tx_ring) - k) : d[i] = tx_ring[k + i]
    BY <2>0, <2>2, DropFacts
  <2> HIDE DEF d
  <2>6. Said \in Mark
    BY <2>0, PathEnds DEF Leads
  <2>7. Said.pos = server.out - Len(tx_ring) /\ Said.seq = session.tx_seq_next
    BY DEF Said
  <2>8. \A j \in 1..Len(f.data) : f.data[j].i = Said.pos + j
    <3> SUFFICES ASSUME NEW j \in 1..k PROVE f.data[j].i = Said.pos + j
      BY DEF k
    <3>1. j \in 1..Len(tx_ring)
      BY <2>0, <2>2
    <3> QED
      BY <2>4, <2>7, <3>1 DEF InRing
  <2>9. Leads(Said, Units(f), [pos |-> Said.pos + k, seq |-> NextSeq(Said.seq)])
    BY <2>2, <2>6, <2>7, <2>8, LeadsFrame DEF k
  <2>10. Units(f) \in Seq(Unit)
    BY <2>2, UnitsFacts
  <2>11. Leads(m, s.tx, [pos |-> Said.pos + k, seq |-> NextSeq(Said.seq)])
    BY <2>0, <2>3, <2>9, <2>10, PathJoin DEF Leads
  <2>12. Said.pos + k = server.out - Len(d) /\ NextSeq(Said.seq) = s.tx_seq_next
    BY <2>0, <2>2, <2>3, <2>5, <2>7
  <2>13. Leads(m, s.tx, [pos |-> server.out - Len(d), seq |-> s.tx_seq_next])
    BY <2>11, <2>12
  <2>14. ASSUME NEW i \in 1..Len(d) PROVE d[i].i = (server.out - Len(d)) + i
    <3> DEFINE j == k + i
    <3>1. i \in 1..(Len(tx_ring) - k) /\ j \in 1..Len(tx_ring)
          /\ (server.out - Len(tx_ring)) + j = (server.out - Len(d)) + i
      BY <2>0, <2>2, <2>5
    <3>2. d[i] = tx_ring[j]
      BY <2>5, <3>1
    <3> HIDE DEF j
    <3> QED
      BY <3>1, <3>2 DEF InRing
  <2> QED
    BY <1>2, <2>13, <2>14 DEF d, k, f, s
<1> QED
  BY <1>1, <1>2

LEMMA TxRun ==
    ASSUME LinkInv, SessionInv, PumpLinkTx, InRing, InLine
    PROVE  InRing' /\ InLine'
<1> DEFINE s == mc_link_session_queue_server_tx
           r == mc_link_session_read_tx(s)
           u == LastOf(last, Unsent(pending))
           ring == IF CanQueueServerTx THEN Drop(tx_ring, Len(ServerFrame.data)) ELSE tx_ring
<1>0. UNCHANGED <<server, tcp, m2c_seq_expected, excuse>>
  BY DEF PumpLinkTx, bridgeVars
<1>1. CASE Line' = Line /\ UNCHANGED <<session, tx_ring>>
  BY <1>0, <1>1, StreamKept
<1>2. CASE Line' = Line \o r.buf /\ session' = r.s /\ tx_ring' = ring
  <2>1. /\ FirmwareTypes /\ SessionOK(session) /\ Sound(session, u) /\ u \in Unit
        /\ Line \in Seq(Unit) /\ Within(session, ControlUnit(Nat), DataUnit)
    BY LineFacts, LastOfFacts DEF LinkInv, WireInv, Steady, Sound, SessionInv
  <2>2. Sound(s, u)
    BY <2>1, QueueServerTxSound
  <2>3. Within(s, ControlUnit(Nat), Unit)
    <3>1. Within(session, ControlUnit(Nat), Unit)
      BY <2>1 DEF Within, Session
    <3>2. s.control_tx = session.control_tx
      BY <2>1 DEF mc_link_session_queue_server_tx, SessionOK, Session
    <3> QED
      BY <2>2, <3>1, <3>2 DEF Within, Sound, SessionOK, Session
  <2>4. PICK a, m \in Mark : Begins(a) /\ Leads(a, Line, m) /\ Leads(m, session.tx, Said)
    BY DEF InLine
  <2> DEFINE e == [pos |-> server.out - Len(ring), seq |-> s.tx_seq_next]
  <2>5. /\ Leads(m, s.tx, e)
        /\ \A i \in 1..Len(ring) : ring[i].i = (server.out - Len(ring)) + i
    BY <2>1, <2>4, QueueLeads
  <2> HIDE DEF u, ring
  <2>6. /\ r.s.tx_seq_next = s.tx_seq_next
        /\ \/ r.s.tx = s.tx /\ r.buf \in Seq(ControlUnit(Nat))
           \/ \E n \in 0..Len(s.tx) : r.buf = SubSeq(s.tx, 1, n) /\ r.s.tx = Drop(s.tx, n)
    BY <2>1, <2>2, <2>3, ReadWithin
  <2>7. Said' = e
    BY <1>0, <1>2, <2>6 DEF Said
  <2>8. InRing'
    BY <1>0, <1>2, <2>5 DEF InRing
  <2>9. s.tx \in Seq(Unit)
    BY <2>3 DEF Within
  <2> HIDE DEF e, r, s
  <2>10. \E c \in Mark : Leads(a, Line \o r.buf, c) /\ Leads(c, r.s.tx, e)
    <3>1. CASE r.s.tx = s.tx /\ r.buf \in Seq(ControlUnit(Nat))
      <4>1. r.buf \in Seq(Unit) /\ Leads(m, r.buf, m)
        BY <2>4, <3>1, LeadsControl
      <4>2. Leads(a, Line \o r.buf, m)
        BY <2>1, <2>4, <4>1, PathJoin DEF Leads
      <4> QED
        BY <2>4, <2>5, <3>1, <4>2
    <3>2. ASSUME NEW n \in 0..Len(s.tx), r.buf = SubSeq(s.tx, 1, n), r.s.tx = Drop(s.tx, n)
          PROVE  \E c \in Mark : Leads(a, Line \o r.buf, c) /\ Leads(c, r.s.tx, e)
      <4>1. PICK c \in Mark : Leads(m, r.buf, c) /\ Leads(c, r.s.tx, e)
        BY <2>5, <2>9, <3>2, PathCut DEF Leads
      <4>2. r.buf \in Seq(Unit)
        BY <2>9, <3>2, TakeFacts
      <4>3. Leads(a, Line \o r.buf, c)
        BY <2>1, <2>4, <4>1, <4>2, PathJoin DEF Leads
      <4> QED
        BY <4>1, <4>3
    <3> QED
      BY <2>6, <3>1, <3>2
  <2>11. PICK c \in Mark : Leads(a, Line', c) /\ Leads(c, session'.tx, Said')
    BY <1>2, <2>7, <2>10
  <2>12. Begins(a)'
    BY <1>0, <2>4 DEF Begins, Got
  <2> QED
    BY <2>4, <2>8, <2>11, <2>12 DEF InLine
<1> QED
  BY <1>1, <1>2, LineWritten

-----------------------------------------------------------------------------
(* The bridge's steps.                                                     *)

\* The bridge takes the first unit off the line.
LEMMA LineFirst ==
    ASSUME LinkInv, uart # <<>>, uart' = Tail(uart), pending' = pending,
           NEW M, NEW R, NEW a, NEW b, Path(M, R, a, Line, b)
    PROVE  \E m \in M : <<a, Head(uart), m>> \in R /\ Path(M, R, m, Line', b)
<1>1. /\ uart \in Seq(Unit) /\ Unsent(pending) \in Seq(Unit) /\ Line \in Seq(Unit)
      /\ uart' = Drop(uart, 1) /\ Len(uart) \in Nat \ {0} /\ Head(uart) = uart[1]
  BY LineFacts, TailFacts
<1>2. 1 \in 0..Len(uart) /\ 1 \in 1..Len(uart)
  BY <1>1
<1>3. Line' = Drop(Line, 1)
  BY <1>1, <1>2, LineRead
<1>4. Line[1] = Head(uart) /\ Line # <<>>
  <2>1. /\ \A i \in 1..Len(uart) : Line[i] = uart[i]
        /\ Len(Line) = Len(uart) + Len(Unsent(pending)) /\ Len(Unsent(pending)) \in Nat
    BY <1>1, ConcatFacts DEF Line
  <2> QED
    BY <1>1, <1>2, <2>1
<1> QED
  BY <1>1, <1>3, <1>4, PathFirst

\* Sequenced frames come in the order of their bytes; after a lost one the
\* next has a number too high.
LEMMA ReadRun ==
    ASSUME LinkInv, RunReceive, phase' = "run", InRing, InLine
    PROVE  /\ InRing' /\ InLine'
           /\ (\A i \in 1..Len(tcp) : tcp[i].i = i) => \A i \in 1..Len(tcp') : tcp'[i].i = i
<1>0. /\ uart # <<>> /\ uart \in Seq(Unit) /\ UNCHANGED <<session, pending, tx_ring, server, excuse>>
      /\ m2c_seq_expected \in 0..(SeqMod - 1) /\ tcp \in Seq(Byte) /\ phase = "run"
  BY LineFacts DEF RunReceive, fwVars, LinkInv, BridgeTypes
<1>1. RunData \/ RunOther
  BY DEF RunReceive, RunReset, StartReset
<1>2. uart' = Tail(uart)
  BY <1>1 DEF RunData, RunOther
<1>3. PICK a, m \in Mark : Begins(a) /\ Leads(a, Line, m) /\ Leads(m, session.tx, Said)
  BY DEF InLine
<1>4. PICK b \in Mark : Step(a, Head(uart), b) /\ Leads(b, Line', m)
  BY <1>0, <1>2, <1>3, LineFirst DEF Leads, Steps
<1>5. Said' = Said /\ InRing' /\ Leads(m, session'.tx, Said')
  BY <1>0, <1>3 DEF Said, InRing
<1>6. CASE RunOther
  <2>1. ~Carries(Head(uart))
    <3>1. Decoded.type # "DATA_M2C" /\ Decoded.type # "error"
      BY <1>6 DEF RunOther
    <3> QED
      BY <3>1 DEF Decoded, Carries
  <2>2. b = a /\ UNCHANGED <<tcp, m2c_seq_expected>>
    BY <1>4, <1>6, <2>1 DEF Step, RunOther
  <2>3. Begins(b)'
    BY <1>0, <1>3, <2>2 DEF Begins, Got
  <2>4. InLine'
    BY <1>4, <1>5, <2>3 DEF InLine
  <2> QED
    BY <1>5, <2>2, <2>4
<1>7. CASE RunData
  <2> DEFINE f == Head(uart).frame
             n == Len(tcp)
  <2>1. /\ Decoded.type = "DATA_M2C" /\ accept_m2c_sequence(Decoded)
        /\ m2c_seq_expected' = NextSeq(m2c_seq_expected) /\ tcp' = tcp \o Decoded.data
    BY <1>7 DEF RunData, NextSeq
  <2>2. Decoded = f /\ Delimiter(Head(uart)) /\ f \in Frame
    BY <1>0, <2>1, DecodedFacts DEF FrameTypes
  <2>3. Carries(Head(uart)) /\ f.seq = m2c_seq_expected
    BY <2>1, <2>2 DEF Carries, accept_m2c_sequence
  <2>4. /\ f.seq = a.seq /\ \A j \in 1..Len(f.data) : f.data[j].i = a.pos + j
        /\ b = [pos |-> a.pos + Len(f.data), seq |-> NextSeq(a.seq)]
    BY <1>4, <2>3 DEF Step
  <2>5. a = Got
    BY <1>0, <1>3, <2>3, <2>4, SeqFacts DEF Begins
  <2>6. a.pos = n /\ a.seq = m2c_seq_expected
    BY <2>5 DEF Got
  <2>7. f.data \in Seq(Byte) /\ n \in Nat /\ Len(f.data) \in Nat
    BY <1>0, <2>2 DEF Frame
  <2> DEFINE g == f.data
  <2> HIDE DEF f, n
  <2>8. tcp' = tcp \o g /\ Len(tcp') = n + Len(g) /\ \A i \in 1..n : tcp'[i] = tcp[i]
    BY <1>0, <2>1, <2>2, <2>7, ConcatFacts DEF n
  <2>9. \A i \in 1..Len(g) : tcp'[n + i] = g[i]
    BY <1>0, <2>7, <2>8, ConcatFacts DEF n
  <2> HIDE DEF g
  <2>10. b = Got'
    BY <2>1, <2>4, <2>6, <2>8 DEF Got, g
  <2>11. InLine'
    <3>1. Begins(b)'
      BY <2>10 DEF Begins
    <3> QED
      BY <1>4, <1>5, <3>1 DEF InLine
  <2>12. ASSUME \A i \in 1..Len(tcp) : tcp[i].i = i, NEW i \in 1..Len(tcp') PROVE tcp'[i].i = i
    <3>1. CASE i <= n
      <4>1. i \in 1..n
        BY <2>7, <2>8, <3>1 DEF g
      <4> QED
        BY <2>8, <2>12, <4>1 DEF n
    <3>2. CASE ~(i <= n)
      <4> DEFINE j == i - n
      <4>1. j \in 1..Len(g) /\ i = n + j
        BY <2>7, <2>8, <3>2 DEF g
      <4> HIDE DEF j
      <4> QED
        BY <2>4, <2>6, <2>9, <4>1 DEF g
    <3> QED
      BY <3>1, <3>2
  <2> QED
    BY <1>5, <2>11, <2>12
<1> QED
  BY <1>1, <1>6, <1>7

LEMMA LoseUnitRun ==
    ASSUME LinkInv, LoseUnit, InRing, InLine
    PROVE  InRing' /\ InLine'
<1>1. /\ "noise" \notin excuse /\ "noise" \in excuse' /\ uart # <<>> /\ uart' = Tail(uart)
      /\ UNCHANGED <<session, pending, tx_ring, server, tcp, m2c_seq_expected>>
  BY DEF LoseUnit, fwVars, bridgeVars
<1>2. PICK a, m \in Mark : Begins(a) /\ Leads(a, Line, m) /\ Leads(m, session.tx, Said)
  BY DEF InLine
<1>3. PICK b \in Mark : Step(a, Head(uart), b) /\ Leads(b, Line', m)
  BY <1>1, <1>2, LineFirst DEF Leads, Steps
<1>4. a = Got /\ a.seq = m2c_seq_expected
  BY <1>1, <1>2 DEF Begins, Got
<1>5. b = a \/ b.seq = NextSeq(m2c_seq_expected)
  BY <1>3, <1>4 DEF Step
<1>6. Begins(b)'
  BY <1>1, <1>4, <1>5 DEF Begins, Got
<1>7. Leads(m, session'.tx, Said') /\ InRing'
  BY <1>1, <1>2 DEF Said, InRing
<1> QED
  BY <1>3, <1>6, <1>7 DEF InLine

\* After the calibration both ends begin at 0.
LEMMA CalDoneStream ==
    ASSUME LinkInv, CalDone, Calibrating, tcp = <<>>
    PROVE  InRing' /\ InLine'
<1> DEFINE z == [pos |-> 0, seq |-> 0]
<1>1. /\ UNCHANGED <<session, pending, tx_ring, server, uart, tcp>> /\ m2c_seq_expected' = 0
      /\ tx_ring = <<>> /\ server = FreshServer /\ session.tx = <<>> /\ session.tx_seq_next = 0
      /\ Line \in Seq(ControlUnit(Nat))
  BY DEF CalDone, fwVars, Calibrating, Quiet
<1>2. z \in Mark
  BY SeqFacts DEF Mark
<1>3. Got' = z /\ Said' = z
  BY <1>1 DEF Got, Said, FreshServer
<1>4. Line' = Line
  BY <1>1 DEF Line, Unsent
<1> HIDE DEF z
<1>5. Leads(z, Line', z)
  BY <1>1, <1>2, <1>4, LeadsControl
<1>6. Leads(z, session'.tx, Said')
  <2>1. session'.tx \in Seq(ControlUnit(Nat)) /\ Said' = z
    BY <1>1, <1>3, EmptyWithin
  <2> QED
    BY <1>2, <2>1, LeadsControl
<1>7. Begins(z)'
  BY <1>3 DEF Begins
<1>8. InRing'
  BY <1>1 DEF InRing
<1> QED
  BY <1>2, <1>5, <1>6, <1>7, <1>8 DEF InLine

-----------------------------------------------------------------------------
(* The theorems.                                                           *)

LEMMA InitStream == Init => StreamInv
  BY DEF Init, StreamInv

\* The steps that leave the client alone.
Aside == Next /\ ~Crash /\ ~Connect /\ ~Recalibrate /\ ~WaitReceive /\ ~RunReceive

LEMMA AsideKeeps ==
    ASSUME Aside
    PROVE  /\ tcp' = tcp /\ excuse \subseteq excuse'
           /\ phase' \in {"wait", "cal"} => phase' = phase
           /\ phase' = "run" => phase = "run" \/ CalDone
<1>1. CASE PumpLinkRx
  <2>1. UNCHANGED <<tcp, phase>>
    BY <1>1 DEF PumpLinkRx, bridgeVars
  <2>2. excuse \subseteq excuse'
    BY <1>1 DEF PumpLinkRx, HandleReset, HandleHello, HandleDataC2m, HandleRateProbe, ReceiveFailed
  <2> QED
    BY <2>1, <2>2
<1>2. CASE PumpServer
  <2>1. UNCHANGED <<tcp, phase>>
    BY <1>2 DEF PumpServer, bridgeVars
  <2>2. excuse \subseteq excuse'
    BY <1>2 DEF PumpServer, ServerReject, ServerReceive
  <2> QED
    BY <2>1, <2>2
<1>3. CASE PumpLinkTx
  BY <1>3 DEF PumpLinkTx, bridgeVars
<1>4. CASE SendHello \/ LoseC2m \/ LoseUnit
  BY <1>4 DEF SendHello, LoseC2m, LoseUnit, bridgeVars
<1>5. CASE BootReceive \/ TcpEof \/ GiveUp
  BY <1>5 DEF BootReceive, TcpEof, GiveUp
<1>6. CASE SendProbe \/ CalReceive \/ ProbeTimeout \/ CalDone
  BY <1>6 DEF SendProbe, CalReceive, ProbeTimeout, CalDone
<1>7. CASE SendClientData \/ Reboot
  BY <1>7 DEF SendClientData, Reboot
<1> QED
  BY <1>1, <1>2, <1>3, <1>4, <1>5, <1>6, <1>7 DEF Aside, Next

\* While the bridge runs, each of them keeps the line in order.
LEMMA AsideRun ==
    ASSUME LinkInv, SessionInv, Aside, Running, phase = "run", phase' = "run", Clean', InRing, InLine
    PROVE  InRing' /\ InLine'
<1>1. CASE PumpLinkRx
  BY <1>1, RxRun
<1>2. CASE PumpServer
  BY <1>2, ServerRun
<1>3. CASE PumpLinkTx
  BY <1>3, TxRun
<1>4. CASE LoseUnit
  BY <1>4, LoseUnitRun
<1>5. CASE SendClientData \/ LoseC2m
  <2>1. UNCHANGED <<session, pending, tx_ring, server, uart, tcp, m2c_seq_expected, excuse>>
    BY <1>5 DEF SendClientData, LoseC2m, fwVars, bridgeVars
  <2>2. Line' = Line
    BY <2>1 DEF Line, Unsent
  <2> QED
    BY <2>1, <2>2, StreamKept
<1>6. ~Reboot
  BY DEF Reboot, Clean
<1>7. ~(SendHello \/ BootReceive \/ TcpEof \/ GiveUp \/ SendProbe \/ CalReceive \/ ProbeTimeout \/ CalDone)
  BY DEF SendHello, BootReceive, TcpEof, GiveUp, SendProbe, CalReceive, ProbeTimeout, CalDone
<1> QED
  BY <1>1, <1>2, <1>3, <1>4, <1>5, <1>6, <1>7 DEF Aside, Next

LEMMA NextStream == LinkInv /\ SessionInv /\ StreamInv /\ [Next]_vars => StreamInv'
<1> SUFFICES ASSUME LinkInv, SessionInv, StreamInv, [Next]_vars, FirstRun'
             PROVE  /\ phase' \in {"wait", "cal"} => tcp' = <<>>
                    /\ Clean' => \A i \in 1..Len(tcp') : tcp'[i].i = i
                    /\ Clean' /\ phase' = "run" => InRing' /\ InLine'
  BY DEF StreamInv
\* A client that has just come has read nothing.
<1>1. CASE tcp' = <<>> /\ phase' # "run"
  BY <1>1
<1>2. CASE Crash \/ Connect \/ Recalibrate
  <2>1. tcp' = <<>> /\ phase' # "run"
    BY <1>2 DEF Crash, Connect, Recalibrate, StartReset
  <2> QED
    BY <1>1, <2>1
<1>3. CASE Next /\ ~Crash
  <2>1. FirstRun
    BY <1>3, NextNumber
  <2>2. /\ phase \in {"wait", "cal"} => tcp = <<>>
        /\ Clean => \A i \in 1..Len(tcp) : tcp[i].i = i
        /\ Clean /\ phase = "run" => InRing /\ InLine
        /\ phase = "cal" => Calibrating
        /\ phase = "run" => Running
    BY <2>1 DEF StreamInv, SessionInv, FirstInv
  <2>3. CASE WaitReceive
    <3>1. phase = "wait" /\ tcp' = tcp /\ phase' # "run"
      BY <2>3 DEF WaitReceive
    <3> QED
      BY <1>1, <2>2, <3>1
  <2>4. CASE RunReceive
    <3>1. phase = "run" /\ (Clean' <=> Clean) /\ (RunData \/ RunReset \/ RunOther)
      BY <2>4 DEF RunReceive, Clean
    <3>2. CASE RunReset
      <4>1. tcp' = <<>> /\ phase' # "run"
        BY <3>2 DEF RunReset, StartReset
      <4> QED
        BY <1>1, <4>1
    <3>3. CASE phase' = "run"
      BY <2>2, <2>4, <3>1, <3>3, ReadRun
    <3>4. CASE phase' = "exit" /\ tcp' = tcp
      BY <2>2, <3>1, <3>4
    <3> QED
      BY <3>1, <3>2, <3>3, <3>4 DEF RunData, RunOther
  <2>5. CASE Aside
    <3>1. /\ tcp' = tcp /\ excuse \subseteq excuse'
          /\ phase' \in {"wait", "cal"} => phase' = phase
          /\ phase' = "run" => phase = "run" \/ CalDone
      BY <2>5, AsideKeeps
    <3>2. Clean' => Clean
      BY <3>1 DEF Clean
    <3>3. CASE CalDone
      <4>1. phase = "cal" /\ phase' = "run"
        BY <3>3 DEF CalDone
      <4>2. InRing' /\ InLine'
        BY <2>2, <3>3, <4>1, CalDoneStream
      <4> QED
        BY <2>2, <3>1, <4>1, <4>2
    <3>4. CASE ~CalDone
      <4>1. Clean' /\ phase' = "run" => InRing' /\ InLine'
        BY <2>2, <2>5, <3>1, <3>2, <3>4, AsideRun
      <4> QED
        BY <2>2, <3>1, <3>2, <4>1
    <3> QED
      BY <3>3, <3>4
  <2> QED
    BY <1>2, <1>3, <2>3, <2>4, <2>5 DEF Aside
<1>4. CASE UNCHANGED vars
  <2>1. /\ UNCHANGED <<session, pending, tx_ring, server, uart, tcp, m2c_seq_expected, excuse>>
        /\ UNCHANGED <<phase, next_reset_seq, resets>>
    BY <1>4 DEF vars, fwVars, bridgeVars
  <2>2. FirstRun /\ (Clean' <=> Clean) /\ Line' = Line
    BY <2>1 DEF FirstRun, Clean, Line, Unsent
  <2>3. InRing /\ InLine => InRing' /\ InLine'
    BY <2>1, <2>2, StreamKept
  <2> QED
    BY <2>1, <2>2, <2>3 DEF StreamInv
<1> QED
  BY <1>2, <1>3, <1>4

\* The invariant of the stream to the client holds in every state: in a link
\* session in which the firmware has thrown nothing away, the units on the
\* wire, in link_pending and in the data queue lead, frame by frame and number
\* by number, from the bytes the client has to the first byte in the TX ring.
THEOREM StreamInvariance == Spec => []StreamInv
  BY InitStream, NextStream, LinkInvariance, SessionInvariance, PTL DEF Spec

\* A client reads a prefix of what its server said, noise on the wire or not,
\* unless that server was restarted or its frames were dropped: the numbers of
\* mc_link_session_queue_server_tx and accept_m2c_sequence of the bridge never
\* let it read on after a gap.  The firmware has not started again in the link
\* session, nor the bridge since its first RESET.
THEOREM PrefixOfServerHolds == Spec => [](FirstRun /\ "reboot" \notin excuse => PrefixOfServer)
<1>1. StreamInv => (FirstRun /\ "reboot" \notin excuse => PrefixOfServer)
  <2> SUFFICES ASSUME StreamInv, FirstRun, "reboot" \notin excuse, excuse \cap {"drop", "restart"} = {}
               PROVE  \A i \in 1..Len(tcp) : tcp[i].i = i
    BY DEF PrefixOfServer
  <2>1. Clean
    BY DEF Clean
  <2> QED
    BY <2>1 DEF StreamInv
<1> QED
  BY <1>1, StreamInvariance, PTL

-----------------------------------------------------------------------------
(* The bridge does not give up without a reason.                           *)

\* Nothing has come between the firmware and the bridge in this link session.
Undisturbed == excuse \cap {"noise", "cut echo", "drop", "reboot"} = {}

\* READY and ERROR make a running bridge reset the link: what follows them is
\* not counted.
Ends(u) == Delimiter(u) /\ u.frame.type \in {"READY", "ERROR"}
Over == -1
Number == (0..(SeqMod - 1)) \cup {Over}
Count(a, u, b) ==
    IF a = Over \/ Ends(u) THEN b = Over
    ELSE IF Carries(u) THEN u.frame.seq = a /\ b = NextSeq(a)
    ELSE b = a
Counted == {t \in Number \X Unit \X Number : Count(t[1], t[2], t[3])}
Counts(a, q, b) == Path(Number, Counted, a, q, b)

\* The rest of a DATA_M2C that read_tx has begun; a queue that holds a warning.
Active(s) == IF s.active = "DATA" THEN SubSeq(s.tx, 1, s.remaining) ELSE <<>>
Warned(q) == \E i \in 1..Len(q) : Ends(q[i])

\* The numbers on the line and in the data queue go on from the one the bridge
\* expects to the next one of the session; or a warning comes before the first
\* frame that does not, be it still in the control queue.
Onward(s, m) ==
    \/ m = Over
    \/ Counts(m, s.tx, s.tx_seq_next)
    \/ Warned(s.control_tx) /\ \E e \in Number : Counts(m, Active(s), e)
InStep == \E m \in Number : Counts(m2c_seq_expected, Line, m) /\ Onward(session, m)

\* The Decoder holds the beginning of the frame whose next unit is the first
\* on the wire, and the wire ends where the firmware stopped.
Stream == buffer \o uart
Same(u, v) == u = v \/ (Delimiter(u) /\ Delimiter(v))
Synced ==
    /\ buffer \in Seq(Unit) /\ \A i \in 1..Len(buffer) : ~Delimiter(buffer[i])
    /\ Continues(Silence, Stream) /\ Same(LastOf(Silence, Stream), last)

\* Behind the RESET_ACK that the bridge waits for comes one frame, and that is
\* the last one.
OwnAck(k, u) == Delimiter(u) /\ u.frame.type = "RESET_ACK" /\ u.frame.seq = k
LastBehind(k, saw, q) ==
    \A j \in 1..Len(q) :
       Delimiter(q[j]) /\ (saw \/ \E i \in 1..(j - 1) : OwnAck(k, q[i])) => j = Len(q)
Coming == Line \o (session.tx \o session.control_tx)
ReadyLast == LastBehind(reset_seq, saw_reset_ack, Coming)

ExitInv ==
    FirstRun =>
        /\ phase = "wait" => ReadyLast
        /\ phase \in {"cal", "run"} /\ Undisturbed => Synced
        /\ phase = "run" /\ Undisturbed => InStep
        /\ phase = "exit" => ~Undisturbed

-----------------------------------------------------------------------------
(* Numbers along a path.                                                   *)

LEMMA NumberFacts ==
    /\ SeqMod \in Nat /\ Over \in Number /\ 0 \in Number /\ 0 # Over
    /\ \A k \in 0..(SeqMod - 1) : k \in Number /\ k # Over /\ NextSeq(k) \in Number
  BY SeqFacts DEF Number, Over

\* Nothing is counted any more.
LEMMA CountsOver ==
    ASSUME NEW q \in Seq(Unit)
    PROVE  Counts(Over, q, Over)
<1>1. \A i \in 1..Len(q) : <<Over, q[i], Over>> \in Counted
  BY NumberFacts DEF Counted, Count
<1> QED
  BY <1>1, NumberFacts, PathStay DEF Counts

\* Control frames: the count stays, or a warning ends it.
LEMMA CountsControl ==
    ASSUME NEW A, NEW q \in Seq(ControlUnit(A)), NEW a \in Number
    PROVE  /\ q \in Seq(Unit)
           /\ IF Warned(q) THEN Counts(a, q, Over) ELSE Counts(a, q, a)
<1>1. ControlUnit(A) \subseteq Unit /\ \A u \in ControlUnit(A) : ~Carries(u)
  BY DEF ControlUnit, AckIn, Carries
<1>2. q \in Seq(Unit) /\ Len(q) \in Nat /\ \A i \in 1..Len(q) : q[i] \in Unit /\ ~Carries(q[i])
  BY <1>1, SeqMonotonic
<1>3. CASE ~Warned(q)
  <2>1. ASSUME NEW i \in 1..Len(q) PROVE <<a, q[i], a>> \in Counted
    <3>1. ~Ends(q[i]) /\ ~Carries(q[i]) /\ q[i] \in Unit
      BY <1>2, <1>3 DEF Warned
    <3> QED
      BY <3>1 DEF Counted, Count
  <2> QED
    BY <1>2, <1>3, <2>1, PathStay DEF Counts
<1>4. CASE Warned(q)
  <2>1. PICK n \in 1..Len(q) : Ends(q[n])
    BY <1>4 DEF Warned
  <2> DEFINE V == [i \in 0..Len(q) |-> IF \E j \in 1..i : Ends(q[j]) THEN Over ELSE a]
  <2>2. V \in [0..Len(q) -> Number] /\ \A i \in 0..Len(q) : V[i] = IF \E j \in 1..i : Ends(q[j]) THEN Over ELSE a
    BY NumberFacts
  <2> HIDE DEF V
  <2>3. V[0] = a
    <3>1. 0 \in 0..Len(q) /\ ~\E j \in 1..0 : Ends(q[j])
      BY <1>2
    <3> QED
      BY <2>2, <3>1
  <2>4. V[Len(q)] = Over
    <3>1. Len(q) \in 0..Len(q)
      BY <1>2
    <3> QED
      BY <2>1, <2>2, <3>1
  <2>5. ASSUME NEW i \in 1..Len(q) PROVE <<V[i - 1], q[i], V[i]>> \in Counted
    <3>1. i \in 0..Len(q) /\ i - 1 \in 0..Len(q) /\ i \in 1..i /\ 1..(i - 1) \subseteq 1..i
      BY <1>2
    <3>2. V[i - 1] \in Number /\ V[i] \in Number /\ q[i] \in Unit /\ ~Carries(q[i])
      BY <1>2, <2>2, <3>1
    <3>3. CASE \E j \in 1..(i - 1) : Ends(q[j])
      <4>1. V[i - 1] = Over /\ V[i] = Over
        BY <2>2, <3>1, <3>3
      <4> QED
        BY <3>2, <4>1 DEF Counted, Count
    <3>4. CASE ~(\E j \in 1..(i - 1) : Ends(q[j])) /\ Ends(q[i])
      <4>1. V[i] = Over
        BY <2>2, <3>1, <3>4
      <4> QED
        BY <3>2, <3>4, <4>1 DEF Counted, Count
    <3>5. CASE ~(\E j \in 1..(i - 1) : Ends(q[j])) /\ ~Ends(q[i])
      <4>1. ~\E j \in 1..i : Ends(q[j])
        <5>1. \A j \in 1..i : j \in 1..(i - 1) \/ j = i
          BY <1>2
        <5> QED
          BY <3>5, <5>1
      <4>2. V[i] = a /\ V[i - 1] = a
        BY <2>2, <3>1, <3>5, <4>1
      <4> QED
        BY <3>2, <3>5, <4>2 DEF Counted, Count
    <3> QED
      BY <3>3, <3>4, <3>5
  <2>6. Walk(V, Number, Counted, a, q, Over)
    BY <2>2, <2>3, <2>4, <2>5 DEF Walk
  <2> QED
    BY <1>2, <1>4, <2>6 DEF Counts, Path
<1> QED
  BY <1>3, <1>4

\* A DATA_M2C with the number that is due.
LEMMA CountsFrame ==
    ASSUME NEW f \in Frame, f.type = "DATA_M2C", f.seq \in 0..(SeqMod - 1)
    PROVE  Counts(f.seq, Units(f), NextSeq(f.seq))
<1> DEFINE n == f.len
           a == f.seq
           U(i) == [frame |-> f, part |-> i]
<1>1. n \in Nat \ {0}
  BY DEF Frame
<1>2. a \in Number /\ a # Over /\ NextSeq(a) \in Number
  BY NumberFacts
<1>3. \A i \in 1..n : U(i) \in Unit /\ (Delimiter(U(i)) <=> i = n) /\ U(i).frame = f
  BY <1>1 DEF Unit, Delimiter
<1>4. ASSUME NEW i \in 1..(n - 1) PROVE <<a, U(i), a>> \in Counted
  <2>1. i \in 1..n /\ i # n
    BY <1>1
  <2>2. U(i) \in Unit /\ ~Carries(U(i)) /\ ~Ends(U(i))
    BY <1>3, <2>1 DEF Carries, Ends
  <2> HIDE DEF U
  <2> QED
    BY <1>2, <2>2 DEF Counted, Count
<1>5. <<a, U(n), NextSeq(a)>> \in Counted
  <2>1. n \in 1..n
    BY <1>1
  <2>2. U(n) \in Unit /\ Carries(U(n)) /\ ~Ends(U(n)) /\ U(n).frame.seq = a
    BY <1>3, <2>1 DEF Carries, Ends
  <2> HIDE DEF U
  <2>3. Count(a, U(n), NextSeq(a))
    BY <1>2, <2>2 DEF Count
  <2> QED
    BY <1>2, <2>2, <2>3 DEF Counted
<1> HIDE DEF a
<1> QED
  BY <1>2, <1>4, <1>5, PathFrame DEF Counts, a

-----------------------------------------------------------------------------
(* What read_tx takes, and from which queue.                               *)

FromControl(s, r, n) ==
    /\ r.buf = SubSeq(s.control_tx, 1, n) /\ r.s.control_tx = Drop(s.control_tx, n)
    /\ r.s.tx = s.tx /\ s.active # "DATA" /\ r.s.active # "DATA"
FromData(s, r, n) ==
    /\ r.buf = SubSeq(s.tx, 1, n) /\ r.s.tx = Drop(s.tx, n) /\ r.s.control_tx = s.control_tx
    /\ \/ /\ s.active = "DATA" /\ s.remaining \in n..Len(s.tx)
          /\ r.s.remaining = s.remaining - n
          /\ r.s.active = IF r.s.remaining = 0 THEN "NONE" ELSE "DATA"
       \/ s.control_tx = <<>>

LEMMA ReadParts ==
    ASSUME NEW s, NEW u \in Unit, Sound(s, u)
    PROVE  LET r == mc_link_session_read_tx(s) IN
           /\ r.s.tx_seq_next = s.tx_seq_next
           /\ \/ \E n \in 0..Len(s.control_tx) : FromControl(s, r, n)
              \/ \E n \in 0..Len(s.tx) : FromData(s, r, n)
<1> DEFINE a == Activated(s)
           n == Lesser(a.remaining, PendingCap)
           left == a.remaining - n
           act == IF left = 0 THEN "NONE" ELSE a.active
           b == [a EXCEPT !.remaining = left, !.active = act]
           r == mc_link_session_read_tx(s)
<1>0. PendingCap \in Nat /\ PendingCap >= 1
  BY LinkAssumption DEF LinkAssumption
<1>1. /\ Sound(a, u) /\ a.tx = s.tx /\ a.control_tx = s.control_tx
      /\ s.active # "NONE" => a = s
      /\ a.tx_seq_next = s.tx_seq_next
      /\ a.active = "NONE" => a = s /\ s.control_tx = <<>>
  BY ActivatedSound
<1>2. /\ a \in Session /\ s.tx \in Seq(Unit) /\ s.control_tx \in Seq(Unit) /\ a.remaining \in Nat
      /\ a.active \in {"NONE", "CONTROL", "DATA"} /\ s \in Session
  BY <1>1 DEF Sound, SessionOK, Session
<1>3. CASE a.active = "NONE"
  <2>1. r = [s |-> s, buf |-> <<>>]
    BY <1>3 DEF mc_link_session_read_tx
  <2> HIDE DEF r
  <2>2. r.s = s /\ r.buf = <<>> /\ s.active = "NONE" /\ s.control_tx = <<>>
    BY <1>1, <1>3, <2>1
  <2>3. SubSeq(<<>>, 1, 0) = <<>> /\ Drop(<<>>, 0) = <<>> /\ 0 \in 0..Len(<<>>)
    BY DEF Drop
  <2>4. FromControl(s, r, 0) /\ 0 \in 0..Len(s.control_tx)
    BY <2>2, <2>3 DEF FromControl
  <2> QED
    BY <2>2, <2>4 DEF r
<1>4. CASE a.active = "CONTROL"
  <2>1. a.remaining \in 1..Len(s.control_tx)
    BY <1>1, <1>4 DEF Sound, SessionFramed, ActiveQueue
  <2>2. n \in 0..Len(s.control_tx)
    BY <1>0, <2>1 DEF Lesser
  <2>3. r = [s |-> [b EXCEPT !.control_tx = Drop(@, n)], buf |-> SubSeq(a.control_tx, 1, n)]
    BY <1>4 DEF mc_link_session_read_tx, ActiveQueue
  <2>4. s.active # "DATA" /\ act # "DATA"
    BY <1>1, <1>4
  <2> HIDE DEF n, r
  <2>5. /\ r.s.tx = s.tx /\ r.s.control_tx = Drop(s.control_tx, n) /\ r.buf = SubSeq(s.control_tx, 1, n)
        /\ r.s.tx_seq_next = s.tx_seq_next /\ r.s.active = act
    <3> HIDE DEF left, act
    <3> QED
      BY <1>1, <1>2, <2>3 DEF Session
  <2>6. FromControl(s, r, n)
    BY <2>4, <2>5 DEF FromControl
  <2> QED
    BY <2>2, <2>5, <2>6 DEF r
<1>5. CASE a.active = "DATA"
  <2>1. a.remaining \in 1..Len(s.tx) /\ Len(s.tx) \in Nat
    BY <1>1, <1>2, <1>5 DEF Sound, SessionFramed, ActiveQueue
  <2>2. n \in 0..Len(s.tx) /\ n <= a.remaining /\ n \in Nat
    BY <1>0, <1>2, <2>1 DEF Lesser
  <2>3. r = [s |-> [b EXCEPT !.tx = Drop(@, n)], buf |-> SubSeq(a.tx, 1, n)]
    BY <1>5 DEF mc_link_session_read_tx, ActiveQueue
  <2> HIDE DEF n, r
  <2>4. /\ r.s.control_tx = s.control_tx /\ r.s.tx = Drop(s.tx, n) /\ r.buf = SubSeq(s.tx, 1, n)
        /\ r.s.remaining = left /\ r.s.active = act /\ r.s.tx_seq_next = s.tx_seq_next
    <3> HIDE DEF left, act
    <3> QED
      BY <1>1, <1>2, <2>3 DEF Session
  <2>5. CASE s.active = "DATA"
    <3>1. a = s
      BY <1>1, <2>5
    <3>2. s.remaining \in n..Len(s.tx)
      BY <2>1, <2>2, <3>1
    <3>3. FromData(s, r, n)
      BY <1>5, <2>4, <2>5, <3>1, <3>2 DEF FromData
    <3> QED
      BY <2>2, <2>4, <3>3 DEF r
  <2>6. CASE s.active # "DATA"
    <3>1. s.active = "NONE"
      BY <1>1, <1>5, <2>6
    <3>2. ~(next_frame_len(s.control_tx) > 0)
      <4> SUFFICES ASSUME next_frame_len(s.control_tx) > 0 PROVE FALSE
        OBVIOUS
      <4> DEFINE k == next_frame_len(s.control_tx)
      <4>1. a = [s EXCEPT !.active = "CONTROL", !.remaining = k]
        BY <3>1 DEF Activated
      <4> HIDE DEF k, a
      <4>2. a.active = "CONTROL"
        BY <1>2, <4>1 DEF Session
      <4> QED
        BY <1>5, <4>2
    <3>3. Closed(s.control_tx)
      BY <3>1 DEF Sound, SessionFramed, Framed
    <3>4. s.control_tx = <<>>
      <4>1. s.control_tx # <<>> => next_frame_len(s.control_tx) \in 1..Len(s.control_tx)
        BY <1>2, <3>3, NextFrame
      <4> QED
        BY <1>2, <3>2, <4>1
    <3>5. FromData(s, r, n)
      BY <2>4, <3>4 DEF FromData
    <3> QED
      BY <2>2, <2>4, <3>5 DEF r
  <2> QED
    BY <2>5, <2>6
<1> QED
  BY <1>2, <1>3, <1>4, <1>5

\* The rest of the active frame, when part of it has been taken.
LEMMA ActiveRest ==
    ASSUME NEW q \in Seq(Unit), NEW n \in Nat, NEW k \in n..Len(q)
    PROVE  LET t == SubSeq(q, 1, k) IN
           /\ t \in Seq(Unit) /\ n \in 0..Len(t) /\ SubSeq(t, 1, n) = SubSeq(q, 1, n)
           /\ Drop(t, n) = SubSeq(Drop(q, n), 1, k - n)
           /\ n = k => Drop(t, n) = <<>>
<1> DEFINE t == SubSeq(q, 1, k)
           d == Drop(q, n)
           x == SubSeq(t, 1, n)
           y == SubSeq(q, 1, n)
           v == Drop(t, n)
           w == SubSeq(d, 1, k - n)
<1>0. Len(q) \in Nat /\ k \in Nat /\ k \in 0..Len(q) /\ n \in 0..Len(q) /\ n <= k /\ k <= Len(q)
  OBVIOUS
<1>1. t \in Seq(Unit) /\ Len(t) = k /\ \A i \in 1..k : t[i] = q[i]
  BY <1>0, TakeFacts
<1>2. d \in Seq(Unit) /\ Len(d) = Len(q) - n /\ \A i \in 1..(Len(q) - n) : d[i] = q[n + i]
  BY <1>0, DropFacts
<1>3. y \in Seq(Unit) /\ Len(y) = n /\ \A i \in 1..n : y[i] = q[i]
  BY <1>0, TakeFacts
<1> HIDE DEF t, d
<1>4. n \in 0..Len(t) /\ k - n \in 0..Len(d)
  BY <1>0, <1>1, <1>2
<1>5. x \in Seq(Unit) /\ Len(x) = n /\ \A i \in 1..n : x[i] = t[i]
  BY <1>1, <1>4, TakeFacts
<1>6. v \in Seq(Unit) /\ Len(v) = Len(t) - n /\ \A i \in 1..(Len(t) - n) : v[i] = t[n + i]
  BY <1>1, <1>4, DropFacts
<1>7. w \in Seq(Unit) /\ Len(w) = k - n /\ \A i \in 1..(k - n) : w[i] = d[i]
  BY <1>2, <1>4, TakeFacts
<1> HIDE DEF x, y, v, w
<1>8. x = y
  <2>1. \A i \in 1..Len(x) : x[i] = y[i]
    BY <1>0, <1>1, <1>3, <1>5
  <2> QED
    BY <1>3, <1>5, <2>1, SeqEqual
<1>9. v = w
  <2>1. ASSUME NEW i \in 1..Len(v) PROVE v[i] = w[i]
    <3> DEFINE j == n + i
    <3>1. i \in 1..(k - n) /\ i \in 1..(Len(t) - n) /\ i \in 1..(Len(q) - n) /\ j \in 1..k
      BY <1>0, <1>1, <1>6
    <3>2. v[i] = t[j] /\ w[i] = d[i] /\ d[i] = q[j]
      BY <1>2, <1>6, <1>7, <3>1
    <3> HIDE DEF j
    <3> QED
      BY <1>1, <3>1, <3>2
  <2>2. Len(v) = Len(w)
    BY <1>1, <1>6, <1>7
  <2> QED
    BY <1>6, <1>7, <2>1, <2>2, SeqEqual
<1>10. n = k => v = <<>>
  BY <1>0, <1>1, <1>6
<1> QED
  BY <1>1, <1>4, <1>8, <1>9, <1>10 DEF t, d, x, y, v, w

-----------------------------------------------------------------------------
(* The numbers stay in step.                                               *)

\* A new DATA_M2C has the next number.
LEMMA QueueOnward ==
    ASSUME FirmwareTypes, NEW u \in Unit, Sound(session, u), NEW m \in Number, Onward(session, m)
    PROVE  Onward(mc_link_session_queue_server_tx, m)
<1> DEFINE s == mc_link_session_queue_server_tx
           f == ServerFrame
<1>0. /\ session \in Session /\ session.tx \in Seq(Unit) /\ SessionOK(session)
      /\ session.tx_seq_next \in 0..(SeqMod - 1) /\ Len(session.tx) \in Nat
  BY DEF Sound, SessionOK, Session
<1>1. CASE s = session
  BY <1>1
<1>2. CASE s # session
  <2>1. s = [session EXCEPT !.tx = @ \o Units(f), !.tx_seq_next = (@ + 1) % SeqMod]
    BY <1>2 DEF mc_link_session_queue_server_tx
  <2>2. f \in Frame /\ f.type = "DATA_M2C" /\ f.seq = session.tx_seq_next
    BY <1>0, ServerFrameFacts
  <2> HIDE DEF s, f
  <2>3. /\ s.tx = session.tx \o Units(f) /\ s.tx_seq_next = NextSeq(session.tx_seq_next)
        /\ s.control_tx = session.control_tx /\ s.active = session.active
        /\ s.remaining = session.remaining
    BY <1>0, <2>1 DEF Session, NextSeq
  <2>4. Units(f) \in Seq(Unit) /\ Counts(f.seq, Units(f), NextSeq(f.seq))
    BY <1>0, <2>2, UnitsFacts, CountsFrame
  <2>5. Counts(m, session.tx, session.tx_seq_next) => Counts(m, s.tx, s.tx_seq_next)
    BY <1>0, <2>2, <2>3, <2>4, PathJoin DEF Counts
  <2>6. Active(s) = Active(session)
    <3>1. CASE session.active = "DATA"
      <4> DEFINE k == session.remaining
                 q == session.tx
                 w == s.tx
      <4>1. k \in 1..Len(q)
        BY <3>1 DEF Sound, SessionFramed, ActiveQueue
      <4>2. w \in Seq(Unit) /\ Len(w) = Len(q) + Len(Units(f)) /\ Len(Units(f)) \in Nat
            /\ \A i \in 1..Len(q) : w[i] = q[i]
        BY <1>0, <2>3, <2>4, ConcatFacts
      <4>3. q \in Seq(Unit)
        BY <1>0
      <4> HIDE DEF k, q, w
      <4>4. k \in 0..Len(q) /\ k \in 0..Len(w)
        BY <4>1, <4>2, <4>3
      <4>5. SubSeq(w, 1, k) \in Seq(Unit) /\ Len(SubSeq(w, 1, k)) = k /\ \A i \in 1..k : SubSeq(w, 1, k)[i] = w[i]
        BY <4>2, <4>4, TakeFacts
      <4>6. SubSeq(q, 1, k) \in Seq(Unit) /\ Len(SubSeq(q, 1, k)) = k /\ \A i \in 1..k : SubSeq(q, 1, k)[i] = q[i]
        BY <4>3, <4>4, TakeFacts
      <4>7. \A i \in 1..k : SubSeq(w, 1, k)[i] = SubSeq(q, 1, k)[i]
        BY <4>1, <4>2, <4>5, <4>6
      <4>8. SubSeq(w, 1, k) = SubSeq(q, 1, k)
        BY <4>5, <4>6, <4>7, SeqEqual
      <4> QED
        BY <2>3, <3>1, <4>8 DEF Active, k, q, w
    <3>2. CASE session.active # "DATA"
      BY <2>3, <3>2 DEF Active
    <3> QED
      BY <3>1, <3>2
  <2>7. Onward(s, m)
    BY <2>3, <2>5, <2>6 DEF Onward
  <2> QED
    BY <2>7 DEF s
<1> QED
  BY <1>1, <1>2

\* What is left of a warned queue is warned, or the warning was taken.
LEMMA WarnedCut ==
    ASSUME NEW q \in Seq(Unit), NEW n \in 0..Len(q), Warned(q)
    PROVE  Warned(SubSeq(q, 1, n)) \/ Warned(Drop(q, n))
<1>1. PICK i \in 1..Len(q) : Ends(q[i])
  BY DEF Warned
<1>2. Len(SubSeq(q, 1, n)) = n /\ \A j \in 1..n : SubSeq(q, 1, n)[j] = q[j]
  BY TakeFacts
<1>3. Len(Drop(q, n)) = Len(q) - n /\ \A j \in 1..(Len(q) - n) : Drop(q, n)[j] = q[n + j]
  BY DropFacts
<1>4. CASE i <= n
  <2>1. i \in 1..n
    BY <1>4
  <2> QED
    BY <1>1, <1>2, <2>1 DEF Warned
<1>5. CASE ~(i <= n)
  <2> DEFINE j == i - n
  <2>1. j \in 1..(Len(q) - n) /\ i = n + j
    BY <1>5
  <2> HIDE DEF j
  <2>2. Ends(Drop(q, n)[j]) /\ j \in 1..Len(Drop(q, n))
    BY <1>1, <1>3, <2>1
  <2> QED
    BY <2>2 DEF Warned
<1> QED
  BY <1>4, <1>5

LEMMA ReadOnward ==
    ASSUME NEW s, NEW u \in Unit, Sound(s, u), Within(s, ControlUnit(Nat), Unit),
           NEW m \in Number, Onward(s, m)
    PROVE  LET r == mc_link_session_read_tx(s) IN
           r.buf \in Seq(Unit) /\ \E c \in Number : Counts(m, r.buf, c) /\ Onward(r.s, c)
<1> DEFINE r == mc_link_session_read_tx(s)
<1>1. /\ r.s.tx_seq_next = s.tx_seq_next
      /\ \/ \E n \in 0..Len(s.control_tx) : FromControl(s, r, n)
         \/ \E n \in 0..Len(s.tx) : FromData(s, r, n)
  BY ReadParts
<1>2. r.buf \in Seq(Unit)
  BY ReadSound
<1>3. s.tx \in Seq(Unit) /\ s.control_tx \in Seq(ControlUnit(Nat)) /\ s.control_tx \in Seq(Unit)
  BY DEF Within, Sound, SessionOK, Session
<1>4. Counts(Over, r.buf, Over) /\ Onward(r.s, Over) /\ Over \in Number
  BY <1>2, CountsOver, NumberFacts DEF Onward
<1> HIDE DEF r
<1>5. ASSUME NEW n \in 0..Len(s.control_tx), FromControl(s, r, n)
      PROVE  \E c \in Number : Counts(m, r.buf, c) /\ Onward(r.s, c)
  <2>1. r.buf \in Seq(ControlUnit(Nat))
    BY <1>3, <1>5, TakeFacts DEF FromControl
  <2>2. CASE Warned(r.buf)
    <3>1. Counts(m, r.buf, Over)
      BY <2>1, <2>2, CountsControl
    <3> QED
      BY <1>4, <3>1
  <2>3. CASE ~Warned(r.buf)
    <3>1. Counts(m, r.buf, m)
      BY <2>1, <2>3, CountsControl
    <3>2. Warned(s.control_tx) => Warned(r.s.control_tx)
      BY <1>3, <1>5, <2>3, WarnedCut DEF FromControl
    <3>3. Active(r.s) = Active(s)
      BY <1>5 DEF FromControl, Active
    <3>4. r.s.tx = s.tx
      BY <1>5 DEF FromControl
    <3>5. Onward(r.s, m)
      BY <1>1, <3>2, <3>3, <3>4 DEF Onward
    <3> QED
      BY <3>1, <3>5
  <2> QED
    BY <2>2, <2>3
<1>6. ASSUME NEW n \in 0..Len(s.tx), FromData(s, r, n)
      PROVE  \E c \in Number : Counts(m, r.buf, c) /\ Onward(r.s, c)
  <2>1. CASE m = Over
    BY <1>4, <2>1
  <2>2. CASE Counts(m, s.tx, s.tx_seq_next)
    <3>1. PICK c \in Number : Counts(m, r.buf, c) /\ Counts(c, r.s.tx, s.tx_seq_next)
      BY <1>3, <1>6, <2>2, PathCut DEF FromData, Counts
    <3>2. Onward(r.s, c)
      BY <1>1, <3>1 DEF Onward
    <3> QED
      BY <3>1, <3>2
  <2>3. CASE Warned(s.control_tx) /\ \E e \in Number : Counts(m, Active(s), e)
    <3>1. s.control_tx # <<>>
      BY <2>3 DEF Warned
    <3>2. /\ s.active = "DATA" /\ s.remaining \in n..Len(s.tx) /\ r.s.remaining = s.remaining - n
          /\ r.s.active = IF r.s.remaining = 0 THEN "NONE" ELSE "DATA"
          /\ r.buf = SubSeq(s.tx, 1, n) /\ r.s.tx = Drop(s.tx, n) /\ r.s.control_tx = s.control_tx
      BY <1>6, <3>1 DEF FromData
    <3> DEFINE t == SubSeq(s.tx, 1, s.remaining)
    <3>3. Active(s) = t
      BY <3>2 DEF Active
    <3>4. /\ t \in Seq(Unit) /\ n \in 0..Len(t) /\ SubSeq(t, 1, n) = r.buf
          /\ Drop(t, n) = SubSeq(Drop(s.tx, n), 1, s.remaining - n)
          /\ n = s.remaining => Drop(t, n) = <<>>
      <4>1. n \in Nat
        OBVIOUS
      <4> QED
        BY <1>3, <3>2, <4>1, ActiveRest
    <3>5. Drop(t, n) = Active(r.s)
      <4>1. CASE r.s.remaining = 0
        <5>1. n = s.remaining
          BY <1>3, <3>2, <4>1
        <5> QED
          BY <3>2, <3>4, <4>1, <5>1 DEF Active
      <4>2. CASE r.s.remaining # 0
        BY <3>2, <3>4, <4>2 DEF Active
      <4> QED
        BY <4>1, <4>2
    <3> HIDE DEF t
    <3>6. PICK e \in Number : Counts(m, t, e)
      BY <2>3, <3>3
    <3>7. PICK c \in Number : Counts(m, r.buf, c) /\ Counts(c, Active(r.s), e)
      BY <3>4, <3>5, <3>6, PathCut DEF Counts
    <3>8. Onward(r.s, c)
      BY <2>3, <3>2, <3>7 DEF Onward
    <3> QED
      BY <3>7, <3>8
  <2> QED
    BY <2>1, <2>2, <2>3 DEF Onward
<1> QED
  BY <1>1, <1>2, <1>5, <1>6 DEF r

LEMMA TxInStep ==
    ASSUME LinkInv, SessionInv, PumpLinkTx, InStep
    PROVE  InStep'
<1> DEFINE s == mc_link_session_queue_server_tx
           r == mc_link_session_read_tx(s)
           u == LastOf(last, Unsent(pending))
<1>0. m2c_seq_expected' = m2c_seq_expected
  BY DEF PumpLinkTx, bridgeVars
<1>1. PICK m \in Number : Counts(m2c_seq_expected, Line, m) /\ Onward(session, m)
  BY DEF InStep
<1>2. CASE Line' = Line /\ session' = session
  <2>1. Counts(m2c_seq_expected', Line', m) /\ Onward(session', m)
    BY <1>0, <1>1, <1>2
  <2> QED
    BY <2>1 DEF InStep
<1>3. CASE Line' = Line \o r.buf /\ session' = r.s
  <2>1. /\ FirmwareTypes /\ SessionOK(session) /\ Sound(session, u) /\ u \in Unit
        /\ Line \in Seq(Unit) /\ Within(session, ControlUnit(Nat), DataUnit)
    BY LineFacts, LastOfFacts DEF LinkInv, WireInv, Steady, Sound, SessionInv
  <2> HIDE DEF u
  <2>2. Sound(s, u)
    BY <2>1, QueueServerTxSound
  <2>3. Within(s, ControlUnit(Nat), Unit)
    <3>1. s.control_tx = session.control_tx
      BY <2>1 DEF mc_link_session_queue_server_tx, SessionOK, Session
    <3> QED
      BY <2>1, <2>2, <3>1 DEF Within, Sound, SessionOK, Session
  <2>4. Onward(s, m)
    BY <1>1, <2>1, QueueOnward
  <2> HIDE DEF s
  <2>5. r.buf \in Seq(Unit) /\ \E c \in Number : Counts(m, r.buf, c) /\ Onward(r.s, c)
    BY <2>1, <2>2, <2>3, <2>4, ReadOnward
  <2>6. PICK c \in Number : Counts(m, r.buf, c) /\ Onward(r.s, c)
    BY <2>5
  <2> HIDE DEF r
  <2>7. Counts(m2c_seq_expected', Line', c)
    BY <1>0, <1>1, <1>3, <2>1, <2>5, <2>6, PathJoin DEF Counts
  <2>8. Onward(session', c)
    BY <1>3, <2>6
  <2> QED
    BY <2>7, <2>8 DEF InStep
<1> QED
  BY <1>2, <1>3, LineWritten

\* A step that leaves the numbers alone, and no warning behind.
Holds(s, t) ==
    /\ t \in Session /\ t.tx = s.tx /\ t.tx_seq_next = s.tx_seq_next
    /\ t.active = s.active /\ t.remaining = s.remaining
    /\ Warned(s.control_tx) => Warned(t.control_tx)

LEMMA HoldsOnward ==
    ASSUME NEW s, NEW t, Holds(s, t), NEW m, Onward(s, m)
    PROVE  Onward(t, m)
<1>1. Active(t) = Active(s)
  BY DEF Active, Holds
<1> QED
  BY <1>1 DEF Onward, Holds

\* A frame more in a queue adds to its warnings.
LEMMA QueueHolds ==
    ASSUME NEW s \in Session, NEW f \in Frame
    PROVE  LET t == queue_control_frame(s, f) IN
           /\ Holds(s, t)
           /\ CanQueue(s, f) /\ f.type \in {"READY", "ERROR"} => Warned(t.control_tx)
<1> DEFINE t == queue_control_frame(s, f)
           q == s.control_tx
           us == Units(f)
           w == q \o us
<1>1. CASE ~CanQueue(s, f)
  BY <1>1 DEF queue_control_frame, Holds
<1>2. CASE CanQueue(s, f)
  <2>1. us \in Seq(Unit) /\ Len(us) = f.len /\ \A i \in 1..f.len : us[i] = [frame |-> f, part |-> i]
    BY UnitsFacts
  <2>2. q \in Seq(Unit) /\ f.len \in Nat \ {0}
    BY DEF Session, Frame
  <2> HIDE DEF q, us
  <2>3. w \in Seq(Unit) /\ Len(w) = Len(q) + Len(us) /\ Len(q) \in Nat /\ Len(us) \in Nat
        /\ \A i \in 1..Len(q) : w[i] = q[i]
    BY <2>1, <2>2, ConcatFacts
  <2>4. \A i \in 1..Len(us) : w[Len(q) + i] = us[i]
    BY <2>1, <2>2, ConcatFacts
  <2>5. t = [s EXCEPT !.control_tx = w]
    BY <1>2 DEF queue_control_frame, q, us
  <2> HIDE DEF t, w
  <2>6. /\ t \in Session /\ t.control_tx = w /\ t.tx = s.tx /\ t.tx_seq_next = s.tx_seq_next
        /\ t.active = s.active /\ t.remaining = s.remaining
    BY <2>3, <2>5 DEF Session
  <2>7. ASSUME Warned(q) PROVE Warned(w)
    <3>1. PICK i \in 1..Len(q) : Ends(q[i])
      BY <2>7 DEF Warned
    <3>2. i \in 1..Len(w) /\ w[i] = q[i]
      BY <2>3
    <3> QED
      BY <3>1, <3>2 DEF Warned
  <2>8. ASSUME f.type \in {"READY", "ERROR"} PROVE Warned(w)
    <3> DEFINE n == f.len
               j == Len(q) + n
    <3>1. n \in 1..Len(us) /\ j \in 1..Len(w) /\ us[n] = [frame |-> f, part |-> n]
      BY <2>1, <2>2, <2>3
    <3>2. w[j] = us[n]
      BY <2>4, <3>1
    <3>3. Ends(us[n])
      BY <2>8, <3>1 DEF Ends, Delimiter
    <3> HIDE DEF j, n
    <3> QED
      BY <3>1, <3>2, <3>3 DEF Warned
  <2> QED
    BY <2>6, <2>7, <2>8 DEF Holds, t, q
<1> QED
  BY <1>1, <1>2

\* Nothing is dropped: drop_stale_link_tx_data found nothing to drop.
LEMMA NothingDropped ==
    ASSUME NEW s, drop_stale_link_tx_data(s), "drop" \notin DropExcuse(s)
    PROVE  session' = s /\ pending' = pending
<1>1. mc_link_session_drop_queued_data(s) = s /\ dropped_pending(s, pending) = pending
  BY DEF DropExcuse
<1> QED
  BY <1>1 DEF drop_stale_link_tx_data

LEMMA FailedHolds ==
    ASSUME NEW s, ReceiveFailed(s), "drop" \notin excuse'
    PROVE  session' = s /\ pending' = pending
<1>1. "drop" \notin DropExcuse(s) /\ drop_stale_link_tx_data(s)
  BY DEF ReceiveFailed, reset_connection
<1> QED
  BY <1>1, NothingDropped

LEMMA DataC2mHolds ==
    ASSUME session \in Session, NEW f, HandleDataC2m(f), "drop" \notin excuse'
    PROVE  Holds(session, session') /\ pending' = pending
<1> DEFINE duplicate == f.seq = (session.rx_seq_expected - 1) % SeqMod
           k == (session.rx_seq_expected + 1) % SeqMod
           v == [session EXCEPT !.rx_seq_expected = k]
           s == IF duplicate THEN session ELSE v
           ack == Control("ACK_C2M", s.rx_seq_expected)
           err == queue_control_frame(session, Control("ERROR", 0))
<1>1. \/ ReceiveFailed(err) \/ ReceiveFailed(s)
      \/ session' = queue_control_frame(s, ack) /\ UNCHANGED <<pending, tx_ring, server, excuse>>
  BY DEF HandleDataC2m
<1>2. Holds(session, err)
  <2>1. Control("ERROR", 0) \in Frame
    BY ControlFacts DEF FrameTypes
  <2> QED
    BY <2>1, QueueHolds
<1>3. v \in Session /\ Holds(session, v)
  <2>1. session.rx_seq_expected \in 0..(SeqMod - 1)
    BY DEF Session
  <2>2. k \in 0..(SeqMod - 1)
    BY <2>1, BoundFacts
  <2> HIDE DEF k
  <2> QED
    BY <2>2 DEF Session, Holds
<1> HIDE DEF v, err
<1>4. s \in Session /\ Holds(session, s)
  BY <1>3 DEF Holds
<1> HIDE DEF s
<1>5. ack \in Frame
  <2>1. s.rx_seq_expected \in Nat
    BY <1>4, BoundFacts DEF Session
  <2> QED
    BY <2>1, ControlFacts DEF FrameTypes
<1> HIDE DEF ack
<1>6. Holds(s, queue_control_frame(s, ack))
  BY <1>4, <1>5, QueueHolds
<1>7. Holds(session, queue_control_frame(s, ack))
  BY <1>4, <1>6 DEF Holds
<1> QED
  BY <1>1, <1>2, <1>4, <1>7, FailedHolds

LEMMA RxHolds ==
    ASSUME LinkInv, PumpLinkRx, c2m # <<>> => Head(c2m).type \in {"DATA_C2M", "RATE_PROBE"},
           "drop" \notin excuse'
    PROVE  Holds(session, session') /\ pending' = pending
<1>1. session \in Session /\ c2m \in Seq(C2mFrame)
  BY DEF LinkInv, WireTypes, WireInv, Steady, Sound, SessionOK
<1>2. CASE UNCHANGED <<session, pending, tx_ring, server, excuse>>
  BY <1>1, <1>2 DEF Holds
<1>3. CASE c2m # <<>> /\ HandleDataC2m(Head(c2m))
  BY <1>1, <1>3, DataC2mHolds
<1>4. CASE c2m # <<>> /\ Head(c2m).type = "RATE_PROBE" /\ HandleRateProbe(Head(c2m))
  <2> DEFINE f == Head(c2m)
             echo == Control("RATE_PROBE_ACK", f.seq)
  <2>1. \/ ReceiveFailed(session)
        \/ session' = queue_control_frame(session, echo) /\ UNCHANGED <<pending, tx_ring, server, excuse>>
    BY <1>4 DEF HandleRateProbe
  <2>2. echo \in Frame
    <3>1. f \in C2mFrame
      BY <1>1, <1>4, TailFacts
    <3>2. f.seq \in Nat
      BY <1>4, <3>1 DEF C2mFrame
    <3> QED
      BY <3>2, ControlFacts DEF FrameTypes
  <2> HIDE DEF echo
  <2>3. Holds(session, session) /\ Holds(session, queue_control_frame(session, echo))
    BY <1>1, <2>2, QueueHolds DEF Holds
  <2> QED
    BY <2>1, <2>3, FailedHolds
<1> QED
  BY <1>2, <1>3, <1>4 DEF PumpLinkRx

\* A rejected client: the data queue is cut behind the active frame, but only
\* after an ERROR has been queued.
Warns(s, t) ==
    /\ t \in Session /\ Warned(t.control_tx) /\ Active(t) = Active(s)

LEMMA RejectWarns ==
    ASSUME NEW s \in Session, NEW u \in Unit, Sound(s, u), NEW e \in Frame, e.type = "ERROR", CanQueue(s, e)
    PROVE  Warns(s, queue_control_frame(
                      reset_link_state_preserving_control_tx(queue_control_frame(s, e)),
                      Control("READY", 0)))
<1> DEFINE a == queue_control_frame(s, e)
           b == reset_link_state_preserving_control_tx(a)
           c == queue_control_frame(b, Control("READY", 0))
           d == KeptData(a)
<1>1. Holds(s, a) /\ Warned(a.control_tx)
  BY QueueHolds
<1>2. Sound(a, u) /\ a \in Session
  BY <1>1, QueueControl DEF Holds
<1> HIDE DEF a
<1>3. d \in Seq(Unit)
  BY <1>2, KeptFacts
<1>4. b = [a EXCEPT !.tx_seq_next = 0, !.rx_seq_expected = 0, !.tx = d]
  BY DEF reset_link_state_preserving_control_tx, KeptData
<1> HIDE DEF d
<1>5. /\ b \in Session /\ b.tx = d /\ b.control_tx = a.control_tx /\ b.active = a.active
      /\ b.remaining = a.remaining
  <2>1. 0 \in 0..(SeqMod - 1)
    BY BoundFacts
  <2> HIDE DEF b
  <2> QED
    BY <1>2, <1>3, <1>4, <2>1 DEF Session
<1> HIDE DEF b
<1>6. Holds(b, c)
  <2>1. Control("READY", 0) \in Frame
    BY ControlFacts DEF FrameTypes
  <2> QED
    BY <1>5, <2>1, QueueHolds
<1> HIDE DEF c
<1>7. Active(c) = Active(s)
  <2>1. CASE a.active = "DATA"
    <3> DEFINE k == a.remaining
               q == a.tx
    <3>1. k \in 1..Len(q) /\ q \in Seq(Unit)
      BY <1>2, <2>1 DEF Sound, SessionFramed, ActiveQueue, Session
    <3> HIDE DEF k, q
    <3>2. Lesser(k, Len(q)) = k /\ k \in 0..Len(q) /\ k \in 0..k
      BY <3>1 DEF Lesser
    <3>3. d = SubSeq(q, 1, k)
      BY <2>1, <3>2 DEF d, KeptData, truncate_ringbuf, k, q
    <3>4. d \in Seq(Unit) /\ Len(d) = k
      BY <3>1, <3>2, <3>3, TakeFacts
    <3>5. SubSeq(d, 1, k) = d
      BY <3>4, SubSeqFull
    <3> QED
      BY <1>1, <1>5, <1>6, <2>1, <3>3, <3>5 DEF Active, Holds, k, q
  <2>2. CASE a.active # "DATA"
    BY <1>1, <1>5, <1>6, <2>2 DEF Active, Holds
  <2> QED
    BY <2>1, <2>2
<1>8. Warns(s, c)
  BY <1>1, <1>5, <1>6, <1>7 DEF Warns, Holds
<1> QED
  BY <1>8 DEF c, b, a

LEMMA ServerHolds ==
    ASSUME LinkInv, PumpServer, "drop" \notin excuse'
    PROVE  (Holds(session, session') \/ Warns(session, session')) /\ pending' = pending
<1> DEFINE u == LastOf(last, Unsent(pending))
<1>0. session \in Session /\ u \in Unit /\ Sound(session, u)
  BY LineFacts, LastOfFacts DEF LinkInv, WireInv, Steady, Sound, SessionOK
<1> HIDE DEF u
<1>1. CASE ServerReject
  <2> DEFINE e == Control("ERROR", 0)
             c == queue_control_frame(
                    reset_link_state_preserving_control_tx(queue_control_frame(session, e)),
                    Control("READY", 0))
             s == IF CanQueue(session, e) THEN c ELSE session
  <2>1. drop_stale_link_tx_data(s) /\ "drop" \notin DropExcuse(s)
    BY <1>1 DEF ServerReject, reset_connection
  <2>2. e \in Frame /\ e.type = "ERROR"
    <3>1. e \in Frame
      BY ControlFacts DEF FrameTypes
    <3> QED
      BY <3>1 DEF Control
  <2> HIDE DEF e
  <2>3. CanQueue(session, e) => Warns(session, c)
    BY <1>0, <2>2, RejectWarns
  <2> HIDE DEF c
  <2>4. session' = s /\ pending' = pending
    <3> HIDE DEF s
    <3> QED
      BY <2>1, NothingDropped
  <2> QED
    BY <1>0, <2>3, <2>4 DEF Holds
<1>2. CASE ServerReceive
  <2> DEFINE s == IF rx = NoRx THEN session
                  ELSE queue_control_frame(session, Control("ACK_C2M", 0))
  <2>1. \/ drop_stale_link_tx_data(s) /\ excuse' = excuse \cup DropExcuse(s)
        \/ session' = s /\ pending' = pending
    BY <1>2 DEF ServerReceive
  <2>2. Holds(session, s)
    <3>1. Control("ACK_C2M", 0) \in Frame
      BY ControlFacts DEF FrameTypes
    <3>2. Holds(session, queue_control_frame(session, Control("ACK_C2M", 0)))
      BY <1>0, <3>1, QueueHolds
    <3> QED
      BY <1>0, <3>2 DEF Holds
  <2> HIDE DEF s
  <2>3. session' = s /\ pending' = pending
    BY <2>1, NothingDropped
  <2> QED
    BY <2>2, <2>3
<1> QED
  BY <1>1, <1>2 DEF PumpServer

LEMMA PumpInStep ==
    ASSUME LinkInv, Line' = Line, m2c_seq_expected' = m2c_seq_expected, InStep,
           Holds(session, session') \/ Warns(session, session')
    PROVE  InStep'
<1>1. PICK m \in Number : Counts(m2c_seq_expected, Line, m) /\ Onward(session, m)
  BY DEF InStep
<1>2. Onward(session', m)
  <2>1. CASE Holds(session, session')
    BY <1>1, <2>1, HoldsOnward
  <2>2. CASE Warns(session, session')
    <3>1. CASE m = Over
      BY <3>1 DEF Onward
    <3>2. CASE Counts(m, session.tx, session.tx_seq_next)
      <4> DEFINE k == session.remaining
                 q == session.tx
      <4>1. q \in Seq(Unit) /\ (session.active = "DATA" => k \in 1..Len(q))
        BY DEF LinkInv, WireInv, Steady, Sound, SessionOK, Session, SessionFramed, ActiveQueue
      <4>2. \E e \in Number : Counts(m, Active(session), e)
        <5>1. CASE session.active = "DATA"
          <6>1. k \in 0..Len(q)
            BY <4>1, <5>1
          <6> HIDE DEF k
          <6>2. \E e \in Number : Counts(m, SubSeq(q, 1, k), e)
            BY <3>2, <4>1, <6>1, PathCut DEF Counts
          <6> QED
            BY <5>1, <6>2 DEF Active, k
        <5>2. CASE session.active # "DATA"
          <6>1. \A i \in 1..Len(<<>>) : <<m, <<>>[i], m>> \in Counted
            BY EmptyFramed
          <6>2. Counts(m, <<>>, m)
            BY <6>1, EmptyFramed, PathStay DEF Counts
          <6> QED
            BY <5>2, <6>2 DEF Active
        <5> QED
          BY <5>1, <5>2
      <4> QED
        BY <2>2, <4>2 DEF Onward, Warns
    <3>3. CASE \E e \in Number : Counts(m, Active(session), e)
      BY <2>2, <3>3 DEF Onward, Warns
    <3> QED
      BY <1>1, <3>1, <3>2, <3>3 DEF Onward
  <2> QED
    BY <2>1, <2>2
<1>3. Counts(m2c_seq_expected', Line', m)
  BY <1>1
<1> QED
  BY <1>2, <1>3 DEF InStep

-----------------------------------------------------------------------------
(* The Decoder stays in step.                                              *)

\* Behind any delimiter comes what comes behind another.
LEMMA SameFacts ==
    ASSUME NEW u \in Unit, NEW v \in Unit, Same(u, v), NEW q \in Seq(Unit), Continues(v, q)
    PROVE  Continues(u, q) /\ Same(LastOf(u, q), LastOf(v, q))
  BY DEF Same, Continues, LastOf, Follows

LEMMA SplitStream ==
    ASSUME NEW u \in Unit, NEW q \in Seq(Unit), NEW r \in Seq(Unit), Continues(u, q \o r)
    PROVE  /\ Continues(u, q) /\ Continues(LastOf(u, q), r)
           /\ LastOf(u, q \o r) = LastOf(LastOf(u, q), r)
<1> DEFINE w == q \o r
           n == Len(q)
           a == SubSeq(w, 1, n)
           b == Drop(w, n)
<1>1. w \in Seq(Unit) /\ Len(w) = n + Len(r) /\ n \in Nat /\ Len(r) \in Nat /\ \A i \in 1..n : w[i] = q[i]
  BY ConcatFacts
<1>2. n \in 0..n /\ n \in 0..Len(w)
  BY <1>1
<1>3. Drop(q, n) \in Seq(Unit) /\ Len(Drop(q, n)) = 0
  BY <1>1, <1>2, DropFacts
<1>4. Drop(q, n) = <<>>
  BY <1>3
<1>5. b = r
  <2>1. b = Drop(q, n) \o r
    BY <1>2, DropConcat
  <2> QED
    BY <1>4, <2>1, EmptyFramed, ConcatFacts
<1> HIDE DEF w
<1>6. a \in Seq(Unit) /\ Len(a) = n /\ \A i \in 1..n : a[i] = w[i]
  BY <1>1, <1>2, TakeFacts
<1>7. a = q
  <2>1. \A i \in 1..Len(a) : a[i] = q[i]
    BY <1>1, <1>6
  <2> HIDE DEF a
  <2> QED
    BY <1>6, <2>1, SeqEqual
<1>8. /\ Continues(u, a) /\ Continues(LastOf(u, a), b)
      /\ LastOf(LastOf(u, a), b) = LastOf(u, w)
  BY <1>1, <1>2, CutStream DEF w
<1> QED
  BY <1>5, <1>7, <1>8 DEF w

\* A stream with one delimiter, its last unit, is a whole frame.
LEMMA OneFrame ==
    ASSUME NEW q \in Seq(Unit), q # <<>>, Continues(Silence, q), Delimiter(q[Len(q)]),
           \A i \in 1..(Len(q) - 1) : ~Delimiter(q[i])
    PROVE  q = Units(q[Len(q)].frame)
<1> DEFINE n == Len(q)
           f == q[n].frame
           T == {i \in 1..n : ~(q[i].part = i /\ q[i].frame = q[1].frame)}
<1>1. n \in Nat \ {0} /\ 1 \in 1..n /\ n \in 1..n
  BY TailFacts
<1>2. q[1].part = 1
  BY SilenceFacts DEF Continues, Follows
<1>3. T = {}
  <2> SUFFICES ASSUME T # {} PROVE FALSE
    OBVIOUS
  <2>1. PICK i \in T : \A j \in T : i <= j
    <3>1. T \subseteq Nat
      BY <1>1
    <3> HIDE DEF T
    <3> QED
      BY <3>1, Least
  <2>2. i \in 1..n /\ ~(q[i].part = i /\ q[i].frame = q[1].frame)
    OBVIOUS
  <2>3. i # 1
    BY <1>2, <2>2
  <2> DEFINE k == i - 1
  <2>4. k \in 1..n /\ k \in 1..(n - 1) /\ k + 1 = i /\ ~(i <= k)
    BY <1>1, <2>2, <2>3
  <2> HIDE DEF k
  <2>5. q[k].part = k /\ q[k].frame = q[1].frame
    BY <2>1, <2>4
  <2>6. ~Delimiter(q[k]) /\ Follows(q[k], q[i])
    BY <2>4 DEF Continues, Chain
  <2> QED
    BY <2>2, <2>4, <2>5, <2>6 DEF Follows
<1>4. \A i \in 1..n : q[i].part = i /\ q[i].frame = q[1].frame /\ q[i] \in Unit
  BY <1>3
<1>5. f = q[1].frame /\ f.len = n /\ f \in Frame
  BY <1>1, <1>4 DEF Delimiter, Unit
<1> HIDE DEF n, f, T
<1>6. Units(f) \in Seq(Unit) /\ Len(Units(f)) = n /\ \A i \in 1..n : Units(f)[i] = [frame |-> f, part |-> i]
  BY <1>5, UnitsFacts
<1>7. ASSUME NEW i \in 1..Len(q) PROVE q[i] = Units(f)[i]
  <2>1. q[i].part = i /\ q[i].frame = f /\ q[i] \in [frame : Frame, part : Nat \ {0}]
    BY <1>4, <1>5 DEF n, Unit
  <2>2. q[i] = [frame |-> f, part |-> i]
    BY <2>1
  <2> QED
    BY <1>6, <2>2 DEF n
<1> DEFINE us == Units(f)
<1> HIDE DEF us
<1>8. us \in Seq(Unit) /\ Len(q) = Len(us) /\ \A i \in 1..Len(q) : q[i] = us[i]
  BY <1>6, <1>7 DEF us, n
<1>9. q = us
  BY <1>8, SeqEqual
<1> QED
  BY <1>9 DEF us, f, n

\* pump_link_tx continues the stream where it stopped.
LEMMA Writes ==
    ASSUME LinkInv, PumpLinkTx
    PROVE  \E w \in Seq(Unit) : uart' = uart \o w /\ last' = LastOf(last, w) /\ Continues(last, w)
<1> DEFINE left == Unsent(pending)
           r == mc_link_session_read_tx(mc_link_session_queue_server_tx)
           u == LastOf(last, left)
<1>1. /\ FirmwareTypes /\ WireInv /\ uart \in Seq(Unit) /\ left \in Seq(Unit) /\ torn = FALSE
      /\ last \in Unit /\ u \in Unit /\ Sound(session, u)
  BY LineFacts, LastOfFacts DEF LinkInv, WireTypes, WireInv, Steady
<1>2. torn' = FALSE
  BY <1>1, PumpLinkTxStep DEF WireInv
<1> HIDE DEF left, u
<1>3. r.buf \in Seq(Unit)
  BY <1>1, QueueServerTxSound, ReadSound
<1> HIDE DEF r
<1>4. \E w \in Seq(Unit) : Written(w)
  <2>1. CASE \E n \in 0..Len(left) : Written(SubSeq(left, 1, n))
    BY <1>1, <2>1, TakeFacts
  <2>2. CASE \E m \in 0..Len(r.buf) : Written(left \o SubSeq(r.buf, 1, m))
    <3>1. PICK m \in 0..Len(r.buf) : Written(left \o SubSeq(r.buf, 1, m))
      BY <2>2
    <3>2. SubSeq(r.buf, 1, m) \in Seq(Unit)
      BY <1>3, TakeFacts
    <3>3. left \o SubSeq(r.buf, 1, m) \in Seq(Unit)
      BY <1>1, <3>2, ConcatFacts
    <3> QED
      BY <3>1, <3>3
  <2> QED
    BY <1>1, <2>1, <2>2, PumpLinkTxCases DEF left, r
<1>5. PICK w \in Seq(Unit) : Written(w)
  BY <1>4
<1>6. \A i \in 1..Len(w) : Follows(IF i = 1 THEN last ELSE w[i - 1], w[i])
  BY <1>2, <1>5 DEF Written
<1>7. Continues(last, w)
  <2>1. Len(w) \in Nat
    OBVIOUS
  <2>2. w # <<>> => Follows(last, w[1])
    <3>1. w # <<>> => 1 \in 1..Len(w)
      BY <2>1
    <3> QED
      BY <1>6, <3>1
  <2>3. ASSUME NEW i \in 1..(Len(w) - 1) PROVE Follows(w[i], w[i + 1])
    <3> DEFINE j == i + 1
    <3>1. j \in 1..Len(w) /\ j # 1 /\ j - 1 = i
      BY <2>1
    <3> HIDE DEF j
    <3>2. Follows(w[i], w[j])
      BY <1>6, <3>1
    <3> QED
      BY <3>2 DEF j
  <2> QED
    BY <2>2, <2>3 DEF Continues, Chain
<1>8. uart' = uart \o w /\ last' = LastOf(last, w)
  BY <1>5 DEF Written, LastOf
<1> QED
  BY <1>7, <1>8

LEMMA TxSynced ==
    ASSUME LinkInv, PumpLinkTx, Synced
    PROVE  Synced'
<1>1. PICK w \in Seq(Unit) : uart' = uart \o w /\ last' = LastOf(last, w) /\ Continues(last, w)
  BY Writes
<1>2. /\ buffer' = buffer /\ uart \in Seq(Unit) /\ last \in Unit /\ Silence \in Unit
      /\ buffer \in Seq(Unit) /\ Stream \in Seq(Unit)
  BY LineFacts, SilenceFacts, ConcatFacts DEF PumpLinkTx, bridgeVars, LinkInv, WireInv, Synced, Stream
<1> DEFINE v == LastOf(Silence, Stream)
<1>3. v \in Unit /\ Same(v, last) /\ Continues(Silence, Stream)
  BY <1>2, LastOfFacts DEF Synced
<1>4. Stream' = Stream \o w
  BY <1>1, <1>2, Regroup DEF Stream
<1> HIDE DEF v
<1>5. Continues(v, w) /\ Same(LastOf(v, w), LastOf(last, w))
  BY <1>1, <1>2, <1>3, SameFacts
<1>6. Continues(Silence, Stream \o w) /\ LastOf(Silence, Stream \o w) = LastOf(v, w)
  BY <1>2, <1>3, <1>5, JoinStreams DEF v
<1>7. Continues(Silence, Stream') /\ Same(LastOf(Silence, Stream'), last')
  BY <1>1, <1>4, <1>5, <1>6
<1> QED
  BY <1>2, <1>7 DEF Synced

\* The Decoder takes a unit: at a delimiter it returns the frame.
LEMMA ReadSynced ==
    ASSUME LinkInv, Synced, Feed, uart' = Tail(uart), last' = last
    PROVE  Synced' /\ (Delimiter(Head(uart)) => Decoded = Head(uart).frame)
<1> DEFINE u == Head(uart)
           n == Len(buffer)
           t == Tail(uart)
<1>0. /\ uart \in Seq(Unit) /\ uart # <<>> /\ buffer \in Seq(Unit) /\ Silence \in Unit /\ last \in Unit
      /\ Delimiter(Silence) /\ \A i \in 1..n : ~Delimiter(buffer[i])
      /\ Continues(Silence, Stream) /\ Same(LastOf(Silence, Stream), last)
  BY LineFacts, SilenceFacts DEF Synced, LinkInv, WireInv, Feed
<1>1. /\ u \in Unit /\ u = uart[1] /\ t \in Seq(Unit) /\ Len(t) = Len(uart) - 1 /\ Len(uart) \in Nat \ {0}
      /\ \A i \in 1..(Len(uart) - 1) : t[i] = uart[i + 1]
  BY <1>0, TailFacts
<1> HIDE DEF u, t
<1>2. Fed = Append(buffer, u)
  BY DEF Fed, u
<1>3. /\ Fed \in Seq(Unit) /\ Len(Fed) = n + 1 /\ n \in Nat /\ Fed[n + 1] = u
      /\ \A i \in 1..n : Fed[i] = buffer[i]
  BY <1>0, <1>1, <1>2
<1> HIDE DEF n
<1>4. Stream = Fed \o t
  <2> DEFINE a == buffer \o uart
             b == Fed \o t
             g == Fed
  <2>1. a \in Seq(Unit) /\ Len(a) = n + Len(uart) /\ \A i \in 1..n : a[i] = buffer[i]
    BY <1>0, ConcatFacts DEF n
  <2>2. \A i \in 1..Len(uart) : a[n + i] = uart[i]
    BY <1>0, ConcatFacts DEF n
  <2>3. b \in Seq(Unit) /\ Len(b) = (n + 1) + Len(t) /\ \A i \in 1..(n + 1) : b[i] = g[i]
    <3>0. g \in Seq(Unit) /\ t \in Seq(Unit)
      BY <1>1, <1>3
    <3>1. b \in Seq(Unit) /\ Len(b) = Len(g) + Len(t) /\ \A i \in 1..Len(g) : b[i] = g[i]
      BY <3>0, ConcatFacts
    <3> HIDE DEF b
    <3> QED
      BY <1>3, <3>1
  <2>4. \A i \in 1..Len(t) : b[(n + 1) + i] = t[i]
    <3>0. g \in Seq(Unit) /\ t \in Seq(Unit) /\ Len(g) = n + 1
      BY <1>1, <1>3
    <3> QED
      BY <3>0, ConcatFacts
  <2>5. Len(g) = n + 1 /\ g[n + 1] = u /\ \A i \in 1..n : g[i] = buffer[i]
    BY <1>3
  <2> HIDE DEF a, b, g
  <2>6. ASSUME NEW i \in 1..Len(a) PROVE a[i] = b[i]
    <3>1. CASE i <= n
      <4>1. i \in 1..n /\ i \in 1..(n + 1)
        BY <1>3, <3>1
      <4> QED
        BY <2>1, <2>3, <2>5, <4>1
    <3>2. CASE i = n + 1
      <4>1. 1 \in 1..Len(uart) /\ n + 1 \in 1..(n + 1)
        BY <1>1, <1>3
      <4> QED
        BY <1>1, <2>2, <2>3, <2>5, <3>2, <4>1
    <3>3. CASE i > n + 1
      <4> DEFINE j == i - (n + 1)
                 k == j + 1
      <4>1. /\ j \in 1..Len(t) /\ j \in 1..(Len(uart) - 1) /\ k \in 1..Len(uart)
            /\ i = (n + 1) + j /\ i = n + k
        BY <1>1, <1>3, <2>1, <3>3
      <4>2. t[j] = uart[k]
        BY <1>1, <4>1
      <4> HIDE DEF j, k
      <4> QED
        BY <2>2, <2>4, <4>1, <4>2
    <3> QED
      BY <1>3, <3>1, <3>2, <3>3
  <2>7. Len(a) = Len(b)
    BY <1>1, <1>3, <2>1, <2>3
  <2>8. a = b
    BY <2>1, <2>3, <2>6, <2>7, SeqEqual
  <2> QED
    BY <2>8 DEF Stream, a, b
<1>5. /\ Continues(Silence, Fed) /\ Continues(LastOf(Silence, Fed), t)
      /\ LastOf(Silence, Stream) = LastOf(LastOf(Silence, Fed), t)
  BY <1>0, <1>1, <1>3, <1>4, SplitStream
<1>6. LastOf(Silence, Fed) = u /\ Fed # <<>>
  BY <1>3 DEF LastOf
<1>7. CASE Delimiter(u)
  <2>1. Fed = Units(u.frame)
    <3> DEFINE g == Fed
    <3>1. g \in Seq(Unit) /\ g # <<>> /\ Continues(Silence, g) /\ g[Len(g)] = u
      BY <1>3, <1>5, <1>6
    <3>2. \A i \in 1..(Len(g) - 1) : ~Delimiter(g[i])
      <4>1. (n + 1) - 1 = n
        BY <1>3
      <4> QED
        BY <1>0, <1>3, <4>1 DEF n
    <3> HIDE DEF g
    <3>3. g = Units(u.frame)
      BY <1>7, <3>1, <3>2, OneFrame
    <3> QED
      BY <3>3 DEF g
  <2>2. Decoded = u.frame
    BY <1>7, <2>1 DEF Decoded, u
  <2>3. buffer' = <<>> /\ uart' = t
    BY <1>7 DEF Feed, u, t
  <2>4. Stream' = t
    BY <1>1, <2>3, EmptyFramed, ConcatFacts DEF Stream
  <2>5. Same(Silence, u)
    BY <1>0, <1>7 DEF Same
  <2>6. Continues(Silence, t) /\ Same(LastOf(Silence, t), LastOf(u, t))
    BY <1>0, <1>1, <1>5, <1>6, <2>5, SameFacts
  <2>7. Same(LastOf(Silence, t), last)
    BY <1>0, <1>5, <1>6, <2>6 DEF Same
  <2>8. Synced'
    BY <2>3, <2>4, <2>6, <2>7, EmptyFramed DEF Synced
  <2> QED
    BY <2>2, <2>8 DEF u
<1>8. CASE ~Delimiter(u)
  <2>1. buffer' = Fed /\ uart' = t
    BY <1>8 DEF Feed, u, t
  <2>2. Stream' = Stream
    BY <1>4, <2>1 DEF Stream
  <2>3. ASSUME NEW i \in 1..Len(buffer') PROVE ~Delimiter(buffer'[i])
    <3>1. i \in 1..n \/ i = n + 1
      BY <1>3, <2>1
    <3> QED
      BY <1>0, <1>3, <1>8, <2>1, <3>1
  <2>4. Synced'
    BY <1>0, <1>3, <2>1, <2>2, <2>3 DEF Synced
  <2> QED
    BY <1>8, <2>4 DEF u
<1> QED
  BY <1>7, <1>8

-----------------------------------------------------------------------------
(* The READY that the bridge waits for is the last frame.                  *)

LEMMA NoneBehind ==
    ASSUME NEW A, NEW k, k \notin A, NEW q \in Seq(AckIn(A))
    PROVE  LastBehind(k, FALSE, q)
<1>1. Len(q) \in Nat /\ \A i \in 1..Len(q) : ~OwnAck(k, q[i])
  BY DEF AckIn, OwnAck
<1>2. \A j \in 1..Len(q) : 1..(j - 1) \subseteq 1..Len(q)
  BY <1>1
<1> QED
  BY <1>1, <1>2 DEF LastBehind

\* Units are taken off the front, perhaps the RESET_ACK among them.
LEMMA CutBehind ==
    ASSUME NEW k, NEW saw, NEW now, NEW q \in Seq(Unit), NEW n \in 0..Len(q), LastBehind(k, saw, q),
           now => saw \/ \E i \in 1..n : OwnAck(k, q[i])
    PROVE  LastBehind(k, now, Drop(q, n))
<1> DEFINE d == Drop(q, n)
<1>1. /\ Len(q) \in Nat /\ n \in Nat /\ d \in Seq(Unit) /\ Len(d) = Len(q) - n
      /\ \A i \in 1..(Len(q) - n) : d[i] = q[n + i]
  BY DropFacts
<1> HIDE DEF d
<1>2. ASSUME NEW j \in 1..Len(d), Delimiter(d[j]), now \/ \E i \in 1..(j - 1) : OwnAck(k, d[i])
      PROVE  j = Len(d)
  <2> DEFINE m == n + j
  <2>1. m \in 1..Len(q) /\ d[j] = q[m] /\ m = n + j
    BY <1>1
  <2> HIDE DEF m
  <2>2. saw \/ \E i \in 1..(m - 1) : OwnAck(k, q[i])
    <3>1. CASE now
      <4>1. \A i \in 1..n : i \in 1..(m - 1)
        BY <1>1, <2>1
      <4> QED
        BY <3>1, <4>1
    <3>2. CASE \E i \in 1..(j - 1) : OwnAck(k, d[i])
      <4>1. PICK i \in 1..(j - 1) : OwnAck(k, d[i])
        BY <3>2
      <4> DEFINE h == n + i
      <4>2. h \in 1..(m - 1) /\ d[i] = q[h]
        BY <1>1, <2>1
      <4> HIDE DEF h
      <4> QED
        BY <4>1, <4>2
    <3> QED
      BY <1>2, <3>1, <3>2
  <2>3. m = Len(q)
    BY <1>2, <2>1, <2>2 DEF LastBehind
  <2>4. n + j = Len(q) /\ j \in Int
    BY <1>2, <2>1, <2>3
  <2> DEFINE x == Len(q)
             y == Len(d)
  <2>5. n \in Nat /\ x \in Nat /\ y = x - n /\ n + j = x /\ j \in Int
    BY <1>1, <2>4
  <2> HIDE DEF x, y
  <2>6. j = y
    BY <2>5
  <2> QED
    BY <2>6 DEF y
<1>3. LastBehind(k, now, d)
  BY <1>2 DEF LastBehind
<1> QED
  BY <1>3 DEF d

\* Units are taken off the end.
LEMMA PrefixBehind ==
    ASSUME NEW k, NEW saw, NEW q \in Seq(Unit), NEW r \in Seq(Unit), LastBehind(k, saw, q \o r)
    PROVE  LastBehind(k, saw, q)
<1> DEFINE w == q \o r
<1>1. /\ Len(w) = Len(q) + Len(r) /\ Len(q) \in Nat /\ Len(r) \in Nat
      /\ \A i \in 1..Len(q) : w[i] = q[i]
  BY ConcatFacts
<1>2. LastBehind(k, saw, w)
  OBVIOUS
<1> HIDE DEF w
<1>3. ASSUME NEW j \in 1..Len(q), Delimiter(q[j]), saw \/ \E i \in 1..(j - 1) : OwnAck(k, q[i])
      PROVE  j = Len(q)
  <2>1. j \in 1..Len(w) /\ w[j] = q[j] /\ \A i \in 1..(j - 1) : w[i] = q[i]
    BY <1>1
  <2>2. j = Len(w)
    BY <1>2, <1>3, <2>1 DEF LastBehind
  <2> QED
    BY <1>1, <2>2
<1> QED
  BY <1>3 DEF LastBehind

\* A RESET_ACK and a READY behind what holds no RESET_ACK of this RESET.
LEMMA PairBehind ==
    ASSUME NEW A, NEW k, k \notin A, NEW p \in Seq(AckIn(A)), NEW f \in Frame, NEW g \in Frame
    PROVE  LastBehind(k, FALSE, p \o (Units(f) \o Units(g)))
<1> DEFINE x == Units(f)
           y == Units(g)
           z == x \o y
           q == p \o z
           n == Len(p)
           m == f.len
           l == g.len
<1>1. x \in Seq(Unit) /\ Len(x) = m /\ \A i \in 1..m : x[i] = [frame |-> f, part |-> i]
  BY UnitsFacts
<1>2. y \in Seq(Unit) /\ Len(y) = l /\ \A i \in 1..l : y[i] = [frame |-> g, part |-> i]
  BY UnitsFacts
<1>3. p \in Seq(Unit) /\ n \in Nat /\ m \in Nat \ {0} /\ l \in Nat \ {0}
      /\ \A i \in 1..n : ~OwnAck(k, p[i])
  <2>1. AckIn(A) \subseteq Unit /\ \A u \in AckIn(A) : ~OwnAck(k, u)
    BY DEF AckIn, OwnAck
  <2> QED
    BY <2>1, SeqMonotonic DEF Frame
<1> HIDE DEF x, y
<1>4. /\ z \in Seq(Unit) /\ Len(z) = m + l /\ \A i \in 1..m : z[i] = x[i]
      /\ \A i \in 1..l : z[m + i] = y[i]
  <2>0. x \in Seq(Unit) /\ y \in Seq(Unit)
    BY <1>1, <1>2
  <2>1. z \in Seq(Unit) /\ Len(z) = Len(x) + Len(y)
    BY <2>0, ConcatFacts
  <2>2. \A i \in 1..Len(x) : z[i] = x[i]
    BY <2>0, ConcatFacts
  <2>3. \A i \in 1..Len(y) : z[Len(x) + i] = y[i]
    BY <2>0, ConcatFacts
  <2> HIDE DEF z
  <2> QED
    BY <1>1, <1>2, <2>1, <2>2, <2>3
<1>5. \A i \in 1..l : z[m + i] = y[i]
  BY <1>4
<1> HIDE DEF z
<1>6. /\ q \in Seq(Unit) /\ Len(q) = n + (m + l) /\ \A i \in 1..n : q[i] = p[i]
  BY <1>3, <1>4, ConcatFacts
<1>7. \A i \in 1..(m + l) : q[n + i] = z[i]
  BY <1>3, <1>4, ConcatFacts
<1> HIDE DEF q
<1>8. ASSUME NEW i \in 1..(m + l), Delimiter(q[n + i]) PROVE i = m \/ i = m + l
  <2>1. q[n + i] = z[i]
    BY <1>7
  <2>2. CASE i <= m
    <3>1. i \in 1..m
      BY <1>3, <2>2
    <3>2. q[n + i] = [frame |-> f, part |-> i]
      BY <1>1, <1>4, <2>1, <3>1
    <3> HIDE DEF n
    <3> QED
      BY <1>8, <3>2 DEF Delimiter
  <2>3. CASE ~(i <= m)
    <3> DEFINE j == i - m
    <3>1. j \in 1..l /\ i = m + j
      BY <1>3, <2>3
    <3> HIDE DEF j
    <3>2. q[n + i] = z[m + j] /\ z[m + j] = y[j] /\ y[j] = [frame |-> g, part |-> j]
      BY <1>2, <1>5, <2>1, <3>1
    <3> HIDE DEF n
    <3>3. q[n + i] = [frame |-> g, part |-> j]
      BY <3>2
    <3>4. j = l
      BY <1>8, <3>3 DEF Delimiter
    <3> QED
      BY <3>1, <3>4
  <2> QED
    BY <2>2, <2>3
<1> HIDE DEF n, m, l
<1>9. ASSUME NEW j \in 1..Len(q), Delimiter(q[j]), NEW i \in 1..(j - 1), OwnAck(k, q[i])
      PROVE  j = Len(q)
  <2>1. ~(i \in 1..n) /\ Delimiter(q[i])
    BY <1>3, <1>6, <1>9 DEF n, OwnAck
  <2> DEFINE a == i - n
             b == j - n
  <2>2. a \in 1..(m + l) /\ b \in 1..(m + l) /\ a < b /\ i = n + a /\ j = n + b
    BY <1>3, <1>6, <2>1 DEF n, m, l
  <2> HIDE DEF a, b
  <2>3. (a = m \/ a = m + l) /\ (b = m \/ b = m + l)
    BY <1>8, <1>9, <2>1, <2>2
  <2>4. b = m + l
    BY <2>2, <2>3
  <2> QED
    BY <1>6, <2>2, <2>4
<1>10. LastBehind(k, FALSE, q)
  BY <1>9 DEF LastBehind
<1> QED
  BY <1>10 DEF q, z, x, y

LEMMA ComingFacts ==
    ASSUME LinkInv
    PROVE  /\ Line \in Seq(Unit) /\ session.tx \in Seq(Unit) /\ session.control_tx \in Seq(Unit)
           /\ session.tx \o session.control_tx \in Seq(Unit) /\ Coming \in Seq(Unit)
           /\ session \in Session
<1>1. Line \in Seq(Unit) /\ session.tx \in Seq(Unit) /\ session.control_tx \in Seq(Unit) /\ session \in Session
  BY LineFacts DEF LinkInv, WireInv, Steady, Sound, SessionOK, Session
<1>2. session.tx \o session.control_tx \in Seq(Unit)
  BY <1>1, ConcatFacts
<1> QED
  BY <1>1, <1>2, ConcatFacts DEF Coming

\* As long as no RESET_ACK of this RESET is under way.
LEMMA UnansweredReady ==
    ASSUME NEW k, NEW A, k \notin A,
           NEW x \in Seq(AckIn(A)), NEW y \in Seq(DataUnit), NEW z \in Seq(ControlUnit(A))
    PROVE  /\ x \o (y \o z) \in Seq(AckIn(A))
           /\ LastBehind(k, FALSE, x \o (y \o z))
<1>1. y \in Seq(AckIn(A)) /\ z \in Seq(AckIn(A))
  BY SetFacts, SeqMonotonic
<1>2. y \o z \in Seq(AckIn(A))
  BY <1>1, ConcatFacts
<1>3. x \o (y \o z) \in Seq(AckIn(A))
  BY <1>2, ConcatFacts
<1> QED
  BY <1>3, NoneBehind

LEMMA ReadyKept ==
    ASSUME ReadyLast, Line' = Line, session' = session, UNCHANGED <<saw_reset_ack, reset_seq>>
    PROVE  ReadyLast'
  BY DEF ReadyLast, Coming

\* Units are read off the wire, or lost on it.
LEMMA ReadReady ==
    ASSUME LinkInv, ReadyLast, uart # <<>>, uart' = Tail(uart), UNCHANGED <<pending, session, reset_seq>>,
           saw_reset_ack' => saw_reset_ack \/ OwnAck(reset_seq, Head(uart))
    PROVE  ReadyLast'
<1> DEFINE x == session.tx \o session.control_tx
<1>1. Line \in Seq(Unit) /\ x \in Seq(Unit) /\ Coming \in Seq(Unit) /\ uart \in Seq(Unit) /\ Unsent(pending) \in Seq(Unit)
  BY ComingFacts, LineFacts
<1>2. uart' = Drop(uart, 1) /\ Len(uart) \in Nat \ {0} /\ Head(uart) = uart[1]
  BY <1>1, TailFacts
<1>3. 1 \in 0..Len(uart) /\ 1 \in 1..Len(uart)
  BY <1>2
<1>4. Line' = Drop(Line, 1) /\ 1 \in 0..Len(Line)
  BY <1>2, <1>3, LineRead
<1> HIDE DEF x
<1>5. Coming' = Drop(Coming, 1)
  <2>1. Drop(Line \o x, 1) = Drop(Line, 1) \o x
    BY <1>1, <1>4, DropConcat
  <2> QED
    BY <1>4, <2>1 DEF Coming, x
<1>6. Coming[1] = Head(uart) /\ 1 \in 0..Len(Coming)
  <2>1. Line[1] = uart[1]
    BY <1>1, <1>3, ConcatFacts DEF Line
  <2>2. Len(Line) \in Nat /\ Len(Coming) = Len(Line) + Len(x) /\ Len(x) \in Nat
        /\ \A i \in 1..Len(Line) : Coming[i] = Line[i]
    <3>1. Line \in Seq(Unit) /\ x \in Seq(Unit) /\ Coming = Line \o x
      BY <1>1 DEF Coming, x
    <3> HIDE DEF x
    <3>2. Len(Line \o x) = Len(Line) + Len(x) /\ Len(Line) \in Nat /\ Len(x) \in Nat
      BY <3>1, ConcatFacts
    <3>3. \A i \in 1..Len(Line) : (Line \o x)[i] = Line[i]
      BY <3>1, ConcatFacts
    <3> QED
      BY <3>1, <3>2, <3>3
  <2>3. 1 \in 1..Len(Line)
    BY <1>4, <2>2
  <2> QED
    BY <1>2, <2>1, <2>2, <2>3
<1>7. saw_reset_ack' => saw_reset_ack \/ \E i \in 1..1 : OwnAck(reset_seq, Coming[i])
  BY <1>6
<1> DEFINE now == saw_reset_ack'
<1> HIDE DEF now
<1>8. LastBehind(reset_seq, now, Drop(Coming, 1))
  BY <1>1, <1>6, <1>7, CutBehind DEF ReadyLast, now
<1> QED
  BY <1>5, <1>8 DEF ReadyLast, now

\* pump_link_tx moves units along, in the order in which they come.
LEMMA TxComing ==
    ASSUME LinkInv, PumpLinkTx, tx_ring = <<>>, OnlyTail(session)
    PROVE  Coming' = Coming
<1> DEFINE r == mc_link_session_read_tx(session)
           u == LastOf(last, Unsent(pending))
           x == session.tx
           y == session.control_tx
<1>0. Line \in Seq(Unit) /\ x \in Seq(Unit) /\ y \in Seq(Unit) /\ x \o y \in Seq(Unit)
  BY ComingFacts
<1>1. u \in Unit /\ Sound(session, u)
  BY LineFacts, LastOfFacts DEF LinkInv, WireInv, Steady
<1>2. mc_link_session_queue_server_tx = session
  BY DEF mc_link_session_queue_server_tx
<1>3. CASE Line' = Line /\ session' = session
  BY <1>3 DEF Coming
<1>4. CASE Line' = Line \o r.buf /\ session' = r.s
  <2>0. Coming' = (Line \o r.buf) \o (r.s.tx \o r.s.control_tx)
    BY <1>4 DEF Coming
  <2>1. \/ \E n \in 0..Len(y) : FromControl(session, r, n)
        \/ \E n \in 0..Len(x) : FromData(session, r, n)
    <3> HIDE DEF u
    <3> QED
      BY <1>1, ReadParts
  <2> HIDE DEF r
  <2>2. ASSUME NEW n \in 0..Len(y), FromControl(session, r, n) PROVE Coming' = Coming
    <3> DEFINE a == SubSeq(y, 1, n)
               b == Drop(y, n)
    <3>1. a \in Seq(Unit) /\ b \in Seq(Unit) /\ a \o b = y
      BY <1>0, TakeFacts, DropFacts, TakeDrop
    <3>2. x = <<>> /\ r.buf = a /\ r.s.tx = <<>> /\ r.s.control_tx = b
      BY <2>2 DEF FromControl, OnlyTail
    <3> HIDE DEF a, b
    <3>3. (Line \o a) \o b = Line \o (a \o b)
      BY <1>0, <3>1, Regroup, ZenonT(40)
    <3>4. <<>> \o b = b /\ <<>> \o y = y
      BY <1>0, <3>1
    <3> QED
      BY <2>0, <3>1, <3>2, <3>3, <3>4 DEF Coming
  <2>3. ASSUME NEW n \in 0..Len(x), FromData(session, r, n) PROVE Coming' = Coming
    <3> DEFINE a == SubSeq(x, 1, n)
               b == Drop(x, n)
    <3>1. a \in Seq(Unit) /\ b \in Seq(Unit) /\ a \o b = x
      BY <1>0, TakeFacts, DropFacts, TakeDrop
    <3>2. r.buf = a /\ r.s.tx = b /\ r.s.control_tx = y
      BY <2>3 DEF FromData
    <3> HIDE DEF a, b
    <3>3. b \o y \in Seq(Unit)
      BY <1>0, <3>1, ConcatFacts
    <3>4. (Line \o a) \o (b \o y) = Line \o (a \o (b \o y))
      BY <1>0, <3>1, <3>3, Regroup, ZenonT(40)
    <3>5. a \o (b \o y) = (a \o b) \o y
      BY <1>0, <3>1, Regroup, ZenonT(40)
    <3> QED
      BY <2>0, <3>1, <3>2, <3>4, <3>5 DEF Coming
  <2> QED
    BY <2>1, <2>2, <2>3
<1> QED
  BY <1>2, <1>3, <1>4, LineWritten

\* What is left of the control queue after a reset, and the answer to RESET.
LEMMA ResetQueued ==
    ASSUME LinkInv, NEW f \in C2mFrame, f.type = "RESET", HandleReset(f)
    PROVE  LET c == KeptControl(session)
               x == Control("RESET_ACK", f.seq)
               y == Control("READY", 0) IN
           /\ x \in Frame /\ y \in Frame
           /\ session'.control_tx \in {c, c \o Units(x), c \o Units(y), (c \o Units(x)) \o Units(y)}
<1> DEFINE c == KeptControl(session)
           x == Control("RESET_ACK", f.seq)
           y == Control("READY", 0)
           s == reset_link_state(session)
           t == queue_control_frame(s, x)
           v == queue_control_frame(t, y)
<1>1. x \in Frame /\ y \in Frame
  <2>1. f.seq \in Nat
    BY DEF C2mFrame
  <2> QED
    BY <2>1, ControlFacts DEF FrameTypes
<1>2. session \in Session /\ s \in Session /\ s.control_tx = c
  <2>1. session \in Session
    BY ComingFacts
  <2> DEFINE p == reset_link_state_preserving_control_tx(session)
  <2>2. p.active = session.active /\ DOMAIN p = DOMAIN session
    BY <2>1 DEF reset_link_state_preserving_control_tx, Session
  <2>3. s \in Session
    BY <2>1, ResetsCount
  <2>4. s.control_tx = c
    BY <2>1 DEF reset_link_state, reset_link_state_preserving_control_tx, KeptControl, Session
  <2> QED
    BY <2>1, <2>3, <2>4
<1> HIDE DEF c, x, y, s
<1>3. t \in Session /\ t.control_tx \in {c, c \o Units(x)}
  <2>1. t \in Session
    BY <1>1, <1>2, QueueCounts
  <2> QED
    BY <1>2, <2>1 DEF queue_control_frame, Session
<1> HIDE DEF t
<1>4. v \in Session /\ v.control_tx \in {t.control_tx, t.control_tx \o Units(y)}
  <2>1. v \in Session
    BY <1>1, <1>3, QueueCounts
  <2> QED
    BY <1>3, <2>1 DEF queue_control_frame, Session
<1>5. session'.control_tx = v.control_tx
  <2>1. session' = mc_link_session_drop_queued_data(v)
    BY DEF HandleReset, reset_connection, drop_stale_link_tx_data, v, t, s, x, y
  <2> HIDE DEF v
  <2> QED
    BY <1>4, <2>1 DEF mc_link_session_drop_queued_data, Session
<1> HIDE DEF v
<1>6. session'.control_tx \in {c, c \o Units(x), c \o Units(y), (c \o Units(x)) \o Units(y)}
  BY <1>3, <1>4, <1>5
<1> QED
  BY <1>1, <1>6 DEF c, x, y

\* The RESET that the bridge waits for is handled.
LEMMA ResetReady ==
    ASSUME LinkInv, Asked, Within(session, ControlUnit(Nat), DataUnit),
           NEW f \in C2mFrame, f.type = "RESET", HandleReset(f),
           UNCHANGED <<uart, reset_seq, saw_reset_ack>>
    PROVE  ReadyLast'
<1> DEFINE c == KeptControl(session)
           l == Line'
           d == session'.tx
           z == session'.control_tx
           p == l \o (d \o c)
           x == Units(Control("RESET_ACK", f.seq))
           y == Units(Control("READY", 0))
<1>1. f.seq \in Nat
  BY DEF C2mFrame
<1>2. d \in Seq(DataUnit) /\ Lessens
  BY <1>1, HandleResetWithin DEF Within
<1>3. l \in Seq(AckIn(Others))
  BY <1>2, LineLessens DEF Lessens, Asked
<1>4. c \in Seq(ControlUnit(Others))
  <2>1. session.control_tx \in Seq(ControlUnit(Others)) /\ session.remaining \in Nat
    BY ComingFacts DEF Asked, Session
  <2>2. truncate_ringbuf(session.control_tx, session.remaining) \in Seq(ControlUnit(Others))
    BY <2>1, TruncateWithin
  <2> QED
    BY <2>2, EmptyWithin DEF KeptControl
<1>5. reset_seq \notin Others
  BY DEF Others
<1>6. /\ Control("RESET_ACK", f.seq) \in Frame /\ Control("READY", 0) \in Frame
      /\ z \in {c, c \o x, c \o y, (c \o x) \o y}
  BY ResetQueued
<1>7. y \in Seq(ControlUnit(Others))
  <2>1. Harmless(Control("READY", 0), Others)
    BY HarmlessControl DEF FrameTypes
  <2> QED
    BY <2>1, HarmlessUnits
<1>8. x \in Seq(Unit) /\ y \in Seq(Unit)
  BY <1>6, UnitsFacts
<1> HIDE DEF c, l, d, x, y
<1>9. l \in Seq(Unit) /\ d \in Seq(Unit) /\ c \in Seq(Unit) /\ d \o c \in Seq(Unit)
  <2>1. l \in Seq(Unit) /\ d \in Seq(Unit) /\ c \in Seq(Unit)
    BY <1>2, <1>3, <1>4, SetFacts, SeqMonotonic
  <2> QED
    BY <2>1, ConcatFacts
<1>10. p \in Seq(AckIn(Others)) /\ LastBehind(reset_seq, FALSE, p)
  BY <1>2, <1>3, <1>4, <1>5, UnansweredReady
<1>11. ASSUME NEW w \in Seq(Unit) PROVE l \o (d \o (c \o w)) = p \o w
  <2>1. (d \o c) \o w = d \o (c \o w)
    BY <1>9, Regroup, ZenonT(40)
  <2>2. (l \o (d \o c)) \o w = l \o ((d \o c) \o w)
    BY <1>9, Regroup, ZenonT(40)
  <2> QED
    BY <2>1, <2>2
<1>12. LastBehind(reset_seq, FALSE, l \o (d \o z))
  <2>0. p \in Seq(Unit) /\ x \o y \in Seq(Unit) /\ p \o x \in Seq(Unit)
    <3>1. p \in Seq(Unit)
      BY <1>10, SetFacts, SeqMonotonic
    <3> HIDE DEF p
    <3> QED
      BY <1>8, <3>1, ConcatFacts
  <2>1. LastBehind(reset_seq, FALSE, p \o (x \o y))
    <3> HIDE DEF p
    <3> QED
      BY <1>5, <1>6, <1>10, PairBehind DEF x, y
  <2>2. (c \o x) \o y = c \o (x \o y) /\ (p \o x) \o y = p \o (x \o y)
    <3> HIDE DEF p
    <3>1. (c \o x) \o y = c \o (x \o y)
      BY <1>8, <1>9, Regroup, ZenonT(40)
    <3>2. (p \o x) \o y = p \o (x \o y)
      BY <1>8, <2>0, Regroup, ZenonT(40)
    <3> QED
      BY <3>1, <3>2
  <2>3. LastBehind(reset_seq, FALSE, p \o x)
    <3> HIDE DEF p
    <3> QED
      BY <1>8, <2>0, <2>1, <2>2, PrefixBehind
  <2>4. LastBehind(reset_seq, FALSE, p \o y)
    <3>1. y \in Seq(AckIn(Others))
      BY <1>7, SetFacts, SeqMonotonic
    <3> HIDE DEF p
    <3>2. p \o y \in Seq(AckIn(Others))
      BY <1>10, <3>1, ConcatFacts
    <3> QED
      BY <1>5, <3>2, NoneBehind
  <2>5. CASE z = c
    BY <1>10, <2>5
  <2>6. CASE z = c \o x
    BY <1>8, <1>11, <2>3, <2>6
  <2>7. CASE z = c \o y
    BY <1>8, <1>11, <2>4, <2>7
  <2>8. CASE z = (c \o x) \o y
    BY <1>11, <2>0, <2>1, <2>2, <2>8
  <2> QED
    BY <1>6, <2>5, <2>6, <2>7, <2>8
<1>13. Coming' = l \o (d \o z) /\ saw_reset_ack' = FALSE /\ reset_seq' = reset_seq
  BY DEF Coming, l, d, Asked
<1> QED
  BY <1>12, <1>13 DEF ReadyLast

\* Asked, the bridge has nothing of the kind before it.
LEMMA AskedReady ==
    ASSUME saw_reset_ack' = FALSE, (Line \in Seq(AckIn(Others)))',
           Within(session', ControlUnit(Others'), DataUnit)
    PROVE  ReadyLast'
<1>1. reset_seq' \notin Others'
  BY DEF Others
<1>2. Line' \in Seq(AckIn(Others'))
  BY DEF AckIn
<1>3. LastBehind(reset_seq', FALSE, Line' \o (session'.tx \o session'.control_tx))
  BY <1>1, <1>2, UnansweredReady DEF Within
<1> QED
  BY <1>3 DEF ReadyLast, Coming

LEMMA RxReady ==
    ASSUME LinkInv, Numbered, Asked \/ Answered, Within(session, ControlUnit(Nat), DataUnit),
           PumpLinkRx, ReadyLast
    PROVE  ReadyLast'
<1>1. /\ UNCHANGED bridgeSide /\ UNCHANGED <<saw_reset_ack, reset_seq>> /\ uart' = uart /\ Others' = Others
      /\ c2m \in Seq(ResetIn(Known)) /\ c2m \in Seq(C2mFrame)
  BY SameNumbers DEF PumpLinkRx, bridgeVars, bridgeSide, Numbered, LinkInv, WireTypes
<1>2. CASE UNCHANGED <<session, pending>>
  BY <1>1, <1>2, ReadyKept DEF Line, Unsent
<1>3. CASE c2m # <<>> /\ Asked
  <2> DEFINE f == Head(c2m)
  <2>1. Within(session, ControlUnit(Others), DataUnit) /\ f \in ResetIn(Known) /\ f \in C2mFrame
    BY <1>1, <1>3, TailFacts DEF Asked, Within
  <2>2. CASE f \in ResetIn(Others)
    <3>1. Within(session', ControlUnit(Others), DataUnit) /\ Lessens
      BY <2>1, <2>2, RxWithin
    <3>2. Line' \in Seq(AckIn(Others))
      BY <1>1, <1>3, <3>1, LineLessens DEF Lessens, Asked
    <3>3. (Line \in Seq(AckIn(Others)))'
      BY <1>1, <3>2 DEF AckIn
    <3> QED
      BY <1>1, <1>3, <3>1, <3>3, AskedReady DEF Asked
  <2>3. CASE f \notin ResetIn(Others)
    <3>1. f.type = "RESET"
      BY <2>1, <2>3 DEF ResetIn
    <3>2. UNCHANGED <<session, pending>> \/ HandleReset(f)
      BY <1>3, <3>1 DEF PumpLinkRx
    <3> QED
      BY <1>1, <1>2, <1>3, <2>1, <3>1, <3>2, ResetReady
  <2> QED
    BY <2>2, <2>3
<1>4. UNCHANGED <<session, pending>> \/ c2m # <<>>
  BY DEF PumpLinkRx
<1> QED
  BY <1>2, <1>3, <1>4 DEF Answered

LEMMA ServerReady ==
    ASSUME LinkInv, Asked \/ Answered, Within(session, ControlUnit(Nat), DataUnit), PumpServer, ReadyLast
    PROVE  ReadyLast'
<1>1. /\ UNCHANGED bridgeSide /\ UNCHANGED <<saw_reset_ack, reset_seq>> /\ uart' = uart /\ Others' = Others
  BY SameNumbers DEF PumpServer, bridgeVars, bridgeSide
<1>2. CASE Asked
  <2>1. Within(session, ControlUnit(Others), DataUnit)
    BY <1>2 DEF Asked, Within
  <2>2. Within(session', ControlUnit(Others), DataUnit) /\ pending' \in {pending, Empty}
    BY <2>1, ServerWithin
  <2>3. Line' \in Seq(AckIn(Others))
    BY <1>1, <1>2, <2>2, LineLessens DEF Asked
  <2>4. (Line \in Seq(AckIn(Others)))'
    BY <1>1, <2>3 DEF AckIn
  <2> QED
    BY <1>1, <1>2, <2>2, <2>4, AskedReady DEF Asked
<1>3. CASE Answered
  <2>1. UNCHANGED <<session, pending>>
    BY <1>3, ServerWithin DEF Answered
  <2> QED
    BY <1>1, <2>1, ReadyKept DEF Line, Unsent
<1> QED
  BY <1>2, <1>3

LEMMA TxReady ==
    ASSUME LinkInv, Asked \/ Answered, Within(session, ControlUnit(Nat), DataUnit), PumpLinkTx, ReadyLast
    PROVE  ReadyLast'
<1>1. /\ UNCHANGED bridgeSide /\ UNCHANGED <<saw_reset_ack, reset_seq>> /\ Others' = Others
  BY SameNumbers DEF PumpLinkTx, bridgeVars, bridgeSide
<1>2. CASE Asked
  <2>1. Within(session, ControlUnit(Others), DataUnit) /\ Units(ServerFrame) \in Seq(DataUnit)
    BY <1>2, ServerFrameWithin DEF Asked, Within, LinkInv, WireInv, Steady, Sound
  <2>2. PICK w : /\ Line' = Line \o w /\ (w \in Seq(ControlUnit(Others)) \/ w \in Seq(DataUnit))
                 /\ Within(session', ControlUnit(Others), DataUnit)
    BY <2>1, TxWithin
  <2>3. w \in Seq(AckIn(Others))
    BY <2>2, SetFacts, SeqMonotonic
  <2>4. Line' \in Seq(AckIn(Others))
    BY <1>2, <2>2, <2>3, ConcatFacts DEF Asked
  <2>5. (Line \in Seq(AckIn(Others)))'
    BY <1>1, <2>4 DEF AckIn
  <2> QED
    BY <1>1, <1>2, <2>2, <2>5, AskedReady DEF Asked
<1>3. CASE Answered
  <2>1. Coming' = Coming
    BY <1>3, TxComing DEF Answered, Quiet
  <2> QED
    BY <1>1, <2>1 DEF ReadyLast
<1> QED
  BY <1>2, <1>3

\* The wires lose frames and units, or the firmware starts again.
LEMMA LossReady ==
    ASSUME LinkInv, ReadyLast, LoseC2m \/ LoseUnit \/ Reboot
    PROVE  ReadyLast'
<1>1. CASE LoseC2m
  BY <1>1, ReadyKept DEF LoseC2m, fwVars, bridgeVars, Line, Unsent
<1>2. CASE LoseUnit
  BY <1>2, ReadReady DEF LoseUnit, fwVars, bridgeVars
<1>3. CASE Reboot
  <2> DEFINE x == session.tx \o session.control_tx
             y == Unsent(pending)
  <2>1. uart \in Seq(Unit) /\ y \in Seq(Unit) /\ x \in Seq(Unit)
    BY ComingFacts, LineFacts
  <2>2. Coming = (uart \o y) \o x
    BY DEF Coming, Line
  <2> HIDE DEF x, y
  <2>3. y \o x \in Seq(Unit) /\ (uart \o y) \o x = uart \o (y \o x)
    <3>1. y \o x \in Seq(Unit)
      BY <2>1, ConcatFacts
    <3> QED
      BY <2>1, <3>1, Regroup
  <2>4. LastBehind(reset_seq, saw_reset_ack, uart \o (y \o x))
    BY <2>2, <2>3 DEF ReadyLast
  <2>5. LastBehind(reset_seq, saw_reset_ack, uart)
    BY <2>1, <2>3, <2>4, PrefixBehind
  <2>6. Line' = uart /\ session'.tx = <<>> /\ session'.control_tx = <<>>
    <3>1. /\ uart' = uart /\ Unsent(pending)' = <<>>
          /\ session'.tx = <<>> /\ session'.control_tx = <<>>
      BY <1>3, EmptyFacts DEF Reboot, Boot, Unsent
    <3>2. uart \o <<>> = uart
      BY <2>1, EmptyWithin, ConcatFacts
    <3> QED
      BY <3>1, <3>2 DEF Line
  <2>7. Coming' = uart
    <3>1. <<>> \o <<>> = <<>> /\ uart \o <<>> = uart
      BY <2>1, EmptyWithin, ConcatFacts
    <3> QED
      BY <2>6, <3>1 DEF Coming
  <2> QED
    BY <1>3, <2>5, <2>7 DEF ReadyLast, Reboot
<1> QED
  BY <1>1, <1>2, <1>3

\* Up to the READY the bridge reads unit after unit.
LEMMA WaitReady ==
    ASSUME LinkInv, ReadyLast, WaitReceive, phase' = "wait"
    PROVE  ReadyLast'
<1>1. /\ uart # <<>> /\ uart' = Tail(uart) /\ UNCHANGED <<pending, session, reset_seq>>
      /\ saw_reset_ack' = (saw_reset_ack \/ MatchingResetAck(Decoded))
  BY DEF WaitReceive, Feed, fwVars
<1>2. MatchingResetAck(Decoded) => OwnAck(reset_seq, Head(uart))
  <2> SUFFICES ASSUME MatchingResetAck(Decoded) PROVE OwnAck(reset_seq, Head(uart))
    OBVIOUS
  <2>1. Decoded.type = "RESET_ACK" /\ Decoded.seq = reset_seq
    BY DEF MatchingResetAck
  <2>2. Decoded = Head(uart).frame /\ Delimiter(Head(uart))
    BY <1>1, <2>1, DecodedFacts DEF FrameTypes, LinkInv, WireTypes
  <2> QED
    BY <2>1, <2>2 DEF OwnAck
<1> QED
  BY <1>1, <1>2, ReadReady

LEMMA NextReady ==
    ASSUME LinkInv, SessionInv, SessionInv', Next, FirstRun, FirstRun', phase' = "wait",
           phase = "wait" => ReadyLast
    PROVE  ReadyLast'
<1>1. CASE StartReset
  <2>1. c2m' # <<>>
    BY <1>1 DEF StartReset, SendReset, LinkInv, WireTypes
  <2>2. Asked'
    BY <2>1 DEF SessionInv, FirstInv, Answered
  <2>3. Within(session, ControlUnit(Nat), DataUnit)'
    BY DEF SessionInv
  <2>4. Within(session', ControlUnit(Others'), DataUnit)
    BY <2>2, <2>3 DEF Asked, Within, ControlUnit, AckIn, DataUnit
  <2> QED
    BY <2>2, <2>4, AskedReady DEF Asked
<1>2. CASE phase = "wait" /\ ~StartReset
  <2>1. /\ Numbered /\ (Asked \/ Answered) /\ ReadyLast
        /\ Within(session, ControlUnit(Nat), DataUnit)
    BY <1>2 DEF SessionInv, FirstInv
  <2>2. \/ PumpLinkRx \/ PumpServer \/ PumpLinkTx \/ WaitReceive \/ LoseC2m \/ LoseUnit \/ Reboot
    BY <1>2 DEF Next, SendHello, BootReceive, Crash, Connect, TcpEof, Recalibrate, GiveUp,
       SendProbe, CalReceive, ProbeTimeout, CalDone, SendClientData, RunReceive
  <2> QED
    BY <2>1, <2>2, RxReady, ServerReady, TxReady, WaitReady, LossReady
<1>3. CASE phase # "wait" /\ ~StartReset
  BY <1>3 DEF Next, PumpLinkRx, PumpServer, PumpLinkTx, SendHello, BootReceive, Crash, Connect,
     TcpEof, Recalibrate, GiveUp, WaitReceive, SendProbe, CalReceive, ProbeTimeout, CalDone,
     SendClientData, RunReceive, RunData, RunReset, RunOther, LoseC2m, LoseUnit, Reboot, bridgeVars
<1> QED
  BY <1>1, <1>2, <1>3

\* The READY that ends the handshake leaves nothing behind it.
LEMMA ReadySynced ==
    ASSUME LinkInv, WaitReceive, phase' = "cal", ReadyLast
    PROVE  Synced'
<1>1. /\ uart # <<>> /\ Decoded.type = "READY" /\ saw_reset_ack /\ last' = last
      /\ \E k \in 1..Len(uart) : uart' = Drop(uart, k)
  BY DEF WaitReceive, Feed, fwVars
<1>2. /\ uart \in Seq(Unit) /\ Len(uart) \in Nat \ {0} /\ Head(uart) = uart[1]
  BY <1>1, LineFacts, TailFacts
<1>3. Delimiter(Head(uart)) /\ buffer' = <<>>
  BY <1>1, <1>2, DecodedFacts DEF FrameTypes, WaitReceive, Feed
<1> DEFINE y == Unsent(pending)
           d == session.tx
           c == session.control_tx
           x == d \o c
           l == uart \o y
           q == l \o x
<1>4. y \in Seq(Unit) /\ d \in Seq(Unit) /\ c \in Seq(Unit) /\ LastBehind(reset_seq, saw_reset_ack, q)
  BY ComingFacts, LineFacts DEF ReadyLast, Coming, Line
<1> HIDE DEF y, d, c
<1>5. x \in Seq(Unit) /\ Len(x) = Len(d) + Len(c) /\ Len(d) \in Nat /\ Len(c) \in Nat
  BY <1>4, ConcatFacts
<1>6. /\ l \in Seq(Unit) /\ Len(l) = Len(uart) + Len(y) /\ Len(y) \in Nat
      /\ \A i \in 1..Len(uart) : l[i] = uart[i]
  BY <1>2, <1>4, ConcatFacts
<1> HIDE DEF x, l
<1>7. Len(q) = Len(l) + Len(x) /\ \A i \in 1..Len(l) : q[i] = l[i]
  <2>1. l \in Seq(Unit) /\ x \in Seq(Unit)
    BY <1>5, <1>6
  <2>2. Len(l \o x) = Len(l) + Len(x)
    BY <2>1, ConcatFacts
  <2>3. \A i \in 1..Len(l) : (l \o x)[i] = l[i]
    BY <2>1, ConcatFacts
  <2> QED
    BY <2>2, <2>3
<1> HIDE DEF q
<1>8. 1 \in 1..Len(uart) /\ 1 \in 1..Len(l) /\ 1 \in 1..Len(q)
  BY <1>2, <1>5, <1>6, <1>7
<1>9. q[1] = Head(uart)
  BY <1>2, <1>6, <1>7, <1>8
<1>10. Len(q) = 1
  BY <1>1, <1>3, <1>4, <1>8, <1>9 DEF LastBehind
<1>11. Len(uart) = 1 /\ Len(y) = 0 /\ Len(d) = 0 /\ Len(c) = 0
  <2>1. Len(q) = (Len(uart) + Len(y)) + (Len(d) + Len(c))
    BY <1>5, <1>6, <1>7
  <2>2. \A g, h, i, j \in Nat : g # 0 /\ (g + h) + (i + j) = 1 => g = 1 /\ h = 0 /\ i = 0 /\ j = 0
    OBVIOUS
  <2>3. /\ Len(uart) \in Nat /\ Len(uart) # 0 /\ Len(y) \in Nat /\ Len(d) \in Nat /\ Len(c) \in Nat
        /\ (Len(uart) + Len(y)) + (Len(d) + Len(c)) = 1
    BY <1>2, <1>5, <1>6, <1>10, <2>1
  <2> QED
    BY <2>2, <2>3, Zenon
<1>12. y = <<>> /\ d = <<>> /\ c = <<>>
  BY <1>4, <1>11
<1>13. uart' = <<>>
  <2>1. PICK k \in 1..Len(uart) : uart' = Drop(uart, k)
    BY <1>1
  <2>2. k = 1 /\ k \in 0..Len(uart)
    BY <1>11, <2>1
  <2>3. uart' \in Seq(Unit) /\ Len(uart') = Len(uart) - k
    BY <1>2, <2>1, <2>2, DropFacts
  <2>4. Len(uart') = 0
    BY <1>11, <2>2, <2>3
  <2> QED
    BY <2>3, <2>4
<1>14. Delimiter(last) /\ last \in Unit
  <2>1. last \in Unit /\ SessionFramed(session, LastOf(last, Unsent(pending))) /\ session \in Session
    BY ComingFacts DEF LinkInv, WireInv, Steady, Sound
  <2>2. SessionFramed(session, last)
    BY <1>12, <2>1 DEF LastOf, y
  <2>3. ActiveQueue(session) = <<>>
    BY <1>12 DEF ActiveQueue, c, d
  <2>4. session.active = "NONE"
    <3>1. Len(<<>>) = 0 /\ 1..0 = {}
      BY EmptyFramed
    <3> QED
      BY <2>2, <2>3, <3>1 DEF SessionFramed
  <2> QED
    BY <2>1, <2>2, <2>4 DEF SessionFramed
<1>15. Stream' = <<>>
  <2>1. <<>> \o <<>> = <<>>
    BY EmptyWithin, ConcatFacts
  <2> QED
    BY <1>3, <1>13, <2>1 DEF Stream
<1>16. Synced'
  <2>1. Continues(Silence, <<>>) /\ LastOf(Silence, <<>>) = Silence
    BY DEF Continues, Chain, LastOf
  <2>2. Same(Silence, last')
    BY <1>1, <1>14, SilenceFacts DEF Same
  <2>3. buffer' \in Seq(Unit) /\ \A i \in 1..Len(buffer') : ~Delimiter(buffer'[i])
    BY <1>3, EmptyFramed
  <2> QED
    BY <1>15, <2>1, <2>2, <2>3 DEF Synced
<1> QED
  BY <1>16

-----------------------------------------------------------------------------
(* From the READY to the end of the link session.                          *)

\* Steps that leave the wire and the Decoder alone.
LEMMA SyncedKept ==
    ASSUME Synced, UNCHANGED <<buffer, uart, last>>
    PROVE  Synced'
  BY DEF Synced, Stream

\* During calibration no DATA_M2C comes.
LEMMA CalRead ==
    ASSUME LinkInv, Calibrating, Synced, CalReceive
    PROVE  phase' # "exit" /\ Synced'
<1>1. /\ uart # <<>> /\ Feed /\ uart' = Tail(uart) /\ last' = last
      /\ uart \in Seq(Unit) /\ Unsent(pending) \in Seq(Unit) /\ phase = "cal"
  BY LineFacts DEF CalReceive, Feed, fwVars
<1>2. Head(uart) \in ControlUnit(Nat)
  <2>1. uart \in Seq(ControlUnit(Nat))
    BY LineFacts DEF Calibrating
  <2> QED
    BY <1>1, <2>1, TailFacts
<1>3. Decoded.type # "DATA_M2C"
  <2> SUFFICES ASSUME Decoded.type = "DATA_M2C" PROVE FALSE
    OBVIOUS
  <2>1. Decoded = Head(uart).frame
    BY <1>1, DecodedFacts DEF FrameTypes
  <2> QED
    BY <1>2, <2>1 DEF ControlUnit
<1>4. phase' # "exit"
  BY <1>1, <1>3 DEF CalReceive
<1>5. Synced'
  BY <1>1, ReadSynced
<1> QED
  BY <1>4, <1>5

\* After it both ends count from 0.
LEMMA CalDoneInStep ==
    ASSUME LinkInv, Calibrating, CalDone
    PROVE  InStep'
<1>1. /\ m2c_seq_expected' = 0 /\ Line' = Line /\ session' = session
      /\ Line \in Seq(ControlUnit(Nat)) /\ session.tx = <<>> /\ session.tx_seq_next = 0
  BY DEF CalDone, Calibrating, fwVars, Line, Unsent
<1>2. CASE Warned(Line)
  <2>1. Counts(0, Line, Over) /\ Over \in Number
    BY <1>1, <1>2, CountsControl, NumberFacts
  <2>2. Onward(session, Over)
    BY DEF Onward
  <2> QED
    BY <1>1, <2>1, <2>2 DEF InStep
<1>3. CASE ~Warned(Line)
  <2>1. Counts(0, Line, 0) /\ 0 \in Number
    BY <1>1, <1>3, CountsControl, NumberFacts
  <2>2. Counts(0, <<>>, 0)
    <3>1. <<>> \in Seq(Unit) /\ \A i \in 1..Len(<<>>) : <<0, <<>>[i], 0>> \in Counted
      BY EmptyFramed
    <3> QED
      BY <2>1, <3>1, PathStay DEF Counts
  <2>3. Onward(session, 0)
    BY <1>1, <2>2 DEF Onward
  <2> QED
    BY <1>1, <2>1, <2>3 DEF InStep
<1> QED
  BY <1>2, <1>3

\* A running bridge gets whole frames, and the numbers it expects.
LEMMA RunRead ==
    ASSUME LinkInv, Synced, InStep, RunReceive
    PROVE  phase' # "exit" /\ (phase' = "run" => Synced' /\ InStep')
<1>1. /\ uart # <<>> /\ uart \in Seq(Unit) /\ UNCHANGED <<pending, session, last>> /\ phase = "run"
      /\ m2c_seq_expected \in 0..(SeqMod - 1)
  BY LineFacts DEF RunReceive, fwVars, LinkInv, BridgeTypes
<1>2. CASE RunReset
  BY <1>2 DEF RunReset, StartReset
<1>3. CASE RunData \/ RunOther
  <2> DEFINE e == m2c_seq_expected
             u == Head(uart)
  <2>1. Feed /\ uart' = Tail(uart)
    BY <1>3 DEF RunData, RunOther
  <2>2. Synced' /\ (Delimiter(u) => Decoded = u.frame)
    BY <1>1, <2>1, ReadSynced
  <2>3. u \in Unit /\ (Decoded.type \in FrameTypes => Delimiter(u) /\ Decoded = u.frame)
        /\ (Delimiter(u) => Decoded.type \in FrameTypes)
    <3>1. u \in Unit /\ (Decoded.type \in FrameTypes => Delimiter(u) /\ Decoded = u.frame)
      BY <1>1, DecodedFacts
    <3> QED
      BY <2>2, <3>1 DEF Unit, Frame
  <2>4. PICK m \in Number : Counts(e, Line, m) /\ Onward(session, m)
    BY DEF InStep
  <2>5. PICK c \in Number : <<e, u, c>> \in Counted /\ Counts(c, Line', m)
    BY <1>1, <2>1, <2>4, LineFirst DEF Counts
  <2>6. Count(e, u, c) /\ e # Over
    BY <1>1, <2>5, NumberFacts DEF Counted
  <2>7. m2c_seq_expected' = c => InStep'
    <3>1. Onward(session, m)'
      BY <1>1, <2>4 DEF Onward, Active, Warned, Counts
    <3> QED
      BY <2>5, <3>1 DEF InStep
  <2>8. CASE RunData
    <3>1. Decoded.type = "DATA_M2C"
      BY <2>8 DEF RunData
    <3>2. Carries(u) /\ ~Ends(u) /\ Decoded = u.frame
      BY <2>3, <3>1 DEF FrameTypes, Carries, Ends
    <3>3. Decoded.seq = e /\ c = NextSeq(e)
      BY <2>6, <3>2 DEF Count
    <3>4. phase' = phase /\ m2c_seq_expected' = c
      BY <2>8, <3>3 DEF RunData, accept_m2c_sequence, NextSeq
    <3> QED
      BY <1>1, <2>2, <2>7, <3>4
  <2>9. CASE RunOther
    <3>1. Decoded.type \notin {"DATA_M2C", "READY", "ERROR"} /\ m2c_seq_expected' = e
      BY <2>9 DEF RunOther
    <3>2. ~Carries(u) /\ ~Ends(u)
      BY <2>3, <3>1 DEF Carries, Ends
    <3>3. c = e
      BY <2>6, <3>2 DEF Count
    <3>4. Decoded.type # "error"
      <4>1. CASE Delimiter(u)
        BY <2>3, <4>1 DEF FrameTypes
      <4>2. CASE ~Delimiter(u)
        BY <4>2 DEF Decoded
      <4> QED
        BY <4>1, <4>2
    <3>5. phase' = phase
      BY <2>9, <3>4 DEF RunOther
    <3> QED
      BY <1>1, <2>2, <2>7, <3>1, <3>3, <3>5
  <2> QED
    BY <1>3, <2>8, <2>9
<1> QED
  BY <1>2, <1>3 DEF RunReceive

LEMMA RxRequests ==
    ASSUME LinkInv, Running, c2m # <<>>
    PROVE  Head(c2m).type \in {"DATA_C2M", "RATE_PROBE"}
<1>1. Head(c2m) \in RequestOf(link)
  BY TailFacts DEF Running
<1> QED
  BY <1>1 DEF RequestOf

LEMMA CalStays ==
    ASSUME LinkInv, Next, phase = "cal", phase' = "cal", Calibrating, Undisturbed',
           Synced
    PROVE  Synced'
<1>1. CASE PumpLinkRx \/ PumpServer \/ SendProbe \/ ProbeTimeout \/ LoseC2m
  <2>1. UNCHANGED <<buffer, uart, last>>
    BY <1>1 DEF PumpLinkRx, PumpServer, SendProbe, ProbeTimeout, LoseC2m, fwVars, bridgeVars
  <2> QED
    BY <2>1, SyncedKept
<1>2. CASE PumpLinkTx
  <2>1. UNCHANGED buffer
    BY <1>2 DEF PumpLinkTx, bridgeVars
  <2> QED
    BY <1>2, <2>1, TxSynced
<1>3. CASE CalReceive
  BY <1>3, CalRead
<1>4. CASE LoseUnit \/ Reboot
  BY <1>4 DEF LoseUnit, Reboot, Undisturbed
<1> QED
  BY <1>1, <1>2, <1>3, <1>4 DEF Next, SendHello, BootReceive, Crash, Connect, TcpEof,
     Recalibrate, StartReset, GiveUp, WaitReceive, CalDone, SendClientData, RunReceive

LEMMA RunStays ==
    ASSUME LinkInv, SessionInv, Next, phase = "run", phase' = "run", Running, Undisturbed',
           Synced, InStep
    PROVE  Synced' /\ InStep'
<1>1. "drop" \notin excuse'
  BY DEF Undisturbed
<1>2. CASE PumpLinkRx \/ PumpServer
  <2>1. UNCHANGED <<buffer, uart, last, m2c_seq_expected>>
    BY <1>2 DEF PumpLinkRx, PumpServer, bridgeVars
  <2>2. (Holds(session, session') \/ Warns(session, session')) /\ pending' = pending
    BY <1>1, <1>2, RxRequests, RxHolds, ServerHolds
  <2>3. Line' = Line
    BY <2>1, <2>2 DEF Line, Unsent
  <2> QED
    BY <2>1, <2>2, <2>3, SyncedKept, PumpInStep
<1>3. CASE PumpLinkTx
  BY <1>3, TxSynced, TxInStep
<1>4. CASE SendClientData \/ LoseC2m
  <2>1. UNCHANGED <<buffer, uart, last, m2c_seq_expected, session, pending>>
    BY <1>4 DEF SendClientData, LoseC2m, fwVars, bridgeVars
  <2>2. InStep'
    BY <2>1 DEF InStep, Line, Unsent, Onward, Active, Warned, Counts
  <2> QED
    BY <2>1, <2>2, SyncedKept
<1>5. CASE RunReceive
  BY <1>5, RunRead
<1>6. CASE LoseUnit \/ Reboot
  BY <1>6 DEF LoseUnit, Reboot, Undisturbed
<1> QED
  BY <1>2, <1>3, <1>4, <1>5, <1>6 DEF Next, SendHello, BootReceive, Crash, Connect, TcpEof,
     Recalibrate, StartReset, GiveUp, WaitReceive, SendProbe, CalReceive, ProbeTimeout, CalDone

\* The bridge gives up where it reads.
LEMMA WhereItExits ==
    ASSUME Next, phase' = "exit"
    PROVE  /\ (phase = "exit" /\ Aside) \/ (phase = "cal" /\ CalReceive) \/ (phase = "run" /\ RunReceive)
           /\ excuse \subseteq excuse'
<1>1. CASE CalReceive
  BY <1>1 DEF CalReceive
<1>2. CASE RunReceive
  BY <1>2 DEF RunReceive
<1>3. CASE ~CalReceive /\ ~RunReceive
  <2>1. Aside
    BY <1>3 DEF Aside, Next, Crash, Connect, Recalibrate, WaitReceive, StartReset
  <2>2. phase = "exit"
    BY <1>3, <2>1 DEF Aside, Next, PumpLinkRx, PumpServer, PumpLinkTx, SendHello, BootReceive, TcpEof,
       GiveUp, SendProbe, ProbeTimeout, CalDone, SendClientData, LoseC2m, LoseUnit, Reboot, bridgeVars
  <2> QED
    BY <2>1, <2>2, AsideKeeps
<1> QED
  BY <1>1, <1>2, <1>3

-----------------------------------------------------------------------------
(* The theorems.                                                           *)

LEMMA InitExit == Init => ExitInv
  BY DEF Init, ExitInv

LEMMA NextExit == LinkInv /\ SessionInv /\ ExitInv /\ [Next]_vars => ExitInv'
<1> SUFFICES ASSUME LinkInv, SessionInv, ExitInv, [Next]_vars, FirstRun'
             PROVE  /\ phase' = "wait" => ReadyLast'
                    /\ phase' \in {"cal", "run"} /\ Undisturbed' => Synced'
                    /\ phase' = "run" /\ Undisturbed' => InStep'
                    /\ phase' = "exit" => ~Undisturbed'
  BY DEF ExitInv
<1>1. CASE Crash
  BY <1>1 DEF Crash
<1>2. CASE Next /\ ~Crash
  <2>1. FirstRun /\ SessionInv'
    BY <1>2, NextNumber, NextSessionInv
  <2>2. /\ phase = "wait" => ReadyLast
        /\ phase \in {"cal", "run"} /\ Undisturbed => Synced
        /\ phase = "run" /\ Undisturbed => InStep
        /\ phase = "exit" => ~Undisturbed
        /\ phase = "cal" => Calibrating
        /\ phase = "run" => Running
    BY <2>1 DEF ExitInv, SessionInv, FirstInv
  <2>3. excuse \subseteq excuse' => (Undisturbed' => Undisturbed)
    BY DEF Undisturbed
  <2>4. CASE phase' \notin {"cal", "run", "exit"}
    BY <1>2, <2>1, <2>2, <2>4, NextReady
  <2>5. CASE phase' = "cal"
    <3>1. CASE WaitReceive
      <4>1. phase = "wait"
        BY <3>1 DEF WaitReceive
      <4> QED
        BY <2>2, <2>5, <3>1, <4>1, ReadySynced
    <3>2. CASE ~WaitReceive
      <4>1. Aside
        BY <1>2, <2>5, <3>2 DEF Aside, Connect, Recalibrate, StartReset, RunReceive, RunData, RunReset, RunOther
      <4>2. phase = "cal" /\ excuse \subseteq excuse'
        BY <2>5, <4>1, AsideKeeps
      <4> QED
        BY <1>2, <2>2, <2>3, <2>5, <4>2, CalStays
    <3> QED
      BY <3>1, <3>2
  <2>6. CASE phase' = "run"
    <3>1. CASE CalDone
      <4>1. phase = "cal" /\ UNCHANGED <<uart, last>> /\ buffer' = <<>>
        BY <3>1 DEF CalDone, fwVars
      <4>2. Undisturbed' => Undisturbed /\ buffer = <<>>
        BY <3>1 DEF CalDone, Undisturbed
      <4> QED
        BY <2>2, <2>6, <3>1, <4>1, <4>2, SyncedKept, CalDoneInStep
    <3>2. CASE ~CalDone
      <4>1. phase = "run" /\ excuse \subseteq excuse'
        <5>1. CASE RunReceive
          BY <5>1 DEF RunReceive
        <5>2. CASE ~RunReceive
          <6>1. Aside
            BY <1>2, <2>6, <5>2 DEF Aside, Connect, Recalibrate, StartReset, WaitReceive
          <6> QED
            BY <2>6, <3>2, <6>1, AsideKeeps
        <5> QED
          BY <5>1, <5>2
      <4> QED
        BY <1>2, <2>2, <2>3, <2>6, <4>1, RunStays
    <3> QED
      BY <3>1, <3>2
  <2>7. CASE phase' = "exit"
    <3>1. /\ (phase = "exit" /\ Aside) \/ (phase = "cal" /\ CalReceive) \/ (phase = "run" /\ RunReceive)
          /\ excuse \subseteq excuse'
      BY <1>2, <2>7, WhereItExits
    <3>2. ~Undisturbed'
      BY <2>2, <2>3, <2>7, <3>1, CalRead, RunRead
    <3> QED
      BY <2>7, <3>2
  <2> QED
    BY <2>4, <2>5, <2>6, <2>7
<1>3. CASE UNCHANGED vars
  <2>1. /\ UNCHANGED <<session, pending, uart, buffer, last, m2c_seq_expected, excuse>>
        /\ UNCHANGED <<phase, next_reset_seq, resets, reset_seq, saw_reset_ack>>
    BY <1>3 DEF vars, fwVars, bridgeVars
  <2>2. FirstRun /\ (Undisturbed' <=> Undisturbed) /\ Line' = Line
    BY <2>1 DEF FirstRun, Undisturbed, Line, Unsent
  <2>3. (ReadyLast => ReadyLast') /\ (Synced => Synced')
    BY <2>1, <2>2, ReadyKept, SyncedKept
  <2>4. InStep => InStep'
    BY <2>1, <2>2 DEF InStep, Onward, Active, Warned, Counts
  <2> QED
    BY <2>1, <2>2, <2>3, <2>4 DEF ExitInv
<1> QED
  BY <1>1, <1>2, <1>3

\* The invariant of the undisturbed link session holds in every state: the
\* READY that ends the reset handshake is the last frame under way, so that
\* calibration begins with an empty wire and an empty Decoder; from then on
\* the Decoder holds exactly the beginning of the frame on the wire, and the
\* numbers on the line are the ones accept_m2c_sequence expects until a READY
\* or an ERROR tells the bridge that the firmware has started to count again.
THEOREM ExitInvariance == Spec => []ExitInv
<1>1. Init => ExitInv
  BY InitExit
<1>2. LinkInv /\ SessionInv /\ ExitInv /\ [Next]_vars => ExitInv'
  BY NextExit
<1> QED
  BY <1>1, <1>2, LinkInvariance, SessionInvariance, PTL DEF Spec

\* The bridge does not give up without a reason: a decode error, a sequence
\* mismatch or a DATA_M2C during calibration is met only after noise on the
\* wire, a drop of sequenced frames, a reboot of the firmware, or a calibration
\* that ended in the middle of an echo, whatever is reset, rejected or lost on
\* the way to the firmware, as long as the bridge has not been started again
\* after its first RESET.  A RATE_PROBE_ACK that comes late but whole is no
\* reason to give up.
THEOREM NoSpuriousExitHolds == Spec => [](FirstRun => NoSpuriousExit)
<1>1. ExitInv => (FirstRun => NoSpuriousExit)
  BY DEF ExitInv, Undisturbed, NoSpuriousExit
<1> QED
  BY <1>1, ExitInvariance, PTL
=============================================================================
