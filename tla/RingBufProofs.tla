--------------------------- MODULE RingBufProofs ---------------------------
(***************************************************************************)
(* The ring buffer keeps its indices consistent and implements a bounded   *)
(* first-in first-out queue, for every capacity.                           *)
(***************************************************************************)
EXTENDS RingBuf, SequenceTheorems, TLAPS

USE CapAssumption DEF CapAssumption

\* A sum of an index and at most Cap wraps to an index, and wrapping a
\* second offset gives the sum of the offsets.
LEMMA WrapIndex ==
    ASSUME NEW i \in Index, NEW n \in 0..Cap
    PROVE  Wrap(i + n) \in Index
BY DEF Wrap, Index

LEMMA WrapSum ==
    ASSUME NEW i \in Index, NEW m \in Nat, NEW n \in Nat, m + n <= Cap
    PROVE  Wrap(Wrap(i + m) + n) = Wrap(i + (m + n))
BY DEF Wrap, Index

LEMMA WrapZero == ASSUME NEW i \in Index PROVE Wrap(i + 0) = i
BY DEF Wrap, Index

\* What a caller may write.
LEMMA SourceLen ==
    ASSUME NEW src \in Sources
    PROVE  Len(src) \in Nat /\ src \in Seq(Bytes)
           /\ \A i \in 1..Len(src) : src[i] \in Bytes
<1>1. PICK n \in 0..MaxWrite : src \in [1..n -> Bytes]
  BY DEF Sources
<1>2. n \in Nat
  OBVIOUS
<1>3. src \in Seq(Bytes) /\ Len(src) = n
  BY <1>1, <1>2
<1> QED
  BY <1>1, <1>2, <1>3

-----------------------------------------------------------------------------
(* The invariant.                                                          *)

LEMMA InitInv == Init => RingInv
<1> SUFFICES ASSUME Init PROVE RingInv
  OBVIOUS
<1>1. 0 \in Index /\ 0 \in 0..Cap
  BY DEF Index
<1>2. Wrap(0 + 0) = 0
  BY <1>1, WrapZero
<1> QED
  BY <1>1, <1>2 DEF Init, RingInv, TypeOK, HeadPastTail, NoCheckpoint

LEMMA WriteInv ==
    ASSUME RingInv, NEW src \in Sources, Write(src)
    PROVE  RingInv'
<1> DEFINE n == Lesser(Len(src), Cap - len)
<1>1. n \in Nat /\ n <= Len(src) /\ n <= Cap - len
  <2>1. Len(src) \in Nat
    BY SourceLen
  <2>2. len \in 0..Cap
    BY DEF RingInv, TypeOK
  <2> QED
    BY <2>1, <2>2 DEF Lesser
<1>2. /\ head' = Wrap(head + n) /\ len' = len + n
      /\ tail' = tail /\ out' = out /\ checkpoint' = checkpoint
      /\ data' = [j \in Index |-> IF PastHead(j) < n THEN src[PastHead(j) + 1] ELSE data[j]]
  BY DEF Write
<1> HIDE DEF n
<1>3. data' \in [Index -> Bytes]
  <2> SUFFICES ASSUME NEW j \in Index
               PROVE  (IF PastHead(j) < n THEN src[PastHead(j) + 1] ELSE data[j]) \in Bytes
    BY <1>2
  <2>1. PastHead(j) \in Nat
    BY DEF PastHead, Index, RingInv, TypeOK
  <2> QED
    BY <2>1, <1>1, SourceLen DEF RingInv, TypeOK
<1>4. head' \in Index /\ len' \in 0..Cap
  <2>1. n \in 0..Cap
    BY <1>1 DEF RingInv, TypeOK
  <2> QED
    BY <2>1, <1>1, <1>2, WrapIndex DEF RingInv, TypeOK
<1>5. head' = Wrap(tail' + len')
  <2>1. len \in Nat /\ len + n <= Cap /\ tail \in Index /\ head = Wrap(tail + len)
    BY <1>1 DEF RingInv, TypeOK, HeadPastTail
  <2> QED
    BY <2>1, <1>1, <1>2, WrapSum
<1>6. checkpoint # NoCheckpoint => checkpoint.len \in Nat /\ checkpoint.len <= len'
  <2> HAVE checkpoint # NoCheckpoint
  <2>1. checkpoint.len \in 0..Cap /\ checkpoint.len <= len /\ len \in 0..Cap
    BY DEF RingInv, TypeOK, HeadPastTail, Saved
  <2> QED
    BY <2>1, <1>1, <1>2
<1> QED
  BY <1>2, <1>3, <1>4, <1>5, <1>6 DEF RingInv, TypeOK, HeadPastTail

LEMMA AdvanceInv ==
    ASSUME RingInv, checkpoint = NoCheckpoint, NEW n \in Nat, n <= len, Advance(n),
           out' \in Seq(Bytes)
    PROVE  RingInv'
<1>1. tail' = Wrap(tail + n) /\ len' = len - n /\ data' = data /\ head' = head
      /\ checkpoint' = checkpoint
  BY DEF Advance
<1>2. tail \in Index /\ n \in 0..Cap /\ len \in 0..Cap /\ head = Wrap(tail + len)
  BY DEF RingInv, TypeOK, HeadPastTail
<1>3. tail' \in Index /\ len' \in 0..Cap
  BY <1>1, <1>2, WrapIndex
<1>4. head' = Wrap(tail' + len')
  <2>1. len - n \in Nat /\ n + (len - n) = len /\ n + (len - n) <= Cap
    BY <1>2
  <2>2. Wrap(Wrap(tail + n) + (len - n)) = Wrap(tail + (n + (len - n)))
    BY <2>1, <1>2, WrapSum
  <2> QED
    BY <1>1, <1>2, <2>1, <2>2
<1> QED
  BY <1>1, <1>3, <1>4 DEF RingInv, TypeOK, HeadPastTail

\* What a peek inside the ring returns is a byte.
LEMMA PeekByte ==
    ASSUME RingInv, NEW k \in Nat, k < len
    PROVE  Peek(k) \in Bytes /\ Wrap(tail + k) \in Index
<1>1. tail \in Index /\ k \in 0..Cap
  BY DEF RingInv, TypeOK
<1> QED
  BY <1>1, WrapIndex DEF Peek, RingInv, TypeOK

LEMMA NextInv == RingInv /\ [Next]_vars => RingInv'
<1> SUFFICES ASSUME RingInv, [Next]_vars PROVE RingInv'
  OBVIOUS
<1>1. CASE \E src \in Sources : Write(src)
  BY <1>1, WriteInv
<1>2. ASSUME NEW m \in 0..(Cap + 1), Read(m) PROVE RingInv'
  <2> DEFINE n == Lesser(m, len)
  <2>1. n \in Nat /\ n <= len
    BY DEF RingInv, TypeOK, Lesser
  <2>2. checkpoint = NoCheckpoint /\ Advance(n) /\ out' = [i \in 1..n |-> Peek(i - 1)]
    BY <1>2 DEF Read
  <2> HIDE DEF n
  <2>3. ASSUME NEW i \in 1..n PROVE Peek(i - 1) \in Bytes
    <3>1. i - 1 \in Nat /\ i - 1 < len
      BY <2>1 DEF RingInv, TypeOK
    <3> QED
      BY <3>1, PeekByte
  <2>4. out' \in Seq(Bytes)
    BY <2>1, <2>2, <2>3
  <2> QED
    BY <2>1, <2>2, <2>4, AdvanceInv
<1>3. ASSUME NEW m \in 0..(Cap + 1), Drop(m) PROVE RingInv'
  <2> DEFINE n == Lesser(m, len)
  <2>1. n \in Nat /\ n <= len
    BY DEF RingInv, TypeOK, Lesser
  <2>2. checkpoint = NoCheckpoint /\ Advance(n) /\ out' = out
    BY <1>3 DEF Drop
  <2> QED
    BY <2>1, <2>2, AdvanceInv DEF RingInv, TypeOK
<1>4. CASE Save
  BY <1>4 DEF Save, RingInv, TypeOK, HeadPastTail, Saved, NoCheckpoint
<1>5. CASE BatchDone
  BY <1>5 DEF BatchDone, RingInv, TypeOK, HeadPastTail, NoCheckpoint
<1>6. CASE Restore
  BY <1>6 DEF Restore, RingInv, TypeOK, HeadPastTail, Saved, NoCheckpoint
<1>7. CASE UNCHANGED vars
  BY <1>7 DEF vars, RingInv, TypeOK, HeadPastTail, Wrap
<1> QED
  BY <1>1, <1>2, <1>3, <1>4, <1>5, <1>6, <1>7 DEF Next

\* Whatever is written, read, dropped and taken back, head, tail and len of
\* mc_ringbuf_t agree and stay inside the storage.
THEOREM RingInvariance == Spec => []RingInv
BY InitInv, NextInv, PTL DEF Spec

THEOREM RingTypeCorrect == Spec => []TypeOK
<1>1. RingInv => TypeOK
  BY DEF RingInv
<1> QED
  BY <1>1, RingInvariance, PTL

-----------------------------------------------------------------------------
(* The refinement.                                                         *)

LEMMA ContentsOf ==
    ASSUME NEW d \in [Index -> Bytes], NEW t \in Index, NEW l \in 0..Cap
    PROVE  /\ [i \in 1..l |-> d[Wrap(t + (i - 1))]] \in Seq(Bytes)
           /\ Len([i \in 1..l |-> d[Wrap(t + (i - 1))]]) = l
<1>1. ASSUME NEW i \in 1..l PROVE d[Wrap(t + (i - 1))] \in Bytes
  <2>1. i - 1 \in 0..Cap
    OBVIOUS
  <2> QED
    BY <2>1, WrapIndex
<1>2. l \in Nat
  OBVIOUS
<1> QED
  BY <1>1, <1>2

\* Concatenation.
LEMMA Concat ==
    ASSUME NEW S, NEW s \in Seq(S), NEW t \in Seq(S)
    PROVE  /\ s \o t \in Seq(S)
           /\ Len(s \o t) = Len(s) + Len(t)
           /\ \A i \in 1..Len(s) : (s \o t)[i] = s[i]
           /\ \A i \in 1..Len(t) : (s \o t)[Len(s) + i] = t[i]
OBVIOUS

LEMMA ContentsSeq ==
    ASSUME RingInv
    PROVE  Contents \in Seq(Bytes) /\ Len(Contents) = len
BY ContentsOf DEF RingInv, TypeOK, Contents, Peek

\* The bytes a write puts behind the contents do not touch them.
LEMMA WritePut ==
    ASSUME RingInv, RingInv', NEW src \in Sources, Write(src)
    PROVE  Fifo!Put
<1> DEFINE n == Lesser(Len(src), Cap - len)
           s == [i \in 1..n |-> src[i]]
<1>1. n \in Nat /\ n <= Len(src) /\ n <= Cap - len /\ len \in 0..Cap
  <2>1. Len(src) \in Nat
    BY SourceLen
  <2>2. len \in 0..Cap
    BY DEF RingInv, TypeOK
  <2> QED
    BY <2>1, <2>2 DEF Lesser
<1>2. /\ len' = len + n /\ tail' = tail /\ out' = out /\ checkpoint' = checkpoint
      /\ data' = [j \in Index |-> IF PastHead(j) < n THEN src[PastHead(j) + 1] ELSE data[j]]
  BY DEF Write
<1> HIDE DEF n
<1>3. s \in [1..n -> Bytes] /\ s \in Seq(Bytes) /\ Len(s) = n
  BY <1>1, SourceLen
<1>4. ASSUME NEW i \in 1..(len + n)
      PROVE  Contents'[i] = (Contents \o s)[i]
  <2>1. Contents'[i] = data'[Wrap(tail + (i - 1))]
    BY <1>1, <1>2 DEF Contents, Peek
  <2>2. Wrap(tail + (i - 1)) \in Index
    BY <1>1, WrapIndex DEF RingInv, TypeOK
  <2>3. Contents \in Seq(Bytes) /\ Len(Contents) = len
    BY ContentsSeq
  <2>4. head = Wrap(tail + len) /\ tail \in Index
    BY DEF RingInv, TypeOK, HeadPastTail
  <2>5. CASE i <= len
    <3>1. ~(PastHead(Wrap(tail + (i - 1))) < n)
      BY <1>1, <2>4, <2>5 DEF PastHead, Wrap, Index
    <3>2. (Contents \o s)[i] = Contents[i]
      BY <1>1, <1>3, <2>3, <2>5
    <3>3. Contents[i] = data[Wrap(tail + (i - 1))]
      BY <2>5, <1>1 DEF Contents, Peek
    <3> QED
      BY <1>2, <2>1, <2>2, <3>1, <3>2, <3>3
  <2>6. CASE i > len
    <3>1. PastHead(Wrap(tail + (i - 1))) = i - 1 - len
      BY <1>1, <2>4, <2>6 DEF PastHead, Wrap, Index
    <3>2. (Contents \o s)[i] = s[i - len]
      BY <1>1, <1>3, <2>3, <2>6
    <3>3. s[i - len] = src[i - len]
      BY <1>1, <2>6
    <3>4. i - 1 - len < n /\ i - 1 - len + 1 = i - len
      BY <1>1
    <3> QED
      BY <1>2, <2>1, <2>2, <3>1, <3>2, <3>3, <3>4
  <2>7. i <= len \/ i > len
    BY <1>1
  <2> QED
    BY <2>5, <2>6, <2>7
<1>5. Contents' = Contents \o s
  <2>1. Contents' \in Seq(Bytes) /\ Len(Contents') = len + n
    <3>1. data' \in [Index -> Bytes] /\ tail' \in Index /\ len' \in 0..Cap
      BY DEF RingInv, TypeOK
    <3>2. Contents' = [i \in 1..len' |-> (data')[Wrap(tail' + (i - 1))]]
      BY DEF Contents, Peek
    <3>3. Contents' \in Seq(Bytes) /\ Len(Contents') = len'
      BY <3>1, <3>2, ContentsOf
    <3> QED
      BY <1>2, <3>3
  <2>2. Contents \in Seq(Bytes) /\ Len(Contents) = len
    BY ContentsSeq
  <2> HIDE DEF s
  <2>3. Contents \o s \in Seq(Bytes) /\ Len(Contents \o s) = len + n
    BY <1>3, <2>2, Concat
  <2>4. Len(Contents') = Len(Contents \o s)
    BY <2>1, <2>3
  <2>5. \A i \in 1..Len(Contents') : Contents'[i] = (Contents \o s)[i]
    BY <1>4, <2>1
  <2> QED
    BY <2>1, <2>3, <2>4, <2>5, SeqEqual
<1>6. n \in 0..(Cap - Len(Contents))
  BY <1>1, ContentsSeq
<1> QED
  BY <1>2, <1>3, <1>5, <1>6 DEF Fifo!Put

\* Advancing the tail by n leaves the contents after the first n.
LEMMA AdvanceRest ==
    ASSUME RingInv, NEW n \in 0..len, Advance(n)
    PROVE  Contents' = Fifo!Rest(Contents, n)
<1>1. tail' = Wrap(tail + n) /\ len' = len - n /\ data' = data
  BY DEF Advance
<1>2. len \in 0..Cap /\ tail \in Index
  BY DEF RingInv, TypeOK
<1>3. Contents' = [i \in 1..(len - n) |-> data[Wrap(Wrap(tail + n) + (i - 1))]]
  BY <1>1 DEF Contents, Peek
<1>4. Len(Contents) = len
  BY ContentsSeq
<1>5. Fifo!Rest(Contents, n) = [i \in 1..(len - n) |-> Contents[i + n]]
  BY <1>4 DEF Fifo!Rest
<1>6. ASSUME NEW i \in 1..(len - n)
      PROVE  data[Wrap(Wrap(tail + n) + (i - 1))] = Contents[i + n]
  <2>1. n \in Nat /\ i - 1 \in Nat /\ n + (i - 1) <= Cap /\ i + n \in 1..len
        /\ n + (i - 1) = (i + n) - 1
    BY <1>2
  <2>2. Wrap(Wrap(tail + n) + (i - 1)) = Wrap(tail + (n + (i - 1)))
    BY <1>2, <2>1, WrapSum
  <2>3. Contents[i + n] = data[Wrap(tail + ((i + n) - 1))]
    BY <2>1 DEF Contents, Peek
  <2> QED
    BY <2>1, <2>2, <2>3
<1> QED
  BY <1>3, <1>5, <1>6

LEMMA FifoStep ==
    ASSUME RingInv, RingInv', [Next]_vars
    PROVE  [Fifo!FifoNext]_(Fifo!fifoVars)
<1>0. len \in 0..Cap /\ Len(Contents) = len
  BY ContentsSeq DEF RingInv, TypeOK
<1>1. CASE \E src \in Sources : Write(src)
  BY <1>1, WritePut DEF Fifo!FifoNext
<1>2. ASSUME NEW m \in 0..(Cap + 1), Read(m) PROVE Fifo!Get
  <2> DEFINE n == Lesser(m, len)
  <2>1. n \in 0..len
    BY <1>0 DEF Lesser
  <2>2. checkpoint = NoCheckpoint /\ Advance(n) /\ out' = [i \in 1..n |-> Peek(i - 1)]
    BY <1>2 DEF Read
  <2>3. checkpoint' = checkpoint
    BY <2>2 DEF Advance
  <2> HIDE DEF n
  <2>4. Contents' = Fifo!Rest(Contents, n)
    BY <2>1, <2>2, AdvanceRest
  <2>5. out' = Fifo!First(Contents, n)
    BY <1>0, <2>1, <2>2 DEF Fifo!First, Contents
  <2> QED
    BY <1>0, <2>1, <2>2, <2>3, <2>4, <2>5 DEF Fifo!Get, Fifo!None
<1>3. ASSUME NEW m \in 0..(Cap + 1), Drop(m) PROVE Fifo!Discard
  <2> DEFINE n == Lesser(m, len)
  <2>1. n \in 0..len
    BY <1>0 DEF Lesser
  <2>2. checkpoint = NoCheckpoint /\ Advance(n) /\ out' = out
    BY <1>3 DEF Drop
  <2>3. checkpoint' = checkpoint
    BY <2>2 DEF Advance
  <2> HIDE DEF n
  <2>4. Contents' = Fifo!Rest(Contents, n)
    BY <2>1, <2>2, AdvanceRest
  <2> QED
    BY <1>0, <2>1, <2>2, <2>3, <2>4 DEF Fifo!Discard, Fifo!None
<1>4. CASE Save
  <2>1. UNCHANGED <<Contents, out>>
    BY <1>4 DEF Save, Contents, Peek
  <2>2. checkpoint = NoCheckpoint /\ checkpoint' # NoCheckpoint /\ checkpoint'.len = len
    BY <1>4, <1>0 DEF Save, NoCheckpoint
  <2> QED
    BY <1>0, <2>1, <2>2 DEF Fifo!Begin, Fifo!None, Fifo!FifoNext
<1>5. CASE BatchDone
  <2>1. UNCHANGED <<Contents, out>>
    BY <1>5 DEF BatchDone, Contents, Peek
  <2>2. checkpoint # NoCheckpoint /\ checkpoint' = NoCheckpoint /\ checkpoint.len # -1
    BY <1>5 DEF BatchDone, RingInv, TypeOK, Saved
  <2> QED
    BY <2>1, <2>2 DEF Fifo!Commit, Fifo!None, Fifo!FifoNext
<1>6. CASE Restore
  <2>1. /\ checkpoint # NoCheckpoint /\ checkpoint' = NoCheckpoint
        /\ checkpoint.len \in 0..len /\ checkpoint.tail = tail
    BY <1>6 DEF Restore, RingInv, TypeOK, HeadPastTail, Saved
  <2>2. data' = data /\ tail' = tail /\ len' = checkpoint.len /\ out' = out
    BY <1>6, <2>1 DEF Restore
  <2>3. Contents' = Fifo!First(Contents, checkpoint.len)
    BY <1>0, <2>1, <2>2 DEF Contents, Peek, Fifo!First
  <2> QED
    BY <2>1, <2>2, <2>3 DEF Fifo!Rollback, Fifo!None, Fifo!FifoNext
<1>7. CASE UNCHANGED vars
  BY <1>7 DEF vars, Contents, Peek, Fifo!fifoVars
<1> QED
  BY <1>1, <1>2, <1>3, <1>4, <1>5, <1>6, <1>7 DEF Next, Fifo!FifoNext

\* The ring buffer is a bounded first-in first-out queue with batches that
\* can be taken back, for every capacity and every set of byte values.
THEOREM RingRefinement == Spec => ImplementsFifo
<1>1. Init => Fifo!FifoInit
  BY DEF Init, Contents, Fifo!FifoInit, Fifo!None
<1>2. RingInv /\ RingInv' /\ [Next]_vars => [Fifo!FifoNext]_(Fifo!fifoVars)
  BY FifoStep
<1> QED
  BY <1>1, <1>2, RingInvariance, PTL DEF Spec, ImplementsFifo, Fifo!FifoSpec
=============================================================================
