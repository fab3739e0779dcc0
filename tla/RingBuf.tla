------------------------------ MODULE RingBuf ------------------------------
(***************************************************************************)
(* The ring buffer of core/src/mc_ringbuf.c, used for the RX ring, the TX  *)
(* ring and both queues of the link session, with the checkpoints that     *)
(* queue_packet_batch (core/src/mc_server.c) takes of it.  Its users are   *)
(* single-threaded: nothing is read while a batch is being queued.         *)
(***************************************************************************)
EXTENDS Integers, Sequences

CONSTANTS
    Cap,       \* cap
    Bytes,     \* the values of a byte
    MaxWrite   \* bound: bytes one call writes

ASSUME CapAssumption == Cap \in Nat \ {0} /\ MaxWrite \in Nat

VARIABLES
    data, head, tail, len,  \* mc_ringbuf_t
    out,                    \* the bytes the last read returned
    checkpoint              \* tx_checkpoint_t, or NoCheckpoint

vars == <<data, head, tail, len, out, checkpoint>>

Index == 0..(Cap - 1)
Lesser(a, b) == IF a < b THEN a ELSE b

\* Fault: the index cap is not wrapped.
WrapLate(i) == IF i > Cap THEN i - Cap ELSE i

\* i % cap, for the sums of an index and at most cap that occur here.
Wrap(i) == IF i >= Cap THEN i - Cap ELSE i

NoCheckpoint == [len |-> -1]
Saved == [head : Index, tail : Index, len : 0..Cap]

\* mc_ringbuf_init does not clear the storage.
Init ==
    /\ data \in [Index -> Bytes]
    /\ head = 0 /\ tail = 0 /\ len = 0
    /\ out = <<>> /\ checkpoint = NoCheckpoint

\* mc_ringbuf_peek at an offset below len.
Peek(offset) == data[Wrap(tail + offset)]

\* How far index j lies past the head.
PastHead(j) == IF j >= head THEN j - head ELSE j - head + Cap

\* mc_ringbuf_write: pushes until src is used up or the ring is full.
Write(src) ==
    LET n == Lesser(Len(src), Cap - len) IN
    /\ data' = [j \in Index |-> IF PastHead(j) < n THEN src[PastHead(j) + 1] ELSE data[j]]
    /\ head' = Wrap(head + n)
    /\ len' = len + n
    /\ UNCHANGED <<tail, out, checkpoint>>

\* The common part of pop, read and drop.
Advance(n) ==
    /\ tail' = Wrap(tail + n)
    /\ len' = len - n
    /\ UNCHANGED <<data, head, checkpoint>>

\* mc_ringbuf_read, and the peek, send and drop of drain_tx.
Read(max_len) ==
    LET n == Lesser(max_len, len) IN
    /\ checkpoint = NoCheckpoint
    /\ out' = [i \in 1..n |-> Peek(i - 1)]
    /\ Advance(n)

\* mc_ringbuf_drop.
Drop(count) ==
    /\ checkpoint = NoCheckpoint
    /\ Advance(Lesser(count, len))
    /\ UNCHANGED out

\* tx_checkpoint_save and tx_checkpoint_restore around a batch.
Save ==
    /\ checkpoint = NoCheckpoint
    /\ checkpoint' = [head |-> head, tail |-> tail, len |-> len]
    /\ UNCHANGED <<data, head, tail, len, out>>

BatchDone ==
    /\ checkpoint # NoCheckpoint
    /\ checkpoint' = NoCheckpoint
    /\ UNCHANGED <<data, head, tail, len, out>>

\* Fault: only the length is put back.
RestoreLenOnly ==
    /\ checkpoint # NoCheckpoint
    /\ len' = checkpoint.len
    /\ checkpoint' = NoCheckpoint
    /\ UNCHANGED <<data, head, tail, out>>

Restore ==
    /\ checkpoint # NoCheckpoint
    /\ head' = checkpoint.head /\ tail' = checkpoint.tail /\ len' = checkpoint.len
    /\ checkpoint' = NoCheckpoint
    /\ UNCHANGED <<data, out>>

Sources == UNION {[1..n -> Bytes] : n \in 0..MaxWrite}

Next ==
    \/ \E src \in Sources : Write(src)
    \/ \E n \in 0..(Cap + 1) : Read(n)
    \/ \E n \in 0..(Cap + 1) : Drop(n)
    \/ Save \/ BatchDone \/ Restore

Spec == Init /\ [][Next]_vars

-----------------------------------------------------------------------------
(* Properties.                                                             *)

\* The indices stay inside the storage.
TypeOK ==
    /\ data \in [Index -> Bytes]
    /\ head \in Index /\ tail \in Index /\ len \in 0..Cap
    /\ out \in Seq(Bytes)
    /\ checkpoint \in Saved \cup {NoCheckpoint}

\* head is always len bytes past tail, also for the state a checkpoint
\* would bring back, which shares its tail and is no longer than the ring:
\* a full ring and an empty one are told apart by len alone.
HeadPastTail ==
    /\ head = Wrap(tail + len)
    /\ checkpoint # NoCheckpoint =>
          /\ checkpoint.tail = tail /\ checkpoint.len <= len
          /\ checkpoint.head = Wrap(tail + checkpoint.len)

RingInv == TypeOK /\ HeadPastTail

\* The ring is a bounded first-in first-out queue, wherever it wraps: the
\* bytes from tail on are the ones written and not yet read, in order, and
\* a batch taken back leaves no trace.
Contents == [i \in 1..len |-> Peek(i - 1)]
Fifo == INSTANCE BoundedFifo WITH
            queue <- Contents,
            mark <- IF checkpoint = NoCheckpoint THEN -1 ELSE checkpoint.len
ImplementsFifo == Fifo!FifoSpec
=============================================================================
