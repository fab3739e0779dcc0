---------------------------- MODULE BoundedFifo ----------------------------
(***************************************************************************)
(* What core/src/mc_ringbuf.c promises its users: a first-in first-out     *)
(* queue of at most Cap bytes.  A write takes the part that fits; a batch  *)
(* of writes can be taken back as long as nothing was read in between.     *)
(***************************************************************************)
EXTENDS Integers, Sequences

CONSTANTS Cap, Bytes

VARIABLES
    queue,  \* the bytes, oldest first
    out,    \* what the last read returned
    mark    \* length of the queue when a batch began, None outside one

None == -1
fifoVars == <<queue, out, mark>>

First(s, n) == [i \in 1..n |-> s[i]]
Rest(s, n) == [i \in 1..(Len(s) - n) |-> s[i + n]]

FifoInit == queue = <<>> /\ out = <<>> /\ mark = None

Put == /\ \E n \in 0..(Cap - Len(queue)) :
              \E s \in [1..n -> Bytes] : queue' = queue \o s
       /\ UNCHANGED <<out, mark>>

Get == /\ mark = None
       /\ \E n \in 0..Len(queue) :
              /\ out' = First(queue, n)
              /\ queue' = Rest(queue, n)
       /\ UNCHANGED mark

Discard == /\ mark = None
           /\ \E n \in 0..Len(queue) : queue' = Rest(queue, n)
           /\ UNCHANGED <<out, mark>>

Begin == mark = None /\ mark' = Len(queue) /\ UNCHANGED <<queue, out>>

Commit == mark # None /\ mark' = None /\ UNCHANGED <<queue, out>>

Rollback == /\ mark # None
            /\ queue' = First(queue, mark)
            /\ mark' = None
            /\ UNCHANGED out

FifoNext == Put \/ Get \/ Discard \/ Begin \/ Commit \/ Rollback

FifoSpec == FifoInit /\ [][FifoNext]_fifoVars
=============================================================================
