--------------------------- MODULE ReliableStream ---------------------------
(***************************************************************************)
(* What the client-to-MCU half of the UART link promises its two users,    *)
(* the TCP reader of the bridge and the Minecraft server in the firmware:  *)
(* the server consumes the client's bytes once each and in order, never a  *)
(* byte that was not read from the client, until the firmware drops the    *)
(* connection; after that nothing is promised.  Bytes are named by their   *)
(* position in the client's stream.                                        *)
(***************************************************************************)
EXTENDS Naturals, Sequences

VARIABLES
    sent,       \* bytes the client has handed over
    delivered,  \* the bytes the server has consumed, oldest first
    broken      \* the firmware has dropped the connection

vars == <<sent, delivered, broken>>

Init == sent = 0 /\ delivered = <<>> /\ broken = FALSE

Send == /\ sent' \in Nat /\ sent' > sent
        /\ UNCHANGED <<delivered, broken>>

\* The next n bytes of the stream, after the m already delivered.
Slice(m, n) == [i \in 1..n |-> m + i]

Deliver == /\ ~broken
           /\ \E n \in 1..(sent - Len(delivered)) :
                 delivered' = delivered \o Slice(Len(delivered), n)
           /\ UNCHANGED <<sent, broken>>

Break == broken' = TRUE /\ UNCHANGED <<sent, delivered>>

\* A dropped connection: the bytes a fresh server then sees are not covered.
AfterBreak == broken /\ UNCHANGED <<sent, broken>>

Next == Send \/ Deliver \/ Break \/ AfterBreak

Spec == Init /\ [][Next]_vars
=============================================================================
