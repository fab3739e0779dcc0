----------------------------- MODULE LinuxHost -----------------------------
(***************************************************************************)
(* The Linux host (linux/mc_linux_server.c) around the server of module    *)
(* McServer: one thread that accepts a client and then, round and round,   *)
(* drains the TX ring into the socket, ticks the server, drains again and  *)
(* waits for input.  A tick that fails for want of room sends the loop     *)
(* back to the top without a look at the input.  A signal may ask for a    *)
(* shutdown at any moment, and the client may close its end.               *)
(*                                                                         *)
(* The socket has a buffer of its own: poll reports it writable while it   *)
(* has room, and times out only when the client leaves it full.            *)
(***************************************************************************)
EXTENDS McServer

CONSTANT SockCap    \* units the socket's send buffer holds

\* The ring holds the answer to any one packet: four short ones for /weather.
ASSUME HostAssumption == SockCap \in Nat \ {0} /\ TxCap >= 4

VARIABLES
    pc,                  \* where the thread is
    ret,                 \* where drain_tx returns to
    left,                \* packets of the last recv that mc_server_receive has not met
    sock,                \* units in the socket's send buffer
    closed,              \* the client has closed its end
    stalled,             \* the last drain_tx gave up with the ring not empty
    ended,               \* why the last session ended
    shutdown_requested

host == <<pc, ret, left, sock, closed, stalled, ended, shutdown_requested>>
hostvars == <<vars, host>>

HostInit ==
    /\ Init
    /\ pc = "accept" /\ ret = "tick" /\ left = 0 /\ sock = <<>> /\ closed = FALSE
    /\ stalled = FALSE /\ ended = "none" /\ shutdown_requested = FALSE

\* drain_tx is entered with the place it returns to.
Drained(place) == pc' = "drain" /\ ret' = place

\* The end of run_client: its server, ring and client are gone.
EndClient(reason) ==
    /\ NewSession
    /\ pc' = "accept" /\ ended' = reason /\ sock' = <<>> /\ closed' = FALSE
    /\ stalled' = FALSE /\ ret' = "tick" /\ left' = 0
    /\ UNCHANGED shutdown_requested

-----------------------------------------------------------------------------
(* accept_loop.                                                             *)

Accept ==
    /\ pc = "accept" /\ ~shutdown_requested
    /\ pc' = "loop" /\ ended' = "none"
    /\ UNCHANGED <<vars, ret, left, sock, closed, stalled, shutdown_requested>>

StopAccepting ==
    /\ pc = "accept" /\ shutdown_requested
    /\ pc' = "stopped"
    /\ UNCHANGED <<vars, ret, left, sock, closed, stalled, ended, shutdown_requested>>

-----------------------------------------------------------------------------
(* run_client.                                                              *)

\* Fault: the loop does not look at the shutdown flag.
LoopForEver ==
    /\ pc = "loop" /\ Drained("tick")
    /\ UNCHANGED <<vars, left, sock, closed, stalled, ended, shutdown_requested>>

LoopTop ==
    /\ pc = "loop"
    /\ \/ /\ shutdown_requested /\ EndClient("shutdown")
       \/ /\ ~shutdown_requested /\ Drained("tick")
          /\ UNCHANGED <<vars, left, sock, closed, stalled, ended, shutdown_requested>>

\* drain_tx: the socket takes some of the ring (for a client that has just
\* closed its end, too).
DrainSend ==
    /\ pc = "drain" /\ tx # <<>> /\ ~shutdown_requested
    /\ Len(sock) < SockCap
    /\ \E n \in 1..(SockCap - Len(sock)) :
          /\ n <= Len(tx)
          /\ sock' = sock \o SubSeq(tx, 1, n)
          /\ tx' = SubSeq(tx, n + 1, Len(tx))
    /\ UNCHANGED <<srv, inbox, client, now, since, punctual>>
    /\ UNCHANGED <<pc, ret, left, closed, stalled, ended, shutdown_requested>>

\* drain_tx returns: the ring is empty, or a shutdown is asked for, or the
\* socket stayed full for a whole poll.
DrainReturns ==
    /\ pc = "drain"
    /\ tx = <<>> \/ shutdown_requested \/ (Len(sock) = SockCap /\ ~closed)
    /\ pc' = ret /\ stalled' = (tx # <<>>)
    /\ UNCHANGED <<vars, ret, left, sock, closed, ended, shutdown_requested>>

\* drain_tx fails: poll or send reports that the client is gone, or the
\* signal interrupts poll.
DrainFails ==
    /\ pc = "drain" /\ tx # <<>>
    /\ \/ ~shutdown_requested /\ closed /\ EndClient("send error")
       \/ shutdown_requested /\ EndClient("shutdown")

\* Fault: every tick sends the loop back to the top.
TickAlwaysContinues ==
    /\ pc = "tick"
    /\ \E d \in 0..MaxStep :
          LET r == tick_at(srv, tx, (now + d) % TickMod) IN
          /\ now' = (now + d) % TickMod
          /\ srv' = r.srv /\ tx' = r.tx
          /\ Drained("loop")
    /\ UNCHANGED <<inbox, client, since, punctual>>
    /\ UNCHANGED <<left, sock, closed, stalled, ended, shutdown_requested>>

\* Fault: the ring is not drained between the tick and the wait for input.
TickThenPoll ==
    /\ pc = "tick"
    /\ \E d \in 0..MaxStep :
          LET r == tick_at(srv, tx, (now + d) % TickMod) IN
          /\ now' = (now + d) % TickMod
          /\ srv' = r.srv /\ tx' = r.tx
          /\ IF r.ok THEN pc' = "poll" /\ UNCHANGED ret ELSE Drained("loop")
    /\ UNCHANGED <<inbox, client, since, punctual>>
    /\ UNCHANGED <<left, sock, closed, stalled, ended, shutdown_requested>>

\* mc_server_tick_at with the monotonic clock: after a failure the loop
\* drains and starts again, otherwise it drains and waits for input.
TickServer ==
    /\ pc = "tick"
    /\ \E d \in 0..MaxStep :
          LET r == tick_at(srv, tx, (now + d) % TickMod) IN
          /\ now' = (now + d) % TickMod
          /\ srv' = r.srv /\ tx' = r.tx
          /\ Drained(IF r.ok THEN "poll" ELSE "loop")
    /\ UNCHANGED <<inbox, client, since, punctual>>
    /\ UNCHANGED <<left, sock, closed, stalled, ended, shutdown_requested>>

\* The client's packets that no server accepts.
Improper == {"MALFORMED", "HANDSHAKE_OTHER", "LOGIN_EMPTY"}

\* mc_server_receive meets the next packet.  The host ends the session of one
\* it refuses; why is "no room" or, if the client had left its socket full or
\* others of the same read came before it, words that say so.
MeetPacket(n, why) ==
    LET r == handle_packet(srv, tx, Head(inbox)) IN
    \/ /\ r.ok
       /\ srv' = r.srv /\ tx' = r.tx /\ inbox' = Tail(inbox)
       /\ left' = n /\ pc' = "receive"
       /\ UNCHANGED <<client, now, since, punctual>>
       /\ UNCHANGED <<ret, sock, closed, stalled, ended, shutdown_requested>>
    \/ /\ ~r.ok
       /\ EndClient(IF Head(inbox).kind \in Improper THEN "improper packet"
                    ELSE IF stalled THEN "no room, client stalled" ELSE why)

\* Input is there: recv takes some of the packets that have arrived, and
\* mc_server_receive begins with the first.
Recv ==
    /\ pc = "poll"
    /\ \E n \in 1..Len(inbox) : MeetPacket(n - 1, "no room")

\* It goes on with the others of the same read.
ReceiveNext == pc = "receive" /\ left > 0 /\ MeetPacket(left - 1, "no room, burst")

\* All are handled: drain_tx, then the top of the loop.
Received ==
    /\ pc = "receive" /\ left = 0
    /\ Drained("loop")
    /\ UNCHANGED <<vars, left, sock, closed, stalled, ended, shutdown_requested>>

\* poll times out.
PollTimeout ==
    /\ pc = "poll" /\ inbox = <<>> /\ ~closed
    /\ pc' = "loop"
    /\ UNCHANGED <<vars, ret, left, sock, closed, stalled, ended, shutdown_requested>>

\* recv returns 0 behind the last byte, or fails because the connection was
\* reset.
PeerClosed ==
    /\ pc = "poll" /\ closed
    /\ \/ inbox = <<>> /\ EndClient("peer close")
       \/ EndClient("receive error")

\* The signal interrupts poll.
PollInterrupted ==
    /\ pc = "poll" /\ shutdown_requested /\ inbox = <<>>
    /\ EndClient("shutdown")

-----------------------------------------------------------------------------
(* The client and the signal.                                               *)

Connected == pc \notin {"accept", "stopped"} /\ ~closed

\* The client reads a unit from the socket.
ClientRead ==
    /\ Connected /\ sock # <<>>
    /\ sock' = Tail(sock)
    /\ client' = ClientTakes(client, Head(sock))
    /\ UNCHANGED <<srv, tx, inbox, now, since, punctual>>
    /\ UNCHANGED <<pc, ret, left, closed, stalled, ended, shutdown_requested>>

ClientWrites == Connected /\ ClientSend /\ UNCHANGED host

ClientClose ==
    /\ Connected /\ closed' = TRUE
    /\ UNCHANGED <<vars, pc, ret, left, sock, stalled, ended, shutdown_requested>>

\* The handler of SIGINT and SIGTERM.
Signal ==
    /\ pc # "stopped" /\ ~shutdown_requested
    /\ shutdown_requested' = TRUE
    /\ UNCHANGED <<vars, pc, ret, left, sock, closed, stalled, ended>>

Thread ==
    \/ StopAccepting \/ LoopTop \/ DrainSend \/ DrainReturns \/ DrainFails
    \/ TickServer \/ Recv \/ ReceiveNext \/ Received \/ PollTimeout \/ PeerClosed \/ PollInterrupted

HostNext == Accept \/ Thread \/ ClientRead \/ ClientWrites \/ ClientClose \/ Signal

\* The thread runs as long as it can, and the client reads what arrives.
HostSpec ==
    /\ HostInit /\ [][HostNext]_hostvars
    /\ WF_hostvars(Thread) /\ WF_hostvars(ClientRead)

-----------------------------------------------------------------------------
(* Properties.                                                              *)

\* run_client drains the ring before every wait for input, so the packet that
\* a read begins with is refused for want of room only if the drain gave up:
\* the client left its socket full for a whole poll, or a shutdown is asked
\* for.  Those behind it in the same read may be: a status request is much
\* shorter than its answer.
RefusedOnlyIfStalled == ended # "no room"

\* The `continue' after a failed tick skips the input, but only for a while:
\* when the client has sent something, the thread comes to the wait for
\* input, where it receives, unless the session ends.
ClientHeard == (inbox # <<>>) ~> (pc \in {"poll", "accept", "stopped"})

\* A signal ends the session and the program, wherever the thread is.
ShutdownStops == shutdown_requested ~> (pc = "stopped")

=============================================================================
