----------------------------- MODULE McServer -----------------------------
(***************************************************************************)
(* The Minecraft 1.8 server of core/src/mc_server.c and its client, as any *)
(* of its hosts (firmware/main.c, linux/mc_linux_server.c) drives it:      *)
(* mc_server_receive for the packets that arrive, mc_server_tick_at with a *)
(* 32-bit clock, and a TX ring that the host drains whenever the transport *)
(* takes something.                                                        *)
(*                                                                         *)
(* A packet in the TX ring is a run of units, so that a packet can fail to *)
(* fit, or be half on its way when the ring is dropped.  The client        *)
(* follows the protocol: it switches to the compressed format when it has  *)
(* read Set Compression, and sends nothing between Login Start and Login   *)
(* Success.  What goes wrong in what it reads is kept in client.confused.  *)
(* Where the player is, and what names and chat say, is left out.          *)
(***************************************************************************)
EXTENDS Integers, Sequences

CONSTANTS
    TxCap,        \* capacity of the TX ring in units
    BigUnits,     \* units of a chunk and of a status response; others take one
    Chunks,       \* spawn chunks of the map
    TickMod,      \* 2^32: ticks wrap
    Interval,     \* MC_KEEPALIVE_INTERVAL_TICKS
    IdMax,        \* INT32_MAX: the largest keepalive id
    DefaultTime,  \* MC_COMMAND_DEFAULT_TIME
    Times,        \* times of day a command may set
    Kinds,        \* bound: the kinds of packets the client sends
    MaxStep,      \* bound: ticks between two calls of mc_server_tick_at
    MaxInbox,     \* bound: packets on their way to the server
    MaxCommands   \* bound: chat packets of one session

ASSUME ServerAssumption ==
    /\ TxCap \in Nat /\ BigUnits \in Nat \ {0} /\ BigUnits <= TxCap
    /\ Chunks \in Nat \ {0} /\ IdMax \in Nat /\ IdMax > 1
    /\ Interval \in Nat \ {0} /\ MaxStep \in Nat /\ TickMod \in Nat
    /\ Interval + MaxStep < TickMod
    /\ DefaultTime \in Nat /\ Times \subseteq Nat
    /\ MaxInbox \in Nat /\ MaxCommands \in Nat

VARIABLES
    srv,       \* mc_server_t
    tx,        \* units of the TX ring, oldest first
    inbox,     \* packets on their way to the server, oldest first
    client,    \* what the client has done, knows and has found wrong
    now,       \* the clock when mc_server_tick_at was last called
    since,     \* ticks since the last KeepAlive (Unknown from TickMod on), Never before it
    punctual   \* the last tick: "ok", "late", "early", "early after 0"

vars == <<srv, tx, inbox, client, now, since, punctual>>

-----------------------------------------------------------------------------
(* Clientbound packets and the TX ring.                                    *)

\* The stages of the Play bootstrap before MC_BOOTSTRAP_CHUNKS.
Stages == <<"JOIN_GAME", "SPAWN_POSITION", "TIME", "HEALTH", "ABILITIES", "POSITION">>
CHUNKS == Len(Stages)
DONE == CHUNKS + 1

\* weather_game_state_values: raining, rain level, thunder level.
weather_game_state_values ==
    [CLEAR |-> <<0, 0, 0>>, RAIN |-> <<1, 1, 0>>, THUNDER |-> <<1, 1, 1>>]
Weathers == DOMAIN weather_game_state_values

\* A packet of server s: a value, and its place in the bootstrap (0: none).
Packet(s, name, val, step) ==
    [name |-> name, val |-> val, step |-> step, compressed |-> s.compression_enabled,
     session |-> s.session, units |-> IF name \in {"CHUNK", "STATUS_RESPONSE"} THEN BigUnits ELSE 1]
Reply(s, name) == Packet(s, name, 0, 0)

\* The units of a packet, and of short packets, which take one each.
Units(p) == [i \in 1..p.units |-> [packet |-> p, part |-> i]]
Short(packets) == [i \in 1..Len(packets) |-> [packet |-> packets[i], part |-> 1]]

\* Fault: the free space is not looked at.
FitsUnchecked(q, units) == TRUE

Fits(q, units) == TxCap - Len(q) >= Len(units)

-----------------------------------------------------------------------------
(* mc_server.c: sessions and packets.                                      *)

PlayRuntime == [world_time |-> DefaultTime, weather |-> "CLEAR",
                last_keepalive_tick |-> 0, keepalive_id |-> 0, keepalive_pending |-> FALSE]
Fresh == [state |-> "HANDSHAKE", compression_enabled |-> FALSE, stage |-> 0, chunk_index |-> 0,
          sent |-> FALSE, play |-> PlayRuntime, session |-> 0]

reset_logical_session(s) == [Fresh EXCEPT !.session = 1 - s.session]

\* What handling a packet leads to.  What does not fit as a whole is not
\* queued at all: mc_server_queue_packet, queue_packet_auto, queue_packet_batch.
Ok(s, q) == [ok |-> TRUE, srv |-> s, tx |-> q]
Fail(s, q) == [ok |-> FALSE, srv |-> s, tx |-> q]
Queue(s, q, units) == IF Fits(q, units) THEN Ok(s, q \o units) ELSE Fail(s, q)
queue_packet_batch(s, q, packets) == Queue(s, q, Short(packets))

\* Handshakes, what they ask for, and the other packets with the id 0x00.
Handshakes == {"HANDSHAKE_STATUS", "HANDSHAKE_LOGIN", "HANDSHAKE_OTHER"}
NextState == [HANDSHAKE_STATUS |-> "STATUS", HANDSHAKE_LOGIN |-> "LOGIN"]
IdZero == {"STATUS_REQUEST", "LOGIN_START", "LOGIN_EMPTY", "KEEPALIVE"}

\* Fault: the TX ring survives a handshake.
handshake_keeping_tx(s, q, p) ==
    Ok([reset_logical_session(s) EXCEPT !.state = NextState[p.kind]], q)

\* A handshake that is accepted starts a logical session and empties the ring.
try_handle_handshake(s, q, p) ==
    Ok([reset_logical_session(s) EXCEPT !.state = NextState[p.kind]], <<>>)

\* Fault: Login Success is written before compression is on.
login_success_first(s, q) ==
    LET packets == <<Reply(s, "SET_COMPRESSION"), Reply(s, "LOGIN_SUCCESS")>> IN
    queue_packet_batch([s EXCEPT !.state = "PLAY", !.compression_enabled = TRUE], q, packets)

\* Login Start: Set Compression in the plain format, Login Success in the
\* compressed one, both or neither.
login(s, q) ==
    LET on == [s EXCEPT !.compression_enabled = TRUE]
        packets == <<Reply(s, "SET_COMPRESSION"), Reply(on, "LOGIN_SUCCESS")>> IN
    queue_packet_batch([on EXCEPT !.state = "PLAY"], q, packets)

weather_packets(s, w) ==
    [i \in 1..3 |-> Packet(s, "GAME_STATE", [field |-> i, level |-> weather_game_state_values[w][i]], 0)]

\* Fault: the new time is told to the client but not kept.
execute_forgetting_time(s, q, p) ==
    LET chat == Reply(s, "CHAT") IN
    CASE p.kind = "CHAT" -> queue_packet_batch(s, q, <<chat>>)
      [] p.kind = "TELEPORT" -> queue_packet_batch(s, q, <<Reply(s, "POSITION"), chat>>)
      [] p.kind = "TIME" -> queue_packet_batch(s, q, <<Packet(s, "TIME", p.val, 0), chat>>)
      [] p.kind = "WEATHER" -> queue_packet_batch([s EXCEPT !.play.weather = p.val], q,
                                            weather_packets(s, p.val) \o <<chat>>)

\* execute_command_result: the server's state changes only if the packets
\* that tell the client are queued.
execute_command_result(s, q, p) ==
    LET chat == Reply(s, "CHAT") IN
    CASE p.kind = "CHAT" -> queue_packet_batch(s, q, <<chat>>)
      [] p.kind = "TELEPORT" -> queue_packet_batch(s, q, <<Reply(s, "POSITION"), chat>>)
      [] p.kind = "TIME" -> queue_packet_batch([s EXCEPT !.play.world_time = p.val], q,
                                         <<Packet(s, "TIME", p.val, 0), chat>>)
      [] p.kind = "WEATHER" -> queue_packet_batch([s EXCEPT !.play.weather = p.val], q,
                                            weather_packets(s, p.val) \o <<chat>>)

\* handle_packet, in the order of its tests.  MALFORMED stands for whatever
\* mc_server_receive or the reader of a body refuses.
handle_packet(s, q, p) ==
    CASE p.kind = "MALFORMED" -> Fail(s, q)
      [] s.state # "PLAY" /\ p.kind \in DOMAIN NextState -> try_handle_handshake(s, q, p)
      [] s.state # "PLAY" /\ p.kind = "HANDSHAKE_OTHER" -> Fail(reset_logical_session(s), q)
      [] s.state = "HANDSHAKE" /\ p.kind \in IdZero -> Fail(s, q)
      [] s.state = "STATUS" /\ p.kind \in IdZero -> Queue(s, q, Units(Reply(s, "STATUS_RESPONSE")))
      [] s.state = "STATUS" /\ p.kind = "PING" -> Queue(s, q, Units(Reply(s, "PONG")))
      [] s.state = "LOGIN" /\ p.kind = "LOGIN_START" -> login(s, q)
      [] s.state = "LOGIN" /\ p.kind \in IdZero \ {"LOGIN_START"} -> Fail(s, q)
      [] s.state = "PLAY" /\ p.kind = "KEEPALIVE" ->
            Ok([s EXCEPT !.play.keepalive_pending = FALSE], q)
      [] s.state = "PLAY" /\ p.kind \in (Handshakes \cup IdZero) \ {"KEEPALIVE"} -> Fail(s, q)
      [] s.state = "PLAY" /\ p.kind \in {"CHAT", "TELEPORT", "TIME", "WEATHER"} ->
            execute_command_result(s, q, p)
      [] OTHER -> Ok(s, q)

-----------------------------------------------------------------------------
(* mc_server.c: ticks.                                                     *)

elapsed_ticks(t, then) == (t - then) % TickMod
NextId(id) == IF id >= IdMax THEN 1 ELSE id + 1

\* Fault: the comparison does not allow for the clock's wrap.
keepalive_due_absolute(s, t) ==
    /\ s.state = "PLAY" /\ s.sent
    /\ s.play.last_keepalive_tick = 0 \/ t >= s.play.last_keepalive_tick + Interval

\* The test at the start of tick_keepalive: the sentinel for "none yet" is
\* the tick 0.
keepalive_due(s, t) ==
    /\ s.state = "PLAY" /\ s.sent
    /\ \/ s.play.last_keepalive_tick = 0
       \/ elapsed_ticks(t, s.play.last_keepalive_tick) >= Interval

\* Fault: the id is spent although the packet does not fit.
tick_keepalive_spending_id(s, q, t) ==
    LET id == NextId(s.play.keepalive_id) IN
    IF ~keepalive_due(s, t) THEN Ok(s, q)
    ELSE IF Fits(q, Units(Packet(s, "KEEPALIVE", id, 0)))
    THEN Ok([s EXCEPT !.play.keepalive_id = id, !.play.keepalive_pending = TRUE,
                      !.play.last_keepalive_tick = t],
            q \o Units(Packet(s, "KEEPALIVE", id, 0)))
    ELSE Fail([s EXCEPT !.play.keepalive_id = id], q)

tick_keepalive(s, q, t) ==
    LET id == NextId(s.play.keepalive_id)
        alive == [s EXCEPT !.play.keepalive_id = id, !.play.keepalive_pending = TRUE,
                           !.play.last_keepalive_tick = t]
        told == Queue(alive, q, Units(Packet(s, "KEEPALIVE", id, 0))) IN
    IF ~keepalive_due(s, t) THEN Ok(s, q)
    ELSE IF told.ok THEN told ELSE Fail(s, q)

\* The bootstrap stages before the chunks, as many as fit.
StagePacket(s, i) ==
    Packet(s, Stages[i], IF Stages[i] = "TIME" THEN s.play.world_time ELSE 0, i)
bootstrap_stages(s, q) ==
    LET left == CHUNKS - s.stage
        free == TxCap - Len(q)
        n == IF left <= free THEN left ELSE free
        packets == [i \in 1..n |-> StagePacket(s, s.stage + i)]
        t == [s EXCEPT !.stage = @ + n] IN
    IF t.stage = CHUNKS THEN Ok(t, q \o Short(packets)) ELSE Fail(t, q \o Short(packets))

\* Fault: a chunk that does not fit is written as far as it does.
bootstrap_chunk_partial(s, q) ==
    LET chunk == Packet(s, "CHUNK", 0, DONE + s.chunk_index)
        last == s.chunk_index + 1 = Chunks IN
    IF Fits(q, Units(chunk))
    THEN Ok([s EXCEPT !.chunk_index = @ + 1, !.stage = IF last THEN DONE ELSE @, !.sent = last],
            q \o Units(chunk))
    ELSE Fail(s, SubSeq(q \o Units(chunk), 1, TxCap))

\* Fault: the chunk index does not advance.
bootstrap_chunk_stuck(s, q) ==
    LET chunk == Packet(s, "CHUNK", 0, DONE + s.chunk_index) IN
    IF Fits(q, Units(chunk)) THEN Ok(s, q \o Units(chunk)) ELSE Fail(s, q)

\* One chunk per tick; with the last one the bootstrap is done.
bootstrap_chunk(s, q) ==
    LET chunk == Packet(s, "CHUNK", 0, DONE + s.chunk_index)
        last == s.chunk_index + 1 = Chunks IN
    IF Fits(q, Units(chunk))
    THEN Ok([s EXCEPT !.chunk_index = @ + 1, !.stage = IF last THEN DONE ELSE @, !.sent = last],
            q \o Units(chunk))
    ELSE Fail(s, q)

\* mc_server_tick_at: what does not fit is tried again at the next tick.
tick_at(s, q, t) ==
    LET boot == IF s.state # "PLAY" \/ s.sent THEN Ok(s, q)
                ELSE IF s.stage < CHUNKS THEN bootstrap_stages(s, q)
                ELSE bootstrap_chunk(s, q) IN
    IF boot.ok THEN tick_keepalive(boot.srv, boot.tx, t) ELSE boot

-----------------------------------------------------------------------------
(* The host.                                                               *)

NewClient == [phase |-> "new", compressed |-> FALSE, boot |-> 0, keepalive |-> 0,
              time |-> DefaultTime, weather |-> <<0, 0, 0>>, part |-> 0, commands |-> 0,
              handshakes |-> 0, confused |-> {}]
Never == -1
Unknown == TickMod

Init ==
    /\ srv = Fresh /\ tx = <<>> /\ inbox = <<>> /\ client = NewClient
    /\ now = 0 /\ since = Never /\ punctual = "ok"

\* The host ends the session and starts over with the next client:
\* reset_connection, or the end of run_client and the next accept.
NewSession ==
    /\ srv' = Fresh /\ tx' = <<>> /\ inbox' = <<>> /\ client' = NewClient
    /\ since' = Never /\ punctual' = "ok"
    /\ UNCHANGED now

\* mc_server_receive meets the next packet; the host ends a session whose
\* packet is refused.
Receive ==
    /\ inbox # <<>>
    /\ LET r == handle_packet(srv, tx, Head(inbox)) IN
          \/ /\ r.ok
             /\ srv' = r.srv /\ tx' = r.tx /\ inbox' = Tail(inbox)
             /\ UNCHANGED <<client, now, since, punctual>>
          \/ ~r.ok /\ NewSession

\* Whether a KeepAlive was queued, or held back, at the wrong time; real is
\* the true time since the last one.
Punctuality(old, r, t, real) ==
    LET queued == r.srv.play.keepalive_id # old.play.keepalive_id IN
    CASE queued /\ real \in 0..(Interval - 1) ->
            IF old.play.last_keepalive_tick = 0 THEN "early after 0" ELSE "early"
      [] r.ok /\ r.srv.sent /\ ~queued /\ (real = Never \/ real \in Interval..(TickMod - 1)) ->
            "late"
      [] OTHER -> "ok"

\* The host's loop calls mc_server_tick_at; a failure only means backpressure.
Tick ==
    /\ \E d \in 0..MaxStep :
          LET t == (now + d) % TickMod
              r == tick_at(srv, tx, t)
              real == IF since = Never THEN Never
                      ELSE IF since + d >= TickMod THEN Unknown ELSE since + d IN
          /\ now' = t
          /\ srv' = r.srv /\ tx' = r.tx
          /\ punctual' = Punctuality(srv, r, t, real)
          /\ since' = IF r.srv.play.keepalive_id # srv.play.keepalive_id THEN 0 ELSE real
    /\ UNCHANGED <<inbox, client>>

\* The client reads a packet p and notes what it did not expect.
Surprises(c, p) ==
    (IF p.compressed # c.compressed THEN {"format"} ELSE {})
    \cup (IF p.step \notin {0, c.boot + 1} THEN {"bootstrap"} ELSE {})
    \cup (IF p.name = "KEEPALIVE" /\ (p.val # NextId(c.keepalive) \/ c.boot # CHUNKS + Chunks)
          THEN {"keepalive"} ELSE {})
ClientReads(c, p) ==
    [c EXCEPT
        !.confused = @ \cup Surprises(c, p),
        !.part = 0,
        !.boot = IF p.step = 0 THEN @ ELSE p.step,
        !.compressed = @ \/ p.name = "SET_COMPRESSION",
        !.phase = IF p.name = "LOGIN_SUCCESS" THEN "play" ELSE @,
        !.keepalive = IF p.name = "KEEPALIVE" THEN p.val ELSE @,
        !.time = IF p.name = "TIME" THEN p.val ELSE @,
        !.weather = IF p.name = "GAME_STATE" THEN [@ EXCEPT ![p.val.field] = p.val.level] ELSE @]

ClientTakes(c, u) ==
    LET d == [c EXCEPT !.confused = IF u.part = c.part + 1 THEN @ ELSE @ \cup {"torn"}] IN
    IF u.part = u.packet.units THEN ClientReads(d, u.packet) ELSE [d EXCEPT !.part = u.part]

\* The transport takes a unit and the client reads it.
Drain ==
    /\ tx # <<>>
    /\ tx' = Tail(tx)
    /\ client' = ClientTakes(client, Head(tx))
    /\ UNCHANGED <<srv, inbox, now, since, punctual>>

\* The client sends what its phase allows.
Commands == {"CHAT", "TELEPORT", "TIME", "WEATHER"}
Sends == [new |-> Handshakes \cup {"MALFORMED", "OTHER"},
          status |-> Handshakes \cup {"STATUS_REQUEST", "PING", "MALFORMED", "OTHER"},
          login |-> Handshakes \cup {"LOGIN_START", "LOGIN_EMPTY", "OTHER"},
          waiting |-> {},
          play |-> Commands \cup {"KEEPALIVE", "MALFORMED", "OTHER"}]
Values == [TIME |-> Times, WEATHER |-> Weathers]
PhaseAfter == [HANDSHAKE_STATUS |-> "status", HANDSHAKE_LOGIN |-> "login",
               HANDSHAKE_OTHER |-> "waiting", LOGIN_START |-> "waiting", LOGIN_EMPTY |-> "waiting",
               MALFORMED |-> "waiting"]
ClientSend ==
    /\ Len(inbox) < MaxInbox
    /\ \E k \in Sends[client.phase] \cap Kinds :
          /\ k \in Commands => client.commands < MaxCommands
          /\ \E v \in (IF k \in DOMAIN Values THEN Values[k] ELSE {0}) :
                inbox' = Append(inbox, [kind |-> k, val |-> v])
          /\ client' = [client EXCEPT
                !.phase = IF k \in DOMAIN PhaseAfter THEN PhaseAfter[k] ELSE @,
                !.commands = IF k \in Commands THEN @ + 1 ELSE @,
                !.handshakes = IF k \in Handshakes THEN IF @ = 2 THEN 2 ELSE @ + 1 ELSE @]
    /\ UNCHANGED <<srv, tx, now, since, punctual>>

\* A lost connection or a link reset ends the session at any time.
Disconnect == NewSession

Next == Receive \/ Tick \/ Drain \/ ClientSend \/ Disconnect

Spec == Init /\ [][Next]_vars

-----------------------------------------------------------------------------
(* Properties.                                                             *)

\* The ring keeps within its storage and the session counters within range.
TypeOK ==
    /\ Len(tx) <= TxCap
    /\ srv.state \in {"HANDSHAKE", "STATUS", "LOGIN", "PLAY"}
    /\ srv.stage \in 0..DONE /\ srv.chunk_index \in 0..Chunks
    /\ srv.sent = (srv.stage = DONE)
    /\ srv.play.keepalive_id \in 0..IdMax
    /\ srv.play.last_keepalive_tick \in 0..(TickMod - 1)
    /\ now \in 0..(TickMod - 1) /\ since \in {Never} \cup 0..Unknown

\* The client, which switches formats when it reads Set Compression, reads
\* every packet in the format the server wrote it in.
FormatAgreed == "format" \notin client.confused

\* However full the TX ring is and whatever the client types meanwhile, the
\* bootstrap packets of mc_server_tick_at reach the client once each and in
\* order, and after the last of them the KeepAlives of tick_keepalive, with
\* consecutive ids also when one had to be tried again.
InSequence == client.confused \cap {"bootstrap", "keepalive"} = {}

\* The client reads whole packets, unless it asked for a second session
\* while it was reading the answers of the first.
WholePackets == client.handshakes < 2 => "torn" \notin client.confused

\* After a handshake nothing of the former logical session is left in the
\* TX ring.
NothingStale == \A i \in 1..Len(tx) : tx[i].packet.session = srv.session

\* When everything queued has been read, client and server agree on the
\* time of day and the weather.
Mirrored ==
    tx = <<>> /\ srv.state = "PLAY" =>
        /\ srv.stage >= 3 => client.time = srv.play.world_time
        /\ client.weather = weather_game_state_values[srv.play.weather]

\* No KeepAlive is held back when it is due and fits, and none comes early,
\* the wrap of the clock included; the exception is one that was stamped
\* with tick 0, which counts as none.
KeepAliveOnTime == punctual \notin {"late", "early"}

\* A client that has logged in gets the whole bootstrap queued, unless the
\* session ends: the ring filling up only delays it.
BootstrapCompletes ==
    (srv.state = "PLAY") ~> (srv.sent \/ srv.state # "PLAY")
=============================================================================
