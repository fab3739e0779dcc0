-------------------------- MODULE LinuxHostProofs --------------------------
(***************************************************************************)
(* The Linux host keeps what the server of module McServer promises: what  *)
(* the client reads is what the server meant, although the socket between  *)
(* them has a buffer that the server's handshake does not empty; and the   *)
(* packet that a read begins with finds room, unless the client has left   *)
(* its socket full or a shutdown is under way.  For every capacity of the  *)
(* socket and every ring that holds any one answer.                        *)
(*                                                                         *)
(* Two things are followed.  The views of McServerProofs lead from what    *)
(* the client knows through the socket to a view m, and from m through the *)
(* ring to the server's own.  And the packets on their way to the server   *)
(* lead from the server's state to the one that the client's phase is for, *)
(* each allowed where it will be met.                                      *)
(* The parts of the packets go on from the socket to the ring.             *)
(***************************************************************************)
EXTENDS LinuxHost, McServerProofs

-----------------------------------------------------------------------------
(* The invariant.                                                          *)

\* The phase of a client that has seen the server come to a state, and the
\* state after a packet that the phase allows.
States == {"HANDSHAKE", "STATUS", "LOGIN", "PLAY"}
Phase == [HANDSHAKE |-> "new", STATUS |-> "status", LOGIN |-> "login", PLAY |-> "play"]
After(a, k) ==
    IF k \in Improper THEN "refused"
    ELSE IF k \in DOMAIN NextState THEN NextState[k]
    ELSE IF k = "LOGIN_START" THEN "PLAY" ELSE a
Follows(a, k, b) ==
    IF a = "refused" THEN b = "refused" ELSE k \in Sends[Phase[a]] /\ b = After(a, k)

\* The states V lead from a through the packets of box to the last of them;
\* the client is in the phase for that, or waits to be told of it; and where
\* Play comes in, only Play or the end of the session follows.
Walk(V, box, a, phase) ==
    /\ V \in [0..Len(box) -> States \cup {"refused"}] /\ V[0] = a
    /\ \A i \in 1..Len(box) : Follows(V[i - 1], box[i].kind, V[i])
    /\ \/ V[Len(box)] = "refused"
       \/ phase = Phase[V[Len(box)]]
       \/ V[Len(box)] = "PLAY" /\ phase = "waiting"
    /\ \A i \in 0..Len(box) : V[i] = "PLAY" => V[Len(box)] \in {"PLAY", "refused"}
Proper(s, box, phase) == \E V : Walk(V, box, s.state, phase)

\* Before Play no Login Success is on its way.
NoSuccess(q) == \A i \in 1..Len(q) : q[i].packet.name # "LOGIN_SUCCESS"

\* The views lead through the socket to m; before Play they are all the same.
SockAgreed(s, q, c, m) ==
    \E V : /\ Trace(V, q, ClientView(c), m)
           /\ s.state # "PLAY" => \A i \in 0..Len(q) : V[i] = m
HostAgreed == \E m \in View : SockAgreed(srv, sock, client, m) /\ Agreed(srv, tx, m)

\* Where the thread is, it has something to do: packets to go on with, a
\* ring that it has drained before it waits.
ThreadOK ==
    /\ left \in 0..Len(inbox)
    /\ pc = "poll" => tx = <<>> \/ stalled
    /\ RefusedOnlyIfStalled

HostInv ==
    /\ ServerOK(srv) /\ RingOK(srv, tx) /\ InboxOK
    /\ sock \in Seq(Unit)
    /\ srv.state # "PLAY" => NoSuccess(tx) /\ NoSuccess(sock)
    /\ client \in Client /\ client.confused \subseteq {"torn"}
    /\ now \in 0..(TickMod - 1)
    /\ HostAgreed
    /\ Proper(srv, inbox, client.phase)
    /\ ThreadOK

-----------------------------------------------------------------------------
(* Packets of a client that follows the protocol.                          *)

\* A view is what there is to know of it.
LEMMA ViewOfView ==
    ASSUME NEW m \in View
    PROVE  ClientView(m) = m
BY DEF View, ClientView

LEMMA StateFacts ==
    /\ \A a \in States : Phase[a] \in {"new", "status", "login", "play"}
    /\ \A a, b \in States : Phase[a] = Phase[b] => a = b
    /\ Phase["HANDSHAKE"] = "new" /\ Phase["STATUS"] = "status" /\ Phase["LOGIN"] = "login"
    /\ Phase["PLAY"] = "play"
    /\ DOMAIN NextState = {"HANDSHAKE_STATUS", "HANDSHAKE_LOGIN"}
    /\ NextState["HANDSHAKE_STATUS"] = "STATUS" /\ NextState["HANDSHAKE_LOGIN"] = "LOGIN"
    /\ Sends["new"] = Handshakes \cup {"MALFORMED", "OTHER"}
    /\ Sends["status"] = Handshakes \cup {"STATUS_REQUEST", "PING", "MALFORMED", "OTHER"}
    /\ Sends["login"] = Handshakes \cup {"LOGIN_START", "LOGIN_EMPTY", "OTHER"}
    /\ Sends["waiting"] = {}
    /\ Sends["play"] = Commands \cup {"KEEPALIVE", "MALFORMED", "OTHER"}
BY DEF States, Phase, NextState, Sends

\* What handle_packet does with a proper packet.
LEMMA Dispatched ==
    ASSUME NEW s, NEW q, NEW p, s.state \in States,
           p.kind \in Sends[Phase[s.state]], p.kind \notin Improper
    PROVE  LET r == handle_packet(s, q, p) IN
           \/ s.state # "PLAY" /\ p.kind \in DOMAIN NextState /\ r = try_handle_handshake(s, q, p)
           \/ s.state = "STATUS" /\ p.kind = "STATUS_REQUEST"
              /\ r = Queue(s, q, Units(Reply(s, "STATUS_RESPONSE")))
           \/ s.state = "STATUS" /\ p.kind = "PING" /\ r = Queue(s, q, Units(Reply(s, "PONG")))
           \/ s.state = "LOGIN" /\ p.kind = "LOGIN_START" /\ r = login(s, q)
           \/ s.state = "PLAY" /\ p.kind = "KEEPALIVE"
              /\ r = Ok([s EXCEPT !.play.keepalive_pending = FALSE], q)
           \/ s.state = "PLAY" /\ p.kind \in Commands /\ r = execute_command_result(s, q, p)
           \/ p.kind = "OTHER" /\ r = Ok(s, q)
<1>1. CASE s.state = "HANDSHAKE"
  <2>1. p.kind \in {"HANDSHAKE_STATUS", "HANDSHAKE_LOGIN", "OTHER"}
    BY <1>1, StateFacts DEF Handshakes, Improper
  <2> QED
    BY <1>1, <2>1, StateFacts, SMTT(30) DEF handle_packet, IdZero, Handshakes
<1>2. CASE s.state = "STATUS"
  <2>1. p.kind \in {"HANDSHAKE_STATUS", "HANDSHAKE_LOGIN", "STATUS_REQUEST", "PING", "OTHER"}
    BY <1>2, StateFacts DEF Handshakes, Improper
  <2> QED
    BY <1>2, <2>1, StateFacts, SMTT(30) DEF handle_packet, IdZero, Handshakes
<1>3. CASE s.state = "LOGIN"
  <2>1. p.kind \in {"HANDSHAKE_STATUS", "HANDSHAKE_LOGIN", "LOGIN_START", "OTHER"}
    BY <1>3, StateFacts DEF Handshakes, Improper
  <2> QED
    BY <1>3, <2>1, StateFacts, SMTT(30) DEF handle_packet, IdZero, Handshakes
<1>4. CASE s.state = "PLAY"
  <2>1. p.kind \in Commands \cup {"KEEPALIVE", "OTHER"}
    BY <1>4, StateFacts DEF Improper, Commands
  <2> QED
    BY <1>4, <2>1, StateFacts, SMTT(30) DEF handle_packet, IdZero, Handshakes, Commands
<1> QED
  BY <1>1, <1>2, <1>3, <1>4 DEF States

\* An empty ring holds every answer.
LEMMA ReplyFits ==
    ASSUME NEW s \in Server, NEW name \in {"STATUS_RESPONSE", "PONG"}
    PROVE  LET us == Units(Reply(s, name)) IN
           us \in Seq(Unit) /\ NoSuccess(us) /\ Fits(<<>>, us)
<1> DEFINE p == Reply(s, name)
<1>1. name \in Names
  BY DEF Names
<1>2. p \in PacketType /\ p.name = name
  BY <1>1, PacketFacts DEF Reply
<1>3. p.units \in {1, BigUnits}
  BY <1>2 DEF PacketType
<1> HIDE DEF p
<1>4. /\ Units(p) \in Seq(Unit) /\ Len(Units(p)) = p.units
      /\ \A i \in 1..p.units : Units(p)[i] = [packet |-> p, part |-> i]
  BY <1>2, UnitsFacts
<1>5. NoSuccess(Units(p))
  <2> SUFFICES ASSUME NEW i \in 1..Len(Units(p)) PROVE Units(p)[i].packet.name # "LOGIN_SUCCESS"
    BY DEF NoSuccess
  <2>1. Units(p)[i] = [packet |-> p, part |-> i]
    BY <1>4
  <2> HIDE DEF p
  <2> QED
    BY <1>2, <2>1
<1>6. Fits(<<>>, Units(p))
  BY <1>3, <1>4, ServerAssumption, HostAssumption DEF Fits, ServerAssumption, HostAssumption
<1> QED
  BY <1>4, <1>5, <1>6 DEF p

LEMMA BatchFits ==
    ASSUME NEW s, NEW packets \in Seq(PacketType), Len(packets) <= 4
    PROVE  queue_packet_batch(s, <<>>, packets).ok
<1>1. Len(Short(packets)) = Len(packets) /\ Len(packets) \in Nat
  BY ShortFacts
<1>2. Fits(<<>>, Short(packets))
  BY <1>1, ServerAssumption, HostAssumption DEF Fits, ServerAssumption, HostAssumption
<1> QED
  BY <1>2 DEF queue_packet_batch, Queue, Ok

LEMMA LoginFits ==
    ASSUME NEW s \in Server
    PROVE  login(s, <<>>).ok
<1> DEFINE on == [s EXCEPT !.compression_enabled = TRUE]
           a == Reply(s, "SET_COMPRESSION")
           b == Reply(on, "LOGIN_SUCCESS")
<1>1. on \in Server /\ "SET_COMPRESSION" \in Names /\ "LOGIN_SUCCESS" \in Names
  BY DEF Server, Names
<1> HIDE DEF on
<1>2. a \in PacketType /\ b \in PacketType
  BY <1>1, PacketFacts DEF Reply
<1> HIDE DEF a, b
<1>3. <<a, b>> \in Seq(PacketType) /\ Len(<<a, b>>) <= 4
  BY <1>2
<1>4. queue_packet_batch([on EXCEPT !.state = "PLAY"], <<>>, <<a, b>>).ok
  BY <1>3, BatchFits
<1> QED
  BY <1>4 DEF login, on, a, b

LEMMA CommandFits ==
    ASSUME NEW s \in Server, NEW p, p.kind \in Commands,
           p.kind = "TIME" => p.val \in Nat, p.kind = "WEATHER" => p.val \in Weathers
    PROVE  execute_command_result(s, <<>>, p).ok
<1> DEFINE chat == Reply(s, "CHAT")
<1>0. {"CHAT", "POSITION", "TIME", "GAME_STATE"} \subseteq Names
  BY DEF Names
<1>1. chat \in PacketType
  BY <1>0, PacketFacts DEF Reply
<1> HIDE DEF chat
<1>2. CASE p.kind = "CHAT"
  <2>1. <<chat>> \in Seq(PacketType) /\ Len(<<chat>>) <= 4
    BY <1>1
  <2>2. queue_packet_batch(s, <<>>, <<chat>>).ok
    BY <2>1, BatchFits
  <2> QED
    BY <1>2, <2>2 DEF execute_command_result, chat
<1>3. CASE p.kind = "TELEPORT"
  <2> DEFINE a == Reply(s, "POSITION")
  <2>1. a \in PacketType
    BY <1>0, PacketFacts DEF Reply
  <2> HIDE DEF a
  <2>2. <<a, chat>> \in Seq(PacketType) /\ Len(<<a, chat>>) <= 4
    BY <1>1, <2>1
  <2>3. queue_packet_batch(s, <<>>, <<a, chat>>).ok
    BY <2>2, BatchFits
  <2> QED
    BY <1>3, <2>3 DEF execute_command_result, chat, a
<1>4. CASE p.kind = "TIME"
  <2> DEFINE a == Packet(s, "TIME", p.val, 0)
             t == [s EXCEPT !.play.world_time = p.val]
  <2>1. a \in PacketType
    BY <1>0, <1>4, PacketFacts
  <2> HIDE DEF a, t
  <2>2. <<a, chat>> \in Seq(PacketType) /\ Len(<<a, chat>>) <= 4
    BY <1>1, <2>1
  <2>3. queue_packet_batch(t, <<>>, <<a, chat>>).ok
    BY <2>2, BatchFits
  <2> QED
    BY <1>4, <2>3 DEF execute_command_result, chat, a, t
<1>5. CASE p.kind = "WEATHER"
  <2> DEFINE g(i) == Packet(s, "GAME_STATE",
                            [field |-> i, level |-> weather_game_state_values[p.val][i]], 0)
             t == [s EXCEPT !.play.weather = p.val]
             w == weather_packets(s, p.val)
  <2>1. ASSUME NEW i \in 1..3 PROVE g(i) \in PacketType
    <3>1. weather_game_state_values[p.val][i] \in {0, 1}
      BY <1>5, WeatherFacts DEF Weather
    <3> DEFINE val == [field |-> i, level |-> weather_game_state_values[p.val][i]]
    <3>2. val \in Nat \cup [field : 1..3, level : {0, 1}]
      BY <3>1
    <3> HIDE DEF val
    <3>3. Packet(s, "GAME_STATE", val, 0) \in PacketType
      BY <1>0, <3>2, PacketFacts
    <3> QED
      BY <3>3 DEF val
  <2>2. w = [i \in 1..3 |-> g(i)]
    BY DEF weather_packets
  <2> HIDE DEF g, w, t
  <2>3. w \in Seq(PacketType) /\ Len(w) = 3
    BY <2>1, <2>2
  <2>4. <<chat>> \in Seq(PacketType) /\ Len(<<chat>>) = 1
    BY <1>1
  <2>5. w \o <<chat>> \in Seq(PacketType) /\ Len(w \o <<chat>>) <= 4
    BY <2>3, <2>4, ConcatFacts
  <2>6. queue_packet_batch(t, <<>>, w \o <<chat>>).ok
    BY <2>5, BatchFits
  <2> QED
    BY <1>5, <2>6 DEF execute_command_result, chat, w, t
<1> QED
  BY <1>2, <1>3, <1>4, <1>5 DEF Commands

\* When the ring is empty, no proper packet is refused.
LEMMA ProperAccepted ==
    ASSUME NEW s, ServerOK(s), NEW p, p.kind \in Sends[Phase[s.state]], p.kind \notin Improper,
           p.kind = "TIME" => p.val \in Nat, p.kind = "WEATHER" => p.val \in Weathers
    PROVE  handle_packet(s, <<>>, p).ok
<1> DEFINE r == handle_packet(s, <<>>, p)
<1>1. s \in Server /\ s.state \in States
  BY DEF ServerOK, Server, States
<1>2. \A us : Fits(<<>>, us) => Queue(s, <<>>, us).ok
  BY DEF Queue, Ok
<1>3. try_handle_handshake(s, <<>>, p).ok
  BY DEF try_handle_handshake, Ok
<1>4. \A name \in {"STATUS_RESPONSE", "PONG"} : Queue(s, <<>>, Units(Reply(s, name))).ok
  BY <1>1, <1>2, ReplyFits
<1>5. login(s, <<>>).ok
  BY <1>1, LoginFits
<1>6. \A t : Ok(t, <<>>).ok
  BY DEF Ok
<1>7. p.kind \in Commands => execute_command_result(s, <<>>, p).ok
  BY <1>1, CommandFits
<1> HIDE DEF r
<1> QED
  BY <1>1, <1>3, <1>4, <1>5, <1>6, <1>7, Dispatched DEF r

\* The others always are.
LEMMA ImproperRefused ==
    ASSUME NEW s, NEW q, NEW p, s.state \in States, p.kind \in Sends[Phase[s.state]],
           handle_packet(s, q, p).ok
    PROVE  p.kind \notin Improper
<1> SUFFICES ASSUME p.kind \in Improper PROVE FALSE
  OBVIOUS
<1> DEFINE r == handle_packet(s, q, p)
<1>1. \A t : ~Fail(t, q).ok
  BY DEF Fail
<1>2. CASE p.kind = "MALFORMED"
  <2>1. r = Fail(s, q)
    BY <1>2, StateFacts, SMTT(30) DEF handle_packet, IdZero, Handshakes
  <2> QED
    BY <1>1, <2>1
<1>3. CASE p.kind = "HANDSHAKE_OTHER"
  <2>1. s.state # "PLAY"
    BY <1>3, StateFacts DEF Commands
  <2>2. r = Fail(reset_logical_session(s), q)
    BY <1>3, <2>1, StateFacts, SMTT(30) DEF handle_packet, IdZero, Handshakes
  <2> QED
    BY <1>1, <2>2
<1>4. CASE p.kind = "LOGIN_EMPTY"
  <2>1. s.state = "LOGIN"
    BY <1>4, StateFacts DEF Commands, Handshakes, States
  <2>2. r = Fail(s, q)
    BY <1>4, <2>1, StateFacts, SMTT(30) DEF handle_packet, IdZero, Handshakes
  <2> QED
    BY <1>1, <2>2
<1> QED
  BY <1>2, <1>3, <1>4 DEF Improper

\* What a proper packet that is accepted leads to.
LEMMA ProperHandled ==
    ASSUME NEW s, NEW q, NEW c, NEW p, ServerOK(s), RingOK(s, q), Agreed(s, q, c),
           p.kind \in Sends[Phase[s.state]], p.kind \notin Improper,
           p.kind = "TIME" => p.val \in Nat, p.kind = "WEATHER" => p.val \in Weathers,
           s.state # "PLAY" => NoSuccess(q), handle_packet(s, q, p).ok
    PROVE  LET r == handle_packet(s, q, p) IN
           /\ r.srv.state = After(s.state, p.kind)
           /\ r.srv.state # "PLAY" => s.state # "PLAY" /\ NoSuccess(r.tx)
<1> DEFINE r == handle_packet(s, q, p)
           Goal == /\ r.srv.state = After(s.state, p.kind)
                   /\ r.srv.state # "PLAY" => s.state # "PLAY" /\ NoSuccess(r.tx)
<1>0. s \in Server /\ s.state \in States /\ q \in Seq(Unit)
  BY DEF ServerOK, Server, States, RingOK
<1>1. ASSUME s.state # "PLAY", p.kind \in DOMAIN NextState, r = try_handle_handshake(s, q, p)
      PROVE  Goal
  <2> DEFINE t == [reset_logical_session(s) EXCEPT !.state = NextState[p.kind]]
  <2>0. t.state = NextState[p.kind]
    BY DEF reset_logical_session, Fresh
  <2> HIDE DEF t, r
  <2>1. r = Ok(t, <<>>)
    BY <1>1 DEF try_handle_handshake, t
  <2>2. r.srv.state = NextState[p.kind] /\ r.tx = <<>>
    BY <2>0, <2>1 DEF Ok
  <2>3. After(s.state, p.kind) = NextState[p.kind] /\ NoSuccess(<<>>)
    BY <1>1 DEF After, NoSuccess
  <2> QED
    BY <1>1, <2>2, <2>3
<1>2. ASSUME s.state = "STATUS", p.kind \in {"STATUS_REQUEST", "PING"},
             NEW name \in {"STATUS_RESPONSE", "PONG"}, r = Queue(s, q, Units(Reply(s, name)))
      PROVE  Goal
  <2> DEFINE us == Units(Reply(s, name))
  <2>1. r.srv = s /\ r.tx = q \o us
    BY <1>2 DEF Queue, Ok, Fail
  <2>2. us \in Seq(Unit) /\ NoSuccess(us) /\ NoSuccess(q)
    BY <1>0, <1>2, ReplyFits
  <2> HIDE DEF us, r
  <2>3. NoSuccess(q \o us)
    BY <1>0, <2>2 DEF NoSuccess
  <2>4. After(s.state, p.kind) = s.state
    BY <1>2, StateFacts DEF After, Improper
  <2> QED
    BY <1>2, <2>1, <2>3, <2>4
<1>3. ASSUME s.state = "LOGIN", p.kind = "LOGIN_START", r = login(s, q)
      PROVE  Goal
  <2>1. r.srv.state = "PLAY"
    BY <1>3, LoginHeld
  <2> HIDE DEF r
  <2>2. After(s.state, p.kind) = "PLAY"
    BY <1>3, StateFacts DEF After, Improper
  <2> QED
    BY <2>1, <2>2
<1>4. ASSUME s.state = "PLAY", p.kind = "KEEPALIVE",
             r = Ok([s EXCEPT !.play.keepalive_pending = FALSE], q)
      PROVE  Goal
  <2>1. r.srv.state = "PLAY"
    BY <1>0, <1>4 DEF Ok, Server
  <2> HIDE DEF r
  <2>2. After(s.state, p.kind) = "PLAY"
    BY <1>4, StateFacts DEF After, Improper
  <2> QED
    BY <2>1, <2>2
<1>5. ASSUME s.state = "PLAY", p.kind \in Commands, r = execute_command_result(s, q, p)
      PROVE  Goal
  <2>1. r.srv.state = "PLAY"
    BY <1>5, CommandHeld DEF Commands
  <2> HIDE DEF r
  <2>2. After(s.state, p.kind) = "PLAY"
    BY <1>5, StateFacts DEF After, Improper, Commands
  <2> QED
    BY <2>1, <2>2
<1>6. ASSUME p.kind = "OTHER", r = Ok(s, q)
      PROVE  Goal
  <2>1. r.srv = s /\ r.tx = q
    BY <1>6 DEF Ok
  <2> HIDE DEF r
  <2>2. After(s.state, p.kind) = s.state
    BY <1>6, StateFacts DEF After, Improper
  <2> QED
    BY <2>1, <2>2
<1>7. Goal
  <2> HIDE DEF Goal
  <2> QED
    BY <1>0, <1>1, <1>2, <1>3, <1>4, <1>5, <1>6, Dispatched
<1> QED
  BY <1>7

-----------------------------------------------------------------------------
(* The packets on their way.                                               *)

\* The first packet is one that the state it meets allows.
LEMMA WalkFirst ==
    ASSUME NEW s, NEW box \in Seq(Incoming), NEW phase, NEW V, Walk(V, box, s.state, phase),
           s.state \in States, box # <<>>
    PROVE  box[1].kind \in Sends[Phase[s.state]] /\ V[1] = After(s.state, box[1].kind)
<1>1. Len(box) \in Nat \ {0} /\ 1 \in 1..Len(box) /\ 1 - 1 = 0
  BY TailFacts
<1>2. Follows(V[1 - 1], box[1].kind, V[1]) /\ V[0] = s.state
  BY <1>1 DEF Walk
<1>3. s.state # "refused"
  BY DEF States
<1> QED
  BY <1>1, <1>2, <1>3 DEF Follows

\* The others go on from the state that it leads to.
LEMMA WalkOn ==
    ASSUME NEW s, NEW t, NEW box \in Seq(Incoming), NEW phase, NEW V,
           Walk(V, box, s.state, phase), box # <<>>, t.state = V[1]
    PROVE  Proper(t, Tail(box), phase)
<1> DEFINE n == Len(box) - 1
           W == [i \in 0..n |-> V[i + 1]]
<1>1. /\ n \in Nat /\ Len(box) = n + 1 /\ Len(Tail(box)) = n
      /\ \A i \in 1..n : Tail(box)[i] = box[i + 1]
  BY TailFacts
<1>2. /\ V \in [0..Len(box) -> States \cup {"refused"}]
      /\ \A i \in 1..Len(box) : Follows(V[i - 1], box[i].kind, V[i])
  BY DEF Walk
<1>3. \A i \in 0..n : i + 1 \in 0..Len(box) /\ W[i] = V[i + 1]
  BY <1>1
<1>4. W \in [0..n -> States \cup {"refused"}] /\ W[0] = V[1] /\ W[n] = V[Len(box)]
  BY <1>1, <1>2, <1>3
<1> HIDE DEF W
<1>5. ASSUME NEW i \in 1..n PROVE Follows(W[i - 1], Tail(box)[i].kind, W[i])
  <2>1. i + 1 \in 1..Len(box) /\ (i + 1) - 1 = i /\ i - 1 \in 0..n /\ i \in 0..n /\ (i - 1) + 1 = i
    BY <1>1
  <2>2. Follows(V[(i + 1) - 1], box[i + 1].kind, V[i + 1])
    BY <1>2, <2>1
  <2>3. W[i - 1] = V[i] /\ W[i] = V[i + 1]
    BY <1>3, <2>1
  <2> QED
    BY <1>1, <2>1, <2>2, <2>3
<1>6. \A i \in 0..n : W[i] = "PLAY" => W[n] \in {"PLAY", "refused"}
  BY <1>3, <1>4 DEF Walk
<1> HIDE DEF n
<1>7. Walk(W, Tail(box), t.state, phase)
  BY <1>1, <1>4, <1>5, <1>6 DEF Walk
<1> QED
  BY <1>7 DEF Proper

\* A packet that the client's phase allows is allowed where it will be met.
LEMMA WalkSent ==
    ASSUME NEW s, NEW box \in Seq(Incoming), NEW phase, Proper(s, box, phase),
           phase \in {"new", "status", "login", "waiting", "play"},
           NEW p \in Incoming, p.kind \in Sends[phase]
    PROVE  Proper(s, Append(box, p),
                  IF p.kind \in DOMAIN PhaseAfter THEN PhaseAfter[p.kind] ELSE phase)
<1> DEFINE k == p.kind
           after == IF k \in DOMAIN PhaseAfter THEN PhaseAfter[k] ELSE phase
           n == Len(box)
           box2 == Append(box, p)
<1>1. PICK V : Walk(V, box, s.state, phase)
  BY DEF Proper
<1> DEFINE a == V[n]
           b == IF a = "refused" THEN "refused" ELSE After(a, k)
           W == [i \in 0..(n + 1) |-> IF i = n + 1 THEN b ELSE V[i]]
<1>2. /\ n \in Nat /\ Len(box2) = n + 1 /\ box2[n + 1] = p
      /\ \A i \in 1..n : box2[i] = box[i]
  OBVIOUS
<1>3. /\ V \in [0..n -> States \cup {"refused"}] /\ V[0] = s.state
      /\ \A i \in 1..n : Follows(V[i - 1], box[i].kind, V[i])
      /\ a = "refused" \/ phase = Phase[a] \/ (a = "PLAY" /\ phase = "waiting")
      /\ \A i \in 0..n : V[i] = "PLAY" => a \in {"PLAY", "refused"}
  BY <1>1 DEF Walk
<1>4. a \in States \cup {"refused"} /\ phase # "waiting"
  BY <1>2, <1>3, StateFacts
<1> HIDE DEF a, n, box2
<1>5. a = "refused" \/ (phase = Phase[a] /\ k \in Sends[Phase[a]] /\ a \in States)
  BY <1>3, <1>4
<1>6. /\ DOMAIN PhaseAfter = {"HANDSHAKE_STATUS", "HANDSHAKE_LOGIN", "HANDSHAKE_OTHER",
                              "LOGIN_START", "LOGIN_EMPTY", "MALFORMED"}
      /\ PhaseAfter["HANDSHAKE_STATUS"] = "status" /\ PhaseAfter["HANDSHAKE_LOGIN"] = "login"
      /\ PhaseAfter["LOGIN_START"] = "waiting"
  BY DEF PhaseAfter
<1>7. /\ b \in States \cup {"refused"}
      /\ a = "PLAY" => b \in {"PLAY", "refused"}
      /\ a = "refused" => b = "refused"
      /\ b = "refused" \/ after = Phase[b] \/ (b = "PLAY" /\ after = "waiting")
  <2>1. CASE a = "refused"
    BY <2>1
  <2>2. CASE a # "refused"
    <3>1. phase = Phase[a] /\ k \in Sends[Phase[a]] /\ a \in States /\ b = After(a, k)
      BY <1>5, <2>2
    <3> HIDE DEF b, k, after
    <3>2. CASE k \in Improper
      BY <2>2, <3>1, <3>2 DEF After
    <3>3. CASE k \in DOMAIN NextState
      <4>1. b = NextState[k] /\ k \in {"HANDSHAKE_STATUS", "HANDSHAKE_LOGIN"} /\ k \in Handshakes
        BY <3>1, <3>3, StateFacts DEF After, Improper, Handshakes
      <4>2. a # "PLAY"
        BY <3>1, <4>1, StateFacts DEF Commands
      <4>3. after = Phase[b] /\ b \in States
        BY <1>6, <4>1, StateFacts DEF after, States
      <4> QED
        BY <2>2, <4>2, <4>3
    <3>4. CASE k = "LOGIN_START"
      <4>1. b = "PLAY" /\ after = "waiting"
        BY <1>6, <3>1, <3>4, StateFacts DEF After, Improper, after
      <4> QED
        BY <2>2, <4>1 DEF States
    <3>5. CASE k \notin Improper /\ k \notin DOMAIN NextState /\ k # "LOGIN_START"
      <4>1. b = a /\ after = phase
        BY <1>6, <3>1, <3>5, StateFacts DEF After, Improper, after
      <4> QED
        BY <2>2, <3>1, <4>1
    <3> QED
      BY <3>2, <3>3, <3>4, <3>5
  <2> QED
    BY <2>1, <2>2
<1> HIDE DEF after
<1>8. Follows(a, k, b)
  BY <1>5 DEF Follows
<1> HIDE DEF b, k
<1>9. /\ W \in [0..(n + 1) -> States \cup {"refused"}] /\ W[n + 1] = b
      /\ \A i \in 0..n : W[i] = V[i]
  BY <1>2, <1>3, <1>7
<1> HIDE DEF W
<1>10. ASSUME NEW i \in 1..(n + 1) PROVE Follows(W[i - 1], box2[i].kind, W[i])
  <2>1. CASE i = n + 1
    <3>1. i - 1 = n /\ n \in 0..n
      BY <1>2, <2>1
    <3>2. W[i - 1] = a /\ box2[i].kind = k /\ W[i] = b
      BY <1>2, <1>9, <2>1, <3>1 DEF a, k
    <3> QED
      BY <1>8, <3>2
  <2>2. CASE i # n + 1
    <3>1. i \in 1..n /\ i - 1 \in 0..n /\ i \in 0..n
      BY <1>2, <2>2
    <3> QED
      BY <1>2, <1>3, <1>9, <3>1
  <2> QED
    BY <2>1, <2>2
<1>11. ASSUME NEW i \in 0..(n + 1), W[i] = "PLAY" PROVE W[n + 1] \in {"PLAY", "refused"}
  <2>1. CASE i = n + 1
    BY <1>11, <2>1
  <2>2. CASE i # n + 1
    <3>1. i \in 0..n
      BY <1>2, <2>2
    <3>2. a \in {"PLAY", "refused"}
      BY <1>3, <1>9, <1>11, <3>1
    <3> QED
      BY <1>7, <1>9, <3>2
  <2> QED
    BY <2>1, <2>2
<1>12. W[0] = s.state
  BY <1>2, <1>3, <1>9
<1>13. Walk(W, box2, s.state, after)
  BY <1>2, <1>7, <1>9, <1>10, <1>11, <1>12 DEF Walk
<1> QED
  BY <1>13 DEF Proper, after, k, box2

\* In Play the client may be told so at any time.
LEMMA WalkTold ==
    ASSUME NEW s, NEW box \in Seq(Incoming), NEW phase, Proper(s, box, phase), s.state = "PLAY"
    PROVE  Proper(s, box, "play")
<1>1. PICK V : Walk(V, box, s.state, phase)
  BY DEF Proper
<1>2. V[Len(box)] \in {"PLAY", "refused"}
  BY <1>1 DEF Walk
<1>3. Walk(V, box, s.state, "play")
  BY <1>1, <1>2, StateFacts DEF Walk
<1> QED
  BY <1>3 DEF Proper

-----------------------------------------------------------------------------
(* The socket.                                                             *)

\* What the client reads from the socket it knows then.
LEMMA SockRead ==
    ASSUME NEW s, NEW q \in Seq(Unit), q # <<>>, NEW c \in Client, NEW m \in View,
           SockAgreed(s, q, c, m)
    PROVE  LET d == ClientTakes(c, Head(q)) IN
           /\ SockAgreed(s, Tail(q), d, m)
           /\ d \in Client /\ d.confused \subseteq c.confused \cup {"torn"}
<1> DEFINE u == Head(q)
           d == ClientTakes(c, u)
           n == Len(q) - 1
<1>1. /\ n \in Nat /\ Len(q) = n + 1 /\ u = q[1] /\ u \in Unit
      /\ Tail(q) \in Seq(Unit) /\ Len(Tail(q)) = n
      /\ \A i \in 1..n : Tail(q)[i] = q[i + 1]
  BY TailFacts
<1> HIDE DEF u
<1>2. /\ ClientView(d) = IF Ends(u) THEN Learn(ClientView(c), u.packet) ELSE ClientView(c)
      /\ d.confused = c.confused \cup (IF u.part = c.part + 1 THEN {} ELSE {"torn"})
                        \cup (IF Ends(u) THEN Surprises(ClientView(c), u.packet) ELSE {})
      /\ ClientView(d) \in View => d \in Client
  BY <1>1, TakesFacts
<1> HIDE DEF d
<1>3. PICK V : /\ Trace(V, q, ClientView(c), m)
               /\ s.state # "PLAY" => \A i \in 0..Len(q) : V[i] = m
  BY DEF SockAgreed
<1>4. /\ V \in [0..Len(q) -> View] /\ V[0] = ClientView(c) /\ V[Len(q)] = m
      /\ \A i \in 1..Len(q) : Leads(V[i - 1], q[i], V[i])
  BY <1>3 DEF Trace
<1>5. Leads(ClientView(c), u, V[1]) /\ V[1] \in View
  <2>1. 1 \in 1..Len(q) /\ 1 \in 0..Len(q) /\ 1 - 1 = 0
    BY <1>1
  <2>2. Leads(V[1 - 1], q[1], V[1])
    BY <1>4, <2>1
  <2> QED
    BY <1>1, <1>4, <2>1, <2>2
<1>6. ClientView(d) = V[1]
  BY <1>2, <1>5 DEF Leads
<1>7. d \in Client /\ d.confused \subseteq c.confused \cup {"torn"}
  <2>1. Ends(u) => Surprises(ClientView(c), u.packet) = {}
    BY <1>5 DEF Leads
  <2> QED
    BY <1>2, <1>5, <1>6, <2>1
<1>8. SockAgreed(s, Tail(q), d, m)
  <2> DEFINE W == [i \in 0..n |-> V[i + 1]]
  <2>1. \A i \in 0..n : i + 1 \in 0..Len(q) /\ W[i] = V[i + 1]
    BY <1>1
  <2>2. W \in [0..n -> View] /\ W[0] = ClientView(d) /\ W[n] = m
    BY <1>1, <1>4, <1>6, <2>1
  <2> HIDE DEF W
  <2>3. ASSUME NEW i \in 1..n PROVE Leads(W[i - 1], Tail(q)[i], W[i])
    <3>1. /\ i + 1 \in 1..Len(q) /\ (i + 1) - 1 = i
          /\ i - 1 \in 0..n /\ i \in 0..n /\ (i - 1) + 1 = i
      BY <1>1
    <3>2. Leads(V[(i + 1) - 1], q[i + 1], V[i + 1])
      BY <1>4, <3>1
    <3>3. W[i - 1] = V[i] /\ W[i] = V[i + 1]
      BY <2>1, <3>1
    <3> QED
      BY <1>1, <3>1, <3>2, <3>3
  <2>4. s.state # "PLAY" => \A i \in 0..n : W[i] = m
    BY <1>3, <2>1
  <2> HIDE DEF n
  <2>5. Trace(W, Tail(q), ClientView(d), m)
    BY <1>1, <2>2, <2>3 DEF Trace
  <2> QED
    BY <1>1, <2>4, <2>5 DEF SockAgreed
<1> QED
  BY <1>7, <1>8 DEF d, u

\* The parts of a ring that the socket takes some of.
LEMMA SplitFacts ==
    ASSUME NEW q \in Seq(Unit), NEW n \in 1..Len(q)
    PROVE  LET a == SubSeq(q, 1, n)
               b == SubSeq(q, n + 1, Len(q)) IN
           /\ a \in Seq(Unit) /\ b \in Seq(Unit) /\ n \in Nat /\ Len(q) \in Nat
           /\ Len(a) = n /\ Len(b) = Len(q) - n
           /\ \A i \in 1..n : a[i] = q[i]
           /\ \A i \in 1..(Len(q) - n) : b[i] = q[n + i]
<1>1. n \in Nat /\ Len(q) \in Nat /\ n <= Len(q)
  OBVIOUS
<1>2. /\ SubSeq(q, 1, n) \in Seq(Unit) /\ Len(SubSeq(q, 1, n)) = n
      /\ \A i \in 1..n : SubSeq(q, 1, n)[i] = q[i]
  BY <1>1
<1>3. Len(SubSeq(q, n + 1, Len(q))) = Len(q) - n
  BY <1>1
<1>4. \A i \in 1..(Len(q) - n) : SubSeq(q, n + 1, Len(q))[i] = q[n + i]
  BY <1>1
<1>5. SubSeq(q, n + 1, Len(q)) \in Seq(Unit)
  BY <1>1
<1> QED
  BY <1>1, <1>2, <1>3, <1>4, <1>5

\* What the ring hands to the socket moves the meeting point of the two.
LEMMA SockSend ==
    ASSUME NEW s, NEW k \in Seq(Unit), NEW q, NEW c, NEW m \in View, RingOK(s, q),
           SockAgreed(s, k, c, m), Agreed(s, q, m), NEW n \in 1..Len(q), ServerOK(s)
    PROVE  LET a == SubSeq(q, 1, n)
               b == SubSeq(q, n + 1, Len(q)) IN
           /\ RingOK(s, b)
           /\ \E x \in View : SockAgreed(s, k \o a, c, x) /\ Agreed(s, b, x)
<1> DEFINE a == SubSeq(q, 1, n)
           b == SubSeq(q, n + 1, Len(q))
           l == Len(q) - n
<1>0. q \in Seq(Unit) /\ Len(q) <= TxCap /\ TxCap \in Nat
      /\ \A i \in 1..Len(q) : q[i].packet.session = s.session
  BY ServerAssumption DEF RingOK, ServerAssumption
<1>1. /\ a \in Seq(Unit) /\ b \in Seq(Unit) /\ n \in Nat \ {0} /\ Len(q) = n + l /\ l \in Nat
      /\ Len(a) = n /\ Len(b) = l
      /\ \A i \in 1..n : a[i] = q[i]
      /\ \A i \in 1..l : b[i] = q[n + i]
  BY <1>0, SplitFacts
<1> HIDE DEF a, b, l
<1>2. RingOK(s, b)
  <2>1. \A i \in 1..l : n + i \in 1..Len(q)
    BY <1>1
  <2> QED
    BY <1>0, <1>1, <2>1 DEF RingOK
<1>3. PICK U : /\ Trace(U, k, ClientView(c), m)
               /\ s.state # "PLAY" => \A i \in 0..Len(k) : U[i] = m
  BY DEF SockAgreed
<1>4. PICK V : /\ Trace(V, q, m, ServerView(s))
               /\ s.state # "PLAY" => \A i \in 0..Len(q) : V[i] = ServerView(s)
  BY ViewOfView DEF Agreed
<1>5. /\ V \in [0..Len(q) -> View] /\ V[0] = m /\ V[Len(q)] = ServerView(s)
      /\ \A i \in 1..Len(q) : Leads(V[i - 1], q[i], V[i])
  BY <1>4 DEF Trace
<1> DEFINE x == V[n]
           A == [i \in 0..n |-> V[i]]
           B == [i \in 0..l |-> V[n + i]]
<1>6. x \in View
  BY <1>1, <1>5
<1>7. Trace(A, a, m, x)
  <2>1. A \in [0..n -> View] /\ A[0] = m /\ A[n] = x /\ \A i \in 0..n : A[i] = V[i]
    BY <1>1, <1>5
  <2> HIDE DEF A, x
  <2>2. ASSUME NEW i \in 1..n PROVE Leads(A[i - 1], a[i], A[i])
    <3>1. i \in 1..Len(q) /\ i - 1 \in 0..n /\ i \in 0..n
      BY <1>1
    <3> QED
      BY <1>1, <1>5, <2>1, <3>1
  <2> QED
    BY <1>1, <2>1, <2>2 DEF Trace
<1>8. Trace(B, b, x, ServerView(s))
  <2>1. \A i \in 0..l : n + i \in 0..Len(q) /\ B[i] = V[n + i]
    BY <1>1
  <2>2. B \in [0..l -> View] /\ B[0] = x /\ B[l] = ServerView(s)
    BY <1>1, <1>5, <2>1
  <2> HIDE DEF B, x
  <2>3. ASSUME NEW i \in 1..l PROVE Leads(B[i - 1], b[i], B[i])
    <3>1. n + i \in 1..Len(q) /\ i - 1 \in 0..l /\ i \in 0..l /\ n + (i - 1) = (n + i) - 1
      BY <1>1
    <3>2. Leads(V[(n + i) - 1], q[n + i], V[n + i])
      BY <1>5, <3>1
    <3> QED
      BY <1>1, <2>1, <3>1, <3>2
  <2> QED
    BY <1>1, <2>2, <2>3 DEF Trace
<1>9. Agreed(s, b, x)
  <2>1. s.state # "PLAY" => \A i \in 0..Len(b) : B[i] = ServerView(s)
    BY <1>1, <1>4
  <2> HIDE DEF B, x
  <2>2. ClientView(x) = x
    BY <1>6, ViewOfView
  <2> QED
    BY <1>8, <2>1, <2>2 DEF Agreed
<1>10. SockAgreed(s, k \o a, c, x)
  <2> DEFINE X == [i \in 0..(Len(k) + Len(a)) |-> IF i <= Len(k) THEN U[i] ELSE A[i - Len(k)]]
  <2> HIDE DEF A, X, x
  <2>0. Len(k) \in Nat /\ Len(k \o a) = Len(k) + Len(a)
    <3>1. a \in Seq(Unit) /\ k \in Seq(Unit)
      BY <1>1
    <3> QED
      BY <3>1, ConcatFacts
  <2> USE DEF X
  <2>1. Trace(X, k \o a, ClientView(c), x)
    <3>1. a \in Seq(Unit) /\ Trace(U, k, ClientView(c), m) /\ Trace(A, a, m, x)
      BY <1>1, <1>3, <1>7
    <3> QED
      BY <3>1, JoinTraces, SMTT(30)
  <2>2. ASSUME s.state # "PLAY", NEW i \in 0..Len(k \o a) PROVE X[i] = x
    <3>1. m = ServerView(s) /\ x = ServerView(s) /\ \A j \in 0..n : A[j] = x
      <4>1. 0 \in 0..Len(q) /\ n \in 0..Len(q) /\ \A j \in 0..n : j \in 0..Len(q)
        BY <1>1
      <4>2. \A j \in 0..Len(q) : V[j] = ServerView(s)
        BY <1>4, <2>2
      <4> QED
        BY <1>5, <4>1, <4>2 DEF A, x
    <3>2. CASE i <= Len(k)
      <4>1. i \in 0..Len(k) /\ X[i] = U[i]
        BY <2>0, <3>2
      <4> QED
        BY <1>3, <2>2, <3>1, <4>1
    <3>3. CASE ~(i <= Len(k))
      <4>1. i - Len(k) \in 0..n /\ X[i] = A[i - Len(k)]
        BY <1>1, <2>0, <3>3
      <4> QED
        BY <3>1, <4>1
    <3> QED
      BY <3>2, <3>3
  <2> HIDE DEF X
  <2> QED
    BY <2>1, <2>2 DEF SockAgreed
<1> QED
  BY <1>2, <1>6, <1>9, <1>10 DEF a, b, x

-----------------------------------------------------------------------------
(* The invariant is inductive.                                             *)

\* A session begins, or the next one, with nothing known and nothing on its way.
LEMMA FreshHost ==
    /\ HostInit => HostInv
    /\ \A reason : HostInv /\ reason # "no room" /\ EndClient(reason) => HostInv'
<1> DEFINE W == [i \in 0..0 |-> "HANDSHAKE"]
           m == ClientView(NewClient)
           X == [i \in 0..0 |-> m]
<1>1. Proper(Fresh, <<>>, "new")
  <2>1. /\ W \in [0..0 -> States \cup {"refused"}] /\ W[0] = "HANDSHAKE"
        /\ \A i \in 0..0 : W[i] # "PLAY"
    BY DEF States
  <2> HIDE DEF W
  <2>2. Len(<<>>) = 0 /\ 1..0 = {} /\ Fresh.state = "HANDSHAKE"
    BY FreshFacts
  <2>3. Walk(W, <<>>, Fresh.state, "new")
    BY <2>1, <2>2, StateFacts DEF Walk
  <2> QED
    BY <2>3 DEF Proper
<1>2. /\ m \in View /\ SockAgreed(Fresh, <<>>, NewClient, m) /\ Agreed(Fresh, <<>>, m)
  <2>1. NewClient \in Client /\ Agreed(Fresh, <<>>, NewClient)
    BY FreshFacts
  <2>2. m \in View
    BY <2>1 DEF Client, View, ClientView
  <2>3. ClientView(m) = m
    BY <2>2, ViewOfView
  <2>4. Agreed(Fresh, <<>>, m)
    BY <2>1, <2>3 DEF Agreed
  <2>5. SockAgreed(Fresh, <<>>, NewClient, m)
    <3>1. Len(<<>>) = 0 /\ 1..0 = {} /\ 0..0 = {0}
      OBVIOUS
    <3>2. X \in [0..0 -> View] /\ X[0] = m /\ \A i \in 0..0 : X[i] = m
      BY <2>2
    <3> HIDE DEF X, m
    <3>3. Trace(X, <<>>, m, m)
      BY <3>1, <3>2 DEF Trace
    <3> QED
      BY <3>1, <3>2, <3>3 DEF SockAgreed, m
  <2> QED
    BY <2>2, <2>4, <2>5
<1>3. /\ ServerOK(Fresh) /\ RingOK(Fresh, <<>>) /\ NewClient \in Client /\ NewClient.confused = {}
      /\ NewClient.phase = "new" /\ <<>> \in Seq(Unit) /\ <<>> \in Seq(Incoming)
      /\ NoSuccess(<<>>) /\ Len(<<>>) = 0 /\ 0 \in 0..(TickMod - 1)
  BY FreshFacts, ServerAssumption DEF NewClient, NoSuccess, ServerAssumption
<1> HIDE DEF m, W, X
<1>4. ASSUME HostInit PROVE HostInv
  <2>1. /\ srv = Fresh /\ tx = <<>> /\ inbox = <<>> /\ client = NewClient /\ now = 0
        /\ pc = "accept" /\ left = 0 /\ sock = <<>> /\ ended = "none"
    BY <1>4 DEF HostInit, Init
  <2>2. HostAgreed
    BY <1>2, <2>1 DEF HostAgreed
  <2>3. InboxOK
    BY <1>3, <2>1 DEF InboxOK
  <2>4. ThreadOK
    BY <1>3, <2>1 DEF ThreadOK, RefusedOnlyIfStalled
  <2> QED
    BY <1>1, <1>3, <2>1, <2>2, <2>3, <2>4 DEF HostInv
<1>5. ASSUME NEW reason, HostInv, reason # "no room", EndClient(reason) PROVE HostInv'
  <2>1. /\ srv' = Fresh /\ tx' = <<>> /\ inbox' = <<>> /\ client' = NewClient /\ now' = now
        /\ pc' = "accept" /\ left' = 0 /\ sock' = <<>> /\ ended' = reason
    BY <1>5 DEF EndClient, NewSession
  <2>2. HostAgreed'
    BY <1>2, <2>1 DEF HostAgreed
  <2>3. InboxOK'
    BY <1>3, <2>1 DEF InboxOK
  <2>4. ThreadOK'
    <3>1. left' \in 0..Len(inbox') /\ pc' # "poll"
      BY <1>3, <2>1
    <3>2. ended' # "no room"
      BY <1>5, <2>1, Zenon
    <3> QED
      BY <3>1, <3>2 DEF ThreadOK, RefusedOnlyIfStalled
  <2>5. now' \in 0..(TickMod - 1)
    BY <1>5, <2>1 DEF HostInv
  <2> QED
    BY <1>1, <1>3, <2>1, <2>2, <2>3, <2>4, <2>5 DEF HostInv
<1> QED
  BY <1>4, <1>5

\* The thread goes from one place to another.
LEMMA MoveInv ==
    ASSUME HostInv, UNCHANGED <<vars, sock, left>>, pc' = "poll" => tx = <<>> \/ stalled',
           ended' # "no room"
    PROVE  HostInv'
<1>1. UNCHANGED <<srv, tx, inbox, client, now, sock, left>>
  BY DEF vars
<1>2. HostAgreed'
  BY <1>1 DEF HostInv, HostAgreed
<1>3. ThreadOK' /\ InboxOK'
  BY <1>1 DEF HostInv, ThreadOK, RefusedOnlyIfStalled, InboxOK
<1> QED
  BY <1>1, <1>2, <1>3 DEF HostInv

\* Want of room is a reason only when the ring is empty, or the client has
\* stalled and is blamed for it.
Excused(why) == why = "no room" => tx = <<>> \/ stalled

\* mc_server_receive: the packet was sent by a client that knew what state
\* it would meet; it is refused only if it is improper or does not fit, and
\* into an empty ring it fits.
LEMMA MeetInv ==
    ASSUME HostInv, inbox # <<>>, NEW n \in 0..(Len(inbox) - 1), NEW why, MeetPacket(n, why),
           Excused(why)
    PROVE  HostInv'
<1> DEFINE p == Head(inbox)
           r == handle_packet(srv, tx, p)
<1>0. /\ inbox \in Seq(Incoming) /\ Len(inbox) \in Nat \ {0} /\ p = inbox[1]
      /\ Tail(inbox) \in Seq(Incoming) /\ Len(Tail(inbox)) = Len(inbox) - 1
      /\ \A i \in 1..(Len(inbox) - 1) : Tail(inbox)[i] = inbox[i + 1]
      /\ ServerOK(srv) /\ srv.state \in States
  <2> HIDE DEF r
  <2>1. ServerOK(srv) /\ srv.state \in States
    BY DEF HostInv, ServerOK, Server, States
  <2>2. inbox \in Seq(Incoming) /\ inbox # <<>>
    BY DEF HostInv, InboxOK
  <2>3. /\ Len(inbox) \in Nat \ {0} /\ p = inbox[1]
        /\ Tail(inbox) \in Seq(Incoming) /\ Len(Tail(inbox)) = Len(inbox) - 1
        /\ \A i \in 1..(Len(inbox) - 1) : Tail(inbox)[i] = inbox[i + 1]
    BY <2>2, TailFacts
  <2> HIDE DEF p
  <2> QED
    BY <2>1, <2>2, <2>3
<1> HIDE DEF p, r
<1>1. /\ p.kind = "TIME" => p.val \in Nat
      /\ p.kind = "WEATHER" => p.val \in Weathers
  <2>1. 1 \in 1..Len(inbox)
    BY <1>0
  <2> QED
    BY <1>0, <2>1 DEF HostInv, InboxOK
<1>2. PICK V : Walk(V, inbox, srv.state, client.phase)
  BY DEF HostInv, Proper
<1>3. p.kind \in Sends[Phase[srv.state]] /\ V[1] = After(srv.state, p.kind)
  <2>1. inbox \in Seq(Incoming) /\ srv.state \in States /\ p = inbox[1]
    BY <1>0
  <2>2. inbox[1].kind \in Sends[Phase[srv.state]] /\ V[1] = After(srv.state, inbox[1].kind)
    BY <1>2, <2>1, WalkFirst, ZenonT(30)
  <2> QED
    BY <2>1, <2>2
<1>4. CASE ~r.ok
  <2>1. PICK reason : /\ EndClient(reason)
                      /\ reason = IF p.kind \in Improper THEN "improper packet"
                                  ELSE IF stalled THEN "no room, client stalled" ELSE why
    BY <1>4 DEF MeetPacket, p, r
  <2>2. reason # "no room"
    <3>1. CASE p.kind \in Improper \/ stalled
      BY <2>1, <3>1
    <3>2. CASE p.kind \notin Improper /\ ~stalled
      <4> SUFFICES ASSUME reason = "no room" PROVE FALSE
        OBVIOUS
      <4>1. tx = <<>>
        BY <2>1, <3>2 DEF Excused
      <4>2. handle_packet(srv, <<>>, p).ok
        BY <1>0, <1>1, <1>3, <3>2, ProperAccepted
      <4> QED
        BY <1>4, <4>1, <4>2 DEF r
    <3> QED
      BY <3>1, <3>2
  <2> QED
    BY <2>1, <2>2, FreshHost
<1>5. CASE r.ok
  <2>1. /\ srv' = r.srv /\ tx' = r.tx /\ inbox' = Tail(inbox)
        /\ left' = n /\ pc' = "receive"
        /\ UNCHANGED <<client, now, sock, ended>>
    BY <1>5 DEF MeetPacket, p, r
  <2>2. PICK m \in View : SockAgreed(srv, sock, client, m) /\ Agreed(srv, tx, m)
    BY DEF HostInv, HostAgreed
  <2>3. Accepted(srv, tx, m, p, r)
    BY <1>0, <1>1, <1>5, <2>2, HandleKept DEF HostInv, r
  <2>4. p.kind \notin Improper
    BY <1>0, <1>3, <1>5, ImproperRefused DEF r
  <2>5. /\ r.srv.state = After(srv.state, p.kind)
        /\ r.srv.state # "PLAY" => srv.state # "PLAY" /\ NoSuccess(r.tx)
    <3>1. srv.state # "PLAY" => NoSuccess(tx)
      BY DEF HostInv
    <3>2. RingOK(srv, tx)
      BY DEF HostInv
    <3> QED
      BY <1>0, <1>1, <1>3, <1>5, <2>2, <2>4, <3>1, <3>2, ProperHandled DEF r
  <2>6. ServerOK(srv') /\ RingOK(srv', tx') /\ Agreed(srv', tx', m)
    BY <2>1, <2>3 DEF Accepted
  <2>7. SockAgreed(srv', sock', client', m)
    BY <2>1, <2>2, <2>5 DEF SockAgreed
  <2>8. Proper(srv', inbox', client'.phase)
    <3>1. srv'.state = V[1]
      BY <1>3, <2>1, <2>5
    <3>2. Proper(srv', Tail(inbox), client.phase)
      BY <1>0, <1>2, <3>1, WalkOn
    <3> QED
      BY <2>1, <3>2
  <2>9. InboxOK'
    <3>1. \A i \in 1..(Len(inbox) - 1) : i + 1 \in 1..Len(inbox)
      BY <1>0
    <3> QED
      BY <1>0, <2>1, <3>1 DEF HostInv, InboxOK
  <2>10. ThreadOK'
    BY <1>0, <2>1 DEF HostInv, ThreadOK, RefusedOnlyIfStalled
  <2>11. srv'.state # "PLAY" => NoSuccess(tx') /\ NoSuccess(sock')
    BY <2>1, <2>5 DEF HostInv
  <2>12. HostAgreed'
    BY <2>6, <2>7 DEF HostAgreed
  <2> QED
    BY <2>1, <2>6, <2>8, <2>9, <2>10, <2>11, <2>12 DEF HostInv
<1> QED
  BY <1>4, <1>5

\* mc_server_tick_at.
LEMMA HostTickInv ==
    ASSUME HostInv, TickServer
    PROVE  HostInv'
<1> DEFINE tOf(d) == (now + d) % TickMod
           rOf(d) == tick_at(srv, tx, tOf(d))
<1>1. PICK d \in 0..MaxStep :
          /\ now' = tOf(d) /\ srv' = rOf(d).srv /\ tx' = rOf(d).tx
          /\ Drained(IF rOf(d).ok THEN "poll" ELSE "loop")
  BY DEF TickServer
<1> DEFINE t == tOf(d)
           r == rOf(d)
<1>2. now \in 0..(TickMod - 1)
  BY DEF HostInv
<1>3. t \in 0..(TickMod - 1)
  <2>1. now + d \in Int /\ TickMod \in Nat \ {0}
    BY <1>2, ServerAssumption DEF ServerAssumption
  <2> QED
    BY <2>1
<1>4. PICK m \in View : SockAgreed(srv, sock, client, m) /\ Agreed(srv, tx, m)
  BY DEF HostInv, HostAgreed
<1>5. Ticked(srv, tx, m, t, r)
  BY <1>3, <1>4, TickTicked DEF HostInv
<1>6. /\ now' = t /\ srv' = r.srv /\ tx' = r.tx /\ pc' = "drain"
      /\ UNCHANGED <<inbox, client, left, sock, ended>>
  BY <1>1 DEF TickServer, Drained
<1> HIDE DEF t, r, tOf, rOf
<1>7. /\ ServerOK(srv') /\ RingOK(srv', tx') /\ Agreed(srv', tx', m) /\ srv'.state = srv.state
      /\ srv.state # "PLAY" => tx' = tx
  BY <1>5, <1>6 DEF Ticked, Held
<1>8. HostAgreed'
  BY <1>4, <1>6, <1>7 DEF HostAgreed, SockAgreed
<1>9. Proper(srv', inbox', client'.phase)
  BY <1>6, <1>7 DEF HostInv, Proper
<1>10. InboxOK' /\ ThreadOK'
  BY <1>6 DEF HostInv, InboxOK, ThreadOK, RefusedOnlyIfStalled
<1>11. srv'.state # "PLAY" => NoSuccess(tx') /\ NoSuccess(sock')
  BY <1>6, <1>7 DEF HostInv
<1> QED
  BY <1>3, <1>6, <1>7, <1>8, <1>9, <1>10, <1>11 DEF HostInv

\* drain_tx.
LEMMA DrainSendInv ==
    ASSUME HostInv, DrainSend
    PROVE  HostInv'
<1>1. PICK n \in 1..(SockCap - Len(sock)) :
          /\ n <= Len(tx)
          /\ sock' = sock \o SubSeq(tx, 1, n)
          /\ tx' = SubSeq(tx, n + 1, Len(tx))
  BY DEF DrainSend
<1>2. /\ UNCHANGED <<srv, inbox, client, now, left, ended>> /\ pc' = "drain"
      /\ pc = "drain"
  BY DEF DrainSend
<1>3. tx \in Seq(Unit) /\ sock \in Seq(Unit) /\ n \in 1..Len(tx)
  <2>1. tx \in Seq(Unit) /\ sock \in Seq(Unit) /\ Len(tx) \in Nat /\ Len(sock) \in Nat
    BY DEF HostInv, RingOK
  <2> QED
    BY <1>1, <2>1, HostAssumption DEF HostAssumption
<1>4. PICK m \in View : SockAgreed(srv, sock, client, m) /\ Agreed(srv, tx, m)
  BY DEF HostInv, HostAgreed
<1>5. /\ RingOK(srv, tx')
      /\ \E x \in View : SockAgreed(srv, sock', client, x) /\ Agreed(srv, tx', x)
  BY <1>1, <1>3, <1>4, SockSend DEF HostInv
<1>6. HostAgreed'
  BY <1>2, <1>5 DEF HostAgreed
<1>7. sock' \in Seq(Unit) /\ (NoSuccess(tx) /\ NoSuccess(sock) => NoSuccess(tx') /\ NoSuccess(sock'))
  <2> DEFINE a == SubSeq(tx, 1, n)
             b == SubSeq(tx, n + 1, Len(tx))
  <2>1. /\ a \in Seq(Unit) /\ b \in Seq(Unit) /\ n \in Nat /\ Len(tx) \in Nat
        /\ Len(a) = n /\ Len(b) = Len(tx) - n
        /\ \A i \in 1..n : a[i] = tx[i]
        /\ \A i \in 1..(Len(tx) - n) : b[i] = tx[n + i]
    BY <1>3, SplitFacts
  <2> HIDE DEF a, b
  <2>2. sock' = sock \o a /\ tx' = b
    BY <1>1 DEF a, b
  <2>3. NoSuccess(tx) => NoSuccess(a) /\ NoSuccess(b)
    <3>1. \A i \in 1..(Len(tx) - n) : n + i \in 1..Len(tx)
      BY <1>3, <2>1
    <3>2. \A i \in 1..n : i \in 1..Len(tx)
      BY <1>3, <2>1
    <3> QED
      BY <2>1, <3>1, <3>2 DEF NoSuccess
  <2>4. sock \o a \in Seq(Unit) /\ (NoSuccess(sock) /\ NoSuccess(a) => NoSuccess(sock \o a))
    BY <1>3, <2>1 DEF NoSuccess
  <2> QED
    BY <2>2, <2>3, <2>4
<1>8. InboxOK' /\ ThreadOK'
  BY <1>2 DEF HostInv, InboxOK, ThreadOK, RefusedOnlyIfStalled
<1> QED
  BY <1>2, <1>5, <1>6, <1>7, <1>8 DEF HostInv

\* recv takes some of the packets, and mc_server_receive meets them in turn.
LEMMA ReceiveHostInv ==
    ASSUME HostInv, Recv \/ ReceiveNext
    PROVE  HostInv'
<1>1. ASSUME Recv PROVE HostInv'
  <2>1. PICK n \in 1..Len(inbox) : MeetPacket(n - 1, "no room")
    BY <1>1 DEF Recv
  <2>2. inbox # <<>> /\ n - 1 \in 0..(Len(inbox) - 1)
    <3>1. Len(inbox) \in Nat
      BY DEF HostInv, InboxOK
    <3> QED
      BY <3>1
  <2>3. Excused("no room")
    BY <1>1 DEF Recv, HostInv, ThreadOK, Excused
  <2> QED
    BY <2>1, <2>2, <2>3, MeetInv
<1>2. ASSUME ReceiveNext PROVE HostInv'
  <2>1. left > 0 /\ MeetPacket(left - 1, "no room, burst")
    BY <1>2 DEF ReceiveNext
  <2>2. inbox # <<>> /\ left - 1 \in 0..(Len(inbox) - 1)
    <3>1. left \in 0..Len(inbox)
      BY DEF HostInv, ThreadOK
    <3>2. Len(inbox) \in Nat
      BY DEF HostInv, InboxOK
    <3>3. left > 0
      BY <2>1, Zenon
    <3> QED
      BY <3>1, <3>2, <3>3
  <2>3. Excused("no room, burst")
    BY DEF Excused
  <2> QED
    BY <2>1, <2>2, <2>3, MeetInv
<1> QED
  BY <1>1, <1>2

\* What the client reads from the socket.
LEMMA ClientReadInv ==
    ASSUME HostInv, ClientRead
    PROVE  HostInv'
<1> DEFINE u == Head(sock)
           d == ClientTakes(client, u)
<1>1. /\ sock # <<>> /\ sock' = Tail(sock) /\ client' = d
      /\ UNCHANGED <<srv, tx, inbox, now, pc, left, stalled, ended>>
  BY DEF ClientRead
<1>2. sock \in Seq(Unit) /\ client \in Client /\ inbox \in Seq(Incoming)
  BY DEF HostInv, InboxOK
<1>3. /\ Len(sock) \in Nat \ {0} /\ u = sock[1] /\ u \in Unit
      /\ Tail(sock) \in Seq(Unit) /\ Len(Tail(sock)) = Len(sock) - 1
      /\ \A i \in 1..(Len(sock) - 1) : Tail(sock)[i] = sock[i + 1]
  BY <1>1, <1>2, TailFacts
<1>4. PICK m \in View : SockAgreed(srv, sock, client, m) /\ Agreed(srv, tx, m)
  BY DEF HostInv, HostAgreed
<1>5. /\ SockAgreed(srv, Tail(sock), d, m)
      /\ d \in Client /\ d.confused \subseteq client.confused \cup {"torn"}
  BY <1>1, <1>2, <1>4, SockRead
<1>6. d.phase = client.phase \/ (d.phase = "play" /\ u.packet.name = "LOGIN_SUCCESS")
  <2> DEFINE f == IF u.part = client.part + 1 THEN client.confused ELSE client.confused \cup {"torn"}
             x == [client EXCEPT !.confused = f]
  <2>1. x = [client EXCEPT !.confused = IF u.part = client.part + 1 THEN @ ELSE @ \cup {"torn"}]
    BY <1>2 DEF Client
  <2>2. x \in Client /\ x.phase = client.phase
    <3>1. f \in SUBSET {"format", "bootstrap", "keepalive", "torn"}
      BY <1>2 DEF Client
    <3> HIDE DEF f
    <3> QED
      BY <1>2, <3>1 DEF Client
  <2>3. d = IF u.part = u.packet.units THEN ClientReads(x, u.packet) ELSE [x EXCEPT !.part = u.part]
    BY <2>1 DEF ClientTakes
  <2> HIDE DEF x, f, d, u
  <2>4. CASE u.part = u.packet.units
    <3>1. d.phase = IF u.packet.name = "LOGIN_SUCCESS" THEN "play" ELSE x.phase
      BY <2>2, <2>3, <2>4 DEF ClientReads, Client
    <3> QED
      BY <2>2, <3>1
  <2>5. CASE u.part # u.packet.units
    BY <2>2, <2>3, <2>5 DEF Client
  <2> QED
    BY <2>4, <2>5
<1>7. Proper(srv, inbox, d.phase)
  <2>1. CASE d.phase = client.phase
    BY <2>1 DEF HostInv
  <2>2. CASE d.phase = "play" /\ u.packet.name = "LOGIN_SUCCESS"
    <3>1. ~NoSuccess(sock)
      <4>1. 1 \in 1..Len(sock)
        BY <1>3
      <4> QED
        BY <1>3, <2>2, <4>1 DEF NoSuccess
    <3>2. srv.state = "PLAY"
      BY <3>1 DEF HostInv
    <3>3. Proper(srv, inbox, "play")
      BY <1>2, <3>2, WalkTold DEF HostInv
    <3> QED
      BY <2>2, <3>3
  <2> QED
    BY <1>6, <2>1, <2>2
<1> HIDE DEF u, d
<1>8. srv.state # "PLAY" => NoSuccess(tx) /\ NoSuccess(sock')
  <2>1. ASSUME NoSuccess(sock) PROVE NoSuccess(Tail(sock))
    <3> SUFFICES ASSUME NEW i \in 1..Len(Tail(sock))
                 PROVE  Tail(sock)[i].packet.name # "LOGIN_SUCCESS"
      BY DEF NoSuccess
    <3>1. i \in 1..(Len(sock) - 1) /\ i + 1 \in 1..Len(sock)
      BY <1>3
    <3> QED
      BY <1>3, <2>1, <3>1 DEF NoSuccess
  <2> QED
    BY <1>1, <2>1 DEF HostInv
<1>9. HostAgreed'
  BY <1>1, <1>4, <1>5 DEF HostAgreed
<1>10. InboxOK' /\ ThreadOK'
  BY <1>1 DEF HostInv, InboxOK, ThreadOK, RefusedOnlyIfStalled
<1>11. client' \in Client /\ client'.confused \subseteq {"torn"} /\ sock' \in Seq(Unit)
  BY <1>1, <1>3, <1>5 DEF HostInv
<1> QED
  BY <1>1, <1>7, <1>8, <1>9, <1>10, <1>11 DEF HostInv

\* What the client sends.
LEMMA ClientWritesInv ==
    ASSUME HostInv, ClientWrites
    PROVE  HostInv'
<1>0. PICK k \in Sends[client.phase] \cap Kinds :
          /\ \E v \in (IF k \in DOMAIN Values THEN Values[k] ELSE {0}) :
                inbox' = Append(inbox, [kind |-> k, val |-> v])
          /\ client' = [client EXCEPT
                !.phase = IF k \in DOMAIN PhaseAfter THEN PhaseAfter[k] ELSE @,
                !.commands = IF k \in Commands THEN @ + 1 ELSE @,
                !.handshakes = IF k \in Handshakes THEN IF @ = 2 THEN 2 ELSE @ + 1 ELSE @]
  BY DEF ClientWrites, ClientSend
<1>1. PICK v \in (IF k \in DOMAIN Values THEN Values[k] ELSE {0}) :
          inbox' = Append(inbox, [kind |-> k, val |-> v])
  BY <1>0
<1>2. UNCHANGED <<srv, tx, now, pc, left, sock, stalled, ended>>
  BY DEF ClientWrites, ClientSend, host
<1> DEFINE p == [kind |-> k, val |-> v]
           phase == IF k \in DOMAIN PhaseAfter THEN PhaseAfter[k] ELSE client.phase
<1>3. /\ v \in Nat \cup Weathers
      /\ k = "TIME" => v \in Nat
      /\ k = "WEATHER" => v \in Weathers
  <2>1. DOMAIN Values = {"TIME", "WEATHER"} /\ Values["TIME"] = Times /\ Values["WEATHER"] = Weathers
    BY DEF Values
  <2>2. Times \subseteq Nat
    BY ServerAssumption DEF ServerAssumption
  <2>3. CASE k = "TIME"
    <3>1. v \in Times
      BY <2>1, <2>3
    <3> QED
      BY <2>2, <2>3, <3>1
  <2>4. CASE k = "WEATHER"
    <3>1. v \in Weathers
      BY <2>1, <2>4
    <3> QED
      BY <2>4, <3>1
  <2>5. CASE k \notin {"TIME", "WEATHER"}
    <3>1. v = 0
      BY <2>1, <2>5
    <3> QED
      BY <2>5, <3>1
  <2> QED
    BY <2>3, <2>4, <2>5
<1>4. p \in Incoming /\ p.kind = k /\ p.val = v /\ inbox' = Append(inbox, p)
  BY <1>1, <1>3 DEF Incoming
<1> HIDE DEF p
<1>5. /\ inbox \in Seq(Incoming) /\ inbox' \in Seq(Incoming) /\ Len(inbox') = Len(inbox) + 1
      /\ Len(inbox) \in Nat /\ inbox'[Len(inbox) + 1] = p
      /\ \A i \in 1..Len(inbox) : inbox'[i] = inbox[i]
  <2>1. inbox \in Seq(Incoming)
    BY DEF HostInv, InboxOK
  <2> QED
    BY <1>4, <2>1
<1>6. InboxOK'
  <2> SUFFICES ASSUME NEW i \in 1..Len(inbox')
               PROVE  /\ inbox'[i].kind = "TIME" => inbox'[i].val \in Nat
                      /\ inbox'[i].kind = "WEATHER" => inbox'[i].val \in Weathers
    BY <1>5 DEF InboxOK
  <2>1. CASE i \in 1..Len(inbox)
    BY <1>5, <2>1 DEF HostInv, InboxOK
  <2>2. CASE i = Len(inbox) + 1
    BY <1>3, <1>4, <1>5, <2>2
  <2> QED
    BY <1>5, <2>1, <2>2
<1>7. /\ client' \in Client /\ ClientView(client') = ClientView(client)
      /\ client'.confused = client.confused /\ client'.phase = phase
      /\ client.phase \in {"new", "status", "login", "waiting", "play"}
  <2> DEFINE commands == IF k \in Commands THEN client.commands + 1 ELSE client.commands
             handshakes == IF k \in Handshakes
                           THEN IF client.handshakes = 2 THEN 2 ELSE client.handshakes + 1
                           ELSE client.handshakes
  <2>0. client \in Client
    BY DEF HostInv
  <2>1. phase \in {"new", "status", "login", "waiting", "play"}
    <3>1. ASSUME k \in DOMAIN PhaseAfter PROVE PhaseAfter[k] \in {"status", "login", "waiting"}
      BY <3>1 DEF PhaseAfter
    <3> QED
      BY <2>0, <3>1 DEF Client
  <2>2. commands \in Nat /\ handshakes \in 0..2
    BY <2>0 DEF Client
  <2>3. client' = [client EXCEPT !.phase = phase, !.commands = commands, !.handshakes = handshakes]
    BY <1>0, <2>0 DEF Client
  <2> HIDE DEF phase, commands, handshakes
  <2>4. client' \in Client /\ client'.phase = phase
    BY <2>0, <2>1, <2>2, <2>3 DEF Client
  <2>5. ClientView(client') = ClientView(client) /\ client'.confused = client.confused
    BY <2>0, <2>3 DEF ClientView, Client
  <2>6. client.phase \in {"new", "status", "login", "waiting", "play"}
    BY <2>0 DEF Client
  <2> QED
    BY <2>4, <2>5, <2>6
<1>8. Proper(srv', inbox', client'.phase)
  <2>1. Proper(srv, inbox, client.phase)
    BY DEF HostInv
  <2>2. Proper(srv, Append(inbox, p),
               IF p.kind \in DOMAIN PhaseAfter THEN PhaseAfter[p.kind] ELSE client.phase)
    BY <1>0, <1>4, <1>5, <1>7, <2>1, WalkSent
  <2>3. srv' = srv /\ inbox' = Append(inbox, p) /\ client'.phase = phase /\ p.kind = k
    BY <1>2, <1>4, <1>7
  <2> QED
    BY <2>2, <2>3
<1>9. HostAgreed'
  BY <1>2, <1>7 DEF HostInv, HostAgreed, SockAgreed
<1>10. ThreadOK'
  <2>1. left \in 0..Len(inbox)
    BY DEF HostInv, ThreadOK
  <2>2. left' \in 0..Len(inbox')
    BY <1>2, <1>5, <2>1
  <2> QED
    BY <1>2, <2>2 DEF HostInv, ThreadOK, RefusedOnlyIfStalled
<1> HIDE DEF phase
<1> QED
  BY <1>2, <1>6, <1>7, <1>8, <1>9, <1>10 DEF HostInv

\* The other steps of the thread, the client and the signal.
LEMMA MovesInv ==
    ASSUME HostInv,
           \/ Accept \/ StopAccepting \/ LoopTop \/ DrainReturns \/ DrainFails \/ Received
           \/ PollTimeout \/ PeerClosed \/ PollInterrupted \/ ClientClose \/ Signal
    PROVE  HostInv'
<1>0. ended # "no room" /\ (pc = "poll" => tx = <<>> \/ stalled)
  BY DEF HostInv, ThreadOK, RefusedOnlyIfStalled
<1>1. CASE Accept
  <2>1. UNCHANGED <<vars, sock, left>> /\ pc' # "poll" /\ ended' # "no room"
    BY <1>1 DEF Accept
  <2> QED
    BY <2>1, MoveInv
<1>2. CASE StopAccepting
  <2>1. UNCHANGED <<vars, sock, left>> /\ pc' # "poll" /\ ended' # "no room"
    BY <1>0, <1>2 DEF StopAccepting
  <2> QED
    BY <2>1, MoveInv
<1>3. CASE LoopTop
  <2>1. CASE EndClient("shutdown")
    BY <2>1, FreshHost
  <2>2. CASE Drained("tick") /\ UNCHANGED <<vars, left, sock, closed, stalled, ended, shutdown_requested>>
    <3>1. UNCHANGED <<vars, sock, left>> /\ pc' # "poll" /\ ended' # "no room"
      BY <1>0, <2>2 DEF Drained
    <3> QED
      BY <3>1, MoveInv
  <2> QED
    BY <1>3, <2>1, <2>2 DEF LoopTop
<1>4. CASE DrainReturns
  <2>1. UNCHANGED <<vars, sock, left>> /\ ended' # "no room" /\ stalled' = (tx # <<>>)
    BY <1>0, <1>4 DEF DrainReturns
  <2>2. tx = <<>> \/ stalled'
    BY <2>1
  <2> QED
    BY <2>1, <2>2, MoveInv
<1>5. CASE DrainFails
  <2>1. EndClient("send error") \/ EndClient("shutdown")
    BY <1>5 DEF DrainFails
  <2> QED
    BY <2>1, FreshHost
<1>6. CASE Received
  <2>1. UNCHANGED <<vars, sock, left>> /\ pc' # "poll" /\ ended' # "no room"
    BY <1>0, <1>6 DEF Received, Drained
  <2> QED
    BY <2>1, MoveInv
<1>7. CASE PollTimeout
  <2>1. UNCHANGED <<vars, sock, left>> /\ pc' # "poll" /\ ended' # "no room"
    BY <1>0, <1>7 DEF PollTimeout
  <2> QED
    BY <2>1, MoveInv
<1>8. CASE PeerClosed
  <2>1. EndClient("peer close") \/ EndClient("receive error")
    BY <1>8 DEF PeerClosed
  <2> QED
    BY <2>1, FreshHost
<1>9. CASE PollInterrupted
  <2>1. EndClient("shutdown")
    BY <1>9 DEF PollInterrupted
  <2> QED
    BY <2>1, FreshHost
<1>10. CASE ClientClose
  <2>1. UNCHANGED <<vars, sock, left, pc, stalled>> /\ ended' # "no room"
    BY <1>0, <1>10 DEF ClientClose
  <2> QED
    BY <1>0, <2>1, MoveInv
<1>11. CASE Signal
  <2>1. UNCHANGED <<vars, sock, left, pc, stalled>> /\ ended' # "no room"
    BY <1>0, <1>11 DEF Signal
  <2> QED
    BY <1>0, <2>1, MoveInv
<1> QED
  BY <1>1, <1>2, <1>3, <1>4, <1>5, <1>6, <1>7, <1>8, <1>9, <1>10, <1>11

LEMMA NextHost == HostInv /\ [HostNext]_hostvars => HostInv'
<1> SUFFICES ASSUME HostInv, [HostNext]_hostvars PROVE HostInv'
  OBVIOUS
<1>1. CASE UNCHANGED hostvars
  <2>1. UNCHANGED <<vars, sock, left, pc, stalled, ended>>
    BY <1>1 DEF hostvars, host
  <2>2. ended' # "no room" /\ (pc' = "poll" => tx = <<>> \/ stalled')
    BY <2>1 DEF HostInv, ThreadOK, RefusedOnlyIfStalled
  <2> QED
    BY <2>1, <2>2, MoveInv
<1>2. CASE HostNext
  BY <1>2, HostTickInv, DrainSendInv, ReceiveHostInv, ClientReadInv, ClientWritesInv, MovesInv
     DEF HostNext, Thread
<1> QED
  BY <1>1, <1>2

-----------------------------------------------------------------------------
(* Whole packets through the socket.                                       *)

\* The units of q go on from the part n of a packet to the part k of one.
Joined(q, n, k) ==
    /\ \A i \in 1..Len(q) : q[i].part = (IF i = 1 THEN n ELSE Rest(q[i - 1])) + 1
    /\ (IF q = <<>> THEN n ELSE Rest(q[Len(q)])) = k

\* While the client has sent one handshake at most, the socket goes on where
\* the client stopped reading, and the ring where the socket ends; before that
\* handshake is answered both are empty.
HostWhole ==
    /\ FirstHandshake
    /\ srv.state = "HANDSHAKE" => sock = <<>>
    /\ client.handshakes < 2 =>
          /\ client.confused = {}
          /\ \E n \in Nat : Joined(sock, client.part, n) /\ Whole(tx, n)

LEMMA RestNat ==
    ASSUME NEW u \in Unit
    PROVE  Rest(u) \in Nat
BY DEF Rest, Unit

\* Reading the first unit of the socket.
LEMMA JoinedRead ==
    ASSUME NEW q \in Seq(Unit), q # <<>>, NEW n, NEW k, Joined(q, n, k)
    PROVE  q[1].part = n + 1 /\ Joined(Tail(q), Rest(q[1]), k)
<1> DEFINE t == Tail(q)
<1>1. /\ Len(q) \in Nat \ {0} /\ t \in Seq(Unit) /\ Len(t) = Len(q) - 1
      /\ \A i \in 1..Len(t) : i + 1 \in 1..Len(q) /\ t[i] = q[i + 1]
  BY TailFacts
<1> HIDE DEF t
<1>2. 1 \in 1..Len(q)
  BY <1>1
<1>3. ASSUME NEW i \in 1..Len(t)
      PROVE  t[i].part = (IF i = 1 THEN Rest(q[1]) ELSE Rest(t[i - 1])) + 1
  <2>1. i + 1 \in 1..Len(q) /\ t[i] = q[i + 1] /\ i + 1 # 1 /\ (i + 1) - 1 = i
    BY <1>1
  <2>2. q[i + 1].part = Rest(q[i]) + 1
    BY <2>1 DEF Joined
  <2>3. CASE i = 1
    BY <2>1, <2>2, <2>3
  <2>4. CASE i # 1
    <3>1. i - 1 \in 1..Len(t) /\ (i - 1) + 1 = i
      BY <1>1, <2>4
    <3>2. t[i - 1] = q[i]
      BY <1>1, <3>1
    <3> QED
      BY <2>1, <2>2, <2>4, <3>2
  <2> QED
    BY <2>3, <2>4
<1>4. (IF t = <<>> THEN Rest(q[1]) ELSE Rest(t[Len(t)])) = k
  <2>1. Rest(q[Len(q)]) = k
    BY DEF Joined
  <2>2. CASE t = <<>>
    <3>1. Len(q) = 1
      BY <1>1, <2>2
    <3> QED
      BY <2>1, <2>2, <3>1
  <2>3. CASE t # <<>>
    <3>1. Len(t) \in 1..Len(t) /\ Len(t) + 1 = Len(q)
      BY <1>1, <2>3
    <3>2. t[Len(t)] = q[Len(q)]
      BY <1>1, <3>1
    <3> QED
      BY <2>1, <2>3, <3>2
  <2> QED
    BY <2>2, <2>3
<1>5. q[1].part = n + 1
  BY <1>2 DEF Joined
<1> QED
  BY <1>3, <1>4, <1>5 DEF Joined, t

\* The socket takes the first n units of the ring.
LEMMA JoinedSend ==
    ASSUME NEW k \in Seq(Unit), NEW q \in Seq(Unit), NEW n \in 1..Len(q),
           NEW f \in Nat, NEW g \in Nat, Joined(k, f, g), Whole(q, g)
    PROVE  LET a == SubSeq(q, 1, n)
               b == SubSeq(q, n + 1, Len(q)) IN
           \E h \in Nat : Joined(k \o a, f, h) /\ Whole(b, h)
<1> DEFINE a == SubSeq(q, 1, n)
           b == SubSeq(q, n + 1, Len(q))
           l == Len(q) - n
           h == Rest(q[n])
           r == k \o a
<1>1. /\ a \in Seq(Unit) /\ b \in Seq(Unit) /\ n \in Nat \ {0} /\ Len(q) = n + l /\ l \in Nat
      /\ Len(a) = n /\ Len(b) = l
      /\ \A i \in 1..n : a[i] = q[i]
      /\ \A i \in 1..l : b[i] = q[n + i]
  BY SplitFacts
<1> HIDE DEF a, b, l
<1>2. /\ Len(k) \in Nat /\ Len(r) = Len(k) + n
      /\ \A i \in 1..Len(k) : r[i] = k[i]
      /\ \A i \in 1..n : r[Len(k) + i] = q[i]
  <2>1. a \in Seq(Unit)
    BY <1>1
  <2>2. /\ r \in Seq(Unit) /\ Len(r) = Len(k) + Len(a)
        /\ \A i \in 1..Len(k) : r[i] = k[i]
        /\ \A i \in 1..Len(a) : r[Len(k) + i] = a[i]
    BY <2>1, ConcatFacts
  <2> HIDE DEF r
  <2> QED
    BY <1>1, <2>2
<1>3. h \in Nat
  <2>1. q[n] \in Unit
    OBVIOUS
  <2> QED
    BY <2>1, RestNat
<1>4. /\ \A i \in 1..Len(q) : q[i].part = (IF i = 1 THEN g ELSE Rest(q[i - 1])) + 1
      /\ Rest(q[Len(q)]) = 0
  <2>1. q # <<>>
    BY <1>1
  <2> QED
    BY <2>1 DEF Whole
<1>5. /\ \A i \in 1..Len(k) : k[i].part = (IF i = 1 THEN f ELSE Rest(k[i - 1])) + 1
      /\ (IF k = <<>> THEN f ELSE Rest(k[Len(k)])) = g
  BY DEF Joined
<1> HIDE DEF r
<1>6. Joined(r, f, h)
  <2>1. ASSUME NEW i \in 1..Len(r)
        PROVE  r[i].part = (IF i = 1 THEN f ELSE Rest(r[i - 1])) + 1
    <3>1. CASE i <= Len(k)
      <4>1. i \in 1..Len(k) /\ (i # 1 => i - 1 \in 1..Len(k))
        BY <1>2, <3>1
      <4> QED
        BY <1>2, <1>5, <4>1
    <3>2. CASE i = Len(k) + 1
      <4>1. 1 \in 1..n /\ r[i] = q[1] /\ q[1].part = g + 1
        BY <1>1, <1>2, <1>4, <3>2
      <4>2. (IF i = 1 THEN f ELSE Rest(r[i - 1])) = g
        <5>1. CASE k = <<>>
          BY <1>5, <3>2, <5>1
        <5>2. CASE k # <<>>
          <6>1. i # 1 /\ i - 1 = Len(k) /\ Len(k) \in 1..Len(k)
            BY <1>2, <3>2, <5>2
          <6> QED
            BY <1>2, <1>5, <5>2, <6>1
        <5> QED
          BY <5>1, <5>2
      <4> QED
        BY <4>1, <4>2
    <3>3. CASE i > Len(k) + 1
      <4> DEFINE j == i - Len(k)
      <4>1. /\ j \in 1..n /\ j # 1 /\ j - 1 \in 1..n /\ j \in 1..Len(q) /\ i # 1
            /\ i = Len(k) + j /\ i - 1 = Len(k) + (j - 1)
        BY <1>1, <1>2, <3>3
      <4> HIDE DEF j
      <4>2. r[i] = q[j] /\ r[i - 1] = q[j - 1]
        BY <1>2, <4>1
      <4>3. q[j].part = Rest(q[j - 1]) + 1
        BY <1>4, <4>1
      <4> QED
        BY <4>1, <4>2, <4>3
    <3>4. i <= Len(k) \/ i = Len(k) + 1 \/ i > Len(k) + 1
      <4>1. i \in Nat /\ Len(k) \in Nat
        BY <1>2
      <4> QED
        BY <4>1
    <3> QED
      BY <3>1, <3>2, <3>3, <3>4, Zenon
  <2>2. (IF r = <<>> THEN f ELSE Rest(r[Len(r)])) = h
    <3>1. n \in 1..n /\ r # <<>> /\ r[Len(r)] = q[n]
      BY <1>1, <1>2
    <3> QED
      BY <3>1
  <2> QED
    BY <2>1, <2>2 DEF Joined
<1>7. Whole(b, h)
  <2>1. ASSUME NEW i \in 1..Len(b)
        PROVE  b[i].part = (IF i = 1 THEN h ELSE Rest(b[i - 1])) + 1
    <3>1. n + i \in 1..Len(q) /\ n + i # 1 /\ (n + i) - 1 = n + (i - 1) /\ i \in 1..l
      BY <1>1
    <3>2. b[i].part = Rest(q[n + (i - 1)]) + 1
      BY <1>1, <1>4, <3>1
    <3>3. CASE i = 1
      <4>1. n + (i - 1) = n
        BY <1>1, <3>3
      <4> QED
        BY <3>2, <3>3, <4>1
    <3>4. CASE i # 1
      <4>1. i - 1 \in 1..l
        BY <1>1, <3>1, <3>4
      <4>2. b[i - 1] = q[n + (i - 1)]
        BY <1>1, <4>1
      <4> QED
        BY <3>2, <3>4, <4>2
    <3> QED
      BY <3>3, <3>4
  <2>2. (IF b = <<>> THEN h ELSE Rest(b[Len(b)])) = 0
    <3>1. CASE b = <<>>
      <4>1. Len(q) = n
        BY <1>1, <3>1
      <4> QED
        BY <1>4, <3>1, <4>1
    <3>2. CASE b # <<>>
      <4>1. l \in 1..l /\ Len(q) = n + l
        BY <1>1, <3>2
      <4>2. b[Len(b)] = q[Len(q)]
        BY <1>1, <4>1
      <4> QED
        BY <1>4, <3>2, <4>2
    <3> QED
      BY <3>1, <3>2
  <2> QED
    BY <2>1, <2>2 DEF Whole
<1> HIDE DEF h
<1> QED
  BY <1>3, <1>6, <1>7 DEF a, b, r

\* A new session has read nothing, and nothing is on its way.
LEMMA FreshWhole ==
    /\ HostInit => HostWhole
    /\ \A reason : EndClient(reason) => HostWhole'
<1>1. Joined(<<>>, 0, 0) /\ Whole(<<>>, 0) /\ 0 \in Nat
  BY FreshFacts DEF Joined
<1>2. ASSUME HostInit PROVE HostWhole
  <2>1. FirstHandshake
    BY <1>2, FreshFacts DEF HostInit, Init, FirstHandshake
  <2>2. sock = <<>> /\ tx = <<>> /\ client.part = 0 /\ client.confused = {}
    BY <1>2, FreshFacts DEF HostInit, Init
  <2> QED
    BY <1>1, <2>1, <2>2 DEF HostWhole
<1>3. ASSUME NEW reason, EndClient(reason) PROVE HostWhole'
  <2>1. FirstHandshake'
    BY <1>3, FreshFacts DEF EndClient, NewSession, FirstHandshake
  <2>2. sock' = <<>> /\ tx' = <<>> /\ client'.part = 0 /\ client'.confused = {}
    BY <1>3, FreshFacts DEF EndClient, NewSession
  <2> QED
    BY <1>1, <2>1, <2>2 DEF HostWhole
<1> QED
  BY <1>2, <1>3

\* A step that leaves the session's state alone.
LEMMA StillWhole ==
    ASSUME HostWhole, UNCHANGED <<srv, tx, inbox, client, sock>>
    PROVE  HostWhole'
BY DEF HostWhole, FirstHandshake

\* mc_server_receive: an answer is whole packets; the one handshake finds
\* nothing in the socket and leaves nothing in the ring.
LEMMA MeetWhole ==
    ASSUME HostInv, HostWhole, inbox # <<>>, NEW n, NEW why, MeetPacket(n, why)
    PROVE  HostWhole'
<1> DEFINE p == Head(inbox)
           r == handle_packet(srv, tx, p)
<1>0. /\ inbox \in Seq(Incoming) /\ Len(inbox) \in Nat \ {0} /\ p = inbox[1] /\ 1 \in 1..Len(inbox)
  BY TailFacts DEF HostInv, InboxOK
<1>1. /\ p.kind = "TIME" => p.val \in Nat
      /\ p.kind = "WEATHER" => p.val \in Weathers
  BY <1>0 DEF HostInv, InboxOK
<1> HIDE DEF p, r
<1>2. CASE ~r.ok
  <2>1. \E reason : EndClient(reason)
    BY <1>2 DEF MeetPacket, p, r
  <2> QED
    BY <2>1, FreshWhole
<1>3. CASE r.ok
  <2>1. /\ srv' = r.srv /\ tx' = r.tx /\ inbox' = Tail(inbox)
        /\ UNCHANGED <<client, sock>>
    BY <1>3 DEF MeetPacket, p, r
  <2>2. PICK m \in View : Agreed(srv, tx, m)
    BY DEF HostInv, HostAgreed
  <2>3. Accepted(srv, tx, m, p, r)
    BY <1>1, <1>3, <2>2, HandleKept DEF HostInv, r
  <2>4. FirstHandshake'
    BY <1>0, <2>1, <2>3, AnsweredFirst DEF HostWhole, p
  <2>5. srv'.state = "HANDSHAKE" => sock' = <<>>
    BY <2>1, <2>3 DEF Accepted, HostWhole
  <2>6. ASSUME client.handshakes < 2
        PROVE  client.confused = {} /\ \E g \in Nat : Joined(sock, client.part, g) /\ Whole(tx', g)
    <3>1. PICK g \in Nat : Joined(sock, client.part, g) /\ Whole(tx, g)
      BY <2>6 DEF HostWhole
    <3>2. client.confused = {}
      BY <2>6 DEF HostWhole
    <3>3. CASE p.kind \notin Handshakes
      <4>1. Whole(tx', g)
        BY <2>1, <2>3, <3>1, <3>3 DEF Accepted
      <4> QED
        BY <3>1, <3>2, <4>1
    <3>4. CASE p.kind \in Handshakes
      <4>1. srv.state = "HANDSHAKE"
        BY <1>0, <2>6, <3>4 DEF HostWhole, FirstHandshake
      <4>2. sock = <<>> /\ client.part = 0 /\ tx' = <<>>
        BY <2>1, <2>3, <3>4, <4>1 DEF Accepted, HostWhole, FirstHandshake
      <4>3. Joined(sock, client.part, 0) /\ Whole(tx', 0)
        BY <4>2, FreshFacts DEF Joined
      <4> QED
        BY <3>2, <4>3
    <3> QED
      BY <3>3, <3>4
  <2> QED
    BY <2>1, <2>4, <2>5, <2>6 DEF HostWhole
<1> QED
  BY <1>2, <1>3

\* mc_server_tick_at queues whole packets.
LEMMA TickWhole ==
    ASSUME HostInv, HostWhole, TickServer
    PROVE  HostWhole'
<1> DEFINE tOf(d) == (now + d) % TickMod
           rOf(d) == tick_at(srv, tx, tOf(d))
<1>1. PICK d \in 0..MaxStep : srv' = rOf(d).srv /\ tx' = rOf(d).tx
  BY DEF TickServer
<1> DEFINE t == tOf(d)
           r == rOf(d)
<1>2. t \in 0..(TickMod - 1)
  <2>1. now + d \in Int /\ TickMod \in Nat \ {0}
    BY ServerAssumption DEF ServerAssumption, HostInv
  <2> QED
    BY <2>1
<1>3. PICK m \in View : Agreed(srv, tx, m)
  BY DEF HostInv, HostAgreed
<1>4. Ticked(srv, tx, m, t, r)
  BY <1>2, <1>3, TickTicked DEF HostInv
<1>5. srv' = r.srv /\ tx' = r.tx /\ UNCHANGED <<inbox, client, sock>>
  BY <1>1 DEF TickServer
<1> HIDE DEF t, r, tOf, rOf
<1>6. /\ srv'.state = srv.state /\ (srv.state # "PLAY" => tx' = tx)
      /\ \A g \in Nat : Whole(tx, g) => Whole(tx', g)
  BY <1>4, <1>5 DEF Ticked, Held
<1>7. FirstHandshake'
  BY <1>5, <1>6 DEF HostWhole, FirstHandshake
<1> QED
  BY <1>5, <1>6, <1>7 DEF HostWhole

\* drain_tx.
LEMMA DrainWhole ==
    ASSUME HostInv, HostWhole, DrainSend
    PROVE  HostWhole'
<1>1. PICK n \in 1..(SockCap - Len(sock)) :
          /\ n <= Len(tx)
          /\ sock' = sock \o SubSeq(tx, 1, n)
          /\ tx' = SubSeq(tx, n + 1, Len(tx))
  BY DEF DrainSend
<1>2. tx # <<>> /\ UNCHANGED <<srv, inbox, client>>
  BY DEF DrainSend
<1>3. tx \in Seq(Unit) /\ sock \in Seq(Unit) /\ n \in 1..Len(tx) /\ client.part \in Nat
  <2>1. tx \in Seq(Unit) /\ sock \in Seq(Unit) /\ Len(tx) \in Nat /\ Len(sock) \in Nat
    BY DEF HostInv, RingOK
  <2>2. client.part \in Nat
    BY DEF HostInv, Client
  <2> QED
    BY <1>1, <2>1, <2>2, HostAssumption DEF HostAssumption
<1>4. srv.state # "HANDSHAKE"
  BY <1>2 DEF HostWhole, FirstHandshake
<1>5. FirstHandshake'
  BY <1>2, <1>4 DEF HostWhole, FirstHandshake
<1>6. client.handshakes < 2 => \E h \in Nat : Joined(sock', client.part, h) /\ Whole(tx', h)
  <2> SUFFICES ASSUME client.handshakes < 2
               PROVE  \E h \in Nat : Joined(sock', client.part, h) /\ Whole(tx', h)
    OBVIOUS
  <2>1. PICK g \in Nat : Joined(sock, client.part, g) /\ Whole(tx, g)
    BY DEF HostWhole
  <2> QED
    BY <1>1, <1>3, <2>1, JoinedSend
<1> QED
  BY <1>2, <1>4, <1>5, <1>6 DEF HostWhole

\* What the client reads from the socket is the part it waits for.
LEMMA ReadWhole ==
    ASSUME HostInv, HostWhole, ClientRead
    PROVE  HostWhole'
<1> DEFINE u == Head(sock)
<1>1. /\ sock # <<>> /\ sock' = Tail(sock) /\ client' = ClientTakes(client, u)
      /\ UNCHANGED <<srv, tx, inbox>>
  BY DEF ClientRead
<1>2. sock \in Seq(Unit) /\ client \in Client
  BY DEF HostInv
<1>3. u = sock[1] /\ u \in Unit
  BY <1>1, <1>2, TailFacts
<1> HIDE DEF u
<1>4. /\ client'.part = Rest(u) /\ client'.handshakes = client.handshakes
      /\ client'.confused = client.confused \cup (IF u.part = client.part + 1 THEN {} ELSE {"torn"})
                             \cup (IF Ends(u) THEN Surprises(ClientView(client), u.packet) ELSE {})
  BY <1>1, <1>2, <1>3, TakesFacts
<1>5. client'.confused \subseteq {"torn"} /\ "torn" \notin Surprises(ClientView(client), u.packet)
  <2>1. HostInv'
    BY ClientReadInv
  <2>2. "torn" \notin Surprises(ClientView(client), u.packet)
    BY DEF Surprises
  <2> QED
    BY <2>1, <2>2 DEF HostInv
<1>6. srv.state # "HANDSHAKE"
  BY <1>1 DEF HostWhole
<1>7. FirstHandshake'
  BY <1>1, <1>4, <1>6 DEF HostWhole, FirstHandshake
<1>8. ASSUME client.handshakes < 2
      PROVE  /\ client'.confused = {}
             /\ \E g \in Nat : Joined(sock', client'.part, g) /\ Whole(tx', g)
  <2>1. PICK g \in Nat : Joined(sock, client.part, g) /\ Whole(tx, g)
    BY <1>8 DEF HostWhole
  <2>2. u.part = client.part + 1 /\ Joined(Tail(sock), Rest(u), g)
    BY <1>1, <1>2, <1>3, <2>1, JoinedRead
  <2>3. client'.confused = {}
    BY <1>4, <1>5, <1>8, <2>2 DEF HostWhole
  <2> QED
    BY <1>1, <1>4, <2>1, <2>2, <2>3
<1> QED
  BY <1>1, <1>4, <1>6, <1>7, <1>8 DEF HostWhole

\* What the client sends.
LEMMA WriteWhole ==
    ASSUME HostInv, HostWhole, ClientWrites
    PROVE  HostWhole'
<1>1. ClientSend /\ UNCHANGED <<srv, tx, sock>>
  BY DEF ClientWrites, ClientSend, host
<1>2. /\ FirstHandshake'
      /\ client'.part = client.part /\ client'.confused = client.confused
      /\ client'.handshakes < 2 => client.handshakes < 2
  BY <1>1, SentFirst DEF HostInv, InboxOK, HostWhole
<1> QED
  BY <1>1, <1>2 DEF HostWhole

LEMMA NextWhole == HostInv /\ HostWhole /\ [HostNext]_hostvars => HostWhole'
<1> SUFFICES ASSUME HostInv, HostWhole, [HostNext]_hostvars PROVE HostWhole'
  OBVIOUS
<1>1. CASE \E reason : EndClient(reason)
  BY <1>1, FreshWhole
<1>2. CASE UNCHANGED <<vars, sock>>
  BY <1>2, StillWhole DEF vars
<1>3. CASE Recv
  <2>1. PICK n \in 1..Len(inbox) : MeetPacket(n - 1, "no room")
    BY <1>3 DEF Recv
  <2>2. inbox # <<>>
    OBVIOUS
  <2> QED
    BY <2>1, <2>2, MeetWhole
<1>4. CASE ReceiveNext
  <2>1. left > 0 /\ MeetPacket(left - 1, "no room, burst")
    BY <1>4 DEF ReceiveNext
  <2>2. left \in 0..Len(inbox)
    BY DEF HostInv, ThreadOK
  <2>3. left > 0
    BY <2>1, Zenon
  <2>4. inbox # <<>>
    BY <2>2, <2>3
  <2> QED
    BY <2>1, <2>4, MeetWhole
<1>5. CASE TickServer \/ DrainSend \/ ClientRead \/ ClientWrites
  BY <1>5, TickWhole, DrainWhole, ReadWhole, WriteWhole
<1>6. CASE UNCHANGED hostvars
  BY <1>2, <1>6 DEF hostvars, host
<1>7. CASE DrainFails \/ PeerClosed \/ PollInterrupted
  BY <1>1, <1>7 DEF DrainFails, PeerClosed, PollInterrupted
<1>8. CASE \/ Accept \/ StopAccepting \/ LoopTop \/ DrainReturns \/ Received \/ PollTimeout
           \/ ClientClose \/ Signal
  BY <1>1, <1>2, <1>8
     DEF Accept, StopAccepting, LoopTop, DrainReturns, Received, PollTimeout, ClientClose, Signal
<1> QED
  BY <1>3, <1>4, <1>5, <1>6, <1>7, <1>8 DEF HostNext, Thread

-----------------------------------------------------------------------------
(* Theorems.                                                               *)

\* The invariant of the host: the client's knowledge leads through the socket
\* and the ring to the server's, and every packet on its way is one that the
\* state it will meet allows.
THEOREM HostInvariance == HostSpec => []HostInv
BY FreshHost, NextHost, PTL DEF HostSpec

\* run_client drains the ring before it waits for input, and an empty ring
\* holds the answer to any packet: the packet that a read begins with is
\* refused for want of room only after the drain has given up, because the
\* client left its socket full or a shutdown is asked for.
THEOREM RefusedOnlyIfStalledHolds == HostSpec => []RefusedOnlyIfStalled
<1>1. HostInv => RefusedOnlyIfStalled
  BY DEF HostInv, ThreadOK
<1> QED
  BY <1>1, HostInvariance, PTL

\* Through the socket, too, which keeps what it holds when a handshake empties
\* the ring, the client reads every packet in the format it was written in,
\* the bootstrap once and in order, and the KeepAlives with consecutive ids.
THEOREM HostClientAgrees == HostSpec => [](FormatAgreed /\ InSequence)
<1>1. HostInv => FormatAgreed /\ InSequence
  BY DEF HostInv, FormatAgreed, InSequence
<1> QED
  BY <1>1, HostInvariance, PTL

\* And it reads whole packets, however the socket divides the ring, unless it
\* has asked for a second session.
THEOREM HostWholePackets == HostSpec => []WholePackets
<1>1. HostSpec => []HostWhole
  BY FreshWhole, NextWhole, HostInvariance, PTL DEF HostSpec
<1>2. HostWhole => WholePackets
  BY DEF HostWhole, WholePackets
<1> QED
  BY <1>1, <1>2, PTL

\* When it has read all of the socket, and the ring is empty, too, it knows
\* the server's time and weather; and the ring holds nothing of a former
\* logical session.
THEOREM HostMirrors == HostSpec => [](NothingStale /\ (sock = <<>> => Mirrored))
<1>1. HostInv => NothingStale
  BY DEF HostInv, RingOK, NothingStale
<1>2. HostInv => (sock = <<>> => Mirrored)
  <2> SUFFICES ASSUME HostInv, sock = <<>>, tx = <<>>
               PROVE  /\ client.time = srv.play.world_time
                      /\ client.weather = weather_game_state_values[srv.play.weather]
    BY DEF Mirrored
  <2>1. PICK m \in View : SockAgreed(srv, sock, client, m) /\ Agreed(srv, tx, m)
    BY DEF HostInv, HostAgreed
  <2>2. PICK U : Trace(U, sock, ClientView(client), m)
    BY <2>1 DEF SockAgreed
  <2>3. PICK V : Trace(V, tx, ClientView(m), ServerView(srv))
    BY <2>1 DEF Agreed
  <2>4. Len(sock) = 0 /\ Len(tx) = 0
    OBVIOUS
  <2>5. ClientView(client) = m /\ ClientView(m) = ServerView(srv)
    BY <2>2, <2>3, <2>4 DEF Trace
  <2>6. ClientView(client) = ServerView(srv)
    BY <2>5, ViewOfView
  <2> QED
    BY <2>6 DEF ClientView, ServerView
<1> QED
  BY <1>1, <1>2, HostInvariance, PTL

=============================================================================
