--------------------------- MODULE McServerProofs ---------------------------
(***************************************************************************)
(* What the client reads is what the server meant, for every capacity of   *)
(* the TX ring, every number and size of chunks, every clock and every     *)
(* stream of commands.  The argument follows what the client will know     *)
(* after each unit that is still in the ring.                              *)
(***************************************************************************)
EXTENDS McServer, TLAPS

-----------------------------------------------------------------------------
(* Types.                                                                  *)

Names == {"SET_COMPRESSION", "LOGIN_SUCCESS", "STATUS_RESPONSE", "PONG", "CHAT", "POSITION",
          "TIME", "GAME_STATE", "KEEPALIVE", "CHUNK", "JOIN_GAME", "SPAWN_POSITION", "HEALTH",
          "ABILITIES"}
PacketType == [name : Names, val : Nat \cup [field : 1..3, level : {0, 1}], step : Nat,
               compressed : BOOLEAN, session : {0, 1}, units : {1, BigUnits}]
Unit == [packet : PacketType, part : Nat]

Play == [world_time : Nat, weather : Weathers, last_keepalive_tick : 0..(TickMod - 1),
         keepalive_id : 0..IdMax, keepalive_pending : BOOLEAN]
Server == [state : {"HANDSHAKE", "STATUS", "LOGIN", "PLAY"}, compression_enabled : BOOLEAN,
           stage : 0..DONE, chunk_index : 0..Chunks, sent : BOOLEAN, play : Play,
           session : {0, 1}]

Weather == [1..3 -> {0, 1}]
Client == [phase : {"new", "status", "login", "waiting", "play"}, compressed : BOOLEAN,
           boot : Nat, keepalive : Nat, time : Nat, weather : Weather, part : Nat,
           commands : Nat, handshakes : 0..2,
           confused : SUBSET {"format", "bootstrap", "keepalive", "torn"}]
Incoming == [kind : Kinds, val : Nat \cup Weathers]

-----------------------------------------------------------------------------
(* The invariant.                                                          *)

\* The counters of the bootstrap belong together, and before Play they, the
\* compression and the play state are untouched.
ServerOK(s) ==
    /\ s \in Server
    /\ s.state # "PLAY" => /\ ~s.compression_enabled /\ s.stage = 0 /\ ~s.sent
                           /\ s.play = PlayRuntime
    /\ s.stage < CHUNKS => s.chunk_index = 0
    /\ s.stage = CHUNKS => s.chunk_index < Chunks
    /\ s.stage = DONE => s.chunk_index = Chunks
    /\ s.sent <=> s.stage = DONE

\* What the client knows, and what it should know once it has read the ring.
View == [compressed : BOOLEAN, boot : Nat, keepalive : Nat, time : Nat, weather : Weather]
ClientView(c) ==
    [compressed |-> c.compressed, boot |-> c.boot, keepalive |-> c.keepalive, time |-> c.time,
     weather |-> c.weather]
Progress(s) == IF s.stage < CHUNKS THEN s.stage ELSE CHUNKS + s.chunk_index
ServerView(s) ==
    [compressed |-> s.compression_enabled, boot |-> Progress(s), keepalive |-> s.play.keepalive_id,
     time |-> s.play.world_time, weather |-> weather_game_state_values[s.play.weather]]

\* What a packet teaches a client with the view v, and that it expected it.
Learn(v, p) ==
    [compressed |-> v.compressed \/ p.name = "SET_COMPRESSION",
     boot |-> IF p.step = 0 THEN v.boot ELSE p.step,
     keepalive |-> IF p.name = "KEEPALIVE" THEN p.val ELSE v.keepalive,
     time |-> IF p.name = "TIME" THEN p.val ELSE v.time,
     weather |-> IF p.name = "GAME_STATE" THEN [v.weather EXCEPT ![p.val.field] = p.val.level]
                 ELSE v.weather]
Ends(u) == u.part = u.packet.units
Leads(v, u, w) ==
    IF Ends(u) THEN Surprises(v, u.packet) = {} /\ w = Learn(v, u.packet) ELSE w = v

\* The views V lead from the view v through the units of q to the view w.
Trace(V, q, v, w) ==
    /\ V \in [0..Len(q) -> View]
    /\ V[0] = v /\ V[Len(q)] = w
    /\ \A i \in 1..Len(q) : Leads(V[i - 1], q[i], V[i])

\* Before Play the packets teach nothing.
Agreed(s, q, c) ==
    \E V : /\ Trace(V, q, ClientView(c), ServerView(s))
           /\ s.state # "PLAY" => \A i \in 0..Len(q) : V[i] = ServerView(s)

\* The units of q are those of whole packets, the first one's from the part
\* behind n on.
Rest(u) == IF Ends(u) THEN 0 ELSE u.part
Whole(q, n) ==
    /\ \A i \in 1..Len(q) : q[i].part = (IF i = 1 THEN n ELSE Rest(q[i - 1])) + 1
    /\ (IF q = <<>> THEN n ELSE Rest(q[Len(q)])) = 0

RingOK(s, q) ==
    /\ q \in Seq(Unit) /\ Len(q) <= TxCap
    /\ \A i \in 1..Len(q) : q[i].packet.session = s.session

InboxOK ==
    /\ inbox \in Seq(Incoming)
    /\ \A i \in 1..Len(inbox) : /\ inbox[i].kind = "TIME" => inbox[i].val \in Nat
                                /\ inbox[i].kind = "WEATHER" => inbox[i].val \in Weathers

\* A client's first handshake meets a server that has not written anything.
FirstHandshake ==
    /\ srv.state = "HANDSHAKE" => tx = <<>> /\ client.part = 0
    /\ client.handshakes = 0 => \A i \in 1..Len(inbox) : inbox[i].kind \notin Handshakes
    /\ client.handshakes = 0 => srv.state = "HANDSHAKE"
    /\ client.handshakes < 2 =>
          \A i \in 1..Len(inbox) : inbox[i].kind \in Handshakes =>
              /\ srv.state = "HANDSHAKE"
              /\ \A j \in 1..Len(inbox) : inbox[j].kind \in Handshakes => j = i

ReadOK ==
    /\ client \in Client /\ client.confused \subseteq {"torn"}
    /\ client.handshakes < 2 => Whole(tx, client.part) /\ client.confused = {}

\* The tick of the last KeepAlive tells how long ago it was, while that is
\* less than the clock's period.
ClockOK ==
    /\ now \in 0..(TickMod - 1) /\ since \in {Never} \cup 0..Unknown
    /\ since = Never <=> srv.play.keepalive_id = 0
    /\ since = Never => srv.play.last_keepalive_tick = 0
    /\ since \in 0..(TickMod - 1) => elapsed_ticks(now, srv.play.last_keepalive_tick) = since
    /\ KeepAliveOnTime

ServerInv ==
    /\ ServerOK(srv) /\ RingOK(srv, tx) /\ Agreed(srv, tx, client)
    /\ InboxOK /\ FirstHandshake /\ ReadOK /\ ClockOK

-----------------------------------------------------------------------------
(* Packets and units.                                                      *)

LEMMA StageFacts ==
    /\ CHUNKS = 6 /\ DONE = 7
    /\ \A i \in 1..6 : /\ Stages[i] \in Names \ {"SET_COMPRESSION", "GAME_STATE", "KEEPALIVE"}
                       /\ Stages[i] \notin {"CHUNK", "STATUS_RESPONSE"}
<1>1. CHUNKS = 6 /\ DONE = 7
  BY DEF CHUNKS, DONE, Stages
<1>2. ASSUME NEW i \in 1..6
      PROVE  Stages[i] \in {"JOIN_GAME", "SPAWN_POSITION", "TIME", "HEALTH", "ABILITIES", "POSITION"}
  BY DEF Stages
<1> QED
  BY <1>1, <1>2 DEF Names

LEMMA WeatherFacts ==
    /\ "CLEAR" \in Weathers
    /\ weather_game_state_values["CLEAR"] = <<0, 0, 0>>
    /\ \A w \in Weathers : weather_game_state_values[w] \in Weather
<1>1. Weathers = {"CLEAR", "RAIN", "THUNDER"}
  BY DEF Weathers, weather_game_state_values
<1>2. /\ weather_game_state_values["CLEAR"] = <<0, 0, 0>>
      /\ weather_game_state_values["RAIN"] = <<1, 1, 0>>
      /\ weather_game_state_values["THUNDER"] = <<1, 1, 1>>
  BY DEF weather_game_state_values
<1>3. <<0, 0, 0>> \in Weather /\ <<1, 1, 0>> \in Weather /\ <<1, 1, 1>> \in Weather
  BY DEF Weather
<1> QED
  BY <1>1, <1>2, <1>3

\* A packet is in the server's format and session.
LEMMA PacketFacts ==
    ASSUME NEW s \in Server, NEW name \in Names, NEW step \in Nat,
           NEW val \in Nat \cup [field : 1..3, level : {0, 1}]
    PROVE  LET p == Packet(s, name, val, step) IN
           /\ p \in PacketType
           /\ p.name = name /\ p.val = val /\ p.step = step
           /\ p.compressed = s.compression_enabled /\ p.session = s.session
           /\ name \notin {"CHUNK", "STATUS_RESPONSE"} => p.units = 1
BY DEF Packet, PacketType, Server

LEMMA UnitsFacts ==
    ASSUME NEW p \in PacketType
    PROVE  /\ Units(p) \in Seq(Unit) /\ Len(Units(p)) = p.units /\ p.units \in Nat \ {0}
           /\ \A i \in 1..p.units : Units(p)[i] = [packet |-> p, part |-> i]
<1>1. p.units \in Nat \ {0}
  BY ServerAssumption DEF PacketType, ServerAssumption
<1>2. ASSUME NEW i \in 1..p.units PROVE [packet |-> p, part |-> i] \in Unit
  BY <1>1 DEF Unit
<1> QED
  BY <1>1, <1>2 DEF Units

LEMMA ShortFacts ==
    ASSUME NEW packets \in Seq(PacketType)
    PROVE  /\ Short(packets) \in Seq(Unit) /\ Len(Short(packets)) = Len(packets)
           /\ \A i \in 1..Len(packets) : Short(packets)[i] = [packet |-> packets[i], part |-> 1]
<1>1. ASSUME NEW i \in 1..Len(packets) PROVE [packet |-> packets[i], part |-> 1] \in Unit
  BY DEF Unit
<1> QED
  BY <1>1 DEF Short

LEMMA ConcatFacts ==
    ASSUME NEW S, NEW a \in Seq(S), NEW b \in Seq(S)
    PROVE  /\ a \o b \in Seq(S) /\ Len(a \o b) = Len(a) + Len(b)
           /\ \A i \in 1..Len(a) : (a \o b)[i] = a[i]
           /\ \A i \in 1..Len(b) : (a \o b)[Len(a) + i] = b[i]
OBVIOUS

LEMMA TailFacts ==
    ASSUME NEW S, NEW q \in Seq(S), q # <<>>
    PROVE  /\ Len(q) \in Nat \ {0} /\ Head(q) = q[1] /\ Head(q) \in S
           /\ Tail(q) \in Seq(S) /\ Len(Tail(q)) = Len(q) - 1
           /\ \A i \in 1..(Len(q) - 1) : Tail(q)[i] = q[i + 1]
OBVIOUS

\* The views are what the types say.
LEMMA ViewFacts ==
    ASSUME NEW s, ServerOK(s)
    PROVE  ServerView(s) \in View /\ Progress(s) \in Nat
<1>1. s \in Server /\ s.play \in Play
  BY DEF ServerOK, Server
<1>2. /\ s.stage \in Nat /\ s.chunk_index \in Nat /\ s.play.keepalive_id \in Nat
      /\ s.play.world_time \in Nat /\ s.compression_enabled \in BOOLEAN
      /\ s.play.weather \in Weathers
  BY <1>1, ServerAssumption, StageFacts DEF Server, Play, ServerAssumption
<1>3. weather_game_state_values[s.play.weather] \in Weather
  BY <1>2, WeatherFacts
<1>4. Progress(s) \in Nat
  BY <1>2, StageFacts DEF Progress
<1> QED
  BY <1>2, <1>3, <1>4 DEF ServerView, View

-----------------------------------------------------------------------------
(* Queueing.                                                               *)

\* The units us take a client from all there is to know of s to all there
\* is to know of t.
Told(s, us, t) ==
    /\ us \in Seq(Unit) /\ Whole(us, 0)
    /\ t.session = s.session /\ \A i \in 1..Len(us) : us[i].packet.session = s.session
    /\ \E W : /\ Trace(W, us, ServerView(s), ServerView(t))
              /\ t.state # "PLAY" =>
                    s.state # "PLAY" /\ \A i \in 0..Len(us) : W[i] = ServerView(t)

\* Two traces that meet make one.
LEMMA JoinTraces ==
    ASSUME NEW q \in Seq(Unit), NEW us \in Seq(Unit), NEW v, NEW m, NEW w, NEW V, NEW W,
           Trace(V, q, v, m), Trace(W, us, m, w)
    PROVE  LET X == [i \in 0..(Len(q) + Len(us)) |-> IF i <= Len(q) THEN V[i] ELSE W[i - Len(q)]]
           IN  Trace(X, q \o us, v, w)
<1> DEFINE n == Len(q)
           X == [i \in 0..(n + Len(us)) |-> IF i <= n THEN V[i] ELSE W[i - n]]
<1>0. /\ n \in Nat /\ Len(us) \in Nat /\ Len(q \o us) = n + Len(us)
      /\ V \in [0..n -> View] /\ W \in [0..Len(us) -> View]
      /\ V[0] = v /\ V[n] = m /\ W[0] = m /\ W[Len(us)] = w
  BY ConcatFacts DEF Trace
<1>1. X \in [0..Len(q \o us) -> View]
  <2>1. ASSUME NEW i \in 0..(n + Len(us)) PROVE (IF i <= n THEN V[i] ELSE W[i - n]) \in View
    <3> HIDE DEF n
    <3>1. CASE i <= n
      <4>1. i \in 0..n
        BY <1>0, <3>1
      <4> QED
        BY <1>0, <3>1, <4>1
    <3>2. CASE ~(i <= n)
      <4>1. i - n \in 0..Len(us)
        BY <1>0, <3>2
      <4> QED
        BY <1>0, <3>2, <4>1
    <3> QED
      BY <3>1, <3>2
  <2> QED
    BY <1>0, <2>1
<1>2. X[0] = v /\ X[Len(q \o us)] = w
  <2>1. X[0] = v
    BY <1>0
  <2>2. CASE Len(us) = 0
    BY <1>0, <2>1, <2>2
  <2>3. CASE Len(us) # 0
    <3>1. n + Len(us) \in 0..(n + Len(us)) /\ ~(n + Len(us) <= n) /\ (n + Len(us)) - n = Len(us)
      BY <1>0, <2>3
    <3> QED
      BY <1>0, <2>1, <3>1
  <2> QED
    BY <2>2, <2>3
<1>3. ASSUME NEW i \in 1..Len(q \o us) PROVE Leads(X[i - 1], (q \o us)[i], X[i])
  <2>1. CASE i <= n
    <3>1. X[i - 1] = V[i - 1] /\ X[i] = V[i] /\ (q \o us)[i] = q[i] /\ i \in 1..n
      BY <1>0, <2>1, ConcatFacts
    <3> QED
      BY <3>1 DEF Trace
  <2>2. CASE ~(i <= n)
    <3>1. i - n \in 1..Len(us) /\ i = n + (i - n)
      BY <1>0, <2>2
    <3>2. (q \o us)[i] = us[i - n] /\ X[i] = W[i - n]
      BY <1>0, <2>2, <3>1, ConcatFacts
    <3>3. X[i - 1] = W[(i - n) - 1]
      <4>1. CASE i - 1 = n
        <5>1. i - 1 \in 0..(n + Len(us)) /\ (i - n) - 1 = 0
          BY <1>0, <4>1
        <5> QED
          BY <1>0, <4>1, <5>1
      <4>2. CASE i - 1 # n
        <5>1. i - 1 \in 0..(n + Len(us)) /\ ~(i - 1 <= n) /\ (i - 1) - n = (i - n) - 1
          BY <1>0, <2>2, <4>2
        <5> QED
          BY <5>1
      <4> QED
        BY <4>1, <4>2
    <3>4. Leads(W[(i - n) - 1], us[i - n], W[i - n])
      BY <3>1 DEF Trace
    <3> QED
      BY <3>2, <3>3, <3>4
  <2> QED
    BY <2>1, <2>2
<1> QED
  BY <1>1, <1>2, <1>3 DEF Trace

LEMMA JoinWhole ==
    ASSUME NEW q \in Seq(Unit), NEW us \in Seq(Unit), NEW n \in Nat, Whole(q, n), Whole(us, 0)
    PROVE  Whole(q \o us, n)
<1> DEFINE r == q \o us
<1>0. /\ r \in Seq(Unit) /\ Len(r) = Len(q) + Len(us)
      /\ \A i \in 1..Len(q) : r[i] = q[i]
      /\ \A i \in 1..Len(us) : r[Len(q) + i] = us[i]
  BY ConcatFacts
<1>1. ASSUME NEW i \in 1..Len(r)
      PROVE  r[i].part = (IF i = 1 THEN n ELSE Rest(r[i - 1])) + 1
  <2>1. CASE i <= Len(q)
    BY <1>0, <2>1 DEF Whole
  <2>2. CASE i = Len(q) + 1
    <3>1. r[i].part = 1
      BY <1>0, <2>2 DEF Whole
    <3>2. (IF i = 1 THEN n ELSE Rest(r[i - 1])) = 0
      BY <1>0, <2>2 DEF Whole
    <3> QED
      BY <3>1, <3>2
  <2>3. CASE i > Len(q) + 1
    <3> DEFINE k == i - Len(q)
    <3>1. k \in 2..Len(us) /\ r[i] = us[k] /\ r[i - 1] = us[k - 1]
      <4>1. /\ k \in 2..Len(us) /\ k - 1 \in 1..Len(us)
            /\ i = Len(q) + k /\ i - 1 = Len(q) + (k - 1)
        BY <1>0, <2>3
      <4> QED
        BY <1>0, <4>1
    <3> HIDE DEF k
    <3>2. us[k].part = Rest(us[k - 1]) + 1
      <4>1. k \in 1..Len(us) /\ k # 1
        BY <1>0, <3>1
      <4> QED
        BY <4>1 DEF Whole
    <3> QED
      BY <2>3, <3>1, <3>2
  <2> QED
    BY <1>0, <2>1, <2>2, <2>3
<1>2. (IF r = <<>> THEN n ELSE Rest(r[Len(r)])) = 0
  <2>1. CASE us = <<>>
    BY <1>0, <2>1 DEF Whole
  <2>2. CASE us # <<>>
    <3>1. Len(us) \in 1..Len(us) /\ r # <<>> /\ r[Len(r)] = us[Len(us)]
      BY <1>0, <2>2
    <3> QED
      BY <2>2, <3>1 DEF Whole
  <2> QED
    BY <2>1, <2>2
<1> QED
  BY <1>1, <1>2 DEF Whole

\* What is told and fits may be queued.
LEMMA Queued ==
    ASSUME NEW s, NEW t, NEW q, NEW us, NEW c,
           RingOK(s, q), Agreed(s, q, c), Told(s, us, t), Fits(q, us)
    PROVE  /\ RingOK(t, q \o us) /\ Agreed(t, q \o us, c)
           /\ \A n \in Nat : Whole(q, n) => Whole(q \o us, n)
<1>0. /\ q \in Seq(Unit) /\ us \in Seq(Unit) /\ t.session = s.session
      /\ \A i \in 1..Len(q) : q[i].packet.session = s.session
      /\ \A i \in 1..Len(us) : us[i].packet.session = s.session
  BY DEF RingOK, Told
<1>1. RingOK(t, q \o us)
  <2>1. /\ q \o us \in Seq(Unit) /\ Len(q \o us) = Len(q) + Len(us)
        /\ \A i \in 1..Len(q) : (q \o us)[i] = q[i]
        /\ \A i \in 1..Len(us) : (q \o us)[Len(q) + i] = us[i]
    BY <1>0, ConcatFacts
  <2>2. Len(q \o us) <= TxCap
    BY <1>0, <2>1, ServerAssumption DEF Fits, ServerAssumption
  <2>3. ASSUME NEW i \in 1..Len(q \o us) PROVE (q \o us)[i].packet.session = t.session
    <3>1. CASE i <= Len(q)
      BY <1>0, <2>1, <3>1
    <3>2. CASE ~(i <= Len(q))
      <4>1. i - Len(q) \in 1..Len(us) /\ i = Len(q) + (i - Len(q))
        BY <1>0, <2>1, <3>2
      <4> QED
        BY <1>0, <2>1, <4>1
    <3> QED
      BY <3>1, <3>2
  <2> QED
    BY <2>1, <2>2, <2>3 DEF RingOK
<1>2. Agreed(t, q \o us, c)
  <2>1. PICK V : /\ Trace(V, q, ClientView(c), ServerView(s))
                 /\ s.state # "PLAY" => \A i \in 0..Len(q) : V[i] = ServerView(s)
    BY DEF Agreed
  <2>2. PICK W : /\ Trace(W, us, ServerView(s), ServerView(t))
                 /\ t.state # "PLAY" =>
                       s.state # "PLAY" /\ \A i \in 0..Len(us) : W[i] = ServerView(t)
    BY DEF Told
  <2> DEFINE X == [i \in 0..(Len(q) + Len(us)) |-> IF i <= Len(q) THEN V[i] ELSE W[i - Len(q)]]
  <2>3. Trace(X, q \o us, ClientView(c), ServerView(t))
    BY <1>0, <2>1, <2>2, JoinTraces
  <2>4. ASSUME t.state # "PLAY", NEW i \in 0..Len(q \o us) PROVE X[i] = ServerView(t)
    <3>0. /\ Len(q) \in Nat /\ Len(us) \in Nat /\ Len(q \o us) = Len(q) + Len(us)
          /\ W[0] = ServerView(s)
      BY <1>0, <2>2, ConcatFacts DEF Trace
    <3>1. ServerView(s) = ServerView(t)
      BY <2>2, <2>4, <3>0
    <3>2. CASE i <= Len(q)
      BY <2>1, <2>2, <2>4, <3>0, <3>1, <3>2
    <3>3. CASE ~(i <= Len(q))
      <4>1. i - Len(q) \in 0..Len(us)
        BY <3>0, <3>3
      <4> QED
        BY <2>2, <2>4, <3>0, <3>3, <4>1
    <3> QED
      BY <3>2, <3>3
  <2> HIDE DEF X
  <2> QED
    BY <2>3, <2>4 DEF Agreed
<1>3. \A n \in Nat : Whole(q, n) => Whole(q \o us, n)
  BY <1>0, JoinWhole DEF Told
<1> QED
  BY <1>1, <1>2, <1>3

\* A packet of any size tells what is learnt at its last unit.
LEMMA TellPacket ==
    ASSUME NEW s, NEW t, NEW p \in PacketType,
           ServerView(s) \in View, ServerView(t) \in View,
           p.session = s.session, t.session = s.session,
           Surprises(ServerView(s), p) = {}, ServerView(t) = Learn(ServerView(s), p),
           t.state # "PLAY" => s.state # "PLAY" /\ ServerView(s) = ServerView(t)
    PROVE  Told(s, Units(p), t)
<1> DEFINE n == p.units
           us == Units(p)
           W == [i \in 0..n |-> IF i < n THEN ServerView(s) ELSE ServerView(t)]
<1>0. /\ us \in Seq(Unit) /\ Len(us) = n /\ n \in Nat \ {0}
      /\ \A i \in 1..n : us[i] = [packet |-> p, part |-> i]
  BY UnitsFacts
<1> HIDE DEF us, n
<1>1. \A i \in 1..n : us[i].packet = p /\ us[i].part = i
  BY <1>0
<1>2. Whole(us, 0)
  <2>1. ASSUME NEW i \in 1..n PROVE us[i].part = (IF i = 1 THEN 0 ELSE Rest(us[i - 1])) + 1
    <3>1. CASE i = 1
      BY <1>0, <1>1, <3>1
    <3>2. CASE i # 1
      <4>1. i - 1 \in 1..n /\ i - 1 # n /\ (i - 1) + 1 = i
        BY <1>0, <3>2
      <4>2. Rest(us[i - 1]) = i - 1
        BY <1>1, <4>1 DEF Rest, Ends, n
      <4> QED
        BY <1>1, <3>2, <4>1, <4>2
    <3> QED
      BY <3>1, <3>2
  <2>2. n \in 1..n /\ us # <<>>
    BY <1>0
  <2>3. Rest(us[Len(us)]) = 0
    BY <1>0, <1>1, <2>2 DEF Rest, Ends, n
  <2> QED
    BY <1>0, <2>1, <2>2, <2>3 DEF Whole
<1>3. Trace(W, us, ServerView(s), ServerView(t))
  <2>1. W \in [0..Len(us) -> View] /\ W[0] = ServerView(s) /\ W[Len(us)] = ServerView(t)
    BY <1>0
  <2>2. ASSUME NEW i \in 1..Len(us) PROVE Leads(W[i - 1], us[i], W[i])
    <3>1. W[i - 1] = ServerView(s)
      BY <1>0
    <3>2. CASE i = n
      <4>1. W[i] = ServerView(t) /\ Ends(us[i]) /\ us[i].packet = p
        BY <1>0, <1>1, <3>2 DEF Ends, n
      <4> QED
        BY <3>1, <4>1 DEF Leads
    <3>3. CASE i # n
      <4>1. W[i] = ServerView(s) /\ ~Ends(us[i])
        BY <1>0, <1>1, <3>3 DEF Ends, n
      <4> QED
        BY <3>1, <4>1 DEF Leads
    <3> QED
      BY <3>2, <3>3
  <2> QED
    BY <2>1, <2>2 DEF Trace
<1>4. t.state # "PLAY" => s.state # "PLAY" /\ \A i \in 0..Len(us) : W[i] = ServerView(t)
  <2>1. ASSUME t.state # "PLAY", NEW i \in 0..n PROVE W[i] = ServerView(t)
    <3>1. W[i] \in {ServerView(s), ServerView(t)}
      OBVIOUS
    <3> QED
      BY <2>1, <3>1
  <2> QED
    BY <1>0, <2>1
<1>5. \A i \in 1..Len(us) : us[i].packet.session = s.session
  BY <1>0, <1>1
<1> HIDE DEF W
<1> QED
  BY <1>0, <1>2, <1>3, <1>4, <1>5 DEF Told, us

\* Short packets tell one thing each.
LEMMA TellShort ==
    ASSUME NEW s, NEW t, NEW packets \in Seq(PacketType), NEW W \in [0..Len(packets) -> View],
           t.session = s.session,
           \A i \in 1..Len(packets) : packets[i].units = 1 /\ packets[i].session = s.session,
           W[0] = ServerView(s), W[Len(packets)] = ServerView(t),
           \A i \in 1..Len(packets) : /\ Surprises(W[i - 1], packets[i]) = {}
                                      /\ W[i] = Learn(W[i - 1], packets[i]),
           t.state = "PLAY"
    PROVE  Told(s, Short(packets), t)
<1> DEFINE us == Short(packets)
<1>0. /\ us \in Seq(Unit) /\ Len(us) = Len(packets) /\ Len(us) \in Nat
      /\ \A i \in 1..Len(packets) : us[i] = [packet |-> packets[i], part |-> 1]
  BY ShortFacts
<1> HIDE DEF us
<1>1. \A i \in 1..Len(us) : us[i].packet = packets[i] /\ us[i].part = 1 /\ Ends(us[i])
  <2> SUFFICES ASSUME NEW i \in 1..Len(packets)
               PROVE  us[i].packet = packets[i] /\ us[i].part = 1 /\ Ends(us[i])
    BY <1>0
  <2>1. us[i] = [packet |-> packets[i], part |-> 1]
    BY <1>0
  <2>2. us[i].packet = packets[i] /\ us[i].part = 1
    BY <2>1
  <2> QED
    BY <2>2 DEF Ends
<1>2. Whole(us, 0)
  <2>1. \A i \in 1..Len(us) : Rest(us[i]) = 0
    BY <1>1 DEF Rest
  <2>2. ASSUME NEW i \in 1..Len(us) PROVE us[i].part = (IF i = 1 THEN 0 ELSE Rest(us[i - 1])) + 1
    <3>1. CASE i = 1
      BY <1>1, <3>1
    <3>2. CASE i # 1
      <4>1. i - 1 \in 1..Len(us)
        BY <1>0, <3>2
      <4> QED
        BY <1>1, <2>1, <3>2, <4>1
    <3> QED
      BY <3>1, <3>2
  <2>3. us # <<>> => Len(us) \in 1..Len(us)
    BY <1>0
  <2> QED
    BY <2>1, <2>2, <2>3 DEF Whole
<1>3. Trace(W, us, ServerView(s), ServerView(t))
  BY <1>0, <1>1 DEF Trace, Leads
<1> QED
  BY <1>0, <1>1, <1>2, <1>3 DEF Told, us

\* A packet in the client's format that carries nothing to be learnt.
LEMMA QuietPacket ==
    ASSUME NEW v \in View, NEW p,
           p.name \notin {"SET_COMPRESSION", "KEEPALIVE", "TIME", "GAME_STATE"},
           p.step = 0, p.compressed = v.compressed
    PROVE  Surprises(v, p) = {} /\ Learn(v, p) = v
<1>1. Surprises(v, p) = {}
  BY DEF Surprises
<1>2. Learn(v, p) = v
  BY DEF Learn, View
<1> QED
  BY <1>1, <1>2

-----------------------------------------------------------------------------
(* What the operations leave behind.                                       *)

Held(s, q, c, r) ==
    /\ ServerOK(r.srv) /\ RingOK(r.srv, r.tx) /\ Agreed(r.srv, r.tx, c)
    /\ \A n \in Nat : Whole(q, n) => Whole(r.tx, n)

\* Nothing is queued and nothing the client should know changes.
LEMMA SameHeld ==
    ASSUME NEW s, NEW t, NEW q, NEW c, ServerOK(t), RingOK(s, q), Agreed(s, q, c),
           ServerView(t) = ServerView(s), t.session = s.session, t.state = s.state
    PROVE  Held(s, q, c, Ok(t, q))
<1>1. RingOK(t, q)
  BY DEF RingOK
<1>2. Agreed(t, q, c)
  BY DEF Agreed
<1> QED
  BY <1>1, <1>2 DEF Held, Ok

LEMMA QueueHeld ==
    ASSUME NEW s, NEW t, NEW q, NEW c, NEW us, ServerOK(t), RingOK(s, q), Agreed(s, q, c),
           Told(s, us, t), Queue(t, q, us).ok
    PROVE  Held(s, q, c, Queue(t, q, us)) /\ Queue(t, q, us) = Ok(t, q \o us)
<1>1. Fits(q, us) /\ Queue(t, q, us) = Ok(t, q \o us)
  BY DEF Queue, Ok, Fail
<1>2. /\ RingOK(t, q \o us) /\ Agreed(t, q \o us, c)
      /\ \A n \in Nat : Whole(q, n) => Whole(q \o us, n)
  BY <1>1, Queued
<1> QED
  BY <1>1, <1>2 DEF Held, Ok

\* Updates of the server's record.
LEMMA TimeUpdate ==
    ASSUME NEW s, ServerOK(s), s.state = "PLAY", NEW v \in Nat
    PROVE  LET t == [s EXCEPT !.play.world_time = v] IN
           /\ ServerOK(t) /\ t.state = s.state /\ t.session = s.session
           /\ ServerView(t) = [ServerView(s) EXCEPT !.time = v]
           /\ t.play.keepalive_id = s.play.keepalive_id
           /\ t.play.last_keepalive_tick = s.play.last_keepalive_tick
<1> DEFINE t == [s EXCEPT !.play.world_time = v]
<1>1. s \in Server /\ s.play \in Play
  BY DEF ServerOK, Server
<1>2. /\ t.play = [s.play EXCEPT !.world_time = v]
      /\ t.state = s.state /\ t.compression_enabled = s.compression_enabled
      /\ t.stage = s.stage /\ t.chunk_index = s.chunk_index /\ t.sent = s.sent
      /\ t.session = s.session
  BY <1>1 DEF Server
<1>3. /\ t.play \in Play /\ t.play.world_time = v /\ t.play.weather = s.play.weather
      /\ t.play.last_keepalive_tick = s.play.last_keepalive_tick
      /\ t.play.keepalive_id = s.play.keepalive_id
  BY <1>1, <1>2 DEF Play
<1>4. t \in Server
  BY <1>1, <1>3 DEF Server
<1> HIDE DEF t
<1>5. ServerOK(t)
  BY <1>2, <1>3, <1>4 DEF ServerOK
<1>6. ServerView(t) = [ServerView(s) EXCEPT !.time = v]
  BY <1>2, <1>3 DEF ServerView, Progress
<1> QED
  BY <1>2, <1>3, <1>5, <1>6 DEF t

LEMMA WeatherUpdate ==
    ASSUME NEW s, ServerOK(s), s.state = "PLAY", NEW w \in Weathers
    PROVE  LET t == [s EXCEPT !.play.weather = w] IN
           /\ ServerOK(t) /\ t.state = s.state /\ t.session = s.session
           /\ ServerView(t) = [ServerView(s) EXCEPT !.weather = weather_game_state_values[w]]
           /\ t.play.keepalive_id = s.play.keepalive_id
           /\ t.play.last_keepalive_tick = s.play.last_keepalive_tick
<1> DEFINE t == [s EXCEPT !.play.weather = w]
<1>1. s \in Server /\ s.play \in Play
  BY DEF ServerOK, Server
<1>2. /\ t.play = [s.play EXCEPT !.weather = w]
      /\ t.state = s.state /\ t.compression_enabled = s.compression_enabled
      /\ t.stage = s.stage /\ t.chunk_index = s.chunk_index /\ t.sent = s.sent
      /\ t.session = s.session
  BY <1>1 DEF Server
<1>3. /\ t.play \in Play /\ t.play.world_time = s.play.world_time /\ t.play.weather = w
      /\ t.play.last_keepalive_tick = s.play.last_keepalive_tick
      /\ t.play.keepalive_id = s.play.keepalive_id
  BY <1>1, <1>2 DEF Play
<1>4. t \in Server
  BY <1>1, <1>3 DEF Server
<1> HIDE DEF t
<1>5. ServerOK(t)
  BY <1>2, <1>3, <1>4 DEF ServerOK
<1>6. ServerView(t) = [ServerView(s) EXCEPT !.weather = weather_game_state_values[w]]
  BY <1>2, <1>3 DEF ServerView, Progress
<1> QED
  BY <1>2, <1>3, <1>5, <1>6 DEF t

\* Status Response and Pong.
LEMMA ReplyHeld ==
    ASSUME NEW s, NEW q, NEW c, ServerOK(s), RingOK(s, q), Agreed(s, q, c),
           NEW name \in {"STATUS_RESPONSE", "PONG"},
           Queue(s, q, Units(Reply(s, name))).ok
    PROVE  Held(s, q, c, Queue(s, q, Units(Reply(s, name))))
<1> DEFINE p == Reply(s, name)
<1>1. s \in Server /\ name \in Names /\ ServerView(s) \in View
  BY ViewFacts DEF ServerOK, Names
<1>2. /\ p \in PacketType /\ p.name = name /\ p.step = 0
      /\ p.compressed = s.compression_enabled /\ p.session = s.session
  BY <1>1, PacketFacts DEF Reply
<1> HIDE DEF p
<1>3. Surprises(ServerView(s), p) = {} /\ Learn(ServerView(s), p) = ServerView(s)
  <2>1. p.compressed = ServerView(s).compressed
    BY <1>2 DEF ServerView
  <2> QED
    BY <1>1, <1>2, <2>1, QuietPacket
<1>4. Told(s, Units(p), s)
  BY <1>1, <1>2, <1>3, TellPacket
<1> QED
  BY <1>4, QueueHeld DEF p

\* Login Start.
LEMMA LoginHeld ==
    ASSUME NEW s, NEW q, NEW c, ServerOK(s), RingOK(s, q), Agreed(s, q, c),
           s.state = "LOGIN", login(s, q).ok
    PROVE  Held(s, q, c, login(s, q)) /\ login(s, q).srv.state = "PLAY"
           /\ login(s, q).srv.play = s.play
<1> DEFINE on == [s EXCEPT !.compression_enabled = TRUE]
           t == [on EXCEPT !.state = "PLAY"]
           a == Reply(s, "SET_COMPRESSION")
           b == Reply(on, "LOGIN_SUCCESS")
           packets == <<a, b>>
           W == [i \in 0..2 |-> IF i = 0 THEN ServerView(s) ELSE ServerView(t)]
<1>1. s \in Server /\ ~s.compression_enabled /\ ServerView(s) \in View
  BY ViewFacts DEF ServerOK
<1>2. /\ on \in Server /\ on.compression_enabled = TRUE /\ on.session = s.session
      /\ t \in Server /\ t.state = "PLAY" /\ t.compression_enabled = TRUE /\ t.stage = s.stage
      /\ t.chunk_index = s.chunk_index /\ t.sent = s.sent /\ t.play = s.play
      /\ t.session = s.session
  BY <1>1 DEF Server
<1> HIDE DEF on, t
<1>3. ServerOK(t)
  BY <1>2 DEF ServerOK
<1>4. /\ ServerView(t) \in View
      /\ ServerView(t) =
            [compressed |-> TRUE, boot |-> Progress(s), keepalive |-> s.play.keepalive_id,
             time |-> s.play.world_time, weather |-> weather_game_state_values[s.play.weather]]
  <2>1. Progress(t) = Progress(s)
    BY <1>2 DEF Progress
  <2> QED
    BY <1>2, <1>3, <2>1, ViewFacts DEF ServerView
<1>5. /\ a \in PacketType /\ a.name = "SET_COMPRESSION" /\ a.step = 0 /\ a.units = 1
      /\ a.compressed = s.compression_enabled /\ a.session = s.session
      /\ b \in PacketType /\ b.name = "LOGIN_SUCCESS" /\ b.step = 0 /\ b.units = 1
      /\ b.compressed = on.compression_enabled /\ b.session = s.session
  <2>1. "SET_COMPRESSION" \in Names /\ "LOGIN_SUCCESS" \in Names
    BY DEF Names
  <2>2. /\ a \in PacketType /\ a.name = "SET_COMPRESSION" /\ a.step = 0 /\ a.units = 1
        /\ a.compressed = s.compression_enabled /\ a.session = s.session
    BY <1>1, <2>1, PacketFacts DEF Reply
  <2>3. /\ b \in PacketType /\ b.name = "LOGIN_SUCCESS" /\ b.step = 0 /\ b.units = 1
        /\ b.compressed = on.compression_enabled /\ b.session = on.session
    BY <1>2, <2>1, PacketFacts DEF Reply
  <2> HIDE DEF a, b
  <2> QED
    BY <1>2, <2>2, <2>3
<1> HIDE DEF a, b
<1>6. Surprises(ServerView(s), a) = {} /\ Learn(ServerView(s), a) = ServerView(t)
  <2>1. Surprises(ServerView(s), a) = {}
    BY <1>5 DEF Surprises, ServerView
  <2>2. Learn(ServerView(s), a) =
            [compressed |-> TRUE, boot |-> Progress(s), keepalive |-> s.play.keepalive_id,
             time |-> s.play.world_time, weather |-> weather_game_state_values[s.play.weather]]
    <3>1. (ServerView(s).compressed \/ a.name = "SET_COMPRESSION") = TRUE
      BY <1>5
    <3>2. /\ ServerView(s).boot = Progress(s) /\ ServerView(s).keepalive = s.play.keepalive_id
          /\ ServerView(s).time = s.play.world_time
          /\ ServerView(s).weather = weather_game_state_values[s.play.weather]
      BY DEF ServerView
    <3> QED
      BY <1>5, <3>1, <3>2 DEF Learn
  <2> QED
    BY <1>4, <2>1, <2>2
<1>7. Surprises(ServerView(t), b) = {} /\ Learn(ServerView(t), b) = ServerView(t)
  <2>1. b.compressed = ServerView(t).compressed
    BY <1>2, <1>5 DEF ServerView
  <2> QED
    BY <1>4, <1>5, <2>1, QuietPacket
<1>8. /\ packets \in Seq(PacketType) /\ Len(packets) = 2 /\ packets[1] = a /\ packets[2] = b
      /\ W \in [0..2 -> View] /\ W[0] = ServerView(s) /\ W[1] = ServerView(t) /\ W[2] = ServerView(t)
  BY <1>1, <1>4, <1>5
<1> HIDE DEF packets, W
<1>9. Told(s, Short(packets), t)
  <2>1. \A i \in 1..Len(packets) : /\ packets[i].units = 1 /\ packets[i].session = s.session
                                   /\ Surprises(W[i - 1], packets[i]) = {}
                                   /\ W[i] = Learn(W[i - 1], packets[i])
    <3> SUFFICES ASSUME NEW i \in 1..2
                 PROVE  /\ packets[i].units = 1 /\ packets[i].session = s.session
                        /\ Surprises(W[i - 1], packets[i]) = {}
                        /\ W[i] = Learn(W[i - 1], packets[i])
      BY <1>8
    <3>1. CASE i = 1
      BY <1>5, <1>6, <1>8, <3>1
    <3>2. CASE i = 2
      BY <1>5, <1>7, <1>8, <3>2
    <3> QED
      BY <3>1, <3>2
  <2>2. W[Len(packets)] = ServerView(t) /\ W \in [0..Len(packets) -> View]
    BY <1>8
  <2> HIDE DEF t, a, b, on
  <2> QED
    BY <1>2, <1>8, <2>1, <2>2, TellShort
<1>10. login(s, q) = Queue(t, q, Short(packets))
  BY DEF login, queue_packet_batch, packets, a, b, on, t
<1>11. Held(s, q, c, login(s, q)) /\ login(s, q) = Ok(t, q \o Short(packets))
  BY <1>3, <1>9, <1>10, QueueHeld
<1> QED
  BY <1>2, <1>11 DEF Ok

\* The commands' packets, of which a chat line is always the last.
LEMMA ReplyFacts ==
    ASSUME NEW s, ServerOK(s), NEW name \in {"CHAT", "POSITION"}
    PROVE  /\ Reply(s, name) \in PacketType /\ Reply(s, name).units = 1
           /\ Reply(s, name).session = s.session
           /\ \A v \in View : v.compressed = s.compression_enabled =>
                 Surprises(v, Reply(s, name)) = {} /\ Learn(v, Reply(s, name)) = v
<1> DEFINE p == Reply(s, name)
<1>1. s \in Server /\ name \in Names
  BY DEF ServerOK, Names
<1>2. /\ p \in PacketType /\ p.name = name /\ p.step = 0 /\ p.units = 1
      /\ p.compressed = s.compression_enabled /\ p.session = s.session
  BY <1>1, PacketFacts DEF Reply
<1> HIDE DEF p
<1>3. ASSUME NEW v \in View, v.compressed = s.compression_enabled
      PROVE  Surprises(v, p) = {} /\ Learn(v, p) = v
  BY <1>2, <1>3, QuietPacket
<1> QED
  BY <1>2, <1>3 DEF p

\* A line of chat, alone or behind a new position.
LEMMA ChatTold ==
    ASSUME NEW s, ServerOK(s), s.state = "PLAY", NEW packets,
           packets \in {<<Reply(s, "CHAT")>>, <<Reply(s, "POSITION"), Reply(s, "CHAT")>>}
    PROVE  Told(s, Short(packets), s)
<1> DEFINE W == [i \in 0..Len(packets) |-> ServerView(s)]
           a == Reply(s, "POSITION")
           b == Reply(s, "CHAT")
<1>1. ServerView(s) \in View /\ ServerView(s).compressed = s.compression_enabled
  BY ViewFacts DEF ServerView
<1>2. \A p \in {a, b} : /\ p \in PacketType /\ p.units = 1 /\ p.session = s.session
                        /\ Surprises(ServerView(s), p) = {}
                        /\ Learn(ServerView(s), p) = ServerView(s)
  BY <1>1, ReplyFacts
<1> HIDE DEF a, b
<1>3. packets \in Seq({a, b}) /\ Len(packets) \in Nat /\ packets \in Seq(PacketType)
  <2>1. CASE packets = <<b>>
    BY <1>2, <2>1
  <2>2. CASE packets = <<a, b>>
    BY <1>2, <2>2
  <2> QED
    BY <2>1, <2>2 DEF a, b
<1>4. \A i \in 1..Len(packets) : packets[i] \in {a, b}
  BY <1>3
<1>5. /\ W \in [0..Len(packets) -> View] /\ W[0] = ServerView(s) /\ W[Len(packets)] = ServerView(s)
      /\ \A i \in 1..Len(packets) : W[i] = ServerView(s) /\ W[i - 1] = ServerView(s)
  BY <1>1, <1>3
<1> HIDE DEF W
<1>6. \A i \in 1..Len(packets) : /\ packets[i].units = 1 /\ packets[i].session = s.session
                                 /\ Surprises(W[i - 1], packets[i]) = {}
                                 /\ W[i] = Learn(W[i - 1], packets[i])
  BY <1>2, <1>4, <1>5
<1> QED
  BY <1>3, <1>5, <1>6, TellShort

\* A new time of day.
LEMMA TimeTold ==
    ASSUME NEW s, ServerOK(s), s.state = "PLAY", NEW v \in Nat
    PROVE  Told(s, Short(<<Packet(s, "TIME", v, 0), Reply(s, "CHAT")>>),
                [s EXCEPT !.play.world_time = v])
<1> DEFINE t == [s EXCEPT !.play.world_time = v]
           a == Packet(s, "TIME", v, 0)
           b == Reply(s, "CHAT")
           packets == <<a, b>>
           W == [i \in 0..2 |-> IF i = 0 THEN ServerView(s) ELSE ServerView(t)]
<1>1. /\ ServerOK(t) /\ t.state = "PLAY" /\ t.session = s.session
      /\ ServerView(t) = [ServerView(s) EXCEPT !.time = v]
  BY TimeUpdate
<1> HIDE DEF t
<1>2. ServerView(s) \in View /\ ServerView(t) \in View
  BY <1>1, ViewFacts
<1>3. /\ ServerView(s).compressed = s.compression_enabled
      /\ ServerView(t).compressed = s.compression_enabled
  <2>1. ServerView(s).compressed = s.compression_enabled
    BY DEF ServerView
  <2> QED
    BY <1>1, <1>2, <2>1 DEF View
<1>4. /\ a \in PacketType /\ a.name = "TIME" /\ a.val = v /\ a.step = 0 /\ a.units = 1
      /\ a.compressed = s.compression_enabled /\ a.session = s.session
  <2>1. s \in Server /\ "TIME" \in Names
    BY DEF ServerOK, Names
  <2> QED
    BY <2>1, PacketFacts
<1>5. /\ b \in PacketType /\ b.units = 1 /\ b.session = s.session
      /\ Surprises(ServerView(t), b) = {} /\ Learn(ServerView(t), b) = ServerView(t)
  BY <1>2, <1>3, ReplyFacts
<1> HIDE DEF a, b
<1>6. Surprises(ServerView(s), a) = {} /\ Learn(ServerView(s), a) = ServerView(t)
  <2>1. Surprises(ServerView(s), a) = {}
    BY <1>3, <1>4 DEF Surprises
  <2>2. Learn(ServerView(s), a) = [ServerView(s) EXCEPT !.time = v]
    BY <1>2, <1>4 DEF Learn, View
  <2> QED
    BY <1>1, <2>1, <2>2
<1>7. /\ packets \in Seq(PacketType) /\ Len(packets) = 2 /\ packets[1] = a /\ packets[2] = b
      /\ W \in [0..2 -> View] /\ W[0] = ServerView(s) /\ W[1] = ServerView(t) /\ W[2] = ServerView(t)
  BY <1>2, <1>4, <1>5
<1> HIDE DEF packets, W
<1>8. \A i \in 1..Len(packets) : /\ packets[i].units = 1 /\ packets[i].session = s.session
                                 /\ Surprises(W[i - 1], packets[i]) = {}
                                 /\ W[i] = Learn(W[i - 1], packets[i])
  <2> SUFFICES ASSUME NEW i \in 1..2
               PROVE  /\ packets[i].units = 1 /\ packets[i].session = s.session
                      /\ Surprises(W[i - 1], packets[i]) = {}
                      /\ W[i] = Learn(W[i - 1], packets[i])
    BY <1>7
  <2>1. CASE i = 1
    BY <1>4, <1>6, <1>7, <2>1
  <2>2. CASE i = 2
    BY <1>5, <1>7, <2>2
  <2> QED
    BY <2>1, <2>2
<1>9. Told(s, Short(packets), t)
  BY <1>1, <1>7, <1>8, TellShort
<1> QED
  BY <1>9 DEF packets, a, b, t

\* New weather: three changes, one field each.
LEMMA WeatherTold ==
    ASSUME NEW s, ServerOK(s), s.state = "PLAY", NEW w \in Weathers
    PROVE  Told(s, Short(weather_packets(s, w) \o <<Reply(s, "CHAT")>>),
                [s EXCEPT !.play.weather = w])
<1> DEFINE t == [s EXCEPT !.play.weather = w]
           old == weather_game_state_values[s.play.weather]
           new == weather_game_state_values[w]
           g(i) == Packet(s, "GAME_STATE", [field |-> i, level |-> new[i]], 0)
           b == Reply(s, "CHAT")
           packets == weather_packets(s, w) \o <<b>>
           mix(i) == [j \in 1..3 |-> IF j <= i THEN new[j] ELSE old[j]]
           W == [i \in 0..4 |-> [ServerView(s) EXCEPT !.weather = mix(i)]]
<1>0. s \in Server /\ "GAME_STATE" \in Names
  BY DEF ServerOK, Names
<1>1. /\ ServerOK(t) /\ t.state = "PLAY" /\ t.session = s.session
      /\ ServerView(t) = [ServerView(s) EXCEPT !.weather = new]
  BY WeatherUpdate
<1> HIDE DEF t
<1>2. ServerView(s) \in View /\ ServerView(s).compressed = s.compression_enabled
  BY ViewFacts DEF ServerView
<1>3. old \in Weather /\ new \in Weather /\ ServerView(s).weather = old
  BY <1>0, WeatherFacts DEF Server, Play, ServerView
<1>4. ASSUME NEW i \in 1..3
      PROVE  /\ g(i) \in PacketType /\ g(i).name = "GAME_STATE" /\ g(i).step = 0 /\ g(i).units = 1
             /\ g(i).val.field = i /\ g(i).val.level = new[i]
             /\ g(i).compressed = s.compression_enabled /\ g(i).session = s.session
  <2>1. [field |-> i, level |-> new[i]] \in [field : 1..3, level : {0, 1}]
    BY <1>3 DEF Weather
  <2> HIDE DEF new
  <2> DEFINE val == [field |-> i, level |-> new[i]]
  <2>2. val \in Nat \cup [field : 1..3, level : {0, 1}] /\ val.field = i /\ val.level = new[i]
    BY <2>1
  <2> HIDE DEF val
  <2>3. LET p == Packet(s, "GAME_STATE", val, 0) IN
        /\ p \in PacketType /\ p.name = "GAME_STATE" /\ p.step = 0 /\ p.units = 1 /\ p.val = val
        /\ p.compressed = s.compression_enabled /\ p.session = s.session
    BY <1>0, <2>2, PacketFacts
  <2> QED
    BY <2>2, <2>3 DEF val
<1>5. /\ b \in PacketType /\ b.units = 1 /\ b.session = s.session
      /\ \A v \in View : v.compressed = s.compression_enabled =>
            Surprises(v, b) = {} /\ Learn(v, b) = v
  BY ReplyFacts
<1>6. /\ packets \in Seq(PacketType) /\ Len(packets) = 4
      /\ \A i \in 1..3 : packets[i] = g(i)
      /\ packets[4] = b
  <2>1. weather_packets(s, w) = [i \in 1..3 |-> g(i)]
    BY DEF weather_packets
  <2>2. [i \in 1..3 |-> g(i)] \in Seq(PacketType)
    BY <1>4
  <2> HIDE DEF g, b
  <2> QED
    BY <1>5, <2>1, <2>2
<1>7. ASSUME NEW i \in 0..4
      PROVE  /\ W[i] \in View /\ W[i].weather = mix(i) /\ mix(i) \in Weather
             /\ W[i].compressed = s.compression_enabled /\ W[i].boot = ServerView(s).boot
             /\ W[i].keepalive = ServerView(s).keepalive /\ W[i].time = ServerView(s).time
  <2>1. mix(i) \in Weather
    BY <1>3 DEF Weather
  <2> HIDE DEF mix
  <2> QED
    BY <1>2, <2>1 DEF View
<1>8. W[0] = ServerView(s) /\ W[4] = ServerView(t) /\ W[3] = W[4]
  <2>1. mix(0) = old /\ mix(3) = new /\ mix(4) = new
    BY <1>3 DEF Weather
  <2> HIDE DEF mix
  <2> QED
    BY <1>1, <1>2, <1>3, <2>1 DEF View
<1>9. ASSUME NEW i \in 1..3 PROVE Surprises(W[i - 1], g(i)) = {} /\ W[i] = Learn(W[i - 1], g(i))
  <2>1. i - 1 \in 0..4 /\ i \in 0..4
    OBVIOUS
  <2>2. Surprises(W[i - 1], g(i)) = {}
    <3> HIDE DEF W, g, mix, new, old
    <3>1. W[i - 1].compressed = s.compression_enabled /\ W[i - 1].boot = ServerView(s).boot
      BY <1>7, <2>1
    <3> QED
      BY <1>4, <3>1 DEF Surprises
  <2>3. mix(i) = [mix(i - 1) EXCEPT ![i] = new[i]]
    <3> HIDE DEF old, new
    <3>1. ASSUME NEW j \in 1..3 PROVE mix(i)[j] = [mix(i - 1) EXCEPT ![i] = new[i]][j]
      <4>1. CASE j = i
        BY <4>1
      <4>2. CASE j # i
        <5>1. (j <= i) <=> (j <= i - 1)
          BY <4>2
        <5> QED
          BY <4>2, <5>1
      <4> QED
        BY <4>1, <4>2
    <3> QED
      BY <3>1
  <2> HIDE DEF W, g, mix
  <2>4. Learn(W[i - 1], g(i)) =
           [compressed |-> W[i - 1].compressed, boot |-> W[i - 1].boot,
            keepalive |-> W[i - 1].keepalive, time |-> W[i - 1].time, weather |-> mix(i)]
    <3>1. (W[i - 1].compressed \/ g(i).name = "SET_COMPRESSION") = W[i - 1].compressed
      BY <1>4, <1>7, <2>1 DEF View
    <3> QED
      BY <1>4, <1>7, <2>1, <2>3, <3>1 DEF Learn
  <2>5. W[i] = [compressed |-> W[i].compressed, boot |-> W[i].boot, keepalive |-> W[i].keepalive,
                time |-> W[i].time, weather |-> W[i].weather]
    BY <1>7, <2>1 DEF View
  <2> QED
    BY <1>7, <2>1, <2>2, <2>4, <2>5
<1>10. W \in [0..4 -> View]
  BY <1>7
<1> HIDE DEF W, g, b, packets
<1>11. \A i \in 1..Len(packets) : /\ packets[i].units = 1 /\ packets[i].session = s.session
                                  /\ Surprises(W[i - 1], packets[i]) = {}
                                  /\ W[i] = Learn(W[i - 1], packets[i])
  <2> SUFFICES ASSUME NEW i \in 1..4
               PROVE  /\ packets[i].units = 1 /\ packets[i].session = s.session
                      /\ Surprises(W[i - 1], packets[i]) = {}
                      /\ W[i] = Learn(W[i - 1], packets[i])
    BY <1>6
  <2>1. CASE i \in 1..3
    BY <1>4, <1>6, <1>9, <2>1
  <2>2. CASE i = 4
    <3>1. 4 - 1 = 3 /\ 3 \in 0..4
      OBVIOUS
    <3>2. W[3] \in View /\ W[3].compressed = s.compression_enabled
      BY <1>7, <3>1
    <3> HIDE DEF mix
    <3>3. Surprises(W[3], b) = {} /\ W[3] = Learn(W[3], b)
      BY <1>5, <3>2
    <3> QED
      BY <1>5, <1>6, <1>8, <2>2, <3>1, <3>3
  <2> QED
    BY <2>1, <2>2
<1>12. Told(s, Short(packets), t)
  BY <1>1, <1>6, <1>8, <1>10, <1>11, TellShort
<1> QED
  BY <1>12 DEF packets, b, t

\* The commands, as handle_packet runs them.
LEMMA CommandHeld ==
    ASSUME NEW s, NEW q, NEW c, NEW p, ServerOK(s), RingOK(s, q), Agreed(s, q, c),
           s.state = "PLAY", p.kind \in {"CHAT", "TELEPORT", "TIME", "WEATHER"},
           p.kind = "TIME" => p.val \in Nat, p.kind = "WEATHER" => p.val \in Weathers,
           execute_command_result(s, q, p).ok
    PROVE  LET r == execute_command_result(s, q, p) IN
           /\ Held(s, q, c, r) /\ r.srv.state = "PLAY"
           /\ r.srv.play.keepalive_id = s.play.keepalive_id
           /\ r.srv.play.last_keepalive_tick = s.play.last_keepalive_tick
<1> DEFINE r == execute_command_result(s, q, p)
           chat == Reply(s, "CHAT")
<1>1. CASE p.kind = "CHAT"
  <2>1. r = Queue(s, q, Short(<<chat>>))
    BY <1>1 DEF execute_command_result, queue_packet_batch
  <2>2. Told(s, Short(<<chat>>), s)
    BY ChatTold
  <2>3. Held(s, q, c, r) /\ r = Ok(s, q \o Short(<<chat>>))
    BY <2>1, <2>2, QueueHeld
  <2> HIDE DEF r, chat
  <2> QED
    BY <2>3 DEF Ok, r
<1>2. CASE p.kind = "TELEPORT"
  <2> DEFINE packets == <<Reply(s, "POSITION"), chat>>
  <2>1. r = Queue(s, q, Short(packets))
    BY <1>2 DEF execute_command_result, queue_packet_batch
  <2>2. Told(s, Short(packets), s)
    BY ChatTold
  <2>3. Held(s, q, c, r) /\ r = Ok(s, q \o Short(packets))
    BY <2>1, <2>2, QueueHeld
  <2> HIDE DEF r, packets
  <2> QED
    BY <2>3 DEF Ok, r
<1>3. CASE p.kind = "TIME"
  <2> DEFINE t == [s EXCEPT !.play.world_time = p.val]
             packets == <<Packet(s, "TIME", p.val, 0), chat>>
  <2>1. r = Queue(t, q, Short(packets))
    BY <1>3 DEF execute_command_result, queue_packet_batch
  <2>2. Told(s, Short(packets), t)
    BY <1>3, TimeTold
  <2>3. /\ ServerOK(t) /\ t.state = "PLAY" /\ t.play.keepalive_id = s.play.keepalive_id
        /\ t.play.last_keepalive_tick = s.play.last_keepalive_tick
    BY <1>3, TimeUpdate
  <2> HIDE DEF packets, t
  <2>4. Held(s, q, c, r) /\ r = Ok(t, q \o Short(packets))
    BY <2>1, <2>2, <2>3, QueueHeld
  <2> HIDE DEF r
  <2> QED
    BY <2>3, <2>4 DEF Ok, r
<1>4. CASE p.kind = "WEATHER"
  <2> DEFINE t == [s EXCEPT !.play.weather = p.val]
             packets == weather_packets(s, p.val) \o <<chat>>
  <2>1. r = Queue(t, q, Short(packets))
    BY <1>4 DEF execute_command_result, queue_packet_batch
  <2>2. Told(s, Short(packets), t)
    BY <1>4, WeatherTold
  <2>3. /\ ServerOK(t) /\ t.state = "PLAY" /\ t.play.keepalive_id = s.play.keepalive_id
        /\ t.play.last_keepalive_tick = s.play.last_keepalive_tick
    BY <1>4, WeatherUpdate
  <2> HIDE DEF packets, t
  <2>4. Held(s, q, c, r) /\ r = Ok(t, q \o Short(packets))
    BY <2>1, <2>2, <2>3, QueueHeld
  <2> HIDE DEF r
  <2> QED
    BY <2>3, <2>4 DEF Ok, r
<1> QED
  BY <1>1, <1>2, <1>3, <1>4

\* Before Play the client knows nothing, so a handshake leaves nothing behind.
LEMMA HandshakeKept ==
    ASSUME NEW s, NEW q, NEW c, NEW p, ServerOK(s), RingOK(s, q), Agreed(s, q, c),
           s.state # "PLAY", p.kind \in DOMAIN NextState
    PROVE  LET r == try_handle_handshake(s, q, p) IN
           /\ ServerOK(r.srv) /\ RingOK(r.srv, r.tx) /\ Agreed(r.srv, r.tx, c)
           /\ r.tx = <<>> /\ r.srv.play = s.play /\ r.srv.state \in {"STATUS", "LOGIN"}
<1> DEFINE t == [reset_logical_session(s) EXCEPT !.state = NextState[p.kind]]
<1>1. NextState[p.kind] \in {"STATUS", "LOGIN"}
  BY DEF NextState
<1>2. /\ s \in Server /\ s.session \in {0, 1} /\ s.play = PlayRuntime
      /\ s.compression_enabled = FALSE /\ s.stage = 0
  BY DEF ServerOK, Server
<1>3. PlayRuntime \in Play
  BY <1>2 DEF Server
<1>4. Fresh \in Server /\ 1 - s.session \in {0, 1}
  <2>1. 1 - s.session \in {0, 1} /\ 0 \in 0..DONE /\ 0 \in 0..Chunks
    BY <1>2, StageFacts, ServerAssumption DEF ServerAssumption
  <2> QED
    BY <1>3, <2>1 DEF Server, Fresh
<1>5. t \in Server
  BY <1>1, <1>4 DEF Server, reset_logical_session
<1>6. /\ t.state \in {"STATUS", "LOGIN"} /\ t.compression_enabled = FALSE /\ t.stage = 0
      /\ t.chunk_index = 0 /\ t.sent = FALSE /\ t.play = PlayRuntime
  BY <1>1 DEF reset_logical_session, Fresh
<1> HIDE DEF t
<1>7. ServerOK(t)
  BY <1>5, <1>6, StageFacts DEF ServerOK
<1>8. ServerView(t) = ServerView(s)
  <2>1. Progress(t) = Progress(s)
    BY <1>2, <1>6, StageFacts DEF Progress
  <2> QED
    BY <1>2, <1>6, <2>1 DEF ServerView
<1>9. Agreed(t, <<>>, c)
  <2>1. PICK V : /\ Trace(V, q, ClientView(c), ServerView(s))
                 /\ s.state # "PLAY" => \A i \in 0..Len(q) : V[i] = ServerView(s)
    BY DEF Agreed
  <2>2. ClientView(c) = ServerView(t) /\ ServerView(t) \in View
    <3>1. Len(q) \in Nat
      BY DEF RingOK
    <3> QED
      BY <1>7, <1>8, <2>1, <3>1, ViewFacts DEF Trace
  <2> DEFINE W == [i \in 0..0 |-> ServerView(t)]
  <2>3. Trace(W, <<>>, ClientView(c), ServerView(t)) /\ \A i \in 0..Len(<<>>) : W[i] = ServerView(t)
    BY <2>2 DEF Trace
  <2> HIDE DEF W
  <2> QED
    BY <2>3 DEF Agreed
<1>10. RingOK(t, <<>>)
  BY ServerAssumption DEF RingOK, ServerAssumption
<1>11. try_handle_handshake(s, q, p) = Ok(t, <<>>)
  BY DEF try_handle_handshake, t
<1> QED
  BY <1>2, <1>6, <1>7, <1>9, <1>10, <1>11 DEF Ok

\* What handle_packet accepts keeps the client's and the server's knowledge
\* together.
Accepted(s, q, c, p, r) ==
    /\ ServerOK(r.srv) /\ RingOK(r.srv, r.tx) /\ Agreed(r.srv, r.tx, c)
    /\ p.kind \notin Handshakes => \A n \in Nat : Whole(q, n) => Whole(r.tx, n)
    /\ p.kind \in Handshakes => r.tx = <<>> /\ r.srv.state \in {"STATUS", "LOGIN"}
    /\ r.srv.state = "HANDSHAKE" => s.state = "HANDSHAKE" /\ r.tx = q
    /\ s.state = "HANDSHAKE" /\ p.kind \notin Handshakes => r.srv.state = "HANDSHAKE"
    /\ r.srv.play.keepalive_id = s.play.keepalive_id
    /\ r.srv.play.last_keepalive_tick = s.play.last_keepalive_tick

LEMMA HandleKept ==
    ASSUME NEW s, NEW q, NEW c, NEW p, ServerOK(s), RingOK(s, q), Agreed(s, q, c),
           p.kind = "TIME" => p.val \in Nat, p.kind = "WEATHER" => p.val \in Weathers,
           handle_packet(s, q, p).ok
    PROVE  Accepted(s, q, c, p, handle_packet(s, q, p))
<1> DEFINE r == handle_packet(s, q, p)
           pong == [s EXCEPT !.play.keepalive_pending = FALSE]
<1> SUFFICES Accepted(s, q, c, p, r)
  OBVIOUS
<1>0. s \in Server /\ s.state \in {"HANDSHAKE", "STATUS", "LOGIN", "PLAY"} /\ s.play \in Play
  BY DEF ServerOK, Server
<1>1. \/ s.state # "PLAY" /\ p.kind \in DOMAIN NextState /\ r = try_handle_handshake(s, q, p)
      \/ /\ s.state = "STATUS" /\ p.kind \notin Handshakes
         /\ r \in {Queue(s, q, Units(Reply(s, "STATUS_RESPONSE"))), Queue(s, q, Units(Reply(s, "PONG")))}
      \/ s.state = "LOGIN" /\ p.kind \notin Handshakes /\ r = login(s, q)
      \/ s.state = "PLAY" /\ p.kind \notin Handshakes /\ r = Ok(pong, q)
      \/ /\ s.state = "PLAY" /\ p.kind \in {"CHAT", "TELEPORT", "TIME", "WEATHER"}
         /\ p.kind \notin Handshakes /\ r = execute_command_result(s, q, p)
      \/ p.kind \notin Handshakes /\ r = Ok(s, q)
  <2>1. DOMAIN NextState = {"HANDSHAKE_STATUS", "HANDSHAKE_LOGIN"}
    BY DEF NextState
  <2>2. ~Fail(s, q).ok /\ ~Fail(reset_logical_session(s), q).ok
    BY DEF Fail
  <2>3. r.ok
    OBVIOUS
  <2>4. CASE s.state = "HANDSHAKE"
    BY <2>1, <2>2, <2>3, <2>4, SMTT(30) DEF handle_packet, IdZero, Handshakes
  <2>5. CASE s.state = "STATUS"
    BY <2>1, <2>2, <2>3, <2>5, SMTT(30) DEF handle_packet, IdZero, Handshakes
  <2>6. CASE s.state = "LOGIN"
    BY <2>1, <2>2, <2>3, <2>6, SMTT(30) DEF handle_packet, IdZero, Handshakes
  <2>7. CASE s.state = "PLAY"
    BY <2>1, <2>2, <2>3, <2>7, SMTT(30) DEF handle_packet, IdZero, Handshakes
  <2> QED
    BY <1>0, <2>4, <2>5, <2>6, <2>7
<1>2. CASE s.state # "PLAY" /\ p.kind \in DOMAIN NextState /\ r = try_handle_handshake(s, q, p)
  <2>1. p.kind \in Handshakes
    BY <1>2 DEF Handshakes, NextState
  <2>2. /\ ServerOK(r.srv) /\ RingOK(r.srv, r.tx) /\ Agreed(r.srv, r.tx, c)
        /\ r.tx = <<>> /\ r.srv.play = s.play /\ r.srv.state \in {"STATUS", "LOGIN"}
    BY <1>2, HandshakeKept
  <2> HIDE DEF r
  <2> QED
    BY <2>1, <2>2 DEF Accepted
<1>3. ASSUME Held(s, q, c, r), p.kind \notin Handshakes,
             s.state = "HANDSHAKE" => r.srv.state = "HANDSHAKE" /\ r.tx = q,
             r.srv.state = "HANDSHAKE" => s.state = "HANDSHAKE",
             r.srv.play.keepalive_id = s.play.keepalive_id,
             r.srv.play.last_keepalive_tick = s.play.last_keepalive_tick
      PROVE  Accepted(s, q, c, p, r)
  <2> HIDE DEF r
  <2> QED
    BY <1>3 DEF Held, Accepted
<1>4. CASE /\ s.state = "STATUS" /\ p.kind \notin Handshakes
           /\ r \in {Queue(s, q, Units(Reply(s, "STATUS_RESPONSE"))), Queue(s, q, Units(Reply(s, "PONG")))}
  <2>1. PICK name \in {"STATUS_RESPONSE", "PONG"} : r = Queue(s, q, Units(Reply(s, name)))
    BY <1>4
  <2>2. Held(s, q, c, r)
    BY <2>1, ReplyHeld
  <2>3. r.srv = s
    BY <2>1 DEF Queue, Ok, Fail
  <2> HIDE DEF r
  <2> QED
    BY <1>3, <1>4, <2>2, <2>3
<1>5. CASE s.state = "LOGIN" /\ p.kind \notin Handshakes /\ r = login(s, q)
  <2>1. Held(s, q, c, r) /\ r.srv.state = "PLAY" /\ r.srv.play = s.play
    BY <1>5, LoginHeld
  <2> HIDE DEF r
  <2> QED
    BY <1>3, <1>5, <2>1
<1>6. CASE s.state = "PLAY" /\ p.kind \notin Handshakes /\ r = Ok(pong, q)
  <2>1. /\ pong.play = [s.play EXCEPT !.keepalive_pending = FALSE]
        /\ pong.state = s.state /\ pong.compression_enabled = s.compression_enabled
        /\ pong.stage = s.stage /\ pong.chunk_index = s.chunk_index /\ pong.sent = s.sent
        /\ pong.session = s.session
    BY <1>0 DEF Server
  <2>2. /\ pong.play \in Play /\ pong.play.world_time = s.play.world_time
        /\ pong.play.weather = s.play.weather
        /\ pong.play.last_keepalive_tick = s.play.last_keepalive_tick
        /\ pong.play.keepalive_id = s.play.keepalive_id
    <3> DEFINE x == [s.play EXCEPT !.keepalive_pending = FALSE]
    <3>1. /\ x \in Play /\ x.world_time = s.play.world_time /\ x.weather = s.play.weather
          /\ x.last_keepalive_tick = s.play.last_keepalive_tick
          /\ x.keepalive_id = s.play.keepalive_id
      BY <1>0 DEF Play
    <3> HIDE DEF x, pong
    <3> QED
      BY <2>1, <3>1 DEF x
  <2>3. pong \in Server
    BY <1>0, <2>2 DEF Server
  <2> HIDE DEF pong
  <2>4. ServerOK(pong)
    BY <1>6, <2>1, <2>3 DEF ServerOK
  <2>5. Progress(pong) = Progress(s)
    BY <2>1 DEF Progress
  <2>6. ServerView(pong) = ServerView(s)
    BY <2>1, <2>2, <2>5 DEF ServerView
  <2>7. Held(s, q, c, Ok(pong, q))
    BY <2>1, <2>4, <2>6, SameHeld
  <2>8. r.srv = pong
    BY <1>6 DEF Ok
  <2> HIDE DEF r
  <2> QED
    BY <1>3, <1>6, <2>1, <2>2, <2>7, <2>8
<1>7. CASE /\ s.state = "PLAY" /\ p.kind \in {"CHAT", "TELEPORT", "TIME", "WEATHER"}
           /\ p.kind \notin Handshakes /\ r = execute_command_result(s, q, p)
  <2>1. /\ Held(s, q, c, r) /\ r.srv.state = "PLAY"
        /\ r.srv.play.keepalive_id = s.play.keepalive_id
        /\ r.srv.play.last_keepalive_tick = s.play.last_keepalive_tick
    BY <1>7, CommandHeld
  <2> HIDE DEF r
  <2> QED
    BY <1>3, <1>7, <2>1
<1>8. CASE p.kind \notin Handshakes /\ r = Ok(s, q)
  <2>1. Held(s, q, c, r)
    BY <1>8, SameHeld
  <2>2. r.srv = s /\ r.tx = q
    BY <1>8 DEF Ok
  <2> HIDE DEF r
  <2> QED
    BY <1>3, <1>8, <2>1, <2>2
<1> HIDE DEF r
<1> QED
  BY <1>1, <1>2, <1>4, <1>5, <1>6, <1>7, <1>8

\* The bootstrap's short packets, as many as fit.
LEMMA StagesHeld ==
    ASSUME NEW s, NEW q, NEW c, ServerOK(s), RingOK(s, q), Agreed(s, q, c),
           s.state = "PLAY", s.stage < CHUNKS
    PROVE  LET r == bootstrap_stages(s, q) IN
           Held(s, q, c, r) /\ r.srv.state = "PLAY" /\ r.srv.play = s.play
<1> DEFINE left == CHUNKS - s.stage
           free == TxCap - Len(q)
           n == IF left <= free THEN left ELSE free
           packets == [i \in 1..n |-> StagePacket(s, s.stage + i)]
           t == [s EXCEPT !.stage = @ + n]
           W == [i \in 0..n |-> [ServerView(s) EXCEPT !.boot = s.stage + i]]
<1>0. /\ s \in Server /\ s.stage \in 0..5 /\ s.chunk_index = 0 /\ ~s.sent /\ s.play \in Play
      /\ s.play.world_time \in Nat
  BY StageFacts DEF ServerOK, Server, Play
<1>1. n \in Nat /\ s.stage + n \in 0..6 /\ n <= free
  <2>1. Len(q) \in Nat /\ Len(q) <= TxCap /\ TxCap \in Nat
    BY ServerAssumption DEF RingOK, ServerAssumption
  <2> QED
    BY <1>0, <2>1, StageFacts
<1> HIDE DEF n
<1>2. /\ t \in Server /\ t.stage = s.stage + n /\ t.state = s.state /\ t.chunk_index = s.chunk_index
      /\ t.compression_enabled = s.compression_enabled /\ t.sent = s.sent /\ t.play = s.play
      /\ t.session = s.session
  <2>1. s.stage + n \in 0..DONE
    BY <1>1, StageFacts
  <2> QED
    BY <1>0, <2>1 DEF Server
<1> HIDE DEF t
<1>3. ServerOK(t)
  BY <1>0, <1>1, <1>2, StageFacts, ServerAssumption DEF ServerOK, ServerAssumption
<1>4. Progress(s) = s.stage /\ Progress(t) = s.stage + n
  BY <1>0, <1>1, <1>2, StageFacts DEF Progress
<1>5. /\ ServerView(s) \in View /\ ServerView(s).compressed = s.compression_enabled
      /\ ServerView(s).time = s.play.world_time /\ ServerView(s).boot = s.stage
  BY <1>4, ViewFacts DEF ServerView
<1>6. ServerView(t) = [ServerView(s) EXCEPT !.boot = s.stage + n]
  BY <1>2, <1>4 DEF ServerView
<1>7. ASSUME NEW i \in 1..n
      PROVE  LET p == StagePacket(s, s.stage + i) IN
             /\ p \in PacketType /\ p.units = 1 /\ p.session = s.session /\ p.step = s.stage + i
             /\ p.compressed = s.compression_enabled
             /\ p.name \notin {"SET_COMPRESSION", "GAME_STATE", "KEEPALIVE"}
             /\ p.name = "TIME" => p.val = s.play.world_time
  <2> DEFINE k == s.stage + i
             val == IF Stages[k] = "TIME" THEN s.play.world_time ELSE 0
  <2>1. k \in 1..6 /\ k \in Nat
    <3>1. /\ s.stage \in Int /\ n \in Int /\ i \in Int
          /\ 0 <= s.stage /\ 1 <= i /\ i <= n /\ s.stage + n <= 6
      BY <1>0, <1>1
    <3> QED
      BY <3>1
  <2>2. /\ Stages[k] \in Names \ {"SET_COMPRESSION", "GAME_STATE", "KEEPALIVE"}
        /\ Stages[k] \notin {"CHUNK", "STATUS_RESPONSE"}
    BY <2>1, StageFacts
  <2>3. val \in Nat
    BY <1>0
  <2>4. StagePacket(s, k) = Packet(s, Stages[k], val, k)
    BY DEF StagePacket
  <2>5. Stages[k] = "TIME" => val = s.play.world_time
    OBVIOUS
  <2> HIDE DEF k, val
  <2> DEFINE p == Packet(s, Stages[k], val, k)
  <2>6. /\ p \in PacketType /\ p.units = 1 /\ p.session = s.session /\ p.step = k
        /\ p.compressed = s.compression_enabled /\ p.name = Stages[k] /\ p.val = val
    BY <1>0, <2>1, <2>2, <2>3, PacketFacts
  <2> HIDE DEF p
  <2> QED
    BY <2>2, <2>4, <2>5, <2>6 DEF k, p
<1>8. ASSUME NEW i \in 0..n
      PROVE  /\ W[i] \in View /\ W[i].compressed = s.compression_enabled /\ W[i].boot = s.stage + i
             /\ W[i].keepalive = ServerView(s).keepalive /\ W[i].time = s.play.world_time
             /\ W[i].weather = ServerView(s).weather
  BY <1>0, <1>1, <1>5 DEF View
<1>9. W \in [0..n -> View] /\ W[0] = ServerView(s) /\ W[n] = ServerView(t)
  <2>1. W \in [0..n -> View]
    BY <1>8
  <2>2. W[n] = ServerView(t)
    BY <1>1, <1>6
  <2>3. W[0] = ServerView(s)
    BY <1>0, <1>1, <1>5 DEF View
  <2> QED
    BY <2>1, <2>2, <2>3
<1>10. packets \in Seq(PacketType) /\ Len(packets) = n
  BY <1>1, <1>7
<1>11. ASSUME NEW i \in 1..n
       PROVE  /\ packets[i].units = 1 /\ packets[i].session = s.session
              /\ Surprises(W[i - 1], packets[i]) = {} /\ W[i] = Learn(W[i - 1], packets[i])
  <2> DEFINE p == StagePacket(s, s.stage + i)
  <2>1. packets[i] = p
    OBVIOUS
  <2>2. /\ p.units = 1 /\ p.session = s.session /\ p.step = s.stage + i
        /\ p.compressed = s.compression_enabled
        /\ p.name \notin {"SET_COMPRESSION", "GAME_STATE", "KEEPALIVE"}
        /\ p.name = "TIME" => p.val = s.play.world_time
    BY <1>7
  <2> HIDE DEF p, packets, W
  <2>3. i - 1 \in 0..n /\ i \in 0..n /\ s.stage + i = (s.stage + (i - 1)) + 1 /\ s.stage + i # 0
    BY <1>0, <1>1
  <2>4. Surprises(W[i - 1], p) = {}
    BY <1>8, <2>2, <2>3 DEF Surprises
  <2>5. (W[i - 1].compressed \/ p.name = "SET_COMPRESSION") = W[i - 1].compressed
    BY <1>8, <2>2, <2>3 DEF View
  <2>6. Learn(W[i - 1], p) =
           [compressed |-> W[i - 1].compressed, boot |-> s.stage + i,
            keepalive |-> W[i - 1].keepalive, time |-> W[i - 1].time, weather |-> W[i - 1].weather]
    BY <1>8, <2>2, <2>3, <2>5 DEF Learn
  <2>7. W[i] = [compressed |-> W[i].compressed, boot |-> W[i].boot, keepalive |-> W[i].keepalive,
                time |-> W[i].time, weather |-> W[i].weather]
    BY <1>8, <2>3 DEF View
  <2> QED
    BY <1>8, <2>1, <2>2, <2>3, <2>4, <2>6, <2>7
<1> HIDE DEF W, packets
<1>12. Told(s, Short(packets), t)
  BY <1>2, <1>9, <1>10, <1>11, TellShort
<1>13. Fits(q, Short(packets))
  BY <1>1, <1>10, ShortFacts DEF Fits
<1>14. /\ RingOK(t, q \o Short(packets)) /\ Agreed(t, q \o Short(packets), c)
       /\ \A m \in Nat : Whole(q, m) => Whole(q \o Short(packets), m)
  BY <1>12, <1>13, Queued
<1>15. bootstrap_stages(s, q) \in {Ok(t, q \o Short(packets)), Fail(t, q \o Short(packets))}
  BY DEF bootstrap_stages, packets, t, n
<1>16. bootstrap_stages(s, q).srv = t /\ bootstrap_stages(s, q).tx = q \o Short(packets)
  BY <1>15 DEF Ok, Fail
<1> QED
  BY <1>2, <1>3, <1>14, <1>16 DEF Held

\* The bootstrap's chunks, one at a time.
LEMMA ChunkHeld ==
    ASSUME NEW s, NEW q, NEW c, ServerOK(s), RingOK(s, q), Agreed(s, q, c),
           s.state = "PLAY", ~s.sent, ~(s.stage < CHUNKS)
    PROVE  LET r == bootstrap_chunk(s, q) IN
           Held(s, q, c, r) /\ r.srv.state = "PLAY" /\ r.srv.play = s.play
<1> DEFINE r == bootstrap_chunk(s, q)
           p == Packet(s, "CHUNK", 0, DONE + s.chunk_index)
           last == s.chunk_index + 1 = Chunks
           t == [s EXCEPT !.chunk_index = @ + 1, !.stage = IF last THEN DONE ELSE @, !.sent = last]
<1>0. /\ s \in Server /\ s.stage = 6 /\ s.chunk_index \in Nat /\ s.chunk_index < Chunks
      /\ Chunks \in Nat
  BY StageFacts, ServerAssumption DEF ServerOK, Server, ServerAssumption
<1>1. /\ p \in PacketType /\ p.name = "CHUNK" /\ p.step = 7 + s.chunk_index
      /\ p.compressed = s.compression_enabled /\ p.session = s.session
  <2>1. "CHUNK" \in Names /\ DONE + s.chunk_index \in Nat
    BY <1>0, StageFacts DEF Names
  <2> DEFINE step == DONE + s.chunk_index
  <2>2. step = 7 + s.chunk_index
    BY <1>0, StageFacts
  <2> HIDE DEF step
  <2>3. LET x == Packet(s, "CHUNK", 0, step) IN
        /\ x \in PacketType /\ x.name = "CHUNK" /\ x.step = step
        /\ x.compressed = s.compression_enabled /\ x.session = s.session
    BY <1>0, <2>1, PacketFacts DEF step
  <2> QED
    BY <2>2, <2>3 DEF step
<1>2. CASE ~Fits(q, Units(p))
  <2>1. r = Fail(s, q)
    BY <1>2 DEF bootstrap_chunk
  <2>2. r.srv = s /\ r.tx = q
    BY <2>1 DEF Fail
  <2> QED
    BY <2>2 DEF Held
<1>3. CASE Fits(q, Units(p))
  <2>0. last \in BOOLEAN /\ s.chunk_index + 1 \in 0..Chunks
    BY <1>0
  <2>1. /\ t.chunk_index = s.chunk_index + 1 /\ t.stage = (IF last THEN DONE ELSE s.stage)
        /\ t.sent = last /\ t.state = s.state /\ t.compression_enabled = s.compression_enabled
        /\ t.play = s.play /\ t.session = s.session
    BY <1>0 DEF Server
  <2>2. t \in Server
    <3> DEFINE stage == IF last THEN DONE ELSE s.stage
    <3>1. stage \in 0..DONE
      BY <1>0, StageFacts
    <3>2. t = [s EXCEPT !.chunk_index = s.chunk_index + 1, !.stage = stage, !.sent = last]
      BY <1>0 DEF Server
    <3> HIDE DEF last, stage, t
    <3> QED
      BY <1>0, <2>0, <3>1, <3>2 DEF Server
  <2>3. r = Ok(t, q \o Units(p))
    BY <1>3 DEF bootstrap_chunk
  <2> HIDE DEF t
  <2>4. ServerOK(t)
    <3>1. CASE last
      <4>1. t.sent = TRUE /\ t.stage = 7 /\ t.chunk_index = Chunks /\ t.state = "PLAY"
        BY <2>1, <3>1, StageFacts
      <4> QED
        BY <2>2, <4>1, StageFacts DEF ServerOK
    <3>2. CASE ~last
      <4>1. t.sent = FALSE /\ t.stage = 6 /\ t.chunk_index < Chunks /\ t.state = "PLAY"
        <5>1. s.chunk_index + 1 < Chunks
          BY <1>0, <3>2
        <5>2. t.sent = FALSE
          BY <2>1, <3>2
        <5> HIDE DEF last
        <5> QED
          BY <1>0, <2>1, <3>2, <5>1, <5>2
      <4> QED
        BY <2>2, <4>1, StageFacts DEF ServerOK
    <3> QED
      BY <3>1, <3>2
  <2>5. Progress(s) = 6 + s.chunk_index /\ Progress(t) = 7 + s.chunk_index
    BY <1>0, <2>1, StageFacts DEF Progress
  <2>6. /\ ServerView(s) \in View /\ ServerView(t) \in View
        /\ ServerView(s).compressed = s.compression_enabled /\ ServerView(s).boot = 6 + s.chunk_index
        /\ ServerView(t) = [ServerView(s) EXCEPT !.boot = 7 + s.chunk_index]
    BY <2>1, <2>4, <2>5, ViewFacts DEF ServerView
  <2> HIDE DEF p
  <2>7. Surprises(ServerView(s), p) = {}
    BY <1>0, <1>1, <2>6 DEF Surprises
  <2>8. Learn(ServerView(s), p) = ServerView(t)
    <3>1. (ServerView(s).compressed \/ p.name = "SET_COMPRESSION") = ServerView(s).compressed
      BY <1>1, <2>6 DEF View
    <3>2. 7 + s.chunk_index # 0
      BY <1>0
    <3> QED
      BY <1>1, <2>6, <3>1, <3>2 DEF Learn, View
  <2>9. Told(s, Units(p), t)
    BY <1>1, <2>1, <2>6, <2>7, <2>8, TellPacket
  <2>10. /\ RingOK(t, q \o Units(p)) /\ Agreed(t, q \o Units(p), c)
         /\ \A m \in Nat : Whole(q, m) => Whole(q \o Units(p), m)
    BY <1>3, <2>9, Queued
  <2>11. r.srv = t /\ r.tx = q \o Units(p)
    BY <2>3 DEF Ok
  <2> HIDE DEF r
  <2> QED
    BY <2>1, <2>4, <2>10, <2>11 DEF Held, r
<1> QED
  BY <1>2, <1>3

\* A KeepAlive is due by the clock.
DueByClock(s, t) ==
    \/ s.play.last_keepalive_tick = 0
    \/ elapsed_ticks(t, s.play.last_keepalive_tick) >= Interval

\* tick_keepalive, and with it mc_server_tick_at: either no KeepAlive is
\* queued, or one is, with the next id and the tick.
Ticked(s, q, c, t, r) ==
    /\ Held(s, q, c, r) /\ r.srv.state = s.state
    /\ s.state # "PLAY" => r.srv = s /\ r.tx = q
    /\ \/ /\ r.srv.play = s.play
          /\ r.ok /\ r.srv.sent => ~DueByClock(s, t)
       \/ /\ r.srv.play.keepalive_id = NextId(s.play.keepalive_id)
          /\ r.srv.play.last_keepalive_tick = t
          /\ DueByClock(s, t)

LEMMA NextIdFacts ==
    ASSUME NEW id \in 0..IdMax
    PROVE  NextId(id) \in 1..IdMax /\ NextId(id) # id
BY ServerAssumption DEF NextId, ServerAssumption

LEMMA KeepAliveTicked ==
    ASSUME NEW s, NEW q, NEW c, NEW t \in 0..(TickMod - 1),
           ServerOK(s), RingOK(s, q), Agreed(s, q, c)
    PROVE  Ticked(s, q, c, t, tick_keepalive(s, q, t))
<1> DEFINE r == tick_keepalive(s, q, t)
           id == NextId(s.play.keepalive_id)
           alive == [s EXCEPT !.play.keepalive_id = id, !.play.keepalive_pending = TRUE,
                              !.play.last_keepalive_tick = t]
           p == Packet(s, "KEEPALIVE", id, 0)
           told == Queue(alive, q, Units(p))
<1> SUFFICES Ticked(s, q, c, t, r)
  OBVIOUS
<1>0. /\ s \in Server /\ s.play \in Play /\ s.play.keepalive_id \in 0..IdMax
      /\ s.state # "PLAY" => ~s.sent
  BY DEF ServerOK, Server, Play
<1>1. ASSUME r.srv = s, r.tx = q, r.ok /\ s.sent => ~DueByClock(s, t)
      PROVE  Ticked(s, q, c, t, r)
  <2> HIDE DEF r
  <2>1. Held(s, q, c, r)
    BY <1>1 DEF Held
  <2> QED
    BY <1>1, <2>1 DEF Ticked
<1>2. CASE ~keepalive_due(s, t)
  <2>1. r = Ok(s, q)
    BY <1>2 DEF tick_keepalive
  <2>2. r.srv = s /\ r.tx = q
    BY <2>1 DEF Ok
  <2> HIDE DEF r
  <2> QED
    BY <1>0, <1>1, <1>2, <2>2 DEF keepalive_due, DueByClock
<1>3. CASE keepalive_due(s, t) /\ ~told.ok
  <2>1. r = Fail(s, q)
    BY <1>3 DEF tick_keepalive
  <2>2. r.srv = s /\ r.tx = q /\ ~r.ok
    BY <2>1 DEF Fail
  <2> HIDE DEF r
  <2> QED
    BY <1>1, <2>2
<1>4. CASE keepalive_due(s, t) /\ told.ok
  <2>0. s.state = "PLAY" /\ s.sent /\ DueByClock(s, t)
    BY <1>4 DEF keepalive_due, DueByClock
  <2>1. r = told
    BY <1>4 DEF tick_keepalive
  <2>2. id \in 1..IdMax /\ id \in Nat /\ id # 0 /\ id \in 0..IdMax
    BY <1>0, NextIdFacts, ServerAssumption DEF ServerAssumption
  <2>3. /\ p \in PacketType /\ p.name = "KEEPALIVE" /\ p.step = 0 /\ p.val = id
        /\ p.compressed = s.compression_enabled /\ p.session = s.session
    <3>1. "KEEPALIVE" \in Names
      BY DEF Names
    <3> HIDE DEF id
    <3> QED
      BY <1>0, <2>2, <3>1, PacketFacts
  <2> DEFINE x == [s.play EXCEPT !.keepalive_id = id, !.keepalive_pending = TRUE,
                                 !.last_keepalive_tick = t]
  <2>4. /\ alive.play = x /\ alive.state = s.state /\ alive.stage = s.stage
        /\ alive.compression_enabled = s.compression_enabled
        /\ alive.chunk_index = s.chunk_index /\ alive.sent = s.sent /\ alive.session = s.session
    BY <1>0 DEF Server
  <2>5. /\ x \in Play /\ x.world_time = s.play.world_time /\ x.weather = s.play.weather
        /\ x.last_keepalive_tick = t /\ x.keepalive_id = id
    <3> HIDE DEF id
    <3> QED
      BY <1>0, <2>2 DEF Play
  <2>6. alive \in Server
    <3>1. alive = [s EXCEPT !.play = x]
      BY <1>0 DEF Server
    <3> HIDE DEF x, alive
    <3> QED
      BY <1>0, <2>5, <3>1 DEF Server
  <2> HIDE DEF alive, x, id, p
  <2>7. ServerOK(alive)
    BY <2>0, <2>4, <2>6 DEF ServerOK
  <2>8. Progress(alive) = Progress(s) /\ Progress(s) = CHUNKS + Chunks
    BY <2>0, <2>4, StageFacts DEF Progress, ServerOK
  <2>9. /\ ServerView(s) \in View /\ ServerView(alive) \in View
        /\ ServerView(s).compressed = s.compression_enabled
        /\ ServerView(s).boot = CHUNKS + Chunks
        /\ ServerView(s).keepalive = s.play.keepalive_id
        /\ ServerView(alive) = [ServerView(s) EXCEPT !.keepalive = id]
    BY <2>4, <2>5, <2>7, <2>8, ViewFacts DEF ServerView
  <2>10. Surprises(ServerView(s), p) = {}
    <3>1. p.val = NextId(ServerView(s).keepalive)
      BY <2>3, <2>9 DEF id
    <3> QED
      BY <2>3, <2>9, <3>1 DEF Surprises
  <2>11. Learn(ServerView(s), p) = ServerView(alive)
    <3>1. (ServerView(s).compressed \/ p.name = "SET_COMPRESSION") = ServerView(s).compressed
      BY <2>3, <2>9 DEF View
    <3> QED
      BY <2>3, <2>9, <3>1 DEF Learn, View
  <2>12. Told(s, Units(p), alive)
    BY <2>0, <2>3, <2>4, <2>9, <2>10, <2>11, TellPacket
  <2>13. Held(s, q, c, told) /\ told = Ok(alive, q \o Units(p))
    BY <1>4, <2>7, <2>12, QueueHeld
  <2> HIDE DEF told, r
  <2>14. r.srv = alive
    BY <2>1, <2>13 DEF Ok
  <2> QED
    BY <2>0, <2>1, <2>4, <2>5, <2>13, <2>14 DEF Ticked, id
<1> QED
  BY <1>2, <1>3, <1>4

LEMMA TickTicked ==
    ASSUME NEW s, NEW q, NEW c, NEW t \in 0..(TickMod - 1),
           ServerOK(s), RingOK(s, q), Agreed(s, q, c)
    PROVE  Ticked(s, q, c, t, tick_at(s, q, t))
<1> DEFINE boot == IF s.state # "PLAY" \/ s.sent THEN Ok(s, q)
                   ELSE IF s.stage < CHUNKS THEN bootstrap_stages(s, q)
                   ELSE bootstrap_chunk(s, q)
           r == tick_at(s, q, t)
<1> SUFFICES Ticked(s, q, c, t, r)
  OBVIOUS
<1>1. r = IF boot.ok THEN tick_keepalive(boot.srv, boot.tx, t) ELSE boot
  BY DEF tick_at
<1>2. /\ Held(s, q, c, boot) /\ boot.srv.state = s.state /\ boot.srv.play = s.play
      /\ s.state # "PLAY" => boot.ok /\ boot.srv = s /\ boot.tx = q
  <2>1. CASE s.state # "PLAY" \/ s.sent
    <3>1. boot.ok /\ boot.srv = s /\ boot.tx = q
      BY <2>1 DEF Ok
    <3> HIDE DEF boot
    <3> QED
      BY <3>1 DEF Held
  <2>2. CASE s.state = "PLAY" /\ ~s.sent /\ s.stage < CHUNKS
    BY <2>2, StagesHeld
  <2>3. CASE s.state = "PLAY" /\ ~s.sent /\ ~(s.stage < CHUNKS)
    BY <2>3, ChunkHeld
  <2> QED
    BY <2>1, <2>2, <2>3
<1> HIDE DEF boot, r
<1>3. CASE ~boot.ok
  <2>1. r = boot
    BY <1>1, <1>3
  <2> QED
    BY <1>2, <1>3, <2>1 DEF Ticked
<1>4. CASE boot.ok
  <2>1. Ticked(boot.srv, boot.tx, c, t, r)
    BY <1>1, <1>2, <1>4, KeepAliveTicked DEF Held
  <2>2. DueByClock(boot.srv, t) <=> DueByClock(s, t)
    BY <1>2 DEF DueByClock
  <2>3. Held(s, q, c, r)
    BY <1>2, <2>1 DEF Held, Ticked
  <2> QED
    BY <1>2, <2>1, <2>2, <2>3 DEF Ticked
<1> QED
  BY <1>3, <1>4

-----------------------------------------------------------------------------
(* The clock.                                                              *)

LEMMA ModFacts ==
    ASSUME NEW m \in Nat \ {0}, NEW x \in Int
    PROVE  /\ x \in 0..(m - 1) => x % m = x
           /\ x \in m..(2 * m - 1) => x % m = x - m
           /\ x \in (-m)..(-1) => x % m = x + m
<1>1. ASSUME x \in 0..(m - 1) PROVE x % m = x
  BY <1>1
<1>2. ASSUME x \in m..(2 * m - 1) PROVE x % m = x - m
  BY <1>2
<1>3. ASSUME x \in (-m)..(-1) PROVE x % m = x + m
  BY <1>3
<1> QED
  BY <1>1, <1>2, <1>3

\* The clock moves on by d: the elapsed ticks grow by d, or wrap.
LEMMA ElapsedMoves ==
    ASSUME NEW a \in 0..(TickMod - 1), NEW b \in 0..(TickMod - 1), NEW d \in 0..MaxStep
    PROVE  /\ (a + d) % TickMod \in 0..(TickMod - 1)
           /\ elapsed_ticks(a, b) + d < TickMod =>
                 elapsed_ticks((a + d) % TickMod, b) = elapsed_ticks(a, b) + d
           /\ elapsed_ticks(b, b) = 0
<1>0. /\ TickMod \in Nat \ {0} /\ MaxStep < TickMod /\ MaxStep \in Nat
      /\ a \in Int /\ b \in Int /\ d \in Int /\ 0 <= a /\ a < TickMod /\ 0 <= b /\ b < TickMod
      /\ 0 <= d /\ d < TickMod
  BY ServerAssumption DEF ServerAssumption
<1> DEFINE t == (a + d) % TickMod
<1>1. t = IF a + d < TickMod THEN a + d ELSE a + d - TickMod
  <2>1. CASE a + d < TickMod
    BY <1>0, <2>1, ModFacts
  <2>2. CASE ~(a + d < TickMod)
    <3> DEFINE y == a + d
    <3>1. y \in TickMod..(2 * TickMod - 1) /\ y \in Int
      BY <1>0, <2>2
    <3> HIDE DEF y
    <3>2. y % TickMod = y - TickMod
      BY <1>0, <3>1, ModFacts
    <3> QED
      BY <1>0, <2>2, <3>2 DEF y
  <2> QED
    BY <2>1, <2>2
<1>2. t \in 0..(TickMod - 1)
  BY <1>0, <1>1
<1>3. ASSUME NEW x \in 0..(TickMod - 1)
      PROVE  elapsed_ticks(x, b) = IF x >= b THEN x - b ELSE x - b + TickMod
  <2>0. x \in Int /\ 0 <= x /\ x < TickMod
    BY <1>0
  <2>1. CASE x >= b
    <3> DEFINE y == x - b
    <3>1. y \in 0..(TickMod - 1) /\ y \in Int
      BY <1>0, <2>0, <2>1
    <3> HIDE DEF y
    <3>2. y % TickMod = y
      BY <1>0, <3>1, ModFacts
    <3> QED
      BY <2>1, <3>2 DEF elapsed_ticks, y
  <2>2. CASE ~(x >= b)
    <3> DEFINE y == x - b
    <3>1. y \in (-TickMod)..(-1) /\ y \in Int
      BY <1>0, <2>0, <2>2
    <3> HIDE DEF y
    <3>2. y % TickMod = y + TickMod
      BY <1>0, <3>1, ModFacts
    <3> QED
      BY <2>2, <3>2 DEF elapsed_ticks, y
  <2> QED
    BY <2>1, <2>2
<1>4. elapsed_ticks(b, b) = 0
  BY <1>0, <1>3
<1>5. ASSUME elapsed_ticks(a, b) + d < TickMod
      PROVE  elapsed_ticks(t, b) = elapsed_ticks(a, b) + d
  <2>1. elapsed_ticks(a, b) = IF a >= b THEN a - b ELSE a - b + TickMod
    BY <1>3
  <2>2. elapsed_ticks(t, b) = IF t >= b THEN t - b ELSE t - b + TickMod
    BY <1>2, <1>3
  <2> HIDE DEF t
  <2> QED
    BY <1>0, <1>1, <1>5, <2>1, <2>2
<1> QED
  BY <1>2, <1>4, <1>5

-----------------------------------------------------------------------------
(* The client.                                                             *)

\* What reading a unit does to the client.
LEMMA TakesFacts ==
    ASSUME NEW k \in Client, NEW u \in Unit
    PROVE  LET d == ClientTakes(k, u) IN
           /\ ClientView(d) = IF Ends(u) THEN Learn(ClientView(k), u.packet) ELSE ClientView(k)
           /\ d.part = Rest(u) /\ d.handshakes = k.handshakes
           /\ d.confused = k.confused \cup (IF u.part = k.part + 1 THEN {} ELSE {"torn"})
                             \cup (IF Ends(u) THEN Surprises(ClientView(k), u.packet) ELSE {})
           /\ ClientView(d) \in View => d \in Client
<1> DEFINE x == [k EXCEPT !.confused = IF u.part = k.part + 1 THEN @ ELSE @ \cup {"torn"}]
           d == ClientTakes(k, u)
           p == u.packet
<1>0. u.part \in Nat
  BY DEF Unit
<1>1. /\ x \in Client /\ x.phase = k.phase /\ x.compressed = k.compressed /\ x.boot = k.boot
      /\ x.keepalive = k.keepalive /\ x.time = k.time /\ x.weather = k.weather /\ x.part = k.part
      /\ x.commands = k.commands /\ x.handshakes = k.handshakes
      /\ x.confused = k.confused \cup (IF u.part = k.part + 1 THEN {} ELSE {"torn"})
  <2> DEFINE f == IF u.part = k.part + 1 THEN k.confused ELSE k.confused \cup {"torn"}
  <2>1. x = [k EXCEPT !.confused = f]
    BY DEF Client
  <2>2. /\ f \in SUBSET {"format", "bootstrap", "keepalive", "torn"}
        /\ f = k.confused \cup (IF u.part = k.part + 1 THEN {} ELSE {"torn"})
    BY DEF Client
  <2> HIDE DEF f, x
  <2> QED
    BY <2>1, <2>2 DEF Client
<1>2. d = IF Ends(u) THEN ClientReads(x, p) ELSE [x EXCEPT !.part = u.part]
  BY DEF ClientTakes, Ends
<1> HIDE DEF x, d
<1>3. CASE ~Ends(u)
  <2>1. d = [x EXCEPT !.part = u.part]
    BY <1>2, <1>3
  <2>2. d \in Client
    BY <1>0, <1>1, <2>1 DEF Client
  <2>3. ClientView(d) = ClientView(k)
    BY <1>1, <2>1 DEF ClientView, Client
  <2>4. d.part = Rest(u) /\ d.handshakes = k.handshakes /\ d.confused = x.confused
    BY <1>1, <1>3, <2>1 DEF Rest, Client
  <2> QED
    BY <1>1, <1>3, <2>2, <2>3, <2>4 DEF d
<1>4. CASE Ends(u)
  <2>1. /\ d.confused = x.confused \cup Surprises(x, p) /\ d.part = 0
        /\ d.boot = (IF p.step = 0 THEN x.boot ELSE p.step)
        /\ d.compressed = (x.compressed \/ p.name = "SET_COMPRESSION")
        /\ d.phase = (IF p.name = "LOGIN_SUCCESS" THEN "play" ELSE x.phase)
        /\ d.keepalive = (IF p.name = "KEEPALIVE" THEN p.val ELSE x.keepalive)
        /\ d.time = (IF p.name = "TIME" THEN p.val ELSE x.time)
        /\ d.weather = (IF p.name = "GAME_STATE" THEN [x.weather EXCEPT ![p.val.field] = p.val.level]
                        ELSE x.weather)
        /\ d.commands = x.commands /\ d.handshakes = x.handshakes
        /\ d = [phase |-> d.phase, compressed |-> d.compressed, boot |-> d.boot,
                keepalive |-> d.keepalive, time |-> d.time, weather |-> d.weather, part |-> d.part,
                commands |-> d.commands, handshakes |-> d.handshakes, confused |-> d.confused]
    BY <1>1, <1>2, <1>4 DEF ClientReads, Client
  <2>2. ClientView(d) = Learn(ClientView(k), p)
    BY <1>1, <2>1 DEF ClientView, Learn
  <2>3. Surprises(x, p) = Surprises(ClientView(k), p)
    BY <1>1 DEF Surprises, ClientView
  <2>4. ASSUME ClientView(d) \in View PROVE d \in Client
    <3>1. /\ d.compressed \in BOOLEAN /\ d.boot \in Nat /\ d.keepalive \in Nat /\ d.time \in Nat
          /\ d.weather \in Weather
      BY <2>4 DEF ClientView, View
    <3>2. d.confused \in SUBSET {"format", "bootstrap", "keepalive", "torn"}
      BY <1>1, <2>1 DEF Surprises, Client
    <3>3. d.phase \in {"new", "status", "login", "waiting", "play"} /\ d.part \in Nat
      BY <1>1, <2>1 DEF Client
    <3>4. d.commands \in Nat /\ d.handshakes \in 0..2
      BY <1>1, <2>1 DEF Client
    <3> QED
      BY <2>1, <3>1, <3>2, <3>3, <3>4 DEF Client
  <2>5. Rest(u) = 0
    BY <1>4 DEF Rest
  <2> QED
    BY <1>1, <1>4, <2>1, <2>2, <2>3, <2>4, <2>5 DEF d
<1> QED
  BY <1>3, <1>4

-----------------------------------------------------------------------------
(* The invariant is inductive.                                             *)

\* A session starts with nothing known and nothing queued.
LEMMA FreshFacts ==
    /\ ServerOK(Fresh) /\ RingOK(Fresh, <<>>) /\ Agreed(Fresh, <<>>, NewClient)
    /\ NewClient \in Client /\ NewClient.confused = {} /\ NewClient.part = 0
    /\ NewClient.handshakes = 0 /\ Whole(<<>>, 0)
    /\ Fresh.state = "HANDSHAKE" /\ Fresh.play.keepalive_id = 0
    /\ Fresh.play.last_keepalive_tick = 0
<1>0. /\ 0 \in 0..(TickMod - 1) /\ 0 \in 0..IdMax /\ 0 \in 0..Chunks /\ 0 \in 0..DONE
      /\ DefaultTime \in Nat /\ TxCap \in Nat
  BY ServerAssumption, StageFacts DEF ServerAssumption
<1>1. PlayRuntime \in Play
  BY <1>0, WeatherFacts DEF PlayRuntime, Play
<1>2. Fresh \in Server
  BY <1>0, <1>1 DEF Fresh, Server
<1>3. /\ Fresh.state = "HANDSHAKE" /\ Fresh.compression_enabled = FALSE /\ Fresh.stage = 0
      /\ Fresh.chunk_index = 0 /\ Fresh.sent = FALSE /\ Fresh.play = PlayRuntime
  BY DEF Fresh
<1>4. /\ PlayRuntime.keepalive_id = 0 /\ PlayRuntime.last_keepalive_tick = 0
      /\ PlayRuntime.world_time = DefaultTime /\ PlayRuntime.weather = "CLEAR"
  BY DEF PlayRuntime
<1>5. ServerOK(Fresh)
  BY <1>2, <1>3, StageFacts DEF ServerOK
<1>6. RingOK(Fresh, <<>>) /\ Whole(<<>>, 0)
  BY <1>0 DEF RingOK, Whole
<1>7. <<0, 0, 0>> \in Weather
  BY DEF Weather
<1>8. /\ NewClient \in Client /\ NewClient.confused = {} /\ NewClient.part = 0
      /\ NewClient.handshakes = 0
  BY <1>0, <1>7 DEF NewClient, Client
<1>9. ClientView(NewClient) = ServerView(Fresh) /\ ServerView(Fresh) \in View
  <2>1. Progress(Fresh) = 0
    BY <1>3, StageFacts DEF Progress
  <2>2. ServerView(Fresh) = [compressed |-> FALSE, boot |-> 0, keepalive |-> 0,
                             time |-> DefaultTime, weather |-> <<0, 0, 0>>]
    BY <1>3, <1>4, <2>1, WeatherFacts DEF ServerView
  <2>3. ClientView(NewClient) = [compressed |-> FALSE, boot |-> 0, keepalive |-> 0,
                                 time |-> DefaultTime, weather |-> <<0, 0, 0>>]
    BY DEF ClientView, NewClient
  <2> QED
    BY <1>5, <2>2, <2>3, ViewFacts
<1>10. Agreed(Fresh, <<>>, NewClient)
  <2> DEFINE W == [i \in 0..0 |-> ServerView(Fresh)]
  <2>1. /\ Trace(W, <<>>, ClientView(NewClient), ServerView(Fresh))
        /\ \A i \in 0..Len(<<>>) : W[i] = ServerView(Fresh)
    BY <1>9 DEF Trace
  <2> HIDE DEF W
  <2> QED
    BY <2>1 DEF Agreed
<1> QED
  BY <1>3, <1>4, <1>5, <1>6, <1>8, <1>10

LEMMA InitServer == Init => ServerInv
<1> SUFFICES ASSUME Init PROVE ServerInv
  OBVIOUS
<1>1. InboxOK
  BY DEF Init, InboxOK
<1>2. ClockOK
  BY FreshFacts, ServerAssumption DEF Init, ClockOK, Never, KeepAliveOnTime, ServerAssumption
<1>3. FirstHandshake
  BY FreshFacts DEF Init, FirstHandshake
<1>4. ReadOK
  BY FreshFacts DEF Init, ReadOK
<1> QED
  BY <1>1, <1>2, <1>3, <1>4, FreshFacts DEF Init, ServerInv

LEMMA SessionInv ==
    ASSUME ServerInv, NewSession
    PROVE  ServerInv'
<1>1. InboxOK'
  BY DEF NewSession, InboxOK
<1>2. ClockOK'
  BY FreshFacts DEF NewSession, ServerInv, ClockOK, Never, KeepAliveOnTime
<1>3. FirstHandshake'
  BY FreshFacts DEF NewSession, FirstHandshake
<1>4. ReadOK'
  BY FreshFacts DEF NewSession, ReadOK
<1>5. ServerOK(srv') /\ RingOK(srv', tx') /\ Agreed(srv', tx', client')
  BY FreshFacts DEF NewSession
<1> QED
  BY <1>1, <1>2, <1>3, <1>4, <1>5 DEF ServerInv

\* A packet is answered: a client's first handshake is still the only one.
LEMMA AnsweredFirst ==
    ASSUME FirstHandshake, inbox \in Seq(Incoming), inbox # <<>>, NEW c, NEW r,
           Accepted(srv, tx, c, Head(inbox), r), srv' = r.srv, tx' = r.tx, inbox' = Tail(inbox),
           UNCHANGED client
    PROVE  FirstHandshake'
<1> DEFINE p == Head(inbox)
<1>1. /\ Len(inbox) \in Nat \ {0} /\ p = inbox[1] /\ Len(inbox') = Len(inbox) - 1
      /\ \A i \in 1..Len(inbox') : i + 1 \in 1..Len(inbox) /\ inbox'[i] = inbox[i + 1]
  BY TailFacts
<1>2. Accepted(srv, tx, c, p, r)
  OBVIOUS
<1> HIDE DEF p
<1>3. srv'.state = "HANDSHAKE" => tx' = <<>> /\ client'.part = 0
  BY <1>2 DEF Accepted, FirstHandshake
<1>4. client'.handshakes = 0 =>
          /\ \A i \in 1..Len(inbox') : inbox'[i].kind \notin Handshakes
          /\ srv'.state = "HANDSHAKE"
  BY <1>1, <1>2 DEF Accepted, FirstHandshake
<1>5. ASSUME client'.handshakes < 2, NEW i \in 1..Len(inbox'), inbox'[i].kind \in Handshakes
      PROVE  /\ srv'.state = "HANDSHAKE"
             /\ \A j \in 1..Len(inbox') : inbox'[j].kind \in Handshakes => j = i
  <2>1. /\ i + 1 \in 1..Len(inbox) /\ i \in Nat /\ i + 1 # 1
        /\ inbox[i + 1].kind \in Handshakes /\ client.handshakes < 2
    BY <1>1, <1>5
  <2>2. /\ srv.state = "HANDSHAKE"
        /\ \A j \in 1..Len(inbox) : inbox[j].kind \in Handshakes => j = i + 1
    BY <2>1 DEF FirstHandshake
  <2>3. p.kind \notin Handshakes
    BY <1>1, <2>1, <2>2
  <2>4. srv'.state = "HANDSHAKE"
    BY <1>2, <2>2, <2>3 DEF Accepted
  <2>5. ASSUME NEW j \in 1..Len(inbox'), inbox'[j].kind \in Handshakes PROVE j = i
    BY <1>1, <2>1, <2>2, <2>5
  <2> QED
    BY <2>4, <2>5
<1> QED
  BY <1>3, <1>4, <1>5 DEF FirstHandshake

LEMMA ReceiveInv ==
    ASSUME ServerInv, Receive
    PROVE  ServerInv'
<1> DEFINE p == Head(inbox)
           r == handle_packet(srv, tx, p)
<1>1. CASE ~r.ok /\ NewSession
  BY <1>1, SessionInv
<1>2. CASE /\ r.ok /\ srv' = r.srv /\ tx' = r.tx /\ inbox' = Tail(inbox)
           /\ UNCHANGED <<client, now, since, punctual>>
  <2>0. inbox \in Seq(Incoming) /\ inbox # <<>>
    BY DEF Receive, ServerInv, InboxOK
  <2>1. /\ Len(inbox) \in Nat \ {0} /\ p = inbox[1]
        /\ inbox' \in Seq(Incoming) /\ Len(inbox') = Len(inbox) - 1
        /\ \A i \in 1..Len(inbox') : i + 1 \in 1..Len(inbox) /\ inbox'[i] = inbox[i + 1]
    BY <1>2, <2>0, TailFacts
  <2>2. /\ p.kind = "TIME" => p.val \in Nat
        /\ p.kind = "WEATHER" => p.val \in Weathers
    BY <2>1 DEF ServerInv, InboxOK
  <2> HIDE DEF p
  <2>3. Accepted(srv, tx, client, p, r)
    BY <1>2, <2>2, HandleKept DEF ServerInv
  <2> HIDE DEF r
  <2>4. ServerOK(srv') /\ RingOK(srv', tx') /\ Agreed(srv', tx', client')
    BY <1>2, <2>3 DEF Accepted
  <2>5. InboxOK'
    BY <2>1 DEF ServerInv, InboxOK
  <2>6. FirstHandshake'
    BY <1>2, <2>0, <2>3, AnsweredFirst DEF ServerInv, p
  <2>7. ReadOK'
    <3>1. ASSUME client.handshakes < 2 PROVE Whole(tx', client.part)
      <4>1. Whole(tx, client.part) /\ client.part \in Nat
        BY <3>1 DEF ServerInv, ReadOK, Client
      <4>2. CASE p.kind \notin Handshakes
        BY <1>2, <2>3, <4>1, <4>2 DEF Accepted
      <4>3. CASE p.kind \in Handshakes
        <5>1. srv.state = "HANDSHAKE"
          BY <2>1, <3>1, <4>3 DEF ServerInv, FirstHandshake
        <5>2. client.part = 0 /\ tx' = <<>>
          BY <1>2, <2>3, <4>3, <5>1 DEF Accepted, ServerInv, FirstHandshake
        <5> QED
          BY <5>2, FreshFacts
      <4> QED
        BY <4>2, <4>3
    <3> QED
      BY <1>2, <3>1 DEF ServerInv, ReadOK
  <2>8. ClockOK'
    BY <1>2, <2>3 DEF Accepted, ServerInv, ClockOK, KeepAliveOnTime
  <2> QED
    BY <2>4, <2>5, <2>6, <2>7, <2>8 DEF ServerInv
<1> QED
  BY <1>1, <1>2 DEF Receive

LEMMA DrainInv ==
    ASSUME ServerInv, Drain
    PROVE  ServerInv'
<1> DEFINE u == Head(tx)
<1>0. /\ tx \in Seq(Unit) /\ tx # <<>> /\ client \in Client
      /\ tx' = Tail(tx) /\ client' = ClientTakes(client, u)
      /\ UNCHANGED <<srv, inbox, now, since, punctual>>
  BY DEF Drain, ServerInv, RingOK, ReadOK
<1>1. /\ Len(tx) \in Nat \ {0} /\ u = tx[1] /\ u \in Unit
      /\ tx' \in Seq(Unit) /\ Len(tx') = Len(tx) - 1
      /\ \A i \in 1..Len(tx') : i + 1 \in 1..Len(tx) /\ tx'[i] = tx[i + 1]
  BY <1>0, TailFacts
<1> HIDE DEF u
<1>2. /\ ClientView(client') = IF Ends(u) THEN Learn(ClientView(client), u.packet)
                               ELSE ClientView(client)
      /\ client'.part = Rest(u) /\ client'.handshakes = client.handshakes
      /\ client'.confused = client.confused
            \cup (IF u.part = client.part + 1 THEN {} ELSE {"torn"})
            \cup (IF Ends(u) THEN Surprises(ClientView(client), u.packet) ELSE {})
      /\ ClientView(client') \in View => client' \in Client
  BY <1>0, <1>1, TakesFacts
<1>3. PICK V : /\ Trace(V, tx, ClientView(client), ServerView(srv))
               /\ srv.state # "PLAY" => \A i \in 0..Len(tx) : V[i] = ServerView(srv)
  BY DEF ServerInv, Agreed
<1>4. /\ V \in [0..Len(tx) -> View] /\ V[0] = ClientView(client) /\ V[Len(tx)] = ServerView(srv)
      /\ \A i \in 1..Len(tx) : Leads(V[i - 1], tx[i], V[i])
      /\ Leads(V[0], u, V[1]) /\ V[1] \in View
  <2>1. /\ V \in [0..Len(tx) -> View] /\ V[0] = ClientView(client) /\ V[Len(tx)] = ServerView(srv)
        /\ \A i \in 1..Len(tx) : Leads(V[i - 1], tx[i], V[i])
    BY <1>3 DEF Trace
  <2>2. 1 \in 1..Len(tx) /\ 1 \in 0..Len(tx) /\ 1 - 1 = 0
    BY <1>1
  <2>3. Leads(V[1 - 1], tx[1], V[1])
    BY <2>1, <2>2
  <2> QED
    BY <1>1, <2>1, <2>2, <2>3
<1>5. ClientView(client') = V[1]
  BY <1>2, <1>4 DEF Leads
<1>6. client' \in Client /\ client'.confused \subseteq client.confused \cup {"torn"}
  <2>1. Ends(u) => Surprises(ClientView(client), u.packet) = {}
    BY <1>4 DEF Leads
  <2> QED
    BY <1>2, <1>4, <1>5, <2>1
<1>7. Agreed(srv', tx', client')
  <2> DEFINE n == Len(tx) - 1
             W == [i \in 0..n |-> V[i + 1]]
  <2>0. n \in Nat /\ Len(tx') = n /\ n + 1 = Len(tx)
    BY <1>1
  <2>1. \A i \in 0..n : i + 1 \in 0..Len(tx)
    BY <2>0
  <2>2. W \in [0..Len(tx') -> View] /\ W[0] = ClientView(client') /\ W[n] = ServerView(srv)
    BY <1>4, <1>5, <2>0, <2>1
  <2>3. ASSUME NEW i \in 1..n PROVE Leads(W[i - 1], tx'[i], W[i])
    <3>1. /\ i + 1 \in 1..Len(tx) /\ tx'[i] = tx[i + 1] /\ (i + 1) - 1 = i
          /\ i - 1 \in 0..n /\ i \in 0..n /\ (i - 1) + 1 = i
      BY <1>1, <2>0
    <3>2. W[i - 1] = V[i] /\ W[i] = V[i + 1]
      BY <3>1
    <3>3. Leads(V[(i + 1) - 1], tx[i + 1], V[i + 1])
      BY <1>4, <3>1
    <3> QED
      BY <3>1, <3>2, <3>3
  <2>4. srv.state # "PLAY" => \A i \in 0..Len(tx') : W[i] = ServerView(srv)
    BY <1>3, <2>0, <2>1
  <2> HIDE DEF W, n
  <2>5. Trace(W, tx', ClientView(client'), ServerView(srv))
    BY <2>0, <2>2, <2>3 DEF Trace
  <2> QED
    BY <1>0, <2>4, <2>5 DEF Agreed
<1>8. RingOK(srv', tx')
  <2>1. Len(tx) <= TxCap /\ \A i \in 1..Len(tx) : tx[i].packet.session = srv.session
    BY DEF ServerInv, RingOK
  <2>2. Len(tx') <= TxCap
    BY <1>1, <2>1, ServerAssumption DEF ServerAssumption
  <2> QED
    BY <1>0, <1>1, <2>1, <2>2 DEF RingOK
<1>9. ReadOK'
  <2>1. ASSUME client'.handshakes < 2 PROVE Whole(tx', client'.part) /\ client'.confused = {}
    <3>1. Whole(tx, client.part) /\ client.confused = {}
      BY <1>2, <2>1 DEF ServerInv, ReadOK
    <3>2. u.part = client.part + 1
      BY <1>1, <3>1 DEF Whole
    <3>3. client'.confused = {}
      BY <1>2, <1>4, <3>1, <3>2 DEF Leads
    <3>4. ASSUME NEW i \in 1..Len(tx')
          PROVE  tx'[i].part = (IF i = 1 THEN client'.part ELSE Rest(tx'[i - 1])) + 1
      <4>1. i + 1 \in 1..Len(tx) /\ tx'[i] = tx[i + 1] /\ i + 1 # 1 /\ (i + 1) - 1 = i
        BY <1>1
      <4>2. tx[i + 1].part = Rest(tx[i]) + 1
        BY <3>1, <4>1 DEF Whole
      <4>3. CASE i = 1
        BY <1>1, <1>2, <4>1, <4>2, <4>3
      <4>4. CASE i # 1
        <5>1. i - 1 \in 1..Len(tx') /\ (i - 1) + 1 = i
          BY <1>1, <4>4
        <5>2. tx'[i - 1] = tx[i]
          BY <1>1, <5>1
        <5> QED
          BY <4>1, <4>2, <4>4, <5>2
      <4> QED
        BY <4>3, <4>4
    <3>5. (IF tx' = <<>> THEN client'.part ELSE Rest(tx'[Len(tx')])) = 0
      <4>1. Rest(tx[Len(tx)]) = 0
        BY <1>0, <3>1 DEF Whole
      <4>2. CASE tx' = <<>>
        <5>1. Len(tx) = 1
          BY <1>1, <4>2
        <5> QED
          BY <1>1, <1>2, <4>1, <4>2, <5>1
      <4>3. CASE tx' # <<>>
        <5>1. Len(tx') \in 1..Len(tx') /\ Len(tx') + 1 = Len(tx)
          BY <1>1, <4>3
        <5>2. tx'[Len(tx')] = tx[Len(tx)]
          BY <1>1, <5>1
        <5> QED
          BY <4>1, <4>3, <5>2
      <4> QED
        BY <4>2, <4>3
    <3> QED
      BY <3>3, <3>4, <3>5 DEF Whole
  <2> QED
    BY <1>6, <2>1 DEF ServerInv, ReadOK
<1>10. FirstHandshake'
  BY <1>0, <1>2 DEF ServerInv, FirstHandshake
<1>11. InboxOK' /\ ClockOK' /\ ServerOK(srv')
  BY <1>0 DEF ServerInv, InboxOK, ClockOK, KeepAliveOnTime
<1> QED
  BY <1>7, <1>8, <1>9, <1>10, <1>11 DEF ServerInv

\* What sending a packet does to what the client knows, and to its count.
LEMMA SentFirst ==
    ASSUME FirstHandshake, inbox \in Seq(Incoming), client \in Client, ClientSend
    PROVE  /\ FirstHandshake'
           /\ client'.part = client.part /\ client'.confused = client.confused
           /\ client'.handshakes < 2 => client.handshakes < 2
<1>1. PICK k \in Sends[client.phase] \cap Kinds :
          /\ \E v \in (IF k \in DOMAIN Values THEN Values[k] ELSE {0}) :
                inbox' = Append(inbox, [kind |-> k, val |-> v])
          /\ client' = [client EXCEPT
                !.phase = IF k \in DOMAIN PhaseAfter THEN PhaseAfter[k] ELSE @,
                !.commands = IF k \in Commands THEN @ + 1 ELSE @,
                !.handshakes = IF k \in Handshakes THEN IF @ = 2 THEN 2 ELSE @ + 1 ELSE @]
  BY DEF ClientSend
<1>2. /\ Len(inbox') = Len(inbox) + 1 /\ Len(inbox) \in Nat
      /\ inbox'[Len(inbox) + 1].kind = k
      /\ \A i \in 1..Len(inbox) : inbox'[i] = inbox[i]
  <2>1. PICK v : inbox' = Append(inbox, [kind |-> k, val |-> v])
    BY <1>1
  <2> QED
    BY <2>1
<1>3. UNCHANGED <<srv, tx>>
  BY DEF ClientSend
<1>4. /\ client'.part = client.part /\ client'.confused = client.confused
      /\ client'.handshakes = IF k \in Handshakes
                              THEN IF client.handshakes = 2 THEN 2 ELSE client.handshakes + 1
                              ELSE client.handshakes
      /\ client.handshakes \in 0..2
  BY <1>1 DEF Client
<1>5. FirstHandshake'
  <2>1. srv'.state = "HANDSHAKE" => tx' = <<>> /\ client'.part = 0
    BY <1>3, <1>4 DEF FirstHandshake
  <2>2. CASE k \notin Handshakes
    <3>1. client'.handshakes = client.handshakes
      BY <1>4, <2>2
    <3>2. \A i \in 1..Len(inbox') : inbox'[i].kind \in Handshakes =>
              i \in 1..Len(inbox) /\ inbox[i].kind \in Handshakes
      BY <1>2, <2>2
    <3> QED
      BY <1>2, <1>3, <2>1, <3>1, <3>2 DEF FirstHandshake
  <2>3. CASE k \in Handshakes
    <3>1. client'.handshakes # 0 /\ (client'.handshakes < 2 => client.handshakes = 0)
      BY <1>4, <2>3
    <3>2. ASSUME client'.handshakes < 2, NEW i \in 1..Len(inbox'), inbox'[i].kind \in Handshakes
          PROVE  srv'.state = "HANDSHAKE" /\ i = Len(inbox) + 1
      <4>1. /\ \A j \in 1..Len(inbox) : inbox[j].kind \notin Handshakes
            /\ srv.state = "HANDSHAKE"
        BY <3>1, <3>2 DEF FirstHandshake
      <4> QED
        BY <1>2, <1>3, <3>2, <4>1
    <3> QED
      BY <2>1, <3>1, <3>2 DEF FirstHandshake
  <2> QED
    BY <2>2, <2>3
<1> QED
  BY <1>4, <1>5

LEMMA SendInv ==
    ASSUME ServerInv, ClientSend
    PROVE  ServerInv'
<1>0. PICK k \in Sends[client.phase] \cap Kinds :
          /\ \E v \in (IF k \in DOMAIN Values THEN Values[k] ELSE {0}) :
                inbox' = Append(inbox, [kind |-> k, val |-> v])
          /\ client' = [client EXCEPT
                !.phase = IF k \in DOMAIN PhaseAfter THEN PhaseAfter[k] ELSE @,
                !.commands = IF k \in Commands THEN @ + 1 ELSE @,
                !.handshakes = IF k \in Handshakes THEN IF @ = 2 THEN 2 ELSE @ + 1 ELSE @]
  BY DEF ClientSend
<1>1. PICK v \in (IF k \in DOMAIN Values THEN Values[k] ELSE {0}) :
          inbox' = Append(inbox, [kind |-> k, val |-> v])
  BY <1>0
<1>2. UNCHANGED <<srv, tx, now, since, punctual>>
  BY DEF ClientSend
<1> DEFINE m == [kind |-> k, val |-> v]
<1>3. /\ v \in Nat \cup Weathers
      /\ k = "TIME" => v \in Nat
      /\ k = "WEATHER" => v \in Weathers
  <2>1. DOMAIN Values = {"TIME", "WEATHER"} /\ Values["TIME"] = Times /\ Values["WEATHER"] = Weathers
    BY DEF Values
  <2>2. Times \subseteq Nat
    BY ServerAssumption DEF ServerAssumption
  <2>3. CASE k = "TIME"
    <3>1. v \in Times
      BY <2>1, <2>3
    <3> QED
      BY <2>2, <2>3, <3>1
  <2>4. CASE k = "WEATHER"
    <3>1. v \in Weathers
      BY <2>1, <2>4
    <3> QED
      BY <2>4, <3>1
  <2>5. CASE k \notin {"TIME", "WEATHER"}
    <3>1. v = 0
      BY <2>1, <2>5
    <3> QED
      BY <2>5, <3>1
  <2> QED
    BY <2>3, <2>4, <2>5
<1>4. /\ m \in Incoming /\ m.kind = k /\ m.val = v
  BY <1>3 DEF Incoming
<1> HIDE DEF m
<1>5. /\ inbox \in Seq(Incoming) /\ inbox' \in Seq(Incoming) /\ Len(inbox') = Len(inbox) + 1
      /\ Len(inbox) \in Nat /\ inbox'[Len(inbox) + 1] = m
      /\ \A i \in 1..Len(inbox) : inbox'[i] = inbox[i]
  <2>1. inbox \in Seq(Incoming) /\ inbox' = Append(inbox, m)
    BY <1>1 DEF ServerInv, InboxOK, m
  <2> QED
    BY <1>4, <2>1
<1>6. InboxOK'
  <2> SUFFICES ASSUME NEW i \in 1..Len(inbox')
               PROVE  /\ inbox'[i].kind = "TIME" => inbox'[i].val \in Nat
                      /\ inbox'[i].kind = "WEATHER" => inbox'[i].val \in Weathers
    BY <1>5 DEF InboxOK
  <2>1. CASE i \in 1..Len(inbox)
    BY <1>5, <2>1 DEF ServerInv, InboxOK
  <2>2. CASE i = Len(inbox) + 1
    BY <1>3, <1>4, <1>5, <2>2
  <2> QED
    BY <1>5, <2>1, <2>2
<1>7. /\ client' \in Client /\ ClientView(client') = ClientView(client)
      /\ client'.part = client.part /\ client'.confused = client.confused
      /\ client'.handshakes = IF k \in Handshakes
                              THEN IF client.handshakes = 2 THEN 2 ELSE client.handshakes + 1
                              ELSE client.handshakes
      /\ client.handshakes \in 0..2
  <2> DEFINE phase == IF k \in DOMAIN PhaseAfter THEN PhaseAfter[k] ELSE client.phase
             commands == IF k \in Commands THEN client.commands + 1 ELSE client.commands
             handshakes == IF k \in Handshakes
                           THEN IF client.handshakes = 2 THEN 2 ELSE client.handshakes + 1
                           ELSE client.handshakes
  <2>0. client \in Client
    BY DEF ServerInv, ReadOK
  <2>1. phase \in {"new", "status", "login", "waiting", "play"}
    <3>1. ASSUME k \in DOMAIN PhaseAfter PROVE PhaseAfter[k] \in {"status", "login", "waiting"}
      BY <3>1 DEF PhaseAfter
    <3> QED
      BY <2>0, <3>1 DEF Client
  <2>2. commands \in Nat
    BY <2>0 DEF Client
  <2>3. handshakes \in 0..2 /\ client.handshakes \in 0..2
    BY <2>0 DEF Client
  <2>4. client' = [client EXCEPT !.phase = phase, !.commands = commands, !.handshakes = handshakes]
    BY <1>0, <2>0 DEF Client
  <2> HIDE DEF phase, commands, handshakes
  <2>5. client' \in Client /\ client'.handshakes = handshakes
    BY <2>0, <2>1, <2>2, <2>3, <2>4 DEF Client
  <2>6. /\ ClientView(client') = ClientView(client)
        /\ client'.part = client.part /\ client'.confused = client.confused
    BY <2>0, <2>4 DEF ClientView, Client
  <2> QED
    BY <2>3, <2>5, <2>6 DEF handshakes
<1>8. FirstHandshake'
  BY <1>5, SentFirst DEF ServerInv, ReadOK
<1>9. ReadOK'
  <2>1. client'.handshakes < 2 => client.handshakes < 2
    BY <1>7
  <2> QED
    BY <1>2, <1>7, <2>1 DEF ServerInv, ReadOK
<1>10. Agreed(srv', tx', client')
  BY <1>2, <1>7 DEF ServerInv, Agreed
<1>11. ServerOK(srv') /\ RingOK(srv', tx') /\ ClockOK'
  BY <1>2 DEF ServerInv, ClockOK, KeepAliveOnTime
<1> QED
  BY <1>6, <1>8, <1>9, <1>10, <1>11 DEF ServerInv

LEMMA TickInv ==
    ASSUME ServerInv, Tick
    PROVE  ServerInv'
<1> DEFINE tOf(d) == (now + d) % TickMod
           rOf(d) == tick_at(srv, tx, tOf(d))
           realOf(d) == IF since = Never THEN Never
                        ELSE IF since + d >= TickMod THEN Unknown ELSE since + d
<1>0. PICK d \in 0..MaxStep :
          /\ now' = tOf(d) /\ srv' = rOf(d).srv /\ tx' = rOf(d).tx
          /\ punctual' = Punctuality(srv, rOf(d), tOf(d), realOf(d))
          /\ since' = IF rOf(d).srv.play.keepalive_id # srv.play.keepalive_id THEN 0
                      ELSE realOf(d)
  BY DEF Tick
<1> DEFINE t == tOf(d)
           r == rOf(d)
           real == realOf(d)
           last == srv.play.last_keepalive_tick
<1>1. /\ now \in 0..(TickMod - 1) /\ last \in 0..(TickMod - 1)
      /\ srv.play.keepalive_id \in 0..IdMax
      /\ since \in {Never} \cup 0..Unknown
      /\ since = Never <=> srv.play.keepalive_id = 0
      /\ since = Never => last = 0
      /\ since \in 0..(TickMod - 1) => elapsed_ticks(now, last) = since
  <2>1. srv.play \in Play
    BY DEF ServerInv, ServerOK, Server
  <2> QED
    BY <2>1 DEF ServerInv, ClockOK, Play
<1>2. /\ t \in 0..(TickMod - 1)
      /\ elapsed_ticks(now, last) + d < TickMod =>
            elapsed_ticks(t, last) = elapsed_ticks(now, last) + d
      /\ elapsed_ticks(t, t) = 0
  <2>1. t \in 0..(TickMod - 1)
    BY <1>1, ElapsedMoves
  <2> HIDE DEF t
  <2>2. elapsed_ticks(t, t) = 0
    BY <2>1, <1>0, ElapsedMoves
  <2>3. elapsed_ticks(now, last) + d < TickMod =>
            elapsed_ticks(t, last) = elapsed_ticks(now, last) + d
    BY <1>1, ElapsedMoves DEF t
  <2> QED
    BY <2>1, <2>2, <2>3
<1>3. Ticked(srv, tx, client, t, r)
  BY <1>2, TickTicked DEF ServerInv
<1>4. /\ now' = t /\ srv' = r.srv /\ tx' = r.tx
      /\ punctual' = Punctuality(srv, r, t, real)
      /\ since' = IF r.srv.play.keepalive_id # srv.play.keepalive_id THEN 0 ELSE real
      /\ UNCHANGED <<inbox, client>>
  BY <1>0 DEF Tick
<1>5. /\ Interval \in Nat \ {0} /\ TickMod \in Nat /\ Interval < TickMod
      /\ d \in Nat /\ Never = -1 /\ Unknown = TickMod
  BY ServerAssumption DEF ServerAssumption, Never, Unknown
<1>6. /\ real \in {Never} \cup 0..Unknown
      /\ real = Never <=> since = Never
      /\ real \in 0..(TickMod - 1) =>
            elapsed_ticks(t, last) = real
  <2>1. CASE since = Never
    BY <1>5, <2>1
  <2>2. CASE since # Never
    <3>1. since \in 0..TickMod
      BY <1>1, <1>5, <2>2
    <3>2. CASE since + d >= TickMod
      <4>1. real = TickMod
        BY <1>5, <2>2, <3>2
      <4> HIDE DEF real
      <4> QED
        BY <1>5, <2>2, <4>1
    <3>3. CASE ~(since + d >= TickMod)
      <4>1. real = since + d
        BY <2>2, <3>3
      <4>2. since \in 0..(TickMod - 1) /\ since + d \in 0..(TickMod - 1)
        BY <1>5, <3>1, <3>3
      <4> HIDE DEF real, t, last
      <4>3. elapsed_ticks(t, last) = since + d
        <5>1. elapsed_ticks(now, last) = since
          BY <1>1, <4>2
        <5>2. elapsed_ticks(now, last) + d < TickMod
          BY <1>5, <4>2, <5>1
        <5> QED
          BY <1>2, <5>1, <5>2
      <4> QED
        BY <1>5, <2>2, <4>1, <4>2, <4>3
    <3> QED
      BY <3>2, <3>3
  <2> QED
    BY <2>1, <2>2
<1> HIDE DEF t, r, real, tOf, rOf, realOf
<1>7. ServerOK(srv') /\ RingOK(srv', tx') /\ Agreed(srv', tx', client')
  BY <1>3, <1>4 DEF Ticked, Held
<1>8. InboxOK'
  BY <1>4 DEF ServerInv, InboxOK
<1>9. ReadOK'
  <2>1. client \in Client /\ client.part \in Nat
    BY DEF ServerInv, ReadOK, Client
  <2> QED
    BY <1>3, <1>4, <2>1 DEF ServerInv, ReadOK, Ticked, Held
<1>10. FirstHandshake'
  <2>1. srv'.state = srv.state /\ (srv.state = "HANDSHAKE" => tx' = tx)
    BY <1>3, <1>4 DEF Ticked
  <2> QED
    BY <1>4, <2>1 DEF ServerInv, FirstHandshake
<1>11. ClockOK'
  <2>1. CASE r.srv.play = srv.play /\ (r.ok /\ r.srv.sent => ~DueByClock(srv, t))
    <3>1. r.srv.play.keepalive_id = srv.play.keepalive_id /\ since' = real
      BY <1>4, <2>1
    <3>2. punctual' \notin {"late", "early"}
      <4>1. ~(r.ok /\ r.srv.sent /\ (real = Never \/ real \in Interval..(TickMod - 1)))
        <5> SUFFICES ASSUME r.ok, r.srv.sent, real = Never \/ real \in Interval..(TickMod - 1)
                     PROVE  FALSE
          OBVIOUS
        <5>1. last # 0 /\ ~(elapsed_ticks(t, last) >= Interval)
          BY <2>1 DEF DueByClock
        <5>2. real # Never
          BY <1>1, <1>6, <5>1
        <5>3. real \in Interval..(TickMod - 1) /\ real \in 0..(TickMod - 1)
          BY <1>5, <5>2
        <5> QED
          BY <1>5, <1>6, <5>1, <5>3
      <4> QED
        BY <1>4, <3>1, <4>1 DEF Punctuality
    <3> HIDE DEF last
    <3> QED
      BY <1>1, <1>2, <1>4, <1>6, <2>1, <3>1, <3>2 DEF ClockOK, KeepAliveOnTime, last
  <2>2. CASE /\ r.srv.play.keepalive_id = NextId(srv.play.keepalive_id)
             /\ r.srv.play.last_keepalive_tick = t /\ DueByClock(srv, t)
    <3>1. r.srv.play.keepalive_id # srv.play.keepalive_id /\ r.srv.play.keepalive_id # 0
      BY <1>1, <2>2, NextIdFacts
    <3>2. since' = 0
      BY <1>4, <3>1
    <3>3. punctual' \notin {"late", "early"}
      <4>1. last = 0 \/ real \notin 0..(Interval - 1)
        <5> SUFFICES ASSUME last # 0, real \in 0..(Interval - 1) PROVE FALSE
          OBVIOUS
        <5>1. elapsed_ticks(t, last) >= Interval
          BY <2>2 DEF DueByClock
        <5>2. real \in 0..(TickMod - 1)
          BY <1>5
        <5> QED
          BY <1>5, <1>6, <5>1, <5>2
      <4> QED
        BY <1>4, <3>1, <4>1 DEF Punctuality
    <3>4. since' # Never /\ since' \in {Never} \cup 0..Unknown
      BY <1>5, <3>2
    <3> QED
      BY <1>2, <1>4, <2>2, <3>1, <3>2, <3>3, <3>4 DEF ClockOK, KeepAliveOnTime
  <2> QED
    BY <1>3, <2>1, <2>2 DEF Ticked
<1> QED
  BY <1>7, <1>8, <1>9, <1>10, <1>11 DEF ServerInv

LEMMA NextServer == ServerInv /\ [Next]_vars => ServerInv'
<1> SUFFICES ASSUME ServerInv, [Next]_vars PROVE ServerInv'
  OBVIOUS
<1>1. CASE UNCHANGED vars
  BY <1>1 DEF vars, ServerInv, InboxOK, FirstHandshake, ReadOK, ClockOK, KeepAliveOnTime
<1>2. CASE Disconnect
  BY <1>2, SessionInv DEF Disconnect
<1> QED
  BY <1>1, <1>2, ReceiveInv, TickInv, DrainInv, SendInv DEF Next

\* The invariant of the server: at every unit of the TX ring it is settled
\* what the client knows before and after it, and the last of these views is
\* the server's own.
THEOREM ServerInvariance == Spec => []ServerInv
BY InitServer, NextServer, PTL DEF Spec

\* The TX ring never exceeds its capacity and the counters of a session stay
\* in range.
THEOREM ServerTypeCorrect == Spec => []TypeOK
<1>1. ServerInv => TypeOK
  <2> SUFFICES ASSUME ServerInv PROVE TypeOK
    OBVIOUS
  <2>1. srv \in Server /\ srv.play \in Play /\ Len(tx) <= TxCap
    BY DEF ServerInv, ServerOK, RingOK, Server
  <2>2. now \in 0..(TickMod - 1) /\ since \in {Never} \cup 0..Unknown
    BY DEF ServerInv, ClockOK
  <2>3. srv.sent = (srv.stage = DONE)
    BY <2>1 DEF ServerInv, ServerOK, Server
  <2> QED
    BY <2>1, <2>2, <2>3 DEF TypeOK, Server, Play
<1> QED
  BY <1>1, ServerInvariance, PTL

\* The client reads every packet in the format the server wrote it in,
\* whatever is in the ring when the format changes.
THEOREM FormatAgreedHolds == Spec => []FormatAgreed
<1>1. ServerInv => FormatAgreed
  BY DEF ServerInv, ReadOK, FormatAgreed
<1> QED
  BY <1>1, ServerInvariance, PTL

\* Bootstrap packets and KeepAlives reach the client once each and in order,
\* for every capacity of the ring and every number and size of chunks.
THEOREM InSequenceHolds == Spec => []InSequence
<1>1. ServerInv => InSequence
  BY DEF ServerInv, ReadOK, InSequence
<1> QED
  BY <1>1, ServerInvariance, PTL

\* A client that sends one handshake reads whole packets.
THEOREM WholePacketsHolds == Spec => []WholePackets
<1>1. ServerInv => WholePackets
  BY DEF ServerInv, ReadOK, WholePackets
<1> QED
  BY <1>1, ServerInvariance, PTL

\* Nothing of a former logical session is in the ring.
THEOREM NothingStaleHolds == Spec => []NothingStale
<1>1. ServerInv => NothingStale
  BY DEF ServerInv, RingOK, NothingStale
<1> QED
  BY <1>1, ServerInvariance, PTL

\* When the ring is empty, the client knows the server's time and weather.
THEOREM MirroredHolds == Spec => []Mirrored
<1>1. ServerInv => Mirrored
  <2> SUFFICES ASSUME ServerInv, tx = <<>>
               PROVE  /\ client.time = srv.play.world_time
                      /\ client.weather = weather_game_state_values[srv.play.weather]
    BY DEF Mirrored
  <2>1. PICK V : Trace(V, tx, ClientView(client), ServerView(srv))
    BY DEF ServerInv, Agreed
  <2>2. Len(tx) = 0
    OBVIOUS
  <2>3. ClientView(client) = ServerView(srv)
    BY <2>1, <2>2 DEF Trace
  <2> QED
    BY <2>3 DEF ClientView, ServerView
<1> QED
  BY <1>1, ServerInvariance, PTL

\* KeepAlives come when they are due, for every interval and every period of
\* the clock that is longer.
THEOREM KeepAliveOnTimeHolds == Spec => []KeepAliveOnTime
<1>1. ServerInv => KeepAliveOnTime
  BY DEF ServerInv, ClockOK
<1> QED
  BY <1>1, ServerInvariance, PTL
=============================================================================
