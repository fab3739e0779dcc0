# TLA+ models of starrysky-mc-server

A Minecraft 1.8 server for a small MCU. The firmware holds the server and speaks
to a PC over a UART; a Rust bridge on the PC connects that UART to a TCP client.
The same server core also runs behind a plain TCP socket on Linux. These modules
model the parts in which order, loss, full buffers and resets matter, TLC checks
them on small instances, and TLAPS proves, for every instance, the safety of both
halves of the link, of the server core and its Linux host, of the rate
calibration and of the ring buffer. Paths below are relative to the repository.

## The system

| Part | State | Operations | Talks to |
|---|---|---|---|
| C2M sender, `bridge/src/c2m.rs`, `session.rs` | pending TCP bytes, outstanding frame, next sequence number, credit | read TCP, send, retransmit, handle ACK, reset | firmware over the UART |
| Link session, `firmware/mc_link_session.c` | expected and next sequence numbers, data and control TX rings, active frame | handle HELLO, RESET, DATA_C2M, RATE_PROBE; cut server output into DATA_M2C; feed the UART | pumps of `firmware/main.c` |
| Main loop, `firmware/main.c` | RX ring, TX ring, `link_pending` | pump_link_rx, pump_server, pump_link_tx, reset_connection | session, server, UART |
| Bridge session, `bridge/src/main.rs`, `handshake.rs`, `serial_io.rs`, `serial_rx.rs`, `link.rs` | phase, reset sequence number, decoder, expected M2C sequence number | boot, reset handshake, calibrate, run, give up | firmware, TCP client |
| Rate control, `bridge/src/rate.rs`, `rate_calibration.rs` | active and best profile, losses, downshifts, probe in progress | probe, time out, choose, record loss or success | link session |
| Server core, `core/src/mc_server.c` | connection state, compression, bootstrap stage, time, weather, KeepAlive | receive, tick | TX ring; hosts call it |
| Ring buffer, `core/src/mc_ringbuf.c` | data, head, tail, len | write, read, peek, drop; checkpoint and restore in `mc_server.c` | everyone |
| Linux host, `linux/mc_linux_server.c` | socket, TX ring, shutdown flag | accept, drain, tick, poll, receive | server core |
| Frame codec, `core/src/mc_link.c`, `bridge/src/link.rs` | parser buffer, whether it discards | encode, feed, resynchronise, clear | both ends |
| Movement filter, `bridge/src/c2m.rs` | bytes of a partial frame | cut, drop or forward, fail open | C2M sender |
| Packets and VarInts, `core/src/mc_packet.c`, `mc_varint.c`, and `rx_accum` of `mc_server.c` | bytes of a partial frame | collect, classify, cut, refuse | server core |
| Commands, `core/src/mc_commands.c` | none; the player's position is the server's | parse a chat message, convert numbers, build the answer | server core |
| World, `core/src/mc_world.c`, `mc_compressed_world.c` | tables | build chunk packets | server core |
| Activity LED, tick extender, platform, log | counters, registers | timing and I/O | firmware |

What is hard to get right, and to test: ACKs and retransmissions that cross;
credit that is overwritten by every ACK, late ones included; two kinds of ACK on
one field; frames half on the UART when a reset comes; answers of an old session
that arrive in a new one; a bridge that restarts with the same reset sequence;
a TX ring that is full in the middle of a bootstrap, of a command or of a login;
compression that starts between two packets; a 32-bit clock that wraps; probe
echoes that come too late; links that only lose; byte streams that are cut
anywhere, damaged anywhere and read in blocks of any size; a program that starts
again while the other goes on; decimals that pass through three number formats
without a floating-point unit. `PROJECT.json` lists these
hazards with their lines and the properties that watch them.

What makes each part correct:

- C2M: bytes reach the server in order and once; a byte is forgotten only when
  the firmware has it; the credit never exceeds the free space; bytes get there.
- M2C and reset: the UART carries whole frames; a client sees only the output
  meant for it, in order and without gaps; the bridge does not give up without
  a reason.
- Server: client and server agree on the packet format, the bootstrap comes once
  and in order, KeepAlives are on time, what a command changes is what the
  client was told, nothing of an abandoned handshake remains.
- Rate control: the profile in use was proven by its own echoes and lies below the
  fastest stable one, which may be borderline; losses have consequences;
  calibration ends.
- Ring buffer: it is a bounded FIFO, checkpoints included.
- Frame codec: the frames handed on are exactly the intact ones, whatever is
  damaged next to them; both programs write and read the same bytes.
- Framing of the client's stream: the server handles every packet but the
  movement ones, once and in order, and refuses only broken frames.
- Commands: a number is judged by its value however it is written, and what was
  typed is what is shown again.
- Linux host: input is not starved, a signal stops the program, and a proper
  packet that a read begins with is not refused unless the client itself does
  not read.

## Modules

| Module | Models | Composition |
|---|---|---|
| `ReliableStream` | what C2M promises: an ordered byte stream until the connection breaks | abstract specification |
| `C2mLink` | sender, wires, receiver and the pumps around it, within one link epoch | refines `ReliableStream` |
| `C2mLinkProofs` | theorems on `C2mLink` | |
| `M2cLink` | firmware output, UART, decoder, reset, calibration and running of the bridge, restarts of both programs | both programs and both wires |
| `M2cLinkProofs` | theorems on `M2cLink`: types and whole frames | |
| `M2cSessionProofs` | theorems on `M2cLink`: the link reset separates the clients | `EXTENDS M2cLinkProofs` |
| `M2cStreamProofs` | theorems on `M2cLink`: the client's stream has no gap, the bridge does not give up without a reason | `EXTENDS M2cSessionProofs` |
| `LinkCodec` | COBS, CRC, the firmware's parser and the bridge's decoder over a damaged stream | both ends read the same bytes |
| `ClientFraming` | the movement filter, VarInts, `rx_accum` and the cutting of frames | client, bridge and server |
| `McServer` | server core, its TX ring, a host that may do its steps in any order, and a client | both sides of a session |
| `McServerProofs` | theorems on `McServer` | |
| `LinuxHost` | the Linux host's loop in its own order, socket, close and signal | `EXTENDS McServer` |
| `LinuxHostProofs` | theorems on `LinuxHost` | `EXTENDS LinuxHost, McServerProofs` |
| `Commands` | chat commands and the player's position | parser, number formats and the server's state |
| `RateControl` | calibration and control of the send rate | with the line's echoes and losses |
| `RateControlProofs` | theorems on `RateControl` | |
| `BoundedFifo` | what a ring promises: a FIFO with a save point | abstract specification |
| `RingBuf` | the ring's indices and checkpoints | refines `BoundedFifo` |
| `RingBufProofs` | theorems on `RingBuf` | |
| `MC*` | the instances for TLC | |

State and actions keep the names of the code where they can: `SendData` is
`next_frame_to_send` with `mark_sent`, `Verdict` the decisions of
`handle_data_c2m`, `PumpLinkRx`, `PumpServer` and `PumpLinkTx` the three pumps.
`PROJECT.json` gives the lines of every definition. Definitions whose comment
begins with "Fault:" are wrong on purpose: each is a plausible slip in the code
that a property is known to notice. They are used by nothing.

Abstractions:

- `C2mLink`: a byte is its position in the client's stream. An ACK is its ack
  and its credit. A frame that fails its CRC on the way to the firmware is a
  lost frame; on the way to the bridge it ends the bridge, as in
  `handle_serial_rx_bytes`. A link epoch ends with a RESET. Sequence numbers run
  to `U16Max`, and `SequenceExhausted` is the reset the bridge asks for at the
  last one.
- `M2cLink`: a frame is several units, the last of which is its delimiter, so
  that a frame can be cut. A server byte carries the link session it belongs to.
  The pumps run in turn, as in the main loop. `ServerOutput` stands for whatever
  the server writes. The decoder reports an error for a frame that lacks a unit.
  A DATA_C2M is what it makes the server do and its sequence number, which is
  how a firmware that has rebooted in the middle of a session notices. `last` is
  the last unit since the firmware started: a reboot cuts the frame it was
  writing, which `WireFramed` does not hold against the running program.
- `LinkCodec`: a byte has `ByteBits` bits, so a full COBS block is `2^ByteBits - 1`
  long and is met by small frames. A header is one tag. The CRC has the width of
  a byte and is computed bit by bit as in the code. The stream is damaged once:
  a byte lost, changed or added, or a run of noise too long for any frame.
- `ClientFraming`: VarInts have groups of three bits, at most two of them, and
  carry five bits, so that over-long, over-wide and negative ones all occur.
  Play is the state with compression on. Of `handle_packet` only what decides
  the state and the refusals is here; `McServer` has the rest.
- `LinuxHost`: one recv takes any number of the packets that have arrived, and
  `mc_server_receive` meets them one after the other (`MeetPacket`, `Recv`,
  `ReceiveNext`). The ring holds the answer to any one packet, but not to any
  number of them: a read block of 2048 bytes has room for a thousand status
  requests, whose answers are longer than the ring's 49152 bytes. So only the
  first packet of a read is sure to be taken. poll times out on a full socket
  only, so a drain that gives up has a client that does not read, or a signal.
- `Commands`: the algorithms are those of the code at smaller widths: a limit of
  30 with four decimals and 15 fraction bits instead of 30,000,000 with nine and
  32, mantissas of 16 and 10 bits instead of 52 and 23. The table of
  digit weights is a rounded tenth of a rounded tenth, which at 32 bits gives the
  code's nine numbers, and it errs at this width too; the carry out of the mantissa
  occurs.
  A message is a sequence of words.
- `McServer`: a packet is its name, its value, its format and its length in
  units: a chunk and a status response take `BigUnits`, the others one; only the
  latter are written in batches. The
  client is external; it follows the protocol, and notes in `confused` what it
  did not expect. Position, names and chat text are left out. Bytes arrive as
  whole packets; `MALFORMED` is whatever the readers refuse.
- `RateControl`: the line may answer any probe, late or never.
- `RingBuf`: `Save`, `Write`, and then `Restore` or `BatchDone` is what
  `queue_packet_batch` does; nobody reads in between, because the code there is
  sequential.

## Runs

Each passes, or finds the violation it is there to show, within five minutes.

| Run | States | Shows |
|---|---|---|
| `C2mLink` | 103,493 | order, once, no byte forgotten, no flow error, credit covered, refinement of `ReliableStream`; every byte read is delivered, unless the epoch ends or a full control queue lost an ACK |
| `M2cLink_safety` | 722,844 | whole frames, no gap, no exit without a reason, over three resets |
| `M2cLink_crash` | 2,176,014 | own session only and no gap when the bridge is killed or the firmware reboots, with retransmissions, on a noisy line |
| `M2cLink_seqgap` | violation | a repeated client handshake makes a sequence gap |
| `LinkCodec` | 69,995 | parser and decoder find exactly the intact frames; the encoders agree |
| `ClientFraming` | 219,897 | every packet but the movement ones is handled, once and in order |
| `ClientFraming_login` | violation | the filter drops a Login Start with a short name |
| `McServer_safety` | 1,502,212 | format, bootstrap and KeepAlives in sequence and on time, whole and fresh packets, mirrored time and weather |
| `LinuxHost` | 269,940 | the bootstrap completes, input is heard, a signal stops, refusals for want of room have a stalled client |
| `Commands` | 100,633 | numbers are judged exactly and shown as typed; texts fit |
| `RateControl_main` | 5,188 | proven profiles, losses slow down, calibration ends |
| `RingBuf` | 5,040 | a FIFO with all-or-nothing batches |

### Bounds

- C2M: three bytes in frames of one or two; an RX ring of two, so that it fills;
  sequence numbers 0 to 2, so that the reserved last one is reached; two frames
  in flight, so that a retransmission meets its original; two control frames, so
  that ACKs do not always fit. The proofs need no bound.
- M2C: frames of two or three units and a `link_pending` of two, so that every
  frame is cut somewhere; three resets and two probes; sequence numbers modulo 4;
  a session TX ring of one maximal frame, so that the server's ring backs up.
  The crash run has two resets, one restart of either program, two data frames
  that are sent at most twice and one lost unit in a link session: enough for a
  restarted program to meet what was under way for its predecessor.
- Codec: every frame with a payload of up to two two-bit bytes undisturbed, and
  two frames damaged once, cut into blocks at every place. One of them clears
  the parser and one is refused, which throws the rest of the block away.
- Framing: a login and three packets or broken frames, in pieces of one to four
  bytes at both places; chat whose text looks like frames.
- Server: a TX ring of four units with two-unit chunks, so that login,
  stages, chunks, commands and KeepAlives all meet a full ring; a clock modulo 4
  with an interval of 2, so that it wraps between KeepAlives; KeepAlive ids to 2.
- Linux host: a ring of four units, which just holds every answer, chunks of three
  and a socket of one unit, so that every drain may stall; two packets in the
  inbox and a chat command, so that one read meets a ring that the packet before
  it has filled.
- Commands: every fraction of up to four digits out of five digits, and of five
  digits out of three, behind whole parts up to the limit; words of up to three
  symbols of any shape; then two more messages or movements.
- Rate: profiles 0 to 4 and the code's own counts of attempts and losses.
- Ring: capacity 3, writes up to 4 bytes, two byte values.

Deadlock is checked where the system never stops: the server, rate control, the
ring and the commands. Elsewhere the bridge or the host may exit, or the stream
has been read to its end.

### Fairness

- `C2mLink`: both loops run for ever, hence weak fairness of their steps. Strong
  fairness of `PumpLinkRx` says that a frame that is sent again and again gets
  through some time; without it no retransmission helps.
- `LinuxHost`: the thread takes its next step when it can (poll has a timeout),
  and the client reads what is in its socket. Nothing is assumed of what the
  client sends, of when it closes, or of the signal; accepting a client is not
  promised either.
- `RateControl`: the calibration's loop and the retransmission timer go on.
  Echoes and ACKs are not promised.

## Findings

Two places where a document and the code disagree; each has a violation run.

1. `docs/protocol/uart-link-v2.md:116` describes consecutive M2C numbers, and a
   mismatch as damage. When a client repeats its handshake, `pump_server` drops
   frames that have their numbers already, and the bridge exits
   (`M2cLink_seqgap`).
2. `docs/protocol/uart-link-v2.md:101` and `README.md:150` say that the bridge
   filters movement packets and forwards the others. The filter reads a plain
   Login Start as if compression were on: its id 0 is taken for the data length
   and the length of the name for the packet id, so that a name of three to six
   characters makes it a movement packet, and the login is lost
   (`ClientFraming_login`).

Other things met while modelling, for whoever maintains the code:

- The ack of a credit update is 0, not the next expected number of
  `docs/protocol/uart-link-v2.md:108`. It is harmless, since the bridge never
  uses 65535, whose answer would be 0; `ReleasedOnlyIfTaken` depends on that.
- `docs/superpowers/specs/2026-06-11-linux-server-design.md:114` says that a failing
  tick closes the connection, as EOF and a failing send or receive do. The host
  drains the TX ring and goes on with the loop (`mc_linux_server.c:400`), and so
  does `TickServer`. `BootstrapCompletes` and `ClientHeard` of `LinuxHost` are
  about that: a tick that finds the ring full is tried again.
- A calibration may end, by the timeout of its last attempt, while the first half
  of a late echo is in its Decoder. The session starts with a new one
  (`session.rs:412`), which meets the second half as a decode error, and the bridge
  exits. This is the only late echo that `NoSpuriousExit` excuses ("cut echo"); an
  echo that comes whole, however late, is proved to be harmless.
- A KeepAlive stamped with tick 0 is followed by another at the next tick, as 0
  stands for "none yet" as well (`docs/architecture.md:42`).
- At profile 0 losses never ask for recalibration (`docs/architecture.md:94`); a
  unit test, `losses_at_p0_do_not_underflow_or_request_recalibration`, wants it so.
- A packet id past the largest one is ignored when its frame arrives whole and
  ends the session when the frame arrives in pieces (`mc_server.c:1174`).
- A client frame longer than the filter's limit is forwarded as far as it has
  been read, and its rest is then read as a new frame. `rx_accum` has less room
  behind its longest frame than a read block. No packet of a 1.8 client is so long.
- A chat message that fits its packet but not the answer's buffer together with
  the name ends the session.
- Recalibration resets the server while the client stays in the game, and then
  sends it the client's pending packets.

## Proofs

`C2mLinkProofs` assumes only `SizesAssumption`: positive sizes, an initial credit
that fits the RX ring and 16 bits, and room for two control frames.

- `Invariance`: `IInv` is inductive. `InOrderOnce` alone is not: whether a frame
  is new or a duplicate depends on how its number compares with what the
  firmware expects. `SeqInv` says that the two ends' numbers differ by at most
  the outstanding frame, and what numbers may be on the wire. `AckInv` says
  which answers may be in transit, and that credit in transit or in use is free
  space (an old ACK's credit is an underestimate, except while new data is under
  way). `DataInv` ties the bytes: what is pending, what the outstanding frame
  carries, and what the firmware has taken.
- `TypeCorrect`, `InOrderOnceHolds`, `NoFlowErrorHolds`,
  `ReleasedOnlyIfTakenHolds`, `CreditCoveredHolds` follow from it.
- `Refinement`: every step is a step of `ReliableStream` or a stutter.

`Invariance` has no run of its own: `IInv` was checked on the instance of
`C2mLink` while it was being found, and the proof covers that instance.

`RingBufProofs` assumes a positive capacity.

- `RingInvariance`: the head is `len` places past the tail, modulo the capacity,
  and a checkpoint differs from the ring by writes only. Both are needed for
  `Restore`.
- `RingTypeCorrect` and `RingRefinement` follow: each operation on the indices
  is the operation on the sequence they stand for.

`RateControlProofs` assumes what `RateAssumption` says of the profiles and counts.

- `RateInvariance`: successes are counted against their own echoes only
  (`OwnEcho`); the profiles are probed from below, so all below the one at hand
  have passed (`ProbedBelow`); and the controller moves only among supported
  profiles below the stable one (`BelowStable`). `highest_supported_below` is a
  CHOOSE over a set, whose extremum the lemma `HighestBelow` finds by
  well-foundedness of the naturals.
- `ActiveProvenHolds` follows.

`McServerProofs` assumes `ServerAssumption`: a chunk fits the ring, there is more
than one KeepAlive id, and the interval and one step of the clock are less than
its period.

- `ServerInvariance`: the properties are about what a client has read, and the
  server only sees what it writes, so the invariant says what the client is going
  to learn. `Agreed` says that there is a trace of views, one for each unit in
  the ring, that leads from what the client knows to what the server holds, and
  that no packet on the way surprises the client. Writing appends to the trace,
  reading takes its first step. `ServerOK` ties the counters of the bootstrap,
  `FirstHandshake` says that a first handshake meets an empty ring (a second one
  may cut a packet, which is why `WholePackets` excepts it), `ClockOK` what the
  stamp of the last KeepAlive tells across the wrap of the clock.
- `ServerTypeCorrect`, `FormatAgreedHolds`, `InSequenceHolds`,
  `WholePacketsHolds`, `NothingStaleHolds`, `MirroredHolds` and
  `KeepAliveOnTimeHolds` follow: all of the server's invariants.

`M2cLinkProofs` assumes `LinkAssumption`: positive sizes, `link_pending` holds a
control frame, the control queue three of them, and there is more than one
sequence number.

- `LinkInvariance`: `WireFramed` looks at units one after the other on the UART,
  but these come from three places. `Steady` says that they join up: what is left
  of `link_pending` continues the last unit written, the active queue continues
  that and holds the rest of its frame to the end, and each of the other queues
  starts with a whole frame. Every reset, drop and partial write keeps that, since
  each cuts a queue behind the frame that has begun.
- `LinkTypeCorrect` and `WireFramedHolds` follow.

`M2cSessionProofs` adds no assumption.

- `SessionInvariance`: `SessionInv` has a part for each phase of the bridge.
  After a RESET either the firmware has not handled it, and no RESET_ACK on its
  way has its number (`Asked`), or it has, and its server is silent, its numbers
  begin at 0 again, and DATA_M2C is left in front of the RESET_ACK only (`Answered`: a frame that has begun is
  kept, and leaves first). So after READY there is no data anywhere and nobody
  speaks to the server (`Calibrating`), and then all of it is of this session
  (`Running`).
- `OnlyThisSessionHolds`: Spec => [](FirstRun => OnlyThisSession). `FirstRun` says
  that the bridge has counted every RESET that was ever sent. The condition is
  needed: a bridge that starts again counts from 1, and on a wire long enough a
  RESET_ACK with number 1 from before passes for its own. `M2cLink_crash` covers
  a restart of the bridge on its instance.

`M2cStreamProofs` adds no assumption.

- `StreamInvariance`: that the client has the bytes 1 to n says nothing of the
  next frame, so the invariant follows the frames. A mark is a place in the
  stream, as a number of bytes and the number of the frame that begins there, and
  a DATA_M2C leads from its mark to the next when its delimiter arrives.
  `InLine` says that the line and then the data queue lead from what the client
  has got to what is left in the ring, and `InRing` that the ring goes on from
  there. Firmware steps add to the end of that trace, the bridge takes its first
  step. Noise that takes a delimiter takes a step without the client: then all
  that follows is one number too high and `accept_m2c_sequence` refuses it, which
  is where more than one sequence number is needed. The model's noise takes at
  most one unit in a link session, a bound that the theorem shares with the runs;
  as many lost frames in a row as there are numbers would go unnoticed.
- `PrefixOfServerHolds`:
  Spec => [](FirstRun /\ "reboot" \notin excuse => PrefixOfServer). `FirstRun` is
  the condition of `OnlyThisSessionHolds`. The firmware must not have started
  again in the link session either: it then numbers its frames from 0, and after
  65536 of them, or however many numbers there are, the bridge expects 0 too.
  `M2cLink_crash` covers a reboot on its instance, where the numbers do not wrap.

- `ExitInvariance`: `NoSpuriousExit` is about three ways to give up, and each
  needs to know what comes next on the wire. `Synced` says that, undisturbed, the
  decoder holds exactly the beginning of the frame whose next unit arrives, up to
  the last one the firmware has written, so that no decode error is possible.
  A timeout in calibration keeps the Decoder and so the beginning of a late echo;
  only a calibration that ends there breaks `Synced`. `ReadyLast` says that behind the RESET_ACK the bridge waits for there is one
  frame only, so that nothing else turns up during calibration. `InStep`
  counts along the line, as a path of numbers: each DATA_M2C has the number the
  bridge will expect there, and the count ends in the session's next number, or a
  READY or ERROR, which makes the bridge start over, comes before the first frame
  that does not fit, be it still in the control queue.
- `NoSpuriousExitHolds`: Spec => [](FirstRun => NoSpuriousExit), with the
  condition of `OnlyThisSessionHolds`.

`LinuxHostProofs` assumes `ServerAssumption` and `HostAssumption`: the ring holds
four short packets, the longest batch (/weather), as well as a chunk.

- `HostInvariance`: the socket lies between ring and client, and a handshake
  empties the ring but not the socket, so the host is no refinement of `McServer`
  and has an invariant of its own. `HostAgreed` cuts the trace of views in two: one
  through the socket to a view m, and one from m through the ring, for which the
  lemmas of `McServerProofs` hold with m in the client's place. A send moves the
  cut. `Proper` follows the other direction: the packets on their way lead from
  the server's state to the one the client's phase is for, each being one that
  the state it meets allows; Login Success, which tells the client of Play, is
  on its way only when the server is there.
- `RefusedOnlyIfStalledHolds`: with an empty ring no such packet is refused, and
  the thread waits for input with an empty ring or after a drain that gave up.
- `HostClientAgrees`: HostSpec => [](FormatAgreed /\ InSequence), and
  `HostMirrors`: HostSpec => [](NothingStale /\ (sock = <<>> => Mirrored)): these
  promises of the server hold behind the socket, too.
- `HostWholePackets`: HostSpec => []WholePackets. A send may end inside a packet, so
  neither the socket nor the ring holds whole packets; `HostWhole` says, while the
  client has sent one handshake at most, that there is a part where the socket's
  units end and the ring's go on, and that both are empty until that handshake is
  answered. Relative to `HostInv` it is inductive.

`LinkInv`, `SessionInv`, `StreamInv`, `ExitInv`, `ServerInv` and `RateInv` were
checked by TLC on the instances of the runs while they were being found, and of
`HostInv` all but `HostAgreed`, whose views range over the naturals; `HostWhole`
and the two of `HostMirrors` on a host with both handshakes, the commands for time
and weather, and a socket of two units.

Model-checked only:

- liveness, for which the prover has no ENABLED: `EventuallyDelivered` of
  `C2mLink`, `BootstrapCompletes`, `ClientHeard` and `ShutdownStops` of
  `LinuxHost`, `LossSlowsDown` and `CalibrationEnds` of `RateControl`;
- the codec, the framing and the commands (`LinkCodec`, `ClientFraming`,
  `Commands`), whose properties say what a recursion over data computes: that
  needs an induction the prover cannot use.

All other invariants of the passing runs, and both refinements, are theorems.
`OnlyThisSession`, `PrefixOfServer` and `NoSpuriousExit` are proved until the bridge
is started again; `M2cLink_crash` checks them beyond that.

## Not modelled

- The contents of the packets the server writes (`mc_packet.c`'s field writers,
  `mc_world.c`, `mc_compressed_world.c`): bytes put one after the other with a
  bounds check. `McServer` has the packets as units that fit or do not.
- Activity LED and tick extender: counters that nothing else depends on, and a
  32-bit clock that the models take as any clock that goes forward and wraps.
- Platform layer, log, command line, PSRAM test and map generator: I/O, wording
  and an off-line tool.
- Failures of malloc, fcntl, socket set-up and accept in the Linux host, each of
  which ends the program or the session at once.
- What a client in the game does after a recalibration has put the server back to
  its handshake: the client is external and no document says.

## Plan

Done: the link in both directions with its codec, restarts of both programs, the
framing of the client's bytes, the server core, its commands and its Linux host,
rate control and the ring buffer.

1. `ClientFraming` over `C2mLink` as one specification, with the abstract stream
   in the place of `pending`.
2. Wider instances of `Commands` (the code's own mantissas are past TLC's
   integers).
