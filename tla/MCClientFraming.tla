-------------------------- MODULE MCClientFraming --------------------------
(* Small packets for TLC: VarInt groups of three bits, two bytes at most.   *)
EXTENDS ClientFraming

MCHellos == {<<0, 7, 2>>}

\* Login Start with a name of one character and one of seven.
MCLogins == {<<0, 1, 2>>, <<0, 7, 2, 2, 2, 2, 2, 2, 2>>}

\* Login Start with a name of three characters.
MCShortLogins == {<<0, 3, 2, 2, 2>>}

\* Keep-alive, chat whose text looks like frames, a long chat, an unhandled
\* packet, and two movements.
MCPlayBodies ==
    {<<0, 5>>, <<1, 3, 0, 3, 1>>, <<1, 5, 2, 0, 4, 9, 8>>, <<7, 3>>, <<3, 1>>, <<6, 1, 2>>}

\* No length, a length past the limit, a negative one, a compressed packet,
\* and a keep-alive without its id.
MCBadFrames == {<<9, 9>>, <<14, 1, 0, 1>>, <<8, 2>>, <<3, 2, 1, 5>>, <<2, 0, 0>>}
=============================================================================
