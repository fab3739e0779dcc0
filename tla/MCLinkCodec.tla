---------------------------- MODULE MCLinkCodec ----------------------------
(* The small instance TLC checks; the constants are set in LinkCodec.cfg.   *)
EXTENDS LinkCodec

\* A frame whose zero and full block meet, one that clears the parser and
\* one that is refused.
MCDamagedFrames ==
    {[tag |-> 2, payload |-> <<0, 3>>], [tag |-> ClearTag, payload |-> <<>>],
     [tag |-> FailTag, payload |-> <<>>]}
=============================================================================
