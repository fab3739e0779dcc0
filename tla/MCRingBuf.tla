----------------------------- MODULE MCRingBuf -----------------------------
(* Instance of RingBuf for TLC; the bounds are in the .cfg file. *)
EXTENDS RingBuf
=============================================================================
