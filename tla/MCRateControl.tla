--------------------------- MODULE MCRateControl ---------------------------
(* Instance of RateControl for TLC; the bounds are in the .cfg files. *)
EXTENDS RateControl
=============================================================================
