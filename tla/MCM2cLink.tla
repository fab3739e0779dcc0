----------------------------- MODULE MCM2cLink -----------------------------
(* Instance of M2cLink for TLC; the bounds are in the .cfg files. *)
EXTENDS M2cLink
=============================================================================
