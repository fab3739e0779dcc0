----------------------------- MODULE MCMcServer -----------------------------
(* Instance of McServer for TLC; the bounds are in the .cfg files. *)
EXTENDS McServer
=============================================================================
