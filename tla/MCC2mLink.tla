----------------------------- MODULE MCC2mLink -----------------------------
(* Instance of C2mLink for TLC; the bounds are in the .cfg files. *)
EXTENDS C2mLink
=============================================================================
