---------------------------- MODULE MCLinuxHost ----------------------------
(* The small instance TLC checks; the constants are set in LinuxHost.cfg.   *)
EXTENDS LinuxHost
=============================================================================
