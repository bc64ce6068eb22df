----------------------------- MODULE MCRecovery -----------------------------
(* Small instances of Recovery for TLC.                                     *)
EXTENDS Recovery
==============================================================================
