---------------------------- MODULE MCConnection ----------------------------
(* Small instances of Connection for TLC.                                   *)
EXTENDS Connection

MCTokens == {1, 2}
==============================================================================
