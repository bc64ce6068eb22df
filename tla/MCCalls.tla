------------------------------ MODULE MCCalls ------------------------------
(* Small instances of Calls for TLC.                                        *)
EXTENDS Calls
CONSTANTS c1, c2, c3
==============================================================================
