----------------------------- MODULE MCRegistry -----------------------------
(* A small instance of Registry for TLC: two subscriptions to channel a, one  *)
(* to channel b, and ids the server uses again.                               *)
EXTENDS Registry
CONSTANTS a, b, a1, a2, b1
MCChannelOf == [s \in {a1, a2, b1} |-> IF s = b1 THEN b ELSE a]
=============================================================================
