---------------------------- MODULE MCLockOrder ----------------------------
(* A small instance of LockOrder for TLC: one subscription, a goroutine of the *)
(* application and one of the client next to the reader and the dispatcher.    *)
EXTENDS LockOrder
CONSTANTS s1, app, timer
=============================================================================
