------------------------------ MODULE EventFifo ------------------------------
(***************************************************************************)
(* What the application is promised about its event handlers: the handlers *)
(* accepted by the client run one at a time, in the order in which they    *)
(* were accepted, each exactly once; after the shutdown request nothing is *)
(* accepted any more, and the shutdown is complete only when everything    *)
(* accepted before it has run.                                             *)
(*                                                                         *)
(* Events are numbered 1, 2, 3, ... in the order of acceptance.            *)
(***************************************************************************)
EXTENDS Naturals

VARIABLES
  accepted,   \* number of events accepted so far
  finished,   \* number of events whose handler has returned
  running,    \* TRUE while the handler of event finished + 1 runs
  shut,       \* TRUE once the shutdown was requested
  drained     \* TRUE once the shutdown is complete

fifoVars == <<accepted, finished, running, shut, drained>>

FifoInit ==
  /\ accepted = 0
  /\ finished = 0
  /\ running = FALSE
  /\ shut = FALSE
  /\ drained = FALSE

Accept ==
  /\ ~shut
  /\ accepted' = accepted + 1
  /\ UNCHANGED <<finished, running, shut, drained>>

Start ==
  /\ ~running
  /\ finished < accepted
  /\ running' = TRUE
  /\ UNCHANGED <<accepted, finished, shut, drained>>

Finish ==
  /\ running
  /\ running' = FALSE
  /\ finished' = finished + 1
  /\ UNCHANGED <<accepted, shut, drained>>

Shut ==
  /\ ~shut
  /\ shut' = TRUE
  /\ UNCHANGED <<accepted, finished, running, drained>>

Drain ==
  /\ shut
  /\ ~running
  /\ finished = accepted
  /\ drained' = TRUE
  /\ UNCHANGED <<accepted, finished, running, shut>>

FifoNext == Accept \/ Start \/ Finish \/ Shut \/ Drain

FifoSpec == FifoInit /\ [][FifoNext]_fifoVars
==============================================================================
