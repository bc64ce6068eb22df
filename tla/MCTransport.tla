---------------------------- MODULE MCTransport ----------------------------
(* Small instances for TLC of the goroutines the client stands on: the two of *)
(* a transport (WebsocketTransport), those that notice that pings stay away   *)
(* (Ping), and the dispatcher of the callback queue with the goroutines that  *)
(* push to it (CbQueue).  They share no state, so a behaviour is one of the   *)
(* three, and the others rest.  In the configuration the timeout for a ping is*)
(* more than one interval and less than two, as with the defaults (25 and 10  *)
(* seconds).                                                                  *)
EXTENDS WebsocketTransport
CONSTANTS w1, Interval, MaxDelay, Capacity, MaxSessions, Callers, Dispatcher, MaxPush

ASSUME PingBounds ==
  /\ Interval \in Nat /\ MaxDelay \in Nat /\ Capacity \in Nat \ {0} /\ MaxSessions \in Nat
ASSUME QueueBounds == Dispatcher \notin Callers /\ MaxPush \in Nat

VARIABLES
  part,   \* what runs
  session, up, silent, readers, timeLeft, delayPing, sinceRead, pinged, stolen, early,
  head, tail, cbs, notify, queueClosed, queueCloseCh, dpc, curr, cpc, wait, ran

pingVars ==
  <<session, up, silent, readers, timeLeft, delayPing, sinceRead, pinged, stolen, early>>
queueVars ==
  <<head, tail, cbs, notify, queueClosed, queueCloseCh, dpc, curr, cpc, wait, ran>>

Supervision == INSTANCE Ping WITH reader <- readers
Queue == INSTANCE CbQueue WITH closed <- queueClosed, closeCh <- queueCloseCh

MCInit ==
  Init /\ Supervision!Init /\ Queue!Init /\ part \in {"transport", "ping", "queue"}

MCNext ==
  /\ \/ part = "transport" /\ Next /\ UNCHANGED <<pingVars, queueVars>>
     \/ part = "ping" /\ Supervision!Next /\ UNCHANGED <<vars, queueVars>>
     \/ part = "queue" /\ Queue!Next /\ UNCHANGED <<vars, pingVars>>
  /\ UNCHANGED part

\* The fairness of the three.  Nothing it is about can happen in a transport or a
\* supervision that rests; a dispatcher that rests could look at its list.
MCSpec ==
  /\ MCInit /\ [][MCNext]_<<part, vars, pingVars, queueVars>>
  /\ GoroutinesRun /\ SF_vars(client = "ended" /\ Close)
  /\ Supervision!Fairness
  /\ WF_queueVars(part = "queue" /\ Queue!Dispatch)
  /\ \A g \in Queue!Goroutines : WF_queueVars(Queue!Resume(g))

EndedForSilence == Supervision!EndedForSilence
SilenceIsNoticed == Supervision!SilenceIsNoticed
NoLostSignal == Queue!NoLostSignal
ImplementsFifo == Queue!ImplementsFifo
EveryPushRuns == Queue!EveryPushRuns
CallsReturn == Queue!CallsReturn
=============================================================================
