-------------------------------- MODULE Ping --------------------------------
(***************************************************************************)
(* Supervision of the server's pings (waitServerPing, and the ping branch  *)
(* of handle).  Each connected session has a waiter of its own, which      *)
(* reports a missing ping, but all take the pings from one channel, and a  *)
(* waiter lives as long as the reader of its session: an application       *)
(* handler can keep that reader past the end of the session.               *)
(*                                                                         *)
(* Time passes in ticks.  What needs no time (taking a ping from the       *)
(* channel, a report, the end of a waiter) happens before the next tick.   *)
(***************************************************************************)
EXTENDS Integers

CONSTANTS
  Interval,    \* of the server's pings, in ticks
  MaxDelay,    \* Config.MaxServerPingDelay
  Capacity,    \* of delayPing (32 in the code)
  MaxSessions  \* bound

VARIABLES
  session, up,  \* the current session, and whether it is still connected
  silent,       \* nothing is read in it anymore: no pings, or a handler that does not return
  reader,       \* of each session
  timeLeft,     \* of its waiter, Off when there is none
  delayPing,    \* pings in the channel
  sinceRead,    \* history: ticks since a ping of the current session was read, or it began
  pinged,       \* history: one was read since the last tick
  stolen,       \* history: another session's waiter took a ping during the current one
  early         \* history: how sessions ended although their pings were read in time

vars == <<session, up, silent, reader, timeLeft, delayPing, sinceRead, pinged, stolen, early>>

Sessions == 1..MaxSessions
Off == -1

\* What the application is told: a ping every interval, with a delay at most.
Allowed == Interval + MaxDelay

\* Planted bugs, as in the other modules.
FaultyTimeout == MaxDelay
FaultyWaiterOf(s) == IF s = 1 THEN Allowed ELSE Off

Timeout == Interval + MaxDelay

Init ==
  /\ session = 0 /\ up = FALSE /\ silent = FALSE
  /\ reader = [s \in Sessions |-> "off"]
  /\ timeLeft = [s \in Sessions |-> Off]
  /\ delayPing = 0
  /\ sinceRead = 0 /\ pinged = FALSE /\ stolen = FALSE /\ early = {}

Current(s) == s = session /\ up
Waits(s) == timeLeft[s] # Off

\* A full channel drops the ping.
Put == IF delayPing < Capacity THEN delayPing + 1 ELSE delayPing

\* The waiter a session starts with.
WaiterOf(s) == Timeout

------------------------------------------------------------------------------

\* The end of the connect callback.
Connect ==
  /\ ~up /\ session < MaxSessions
  /\ session' = session + 1 /\ up' = TRUE /\ silent' = FALSE
  /\ reader' = [reader EXCEPT ![session + 1] = "reading"]
  /\ timeLeft' = [timeLeft EXCEPT ![session + 1] = WaiterOf(session + 1)]
  /\ sinceRead' = 0 /\ pinged' = FALSE /\ stolen' = FALSE
  /\ UNCHANGED <<delayPing, early>>

ReadPing(s) ==
  /\ Current(s) /\ ~silent /\ reader[s] = "reading"
  /\ delayPing' = Put /\ pinged' = TRUE
  /\ UNCHANGED <<session, up, silent, reader, timeLeft, sinceRead, stolen, early>>

\* A message whose handler the reader waits for ...
HandlerStarts(s) ==
  /\ Current(s) /\ reader[s] = "reading"
  /\ reader' = [reader EXCEPT ![s] = "handling"]
  /\ UNCHANGED <<session, up, silent, timeLeft, delayPing, sinceRead, stolen, early, pinged>>

\* ... or not anymore.
HandlerReturns(s) ==
  /\ reader[s] = "handling" /\ ~(Current(s) /\ silent)
  /\ reader' = [reader EXCEPT ![s] = "reading"]
  /\ UNCHANGED <<session, up, silent, timeLeft, delayPing, sinceRead, stolen, early, pinged>>

\* Its transport is closed: what it can still read is the reply it was handed last.
ReaderEnds(s) ==
  /\ ~Current(s) /\ reader[s] = "reading"
  /\ reader' = [reader EXCEPT ![s] = "ended"]
  /\ delayPing' \in {delayPing, Put}
  /\ UNCHANGED <<session, up, silent, timeLeft, sinceRead, stolen, early, pinged>>

FallSilent ==
  /\ up /\ ~silent /\ silent' = TRUE
  /\ UNCHANGED <<session, up, reader, timeLeft, delayPing, sinceRead, stolen, early, pinged>>

\* Any other end of the session.
Teardown ==
  /\ up /\ up' = FALSE
  /\ UNCHANGED <<session, silent, reader, timeLeft, delayPing, sinceRead, stolen, early, pinged>>

------------------------------------------------------------------------------
(* waitServerPing                                                           *)

Take(s) ==
  /\ Waits(s) /\ delayPing > 0
  /\ delayPing' = delayPing - 1
  /\ timeLeft' = [timeLeft EXCEPT ![s] = Timeout]
  /\ stolen' = (stolen \/ (up /\ s # session))
  /\ UNCHANGED <<session, up, silent, reader, sinceRead, early, pinged>>

\* handleTransportDisconnect does nothing unless the transport is current.
Report(s) ==
  /\ timeLeft[s] = 0
  /\ timeLeft' = [timeLeft EXCEPT ![s] = Timeout]
  /\ IF Current(s)
     THEN /\ up' = FALSE
          /\ early' = IF sinceRead < Allowed
                      THEN early \cup {IF stolen THEN "stolen" ELSE "alone"}
                      ELSE early
     ELSE UNCHANGED <<up, early>>
  /\ UNCHANGED <<session, silent, reader, delayPing, sinceRead, stolen, pinged>>

\* disconnectCh is closed.
Stop(s) ==
  /\ Waits(s) /\ reader[s] = "ended"
  /\ timeLeft' = [timeLeft EXCEPT ![s] = Off]
  /\ UNCHANGED <<session, up, silent, reader, delayPing, sinceRead, stolen, early, pinged>>

Busy(s) ==
  \/ Waits(s) /\ (delayPing > 0 \/ timeLeft[s] = 0 \/ reader[s] = "ended")
  \/ ~Current(s) /\ reader[s] = "reading"

\* Time matters while somebody waits.
Tick ==
  /\ \E s \in Sessions : Waits(s)
  /\ \A s \in Sessions : ~Busy(s)
  /\ timeLeft' = [s \in Sessions |-> IF Waits(s) THEN timeLeft[s] - 1 ELSE Off]
  /\ sinceRead' = IF pinged THEN 1 ELSE IF sinceRead < Allowed THEN sinceRead + 1 ELSE sinceRead
  /\ pinged' = FALSE
  /\ UNCHANGED <<session, up, silent, reader, delayPing, stolen, early>>

Next ==
  \/ Connect \/ FallSilent \/ Teardown \/ Tick
  \/ \E s \in Sessions :
       \/ ReadPing(s) \/ HandlerStarts(s) \/ HandlerReturns(s) \/ ReaderEnds(s)
       \/ Take(s) \/ Report(s) \/ Stop(s)

Spec == Init /\ [][Next]_vars

\* Time passes and the waiters run; nothing else has to happen.
Fairness ==
  /\ WF_vars(Tick)
  /\ \A s \in Sessions :
       WF_vars(Take(s)) /\ WF_vars(Report(s)) /\ WF_vars(Stop(s)) /\ WF_vars(ReaderEnds(s))

LiveSpec == Spec /\ Fairness

------------------------------------------------------------------------------
(* Properties                                                               *)

\* The channel holds at most its capacity, and a waiter's time its timeout (waitServerPing).
TypeOK ==
  /\ session \in 0..MaxSessions /\ up \in BOOLEAN /\ silent \in BOOLEAN
  /\ reader \in [Sessions -> {"off", "reading", "handling", "ended"}]
  /\ timeLeft \in [Sessions -> Off..Allowed]
  /\ delayPing \in 0..Capacity
  /\ sinceRead \in 0..Allowed /\ pinged \in BOOLEAN /\ stolen \in BOOLEAN
  /\ early \subseteq {"stolen", "alone"}

\* A session is never ended for a missing ping while its pings are read in time, whatever
\* pings an ended session left in the channel, as long as no waiter of another session
\* took one (waitServerPing, handle).
EndedForSilence == "alone" \notin early

\* The same without the exception, as Config.MaxServerPingDelay promises ("maximum delay
\* of ping from server"): the waiter of an ended session whose reader still waits for a
\* handler takes every other ping of the new session.
NoFalseAlarm == early = {}

\* A session that reads nothing anymore is ended: a dead connection, and a slow client too
\* ("slow client will be disconnected eventually with `no ping` reason").
SilenceIsNoticed == \A s \in Sessions : (session = s /\ up /\ silent) ~> ~(session = s /\ up)
=============================================================================
