---------------------------- MODULE ConnRefresh ----------------------------
(***************************************************************************)
(* Refresh of the connection token (client.go): the connect attempts that  *)
(* fetch a token when they have to and connect with it, the timer armed    *)
(* for a connected session, the goroutines that call GetToken, store the   *)
(* token and send it, and what may end the session or invalidate the state *)
(* meanwhile.                                                              *)
(*                                                                         *)
(* A step is one hold of c.mu that changes something, one return of        *)
(* GetToken or of a handler, or one send.  Only the current attempt has    *)
(* state: an attempt that is not current any more changes nothing (module  *)
(* Connection, which also has what starts one).  GetToken is configured,   *)
(* and what it returns to an attempt is not empty.  A token is named by    *)
(* who produced it and by the number of state invalidations the client had *)
(* been told of when it was asked for.                                     *)
(***************************************************************************)
EXTENDS Naturals, FiniteSets

CONSTANTS
  Flows,        \* slots for goroutines that run sendRefresh
  MaxCalls,     \* bound: Disconnect, Connect and SetToken
  MaxFaults     \* bound: attempts that fail or are superseded, transports that fail

ASSUME ConnRefreshBounds == MaxCalls \in Nat /\ MaxFaults \in Nat
ASSUME ConnRefreshFlows == IsFiniteSet(Flows)

VARIABLES
  state,
  generation,       \* connGeneration
  attempt,          \* the current connect attempt
  transport,        \* the current one; the transports published are numbered
  transports,       \* history: how many were published
  refreshTimer,     \* generation it was armed for, Off when it is not running
  flow,             \* the goroutines
  token, refreshRequired,
  reports,          \* disconnects on their way to handleTransportDisconnect
  expires,          \* history: the server said the session's token expires
  invalidations,    \* history: calls of invalidateConnectionState
  strayed,          \* history: one hit an attempt that had read the token already
  calls, faults

session == <<state, generation, expires>>
attemptVars == <<attempt, transport, transports>>
tokenVars == <<token, refreshRequired>>
history == <<invalidations, strayed>>
budget == <<calls, faults>>
vars == <<session, attemptVars, refreshTimer, flow, tokenVars, reports, history, budget>>

Off == 0
None == 0
NoToken == [from |-> "none", at |-> 0]
Token(from, at) == [from |-> from, at |-> at]
Idle == [phase |-> "idle", generation |-> 0, token |-> NoToken]
NoAttempt == [phase |-> "idle", token |-> NoToken]
AttemptPhases == {"idle", "reading", "asking", "dial", "await", "expired", "leaving"}
Phases == {"idle", "started", "asking", "failed", "leaving", "storing", "sending", "sent"}

Init ==
  /\ state = "disconnected" /\ generation = 1 /\ expires = FALSE
  /\ refreshTimer = Off /\ flow = [f \in Flows |-> Idle]
  /\ token \in {NoToken, Token("app", 0)} /\ refreshRequired = FALSE
  /\ attempt = NoAttempt /\ transport = None /\ transports = 0
  /\ reports = {} /\ invalidations = 0 /\ strayed = FALSE
  /\ calls = 0 /\ faults = 0

ApplicationCalls == calls < MaxCalls /\ calls' = calls + 1 /\ UNCHANGED faults
Fault == faults < MaxFaults /\ faults' = faults + 1 /\ UNCHANGED calls
NoFault == UNCHANGED budget

------------------------------------------------------------------------------
(* Variants of the definitions below with a bug planted; used to check that *)
(* the properties notice it.                                                *)

FaultyIsRefreshCurrentLocked(g) == state = "connected"
FaultyRefreshRequiredAfterStore == FALSE
FaultyTimerAfterTeardown == refreshTimer
FaultyAfterTemporaryError == "idle"

------------------------------------------------------------------------------
(* Parts of several actions                                                 *)

IsRefreshCurrentLocked(g) == state = "connected" /\ generation = g

\* Storing a refreshed token leaves the flag alone: a token fetched before an
\* invalidation that came meanwhile is not used to connect.
RefreshRequiredAfterStore == refreshRequired

\* clearConnectedState stops the timer.
TimerAfterTeardown == Off

\* A flow that failed for now reports the error and arms the timer again.
AfterTemporaryError == "failed"

Enter(f, phase) == flow' = [flow EXCEPT ![f].phase = phase]
Ends(f) == flow' = [flow EXCEPT ![f] = Idle]

Drop(r) == reports' = reports \ {r}
Becomes(r, kind) == reports' = (reports \ {r}) \cup {[r EXCEPT !.kind = kind]}
Reported(kind) == reports' = reports \cup {[transport |-> transport, kind |-> kind]}

\* clearConnectedState, connectAttempt++, the transport dropped, and the state that
\* moveToConnectingFrom or moveToDisconnectedIf sets
Teardown(target) ==
  /\ state' = target
  /\ generation' = generation + 1
  /\ attempt' = NoAttempt /\ transport' = None
  /\ refreshTimer' = TimerAfterTeardown
  /\ expires' = FALSE
  /\ UNCHANGED transports

NoTeardown == UNCHANGED <<session, attemptVars, refreshTimer>>

\* scheduleRefreshLocked
ScheduleRefresh == refreshTimer' = generation

------------------------------------------------------------------------------
(* The connection                                                           *)

Connect ==
  /\ ApplicationCalls
  /\ state = "disconnected"
  /\ state' = "connecting"
  /\ UNCHANGED <<generation, expires, attemptVars, refreshTimer, flow, tokenVars, reports, history>>

Disconnect ==
  /\ ApplicationCalls
  /\ state # "disconnected"
  /\ Teardown("disconnected")
  /\ UNCHANGED <<flow, tokenVars, reports, history>>

\* With GetToken configured it leaves refreshRequired alone.
SetToken ==
  /\ ApplicationCalls
  /\ token' = Token("app", invalidations)
  /\ UNCHANGED <<session, attemptVars, refreshTimer, flow, refreshRequired, reports, history>>

\* startReconnectingIf: a new attempt, which may supersede one still in progress
\* (a reconnect timer that had fired before that one was started).
StartAttempt ==
  /\ state = "connecting"
  /\ IF attempt = NoAttempt THEN NoFault ELSE Fault
  /\ attempt' = [NoAttempt EXCEPT !.phase = "reading"]
  /\ transport' = None
  /\ UNCHANGED <<session, transports, refreshTimer, flow, tokenVars, reports, history>>

\* The attempt reads the token and refreshRequired, and calls GetToken if it must ...
ReadToken ==
  /\ attempt.phase = "reading"
  /\ IF refreshRequired \/ token = NoToken
     THEN attempt' = [phase |-> "asking", token |-> Token("GetToken", invalidations)]
          /\ strayed' = FALSE
     ELSE attempt' = [attempt EXCEPT !.phase = "dial"] /\ UNCHANGED strayed
  /\ NoFault
  /\ UNCHANGED <<session, transport, transports, refreshTimer, flow, tokenVars, reports,
                 invalidations>>

\* ... which returns a token that the attempt stores ...
StoreFirstToken ==
  /\ attempt.phase = "asking"
  /\ token' = attempt.token
  /\ attempt' = [NoAttempt EXCEPT !.phase = "dial"]
  /\ NoFault
  /\ UNCHANGED <<session, transport, transports, refreshTimer, flow, refreshRequired, reports,
                 history>>

\* ... or ErrUnauthorized, or another error; the dial can fail as well: a
\* reconnect is scheduled.
AttemptFails ==
  /\ attempt.phase \in {"asking", "dial"}
  /\ Fault
  /\ \/ attempt' = NoAttempt /\ UNCHANGED <<session, transport, transports, refreshTimer>>
     \/ attempt.phase = "asking" /\ Teardown("disconnected")
  /\ UNCHANGED <<flow, tokenVars, reports, history>>

\* After the dial: the connect command takes the token as it is now, and its
\* transport is the current one from then on.  Nobody heeds the report of a write
\* that failed, on a transport that was never current.
SendConnect ==
  /\ attempt.phase = "dial"
  /\ refreshRequired' = FALSE
  /\ \/ /\ attempt' = [attempt EXCEPT !.phase = "await"]
        /\ transport' = transports + 1 /\ transports' = transports + 1
        /\ NoFault
     \/ attempt' = NoAttempt /\ Fault /\ UNCHANGED <<transport, transports>>
  /\ UNCHANGED <<session, refreshTimer, flow, token, reports, history>>

\* The connect reply may say that the token expires.
Connected ==
  /\ attempt.phase = "await"
  /\ state' = "connected" /\ attempt' = NoAttempt
  /\ expires' \in BOOLEAN
  /\ IF expires' THEN ScheduleRefresh ELSE UNCHANGED refreshTimer
  /\ NoFault
  /\ UNCHANGED <<generation, transport, transports, flow, tokenVars, reports, history>>

\* A connect that is refused, or times out, gives the transport up (once the
\* OnError handler returned) and is retried ...
ConnectRefused ==
  /\ attempt.phase = "await"
  /\ Fault
  /\ transport' = None
  /\ \E phase \in {"idle", "expired", "leaving"} : attempt' = [attempt EXCEPT !.phase = phase]
  /\ UNCHANGED <<session, transports, refreshTimer, flow, tokenVars, reports, history>>

\* ... with another token after error 109, not at all after a permanent error or a
\* malformed reply.
HandleConnectError ==
  /\ \/ /\ attempt.phase = "expired"
        /\ refreshRequired' = TRUE
        /\ attempt' = NoAttempt
        /\ UNCHANGED <<session, transport, transports, refreshTimer>>
     \/ attempt.phase = "leaving" /\ Teardown("disconnected") /\ UNCHANGED refreshRequired
  /\ NoFault
  /\ UNCHANGED <<flow, token, reports, history>>

\* The transport fails or the server closes it.
TransportFails(kind) ==
  /\ Fault
  /\ transport # None
  /\ Reported(kind)
  /\ UNCHANGED <<session, attemptVars, refreshTimer, flow, tokenVars, history>>

\* handleTransportDisconnect checks that the transport is current, without
\* holding the lock any longer ...
CheckReport(r) ==
  /\ r.kind = "invalidated"
  /\ IF r.transport = transport THEN Becomes(r, "checked") ELSE Drop(r)
  /\ NoFault
  /\ UNCHANGED <<session, attemptVars, refreshTimer, flow, tokenVars, history>>

\* ... invalidates the state when the server asked for it, whichever connection or
\* attempt is the current one by then ...
InvalidateConnectionState(r) ==
  /\ r.kind = "checked"
  /\ Becomes(r, "lost")
  /\ token' = NoToken /\ refreshRequired' = TRUE
  /\ invalidations' = invalidations + 1
  /\ strayed' = (strayed \/ attempt.phase \in {"asking", "dial"})
  /\ NoFault
  /\ UNCHANGED <<session, attemptVars, refreshTimer, flow>>

\* ... and reconnects, or not, if the transport still is current: that of a session
\* or of the attempt that waits for its connect reply.
MoveFrom(r) ==
  /\ r.kind = "lost"
  /\ Drop(r)
  /\ IF r.transport = transport
     THEN \E target \in {"connecting", "disconnected"} : Teardown(target)
     ELSE NoTeardown
  /\ NoFault
  /\ UNCHANGED <<flow, tokenVars, history>>

------------------------------------------------------------------------------
(* Refresh                                                                  *)

TimerFires(f) ==
  /\ refreshTimer # Off /\ flow[f] = Idle
  /\ refreshTimer' = Off
  /\ flow' = [flow EXCEPT ![f] = [Idle EXCEPT !.phase = "started", !.generation = refreshTimer]]
  /\ NoFault
  /\ UNCHANGED <<session, attemptVars, tokenVars, reports, history>>

\* GetToken is called only while the session lasts.
AskToken(f) ==
  /\ flow[f].phase = "started"
  /\ flow' = IF IsRefreshCurrentLocked(flow[f].generation)
             THEN [flow EXCEPT ![f].phase = "asking",
                               ![f].token = Token("GetToken", invalidations)]
             ELSE [flow EXCEPT ![f] = Idle]
  /\ NoFault
  /\ UNCHANGED <<session, attemptVars, refreshTimer, tokenVars, reports, history>>

\* It returns a token, an error, or that the client may not stay connected
\* (ErrUnauthorized, or no token).
GetTokenReturns(f) ==
  /\ flow[f].phase = "asking"
  /\ IF IsRefreshCurrentLocked(flow[f].generation)
     THEN \E phase \in {"storing", AfterTemporaryError, "leaving"} : Enter(f, phase)
     ELSE Ends(f)
  /\ NoFault
  /\ UNCHANGED <<session, attemptVars, refreshTimer, tokenVars, reports, history>>

StoreToken(f) ==
  /\ flow[f].phase = "storing"
  /\ IF IsRefreshCurrentLocked(flow[f].generation)
     THEN /\ token' = flow[f].token
          /\ refreshRequired' = RefreshRequiredAfterStore
          /\ Enter(f, "sending")
     ELSE Ends(f) /\ UNCHANGED tokenVars
  /\ NoFault
  /\ UNCHANGED <<session, attemptVars, refreshTimer, reports, history>>

\* It is sent on the transport that is current by then, if any.  Nobody looks at a
\* send that fails; a write that failed reports a disconnect.
SendRefresh(f) ==
  /\ flow[f].phase = "sending"
  /\ \/ transport # None /\ Enter(f, "sent") /\ NoFault /\ UNCHANGED reports
     \/ transport = None /\ Ends(f) /\ NoFault /\ UNCHANGED reports
     \/ transport # None /\ Ends(f) /\ Fault /\ Reported("lost")
  /\ UNCHANGED <<session, attemptVars, refreshTimer, tokenVars, history>>

\* The callback of the request: a reply, a server error, a timeout, or the end of
\* the session it was sent in.
RefreshAnswered(f) ==
  /\ flow[f].phase = "sent"
  /\ IF IsRefreshCurrentLocked(flow[f].generation)
     THEN \/ Enter(f, AfterTemporaryError) /\ UNCHANGED <<refreshTimer, expires>>
          \/ Enter(f, "leaving") /\ UNCHANGED <<refreshTimer, expires>>
          \/ Ends(f) /\ ScheduleRefresh /\ UNCHANGED expires
          \/ Ends(f) /\ expires' = FALSE /\ UNCHANGED refreshTimer
     ELSE Ends(f) /\ UNCHANGED <<refreshTimer, expires>>
  /\ NoFault
  /\ UNCHANGED <<state, generation, attemptVars, tokenVars, reports, history>>

\* handleRefreshError, once the OnError handler returned
HandleRefreshError(f) ==
  /\ flow[f].phase = "failed"
  /\ IF IsRefreshCurrentLocked(flow[f].generation) THEN ScheduleRefresh ELSE UNCHANGED refreshTimer
  /\ Ends(f)
  /\ NoFault
  /\ UNCHANGED <<session, attemptVars, tokenVars, reports, history>>

\* moveToDisconnectedIf
MayNotStay(f) ==
  /\ flow[f].phase = "leaving"
  /\ IF IsRefreshCurrentLocked(flow[f].generation)
     THEN Teardown("disconnected")
     ELSE NoTeardown
  /\ Ends(f)
  /\ NoFault
  /\ UNCHANGED <<tokenVars, reports, history>>

------------------------------------------------------------------------------
Run(f) ==
  \/ AskToken(f) \/ GetTokenReturns(f) \/ StoreToken(f) \/ SendRefresh(f)
  \/ RefreshAnswered(f) \/ HandleRefreshError(f) \/ MayNotStay(f)

Report(r) == CheckReport(r) \/ InvalidateConnectionState(r) \/ MoveFrom(r)

Attempt ==
  \/ StartAttempt \/ ReadToken \/ StoreFirstToken \/ AttemptFails \/ SendConnect
  \/ Connected \/ ConnectRefused \/ HandleConnectError

Next ==
  \/ Connect \/ Disconnect \/ SetToken \/ Attempt
  \/ \E kind \in {"lost", "invalidated"} : TransportFails(kind)
  \/ \E r \in reports : Report(r)
  \/ \E f \in Flows : TimerFires(f) \/ Run(f)

Spec == Init /\ [][Next]_vars

\* Timers fire, goroutines run, GetToken and handlers return, requests are
\* answered or time out, and a reported disconnect is handled.
Fairness ==
  /\ WF_vars(\E f \in Flows : TimerFires(f))
  /\ WF_vars(\E r \in reports : Report(r))
  /\ \A f \in Flows : WF_vars(Run(f))

LiveSpec == Spec /\ Fairness

------------------------------------------------------------------------------
(* Properties *)

Tokens == [from : {"none", "app", "GetToken"}, at : 0..invalidations]

TypeOK ==
  /\ state \in {"disconnected", "connecting", "connected"}
  /\ generation \in Nat \ {0} /\ expires \in BOOLEAN /\ refreshTimer \in 0..generation
  /\ attempt \in [phase : AttemptPhases, token : Tokens]
  /\ transports \in Nat /\ transport \in 0..transports
  /\ flow \in [Flows -> [phase : Phases, generation : 0..generation, token : Tokens]]
  /\ token \in Tokens /\ refreshRequired \in BOOLEAN
  /\ reports \subseteq [transport : 1..transports, kind : {"lost", "invalidated", "checked"}]
  /\ invalidations \in Nat /\ strayed \in BOOLEAN /\ calls \in Nat /\ faults \in Nat

Refreshing == {f \in Flows : flow[f].phase # "idle" /\ flow[f].generation = generation}
SessionEnding == \E r \in reports : r.transport = transport

\* A connected session whose token expires is always going to be refreshed: the
\* timer runs, or a goroutine is at it, or the session is about to be ended.
\* Otherwise the server closes the connection with an expired token.
RefreshHasWork ==
  state = "connected" /\ expires =>
    refreshTimer = generation \/ Refreshing # {} \/ SessionEnding

\* A session has at most one refresh, armed or running (sendRefresh: "continued on
\* a newer connection it would run next to that connection's own refresh"), and a
\* session that ended leaves no timer behind.
OneRefresh ==
  /\ refreshTimer # Off => state = "connected" /\ refreshTimer = generation /\ Refreshing = {}
  /\ Cardinality(Refreshing) <= 1

\* "It stops as soon as that session has ended": the goroutine of an ended
\* session changes neither the state, nor the timer, nor a token "set with
\* SetToken in the meantime" (sendRefresh).
EndedRefreshChangesNothing ==
  [][\A f \in Flows :
       flow'[f] # flow[f] /\ flow[f] # Idle
         /\ (state # "connected" \/ flow[f].generation # generation)
         => UNCHANGED <<session, refreshTimer, tokenVars>>]_vars

SendsConnect == attempt.phase = "dial" /\ attempt'.phase = "await"
Fresh(t) == t.from = "app" \/ (t.from = "GetToken" /\ t.at = invalidations)

\* invalidateConnectionState drops the token "so a fresh one is fetched on
\* reconnect, via refreshRequired": no connect command carries a token that was
\* obtained before a state invalidation, or none, not even if a refresh stores one
\* before the session is ended; unless the invalidation of an earlier connection
\* came when the attempt had read the token already (strayed).
ConnectsWithFreshToken == [][SendsConnect => Fresh(token) \/ strayed]_vars

\* What that comment says (client.go:846-848), without the exception.
EveryConnectHasFreshToken == [][SendsConnect => Fresh(token)]_vars

\* A token that expires is replaced in time: GetToken is asked again and again
\* while the session lasts and the server keeps saying that the token expires.
RefreshGoesOn ==
  state = "connected" /\ expires ~>
    ~(state = "connected" /\ expires) \/ \E f \in Refreshing : flow[f].phase = "asking"
==============================================================================
