----------------------------- MODULE Connection -----------------------------
(***************************************************************************)
(* The connection of a Client (client.go): the states disconnected,        *)
(* connecting, connected and closed, the connect attempts that move        *)
(* between them, and everything that races with an attempt: application    *)
(* calls, the reconnect timer, replies, the readers of the transports and  *)
(* the disconnect reports they leave behind.                               *)
(*                                                                         *)
(* A step is one hold of c.mu (or one event outside the client).  Steps    *)
(* that only wait for an event handler are folded into the lock hold that  *)
(* follows them; the handler may call anything meanwhile.  A lock hold     *)
(* that only checks whether to go on, and is followed by another that      *)
(* checks the same before it changes anything, is folded into that one.    *)
(*                                                                         *)
(* A run of startReconnectingIf is named by the value of connectAttempt it *)
(* holds, and so is the transport it opens; 0 stands for no transport.     *)
(***************************************************************************)
EXTENDS Naturals

CONSTANTS
  Tokens,       \* connection tokens, positive numbers
  HasGetToken,  \* Config.GetToken is set
  MaxAttempts,  \* bound: values of connectAttempt
  MaxCalls,     \* bound: calls of the application
  MaxFaults     \* bound: failures of the network, the server or GetToken

ASSUME TokensAssumption == Tokens \subseteq Nat \ {0}
ASSUME HasGetTokenAssumption == HasGetToken \in BOOLEAN
ASSUME BoundsAssumption ==
  MaxAttempts \in Nat /\ MaxCalls \in Nat /\ MaxFaults \in Nat

VARIABLES
  state, connectAttempt, transport,
  timer,       \* reconnectTimer is armed
  fired,       \* timer functions that fired and did not get the lock yet
  starting,    \* connectAttempt held by Connect() calls waiting for their event
  pc, res,     \* per attempt: where its run is, and what its request ended with
  conn,        \* per attempt: its transport
  reader,      \* per attempt: the goroutine reader(t)
  sentToken,   \* per attempt: connectToken
  lastReader,  \* the attempt that c.disconnectedCh belongs to
  pinging,     \* attempts with a waitServerPing goroutine
  reports,     \* calls of handleTransportDisconnect in progress
  unsub,       \* transport of the unsubscribe command in flight, 0 if none
  token, refreshRequired,
  rejected,    \* history: tokens the client was told are expired
  close,       \* where Close() is
  calls, faults

vars == <<state, connectAttempt, transport, timer, fired, starting, pc, res,
          conn, reader, sentToken, lastReader, pinging, reports, unsub, token,
          refreshRequired, rejected, close, calls, faults>>

tokenVars == <<token, refreshRequired, rejected, sentToken>>
readerVars == <<reader, lastReader, pinging>>

NoToken == 0
None == 0
Attempts == 1..MaxAttempts

\* The connect callback runs in "cb"; its error branch goes through "closing"
\* (c.transport was reset, t.Close runs without the lock) and "closed"; after it
\* set the connected state it is "up".
Busy == {"token", "getting", "dial", "await", "malformed", "cb", "closing",
         "closed"}
PCs == {"idle", "up", "done"} \cup Busy
Errors == {"expired", "fatal", "temporary"}
Results == {"none", "ok", "malformed", "timeout", "gone"} \cup Errors
Kinds == {"reconnect", "fatal", "invalidated"}

\* A transport is open, closed by the client, or closed by the other side,
\* which gives the kind of the disconnect.
Conns == {"none", "open", "closed"} \cup Kinds

\* A call handleTransportDisconnect(t, d).  from is the transport in use when
\* the call was made, which is t unless t is nil.  The call runs on the reader
\* of t or in a goroutine of its own.  attempt is teardownAttempt, in "wait".
Stages == {"check", "invalidate", "act", "wait"}
Report == [t : 0..MaxAttempts, from : 0..MaxAttempts, kind : Kinds,
           by : {"reader", "goroutine"}, stage : Stages, attempt : 0..MaxAttempts]

NewReport(t, from, kind, by) ==
  [t |-> t, from |-> from, kind |-> kind, by |-> by,
   stage |-> IF t = None THEN "act" ELSE "check", attempt |-> 0]

AtStage(r, stage, attempt) ==
  [t |-> r.t, from |-> r.from, kind |-> r.kind, by |-> r.by,
   stage |-> stage, attempt |-> attempt]

Init ==
  /\ state = "disconnected" /\ connectAttempt = 0 /\ transport = None
  /\ timer = FALSE /\ fired = 0 /\ starting = {}
  /\ pc = [n \in Attempts |-> "idle"]
  /\ res = [n \in Attempts |-> "none"]
  /\ conn = [n \in Attempts |-> "none"]
  /\ reader = [n \in Attempts |-> "none"]
  /\ sentToken = [n \in Attempts |-> NoToken]
  /\ lastReader = None /\ pinging = {} /\ reports = {} /\ unsub = None
  /\ token \in Tokens \cup {NoToken}
  /\ refreshRequired = FALSE /\ rejected = {}
  /\ close = "no" /\ calls = 0 /\ faults = 0

ApplicationCalls == calls < MaxCalls /\ calls' = calls + 1 /\ UNCHANGED faults
Fault == faults < MaxFaults /\ faults' = faults + 1 /\ UNCHANGED calls
NoFault == UNCHANGED <<calls, faults>>

------------------------------------------------------------------------------
(* Variants of the definitions below with a bug planted; used to check that *)
(* the properties notice it.                                                *)

FaultyIsCurrentAttempt(n) == state = "connecting"
FaultyClosedConn(n) == conn
FaultyTimerAfterClear == timer
FaultyRetryIfCurrent(n) == UNCHANGED timer /\ pc' = [pc EXCEPT ![n] = "done"]
FaultyRefreshAfterExpired(n) == refreshRequired
FaultyMayAct(r) == TRUE
FaultyCanTearDown == state \notin {"disconnected", "connecting"}
FaultyReconnectAfterWait(r) == r.t # None /\ connectAttempt = r.attempt

------------------------------------------------------------------------------
(* Parts of several actions                                                 *)

IsCurrentAttempt(n) == state = "connecting" /\ connectAttempt = n
IsConnectedAttempt(n) == state = "connected" /\ connectAttempt = n

\* t.Close(): nothing when the transport is closed already.
ClosedConn(n) ==
  IF n \in Attempts /\ conn[n] = "open" THEN [conn EXCEPT ![n] = "closed"]
                                        ELSE conn

\* scheduleReconnectLocked: a timer armed before is replaced.
ScheduleReconnect == timer' = TRUE

TimerAfterClear == FALSE

\* clearConnectedState fails all requests in flight: the callback of a connect
\* request runs with ErrClientDisconnected, that of an unsubscribe reports a
\* disconnect that is tied to no transport.
FailedRequests == [n \in Attempts |-> IF pc[n] = "await" THEN "cb" ELSE pc[n]]
FailedResults == [n \in Attempts |-> IF pc[n] = "await" THEN "gone" ELSE res[n]]
FailedUnsub == IF unsub = None THEN {}
               ELSE {NewReport(None, unsub, "reconnect", "goroutine")}

ClearConnectedState ==
  /\ timer' = TimerAfterClear
  /\ res' = FailedResults
  /\ unsub' = None

\* The body of moveToDisconnectedIf and of the first lock hold of moveToClosed.
\* pcs and kept are pc and reports without the caller.
EndConnection(to, pcs, kept) ==
  /\ connectAttempt < MaxAttempts
  /\ connectAttempt' = connectAttempt + 1
  /\ conn' = ClosedConn(transport)
  /\ transport' = None
  /\ state' = to
  /\ pc' = [n \in Attempts |-> IF pc[n] = "await" THEN "cb" ELSE pcs[n]]
  /\ reports' = kept \cup FailedUnsub
  /\ ClearConnectedState

\* The first lock hold of startReconnectingIf, for an attempt that may start.
StartAttempt ==
  /\ connectAttempt < MaxAttempts
  /\ connectAttempt' = connectAttempt + 1
  /\ conn' = ClosedConn(transport)
  /\ transport' = None
  /\ pc' = [pc EXCEPT ![connectAttempt + 1] = "token"]

\* The attempt ends with a reconnect if it is the current one.
RetryIfCurrent(n) ==
  /\ IF IsCurrentAttempt(n) THEN ScheduleReconnect ELSE UNCHANGED timer
  /\ pc' = [pc EXCEPT ![n] = "done"]

------------------------------------------------------------------------------
(* Application calls                                                        *)

\* startConnecting up to the wait for the connecting event.
Connect ==
  /\ ApplicationCalls
  /\ state = "disconnected"
  /\ state' = "connecting"
  /\ starting' = starting \cup {connectAttempt}
  /\ UNCHANGED <<connectAttempt, transport, timer, fired, pc, res, conn,
                 readerVars, reports, unsub, tokenVars, close>>

\* startConnecting after the event: startReconnectingIf.
ConnectContinues(a) ==
  /\ a \in starting
  /\ starting' = starting \ {a}
  /\ IF IsCurrentAttempt(a)
     THEN StartAttempt
     ELSE UNCHANGED <<connectAttempt, conn, transport, pc>>
  /\ NoFault
  /\ UNCHANGED <<state, timer, fired, res, readerVars, reports, unsub,
                 tokenVars, close>>

Disconnect ==
  /\ ApplicationCalls
  /\ state \in {"connecting", "connected"}
  /\ EndConnection("disconnected", pc, reports)
  /\ UNCHANGED <<fired, starting, readerVars, tokenVars, close>>

\* moveToClosed up to the wait for the reader, which a Close() called from an
\* event handler skips: the reader may wait for that handler.
Close ==
  /\ ApplicationCalls
  /\ state # "closed"
  /\ EndConnection("closed", pc, reports)
  /\ close' \in {"waiting", "inHandler"}
  /\ UNCHANGED <<fired, starting, readerVars, tokenVars>>

\* The rest of moveToClosed: it waited for the reader of the last transport.
CloseReturns ==
  /\ close \in {"waiting", "inHandler"}
  /\ close = "waiting" /\ lastReader # None => reader[lastReader] = "ended"
  /\ close' = "done"
  /\ lastReader' = None
  /\ NoFault
  /\ UNCHANGED <<state, connectAttempt, transport, timer, fired, starting, pc,
                 res, conn, reader, pinging, reports, unsub, tokenVars>>

\* The application does not set a token it was told is expired.
SetToken(k) ==
  /\ ApplicationCalls
  /\ k \notin rejected
  /\ token' = k
  /\ refreshRequired' = (refreshRequired /\ HasGetToken)
  /\ UNCHANGED <<state, connectAttempt, transport, timer, fired, starting, pc,
                 res, conn, readerVars, reports, unsub, sentToken, rejected,
                 close>>

------------------------------------------------------------------------------
(* The reconnect timer.  Stopping a timer does not stop a function that has *)
(* fired already.                                                           *)

TimerFires ==
  /\ timer
  /\ timer' = FALSE
  /\ fired' = fired + 1
  /\ NoFault
  /\ UNCHANGED <<state, connectAttempt, transport, starting, pc, res, conn,
                 readerVars, reports, unsub, tokenVars, close>>

TimerStarts ==
  /\ fired > 0
  /\ fired' = fired - 1
  /\ IF state = "connecting"
     THEN StartAttempt
     ELSE UNCHANGED <<connectAttempt, conn, transport, pc>>
  /\ NoFault
  /\ UNCHANGED <<state, timer, starting, res, readerVars, reports, unsub,
                 tokenVars, close>>

------------------------------------------------------------------------------
(* A connect attempt: startReconnectingIf after its first lock hold.        *)

\* Which token to use is read in a lock hold of its own.
ReadToken(n) ==
  /\ pc[n] = "token"
  /\ pc' = [pc EXCEPT ![n] =
              IF refreshRequired \/ (token = NoToken /\ HasGetToken)
              THEN "getting" ELSE "dial"]
  /\ NoFault
  /\ UNCHANGED <<state, connectAttempt, transport, timer, fired, starting, res,
                 conn, readerVars, reports, unsub, tokenVars, close>>

\* GetToken returns a token, one the server has not rejected.
GotToken(n, k) ==
  /\ HasGetToken
  /\ pc[n] = "getting"
  /\ k \notin rejected
  /\ token' = IF IsCurrentAttempt(n) THEN k ELSE token
  /\ pc' = [pc EXCEPT ![n] = IF IsCurrentAttempt(n) THEN "dial" ELSE "done"]
  /\ NoFault
  /\ UNCHANGED <<state, connectAttempt, transport, timer, fired, starting, res,
                 conn, readerVars, reports, unsub, refreshRequired, rejected,
                 sentToken, close>>

GetTokenFails(n) ==
  /\ HasGetToken
  /\ pc[n] = "getting"
  /\ Fault
  /\ RetryIfCurrent(n)
  /\ UNCHANGED <<state, connectAttempt, transport, fired, starting, res, conn,
                 readerVars, reports, unsub, tokenVars, close>>

\* ErrUnauthorized, from GetToken or because there is no GetToken.  In the
\* second case the attempt goes on when SetToken was called meanwhile.
GetTokenUnauthorized(n) ==
  /\ pc[n] = "getting"
  /\ IF HasGetToken THEN Fault ELSE NoFault
  /\ IF IsCurrentAttempt(n) /\ (HasGetToken \/ refreshRequired)
     THEN EndConnection("disconnected", [pc EXCEPT ![n] = "done"], reports)
     ELSE /\ pc' = [pc EXCEPT ![n] = IF HasGetToken THEN "done" ELSE "dial"]
          /\ UNCHANGED <<state, connectAttempt, transport, timer, res, conn,
                         reports, unsub>>
  /\ UNCHANGED <<fired, starting, readerVars, tokenVars, close>>

DialFails(n) ==
  /\ pc[n] = "dial"
  /\ Fault
  /\ RetryIfCurrent(n)
  /\ UNCHANGED <<state, connectAttempt, transport, fired, starting, res, conn,
                 readerVars, reports, unsub, tokenVars, close>>

\* The dial succeeded for an attempt that was superseded meanwhile: the new
\* transport is closed at once.
DialedTooLate(n) ==
  /\ pc[n] = "dial"
  /\ ~IsCurrentAttempt(n)
  /\ pc' = [pc EXCEPT ![n] = "done"]
  /\ conn' = [conn EXCEPT ![n] = "closed"]
  /\ NoFault
  /\ UNCHANGED <<state, connectAttempt, transport, timer, fired, starting, res,
                 readerVars, reports, unsub, tokenVars, close>>

\* The lock hold after a successful dial: start the reader and write the
\* connect command.
StartReader(n) ==
  /\ pc[n] = "dial"
  /\ IsCurrentAttempt(n)
  /\ refreshRequired' = FALSE
  /\ sentToken' = [sentToken EXCEPT ![n] = token]
  /\ reader' = [reader EXCEPT ![n] = "reading"]
  /\ lastReader' = n

ConnectSent(n) ==
  /\ StartReader(n)
  /\ transport' = n
  /\ conn' = [conn EXCEPT ![n] = "open"]
  /\ pc' = [pc EXCEPT ![n] = "await"]
  /\ NoFault
  /\ UNCHANGED <<state, connectAttempt, timer, fired, starting, res, pinging,
                 reports, unsub, token, rejected, close>>

\* The write failed, which is also reported as a disconnect of the transport.
ConnectNotSent(n) ==
  /\ StartReader(n)
  /\ Fault
  /\ conn' = [conn EXCEPT ![n] = "closed"]
  /\ ScheduleReconnect
  /\ reports' = reports \cup {NewReport(n, n, "reconnect", "goroutine")}
  /\ pc' = [pc EXCEPT ![n] = "done"]
  /\ UNCHANGED <<state, connectAttempt, transport, fired, starting, res, pinging,
                 unsub, token, rejected, close>>

------------------------------------------------------------------------------
(* The reply to the connect command.  Taking the request out of c.requests  *)
(* decides who runs its callback: the reader with a reply, the timeout, or  *)
(* clearConnectedState.                                                     *)

\* The reader can still hand over a reply it got before the client closed the
\* transport.
Replied(n, r) ==
  /\ pc[n] = "await"
  /\ reader[n] = "reading"
  /\ conn[n] \in {"open", "closed"}
  /\ pc' = [pc EXCEPT ![n] = IF r = "malformed" THEN "malformed" ELSE "cb"]
  /\ res' = [res EXCEPT ![n] = r]
  /\ IF r = "ok" THEN NoFault ELSE Fault
  /\ r = "expired" => sentToken[n] # NoToken
  /\ UNCHANGED <<state, connectAttempt, transport, timer, fired, starting, conn,
                 readerVars, reports, unsub, tokenVars, close>>

\* handle: a reply without its result ends the connection, then the callback
\* runs with ErrClientDisconnected.
MalformedReply(n) ==
  /\ pc[n] = "malformed"
  /\ IF transport = n /\ state \in {"connecting", "connected"}
     THEN EndConnection("disconnected", [pc EXCEPT ![n] = "cb"], reports)
     ELSE /\ pc' = [pc EXCEPT ![n] = "cb"]
          /\ UNCHANGED <<state, connectAttempt, transport, timer, res, conn,
                         reports, unsub>>
  /\ NoFault
  /\ UNCHANGED <<fired, starting, readerVars, tokenVars, close>>

\* ReadTimeout: a fault as long as the connection is there to answer.
RequestTimeout(n) ==
  /\ pc[n] = "await"
  /\ IF conn[n] = "open" THEN Fault ELSE NoFault
  /\ pc' = [pc EXCEPT ![n] = "cb"]
  /\ res' = [res EXCEPT ![n] = "timeout"]
  /\ UNCHANGED <<state, connectAttempt, transport, timer, fired, starting, conn,
                 readerVars, reports, unsub, tokenVars, close>>

\* The callback of a superseded attempt closes the transport, whatever the
\* result.
CallbackTooLate(n) ==
  /\ pc[n] = "cb"
  /\ ~IsCurrentAttempt(n)
  /\ pc' = [pc EXCEPT ![n] = "done"]
  /\ conn' = ClosedConn(n)
  /\ NoFault
  /\ UNCHANGED <<state, connectAttempt, transport, timer, fired, starting, res,
                 readerVars, reports, unsub, tokenVars, close>>

CallbackOK(n) ==
  /\ pc[n] = "cb"
  /\ IsCurrentAttempt(n)
  /\ res[n] = "ok"
  /\ state' = "connected"
  /\ pc' = [pc EXCEPT ![n] = "up"]
  /\ NoFault
  /\ UNCHANGED <<connectAttempt, transport, timer, fired, starting, res, conn,
                 readerVars, reports, unsub, tokenVars, close>>

\* After the connected event: start waiting for pings of this session.
ConnectedDone(n) ==
  /\ pc[n] = "up"
  /\ pc' = [pc EXCEPT ![n] = "done"]
  /\ pinging' = IF IsConnectedAttempt(n) THEN pinging \cup {n} ELSE pinging
  /\ NoFault
  /\ UNCHANGED <<state, connectAttempt, transport, timer, fired, starting, res,
                 conn, reader, lastReader, reports, unsub, tokenVars, close>>

\* The error branch: give up the transport so that its close is not handled as
\* a disconnect, then close it without the lock.
CallbackError(n) ==
  /\ pc[n] = "cb"
  /\ IsCurrentAttempt(n)
  /\ res[n] # "ok"
  /\ transport' = None
  /\ pc' = [pc EXCEPT ![n] = "closing"]
  /\ NoFault
  /\ UNCHANGED <<state, connectAttempt, timer, fired, starting, res, conn,
                 readerVars, reports, unsub, tokenVars, close>>

\* Without GetToken a token set meanwhile is used instead of the expired one.
RefreshAfterExpired(n) ==
  refreshRequired \/ HasGetToken \/ token = sentToken[n]

CallbackCloses(n) ==
  /\ pc[n] = "closing"
  /\ pc' = [pc EXCEPT ![n] = "closed"]
  /\ conn' = ClosedConn(n)
  /\ NoFault
  /\ UNCHANGED <<state, connectAttempt, transport, timer, fired, starting, res,
                 readerVars, reports, unsub, tokenVars, close>>

\* The lock hold after the close.  A server error that is not temporary ends
\* the connection.
CallbackFatal(n) ==
  /\ pc[n] = "closed"
  /\ IsCurrentAttempt(n)
  /\ res[n] = "fatal"
  /\ EndConnection("disconnected", [pc EXCEPT ![n] = "done"], reports)
  /\ NoFault
  /\ UNCHANGED <<fired, starting, readerVars, tokenVars, close>>

\* Every other error is retried, an expired token with a new one.
CallbackRetries(n) ==
  /\ pc[n] = "closed"
  /\ ~(IsCurrentAttempt(n) /\ res[n] = "fatal")
  /\ RetryIfCurrent(n)
  /\ IF IsCurrentAttempt(n) /\ res[n] = "expired"
     THEN /\ refreshRequired' = RefreshAfterExpired(n)
          /\ rejected' = rejected \cup {sentToken[n]}
     ELSE UNCHANGED <<refreshRequired, rejected>>
  /\ NoFault
  /\ UNCHANGED <<state, connectAttempt, transport, fired, starting, res, conn,
                 readerVars, reports, unsub, token, sentToken, close>>

------------------------------------------------------------------------------
(* What reports a disconnect                                                *)

ServerCloses(n, kind) ==
  /\ conn[n] = "open"
  /\ Fault
  /\ conn' = [conn EXCEPT ![n] = kind]
  /\ UNCHANGED <<state, connectAttempt, transport, timer, fired, starting, pc,
                 res, readerVars, reports, unsub, tokenVars, close>>

\* The reader of n runs the connect callback or a disconnect push itself.
BusyReader(n) ==
  \/ /\ pc[n] \in {"malformed", "cb", "closing", "closed", "up"}
     /\ res[n] \notin {"timeout", "gone"}
  \/ \E r \in reports : r.by = "reader" /\ r.t = n

\* What the close of the transport says: no disconnect means transport closed.
DisconnectKind(n) == IF conn[n] = "closed" THEN "reconnect" ELSE conn[n]

\* readOnce fails: the reader ends, and with it the goroutine that waits for
\* pings; the disconnect is handled in a goroutine of its own.
ReaderEnds(n) ==
  /\ reader[n] = "reading"
  /\ conn[n] \notin {"none", "open"}
  /\ ~BusyReader(n)
  /\ reader' = [reader EXCEPT ![n] = "ended"]
  /\ pinging' = pinging \ {n}
  /\ reports' = reports \cup {NewReport(n, n, DisconnectKind(n), "goroutine")}
  /\ NoFault
  /\ UNCHANGED <<state, connectAttempt, transport, timer, fired, starting, pc,
                 res, conn, lastReader, unsub, tokenVars, close>>

Reported(r) ==
  /\ Fault
  /\ reports' = reports \cup {r}
  /\ UNCHANGED <<state, connectAttempt, transport, timer, fired, starting, pc,
                 res, conn, readerVars, tokenVars, close>>

PingTimeout(n) ==
  n \in pinging /\ Reported(NewReport(n, n, "reconnect", "goroutine")) /\ UNCHANGED unsub

\* sendOn fails for some command.
WriteError ==
  /\ transport # None
  /\ Reported(NewReport(transport, transport, "reconnect", "goroutine"))
  /\ UNCHANGED unsub

\* The check of handle, and the disconnect push it lets through.
DisconnectPush(n, kind) ==
  /\ reader[n] = "reading" /\ ~BusyReader(n)
  /\ state = "connected" /\ transport = n
  /\ Reported(NewReport(n, n, kind, "reader"))
  /\ UNCHANGED unsub

\* Subscription.sendUnsubscribeLocked.
SendUnsubscribe ==
  /\ ApplicationCalls
  /\ state = "connected" /\ unsub = None
  /\ unsub' = transport
  /\ UNCHANGED <<state, connectAttempt, transport, timer, fired, starting, pc,
                 res, conn, readerVars, reports, tokenVars, close>>

UnsubscribeReplied ==
  /\ unsub # None
  /\ unsub' = None
  /\ NoFault
  /\ UNCHANGED <<state, connectAttempt, transport, timer, fired, starting, pc,
                 res, conn, readerVars, reports, tokenVars, close>>

UnsubscribeFails ==
  /\ unsub # None
  /\ unsub' = None
  /\ Reported(NewReport(None, unsub, "reconnect", "goroutine"))

\* Subscription.subscribeError with ErrTimeout.
SubscribeTimeout ==
  /\ state = "connected"
  /\ Reported(NewReport(None, transport, "reconnect", "goroutine"))
  /\ UNCHANGED unsub

------------------------------------------------------------------------------
(* handleTransportDisconnect, one step per lock hold.                       *)

Advance(r, stage) == (reports \ {r}) \cup {AtStage(r, stage, 0)}

ReportCheck(r) ==
  /\ r.stage = "check"
  /\ reports' = IF transport # r.t THEN reports \ {r}
                ELSE Advance(r, IF r.kind = "invalidated" THEN "invalidate" ELSE "act")
  /\ NoFault
  /\ UNCHANGED <<state, connectAttempt, transport, timer, fired, starting, pc,
                 res, conn, readerVars, unsub, tokenVars, close>>

\* invalidateConnectionState.
Invalidate(r) ==
  /\ r.stage = "invalidate"
  /\ token' = IF HasGetToken THEN NoToken ELSE token
  /\ refreshRequired' = (refreshRequired \/ HasGetToken)
  /\ reports' = Advance(r, "act")
  /\ NoFault
  /\ UNCHANGED <<state, connectAttempt, transport, timer, fired, starting, pc,
                 res, conn, readerVars, unsub, rejected, sentToken, close>>

\* The report is about the current transport, or about none in particular.
MayAct(r) == r.t = None \/ transport = r.t

\* Nothing to do: the report is outdated, or the client is not connected.
ReportIgnored(r) ==
  /\ r.stage = "act"
  /\ ~MayAct(r) \/ state \notin {"connecting", "connected"}
                \/ (r.t = None /\ state = "connecting")
  /\ reports' = reports \ {r}
  /\ NoFault
  /\ UNCHANGED <<state, connectAttempt, transport, timer, fired, starting, pc,
                 res, conn, readerVars, unsub, tokenVars, close>>

\* moveToDisconnectedFrom.
ReportDisconnects(r) ==
  /\ r.stage = "act" /\ r.kind = "fatal"
  /\ MayAct(r) /\ state \in {"connecting", "connected"}
  /\ EndConnection("disconnected", pc, reports \ {r})
  /\ NoFault
  /\ UNCHANGED <<fired, starting, readerVars, tokenVars, close>>

\* moveToConnectingFrom, the transport of the attempt in progress: retry.
ReportRetries(r) ==
  /\ r.stage = "act" /\ r.kind # "fatal"
  /\ r.t # None /\ MayAct(r) /\ state = "connecting"
  /\ connectAttempt < MaxAttempts
  /\ connectAttempt' = connectAttempt + 1
  /\ conn' = ClosedConn(r.t)
  /\ transport' = None
  /\ pc' = FailedRequests
  /\ res' = FailedResults
  /\ unsub' = None
  /\ reports' = (reports \ {r}) \cup FailedUnsub
  /\ ScheduleReconnect
  /\ NoFault
  /\ UNCHANGED <<state, fired, starting, readerVars, tokenVars, close>>

CanTearDown == state = "connected"

\* moveToConnectingFrom when connected, up to the wait for the handlers.
ReportTearsDown(r) ==
  /\ r.stage = "act" /\ r.kind # "fatal"
  /\ MayAct(r) /\ CanTearDown
  /\ state' = "connecting"
  /\ conn' = ClosedConn(transport)
  /\ transport' = None
  /\ pc' = FailedRequests
  /\ reports' = (reports \ {r}) \cup FailedUnsub
                 \cup {AtStage(r, "wait", connectAttempt)}
  /\ ClearConnectedState
  /\ NoFault
  /\ UNCHANGED <<connectAttempt, fired, starting, readerVars, tokenVars, close>>

\* Nobody else took over while the handlers ran.
ReconnectAfterWait(r) == IsCurrentAttempt(r.attempt)

TeardownDone(r) ==
  /\ r.stage = "wait"
  /\ IF ReconnectAfterWait(r) THEN ScheduleReconnect ELSE UNCHANGED timer
  /\ reports' = reports \ {r}
  /\ NoFault
  /\ UNCHANGED <<state, connectAttempt, transport, fired, starting, pc, res, conn,
                 readerVars, unsub, tokenVars, close>>

------------------------------------------------------------------------------

Application ==
  \/ Connect \/ Disconnect \/ Close \/ SendUnsubscribe
  \/ \E k \in Tokens : SetToken(k)

\* What the client does by itself in an attempt.
Progress(n) ==
  \/ ReadToken(n) \/ (\E k \in Tokens : GotToken(n, k))
  \/ GetTokenFails(n) \/ GetTokenUnauthorized(n)
  \/ DialFails(n) \/ DialedTooLate(n) \/ ConnectSent(n) \/ ConnectNotSent(n)
  \/ (\E r \in {"ok", "malformed"} \cup Errors : Replied(n, r))
  \/ MalformedReply(n) \/ RequestTimeout(n)
  \/ CallbackTooLate(n) \/ CallbackOK(n) \/ ConnectedDone(n)
  \/ CallbackError(n) \/ CallbackCloses(n) \/ CallbackFatal(n) \/ CallbackRetries(n)

HandleReport(r) ==
  \/ ReportCheck(r) \/ Invalidate(r) \/ ReportIgnored(r) \/ ReportDisconnects(r)
  \/ ReportRetries(r) \/ ReportTearsDown(r) \/ TeardownDone(r)

Failure ==
  \/ \E n \in Attempts, kind \in Kinds : ServerCloses(n, kind) \/ DisconnectPush(n, kind)
  \/ \E n \in Attempts : PingTimeout(n)
  \/ WriteError \/ UnsubscribeFails \/ SubscribeTimeout

Next ==
  \/ Application \/ Failure
  \/ CloseReturns \/ TimerFires \/ TimerStarts \/ UnsubscribeReplied
  \/ \E a \in starting : ConnectContinues(a)
  \/ \E n \in Attempts : Progress(n) \/ ReaderEnds(n)
  \/ \E r \in reports : HandleReport(r)

Spec == Init /\ [][Next]_vars

\* Handlers, GetToken and dials return (GetToken and the dial with a timeout),
\* every request has a timeout, and the Go scheduler runs every goroutine.  The
\* application never has to call.
Fairness ==
  /\ WF_vars(CloseReturns) /\ WF_vars(TimerFires) /\ WF_vars(TimerStarts)
  /\ \A a \in 0..MaxAttempts : WF_vars(ConnectContinues(a))
  /\ \A n \in Attempts : WF_vars(Progress(n)) /\ WF_vars(ReaderEnds(n))
  /\ WF_vars(\E r \in reports : HandleReport(r))

LiveSpec == Spec /\ Fairness

------------------------------------------------------------------------------
(* Properties *)

TypeOK ==
  /\ state \in {"disconnected", "connecting", "connected", "closed"}
  /\ connectAttempt \in 0..MaxAttempts /\ transport \in 0..MaxAttempts
  /\ timer \in BOOLEAN /\ fired \in Nat /\ starting \subseteq 0..MaxAttempts
  /\ pc \in [Attempts -> PCs] /\ res \in [Attempts -> Results]
  /\ conn \in [Attempts -> Conns]
  /\ reader \in [Attempts -> {"none", "reading", "ended"}]
  /\ sentToken \in [Attempts -> Tokens \cup {NoToken}]
  /\ lastReader \in 0..MaxAttempts /\ pinging \subseteq Attempts
  /\ reports \subseteq Report
  /\ unsub \in 0..MaxAttempts
  /\ token \in Tokens \cup {NoToken} /\ refreshRequired \in BOOLEAN
  /\ rejected \subseteq Tokens \cup {NoToken}
  /\ close \in {"no", "waiting", "inHandler", "done"} /\ calls \in Nat /\ faults \in Nat

\* A client that is connecting is never stranded: somebody will start or finish
\* an attempt, be it the timer, a Connect() or a teardown waiting for handlers,
\* or the run of the current attempt.  Every path that gives up an attempt
\* leaves this to an attempt it checked to be newer.
ConnectingHasWork ==
  state = "connecting" =>
    \/ timer \/ fired > 0 \/ connectAttempt \in starting
    \/ \E r \in reports : r.stage = "wait" /\ r.attempt = connectAttempt
    \/ connectAttempt \in Attempts /\ pc[connectAttempt] \in Busy

\* The transport the client writes to belongs to the latest attempt; when
\* connected there is one, and that attempt's connect command was answered.
TransportIsLatest ==
  /\ transport # None => transport = connectAttempt /\ conn[transport] # "none"
  /\ state = "connected" => transport # None /\ pc[transport] \in {"up", "done"}

\* No connection leaks: one that is open is the client's transport, or is just
\* being closed by the failed attempt that opened it.  In particular nothing is
\* open after Disconnect() and Close() but that.
OpenIsOwned ==
  \A n \in Attempts : conn[n] = "open" => transport = n \/ pc[n] = "closing"

\* A client that is disconnected or closed does not reconnect by itself.
DownIsQuiet ==
  state \in {"disconnected", "closed"} => ~timer /\ transport = None

\* A connect command never carries a token that an earlier connect reply said
\* is expired, with GetToken and without.
NeverResendRejected ==
  \A n \in Attempts :
    IsCurrentAttempt(n) /\ pc[n] = "await" => sentToken[n] \notin rejected

\* Apart from the application, only a disconnect reported for the transport in
\* use, or one that is tied to no transport, ends the connected state: what an
\* earlier attempt, transport or callback still does cannot.
NoSpuriousTeardown ==
  [][state = "connected" /\ state' # "connected" /\ calls' = calls =>
       \E r \in reports : r.stage = "act" /\ (r.t = None \/ r.t = transport)]_vars

\* A closed client stays closed and opens nothing any more.
ClosedIsFinal ==
  [][state = "closed" =>
       /\ state' = "closed" /\ transport' = None
       /\ \A n \in Attempts : conn'[n] = "open" => conn[n] = "open"]_vars

\* While failures are finite, a client does not stay connecting for ever.
ConnectingEnds == (state = "connecting") ~> (state # "connecting")

\* Close() returns: the reader it waits for ends.
CloseEnds == (close # "no") ~> (close = "done")

\* "A report for a transport that was already replaced or closed by a teardown
\* is outdated: it must not tear down a newer connection"
\* (handleTransportDisconnect): a report ends only the connection that was in
\* use when it was made.
OutdatedReportIgnored ==
  [][state = "connected" /\ state' # "connected" /\ calls' = calls =>
       \E r \in reports : r.stage = "act" /\ r.from = transport]_vars

\* "a client with GetToken drops the connection token (so a fresh one is
\* fetched on reconnect, via refreshRequired)" (invalidateConnectionState): with
\* a GetToken that returns tokens no connect command is sent without one.
ConnectCarriesToken ==
  HasGetToken =>
    \A n \in Attempts : pc[n] = "await" => sentToken[n] # NoToken
==============================================================================
