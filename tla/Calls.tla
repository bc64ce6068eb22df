------------------------------- MODULE Calls -------------------------------
(***************************************************************************)
(* Requests and calls of the application (client.go, subscription.go): the *)
(* futures a call waits on until the client is connected (or the           *)
(* subscription subscribed), command ids, the table of requests, and the   *)
(* race between the reply, the failed send, the timeout and the teardown   *)
(* for the callback of a request.                                          *)
(*                                                                         *)
(* A step is one hold of c.mu or s.mu, one access to c.transport or to the *)
(* requests, one write, or one step of a goroutine that waits.  A hold of  *)
(* c.mu in which others may get at the transport or the requests is split, *)
(* with mu naming the holder.  The connection is reduced to what calls can *)
(* see of it: its state and its transports, numbered as they are opened.   *)
(***************************************************************************)
EXTENDS Naturals, FiniteSets

CONSTANTS
  ClientCalls,  \* RPC, Publish, History, Presence and PresenceStats of the client
  SubCalls,     \* Publish, History, Presence and PresenceStats of a subscription
  Sends,        \* Client.Send: a command without a reply
  MaxCmdID,     \* largest command id; 2^32 - 1 in the code
  LastCmdID,    \* id of the last command when a behaviour starts, 0 for a new client
  MaxOpened,    \* bound: transports opened
  MaxCalls,     \* bound: Connect, Disconnect, Close, Subscribe, Unsubscribe and calls
  MaxFaults     \* bound: failures of the network and the server

ASSUME CallIdAssumption == MaxCmdID \in Nat \ {0} /\ LastCmdID \in 0..MaxCmdID
ASSUME CallBoundsAssumption == MaxOpened \in Nat /\ MaxCalls \in Nat /\ MaxFaults \in Nat
ASSUME CallKindsAssumption ==
  ClientCalls \cap SubCalls = {} /\ Sends \cap (ClientCalls \cup SubCalls) = {}

Calls == ClientCalls \cup SubCalls \cup Sends
NoCall == "none"
ConnectCommand == "connect"
ASSUME CallNamesAssumption == {NoCall, ConnectCommand} \cap Calls = {}

VARIABLES
  state, transport,
  mu,                   \* who holds c.mu over several steps
  resolving,            \* futures that run in the lock hold of the connect callback
  opened, open,         \* transports dialled, and those not closed or failed
  greeted,              \* transports whose server has got a connect command
  reports,              \* transports a disconnect report is on its way for
  closeCh, channels,    \* c.closeCh (0 is nil), and how many were made
  cmdID, requests,
  futures, overdue,     \* connectFutures, and those whose time is over
  sub, subFutures, subOverdue,
  stage, id, on,        \* per call: how far it is, its command id, its transport
  ctxDone,              \* calls whose context ended
  ran,                  \* per call: how often its result was handed over
  watches,              \* goroutines of sendAsyncOn
  atServer, inbox,      \* commands not answered, replies not handled
  refused,              \* history: why a server would close a connection
  calls, faults

connVars == <<state, transport, mu, resolving, opened, open, greeted>>
chanVars == <<closeCh, channels>>
idVars == <<cmdID, requests>>
futureVars == <<futures, overdue>>
subVars == <<sub, subFutures, subOverdue>>
callVars == <<stage, id, on, ran>>
netVars == <<atServer, inbox>>
budget == <<calls, faults>>
vars == <<connVars, reports, chanVars, idVars, futureVars, subVars, callVars, ctxDone,
          watches, netVars, refused, budget>>

Ids == 0..MaxCmdID
Stages == {"idle", "subFuture", "ready", "future", "go", "added", "writing", "failed",
           "waiting", "malformed", "done"}
Watch(cmd, ch, phase) == [id |-> cmd, ch |-> ch, phase |-> phase]
Unread == 0

MuFree == mu = "free" /\ resolving = {}

Init ==
  /\ state = "disconnected" /\ transport = 0 /\ mu = "free" /\ resolving = {}
  /\ opened = 0 /\ open = {} /\ greeted = {} /\ reports = {}
  /\ closeCh = 1 /\ channels = 1
  /\ cmdID = LastCmdID /\ requests = [n \in Ids |-> NoCall]
  /\ futures = {} /\ overdue = {}
  /\ sub = "unsubscribed" /\ subFutures = {} /\ subOverdue = {}
  /\ stage = [c \in Calls |-> "idle"] /\ id = [c \in Calls |-> 0]
  /\ on = [c \in Calls |-> 0] /\ ctxDone = {} /\ ran = [c \in Calls |-> 0]
  /\ watches = {} /\ atServer = {} /\ inbox = {} /\ refused = {}
  /\ calls = 0 /\ faults = 0

ApplicationCalls == calls < MaxCalls /\ calls' = calls + 1 /\ UNCHANGED faults
Fault == faults < MaxFaults /\ faults' = faults + 1 /\ UNCHANGED calls
NoFault == UNCHANGED budget

------------------------------------------------------------------------------
(* Variants of the definitions below with a bug planted; used to check that *)
(* the properties notice it.                                                *)

FaultyNextCmdID == (cmdID + 1) % (MaxCmdID + 1)
FaultyPopped(n) == TRUE
FaultyFuturesAfter(target) == futures
FaultyWatchesAfterWrite(n) == watches

------------------------------------------------------------------------------
(* Parts of several actions                                                 *)

\* nextCmdID: 0 marks pings and pushes.
NextCmdID == IF cmdID = MaxCmdID THEN 1 ELSE cmdID + 1

\* Nothing that is about a former command with this id is left: fewer than 2^32
\* commands are sent within a read timeout.
Unused(n) ==
  /\ requests[n] = NoCall
  /\ \A w \in watches : w.id # n
  /\ \A r \in atServer \cup inbox : r.id # n
  /\ \A c \in Calls : stage[c] \in {"added", "writing", "failed"} => id[c] # n

\* The callback of c runs, or c returns an error by itself.
HandOver(S) == ran' = [c \in Calls |-> IF c \in S THEN ran[c] + 1 ELSE ran[c]]
MoveTo(S, s) == stage' = [c \in Calls |-> IF c \in S THEN s ELSE stage[c]]
Answered(c) == HandOver({c}) /\ MoveTo({c}, "done")

\* popRequest found the request.
Popped(n) == requests[n] # NoCall

\* The calls whose callbacks clearConnectedState runs.
Taken == {c \in Calls : \E n \in Ids : requests[n] = c}

\* resolveConnectFutures empties the map; a transport that closes while
\* connecting keeps it.
FuturesAfter(target) == IF target = "retry" THEN futures ELSE {}

\* The goroutine of a future looks it up again after its timer fired.
StillWaits(c) == c \in futures
SubOverdueWaits(c) == c \in subFutures

WatchesAfterWrite(n) == watches \cup {Watch(n, Unread, "new")}

------------------------------------------------------------------------------
(* The connection                                                           *)

Connect ==
  /\ ApplicationCalls
  /\ MuFree /\ state = "disconnected"
  /\ state' = "connecting"
  /\ IF closeCh = 0
     THEN channels' = channels + 1 /\ closeCh' = channels + 1
     ELSE UNCHANGED chanVars
  /\ UNCHANGED <<transport, mu, resolving, opened, open, greeted, reports, idVars,
                 futureVars, subVars, callVars, ctxDone, watches, netVars, refused>>

\* Only after the connect command is written other commands may use the transport.
TransportWhileOpening == transport

\* An attempt has a connection: in one hold of c.mu the connect command is
\* written ...
Opens ==
  /\ MuFree /\ state = "connecting" /\ transport = 0
  /\ opened < MaxOpened
  /\ Unused(NextCmdID)
  /\ mu' = "opening"
  /\ opened' = opened + 1 /\ open' = open \cup {opened + 1}
  /\ cmdID' = NextCmdID /\ requests' = [requests EXCEPT ![NextCmdID] = ConnectCommand]
  /\ transport' = TransportWhileOpening
  /\ NoFault
  /\ UNCHANGED <<state, resolving, greeted, reports, chanVars, futureVars, subVars,
                 callVars, ctxDone, watches, netVars, refused>>

WithoutConnect == [n \in Ids |-> IF requests[n] = ConnectCommand THEN NoCall ELSE requests[n]]
ConnectPending == requests # WithoutConnect

\* ... and the transport set, or closed when the write failed.
ConnectWritten ==
  /\ mu = "opening"
  /\ mu' = "free" /\ transport' = opened
  /\ greeted' = greeted \cup {opened}
  /\ watches' = watches \cup
       {Watch(n, Unread, "new") : n \in {m \in Ids : requests[m] = ConnectCommand}}
  /\ NoFault
  /\ UNCHANGED <<state, resolving, opened, open, reports, chanVars, idVars, futureVars,
                 subVars, callVars, ctxDone, netVars, refused>>

ConnectNotWritten ==
  /\ mu = "opening"
  /\ Fault
  /\ mu' = "free" /\ open' = open \ {opened}
  /\ reports' = reports \cup {opened}
  /\ requests' = WithoutConnect
  /\ UNCHANGED <<state, transport, resolving, opened, greeted, chanVars, cmdID,
                 futureVars, subVars, callVars, ctxDone, watches, netVars, refused>>

\* The connect callback: futures run in this hold of c.mu.
ConnectReplied ==
  /\ MuFree /\ state = "connecting" /\ transport \in open /\ ConnectPending
  /\ state' = "connected"
  /\ requests' = WithoutConnect
  /\ resolving' = futures /\ futures' = {} /\ MoveTo(futures, "go")
  /\ NoFault
  /\ UNCHANGED <<transport, mu, opened, open, greeted, reports, chanVars, cmdID, overdue,
                 subVars, id, on, ran, ctxDone, watches, netVars, refused>>

\* It failed with a temporary error or timed out: the attempt gives its transport
\* up and is retried later.  Requests of calls stay in the table.
ConnectFails ==
  /\ MuFree /\ state = "connecting" /\ transport # 0
  /\ IF ConnectPending THEN Fault ELSE NoFault
  /\ requests' = WithoutConnect
  /\ transport' = 0 /\ open' = open \ {transport}
  /\ atServer' = {r \in atServer : r.on # transport}
  /\ UNCHANGED <<state, mu, resolving, opened, greeted, reports, chanVars, cmdID,
                 futureVars, subVars, callVars, ctxDone, watches, inbox, refused>>

\* A teardown: the transport is closed and reset ...
StartTeardown(target) ==
  /\ mu' = target
  /\ transport' = 0 /\ open' = open \ {transport}
  /\ atServer' = {r \in atServer : r.on # transport}
  /\ UNCHANGED <<state, resolving, opened, greeted, chanVars, idVars, futureVars, subVars,
                 id, on, ctxDone, watches, inbox, refused>>

Disconnect ==
  /\ ApplicationCalls
  /\ MuFree /\ state \in {"connecting", "connected"}
  /\ StartTeardown("disconnected")
  /\ UNCHANGED <<reports, stage, ran>>

Close ==
  /\ ApplicationCalls
  /\ MuFree /\ state # "closed"
  /\ StartTeardown("closed")
  /\ UNCHANGED <<reports, stage, ran>>

\* handleTransportDisconnect for transport t, to be retried.
Report(t) ==
  /\ MuFree
  /\ reports' = reports \ {t}
  /\ IF transport = t
     THEN StartTeardown(IF state = "connecting" THEN "retry" ELSE "connecting")
     ELSE UNCHANGED <<connVars, chanVars, idVars, futureVars, subVars, id, on, ctxDone,
                      watches, netVars, refused>>
  /\ UNCHANGED <<stage, ran>>
  /\ NoFault

\* ... then clearConnectedState closes closeCh and fails the requests, the
\* futures fail, and the subscription moves to subscribing (Close unsubscribes
\* it in a later lock hold).
EndTeardown ==
  /\ mu \in {"disconnected", "connecting", "closed", "retry"}
  /\ LET failed == Taken \cup (futures \ FuturesAfter(mu))
     IN  /\ HandOver(failed)
         /\ MoveTo({c \in failed : stage[c] \in {"waiting", "future"}}, "done")
  /\ mu' = "free"
  /\ state' = IF mu = "retry" THEN "connecting" ELSE mu
  /\ closeCh' = 0
  /\ requests' = [n \in Ids |-> NoCall]
  /\ futures' = FuturesAfter(mu)
  /\ sub' = IF sub = "subscribed" /\ mu # "closed" THEN "subscribing" ELSE sub
  /\ NoFault
  /\ UNCHANGED <<transport, resolving, opened, open, greeted, reports, channels, cmdID,
                 overdue, subFutures, subOverdue, id, on, ctxDone, watches, netVars, refused>>

\* The connection of a transport is lost: its reader reports it.
LinkFails(t) ==
  /\ Fault
  /\ open' = open \ {t} /\ reports' = reports \cup {t}
  /\ atServer' = {r \in atServer : r.on # t}
  /\ UNCHANGED <<state, transport, mu, resolving, opened, greeted, chanVars, idVars,
                 futureVars, subVars, callVars, ctxDone, watches, inbox, refused>>

------------------------------------------------------------------------------
(* The subscription of SubCalls                                             *)

Subscribe ==
  /\ ApplicationCalls
  /\ sub = "unsubscribed" /\ state # "closed"
  /\ sub' = "subscribing"
  /\ UNCHANGED <<connVars, reports, chanVars, idVars, futureVars, subFutures, subOverdue,
                 callVars, ctxDone, watches, netVars, refused>>

\* moveToSubscribed: each future goes on in its own goroutine.
Subscribed ==
  /\ sub = "subscribing" /\ state = "connected"
  /\ sub' = "subscribed"
  /\ subFutures' = {} /\ MoveTo(subFutures, "ready")
  /\ NoFault
  /\ UNCHANGED <<connVars, reports, chanVars, idVars, futureVars, subOverdue, id, on, ran,
                 ctxDone, watches, netVars, refused>>

\* moveToUnsubscribedLocked
MoveToUnsubscribed ==
  /\ sub # "unsubscribed"
  /\ sub' = "unsubscribed"
  /\ subFutures' = {} /\ HandOver(subFutures) /\ MoveTo(subFutures, "done")
  /\ UNCHANGED <<connVars, reports, chanVars, idVars, futureVars, subOverdue, id, on,
                 ctxDone, watches, netVars, refused>>

Unsubscribe == ApplicationCalls /\ state # "closed" /\ MoveToUnsubscribed

\* moveToClosed, after its hold of c.mu
ClosedUnsubscribes == NoFault /\ MuFree /\ state = "closed" /\ MoveToUnsubscribed

------------------------------------------------------------------------------
(* Calls                                                                    *)

UnchangedByCall == UNCHANGED <<transport, state, mu, opened, open, greeted, chanVars, budget>>

\* onConnect: go on, fail, or wait for the connection.
OnConnect(c) ==
  /\ MuFree
  /\ CASE state = "connected" -> MoveTo({c}, "go") /\ UNCHANGED <<ran, futures>>
       [] state = "connecting" -> MoveTo({c}, "future") /\ futures' = futures \cup {c}
                                  /\ UNCHANGED ran
       [] OTHER -> Answered(c) /\ UNCHANGED futures
  /\ UNCHANGED <<overdue, subFutures>>

\* onSubscribe: go on in a goroutine, fail, or wait for the subscription.
OnSubscribe(c) ==
  /\ CASE sub = "subscribed" -> MoveTo({c}, "ready") /\ UNCHANGED <<ran, subFutures>>
       [] sub = "subscribing" -> MoveTo({c}, "subFuture") /\ subFutures' = subFutures \cup {c}
                                 /\ UNCHANGED ran
       [] OTHER -> Answered(c) /\ UNCHANGED subFutures
  /\ UNCHANGED futureVars

\* The application makes the call.
Begin(c) ==
  /\ ApplicationCalls
  /\ stage[c] = "idle"
  /\ IF c \in SubCalls THEN OnSubscribe(c) ELSE OnConnect(c)
  /\ UNCHANGED <<connVars, chanVars, reports, idVars, sub, subOverdue, id, on, ctxDone, watches,
                 netVars, refused>>

\* The subscription is subscribed: the call goes on as a call of the client,
\* unless its context ended.
SubscriptionReady(c) ==
  /\ stage[c] = "ready"
  /\ IF c \in ctxDone
     THEN Answered(c) /\ UNCHANGED <<futureVars, subFutures>>
     ELSE OnConnect(c)
  /\ UnchangedByCall
  /\ UNCHANGED <<resolving, reports, idVars, sub, subOverdue, id, on, ctxDone, watches,
                 netVars, refused>>

\* The goroutines that wait for futures: their timer fires while the future may
\* be resolved meanwhile, then they take the lock.
FutureOverdue(c) ==
  /\ \/ c \in futures \ overdue /\ overdue' = overdue \cup {c} /\ UNCHANGED subOverdue
     \/ c \in subFutures \ subOverdue /\ subOverdue' = subOverdue \cup {c} /\ UNCHANGED overdue
  /\ NoFault
  /\ UNCHANGED <<connVars, reports, chanVars, idVars, futures, sub, subFutures, callVars,
                 ctxDone, watches, netVars, refused>>

FutureTimeout(c) ==
  /\ MuFree /\ c \in overdue
  /\ overdue' = overdue \ {c}
  /\ IF StillWaits(c)
     THEN futures' = futures \ {c} /\ Answered(c)
     ELSE UNCHANGED <<futures, ran, stage>>
  /\ NoFault
  /\ UNCHANGED <<connVars, reports, chanVars, idVars, subVars, id, on, ctxDone, watches,
                 netVars, refused>>

SubFutureTimeout(c) ==
  /\ c \in subOverdue
  /\ subOverdue' = subOverdue \ {c}
  /\ IF SubOverdueWaits(c)
     THEN subFutures' = subFutures \ {c} /\ Answered(c)
     ELSE UNCHANGED <<subFutures, ran, stage>>
  /\ NoFault
  /\ UNCHANGED <<connVars, reports, chanVars, idVars, futureVars, sub, id, on, ctxDone,
                 watches, netVars, refused>>

ContextEnds(c) ==
  /\ stage[c] \notin {"idle", "done"} /\ c \notin ctxDone
  /\ ctxDone' = ctxDone \cup {c}
  /\ NoFault
  /\ UNCHANGED <<connVars, reports, chanVars, idVars, futureVars, subVars, callVars,
                 watches, netVars, refused>>

------------------------------------------------------------------------------
(* Sending a command                                                        *)

\* The client is connected: nothing is sent when the context ended; otherwise
\* the request is added first.
Go(c) ==
  /\ stage[c] = "go"
  /\ IF c \in ctxDone
     THEN Answered(c) /\ resolving' = resolving \ {c} /\ UNCHANGED <<idVars, id>>
     ELSE /\ MoveTo({c}, "added")
          /\ IF c \in Sends
             THEN UNCHANGED <<idVars, id>>
             ELSE /\ Unused(NextCmdID)
                  /\ cmdID' = NextCmdID /\ id' = [id EXCEPT ![c] = NextCmdID]
                  /\ requests' = [requests EXCEPT ![NextCmdID] = c]
          /\ UNCHANGED <<ran, resolving>>
  /\ UnchangedByCall
  /\ UNCHANGED <<reports, futureVars, subVars, on, ctxDone, watches, netVars, refused>>

\* send reads the transport.
ReadTransport(c) ==
  /\ stage[c] = "added"
  /\ on' = [on EXCEPT ![c] = transport]
  /\ MoveTo({c}, IF transport = 0 THEN "failed" ELSE "writing")
  /\ UnchangedByCall
  /\ UNCHANGED <<resolving, reports, idVars, futureVars, subVars, id, ran, ctxDone,
                 watches, netVars, refused>>

\* What a server closes the connection for.
Refusals(c) ==
  (IF on[c] \notin greeted THEN {"not connect"} ELSE {})
    \cup (IF c \notin Sends /\ id[c] = 0 THEN {"id 0"} ELSE {})

\* The write succeeds: Send is done, other calls wait for their reply.
Written(c) ==
  /\ stage[c] = "writing" /\ on[c] \in open
  /\ IF c \in Sends
     THEN Answered(c) /\ UNCHANGED <<watches, atServer>>
     ELSE /\ MoveTo({c}, IF requests[id[c]] = c THEN "waiting" ELSE "done")
          /\ watches' = WatchesAfterWrite(id[c])
          /\ atServer' = atServer \cup {[id |-> id[c], on |-> on[c]]}
          /\ UNCHANGED ran
  /\ resolving' = resolving \ {c}
  /\ refused' = refused \cup Refusals(c)
  /\ UnchangedByCall
  /\ UNCHANGED <<reports, idVars, futureVars, subVars, id, on, ctxDone, inbox>>

\* It fails: a disconnect of that transport is reported in a goroutine.
NotWritten(c) ==
  /\ stage[c] = "writing"
  /\ IF on[c] \in open THEN Fault ELSE NoFault
  /\ reports' = reports \cup {on[c]}
  /\ MoveTo({c}, "failed")
  /\ UNCHANGED <<connVars, chanVars, idVars, futureVars, subVars, id, on, ran, ctxDone,
                 watches, netVars, refused>>

\* The caller handles the failure if the request is still there: a teardown may
\* have run the callback.
SendFailed(c) ==
  /\ stage[c] = "failed"
  /\ IF c \in Sends
     THEN Answered(c) /\ UNCHANGED requests
     ELSE /\ MoveTo({c}, "done")
          /\ IF Popped(id[c]) THEN HandOver({c}) ELSE UNCHANGED ran
          /\ requests' = [requests EXCEPT ![id[c]] = NoCall]
  /\ resolving' = resolving \ {c}
  /\ UnchangedByCall
  /\ UNCHANGED <<reports, cmdID, futureVars, subVars, id, on, ctxDone, watches, netVars,
                 refused>>

------------------------------------------------------------------------------
(* Replies and timeouts                                                     *)

\* The one that pops a request runs its callback; the callback of a connect is
\* ConnectFails.
PopAndRun(n) ==
  /\ requests' = [requests EXCEPT ![n] = NoCall]
  /\ LET popped == {c \in Calls : c = requests[n]}
     IN  HandOver(popped) /\ MoveTo(popped, "done")

ServerReplies(r) ==
  /\ atServer' = atServer \ {r} /\ inbox' = inbox \cup {r}
  /\ NoFault
  /\ UNCHANGED <<connVars, reports, chanVars, idVars, futureVars, subVars, callVars,
                 ctxDone, watches, refused>>

\* The reader handles a reply, maybe when its transport was replaced already.
Reply(r) ==
  /\ inbox' = inbox \ {r}
  /\ PopAndRun(r.id)
  /\ NoFault
  /\ UNCHANGED <<connVars, reports, chanVars, cmdID, futureVars, subVars, id, on, ctxDone,
                 watches, atServer, refused>>

\* A closed transport drops what was not handed to its reader.
ReplyLost(r) ==
  /\ r.on \notin open
  /\ inbox' = inbox \ {r}
  /\ NoFault
  /\ UNCHANGED <<connVars, reports, chanVars, idVars, futureVars, subVars, callVars,
                 ctxDone, watches, atServer, refused>>

\* A reply without what its callback reads: the request is popped ...
ReplyMalformed(r) ==
  /\ Fault
  /\ inbox' = inbox \ {r}
  /\ requests[r.id] \in Calls
  /\ requests' = [requests EXCEPT ![r.id] = NoCall]
  /\ MoveTo({requests[r.id]}, "malformed")
  /\ on' = [on EXCEPT ![requests[r.id]] = r.on]
  /\ UNCHANGED <<connVars, reports, chanVars, cmdID, futureVars, subVars, id, ran, ctxDone,
                 watches, atServer, refused>>

\* ... and the client disconnected if that is its transport; then the call fails.
MalformedEnds(c) ==
  /\ MuFree /\ stage[c] = "malformed"
  /\ IF transport = on[c]
     THEN StartTeardown("disconnected")
     ELSE UNCHANGED <<connVars, chanVars, idVars, futureVars, subVars, id, on, ctxDone,
                      watches, netVars, refused>>
  /\ Answered(c)
  /\ NoFault
  /\ UNCHANGED reports

\* The goroutine of sendAsyncOn reads closeCh, waits, and pops the request when
\* the time and the grace are over or the channel is closed.
WatchStarts(w) ==
  /\ w.phase = "new" /\ MuFree
  /\ watches' = (watches \ {w}) \cup {Watch(w.id, closeCh, "armed")}
  /\ NoFault
  /\ UNCHANGED <<connVars, reports, chanVars, idVars, futureVars, subVars, callVars,
                 ctxDone, netVars, refused>>

WatchOverdue(w) ==
  /\ w.phase = "armed"
  /\ watches' = (watches \ {w}) \cup {Watch(w.id, w.ch, "grace")}
  /\ NoFault
  /\ UNCHANGED <<connVars, reports, chanVars, idVars, futureVars, subVars, callVars,
                 ctxDone, netVars, refused>>

WatchPops(w) ==
  /\ w.phase = "grace" \/ (w.phase = "armed" /\ w.ch \notin {0, closeCh})
  /\ watches' = watches \ {w}
  /\ PopAndRun(w.id)
  /\ NoFault
  /\ UNCHANGED <<connVars, reports, chanVars, cmdID, futureVars, subVars, id, on, ctxDone,
                 netVars, refused>>

------------------------------------------------------------------------------
Application ==
  \/ Connect \/ Disconnect \/ Close \/ Subscribe \/ Unsubscribe
  \/ \E c \in Calls : Begin(c) \/ ContextEnds(c)

Connection ==
  \/ Opens \/ ConnectWritten \/ ConnectNotWritten \/ ConnectReplied \/ ConnectFails
  \/ EndTeardown \/ Subscribed \/ ClosedUnsubscribes
  \/ \E t \in reports : Report(t)

Caller(c) ==
  \/ SubscriptionReady(c) \/ Go(c) \/ ReadTransport(c) \/ Written(c) \/ NotWritten(c)
  \/ SendFailed(c) \/ MalformedEnds(c)

Waiter(c) == FutureOverdue(c) \/ FutureTimeout(c) \/ SubFutureTimeout(c)

Watcher == \E w \in watches : WatchStarts(w) \/ WatchOverdue(w) \/ WatchPops(w)

Network ==
  \/ \E t \in open : LinkFails(t)
  \/ \E r \in atServer : ServerReplies(r)
  \/ \E r \in inbox : Reply(r) \/ ReplyLost(r) \/ ReplyMalformed(r)

Next ==
  \/ Application \/ Connection \/ Watcher \/ Network
  \/ \E c \in Calls : Caller(c) \/ Waiter(c)

Spec == Init /\ [][Next]_vars

\* Goroutines run and timers fire; nothing is assumed of the server, the network
\* and the application.  Opening a transport is forced only once it started.  A call
\* takes finitely many steps, so one condition stands for that of each call.
Fairness ==
  /\ WF_vars(ConnectWritten) /\ WF_vars(EndTeardown) /\ WF_vars(Watcher)
  /\ WF_vars(\E c \in Calls : Caller(c) \/ Waiter(c))

LiveSpec == Spec /\ Fairness

------------------------------------------------------------------------------
(* Properties *)

TypeOK ==
  /\ state \in {"disconnected", "connecting", "connected", "closed"}
  /\ transport \in 0..opened /\ opened \in Nat /\ open \subseteq 1..opened
  /\ mu \in {"free", "opening", "disconnected", "connecting", "closed", "retry"}
  /\ resolving \subseteq Calls /\ greeted \subseteq 1..opened /\ reports \subseteq 1..opened
  /\ channels \in Nat /\ closeCh \in 0..channels
  /\ cmdID \in Ids /\ requests \in [Ids -> Calls \cup {NoCall, ConnectCommand}]
  /\ futures \subseteq Calls /\ overdue \subseteq Calls
  /\ sub \in {"unsubscribed", "subscribing", "subscribed"}
  /\ subFutures \subseteq SubCalls /\ subOverdue \subseteq SubCalls
  /\ stage \in [Calls -> Stages] /\ id \in [Calls -> Ids] /\ on \in [Calls -> 0..opened]
  /\ ctxDone \subseteq Calls /\ ran \in [Calls -> Nat]
  /\ watches \subseteq [id : Ids, ch : 0..channels, phase : {"new", "armed", "grace"}]
  /\ atServer \cup inbox \subseteq [id : Ids, on : 1..opened]
  /\ refused \subseteq {"not connect", "id 0"} /\ calls \in Nat /\ faults \in Nat

\* "so that only one caller (the actual reply, a timeout, or a close) can ever
\* observe it and invoke its callback" (popRequest): whatever races, a call gets
\* at most one result.  A second one would block its goroutine for ever.
ResultOnce == \A c \in Calls : ran[c] <= 1

\* A call that waits for a reply is in the table under its own id, and a
\* goroutine will fail it if nobody else does; a call that waits for a future
\* is in its map.  So no call is forgotten by all who could finish it.
NoCallForgotten ==
  \A c \in Calls :
    /\ stage[c] = "waiting" =>
         requests[id[c]] = c /\ \E w \in watches : w.id = id[c]
    /\ stage[c] = "future" => c \in futures
    /\ stage[c] = "subFuture" => c \in subFutures

\* Disconnect and Close fail all calls at once, not at their timeouts, and
\* nothing waits for a client or a subscription that will not come.
WaitsOnlyWhileComing ==
  /\ futures # {} /\ MuFree => state = "connecting"
  /\ subFutures # {} => sub = "subscribing"
  /\ MuFree /\ state \in {"disconnected", "closed"} => \A c \in Calls : stage[c] # "waiting"

\* A server closes a connection whose first command is not connect, and on a
\* command with id 0 (comments in startReconnectingIf and nextCmdID): a call
\* delayed over a reconnect, or the wrap of the ids, causes neither.
ServerAccepts == refused = {}

\* Every call gets a result, at the latest when its timeouts are over: none stays
\* unanswered.
EveryCallAnswered == <>[](\A c \in Calls : stage[c] # "idle" => ran[c] >= 1)
==============================================================================
