---------------------------- MODULE Subscription ----------------------------
(***************************************************************************)
(* One Subscription (subscription.go): unsubscribed, subscribing and       *)
(* subscribed, the subscribe flow that moves it forward, and what races    *)
(* with it: application calls, the resubscribe timer, replies and pushes,  *)
(* and the teardown of the connection.                                     *)
(*                                                                         *)
(* A step is one hold of s.mu, or one step of the client, the network or   *)
(* the server.  The client is reduced to its connected sessions: the       *)
(* teardown of one is split where a hold of s.mu can see the difference    *)
(* (c.transport reset; connected and connGeneration changed and requests   *)
(* failed; the subscription moved to subscribing), all in one hold of      *)
(* c.mu.  A lock hold that only checks whether to go on, and is followed   *)
(* by one that makes the same check before it changes anything, is folded  *)
(* into that one.                                                          *)
(***************************************************************************)
EXTENDS Naturals, Sequences

CONSTANTS
  HasGetToken,  \* SubscriptionConfig.GetToken is set
  HasGetState,  \* SubscriptionConfig.GetState is set
  MaxCalls,     \* bound: calls of the application
  MaxFaults     \* bound: failures and unsubscribe pushes of the server

ASSUME SubConfigAssumption == HasGetToken \in BOOLEAN /\ HasGetState \in BOOLEAN
ASSUME SubBoundsAssumption == MaxCalls \in Nat /\ MaxFaults \in Nat

VARIABLES
  link,           \* the client's session
  connGeneration,
  sweep,          \* the connect callback did not call resubscribe() yet
  due,            \* disconnect reports on their way to the client
  sstate, subscribeAttempt, invalidations,
  inflight,       \* s.inflight
  timer,          \* resubscribeTimer is armed
  token, recover, position,
  flow,           \* the subscribe flow that inflight stands for
  tasks,          \* calls in progress that will take s.mu
  toServer, toClient,  \* commands, and replies and pushes, of this session
  serverSub,      \* the server has the subscription, in this session
  unsubs,         \* unsubscribe requests without a reply
  history,        \* history: which of the two races below happened
  calls, faults

clientVars == <<link, connGeneration, sweep>>
subVars == <<sstate, subscribeAttempt, invalidations, timer, token, recover, position>>
netVars == <<toServer, toClient, serverSub, unsubs>>
budget == <<calls, faults>>
vars == <<clientVars, due, subVars, inflight, flow, tasks, netVars, history, budget>>

\* "up": connected.  "dropped": c.transport was reset, connected still TRUE.
\* "torn": the session ended, the subscription was not told yet.
Links == {"down", "up", "dropped", "torn", "closed"}
Connected == link \in {"up", "dropped"}
Reports == {"tied", "untied", "invalidated"}

\* A token and a position are the number of invalidations before they were
\* asked for, plus one; 0 stands for none, and for the sentinel epoch.
Nothing == 0
Newest == invalidations + 1
NoGeneration == 0

Stages == {"none", "getState", "gotState", "continue", "getToken", "send", "sent", "failed"}
Flow(stage, attempt, inval, tok, gen) ==
  [stage |-> stage, attempt |-> attempt, inval |-> inval, tok |-> tok, gen |-> gen]
NoFlow == Flow("none", 0, 0, Nothing, NoGeneration)

ReplyErrors == {"temporary", "permanent", "already", "expired", "unrecoverable"}
SubscribeReplies == ReplyErrors \cup {"ok"}
SubscribeErrors == ReplyErrors \cup {"gone", "timeout"}
Outcomes == SubscribeErrors \cup {"ok"}
UnsubscribeReplies == {"unsubscribed", "unsubscribeError"}
Pushes == {"pushUnsubscribe", "pushResubscribe", "pushInvalidate"}
TaskKinds == {"subscribe", "resubscribe", "closed", "invalidate"} \cup Outcomes \cup Pushes

\* What runs on the reader of a session holds up the next reply and push.
Task(kind, attempt, gen, by) ==
  [kind |-> kind, attempt |-> attempt, gen |-> gen, by |-> by]
Resubscribe(by) == Task("resubscribe", 0, connGeneration, by)

\* The server did not end the session with code 3014.
Invalidating(t) == t.kind = "invalidate" /\ t.gen = connGeneration
Online ==
  link = "up" /\ "invalidated" \notin due /\ ~ \E t \in tasks : Invalidating(t)

\* A reply is "orphan" when the request it answers timed out.
Message(kind, request) == [kind |-> kind, request |-> request]

Init ==
  /\ link = "down" /\ connGeneration = 1 /\ sweep = FALSE /\ due = {}
  /\ sstate = "unsubscribed" /\ subscribeAttempt = 0 /\ invalidations = 0
  /\ inflight = FALSE /\ timer = FALSE
  /\ token \in {Nothing, 1} /\ recover = FALSE /\ position = Nothing
  /\ flow = NoFlow /\ tasks = {}
  /\ toServer = <<>> /\ toClient = <<>> /\ serverSub = FALSE /\ unsubs = 0
  /\ history = {} /\ calls = 0 /\ faults = 0

ApplicationCalls == calls < MaxCalls /\ calls' = calls + 1 /\ UNCHANGED faults
Fault == faults < MaxFaults /\ faults' = faults + 1 /\ UNCHANGED calls
NoFault == UNCHANGED budget

------------------------------------------------------------------------------
(* Variants of the definitions below with a bug planted; used to check that *)
(* the properties notice it.                                                *)

FaultyEndFlow == UNCHANGED inflight /\ flow' = NoFlow
FaultyScheduleResubscribe == UNCHANGED timer
FaultyOutdated == subscribeAttempt # flow.attempt
FaultySameAttempt(t) == TRUE
FaultySendUnsubscribe == UNCHANGED <<toServer, unsubs, due>>

------------------------------------------------------------------------------
(* Parts of several actions                                                 *)

\* moveToUnsubscribedLocked
MoveToUnsubscribed ==
  /\ sstate' = "unsubscribed"
  /\ subscribeAttempt' = subscribeAttempt + 1
  /\ timer' = FALSE

\* moveToSubscribingLocked
MoveToSubscribing ==
  IF sstate = "unsubscribed"
  THEN UNCHANGED <<sstate, timer>>
  ELSE sstate' = "subscribing" /\ timer' = FALSE

\* scheduleResubscribe
ScheduleResubscribe == timer' = TRUE

\* invalidateState
InvalidateState ==
  /\ token' = IF HasGetToken THEN Nothing ELSE token
  /\ invalidations' = invalidations + 1
  /\ position' = Nothing

\* sendUnsubscribeLocked: nothing when not connected; without a transport the
\* send fails and reports a disconnect tied to no transport.
SendUnsubscribe ==
  /\ IF link = "up"
     THEN toServer' = Append(toServer, Message("unsubscribe", "live")) /\ unsubs' = unsubs + 1
     ELSE UNCHANGED <<toServer, unsubs>>
  /\ due' = IF link = "dropped" THEN due \cup {"untied"} ELSE due

DontSend == UNCHANGED <<toServer, unsubs, due>>

\* The flow ends without a subscribe in flight.
EndFlow == inflight' = FALSE /\ flow' = NoFlow

\* The subscribe flow was overtaken by Unsubscribe and Subscribe, or by an
\* invalidation.
Outdated == subscribeAttempt # flow.attempt \/ invalidations # flow.inval

\* lockCurrentSubscribe, lockCurrentAttempt
IsCurrent(t) ==
  /\ sstate = "subscribing" /\ subscribeAttempt = t.attempt
  /\ t.gen \in {NoGeneration, connGeneration}

IsPermanent(kind) ==
  kind \in {"permanent", "already"} \/ (kind = "unrecoverable" /\ ~HasGetState)

\* A push is applied after the session it came in ended; inflight is read between
\* its reset by a subscribe callback and the lock hold that applies the outcome.
PushRace(t) == IF t.gen # connGeneration THEN {"stalePush"} ELSE {}
InflightRace ==
  IF ~inflight /\ \E t \in tasks : t.kind \in Outcomes /\ t.gen = connGeneration
  THEN {"outcomePending"} ELSE {}

ReaderBusy == \E t \in tasks : t.by = "reader" /\ t.gen = connGeneration

------------------------------------------------------------------------------
(* The client                                                               *)

\* The connect callback sets the connected state ...
Connects ==
  /\ link = "down"
  /\ link' = "up" /\ sweep' = TRUE
  /\ NoFault
  /\ UNCHANGED <<connGeneration, due, subVars, inflight, flow, tasks, netVars, history>>

\* ... and calls resubscribe() after the event handlers.
Sweeps ==
  /\ link = "up" /\ sweep
  /\ sweep' = FALSE
  /\ tasks' = tasks \cup {Resubscribe("reader")}
  /\ NoFault
  /\ UNCHANGED <<link, connGeneration, due, subVars, inflight, flow, netVars, history>>

\* A teardown starts: the transport is closed and reset.  Commands that were
\* not read by the server are lost, and with the session the subscription.
Teardown ==
  /\ link = "up"
  /\ link' = "dropped" /\ sweep' = FALSE
  /\ toServer' = <<>> /\ serverSub' = FALSE
  /\ UNCHANGED <<connGeneration, subVars, inflight, flow, tasks, toClient, unsubs, history>>

LinkFails == Fault /\ Teardown /\ UNCHANGED due

\* A disconnect report; one that is tied to no transport acts on any session.
ReportTearsDown(r) == r \in due /\ NoFault /\ Teardown /\ due' = due \ {r}

\* A report when the client is connecting or closed does nothing.
ReportIgnored(r) ==
  /\ r \in due /\ link \in {"down", "closed"}
  /\ due' = due \ {r}
  /\ NoFault
  /\ UNCHANGED <<clientVars, subVars, inflight, flow, tasks, netVars, history>>

\* No request is left for a reply that comes later.
RepliesAfterClear == <<>>

FailedFlow == Flow("failed", flow.attempt, flow.inval, flow.tok, flow.gen)

\* clearConnectedState fails the requests: the callback of a subscribe runs
\* later in its own goroutine, that of an unsubscribe reports a disconnect.
FailRequests ==
  /\ connGeneration' = connGeneration + 1
  /\ flow' = IF flow.stage = "sent" THEN FailedFlow ELSE flow
  /\ unsubs' = 0
  /\ toClient' = RepliesAfterClear
  /\ due' = (due \cap {"untied"}) \cup (IF unsubs > 0 THEN {"untied"} ELSE {})

SessionEnds ==
  /\ link = "dropped"
  /\ link' = "torn"
  /\ FailRequests
  /\ NoFault
  /\ UNCHANGED <<sweep, subVars, inflight, tasks, toServer, serverSub, history>>

TeardownDone ==
  /\ link = "torn"
  /\ link' = "down"
  /\ MoveToSubscribing
  /\ NoFault
  /\ UNCHANGED <<connGeneration, sweep, due, subscribeAttempt, invalidations, token,
                 recover, position, inflight, flow, tasks, netVars, history>>

\* moveToClosed: the subscription is unsubscribed in a later lock hold.
Close ==
  /\ ApplicationCalls
  /\ link \in {"up", "down"}
  /\ link' = "closed" /\ sweep' = FALSE
  /\ FailRequests
  /\ toServer' = <<>> /\ serverSub' = FALSE
  /\ tasks' = IF sstate = "unsubscribed" THEN tasks
              ELSE tasks \cup {Task("closed", 0, NoGeneration, "goroutine")}
  /\ UNCHANGED <<subVars, inflight, history>>

\* The server ends the session with code 3014, after all it sent.  The disconnect
\* is checked to be about the transport in use, then invalidateConnectionState
\* runs, and then the session is torn down if it is still the same.
ConnectionInvalidated ==
  /\ Fault
  /\ Online /\ toClient = <<>> /\ ~ReaderBusy
  /\ tasks' = tasks \cup {Task("invalidate", 0, connGeneration, "goroutine")}
  /\ UNCHANGED <<clientVars, due, subVars, inflight, flow, netVars, history>>

Invalidates(t) ==
  /\ t.kind = "invalidate"
  /\ tasks' = tasks \ {t}
  /\ InvalidateState
  /\ due' = IF Invalidating(t) THEN due \cup {"invalidated"} ELSE due
  /\ NoFault
  /\ UNCHANGED <<clientVars, sstate, subscribeAttempt, timer, recover, inflight, flow,
                 netVars, history>>

------------------------------------------------------------------------------
(* Application calls                                                        *)

\* Subscribe after its check that the client is not closed.
SubscribeCalled ==
  /\ ApplicationCalls
  /\ link \notin {"closed", "dropped", "torn"}
  /\ tasks' = tasks \cup {Task("subscribe", 0, NoGeneration, "goroutine")}
  /\ UNCHANGED <<clientVars, due, subVars, inflight, flow, netVars, history>>

Subscribe(t) ==
  /\ t.kind = "subscribe"
  /\ IF sstate = "unsubscribed"
     THEN /\ sstate' = "subscribing"
          /\ tasks' = (tasks \ {t}) \cup {Resubscribe("goroutine")}
     ELSE tasks' = tasks \ {t} /\ UNCHANGED sstate
  /\ NoFault
  /\ UNCHANGED <<clientVars, due, subscribeAttempt, invalidations, timer, token, recover,
                 position, inflight, flow, netVars, history>>

Unsubscribe ==
  /\ ApplicationCalls
  /\ link # "closed"
  /\ IF sstate # "unsubscribed" THEN SendUnsubscribe ELSE DontSend
  /\ MoveToUnsubscribed
  /\ UNCHANGED <<clientVars, invalidations, token, recover, position, inflight, flow,
                 tasks, toClient, serverSub, history>>

ClosedUnsubscribes(t) ==
  /\ t.kind = "closed"
  /\ tasks' = tasks \ {t}
  /\ MoveToUnsubscribed
  /\ NoFault
  /\ UNCHANGED <<clientVars, due, invalidations, token, recover, position, inflight,
                 flow, netVars, history>>

------------------------------------------------------------------------------
(* The subscribe flow                                                       *)

\* The timer function; Stop does not stop one that fired already.
TimerFires ==
  /\ timer
  /\ timer' = FALSE
  /\ tasks' = tasks \cup {Resubscribe("goroutine")}
  /\ NoFault
  /\ UNCHANGED <<clientVars, due, sstate, subscribeAttempt, invalidations, token,
                 recover, position, inflight, flow, netVars, history>>

\* resubscribe: one flow at a time, and only while connected.
ResubscribeStarts(t) ==
  /\ t.kind = "resubscribe"
  /\ tasks' = tasks \ {t}
  /\ IF sstate = "subscribing" /\ ~inflight /\ Connected
     THEN /\ inflight' = TRUE
          /\ flow' = Flow(IF HasGetState /\ ~recover THEN "getState" ELSE "continue",
                          0, 0, Nothing, NoGeneration)
          /\ history' = history \cup InflightRace
     ELSE UNCHANGED <<inflight, flow, history>>
  /\ NoFault
  /\ UNCHANGED <<clientVars, due, subVars, netVars>>

\* getStateAndResubscribe up to the call of GetState.
GetStateStarts ==
  /\ flow.stage = "getState"
  /\ flow' = Flow("gotState", subscribeAttempt, invalidations, Nothing, NoGeneration)
  /\ NoFault
  /\ UNCHANGED <<clientVars, due, subVars, inflight, tasks, netVars, history>>

\* The result of GetState or GetToken is not used: nobody wants it, or it is
\* outdated and asked for again.
ResultDropped ==
  /\ flow.stage \in {"gotState", "getToken", "send"}
  /\ sstate # "subscribing" \/ Outdated
  /\ EndFlow
  /\ tasks' = IF sstate = "subscribing" THEN tasks \cup {Resubscribe("goroutine")} ELSE tasks
  /\ NoFault
  /\ UNCHANGED <<clientVars, due, subVars, netVars, history>>

ResultWanted == sstate = "subscribing" /\ ~Outdated

GetStateReturns ==
  /\ flow.stage = "gotState" /\ ResultWanted
  /\ recover' = TRUE
  /\ position' = flow.inval + 1
  /\ flow' = Flow("continue", 0, 0, Nothing, NoGeneration)
  /\ NoFault
  /\ UNCHANGED <<clientVars, due, sstate, subscribeAttempt, invalidations, timer, token,
                 inflight, tasks, netVars, history>>

\* continueResubscribe up to the call of GetToken, if it is needed.
ContinueResubscribe ==
  /\ flow.stage = "continue"
  /\ flow' = Flow(IF token = Nothing /\ HasGetToken THEN "getToken" ELSE "send",
                  subscribeAttempt, invalidations, token, NoGeneration)
  /\ NoFault
  /\ UNCHANGED <<clientVars, due, subVars, inflight, tasks, netVars, history>>

\* GetToken returns a token issued after it was called.
GetTokenReturns ==
  /\ flow.stage = "getToken" /\ ResultWanted
  /\ token' = flow.inval + 1
  /\ flow' = Flow("send", flow.attempt, flow.inval, flow.inval + 1, NoGeneration)
  /\ NoFault
  /\ UNCHANGED <<clientVars, due, sstate, subscribeAttempt, invalidations, timer, recover,
                 position, inflight, tasks, netVars, history>>

\* GetState or GetToken returns an error: the flow ends, then the error is
\* reported and a new attempt scheduled.
GetFails ==
  /\ flow.stage \in {"gotState", "getToken"} /\ ResultWanted
  /\ Fault
  /\ EndFlow
  /\ tasks' = tasks \cup {Task("temporary", flow.attempt, NoGeneration, "goroutine")}
  /\ UNCHANGED <<clientVars, due, subVars, netVars, history>>

\* ErrUnauthorized or an empty token.
GetTokenUnauthorized ==
  /\ flow.stage = "getToken" /\ ResultWanted
  /\ Fault
  /\ EndFlow
  /\ MoveToUnsubscribed
  /\ UNCHANGED <<clientVars, due, invalidations, token, recover, position, tasks, netVars,
                 history>>

\* The last lock hold of continueResubscribe.
SendSubscribe ==
  /\ flow.stage = "send" /\ ResultWanted /\ link = "up"
  /\ flow' = Flow("sent", flow.attempt, flow.inval, flow.tok, connGeneration)
  /\ toServer' = Append(toServer, Message("subscribe", "live"))
  /\ NoFault
  /\ UNCHANGED <<clientVars, due, subVars, inflight, tasks, toClient, serverSub, unsubs,
                 history>>

\* The connect will resubscribe.
SendNotConnected ==
  /\ flow.stage = "send" /\ ResultWanted /\ ~Connected
  /\ EndFlow
  /\ NoFault
  /\ UNCHANGED <<clientVars, due, subVars, tasks, netVars, history>>

\* The write fails, which is reported as a disconnect, or there is no transport.
SendFails ==
  /\ flow.stage = "send" /\ ResultWanted /\ Connected
  /\ IF link = "up" THEN Fault /\ due' = due \cup {"tied"} ELSE NoFault /\ UNCHANGED due
  /\ EndFlow
  /\ ScheduleResubscribe
  /\ UNCHANGED <<clientVars, sstate, subscribeAttempt, invalidations, token, recover,
                 position, tasks, netVars, history>>

\* The callback of a request failed by clearConnectedState.
RequestFailed ==
  /\ flow.stage = "failed"
  /\ EndFlow
  /\ tasks' = tasks \cup {Task("gone", flow.attempt, flow.gen, "goroutine")}
  /\ NoFault
  /\ UNCHANGED <<clientVars, due, subVars, netVars, history>>

\* ReadTimeout: the reply, when it comes, finds no request.
Orphaned(q, which) ==
  [i \in 1..Len(q) |-> IF i \in which THEN Message(q[i].kind, "orphan") ELSE q[i]]
Requests(q, kinds) == {i \in 1..Len(q) : q[i].kind \in kinds /\ q[i].request = "live"}

RequestTimeout ==
  /\ flow.stage = "sent"
  /\ Fault
  /\ EndFlow
  /\ tasks' = tasks \cup {Task("timeout", flow.attempt, flow.gen, "goroutine")}
  /\ toServer' = Orphaned(toServer, Requests(toServer, {"subscribe"}))
  /\ toClient' = Orphaned(toClient, Requests(toClient, SubscribeReplies))
  /\ UNCHANGED <<clientVars, due, subVars, serverSub, unsubs, history>>

\* The same for an unsubscribe, a failure of which makes the client reconnect.
UnsubscribeTimeout ==
  /\ Fault
  /\ \/ \E i \in Requests(toServer, {"unsubscribe"}) :
          toServer' = Orphaned(toServer, {i}) /\ UNCHANGED toClient
     \/ \E i \in Requests(toClient, UnsubscribeReplies) :
          toClient' = Orphaned(toClient, {i}) /\ UNCHANGED toServer
  /\ unsubs' = unsubs - 1
  /\ due' = due \cup {"untied"}
  /\ UNCHANGED <<clientVars, subVars, inflight, flow, tasks, serverSub, history>>

------------------------------------------------------------------------------
(* Replies and pushes                                                       *)

Received(m) == toClient # <<>> /\ Head(toClient) = m /\ toClient' = Tail(toClient)

\* handle pops the request, whose callback first resets inflight.
SubscribeReplied(kind) ==
  /\ link \in {"up", "dropped"} /\ ~ReaderBusy
  /\ Received(Message(kind, "live"))
  /\ flow.stage = "sent"
  /\ EndFlow
  /\ tasks' = tasks \cup {Task(kind, flow.attempt, flow.gen, "reader")}
  /\ NoFault
  /\ UNCHANGED <<clientVars, due, subVars, toServer, serverSub, unsubs, history>>

\* handle: a reply without its result ends the connection, then the callback runs
\* as for a request that failed.
MalformedReply ==
  /\ link = "up" /\ ~ReaderBusy
  /\ Fault
  /\ Received(Message("ok", "live"))
  /\ flow.stage = "sent"
  /\ flow' = FailedFlow
  /\ link' = "dropped" /\ sweep' = FALSE
  /\ toServer' = <<>> /\ serverSub' = FALSE
  /\ UNCHANGED <<connGeneration, due, subVars, inflight, tasks, unsubs, history>>

LateReply(kind) ==
  /\ ~ReaderBusy
  /\ Received(Message(kind, "orphan"))
  /\ NoFault
  /\ UNCHANGED <<clientVars, due, subVars, inflight, flow, tasks, toServer, serverSub,
                 unsubs, history>>

\* A failed unsubscribe makes the client reconnect.
UnsubscribeReplied(kind) ==
  /\ ~ReaderBusy
  /\ Received(Message(kind, "live"))
  /\ unsubs' = unsubs - 1
  /\ due' = IF kind = "unsubscribeError" THEN due \cup {"untied"} ELSE due
  /\ NoFault
  /\ UNCHANGED <<clientVars, subVars, inflight, flow, tasks, toServer, serverSub, history>>

\* handle checks that the push came on the current transport, and releases c.mu.
PushReceived(kind) ==
  /\ link = "up" /\ ~ReaderBusy
  /\ Received(Message(kind, "live"))
  /\ tasks' = tasks \cup {Task(kind, 0, connGeneration, "reader")}
  /\ NoFault
  /\ UNCHANGED <<clientVars, due, subVars, inflight, flow, toServer, serverSub, unsubs,
                 history>>

\* handleUnsubscribe with a code below 2500.
PushUnsubscribes(t) ==
  /\ t.kind = "pushUnsubscribe"
  /\ tasks' = tasks \ {t}
  /\ IF inflight THEN SendUnsubscribe ELSE DontSend
  /\ MoveToUnsubscribed
  /\ history' = history \cup PushRace(t) \cup InflightRace
  /\ NoFault
  /\ UNCHANGED <<clientVars, invalidations, token, recover, position, inflight, flow,
                 toClient, serverSub>>

\* Code 2502: invalidateState comes first.
PushInvalidates(t) ==
  /\ t.kind = "pushInvalidate"
  /\ tasks' = (tasks \ {t}) \cup {Task("pushResubscribe", 0, t.gen, t.by)}
  /\ InvalidateState
  /\ NoFault
  /\ UNCHANGED <<clientVars, due, sstate, subscribeAttempt, timer, recover, inflight, flow,
                 netVars, history>>

\* Any other code: move to subscribing, then resubscribe.
PushResubscribes(t) ==
  /\ t.kind = "pushResubscribe"
  /\ tasks' = (tasks \ {t}) \cup {Task("resubscribe", 0, t.gen, t.by)}
  /\ MoveToSubscribing
  /\ history' = history \cup PushRace(t)
  /\ NoFault
  /\ UNCHANGED <<clientVars, due, subscribeAttempt, invalidations, token, recover,
                 position, inflight, flow, netVars>>

\* The reply belongs to this Subscribe call, and to the session in progress.
SameAttempt(t) == subscribeAttempt = t.attempt
SameSession(t) == t.gen = connGeneration

\* moveToSubscribed.  A reply without an epoch leaves the position alone.
MoveToSubscribed(t) ==
  /\ t.kind = "ok"
  /\ tasks' = IF sstate = "subscribing" /\ ~SameAttempt(t)
              THEN (tasks \ {t}) \cup {Task("resubscribe", 0, t.gen, t.by)}
              ELSE tasks \ {t}
  /\ IF sstate # "subscribing" \/ ~SameAttempt(t)
     THEN UNCHANGED <<sstate, timer, recover, position>>
     ELSE IF ~SameSession(t)
     THEN ScheduleResubscribe /\ UNCHANGED <<sstate, recover, position>>
     ELSE /\ sstate' = "subscribed"
          /\ timer' = FALSE
          /\ recover' \in {recover, TRUE}
          /\ position' \in {position, Newest}
  /\ NoFault
  /\ UNCHANGED <<clientVars, due, subscribeAttempt, invalidations, token, inflight, flow,
                 netVars, history>>

\* moveToSubscribed when a recovered publication has a broken delta: the client
\* is moved to disconnected, whatever its session is by then.
DeltaFailed(t) ==
  /\ t.kind = "ok" /\ sstate = "subscribing" /\ SameAttempt(t) /\ SameSession(t)
  /\ Fault
  /\ tasks' = tasks \ {t}
  /\ due' = due \cup {"untied"}
  /\ UNCHANGED <<clientVars, subVars, inflight, flow, netVars, history>>

\* subscribeError for an attempt or a session that is over.
ErrorOutdated(t) ==
  /\ t.kind \in SubscribeErrors /\ ~IsCurrent(t)
  /\ tasks' = IF sstate = "subscribing"
              THEN (tasks \ {t}) \cup {Task("resubscribe", 0, t.gen, t.by)}
              ELSE tasks \ {t}
  /\ NoFault
  /\ UNCHANGED <<clientVars, due, subVars, inflight, flow, netVars, history>>

SubscribeError(t) ==
  /\ t.kind \in SubscribeErrors /\ IsCurrent(t)
  /\ tasks' = tasks \ {t}
  /\ due' = IF t.kind = "timeout" THEN due \cup {"untied"} ELSE due
  /\ IF t.kind = "timeout"
     THEN UNCHANGED <<sstate, subscribeAttempt, timer>>
     ELSE IF IsPermanent(t.kind)
     THEN MoveToUnsubscribed
     ELSE ScheduleResubscribe /\ UNCHANGED <<sstate, subscribeAttempt>>
  /\ token' = IF t.kind = "expired" THEN Nothing ELSE token
  /\ IF t.kind = "unrecoverable" /\ HasGetState
     THEN recover' = FALSE /\ position' = Nothing
     ELSE UNCHANGED <<recover, position>>
  /\ NoFault
  /\ UNCHANGED <<clientVars, invalidations, inflight, flow, netVars, history>>

------------------------------------------------------------------------------
(* The server, as far as this subscription sees it                          *)

ServerTakes(kind) ==
  /\ Online
  /\ toServer # <<>> /\ Head(toServer).kind = kind
  /\ toServer' = Tail(toServer)
  /\ UNCHANGED <<clientVars, due, subVars, inflight, flow, tasks, unsubs, history>>

ServerSubscribes ==
  /\ ServerTakes("subscribe")
  /\ serverSub' = TRUE
  /\ toClient' = Append(toClient, Message(IF serverSub THEN "already" ELSE "ok",
                                          Head(toServer).request))
  /\ NoFault

ServerRejects(kind) ==
  /\ ServerTakes("subscribe")
  /\ Fault
  /\ ~serverSub /\ kind # "already"
  /\ toClient' = Append(toClient, Message(kind, Head(toServer).request))
  /\ UNCHANGED serverSub

ServerUnsubscribes ==
  /\ ServerTakes("unsubscribe")
  /\ serverSub' = FALSE
  /\ toClient' = Append(toClient, Message("unsubscribed", Head(toServer).request))
  /\ NoFault

ServerKeeps ==
  /\ ServerTakes("unsubscribe")
  /\ Fault
  /\ toClient' = Append(toClient, Message("unsubscribeError", Head(toServer).request))
  /\ UNCHANGED serverSub

ServerPushes(kind) ==
  /\ Online /\ serverSub
  /\ Fault
  /\ serverSub' = FALSE
  /\ toClient' = Append(toClient, Message(kind, "live"))
  /\ UNCHANGED <<clientVars, due, subVars, inflight, flow, tasks, toServer, unsubs, history>>

------------------------------------------------------------------------------

Application == SubscribeCalled \/ Unsubscribe \/ Close

Failure ==
  \/ LinkFails \/ ConnectionInvalidated \/ ServerKeeps \/ RequestTimeout
  \/ UnsubscribeTimeout \/ MalformedReply
  \/ \E kind \in ReplyErrors : ServerRejects(kind)
  \/ \E kind \in Pushes : ServerPushes(kind)

Client ==
  \/ Connects \/ Sweeps \/ SessionEnds \/ TeardownDone
  \/ \E r \in Reports : ReportTearsDown(r) \/ ReportIgnored(r)

SubscribeFlow ==
  \/ GetStateStarts \/ ResultDropped \/ GetStateReturns \/ ContinueResubscribe
  \/ GetTokenReturns \/ GetFails \/ GetTokenUnauthorized
  \/ SendSubscribe \/ SendNotConnected \/ SendFails \/ RequestFailed

Reader ==
  \/ \E kind \in SubscribeReplies : SubscribeReplied(kind)
  \/ \E kind \in UnsubscribeReplies : UnsubscribeReplied(kind)
  \/ \E kind \in SubscribeReplies \cup UnsubscribeReplies : LateReply(kind)
  \/ \E kind \in Pushes : PushReceived(kind)

Run(t) ==
  \/ Invalidates(t) \/ Subscribe(t) \/ ClosedUnsubscribes(t) \/ ResubscribeStarts(t)
  \/ MoveToSubscribed(t) \/ DeltaFailed(t) \/ ErrorOutdated(t) \/ SubscribeError(t)
  \/ PushUnsubscribes(t) \/ PushInvalidates(t) \/ PushResubscribes(t)

Server == ServerSubscribes \/ ServerUnsubscribes

Next ==
  \/ Application \/ Failure \/ Client \/ SubscribeFlow \/ Reader \/ TimerFires \/ Server
  \/ \E t \in tasks : Run(t)

Spec == Init /\ [][Next]_vars

\* The client reconnects, the server answers, GetToken and GetState return, and
\* the Go scheduler runs every goroutine.  The application never has to call.
Fairness ==
  /\ WF_vars(Client) /\ WF_vars(SubscribeFlow) /\ WF_vars(Reader) /\ WF_vars(TimerFires)
  /\ WF_vars(Server) /\ WF_vars(\E t \in tasks : Run(t))

LiveSpec == Spec /\ Fairness

------------------------------------------------------------------------------
(* Properties *)

TypeOK ==
  /\ link \in Links /\ connGeneration \in Nat \ {0} /\ sweep \in BOOLEAN
  /\ due \subseteq Reports
  /\ sstate \in {"unsubscribed", "subscribing", "subscribed"}
  /\ subscribeAttempt \in Nat /\ invalidations \in Nat
  /\ inflight \in BOOLEAN /\ timer \in BOOLEAN /\ recover \in BOOLEAN
  /\ token \in Nat /\ position \in Nat
  /\ flow \in [stage : Stages, attempt : Nat, inval : Nat, tok : Nat, gen : Nat]
  /\ tasks \subseteq [kind : TaskKinds, attempt : Nat, gen : Nat,
                      by : {"reader", "goroutine"}]
  /\ serverSub \in BOOLEAN /\ unsubs \in Nat
  /\ history \subseteq {"stalePush", "outcomePending"} /\ calls \in Nat /\ faults \in Nat

\* A subscription that is subscribing on a connected client is never stranded:
\* the connect callback, the timer, a subscribe flow or a call in progress will
\* send a subscribe, or the session is about to end and the next one will.  In
\* particular every early return of the flow resets inflight.
SubscribingHasWork ==
  sstate = "subscribing" /\ Connected =>
    \/ sweep \/ timer \/ flow.stage # "none" \/ due # {} \/ link = "dropped"
    \/ \E t \in tasks : Invalidating(t) \/ t.kind \notin {"subscribe", "invalidate"}

\* A subscription is subscribed only in a session: a reply that is applied late
\* does not survive the teardown of its session.
SubscribedHasSession == sstate = "subscribed" => link # "down"

\* Nothing is on its way between the application, the client and the server.
Settled ==
  /\ link = "up" /\ ~sweep /\ ~timer /\ due = {} /\ flow.stage = "none"
  /\ tasks = {} /\ toServer = <<>> /\ toClient = <<>>

Agreement == serverSub <=> sstate = "subscribed"

\* When all is settled the server has the subscription exactly if the client
\* says subscribed, whatever calls, errors, pushes and reconnects came before,
\* the two races named in history excepted.
ServerAgrees == Settled /\ history = {} => Agreement

\* "a Subscribe right after [...] then sends its subscribe after it, instead of
\* before it, which the server rejects with 105 (already subscribed)"
\* (sendUnsubscribeLocked): no subscribe meets an older subscription, the two
\* races excepted, unless the session is about to end (a timeout, a failed
\* unsubscribe).
NeverAlreadySubscribed ==
  link = "up" /\ due = {} /\ history = {} /\ toClient # <<>> =>
    Head(toClient).kind # "already"

\* A subscribe carries a token and a position obtained after the last state
\* invalidation: what GetToken and GetState returned before it is not used.
NothingStaleSent ==
  [][flow.stage = "send" /\ flow'.stage = "sent" =>
       /\ HasGetToken => flow.tok = Newest
       /\ recover => position \in {Nothing, Newest}]_vars

\* While failures are finite and the client connects, subscribing ends.
SubscribingEnds ==
  (sstate = "subscribing") ~> (sstate # "subscribing" \/ link = "closed")

\* "it keeps a subscription the client doesn't track" (client_test.go,
\* handleUnsubscribe) is an error there: it does not happen, whatever runs
\* between the reset of inflight and the lock hold that applies the outcome.
NothingUntracked ==
  Settled /\ "stalePush" \notin history /\ sstate = "unsubscribed" => ~serverSub

\* "Callbacks of the old attempt or transport must not act on the client's
\* current connection" (client_reconnect_test.go): a push read before a reconnect
\* and applied after it leaves client and server in agreement.
StalePushHarmless == Settled /\ "outcomePending" \notin history => Agreement
==============================================================================
