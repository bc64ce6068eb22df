----------------------------- MODULE LockOrder -----------------------------
(***************************************************************************)
(* Who waits for whom.  The client lock c.mu, a lock s.mu for each         *)
(* subscription, the callback queue whose dispatcher runs the handlers of  *)
(* the application, and the reader, which Close waits for, are shared by   *)
(* the goroutines of the client and of the application.                    *)
(*                                                                         *)
(* A goroutine runs a path: what a function locks, queues and waits for,   *)
(* in the order of the code, with a possible return wherever the code has  *)
(* one.  What the function decides is left out, so every outcome of a      *)
(* check is possible.  A read lock is held only across a check, so it is   *)
(* taken as a lock; the locks around one map, pointer or write are never   *)
(* held across another and are left out, as is waiting with a deadline.    *)
(***************************************************************************)
EXTENDS Integers, Sequences, FiniteSetsExt

CONSTANTS
  c,           \* the client: its lock, and an event that only runs a handler
  Subs,        \* subscriptions: their locks, and events that lock them first
  Apps,        \* goroutines of the application
  Background,  \* goroutines the client starts: timers, callbacks of requests, futures
  dispatcher,  \* the goroutine of the callback queue
  reader,      \* the goroutine reading the transport
  Nobody,      \* holds no lock
  MaxCalls,    \* bound: calls of the application, from anywhere
  MaxOthers    \* bound: messages read and background goroutines started

ASSUME LockBounds == MaxCalls \in Nat /\ MaxOthers \in Nat
ASSUME LockNames == c \notin Subs /\ dispatcher # reader

VARIABLES
  todo,     \* the rest of the path of each goroutine
  holder,   \* of each lock
  queue,    \* events not finished, the first one may be running; Closing at the end
  last,     \* position in queue of the last event a goroutine queued, 0: it ran
  closing,  \* the queue is closed: it refuses events
  ended,    \* of the dispatcher and the reader, those that ended
  closed,   \* Close was called
  calls, others

vars == <<todo, holder, queue, last, closing, ended, closed, calls, others>>

Goroutines == Apps \cup Background \cup {dispatcher, reader}
Closing == <<>>

Init ==
  /\ todo = [g \in Goroutines |-> <<>>]
  /\ holder = [m \in {c} \cup Subs |-> Nobody]
  /\ queue = <<>> /\ last = [g \in Goroutines |-> 0] /\ closing = FALSE
  /\ ended = {} /\ closed = FALSE
  /\ calls = 0 /\ others = 0

------------------------------------------------------------------------------
(* What paths are made of                                                   *)

Op(do, on) == <<[do |-> do, on |-> on, events |-> <<>>]>>

Lock(m) == Op("lock", m)
Unlock(m) == Op("unlock", m)
LockOrReturn(m) == Op("lockOrReturn", m)  \* what is checked under the lock may end the function
Section(m) == Op("section", m)            \* locked and unlocked, nothing that blocks between
Check(m) == Op("check", m)                \* the same, and the function may end
Push(e) == <<[do |-> "push", on |-> c, events |-> <<e>>]>>
Wait == Op("wait", c)
Application == Op("application", c)       \* a handler: calls the client or not
Func(body) == body \o Op("return", c)

\* op queues the events, in its lock hold (queueEvent).
Queueing(op, events) == <<[op[1] EXCEPT !.events = events]>>
Event == <<c>>

ForSubs(path(_)) == FoldSet(LAMBDA s, rest: path(s) \o rest, <<>>, Subs)

\* Planted bugs, as in the other modules.
FaultyInDispatch(g) == FALSE

InDispatch(g) == g = dispatcher

WaitEvent(g) == IF InDispatch(g) THEN <<>> ELSE Wait

RunHandlerSync == Func(Check(c) \o Push(c) \o Wait)
RunHandlerAsync == Func(Check(c) \o Push(c))

\* runHandlerSyncReentrant, for the errors of the client.
HandleError(g) == Func(Section(c) \o IF InDispatch(g) THEN RunHandlerAsync ELSE RunHandlerSync)

\* For the errors of a subscription: never on the dispatcher.
EmitError(s) == RunHandlerSync

\* Each future runs on a goroutine of its own.
ResolveSubFutures == <<>>

------------------------------------------------------------------------------
(* The functions of the client                                              *)

MoveToSubscribing(s) == Queueing(Section(s), Event)

MoveToDisconnected ==
  Func(LockOrReturn(c) \o ForSubs(MoveToSubscribing) \o Queueing(Unlock(c), Event))

MoveToConnecting(g) ==
  Func(LockOrReturn(c) \o ForSubs(MoveToSubscribing) \o Queueing(Unlock(c), Event)
       \o WaitEvent(g) \o Section(c))

Invalidate == Section(c) \o ForSubs(Section)

TransportDisconnect(g) ==
  {Func(Check(c) \o state \o move) :
     state \in {<<>>, Invalidate}, move \in {MoveToDisconnected, MoveToConnecting(g)}}

MoveToUnsubscribed(s) == Lock(s) \o ResolveSubFutures \o Queueing(Unlock(s), Event)

CloseQueue(g) == Op("closeQueue", c) \o IF InDispatch(g) THEN <<>> ELSE Op("waitClosed", c)

MoveToClosed(g) ==
  Func(Lock(c) \o ForSubs(Section) \o Unlock(c) \o ForSubs(MoveToUnsubscribed)
       \o RunHandlerAsync \o Section(c)
       \o (IF InDispatch(g) THEN <<>> ELSE Op("waitReader", c)) \o Section(c) \o CloseQueue(g))

\* Application: GetToken.
StartReconnecting(g) ==
  {Func(Check(c) \o Section(c) \o Application \o Check(c) \o opened) :
     opened \in {Section(c), HandleError(g) \o Section(c)}}

StartConnecting(g) ==
  {Func(Queueing(Check(c), Event) \o WaitEvent(g) \o connect) : connect \in StartReconnecting(g)}

\* A temporary and a final error, by whoever asked for the refresh or got its reply.
RefreshError(g) == {HandleError(g) \o Section(c), MoveToDisconnected}

Refresh(g) ==
  {Func(Check(c) \o Application \o Check(c) \o end) : end \in {Section(c)} \cup RefreshError(g)}
RefreshReply(g) == {Func(Check(c) \o end) : end \in {Section(c)} \cup RefreshError(g)}

\* handleServerPublication, handleServerJoin, ..., handleServerUnsub.
ServerEvent(g) == Func(Queueing(Check(c), Event) \o WaitEvent(g))

------------------------------------------------------------------------------
(* The functions of a subscription                                          *)

ContinueResubscribe(s) == Func(Section(s) \o Section(s))
Resubscribe(s) == Func(Check(s) \o ContinueResubscribe(s))

\* lockCurrentSubscribe fails, or not, after OnError.
SubscribeError(s) ==
  {Func(Section(s) \o Resubscribe(s))} \cup
  {Func(Section(s) \o EmitError(s) \o end) :
     end \in {MoveToUnsubscribed(s), Section(s), Section(s) \o Resubscribe(s)}}

\* With GetToken or GetState, on a goroutine of its own.
ResubscribeAsync(s) ==
  {Func(Section(s) \o Application \o Check(s) \o end) :
     end \in {MoveToUnsubscribed(s), Resubscribe(s), ContinueResubscribe(s)} \cup SubscribeError(s)}

\* A broken delta among the recovered publications.
DeltaFailed(g, s) == Func(Section(s) \o HandleError(g) \o MoveToDisconnected)

MoveToSubscribed(g, s) ==
  {Func(Section(s) \o Resubscribe(s)), DeltaFailed(g, s),
   Func(LockOrReturn(s) \o ResolveSubFutures \o Queueing(Unlock(s), <<c, s>>) \o WaitEvent(g))}

\* handlePublication, handleJoin, handleLeave.
HandlePublication(g, s) == {Func(Queueing(Check(s), Event) \o WaitEvent(g)), DeltaFailed(g, s)}

HandleUnsubscribe(s) ==
  {Func(MoveToUnsubscribed(s)), Func(Section(s) \o MoveToSubscribing(s) \o Resubscribe(s))}

SubRefreshError(s) == {EmitError(s) \o Section(s), EmitError(s) \o MoveToUnsubscribed(s)}

SubRefresh(s) ==
  {Func(Check(s) \o Application \o Check(s) \o end) : end \in {Section(s)} \cup SubRefreshError(s)}
SubRefreshReply(s) == {Func(Check(s) \o end) : end \in {Section(s)} \cup SubRefreshError(s)}

------------------------------------------------------------------------------
(* What each goroutine runs                                                 *)

ConnectReply(g) ==
  {Func(Check(c) \o HandleError(g) \o Check(c) \o end) :
     end \in {Section(c), MoveToDisconnected}} \cup
  {Func(Check(c) \o Queueing(Check(c), Event) \o WaitEvent(g)
        \o Queueing(Check(c), Event) \o WaitEvent(g)
        \o LockOrReturn(c) \o ForSubs(Resubscribe) \o Unlock(c))}

\* Callbacks of requests: by the reader, at the timeout, at the teardown.
Callbacks(g) == ConnectReply(g) \cup RefreshReply(g)
  \cup UNION {MoveToSubscribed(g, s) \cup SubscribeError(s) \cup SubRefreshReply(s) : s \in Subs}

Pushes(g) == {ServerEvent(g), RunHandlerSync} \cup TransportDisconnect(g)
  \cup UNION {HandlePublication(g, s) \cup HandleUnsubscribe(s) : s \in Subs}

Messages(g) ==
  Callbacks(g) \cup {MoveToDisconnected}
  \cup {Func(Check(c) \o Section(c) \o push) : push \in Pushes(g)}

\* Timers, callbacks, futures (c.onConnect, and the timeout of s.onSubscribe), go statements.
Starts(g) ==
  Callbacks(g) \cup Refresh(g) \cup StartReconnecting(g) \cup TransportDisconnect(g)
  \cup {Section(c)}
  \cup UNION {SubRefresh(s) \cup ResubscribeAsync(s)
                \cup {Section(s), Func(Check(s) \o Resubscribe(s))} : s \in Subs}

Subscribe(s) ==
  Func(Check(c) \o Check(c) \o Queueing(Check(s), Event) \o Check(c) \o Resubscribe(s))

\* State, Publish, History, SetToken, NewSubscription ...: a lock at a time.
Calls(g) == StartConnecting(g) \cup {MoveToDisconnected, Section(c)}
  \cup UNION {{Subscribe(s), Func(Check(c) \o MoveToUnsubscribed(s)), Func(Check(s) \o Section(s)),
               Func(Check(s) \o Section(c))} : s \in Subs}

------------------------------------------------------------------------------
(* Steps                                                                    *)

Returned(path) ==
  LET end == Min({i \in DOMAIN path : path[i].do = "return"}) IN SubSeq(path, end + 1, Len(path))

\* g goes on with path: functions with nothing left to do have returned.
Run(g, path) ==
  LET busy == {i \in DOMAIN path : path[i].do # "return"} IN
    todo' = [todo EXCEPT ![g] = IF busy = {} THEN <<>> ELSE SubSeq(path, Min(busy), Len(path))]

\* A planted bug, as above.
FaultyRefused == Len(queue) + 1
\* A closed queue does not run an event, and lets nobody wait for it.
Refused == 0

QueueEvents(g, events) ==
  /\ queue' = IF closing THEN queue ELSE queue \o events
  /\ last' = [last EXCEPT ![g] = CASE events = <<>> -> @
                                   [] closing -> Refused
                                   [] OTHER -> Len(queue) + Len(events)]

Acquire(g) == LET op == Head(todo[g]) IN
  /\ op.do \in {"lock", "lockOrReturn", "section", "check"}
  /\ holder[op.on] = Nobody
  /\ \/ /\ Run(g, Tail(todo[g])) /\ QueueEvents(g, op.events)
        /\ holder' = IF op.do \in {"lock", "lockOrReturn"}
                     THEN [holder EXCEPT ![op.on] = g] ELSE holder
     \/ /\ op.do \in {"lockOrReturn", "check"}
        /\ Run(g, Returned(todo[g])) /\ UNCHANGED <<holder, queue, last>>
  /\ UNCHANGED <<closing, ended, closed, calls, others>>

Release(g) == LET op == Head(todo[g]) IN
  /\ op.do = "unlock"
  /\ Run(g, Tail(todo[g])) /\ QueueEvents(g, op.events)
  /\ holder' = [holder EXCEPT ![op.on] = Nobody]
  /\ UNCHANGED <<closing, ended, closed, calls, others>>

\* push, with no lock but the queue's.
PushEvent(g) == LET op == Head(todo[g]) IN
  /\ op.do = "push"
  /\ Run(g, Tail(todo[g])) /\ QueueEvents(g, op.events)
  /\ UNCHANGED <<holder, closing, ended, closed, calls, others>>

\* pushOrClose of the end marker.
PushClose(g) ==
  /\ Head(todo[g]).do = "closeQueue"
  /\ Run(g, Tail(todo[g]))
  /\ queue' = IF closing THEN queue ELSE Append(queue, Closing)
  /\ closing' = TRUE
  /\ UNCHANGED <<holder, last, ended, closed, calls, others>>

Waiting(g) ==
  CASE Head(todo[g]).do = "wait" -> last[g] # 0
    [] Head(todo[g]).do = "waitReader" -> reader \notin ended
    [] Head(todo[g]).do = "waitClosed" -> dispatcher \notin ended

Waits == {"wait", "waitReader", "waitClosed"}

Waited(g) ==
  /\ Head(todo[g]).do \in Waits /\ ~Waiting(g)
  /\ Run(g, Tail(todo[g]))
  /\ UNCHANGED <<holder, queue, last, closing, ended, closed, calls, others>>

\* One call: Close returns at once when it was called before.
Call(g, rest) ==
  /\ calls < MaxCalls /\ calls' = calls + 1
  /\ \/ \E path \in Calls(g) : Run(g, path \o rest) /\ UNCHANGED closed
     \/ ~closed /\ closed' = TRUE /\ Run(g, MoveToClosed(g) \o rest)
  /\ UNCHANGED <<holder, queue, last, closing, ended, others>>

\* A handler does what it wants once, and returns.
RunApplication(g) ==
  /\ Head(todo[g]).do = "application"
  /\ \/ Call(g, Tail(todo[g]))
     \/ /\ Run(g, Tail(todo[g]))
        /\ UNCHANGED <<holder, queue, last, closing, ended, closed, calls, others>>

\* The event ran: whoever waits for it goes on.
Finish(g) ==
  /\ Head(todo[g]).do = "finish"
  /\ Run(g, Tail(todo[g]))
  /\ queue' = Tail(queue)
  /\ last' = [h \in Goroutines |-> IF last[h] = 0 THEN 0 ELSE last[h] - 1]
  /\ UNCHANGED <<holder, closing, ended, closed, calls, others>>

Step(g) ==
  /\ todo[g] # <<>>
  /\ \/ Acquire(g) \/ Release(g) \/ PushEvent(g) \/ PushClose(g) \/ Waited(g)
     \/ RunApplication(g) \/ Finish(g)

\* Recovered publications first check their subscription.
Handler(event) == Func(IF event \in Subs THEN Check(event) \o Application ELSE Application)

Dispatch ==
  /\ todo[dispatcher] = <<>> /\ queue # <<>> /\ dispatcher \notin ended
  /\ LET event == Head(queue) IN
       IF event = Closing
       THEN ended' = ended \cup {dispatcher} /\ UNCHANGED todo
       ELSE /\ Run(dispatcher, Handler(event) \o Op("finish", c))
            /\ UNCHANGED ended
  /\ UNCHANGED <<holder, queue, last, closing, closed, calls, others>>

Read ==
  /\ todo[reader] = <<>> /\ reader \notin ended
  /\ others < MaxOthers /\ others' = others + 1
  /\ \E path \in Messages(reader) : Run(reader, path)
  /\ UNCHANGED <<holder, queue, last, closing, ended, closed, calls>>

\* The transport is closed, here or by the server.
ReaderEnds ==
  /\ todo[reader] = <<>> /\ reader \notin ended
  /\ ended' = ended \cup {reader}
  /\ UNCHANGED <<todo, holder, queue, last, closing, closed, calls, others>>

Start(g) ==
  /\ todo[g] = <<>>
  /\ others < MaxOthers /\ others' = others + 1
  /\ \E path \in Starts(g) : Run(g, path)
  /\ UNCHANGED <<holder, queue, last, closing, ended, closed, calls>>

Next ==
  \/ \E g \in Goroutines : Step(g)
  \/ \E g \in Apps : todo[g] = <<>> /\ Call(g, <<>>)
  \/ \E g \in Background : Start(g)
  \/ Dispatch
  \/ Read
  \/ ReaderEnds

Spec == Init /\ [][Next]_vars

------------------------------------------------------------------------------
(* Properties                                                               *)

\* Whom a goroutine that cannot go on waits for; nobody, when it can.
WaitsFor(g) ==
  IF todo[g] = <<>> THEN {} ELSE LET op == Head(todo[g]) IN
    CASE op.do \in {"lock", "lockOrReturn", "section", "check"} -> {holder[op.on]} \ {Nobody}
      [] op.do \in {"wait", "waitClosed"} /\ Waiting(g) -> {dispatcher}
      [] op.do = "waitReader" /\ Waiting(g) -> {reader}
      [] OTHER -> {}

\* No goroutines wait for each other, nor one for itself: not the reader for a handler
\* that calls Close, not a handler for its own event, not a teardown for a subscription
\* whose lock holder needs the client's.
NoDeadlock ==
  \A group \in SUBSET Goroutines \ {{}} :
    \E g \in group : WaitsFor(g) = {} \/ ~WaitsFor(g) \subseteq group

\* What is waited for still comes: an event that the queue refused, because Close ended
\* it between the event's state change and the wait for it, would never run, and the end
\* of the queue comes only when it was asked for.
AwaitedComes ==
  \A g \in Goroutines : todo[g] # <<>> /\ Head(todo[g]).do \in Waits /\ Waiting(g) =>
    CASE Head(todo[g]).do = "wait" -> dispatcher \notin ended /\ last[g] \in DOMAIN queue
      [] Head(todo[g]).do = "waitClosed" -> closing
      [] Head(todo[g]).do = "waitReader" -> closed
=============================================================================
