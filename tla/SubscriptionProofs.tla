------------------------ MODULE SubscriptionProofs ------------------------
(***************************************************************************)
(* Proofs about Subscription, for any configuration and any bounds: a      *)
(* subscription that is subscribing is never stranded, no subscribe        *)
(* carries a token or a position from before an invalidation, no subscribe *)
(* meets an older subscription, and when all is settled the client and the *)
(* server agree on whether it is subscribed (the two races in history      *)
(* excepted).                                                              *)
(*                                                                         *)
(* The agreement rests on one idea.  Will is what the server will have     *)
(* once it has taken all the commands of the session; Expected is that the *)
(* client is subscribed or a task or flow will make it so.  WillInv: if    *)
(* the server will have the subscription, the client expects it, unless    *)
(* the session is Doomed, that is, a disconnect was reported or the        *)
(* failure that reports it is on its way.  The other direction follows the *)
(* reply of the last subscribe: while it is in toClient (RepliedInv), then *)
(* as a task (OkInv), then as the state subscribed (SubscribedInv), the    *)
(* server has the subscription unless it pushed the end of it after the    *)
(* reply.  This needs the streams to be in order (LastInv, LiveInv, at     *)
(* most one subscribe without a reply), one outcome per session at a time  *)
(* (OutcomeInv), and the reader to apply a reply before it takes the next  *)
(* push (ReaderInv).                                                       *)
(*                                                                         *)
(* A lemma per part says that every step keeps it; it names the actions    *)
(* that change the variables of that part.  The type of unsubs, a number,  *)
(* stays with TLC: that it is never decremented at 0 is a count of the     *)
(* unsubscribes in both streams.                                           *)
(***************************************************************************)
EXTENDS Subscription, Integers, SequenceTheorems, TLAPS

\* Types of the flags.
Flags ==
  /\ sweep \in BOOLEAN /\ inflight \in BOOLEAN /\ timer \in BOOLEAN /\ recover \in BOOLEAN
  /\ serverSub \in BOOLEAN

\* Types of the session of the client and of its disconnect reports.
LinkTypes == link \in Links /\ connGeneration \in Nat \ {0} /\ due \subseteq Reports

\* Types of the state of the subscription.
StateTypes ==
  /\ sstate \in {"unsubscribed", "subscribing", "subscribed"}
  /\ subscribeAttempt \in Nat /\ invalidations \in Nat /\ token \in Nat /\ position \in Nat

\* Type of the subscribe flow.
FlowTypes == flow \in [stage : Stages, attempt : Nat, inval : Nat, tok : Nat, gen : Nat]

\* All tasks.
TaskSet == [kind : TaskKinds, attempt : Nat, gen : Nat, by : {"reader", "goroutine"}]

\* Type of the calls in progress.
TaskTypes == tasks \subseteq TaskSet

\* All commands of a subscription.
Commands == [kind : {"subscribe", "unsubscribe"}, request : {"live", "orphan"}]

\* All replies and pushes of a subscription.
Messages ==
  [kind : SubscribeReplies \cup UnsubscribeReplies \cup Pushes, request : {"live", "orphan"}]

\* Types of the two streams.
NetTypes == toServer \in Seq(Commands) /\ toClient \in Seq(Messages)

\* inflight is set exactly while a subscribe flow runs: every early return resets it.
FlowInv == inflight <=> flow.stage # "none"

\* A token or position that is kept is from after the last invalidation, and so is one that is
\* about to be sent; those of an overtaken flow show it by an older count.
FreshInv ==
  /\ HasGetToken => token \in {Nothing, Newest}
  /\ position \in {Nothing, Newest}
  /\ flow.stage \in {"gotState", "getToken", "send"} => flow.inval <= invalidations
  /\ HasGetToken /\ flow.stage = "send" /\ flow.inval = invalidations => flow.tok = Newest

\* Streams belong to a session: nothing is in them without one, and a subscribe that was sent
\* is of the session in progress.
SessionInv ==
  /\ link # "up" => Len(toServer) = 0 /\ ~serverSub
  /\ ~Connected => Len(toClient) = 0
  /\ flow.stage = "sent" => Connected /\ flow.gen = connGeneration
  /\ flow.stage = "failed" =>
       flow.gen # NoGeneration /\ flow.gen <= connGeneration /\ (link # "dropped"
           => flow.gen < connGeneration)

\* Tasks are of this session or of a former one; without a session no outcome is of this one.
GenerationInv ==
  /\ \A t \in tasks : t.gen <= connGeneration
  /\ \A t \in tasks : t.kind \in Outcomes /\ ~Connected => t.gen < connGeneration

\* Attempts are of this Subscribe call or of a former one; after an Unsubscribe, of a former one.
AttemptInv ==
  /\ flow.stage \in {"sent", "failed"} =>
       /\ flow.attempt <= subscribeAttempt
       /\ sstate = "unsubscribed" => flow.attempt < subscribeAttempt
  /\ \A t \in tasks : t.kind \in Outcomes /\ t.gen = connGeneration =>
       /\ t.attempt <= subscribeAttempt
       /\ sstate = "unsubscribed" => t.attempt < subscribeAttempt

\* A session is up and none of the two races happened.
Agreed == link = "up" /\ history = {}

\* Task t applies the outcome of a subscribe of this session.
IsOutcome(t) == t.kind \in Outcomes /\ t.gen = connGeneration

\* Task t applies an unsubscribe push of this session.
IsPush(t) == t.kind \in Pushes /\ t.gen = connGeneration

\* Pushes are applied by the reader, which applies an outcome it received first.
ReaderInv ==
  \A t \in tasks : IsPush(t) =>
    t.by = "reader" /\ \A u \in tasks : IsOutcome(u) => u.by = "goroutine"

\* One outcome at a time: while one waits for s.mu no flow runs and the subscription is not
\* subscribed, the race excepted in which a new flow starts before it is applied.
OutcomeInv ==
  Agreed =>
    /\ flow.stage # "none" \/ sstate = "subscribed" => \A t \in tasks : ~IsOutcome(t)
    /\ sstate = "subscribed" => flow.stage = "none"
    /\ \A t, u \in tasks : IsOutcome(t) /\ IsOutcome(u) => t = u

\* A reply is applied by the reader; a failure outside of any session is temporary.
OriginInv ==
  \A t \in tasks :
    /\ t.kind = "ok" => t.by = "reader"
    /\ t.kind \in Outcomes /\ t.gen = NoGeneration => t.kind = "temporary"

\* Close() unsubscribes a subscription only after the client is closed.
ClosedInv == \A t \in tasks : t.kind = "closed" => link = "closed"

\* Command i is a subscribe whose request waits for its reply.
LiveCommand(i) == toServer[i].kind = "subscribe" /\ toServer[i].request = "live"

\* Message i answers a subscribe whose request waits for it.
LiveReply(i) == toClient[i].kind \in SubscribeReplies /\ toClient[i].request = "live"

\* At most one subscribe waits for its reply; it, or its reply, is on the way once.
LiveInv ==
  link = "up" =>
  /\ \A i \in 1..Len(toServer) : LiveCommand(i) =>
       /\ flow.stage = "sent"
       /\ \A j \in 1..Len(toServer) : LiveCommand(j) => i = j
       /\ \A j \in 1..Len(toClient) : ~LiveReply(j)
  /\ \A i \in 1..Len(toClient) : LiveReply(i) =>
       /\ flow.stage = "sent"
       /\ \A j \in 1..Len(toClient) : LiveReply(j) => i = j

\* Message i is a failed unsubscribe, which will make the client reconnect.
Failed(i) == toClient[i].kind = "unsubscribeError" /\ toClient[i].request = "live"

\* The session is going to end: a disconnect was reported, or the failure that reports it is coming.
Doomed == due # {} \/ \E i \in 1..Len(toClient) : Failed(i)

\* The server will have the subscription, once it has taken the commands on their way.
Will == IF Len(toServer) = 0 THEN serverSub ELSE toServer[Len(toServer)].kind = "subscribe"

\* Attempt a is the one the subscription wants.
Current(a) == sstate = "subscribing" /\ a = subscribeAttempt

\* The subscribe of this attempt was sent and has no reply.
CurrentFlow == flow.stage = "sent" /\ Current(flow.attempt)

\* Task t will make the subscription subscribed, or report a disconnect.
Awaited(t) == IsOutcome(t) /\ t.kind \in {"ok", "timeout"} /\ Current(t.attempt)

\* The client is subscribed or about to find out that it is.
Expected == CurrentFlow \/ sstate = "subscribed" \/ \E t \in tasks : Awaited(t)

\* The server does not end up with a subscription the client does not know of.
WillInv == Agreed /\ ~Doomed /\ Will => Expected

\* Subscribes and unsubscribes alternate on the way to the server, and the first of them fits
\* what it has.
PairsInv ==
  Agreed /\ ~Doomed =>
    /\ serverSub /\ Len(toServer) # 0 => toServer[1].kind = "unsubscribe"
    /\ \A i \in 1..(Len(toServer) - 1) :
         toServer[i].kind = "subscribe" => toServer[i + 1].kind = "unsubscribe"

\* Command i is an unsubscribe whose request timed out.
Orphan(i) == toServer[i].kind = "unsubscribe" /\ toServer[i].request = "orphan"

\* An unsubscribe that timed out has reported a disconnect.
OrphanInv == link = "up" /\ due = {} => \A i \in 1..Len(toServer) : ~Orphan(i)

\* A reply "already subscribed" comes only after a failed unsubscribe.
AlreadyInv ==
  Agreed /\ due = {} =>
    \A i \in 1..Len(toClient) : toClient[i].kind = "already" =>
      \E j \in 1..(i - 1) : Failed(j)

\* The server sent no unsubscribe push after message n.
NoPushAfter(n) == \A i \in 1..Len(toClient) : i > n => toClient[i].kind \notin Pushes

\* A subscribe of the current attempt is the last command on the way.
LastInv == Agreed /\ CurrentFlow /\ Len(toServer) # 0 => LiveCommand(Len(toServer))

\* The reply to a subscribe of the current attempt says what the server has, pushes after it
\* considered.
RepliedInv ==
  Agreed /\ CurrentFlow => \A i \in 1..Len(toClient) : LiveReply(i) =>
    /\ toClient[i].kind = "ok" => (serverSub <=> NoPushAfter(i))
    /\ toClient[i].kind \notin {"ok", "already"} => ~serverSub

\* A reply that will make the subscription subscribed waits for s.mu.
OkPending == \E t \in tasks : IsOutcome(t) /\ t.kind = "ok" /\ Current(t.attempt)

\* Then the server has the subscription, unless it pushed the end of it since.
OkInv == Agreed /\ OkPending => Len(toServer) = 0 /\ (serverSub <=> NoPushAfter(0))

\* An unsubscribe push of this session waits for s.mu.
HasPush == \E t \in tasks : IsPush(t)

\* A subscribed subscription is one the server has, unless it pushed the end of it.
SubscribedInv ==
  Agreed /\ sstate = "subscribed" =>
    Len(toServer) = 0 /\ (serverSub <=> NoPushAfter(0) /\ ~HasPush)

\* The inductive invariant.
SubInv ==
  /\ Flags /\ LinkTypes /\ StateTypes /\ FlowTypes /\ TaskTypes /\ NetTypes
  /\ FlowInv /\ FreshInv /\ SessionInv /\ GenerationInv /\ AttemptInv /\ OriginInv
  /\ ReaderInv /\ OutcomeInv /\ ClosedInv /\ SubscribedHasSession
  /\ SubscribingHasWork /\ LiveInv /\ LastInv /\ RepliedInv /\ OkInv
  /\ SubscribedInv /\ OrphanInv /\ PairsInv /\ AlreadyInv /\ WillInv

\* The fields of a task.
LEMMA TaskFields ==
  ASSUME NEW kind, NEW attempt, NEW gen, NEW by
  PROVE  /\ Task(kind, attempt, gen, by).kind = kind
                /\ Task(kind, attempt, gen, by).attempt = attempt
         /\ Task(kind, attempt, gen, by).gen = gen /\ Task(kind, attempt, gen, by).by = by
BY DEF Task

\* A task is a task.
LEMMA TaskType ==
  ASSUME NEW kind \in TaskKinds, NEW attempt \in Nat, NEW gen \in Nat,
         NEW by \in {"reader", "goroutine"}
  PROVE  Task(kind, attempt, gen, by) \in TaskSet
BY DEF Task, TaskSet

\* The kinds of the tasks that are started.
LEMMA Kinds ==
  /\ {"subscribe", "resubscribe", "closed", "invalidate", "ok", "timeout", "gone",
     "temporary", "pushResubscribe"} \subseteq TaskKinds
  /\ SubscribeReplies \subseteq TaskKinds /\ Pushes \subseteq TaskKinds
BY DEF TaskKinds, Outcomes, SubscribeErrors, SubscribeReplies, ReplyErrors, Pushes

\* sendUnsubscribeLocked reports at most a disconnect tied to no transport.
LEMMA Sends ==
  ASSUME SendUnsubscribe \/ DontSend
  PROVE  due' = due \/ due' = due \cup {"untied"}
BY DEF SendUnsubscribe, DontSend

\* Every step keeps LinkTypes.
LEMMA LinkTypesStep ==
  ASSUME LinkTypes, [Next]_vars
  PROVE  LinkTypes'
<1> USE DEF LinkTypes, Links, Reports
<1>1. ASSUME Unsubscribe PROVE LinkTypes'
  BY <1>1, Sends DEF Unsubscribe, clientVars
<1>2. ASSUME Close PROVE LinkTypes'
  BY <1>2 DEF Close, FailRequests, clientVars
<1>3. ASSUME UnsubscribeTimeout PROVE LinkTypes'
  BY <1>3 DEF UnsubscribeTimeout, clientVars
<1>4. ASSUME SessionEnds PROVE LinkTypes'
  BY <1>4 DEF SessionEnds, FailRequests, clientVars
<1>5. ASSUME NEW r \in Reports, ReportTearsDown(r) PROVE LinkTypes'
  BY <1>5 DEF ReportTearsDown, Teardown, clientVars
<1>6. ASSUME NEW r \in Reports, ReportIgnored(r) PROVE LinkTypes'
  BY <1>6 DEF ReportIgnored, clientVars
<1>7. ASSUME SendFails PROVE LinkTypes'
  BY <1>7 DEF SendFails, clientVars
<1>8. ASSUME NEW kind \in UnsubscribeReplies, UnsubscribeReplied(kind) PROVE LinkTypes'
  BY <1>8 DEF UnsubscribeReplied, clientVars
<1>9. ASSUME NEW t \in tasks, PushUnsubscribes(t) PROVE LinkTypes'
  BY <1>9, Sends DEF PushUnsubscribes, clientVars
<1>10. ASSUME LinkFails \/ MalformedReply \/ Connects \/ TeardownDone PROVE LinkTypes'
  BY <1>10 DEF LinkFails, MalformedReply, Connects, TeardownDone, Teardown, clientVars
<1>11. ASSUME NEW t \in tasks, Invalidates(t) \/ DeltaFailed(t) \/ SubscribeError(t)
       PROVE  LinkTypes'
  BY <1>11 DEF Invalidates, DeltaFailed, SubscribeError, clientVars
<1>12. CASE UNCHANGED <<link, connGeneration, due>>
  BY <1>12
<1>13. QED
  BY <1>1, <1>2, <1>3, <1>4, <1>5, <1>6, <1>7, <1>8, <1>9, <1>10, <1>11, <1>12
     DEF Next, Application, Failure, Client, SubscribeFlow, Reader, Run, Server, vars,
         SubscribeCalled, ConnectionInvalidated, ServerKeeps, RequestTimeout,
         ServerRejects, ServerPushes, Sweeps, GetStateStarts, ResultDropped,
         GetStateReturns, ContinueResubscribe, GetTokenReturns, GetFails,
         GetTokenUnauthorized, SendSubscribe, SendNotConnected, RequestFailed,
         SubscribeReplied, LateReply, PushReceived, TimerFires, ServerSubscribes,
         ServerUnsubscribes, Subscribe, ClosedUnsubscribes, ResubscribeStarts,
         MoveToSubscribed, ErrorOutdated, PushInvalidates, PushResubscribes, ServerTakes,
         clientVars

\* Every step keeps Flags.
LEMMA FlagsStep ==
  ASSUME Flags, [Next]_vars
  PROVE  Flags'
<1> USE DEF Flags
<1>1. ASSUME NEW kind \in Pushes, ServerPushes(kind) PROVE Flags'
  BY <1>1 DEF ServerPushes, clientVars, subVars, netVars
<1>2. ASSUME NEW r \in Reports, ReportTearsDown(r) PROVE Flags'
  BY <1>2 DEF ReportTearsDown, Teardown, clientVars, subVars, netVars
<1>3. ASSUME NEW kind \in SubscribeReplies, SubscribeReplied(kind) PROVE Flags'
  BY <1>3 DEF SubscribeReplied, EndFlow, clientVars, subVars, netVars
<1>4. ASSUME Unsubscribe \/ Close \/ LinkFails \/ RequestTimeout PROVE Flags'
  BY <1>4
     DEF Unsubscribe, Close, LinkFails, RequestTimeout, MoveToUnsubscribed, Teardown,
         EndFlow, clientVars, subVars, netVars
<1>5. ASSUME MalformedReply \/ Connects \/ Sweeps \/ TeardownDone PROVE Flags'
  BY <1>5
     DEF MalformedReply, Connects, Sweeps, TeardownDone, MoveToSubscribing, clientVars,
         subVars, netVars
<1>6. ASSUME ResultDropped \/ GetStateReturns \/ GetFails \/ GetTokenUnauthorized
      PROVE  Flags'
  BY <1>6
     DEF ResultDropped, GetStateReturns, GetFails, GetTokenUnauthorized, EndFlow,
         MoveToUnsubscribed, clientVars, subVars, netVars
<1>7. ASSUME SendNotConnected \/ SendFails \/ RequestFailed \/ TimerFires PROVE Flags'
  BY <1>7
     DEF SendNotConnected, SendFails, RequestFailed, TimerFires, EndFlow,
         ScheduleResubscribe, clientVars, subVars, netVars
<1>8. ASSUME ServerSubscribes \/ ServerUnsubscribes PROVE Flags'
  BY <1>8
     DEF ServerSubscribes, ServerUnsubscribes, ServerTakes, clientVars, subVars, netVars
<1>9. ASSUME NEW t \in tasks, ClosedUnsubscribes(t) \/ ResubscribeStarts(t)
                 \/ MoveToSubscribed(t)
      PROVE  Flags'
  BY <1>9
     DEF ClosedUnsubscribes, ResubscribeStarts, MoveToSubscribed, MoveToUnsubscribed,
         SameAttempt, SameSession, ScheduleResubscribe, clientVars, subVars, netVars
<1>10. ASSUME NEW t \in tasks, SubscribeError(t) \/ PushUnsubscribes(t) \/ PushResubscribes(t)
       PROVE  Flags'
  BY <1>10
     DEF SubscribeError, PushUnsubscribes, PushResubscribes, MoveToUnsubscribed,
         ScheduleResubscribe, MoveToSubscribing, clientVars, subVars, netVars
<1>11. CASE UNCHANGED <<sweep, inflight, timer, recover, serverSub>>
  BY <1>11
<1>12. QED
  BY <1>1, <1>2, <1>3, <1>4, <1>5, <1>6, <1>7, <1>8, <1>9, <1>10, <1>11
     DEF Next, Application, Failure, Client, SubscribeFlow, Reader, Run, Server, vars,
         SubscribeCalled, ConnectionInvalidated, ServerKeeps, UnsubscribeTimeout,
         ServerRejects, SessionEnds, ReportIgnored, GetStateStarts, ContinueResubscribe,
         GetTokenReturns, SendSubscribe, UnsubscribeReplied, LateReply, PushReceived,
         Invalidates, Subscribe, DeltaFailed, ErrorOutdated, PushInvalidates, ServerTakes,
         clientVars, subVars, netVars

\* Every step keeps StateTypes.
LEMMA StateTypesStep ==
  ASSUME FlowTypes, StateTypes, [Next]_vars
  PROVE  StateTypes'
<1> USE DEF StateTypes, Newest
<1>1. ASSUME GetStateReturns PROVE StateTypes'
  BY <1>1 DEF GetStateReturns, ResultWanted, Outdated, Nothing, subVars, FlowTypes
<1>2. ASSUME GetTokenReturns PROVE StateTypes'
  BY <1>2 DEF GetTokenReturns, ResultWanted, Outdated, subVars, FlowTypes
<1>3. ASSUME NEW t \in tasks, MoveToSubscribed(t) PROVE StateTypes'
  <2>1. /\ sstate' \in {sstate, "subscribed"} /\ position' \in {position, Newest}
        /\ UNCHANGED <<subscribeAttempt, invalidations, token>>
    BY <1>3 DEF MoveToSubscribed, SameSession
  <2>2. QED
    BY <2>1
<1>4. ASSUME Unsubscribe \/ TeardownDone \/ GetTokenUnauthorized PROVE StateTypes'
  BY <1>4
     DEF Unsubscribe, TeardownDone, GetTokenUnauthorized, MoveToUnsubscribed,
         MoveToSubscribing, ResultWanted, subVars
<1>5. ASSUME NEW t \in tasks, Invalidates(t) \/ Subscribe(t) \/ ClosedUnsubscribes(t)
                 \/ SubscribeError(t)
      PROVE  StateTypes'
  BY <1>5
     DEF Invalidates, Subscribe, ClosedUnsubscribes, SubscribeError, InvalidateState,
         Nothing, MoveToUnsubscribed, IsCurrent, subVars
<1>6. ASSUME NEW t \in tasks, PushUnsubscribes(t) \/ PushInvalidates(t) \/ PushResubscribes(t)
      PROVE  StateTypes'
  BY <1>6
     DEF PushUnsubscribes, PushInvalidates, PushResubscribes, MoveToUnsubscribed,
         InvalidateState, Nothing, MoveToSubscribing, subVars
<1>7. CASE UNCHANGED <<sstate, subscribeAttempt, invalidations, token, position>>
  BY <1>7
<1>8. QED
  BY <1>1, <1>2, <1>3, <1>4, <1>5, <1>6, <1>7
     DEF Next, Application, Failure, Client, SubscribeFlow, Reader, Run, Server, vars,
         SubscribeCalled, Close, LinkFails, ConnectionInvalidated, ServerKeeps,
         RequestTimeout, UnsubscribeTimeout, MalformedReply, ServerRejects, ServerPushes,
         Connects, Sweeps, SessionEnds, ReportTearsDown, ReportIgnored, GetStateStarts,
         ResultDropped, ContinueResubscribe, GetFails, SendSubscribe, SendNotConnected,
         SendFails, RequestFailed, SubscribeReplied, UnsubscribeReplied, LateReply,
         PushReceived, TimerFires, ServerSubscribes, ServerUnsubscribes,
         ResubscribeStarts, DeltaFailed, ErrorOutdated, Teardown, ServerTakes, subVars

\* Every step keeps FlowTypes.
LEMMA FlowTypesStep ==
  ASSUME LinkTypes, StateTypes, FlowTypes, [Next]_vars
  PROVE  FlowTypes'
<1> USE DEF LinkTypes, StateTypes, FlowTypes, Flow, NoFlow, Stages, Nothing, NoGeneration
<1>1. ASSUME NEW kind \in SubscribeReplies, SubscribeReplied(kind) PROVE FlowTypes'
  BY <1>1 DEF SubscribeReplied, EndFlow
<1>2. ASSUME NEW t \in tasks, ResubscribeStarts(t) PROVE FlowTypes'
  <2>1. PICK s \in {"getState", "continue"} : flow' = Flow(s, 0, 0, Nothing, NoGeneration)
            \/ UNCHANGED flow
    BY <1>2 DEF ResubscribeStarts
  <2>2. QED
    BY <2>1
<1>3. ASSUME Close \/ RequestTimeout \/ MalformedReply \/ SessionEnds PROVE FlowTypes'
  BY <1>3
     DEF Close, RequestTimeout, MalformedReply, SessionEnds, FailRequests, FailedFlow,
         EndFlow
<1>4. ASSUME GetStateStarts \/ ResultDropped \/ GetStateReturns \/ ContinueResubscribe
      PROVE  FlowTypes'
  BY <1>4
     DEF GetStateStarts, ResultDropped, GetStateReturns, ContinueResubscribe, Outdated,
         EndFlow, ResultWanted
<1>5. ASSUME GetTokenReturns \/ GetFails \/ GetTokenUnauthorized \/ SendSubscribe
      PROVE  FlowTypes'
  BY <1>5
     DEF GetTokenReturns, GetFails, GetTokenUnauthorized, SendSubscribe, ResultWanted,
         Outdated, EndFlow
<1>6. ASSUME SendNotConnected \/ SendFails \/ RequestFailed PROVE FlowTypes'
  BY <1>6 DEF SendNotConnected, SendFails, RequestFailed, ResultWanted, EndFlow
<1>7. CASE UNCHANGED <<flow>>
  BY <1>7
<1>8. QED
  BY <1>1, <1>2, <1>3, <1>4, <1>5, <1>6, <1>7
     DEF Next, Application, Failure, Client, SubscribeFlow, Reader, Run, Server, vars,
         SubscribeCalled, Unsubscribe, LinkFails, ConnectionInvalidated, ServerKeeps,
         UnsubscribeTimeout, ServerRejects, ServerPushes, Connects, Sweeps, TeardownDone,
         ReportTearsDown, ReportIgnored, UnsubscribeReplied, LateReply, PushReceived,
         TimerFires, ServerSubscribes, ServerUnsubscribes, Invalidates, Subscribe,
         ClosedUnsubscribes, MoveToSubscribed, DeltaFailed, ErrorOutdated, SubscribeError,
         PushUnsubscribes, PushInvalidates, PushResubscribes, Teardown, ServerTakes

\* Every step keeps TaskTypes.
LEMMA TaskTypesStep ==
  ASSUME LinkTypes, StateTypes, FlowTypes, TaskTypes, [Next]_vars
  PROVE  TaskTypes'
<1>1. /\ connGeneration \in Nat /\ subscribeAttempt \in Nat /\ 0 \in Nat
             /\ NoGeneration \in Nat /\ flow.attempt \in Nat /\ flow.gen \in Nat
      /\ \A t \in TaskSet : t.gen \in Nat /\ t.by \in {"reader", "goroutine"}
  BY DEF LinkTypes, StateTypes, FlowTypes, NoGeneration, TaskSet
<1> USE <1>1, TaskType, Kinds DEF TaskTypes
<1>2. ASSUME NEW kind \in SubscribeReplies, SubscribeReplied(kind) PROVE TaskTypes'
  BY <1>2 DEF SubscribeReplied
<1>3. ASSUME NEW kind \in Pushes, PushReceived(kind) PROVE TaskTypes'
  BY <1>3 DEF PushReceived
<1>4. ASSUME NEW t \in tasks, MoveToSubscribed(t) PROVE TaskTypes'
  <2>1. Task("resubscribe", 0, t.gen, t.by) \in TaskSet
    OBVIOUS
  <2>2. tasks' \subseteq tasks \cup {Task("resubscribe", 0, t.gen, t.by)}
    BY <1>4 DEF MoveToSubscribed
  <2>3. QED
    BY <2>1, <2>2
<1>5. ASSUME NEW t \in tasks, ErrorOutdated(t) PROVE TaskTypes'
  <2>1. Task("resubscribe", 0, t.gen, t.by) \in TaskSet
    OBVIOUS
  <2>2. tasks' \subseteq tasks \cup {Task("resubscribe", 0, t.gen, t.by)}
    BY <1>5 DEF ErrorOutdated
  <2>3. QED
    BY <2>1, <2>2
<1>6. ASSUME NEW t \in tasks, PushInvalidates(t) PROVE TaskTypes'
  <2>1. Task("pushResubscribe", 0, t.gen, t.by) \in TaskSet
    OBVIOUS
  <2>2. tasks' \subseteq tasks \cup {Task("pushResubscribe", 0, t.gen, t.by)}
    BY <1>6 DEF PushInvalidates
  <2>3. QED
    BY <2>1, <2>2
<1>7. ASSUME NEW t \in tasks, PushResubscribes(t) PROVE TaskTypes'
  <2>1. Task("resubscribe", 0, t.gen, t.by) \in TaskSet
    OBVIOUS
  <2>2. tasks' \subseteq tasks \cup {Task("resubscribe", 0, t.gen, t.by)}
    BY <1>7 DEF PushResubscribes
  <2>3. QED
    BY <2>1, <2>2
<1>8. ASSUME SubscribeCalled PROVE TaskTypes'
  BY <1>8 DEF SubscribeCalled
<1>9. ASSUME Close PROVE TaskTypes'
  BY <1>9 DEF Close
<1>10. ASSUME ConnectionInvalidated PROVE TaskTypes'
  BY <1>10 DEF ConnectionInvalidated
<1>11. ASSUME RequestTimeout PROVE TaskTypes'
  BY <1>11 DEF RequestTimeout
<1>12. ASSUME Sweeps PROVE TaskTypes'
  BY <1>12 DEF Sweeps, Resubscribe
<1>13. ASSUME ResultDropped PROVE TaskTypes'
  BY <1>13 DEF ResultDropped, Resubscribe
<1>14. ASSUME GetFails PROVE TaskTypes'
  BY <1>14 DEF GetFails
<1>15. ASSUME RequestFailed PROVE TaskTypes'
  BY <1>15 DEF RequestFailed
<1>16. ASSUME TimerFires PROVE TaskTypes'
  BY <1>16 DEF TimerFires, Resubscribe
<1>17. ASSUME NEW t \in tasks, Invalidates(t) PROVE TaskTypes'
  BY <1>17 DEF Invalidates
<1>18. ASSUME NEW t \in tasks, Subscribe(t) PROVE TaskTypes'
  BY <1>18 DEF Subscribe, Resubscribe
<1>19. ASSUME NEW t \in tasks, ClosedUnsubscribes(t) PROVE TaskTypes'
  BY <1>19 DEF ClosedUnsubscribes
<1>20. ASSUME NEW t \in tasks, ResubscribeStarts(t) PROVE TaskTypes'
  BY <1>20 DEF ResubscribeStarts
<1>21. ASSUME NEW t \in tasks, DeltaFailed(t) PROVE TaskTypes'
  BY <1>21 DEF DeltaFailed, SameAttempt, SameSession
<1>22. ASSUME NEW t \in tasks, SubscribeError(t) PROVE TaskTypes'
  BY <1>22 DEF SubscribeError
<1>23. ASSUME NEW t \in tasks, PushUnsubscribes(t) PROVE TaskTypes'
  BY <1>23 DEF PushUnsubscribes
<1>24. CASE UNCHANGED <<tasks>>
  BY <1>24
<1>25. QED
  BY <1>2, <1>3, <1>4, <1>5, <1>6, <1>7, <1>8, <1>9, <1>10, <1>11, <1>12, <1>13, <1>14,
     <1>15, <1>16, <1>17, <1>18, <1>19, <1>20, <1>21, <1>22, <1>23, <1>24
     DEF Next, Application, Failure, Client, SubscribeFlow, Reader, Run, Server, vars,
         Unsubscribe, LinkFails, ServerKeeps, UnsubscribeTimeout, MalformedReply,
         ServerRejects, ServerPushes, Connects, SessionEnds, TeardownDone,
         ReportTearsDown, ReportIgnored, GetStateStarts, GetStateReturns,
         ContinueResubscribe, GetTokenReturns, GetTokenUnauthorized, SendSubscribe,
         SendNotConnected, SendFails, UnsubscribeReplied, LateReply, ServerSubscribes,
         ServerUnsubscribes, Teardown, ServerTakes

\* A timed out request leaves the commands as they are, but for the marks.
LEMMA OrphanedCommands ==
  ASSUME NEW q \in Seq(Commands), NEW which
  PROVE  /\ Orphaned(q, which) \in Seq(Commands)
         /\ Len(Orphaned(q, which)) = Len(q)
         /\ \A i \in 1..Len(q) :
              /\ Orphaned(q, which)[i].kind = q[i].kind
              /\ Orphaned(q, which)[i].request = IF i \in which THEN "orphan" ELSE q[i].request
<1>1. \A i \in 1..Len(q) : q[i] \in Commands
  BY ElementOfSeq
<1>2. \A i \in 1..Len(q) : Message(q[i].kind, "orphan") \in Commands
  BY <1>1 DEF Message, Commands
<1>3. QED
  BY <1>1, <1>2 DEF Orphaned, Message

\* The same for the replies on their way.
LEMMA OrphanedMessages ==
  ASSUME NEW q \in Seq(Messages), NEW which
  PROVE  /\ Orphaned(q, which) \in Seq(Messages)
         /\ Len(Orphaned(q, which)) = Len(q)
         /\ \A i \in 1..Len(q) :
              /\ Orphaned(q, which)[i].kind = q[i].kind
              /\ Orphaned(q, which)[i].request = IF i \in which THEN "orphan" ELSE q[i].request
<1>1. \A i \in 1..Len(q) : q[i] \in Messages
  BY ElementOfSeq
<1>2. \A i \in 1..Len(q) : Message(q[i].kind, "orphan") \in Messages
  BY <1>1 DEF Message, Messages
<1>3. QED
  BY <1>1, <1>2 DEF Orphaned, Message

\* Every step keeps NetTypes.
LEMMA NetTypesStep ==
  ASSUME NetTypes, [Next]_vars
  PROVE  NetTypes'
<1>1. \A r \in {"live", "orphan"} :
        /\ \A kind \in {"subscribe", "unsubscribe"} : Message(kind, r) \in Commands
        /\ \A kind \in SubscribeReplies \cup UnsubscribeReplies \cup Pushes : Message(kind,
           r) \in Messages
  BY DEF Message, Commands, Messages
<1>2. /\ ReplyErrors \subseteq SubscribeReplies /\ "ok" \in SubscribeReplies
             /\ "already" \in SubscribeReplies
      /\ "unsubscribed" \in UnsubscribeReplies /\ "unsubscribeError" \in UnsubscribeReplies
  BY DEF SubscribeReplies, ReplyErrors, UnsubscribeReplies
<1>3. \A c \in Commands : c.request \in {"live", "orphan"}
  BY DEF Commands
<1>4. <<>> \in Seq(Commands) /\ <<>> \in Seq(Messages)
  OBVIOUS
<1>5. ASSUME toServer # <<>>
      PROVE  Tail(toServer) \in Seq(Commands) /\ Head(toServer).request \in {"live", "orphan"}
  BY <1>3, <1>5, HeadTailProperties DEF NetTypes
<1>6. ASSUME toClient # <<>> PROVE Tail(toClient) \in Seq(Messages)
  BY <1>6, HeadTailProperties DEF NetTypes
<1> USE <1>1, <1>2, <1>4, <1>5, <1>6 DEF NetTypes, RepliesAfterClear
<1>7. ASSUME RequestTimeout PROVE NetTypes'
  <2>1. \A which : Orphaned(toServer, which) \in Seq(Commands)
            /\ Orphaned(toClient, which) \in Seq(Messages)
    BY OrphanedCommands, OrphanedMessages
  <2>2. QED
    BY <1>7, <2>1 DEF RequestTimeout
<1>8. ASSUME UnsubscribeTimeout PROVE NetTypes'
  <2>1. \A which : Orphaned(toServer, which) \in Seq(Commands)
            /\ Orphaned(toClient, which) \in Seq(Messages)
    BY OrphanedCommands, OrphanedMessages
  <2>2. QED
    BY <1>8, <2>1 DEF UnsubscribeTimeout
<1>9. ASSUME NEW kind \in ReplyErrors, ServerRejects(kind) PROVE NetTypes'
  BY <1>9 DEF ServerRejects, ServerTakes, netVars
<1>10. ASSUME NEW kind \in Pushes, ServerPushes(kind) PROVE NetTypes'
  BY <1>10 DEF ServerPushes, netVars
<1>11. ASSUME NEW r \in Reports, ReportTearsDown(r) PROVE NetTypes'
  BY <1>11 DEF ReportTearsDown, Teardown, netVars
<1>12. ASSUME NEW kind \in SubscribeReplies, SubscribeReplied(kind) PROVE NetTypes'
  BY <1>12 DEF SubscribeReplied, Received, netVars
<1>13. ASSUME NEW kind \in UnsubscribeReplies, UnsubscribeReplied(kind) PROVE NetTypes'
  BY <1>13 DEF UnsubscribeReplied, Received, netVars
<1>14. ASSUME NEW kind \in SubscribeReplies \cup UnsubscribeReplies, LateReply(kind)
       PROVE  NetTypes'
  BY <1>14 DEF LateReply, Received, netVars
<1>15. ASSUME NEW kind \in Pushes, PushReceived(kind) PROVE NetTypes'
  BY <1>15 DEF PushReceived, Received, netVars
<1>16. ASSUME Unsubscribe PROVE NetTypes'
  BY <1>16 DEF Unsubscribe, SendUnsubscribe, DontSend, netVars
<1>17. ASSUME Close PROVE NetTypes'
  BY <1>17 DEF Close, FailRequests, RepliesAfterClear, netVars
<1>18. ASSUME LinkFails PROVE NetTypes'
  BY <1>18 DEF LinkFails, Teardown, netVars
<1>19. ASSUME ServerKeeps PROVE NetTypes'
  BY <1>19 DEF ServerKeeps, ServerTakes, netVars
<1>20. ASSUME MalformedReply PROVE NetTypes'
  BY <1>20 DEF MalformedReply, Received, netVars
<1>21. ASSUME SessionEnds PROVE NetTypes'
  BY <1>21 DEF SessionEnds, FailRequests, RepliesAfterClear, netVars
<1>22. ASSUME SendSubscribe PROVE NetTypes'
  BY <1>22 DEF SendSubscribe, netVars
<1>23. ASSUME ServerSubscribes PROVE NetTypes'
  BY <1>23 DEF ServerSubscribes, ServerTakes, netVars
<1>24. ASSUME ServerUnsubscribes PROVE NetTypes'
  BY <1>24 DEF ServerUnsubscribes, ServerTakes, netVars
<1>25. ASSUME NEW t \in tasks, PushUnsubscribes(t) PROVE NetTypes'
  BY <1>25 DEF PushUnsubscribes, SendUnsubscribe, DontSend, netVars
<1>26. CASE UNCHANGED <<toServer, toClient>>
  BY <1>26
<1>27. QED
  BY <1>7, <1>8, <1>9, <1>10, <1>11, <1>12, <1>13, <1>14, <1>15, <1>16, <1>17, <1>18,
     <1>19, <1>20, <1>21, <1>22, <1>23, <1>24, <1>25, <1>26
     DEF Next, Application, Failure, Client, SubscribeFlow, Reader, Run, Server, vars,
         SubscribeCalled, ConnectionInvalidated, Connects, Sweeps, TeardownDone,
         ReportIgnored, GetStateStarts, ResultDropped, GetStateReturns,
         ContinueResubscribe, GetTokenReturns, GetFails, GetTokenUnauthorized,
         SendNotConnected, SendFails, RequestFailed, TimerFires, Invalidates, Subscribe,
         ClosedUnsubscribes, ResubscribeStarts, MoveToSubscribed, DeltaFailed,
         ErrorOutdated, SubscribeError, PushInvalidates, PushResubscribes, netVars

\* Every step keeps FlowInv.
LEMMA FlowStep ==
  ASSUME FlowTypes, FlowInv, [Next]_vars
  PROVE  FlowInv'
<1> USE DEF FlowTypes, FlowInv, Flow, NoFlow
<1>1. ASSUME NEW kind \in SubscribeReplies, SubscribeReplied(kind) PROVE FlowInv'
  BY <1>1 DEF SubscribeReplied, EndFlow
<1>2. ASSUME Close \/ RequestTimeout \/ MalformedReply \/ SessionEnds PROVE FlowInv'
  BY <1>2
     DEF Close, RequestTimeout, MalformedReply, SessionEnds, FailRequests, FailedFlow,
         NoGeneration, EndFlow
<1>3. ASSUME GetStateStarts \/ ResultDropped \/ GetStateReturns \/ ContinueResubscribe
      PROVE  FlowInv'
  BY <1>3
     DEF GetStateStarts, ResultDropped, GetStateReturns, ContinueResubscribe, Nothing,
         NoGeneration, Outdated, EndFlow, ResultWanted
<1>4. ASSUME GetTokenReturns \/ GetFails \/ GetTokenUnauthorized \/ SendSubscribe
      PROVE  FlowInv'
  BY <1>4
     DEF GetTokenReturns, GetFails, GetTokenUnauthorized, SendSubscribe, ResultWanted,
         Outdated, NoGeneration, EndFlow
<1>5. ASSUME SendNotConnected \/ SendFails \/ RequestFailed PROVE FlowInv'
  BY <1>5 DEF SendNotConnected, SendFails, RequestFailed, ResultWanted, EndFlow
<1>6. ASSUME NEW t \in tasks, ResubscribeStarts(t) PROVE FlowInv'
  BY <1>6 DEF ResubscribeStarts, Nothing, NoGeneration
<1>7. CASE UNCHANGED <<flow, inflight>>
  BY <1>7
<1>8. QED
  BY <1>1, <1>2, <1>3, <1>4, <1>5, <1>6, <1>7
     DEF Next, Application, Failure, Client, SubscribeFlow, Reader, Run, Server, vars,
         SubscribeCalled, Unsubscribe, LinkFails, ConnectionInvalidated, ServerKeeps,
         UnsubscribeTimeout, ServerRejects, ServerPushes, Connects, Sweeps, TeardownDone,
         ReportTearsDown, ReportIgnored, UnsubscribeReplied, LateReply, PushReceived,
         TimerFires, ServerSubscribes, ServerUnsubscribes, Invalidates, Subscribe,
         ClosedUnsubscribes, MoveToSubscribed, DeltaFailed, ErrorOutdated, SubscribeError,
         PushUnsubscribes, PushInvalidates, PushResubscribes, Teardown, ServerTakes

\* Every step keeps FreshInv: GetState and GetToken compare the count of invalidations (Outdated).
LEMMA FreshStep ==
  ASSUME StateTypes, FlowTypes, FreshInv, [Next]_vars
  PROVE  FreshInv'
<1> USE DEF StateTypes, FlowTypes, FreshInv, Newest, Nothing, Flow, NoFlow
<1>1. ASSUME NEW kind \in SubscribeReplies, SubscribeReplied(kind) PROVE FreshInv'
  BY <1>1 DEF SubscribeReplied, EndFlow, subVars
<1>2. ASSUME NEW t \in tasks, Invalidates(t) PROVE FreshInv'
  BY <1>2 DEF Invalidates, InvalidateState, subVars
<1>3. ASSUME NEW t \in tasks, MoveToSubscribed(t) PROVE FreshInv'
  BY <1>3 DEF MoveToSubscribed, SameAttempt, SameSession, subVars
<1>4. ASSUME Close \/ RequestTimeout \/ MalformedReply \/ SessionEnds PROVE FreshInv'
  BY <1>4
     DEF Close, RequestTimeout, MalformedReply, SessionEnds, FailRequests, FailedFlow,
         NoGeneration, EndFlow, subVars
<1>5. ASSUME GetStateStarts \/ ResultDropped \/ GetStateReturns \/ ContinueResubscribe
      PROVE  FreshInv'
  BY <1>5
     DEF GetStateStarts, ResultDropped, GetStateReturns, ContinueResubscribe,
         NoGeneration, Outdated, EndFlow, ResultWanted, subVars
<1>6. ASSUME GetTokenReturns \/ GetFails \/ GetTokenUnauthorized \/ SendSubscribe
      PROVE  FreshInv'
  BY <1>6
     DEF GetTokenReturns, GetFails, GetTokenUnauthorized, SendSubscribe, ResultWanted,
         Outdated, NoGeneration, EndFlow, subVars
<1>7. ASSUME SendNotConnected \/ SendFails \/ RequestFailed PROVE FreshInv'
  BY <1>7 DEF SendNotConnected, SendFails, RequestFailed, ResultWanted, EndFlow, subVars
<1>8. ASSUME NEW t \in tasks, ResubscribeStarts(t) \/ SubscribeError(t) \/ PushInvalidates(t)
      PROVE  FreshInv'
  BY <1>8
     DEF ResubscribeStarts, SubscribeError, PushInvalidates, NoGeneration,
         InvalidateState, subVars
<1>9. CASE UNCHANGED <<token, position, invalidations, flow>>
  BY <1>9
<1>10. QED
  BY <1>1, <1>2, <1>3, <1>4, <1>5, <1>6, <1>7, <1>8, <1>9
     DEF Next, Application, Failure, Client, SubscribeFlow, Reader, Run, Server, vars,
         SubscribeCalled, Unsubscribe, LinkFails, ConnectionInvalidated, ServerKeeps,
         UnsubscribeTimeout, ServerRejects, ServerPushes, Connects, Sweeps, TeardownDone,
         ReportTearsDown, ReportIgnored, UnsubscribeReplied, LateReply, PushReceived,
         TimerFires, ServerSubscribes, ServerUnsubscribes, Subscribe, ClosedUnsubscribes,
         DeltaFailed, ErrorOutdated, PushUnsubscribes, PushResubscribes, Teardown,
         ServerTakes, subVars

\* A task other than Subscribe and an invalidation is work for a subscribing subscription.
LEMMA TaskIsWork ==
  ASSUME NEW t \in tasks', t.kind \notin {"subscribe", "invalidate"}
  PROVE  SubscribingHasWork'
BY DEF SubscribingHasWork

\* Every step keeps SubscribingHasWork: what ends a flow, a task or the timer of a subscribing
\* subscription starts another one, or the session ends.
LEMMA WorkStep ==
  ASSUME TaskTypes, LinkTypes, GenerationInv, FlowInv, SubscribingHasWork, [Next]_vars
  PROVE  SubscribingHasWork'
<1> USE TaskFields DEF SubscribingHasWork, Connected, FlowInv, Invalidating, LinkTypes,
    GenerationInv, Outcomes, SubscribeErrors, ReplyErrors, SubscribeReplies, Pushes, TaskTypes
<1>1. ASSUME RequestTimeout PROVE SubscribingHasWork'
  <2>1. Task("timeout", flow.attempt, flow.gen, "goroutine") \in tasks'
    BY <1>1 DEF RequestTimeout
  <2>2. Task("timeout", flow.attempt, flow.gen, "goroutine").kind = "timeout"
    BY TaskFields
  <2>3. QED
    BY <2>1, <2>2, TaskIsWork
<1>2. ASSUME Sweeps PROVE SubscribingHasWork'
  <2>1. Task("resubscribe", 0, connGeneration, "reader") \in tasks'
    BY <1>2 DEF Sweeps, Resubscribe
  <2>2. Task("resubscribe", 0, connGeneration, "reader").kind = "resubscribe"
    BY TaskFields
  <2>3. QED
    BY <2>1, <2>2, TaskIsWork
<1>3. ASSUME NEW r \in Reports, ReportTearsDown(r) PROVE SubscribingHasWork'
  BY <1>3 DEF ReportTearsDown, Teardown, clientVars, subVars
<1>4. ASSUME NEW r \in Reports, ReportIgnored(r) PROVE SubscribingHasWork'
  BY <1>4 DEF ReportIgnored, clientVars, subVars
<1>5. ASSUME ResultDropped PROVE SubscribingHasWork'
  <2>1. CASE sstate = "subscribing"
    <3>1. Task("resubscribe", 0, connGeneration, "goroutine") \in tasks'
      BY <1>5, <2>1 DEF ResultDropped, Resubscribe
    <3>2. Task("resubscribe", 0, connGeneration, "goroutine").kind = "resubscribe"
      BY TaskFields
    <3>3. QED
      BY <3>1, <3>2, TaskIsWork
  <2>2. CASE ~(sstate = "subscribing")
    BY <1>5, <2>2 DEF ResultDropped, ScheduleResubscribe, clientVars, subVars, netVars
  <2>3. QED
    BY <2>1, <2>2
<1>6. ASSUME GetFails PROVE SubscribingHasWork'
  <2>1. Task("temporary", flow.attempt, NoGeneration, "goroutine") \in tasks'
    BY <1>6 DEF GetFails
  <2>2. Task("temporary", flow.attempt, NoGeneration, "goroutine").kind = "temporary"
    BY TaskFields
  <2>3. QED
    BY <2>1, <2>2, TaskIsWork
<1>7. ASSUME RequestFailed PROVE SubscribingHasWork'
  <2>1. Task("gone", flow.attempt, flow.gen, "goroutine") \in tasks'
    BY <1>7 DEF RequestFailed
  <2>2. Task("gone", flow.attempt, flow.gen, "goroutine").kind = "gone"
    BY TaskFields
  <2>3. QED
    BY <2>1, <2>2, TaskIsWork
<1>8. ASSUME NEW kind \in SubscribeReplies, SubscribeReplied(kind)
      PROVE  SubscribingHasWork'
  <2>1. Task(kind, flow.attempt, flow.gen, "reader") \in tasks'
    BY <1>8 DEF SubscribeReplied
  <2>2. Task(kind, flow.attempt, flow.gen, "reader").kind = kind
    BY TaskFields
  <2>3. QED
    BY <2>1, <2>2, TaskIsWork DEF SubscribeReplies, ReplyErrors
<1>9. ASSUME NEW kind \in UnsubscribeReplies, UnsubscribeReplied(kind)
      PROVE  SubscribingHasWork'
  BY <1>9 DEF UnsubscribeReplied, clientVars, subVars
<1>10. ASSUME NEW kind \in Pushes, PushReceived(kind) PROVE SubscribingHasWork'
  BY <1>10 DEF PushReceived, Task, clientVars, subVars
<1>11. ASSUME TimerFires PROVE SubscribingHasWork'
  <2>1. Task("resubscribe", 0, connGeneration, "goroutine") \in tasks'
    BY <1>11 DEF TimerFires, Resubscribe
  <2>2. Task("resubscribe", 0, connGeneration, "goroutine").kind = "resubscribe"
    BY TaskFields
  <2>3. QED
    BY <2>1, <2>2, TaskIsWork
<1>12. ASSUME NEW t \in tasks, Subscribe(t) PROVE SubscribingHasWork'
  <2>1. CASE sstate = "unsubscribed"
    <3>1. Task("resubscribe", 0, connGeneration, "goroutine") \in tasks'
      BY <1>12, <2>1 DEF Subscribe, Resubscribe
    <3>2. Task("resubscribe", 0, connGeneration, "goroutine").kind = "resubscribe"
      BY TaskFields
    <3>3. QED
      BY <3>1, <3>2, TaskIsWork
  <2>2. CASE ~(sstate = "unsubscribed")
    BY <1>12, <2>2 DEF Subscribe, ScheduleResubscribe, clientVars, subVars, netVars
  <2>3. QED
    BY <2>1, <2>2
<1>13. ASSUME NEW t \in tasks, MoveToSubscribed(t) PROVE SubscribingHasWork'
  <2>1. CASE sstate = "subscribing" /\ ~SameAttempt(t)
    <3>1. Task("resubscribe", 0, t.gen, t.by) \in tasks'
      BY <1>13, <2>1 DEF MoveToSubscribed
    <3>2. Task("resubscribe", 0, t.gen, t.by).kind = "resubscribe"
      BY TaskFields
    <3>3. QED
      BY <3>1, <3>2, TaskIsWork
  <2>2. CASE ~(sstate = "subscribing" /\ ~SameAttempt(t))
    BY <1>13, <2>2
       DEF MoveToSubscribed, ScheduleResubscribe, clientVars, subVars, netVars,
           SameAttempt, SameSession
  <2>3. QED
    BY <2>1, <2>2
<1>14. ASSUME NEW t \in tasks, ErrorOutdated(t) PROVE SubscribingHasWork'
  <2>1. CASE sstate = "subscribing"
    <3>1. Task("resubscribe", 0, t.gen, t.by) \in tasks'
      BY <1>14, <2>1 DEF ErrorOutdated
    <3>2. Task("resubscribe", 0, t.gen, t.by).kind = "resubscribe"
      BY TaskFields
    <3>3. QED
      BY <3>1, <3>2, TaskIsWork
  <2>2. CASE ~(sstate = "subscribing")
    BY <1>14, <2>2 DEF ErrorOutdated, ScheduleResubscribe, clientVars, subVars, netVars
  <2>3. QED
    BY <2>1, <2>2
<1>15. ASSUME NEW t \in tasks, PushInvalidates(t) PROVE SubscribingHasWork'
  <2>1. Task("pushResubscribe", 0, t.gen, t.by) \in tasks'
    BY <1>15 DEF PushInvalidates
  <2>2. Task("pushResubscribe", 0, t.gen, t.by).kind = "pushResubscribe"
    BY TaskFields
  <2>3. QED
    BY <2>1, <2>2, TaskIsWork
<1>16. ASSUME NEW t \in tasks, PushResubscribes(t) PROVE SubscribingHasWork'
  <2>1. Task("resubscribe", 0, t.gen, t.by) \in tasks'
    BY <1>16 DEF PushResubscribes
  <2>2. Task("resubscribe", 0, t.gen, t.by).kind = "resubscribe"
    BY TaskFields
  <2>3. QED
    BY <2>1, <2>2, TaskIsWork
<1>17. ASSUME SubscribeCalled \/ Unsubscribe \/ Close \/ LinkFails
       PROVE  SubscribingHasWork'
  BY <1>17
     DEF SubscribeCalled, Unsubscribe, Close, LinkFails, Task, SendUnsubscribe, DontSend,
         MoveToUnsubscribed, FailRequests, FailedFlow, Flow, Teardown, clientVars, subVars
<1>18. ASSUME ConnectionInvalidated \/ UnsubscribeTimeout \/ MalformedReply \/ Connects
       PROVE  SubscribingHasWork'
  BY <1>18
     DEF ConnectionInvalidated, UnsubscribeTimeout, MalformedReply, Connects, Task,
         FailedFlow, Flow, clientVars, subVars
<1>19. ASSUME SessionEnds \/ TeardownDone \/ GetStateStarts \/ GetStateReturns
       PROVE  SubscribingHasWork'
  BY <1>19
     DEF SessionEnds, TeardownDone, GetStateStarts, GetStateReturns, FailRequests,
         FailedFlow, Flow, MoveToSubscribing, ResultWanted, Outdated, clientVars, subVars
<1>20. ASSUME ContinueResubscribe \/ GetTokenReturns \/ GetTokenUnauthorized \/ SendSubscribe
       PROVE  SubscribingHasWork'
  BY <1>20
     DEF ContinueResubscribe, GetTokenReturns, GetTokenUnauthorized, SendSubscribe, Flow,
         ResultWanted, Outdated, EndFlow, NoFlow, MoveToUnsubscribed, clientVars, subVars
<1>21. ASSUME SendNotConnected \/ SendFails PROVE SubscribingHasWork'
  BY <1>21
     DEF SendNotConnected, SendFails, ResultWanted, EndFlow, NoFlow, Flow,
         ScheduleResubscribe, clientVars, subVars
<1>22. ASSUME NEW t \in tasks, Invalidates(t) \/ ClosedUnsubscribes(t) \/ ResubscribeStarts(t)
       PROVE  SubscribingHasWork'
  BY <1>22
     DEF Invalidates, ClosedUnsubscribes, ResubscribeStarts, MoveToUnsubscribed, Flow,
         clientVars, subVars
<1>23. ASSUME NEW t \in tasks, DeltaFailed(t) \/ SubscribeError(t) \/ PushUnsubscribes(t)
       PROVE  SubscribingHasWork'
  BY <1>23
     DEF DeltaFailed, SubscribeError, PushUnsubscribes, SameAttempt, SameSession,
         IsCurrent, MoveToUnsubscribed, ScheduleResubscribe, SendUnsubscribe, DontSend,
         clientVars, subVars
<1>24. CASE UNCHANGED <<link, connGeneration, sweep, due, sstate, timer, flow, tasks, inflight>>
  BY <1>24
<1>25. QED
  BY <1>1, <1>2, <1>3, <1>4, <1>5, <1>6, <1>7, <1>8, <1>9, <1>10, <1>11, <1>12, <1>13,
     <1>14, <1>15, <1>16, <1>17, <1>18, <1>19, <1>20, <1>21, <1>22, <1>23, <1>24
     DEF Next, Application, Failure, Client, SubscribeFlow, Reader, Run, Server, vars,
         ServerKeeps, ServerRejects, ServerPushes, LateReply, ServerSubscribes,
         ServerUnsubscribes, ServerTakes, clientVars, subVars

\* p is q with one more element, of this kind and request.
Appends(q, p, kind, request) ==
  /\ Len(p) = Len(q) + 1 /\ p[Len(p)].kind = kind /\ p[Len(p)].request = request
  /\ \A i \in 1..Len(q) : p[i] = q[i]

\* p is q without its first element, which is of this kind and request.
Drops(q, p, kind, request) ==
  /\ Len(q) = Len(p) + 1 /\ q[1].kind = kind /\ q[1].request = request
  /\ \A i \in 1..Len(p) : p[i] = q[i + 1]

\* Lengths and elements of the streams.
LEMMA Lens ==
  ASSUME NetTypes
  PROVE  /\ Len(toServer) \in Nat /\ (toServer = <<>> <=> Len(toServer) = 0)
         /\ Len(toClient) \in Nat /\ (toClient = <<>> <=> Len(toClient) = 0)
         /\ \A i \in 1..Len(toServer) : toServer[i] \in Commands
         /\ \A i \in 1..Len(toClient) : toClient[i] \in Messages
BY EmptySeq, LenProperties, ElementOfSeq DEF NetTypes

\* Append and Tail of a stream.
LEMMA Sequences ==
  ASSUME NEW S, NEW q \in Seq(S)
  PROVE  /\ \A kind, request : Message(kind, request) \in S =>
              Appends(q, Append(q, Message(kind, request)), kind, request)
         /\ q # <<>> => Drops(q, Tail(q), Head(q).kind, Head(q).request)
<1>1. ASSUME NEW kind, NEW request, Message(kind, request) \in S
      PROVE  Appends(q, Append(q, Message(kind, request)), kind, request)
  <2>1. Message(kind, request).kind = kind /\ Message(kind, request).request = request
    BY DEF Message
  <2>2. QED
    BY <1>1, <2>1, AppendProperties, LenProperties DEF Appends
<1>2. ASSUME q # <<>> PROVE Drops(q, Tail(q), Head(q).kind, Head(q).request)
  <2>1. Head(q) = q[1] /\ Len(q) \in Nat
    BY LenProperties
  <2>2. QED
    BY <1>2, <2>1, HeadTailProperties DEF Drops
<1>3. QED
  BY <1>1, <1>2

\* An unsubscribe that is sent is the last command (sendUnsubscribeLocked).
LEMMA SendsUnsubscribe ==
  ASSUME NetTypes, SendUnsubscribe, link = "up"
  PROVE  Appends(toServer, toServer', "unsubscribe", "live") /\ due' = due
<1>1. Message("unsubscribe", "live") \in Commands
  BY DEF Message, Commands
<1>2. QED
  BY <1>1, Sequences DEF SendUnsubscribe, NetTypes

\* A subscribe that is sent is the last command (continueResubscribe).
LEMMA SendsSubscribe ==
  ASSUME NetTypes, SendSubscribe
  PROVE  Appends(toServer, toServer', "subscribe", "live")
<1>1. Message("subscribe", "live") \in Commands
  BY DEF Message, Commands
<1>2. QED
  BY <1>1, Sequences DEF SendSubscribe, NetTypes

\* What is received is the first message.
LEMMA Receives ==
  ASSUME NetTypes, NEW kind, NEW request, Received(Message(kind, request))
  PROVE  Drops(toClient, toClient', kind, request)
BY Sequences DEF Received, NetTypes, Message

\* The server takes a command of this kind and replies.
ServerStep(kind, reply) ==
  /\ Drops(toServer, toServer', kind, toServer[1].request)
  /\ Appends(toClient, toClient', reply, toServer[1].request)
  /\ link = "up"
  /\ UNCHANGED <<link, connGeneration, due, sstate, subscribeAttempt, flow, tasks, history>>

\* A reply of the server goes behind all it sent before.
LEMMA ServerStepEffect ==
  ASSUME NetTypes, NEW kind, NEW reply \in SubscribeReplies \cup UnsubscribeReplies,
         ServerTakes(kind),
         toClient' = Append(toClient, Message(reply, Head(toServer).request))
  PROVE  ServerStep(kind, reply)
<1>1. toServer # <<>> /\ toServer' = Tail(toServer) /\ Head(toServer).kind = kind
          /\ Head(toServer) = toServer[1]
  BY DEF ServerTakes
<1>2. Len(toServer) > 0
  BY <1>1, Lens
<1>3. toServer[1] \in Commands
  BY <1>2, Lens
<1>4. Message(reply, Head(toServer).request) \in Messages
  BY <1>1, <1>3 DEF Message, Messages, Commands
<1>5. Appends(toClient, toClient', reply, toServer[1].request)
  BY <1>1, <1>4, Sequences DEF NetTypes
<1>6. Drops(toServer, toServer', kind, toServer[1].request)
  BY <1>1, Sequences DEF NetTypes
<1>7. QED
  BY <1>5, <1>6 DEF ServerStep, ServerTakes, Online, clientVars, subVars

\* The four ways in which the server takes a command.
LEMMA ServerSteps ==
  ASSUME NetTypes
  PROVE  /\ ServerSubscribes => ServerStep("subscribe",
            IF serverSub THEN "already" ELSE "ok") /\ serverSub'
         /\ ServerUnsubscribes => ServerStep("unsubscribe", "unsubscribed") /\ ~serverSub'
         /\ ServerKeeps => ServerStep("unsubscribe", "unsubscribeError") /\ UNCHANGED serverSub
         /\ \A kind \in ReplyErrors : ServerRejects(kind) =>
              ServerStep("subscribe", kind) /\ UNCHANGED serverSub /\ ~serverSub
                  /\ kind # "already"
<1>1. /\ ReplyErrors \subseteq SubscribeReplies /\ "ok" \in SubscribeReplies
             /\ "already" \in SubscribeReplies
      /\ "unsubscribed" \in UnsubscribeReplies /\ "unsubscribeError" \in UnsubscribeReplies
  BY DEF SubscribeReplies, ReplyErrors, UnsubscribeReplies
<1>2. ServerSubscribes => ServerStep("subscribe", IF serverSub THEN "already" ELSE "ok")
          /\ serverSub'
  BY <1>1, ServerStepEffect DEF ServerSubscribes
<1>3. ServerUnsubscribes => ServerStep("unsubscribe", "unsubscribed") /\ ~serverSub'
  BY <1>1, ServerStepEffect DEF ServerUnsubscribes
<1>4. ServerKeeps => ServerStep("unsubscribe", "unsubscribeError") /\ UNCHANGED serverSub
  BY <1>1, ServerStepEffect DEF ServerKeeps
<1>5. \A kind \in ReplyErrors : ServerRejects(kind) =>
              ServerStep("subscribe", kind) /\ UNCHANGED serverSub /\ ~serverSub
                  /\ kind # "already"
  BY <1>1, ServerStepEffect DEF ServerRejects
<1>6. QED
  BY <1>2, <1>3, <1>4, <1>5

\* The steps in which the server takes a command.
ServerMoves ==
  ServerSubscribes \/ ServerUnsubscribes \/ ServerKeeps
      \/ \E kind \in ReplyErrors : ServerRejects(kind)

\* What the server replies to a command, and what it has then.
Answers(command, reply) ==
  \/ command = "subscribe" /\ reply = (IF serverSub THEN "already" ELSE "ok") /\ serverSub'
  \/ command = "subscribe" /\ reply \in ReplyErrors \ {"already"} /\ ~serverSub /\ ~serverSub'
  \/ command = "unsubscribe" /\ reply = "unsubscribed" /\ ~serverSub'
  \/ command = "unsubscribe" /\ reply = "unsubscribeError" /\ UNCHANGED serverSub /\ ServerKeeps

\* The server takes the first command and its reply goes behind all it sent before.
LEMMA ServerAnswers ==
  ASSUME NetTypes, ServerMoves
  PROVE  \E command, reply, r :
           /\ Drops(toServer, toServer', command, r) /\ Appends(toClient, toClient', reply, r)
           /\ Answers(command, reply) /\ link = "up"
           /\ UNCHANGED <<link, connGeneration, due, sstate, subscribeAttempt, flow, tasks,
              history>>
<1>1. ASSUME NEW command, NEW reply, ServerStep(command, reply), Answers(command, reply)
      PROVE  \E c, p, r :
           /\ Drops(toServer, toServer', c, r) /\ Appends(toClient, toClient', p, r)
           /\ Answers(c, p) /\ link = "up"
           /\ UNCHANGED <<link, connGeneration, due, sstate, subscribeAttempt, flow, tasks,
              history>>
  BY <1>1 DEF ServerStep
<1>2. CASE ServerSubscribes
  BY <1>1, <1>2, ServerSteps DEF Answers
<1>3. CASE ServerUnsubscribes
  BY <1>1, <1>3, ServerSteps DEF Answers
<1>4. CASE ServerKeeps
  BY <1>1, <1>4, ServerSteps DEF Answers
<1>5. ASSUME NEW kind \in ReplyErrors, ServerRejects(kind)
      PROVE  ServerStep("subscribe", kind) /\ Answers("subscribe", kind)
  BY <1>5, ServerSteps DEF Answers
<1>6. QED
  BY <1>1, <1>2, <1>3, <1>4, <1>5 DEF ServerMoves

\* The reader takes the first message; a failed unsubscribe reports a disconnect.
LEMMA ReaderReceives ==
  ASSUME NetTypes, Reader
  PROVE  \E kind, r :
           /\ Drops(toClient, toClient', kind, r)
           /\ UNCHANGED <<link, connGeneration, toServer, serverSub, history, sstate,
              subscribeAttempt>>
           /\ due \subseteq due' /\ (kind = "unsubscribeError" /\ r = "live" => due' # {})
           /\ UNCHANGED flow \/ (kind \in SubscribeReplies /\ r = "live"
                  /\ flow'.stage = "none")
<1>1. "unsubscribeError" \notin SubscribeReplies /\ "unsubscribeError" \notin Pushes
  BY DEF SubscribeReplies, ReplyErrors, Pushes
<1>2. ASSUME NEW kind \in SubscribeReplies, SubscribeReplied(kind)
      PROVE  /\ Drops(toClient, toClient', kind, "live")
             /\ UNCHANGED <<link, connGeneration, toServer, serverSub, history, sstate,
                subscribeAttempt, due>>
             /\ flow'.stage = "none"
  BY <1>2, Receives DEF SubscribeReplied, EndFlow, NoFlow, Flow, clientVars, subVars
<1>3. ASSUME NEW kind \in UnsubscribeReplies, UnsubscribeReplied(kind)
      PROVE  /\ Drops(toClient, toClient', kind, "live")
             /\ UNCHANGED <<link, connGeneration, toServer, serverSub, history, sstate,
                subscribeAttempt, flow>>
             /\ due \subseteq due' /\ (kind = "unsubscribeError" => due' # {})
  BY <1>3, Receives DEF UnsubscribeReplied, clientVars, subVars
<1>4. ASSUME NEW kind, LateReply(kind)
      PROVE  /\ Drops(toClient, toClient', kind, "orphan")
             /\ UNCHANGED <<link, connGeneration, toServer, serverSub, history, sstate,
                subscribeAttempt, flow, due>>
  BY <1>4, Receives DEF LateReply, clientVars, subVars
<1>5. ASSUME NEW kind \in Pushes, PushReceived(kind)
      PROVE  /\ Drops(toClient, toClient', kind, "live")
             /\ UNCHANGED <<link, connGeneration, toServer, serverSub, history, sstate,
                subscribeAttempt, flow, due>>
  BY <1>5, Receives DEF PushReceived, clientVars, subVars
<1>6. QED
  BY <1>1, <1>2, <1>3, <1>4, <1>5 DEF Reader

\* A push goes behind all the server sent before.
LEMMA Pushed ==
  ASSUME NetTypes, NEW kind \in Pushes, ServerPushes(kind)
  PROVE  Appends(toClient, toClient', kind, "live")
<1>1. Message(kind, "live") \in Messages
  BY DEF Message, Messages
<1>2. QED
  BY <1>1, Sequences DEF ServerPushes, NetTypes

\* The streams q and p differ in the marks of timed out requests at most.
SameKinds(q, p) ==
  /\ Len(p) = Len(q)
  /\ \A i \in 1..Len(q) : p[i].kind = q[i].kind /\ p[i].request \in {q[i].request, "orphan"}

\* A subscribe that times out leaves no subscribe that waits for its reply.
LEMMA TimesOut ==
  ASSUME NetTypes, RequestTimeout
  PROVE  /\ SameKinds(toServer, toServer') /\ SameKinds(toClient, toClient')
         /\ \A i \in 1..Len(toServer) : ~LiveCommand(i)'
         /\ \A i \in 1..Len(toServer) : Orphan(i)' <=> Orphan(i)
         /\ \A i \in 1..Len(toClient) : IF LiveReply(i) THEN ~LiveReply(i)'
                ELSE toClient'[i].request = toClient[i].request
<1>1. /\ toServer' = Orphaned(toServer, Requests(toServer, {"subscribe"}))
      /\ toClient' = Orphaned(toClient, Requests(toClient, SubscribeReplies))
  BY DEF RequestTimeout
<1>2. SameKinds(toServer, toServer') /\ \A i \in 1..Len(toServer) : ~LiveCommand(i)'
  <2>1. SameKinds(toServer, toServer')
    BY <1>1, OrphanedCommands DEF NetTypes, SameKinds
  <2>2. ASSUME NEW i \in 1..Len(toServer), LiveCommand(i)' PROVE FALSE
    <3>1. toServer'[i].kind = "subscribe" /\ toServer'[i].request = "live"
              /\ i \notin Requests(toServer, {"subscribe"})
      BY <1>1, <2>2, OrphanedCommands DEF NetTypes, LiveCommand
    <3>2. toServer[i].kind = "subscribe" /\ toServer[i].request = "live"
      BY <1>1, <3>1, OrphanedCommands DEF NetTypes
    <3>3. QED
      BY <3>1, <3>2 DEF Requests
  <2>3. QED
    BY <2>1, <2>2
<1>3. /\ SameKinds(toClient, toClient')
      /\ \A i \in 1..Len(toClient) : IF LiveReply(i) THEN ~LiveReply(i)'
             ELSE toClient'[i].request = toClient[i].request
  BY <1>1, OrphanedMessages DEF NetTypes, SameKinds, LiveReply, Requests
<1>4. \A i \in 1..Len(toServer) : Orphan(i)' <=> Orphan(i)
  <2>1. \A i \in Requests(toServer, {"subscribe"}) : toServer[i].kind = "subscribe"
    BY DEF Requests
  <2>2. QED
    BY <1>1, <2>1, OrphanedCommands DEF NetTypes, Orphan
<1>5. QED
  BY <1>2, <1>3, <1>4

\* An unsubscribe that times out changes nothing about subscribes.
LEMMA UnsubscribeTimesOut ==
  ASSUME NetTypes, UnsubscribeTimeout
  PROVE  /\ SameKinds(toServer, toServer') /\ SameKinds(toClient, toClient')
         /\ \A i \in 1..Len(toServer) : LiveCommand(i)' <=> LiveCommand(i)
         /\ \A i \in 1..Len(toClient) : LiveReply(i)' <=> LiveReply(i)
<1>1. ASSUME NEW n \in Requests(toServer, {"unsubscribe"}), toServer' = Orphaned(toServer, {n})
      PROVE  SameKinds(toServer, toServer')
                 /\ \A i \in 1..Len(toServer) : LiveCommand(i)' <=> LiveCommand(i)
  <2>1. SameKinds(toServer, toServer')
    BY <1>1, OrphanedCommands DEF NetTypes, SameKinds
  <2>2. toServer[n].kind # "subscribe" /\ \A i \in 1..Len(toServer) : i # n
            => toServer'[i].request = toServer[i].request
    BY <1>1, OrphanedCommands DEF NetTypes, Requests
  <2>3. QED
    BY <2>1, <2>2 DEF SameKinds, LiveCommand
<1>2. ASSUME NEW n \in Requests(toClient, UnsubscribeReplies),
             toClient' = Orphaned(toClient, {n})
      PROVE  SameKinds(toClient, toClient')
                 /\ \A i \in 1..Len(toClient) : LiveReply(i)' <=> LiveReply(i)
  <2>1. UnsubscribeReplies \cap SubscribeReplies = {}
    BY DEF UnsubscribeReplies, SubscribeReplies, ReplyErrors
  <2>2. SameKinds(toClient, toClient')
    BY <1>2, OrphanedMessages DEF NetTypes, SameKinds
  <2>3. toClient[n].kind \notin SubscribeReplies /\ \A i \in 1..Len(toClient) : i # n
            => toClient'[i].request = toClient[i].request
    BY <1>2, <2>1, OrphanedMessages DEF NetTypes, Requests
  <2>4. QED
    BY <2>2, <2>3 DEF SameKinds, LiveReply
<1>3. UNCHANGED toServer => SameKinds(toServer, toServer')
          /\ \A i \in 1..Len(toServer) : LiveCommand(i)' <=> LiveCommand(i)
  BY DEF SameKinds, LiveCommand
<1>4. UNCHANGED toClient => SameKinds(toClient, toClient')
          /\ \A i \in 1..Len(toClient) : LiveReply(i)' <=> LiveReply(i)
  BY DEF SameKinds, LiveReply
<1>5. QED
  BY <1>1, <1>2, <1>3, <1>4 DEF UnsubscribeTimeout

\* Every step keeps SessionInv: clearConnectedState fails the requests of the session.
LEMMA SessionStep ==
  ASSUME LinkTypes, FlowTypes, NetTypes, SessionInv, [Next]_vars
  PROVE  SessionInv'
<1> USE Lens DEF SessionInv, Connected, LinkTypes, FlowTypes, Links, NoGeneration
<1>1. ASSUME ServerKeeps PROVE SessionInv'
  <2>1. ServerStep("unsubscribe", "unsubscribeError") /\ UNCHANGED serverSub
    BY <1>1, ServerSteps
  <2>2. QED
    BY <2>1 DEF ServerStep
<1>2. ASSUME RequestTimeout PROVE SessionInv'
  <2>1. Len(toServer') = Len(toServer) /\ Len(toClient') = Len(toClient)
    BY <1>2, TimesOut DEF SameKinds
  <2>2. QED
    BY <1>2, <2>1 DEF RequestTimeout, EndFlow, NoFlow, Flow, clientVars, netVars
<1>3. ASSUME UnsubscribeTimeout PROVE SessionInv'
  <2>1. Len(toServer') = Len(toServer) /\ Len(toClient') = Len(toClient)
    BY <1>3, UnsubscribeTimesOut DEF SameKinds
  <2>2. QED
    BY <1>3, <2>1 DEF UnsubscribeTimeout, EndFlow, NoFlow, Flow, clientVars, netVars
<1>4. ASSUME NEW kind \in ReplyErrors, ServerRejects(kind) PROVE SessionInv'
  <2>1. ServerStep("subscribe", kind) /\ UNCHANGED serverSub /\ ~serverSub /\ kind # "already"
    BY <1>4, ServerSteps
  <2>2. QED
    BY <2>1 DEF ServerStep
<1>5. ASSUME NEW kind \in Pushes, ServerPushes(kind) PROVE SessionInv'
  BY <1>5 DEF ServerPushes, clientVars, netVars
<1>6. ASSUME NEW r \in Reports, ReportTearsDown(r) PROVE SessionInv'
  BY <1>6 DEF ReportTearsDown, Teardown, clientVars, netVars
<1>7. ASSUME NEW kind \in SubscribeReplies, SubscribeReplied(kind) PROVE SessionInv'
  <2>1. Drops(toClient, toClient', kind, "live")
    BY <1>7, Receives DEF SubscribeReplied
  <2>2. QED
    BY <1>7, <2>1 DEF SubscribeReplied, EndFlow, NoFlow, Flow, netVars, clientVars, Drops
<1>8. ASSUME NEW kind \in UnsubscribeReplies, UnsubscribeReplied(kind) PROVE SessionInv'
  <2>1. Drops(toClient, toClient', kind, "live")
    BY <1>8, Receives DEF UnsubscribeReplied
  <2>2. QED
    BY <1>8, <2>1
       DEF UnsubscribeReplied, EndFlow, NoFlow, Flow, netVars, clientVars, Drops
<1>9. ASSUME NEW kind \in SubscribeReplies \cup UnsubscribeReplies, LateReply(kind)
      PROVE  SessionInv'
  <2>1. Drops(toClient, toClient', kind, "orphan")
    BY <1>9, Receives DEF LateReply
  <2>2. QED
    BY <1>9, <2>1 DEF LateReply, EndFlow, NoFlow, Flow, netVars, clientVars, Drops
<1>10. ASSUME NEW kind \in Pushes, PushReceived(kind) PROVE SessionInv'
  <2>1. Drops(toClient, toClient', kind, "live")
    BY <1>10, Receives DEF PushReceived
  <2>2. QED
    BY <1>10, <2>1 DEF PushReceived, EndFlow, NoFlow, Flow, netVars, clientVars, Drops
<1>11. ASSUME ServerSubscribes PROVE SessionInv'
  <2>1. ServerStep("subscribe", IF serverSub THEN "already" ELSE "ok") /\ serverSub'
    BY <1>11, ServerSteps
  <2>2. QED
    BY <2>1 DEF ServerStep
<1>12. ASSUME ServerUnsubscribes PROVE SessionInv'
  <2>1. ServerStep("unsubscribe", "unsubscribed") /\ ~serverSub'
    BY <1>12, ServerSteps
  <2>2. QED
    BY <2>1 DEF ServerStep
<1>13. ASSUME Unsubscribe \/ Close \/ LinkFails \/ MalformedReply PROVE SessionInv'
  BY <1>13
     DEF Unsubscribe, Close, LinkFails, MalformedReply, SendUnsubscribe, DontSend,
         FailRequests, FailedFlow, Flow, RepliesAfterClear, NoGeneration, Teardown,
         Received, clientVars, netVars
<1>14. ASSUME Connects \/ SessionEnds \/ TeardownDone \/ GetStateStarts PROVE SessionInv'
  BY <1>14
     DEF Connects, SessionEnds, TeardownDone, GetStateStarts, FailRequests, FailedFlow,
         Flow, RepliesAfterClear, Nothing, NoGeneration, clientVars, netVars
<1>15. ASSUME ResultDropped \/ GetStateReturns \/ ContinueResubscribe \/ GetTokenReturns
       PROVE  SessionInv'
  BY <1>15
     DEF ResultDropped, GetStateReturns, ContinueResubscribe, GetTokenReturns, Outdated,
         EndFlow, NoFlow, Flow, ResultWanted, Nothing, NoGeneration, clientVars, netVars
<1>16. ASSUME GetFails \/ GetTokenUnauthorized \/ SendSubscribe \/ SendNotConnected
       PROVE  SessionInv'
  BY <1>16
     DEF GetFails, GetTokenUnauthorized, SendSubscribe, SendNotConnected, ResultWanted,
         EndFlow, NoFlow, Flow, NoGeneration, Outdated, clientVars, netVars
<1>17. ASSUME SendFails \/ RequestFailed PROVE SessionInv'
  BY <1>17
     DEF SendFails, RequestFailed, ResultWanted, EndFlow, NoFlow, Flow, clientVars,
         netVars
<1>18. ASSUME NEW t \in tasks, ResubscribeStarts(t) \/ PushUnsubscribes(t)
       PROVE  SessionInv'
  BY <1>18
     DEF ResubscribeStarts, PushUnsubscribes, Flow, Nothing, NoGeneration,
         SendUnsubscribe, DontSend, clientVars, netVars
<1>19. CASE UNCHANGED <<link, toServer, serverSub, toClient, flow, connGeneration>>
  BY <1>19
<1>20. QED
  BY <1>1, <1>2, <1>3, <1>4, <1>5, <1>6, <1>7, <1>8, <1>9, <1>10, <1>11, <1>12, <1>13,
     <1>14, <1>15, <1>16, <1>17, <1>18, <1>19
     DEF Next, Application, Failure, Client, SubscribeFlow, Reader, Run, Server, vars,
         SubscribeCalled, ConnectionInvalidated, Sweeps, ReportIgnored, TimerFires,
         Invalidates, Subscribe, ClosedUnsubscribes, MoveToSubscribed, DeltaFailed,
         ErrorOutdated, SubscribeError, PushInvalidates, PushResubscribes, clientVars,
         netVars

\* Which kinds of tasks are outcomes and pushes.
LEMMA OutcomeKinds ==
  /\ \A k \in {"subscribe", "resubscribe", "closed", "invalidate"} : k \notin Outcomes
         /\ k \notin Pushes
  /\ \A k \in Pushes : k \notin Outcomes
  /\ \A k \in SubscribeReplies : k \in Outcomes
  /\ \A k \in SubscribeErrors : k \in Outcomes /\ k # "ok"
  /\ \A k \in {"gone", "timeout", "temporary"} : k \in SubscribeErrors
  /\ "ok" \in Outcomes /\ \A k \in {"pushResubscribe", "pushInvalidate",
     "pushUnsubscribe"} : k \in Pushes
BY DEF Outcomes, SubscribeErrors, SubscribeReplies, ReplyErrors, Pushes

\* Every step keeps GenerationInv.
LEMMA GenerationStep ==
  ASSUME LinkTypes, FlowTypes, TaskTypes, NetTypes, SessionInv, GenerationInv, [Next]_vars
  PROVE  GenerationInv'
<1> USE OutcomeKinds DEF GenerationInv, SessionInv, Connected, LinkTypes, FlowTypes,
    TaskTypes, TaskSet, NoGeneration, clientVars
<1>1. ASSUME NEW r \in Reports, ReportTearsDown(r) PROVE GenerationInv'
  BY <1>1 DEF ReportTearsDown, Teardown, clientVars
<1>2. ASSUME NEW kind \in SubscribeReplies, SubscribeReplied(kind) PROVE GenerationInv'
  BY <1>2 DEF SubscribeReplied, Task, clientVars
<1>3. ASSUME NEW kind \in Pushes, PushReceived(kind) PROVE GenerationInv'
  BY <1>3 DEF PushReceived, Task, clientVars
<1>4. ASSUME NEW t \in tasks, MoveToSubscribed(t) PROVE GenerationInv'
  BY <1>4 DEF MoveToSubscribed, Task, clientVars
<1>5. ASSUME SubscribeCalled \/ Close \/ LinkFails \/ ConnectionInvalidated
      PROVE  GenerationInv'
  BY <1>5
     DEF SubscribeCalled, Close, LinkFails, ConnectionInvalidated, Task, NoGeneration,
         FailRequests, Teardown, clientVars
<1>6. ASSUME RequestTimeout \/ MalformedReply \/ Connects \/ Sweeps PROVE GenerationInv'
  BY <1>6
     DEF RequestTimeout, MalformedReply, Connects, Sweeps, Task, Resubscribe, clientVars
<1>7. ASSUME SessionEnds \/ TeardownDone \/ ResultDropped \/ GetFails PROVE GenerationInv'
  BY <1>7
     DEF SessionEnds, TeardownDone, ResultDropped, GetFails, FailRequests, Resubscribe,
         Task, NoGeneration, clientVars
<1>8. ASSUME RequestFailed \/ TimerFires PROVE GenerationInv'
  BY <1>8 DEF RequestFailed, TimerFires, Task, Resubscribe, clientVars
<1>9. ASSUME NEW t \in tasks, Invalidates(t) \/ Subscribe(t) \/ ClosedUnsubscribes(t)
                 \/ ResubscribeStarts(t)
      PROVE  GenerationInv'
  BY <1>9
     DEF Invalidates, Subscribe, ClosedUnsubscribes, ResubscribeStarts, Resubscribe, Task,
         NoGeneration, clientVars
<1>10. ASSUME NEW t \in tasks, DeltaFailed(t) \/ ErrorOutdated(t) \/ SubscribeError(t)
                  \/ PushUnsubscribes(t)
       PROVE  GenerationInv'
  BY <1>10
     DEF DeltaFailed, ErrorOutdated, SubscribeError, PushUnsubscribes, Task, clientVars
<1>11. ASSUME NEW t \in tasks, PushInvalidates(t) \/ PushResubscribes(t)
       PROVE  GenerationInv'
  BY <1>11 DEF PushInvalidates, PushResubscribes, Task, clientVars
<1>12. CASE UNCHANGED <<link, tasks, connGeneration>>
  BY <1>12
<1>13. QED
  BY <1>1, <1>2, <1>3, <1>4, <1>5, <1>6, <1>7, <1>8, <1>9, <1>10, <1>11, <1>12
     DEF Next, Application, Failure, Client, SubscribeFlow, Reader, Run, Server, vars,
         Unsubscribe, ServerKeeps, UnsubscribeTimeout, ServerRejects, ServerPushes,
         ReportIgnored, GetStateStarts, GetStateReturns, ContinueResubscribe,
         GetTokenReturns, GetTokenUnauthorized, SendSubscribe, SendNotConnected,
         SendFails, UnsubscribeReplied, LateReply, ServerSubscribes, ServerUnsubscribes,
         ServerTakes, clientVars

\* Every step keeps AttemptInv: moveToUnsubscribed starts a new attempt.
LEMMA AttemptStep ==
  ASSUME StateTypes, LinkTypes, FlowTypes, TaskTypes, NetTypes, SessionInv, GenerationInv,
         AttemptInv, [Next]_vars
  PROVE  AttemptInv'
<1> USE OutcomeKinds DEF GenerationInv, SessionInv, AttemptInv, Connected, LinkTypes,
    StateTypes, FlowTypes, TaskTypes, TaskSet, NoGeneration, clientVars, subVars
<1>1. ASSUME NEW kind \in SubscribeReplies, SubscribeReplied(kind) PROVE AttemptInv'
  BY <1>1 DEF SubscribeReplied, EndFlow, NoFlow, Flow, Task, clientVars, subVars
<1>2. ASSUME NEW kind \in Pushes, PushReceived(kind) PROVE AttemptInv'
  BY <1>2 DEF PushReceived, Task, clientVars, subVars
<1>3. ASSUME NEW t \in tasks, MoveToSubscribed(t) PROVE AttemptInv'
  <2>1. (\A u \in tasks' : u \in tasks \/ u.kind = "resubscribe")
        /\ UNCHANGED <<link, subscribeAttempt, flow, connGeneration, history, inflight>>
    <3>1. tasks' \subseteq tasks \cup {Task("resubscribe", 0, t.gen, t.by)}
      BY <1>3 DEF MoveToSubscribed
    <3>2. QED
      BY <1>3, <3>1, TaskFields DEF MoveToSubscribed, clientVars
  <2>2. CASE UNCHANGED sstate
    BY <2>1, <2>2
  <2>3. CASE sstate = "subscribing" /\ SameAttempt(t) /\ SameSession(t)
    <3>1. t.kind = "ok" /\ sstate' = "subscribed" /\ tasks' = tasks \ {t}
      BY <1>3, <2>3 DEF MoveToSubscribed
    <3>2. QED
      BY <2>1, <2>3, <3>1 DEF SameSession
  <2>4. QED
    BY <1>3, <2>2, <2>3 DEF MoveToSubscribed
<1>4. ASSUME SubscribeCalled PROVE AttemptInv'
  BY <1>4 DEF SubscribeCalled, Task, NoGeneration, clientVars, subVars
<1>5. ASSUME Unsubscribe PROVE AttemptInv'
  BY <1>5 DEF Unsubscribe, MoveToUnsubscribed, clientVars, subVars
<1>6. ASSUME Close PROVE AttemptInv'
  BY <1>6
     DEF Close, FailRequests, FailedFlow, Flow, Task, NoGeneration, clientVars, subVars
<1>7. ASSUME ConnectionInvalidated PROVE AttemptInv'
  BY <1>7 DEF ConnectionInvalidated, Task, clientVars, subVars
<1>8. ASSUME RequestTimeout PROVE AttemptInv'
  BY <1>8 DEF RequestTimeout, EndFlow, NoFlow, Flow, Task, clientVars, subVars
<1>9. ASSUME MalformedReply PROVE AttemptInv'
  BY <1>9 DEF MalformedReply, FailedFlow, Flow, clientVars, subVars
<1>10. ASSUME Sweeps PROVE AttemptInv'
  BY <1>10 DEF Sweeps, Resubscribe, Task, clientVars, subVars
<1>11. ASSUME SessionEnds PROVE AttemptInv'
  BY <1>11 DEF SessionEnds, FailRequests, FailedFlow, Flow, clientVars, subVars
<1>12. ASSUME TeardownDone PROVE AttemptInv'
  BY <1>12 DEF TeardownDone, MoveToSubscribing, clientVars, subVars
<1>13. ASSUME GetStateStarts PROVE AttemptInv'
  BY <1>13 DEF GetStateStarts, Flow, Nothing, NoGeneration, clientVars, subVars
<1>14. ASSUME ResultDropped PROVE AttemptInv'
  BY <1>14
     DEF ResultDropped, Outdated, EndFlow, NoFlow, Flow, Resubscribe, Task, clientVars,
         subVars
<1>15. ASSUME GetStateReturns PROVE AttemptInv'
  BY <1>15
     DEF GetStateReturns, ResultWanted, Outdated, Flow, Nothing, NoGeneration, clientVars,
         subVars
<1>16. ASSUME ContinueResubscribe PROVE AttemptInv'
  BY <1>16 DEF ContinueResubscribe, Flow, Nothing, NoGeneration, clientVars, subVars
<1>17. ASSUME GetTokenReturns PROVE AttemptInv'
  BY <1>17
     DEF GetTokenReturns, ResultWanted, Outdated, Flow, NoGeneration, clientVars, subVars
<1>18. ASSUME GetFails PROVE AttemptInv'
  BY <1>18
     DEF GetFails, ResultWanted, EndFlow, NoFlow, Flow, Task, NoGeneration, clientVars,
         subVars
<1>19. ASSUME GetTokenUnauthorized PROVE AttemptInv'
  BY <1>19
     DEF GetTokenUnauthorized, ResultWanted, EndFlow, NoFlow, Flow, MoveToUnsubscribed,
         clientVars, subVars
<1>20. ASSUME SendSubscribe PROVE AttemptInv'
  BY <1>20 DEF SendSubscribe, ResultWanted, Outdated, Flow, clientVars, subVars
<1>21. ASSUME SendNotConnected PROVE AttemptInv'
  BY <1>21 DEF SendNotConnected, ResultWanted, EndFlow, NoFlow, Flow, clientVars, subVars
<1>22. ASSUME SendFails PROVE AttemptInv'
  BY <1>22 DEF SendFails, ResultWanted, EndFlow, NoFlow, Flow, clientVars, subVars
<1>23. ASSUME RequestFailed PROVE AttemptInv'
  BY <1>23 DEF RequestFailed, EndFlow, NoFlow, Flow, Task, clientVars, subVars
<1>24. ASSUME TimerFires PROVE AttemptInv'
  BY <1>24 DEF TimerFires, Resubscribe, Task, clientVars, subVars
<1>25. ASSUME NEW t \in tasks, Invalidates(t) PROVE AttemptInv'
  BY <1>25 DEF Invalidates, Nothing, clientVars, subVars
<1>26. ASSUME NEW t \in tasks, Subscribe(t) PROVE AttemptInv'
  BY <1>26 DEF Subscribe, Resubscribe, Task, clientVars, subVars
<1>27. ASSUME NEW t \in tasks, ClosedUnsubscribes(t) PROVE AttemptInv'
  BY <1>27 DEF ClosedUnsubscribes, MoveToUnsubscribed, clientVars, subVars
<1>28. ASSUME NEW t \in tasks, ResubscribeStarts(t) PROVE AttemptInv'
  BY <1>28 DEF ResubscribeStarts, Flow, Nothing, NoGeneration, clientVars, subVars
<1>29. ASSUME NEW t \in tasks, DeltaFailed(t) PROVE AttemptInv'
  BY <1>29 DEF DeltaFailed, SameAttempt, SameSession, clientVars, subVars
<1>30. ASSUME NEW t \in tasks, ErrorOutdated(t) PROVE AttemptInv'
  BY <1>30 DEF ErrorOutdated, IsCurrent, Task, clientVars, subVars
<1>31. ASSUME NEW t \in tasks, SubscribeError(t) PROVE AttemptInv'
  BY <1>31 DEF SubscribeError, IsCurrent, MoveToUnsubscribed, Nothing, clientVars, subVars
<1>32. ASSUME NEW t \in tasks, PushUnsubscribes(t) PROVE AttemptInv'
  BY <1>32 DEF PushUnsubscribes, MoveToUnsubscribed, clientVars, subVars
<1>33. ASSUME NEW t \in tasks, PushInvalidates(t) PROVE AttemptInv'
  BY <1>33 DEF PushInvalidates, Nothing, Task, clientVars, subVars
<1>34. ASSUME NEW t \in tasks, PushResubscribes(t) PROVE AttemptInv'
  BY <1>34 DEF PushResubscribes, MoveToSubscribing, Task, clientVars, subVars
<1>35. CASE UNCHANGED <<sstate, subscribeAttempt, flow, tasks, connGeneration>>
  BY <1>35
<1>36. QED
  BY <1>1, <1>2, <1>3, <1>4, <1>5, <1>6, <1>7, <1>8, <1>9, <1>10, <1>11, <1>12, <1>13,
     <1>14, <1>15, <1>16, <1>17, <1>18, <1>19, <1>20, <1>21, <1>22, <1>23, <1>24, <1>25,
     <1>26, <1>27, <1>28, <1>29, <1>30, <1>31, <1>32, <1>33, <1>34, <1>35
     DEF Next, Application, Failure, Client, SubscribeFlow, Reader, Run, Server, vars,
         LinkFails, ServerKeeps, UnsubscribeTimeout, ServerRejects, ServerPushes,
         Connects, ReportTearsDown, ReportIgnored, UnsubscribeReplied, LateReply,
         ServerSubscribes, ServerUnsubscribes, Teardown, ServerTakes, clientVars, subVars

\* Every step keeps ClosedInv.
LEMMA ClosedStep ==
  ASSUME ClosedInv, [Next]_vars
  PROVE  ClosedInv'
<1> USE OutcomeKinds DEF ClosedInv, clientVars
<1>1. ASSUME NEW r \in Reports, ReportTearsDown(r) PROVE ClosedInv'
  BY <1>1 DEF ReportTearsDown, Teardown, clientVars
<1>2. ASSUME NEW kind \in SubscribeReplies, SubscribeReplied(kind) PROVE ClosedInv'
  BY <1>2 DEF SubscribeReplied, Task, clientVars
<1>3. ASSUME NEW kind \in Pushes, PushReceived(kind) PROVE ClosedInv'
  BY <1>3 DEF PushReceived, Task, clientVars
<1>4. ASSUME NEW t \in tasks, MoveToSubscribed(t) PROVE ClosedInv'
  BY <1>4 DEF MoveToSubscribed, SameAttempt, SameSession, Task, clientVars
<1>5. ASSUME SubscribeCalled \/ Close \/ LinkFails \/ ConnectionInvalidated
      PROVE  ClosedInv'
  BY <1>5
     DEF SubscribeCalled, Close, LinkFails, ConnectionInvalidated, Task, NoGeneration,
         Teardown, clientVars
<1>6. ASSUME RequestTimeout \/ MalformedReply \/ Connects \/ Sweeps PROVE ClosedInv'
  BY <1>6
     DEF RequestTimeout, MalformedReply, Connects, Sweeps, Task, Resubscribe, clientVars
<1>7. ASSUME SessionEnds \/ TeardownDone \/ ResultDropped \/ GetFails PROVE ClosedInv'
  BY <1>7
     DEF SessionEnds, TeardownDone, ResultDropped, GetFails, Resubscribe, Task,
         NoGeneration, clientVars
<1>8. ASSUME RequestFailed \/ TimerFires PROVE ClosedInv'
  BY <1>8 DEF RequestFailed, TimerFires, Task, Resubscribe, clientVars
<1>9. ASSUME NEW t \in tasks, Invalidates(t) \/ Subscribe(t) \/ ClosedUnsubscribes(t)
                 \/ ResubscribeStarts(t)
      PROVE  ClosedInv'
  BY <1>9
     DEF Invalidates, Subscribe, ClosedUnsubscribes, ResubscribeStarts, Resubscribe, Task,
         NoGeneration, clientVars
<1>10. ASSUME NEW t \in tasks, DeltaFailed(t) \/ ErrorOutdated(t) \/ SubscribeError(t)
                  \/ PushUnsubscribes(t)
       PROVE  ClosedInv'
  BY <1>10
     DEF DeltaFailed, ErrorOutdated, SubscribeError, PushUnsubscribes, SameAttempt,
         SameSession, Task, clientVars
<1>11. ASSUME NEW t \in tasks, PushInvalidates(t) \/ PushResubscribes(t) PROVE ClosedInv'
  BY <1>11 DEF PushInvalidates, PushResubscribes, Task, clientVars
<1>12. CASE UNCHANGED <<tasks, link>>
  BY <1>12
<1>13. QED
  BY <1>1, <1>2, <1>3, <1>4, <1>5, <1>6, <1>7, <1>8, <1>9, <1>10, <1>11, <1>12
     DEF Next, Application, Failure, Client, SubscribeFlow, Reader, Run, Server, vars,
         Unsubscribe, ServerKeeps, UnsubscribeTimeout, ServerRejects, ServerPushes,
         ReportIgnored, GetStateStarts, GetStateReturns, ContinueResubscribe,
         GetTokenReturns, GetTokenUnauthorized, SendSubscribe, SendNotConnected,
         SendFails, UnsubscribeReplied, LateReply, ServerSubscribes, ServerUnsubscribes,
         ServerTakes, clientVars

\* Every step keeps OriginInv.
LEMMA OriginStep ==
  ASSUME LinkTypes, SessionInv, OriginInv, [Next]_vars
  PROVE  OriginInv'
<1> USE OutcomeKinds DEF OriginInv, SessionInv, LinkTypes, NoGeneration
<1>1. ASSUME NEW kind \in SubscribeReplies, SubscribeReplied(kind) PROVE OriginInv'
  BY <1>1 DEF SubscribeReplied, Task
<1>2. ASSUME NEW kind \in Pushes, PushReceived(kind) PROVE OriginInv'
  BY <1>2 DEF PushReceived, Task
<1>3. ASSUME NEW t \in tasks, MoveToSubscribed(t) PROVE OriginInv'
  BY <1>3 DEF MoveToSubscribed, SameAttempt, SameSession, Task
<1>4. ASSUME SubscribeCalled \/ Close \/ ConnectionInvalidated PROVE OriginInv'
  BY <1>4 DEF SubscribeCalled, Close, ConnectionInvalidated, Task, NoGeneration
<1>5. ASSUME RequestTimeout \/ Sweeps \/ ResultDropped PROVE OriginInv'
  BY <1>5 DEF RequestTimeout, Sweeps, ResultDropped, Task, Resubscribe
<1>6. ASSUME GetFails \/ RequestFailed \/ TimerFires PROVE OriginInv'
  BY <1>6 DEF GetFails, RequestFailed, TimerFires, Task, NoGeneration, Resubscribe
<1>7. ASSUME NEW t \in tasks, Invalidates(t) \/ Subscribe(t) \/ ClosedUnsubscribes(t)
                 \/ ResubscribeStarts(t)
      PROVE  OriginInv'
  BY <1>7
     DEF Invalidates, Subscribe, ClosedUnsubscribes, ResubscribeStarts, Resubscribe, Task,
         NoGeneration
<1>8. ASSUME NEW t \in tasks, DeltaFailed(t) \/ ErrorOutdated(t) \/ SubscribeError(t)
                 \/ PushUnsubscribes(t)
      PROVE  OriginInv'
  BY <1>8
     DEF DeltaFailed, ErrorOutdated, SubscribeError, PushUnsubscribes, SameAttempt,
         SameSession, Task
<1>9. ASSUME NEW t \in tasks, PushInvalidates(t) \/ PushResubscribes(t) PROVE OriginInv'
  BY <1>9 DEF PushInvalidates, PushResubscribes, Task
<1>10. CASE UNCHANGED <<tasks>>
  BY <1>10
<1>11. QED
  BY <1>1, <1>2, <1>3, <1>4, <1>5, <1>6, <1>7, <1>8, <1>9, <1>10
     DEF Next, Application, Failure, Client, SubscribeFlow, Reader, Run, Server, vars,
         Unsubscribe, LinkFails, ServerKeeps, UnsubscribeTimeout, MalformedReply,
         ServerRejects, ServerPushes, Connects, SessionEnds, TeardownDone,
         ReportTearsDown, ReportIgnored, GetStateStarts, GetStateReturns,
         ContinueResubscribe, GetTokenReturns, GetTokenUnauthorized, SendSubscribe,
         SendNotConnected, SendFails, UnsubscribeReplied, LateReply, ServerSubscribes,
         ServerUnsubscribes, Teardown, ServerTakes

\* Every step keeps ReaderInv: the reader takes nothing while it applies a message.
LEMMA ReaderStep ==
  ASSUME LinkTypes, FlowTypes, TaskTypes, SessionInv, GenerationInv, ReaderInv, [Next]_vars
  PROVE  ReaderInv'
<1> USE OutcomeKinds DEF ReaderInv, IsPush, IsOutcome, GenerationInv, SessionInv,
    Connected, ReaderBusy, LinkTypes, FlowTypes, TaskTypes, TaskSet, NoGeneration, clientVars
<1>1. ASSUME NEW kind \in SubscribeReplies, SubscribeReplied(kind) PROVE ReaderInv'
  BY <1>1 DEF SubscribeReplied, Task, clientVars
<1>2. ASSUME NEW kind \in Pushes, PushReceived(kind) PROVE ReaderInv'
  BY <1>2 DEF PushReceived, Task, clientVars
<1>3. ASSUME NEW t \in tasks, MoveToSubscribed(t) PROVE ReaderInv'
  BY <1>3 DEF MoveToSubscribed, SameAttempt, SameSession, Task, clientVars
<1>4. ASSUME SubscribeCalled \/ Close \/ ConnectionInvalidated \/ RequestTimeout
      PROVE  ReaderInv'
  BY <1>4
     DEF SubscribeCalled, Close, ConnectionInvalidated, RequestTimeout, Task,
         NoGeneration, FailRequests, clientVars
<1>5. ASSUME Sweeps \/ SessionEnds \/ ResultDropped \/ GetFails PROVE ReaderInv'
  BY <1>5
     DEF Sweeps, SessionEnds, ResultDropped, GetFails, Resubscribe, Task, FailRequests,
         NoGeneration, clientVars
<1>6. ASSUME RequestFailed \/ TimerFires PROVE ReaderInv'
  BY <1>6 DEF RequestFailed, TimerFires, Task, Resubscribe, clientVars
<1>7. ASSUME NEW t \in tasks, Invalidates(t) \/ Subscribe(t) \/ ClosedUnsubscribes(t)
                 \/ ResubscribeStarts(t)
      PROVE  ReaderInv'
  BY <1>7
     DEF Invalidates, Subscribe, ClosedUnsubscribes, ResubscribeStarts, Resubscribe, Task,
         NoGeneration, clientVars
<1>8. ASSUME NEW t \in tasks, DeltaFailed(t) \/ ErrorOutdated(t) \/ SubscribeError(t)
                 \/ PushUnsubscribes(t)
      PROVE  ReaderInv'
  BY <1>8
     DEF DeltaFailed, ErrorOutdated, SubscribeError, PushUnsubscribes, SameAttempt,
         SameSession, Task, clientVars
<1>9. ASSUME NEW t \in tasks, PushInvalidates(t) \/ PushResubscribes(t) PROVE ReaderInv'
  BY <1>9 DEF PushInvalidates, PushResubscribes, Task, clientVars
<1>10. CASE UNCHANGED <<tasks, connGeneration>>
  BY <1>10
<1>11. QED
  BY <1>1, <1>2, <1>3, <1>4, <1>5, <1>6, <1>7, <1>8, <1>9, <1>10
     DEF Next, Application, Failure, Client, SubscribeFlow, Reader, Run, Server, vars,
         Unsubscribe, LinkFails, ServerKeeps, UnsubscribeTimeout, MalformedReply,
         ServerRejects, ServerPushes, Connects, TeardownDone, ReportTearsDown,
         ReportIgnored, GetStateStarts, GetStateReturns, ContinueResubscribe,
         GetTokenReturns, GetTokenUnauthorized, SendSubscribe, SendNotConnected,
         SendFails, UnsubscribeReplied, LateReply, ServerSubscribes, ServerUnsubscribes,
         Teardown, ServerTakes, clientVars

\* Every step keeps OutcomeInv: inflight is reset before the outcome is applied, by one flow.
LEMMA OutcomeStep ==
  ASSUME LinkTypes, StateTypes, FlowTypes, TaskTypes, SessionInv, GenerationInv,
         AttemptInv, FlowInv, SubscribedHasSession, OutcomeInv, [Next]_vars
  PROVE  OutcomeInv'
<1> USE OutcomeKinds DEF OutcomeInv, Agreed, SubscribedHasSession, IsOutcome,
    GenerationInv, SessionInv, FlowInv, Connected, LinkTypes, FlowTypes, TaskTypes,
    TaskSet, NoGeneration, clientVars, subVars
<1>1. ASSUME NEW r \in Reports, ReportTearsDown(r) PROVE OutcomeInv'
  BY <1>1 DEF ReportTearsDown, Teardown, clientVars, subVars
<1>2. ASSUME NEW kind \in SubscribeReplies, SubscribeReplied(kind) PROVE OutcomeInv'
  BY <1>2 DEF SubscribeReplied, EndFlow, NoFlow, Flow, Task, clientVars, subVars
<1>3. ASSUME NEW kind \in Pushes, PushReceived(kind) PROVE OutcomeInv'
  BY <1>3 DEF PushReceived, Task, clientVars, subVars
<1>4. ASSUME NEW t \in tasks, Subscribe(t) PROVE OutcomeInv'
  BY <1>4 DEF Subscribe, Resubscribe, Task, clientVars, subVars
<1>5. ASSUME NEW t \in tasks, ResubscribeStarts(t) PROVE OutcomeInv'
  BY <1>5
     DEF ResubscribeStarts, Flow, Nothing, NoGeneration, InflightRace, clientVars, subVars
<1>6. ASSUME NEW t \in tasks, MoveToSubscribed(t) PROVE OutcomeInv'
  <2>1. (\A u \in tasks' : u \in tasks \/ u.kind = "resubscribe")
        /\ UNCHANGED <<link, subscribeAttempt, flow, connGeneration, history, inflight>>
    <3>1. tasks' \subseteq tasks \cup {Task("resubscribe", 0, t.gen, t.by)}
      BY <1>6 DEF MoveToSubscribed
    <3>2. QED
      BY <1>6, <3>1, TaskFields DEF MoveToSubscribed, clientVars
  <2>2. CASE UNCHANGED sstate
    BY <2>1, <2>2
  <2>3. CASE sstate = "subscribing" /\ SameAttempt(t) /\ SameSession(t)
    <3>1. t.kind = "ok" /\ sstate' = "subscribed" /\ tasks' = tasks \ {t}
      BY <1>6, <2>3 DEF MoveToSubscribed
    <3>2. QED
      BY <2>1, <2>3, <3>1 DEF SameSession
  <2>4. QED
    BY <1>6, <2>2, <2>3 DEF MoveToSubscribed
<1>7. ASSUME SubscribeCalled \/ Unsubscribe \/ Close \/ LinkFails PROVE OutcomeInv'
  BY <1>7
     DEF SubscribeCalled, Unsubscribe, Close, LinkFails, Task, NoGeneration,
         MoveToUnsubscribed, FailRequests, FailedFlow, Flow, Teardown, clientVars, subVars
<1>8. ASSUME ConnectionInvalidated \/ RequestTimeout \/ MalformedReply \/ Connects
      PROVE  OutcomeInv'
  BY <1>8
     DEF ConnectionInvalidated, RequestTimeout, MalformedReply, Connects, Task, EndFlow,
         NoFlow, Flow, FailedFlow, clientVars, subVars
<1>9. ASSUME Sweeps \/ SessionEnds \/ TeardownDone \/ GetStateStarts PROVE OutcomeInv'
  BY <1>9
     DEF Sweeps, SessionEnds, TeardownDone, GetStateStarts, Resubscribe, Task,
         FailRequests, FailedFlow, Flow, MoveToSubscribing, Nothing, NoGeneration,
         clientVars, subVars
<1>10. ASSUME ResultDropped \/ GetStateReturns \/ ContinueResubscribe \/ GetTokenReturns
       PROVE  OutcomeInv'
  BY <1>10
     DEF ResultDropped, GetStateReturns, ContinueResubscribe, GetTokenReturns, Outdated,
         EndFlow, NoFlow, Flow, Resubscribe, Task, ResultWanted, Nothing, NoGeneration,
         clientVars, subVars
<1>11. ASSUME GetFails \/ GetTokenUnauthorized \/ SendSubscribe \/ SendNotConnected
       PROVE  OutcomeInv'
  BY <1>11
     DEF GetFails, GetTokenUnauthorized, SendSubscribe, SendNotConnected, ResultWanted,
         EndFlow, NoFlow, Flow, Task, NoGeneration, MoveToUnsubscribed, Outdated,
         clientVars, subVars
<1>12. ASSUME SendFails \/ RequestFailed \/ TimerFires PROVE OutcomeInv'
  BY <1>12
     DEF SendFails, RequestFailed, TimerFires, ResultWanted, EndFlow, NoFlow, Flow, Task,
         Resubscribe, clientVars, subVars
<1>13. ASSUME NEW t \in tasks, Invalidates(t) \/ ClosedUnsubscribes(t) \/ DeltaFailed(t)
                  \/ ErrorOutdated(t)
       PROVE  OutcomeInv'
  BY <1>13
     DEF Invalidates, ClosedUnsubscribes, DeltaFailed, ErrorOutdated, Nothing,
         MoveToUnsubscribed, SameAttempt, SameSession, IsCurrent, Task, clientVars,
         subVars
<1>14. ASSUME NEW t \in tasks, SubscribeError(t) \/ PushUnsubscribes(t)
                  \/ PushInvalidates(t) \/ PushResubscribes(t)
       PROVE  OutcomeInv'
  BY <1>14
     DEF SubscribeError, PushUnsubscribes, PushInvalidates, PushResubscribes, IsCurrent,
         MoveToUnsubscribed, Nothing, PushRace, InflightRace, Task, MoveToSubscribing,
         clientVars, subVars
<1>15. CASE UNCHANGED <<link, history, sstate, flow, tasks, connGeneration>>
  BY <1>15
<1>16. QED
  BY <1>1, <1>2, <1>3, <1>4, <1>5, <1>6, <1>7, <1>8, <1>9, <1>10, <1>11, <1>12, <1>13,
     <1>14, <1>15
     DEF Next, Application, Failure, Client, SubscribeFlow, Reader, Run, Server, vars,
         ServerKeeps, UnsubscribeTimeout, ServerRejects, ServerPushes, ReportIgnored,
         UnsubscribeReplied, LateReply, ServerSubscribes, ServerUnsubscribes, ServerTakes,
         clientVars, subVars

\* Every step keeps SubscribedHasSession: moveToSubscribed compares the session, and a teardown
\* moves the subscription to subscribing before the client can connect again.
LEMMA HasSessionStep ==
  ASSUME LinkTypes, TaskTypes, GenerationInv, SubscribedHasSession, [Next]_vars
  PROVE  SubscribedHasSession'
<1> USE OutcomeKinds DEF SubscribedHasSession, GenerationInv, Connected, LinkTypes,
    TaskTypes, TaskSet, clientVars, subVars
<1>1. ASSUME NEW r \in Reports, ReportTearsDown(r) PROVE SubscribedHasSession'
  BY <1>1 DEF ReportTearsDown, Teardown, clientVars, subVars
<1>2. ASSUME NEW t \in tasks, MoveToSubscribed(t) PROVE SubscribedHasSession'
  <2>1. UNCHANGED link /\ (sstate' = "subscribed"
            => sstate = "subscribed" \/ (t.kind = "ok" /\ t.gen = connGeneration))
    BY <1>2 DEF MoveToSubscribed, SameSession, clientVars
  <2>2. QED
    BY <2>1
<1>3. ASSUME Unsubscribe \/ Close \/ LinkFails \/ MalformedReply
      PROVE  SubscribedHasSession'
  BY <1>3
     DEF Unsubscribe, Close, LinkFails, MalformedReply, MoveToUnsubscribed, Teardown,
         clientVars, subVars
<1>4. ASSUME Connects \/ SessionEnds \/ TeardownDone \/ GetTokenUnauthorized
      PROVE  SubscribedHasSession'
  BY <1>4
     DEF Connects, SessionEnds, TeardownDone, GetTokenUnauthorized, MoveToSubscribing,
         MoveToUnsubscribed, clientVars, subVars
<1>5. ASSUME NEW t \in tasks, Subscribe(t) \/ ClosedUnsubscribes(t) \/ SubscribeError(t)
      PROVE  SubscribedHasSession'
  BY <1>5
     DEF Subscribe, ClosedUnsubscribes, SubscribeError, MoveToUnsubscribed, IsCurrent,
         clientVars, subVars
<1>6. ASSUME NEW t \in tasks, PushUnsubscribes(t) \/ PushResubscribes(t)
      PROVE  SubscribedHasSession'
  BY <1>6
     DEF PushUnsubscribes, PushResubscribes, MoveToUnsubscribed, MoveToSubscribing,
         clientVars, subVars
<1>7. CASE UNCHANGED <<link, sstate>>
  BY <1>7
<1>8. QED
  BY <1>1, <1>2, <1>3, <1>4, <1>5, <1>6, <1>7
     DEF Next, Application, Failure, Client, SubscribeFlow, Reader, Run, Server, vars,
         SubscribeCalled, ConnectionInvalidated, ServerKeeps, RequestTimeout,
         UnsubscribeTimeout, ServerRejects, ServerPushes, Sweeps, ReportIgnored,
         GetStateStarts, ResultDropped, GetStateReturns, ContinueResubscribe,
         GetTokenReturns, GetFails, SendSubscribe, SendNotConnected, SendFails,
         RequestFailed, SubscribeReplied, UnsubscribeReplied, LateReply, PushReceived,
         TimerFires, ServerSubscribes, ServerUnsubscribes, Invalidates, ResubscribeStarts,
         DeltaFailed, ErrorOutdated, PushInvalidates, ServerTakes, clientVars, subVars

\* Which kinds of messages answer what.
LEMMA ReplyKinds ==
  /\ {"ok", "already"} \subseteq SubscribeReplies
  /\ \A k \in {"unsubscribed",
     "unsubscribeError"} \cup UnsubscribeReplies : k \notin SubscribeReplies /\ k \notin Pushes
  /\ \A k \in Pushes : k \notin SubscribeReplies /\ k \notin UnsubscribeReplies
  /\ \A k \in ReplyErrors : k # "ok" /\ k \in SubscribeReplies
  /\ \A k \in SubscribeReplies : k \notin UnsubscribeReplies /\ k \notin Pushes
  /\ "unsubscribeError" \in UnsubscribeReplies
BY DEF SubscribeReplies, ReplyErrors, UnsubscribeReplies, Pushes

\* The commands after the first was taken.
LEMMA CommandTaken ==
  ASSUME NetTypes, NetTypes', NEW kind, NEW request, Drops(toServer, toServer', kind, request)
  PROVE  /\ Len(toServer') \in Nat /\ Len(toServer) = Len(toServer') + 1
         /\ \A i \in 1..Len(toServer') : /\ LiveCommand(i)' <=> LiveCommand(i + 1)
                                         /\ toServer'[i].kind = toServer[i + 1].kind
         /\ LiveCommand(1) <=> kind = "subscribe" /\ request = "live"
         /\ toServer[1].kind = kind /\ toServer[1].request = request
BY Lens DEF Drops, LiveCommand, NetTypes

\* The commands after one was added.
LEMMA CommandAdded ==
  ASSUME NetTypes, NetTypes', NEW kind, NEW request, Appends(toServer, toServer', kind, request)
  PROVE  /\ Len(toServer) \in Nat /\ Len(toServer') = Len(toServer) + 1
         /\ \A i \in 1..Len(toServer) : /\ LiveCommand(i)' <=> LiveCommand(i)
                                        /\ toServer'[i].kind = toServer[i].kind
         /\ \A i \in 1..Len(toServer') : i > Len(toServer) =>
              /\ LiveCommand(i)' <=> kind = "subscribe" /\ request = "live"
              /\ toServer'[i].kind = kind
BY Lens DEF Appends, LiveCommand, NetTypes

\* The messages after the first was received.
LEMMA MessageTaken ==
  ASSUME NetTypes, NetTypes', NEW kind, NEW request, Drops(toClient, toClient', kind, request)
  PROVE  /\ Len(toClient') \in Nat /\ Len(toClient) = Len(toClient') + 1
         /\ \A i \in 1..Len(toClient') : /\ LiveReply(i)' <=> LiveReply(i + 1)
                                         /\ Failed(i)' <=> Failed(i + 1)
                                         /\ toClient'[i].kind = toClient[i + 1].kind
         /\ LiveReply(1) <=> kind \in SubscribeReplies /\ request = "live"
         /\ Failed(1) <=> kind = "unsubscribeError" /\ request = "live"
         /\ toClient[1].kind = kind
BY Lens DEF Drops, LiveReply, Failed, NetTypes

\* The messages after one was added.
LEMMA MessageAdded ==
  ASSUME NetTypes, NetTypes', NEW kind, NEW request, Appends(toClient, toClient', kind, request)
  PROVE  /\ Len(toClient) \in Nat /\ Len(toClient') = Len(toClient) + 1
         /\ \A i \in 1..Len(toClient) : /\ LiveReply(i)' <=> LiveReply(i)
                                        /\ Failed(i)' <=> Failed(i)
                                        /\ toClient'[i].kind = toClient[i].kind
         /\ \A i \in 1..Len(toClient') : i > Len(toClient) =>
              /\ LiveReply(i)' <=> kind \in SubscribeReplies /\ request = "live"
              /\ Failed(i)' <=> kind = "unsubscribeError" /\ request = "live"
              /\ toClient'[i].kind = kind
BY Lens DEF Appends, LiveReply, Failed, NetTypes

\* Marks of the commands, when the stream stays.
LEMMA CommandsKept ==
  ASSUME UNCHANGED toServer
  PROVE  \A i \in 1..Len(toServer) : LiveCommand(i)' <=> LiveCommand(i)
BY DEF LiveCommand

\* Marks of the messages, when the stream stays.
LEMMA MessagesKept ==
  ASSUME UNCHANGED toClient
  PROVE  \A i \in 1..Len(toClient) : (LiveReply(i)' <=> LiveReply(i))
             /\ (Failed(i)' <=> Failed(i))
BY DEF LiveReply, Failed

\* Every step keeps LiveInv: one flow at a time sends a subscribe.
LEMMA LiveStep ==
  ASSUME LinkTypes, FlowTypes, FlowInv, NetTypes, NetTypes', SessionInv, LiveInv, [Next]_vars
  PROVE  LiveInv'
<1> USE Lens, CommandsKept, MessagesKept DEF LiveInv, SessionInv, Connected, LinkTypes,
    FlowTypes, clientVars, netVars
<1>1. ASSUME Unsubscribe PROVE LiveInv'
  <2>1. UNCHANGED <<link, flow, toClient>>
            /\ \A i \in 1..Len(toClient) : LiveReply(i)' <=> LiveReply(i)
    BY <1>1 DEF Unsubscribe, clientVars
  <2>2. CASE link = "up" /\ sstate # "unsubscribed"
    <3>1. Appends(toServer, toServer', "unsubscribe", "live")
      BY <1>1, <2>2, SendsUnsubscribe DEF Unsubscribe
    <3>2. /\ Len(toServer) \in Nat /\ Len(toServer') = Len(toServer) + 1
          /\ \A i \in 1..Len(toServer) : LiveCommand(i)' <=> LiveCommand(i)
          /\ \A i \in 1..Len(toServer') : i > Len(toServer) => ~LiveCommand(i)'
      BY <3>1, CommandAdded
    <3>3. \A i \in 1..Len(toServer') : LiveCommand(i)'
              => i \in 1..Len(toServer) /\ LiveCommand(i)
      BY <3>2
    <3>4. QED
      BY <2>1, <3>3
  <2>3. CASE ~(link = "up" /\ sstate # "unsubscribed")
    <3>1. UNCHANGED toServer
      BY <1>1, <2>3 DEF Unsubscribe, DontSend, SendUnsubscribe
    <3>2. QED
      BY <2>1, <3>1
  <2>4. QED
    BY <2>2, <2>3
<1>2. ASSUME ServerMoves PROVE LiveInv'
  <2>1. PICK command, reply, r :
           /\ Drops(toServer, toServer', command, r) /\ Appends(toClient, toClient', reply, r)
           /\ Answers(command, reply) /\ link = "up"
           /\ UNCHANGED <<link, connGeneration, due, sstate, subscribeAttempt, flow, tasks,
              history>>
    BY <1>2, ServerAnswers
  <2>2. /\ Len(toServer') \in Nat /\ Len(toServer) = Len(toServer') + 1
        /\ \A i \in 1..Len(toServer') : (LiveCommand(i)' <=> LiveCommand(i + 1))
               /\ toServer'[i].kind = toServer[i + 1].kind
        /\ toServer[1].kind = command /\ (LiveCommand(1) <=> command = "subscribe"
               /\ r = "live")
    BY <2>1, CommandTaken
  <2>3. (reply \in SubscribeReplies <=> command = "subscribe") /\ reply \notin Pushes
    BY <2>1, ReplyKinds DEF Answers
  <2>4. /\ Len(toClient) \in Nat /\ Len(toClient') = Len(toClient) + 1
        /\ \A i \in 1..Len(toClient) : /\ LiveReply(i)' <=> LiveReply(i)
                                       /\ Failed(i)' <=> Failed(i)
                                       /\ toClient'[i].kind = toClient[i].kind
        /\ \A i \in 1..Len(toClient') : i > Len(toClient) =>
             /\ LiveReply(i)' <=> command = "subscribe" /\ r = "live"
             /\ Failed(i)' <=> reply = "unsubscribeError" /\ r = "live"
             /\ toClient'[i].kind = reply
    BY <2>1, <2>3, MessageAdded
  <2>5. ASSUME NEW i \in 1..Len(toServer'), LiveCommand(i)'
        PROVE  /\ flow.stage = "sent" /\ \A j \in 1..Len(toServer') : LiveCommand(j)' => i = j
               /\ \A j \in 1..Len(toClient') : ~LiveReply(j)'
    <3>1. i + 1 \in 1..Len(toServer) /\ LiveCommand(i + 1)
      BY <2>2, <2>5
    <3>2. 1 \in 1..Len(toServer)
      BY <3>1, <2>2
    <3>3. ~LiveCommand(1)
      BY <2>1, <3>1, <3>2 DEF LiveInv
    <3>4. \A j \in 1..Len(toClient') : ~LiveReply(j)'
      <4>1. \A j \in 1..Len(toClient) : ~LiveReply(j)'
        BY <2>4, <2>1, <3>1 DEF LiveInv
      <4>2. \A j \in 1..Len(toClient') : j > Len(toClient) => ~LiveReply(j)'
        BY <2>2, <2>4, <3>3
      <4>3. QED
        BY <2>4, <4>1, <4>2
    <3>5. flow.stage = "sent" /\ UNCHANGED flow
      BY <2>1, <3>1 DEF LiveInv
    <3>6. ASSUME NEW j \in 1..Len(toServer'), LiveCommand(j)' PROVE i = j
      <4>1. j + 1 \in 1..Len(toServer) /\ LiveCommand(j + 1)
        BY <2>2, <3>6
      <4>2. i + 1 = j + 1
        BY <2>1, <3>1, <4>1 DEF LiveInv
      <4>3. QED
        BY <4>2
    <3>7. QED
      BY <3>4, <3>5, <3>6
  <2>6. ASSUME NEW i \in 1..Len(toClient'), LiveReply(i)'
        PROVE  flow.stage = "sent" /\ \A j \in 1..Len(toClient') : LiveReply(j)' => i = j
    <3>1. 1 \in 1..Len(toServer)
      BY <2>2
    <3>2. CASE i \in 1..Len(toClient)
      <4>1. LiveReply(i) /\ ~LiveCommand(1)
        BY <2>4, <2>1, <2>6, <3>1, <3>2 DEF LiveInv
      <4>2. \A j \in 1..Len(toClient') : j > Len(toClient) => ~LiveReply(j)'
        BY <2>2, <2>4, <4>1
      <4>3. QED
        BY <2>4, <2>1, <3>2, <4>1, <4>2 DEF LiveInv
    <3>3. CASE i > Len(toClient)
      <4>1. LiveCommand(1)
        BY <2>2, <2>4, <2>6, <3>3
      <4>2. flow.stage = "sent" /\ \A j \in 1..Len(toClient) : ~LiveReply(j)'
        BY <2>4, <2>1, <3>1, <4>1 DEF LiveInv
      <4>3. QED
        BY <2>4, <3>3, <4>2
    <3>4. QED
      BY <2>4, <3>2, <3>3
  <2>7. QED
    BY <2>1, <2>5, <2>6 DEF LiveInv
<1>3. ASSUME RequestTimeout PROVE LiveInv'
  <2>1. Len(toServer') = Len(toServer) /\ Len(toClient') = Len(toClient)
    BY <1>3, TimesOut DEF SameKinds
  <2>2. (\A i \in 1..Len(toServer) : ~LiveCommand(i)')
            /\ \A i \in 1..Len(toClient) : ~LiveReply(i)'
    <3>1. ASSUME NEW i \in 1..Len(toClient), LiveReply(i)' PROVE FALSE
      <4>1. toClient'[i].request = toClient[i].request
                /\ toClient'[i].kind = toClient[i].kind /\ ~LiveReply(i)
        BY <1>3, <3>1, TimesOut DEF SameKinds
      <4>2. QED
        BY <3>1, <4>1 DEF LiveReply
    <3>2. QED
      BY <1>3, <3>1, TimesOut
  <2>3. QED
    BY <2>1, <2>2
<1>4. ASSUME UnsubscribeTimeout PROVE LiveInv'
  <2>1. Len(toServer') = Len(toServer) /\ Len(toClient') = Len(toClient)
    BY <1>4, UnsubscribeTimesOut DEF SameKinds
  <2>2. QED
    BY <1>4, <2>1, UnsubscribeTimesOut
       DEF UnsubscribeTimeout, SameKinds, EndFlow, NoFlow, Flow
<1>5. ASSUME NEW kind \in Pushes, ServerPushes(kind) PROVE LiveInv'
  <2>1. Appends(toClient, toClient', kind, "live")
    BY <1>5, Pushed
  <2>2. /\ \A i \in 1..Len(toClient) : LiveReply(i)' <=> LiveReply(i)
        /\ \A i \in 1..Len(toClient') : LiveReply(i)' => i \in 1..Len(toClient)
    BY <2>1, MessageAdded, ReplyKinds
  <2>3. UNCHANGED <<link, flow, toServer>>
    BY <1>5 DEF ServerPushes
  <2>4. QED
    BY <2>2, <2>3, CommandsKept
<1>6. ASSUME NEW r \in Reports, ReportTearsDown(r) PROVE LiveInv'
  BY <1>6 DEF ReportTearsDown, Teardown, clientVars, netVars
<1>7. ASSUME SendSubscribe PROVE LiveInv'
  <2>1. flow.stage = "send" /\ flow'.stage = "sent" /\ link = "up" /\ UNCHANGED toClient
    BY <1>7 DEF SendSubscribe, Flow
  <2>2. /\ \A i \in 1..Len(toServer) : ~LiveCommand(i)
        /\ \A i \in 1..Len(toClient) : ~LiveReply(i)'
    BY <2>1
  <2>3. Appends(toServer, toServer', "subscribe", "live")
    BY <1>7, SendsSubscribe
  <2>4. /\ Len(toServer) \in Nat /\ Len(toServer') = Len(toServer) + 1
        /\ \A i \in 1..Len(toServer) : LiveCommand(i)' <=> LiveCommand(i)
    BY <2>3, CommandAdded
  <2>5. \A i \in 1..Len(toServer') : LiveCommand(i)' => i = Len(toServer')
    BY <2>2, <2>4
  <2>6. QED
    BY <2>1, <2>2, <2>5
<1>8. ASSUME Reader PROVE LiveInv'
  <2>1. PICK kind, r :
           /\ Drops(toClient, toClient', kind, r)
           /\ UNCHANGED <<link, connGeneration, toServer, serverSub, history, sstate,
              subscribeAttempt>>
           /\ due \subseteq due' /\ (kind = "unsubscribeError" /\ r = "live" => due' # {})
           /\ UNCHANGED flow \/ (kind \in SubscribeReplies /\ r = "live"
                  /\ flow'.stage = "none")
    BY <1>8, ReaderReceives
  <2>2. /\ Len(toClient') \in Nat /\ Len(toClient) = Len(toClient') + 1
        /\ \A i \in 1..Len(toClient') : /\ LiveReply(i)' <=> LiveReply(i + 1)
                                        /\ Failed(i)' <=> Failed(i + 1)
                                        /\ toClient'[i].kind = toClient[i + 1].kind
        /\ toClient[1].kind = kind /\ (LiveReply(1) <=> kind \in SubscribeReplies /\ r = "live")
        /\ (Failed(1) <=> kind = "unsubscribeError" /\ r = "live")
    BY <2>1, MessageTaken
  <2>3. UNCHANGED <<link, toServer>> /\ (UNCHANGED flow \/ LiveReply(1))
    BY <2>1, <2>2
  <2>4. ASSUME link = "up", NEW i \in 1..Len(toClient'), LiveReply(i)'
        PROVE  flow'.stage = "sent" /\ \A j \in 1..Len(toClient') : LiveReply(j)' => i = j
    <3>1. i + 1 \in 1..Len(toClient) /\ LiveReply(i + 1) /\ 1 \in 1..Len(toClient) /\ i + 1 # 1
      BY <2>2, <2>4
    <3>2. flow.stage = "sent" /\ ~LiveReply(1)
      BY <2>4, <3>1 DEF LiveInv
    <3>3. ASSUME NEW j \in 1..Len(toClient'), LiveReply(j)' PROVE i = j
      <4>1. j + 1 \in 1..Len(toClient) /\ LiveReply(j + 1)
        BY <2>2, <3>3
      <4>2. i + 1 = j + 1
        BY <2>4, <3>1, <4>1 DEF LiveInv
      <4>3. QED
        BY <4>2
    <3>4. QED
      BY <2>3, <3>2, <3>3
  <2>5. ASSUME link = "up", NEW i \in 1..Len(toServer'), LiveCommand(i)'
        PROVE  /\ flow'.stage = "sent" /\ \A j \in 1..Len(toServer') : LiveCommand(j)' => i = j
               /\ \A j \in 1..Len(toClient') : ~LiveReply(j)'
    <3>1. LiveCommand(i) /\ i \in 1..Len(toServer) /\ 1 \in 1..Len(toClient)
      BY <2>2, <2>3, <2>5, CommandsKept
    <3>2. flow.stage = "sent" /\ \A j \in 1..Len(toClient) : ~LiveReply(j)
      BY <2>5, <3>1 DEF LiveInv
    <3>3. \A j \in 1..Len(toServer') : LiveCommand(j)' => i = j
      BY <2>3, <2>5, <3>1, CommandsKept DEF LiveInv
    <3>4. QED
      BY <2>2, <2>3, <3>1, <3>2, <3>3
  <2>6. QED
    BY <2>3, <2>4, <2>5 DEF LiveInv
<1>9. ASSUME NEW t \in tasks, ResubscribeStarts(t) PROVE LiveInv'
  <2>1. flow.stage = "sent" => flow' = flow
    BY <1>9 DEF ResubscribeStarts, FlowInv
  <2>2. QED
    BY <1>9, <2>1 DEF ResubscribeStarts
<1>10. ASSUME NEW t \in tasks, PushUnsubscribes(t) PROVE LiveInv'
  <2>1. UNCHANGED <<link, flow, toClient>>
            /\ \A i \in 1..Len(toClient) : LiveReply(i)' <=> LiveReply(i)
    BY <1>10 DEF PushUnsubscribes, clientVars
  <2>2. CASE link = "up" /\ inflight
    <3>1. Appends(toServer, toServer', "unsubscribe", "live")
      BY <1>10, <2>2, SendsUnsubscribe DEF PushUnsubscribes
    <3>2. /\ Len(toServer) \in Nat /\ Len(toServer') = Len(toServer) + 1
          /\ \A i \in 1..Len(toServer) : LiveCommand(i)' <=> LiveCommand(i)
          /\ \A i \in 1..Len(toServer') : i > Len(toServer) => ~LiveCommand(i)'
      BY <3>1, CommandAdded
    <3>3. \A i \in 1..Len(toServer') : LiveCommand(i)'
              => i \in 1..Len(toServer) /\ LiveCommand(i)
      BY <3>2
    <3>4. QED
      BY <2>1, <3>3
  <2>3. CASE ~(link = "up" /\ inflight)
    <3>1. UNCHANGED toServer
      BY <1>10, <2>3 DEF PushUnsubscribes, DontSend, SendUnsubscribe
    <3>2. QED
      BY <2>1, <3>1
  <2>4. QED
    BY <2>2, <2>3
<1>11. ASSUME Close \/ LinkFails \/ MalformedReply \/ Connects PROVE LiveInv'
  BY <1>11
     DEF Close, LinkFails, MalformedReply, Connects, FailRequests, FailedFlow, Flow,
         RepliesAfterClear, NoGeneration, Teardown, Received, clientVars, netVars
<1>12. ASSUME SessionEnds \/ TeardownDone \/ GetStateStarts \/ ResultDropped
       PROVE  LiveInv'
  BY <1>12
     DEF SessionEnds, TeardownDone, GetStateStarts, ResultDropped, FailRequests,
         FailedFlow, Flow, RepliesAfterClear, Nothing, NoGeneration, Outdated, EndFlow,
         NoFlow, clientVars, netVars
<1>13. ASSUME GetStateReturns \/ ContinueResubscribe \/ GetTokenReturns \/ GetFails
       PROVE  LiveInv'
  BY <1>13
     DEF GetStateReturns, ContinueResubscribe, GetTokenReturns, GetFails, ResultWanted,
         Outdated, Flow, Nothing, NoGeneration, EndFlow, NoFlow, clientVars, netVars
<1>14. ASSUME GetTokenUnauthorized \/ SendNotConnected \/ SendFails \/ RequestFailed
       PROVE  LiveInv'
  BY <1>14
     DEF GetTokenUnauthorized, SendNotConnected, SendFails, RequestFailed, ResultWanted,
         EndFlow, NoFlow, Flow, clientVars, netVars
<1>15. CASE UNCHANGED <<link, flow, toServer, toClient>>
  BY <1>15
<1>16. QED
  BY <1>1, <1>2, <1>3, <1>4, <1>5, <1>6, <1>7, <1>8, <1>9, <1>10, <1>11, <1>12, <1>13,
     <1>14, <1>15
     DEF Next, Application, Failure, Client, SubscribeFlow, Reader, Run, Server, vars,
         ServerMoves, SubscribeCalled, ConnectionInvalidated, Sweeps, ReportIgnored,
         TimerFires, Invalidates, Subscribe, ClosedUnsubscribes, MoveToSubscribed,
         DeltaFailed, ErrorOutdated, SubscribeError, PushInvalidates, PushResubscribes,
         clientVars, netVars

\* A race that happened stays in history.
LEMMA HistoryGrows ==
  ASSUME TRUE, [Next]_vars
  PROVE  history' = {} => history = {}
<1>1. ASSUME NEW t \in tasks, ResubscribeStarts(t) \/ PushUnsubscribes(t) \/ PushResubscribes(t)
      PROVE  history' = {} => history = {}
  BY <1>1
     DEF ResubscribeStarts, PushUnsubscribes, PushResubscribes, InflightRace, PushRace
<1>2. CASE UNCHANGED <<history>>
  BY <1>2
<1>3. QED
  BY <1>1, <1>2
     DEF Next, Application, Failure, Client, SubscribeFlow, Reader, Run, Server, vars,
         SubscribeCalled, Unsubscribe, Close, LinkFails, ConnectionInvalidated,
         ServerKeeps, RequestTimeout, UnsubscribeTimeout, MalformedReply, ServerRejects,
         ServerPushes, Connects, Sweeps, SessionEnds, TeardownDone, ReportTearsDown,
         ReportIgnored, GetStateStarts, ResultDropped, GetStateReturns,
         ContinueResubscribe, GetTokenReturns, GetFails, GetTokenUnauthorized,
         SendSubscribe, SendNotConnected, SendFails, RequestFailed, SubscribeReplied,
         UnsubscribeReplied, LateReply, PushReceived, TimerFires, ServerSubscribes,
         ServerUnsubscribes, Invalidates, Subscribe, ClosedUnsubscribes, MoveToSubscribed,
         DeltaFailed, ErrorOutdated, SubscribeError, PushInvalidates, Teardown,
         ServerTakes

\* A subscribe that times out leaves the failed unsubscribes.
LEMMA FailuresKept ==
  ASSUME NetTypes, RequestTimeout
  PROVE  \A i \in 1..Len(toClient) : Failed(i)' <=> Failed(i)
<1>1. ASSUME NEW i \in 1..Len(toClient), toClient[i].kind = "unsubscribeError"
      PROVE  toClient'[i].request = toClient[i].request
  BY <1>1, TimesOut, ReplyKinds DEF LiveReply
<1>2. QED
  BY <1>1, TimesOut DEF Failed, SameKinds

\* A session that is going to end stays so until it does.
LEMMA DoomedStays ==
  ASSUME NetTypes, NetTypes', link = "up", link' = "up", Doomed, [Next]_vars
  PROVE  Doomed'
<1> USE Lens, MessagesKept DEF Doomed, clientVars, netVars
<1>1. ASSUME Unsubscribe PROVE Doomed'
  <2>1. CASE link = "up" /\ (sstate # "unsubscribed")
    <3>1. Appends(toServer, toServer', "unsubscribe", "live") /\ due' = due
      BY <1>1, <2>1, SendsUnsubscribe DEF Unsubscribe
    <3>2. QED
      BY <1>1, <2>1, <3>1, CommandAdded, MessagesKept, Sends DEF Unsubscribe
  <2>2. CASE link = "up" /\ ~(sstate # "unsubscribed")
    BY <1>1, <2>2, CommandsKept, MessagesKept, Sends DEF Unsubscribe, DontSend
  <2>3. CASE link # "up"
    BY <1>1, <2>3, Sends DEF Unsubscribe
  <2>4. QED
    BY <2>1, <2>2, <2>3
<1>2. ASSUME ServerMoves PROVE Doomed'
  <2>1. PICK command, reply, r :
           /\ Drops(toServer, toServer', command, r) /\ Appends(toClient, toClient', reply, r)
           /\ Answers(command, reply) /\ link = "up"
           /\ UNCHANGED <<link, connGeneration, due, sstate, subscribeAttempt, flow, tasks,
              history>>
    BY <1>2, ServerAnswers
  <2>2. /\ Len(toServer') \in Nat /\ Len(toServer) = Len(toServer') + 1
        /\ \A i \in 1..Len(toServer') : (LiveCommand(i)' <=> LiveCommand(i + 1))
               /\ toServer'[i].kind = toServer[i + 1].kind
        /\ toServer[1].kind = command /\ (LiveCommand(1) <=> command = "subscribe"
               /\ r = "live")
    BY <2>1, CommandTaken
  <2>3. (reply \in SubscribeReplies <=> command = "subscribe") /\ reply \notin Pushes
    BY <2>1, ReplyKinds DEF Answers
  <2>4. /\ Len(toClient) \in Nat /\ Len(toClient') = Len(toClient) + 1
        /\ \A i \in 1..Len(toClient) : /\ LiveReply(i)' <=> LiveReply(i)
                                       /\ Failed(i)' <=> Failed(i)
                                       /\ toClient'[i].kind = toClient[i].kind
        /\ \A i \in 1..Len(toClient') : i > Len(toClient) =>
             /\ LiveReply(i)' <=> command = "subscribe" /\ r = "live"
             /\ Failed(i)' <=> reply = "unsubscribeError" /\ r = "live"
             /\ toClient'[i].kind = reply
    BY <2>1, <2>3, MessageAdded
  <2>5. QED
    BY <2>1, <2>4
<1>3. ASSUME RequestTimeout PROVE Doomed'
  <2>1. Len(toClient') = Len(toClient)
    BY <1>3, TimesOut DEF SameKinds
  <2>2. QED
    BY <1>3, <2>1, FailuresKept DEF RequestTimeout
<1>4. ASSUME NEW kind \in Pushes, ServerPushes(kind) PROVE Doomed'
  <2>1. Appends(toClient, toClient', kind, "live")
    BY <1>4, Pushed
  <2>2. \A i \in 1..Len(toClient) : i \in 1..Len(toClient') /\ (Failed(i)' <=> Failed(i))
    BY <2>1, MessageAdded
  <2>3. QED
    BY <1>4, <2>2 DEF ServerPushes
<1>5. ASSUME NEW r \in Reports, ReportTearsDown(r) PROVE Doomed'
  BY <1>5 DEF ReportTearsDown, Teardown, clientVars, netVars
<1>6. ASSUME NEW r \in Reports, ReportIgnored(r) PROVE Doomed'
  BY <1>6 DEF ReportIgnored, clientVars, netVars
<1>7. ASSUME Reader PROVE Doomed'
  <2>1. PICK kind, r :
           /\ Drops(toClient, toClient', kind, r)
           /\ UNCHANGED <<link, connGeneration, toServer, serverSub, history, sstate,
              subscribeAttempt>>
           /\ due \subseteq due' /\ (kind = "unsubscribeError" /\ r = "live" => due' # {})
           /\ UNCHANGED flow \/ (kind \in SubscribeReplies /\ r = "live"
                  /\ flow'.stage = "none")
    BY <1>7, ReaderReceives
  <2>2. /\ Len(toClient') \in Nat /\ Len(toClient) = Len(toClient') + 1
        /\ \A i \in 1..Len(toClient') : /\ LiveReply(i)' <=> LiveReply(i + 1)
                                        /\ Failed(i)' <=> Failed(i + 1)
                                        /\ toClient'[i].kind = toClient[i + 1].kind
        /\ toClient[1].kind = kind /\ (LiveReply(1) <=> kind \in SubscribeReplies /\ r = "live")
        /\ (Failed(1) <=> kind = "unsubscribeError" /\ r = "live")
    BY <2>1, MessageTaken
  <2>3. CASE due # {}
    BY <2>1, <2>3
  <2>4. CASE due = {}
    <3>1. PICK i \in 1..Len(toClient) : Failed(i)
      BY <2>4
    <3>2. CASE i = 1
      BY <2>1, <2>2, <3>1, <3>2
    <3>3. CASE i # 1
      <4>1. i - 1 \in 1..Len(toClient') /\ Failed(i - 1)'
        BY <2>2, <3>1, <3>3
      <4>2. QED
        BY <4>1
    <3>4. QED
      BY <3>2, <3>3
  <2>5. QED
    BY <2>3, <2>4
<1>8. ASSUME NEW t \in tasks, PushUnsubscribes(t) PROVE Doomed'
  <2>1. CASE link = "up" /\ (inflight)
    <3>1. Appends(toServer, toServer', "unsubscribe", "live") /\ due' = due
      BY <1>8, <2>1, SendsUnsubscribe DEF PushUnsubscribes
    <3>2. QED
      BY <1>8, <2>1, <3>1, CommandAdded, MessagesKept, Sends DEF PushUnsubscribes
  <2>2. CASE link = "up" /\ ~(inflight)
    BY <1>8, <2>2, CommandsKept, MessagesKept, Sends DEF PushUnsubscribes, DontSend
  <2>3. CASE link # "up"
    BY <1>8, <2>3, Sends DEF PushUnsubscribes
  <2>4. QED
    BY <2>1, <2>2, <2>3
<1>9. ASSUME Close \/ LinkFails \/ UnsubscribeTimeout \/ MalformedReply PROVE Doomed'
  BY <1>9
     DEF Close, LinkFails, UnsubscribeTimeout, MalformedReply, FailRequests,
         RepliesAfterClear, Teardown, Received, clientVars, netVars
<1>10. ASSUME Connects \/ SessionEnds \/ TeardownDone \/ SendFails PROVE Doomed'
  BY <1>10
     DEF Connects, SessionEnds, TeardownDone, SendFails, FailRequests, RepliesAfterClear,
         clientVars, netVars
<1>11. ASSUME NEW t \in tasks, Invalidates(t) \/ DeltaFailed(t) \/ SubscribeError(t)
       PROVE  Doomed'
  BY <1>11 DEF Invalidates, DeltaFailed, SubscribeError, clientVars, netVars
<1>12. CASE UNCHANGED <<link, due, toClient>>
  BY <1>12
<1>13. QED
  BY <1>1, <1>2, <1>3, <1>4, <1>5, <1>6, <1>7, <1>8, <1>9, <1>10, <1>11, <1>12
     DEF Next, Application, Failure, Client, SubscribeFlow, Reader, Run, Server, vars,
         ServerMoves, SubscribeCalled, ConnectionInvalidated, Sweeps, GetStateStarts,
         ResultDropped, GetStateReturns, ContinueResubscribe, GetTokenReturns, GetFails,
         GetTokenUnauthorized, SendSubscribe, SendNotConnected, RequestFailed, TimerFires,
         Subscribe, ClosedUnsubscribes, ResubscribeStarts, MoveToSubscribed,
         ErrorOutdated, PushInvalidates, PushResubscribes, clientVars, netVars

\* A subscribe of the current attempt was sent for that attempt.
LEMMA CurrentFlowStays ==
  ASSUME LinkTypes, StateTypes, FlowTypes, FlowInv, AttemptInv, OutcomeInv, Agreed,
         CurrentFlow', [Next]_vars
  PROVE  CurrentFlow \/ SendSubscribe
<1> USE DEF LinkTypes, StateTypes, FlowTypes, FlowInv, AttemptInv, OutcomeInv, Agreed,
    CurrentFlow, Current
<1>1. ASSUME SendSubscribe PROVE CurrentFlow \/ SendSubscribe
  BY <1>1
<1>2. ASSUME NEW kind \in SubscribeReplies, SubscribeReplied(kind)
      PROVE  CurrentFlow \/ SendSubscribe
  BY <1>2 DEF SubscribeReplied, EndFlow, NoFlow, Flow, subVars
<1>3. ASSUME Unsubscribe \/ Close \/ RequestTimeout \/ MalformedReply
      PROVE  CurrentFlow \/ SendSubscribe
  BY <1>3
     DEF Unsubscribe, Close, RequestTimeout, MalformedReply, MoveToUnsubscribed,
         FailRequests, FailedFlow, Flow, NoGeneration, EndFlow, NoFlow, subVars
<1>4. ASSUME SessionEnds \/ TeardownDone \/ GetStateStarts \/ ResultDropped
      PROVE  CurrentFlow \/ SendSubscribe
  BY <1>4
     DEF SessionEnds, TeardownDone, GetStateStarts, ResultDropped, FailRequests,
         FailedFlow, Flow, MoveToSubscribing, Nothing, NoGeneration, Outdated, EndFlow,
         NoFlow, subVars
<1>5. ASSUME GetStateReturns \/ ContinueResubscribe \/ GetTokenReturns \/ GetFails
      PROVE  CurrentFlow \/ SendSubscribe
  BY <1>5
     DEF GetStateReturns, ContinueResubscribe, GetTokenReturns, GetFails, ResultWanted,
         Outdated, Flow, Nothing, NoGeneration, EndFlow, NoFlow, subVars
<1>6. ASSUME GetTokenUnauthorized \/ SendNotConnected \/ SendFails \/ RequestFailed
      PROVE  CurrentFlow \/ SendSubscribe
  BY <1>6
     DEF GetTokenUnauthorized, SendNotConnected, SendFails, RequestFailed, ResultWanted,
         EndFlow, NoFlow, Flow, MoveToUnsubscribed, subVars
<1>7. ASSUME NEW t \in tasks, Subscribe(t) \/ ClosedUnsubscribes(t)
                 \/ ResubscribeStarts(t) \/ MoveToSubscribed(t)
      PROVE  CurrentFlow \/ SendSubscribe
  BY <1>7
     DEF Subscribe, ClosedUnsubscribes, ResubscribeStarts, MoveToSubscribed,
         MoveToUnsubscribed, Flow, Nothing, NoGeneration, SameAttempt, SameSession,
         subVars
<1>8. ASSUME NEW t \in tasks, SubscribeError(t) \/ PushUnsubscribes(t) \/ PushResubscribes(t)
      PROVE  CurrentFlow \/ SendSubscribe
  BY <1>8
     DEF SubscribeError, PushUnsubscribes, PushResubscribes, IsCurrent,
         MoveToUnsubscribed, Nothing, MoveToSubscribing, subVars
<1>9. CASE UNCHANGED <<sstate, subscribeAttempt, flow>>
  BY <1>9
<1>10. QED
  BY <1>1, <1>2, <1>3, <1>4, <1>5, <1>6, <1>7, <1>8, <1>9
     DEF Next, Application, Failure, Client, SubscribeFlow, Reader, Run, Server, vars,
         SubscribeCalled, LinkFails, ConnectionInvalidated, ServerKeeps,
         UnsubscribeTimeout, ServerRejects, ServerPushes, Connects, Sweeps,
         ReportTearsDown, ReportIgnored, UnsubscribeReplied, LateReply, PushReceived,
         TimerFires, ServerSubscribes, ServerUnsubscribes, Invalidates, DeltaFailed,
         ErrorOutdated, PushInvalidates, Teardown, ServerTakes, subVars

\* Every step keeps AlreadyInv: the server has the subscription only if its unsubscribe failed.
LEMMA AlreadyStep ==
  ASSUME NetTypes, NetTypes', SessionInv, PairsInv, AlreadyInv, [Next]_vars
  PROVE  AlreadyInv'
<1>1. history' = {} => history = {}
  BY HistoryGrows
<1> USE <1>1, Lens, MessagesKept DEF AlreadyInv, Agreed, SessionInv, Connected, clientVars,
    netVars
<1>2. ASSUME Unsubscribe PROVE AlreadyInv'
  <2>1. UNCHANGED <<toClient, link>> /\ (due' = {} => due = {})
    BY <1>2, Sends DEF Unsubscribe, clientVars
  <2>2. \A i \in 1..Len(toClient) : Failed(i)' <=> Failed(i)
    BY <2>1, MessagesKept
  <2>3. QED
    BY <2>1, <2>2
<1>3. ASSUME ServerMoves PROVE AlreadyInv'
  <2>1. PICK command, reply, r :
           /\ Drops(toServer, toServer', command, r) /\ Appends(toClient, toClient', reply, r)
           /\ Answers(command, reply) /\ link = "up"
           /\ UNCHANGED <<link, connGeneration, due, sstate, subscribeAttempt, flow, tasks,
              history>>
    BY <1>3, ServerAnswers
  <2>2. /\ Len(toServer') \in Nat /\ Len(toServer) = Len(toServer') + 1
        /\ \A i \in 1..Len(toServer') : (LiveCommand(i)' <=> LiveCommand(i + 1))
               /\ toServer'[i].kind = toServer[i + 1].kind
        /\ toServer[1].kind = command /\ (LiveCommand(1) <=> command = "subscribe"
               /\ r = "live")
    BY <2>1, CommandTaken
  <2>3. (reply \in SubscribeReplies <=> command = "subscribe") /\ reply \notin Pushes
    BY <2>1, ReplyKinds DEF Answers
  <2>4. /\ Len(toClient) \in Nat /\ Len(toClient') = Len(toClient) + 1
        /\ \A i \in 1..Len(toClient) : /\ LiveReply(i)' <=> LiveReply(i)
                                       /\ Failed(i)' <=> Failed(i)
                                       /\ toClient'[i].kind = toClient[i].kind
        /\ \A i \in 1..Len(toClient') : i > Len(toClient) =>
             /\ LiveReply(i)' <=> command = "subscribe" /\ r = "live"
             /\ Failed(i)' <=> reply = "unsubscribeError" /\ r = "live"
             /\ toClient'[i].kind = reply
    BY <2>1, <2>3, MessageAdded
  <2>5. ASSUME Agreed', due' = {}, NEW i \in 1..Len(toClient'), toClient'[i].kind = "already"
        PROVE  \E j \in 1..(i - 1) : Failed(j)'
    <3>1. Agreed /\ due = {}
      BY <1>1, <2>1, <2>5 DEF Agreed
    <3>2. CASE i \in 1..Len(toClient)
      <4>1. PICK j \in 1..(i - 1) : Failed(j)
        BY <2>4, <2>5, <3>1, <3>2 DEF AlreadyInv
      <4>2. QED
        BY <2>4, <3>2, <4>1
    <3>3. CASE i > Len(toClient)
      <4>1. serverSub /\ command = "subscribe"
        <5>1. reply = "already"
          BY <2>4, <2>5, <3>3
        <5>2. QED
          BY <2>1, <5>1 DEF Answers
      <4>2. Doomed
        BY <2>2, <3>1, <4>1 DEF PairsInv
      <4>3. PICK j \in 1..Len(toClient) : Failed(j)
        BY <3>1, <4>2 DEF Doomed
      <4>4. QED
        BY <2>4, <3>3, <4>3
    <3>4. QED
      BY <2>4, <3>2, <3>3
  <2>6. QED
    BY <2>5 DEF AlreadyInv
<1>4. ASSUME RequestTimeout PROVE AlreadyInv'
  <2>1. Len(toClient') = Len(toClient)
            /\ \A i \in 1..Len(toClient) : toClient'[i].kind = toClient[i].kind
    BY <1>4, TimesOut DEF SameKinds
  <2>2. UNCHANGED <<link, due>> /\ \A i \in 1..Len(toClient) : Failed(i)' <=> Failed(i)
    BY <1>4, FailuresKept DEF RequestTimeout, clientVars
  <2>3. QED
    BY <2>1, <2>2
<1>5. ASSUME NEW kind \in Pushes, ServerPushes(kind) PROVE AlreadyInv'
  <2>1. Appends(toClient, toClient', kind, "live")
    BY <1>5, Pushed
  <2>2. /\ Len(toClient) \in Nat /\ Len(toClient') = Len(toClient) + 1
        /\ \A i \in 1..Len(toClient) : (Failed(i)' <=> Failed(i))
               /\ toClient'[i].kind = toClient[i].kind
        /\ \A i \in 1..Len(toClient') : i > Len(toClient) => toClient'[i].kind # "already"
    BY <2>1, MessageAdded, ReplyKinds
  <2>3. ASSUME Agreed', due' = {}, NEW i \in 1..Len(toClient'), toClient'[i].kind = "already"
        PROVE  \E j \in 1..(i - 1) : Failed(j)'
    <3>1. Agreed /\ due = {}
      BY <1>1, <1>5, <2>3 DEF Agreed, ServerPushes, clientVars
    <3>2. i \in 1..Len(toClient) /\ toClient[i].kind = "already"
      BY <2>2, <2>3
    <3>3. PICK j \in 1..(i - 1) : Failed(j)
      BY <3>1, <3>2 DEF AlreadyInv
    <3>4. QED
      BY <2>2, <3>2, <3>3
  <2>4. QED
    BY <2>3 DEF AlreadyInv
<1>6. ASSUME NEW r \in Reports, ReportTearsDown(r) PROVE AlreadyInv'
  BY <1>6 DEF ReportTearsDown, Teardown, clientVars, netVars
<1>7. ASSUME NEW r \in Reports, ReportIgnored(r) PROVE AlreadyInv'
  BY <1>7 DEF ReportIgnored, clientVars, netVars
<1>8. ASSUME Reader PROVE AlreadyInv'
  <2>1. PICK kind, r :
           /\ Drops(toClient, toClient', kind, r)
           /\ UNCHANGED <<link, connGeneration, toServer, serverSub, history, sstate,
              subscribeAttempt>>
           /\ due \subseteq due' /\ (kind = "unsubscribeError" /\ r = "live" => due' # {})
           /\ UNCHANGED flow \/ (kind \in SubscribeReplies /\ r = "live"
                  /\ flow'.stage = "none")
    BY <1>8, ReaderReceives
  <2>2. /\ Len(toClient') \in Nat /\ Len(toClient) = Len(toClient') + 1
        /\ \A i \in 1..Len(toClient') : /\ LiveReply(i)' <=> LiveReply(i + 1)
                                        /\ Failed(i)' <=> Failed(i + 1)
                                        /\ toClient'[i].kind = toClient[i + 1].kind
        /\ toClient[1].kind = kind /\ (LiveReply(1) <=> kind \in SubscribeReplies /\ r = "live")
        /\ (Failed(1) <=> kind = "unsubscribeError" /\ r = "live")
    BY <2>1, MessageTaken
  <2>3. ASSUME Agreed', due' = {}, NEW i \in 1..Len(toClient'), toClient'[i].kind = "already"
        PROVE  \E j \in 1..(i - 1) : Failed(j)'
    <3>1. Agreed /\ due = {} /\ ~Failed(1)
      BY <1>1, <2>1, <2>2, <2>3 DEF Agreed
    <3>2. i + 1 \in 1..Len(toClient) /\ toClient[i + 1].kind = "already"
      BY <2>2, <2>3
    <3>3. PICK j \in 1..i : Failed(j)
      BY <3>1, <3>2 DEF AlreadyInv
    <3>4. j # 1
      BY <3>1, <3>3
    <3>5. j - 1 \in 1..(i - 1) /\ j - 1 \in 1..Len(toClient')
      BY <2>2, <3>3, <3>4
    <3>6. Failed(j - 1)'
      BY <2>2, <3>3, <3>5
    <3>7. QED
      BY <3>5, <3>6
  <2>4. QED
    BY <2>3 DEF AlreadyInv
<1>9. ASSUME NEW t \in tasks, PushUnsubscribes(t) PROVE AlreadyInv'
  <2>1. UNCHANGED <<toClient, link>> /\ (due' = {} => due = {})
    BY <1>9, Sends DEF PushUnsubscribes, clientVars
  <2>2. \A i \in 1..Len(toClient) : Failed(i)' <=> Failed(i)
    BY <2>1, MessagesKept
  <2>3. QED
    BY <2>1, <2>2
<1>10. ASSUME Close \/ LinkFails \/ UnsubscribeTimeout \/ MalformedReply PROVE AlreadyInv'
  BY <1>10
     DEF Close, LinkFails, UnsubscribeTimeout, MalformedReply, FailRequests,
         RepliesAfterClear, Teardown, Received, clientVars, netVars
<1>11. ASSUME Connects \/ SessionEnds \/ TeardownDone \/ SendFails PROVE AlreadyInv'
  BY <1>11
     DEF Connects, SessionEnds, TeardownDone, SendFails, FailRequests, RepliesAfterClear,
         clientVars, netVars
<1>12. ASSUME NEW t \in tasks, Invalidates(t) \/ DeltaFailed(t) \/ SubscribeError(t)
       PROVE  AlreadyInv'
  BY <1>12 DEF Invalidates, DeltaFailed, SubscribeError, clientVars, netVars
<1>13. CASE UNCHANGED <<link, due, toClient>>
  BY <1>13
<1>14. QED
  BY <1>2, <1>3, <1>4, <1>5, <1>6, <1>7, <1>8, <1>9, <1>10, <1>11, <1>12, <1>13
     DEF Next, Application, Failure, Client, SubscribeFlow, Reader, Run, Server, vars,
         ServerMoves, SubscribeCalled, ConnectionInvalidated, Sweeps, GetStateStarts,
         ResultDropped, GetStateReturns, ContinueResubscribe, GetTokenReturns, GetFails,
         GetTokenUnauthorized, SendSubscribe, SendNotConnected, RequestFailed, TimerFires,
         Subscribe, ClosedUnsubscribes, ResubscribeStarts, MoveToSubscribed,
         ErrorOutdated, PushInvalidates, PushResubscribes, clientVars, netVars

\* Timed out unsubscribes after a command was taken.
LEMMA OrphanTaken ==
  ASSUME NetTypes, NetTypes', NEW kind, NEW request, Drops(toServer, toServer', kind, request)
  PROVE  /\ Len(toServer') \in Nat /\ Len(toServer) = Len(toServer') + 1
         /\ \A i \in 1..Len(toServer') : Orphan(i)' <=> Orphan(i + 1)
BY Lens DEF Drops, Orphan, NetTypes

\* Timed out unsubscribes after a command was added.
LEMMA OrphanAdded ==
  ASSUME NetTypes, NetTypes', NEW kind, NEW request, Appends(toServer, toServer', kind, request)
  PROVE  /\ Len(toServer) \in Nat /\ Len(toServer') = Len(toServer) + 1
         /\ \A i \in 1..Len(toServer) : Orphan(i)' <=> Orphan(i)
         /\ \A i \in 1..Len(toServer') : i > Len(toServer) =>
              (Orphan(i)' <=> kind = "unsubscribe" /\ request = "orphan")
BY Lens DEF Appends, Orphan, NetTypes

\* Every step keeps OrphanInv.
LEMMA OrphanStep ==
  ASSUME NetTypes, NetTypes', SessionInv, OrphanInv, [Next]_vars
  PROVE  OrphanInv'
<1>1. UNCHANGED toServer => \A i \in 1..Len(toServer) : Orphan(i)' <=> Orphan(i)
  BY DEF Orphan
<1> USE <1>1, Lens DEF OrphanInv, SessionInv, clientVars, netVars
<1>2. ASSUME Unsubscribe PROVE OrphanInv'
  <2>1. UNCHANGED link /\ (due' = {} => due = {})
    BY <1>2, Sends DEF Unsubscribe, clientVars
  <2>2. CASE link = "up" /\ sstate # "unsubscribed"
    <3>1. Appends(toServer, toServer', "unsubscribe", "live")
      BY <1>2, <2>2, SendsUnsubscribe DEF Unsubscribe
    <3>2. QED
      BY <2>1, <3>1, OrphanAdded
  <2>3. CASE ~(link = "up" /\ sstate # "unsubscribed")
    <3>1. UNCHANGED toServer
      BY <1>2, <2>3 DEF Unsubscribe, DontSend, SendUnsubscribe
    <3>2. QED
      BY <2>1, <3>1
  <2>4. QED
    BY <2>2, <2>3
<1>3. ASSUME ServerMoves PROVE OrphanInv'
  <2>1. PICK command, reply, r :
           /\ Drops(toServer, toServer', command, r) /\ Appends(toClient, toClient', reply, r)
           /\ Answers(command, reply) /\ link = "up"
           /\ UNCHANGED <<link, connGeneration, due, sstate, subscribeAttempt, flow, tasks,
              history>>
    BY <1>3, ServerAnswers
  <2>2. /\ Len(toServer') \in Nat /\ Len(toServer) = Len(toServer') + 1
        /\ \A i \in 1..Len(toServer') : (LiveCommand(i)' <=> LiveCommand(i + 1))
               /\ toServer'[i].kind = toServer[i + 1].kind
        /\ toServer[1].kind = command /\ (LiveCommand(1) <=> command = "subscribe"
               /\ r = "live")
    BY <2>1, CommandTaken
  <2>3. (reply \in SubscribeReplies <=> command = "subscribe") /\ reply \notin Pushes
    BY <2>1, ReplyKinds DEF Answers
  <2>4. /\ Len(toClient) \in Nat /\ Len(toClient') = Len(toClient) + 1
        /\ \A i \in 1..Len(toClient) : /\ LiveReply(i)' <=> LiveReply(i)
                                       /\ Failed(i)' <=> Failed(i)
                                       /\ toClient'[i].kind = toClient[i].kind
        /\ \A i \in 1..Len(toClient') : i > Len(toClient) =>
             /\ LiveReply(i)' <=> command = "subscribe" /\ r = "live"
             /\ Failed(i)' <=> reply = "unsubscribeError" /\ r = "live"
             /\ toClient'[i].kind = reply
    BY <2>1, <2>3, MessageAdded
  <2>5. QED
    BY <2>1, OrphanTaken
<1>4. ASSUME RequestTimeout PROVE OrphanInv'
  <2>1. UNCHANGED <<link, due>> /\ Len(toServer') = Len(toServer)
    BY <1>4, TimesOut DEF RequestTimeout, SameKinds
  <2>2. QED
    BY <1>4, <2>1, TimesOut
<1>5. ASSUME NEW r \in Reports, ReportTearsDown(r) PROVE OrphanInv'
  BY <1>5 DEF ReportTearsDown, Teardown, clientVars, netVars
<1>6. ASSUME NEW r \in Reports, ReportIgnored(r) PROVE OrphanInv'
  BY <1>6 DEF ReportIgnored, clientVars, netVars
<1>7. ASSUME SendSubscribe PROVE OrphanInv'
  <2>1. Appends(toServer, toServer', "subscribe", "live") /\ UNCHANGED <<link, due>>
    BY <1>7, SendsSubscribe DEF SendSubscribe
  <2>2. QED
    BY <2>1, OrphanAdded
<1>8. ASSUME NEW kind \in UnsubscribeReplies, UnsubscribeReplied(kind) PROVE OrphanInv'
  BY <1>8 DEF UnsubscribeReplied, clientVars, netVars
<1>9. ASSUME NEW t \in tasks, PushUnsubscribes(t) PROVE OrphanInv'
  <2>1. UNCHANGED link /\ (due' = {} => due = {})
    BY <1>9, Sends DEF PushUnsubscribes, clientVars
  <2>2. CASE link = "up" /\ inflight
    <3>1. Appends(toServer, toServer', "unsubscribe", "live")
      BY <1>9, <2>2, SendsUnsubscribe DEF PushUnsubscribes
    <3>2. QED
      BY <2>1, <3>1, OrphanAdded
  <2>3. CASE ~(link = "up" /\ inflight)
    <3>1. UNCHANGED toServer
      BY <1>9, <2>3 DEF PushUnsubscribes, DontSend, SendUnsubscribe
    <3>2. QED
      BY <2>1, <3>1
  <2>4. QED
    BY <2>2, <2>3
<1>10. ASSUME Close \/ LinkFails \/ UnsubscribeTimeout \/ MalformedReply PROVE OrphanInv'
  BY <1>10
     DEF Close, LinkFails, UnsubscribeTimeout, MalformedReply, FailRequests, Teardown,
         clientVars, netVars
<1>11. ASSUME Connects \/ SessionEnds \/ TeardownDone \/ SendFails PROVE OrphanInv'
  BY <1>11
     DEF Connects, SessionEnds, TeardownDone, SendFails, FailRequests, clientVars, netVars
<1>12. ASSUME NEW t \in tasks, Invalidates(t) \/ DeltaFailed(t) \/ SubscribeError(t)
       PROVE  OrphanInv'
  BY <1>12 DEF Invalidates, DeltaFailed, SubscribeError, clientVars, netVars
<1>13. CASE UNCHANGED <<link, due, toServer>>
  BY <1>13
<1>14. QED
  BY <1>2, <1>3, <1>4, <1>5, <1>6, <1>7, <1>8, <1>9, <1>10, <1>11, <1>12, <1>13
     DEF Next, Application, Failure, Client, SubscribeFlow, Reader, Run, Server, vars,
         ServerMoves, SubscribeCalled, ConnectionInvalidated, ServerPushes, Sweeps,
         GetStateStarts, ResultDropped, GetStateReturns, ContinueResubscribe,
         GetTokenReturns, GetFails, GetTokenUnauthorized, SendNotConnected, RequestFailed,
         SubscribeReplied, LateReply, PushReceived, TimerFires, Subscribe,
         ClosedUnsubscribes, ResubscribeStarts, MoveToSubscribed, ErrorOutdated,
         PushInvalidates, PushResubscribes, clientVars, netVars

\* An unsubscribe the server rejects ends the session: by its reply, or since it timed out.
LEMMA KeepsDooms ==
  ASSUME NetTypes, NetTypes', OrphanInv, ServerKeeps
  PROVE  Doomed'
<1>1. PICK r : /\ Drops(toServer, toServer', "unsubscribe", r)
          /\ Appends(toClient, toClient', "unsubscribeError", r)
               /\ r = toServer[1].request /\ link = "up" /\ UNCHANGED due
  BY ServerSteps DEF ServerStep
<1>2. toServer[1].kind = "unsubscribe" /\ 1 \in 1..Len(toServer)
  BY <1>1, CommandTaken
<1>3. CASE r = "live"
  <2>1. PICK i \in 1..Len(toClient') : i > Len(toClient)
    BY <1>1, MessageAdded
  <2>2. QED
    BY <1>1, <1>3, <2>1, MessageAdded DEF Doomed
<1>4. CASE r # "live"
  <2>1. toServer[1] \in Commands
    BY <1>2, Lens
  <2>2. Orphan(1)
    BY <1>1, <1>2, <1>4, <2>1 DEF Commands, Orphan
  <2>3. QED
    BY <1>1, <1>2, <2>2 DEF OrphanInv, Doomed
<1>5. QED
  BY <1>3, <1>4

\* PairsInv speaks of the kinds of the commands only.
LEMMA PairsAfter ==
  ASSUME PairsInv, Agreed' => Agreed, Agreed' /\ Doomed => Doomed',
         Len(toServer) \in Nat, Len(toServer') = Len(toServer),
         \A i \in 1..Len(toServer) : toServer'[i].kind = toServer[i].kind, serverSub'
             => serverSub
  PROVE  PairsInv'
BY DEF PairsInv

\* Every step keeps PairsInv: sendUnsubscribeLocked writes the unsubscribe before the next subscribe.
LEMMA PairsStep ==
  ASSUME LinkTypes, NetTypes, NetTypes', SessionInv, FlowInv, OutcomeInv, WillInv,
         OrphanInv, PairsInv, [Next]_vars
  PROVE  PairsInv'
<1>1. history' = {} => history = {}
  BY HistoryGrows
<1>2. ASSUME Unsubscribe PROVE PairsInv'
  <2>1. UNCHANGED serverSub /\ (Agreed' => Agreed /\ link = "up" /\ link' = "up")
    BY <1>2, <1>1 DEF Agreed, Unsubscribe, clientVars
  <2>2. CASE link = "up" /\ sstate # "unsubscribed"
    <3>1. Appends(toServer, toServer', "unsubscribe", "live")
      BY <1>2, <2>2, SendsUnsubscribe DEF Unsubscribe
    <3>2. /\ Len(toServer) \in Nat /\ Len(toServer') = Len(toServer) + 1
          /\ \A i \in 1..Len(toServer) : toServer'[i].kind = toServer[i].kind
          /\ \A i \in 1..Len(toServer') : i > Len(toServer) => toServer'[i].kind = "unsubscribe"
      BY <3>1, CommandAdded
    <3>3. ASSUME Agreed', ~Doomed', serverSub', Len(toServer') # 0
          PROVE  toServer'[1].kind = "unsubscribe"
      BY <2>1, <3>2, <3>3, DoomedStays DEF PairsInv
    <3>4. ASSUME Agreed', ~Doomed', NEW i \in 1..(Len(toServer') - 1),
                 toServer'[i].kind = "subscribe"
          PROVE  toServer'[i + 1].kind = "unsubscribe"
      <4>1. CASE i = Len(toServer)
        BY <3>2, <4>1
      <4>2. CASE i # Len(toServer)
        <5>1. i \in 1..(Len(toServer) - 1) /\ i \in 1..Len(toServer)
                  /\ i + 1 \in 1..Len(toServer)
          BY <3>2, <4>2
        <5>2. QED
          BY <2>1, <3>2, <3>4, <5>1, DoomedStays DEF PairsInv
      <4>3. QED
        BY <4>1, <4>2
    <3>5. QED
      BY <3>3, <3>4 DEF PairsInv
  <2>3. CASE link = "up" /\ ~(sstate # "unsubscribed")
    <3>1. UNCHANGED toServer
      BY <1>2, <2>3 DEF Unsubscribe, DontSend
    <3>2. QED
      BY <2>1, <3>1, DoomedStays, PairsAfter, Lens
  <2>4. CASE link # "up"
    BY <2>1, <2>4 DEF PairsInv
  <2>5. QED
    BY <2>2, <2>3, <2>4
<1>3. ASSUME Close PROVE PairsInv'
  <2>1. ~Agreed'
    BY <1>3 DEF Agreed, Close
  <2>2. QED
    BY <2>1 DEF PairsInv
<1>4. ASSUME LinkFails PROVE PairsInv'
  <2>1. ~Agreed'
    BY <1>4 DEF Agreed, LinkFails, Teardown
  <2>2. QED
    BY <2>1 DEF PairsInv
<1>5. ASSUME ServerMoves PROVE PairsInv'
  <2>1. PICK command, reply, r :
           /\ Drops(toServer, toServer', command, r) /\ Appends(toClient, toClient', reply, r)
           /\ Answers(command, reply) /\ link = "up"
           /\ UNCHANGED <<link, connGeneration, due, sstate, subscribeAttempt, flow, tasks,
              history>>
    BY <1>5, ServerAnswers
  <2>2. /\ Len(toServer') \in Nat /\ Len(toServer) = Len(toServer') + 1
        /\ \A i \in 1..Len(toServer') : (LiveCommand(i)' <=> LiveCommand(i + 1))
               /\ toServer'[i].kind = toServer[i + 1].kind
        /\ toServer[1].kind = command /\ (LiveCommand(1) <=> command = "subscribe"
               /\ r = "live")
    BY <2>1, CommandTaken
  <2>3. (reply \in SubscribeReplies <=> command = "subscribe") /\ reply \notin Pushes
    BY <2>1, ReplyKinds DEF Answers
  <2>4. /\ Len(toClient) \in Nat /\ Len(toClient') = Len(toClient) + 1
        /\ \A i \in 1..Len(toClient) : /\ LiveReply(i)' <=> LiveReply(i)
                                       /\ Failed(i)' <=> Failed(i)
                                       /\ toClient'[i].kind = toClient[i].kind
        /\ \A i \in 1..Len(toClient') : i > Len(toClient) =>
             /\ LiveReply(i)' <=> command = "subscribe" /\ r = "live"
             /\ Failed(i)' <=> reply = "unsubscribeError" /\ r = "live"
             /\ toClient'[i].kind = reply
    BY <2>1, <2>3, MessageAdded
  <2>5. CASE ServerKeeps
    <3>1. Agreed' => Doomed'
      BY <2>5, KeepsDooms DEF Agreed
    <3>2. QED
      BY <3>1 DEF PairsInv
  <2>6. CASE ~ServerKeeps
    <3>1. ASSUME Agreed', ~Doomed' PROVE Agreed /\ ~Doomed
      BY <1>1, <2>1, <3>1, DoomedStays DEF Agreed
    <3>2. ASSUME Agreed', ~Doomed', serverSub', Len(toServer') # 0
          PROVE  toServer'[1].kind = "unsubscribe"
      <4>1. 1 \in 1..(Len(toServer) - 1) /\ 1 \in 1..Len(toServer') /\ 1 + 1 = 2
        BY <2>2, <3>2
      <4>2. command = "subscribe"
        BY <2>1, <2>6, <3>2 DEF Answers
      <4>3. QED
        BY <2>2, <3>1, <3>2, <4>1, <4>2 DEF PairsInv
    <3>3. ASSUME Agreed', ~Doomed', NEW i \in 1..(Len(toServer') - 1),
                 toServer'[i].kind = "subscribe"
          PROVE  toServer'[i + 1].kind = "unsubscribe"
      <4>1. i + 1 \in 1..(Len(toServer) - 1) /\ i \in 1..Len(toServer')
                /\ i + 1 \in 1..Len(toServer')
        BY <2>2
      <4>2. QED
        BY <2>2, <3>1, <3>3, <4>1 DEF PairsInv
    <3>4. QED
      BY <3>2, <3>3 DEF PairsInv
  <2>7. QED
    BY <2>5, <2>6
<1>6. ASSUME RequestTimeout PROVE PairsInv'
  <2>1. Len(toServer') = Len(toServer)
            /\ \A i \in 1..Len(toServer) : toServer'[i].kind = toServer[i].kind
    BY <1>6, TimesOut DEF SameKinds
  <2>2. UNCHANGED serverSub /\ (Agreed' => Agreed /\ link = "up" /\ link' = "up")
    BY <1>6, <1>1 DEF Agreed, RequestTimeout, clientVars
  <2>3. QED
    BY <2>1, <2>2, DoomedStays, PairsAfter, Lens
<1>7. ASSUME UnsubscribeTimeout PROVE PairsInv'
  <2>1. Len(toServer') = Len(toServer)
            /\ \A i \in 1..Len(toServer) : toServer'[i].kind = toServer[i].kind
    BY <1>7, UnsubscribeTimesOut DEF SameKinds
  <2>2. UNCHANGED serverSub /\ (Agreed' => Agreed /\ link = "up" /\ link' = "up")
    BY <1>7, <1>1 DEF Agreed, UnsubscribeTimeout, clientVars
  <2>3. QED
    BY <2>1, <2>2, DoomedStays, PairsAfter, Lens
<1>8. ASSUME MalformedReply PROVE PairsInv'
  <2>1. ~Agreed'
    BY <1>8 DEF Agreed, MalformedReply
  <2>2. QED
    BY <2>1 DEF PairsInv
<1>9. ASSUME NEW kind \in Pushes, ServerPushes(kind) PROVE PairsInv'
  <2>1. UNCHANGED toServer /\ ~serverSub' /\ (Agreed' => Agreed /\ link = "up" /\ link' = "up")
    BY <1>9, <1>1 DEF Agreed, ServerPushes, clientVars
  <2>2. QED
    BY <2>1, DoomedStays, PairsAfter, Lens
<1>10. ASSUME Connects PROVE PairsInv'
  <2>1. Len(toServer') = 0 /\ ~serverSub'
    BY <1>10 DEF Connects, SessionInv, netVars
  <2>2. QED
    BY <2>1 DEF PairsInv
<1>11. ASSUME SessionEnds PROVE PairsInv'
  <2>1. ~Agreed'
    BY <1>11 DEF Agreed, SessionEnds
  <2>2. QED
    BY <2>1 DEF PairsInv
<1>12. ASSUME TeardownDone PROVE PairsInv'
  <2>1. ~Agreed'
    BY <1>12 DEF Agreed, TeardownDone
  <2>2. QED
    BY <2>1 DEF PairsInv
<1>13. ASSUME NEW r \in Reports, ReportTearsDown(r) PROVE PairsInv'
  <2>1. ~Agreed'
    BY <1>13 DEF Agreed, ReportTearsDown, Teardown
  <2>2. QED
    BY <2>1 DEF PairsInv
<1>14. ASSUME NEW r \in Reports, ReportIgnored(r) PROVE PairsInv'
  <2>1. ~Agreed'
    BY <1>14 DEF Agreed, ReportIgnored, clientVars
  <2>2. QED
    BY <2>1 DEF PairsInv
<1>15. ASSUME SendSubscribe PROVE PairsInv'
  <2>1. UNCHANGED serverSub /\ (Agreed' => Agreed /\ link = "up" /\ link' = "up")
    BY <1>15, <1>1 DEF Agreed, SendSubscribe, clientVars
  <2>2. Appends(toServer, toServer', "subscribe", "live")
    BY <1>15, SendsSubscribe
  <2>3. /\ Len(toServer) \in Nat /\ Len(toServer') = Len(toServer) + 1
        /\ \A i \in 1..Len(toServer) : toServer'[i].kind = toServer[i].kind
    BY <2>2, CommandAdded
  <2>4. ASSUME Agreed', ~Doomed' PROVE Agreed /\ ~Doomed /\ ~Will
    <3>1. Agreed /\ ~Doomed
      BY <2>1, <2>4, DoomedStays
    <3>2. flow.stage = "send" /\ sstate = "subscribing"
      BY <1>15 DEF SendSubscribe, ResultWanted
    <3>3. \A t \in tasks : ~IsOutcome(t)
      BY <3>1, <3>2 DEF OutcomeInv
    <3>4. QED
      BY <3>1, <3>2, <3>3 DEF WillInv, CurrentFlow, Expected, Awaited
  <2>5. ASSUME Agreed', ~Doomed', serverSub', Len(toServer') # 0
        PROVE  toServer'[1].kind = "unsubscribe"
    <3>1. Len(toServer) # 0
      BY <2>1, <2>4, <2>5 DEF Will
    <3>2. 1 \in 1..Len(toServer)
      BY <2>3, <3>1
    <3>3. QED
      BY <2>1, <2>3, <2>4, <2>5, <3>1, <3>2 DEF PairsInv
  <2>6. ASSUME Agreed', ~Doomed', NEW i \in 1..(Len(toServer') - 1),
               toServer'[i].kind = "subscribe"
        PROVE  toServer'[i + 1].kind = "unsubscribe"
    <3>1. i \in 1..Len(toServer)
      BY <2>3
    <3>2. i # Len(toServer)
      BY <2>3, <2>4, <2>6, <3>1 DEF Will
    <3>3. i \in 1..(Len(toServer) - 1) /\ i + 1 \in 1..Len(toServer)
      BY <2>3, <3>1, <3>2
    <3>4. QED
      BY <2>3, <2>4, <2>6, <3>1, <3>3 DEF PairsInv
  <2>7. QED
    BY <2>5, <2>6 DEF PairsInv
<1>16. ASSUME SendFails PROVE PairsInv'
  <2>1. UNCHANGED <<toServer, serverSub>>
    BY <1>16 DEF SendFails, netVars
  <2>2. Agreed' => Agreed /\ link = "up" /\ link' = "up"
    BY <1>16, <1>1 DEF Agreed, SendFails, clientVars
  <2>3. QED
    BY <2>1, <2>2, DoomedStays, PairsAfter, Lens
<1>17. ASSUME Reader PROVE PairsInv'
  <2>1. PICK kind, r :
           /\ Drops(toClient, toClient', kind, r)
           /\ UNCHANGED <<link, connGeneration, toServer, serverSub, history, sstate,
              subscribeAttempt>>
           /\ due \subseteq due' /\ (kind = "unsubscribeError" /\ r = "live" => due' # {})
           /\ UNCHANGED flow \/ (kind \in SubscribeReplies /\ r = "live"
                  /\ flow'.stage = "none")
    BY <1>17, ReaderReceives
  <2>2. /\ Len(toClient') \in Nat /\ Len(toClient) = Len(toClient') + 1
        /\ \A i \in 1..Len(toClient') : /\ LiveReply(i)' <=> LiveReply(i + 1)
                                        /\ Failed(i)' <=> Failed(i + 1)
                                        /\ toClient'[i].kind = toClient[i + 1].kind
        /\ toClient[1].kind = kind /\ (LiveReply(1) <=> kind \in SubscribeReplies /\ r = "live")
        /\ (Failed(1) <=> kind = "unsubscribeError" /\ r = "live")
    BY <2>1, MessageTaken
  <2>3. Agreed' => Agreed /\ link = "up" /\ link' = "up"
    BY <1>1, <2>1 DEF Agreed
  <2>4. QED
    BY <2>1, <2>3, DoomedStays, PairsAfter, Lens
<1>18. ASSUME NEW t \in tasks, Invalidates(t) PROVE PairsInv'
  <2>1. UNCHANGED <<toServer, serverSub>>
    BY <1>18 DEF Invalidates, netVars
  <2>2. Agreed' => Agreed /\ link = "up" /\ link' = "up"
    BY <1>18, <1>1 DEF Agreed, Invalidates, clientVars
  <2>3. QED
    BY <2>1, <2>2, DoomedStays, PairsAfter, Lens
<1>19. ASSUME NEW t \in tasks, DeltaFailed(t) PROVE PairsInv'
  <2>1. UNCHANGED <<toServer, serverSub>>
    BY <1>19 DEF DeltaFailed, netVars
  <2>2. Agreed' => Agreed /\ link = "up" /\ link' = "up"
    BY <1>19, <1>1 DEF Agreed, DeltaFailed, clientVars
  <2>3. QED
    BY <2>1, <2>2, DoomedStays, PairsAfter, Lens
<1>20. ASSUME NEW t \in tasks, SubscribeError(t) PROVE PairsInv'
  <2>1. UNCHANGED <<toServer, serverSub>>
    BY <1>20 DEF SubscribeError, netVars
  <2>2. Agreed' => Agreed /\ link = "up" /\ link' = "up"
    BY <1>20, <1>1 DEF Agreed, SubscribeError, clientVars
  <2>3. QED
    BY <2>1, <2>2, DoomedStays, PairsAfter, Lens
<1>21. ASSUME NEW t \in tasks, PushUnsubscribes(t) PROVE PairsInv'
  <2>1. UNCHANGED serverSub /\ (Agreed' => Agreed /\ link = "up" /\ link' = "up")
    BY <1>21, <1>1 DEF Agreed, PushUnsubscribes, clientVars
  <2>2. CASE link = "up" /\ inflight
    <3>1. Appends(toServer, toServer', "unsubscribe", "live")
      BY <1>21, <2>2, SendsUnsubscribe DEF PushUnsubscribes
    <3>2. /\ Len(toServer) \in Nat /\ Len(toServer') = Len(toServer) + 1
          /\ \A i \in 1..Len(toServer) : toServer'[i].kind = toServer[i].kind
          /\ \A i \in 1..Len(toServer') : i > Len(toServer) => toServer'[i].kind = "unsubscribe"
      BY <3>1, CommandAdded
    <3>3. ASSUME Agreed', ~Doomed', serverSub', Len(toServer') # 0
          PROVE  toServer'[1].kind = "unsubscribe"
      BY <2>1, <3>2, <3>3, DoomedStays DEF PairsInv
    <3>4. ASSUME Agreed', ~Doomed', NEW i \in 1..(Len(toServer') - 1),
                 toServer'[i].kind = "subscribe"
          PROVE  toServer'[i + 1].kind = "unsubscribe"
      <4>1. CASE i = Len(toServer)
        BY <3>2, <4>1
      <4>2. CASE i # Len(toServer)
        <5>1. i \in 1..(Len(toServer) - 1) /\ i \in 1..Len(toServer)
                  /\ i + 1 \in 1..Len(toServer)
          BY <3>2, <4>2
        <5>2. QED
          BY <2>1, <3>2, <3>4, <5>1, DoomedStays DEF PairsInv
      <4>3. QED
        BY <4>1, <4>2
    <3>5. QED
      BY <3>3, <3>4 DEF PairsInv
  <2>3. CASE link = "up" /\ ~(inflight)
    <3>1. UNCHANGED toServer
      BY <1>21, <2>3 DEF PushUnsubscribes, DontSend
    <3>2. QED
      BY <2>1, <3>1, DoomedStays, PairsAfter, Lens
  <2>4. CASE link # "up"
    BY <2>1, <2>4 DEF PairsInv
  <2>5. QED
    BY <2>2, <2>3, <2>4
<1>22. CASE UNCHANGED <<link, due, toServer, toClient, serverSub>>
  <2>1. Agreed' => Agreed /\ link = "up" /\ link' = "up"
    BY <1>22, <1>1 DEF Agreed
  <2>2. QED
    BY <1>22, <2>1, DoomedStays, PairsAfter, Lens
<1>23. QED
  BY <1>2, <1>3, <1>4, <1>5, <1>6, <1>7, <1>8, <1>9, <1>10, <1>11, <1>12, <1>13, <1>14,
     <1>15, <1>16, <1>17, <1>18, <1>19, <1>20, <1>21, <1>22
     DEF Next, Application, Failure, Client, SubscribeFlow, Reader, Run, Server, vars,
         ServerMoves, SubscribeCalled, ConnectionInvalidated, Sweeps, GetStateStarts,
         ResultDropped, GetStateReturns, ContinueResubscribe, GetTokenReturns, GetFails,
         GetTokenUnauthorized, SendNotConnected, RequestFailed, TimerFires, Subscribe,
         ClosedUnsubscribes, ResubscribeStarts, MoveToSubscribed, ErrorOutdated,
         PushInvalidates, PushResubscribes, clientVars, netVars

\* A session comes up only when the client connects.
LEMMA LinkRises ==
  ASSUME link' = "up", [Next]_vars
  PROVE  link = "up" \/ Connects
<1> USE DEF clientVars
<1>1. ASSUME Connects PROVE link = "up" \/ Connects
  BY <1>1
<1>2. ASSUME NEW r \in Reports, ReportTearsDown(r) PROVE link = "up" \/ Connects
  BY <1>2 DEF ReportTearsDown, Teardown, clientVars
<1>3. ASSUME Close \/ LinkFails \/ MalformedReply PROVE link = "up" \/ Connects
  BY <1>3 DEF Close, LinkFails, MalformedReply, Teardown, clientVars
<1>4. ASSUME SessionEnds \/ TeardownDone PROVE link = "up" \/ Connects
  BY <1>4 DEF SessionEnds, TeardownDone, clientVars
<1>5. CASE UNCHANGED <<link>>
  BY <1>5
<1>6. QED
  BY <1>1, <1>2, <1>3, <1>4, <1>5
     DEF Next, Application, Failure, Client, SubscribeFlow, Reader, Run, Server, vars,
         SubscribeCalled, Unsubscribe, ConnectionInvalidated, ServerKeeps, RequestTimeout,
         UnsubscribeTimeout, ServerRejects, ServerPushes, Sweeps, ReportIgnored,
         GetStateStarts, ResultDropped, GetStateReturns, ContinueResubscribe,
         GetTokenReturns, GetFails, GetTokenUnauthorized, SendSubscribe, SendNotConnected,
         SendFails, RequestFailed, SubscribeReplied, UnsubscribeReplied, LateReply,
         PushReceived, TimerFires, ServerSubscribes, ServerUnsubscribes, Invalidates,
         Subscribe, ClosedUnsubscribes, ResubscribeStarts, MoveToSubscribed, DeltaFailed,
         ErrorOutdated, SubscribeError, PushUnsubscribes, PushInvalidates,
         PushResubscribes, ServerTakes, clientVars

\* Every step keeps LastInv: an unsubscribe behind a subscribe ends its attempt.
LEMMA LastStep ==
  ASSUME LinkTypes, StateTypes, FlowTypes, FlowInv, AttemptInv, OutcomeInv, NetTypes,
         NetTypes', SessionInv, LastInv, [Next]_vars
  PROVE  LastInv'
<1>1. history' = {} => history = {}
  BY HistoryGrows
<1>2. Agreed /\ CurrentFlow' => CurrentFlow \/ SendSubscribe
  BY CurrentFlowStays
<1>3. ASSUME Unsubscribe PROVE LastInv'
  <2>1. ~CurrentFlow'
    BY <1>3 DEF CurrentFlow, Current, Unsubscribe, MoveToUnsubscribed
  <2>2. QED
    BY <2>1 DEF LastInv
<1>4. ASSUME Close PROVE LastInv'
  <2>1. ~Agreed'
    BY <1>4 DEF Agreed, Close
  <2>2. QED
    BY <2>1 DEF LastInv
<1>5. ASSUME LinkFails PROVE LastInv'
  <2>1. ~Agreed'
    BY <1>5 DEF Agreed, LinkFails, Teardown
  <2>2. QED
    BY <2>1 DEF LastInv
<1>6. ASSUME ServerMoves PROVE LastInv'
  <2>1. PICK command, reply, r :
           /\ Drops(toServer, toServer', command, r) /\ Appends(toClient, toClient', reply, r)
           /\ Answers(command, reply) /\ link = "up"
           /\ UNCHANGED <<link, connGeneration, due, sstate, subscribeAttempt, flow, tasks,
              history>>
    BY <1>6, ServerAnswers
  <2>2. /\ Len(toServer') \in Nat /\ Len(toServer) = Len(toServer') + 1
        /\ \A i \in 1..Len(toServer') : (LiveCommand(i)' <=> LiveCommand(i + 1))
               /\ toServer'[i].kind = toServer[i + 1].kind
        /\ toServer[1].kind = command /\ (LiveCommand(1) <=> command = "subscribe"
               /\ r = "live")
    BY <2>1, CommandTaken
  <2>3. (reply \in SubscribeReplies <=> command = "subscribe") /\ reply \notin Pushes
    BY <2>1, ReplyKinds DEF Answers
  <2>4. /\ Len(toClient) \in Nat /\ Len(toClient') = Len(toClient) + 1
        /\ \A i \in 1..Len(toClient) : /\ LiveReply(i)' <=> LiveReply(i)
                                       /\ Failed(i)' <=> Failed(i)
                                       /\ toClient'[i].kind = toClient[i].kind
        /\ \A i \in 1..Len(toClient') : i > Len(toClient) =>
             /\ LiveReply(i)' <=> command = "subscribe" /\ r = "live"
             /\ Failed(i)' <=> reply = "unsubscribeError" /\ r = "live"
             /\ toClient'[i].kind = reply
    BY <2>1, <2>3, MessageAdded
  <2>5. CASE Agreed' /\ CurrentFlow' /\ Len(toServer') # 0
    <3>1. Agreed /\ CurrentFlow
      BY <1>1, <2>1, <2>5 DEF Agreed, CurrentFlow, Current
    <3>2. LiveCommand(Len(toServer)) /\ Len(toServer') \in 1..Len(toServer')
      BY <2>2, <2>5, <3>1 DEF LastInv
    <3>3. PICK n \in 1..Len(toServer') : n = Len(toServer') /\ LiveCommand(n)'
      BY <2>2, <3>2
    <3>4. QED
      BY <3>3 DEF LastInv, LiveCommand
  <2>6. QED
    BY <2>5 DEF LastInv
<1>7. ASSUME RequestTimeout PROVE LastInv'
  <2>1. ~CurrentFlow'
    BY <1>7 DEF CurrentFlow, Current, RequestTimeout, EndFlow, NoFlow, Flow
  <2>2. QED
    BY <2>1 DEF LastInv
<1>8. ASSUME UnsubscribeTimeout PROVE LastInv'
  <2>1. Agreed' /\ CurrentFlow' => Agreed /\ CurrentFlow
    BY <1>8, <1>1
       DEF Agreed, CurrentFlow, Current, UnsubscribeTimeout, clientVars, subVars
  <2>2. Len(toServer') = Len(toServer)
            /\ \A i \in 1..Len(toServer) : LiveCommand(i)' <=> LiveCommand(i)
    BY <1>8, UnsubscribeTimesOut DEF SameKinds
  <2>3. QED
    BY <2>1, <2>2, Lens DEF LastInv, LiveCommand
<1>9. ASSUME MalformedReply PROVE LastInv'
  <2>1. ~Agreed'
    BY <1>9 DEF Agreed, MalformedReply
  <2>2. QED
    BY <2>1 DEF LastInv
<1>10. ASSUME NEW r \in Reports, ReportTearsDown(r) PROVE LastInv'
  <2>1. ~Agreed'
    BY <1>10 DEF Agreed, ReportTearsDown, Teardown
  <2>2. QED
    BY <2>1 DEF LastInv
<1>11. ASSUME SendSubscribe PROVE LastInv'
  <2>1. Appends(toServer, toServer', "subscribe", "live")
    BY <1>11, SendsSubscribe
  <2>2. QED
    BY <2>1 DEF Appends, LastInv, LiveCommand
<1>12. ASSUME NEW t \in tasks, PushUnsubscribes(t) PROVE LastInv'
  <2>1. ~CurrentFlow'
    BY <1>12 DEF CurrentFlow, Current, PushUnsubscribes, MoveToUnsubscribed
  <2>2. QED
    BY <2>1 DEF LastInv
<1>13. CASE UNCHANGED <<toServer>>
  <2>1. CASE link = "up" /\ Agreed'
    <3>1. ~SendSubscribe /\ Agreed
      BY <1>13, <1>1, <2>1, SendsSubscribe, Lens DEF Appends, Agreed
    <3>2. QED
      BY <1>13, <1>2, <3>1, CommandsKept, Lens DEF LastInv, LiveCommand
  <2>2. CASE link # "up" /\ Agreed'
    BY <1>13, <2>2 DEF SessionInv, LastInv
  <2>3. QED
    BY <2>1, <2>2 DEF LastInv
<1>14. QED
  BY <1>3, <1>4, <1>5, <1>6, <1>7, <1>8, <1>9, <1>10, <1>11, <1>12, <1>13
     DEF Next, Application, Failure, Client, SubscribeFlow, Reader, Run, Server, vars,
         ServerMoves, SubscribeCalled, ConnectionInvalidated, ServerPushes, Connects,
         Sweeps, SessionEnds, TeardownDone, ReportIgnored, GetStateStarts, ResultDropped,
         GetStateReturns, ContinueResubscribe, GetTokenReturns, GetFails,
         GetTokenUnauthorized, SendNotConnected, SendFails, RequestFailed,
         SubscribeReplied, UnsubscribeReplied, LateReply, PushReceived, TimerFires,
         Invalidates, Subscribe, ClosedUnsubscribes, ResubscribeStarts, MoveToSubscribed,
         DeltaFailed, ErrorOutdated, SubscribeError, PushInvalidates, PushResubscribes,
         netVars

\* Pushes after a position, when a message is received.
LEMMA NoPushTaken ==
  ASSUME NetTypes, NetTypes', NEW kind,
         NEW request, Drops(toClient, toClient', kind, request), NEW n \in Nat
  PROVE  /\ NoPushAfter(n)' <=> NoPushAfter(n + 1)
         /\ kind \notin Pushes => (NoPushAfter(0) <=> NoPushAfter(1))
         /\ kind \in Pushes => ~NoPushAfter(0)
<1>1. /\ Len(toClient') \in Nat /\ Len(toClient) = Len(toClient') + 1 /\ toClient[1].kind = kind
      /\ \A i \in 1..Len(toClient') : toClient'[i].kind = toClient[i + 1].kind
  BY MessageTaken
<1>2. ASSUME NoPushAfter(n)', NEW i \in 1..Len(toClient), i > n + 1
      PROVE  toClient[i].kind \notin Pushes
  <2>1. i - 1 \in 1..Len(toClient') /\ i - 1 > n /\ (i - 1) + 1 = i
    BY <1>1, <1>2
  <2>2. QED
    BY <1>1, <1>2, <2>1 DEF NoPushAfter
<1>3. ASSUME NoPushAfter(n + 1), NEW i \in 1..Len(toClient'), i > n
      PROVE  toClient'[i].kind \notin Pushes
  <2>1. i + 1 \in 1..Len(toClient) /\ i + 1 > n + 1
    BY <1>1, <1>3
  <2>2. QED
    BY <1>1, <1>3, <2>1 DEF NoPushAfter
<1>4. NoPushAfter(n)' <=> NoPushAfter(n + 1)
  BY <1>2, <1>3 DEF NoPushAfter
<1>5. kind \notin Pushes => (NoPushAfter(0) <=> NoPushAfter(1))
  BY <1>1 DEF NoPushAfter
<1>6. kind \in Pushes => ~NoPushAfter(0)
  <2>1. 1 \in 1..Len(toClient) /\ 1 > 0
    BY <1>1
  <2>2. QED
    BY <1>1, <2>1 DEF NoPushAfter
<1>7. QED
  BY <1>4, <1>5, <1>6

\* Pushes after a position, when a message is added.
LEMMA NoPushAdded ==
  ASSUME NetTypes, NetTypes', NEW kind,
         NEW request, Appends(toClient, toClient', kind, request),
         NEW n \in 0..Len(toClient)
  PROVE  NoPushAfter(n)' <=> NoPushAfter(n) /\ kind \notin Pushes
<1>1. /\ Len(toClient) \in Nat /\ Len(toClient') = Len(toClient) + 1
      /\ \A i \in 1..Len(toClient) : toClient'[i].kind = toClient[i].kind
      /\ \A i \in 1..Len(toClient') : i > Len(toClient) => toClient'[i].kind = kind
  BY MessageAdded
<1>2. ASSUME NoPushAfter(n)' PROVE NoPushAfter(n) /\ kind \notin Pushes
  <2>1. Len(toClient) + 1 \in 1..Len(toClient') /\ Len(toClient) + 1 > n
    BY <1>1
  <2>2. QED
    BY <1>1, <1>2, <2>1 DEF NoPushAfter
<1>3. ASSUME NoPushAfter(n), kind \notin Pushes PROVE NoPushAfter(n)'
  BY <1>1, <1>3 DEF NoPushAfter
<1>4. QED
  BY <1>2, <1>3

\* Pushes after a position, when the kinds stay.
LEMMA NoPushKept ==
  ASSUME SameKinds(toClient, toClient') \/ UNCHANGED toClient, NEW n
  PROVE  NoPushAfter(n)' <=> NoPushAfter(n)
BY DEF SameKinds, NoPushAfter

\* Every step keeps RepliedInv.
LEMMA RepliedStep ==
  ASSUME LinkTypes, StateTypes, FlowTypes, FlowInv, AttemptInv, OutcomeInv, NetTypes,
         NetTypes', SessionInv, LiveInv, LastInv, RepliedInv, [Next]_vars
  PROVE  RepliedInv'
<1>1. history' = {} => history = {}
  BY HistoryGrows
<1>2. Agreed /\ CurrentFlow' => CurrentFlow \/ SendSubscribe
  BY CurrentFlowStays
<1>3. ASSUME Unsubscribe PROVE RepliedInv'
  <2>1. ~CurrentFlow'
    BY <1>3 DEF CurrentFlow, Current, Unsubscribe, MoveToUnsubscribed
  <2>2. QED
    BY <2>1 DEF RepliedInv
<1>4. ASSUME Close PROVE RepliedInv'
  <2>1. ~Agreed'
    BY <1>4 DEF Agreed, Close
  <2>2. QED
    BY <2>1 DEF RepliedInv
<1>5. ASSUME LinkFails PROVE RepliedInv'
  <2>1. ~Agreed'
    BY <1>5 DEF Agreed, LinkFails, Teardown
  <2>2. QED
    BY <2>1 DEF RepliedInv
<1>6. ASSUME ServerMoves PROVE RepliedInv'
  <2>1. PICK command, reply, r :
           /\ Drops(toServer, toServer', command, r) /\ Appends(toClient, toClient', reply, r)
           /\ Answers(command, reply) /\ link = "up"
           /\ UNCHANGED <<link, connGeneration, due, sstate, subscribeAttempt, flow, tasks,
              history>>
    BY <1>6, ServerAnswers
  <2>2. /\ Len(toServer') \in Nat /\ Len(toServer) = Len(toServer') + 1
        /\ \A i \in 1..Len(toServer') : (LiveCommand(i)' <=> LiveCommand(i + 1))
               /\ toServer'[i].kind = toServer[i + 1].kind
        /\ toServer[1].kind = command /\ (LiveCommand(1) <=> command = "subscribe"
               /\ r = "live")
    BY <2>1, CommandTaken
  <2>3. (reply \in SubscribeReplies <=> command = "subscribe") /\ reply \notin Pushes
    BY <2>1, ReplyKinds DEF Answers
  <2>4. /\ Len(toClient) \in Nat /\ Len(toClient') = Len(toClient) + 1
        /\ \A i \in 1..Len(toClient) : /\ LiveReply(i)' <=> LiveReply(i)
                                       /\ Failed(i)' <=> Failed(i)
                                       /\ toClient'[i].kind = toClient[i].kind
        /\ \A i \in 1..Len(toClient') : i > Len(toClient) =>
             /\ LiveReply(i)' <=> command = "subscribe" /\ r = "live"
             /\ Failed(i)' <=> reply = "unsubscribeError" /\ r = "live"
             /\ toClient'[i].kind = reply
    BY <2>1, <2>3, MessageAdded
  <2>5. CASE Agreed' /\ CurrentFlow'
    <3>1. Agreed /\ CurrentFlow /\ Len(toServer) # 0 /\ Len(toServer) \in 1..Len(toServer)
      BY <1>1, <2>1, <2>2, <2>5 DEF Agreed, CurrentFlow, Current
    <3>2. \A j \in 1..Len(toClient) : ~LiveReply(j)
      BY <2>1, <3>1 DEF LastInv, LiveInv
    <3>3. ASSUME NEW i \in 1..Len(toClient'), LiveReply(i)'
          PROVE  /\ toClient'[i].kind = "ok" => (serverSub' <=> NoPushAfter(i)')
                 /\ toClient'[i].kind \notin {"ok", "already"} => ~serverSub'
      <4>1. i > Len(toClient) /\ NoPushAfter(i)'
        BY <2>4, <3>2, <3>3 DEF NoPushAfter
      <4>2. QED
        BY <2>1, <2>4, <3>3, <4>1 DEF Answers, ReplyErrors
    <3>4. QED
      BY <3>3 DEF RepliedInv
  <2>6. QED
    BY <2>5 DEF RepliedInv
<1>7. ASSUME RequestTimeout PROVE RepliedInv'
  <2>1. ~CurrentFlow'
    BY <1>7 DEF CurrentFlow, Current, RequestTimeout, EndFlow, NoFlow, Flow
  <2>2. QED
    BY <2>1 DEF RepliedInv
<1>8. ASSUME UnsubscribeTimeout PROVE RepliedInv'
  <2>1. (Agreed' /\ CurrentFlow' => Agreed /\ CurrentFlow) /\ UNCHANGED serverSub
    BY <1>8, <1>1
       DEF Agreed, CurrentFlow, Current, UnsubscribeTimeout, clientVars, subVars
  <2>2. /\ Len(toClient') = Len(toClient)
        /\ \A i \in 1..Len(toClient) : (LiveReply(i)' <=> LiveReply(i))
               /\ toClient'[i].kind = toClient[i].kind
        /\ \A i \in 1..Len(toClient) : NoPushAfter(i)' <=> NoPushAfter(i)
    BY <1>8, UnsubscribeTimesOut, NoPushKept DEF SameKinds
  <2>3. QED
    BY <2>1, <2>2 DEF RepliedInv
<1>9. ASSUME MalformedReply PROVE RepliedInv'
  <2>1. ~Agreed'
    BY <1>9 DEF Agreed, MalformedReply
  <2>2. QED
    BY <2>1 DEF RepliedInv
<1>10. ASSUME NEW kind \in Pushes, ServerPushes(kind) PROVE RepliedInv'
  <2>1. Appends(toClient, toClient', kind, "live")
    BY <1>10, Pushed
  <2>2. ASSUME Agreed', CurrentFlow', NEW i \in 1..Len(toClient'), LiveReply(i)'
        PROVE  /\ toClient'[i].kind = "ok" => (serverSub' <=> NoPushAfter(i)')
               /\ toClient'[i].kind \notin {"ok", "already"} => ~serverSub'
    <3>1. Agreed /\ CurrentFlow /\ ~serverSub'
      BY <1>10, <1>1, <2>2
         DEF Agreed, CurrentFlow, Current, ServerPushes, clientVars, subVars
    <3>2. i \in 1..Len(toClient) /\ i \in 0..Len(toClient)
      BY <2>1, <2>2, MessageAdded, ReplyKinds
    <3>3. ~NoPushAfter(i)'
      BY <2>1, <3>2, NoPushAdded
    <3>4. QED
      BY <3>1, <3>3
  <2>3. QED
    BY <2>2 DEF RepliedInv
<1>11. ASSUME SessionEnds PROVE RepliedInv'
  <2>1. ~Agreed'
    BY <1>11 DEF Agreed, SessionEnds
  <2>2. QED
    BY <2>1 DEF RepliedInv
<1>12. ASSUME NEW r \in Reports, ReportTearsDown(r) PROVE RepliedInv'
  <2>1. ~Agreed'
    BY <1>12 DEF Agreed, ReportTearsDown, Teardown
  <2>2. QED
    BY <2>1 DEF RepliedInv
<1>13. ASSUME SendSubscribe PROVE RepliedInv'
  <2>1. link = "up" /\ flow.stage = "send" /\ UNCHANGED toClient
    BY <1>13 DEF SendSubscribe
  <2>2. \A i \in 1..Len(toClient') : ~LiveReply(i)'
    BY <2>1, MessagesKept DEF LiveInv
  <2>3. QED
    BY <2>2 DEF RepliedInv
<1>14. ASSUME Reader PROVE RepliedInv'
  <2>1. PICK kind, r :
           /\ Drops(toClient, toClient', kind, r)
           /\ UNCHANGED <<link, connGeneration, toServer, serverSub, history, sstate,
              subscribeAttempt>>
           /\ due \subseteq due' /\ (kind = "unsubscribeError" /\ r = "live" => due' # {})
           /\ UNCHANGED flow \/ (kind \in SubscribeReplies /\ r = "live"
                  /\ flow'.stage = "none")
    BY <1>14, ReaderReceives
  <2>2. /\ Len(toClient') \in Nat /\ Len(toClient) = Len(toClient') + 1
        /\ \A i \in 1..Len(toClient') : /\ LiveReply(i)' <=> LiveReply(i + 1)
                                        /\ Failed(i)' <=> Failed(i + 1)
                                        /\ toClient'[i].kind = toClient[i + 1].kind
        /\ toClient[1].kind = kind /\ (LiveReply(1) <=> kind \in SubscribeReplies /\ r = "live")
        /\ (Failed(1) <=> kind = "unsubscribeError" /\ r = "live")
    BY <2>1, MessageTaken
  <2>3. CASE Agreed' /\ CurrentFlow'
    <3>1. Agreed /\ CurrentFlow /\ UNCHANGED serverSub
      BY <1>1, <2>1, <2>3 DEF Agreed, CurrentFlow, Current
    <3>2. ASSUME NEW i \in 1..Len(toClient'), LiveReply(i)'
          PROVE  /\ toClient'[i].kind = "ok" => (serverSub' <=> NoPushAfter(i)')
                 /\ toClient'[i].kind \notin {"ok", "already"} => ~serverSub'
      <4>1. i + 1 \in 1..Len(toClient) /\ LiveReply(i + 1)
                /\ toClient'[i].kind = toClient[i + 1].kind
        BY <2>2, <3>2
      <4>2. /\ toClient'[i].kind = "ok" => (serverSub <=> NoPushAfter(i + 1))
            /\ toClient'[i].kind \notin {"ok", "already"} => ~serverSub
        BY <3>1, <4>1 DEF RepliedInv
      <4>3. NoPushAfter(i)' <=> NoPushAfter(i + 1)
        BY <2>1, NoPushTaken
      <4>4. QED
        BY <3>1, <4>2, <4>3
    <3>3. QED
      BY <3>2 DEF RepliedInv
  <2>4. QED
    BY <2>3 DEF RepliedInv
<1>15. ASSUME NEW t \in tasks, PushUnsubscribes(t) PROVE RepliedInv'
  <2>1. ~CurrentFlow'
    BY <1>15 DEF CurrentFlow, Current, PushUnsubscribes, MoveToUnsubscribed
  <2>2. QED
    BY <2>1 DEF RepliedInv
<1>16. CASE UNCHANGED <<toServer, toClient, serverSub>>
  <2>1. CASE Agreed'
    <3>1. CASE link = "up"
      <4>1. ~SendSubscribe /\ Agreed
        BY <1>16, <1>1, <2>1, <3>1, SendsSubscribe, Lens DEF Appends, Agreed
      <4>2. \A i \in 1..Len(toClient) : (LiveReply(i)' <=> LiveReply(i))
                /\ (NoPushAfter(i)' <=> NoPushAfter(i))
        BY <1>16, MessagesKept, NoPushKept
      <4>3. QED
        BY <1>16, <1>2, <4>1, <4>2 DEF RepliedInv
    <3>2. CASE link # "up"
      <4>1. Len(toClient) = 0
        BY <2>1, <3>2, LinkRises DEF Agreed, Connects, SessionInv, Connected
      <4>2. QED
        BY <1>16, <4>1 DEF RepliedInv
    <3>3. QED
      BY <3>1, <3>2
  <2>2. QED
    BY <2>1 DEF RepliedInv
<1>17. QED
  BY <1>3, <1>4, <1>5, <1>6, <1>7, <1>8, <1>9, <1>10, <1>11, <1>12, <1>13, <1>14, <1>15,
     <1>16
     DEF Next, Application, Failure, Client, SubscribeFlow, Reader, Run, Server, vars,
         ServerMoves, SubscribeCalled, ConnectionInvalidated, Connects, Sweeps,
         TeardownDone, ReportIgnored, GetStateStarts, ResultDropped, GetStateReturns,
         ContinueResubscribe, GetTokenReturns, GetFails, GetTokenUnauthorized,
         SendNotConnected, SendFails, RequestFailed, TimerFires, Invalidates, Subscribe,
         ClosedUnsubscribes, ResubscribeStarts, MoveToSubscribed, DeltaFailed,
         ErrorOutdated, SubscribeError, PushInvalidates, PushResubscribes, netVars

\* A reply that will make the subscription subscribed is that of the current subscribe.
LEMMA OkAppears ==
  ASSUME LinkTypes, StateTypes, FlowTypes, TaskTypes, GenerationInv, AttemptInv,
         OutcomeInv, Agreed, OkPending', [Next]_vars
  PROVE  OkPending \/ (CurrentFlow /\ SubscribeReplied("ok"))
<1> USE OutcomeKinds, TaskFields DEF LinkTypes, StateTypes, FlowTypes, TaskTypes,
    GenerationInv, AttemptInv, OutcomeInv, Agreed, OkPending, CurrentFlow, Current,
    IsOutcome, clientVars, subVars
<1>1. ASSUME NEW kind \in SubscribeReplies, SubscribeReplied(kind)
      PROVE  OkPending \/ (CurrentFlow /\ SubscribeReplied("ok"))
  <2>1. CASE kind = "ok"
    BY <1>1, <2>1 DEF SubscribeReplied
  <2>2. CASE kind # "ok"
    BY <1>1, <2>2 DEF SubscribeReplied, EndFlow, NoFlow, Flow
  <2>3. QED
    BY <2>1, <2>2
<1>2. ASSUME NEW kind \in Pushes, PushReceived(kind)
      PROVE  OkPending \/ (CurrentFlow /\ SubscribeReplied("ok"))
  BY <1>2 DEF PushReceived, clientVars, subVars
<1>3. ASSUME NEW t \in tasks, MoveToSubscribed(t)
      PROVE  OkPending \/ (CurrentFlow /\ SubscribeReplied("ok"))
  <2>1. UNCHANGED <<connGeneration, subscribeAttempt>> /\ (sstate' = "subscribing"
            => sstate = "subscribing")
        /\ \A u \in tasks' : u \in tasks \/ u.kind = "resubscribe"
    BY <1>3 DEF MoveToSubscribed
  <2>2. QED
    BY <2>1
<1>4. ASSUME SubscribeCalled \/ Unsubscribe \/ Close \/ ConnectionInvalidated
      PROVE  OkPending \/ (CurrentFlow /\ SubscribeReplied("ok"))
  BY <1>4
     DEF SubscribeCalled, Unsubscribe, Close, ConnectionInvalidated, NoGeneration,
         MoveToUnsubscribed, FailRequests, clientVars, subVars
<1>5. ASSUME RequestTimeout \/ Sweeps \/ SessionEnds \/ TeardownDone
      PROVE  OkPending \/ (CurrentFlow /\ SubscribeReplied("ok"))
  BY <1>5
     DEF RequestTimeout, Sweeps, SessionEnds, TeardownDone, Resubscribe, FailRequests,
         MoveToSubscribing, clientVars, subVars
<1>6. ASSUME ResultDropped \/ GetFails \/ GetTokenUnauthorized \/ RequestFailed
      PROVE  OkPending \/ (CurrentFlow /\ SubscribeReplied("ok"))
  BY <1>6
     DEF ResultDropped, GetFails, GetTokenUnauthorized, RequestFailed, Resubscribe,
         NoGeneration, MoveToUnsubscribed, clientVars, subVars
<1>7. ASSUME TimerFires PROVE OkPending \/ (CurrentFlow /\ SubscribeReplied("ok"))
  BY <1>7 DEF TimerFires, Resubscribe, clientVars, subVars
<1>8. ASSUME NEW t \in tasks, Invalidates(t) \/ Subscribe(t) \/ ClosedUnsubscribes(t)
                 \/ ResubscribeStarts(t)
      PROVE  OkPending \/ (CurrentFlow /\ SubscribeReplied("ok"))
  BY <1>8
     DEF Invalidates, Subscribe, ClosedUnsubscribes, ResubscribeStarts, Resubscribe,
         MoveToUnsubscribed, NoGeneration, clientVars, subVars
<1>9. ASSUME NEW t \in tasks, DeltaFailed(t) \/ ErrorOutdated(t) \/ SubscribeError(t)
                 \/ PushUnsubscribes(t)
      PROVE  OkPending \/ (CurrentFlow /\ SubscribeReplied("ok"))
  BY <1>9
     DEF DeltaFailed, ErrorOutdated, SubscribeError, PushUnsubscribes, SameAttempt,
         SameSession, IsCurrent, MoveToUnsubscribed, clientVars, subVars
<1>10. ASSUME NEW t \in tasks, PushInvalidates(t) \/ PushResubscribes(t)
       PROVE  OkPending \/ (CurrentFlow /\ SubscribeReplied("ok"))
  BY <1>10 DEF PushInvalidates, PushResubscribes, MoveToSubscribing, clientVars, subVars
<1>11. CASE UNCHANGED <<sstate, subscribeAttempt, connGeneration, tasks>>
  BY <1>11
<1>12. QED
  BY <1>1, <1>2, <1>3, <1>4, <1>5, <1>6, <1>7, <1>8, <1>9, <1>10, <1>11
     DEF Next, Application, Failure, Client, SubscribeFlow, Reader, Run, Server, vars,
         LinkFails, ServerKeeps, UnsubscribeTimeout, MalformedReply, ServerRejects,
         ServerPushes, Connects, ReportTearsDown, ReportIgnored, GetStateStarts,
         GetStateReturns, ContinueResubscribe, GetTokenReturns, SendSubscribe,
         SendNotConnected, SendFails, UnsubscribeReplied, LateReply, ServerSubscribes,
         ServerUnsubscribes, Teardown, ServerTakes, clientVars, subVars

\* The same, over the start of a session.
LEMMA OkStays ==
  ASSUME LinkTypes, StateTypes, FlowTypes, TaskTypes, GenerationInv, AttemptInv,
         OutcomeInv, [Next]_vars,
         Agreed', OkPending'
  PROVE  Agreed /\ (OkPending \/ (CurrentFlow /\ SubscribeReplied("ok")))
<1>1. CASE link = "up"
  BY <1>1, HistoryGrows, OkAppears DEF Agreed
<1>2. CASE Connects
  <2>1. UNCHANGED <<tasks, connGeneration>> /\ ~Connected
    BY <1>2 DEF Connects, Connected, clientVars
  <2>2. QED
    BY <2>1, OutcomeKinds
       DEF GenerationInv, OkPending, IsOutcome, LinkTypes, TaskTypes, TaskSet
<1>3. QED
  BY <1>1, <1>2, LinkRises DEF Agreed

\* It says what the server has when it is received.
LEMMA OkReplied ==
  ASSUME LinkTypes, NetTypes, NetTypes', Agreed, CurrentFlow, SubscribeReplied("ok"),
         LiveInv, LastInv, RepliedInv
  PROVE  Len(toServer') = 0 /\ (serverSub' <=> NoPushAfter(0)')
<1>1. Drops(toClient, toClient', "ok", "live") /\ UNCHANGED <<toServer, serverSub>>
  BY Receives DEF SubscribeReplied
<1>2. 1 \in 1..Len(toClient) /\ LiveReply(1) /\ toClient[1].kind = "ok"
  BY <1>1, MessageTaken, ReplyKinds
<1>3. serverSub <=> NoPushAfter(1)
  BY <1>2 DEF RepliedInv
<1>4. NoPushAfter(0)' <=> NoPushAfter(0 + 1)
  BY <1>1, NoPushTaken
<1>5. Len(toServer) = 0
  <2>1. SUFFICES ASSUME Len(toServer) # 0 PROVE FALSE
    OBVIOUS
  <2>2. Len(toServer) \in 1..Len(toServer) /\ LiveCommand(Len(toServer))
    BY <2>1, Lens DEF LastInv
  <2>3. QED
    BY <1>2, <2>2 DEF LiveInv, Agreed
<1>6. QED
  BY <1>1, <1>3, <1>4, <1>5

\* And as long as it waits for s.mu: nothing is sent, and the reader takes nothing.
LEMMA OkKept ==
  ASSUME LinkTypes, NetTypes, NetTypes', ReaderInv, OriginInv, OutcomeInv, FlowInv, OkInv,
         Agreed, Agreed', OkPending, OkPending', [Next]_vars
  PROVE  Len(toServer') = 0 /\ (serverSub' <=> NoPushAfter(0)')
<1>1. Len(toServer) = 0 /\ (serverSub <=> NoPushAfter(0))
  BY DEF OkInv
<1>2. flow.stage = "none" /\ ReaderBusy
  BY DEF OkPending, OutcomeInv, OriginInv, ReaderBusy, IsOutcome
<1>3. ASSUME Unsubscribe PROVE Len(toServer') = 0 /\ (serverSub' <=> NoPushAfter(0)')
  BY <1>3 DEF Unsubscribe, MoveToUnsubscribed, OkPending, Current
<1>4. ASSUME Close PROVE Len(toServer') = 0 /\ (serverSub' <=> NoPushAfter(0)')
  BY <1>4 DEF Agreed, Close
<1>5. ASSUME LinkFails PROVE Len(toServer') = 0 /\ (serverSub' <=> NoPushAfter(0)')
  BY <1>5 DEF Agreed, LinkFails, Teardown
<1>6. ASSUME ServerMoves PROVE Len(toServer') = 0 /\ (serverSub' <=> NoPushAfter(0)')
  <2>1. PICK command, r : Drops(toServer, toServer', command, r)
    BY <1>6, ServerAnswers
  <2>2. Len(toServer) # 0
    BY <2>1, CommandTaken
  <2>3. QED
    BY <1>1, <2>2
<1>7. ASSUME RequestTimeout PROVE Len(toServer') = 0 /\ (serverSub' <=> NoPushAfter(0)')
  BY <1>7, <1>2 DEF RequestTimeout
<1>8. ASSUME UnsubscribeTimeout
      PROVE  Len(toServer') = 0 /\ (serverSub' <=> NoPushAfter(0)')
  <2>1. Len(toServer') = Len(toServer) /\ (NoPushAfter(0)' <=> NoPushAfter(0))
    BY <1>8, UnsubscribeTimesOut, NoPushKept DEF SameKinds
  <2>2. QED
    BY <1>8, <1>1, <2>1 DEF UnsubscribeTimeout
<1>9. ASSUME MalformedReply PROVE Len(toServer') = 0 /\ (serverSub' <=> NoPushAfter(0)')
  BY <1>9 DEF Agreed, MalformedReply
<1>10. ASSUME NEW kind \in Pushes, ServerPushes(kind)
       PROVE  Len(toServer') = 0 /\ (serverSub' <=> NoPushAfter(0)')
  <2>1. Appends(toClient, toClient', kind, "live") /\ 0 \in 0..Len(toClient)
    BY <1>10, Pushed, Lens
  <2>2. ~NoPushAfter(0)'
    BY <2>1, NoPushAdded
  <2>3. QED
    BY <1>10, <1>1, <2>2 DEF ServerPushes
<1>11. ASSUME SessionEnds PROVE Len(toServer') = 0 /\ (serverSub' <=> NoPushAfter(0)')
  BY <1>11 DEF Agreed, SessionEnds
<1>12. ASSUME NEW r \in Reports, ReportTearsDown(r)
       PROVE  Len(toServer') = 0 /\ (serverSub' <=> NoPushAfter(0)')
  BY <1>12 DEF Agreed, ReportTearsDown, Teardown
<1>13. ASSUME SendSubscribe PROVE Len(toServer') = 0 /\ (serverSub' <=> NoPushAfter(0)')
  BY <1>13, <1>2 DEF SendSubscribe
<1>14. ASSUME Reader PROVE Len(toServer') = 0 /\ (serverSub' <=> NoPushAfter(0)')
  BY <1>14, <1>2 DEF Reader, SubscribeReplied, UnsubscribeReplied, LateReply, PushReceived
<1>15. ASSUME NEW t \in tasks, PushUnsubscribes(t)
       PROVE  Len(toServer') = 0 /\ (serverSub' <=> NoPushAfter(0)')
  BY <1>15 DEF PushUnsubscribes, MoveToUnsubscribed, OkPending, Current
<1>16. CASE UNCHANGED <<toServer, toClient, serverSub>>
  BY <1>16, <1>1, NoPushKept
<1>17. QED
  BY <1>3, <1>4, <1>5, <1>6, <1>7, <1>8, <1>9, <1>10, <1>11, <1>12, <1>13, <1>14, <1>15,
     <1>16
     DEF Next, Application, Failure, Client, SubscribeFlow, Reader, Run, Server, vars,
         ServerMoves, SubscribeCalled, ConnectionInvalidated, Connects, Sweeps,
         TeardownDone, ReportIgnored, GetStateStarts, ResultDropped, GetStateReturns,
         ContinueResubscribe, GetTokenReturns, GetFails, GetTokenUnauthorized,
         SendNotConnected, SendFails, RequestFailed, TimerFires, Invalidates, Subscribe,
         ClosedUnsubscribes, ResubscribeStarts, MoveToSubscribed, DeltaFailed,
         ErrorOutdated, SubscribeError, PushInvalidates, PushResubscribes, netVars

\* Every step keeps OkInv.
LEMMA OkStep ==
  ASSUME LinkTypes, StateTypes, FlowTypes, TaskTypes, NetTypes, NetTypes', FlowInv,
         GenerationInv, AttemptInv, ReaderInv,
         OutcomeInv, OriginInv, LiveInv, LastInv, RepliedInv, OkInv, [Next]_vars
  PROVE  OkInv'
<1> SUFFICES ASSUME Agreed', OkPending'
             PROVE  Len(toServer') = 0 /\ (serverSub' <=> NoPushAfter(0)')
  BY DEF OkInv
<1>1. Agreed /\ (OkPending \/ (CurrentFlow /\ SubscribeReplied("ok")))
  BY OkStays
<1>2. CASE OkPending
  BY <1>1, <1>2, OkKept
<1>3. CASE CurrentFlow /\ SubscribeReplied("ok")
  BY <1>1, <1>3, OkReplied
<1>4. QED
  BY <1>1, <1>2, <1>3

\* Only moveToSubscribed makes a subscription subscribed, for its attempt and session.
LEMMA SubscribedAppears ==
  ASSUME LinkTypes, TaskTypes, SubscribedHasSession, sstate' = "subscribed", [Next]_vars
  PROVE  sstate = "subscribed" \/ \E u \in tasks : MoveToSubscribed(u)
             /\ sstate = "subscribing" /\ SameAttempt(u) /\ SameSession(u)
<1>1. ASSUME NEW t \in tasks, MoveToSubscribed(t)
      PROVE  sstate = "subscribed" \/ \E u \in tasks : MoveToSubscribed(u)
                 /\ sstate = "subscribing" /\ SameAttempt(u) /\ SameSession(u)
  BY <1>1 DEF MoveToSubscribed
<1>2. ASSUME Unsubscribe \/ TeardownDone \/ GetTokenUnauthorized
      PROVE  sstate = "subscribed" \/ \E u \in tasks : MoveToSubscribed(u)
                 /\ sstate = "subscribing" /\ SameAttempt(u) /\ SameSession(u)
  BY <1>2
     DEF Unsubscribe, TeardownDone, GetTokenUnauthorized, MoveToUnsubscribed,
         MoveToSubscribing, subVars
<1>3. ASSUME NEW t \in tasks, Subscribe(t) \/ ClosedUnsubscribes(t) \/ SubscribeError(t)
      PROVE  sstate = "subscribed" \/ \E u \in tasks : MoveToSubscribed(u)
                 /\ sstate = "subscribing" /\ SameAttempt(u) /\ SameSession(u)
  BY <1>3
     DEF Subscribe, ClosedUnsubscribes, SubscribeError, MoveToUnsubscribed, IsCurrent,
         subVars
<1>4. ASSUME NEW t \in tasks, PushUnsubscribes(t) \/ PushResubscribes(t)
      PROVE  sstate = "subscribed" \/ \E u \in tasks : MoveToSubscribed(u)
                 /\ sstate = "subscribing" /\ SameAttempt(u) /\ SameSession(u)
  BY <1>4
     DEF PushUnsubscribes, PushResubscribes, MoveToUnsubscribed, MoveToSubscribing,
         subVars
<1>5. CASE UNCHANGED <<sstate>>
  BY <1>5
<1>6. QED
  BY <1>1, <1>2, <1>3, <1>4, <1>5
     DEF Next, Application, Failure, Client, SubscribeFlow, Reader, Run, Server, vars,
         SubscribeCalled, Close, LinkFails, ConnectionInvalidated, ServerKeeps,
         RequestTimeout, UnsubscribeTimeout, MalformedReply, ServerRejects, ServerPushes,
         Connects, Sweeps, SessionEnds, ReportTearsDown, ReportIgnored, GetStateStarts,
         ResultDropped, GetStateReturns, ContinueResubscribe, GetTokenReturns, GetFails,
         SendSubscribe, SendNotConnected, SendFails, RequestFailed, SubscribeReplied,
         UnsubscribeReplied, LateReply, PushReceived, TimerFires, ServerSubscribes,
         ServerUnsubscribes, Invalidates, ResubscribeStarts, DeltaFailed, ErrorOutdated,
         PushInvalidates, Teardown, ServerTakes, subVars

\* A push waits until it is applied, which ends the subscribed state.
LEMMA PushTasksStay ==
  ASSUME TaskTypes, SessionInv, Agreed, sstate = "subscribed", sstate' = "subscribed",
         link' = "up", [Next]_vars
  PROVE  (HasPush' <=> HasPush) \/ (\E push \in Pushes : PushReceived(push))
<1> USE OutcomeKinds, TaskFields DEF HasPush, IsPush, Agreed, TaskTypes, clientVars
<1>1. ASSUME NEW kind \in SubscribeReplies, SubscribeReplied(kind)
      PROVE  (HasPush' <=> HasPush) \/ (\E push \in Pushes : PushReceived(push))
  BY <1>1 DEF SubscribeReplied, clientVars
<1>2. ASSUME NEW kind \in Pushes, PushReceived(kind)
      PROVE  (HasPush' <=> HasPush) \/ (\E push \in Pushes : PushReceived(push))
  BY <1>2
<1>3. ASSUME NEW t \in tasks, ClosedUnsubscribes(t)
      PROVE  (HasPush' <=> HasPush) \/ (\E push \in Pushes : PushReceived(push))
  BY <1>3 DEF ClosedUnsubscribes, MoveToUnsubscribed
<1>4. ASSUME NEW t \in tasks, MoveToSubscribed(t)
      PROVE  (HasPush' <=> HasPush) \/ (\E push \in Pushes : PushReceived(push))
  BY <1>4 DEF MoveToSubscribed
<1>5. ASSUME NEW t \in tasks, PushUnsubscribes(t)
      PROVE  (HasPush' <=> HasPush) \/ (\E push \in Pushes : PushReceived(push))
  BY <1>5 DEF PushUnsubscribes, MoveToUnsubscribed
<1>6. ASSUME NEW t \in tasks, PushResubscribes(t)
      PROVE  (HasPush' <=> HasPush) \/ (\E push \in Pushes : PushReceived(push))
  BY <1>6 DEF PushResubscribes, MoveToSubscribing
<1>7. ASSUME SubscribeCalled \/ Close \/ ConnectionInvalidated \/ RequestTimeout
      PROVE  (HasPush' <=> HasPush) \/ (\E push \in Pushes : PushReceived(push))
  BY <1>7
     DEF SubscribeCalled, Close, ConnectionInvalidated, RequestTimeout, NoGeneration,
         FailRequests, clientVars
<1>8. ASSUME Sweeps \/ SessionEnds \/ ResultDropped \/ GetFails
      PROVE  (HasPush' <=> HasPush) \/ (\E push \in Pushes : PushReceived(push))
  BY <1>8
     DEF Sweeps, SessionEnds, ResultDropped, GetFails, Resubscribe, FailRequests,
         NoGeneration, clientVars
<1>9. ASSUME RequestFailed \/ TimerFires
      PROVE  (HasPush' <=> HasPush) \/ (\E push \in Pushes : PushReceived(push))
  BY <1>9 DEF RequestFailed, TimerFires, Resubscribe, clientVars
<1>10. ASSUME NEW t \in tasks, Invalidates(t) \/ Subscribe(t) \/ ResubscribeStarts(t)
                  \/ DeltaFailed(t)
       PROVE  (HasPush' <=> HasPush) \/ (\E push \in Pushes : PushReceived(push))
  BY <1>10
     DEF Invalidates, Subscribe, ResubscribeStarts, DeltaFailed, Resubscribe,
         NoGeneration, SameAttempt, SameSession, clientVars
<1>11. ASSUME NEW t \in tasks, ErrorOutdated(t) \/ SubscribeError(t) \/ PushInvalidates(t)
       PROVE  (HasPush' <=> HasPush) \/ (\E push \in Pushes : PushReceived(push))
  BY <1>11 DEF ErrorOutdated, SubscribeError, PushInvalidates, clientVars
<1>12. CASE UNCHANGED <<tasks, connGeneration>>
  BY <1>12
<1>13. QED
  BY <1>1, <1>2, <1>3, <1>4, <1>5, <1>6, <1>7, <1>8, <1>9, <1>10, <1>11, <1>12
     DEF Next, Application, Failure, Client, SubscribeFlow, Reader, Run, Server, vars,
         Unsubscribe, LinkFails, ServerKeeps, UnsubscribeTimeout, MalformedReply,
         ServerRejects, ServerPushes, Connects, TeardownDone, ReportTearsDown,
         ReportIgnored, GetStateStarts, GetStateReturns, ContinueResubscribe,
         GetTokenReturns, GetTokenUnauthorized, SendSubscribe, SendNotConnected,
         SendFails, UnsubscribeReplied, LateReply, ServerSubscribes, ServerUnsubscribes,
         Teardown, ServerTakes, clientVars

\* A subscribed subscription stays one the server has, until a push.
LEMMA SubscribedKept ==
  ASSUME LinkTypes, TaskTypes, NetTypes, NetTypes', SessionInv, FlowInv, OutcomeInv,
         SubscribedInv, Agreed, Agreed', sstate = "subscribed", sstate' = "subscribed",
         [Next]_vars
  PROVE  Len(toServer') = 0 /\ (serverSub' <=> NoPushAfter(0)' /\ ~HasPush')
<1>1. Len(toServer) = 0 /\ (serverSub <=> NoPushAfter(0) /\ ~HasPush)
  BY DEF SubscribedInv
<1>2. flow.stage = "none"
  BY DEF OutcomeInv
<1>3. UNCHANGED <<tasks, connGeneration>> => (HasPush' <=> HasPush)
  BY DEF HasPush, IsPush
<1>4. ASSUME Unsubscribe
      PROVE  Len(toServer') = 0 /\ (serverSub' <=> NoPushAfter(0)' /\ ~HasPush')
  BY <1>4 DEF Unsubscribe, MoveToUnsubscribed
<1>5. ASSUME Close
      PROVE  Len(toServer') = 0 /\ (serverSub' <=> NoPushAfter(0)' /\ ~HasPush')
  BY <1>5 DEF Agreed, Close
<1>6. ASSUME LinkFails
      PROVE  Len(toServer') = 0 /\ (serverSub' <=> NoPushAfter(0)' /\ ~HasPush')
  BY <1>6 DEF Agreed, LinkFails, Teardown
<1>7. ASSUME ServerMoves
      PROVE  Len(toServer') = 0 /\ (serverSub' <=> NoPushAfter(0)' /\ ~HasPush')
  <2>1. PICK command, r : Drops(toServer, toServer', command, r)
    BY <1>7, ServerAnswers
  <2>2. Len(toServer) # 0
    BY <2>1, CommandTaken
  <2>3. QED
    BY <1>1, <2>2
<1>8. ASSUME RequestTimeout
      PROVE  Len(toServer') = 0 /\ (serverSub' <=> NoPushAfter(0)' /\ ~HasPush')
  BY <1>8, <1>2 DEF RequestTimeout
<1>9. ASSUME UnsubscribeTimeout
      PROVE  Len(toServer') = 0 /\ (serverSub' <=> NoPushAfter(0)' /\ ~HasPush')
  <2>1. Len(toServer') = Len(toServer) /\ (NoPushAfter(0)' <=> NoPushAfter(0))
    BY <1>9, UnsubscribeTimesOut, NoPushKept DEF SameKinds
  <2>2. UNCHANGED <<tasks, connGeneration, serverSub>>
    BY <1>9 DEF UnsubscribeTimeout, clientVars
  <2>3. QED
    BY <1>1, <1>3, <2>1, <2>2
<1>10. ASSUME MalformedReply
       PROVE  Len(toServer') = 0 /\ (serverSub' <=> NoPushAfter(0)' /\ ~HasPush')
  BY <1>10 DEF Agreed, MalformedReply
<1>11. ASSUME NEW kind \in Pushes, ServerPushes(kind)
       PROVE  Len(toServer') = 0 /\ (serverSub' <=> NoPushAfter(0)' /\ ~HasPush')
  <2>1. Appends(toClient, toClient', kind, "live") /\ 0 \in 0..Len(toClient)
    BY <1>11, Pushed, Lens
  <2>2. ~NoPushAfter(0)'
    BY <2>1, NoPushAdded
  <2>3. QED
    BY <1>11, <1>1, <2>2 DEF ServerPushes
<1>12. ASSUME SessionEnds
       PROVE  Len(toServer') = 0 /\ (serverSub' <=> NoPushAfter(0)' /\ ~HasPush')
  BY <1>12 DEF Agreed, SessionEnds
<1>13. ASSUME NEW r \in Reports, ReportTearsDown(r)
       PROVE  Len(toServer') = 0 /\ (serverSub' <=> NoPushAfter(0)' /\ ~HasPush')
  BY <1>13 DEF Agreed, ReportTearsDown, Teardown
<1>14. ASSUME SendSubscribe
       PROVE  Len(toServer') = 0 /\ (serverSub' <=> NoPushAfter(0)' /\ ~HasPush')
  BY <1>14, <1>2 DEF SendSubscribe
<1>15. ASSUME NEW kind \in SubscribeReplies, SubscribeReplied(kind)
       PROVE  Len(toServer') = 0 /\ (serverSub' <=> NoPushAfter(0)' /\ ~HasPush')
  BY <1>15, <1>2 DEF SubscribeReplied
<1>16. ASSUME NEW kind \in UnsubscribeReplies, UnsubscribeReplied(kind)
       PROVE  Len(toServer') = 0 /\ (serverSub' <=> NoPushAfter(0)' /\ ~HasPush')
  <2>1. Drops(toClient, toClient', kind, "live") /\ kind \notin Pushes
    BY <1>16, Receives, ReplyKinds DEF UnsubscribeReplied
  <2>2. NoPushAfter(0)' <=> NoPushAfter(0)
    BY <2>1, NoPushTaken
  <2>3. UNCHANGED <<toServer, serverSub, tasks, connGeneration>>
    BY <1>16 DEF UnsubscribeReplied, clientVars
  <2>4. QED
    BY <1>1, <1>3, <2>2, <2>3
<1>17. ASSUME NEW kind \in SubscribeReplies \cup UnsubscribeReplies, LateReply(kind)
       PROVE  Len(toServer') = 0 /\ (serverSub' <=> NoPushAfter(0)' /\ ~HasPush')
  <2>1. Drops(toClient, toClient', kind, "orphan") /\ kind \notin Pushes
    BY <1>17, Receives, ReplyKinds DEF LateReply
  <2>2. NoPushAfter(0)' <=> NoPushAfter(0)
    BY <2>1, NoPushTaken
  <2>3. UNCHANGED <<toServer, serverSub, tasks, connGeneration>>
    BY <1>17 DEF LateReply, clientVars
  <2>4. QED
    BY <1>1, <1>3, <2>2, <2>3
<1>18. ASSUME NEW kind \in Pushes, PushReceived(kind)
       PROVE  Len(toServer') = 0 /\ (serverSub' <=> NoPushAfter(0)' /\ ~HasPush')
  <2>1. Drops(toClient, toClient', kind, "live")
    BY <1>18, Receives DEF PushReceived
  <2>2. ~NoPushAfter(0)
    BY <2>1, NoPushTaken
  <2>3. HasPush'
    BY <1>18, TaskFields DEF PushReceived, HasPush, IsPush, clientVars
  <2>4. UNCHANGED <<toServer, serverSub>>
    BY <1>18 DEF PushReceived
  <2>5. QED
    BY <1>1, <2>2, <2>3, <2>4
<1>19. ASSUME NEW t \in tasks, PushUnsubscribes(t)
       PROVE  Len(toServer') = 0 /\ (serverSub' <=> NoPushAfter(0)' /\ ~HasPush')
  BY <1>19 DEF PushUnsubscribes, MoveToUnsubscribed
<1>20. CASE UNCHANGED <<toServer, toClient, serverSub>>
  <2>1. \A kind \in Pushes : ~PushReceived(kind)
    <3>1. ASSUME NEW kind \in Pushes, PushReceived(kind) PROVE FALSE
      <4>1. Drops(toClient, toClient', kind, "live")
        BY <3>1, Receives DEF PushReceived
      <4>2. QED
        BY <1>20, <4>1, MessageTaken
    <3>2. QED
      BY <3>1
  <2>2. (NoPushAfter(0)' <=> NoPushAfter(0)) /\ (HasPush' <=> HasPush)
    BY <1>20, <2>1, NoPushKept, PushTasksStay DEF Agreed
  <2>3. QED
    BY <1>20, <1>1, <2>2
<1>21. QED
  BY <1>4, <1>5, <1>6, <1>7, <1>8, <1>9, <1>10, <1>11, <1>12, <1>13, <1>14, <1>15, <1>16,
     <1>17, <1>18, <1>19, <1>20
     DEF Next, Application, Failure, Client, SubscribeFlow, Reader, Run, Server, vars,
         ServerMoves, SubscribeCalled, ConnectionInvalidated, Connects, Sweeps,
         TeardownDone, ReportIgnored, GetStateStarts, ResultDropped, GetStateReturns,
         ContinueResubscribe, GetTokenReturns, GetFails, GetTokenUnauthorized,
         SendNotConnected, SendFails, RequestFailed, TimerFires, Invalidates, Subscribe,
         ClosedUnsubscribes, ResubscribeStarts, MoveToSubscribed, DeltaFailed,
         ErrorOutdated, SubscribeError, PushInvalidates, PushResubscribes, netVars

\* moveToSubscribed makes the subscription subscribed when the server has it.
LEMMA OkSubscribes ==
  ASSUME NetTypes, GenerationInv, ReaderInv, OriginInv, OkInv, Agreed, Agreed',
         NEW t \in tasks, MoveToSubscribed(t), sstate = "subscribing", SameAttempt(t),
         SameSession(t)
  PROVE  Len(toServer') = 0 /\ (serverSub' <=> NoPushAfter(0)' /\ ~HasPush')
<1>1. /\ t.kind = "ok" /\ tasks' = tasks \ {t}
      /\ UNCHANGED <<toServer, toClient, serverSub, connGeneration>>
  BY DEF MoveToSubscribed, netVars, clientVars
<1>2. IsOutcome(t) /\ t.by = "reader" /\ OkPending
  BY <1>1, OutcomeKinds
     DEF IsOutcome, OriginInv, OkPending, Current, SameAttempt, SameSession
<1>3. ~HasPush
  BY <1>2 DEF HasPush, ReaderInv
<1>4. ~HasPush'
  BY <1>1, <1>3 DEF HasPush, IsPush
<1>5. NoPushAfter(0)' <=> NoPushAfter(0)
  BY <1>1, NoPushKept
<1>6. QED
  BY <1>1, <1>2, <1>4, <1>5 DEF OkInv

\* Every step keeps SubscribedInv.
LEMMA SubscribedStep ==
  ASSUME LinkTypes, TaskTypes, NetTypes, NetTypes', SessionInv, FlowInv, GenerationInv,
         ReaderInv, OutcomeInv, OriginInv,
         SubscribedHasSession, OkInv, SubscribedInv, [Next]_vars
  PROVE  SubscribedInv'
<1> SUFFICES ASSUME Agreed', sstate' = "subscribed"
             PROVE  Len(toServer') = 0 /\ (serverSub' <=> NoPushAfter(0)' /\ ~HasPush')
  BY DEF SubscribedInv
<1>1. Agreed
  <2>1. CASE Connects
    BY <2>1 DEF Connects, SubscribedHasSession, subVars
  <2>2. QED
    BY <2>1, LinkRises, HistoryGrows DEF Agreed
<1>2. CASE sstate = "subscribed"
  BY <1>1, <1>2, SubscribedKept
<1>3. ASSUME NEW t \in tasks, MoveToSubscribed(t), sstate = "subscribing", SameAttempt(t),
             SameSession(t)
      PROVE  Len(toServer') = 0 /\ (serverSub' <=> NoPushAfter(0)' /\ ~HasPush')
  BY <1>1, <1>3, OkSubscribes
<1>4. QED
  BY <1>2, <1>3, SubscribedAppears

\* Only a subscribe makes the server have the subscription.
LEMMA WillAppears ==
  ASSUME NetTypes, NetTypes', OrphanInv, Agreed, Agreed', ~Doomed', Will', [Next]_vars
  PROVE  Will \/ SendSubscribe
<1>1. ASSUME Unsubscribe PROVE Will \/ SendSubscribe
  <2>1. CASE link = "up" /\ sstate # "unsubscribed"
    <3>1. Appends(toServer, toServer', "unsubscribe", "live")
      BY <1>1, <2>1, SendsUnsubscribe DEF Unsubscribe
    <3>2. Len(toServer') # 0 /\ toServer'[Len(toServer')].kind = "unsubscribe"
      BY <3>1, Lens DEF Appends
    <3>3. QED
      BY <3>2 DEF Will
  <2>2. CASE ~(sstate # "unsubscribed")
    BY <1>1, <2>2 DEF Unsubscribe, DontSend, Will
  <2>3. QED
    BY <2>1, <2>2 DEF Agreed
<1>2. ASSUME Close PROVE Will \/ SendSubscribe
  BY <1>2 DEF Agreed, Close
<1>3. ASSUME LinkFails PROVE Will \/ SendSubscribe
  BY <1>3 DEF Agreed, LinkFails, Teardown
<1>4. ASSUME ServerMoves PROVE Will \/ SendSubscribe
  <2>1. PICK command, reply, r :
           /\ Drops(toServer, toServer', command, r) /\ Appends(toClient, toClient', reply, r)
           /\ Answers(command, reply) /\ link = "up"
           /\ UNCHANGED <<link, connGeneration, due, sstate, subscribeAttempt, flow, tasks,
              history>>
    BY <1>4, ServerAnswers
  <2>2. /\ Len(toServer') \in Nat /\ Len(toServer) = Len(toServer') + 1
        /\ \A i \in 1..Len(toServer') : (LiveCommand(i)' <=> LiveCommand(i + 1))
               /\ toServer'[i].kind = toServer[i + 1].kind
        /\ toServer[1].kind = command /\ (LiveCommand(1) <=> command = "subscribe"
               /\ r = "live")
    BY <2>1, CommandTaken
  <2>3. (reply \in SubscribeReplies <=> command = "subscribe") /\ reply \notin Pushes
    BY <2>1, ReplyKinds DEF Answers
  <2>4. /\ Len(toClient) \in Nat /\ Len(toClient') = Len(toClient) + 1
        /\ \A i \in 1..Len(toClient) : /\ LiveReply(i)' <=> LiveReply(i)
                                       /\ Failed(i)' <=> Failed(i)
                                       /\ toClient'[i].kind = toClient[i].kind
        /\ \A i \in 1..Len(toClient') : i > Len(toClient) =>
             /\ LiveReply(i)' <=> command = "subscribe" /\ r = "live"
             /\ Failed(i)' <=> reply = "unsubscribeError" /\ r = "live"
             /\ toClient'[i].kind = reply
    BY <2>1, <2>3, MessageAdded
  <2>5. CASE ServerKeeps
    BY <2>5, KeepsDooms
  <2>6. CASE ~ServerKeeps
    <3>1. Len(toServer') # 0 => Len(toServer') \in 1..Len(toServer')
      BY <2>2
    <3>2. Len(toServer) # 0 /\ (Len(toServer') # 0
              => toServer'[Len(toServer')].kind = toServer[Len(toServer)].kind)
      BY <2>2, <3>1
    <3>3. CASE Len(toServer') # 0
      BY <3>2, <3>3 DEF Will
    <3>4. CASE Len(toServer') = 0
      <4>1. Len(toServer) = 1
        BY <2>2, <3>4
      <4>2. serverSub' /\ toServer[1].kind = command
        BY <2>2, <3>4 DEF Will
      <4>3. command = "subscribe"
        BY <2>1, <2>6, <4>2 DEF Answers
      <4>4. QED
        BY <4>1, <4>2, <4>3 DEF Will
    <3>5. QED
      BY <3>3, <3>4
  <2>7. QED
    BY <2>5, <2>6
<1>5. ASSUME RequestTimeout PROVE Will \/ SendSubscribe
  <2>1. UNCHANGED serverSub /\ SameKinds(toServer, toServer')
    BY <1>5, TimesOut DEF RequestTimeout
  <2>2. Len(toServer) # 0 => Len(toServer) \in 1..Len(toServer)
    BY Lens
  <2>3. QED
    BY <2>1, <2>2 DEF SameKinds, Will
<1>6. ASSUME UnsubscribeTimeout PROVE Will \/ SendSubscribe
  <2>1. UNCHANGED serverSub /\ SameKinds(toServer, toServer')
    BY <1>6, UnsubscribeTimesOut DEF UnsubscribeTimeout
  <2>2. Len(toServer) # 0 => Len(toServer) \in 1..Len(toServer)
    BY Lens
  <2>3. QED
    BY <2>1, <2>2 DEF SameKinds, Will
<1>7. ASSUME MalformedReply PROVE Will \/ SendSubscribe
  BY <1>7 DEF Agreed, MalformedReply
<1>8. ASSUME NEW kind \in Pushes, ServerPushes(kind) PROVE Will \/ SendSubscribe
  BY <1>8 DEF ServerPushes, Will
<1>9. ASSUME NEW r \in Reports, ReportTearsDown(r) PROVE Will \/ SendSubscribe
  BY <1>9 DEF Agreed, ReportTearsDown, Teardown
<1>10. ASSUME SendSubscribe PROVE Will \/ SendSubscribe
  BY <1>10
<1>11. ASSUME NEW t \in tasks, PushUnsubscribes(t) PROVE Will \/ SendSubscribe
  <2>1. CASE link = "up" /\ inflight
    <3>1. Appends(toServer, toServer', "unsubscribe", "live")
      BY <1>11, <2>1, SendsUnsubscribe DEF PushUnsubscribes
    <3>2. Len(toServer') # 0 /\ toServer'[Len(toServer')].kind = "unsubscribe"
      BY <3>1, Lens DEF Appends
    <3>3. QED
      BY <3>2 DEF Will
  <2>2. CASE ~(inflight)
    BY <1>11, <2>2 DEF PushUnsubscribes, DontSend, Will
  <2>3. QED
    BY <2>1, <2>2 DEF Agreed
<1>12. CASE UNCHANGED <<toServer, serverSub>>
  BY <1>12 DEF Will
<1>13. QED
  BY <1>1, <1>2, <1>3, <1>4, <1>5, <1>6, <1>7, <1>8, <1>9, <1>10, <1>11, <1>12
     DEF Next, Application, Failure, Client, SubscribeFlow, Reader, Run, Server, vars,
         ServerMoves, SubscribeCalled, ConnectionInvalidated, Connects, Sweeps,
         SessionEnds, TeardownDone, ReportIgnored, GetStateStarts, ResultDropped,
         GetStateReturns, ContinueResubscribe, GetTokenReturns, GetFails,
         GetTokenUnauthorized, SendNotConnected, SendFails, RequestFailed,
         SubscribeReplied, UnsubscribeReplied, LateReply, PushReceived, TimerFires,
         Invalidates, Subscribe, ClosedUnsubscribes, ResubscribeStarts, MoveToSubscribed,
         DeltaFailed, ErrorOutdated, SubscribeError, PushInvalidates, PushResubscribes,
         netVars

\* A task that will make the subscription subscribed is expected to.
LEMMA AwaitedIsExpected ==
  ASSUME NEW t \in tasks', Awaited(t)'
  PROVE  Expected'
BY DEF Expected

\* No outcome waits while a flow runs or the subscription is subscribed.
LEMMA NoAwaited ==
  ASSUME OutcomeInv, Agreed, flow.stage # "none" \/ sstate = "subscribed"
  PROVE  \A t \in tasks : ~Awaited(t)
BY DEF OutcomeInv, Awaited

\* What the client expects it goes on expecting: an Unsubscribe, an error or a push that ends
\* it also ends the subscription on the server, or the session.
LEMMA ExpectedStays ==
  ASSUME LinkTypes, StateTypes, FlowTypes, TaskTypes, NetTypes, NetTypes', FlowInv,
         SessionInv, AttemptInv, OutcomeInv, OriginInv, ClosedInv, LiveInv, LastInv,
         RepliedInv, AlreadyInv, SubscribedInv, Agreed, Agreed', ~Doomed, ~Doomed', Will,
         Will', Expected, [Next]_vars
  PROVE  Expected'
<1>1. ASSUME SubscribeCalled PROVE Expected'
  BY <1>1, OutcomeKinds
     DEF SubscribeCalled, Task, NoGeneration, clientVars, subVars, Expected, CurrentFlow,
         Current, Awaited, IsOutcome
<1>2. ASSUME Unsubscribe PROVE Expected'
  <2>1. CASE sstate = "unsubscribed"
    BY <2>1 DEF Expected, CurrentFlow, Current, Awaited
  <2>2. CASE sstate # "unsubscribed"
    <3>1. Appends(toServer, toServer', "unsubscribe", "live")
      BY <1>2, <2>2, SendsUnsubscribe DEF Unsubscribe, Agreed
    <3>2. Len(toServer') # 0 /\ toServer'[Len(toServer')].kind = "unsubscribe"
      BY <3>1, Lens DEF Appends
    <3>3. QED
      BY <3>2 DEF Will
  <2>3. QED
    BY <2>1, <2>2
<1>3. ASSUME Close PROVE Expected'
  BY <1>3 DEF Agreed, Close
<1>4. ASSUME ConnectionInvalidated PROVE Expected'
  BY <1>4, OutcomeKinds
     DEF ConnectionInvalidated, Task, clientVars, subVars, Expected, CurrentFlow, Current,
         Awaited, IsOutcome
<1>5. ASSUME RequestTimeout PROVE Expected'
  <2>1. flow.stage = "sent" /\ flow.gen = connGeneration
            /\ UNCHANGED <<sstate, subscribeAttempt, connGeneration>>
    BY <1>5 DEF RequestTimeout, SessionInv, subVars, clientVars
  <2>2. CASE sstate = "subscribed"
    BY <2>1, <2>2 DEF Expected
  <2>3. CASE CurrentFlow
    <3>1. PICK u \in tasks' : u.kind = "timeout" /\ u.attempt = flow.attempt /\ u.gen = flow.gen
      BY <1>5, TaskFields DEF RequestTimeout
    <3>2. Awaited(u)'
      BY <2>1, <2>3, <3>1, OutcomeKinds DEF Awaited, IsOutcome, CurrentFlow, Current
    <3>3. QED
      BY <3>2, AwaitedIsExpected
  <2>4. QED
    BY <2>2, <2>3, NoAwaited, <2>1 DEF Expected
<1>6. ASSUME MalformedReply PROVE Expected'
  BY <1>6 DEF Agreed, MalformedReply
<1>7. ASSUME Sweeps PROVE Expected'
  BY <1>7, OutcomeKinds
     DEF Sweeps, Resubscribe, Task, clientVars, subVars, Expected, CurrentFlow, Current,
         Awaited, IsOutcome
<1>8. ASSUME SessionEnds PROVE Expected'
  BY <1>8 DEF Agreed, SessionEnds
<1>9. ASSUME TeardownDone PROVE Expected'
  BY <1>9 DEF Agreed, TeardownDone
<1>10. ASSUME GetStateStarts PROVE Expected'
  <2>1. flow.stage \notin {"none", "sent"}
            /\ UNCHANGED <<sstate, subscribeAttempt, connGeneration>>
    BY <1>10 DEF GetStateStarts, subVars, clientVars
  <2>2. sstate = "subscribed"
    BY <2>1, NoAwaited DEF Expected, CurrentFlow
  <2>3. QED
    BY <2>1, <2>2 DEF Expected
<1>11. ASSUME ResultDropped PROVE Expected'
  <2>1. flow.stage \notin {"none", "sent"}
            /\ UNCHANGED <<sstate, subscribeAttempt, connGeneration>>
    BY <1>11 DEF ResultDropped, subVars, clientVars
  <2>2. sstate = "subscribed"
    BY <2>1, NoAwaited DEF Expected, CurrentFlow
  <2>3. QED
    BY <2>1, <2>2 DEF Expected
<1>12. ASSUME GetStateReturns PROVE Expected'
  <2>1. flow.stage \notin {"none", "sent"}
            /\ UNCHANGED <<sstate, subscribeAttempt, connGeneration>>
    BY <1>12 DEF GetStateReturns, subVars, clientVars
  <2>2. sstate = "subscribed"
    BY <2>1, NoAwaited DEF Expected, CurrentFlow
  <2>3. QED
    BY <2>1, <2>2 DEF Expected
<1>13. ASSUME ContinueResubscribe PROVE Expected'
  <2>1. flow.stage \notin {"none", "sent"}
            /\ UNCHANGED <<sstate, subscribeAttempt, connGeneration>>
    BY <1>13 DEF ContinueResubscribe, subVars, clientVars
  <2>2. sstate = "subscribed"
    BY <2>1, NoAwaited DEF Expected, CurrentFlow
  <2>3. QED
    BY <2>1, <2>2 DEF Expected
<1>14. ASSUME GetTokenReturns PROVE Expected'
  <2>1. flow.stage \notin {"none", "sent"}
            /\ UNCHANGED <<sstate, subscribeAttempt, connGeneration>>
    BY <1>14 DEF GetTokenReturns, subVars, clientVars
  <2>2. sstate = "subscribed"
    BY <2>1, NoAwaited DEF Expected, CurrentFlow
  <2>3. QED
    BY <2>1, <2>2 DEF Expected
<1>15. ASSUME GetFails PROVE Expected'
  <2>1. flow.stage \notin {"none", "sent"}
            /\ UNCHANGED <<sstate, subscribeAttempt, connGeneration>>
    BY <1>15 DEF GetFails, subVars, clientVars
  <2>2. sstate = "subscribed"
    BY <2>1, NoAwaited DEF Expected, CurrentFlow
  <2>3. QED
    BY <2>1, <2>2 DEF Expected
<1>16. ASSUME GetTokenUnauthorized PROVE Expected'
  <2>1. flow.stage \notin {"none", "sent"} /\ sstate = "subscribing"
    BY <1>16 DEF GetTokenUnauthorized, ResultWanted
  <2>2. QED
    BY <2>1, NoAwaited DEF Expected, CurrentFlow
<1>17. ASSUME SendSubscribe PROVE Expected'
  <2>1. CurrentFlow'
    BY <1>17
       DEF SendSubscribe, ResultWanted, Outdated, CurrentFlow, Current, Flow, subVars
  <2>2. QED
    BY <2>1 DEF Expected
<1>18. ASSUME SendNotConnected PROVE Expected'
  <2>1. flow.stage \notin {"none", "sent"}
            /\ UNCHANGED <<sstate, subscribeAttempt, connGeneration>>
    BY <1>18 DEF SendNotConnected, subVars, clientVars
  <2>2. sstate = "subscribed"
    BY <2>1, NoAwaited DEF Expected, CurrentFlow
  <2>3. QED
    BY <2>1, <2>2 DEF Expected
<1>19. ASSUME SendFails PROVE Expected'
  <2>1. flow.stage \notin {"none", "sent"}
            /\ UNCHANGED <<sstate, subscribeAttempt, connGeneration>>
    BY <1>19 DEF SendFails, subVars, clientVars
  <2>2. sstate = "subscribed"
    BY <2>1, NoAwaited DEF Expected, CurrentFlow
  <2>3. QED
    BY <2>1, <2>2 DEF Expected
<1>20. ASSUME RequestFailed PROVE Expected'
  <2>1. flow.stage \notin {"none", "sent"}
            /\ UNCHANGED <<sstate, subscribeAttempt, connGeneration>>
    BY <1>20 DEF RequestFailed, subVars, clientVars
  <2>2. sstate = "subscribed"
    BY <2>1, NoAwaited DEF Expected, CurrentFlow
  <2>3. QED
    BY <2>1, <2>2 DEF Expected
<1>21. ASSUME NEW kind \in SubscribeReplies, SubscribeReplied(kind) PROVE Expected'
  <2>1. flow.stage = "sent" /\ flow.gen = connGeneration
            /\ UNCHANGED <<sstate, subscribeAttempt, connGeneration>>
    BY <1>21 DEF SubscribeReplied, SessionInv, subVars, clientVars
  <2>2. CASE sstate = "subscribed"
    BY <2>1, <2>2 DEF Expected
  <2>3. CASE CurrentFlow
    <3>1. Drops(toClient, toClient', kind, "live")
      BY <1>21, Receives DEF SubscribeReplied
    <3>2. 1 \in 1..Len(toClient) /\ LiveReply(1) /\ toClient[1].kind = kind
      BY <3>1, MessageTaken
    <3>3. CASE kind = "ok"
      <4>1. PICK u \in tasks' : u.kind = "ok" /\ u.attempt = flow.attempt /\ u.gen = flow.gen
        BY <1>21, <3>3, TaskFields DEF SubscribeReplied
      <4>2. Awaited(u)'
        BY <2>1, <2>3, <4>1, OutcomeKinds DEF Awaited, IsOutcome, CurrentFlow, Current
      <4>3. QED
        BY <4>2, AwaitedIsExpected
    <3>4. CASE kind = "already"
      <4>1. due = {}
        BY <1>21 DEF SubscribeReplied, Doomed
      <4>2. \E j \in 1..(1 - 1) : Failed(j)
        BY <3>2, <3>4, <4>1 DEF AlreadyInv
      <4>3. QED
        BY <4>2
    <3>5. CASE kind \notin {"ok", "already"}
      <4>1. ~serverSub
        BY <2>3, <3>2, <3>5 DEF RepliedInv
      <4>2. Len(toServer) = 0
        <5>1. SUFFICES ASSUME Len(toServer) # 0 PROVE FALSE
          OBVIOUS
        <5>2. Len(toServer) \in 1..Len(toServer) /\ LiveCommand(Len(toServer))
          BY <2>3, <5>1, Lens DEF LastInv
        <5>3. QED
          BY <3>2, <5>2 DEF LiveInv, Agreed
      <4>3. QED
        BY <4>1, <4>2 DEF Will
    <3>6. QED
      BY <3>3, <3>4, <3>5
  <2>4. QED
    BY <2>2, <2>3, NoAwaited, <2>1 DEF Expected
<1>22. ASSUME NEW kind \in Pushes, PushReceived(kind) PROVE Expected'
  BY <1>22, OutcomeKinds
     DEF PushReceived, Task, clientVars, subVars, Expected, CurrentFlow, Current, Awaited,
         IsOutcome
<1>23. ASSUME TimerFires PROVE Expected'
  BY <1>23, OutcomeKinds
     DEF TimerFires, Resubscribe, Task, clientVars, subVars, Expected, CurrentFlow,
         Current, Awaited, IsOutcome
<1>24. ASSUME NEW t \in tasks, Invalidates(t) PROVE Expected'
  BY <1>24, OutcomeKinds
     DEF Invalidates, Nothing, clientVars, subVars, Expected, CurrentFlow, Current,
         Awaited, IsOutcome
<1>25. ASSUME NEW t \in tasks, Subscribe(t) PROVE Expected'
  <2>1. CASE sstate = "unsubscribed"
    BY <2>1 DEF Expected, CurrentFlow, Current, Awaited
  <2>2. CASE sstate # "unsubscribed"
    BY <1>25, <2>2, OutcomeKinds
       DEF Subscribe, Expected, CurrentFlow, Current, Awaited, IsOutcome, clientVars
  <2>3. QED
    BY <2>1, <2>2
<1>26. ASSUME NEW t \in tasks, ClosedUnsubscribes(t) PROVE Expected'
  BY <1>26 DEF ClosedUnsubscribes, ClosedInv, Agreed
<1>27. ASSUME NEW t \in tasks, ResubscribeStarts(t) PROVE Expected'
  <2>1. t.kind = "resubscribe" /\ tasks' = tasks \ {t} /\ (flow.stage = "sent"
            => UNCHANGED flow)
        /\ UNCHANGED <<sstate, subscribeAttempt, connGeneration>>
    BY <1>27 DEF ResubscribeStarts, FlowInv, subVars, clientVars
  <2>2. QED
    BY <2>1, OutcomeKinds DEF Expected, CurrentFlow, Current, Awaited, IsOutcome
<1>28. ASSUME NEW t \in tasks, MoveToSubscribed(t) PROVE Expected'
  <2>1. /\ t.kind = "ok" /\ UNCHANGED <<flow, subscribeAttempt, connGeneration>>
        /\ sstate' \in {sstate, "subscribed"} /\ \A u \in tasks : u # t => u \in tasks'
        /\ sstate = "subscribing" /\ SameAttempt(t) /\ SameSession(t) => sstate' = "subscribed"
    BY <1>28 DEF MoveToSubscribed, clientVars
  <2>2. CASE sstate' = "subscribed"
    BY <2>2 DEF Expected
  <2>3. CASE sstate' = sstate /\ sstate # "subscribed"
    <3>1. ~Awaited(t)
      BY <2>1, <2>3 DEF Awaited, IsOutcome, Current, SameAttempt, SameSession
    <3>2. QED
      BY <2>1, <2>3, <3>1 DEF Expected, CurrentFlow, Current, Awaited, IsOutcome
  <2>4. QED
    BY <2>1, <2>2, <2>3
<1>29. ASSUME NEW t \in tasks, DeltaFailed(t) PROVE Expected'
  BY <1>29 DEF DeltaFailed, Doomed
<1>30. ASSUME NEW t \in tasks, ErrorOutdated(t) PROVE Expected'
  <2>1. /\ ~IsCurrent(t) /\ UNCHANGED <<flow, sstate, subscribeAttempt, connGeneration>>
        /\ \A u \in tasks : u # t => u \in tasks'
    BY <1>30 DEF ErrorOutdated, clientVars, subVars
  <2>2. ~Awaited(t)
    BY <2>1 DEF Awaited, IsOutcome, Current, IsCurrent
  <2>3. QED
    BY <2>1, <2>2 DEF Expected, CurrentFlow, Current, Awaited, IsOutcome
<1>31. ASSUME NEW t \in tasks, SubscribeError(t) PROVE Expected'
  <2>1. t.kind \in SubscribeErrors /\ IsCurrent(t) /\ UNCHANGED <<flow, connGeneration>>
            /\ tasks' = tasks \ {t}
    BY <1>31 DEF SubscribeError, clientVars
  <2>2. t.kind # "timeout"
    BY <1>31 DEF SubscribeError, Doomed
  <2>3. CASE IsPermanent(t.kind)
    <3>1. IsOutcome(t) /\ t.kind \notin {"ok", "timeout"} /\ sstate = "subscribing"
      BY <2>1, <2>2, <2>3, OutcomeKinds DEF IsOutcome, IsCurrent, IsPermanent, OriginInv
    <3>2. flow.stage = "none" /\ \A u \in tasks : IsOutcome(u) => u = t
      BY <3>1 DEF OutcomeInv
    <3>3. QED
      BY <3>1, <3>2 DEF Expected, CurrentFlow, Awaited
  <2>4. CASE ~IsPermanent(t.kind)
    <3>1. UNCHANGED <<sstate, subscribeAttempt>>
      BY <1>31, <2>2, <2>4 DEF SubscribeError
    <3>2. ~Awaited(t)
      BY <2>1, <2>2, OutcomeKinds DEF Awaited
    <3>3. QED
      BY <2>1, <3>1, <3>2 DEF Expected, CurrentFlow, Current, Awaited, IsOutcome
  <2>5. QED
    BY <2>3, <2>4
<1>32. ASSUME NEW t \in tasks, PushUnsubscribes(t) PROVE Expected'
  <2>1. CASE inflight
    <3>1. Appends(toServer, toServer', "unsubscribe", "live")
      BY <1>32, <2>1, SendsUnsubscribe DEF PushUnsubscribes, Agreed
    <3>2. Len(toServer') # 0 /\ toServer'[Len(toServer')].kind = "unsubscribe"
      BY <3>1, Lens DEF Appends
    <3>3. QED
      BY <3>2 DEF Will
  <2>2. CASE ~inflight
    <3>1. PushRace(t) = {} /\ InflightRace = {} /\ t.kind = "pushUnsubscribe"
      BY <1>32 DEF PushUnsubscribes, Agreed
    <3>2. IsPush(t) /\ \A u \in tasks : ~Awaited(u)
      BY <2>2, <3>1, OutcomeKinds DEF PushRace, InflightRace, IsPush, Awaited, IsOutcome
    <3>3. sstate = "subscribed"
      BY <2>2, <3>2 DEF Expected, CurrentFlow, FlowInv
    <3>4. Len(toServer) = 0 /\ ~serverSub
      BY <3>2, <3>3 DEF SubscribedInv, HasPush
    <3>5. QED
      BY <3>4 DEF Will
  <2>3. QED
    BY <2>1, <2>2
<1>33. ASSUME NEW t \in tasks, PushInvalidates(t) PROVE Expected'
  BY <1>33, OutcomeKinds
     DEF PushInvalidates, Nothing, Task, clientVars, subVars, Expected, CurrentFlow,
         Current, Awaited, IsOutcome
<1>34. ASSUME NEW t \in tasks, PushResubscribes(t) PROVE Expected'
  <2>1. CASE sstate = "subscribed"
    <3>1. PushRace(t) = {} /\ t.kind = "pushResubscribe"
      BY <1>34 DEF PushResubscribes, Agreed
    <3>2. HasPush
      BY <3>1, OutcomeKinds DEF PushRace, IsPush, HasPush
    <3>3. Len(toServer) = 0 /\ ~serverSub
      BY <2>1, <3>2 DEF SubscribedInv
    <3>4. QED
      BY <3>3 DEF Will
  <2>2. CASE sstate # "subscribed"
    <3>1. t.kind = "pushResubscribe" /\ UNCHANGED <<flow, subscribeAttempt, connGeneration>>
          /\ (sstate = "subscribing" => sstate' = sstate) /\ \A u \in tasks : u # t
                 => u \in tasks'
      BY <1>34 DEF PushResubscribes, MoveToSubscribing, clientVars
    <3>2. QED
      BY <2>2, <3>1, OutcomeKinds DEF Expected, CurrentFlow, Current, Awaited, IsOutcome
  <2>3. QED
    BY <2>1, <2>2
<1>35. CASE UNCHANGED <<sstate, subscribeAttempt, flow, tasks, connGeneration>>
  BY <1>35 DEF Expected, CurrentFlow, Current, Awaited, IsOutcome
<1>36. QED
  BY <1>1, <1>2, <1>3, <1>4, <1>5, <1>6, <1>7, <1>8, <1>9, <1>10, <1>11, <1>12, <1>13,
     <1>14, <1>15, <1>16, <1>17, <1>18, <1>19, <1>20, <1>21, <1>22, <1>23, <1>24, <1>25,
     <1>26, <1>27, <1>28, <1>29, <1>30, <1>31, <1>32, <1>33, <1>34, <1>35
     DEF Next, Application, Failure, Client, SubscribeFlow, Reader, Run, Server, vars,
         LinkFails, ServerKeeps, UnsubscribeTimeout, ServerRejects, ServerPushes,
         Connects, ReportTearsDown, ReportIgnored, UnsubscribeReplied, LateReply,
         ServerSubscribes, ServerUnsubscribes, Teardown, ServerTakes, clientVars, subVars

\* Every step keeps WillInv.
LEMMA WillStep ==
  ASSUME LinkTypes, StateTypes, FlowTypes, TaskTypes, NetTypes, NetTypes', FlowInv,
         SessionInv, AttemptInv, OutcomeInv,
         OriginInv, ClosedInv, LiveInv, LastInv, RepliedInv, AlreadyInv, OrphanInv,
         SubscribedInv, WillInv, [Next]_vars
  PROVE  WillInv'
<1> SUFFICES ASSUME Agreed', ~Doomed', Will' PROVE Expected'
  BY DEF WillInv
<1>1. CASE link # "up"
  <2>1. Connects
    BY <1>1, LinkRises DEF Agreed
  <2>2. UNCHANGED <<toServer, serverSub>>
    BY <2>1 DEF Connects, netVars
  <2>3. QED
    BY <1>1, <2>2 DEF SessionInv, Will
<1>2. CASE link = "up"
  <2>1. Agreed /\ ~Doomed
    BY <1>2, HistoryGrows, DoomedStays DEF Agreed
  <2>2. CASE SendSubscribe
    <3>1. CurrentFlow'
      BY <2>2
         DEF SendSubscribe, ResultWanted, Outdated, CurrentFlow, Current, Flow, subVars
    <3>2. QED
      BY <3>1 DEF Expected
  <2>3. CASE Will
    <3>1. Expected
      BY <2>1, <2>3 DEF WillInv
    <3>2. QED
      BY <2>1, <2>3, <3>1, ExpectedStays
  <2>4. QED
    BY <2>1, <2>2, <2>3, WillAppears
<1>3. QED
  BY <1>1, <1>2

\* What a step that sends a subscribe sends (NothingStaleSent).
SentFresh ==
  flow.stage = "send" /\ flow'.stage = "sent" =>
    /\ HasGetToken => flow.tok = Newest
    /\ recover => position \in {Nothing, Newest}

\* A subscribe is sent by the last lock hold of continueResubscribe, which compares the counts.
LEMMA StaleStep ==
  ASSUME FreshInv, [Next]_vars
  PROVE  SentFresh
<1> USE DEF SentFresh, FreshInv, Flow, NoFlow, FailedFlow
<1>1. ASSUME SendSubscribe PROVE SentFresh
  BY <1>1 DEF SendSubscribe, ResultWanted, Outdated
<1>2. ASSUME NEW kind \in SubscribeReplies, SubscribeReplied(kind) PROVE SentFresh
  BY <1>2 DEF SubscribeReplied, EndFlow
<1>3. ASSUME Close \/ RequestTimeout \/ MalformedReply \/ SessionEnds PROVE SentFresh
  BY <1>3
     DEF Close, RequestTimeout, MalformedReply, SessionEnds, FailRequests, NoGeneration,
         EndFlow
<1>4. ASSUME GetStateStarts \/ ResultDropped \/ GetStateReturns \/ ContinueResubscribe
      PROVE  SentFresh
  BY <1>4
     DEF GetStateStarts, ResultDropped, GetStateReturns, ContinueResubscribe, Nothing,
         NoGeneration, Outdated, EndFlow, ResultWanted
<1>5. ASSUME GetTokenReturns \/ GetFails \/ GetTokenUnauthorized \/ SendNotConnected
      PROVE  SentFresh
  BY <1>5
     DEF GetTokenReturns, GetFails, GetTokenUnauthorized, SendNotConnected, ResultWanted,
         Outdated, NoGeneration, EndFlow
<1>6. ASSUME SendFails \/ RequestFailed PROVE SentFresh
  BY <1>6 DEF SendFails, RequestFailed, ResultWanted, EndFlow
<1>7. ASSUME NEW t \in tasks, ResubscribeStarts(t) PROVE SentFresh
  BY <1>7 DEF ResubscribeStarts, Nothing, NoGeneration
<1>8. CASE UNCHANGED <<flow>>
  BY <1>8
<1>9. QED
  BY <1>1, <1>2, <1>3, <1>4, <1>5, <1>6, <1>7, <1>8
     DEF Next, Application, Failure, Client, SubscribeFlow, Reader, Run, Server, vars,
         SubscribeCalled, Unsubscribe, LinkFails, ConnectionInvalidated, ServerKeeps,
         UnsubscribeTimeout, ServerRejects, ServerPushes, Connects, Sweeps, TeardownDone,
         ReportTearsDown, ReportIgnored, UnsubscribeReplied, LateReply, PushReceived,
         TimerFires, ServerSubscribes, ServerUnsubscribes, Invalidates, Subscribe,
         ClosedUnsubscribes, MoveToSubscribed, DeltaFailed, ErrorOutdated, SubscribeError,
         PushUnsubscribes, PushInvalidates, PushResubscribes, Teardown, ServerTakes

\* A new subscription has nothing in progress.
LEMMA SubInit ==
  ASSUME Init
  PROVE  SubInv
<1>1. /\ Flags /\ LinkTypes /\ StateTypes /\ TaskTypes /\ NetTypes
  <2>1. Flags
    BY DEF Init, Flags
  <2>2. LinkTypes /\ StateTypes /\ TaskTypes
    BY DEF Init, LinkTypes, StateTypes, TaskTypes, Links, Reports, Nothing
  <2>3. NetTypes
    BY DEF Init, NetTypes
  <2>4. QED
    BY <2>1, <2>2, <2>3
<1>2. /\ FlowTypes /\ FlowInv /\ FreshInv
  BY DEF Init, FlowTypes, FlowInv, FreshInv, NoFlow, Flow, Stages, Nothing, NoGeneration,
         Newest
<1>3. /\ SessionInv /\ GenerationInv /\ AttemptInv /\ OriginInv /\ ReaderInv /\ ClosedInv
      /\ SubscribedHasSession /\ SubscribingHasWork
  BY DEF Init, SessionInv, GenerationInv, AttemptInv, OriginInv, ReaderInv, ClosedInv,
         SubscribedHasSession, SubscribingHasWork, Connected, NoFlow, Flow
<1>4. /\ OutcomeInv /\ LiveInv /\ LastInv /\ RepliedInv /\ OkInv /\ SubscribedInv
      /\ OrphanInv /\ PairsInv /\ AlreadyInv /\ WillInv
  BY DEF Init, OutcomeInv, LiveInv, LastInv, RepliedInv, OkInv, SubscribedInv, OrphanInv,
         PairsInv, AlreadyInv, WillInv, Agreed
<1>5. QED
  BY <1>1, <1>2, <1>3, <1>4 DEF SubInv

\* Every step keeps the invariant.
LEMMA SubStep ==
  ASSUME SubInv, [Next]_vars
  PROVE  SubInv'
<1>1. /\ Flags /\ LinkTypes /\ StateTypes /\ FlowTypes /\ TaskTypes /\ NetTypes
      /\ FlowInv /\ FreshInv /\ SessionInv /\ GenerationInv /\ AttemptInv /\ OriginInv
      /\ ReaderInv /\ OutcomeInv /\ ClosedInv /\ SubscribedHasSession /\ SubscribingHasWork
      /\ LiveInv /\ LastInv /\ RepliedInv /\ OkInv /\ SubscribedInv
      /\ OrphanInv /\ PairsInv /\ AlreadyInv /\ WillInv
  BY DEF SubInv
<1>2. Flags' /\ LinkTypes' /\ StateTypes' /\ FlowTypes' /\ TaskTypes' /\ NetTypes'
  BY <1>1, FlagsStep, LinkTypesStep, StateTypesStep, FlowTypesStep, TaskTypesStep,
     NetTypesStep
<1>3. FlowInv' /\ FreshInv' /\ SessionInv' /\ GenerationInv' /\ AttemptInv' /\ OriginInv'
          /\ ReaderInv'
  BY <1>1, FlowStep, FreshStep, SessionStep, GenerationStep, AttemptStep, OriginStep,
     ReaderStep
<1>4. OutcomeInv' /\ ClosedInv' /\ SubscribedHasSession' /\ SubscribingHasWork'
  BY <1>1, OutcomeStep, ClosedStep, HasSessionStep, WorkStep
<1>5. LiveInv' /\ LastInv' /\ RepliedInv' /\ OkInv' /\ SubscribedInv'
  BY <1>1, <1>2, LiveStep, LastStep, RepliedStep, OkStep, SubscribedStep
<1>6. OrphanInv' /\ PairsInv' /\ AlreadyInv' /\ WillInv'
  BY <1>1, <1>2, OrphanStep, PairsStep, AlreadyStep, WillStep
<1>7. QED
  BY <1>2, <1>3, <1>4, <1>5, <1>6 DEF SubInv

\* The invariant holds in every state.
THEOREM SubscriptionInvariant == Spec => []SubInv
<1>1. Init => SubInv
  BY SubInit
<1>2. SubInv /\ [Next]_vars => SubInv'
  BY SubStep
<1>3. QED
  BY <1>1, <1>2, PTL DEF Spec

\* A subscribing subscription of a connected client has work that will end in a subscribe
\* (resubscribe, scheduleResubscribe, the early returns of the flow), or its session is ending.
THEOREM NeverStranded == Spec => []SubscribingHasWork
<1>1. SubInv => SubscribingHasWork
  BY DEF SubInv
<1>2. QED
  BY <1>1, SubscriptionInvariant, PTL

\* A subscription is subscribed only in a session (moveToSubscribed, clearConnectedState).
THEOREM SubscribedNeedsSession == Spec => []SubscribedHasSession
<1>1. SubInv => SubscribedHasSession
  BY DEF SubInv
<1>2. QED
  BY <1>1, SubscriptionInvariant, PTL

\* When all is settled the server has the subscription exactly if the client says subscribed
\* (sendUnsubscribeLocked, lockCurrentSubscribe, moveToSubscribed).
THEOREM ClientAndServerAgree == Spec => []ServerAgrees
<1>1. ASSUME SubInv PROVE ServerAgrees
  <2>1. SUFFICES ASSUME Settled, history = {} PROVE Agreement
    BY DEF ServerAgrees
  <2>2. /\ Agreed /\ due = {} /\ flow.stage = "none" /\ tasks = {}
        /\ Len(toServer) = 0 /\ Len(toClient) = 0
    BY <2>1 DEF Settled, Agreed
  <2>3. ~Doomed /\ (Will <=> serverSub) /\ NoPushAfter(0) /\ ~HasPush
    BY <2>2 DEF Doomed, Will, NoPushAfter, HasPush
  <2>4. serverSub => sstate = "subscribed"
    BY <1>1, <2>2, <2>3 DEF SubInv, WillInv, Expected, CurrentFlow
  <2>5. sstate = "subscribed" => serverSub
    BY <1>1, <2>2, <2>3 DEF SubInv, SubscribedInv
  <2>6. QED
    BY <2>4, <2>5 DEF Agreement
<1>2. QED
  BY <1>1, SubscriptionInvariant, PTL

\* No subscribe meets an older subscription of the session: the unsubscribe is written before
\* the next subscribe (sendUnsubscribeLocked).
THEOREM NoOlderSubscription == Spec => []NeverAlreadySubscribed
<1>1. ASSUME SubInv PROVE NeverAlreadySubscribed
  <2>1. NetTypes /\ AlreadyInv
    BY <1>1 DEF SubInv
  <2>2. SUFFICES ASSUME link = "up", due = {}, history = {}, toClient # <<>>,
                        Head(toClient).kind = "already"
                 PROVE  FALSE
    BY DEF NeverAlreadySubscribed
  <2>3. 1 \in 1..Len(toClient) /\ toClient[1].kind = "already"
    BY <2>1, <2>2, Lens DEF NetTypes
  <2>4. \E j \in 1..(1 - 1) : Failed(j)
    BY <2>1, <2>2, <2>3 DEF AlreadyInv, Agreed
  <2>5. QED
    BY <2>4
<1>2. QED
  BY <1>1, SubscriptionInvariant, PTL

\* A subscribe carries a token and a position from after the last invalidation
\* (continueResubscribe, getStateAndResubscribe).
THEOREM OnlyFreshStateSent == Spec => NothingStaleSent
<1>1. SubInv /\ [Next]_vars => [SentFresh]_vars
  BY StaleStep DEF SubInv
<1>2. QED
  BY <1>1, SubscriptionInvariant, PTL DEF Spec, NothingStaleSent, SentFresh

=============================================================================
