---------------------------- MODULE CallsProofs ----------------------------
(***************************************************************************)
(* Proofs about Calls, for any sets of calls, any largest command id and   *)
(* any bounds: a call gets at most one result, no call is forgotten by     *)
(* those who could finish it, nothing waits for a client or a subscription *)
(* that will not come, and the server has no reason to close a connection. *)
(*                                                                         *)
(* The invariant says who may still hand a result to a call.  TableInv: a  *)
(* call in the table of requests is there once, under its own id, and has  *)
(* no result; while its command is being sent the entry of its id is its   *)
(* own or nobody's, so that a failed send takes no other call away (ids    *)
(* are not reused while anything is left of their former command, Unused). *)
(* FutureInv: the maps of futures hold exactly the calls that wait in      *)
(* them.  ResultInv: whoever is in neither and not done has no result.     *)
(* LinkInv follows the transport: it is 0 throughout a teardown and until  *)
(* the connect command is written, so a command is written only to a       *)
(* transport that was greeted, and none while the client is down           *)
(* (ComingInv).                                                            *)
(*                                                                         *)
(* TypeOK is kept in seven parts, each with its own lemma: a step of this  *)
(* model changes few variables, and the lemma of a part names the actions  *)
(* that change them.                                                       *)
(***************************************************************************)
EXTENDS Calls, TLAPS

\* Types of the client and its transports; a transport being opened has a number.
LinkTypes ==
  /\ state \in {"disconnected", "connecting", "connected", "closed"}
  /\ transport \in 0..opened /\ opened \in Nat /\ open \subseteq 1..opened
  /\ mu \in {"free", "opening", "disconnected", "connecting", "closed", "retry"}
  /\ mu = "opening" => opened # 0
  /\ greeted \subseteq 1..opened /\ reports \subseteq 1..opened

\* Types of what is at the server and in the inbox.
NetTypes ==
  opened \in Nat /\ on \in [Calls -> 0..opened]
      /\ atServer \cup inbox \subseteq [id : Ids, on : 1..opened]

\* Types of closeCh and of the goroutines of sendAsyncOn.
WatchTypes ==
  /\ channels \in Nat /\ closeCh \in 0..channels
  /\ watches \subseteq [id : Ids, ch : 0..channels, phase : {"new", "armed", "grace"}]

\* Types of the command ids and the table of requests.
TableTypes ==
  /\ cmdID \in Ids /\ requests \in [Ids -> Calls \cup {NoCall, ConnectCommand}]
  /\ id \in [Calls -> Ids]

\* Types of the stages of calls and the results handed over.
CallTypes ==
  /\ stage \in [Calls -> Stages] /\ ran \in [Calls -> Nat]

\* Types of the futures, of the subscription and of the contexts.
FutureTypes ==
  /\ futures \subseteq Calls /\ overdue \subseteq Calls
  /\ subFutures \subseteq SubCalls /\ subOverdue \subseteq SubCalls
  /\ resolving \subseteq Calls
  /\ sub \in {"unsubscribed", "subscribing", "subscribed"} /\ ctxDone \subseteq Calls

\* Types of the bounds used up.
BudgetTypes ==
  calls \in Nat /\ faults \in Nat

\* A call whose command is being sent, after the request was added.
Pending == {"added", "writing", "failed"}

\* The table holds calls without a result under their own ids, each call that waits for a
\* reply is in it, and a call that sends shares its entry with nobody.
TableInv ==
  /\ \A c \in Calls, n \in Ids : requests[n] = c =>
        c \notin Sends /\ id[c] = n /\ stage[c] \in Pending \cup {"waiting"} /\ ran[c] = 0
  /\ \A c \in Calls \ Sends :
       stage[c] \in Pending => id[c] # 0 /\ requests[id[c]] \in {c, NoCall}
  /\ \A c \in Calls : stage[c] = "waiting" => requests[id[c]] = c

\* No call has two results, and one that can still get a result elsewhere has none.
ResultInv ==
  \A c \in Calls :
    /\ ran[c] <= 1
    /\ stage[c] # "done" /\ (c \in Sends \/ stage[c] \notin Pending) => ran[c] = 0

\* The calls at stage future and subFuture are the ones in the maps.
FutureInv ==
  /\ \A c \in Calls : c \in futures <=> stage[c] = "future"
  /\ \A c \in Calls : c \in subFutures <=> stage[c] = "subFuture"

\* A goroutine of sendAsyncOn watches every call that waits for a reply.
WatchInv == \A c \in Calls : stage[c] = "waiting" => \E w \in watches : w.id = id[c]

\* Futures exist while the client connects, or the subscription subscribes.
ComingInv ==
  /\ futures # {} /\ mu = "free" => state = "connecting"
  /\ subFutures # {} => sub = "subscribing"
  /\ mu = "free" /\ state \in {"disconnected", "closed"}
         => \A c \in Calls : stage[c] # "waiting"

\* The only open transport is the current one, or the one being opened; commands are written
\* to transports that were greeted.
LinkInv ==
  /\ mu \in {"opening", "retry"} => state = "connecting"
  /\ mu # "free" => transport = 0
  /\ open \subseteq IF mu = "opening" THEN {opened} ELSE {transport}
  /\ mu = "opening" => opened \notin greeted
  /\ transport # 0 => transport \in greeted /\ state \in {"connecting", "connected"}
  /\ \A c \in Calls : stage[c] = "writing" => on[c] \in greeted

\* Every step keeps LinkTypes.
LEMMA LinkTypesStep ==
  ASSUME LinkTypes, LinkInv, [Next]_vars
  PROVE  LinkTypes'
<1> USE DEF LinkTypes
<1>1. ASSUME Connect PROVE LinkTypes'
  BY <1>1 DEF Connect, connVars
<1>2. ASSUME Disconnect PROVE LinkTypes'
  BY <1>2 DEF Disconnect, StartTeardown, connVars
<1>3. ASSUME Close PROVE LinkTypes'
  BY <1>3 DEF Close, StartTeardown, connVars
<1>4. ASSUME Opens PROVE LinkTypes'
  BY <1>4 DEF Opens, TransportWhileOpening, connVars
<1>5. ASSUME ConnectWritten PROVE LinkTypes'
  BY <1>5 DEF ConnectWritten, connVars
<1>6. ASSUME ConnectNotWritten PROVE LinkTypes'
  BY <1>6 DEF ConnectNotWritten, connVars
<1>7. ASSUME ConnectReplied PROVE LinkTypes'
  BY <1>7 DEF ConnectReplied, connVars
<1>8. ASSUME ConnectFails PROVE LinkTypes'
  BY <1>8 DEF ConnectFails, connVars
<1>9. ASSUME EndTeardown PROVE LinkTypes'
  BY <1>9 DEF EndTeardown, connVars
<1>10. ASSUME NEW t \in reports, Report(t) PROVE LinkTypes'
  <2>1. ASSUME NEW target \in {"retry", "connecting"}, StartTeardown(target)
        PROVE  LinkTypes'
    BY <1>10, <2>1 DEF Report, StartTeardown
  <2>2. CASE transport # t
    BY <1>10, <2>2 DEF Report, connVars
  <2>3. QED
    BY <1>10, <2>1, <2>2 DEF Report
<1>11. ASSUME NEW c \in Calls, NotWritten(c) PROVE LinkTypes'
  <2>1. on[c] \in greeted
    BY <1>11 DEF LinkInv, NotWritten
  <2>2. QED
    BY <1>11, <2>1 DEF NotWritten, connVars
<1>12. ASSUME NEW c \in Calls, MalformedEnds(c) PROVE LinkTypes'
  <2>1. UNCHANGED reports
    BY <1>12 DEF MalformedEnds
  <2>2. CASE StartTeardown("disconnected")
    BY <2>1, <2>2 DEF StartTeardown
  <2>3. CASE UNCHANGED connVars
    BY <2>1, <2>3 DEF connVars
  <2>4. QED
    BY <1>12, <2>2, <2>3 DEF MalformedEnds
<1>13. ASSUME NEW t \in open, LinkFails(t) PROVE LinkTypes'
  BY <1>13 DEF LinkFails, connVars
<1>14. CASE UNCHANGED <<state, transport, opened, open, mu, greeted, reports>>
  BY <1>14
<1>15. QED
  BY <1>1, <1>2, <1>3, <1>4, <1>5, <1>6, <1>7, <1>8, <1>9, <1>10, <1>11, <1>12, <1>13,
     <1>14
     DEF Next, Application, Connection, Watcher, Network, Caller, Waiter, vars, Subscribe,
         Unsubscribe, Begin, ContextEnds, Subscribed, ClosedUnsubscribes,
         SubscriptionReady, Go, ReadTransport, Written, SendFailed, FutureOverdue,
         FutureTimeout, SubFutureTimeout, WatchStarts, WatchOverdue, WatchPops,
         ServerReplies, Reply, ReplyLost, ReplyMalformed, MoveToUnsubscribed,
         UnchangedByCall, connVars

\* Every step keeps NetTypes: commands carry the transport they were written to.
LEMMA NetTypesStep ==
  ASSUME LinkTypes, LinkInv, TableTypes, NetTypes, [Next]_vars
  PROVE  NetTypes'
<1> USE DEF NetTypes
<1>1. ASSUME Disconnect PROVE NetTypes'
  BY <1>1 DEF Disconnect, StartTeardown, connVars, callVars, netVars
<1>2. ASSUME Close PROVE NetTypes'
  BY <1>2 DEF Close, StartTeardown, connVars, callVars, netVars
<1>3. ASSUME Opens PROVE NetTypes'
  BY <1>3 DEF Opens, connVars, callVars, netVars
<1>4. ASSUME ConnectFails PROVE NetTypes'
  BY <1>4 DEF ConnectFails, connVars, callVars, netVars
<1>5. ASSUME NEW t \in reports, Report(t) PROVE NetTypes'
  BY <1>5 DEF Report, StartTeardown, connVars, callVars, netVars
<1>6. ASSUME NEW c \in Calls, ReadTransport(c) PROVE NetTypes'
  <2>1. transport \in 0..opened
    BY DEF LinkTypes
  <2>2. QED
    BY <1>6, <2>1 DEF ReadTransport, UnchangedByCall, netVars
<1>7. ASSUME NEW c \in Calls, Written(c) PROVE NetTypes'
  <2>1. on[c] \in 1..opened /\ id[c] \in Ids
    BY <1>7 DEF Written, LinkTypes, LinkInv, TableTypes
  <2>2. atServer' \subseteq atServer \cup {[id |-> id[c], on |-> on[c]]}
    BY <1>7 DEF Written
  <2>3. QED
    BY <1>7, <2>1, <2>2 DEF Written, UnchangedByCall
<1>8. ASSUME NEW c \in Calls, MalformedEnds(c) PROVE NetTypes'
  BY <1>8 DEF MalformedEnds, StartTeardown, connVars, callVars, netVars
<1>9. ASSUME NEW t \in open, LinkFails(t) PROVE NetTypes'
  BY <1>9 DEF LinkFails, connVars, callVars, netVars
<1>10. ASSUME NEW r \in atServer, ServerReplies(r) PROVE NetTypes'
  BY <1>10 DEF ServerReplies, connVars, callVars, netVars
<1>11. ASSUME NEW r \in inbox, Reply(r) PROVE NetTypes'
  BY <1>11 DEF Reply, connVars, callVars, netVars
<1>12. ASSUME NEW r \in inbox, ReplyLost(r) PROVE NetTypes'
  BY <1>12 DEF ReplyLost, connVars, callVars, netVars
<1>13. ASSUME NEW r \in inbox, ReplyMalformed(r) PROVE NetTypes'
  BY <1>13 DEF ReplyMalformed, connVars, callVars, netVars
<1>14. CASE UNCHANGED <<on, opened, atServer, inbox>>
  BY <1>14
<1>15. QED
  BY <1>1, <1>2, <1>3, <1>4, <1>5, <1>6, <1>7, <1>8, <1>9, <1>10, <1>11, <1>12, <1>13,
     <1>14
     DEF Next, Application, Connection, Watcher, Network, Caller, Waiter, vars, Connect,
         Subscribe, Unsubscribe, Begin, ContextEnds, ConnectWritten, ConnectNotWritten,
         ConnectReplied, EndTeardown, Subscribed, ClosedUnsubscribes, SubscriptionReady,
         Go, NotWritten, SendFailed, FutureOverdue, FutureTimeout, SubFutureTimeout,
         WatchStarts, WatchOverdue, WatchPops, MoveToUnsubscribed, UnchangedByCall,
         connVars, callVars, netVars

\* Every step keeps WatchTypes.
LEMMA WatchTypesStep ==
  ASSUME TableTypes, WatchTypes, [Next]_vars
  PROVE  WatchTypes'
<1> USE DEF WatchTypes
<1>1. ASSUME Connect PROVE WatchTypes'
  BY <1>1 DEF Connect, chanVars
<1>2. ASSUME ConnectWritten PROVE WatchTypes'
  BY <1>2 DEF ConnectWritten, Watch, Unread, chanVars
<1>3. ASSUME EndTeardown PROVE WatchTypes'
  BY <1>3 DEF EndTeardown, chanVars
<1>4. ASSUME NEW c \in Calls, Written(c) PROVE WatchTypes'
  <2>1. watches' \subseteq watches \cup {Watch(id[c], Unread, "new")}
    BY <1>4 DEF Written, WatchesAfterWrite
  <2>2. QED
    BY <1>4, <2>1 DEF Written, UnchangedByCall, chanVars, Watch, Unread, TableTypes
<1>5. ASSUME NEW w \in watches, WatchStarts(w) PROVE WatchTypes'
  BY <1>5 DEF WatchStarts, Watch, chanVars
<1>6. ASSUME NEW w \in watches, WatchOverdue(w) PROVE WatchTypes'
  BY <1>6 DEF WatchOverdue, Watch, chanVars
<1>7. ASSUME NEW w \in watches, WatchPops(w) PROVE WatchTypes'
  BY <1>7 DEF WatchPops, chanVars
<1>8. CASE UNCHANGED <<channels, closeCh, watches>>
  BY <1>8
<1>9. QED
  BY <1>1, <1>2, <1>3, <1>4, <1>5, <1>6, <1>7, <1>8
     DEF Next, Application, Connection, Watcher, Network, Caller, Waiter, vars,
         Disconnect, Close, Subscribe, Unsubscribe, Begin, ContextEnds, Opens,
         ConnectNotWritten, ConnectReplied, ConnectFails, Subscribed, ClosedUnsubscribes,
         Report, SubscriptionReady, Go, ReadTransport, NotWritten, SendFailed,
         MalformedEnds, FutureOverdue, FutureTimeout, SubFutureTimeout, LinkFails,
         ServerReplies, Reply, ReplyLost, ReplyMalformed, StartTeardown,
         MoveToUnsubscribed, UnchangedByCall, chanVars

\* Every step keeps TableTypes: nextCmdID stays within the ids.
LEMMA TableTypesStep ==
  ASSUME TableTypes, [Next]_vars
  PROVE  TableTypes'
<1> USE CallIdAssumption DEF TableTypes, Ids
<1>1. ASSUME Opens PROVE TableTypes'
  BY <1>1 DEF Opens, NextCmdID, idVars, callVars
<1>2. ASSUME ConnectNotWritten PROVE TableTypes'
  BY <1>2 DEF ConnectNotWritten, WithoutConnect, idVars, callVars
<1>3. ASSUME ConnectReplied PROVE TableTypes'
  BY <1>3 DEF ConnectReplied, WithoutConnect, idVars, callVars
<1>4. ASSUME ConnectFails PROVE TableTypes'
  BY <1>4 DEF ConnectFails, WithoutConnect, idVars, callVars
<1>5. ASSUME EndTeardown PROVE TableTypes'
  BY <1>5 DEF EndTeardown, idVars, callVars
<1>6. ASSUME NEW c \in Calls, Go(c) PROVE TableTypes'
  BY <1>6 DEF Go, UnchangedByCall, NextCmdID, idVars, callVars
<1>7. ASSUME NEW c \in Calls, SendFailed(c) PROVE TableTypes'
  BY <1>7 DEF SendFailed, UnchangedByCall, idVars, callVars
<1>8. ASSUME NEW w \in watches, WatchPops(w) PROVE TableTypes'
  BY <1>8 DEF WatchPops, PopAndRun, idVars, callVars
<1>9. ASSUME NEW r \in inbox, Reply(r) PROVE TableTypes'
  BY <1>9 DEF Reply, PopAndRun, idVars, callVars
<1>10. ASSUME NEW r \in inbox, ReplyMalformed(r) PROVE TableTypes'
  BY <1>10 DEF ReplyMalformed, idVars, callVars
<1>11. CASE UNCHANGED <<cmdID, requests, id>>
  BY <1>11
<1>12. QED
  BY <1>1, <1>2, <1>3, <1>4, <1>5, <1>6, <1>7, <1>8, <1>9, <1>10, <1>11
     DEF Next, Application, Connection, Watcher, Network, Caller, Waiter, vars, Connect,
         Disconnect, Close, Subscribe, Unsubscribe, Begin, ContextEnds, ConnectWritten,
         Subscribed, ClosedUnsubscribes, Report, SubscriptionReady, ReadTransport,
         Written, NotWritten, MalformedEnds, FutureOverdue, FutureTimeout,
         SubFutureTimeout, WatchStarts, WatchOverdue, LinkFails, ServerReplies, ReplyLost,
         StartTeardown, MoveToUnsubscribed, UnchangedByCall, idVars, callVars

\* Every step keeps CallTypes.
LEMMA CallTypesStep ==
  ASSUME CallTypes, [Next]_vars
  PROVE  CallTypes'
<1> USE DEF CallTypes, Stages
<1>1. ASSUME Unsubscribe PROVE CallTypes'
  BY <1>1 DEF Unsubscribe, MoveToUnsubscribed, HandOver, MoveTo, callVars
<1>2. ASSUME NEW c \in Calls, Begin(c) PROVE CallTypes'
  BY <1>2 DEF Begin, OnConnect, OnSubscribe, Answered, HandOver, MoveTo, callVars
<1>3. ASSUME ConnectReplied PROVE CallTypes'
  BY <1>3 DEF ConnectReplied, MoveTo, callVars
<1>4. ASSUME EndTeardown PROVE CallTypes'
  BY <1>4 DEF EndTeardown, HandOver, MoveTo, FuturesAfter, Taken, callVars
<1>5. ASSUME Subscribed PROVE CallTypes'
  BY <1>5 DEF Subscribed, MoveTo, callVars
<1>6. ASSUME ClosedUnsubscribes PROVE CallTypes'
  BY <1>6 DEF ClosedUnsubscribes, MoveToUnsubscribed, HandOver, MoveTo, callVars
<1>7. ASSUME NEW c \in Calls, SubscriptionReady(c) PROVE CallTypes'
  BY <1>7
     DEF SubscriptionReady, UnchangedByCall, OnConnect, Answered, HandOver, MoveTo,
         callVars
<1>8. ASSUME NEW c \in Calls, Go(c) PROVE CallTypes'
  BY <1>8 DEF Go, UnchangedByCall, Answered, HandOver, MoveTo, callVars
<1>9. ASSUME NEW c \in Calls, ReadTransport(c) PROVE CallTypes'
  BY <1>9 DEF ReadTransport, UnchangedByCall, MoveTo, callVars
<1>10. ASSUME NEW c \in Calls, Written(c) PROVE CallTypes'
  BY <1>10 DEF Written, UnchangedByCall, Answered, HandOver, MoveTo, callVars
<1>11. ASSUME NEW c \in Calls, NotWritten(c) PROVE CallTypes'
  BY <1>11 DEF NotWritten, MoveTo, callVars
<1>12. ASSUME NEW c \in Calls, SendFailed(c) PROVE CallTypes'
  BY <1>12 DEF SendFailed, UnchangedByCall, Answered, HandOver, MoveTo, Popped, callVars
<1>13. ASSUME NEW c \in Calls, MalformedEnds(c) PROVE CallTypes'
  BY <1>13 DEF MalformedEnds, StartTeardown, Answered, HandOver, MoveTo, callVars
<1>14. ASSUME NEW c \in Calls, FutureTimeout(c) PROVE CallTypes'
  BY <1>14 DEF FutureTimeout, Answered, HandOver, MoveTo, StillWaits, callVars
<1>15. ASSUME NEW c \in Calls, SubFutureTimeout(c) PROVE CallTypes'
  BY <1>15 DEF SubFutureTimeout, Answered, HandOver, MoveTo, SubOverdueWaits, callVars
<1>16. ASSUME NEW w \in watches, WatchPops(w) PROVE CallTypes'
  BY <1>16 DEF WatchPops, PopAndRun, HandOver, MoveTo, callVars
<1>17. ASSUME NEW r \in inbox, Reply(r) PROVE CallTypes'
  BY <1>17 DEF Reply, PopAndRun, HandOver, MoveTo, callVars
<1>18. ASSUME NEW r \in inbox, ReplyMalformed(r) PROVE CallTypes'
  BY <1>18 DEF ReplyMalformed, MoveTo, callVars
<1>19. CASE UNCHANGED <<stage, ran>>
  BY <1>19
<1>20. QED
  BY <1>1, <1>2, <1>3, <1>4, <1>5, <1>6, <1>7, <1>8, <1>9, <1>10, <1>11, <1>12, <1>13,
     <1>14, <1>15, <1>16, <1>17, <1>18, <1>19
     DEF Next, Application, Connection, Watcher, Network, Caller, Waiter, vars, Connect,
         Disconnect, Close, Subscribe, ContextEnds, Opens, ConnectWritten,
         ConnectNotWritten, ConnectFails, Report, FutureOverdue, WatchStarts,
         WatchOverdue, LinkFails, ServerReplies, ReplyLost, StartTeardown, callVars

\* Every step keeps FutureTypes.
LEMMA FutureTypesStep ==
  ASSUME FutureTypes, [Next]_vars
  PROVE  FutureTypes'
<1> USE DEF FutureTypes
<1>1. ASSUME Subscribe PROVE FutureTypes'
  BY <1>1 DEF Subscribe, connVars, futureVars, subVars
<1>2. ASSUME Unsubscribe PROVE FutureTypes'
  BY <1>2 DEF Unsubscribe, MoveToUnsubscribed, connVars, futureVars, subVars
<1>3. ASSUME NEW c \in Calls, Begin(c) PROVE FutureTypes'
  BY <1>3 DEF Begin, OnConnect, OnSubscribe, connVars, futureVars, subVars
<1>4. ASSUME NEW c \in Calls, ContextEnds(c) PROVE FutureTypes'
  BY <1>4 DEF ContextEnds, connVars, futureVars, subVars
<1>5. ASSUME ConnectReplied PROVE FutureTypes'
  BY <1>5 DEF ConnectReplied, connVars, futureVars, subVars
<1>6. ASSUME EndTeardown PROVE FutureTypes'
  BY <1>6 DEF EndTeardown, FuturesAfter, connVars, futureVars, subVars
<1>7. ASSUME Subscribed PROVE FutureTypes'
  BY <1>7 DEF Subscribed, connVars, futureVars, subVars
<1>8. ASSUME ClosedUnsubscribes PROVE FutureTypes'
  BY <1>8 DEF ClosedUnsubscribes, MoveToUnsubscribed, connVars, futureVars, subVars
<1>9. ASSUME NEW c \in Calls, SubscriptionReady(c) PROVE FutureTypes'
  BY <1>9 DEF SubscriptionReady, UnchangedByCall, OnConnect, connVars, futureVars, subVars
<1>10. ASSUME NEW c \in Calls, Go(c) PROVE FutureTypes'
  BY <1>10 DEF Go, UnchangedByCall, connVars, futureVars, subVars
<1>11. ASSUME NEW c \in Calls, Written(c) PROVE FutureTypes'
  BY <1>11 DEF Written, UnchangedByCall, connVars, futureVars, subVars
<1>12. ASSUME NEW c \in Calls, SendFailed(c) PROVE FutureTypes'
  BY <1>12 DEF SendFailed, UnchangedByCall, connVars, futureVars, subVars
<1>13. ASSUME NEW c \in Calls, FutureOverdue(c) PROVE FutureTypes'
  BY <1>13 DEF FutureOverdue, connVars, futureVars, subVars
<1>14. ASSUME NEW c \in Calls, FutureTimeout(c) PROVE FutureTypes'
  BY <1>14 DEF FutureTimeout, StillWaits, connVars, futureVars, subVars
<1>15. ASSUME NEW c \in Calls, SubFutureTimeout(c) PROVE FutureTypes'
  BY <1>15 DEF SubFutureTimeout, SubOverdueWaits, connVars, futureVars, subVars
<1>16. CASE UNCHANGED <<futures, overdue, subFutures, subOverdue, resolving, sub, ctxDone>>
  BY <1>16
<1>17. QED
  BY <1>1, <1>2, <1>3, <1>4, <1>5, <1>6, <1>7, <1>8, <1>9, <1>10, <1>11, <1>12, <1>13,
     <1>14, <1>15, <1>16
     DEF Next, Application, Connection, Watcher, Network, Caller, Waiter, vars, Connect,
         Disconnect, Close, Opens, ConnectWritten, ConnectNotWritten, ConnectFails,
         Report, ReadTransport, NotWritten, MalformedEnds, WatchStarts, WatchOverdue,
         WatchPops, LinkFails, ServerReplies, Reply, ReplyLost, ReplyMalformed,
         StartTeardown, UnchangedByCall, connVars, futureVars, subVars

\* Every step keeps BudgetTypes.
LEMMA BudgetTypesStep ==
  ASSUME BudgetTypes, [Next]_vars
  PROVE  BudgetTypes'
<1> USE DEF BudgetTypes
<1>1. ASSUME Connect PROVE BudgetTypes'
  BY <1>1 DEF Connect, ApplicationCalls, budget
<1>2. ASSUME Disconnect PROVE BudgetTypes'
  BY <1>2 DEF Disconnect, ApplicationCalls, StartTeardown, budget
<1>3. ASSUME Close PROVE BudgetTypes'
  BY <1>3 DEF Close, ApplicationCalls, StartTeardown, budget
<1>4. ASSUME Subscribe PROVE BudgetTypes'
  BY <1>4 DEF Subscribe, ApplicationCalls, budget
<1>5. ASSUME Unsubscribe PROVE BudgetTypes'
  BY <1>5 DEF Unsubscribe, ApplicationCalls, MoveToUnsubscribed, budget
<1>6. ASSUME NEW c \in Calls, Begin(c) PROVE BudgetTypes'
  BY <1>6 DEF Begin, ApplicationCalls, budget
<1>7. ASSUME ConnectNotWritten PROVE BudgetTypes'
  BY <1>7 DEF ConnectNotWritten, Fault, budget
<1>8. ASSUME ConnectFails PROVE BudgetTypes'
  BY <1>8 DEF ConnectFails, Fault, NoFault, budget
<1>9. ASSUME NEW c \in Calls, NotWritten(c) PROVE BudgetTypes'
  BY <1>9 DEF NotWritten, Fault, NoFault, budget
<1>10. ASSUME NEW t \in open, LinkFails(t) PROVE BudgetTypes'
  BY <1>10 DEF LinkFails, Fault, budget
<1>11. ASSUME NEW r \in inbox, ReplyMalformed(r) PROVE BudgetTypes'
  BY <1>11 DEF ReplyMalformed, Fault, budget
<1>12. CASE UNCHANGED <<calls, faults>>
  BY <1>12
<1>13. QED
  BY <1>1, <1>2, <1>3, <1>4, <1>5, <1>6, <1>7, <1>8, <1>9, <1>10, <1>11, <1>12
     DEF Next, Application, Connection, Watcher, Network, Caller, Waiter, vars,
         ContextEnds, Opens, ConnectWritten, ConnectReplied, EndTeardown, Subscribed,
         ClosedUnsubscribes, Report, SubscriptionReady, Go, ReadTransport, Written,
         SendFailed, MalformedEnds, FutureOverdue, FutureTimeout, SubFutureTimeout,
         WatchStarts, WatchOverdue, WatchPops, ServerReplies, Reply, ReplyLost, NoFault,
         MoveToUnsubscribed, StartTeardown, UnchangedByCall, budget

\* The type invariant in its parts.
CallsTypes == LinkTypes /\ NetTypes /\ WatchTypes /\ TableTypes /\ CallTypes
    /\ FutureTypes /\ BudgetTypes

\* Closing and resetting the transport (moveToDisconnectedIf, startReconnectingIf, moveToClosed)
\* keeps LinkInv.
LEMMA Teardown ==
  ASSUME LinkTypes, LinkInv, mu = "free",
         NEW target \in {"disconnected", "connecting", "closed", "retry"},
         target = "retry" => state = "connecting", StartTeardown(target),
         \A c \in Calls : stage'[c] = "writing" => stage[c] = "writing"
  PROVE  LinkInv'
<1>1. /\ mu' = target /\ transport' = 0 /\ open' = open \ {transport}
      /\ UNCHANGED <<state, greeted, on>>
  BY DEF StartTeardown
<1>2. open' = {}
  BY <1>1 DEF LinkInv
<1>3. QED
  BY <1>1, <1>2 DEF LinkInv

\* nextCmdID wraps to 1, never to the 0 that marks pings and pushes.
LEMMA NextCmdIDType ==
  ASSUME TableTypes
  PROVE  NextCmdID \in Ids /\ NextCmdID # 0
BY CallIdAssumption DEF TableTypes, NextCmdID, Ids

\* What popping a request and running its callback does.
PopEffect(n) ==
  /\ requests' = [requests EXCEPT ![n] = NoCall]
  /\ \/ /\ requests[n] \notin Calls
        /\ UNCHANGED <<stage, ran>>
     \/ /\ requests[n] \in Calls
        /\ stage' = [stage EXCEPT ![requests[n]] = "done"]
        /\ ran' = [ran EXCEPT ![requests[n]] = @ + 1]

\* popRequest and the callback change the table, the stage and the result of one call only.
LEMMA Pop ==
  ASSUME CallTypes, NEW n \in Ids, PopAndRun(n)
  PROVE  PopEffect(n)
<1>1. CASE requests[n] \in Calls
  BY <1>1 DEF PopAndRun, PopEffect, HandOver, MoveTo, CallTypes
<1>2. CASE requests[n] \notin Calls
  BY <1>2 DEF PopAndRun, PopEffect, HandOver, MoveTo, CallTypes
<1>3. QED
  BY <1>1, <1>2

\* Every step keeps LinkInv: c.mu is held while a transport is opened and torn down.
LEMMA LinkStep ==
  ASSUME LinkTypes, CallTypes, NetTypes, LinkInv, [Next]_vars
  PROVE  LinkInv'
<1> USE DEF LinkInv, LinkTypes, CallTypes, NetTypes
<1>1. ASSUME Connect PROVE LinkInv'
  BY <1>1 DEF Connect, connVars, callVars
<1>2. ASSUME Disconnect PROVE LinkInv'
  <2>1. MuFree /\ StartTeardown("disconnected") /\ UNCHANGED stage
    BY <1>2 DEF Disconnect
  <2>2. QED
    BY <2>1, Teardown DEF MuFree
<1>3. ASSUME Close PROVE LinkInv'
  <2>1. MuFree /\ StartTeardown("closed") /\ UNCHANGED stage
    BY <1>3 DEF Close
  <2>2. QED
    BY <2>1, Teardown DEF MuFree
<1>4. ASSUME Unsubscribe PROVE LinkInv'
  BY <1>4 DEF Unsubscribe, MoveToUnsubscribed, MoveTo, connVars, callVars
<1>5. ASSUME NEW c \in Calls, Begin(c) PROVE LinkInv'
  BY <1>5 DEF Begin, OnConnect, OnSubscribe, Answered, MoveTo, connVars, callVars
<1>6. ASSUME Opens PROVE LinkInv'
  <2>1. open = {} /\ opened + 1 \notin greeted
    BY <1>6 DEF Opens, MuFree
  <2>2. /\ mu' = "opening" /\ transport' = 0 /\ opened' = opened + 1
               /\ open' = open \cup {opened + 1}
        /\ state = "connecting" /\ UNCHANGED <<state, greeted, on, stage>>
    BY <1>6 DEF Opens, TransportWhileOpening, callVars
  <2>3. QED
    BY <2>1, <2>2
<1>7. ASSUME ConnectWritten PROVE LinkInv'
  BY <1>7 DEF ConnectWritten, connVars, callVars
<1>8. ASSUME ConnectNotWritten PROVE LinkInv'
  BY <1>8 DEF ConnectNotWritten, connVars, callVars
<1>9. ASSUME ConnectReplied PROVE LinkInv'
  BY <1>9 DEF ConnectReplied, MoveTo, connVars, callVars
<1>10. ASSUME ConnectFails PROVE LinkInv'
  BY <1>10 DEF ConnectFails, connVars, callVars
<1>11. ASSUME EndTeardown PROVE LinkInv'
  BY <1>11 DEF EndTeardown, MoveTo, Taken, connVars, callVars
<1>12. ASSUME Subscribed PROVE LinkInv'
  BY <1>12 DEF Subscribed, MoveTo, connVars, callVars
<1>13. ASSUME ClosedUnsubscribes PROVE LinkInv'
  BY <1>13 DEF ClosedUnsubscribes, MoveToUnsubscribed, MoveTo, connVars, callVars
<1>14. ASSUME NEW t \in reports, Report(t) PROVE LinkInv'
  <2>1. MuFree /\ UNCHANGED stage
    BY <1>14 DEF Report
  <2>2. CASE transport = t
    BY <1>14, <2>1, <2>2, Teardown DEF Report, MuFree
  <2>3. CASE transport # t
    <3>1. UNCHANGED <<connVars, on>>
      BY <1>14, <2>3 DEF Report
    <3>2. QED
      BY <2>1, <3>1 DEF connVars
  <2>4. QED
    BY <2>2, <2>3
<1>15. ASSUME NEW c \in Calls, SubscriptionReady(c) PROVE LinkInv'
  BY <1>15
     DEF SubscriptionReady, UnchangedByCall, OnConnect, Answered, MoveTo, connVars,
         callVars
<1>16. ASSUME NEW c \in Calls, Go(c) PROVE LinkInv'
  BY <1>16 DEF Go, UnchangedByCall, Answered, MoveTo, connVars, callVars
<1>17. ASSUME NEW c \in Calls, ReadTransport(c) PROVE LinkInv'
  BY <1>17 DEF ReadTransport, UnchangedByCall, MoveTo, connVars, callVars
<1>18. ASSUME NEW c \in Calls, Written(c) PROVE LinkInv'
  BY <1>18 DEF Written, UnchangedByCall, Answered, MoveTo, connVars, callVars
<1>19. ASSUME NEW c \in Calls, NotWritten(c) PROVE LinkInv'
  BY <1>19 DEF NotWritten, MoveTo, connVars, callVars
<1>20. ASSUME NEW c \in Calls, SendFailed(c) PROVE LinkInv'
  BY <1>20 DEF SendFailed, UnchangedByCall, Answered, MoveTo, connVars, callVars
<1>21. ASSUME NEW c \in Calls, MalformedEnds(c) PROVE LinkInv'
  <2>1. MuFree /\ \A d \in Calls : stage'[d] = "writing" => stage[d] = "writing"
    BY <1>21 DEF MalformedEnds, Answered, MoveTo
  <2>2. CASE StartTeardown("disconnected")
    BY <2>1, <2>2, Teardown DEF MuFree
  <2>3. CASE UNCHANGED connVars /\ UNCHANGED on
    BY <2>1, <2>3 DEF connVars
  <2>4. QED
    BY <1>21, <2>2, <2>3 DEF MalformedEnds
<1>22. ASSUME NEW c \in Calls, FutureTimeout(c) PROVE LinkInv'
  BY <1>22 DEF FutureTimeout, Answered, MoveTo, StillWaits, connVars, callVars
<1>23. ASSUME NEW c \in Calls, SubFutureTimeout(c) PROVE LinkInv'
  BY <1>23 DEF SubFutureTimeout, Answered, MoveTo, SubOverdueWaits, connVars, callVars
<1>24. ASSUME NEW w \in watches, WatchPops(w) PROVE LinkInv'
  BY <1>24 DEF WatchPops, PopAndRun, MoveTo, connVars, callVars
<1>25. ASSUME NEW t \in open, LinkFails(t) PROVE LinkInv'
  BY <1>25 DEF LinkFails, connVars, callVars
<1>26. ASSUME NEW r \in inbox, Reply(r) PROVE LinkInv'
  BY <1>26 DEF Reply, PopAndRun, MoveTo, connVars, callVars
<1>27. ASSUME NEW r \in inbox, ReplyMalformed(r) PROVE LinkInv'
  BY <1>27 DEF ReplyMalformed, MoveTo, connVars, callVars
<1>28. CASE UNCHANGED <<state, transport, mu, opened, open, greeted, on, stage>>
  BY <1>28
<1>29. QED
  BY <1>1, <1>2, <1>3, <1>4, <1>5, <1>6, <1>7, <1>8, <1>9, <1>10, <1>11, <1>12, <1>13,
     <1>14, <1>15, <1>16, <1>17, <1>18, <1>19, <1>20, <1>21, <1>22, <1>23, <1>24, <1>25,
     <1>26, <1>27, <1>28
     DEF Next, Application, Connection, Watcher, Network, Caller, Waiter, vars, Subscribe,
         ContextEnds, FutureOverdue, WatchStarts, WatchOverdue, ServerReplies, ReplyLost,
         connVars, callVars

\* Every step keeps FutureInv: a future leaves its map when it is resolved or timed out.
LEMMA FutureStep ==
  ASSUME WatchTypes, NetTypes, TableTypes, CallTypes, FutureTypes, TableInv, FutureInv,
         [Next]_vars
  PROVE  FutureInv'
<1> USE DEF FutureInv, CallTypes, FutureTypes, TableTypes
<1>1. ASSUME Unsubscribe PROVE FutureInv'
  BY <1>1 DEF Unsubscribe, MoveToUnsubscribed, MoveTo, futureVars, subVars, callVars
<1>2. ASSUME NEW c \in Calls, Begin(c) PROVE FutureInv'
  BY <1>2
     DEF Begin, OnConnect, OnSubscribe, Answered, MoveTo, futureVars, subVars, callVars
<1>3. ASSUME ConnectReplied PROVE FutureInv'
  BY <1>3 DEF ConnectReplied, MoveTo, futureVars, subVars, callVars
<1>4. ASSUME EndTeardown PROVE FutureInv'
  <2>1. /\ futures' = FuturesAfter(mu) /\ UNCHANGED subFutures
        /\ \A c \in Calls : stage'[c] = IF (c \in Taken \/ c \in futures \ FuturesAfter(mu))
                                            /\ stage[c] \in {"waiting", "future"}
                                         THEN "done" ELSE stage[c]
    BY <1>4 DEF EndTeardown, MoveTo
  <2>2. \A c \in Calls : c \in Taken => stage[c] # "future"
    BY DEF Taken, TableInv, Pending
  <2>3. QED
    BY <2>1, <2>2 DEF FuturesAfter
<1>5. ASSUME Subscribed PROVE FutureInv'
  BY <1>5 DEF Subscribed, MoveTo, futureVars, subVars, callVars
<1>6. ASSUME ClosedUnsubscribes PROVE FutureInv'
  BY <1>6
     DEF ClosedUnsubscribes, MoveToUnsubscribed, MoveTo, futureVars, subVars, callVars
<1>7. ASSUME NEW c \in Calls, SubscriptionReady(c) PROVE FutureInv'
  BY <1>7
     DEF SubscriptionReady, UnchangedByCall, OnConnect, Answered, MoveTo, futureVars,
         subVars, callVars
<1>8. ASSUME NEW c \in Calls, Go(c) PROVE FutureInv'
  BY <1>8 DEF Go, UnchangedByCall, Answered, MoveTo, futureVars, subVars, callVars
<1>9. ASSUME NEW c \in Calls, ReadTransport(c) PROVE FutureInv'
  BY <1>9 DEF ReadTransport, UnchangedByCall, MoveTo, futureVars, subVars, callVars
<1>10. ASSUME NEW c \in Calls, Written(c) PROVE FutureInv'
  BY <1>10 DEF Written, UnchangedByCall, Answered, MoveTo, futureVars, subVars, callVars
<1>11. ASSUME NEW c \in Calls, NotWritten(c) PROVE FutureInv'
  BY <1>11 DEF NotWritten, MoveTo, futureVars, subVars, callVars
<1>12. ASSUME NEW c \in Calls, SendFailed(c) PROVE FutureInv'
  BY <1>12
     DEF SendFailed, UnchangedByCall, Answered, MoveTo, futureVars, subVars, callVars
<1>13. ASSUME NEW c \in Calls, MalformedEnds(c) PROVE FutureInv'
  BY <1>13
     DEF MalformedEnds, StartTeardown, Answered, MoveTo, futureVars, subVars, callVars
<1>14. ASSUME NEW c \in Calls, FutureTimeout(c) PROVE FutureInv'
  BY <1>14 DEF FutureTimeout, Answered, MoveTo, StillWaits, futureVars, subVars, callVars
<1>15. ASSUME NEW c \in Calls, SubFutureTimeout(c) PROVE FutureInv'
  BY <1>15
     DEF SubFutureTimeout, Answered, MoveTo, SubOverdueWaits, futureVars, subVars,
         callVars
<1>16. ASSUME NEW w \in watches, WatchPops(w) PROVE FutureInv'
  <2>1. w.id \in Ids
    BY DEF WatchTypes
  <2>2. PopEffect(w.id)
    BY <1>16, <2>1, Pop DEF WatchPops
  <2>3. QED
    BY <1>16, <2>1, <2>2 DEF PopEffect, WatchPops, futureVars, subVars, TableInv, Pending
<1>17. ASSUME NEW r \in inbox, Reply(r) PROVE FutureInv'
  <2>1. r.id \in Ids
    BY DEF NetTypes
  <2>2. PopEffect(r.id)
    BY <1>17, <2>1, Pop DEF Reply
  <2>3. QED
    BY <1>17, <2>1, <2>2 DEF PopEffect, Reply, futureVars, subVars, TableInv, Pending
<1>18. ASSUME NEW r \in inbox, ReplyMalformed(r) PROVE FutureInv'
  <2>1. r.id \in Ids
    BY DEF NetTypes
  <2>2. /\ requests[r.id] \in Calls /\ requests' = [requests EXCEPT ![r.id] = NoCall]
        /\ stage' = [stage EXCEPT ![requests[r.id]] = "malformed"]
        /\ UNCHANGED <<id, ran, futures, subFutures>>
    BY <1>18, <2>1 DEF ReplyMalformed, MoveTo, CallTypes, futureVars, subVars
  <2>3. QED
    BY <2>1, <2>2 DEF TableInv, Pending
<1>19. CASE UNCHANGED <<futures, subFutures, stage>>
  BY <1>19
<1>20. QED
  BY <1>1, <1>2, <1>3, <1>4, <1>5, <1>6, <1>7, <1>8, <1>9, <1>10, <1>11, <1>12, <1>13,
     <1>14, <1>15, <1>16, <1>17, <1>18, <1>19
     DEF Next, Application, Connection, Watcher, Network, Caller, Waiter, vars, Connect,
         Disconnect, Close, Subscribe, ContextEnds, Opens, ConnectWritten,
         ConnectNotWritten, ConnectFails, Report, FutureOverdue, WatchStarts,
         WatchOverdue, LinkFails, ServerReplies, ReplyLost, StartTeardown, futureVars,
         subVars, callVars

\* Every step keeps ResultInv: the reply, the failed send, the timeout and the teardown hand
\* a result over only to a call they took out of the table or of the futures.
LEMMA ResultStep ==
  ASSUME WatchTypes, NetTypes, TableTypes, CallTypes, FutureTypes, TableInv, FutureInv,
         ResultInv, [Next]_vars
  PROVE  ResultInv'
<1> USE DEF ResultInv, CallTypes, FutureTypes, TableTypes, TableInv, FutureInv, Pending
<1>1. ASSUME Unsubscribe PROVE ResultInv'
  BY <1>1 DEF Unsubscribe, MoveToUnsubscribed, HandOver, MoveTo, callVars
<1>2. ASSUME NEW c \in Calls, Begin(c) PROVE ResultInv'
  BY <1>2 DEF Begin, OnConnect, OnSubscribe, Answered, HandOver, MoveTo, callVars
<1>3. ASSUME ConnectReplied PROVE ResultInv'
  BY <1>3 DEF ConnectReplied, MoveTo, callVars
<1>4. ASSUME EndTeardown PROVE ResultInv'
  BY <1>4 DEF EndTeardown, HandOver, MoveTo, FuturesAfter, Taken, callVars
<1>5. ASSUME Subscribed PROVE ResultInv'
  BY <1>5 DEF Subscribed, MoveTo, callVars
<1>6. ASSUME ClosedUnsubscribes PROVE ResultInv'
  BY <1>6 DEF ClosedUnsubscribes, MoveToUnsubscribed, HandOver, MoveTo, callVars
<1>7. ASSUME NEW c \in Calls, SubscriptionReady(c) PROVE ResultInv'
  BY <1>7
     DEF SubscriptionReady, UnchangedByCall, OnConnect, Answered, HandOver, MoveTo,
         callVars
<1>8. ASSUME NEW c \in Calls, Go(c) PROVE ResultInv'
  BY <1>8 DEF Go, UnchangedByCall, Answered, HandOver, MoveTo, callVars
<1>9. ASSUME NEW c \in Calls, ReadTransport(c) PROVE ResultInv'
  BY <1>9 DEF ReadTransport, UnchangedByCall, MoveTo, callVars
<1>10. ASSUME NEW c \in Calls, Written(c) PROVE ResultInv'
  BY <1>10 DEF Written, UnchangedByCall, Answered, HandOver, MoveTo, callVars
<1>11. ASSUME NEW c \in Calls, NotWritten(c) PROVE ResultInv'
  BY <1>11 DEF NotWritten, MoveTo, callVars
<1>12. ASSUME NEW c \in Calls, SendFailed(c) PROVE ResultInv'
  BY <1>12 DEF SendFailed, UnchangedByCall, Answered, HandOver, MoveTo, Popped, callVars
<1>13. ASSUME NEW c \in Calls, MalformedEnds(c) PROVE ResultInv'
  BY <1>13 DEF MalformedEnds, StartTeardown, Answered, HandOver, MoveTo, callVars
<1>14. ASSUME NEW c \in Calls, FutureTimeout(c) PROVE ResultInv'
  BY <1>14 DEF FutureTimeout, Answered, HandOver, MoveTo, StillWaits, callVars
<1>15. ASSUME NEW c \in Calls, SubFutureTimeout(c) PROVE ResultInv'
  BY <1>15 DEF SubFutureTimeout, Answered, HandOver, MoveTo, SubOverdueWaits, callVars
<1>16. ASSUME NEW w \in watches, WatchPops(w) PROVE ResultInv'
  <2>1. w.id \in Ids
    BY DEF WatchTypes
  <2>2. PopEffect(w.id)
    BY <1>16, <2>1, Pop DEF WatchPops
  <2>3. QED
    BY <1>16, <2>1, <2>2 DEF PopEffect, WatchPops
<1>17. ASSUME NEW r \in inbox, Reply(r) PROVE ResultInv'
  <2>1. r.id \in Ids
    BY DEF NetTypes
  <2>2. PopEffect(r.id)
    BY <1>17, <2>1, Pop DEF Reply
  <2>3. QED
    BY <1>17, <2>1, <2>2 DEF PopEffect, Reply
<1>18. ASSUME NEW r \in inbox, ReplyMalformed(r) PROVE ResultInv'
  <2>1. r.id \in Ids
    BY DEF NetTypes
  <2>2. /\ requests[r.id] \in Calls /\ requests' = [requests EXCEPT ![r.id] = NoCall]
        /\ stage' = [stage EXCEPT ![requests[r.id]] = "malformed"]
        /\ UNCHANGED <<id, ran, futures, subFutures>>
    BY <1>18, <2>1 DEF ReplyMalformed, MoveTo, CallTypes, futureVars, subVars
  <2>3. QED
    BY <2>1, <2>2 DEF Ids
<1>19. CASE UNCHANGED <<stage, ran>>
  BY <1>19
<1>20. QED
  BY <1>1, <1>2, <1>3, <1>4, <1>5, <1>6, <1>7, <1>8, <1>9, <1>10, <1>11, <1>12, <1>13,
     <1>14, <1>15, <1>16, <1>17, <1>18, <1>19
     DEF Next, Application, Connection, Watcher, Network, Caller, Waiter, vars, Connect,
         Disconnect, Close, Subscribe, ContextEnds, Opens, ConnectWritten,
         ConnectNotWritten, ConnectFails, Report, FutureOverdue, WatchStarts,
         WatchOverdue, LinkFails, ServerReplies, ReplyLost, StartTeardown, callVars

\* Every step keeps TableInv.
LEMMA TableStep ==
  ASSUME WatchTypes, NetTypes, TableTypes, CallTypes, FutureTypes, TableInv, FutureInv,
         ResultInv, [Next]_vars
  PROVE  TableInv'
<1> USE CallNamesAssumption DEF ResultInv, CallTypes, FutureTypes, TableTypes, TableInv,
    FutureInv, Pending
<1>1. ASSUME Unsubscribe PROVE TableInv'
  BY <1>1 DEF Unsubscribe, MoveToUnsubscribed, HandOver, MoveTo, idVars, callVars
<1>2. ASSUME NEW c \in Calls, Begin(c) PROVE TableInv'
  BY <1>2 DEF Begin, OnConnect, OnSubscribe, Answered, HandOver, MoveTo, idVars, callVars
<1>3. ASSUME Opens PROVE TableInv'
  <2>1. /\ requests' = [requests EXCEPT ![NextCmdID] = ConnectCommand] /\ Unused(NextCmdID)
        /\ UNCHANGED <<stage, id, ran>>
    BY <1>3 DEF Opens, callVars
  <2>2. PICK n \in Ids : n = NextCmdID
    BY NextCmdIDType
  <2>3. QED
    BY <2>1, <2>2 DEF Unused
<1>4. ASSUME ConnectNotWritten PROVE TableInv'
  BY <1>4 DEF ConnectNotWritten, WithoutConnect, idVars, callVars
<1>5. ASSUME ConnectReplied PROVE TableInv'
  BY <1>5 DEF ConnectReplied, WithoutConnect, MoveTo, idVars, callVars
<1>6. ASSUME ConnectFails PROVE TableInv'
  BY <1>6 DEF ConnectFails, WithoutConnect, idVars, callVars
<1>7. ASSUME EndTeardown PROVE TableInv'
  <2>1. \A n \in Ids : requests'[n] = NoCall
    BY <1>7 DEF EndTeardown
  <2>2. UNCHANGED id /\ \A c \in Calls : stage'[c] \in {stage[c], "done"}
    BY <1>7 DEF EndTeardown, MoveTo, callVars
  <2>3. \A c \in Calls : stage[c] = "waiting" => stage'[c] = "done"
    BY <1>7 DEF EndTeardown, MoveTo, Taken
  <2>4. QED
    BY <2>1, <2>2, <2>3, CallNamesAssumption
<1>8. ASSUME Subscribed PROVE TableInv'
  BY <1>8 DEF Subscribed, MoveTo, idVars, callVars
<1>9. ASSUME ClosedUnsubscribes PROVE TableInv'
  BY <1>9 DEF ClosedUnsubscribes, MoveToUnsubscribed, HandOver, MoveTo, idVars, callVars
<1>10. ASSUME NEW c \in Calls, SubscriptionReady(c) PROVE TableInv'
  BY <1>10
     DEF SubscriptionReady, UnchangedByCall, OnConnect, Answered, HandOver, MoveTo,
         idVars, callVars
<1>11. ASSUME NEW c \in Calls, Go(c) PROVE TableInv'
  <2>1. CASE UNCHANGED <<requests, id>>
    BY <1>11, <2>1 DEF Go, Answered, HandOver, MoveTo
  <2>2. CASE c \notin Sends /\ c \notin ctxDone
    <3>1. /\ requests' = [requests EXCEPT ![NextCmdID] = c] /\ Unused(NextCmdID)
          /\ id' = [id EXCEPT ![c] = NextCmdID] /\ UNCHANGED ran
          /\ stage[c] = "go" /\ stage' = [stage EXCEPT ![c] = "added"]
      BY <1>11, <2>2 DEF Go, MoveTo
    <3>2. PICK n \in Ids : n = NextCmdID /\ n # 0
      BY NextCmdIDType
    <3>3. QED
      BY <2>2, <3>1, <3>2 DEF Unused
  <2>3. QED
    BY <1>11, <2>1, <2>2 DEF Go, idVars
<1>12. ASSUME NEW c \in Calls, ReadTransport(c) PROVE TableInv'
  BY <1>12 DEF ReadTransport, UnchangedByCall, MoveTo, idVars, callVars
<1>13. ASSUME NEW c \in Calls, Written(c) PROVE TableInv'
  BY <1>13 DEF Written, UnchangedByCall, Answered, HandOver, MoveTo, idVars, callVars
<1>14. ASSUME NEW c \in Calls, NotWritten(c) PROVE TableInv'
  BY <1>14 DEF NotWritten, MoveTo, idVars, callVars
<1>15. ASSUME NEW c \in Calls, SendFailed(c) PROVE TableInv'
  <2>1. CASE c \in Sends
    BY <1>15, <2>1 DEF SendFailed, Answered, HandOver, MoveTo, callVars
  <2>2. CASE c \notin Sends
    BY <1>15, <2>2 DEF SendFailed, Popped, HandOver, MoveTo, callVars
  <2>3. QED
    BY <2>1, <2>2
<1>16. ASSUME NEW c \in Calls, MalformedEnds(c) PROVE TableInv'
  BY <1>16 DEF MalformedEnds, StartTeardown, Answered, HandOver, MoveTo, idVars, callVars
<1>17. ASSUME NEW c \in Calls, FutureTimeout(c) PROVE TableInv'
  BY <1>17 DEF FutureTimeout, Answered, HandOver, MoveTo, StillWaits, idVars, callVars
<1>18. ASSUME NEW c \in Calls, SubFutureTimeout(c) PROVE TableInv'
  BY <1>18
     DEF SubFutureTimeout, Answered, HandOver, MoveTo, SubOverdueWaits, idVars, callVars
<1>19. ASSUME NEW w \in watches, WatchPops(w) PROVE TableInv'
  <2>1. w.id \in Ids
    BY DEF WatchTypes
  <2>2. PopEffect(w.id)
    BY <1>19, <2>1, Pop DEF WatchPops
  <2>3. QED
    BY <1>19, <2>1, <2>2 DEF PopEffect, WatchPops
<1>20. ASSUME NEW r \in inbox, Reply(r) PROVE TableInv'
  <2>1. r.id \in Ids
    BY DEF NetTypes
  <2>2. PopEffect(r.id)
    BY <1>20, <2>1, Pop DEF Reply
  <2>3. QED
    BY <1>20, <2>1, <2>2 DEF PopEffect, Reply
<1>21. ASSUME NEW r \in inbox, ReplyMalformed(r) PROVE TableInv'
  <2>1. r.id \in Ids
    BY DEF NetTypes
  <2>2. /\ requests[r.id] \in Calls /\ requests' = [requests EXCEPT ![r.id] = NoCall]
        /\ stage' = [stage EXCEPT ![requests[r.id]] = "malformed"]
        /\ UNCHANGED <<id, ran, futures, subFutures>>
    BY <1>21, <2>1 DEF ReplyMalformed, MoveTo, CallTypes, futureVars, subVars
  <2>3. QED
    BY <2>1, <2>2 DEF Ids
<1>22. CASE UNCHANGED <<requests, stage, id, ran>>
  BY <1>22
<1>23. QED
  BY <1>1, <1>2, <1>3, <1>4, <1>5, <1>6, <1>7, <1>8, <1>9, <1>10, <1>11, <1>12, <1>13,
     <1>14, <1>15, <1>16, <1>17, <1>18, <1>19, <1>20, <1>21, <1>22
     DEF Next, Application, Connection, Watcher, Network, Caller, Waiter, vars, Connect,
         Disconnect, Close, Subscribe, ContextEnds, ConnectWritten, Report, FutureOverdue,
         WatchStarts, WatchOverdue, LinkFails, ServerReplies, ReplyLost, StartTeardown,
         idVars, callVars

\* Every step keeps WatchInv: a goroutine ends only after it popped the request.
LEMMA WatchStep ==
  ASSUME WatchTypes, NetTypes, TableTypes, CallTypes, FutureTypes, TableInv, WatchInv,
         [Next]_vars
  PROVE  WatchInv'
<1> USE DEF CallTypes, TableTypes, WatchTypes, WatchInv
<1>1. ASSUME Unsubscribe PROVE WatchInv'
  BY <1>1 DEF Unsubscribe, MoveToUnsubscribed, MoveTo, callVars
<1>2. ASSUME NEW c \in Calls, Begin(c) PROVE WatchInv'
  BY <1>2 DEF Begin, OnConnect, OnSubscribe, Answered, MoveTo, callVars
<1>3. ASSUME ConnectWritten PROVE WatchInv'
  BY <1>3 DEF ConnectWritten, Watch, Unread, callVars
<1>4. ASSUME ConnectReplied PROVE WatchInv'
  BY <1>4 DEF ConnectReplied, MoveTo, callVars
<1>5. ASSUME EndTeardown PROVE WatchInv'
  BY <1>5 DEF EndTeardown, MoveTo, Taken, callVars
<1>6. ASSUME Subscribed PROVE WatchInv'
  BY <1>6 DEF Subscribed, MoveTo, callVars
<1>7. ASSUME ClosedUnsubscribes PROVE WatchInv'
  BY <1>7 DEF ClosedUnsubscribes, MoveToUnsubscribed, MoveTo, callVars
<1>8. ASSUME NEW c \in Calls, SubscriptionReady(c) PROVE WatchInv'
  BY <1>8 DEF SubscriptionReady, UnchangedByCall, OnConnect, Answered, MoveTo, callVars
<1>9. ASSUME NEW c \in Calls, Go(c) PROVE WatchInv'
  BY <1>9 DEF Go, UnchangedByCall, Answered, MoveTo, NextCmdID, callVars
<1>10. ASSUME NEW c \in Calls, ReadTransport(c) PROVE WatchInv'
  BY <1>10 DEF ReadTransport, UnchangedByCall, MoveTo, callVars
<1>11. ASSUME NEW c \in Calls, Written(c) PROVE WatchInv'
  <2>1. watches \subseteq watches' /\ UNCHANGED id
    BY <1>11 DEF Written, WatchesAfterWrite
  <2>2. \A d \in Calls : d # c => stage'[d] = stage[d]
    BY <1>11 DEF Written, Answered, MoveTo
  <2>3. stage'[c] = "waiting" => \E w \in watches' : w.id = id[c]
    <3>1. stage'[c] = "waiting" => Watch(id[c], Unread, "new") \in watches'
      BY <1>11 DEF Written, Answered, MoveTo, WatchesAfterWrite
    <3>2. QED
      BY <3>1 DEF Watch
  <2>4. QED
    BY <2>1, <2>2, <2>3
<1>12. ASSUME NEW c \in Calls, NotWritten(c) PROVE WatchInv'
  BY <1>12 DEF NotWritten, MoveTo, callVars
<1>13. ASSUME NEW c \in Calls, SendFailed(c) PROVE WatchInv'
  BY <1>13 DEF SendFailed, UnchangedByCall, Answered, MoveTo, callVars
<1>14. ASSUME NEW c \in Calls, MalformedEnds(c) PROVE WatchInv'
  BY <1>14 DEF MalformedEnds, StartTeardown, Answered, MoveTo, callVars
<1>15. ASSUME NEW c \in Calls, FutureTimeout(c) PROVE WatchInv'
  BY <1>15 DEF FutureTimeout, Answered, MoveTo, StillWaits, callVars
<1>16. ASSUME NEW c \in Calls, SubFutureTimeout(c) PROVE WatchInv'
  BY <1>16 DEF SubFutureTimeout, Answered, MoveTo, SubOverdueWaits, callVars
<1>17. ASSUME NEW w \in watches, WatchStarts(w) PROVE WatchInv'
  <2>1. \A c \in Calls : stage'[c] = stage[c] /\ id'[c] = id[c]
    BY <1>17 DEF WatchStarts, callVars
  <2>2. \A v \in watches : \E u \in watches' : u.id = v.id
    <3>1. PICK ch, p : watches' = (watches \ {w}) \cup {Watch(w.id, ch, p)}
      BY <1>17 DEF WatchStarts
    <3>2. Watch(w.id, ch, p).id = w.id
      BY DEF Watch
    <3>3. QED
      BY <3>1, <3>2
  <2>3. QED
    BY <2>1, <2>2
<1>18. ASSUME NEW w \in watches, WatchOverdue(w) PROVE WatchInv'
  <2>1. \A c \in Calls : stage'[c] = stage[c] /\ id'[c] = id[c]
    BY <1>18 DEF WatchOverdue, callVars
  <2>2. \A v \in watches : \E u \in watches' : u.id = v.id
    <3>1. PICK ch, p : watches' = (watches \ {w}) \cup {Watch(w.id, ch, p)}
      BY <1>18 DEF WatchOverdue
    <3>2. Watch(w.id, ch, p).id = w.id
      BY DEF Watch
    <3>3. QED
      BY <3>1, <3>2
  <2>3. QED
    BY <2>1, <2>2
<1>19. ASSUME NEW w \in watches, WatchPops(w) PROVE WatchInv'
  <2>1. w.id \in Ids
    BY DEF WatchTypes
  <2>2. PopEffect(w.id) /\ watches' = watches \ {w} /\ UNCHANGED id
    BY <1>19, <2>1, Pop DEF WatchPops
  <2>3. QED
    BY <2>1, <2>2 DEF PopEffect, TableInv
<1>20. ASSUME NEW r \in inbox, Reply(r) PROVE WatchInv'
  BY <1>20 DEF Reply, PopAndRun, MoveTo, callVars
<1>21. ASSUME NEW r \in inbox, ReplyMalformed(r) PROVE WatchInv'
  BY <1>21 DEF ReplyMalformed, MoveTo, callVars
<1>22. CASE UNCHANGED <<watches, stage, id>>
  BY <1>22
<1>23. QED
  BY <1>1, <1>2, <1>3, <1>4, <1>5, <1>6, <1>7, <1>8, <1>9, <1>10, <1>11, <1>12, <1>13,
     <1>14, <1>15, <1>16, <1>17, <1>18, <1>19, <1>20, <1>21, <1>22
     DEF Next, Application, Connection, Watcher, Network, Caller, Waiter, vars, Connect,
         Disconnect, Close, Subscribe, ContextEnds, Opens, ConnectNotWritten,
         ConnectFails, Report, FutureOverdue, LinkFails, ServerReplies, ReplyLost,
         StartTeardown, callVars

\* Every step keeps ComingInv: a teardown fails the futures and the requests in the table, and
\* no command can be written before the next transport is set.
LEMMA ComingStep ==
  ASSUME WatchTypes, NetTypes, TableTypes, CallTypes, FutureTypes, LinkTypes, LinkInv,
         TableInv, FutureInv, ComingInv, [Next]_vars
  PROVE  ComingInv'
<1> USE DEF ComingInv, LinkTypes, CallTypes, FutureTypes
<1>1. ASSUME Connect PROVE ComingInv'
  BY <1>1 DEF Connect, connVars, futureVars, subVars, callVars
<1>2. ASSUME Disconnect PROVE ComingInv'
  BY <1>2 DEF Disconnect, StartTeardown, connVars, futureVars, subVars, callVars
<1>3. ASSUME Close PROVE ComingInv'
  BY <1>3 DEF Close, StartTeardown, connVars, futureVars, subVars, callVars
<1>4. ASSUME Subscribe PROVE ComingInv'
  BY <1>4 DEF Subscribe, connVars, futureVars, subVars, callVars
<1>5. ASSUME Unsubscribe PROVE ComingInv'
  BY <1>5
     DEF Unsubscribe, MoveToUnsubscribed, MoveTo, connVars, futureVars, subVars, callVars
<1>6. ASSUME NEW c \in Calls, Begin(c) PROVE ComingInv'
  BY <1>6
     DEF Begin, OnConnect, OnSubscribe, Answered, MoveTo, connVars, futureVars, subVars,
         callVars
<1>7. ASSUME Opens PROVE ComingInv'
  BY <1>7 DEF Opens, connVars, futureVars, subVars, callVars
<1>8. ASSUME ConnectWritten PROVE ComingInv'
  <2>1. state = "connecting" /\ UNCHANGED <<state, futures, subFutures, sub>>
    BY <1>8 DEF LinkInv, ConnectWritten, futureVars, subVars
  <2>2. QED
    BY <2>1
<1>9. ASSUME ConnectNotWritten PROVE ComingInv'
  <2>1. state = "connecting" /\ UNCHANGED <<state, futures, subFutures, sub>>
    BY <1>9 DEF LinkInv, ConnectNotWritten, futureVars, subVars
  <2>2. QED
    BY <2>1
<1>10. ASSUME ConnectReplied PROVE ComingInv'
  BY <1>10 DEF ConnectReplied, MoveTo, connVars, futureVars, subVars, callVars
<1>11. ASSUME EndTeardown PROVE ComingInv'
  <2>1. /\ state' = IF mu = "retry" THEN "connecting" ELSE mu
        /\ futures' = FuturesAfter(mu) /\ UNCHANGED subFutures
        /\ sub = "subscribing" => sub' = "subscribing"
    BY <1>11 DEF EndTeardown
  <2>2. \A c \in Calls : stage[c] = "waiting" => c \in Taken
    BY DEF Taken, TableInv, TableTypes
  <2>3. \A c \in Calls : stage'[c] # "waiting"
    BY <1>11, <2>2 DEF EndTeardown, MoveTo
  <2>4. QED
    BY <2>1, <2>3 DEF FuturesAfter
<1>12. ASSUME Subscribed PROVE ComingInv'
  BY <1>12 DEF Subscribed, MoveTo, connVars, futureVars, subVars, callVars
<1>13. ASSUME ClosedUnsubscribes PROVE ComingInv'
  BY <1>13
     DEF ClosedUnsubscribes, MoveToUnsubscribed, MoveTo, connVars, futureVars, subVars,
         callVars
<1>14. ASSUME NEW t \in reports, Report(t) PROVE ComingInv'
  BY <1>14 DEF Report, StartTeardown, connVars, futureVars, subVars, callVars
<1>15. ASSUME NEW c \in Calls, SubscriptionReady(c) PROVE ComingInv'
  BY <1>15
     DEF SubscriptionReady, UnchangedByCall, OnConnect, Answered, MoveTo, connVars,
         futureVars, subVars, callVars
<1>16. ASSUME NEW c \in Calls, Go(c) PROVE ComingInv'
  BY <1>16
     DEF Go, UnchangedByCall, Answered, MoveTo, connVars, futureVars, subVars, callVars
<1>17. ASSUME NEW c \in Calls, ReadTransport(c) PROVE ComingInv'
  BY <1>17
     DEF ReadTransport, UnchangedByCall, MoveTo, connVars, futureVars, subVars, callVars
<1>18. ASSUME NEW c \in Calls, Written(c) PROVE ComingInv'
  <2>1. on[c] \in open /\ on[c] # 0
    BY <1>18 DEF Written
  <2>2. mu = "free" => transport = on[c]
    BY <2>1 DEF LinkInv
  <2>3. UNCHANGED <<state, mu, futures, subFutures, sub>>
    BY <1>18 DEF Written, UnchangedByCall, futureVars, subVars
  <2>4. QED
    BY <2>1, <2>2, <2>3 DEF LinkInv
<1>19. ASSUME NEW c \in Calls, NotWritten(c) PROVE ComingInv'
  BY <1>19 DEF NotWritten, MoveTo, connVars, futureVars, subVars, callVars
<1>20. ASSUME NEW c \in Calls, SendFailed(c) PROVE ComingInv'
  BY <1>20
     DEF SendFailed, UnchangedByCall, Answered, MoveTo, connVars, futureVars, subVars,
         callVars
<1>21. ASSUME NEW c \in Calls, MalformedEnds(c) PROVE ComingInv'
  BY <1>21
     DEF MalformedEnds, StartTeardown, Answered, MoveTo, connVars, futureVars, subVars,
         callVars
<1>22. ASSUME NEW c \in Calls, FutureTimeout(c) PROVE ComingInv'
  BY <1>22
     DEF FutureTimeout, Answered, MoveTo, StillWaits, connVars, futureVars, subVars,
         callVars
<1>23. ASSUME NEW c \in Calls, SubFutureTimeout(c) PROVE ComingInv'
  BY <1>23
     DEF SubFutureTimeout, Answered, MoveTo, SubOverdueWaits, connVars, futureVars,
         subVars, callVars
<1>24. ASSUME NEW w \in watches, WatchPops(w) PROVE ComingInv'
  BY <1>24 DEF WatchPops, PopAndRun, MoveTo, connVars, futureVars, subVars, callVars
<1>25. ASSUME NEW r \in inbox, Reply(r) PROVE ComingInv'
  BY <1>25 DEF Reply, PopAndRun, MoveTo, connVars, futureVars, subVars, callVars
<1>26. ASSUME NEW r \in inbox, ReplyMalformed(r) PROVE ComingInv'
  BY <1>26 DEF ReplyMalformed, MoveTo, connVars, futureVars, subVars, callVars
<1>27. CASE UNCHANGED <<futures, mu, state, subFutures, sub, stage>>
  BY <1>27
<1>28. QED
  BY <1>1, <1>2, <1>3, <1>4, <1>5, <1>6, <1>7, <1>8, <1>9, <1>10, <1>11, <1>12, <1>13,
     <1>14, <1>15, <1>16, <1>17, <1>18, <1>19, <1>20, <1>21, <1>22, <1>23, <1>24, <1>25,
     <1>26, <1>27
     DEF Next, Application, Connection, Watcher, Network, Caller, Waiter, vars,
         ContextEnds, ConnectFails, FutureOverdue, WatchStarts, WatchOverdue, LinkFails,
         ServerReplies, ReplyLost, connVars, futureVars, subVars, callVars

\* Every step keeps ServerAccepts: a command is written after the connect command of its
\* transport, with an id other than 0.
LEMMA AcceptedStep ==
  ASSUME TableInv, LinkInv, ServerAccepts, [Next]_vars
  PROVE  ServerAccepts'
<1> USE DEF ServerAccepts
<1>1. ASSUME NEW c \in Calls, Written(c) PROVE ServerAccepts'
  <2>1. on[c] \in greeted /\ (c \in Sends \/ id[c] # 0)
    BY <1>1 DEF Written, LinkInv, TableInv, Pending
  <2>2. Refusals(c) = {}
    BY <2>1 DEF Refusals
  <2>3. QED
    BY <1>1, <2>2 DEF Written
<1>2. CASE UNCHANGED refused
  BY <1>2
<1>3. QED
  BY <1>1, <1>2
     DEF Next, Application, Connection, Watcher, Network, Caller, Waiter, vars, Connect,
         Disconnect, Close, Subscribe, Unsubscribe, Begin, ContextEnds, Opens,
         ConnectWritten, ConnectNotWritten, ConnectReplied, ConnectFails, EndTeardown,
         Subscribed, ClosedUnsubscribes, Report, SubscriptionReady, Go, ReadTransport,
         NotWritten, SendFailed, MalformedEnds, FutureOverdue, FutureTimeout,
         SubFutureTimeout, WatchStarts, WatchOverdue, WatchPops, LinkFails, ServerReplies,
         Reply, ReplyLost, ReplyMalformed, StartTeardown, MoveToUnsubscribed,
         UnchangedByCall

\* The inductive invariant.
CallsInv ==
  /\ CallsTypes /\ LinkInv /\ FutureInv /\ ResultInv /\ TableInv /\ WatchInv /\ ComingInv
  /\ ServerAccepts

\* The client starts with no calls and no transport.
LEMMA CallsInit == Init => CallsInv
<1> SUFFICES ASSUME Init PROVE CallsInv
  OBVIOUS
<1> USE CallIdAssumption, CallNamesAssumption DEF Init, Ids
<1>1. LinkTypes
  BY DEF LinkTypes
<1>2. NetTypes
  BY DEF NetTypes
<1>3. WatchTypes
  BY DEF WatchTypes
<1>4. TableTypes
  BY DEF TableTypes
<1>5. CallTypes
  BY DEF CallTypes, Stages
<1>6. FutureTypes
  BY DEF FutureTypes
<1>7. BudgetTypes
  BY DEF BudgetTypes
<1>8. LinkInv
  BY DEF LinkInv
<1>9. FutureInv
  BY DEF FutureInv
<1>10. ResultInv
  BY DEF ResultInv
<1>11. TableInv
  BY DEF TableInv, Pending
<1>12. WatchInv
  BY DEF WatchInv
<1>13. ComingInv
  BY DEF ComingInv
<1>14. ServerAccepts
  BY DEF ServerAccepts
<1>15. QED
  BY <1>1, <1>2, <1>3, <1>4, <1>5, <1>6, <1>7, <1>8, <1>9, <1>10, <1>11, <1>12, <1>13,
     <1>14
     DEF CallsInv, CallsTypes

\* Every step keeps the invariant.
LEMMA CallsStep == CallsInv /\ [Next]_vars => CallsInv'
<1> SUFFICES ASSUME CallsInv, [Next]_vars PROVE CallsInv'
  OBVIOUS
<1>1. CallsTypes'
  BY LinkTypesStep, NetTypesStep, WatchTypesStep, TableTypesStep, CallTypesStep,
     FutureTypesStep, BudgetTypesStep
     DEF CallsInv, CallsTypes
<1>2. LinkInv' /\ FutureInv' /\ ResultInv' /\ TableInv' /\ WatchInv' /\ ComingInv'
          /\ ServerAccepts'
  BY LinkStep, FutureStep, ResultStep, TableStep, WatchStep, ComingStep, AcceptedStep
     DEF CallsInv, CallsTypes
<1>3. QED
  BY <1>1, <1>2 DEF CallsInv

\* Requests, futures, goroutines and transports agree in every state.
THEOREM CallsInvariant == Spec => []CallsInv
BY CallsInit, CallsStep, PTL DEF Spec

\* Every variable of Calls keeps its type.
THEOREM CallsTypesCorrect == Spec => []TypeOK
<1>1. CallsInv => TypeOK
  BY DEF CallsInv, CallsTypes, LinkTypes, NetTypes, WatchTypes, TableTypes, CallTypes,
         FutureTypes, BudgetTypes, TypeOK, ServerAccepts
<1>2. QED
  BY <1>1, CallsInvariant, PTL

\* Whatever races - the reply, the timeout, the failed send, a teardown - a call gets at most
\* one result (popRequest, clearConnectedState, resolveConnectFutures).
THEOREM OneResult == Spec => []ResultOnce
<1>1. CallsInv => ResultOnce
  BY DEF CallsInv, ResultInv, ResultOnce
<1>2. QED
  BY <1>1, CallsInvariant, PTL

\* Disconnect, Close and Unsubscribe leave no call waiting for a connection or a subscription
\* that will not come.
THEOREM WaitsEnd == Spec => []WaitsOnlyWhileComing
<1>1. CallsInv => WaitsOnlyWhileComing
  BY DEF CallsInv, ComingInv, WaitsOnlyWhileComing, MuFree
<1>2. QED
  BY <1>1, CallsInvariant, PTL

\* No command is written to a transport before its connect command, and none but those of
\* Send without an id, over reconnects and the wrap of the ids.
THEOREM CommandsAccepted == Spec => []ServerAccepts
<1>1. CallsInv => ServerAccepts
  BY DEF CallsInv
<1>2. QED
  BY <1>1, CallsInvariant, PTL

\* A call that waits for a reply is in the table under its own id and watched by a goroutine,
\* and one that waits for a future is in its map.
THEOREM NothingForgotten == Spec => []NoCallForgotten
<1>1. CallsInv => NoCallForgotten
  BY DEF CallsInv, TableInv, WatchInv, FutureInv, NoCallForgotten
<1>2. QED
  BY <1>1, CallsInvariant, PTL
=============================================================================
