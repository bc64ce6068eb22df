-------------------------- MODULE DeliveryProofs --------------------------
(***************************************************************************)
(* Proofs about Recovery, for any bounds, with GetState and without: the   *)
(* base a delta is applied to is the publication it was made against, the  *)
(* position the client asks to recover from is the last publication the    *)
(* application has seen, and what the application is handed follows the    *)
(* stream of the server, an abstract specification.                        *)
(*                                                                         *)
(* Flow is what the client has yet to handle of its connection: the        *)
(* message its reader holds and those on the wire.  Ahead adds the next    *)
(* publication, which the server sends once there is one, if it has the    *)
(* subscription.  In Ahead a publication is always linked to the message   *)
(* before it (ChainInv): its base is the publication of that message, and  *)
(* its position follows the one the message leads to.  When the            *)
(* subscription is subscribed, the first publication of Ahead is made      *)
(* against prevData (FirstInv), unless a publication of an older reader    *)
(* has come between.  At most one subscribe is on its way or answered      *)
(* (AskInv), so that no reply stands in a live stream.                     *)
(*                                                                         *)
(* The callback queue has what the application is to be told.  It leads    *)
(* what the application has seen, entry by entry, to a position v, and v   *)
(* is what the recorded position, a subscribe on its way and a recovered   *)
(* reply all stand for (WalkInv).  A publication of an older reader leads  *)
(* to Unknown, a position that says nothing.  The entry of recovered       *)
(* publications that is delivered last moves the recorded position itself, *)
(* one publication at a time; LiveInv says that such an entry is still the *)
(* last one that is not stale, and EpochInv that no publication to come is *)
(* of an epoch before the one recorded.                                    *)
(*                                                                         *)
(* StepOf(G) is a step with GetState (G) or without, so that a lemma per   *)
(* part serves Spec and both instances that are model-checked.             *)
(*                                                                         *)
(* The server-side subscriptions of MCDelivery are an instance of          *)
(* ServerSubs, and so are those of ServerSubsProofs here: the last part    *)
(* says that they are the same, which brings its theorems over.            *)
(***************************************************************************)
EXTENDS MCDelivery, SequenceTheorems, TLAPS

\* A position: an epoch and an offset, 0 where there is none.
Positions == Nat \X Nat

\* A publication with its delta base, as in a push or in a subscribe reply.
PubRecords == [id : Positions, base : Positions]

\* The messages of the server, the commands of the client and the entries of the
\* callback queue.
Messages ==
  [type : {"reply"}, attempt : Nat, epoch : Nat, offset : Nat, pubs : Seq(PubRecords),
   recovered : BOOLEAN]
  \cup [type : {"unrecoverable"}, attempt : Nat]
  \cup [type : {"pub"}, pub : PubRecords]
  \cup [type : {"unsubscribe"}, invalidated : BOOLEAN]

\* What the client writes: a subscribe with its position, or an unsubscribe.
Commands ==
  [type : {"subscribe"}, attempt : Nat, recover : BOOLEAN, epoch : Int, offset : Nat]
  \cup [type : {"unsubscribe"}]

\* The kinds of events that the callback queue has.
Kinds == {"recovered", "unrecovered", "noPosition", "publication", "publications"}

\* An entry of the callback queue.
Events ==
  [kind : Kinds, pubs : Seq(PubRecords), reader : Nat, position : Positions, session : Nat,
   stale : BOOLEAN]

\* Types of the server's state.
ServerTypes ==
  /\ tops \in Seq(0..MaxPublished) /\ tops # <<>> /\ floor \in Nat
  /\ serverSub \in BOOLEAN /\ base \in Positions

\* Types of the connection.
LinkTypes ==
  /\ connected \in BOOLEAN /\ connection \in Nat \ {0}
  /\ commands \in Seq(Commands) /\ wire \in Seq(Messages)
  /\ held \subseteq [connection : 1..connection, msg : Messages]

\* Types of the subscription.
SubscriptionTypes ==
  /\ state \in {"unsubscribed", "subscribing", "subscribed"}
  /\ subscribeAttempt \in Nat /\ subscribedSession \in Nat
  /\ epoch \in Int /\ offset \in Nat /\ prevData \in Positions
  /\ tainted \in 0..subscribedSession

\* Types of the flags.
FlagTypes == inflight \in BOOLEAN /\ recover \in BOOLEAN /\ misdecoded \in BOOLEAN

\* Types of the callback queue and of the application.
QueueTypes ==
  /\ queue \in Seq(Events)
  /\ \A i \in 1..Len(queue) :
       queue[i].kind \in {"publication", "publications"} => queue[i].pubs # <<>>

\* Types of what the application has seen and loaded.
ApplicationTypes == seen \in Positions /\ loaded \in Positions /\ reloads \in Nat

\* The type invariant, in the parts that the provers take one at a time.
Types ==
  ServerTypes /\ LinkTypes /\ SubscriptionTypes /\ FlagTypes /\ QueueTypes /\ ApplicationTypes

------------------------------------------------------------------------------
(* What the client has yet to handle *)

\* The message the reader of the connection holds, if any, and those on the wire.
Current == {h \in held : h.connection = connection}

\* The message that the reader of the connection holds, none or one.
InHand == IF Current = {} THEN <<>> ELSE <<(CHOOSE h \in Current : TRUE).msg>>

\* All that the server has sent on this connection and the client has not handled.
Flow == InHand \o wire

\* The next publication, which the server sends if it has the subscription.
NextPub == [type |-> "pub", pub |-> [id |-> <<ServerEpoch, Top + 1>>, base |-> base]]

\* Flow, and the publication to come if the server has the subscription.
Ahead == IF serverSub THEN Append(Flow, NextPub) ELSE Flow

\* A reader has one message at a time, and waits for its events before it goes on.
ReaderInv ==
  /\ \A h, k \in held : h.connection = k.connection => h = k
  /\ \A h \in held : \A i \in 1..Len(queue) : queue[i].reader # h.connection

\* A sequence that is not empty: its length, its elements, its head and its tail, for
\* the queues of the client and of the connection.
LEMMA SeqFacts ==
  ASSUME NEW S, NEW s \in Seq(S), s # <<>>
  PROVE  /\ Len(s) \in Nat /\ Len(s) # 0 /\ \A i \in 1..Len(s) : s[i] \in S
         /\ Head(s) = s[1] /\ Head(s) \in S
         /\ Tail(s) \in Seq(S) /\ Len(Tail(s)) = Len(s) - 1
         /\ \A i \in 1..Len(Tail(s)) : Tail(s)[i] = s[i + 1]
OBVIOUS

\* An element appended to a sequence comes last and moves no other.
LEMMA AppendFacts ==
  ASSUME NEW S, NEW s \in Seq(S), NEW x \in S
  PROVE  /\ Append(s, x) \in Seq(S) /\ Len(Append(s, x)) = Len(s) + 1 /\ Len(s) \in Nat
         /\ Append(s, x)[Len(s) + 1] = x
         /\ \A i \in 1..Len(s) : Append(s, x)[i] = s[i] /\ s[i] \in S
OBVIOUS

\* The fields of a message of the server, by type.
LEMMA MessageTypes ==
  ASSUME NEW m \in Messages
  PROVE  /\ m.type \in {"reply", "unrecoverable", "pub", "unsubscribe"}
         /\ m.type = "reply" =>
              /\ m.attempt \in Nat /\ m.epoch \in Nat /\ m.offset \in Nat
              /\ m.pubs \in Seq(PubRecords) /\ m.recovered \in BOOLEAN
         /\ m.type = "unrecoverable" => m.attempt \in Nat
         /\ m.type = "pub" => m.pub \in PubRecords
         /\ m.type = "unsubscribe" => m.invalidated \in BOOLEAN
<1>1. CASE m \in [type : {"reply"}, attempt : Nat, epoch : Nat, offset : Nat,
                  pubs : Seq(PubRecords), recovered : BOOLEAN]
  BY <1>1, Zenon
<1>2. CASE m \in [type : {"unrecoverable"}, attempt : Nat]
  BY <1>2
<1>3. CASE m \in [type : {"pub"}, pub : PubRecords]
  BY <1>3
<1>4. CASE m \in [type : {"unsubscribe"}, invalidated : BOOLEAN]
  BY <1>4, Zenon
<1>5. QED
  BY <1>1, <1>2, <1>3, <1>4 DEF Messages

\* A publication has two positions: its own and that of its delta base.
LEMMA PubFields ==
  ASSUME NEW p \in PubRecords
  PROVE  /\ p.id \in Positions /\ p.base \in Positions
         /\ p.id[1] \in Nat /\ p.id[2] \in Nat /\ p.id = <<p.id[1], p.id[2]>>
BY DEF PubRecords, Positions

\* A push of a publication is a message.
LEMMA PubMessage ==
  ASSUME NEW id \in Positions, NEW b \in Positions
  PROVE  [type |-> "pub", pub |-> [id |-> id, base |-> b]] \in Messages
BY DEF Messages, PubRecords

\* The publication that the server would send next is a message.
LEMMA NextPubType ==
  ASSUME ServerTypes
  PROVE  NextPub \in Messages /\ ServerEpoch \in Nat \ {0} /\ Top \in 0..MaxPublished
<1>1. ServerEpoch \in Nat \ {0} /\ Top \in 0..MaxPublished
  <2>1. Len(tops) \in Nat /\ Len(tops) # 0
            /\ \A i \in 1..Len(tops) : tops[i] \in 0..MaxPublished
    BY SeqFacts DEF ServerTypes
  <2>2. QED
    BY <2>1 DEF ServerEpoch, Top
<1>2. <<ServerEpoch, Top + 1>> \in Positions
  BY <1>1, RecoveryBounds DEF Positions
<1>3. QED
  BY <1>1, <1>2, PubMessage DEF NextPub, ServerTypes

\* What the client has yet to handle is a sequence of messages.
LEMMA FlowType ==
  ASSUME LinkTypes
  PROVE  InHand \in Seq(Messages) /\ Flow \in Seq(Messages)
<1> USE DEF LinkTypes
<1>1. CASE Current = {}
  BY <1>1 DEF InHand, Flow
<1>2. CASE Current # {}
  <2> DEFINE k == CHOOSE h \in Current : TRUE
  <2>1. k \in Current
    BY <1>2
  <2>2. k.msg \in Messages
    BY <2>1 DEF Current
  <2> HIDE DEF k
  <2>3. InHand = <<k.msg>>
    BY <1>2 DEF InHand, k
  <2>4. QED
    BY <2>2, <2>3 DEF Flow
<1>3. QED
  BY <1>1, <1>2

\* So it is with the next publication of the server.
LEMMA AheadType ==
  ASSUME ServerTypes, LinkTypes
  PROVE  Ahead \in Seq(Messages)
BY NextPubType, FlowType DEF Ahead

\* A message in the hands of a reader has the connection it was read from.
LEMMA HeldTypes ==
  ASSUME LinkTypes, NEW h \in held
  PROVE  /\ h.msg \in Messages /\ h.connection \in Nat \ {0} /\ h.connection <= connection
         /\ h = [connection |-> h.connection, msg |-> h.msg]
BY DEF LinkTypes

\* What a step of the link does to Flow.
LEMMA FlowOfHeld ==
  ASSUME LinkTypes, ReaderInv, NEW h \in held, h.connection = connection
  PROVE  InHand = <<h.msg>>
<1>1. h \in Current
  BY DEF Current
<1>2. \A k \in Current : k = h
  BY DEF Current, ReaderInv
<1>3. (CHOOSE k \in Current : TRUE) = h
  BY <1>1, <1>2
<1>4. QED
  BY <1>1, <1>3 DEF InHand

\* What is on its way depends on the connection, its reader and its wire only.
LEMMA FlowKept ==
  ASSUME UNCHANGED <<held, connection, wire>>
  PROVE  Flow' = Flow
BY DEF Flow, InHand, Current

\* A reader that takes a message off the wire leaves Flow as it is.
LEMMA FlowTake ==
  ASSUME LinkTypes, Take
  PROVE  /\ Flow' = Flow
         /\ UNCHANGED <<server, connected, connection, commands, subscription, position,
            prevData,
                        queue, application, decoding>>
         /\ wire # <<>> /\ wire' = Tail(wire) /\ Head(wire) \in Messages
         /\ held' = held \cup {[connection |-> connection, msg |-> Head(wire)]}
         /\ ReaderFree(connection)
<1> USE DEF LinkTypes
<1>1. wire # <<>> /\ ReaderFree(connection)
      /\ held' = held \cup {[connection |-> connection, msg |-> Head(wire)]}
      /\ wire' = Tail(wire) /\ connection' = connection
  BY DEF Take
<1> DEFINE new == [connection |-> connection, msg |-> Head(wire)]
<1>2. Current = {}
  BY <1>1 DEF Current, ReaderFree
<1>3. Current' = {new}
  BY <1>1, <1>2 DEF Current
<1>4. (CHOOSE k \in {new} : TRUE) = new
  OBVIOUS
<1>5. InHand = <<>> /\ InHand' = <<new.msg>>
  BY <1>2, <1>3, <1>4 DEF InHand
<1>6. Flow = wire /\ Flow' = <<Head(wire)>> \o Tail(wire)
  BY <1>1, <1>5 DEF Flow
<1>7. QED
  BY <1>1, <1>6 DEF Take

\* Handling a message of this connection takes the first of Flow; a message of an older
\* connection takes none.
LEMMA FlowHandled ==
  ASSUME LinkTypes, ReaderInv, NEW h \in held, held' = held \ {h},
         UNCHANGED <<connection, wire>>
  PROVE  IF h.connection = connection
         THEN Flow = <<h.msg>> \o wire /\ Flow # <<>> /\ Head(Flow) = h.msg
              /\ h.msg = Flow[1] /\ Flow' = Tail(Flow)
         ELSE Flow' = Flow
<1> USE DEF LinkTypes
<1>1. ASSUME h.connection = connection
      PROVE  Flow = <<h.msg>> \o wire /\ Flow' = wire /\ h.msg \in Messages
  <2>1. Current' = {}
    BY <1>1 DEF Current, ReaderInv
  <2>2. InHand = <<h.msg>>
    BY <1>1, FlowOfHeld
  <2>3. Flow = <<h.msg>> \o wire
    BY <2>2 DEF Flow
  <2>4. Flow' = <<>> \o wire
    BY <2>1 DEF Flow, InHand
  <2>5. h.msg \in Messages
    OBVIOUS
  <2>6. QED
    BY <2>3, <2>4, <2>5
<1>2. ASSUME h.connection # connection PROVE Flow' = Flow
  <2>1. Current' = Current
    BY <1>2 DEF Current
  <2>2. QED
    BY <2>1 DEF Flow, InHand
<1>3. QED
  BY <1>1, <1>2

\* A message that the server writes is the last of Flow.
LEMMA FlowSend ==
  ASSUME LinkTypes, NEW m \in Messages, wire' = Append(wire, m), UNCHANGED <<held, connection>>
  PROVE  Flow' = Append(Flow, m)
<1>1. InHand' = InHand /\ InHand \in Seq(Messages)
  BY FlowType DEF InHand, Current
<1>2. QED
  BY <1>1 DEF Flow, LinkTypes

\* A connection that is lost takes its messages with it.
LEMMA FlowLost ==
  ASSUME LinkTypes, ConnectionLost
  PROVE  Flow' = <<>>
<1>1. connection' = connection + 1 /\ wire' = <<>> /\ held' \subseteq held
  BY DEF ConnectionLost
<1>2. Current' = {}
  BY <1>1 DEF Current, LinkTypes
<1>3. QED
  BY <1>1, <1>2 DEF Flow, InHand

\* A step of the subscription, with GetState (G) or without.
StepOf(G) == (G = HasGetState /\ [Next]_vars) \/ (G = FALSE /\ [Plain!Next]_vars)

\* The client writes a subscribe: only with a position where GetState is in use.
Sends(G) == (G = HasGetState /\ SendSubscribe) \/ (G = FALSE /\ Plain!SendSubscribe)

\* The server answers a subscribe.
Answered(G) == (G = HasGetState /\ ServerSubscribes) \/ (G = FALSE /\ Plain!ServerSubscribes)

\* The steps of the specification, with GetState or without: one case per action.
LEMMA StepCases ==
  ASSUME NEW G \in BOOLEAN, StepOf(G)
  PROVE  \/ Subscribe \/ Unsubscribe
         \/ GetState /\ G
         \/ Sends(G) \/ Take
         \/ \E h \in held : Handle(h)
         \/ Dispatcher
         \/ Answered(G) \/ ServerUnsubscribes
         \/ Server \/ ConnectionLost \/ Reconnect
         \/ UNCHANGED vars
<1>1. CASE G = HasGetState /\ [Next]_vars
  <2>1. GetState => G
    BY <1>1 DEF GetState
  <2>2. QED
    BY <1>1, <2>1 DEF Next, Application, Client, Answers, Sends, Answered
<1>2. CASE G = FALSE /\ [Plain!Next]_vars
  <2>1. ~Plain!GetState
    BY DEF Plain!GetState
  <2>2. (Plain!Subscribe => Subscribe) /\ (Plain!Unsubscribe => Unsubscribe)
    BY DEF Plain!Subscribe, Plain!Unsubscribe, Subscribe, Unsubscribe,
           Plain!ApplicationCalls, ApplicationCalls, Plain!server, Plain!link,
           Plain!position, Plain!application, Plain!decoding, server, link, position,
           application, decoding
  <2>3. /\ Plain!Take => Take
        /\ Plain!ConnectionLost => ConnectionLost
        /\ Plain!Reconnect => Reconnect
    <3>1. Plain!Take => Take
      BY DEF Plain!Take, Take, Plain!ReaderFree, ReaderFree, Plain!NoFault, NoFault,
             Plain!server, Plain!subscription, Plain!position, Plain!application,
             Plain!decoding, Plain!budget, server, subscription, position, application,
             decoding, budget
    <3>2. Plain!ConnectionLost => ConnectionLost
      BY DEF Plain!ConnectionLost, ConnectionLost, Plain!Fault, Fault, Plain!Forget,
             Forget, Plain!Nothing, Nothing, Plain!position, Plain!application,
             Plain!decoding, position, application, decoding
    <3>3. Plain!Reconnect => Reconnect
      BY DEF Plain!Reconnect, Reconnect, Plain!NoFault, NoFault, Plain!server,
             Plain!subscription, Plain!position, Plain!application, Plain!decoding,
             Plain!budget, server, subscription, position, application, decoding, budget
    <3>4. QED
      BY <3>1, <3>2, <3>3
  <2>4. ASSUME NEW h \in held, Plain!Handle(h) PROVE Handle(h)
    BY <2>4
       DEF Plain!Handle, Plain!HandleReply, Plain!HandleUnrecoverable,
           Plain!HandlePublication, Plain!HandleUnsubscribe, Handle, HandleReply,
           HandleUnrecoverable, HandlePublication, HandleUnsubscribe, Plain!Applies,
           Applies, Plain!AttemptCurrent, AttemptCurrent, Plain!TakesPosition,
           TakesPosition, Plain!Decoded, Decoded, Plain!WellBased, WellBased, Plain!Event,
           Event, Plain!PositionOfPub, PositionOfPub, Plain!EpochAfter, EpochAfter,
           Plain!NoEpoch, NoEpoch, Plain!Nothing, Nothing, Plain!Unknown, Unknown,
           Plain!InvalidatedEpoch, InvalidatedEpoch, Plain!NoFault, NoFault, Plain!budget,
           budget, Plain!server, Plain!link, Plain!position, Plain!application,
           Plain!subscription, Plain!decoding, server, link, position, application,
           subscription, decoding
  <2>5. Plain!Dispatcher => Dispatcher
    BY DEF Plain!Dispatcher, Plain!RunSubscribed, Plain!RunPublication,
           Plain!RunRecovered, Dispatcher, RunSubscribed, RunPublication, RunRecovered,
           Plain!Deliver, Deliver, Plain!Earlier, Earlier, Plain!StillInSession,
           StillInSession, Plain!PositionOfPub, PositionOfPub, Plain!EpochAfter,
           EpochAfter, Plain!NoEpoch, NoEpoch, Plain!Unknown, Unknown, Plain!NoFault,
           NoFault, Plain!budget, budget, Plain!server, Plain!link, Plain!position,
           Plain!application, Plain!subscription, Plain!decoding, server, link, position,
           application, subscription, decoding
  <2>6. (Plain!ServerUnsubscribes => ServerUnsubscribes) /\ (Plain!Server => Server)
    BY DEF Plain!ServerUnsubscribes, ServerUnsubscribes, Plain!Server, Server,
           Plain!Publish, Publish, Plain!Reset, Reset, Plain!Invalidate, Invalidate,
           Plain!HistoryLost, HistoryLost, Plain!Unsubscribed, Unsubscribed, Plain!Send,
           Send, Plain!Forget, Forget, Plain!Top, Top, Plain!ServerEpoch, ServerEpoch,
           Plain!Nothing, Nothing, Plain!Fault, Fault, Plain!NoFault, NoFault,
           Plain!budget, budget, Plain!link, Plain!position, Plain!application,
           Plain!subscription, Plain!decoding, link, position, application, subscription,
           decoding
  <2>7. UNCHANGED Plain!vars => UNCHANGED vars
    BY DEF Plain!vars, vars, Plain!server, Plain!link, Plain!position, Plain!application,
           Plain!subscription, Plain!decoding, Plain!budget, server, link, position,
           application, subscription, decoding, budget
  <2>8. QED
    BY <1>2, <2>1, <2>2, <2>3, <2>4, <2>5, <2>6, <2>7
       DEF Plain!Next, Plain!Application, Plain!Client, Plain!Answers, Sends, Answered
<1>3. QED
  BY <1>1, <1>2 DEF StepOf

\* resubscribe
LEMMA SendFacts ==
  ASSUME NEW G \in BOOLEAN, Sends(G)
  PROVE  /\ state = "subscribing" /\ connected /\ ~inflight /\ (G => recover)
         /\ inflight' = TRUE
         /\ commands' = Append(commands,
                          [type |-> "subscribe", attempt |-> subscribeAttempt,
                           recover |-> recover, epoch |-> epoch, offset |-> offset])
         /\ UNCHANGED <<server, connected, connection, wire, held, state, subscribeAttempt,
                        subscribedSession, position, prevData, queue, application, decoding>>
BY DEF Sends, SendSubscribe, Plain!SendSubscribe, Plain!server, Plain!position,
       Plain!application, Plain!decoding, server, position, application, decoding

\* The reply to a subscribe.
Replied(a, e, o, pubs, recovered) ==
  [type |-> "reply", attempt |-> a, epoch |-> e, offset |-> o, pubs |-> pubs,
   recovered |-> recovered]

\* The server's answer to a subscribe command.
LEMMA AnswerFacts ==
  ASSUME NEW G \in BOOLEAN, Answered(G)
  PROVE  LET cmd == Head(commands) IN
         /\ commands # <<>> /\ cmd.type = "subscribe" /\ commands' = Tail(commands)
         /\ UNCHANGED <<tops, floor, connected, connection, held, subscription, position,
                        prevData, queue, application, decoding>>
         /\ \/ /\ CanRecover(cmd) /\ serverSub' = TRUE
               /\ wire' = Append(wire, Replied(cmd.attempt, ServerEpoch, cmd.offset,
                                               History(cmd.offset), TRUE))
               /\ base' = IF cmd.offset = Top THEN Nothing ELSE <<ServerEpoch, Top>>
            \/ /\ ~G /\ serverSub' = TRUE /\ base' = Nothing
               /\ wire' = Append(wire, Replied(cmd.attempt, ServerEpoch, Top, <<>>, FALSE))
            \/ /\ ~G /\ serverSub' = TRUE /\ base' = Nothing
               /\ wire' = Append(wire, Replied(cmd.attempt, NoEpoch, 0, <<>>, FALSE))
            \/ /\ serverSub' = FALSE /\ base' = Nothing
               /\ wire' = Append(wire, [type |-> "unrecoverable", attempt |-> cmd.attempt])
<1>1. CASE G = HasGetState /\ ServerSubscribes
  BY <1>1, RecoveryGetState DEF ServerSubscribes, Reply, Replied, Send, Forget
<1>2. CASE G = FALSE /\ Plain!ServerSubscribes
  <2>1. (\A c : Plain!CanRecover(c) <=> CanRecover(c)) /\ (\A o : Plain!History(o) = History(o))
        /\ Plain!ServerEpoch = ServerEpoch /\ Plain!Top = Top /\ Plain!Nothing = Nothing
        /\ Plain!NoEpoch = NoEpoch
    BY DEF Plain!CanRecover, CanRecover, Plain!History, History, Plain!ServerEpoch,
           ServerEpoch, Plain!Top, Top, Plain!Nothing, Nothing, Plain!NoEpoch, NoEpoch
  <2>2. QED
    BY <1>2, <2>1
       DEF Plain!ServerSubscribes, Plain!Reply, Replied, Plain!Send, Plain!Forget,
           Plain!subscription, subscription, Plain!position, position, Plain!application,
           application, Plain!decoding, decoding
<1>3. QED
  BY <1>1, <1>2 DEF Answered

\* The events of a message.
Told(m) == IF m.recovered THEN "recovered"
           ELSE IF m.epoch = NoEpoch THEN "noPosition" ELSE "unrecovered"

\* The entry of OnSubscribed, that of the recovered publications and that of one push.
SubscribedEvent(m, n) ==
  [kind |-> Told(m), pubs |-> <<>>, reader |-> n, position |-> <<m.epoch, m.offset>>,
   session |-> 0, stale |-> FALSE]

\* The publications of a reply, delivered one by one after OnSubscribed.
RecoveredEvent(m, n, s) ==
  [kind |-> "publications", pubs |-> m.pubs, reader |-> n, position |-> Unknown,
   session |-> s, stale |-> FALSE]

\* A push; it is stale if its reader is that of an older connection.
PublicationEvent(m, n, stale) ==
  [kind |-> "publication", pubs |-> <<m.pub>>, reader |-> n, position |-> Unknown,
   session |-> 0, stale |-> stale]

\* What the handlers put in the queue are entries.
LEMMA EventTypes ==
  ASSUME NEW m \in Messages, NEW n \in Nat, NEW s \in Nat, NEW stale \in BOOLEAN
  PROVE  /\ m.type = "reply" => SubscribedEvent(m, n) \in Events
                /\ RecoveredEvent(m, n, s) \in Events
         /\ m.type = "pub" => PublicationEvent(m, n, stale) \in Events
<1>1. Unknown \in Positions
  BY DEF Unknown, Positions
<1>2. ASSUME m.type = "reply"
      PROVE  SubscribedEvent(m, n) \in Events /\ RecoveredEvent(m, n, s) \in Events
  <2>1. m.pubs \in Seq(PubRecords) /\ <<m.epoch, m.offset>> \in Positions
    BY <1>2, MessageTypes DEF Positions
  <2>2. Told(m) \in Kinds /\ "publications" \in Kinds
    BY DEF Told, Kinds
  <2>3. <<>> \in Seq(PubRecords) /\ 0 \in Nat /\ FALSE \in BOOLEAN
    OBVIOUS
  <2>4. QED
    BY <1>1, <2>1, <2>2, <2>3, Zenon DEF SubscribedEvent, RecoveredEvent, Events
<1>3. ASSUME m.type = "pub"
      PROVE  PublicationEvent(m, n, stale) \in Events
  <2>1. <<m.pub>> \in Seq(PubRecords)
    BY <1>3, MessageTypes
  <2>2. "publication" \in Kinds /\ 0 \in Nat
    BY DEF Kinds
  <2>3. QED
    BY <1>1, <2>1, <2>2, Zenon DEF PublicationEvent, Events
<1>4. QED
  BY <1>2, <1>3

\* The fields of an entry.
LEMMA EventFields ==
  ASSUME NEW e \in Events
  PROVE  /\ e.kind \in Kinds /\ e.pubs \in Seq(PubRecords) /\ e.reader \in Nat
         /\ e.position \in Positions /\ e.session \in Nat /\ e.stale \in BOOLEAN
BY Zenon DEF Events

\* An entry that carries a position, field by field.
LEMMA EventAt ==
  ASSUME NEW k, NEW pubs, NEW n, NEW v
  PROVE  [Event(k, pubs, n) EXCEPT !.position = v]
         = [kind |-> k, pubs |-> pubs, reader |-> n, position |-> v, session |-> 0,
            stale |-> FALSE]
<1> DEFINE z == 0
<1> DEFINE f == FALSE
<1> HIDE DEF z, f
<1>1. Event(k, pubs, n) = [kind |-> k, pubs |-> pubs, reader |-> n, position |-> Unknown,
                           session |-> z, stale |-> f]
  BY DEF Event, z, f
<1>2. [Event(k, pubs, n) EXCEPT !.position = v]
      = [kind |-> k, pubs |-> pubs, reader |-> n, position |-> v, session |-> z, stale |-> f]
  BY <1>1
<1>3. QED
  BY <1>2 DEF z, f

\* An entry that carries a session, field by field.
LEMMA EventOf ==
  ASSUME NEW k, NEW pubs, NEW n, NEW v
  PROVE  [Event(k, pubs, n) EXCEPT !.session = v]
         = [kind |-> k, pubs |-> pubs, reader |-> n, position |-> Unknown, session |-> v,
            stale |-> FALSE]
<1> DEFINE f == FALSE
<1> DEFINE z == 0
<1> HIDE DEF f, z
<1>1. Event(k, pubs, n) = [kind |-> k, pubs |-> pubs, reader |-> n, position |-> Unknown,
                           session |-> z, stale |-> f]
  BY DEF Event, f, z
<1>2. [Event(k, pubs, n) EXCEPT !.session = v]
      = [kind |-> k, pubs |-> pubs, reader |-> n, position |-> Unknown, session |-> v,
         stale |-> f]
  BY <1>1
<1>3. QED
  BY <1>2 DEF f

\* What handling a message does.
LEMMA ReplyFacts ==
  ASSUME NEW h \in held, HandleReply(h)
  PROVE  /\ h.msg.type = "reply"
         /\ inflight' = (inflight /\ h.connection # connection)
         /\ held' = held \ {h} /\ UNCHANGED <<server, link, subscribeAttempt, application,
            tainted>>
         /\ IF Applies(h)
            THEN /\ state' = "subscribed" /\ subscribedSession' = subscribedSession + 1
                 /\ recover' = TRUE
                 /\ IF TakesPosition(h.msg) THEN epoch' = h.msg.epoch /\ offset' = h.msg.offset
                                            ELSE UNCHANGED <<epoch, offset>>
                 /\ prevData' = Decoded(h.msg.pubs)
                 /\ misdecoded' = (misdecoded \/ ~WellBased(h.msg.pubs))
                 /\ queue' = queue \o IF h.msg.pubs = <<>>
                              THEN <<SubscribedEvent(h.msg, h.connection)>>
                              ELSE <<SubscribedEvent(h.msg, h.connection),
                                     RecoveredEvent(h.msg, h.connection,
                                     subscribedSession + 1)>>
            ELSE UNCHANGED <<state, subscribedSession, position, prevData, misdecoded, queue>>
<1>1. CASE ~Applies(h)
  BY <1>1 DEF HandleReply
<1>2. CASE Applies(h)
  <2>1. [Event(Told(h.msg), <<>>, h.connection) EXCEPT !.position = <<h.msg.epoch,
        h.msg.offset>>]
        = SubscribedEvent(h.msg, h.connection)
    BY EventAt, Zenon DEF SubscribedEvent
  <2>2. \A s : [Event("publications", h.msg.pubs, h.connection) EXCEPT !.session = s]
               = RecoveredEvent(h.msg, h.connection, s)
    BY EventOf, Zenon DEF RecoveredEvent
  <2>3. subscribedSession' = subscribedSession + 1
    BY <1>2 DEF HandleReply
  <2>4. queue' = queue \o IF h.msg.pubs = <<>>
                              THEN <<SubscribedEvent(h.msg, h.connection)>>
                              ELSE <<SubscribedEvent(h.msg, h.connection),
                                     RecoveredEvent(h.msg, h.connection,
                                     subscribedSession + 1)>>
    BY <1>2, <2>1, <2>2, <2>3 DEF HandleReply, Told
  <2>5. QED
    BY <1>2, <2>4 DEF HandleReply
<1>3. QED
  BY <1>1, <1>2

\* What handlePublication does: nothing unless subscribed; else the position and the base
\* become the publication's, and the application is to be handed it.
LEMMA PublicationFacts ==
  ASSUME NEW h \in held, HandlePublication(h)
  PROVE  /\ h.msg.type = "pub"
         /\ held' = held \ {h} /\ UNCHANGED <<server, link, subscription, recover, application>>
         /\ IF state = "subscribed"
            THEN /\ epoch' = EpochAfter(h.msg.pub.id) /\ offset' = h.msg.pub.id[2]
                 /\ prevData' = h.msg.pub.id
                 /\ tainted' = IF h.connection # connection THEN subscribedSession ELSE tainted
                 /\ misdecoded' = (misdecoded \/ (tainted' # subscribedSession
                                                    /\ ~WellBased(<<h.msg.pub>>)))
                 /\ queue' = Append(queue, PublicationEvent(h.msg, h.connection,
                                                            h.connection # connection))
            ELSE UNCHANGED <<epoch, offset, prevData, decoding, queue>>
<1>1. CASE state # "subscribed"
  BY <1>1 DEF HandlePublication
<1>2. CASE state = "subscribed"
  <2>1. \A s : [Event("publication", <<h.msg.pub>>, h.connection) EXCEPT !.stale = s]
               = PublicationEvent(h.msg, h.connection, s)
    BY DEF Event, PublicationEvent
  <2>2. Decoded(<<h.msg.pub>>) = h.msg.pub.id
    BY DEF Decoded
  <2>3. PositionOfPub(h.msg.pub.id) = <<EpochAfter(h.msg.pub.id), h.msg.pub.id[2]>>
    BY DEF PositionOfPub
  <2>4. QED
    BY <1>2, <2>1, <2>2, <2>3 DEF HandlePublication
<1>3. QED
  BY <1>1, <1>2

\* A queue without its head, or with the head's first publication delivered.
Rest(e) == [e EXCEPT !.pubs = Tail(e.pubs)]

\* An entry whose first publication has been delivered keeps its other fields.
LEMMA RestFields ==
  ASSUME NEW e \in Events, e.pubs # <<>>
  PROVE  /\ Rest(e) \in Events /\ Rest(e).pubs = Tail(e.pubs)
         /\ Rest(e).kind = e.kind /\ Rest(e).reader = e.reader /\ Rest(e).position = e.position
         /\ Rest(e).session = e.session /\ Rest(e).stale = e.stale
<1>1. Tail(e.pubs) \in Seq(PubRecords)
  BY EventFields, SeqFacts
<1>2. Rest(e) \in Events
  BY <1>1, Zenon DEF Events, Rest
<1>3. QED
  BY <1>2 DEF Rest, Events

\* What delivering a recovered publication does: in its own session it moves the position
\* and hands the publication over; in another it drops the whole entry.
LEMMA RecoveredFacts ==
  ASSUME RunRecovered
  PROVE  LET e == Head(queue)
             id == e.pubs[1].id
         IN
         /\ queue # <<>> /\ e.kind = "publications"
         /\ UNCHANGED <<server, link, held, subscription, recover, prevData, decoding, loaded,
                        reloads>>
         /\ IF StillInSession(e.session)
            THEN /\ epoch' = EpochAfter(id) /\ offset' = id[2]
                 /\ seen' = IF Earlier(id, loaded) THEN seen ELSE id
                 /\ queue' = IF Len(e.pubs) = 1 THEN Tail(queue) ELSE <<Rest(e)>> \o Tail(queue)
            ELSE queue' = Tail(queue) /\ UNCHANGED <<epoch, offset, seen>>
BY DEF RunRecovered, Deliver, PositionOfPub, Rest, application

\* The history after an offset is the publications that follow it, each made against the
\* one before and the first in full.
LEMMA HistoryType ==
  ASSUME ServerTypes, NEW o \in Nat, o <= Top
  PROVE  /\ History(o) \in Seq(PubRecords) /\ Len(History(o)) = Top - o
         /\ \A i \in 1..Top - o :
              /\ History(o)[i].id = <<ServerEpoch, o + i>>
              /\ History(o)[i].base = IF i = 1 THEN Nothing ELSE <<ServerEpoch, o + i - 1>>
<1>1. ServerEpoch \in Nat /\ Top \in Nat
  BY NextPubType, RecoveryBounds
<1>2. Top - o \in Nat
  BY <1>1
<1> DEFINE p(i) == [id |-> <<ServerEpoch, o + i>>,
                    base |-> IF i = 1 THEN Nothing ELSE <<ServerEpoch, o + i - 1>>]
<1>3. \A i \in 1..Top - o : p(i) \in PubRecords
  <2> SUFFICES ASSUME NEW i \in 1..Top - o PROVE p(i) \in PubRecords
    OBVIOUS
  <2>1. o + i \in Nat /\ o + i - 1 \in Nat
    BY <1>1
  <2>2. <<ServerEpoch, o + i>> \in Positions /\ <<ServerEpoch, o + i - 1>> \in Positions
        /\ Nothing \in Positions
    BY <1>1, <2>1 DEF Positions, Nothing
  <2>3. QED
    BY <2>2 DEF PubRecords
<1>4. History(o) = [i \in 1..Top - o |-> p(i)]
  BY DEF History
<1> HIDE DEF p
<1>5. History(o) \in Seq(PubRecords) /\ Len(History(o)) = Top - o
  BY <1>2, <1>3, <1>4
<1>6. \A i \in 1..Top - o : History(o)[i] = p(i)
  BY <1>4
<1>7. \A i \in 1..Top - o :
              /\ p(i).id = <<ServerEpoch, o + i>>
              /\ p(i).base = IF i = 1 THEN Nothing ELSE <<ServerEpoch, o + i - 1>>
  BY DEF p
<1>8. QED
  BY <1>5, <1>6, <1>7

\* A reply is a message.
LEMMA ReplyType ==
  ASSUME NEW a \in Nat, NEW e \in Nat, NEW o \in Nat, NEW pubs \in Seq(PubRecords),
         NEW r \in BOOLEAN
  PROVE  Replied(a, e, o, pubs, r) \in Messages
BY Zenon DEF Replied, Messages

\* A refusal and an unsubscribe push are messages.
LEMMA OtherMessages ==
  ASSUME NEW a \in Nat, NEW b \in BOOLEAN
  PROVE  /\ [type |-> "unrecoverable", attempt |-> a] \in Messages
         /\ [type |-> "unsubscribe", invalidated |-> b] \in Messages
<1>1. [type |-> "unrecoverable", attempt |-> a] \in [type : {"unrecoverable"}, attempt : Nat]
  OBVIOUS
<1>2. [type |-> "unsubscribe", invalidated |-> b] \in [type : {"unsubscribe"},
      invalidated : BOOLEAN]
  BY Zenon
<1>3. QED
  BY <1>1, <1>2 DEF Messages

\* The fields of a subscribe.
LEMMA CommandTypes ==
  ASSUME NEW c \in Commands, c.type = "subscribe"
  PROVE  c.attempt \in Nat /\ c.recover \in BOOLEAN /\ c.epoch \in Int /\ c.offset \in Nat
<1>1. c \in [type : {"subscribe"}, attempt : Nat, recover : BOOLEAN, epoch : Int, offset : Nat]
  BY DEF Commands
<1>2. QED
  BY <1>1, Zenon

\* What the client writes are commands.
LEMMA NewCommands ==
  ASSUME SubscriptionTypes, FlagTypes
  PROVE  /\ [type |-> "subscribe", attempt |-> subscribeAttempt, recover |-> recover,
             epoch |-> epoch, offset |-> offset] \in Commands
         /\ [type |-> "unsubscribe"] \in Commands
<1>1. subscribeAttempt \in Nat /\ recover \in BOOLEAN /\ epoch \in Int /\ offset \in Nat
  BY DEF SubscriptionTypes, FlagTypes
<1>2. [type |-> "subscribe", attempt |-> subscribeAttempt, recover |-> recover,
             epoch |-> epoch, offset |-> offset] \in
      [type : {"subscribe"}, attempt : Nat, recover : BOOLEAN, epoch : Int, offset : Nat]
  BY <1>1, Zenon
<1>3. QED
  BY <1>2 DEF Commands

\* The server's answer, with the types of what it is made of.
LEMMA AnswerCases ==
  ASSUME NEW G \in BOOLEAN, Answered(G), ServerTypes, LinkTypes
  PROVE  LET cmd == Head(commands) IN
         /\ commands # <<>> /\ cmd \in Commands /\ cmd.type = "subscribe"
         /\ commands' = Tail(commands)
         /\ UNCHANGED <<tops, floor, connected, connection, held, subscription, position,
                        prevData, queue, application, decoding>>
         /\ cmd.attempt \in Nat /\ cmd.recover \in BOOLEAN /\ cmd.epoch \in Int
         /\ cmd.offset \in Nat
         /\ \E m \in Messages :
              /\ wire' = Append(wire, m)
              /\ \/ /\ cmd.recover /\ cmd.epoch \in {NoEpoch, ServerEpoch} /\ cmd.offset <= Top
                    /\ m = Replied(cmd.attempt, ServerEpoch, cmd.offset,
                       History(cmd.offset), TRUE)
                    /\ serverSub' = TRUE
                    /\ base' = IF cmd.offset = Top THEN Nothing ELSE <<ServerEpoch, Top>>
                 \/ /\ ~G /\ serverSub' = TRUE /\ base' = Nothing
                    /\ m = Replied(cmd.attempt, ServerEpoch, Top, <<>>, FALSE)
                 \/ /\ ~G /\ serverSub' = TRUE /\ base' = Nothing
                    /\ m = Replied(cmd.attempt, NoEpoch, 0, <<>>, FALSE)
                 \/ /\ serverSub' = FALSE /\ base' = Nothing
                    /\ m = [type |-> "unrecoverable", attempt |-> cmd.attempt]
<1> DEFINE cmd == Head(commands)
<1>1. commands # <<>> /\ cmd.type = "subscribe"
  BY AnswerFacts
<1>2. cmd \in Commands
  BY <1>1, SeqFacts DEF LinkTypes
<1>3. cmd.attempt \in Nat /\ cmd.recover \in BOOLEAN /\ cmd.epoch \in Int /\ cmd.offset \in Nat
  BY <1>1, <1>2, CommandTypes
<1>4. ServerEpoch \in Nat /\ Top \in Nat
  BY NextPubType, RecoveryBounds
<1>5. CanRecover(cmd) => cmd.recover /\ cmd.epoch \in {NoEpoch, ServerEpoch}
          /\ cmd.offset <= Top
  BY <1>3, <1>4 DEF CanRecover, ServerTypes
<1>6. CanRecover(cmd) => Replied(cmd.attempt, ServerEpoch, cmd.offset, History(cmd.offset),
      TRUE) \in Messages
  BY <1>3, <1>4, <1>5, HistoryType, ReplyType
<1>7. /\ Replied(cmd.attempt, ServerEpoch, Top, <<>>, FALSE) \in Messages
      /\ Replied(cmd.attempt, NoEpoch, 0, <<>>, FALSE) \in Messages
      /\ [type |-> "unrecoverable", attempt |-> cmd.attempt] \in Messages
  <2>1. <<>> \in Seq(PubRecords) /\ NoEpoch \in Nat
    BY DEF NoEpoch
  <2>2. QED
    BY <1>3, <1>4, <2>1, ReplyType, OtherMessages
<1> HIDE DEF cmd
<1>8. QED
  BY <1>1, <1>2, <1>3, <1>5, <1>6, <1>7, AnswerFacts DEF cmd

\* Which actions change what.
LEMMA Frames ==
  ASSUME NEW G \in BOOLEAN, StepOf(G)
  PROVE  /\ UNCHANGED <<tops, floor>> \/ Publish \/ Reset \/ HistoryLost
         /\ \/ UNCHANGED <<serverSub, base>>
            \/ Answered(G) \/ ServerUnsubscribes \/ Publish \/ Reset \/ Invalidate
                   \/ ConnectionLost
         /\ UNCHANGED connection \/ ConnectionLost
         /\ UNCHANGED connected \/ ConnectionLost \/ Reconnect
         /\ \/ UNCHANGED commands \/ Unsubscribe \/ Sends(G) \/ Answered(G)
                   \/ ServerUnsubscribes
            \/ ConnectionLost
         /\ \/ UNCHANGED wire \/ Take \/ Answered(G) \/ Publish \/ Reset \/ Invalidate
            \/ ConnectionLost
         /\ UNCHANGED held \/ Take \/ (\E h \in held : Handle(h)) \/ ConnectionLost
         /\ \/ UNCHANGED <<state, subscribeAttempt, subscribedSession>>
            \/ Subscribe \/ Unsubscribe \/ ConnectionLost \/ \E h \in held : Handle(h)
         /\ UNCHANGED inflight \/ Sends(G) \/ ConnectionLost \/ \E h \in held : Handle(h)
         /\ UNCHANGED <<recover>> \/ (GetState /\ G) \/ \E h \in held : Handle(h)
         /\ UNCHANGED <<epoch, offset>> \/ (GetState
                /\ G) \/ RunRecovered \/ \E h \in held : Handle(h)
         /\ UNCHANGED <<prevData, tainted, misdecoded>> \/ \E h \in held : Handle(h)
         /\ UNCHANGED queue \/ Dispatcher \/ \E h \in held : Handle(h)
         /\ UNCHANGED <<seen, reloads>> \/ Dispatcher \/ (GetState /\ G)
         /\ UNCHANGED loaded \/ (GetState /\ G)
<1> USE DEF server, link, subscription, position, application, decoding, budget
<1>1. CASE Subscribe \/ Unsubscribe
  BY <1>1 DEF Subscribe, Unsubscribe
<1>2. CASE GetState /\ G
  BY <1>2 DEF GetState
<1>3. CASE Sends(G)
  BY <1>3, SendFacts
<1>4. CASE Take \/ ConnectionLost \/ Reconnect
  BY <1>4 DEF Take, ConnectionLost, Reconnect
<1>5. ASSUME NEW h \in held, Handle(h)
      PROVE  UNCHANGED <<server, link, seen, reloads, loaded>>
  BY <1>5
     DEF Handle, HandleReply, HandleUnrecoverable, HandlePublication, HandleUnsubscribe
<1>6. CASE Dispatcher
  <2>1. UNCHANGED <<server, link, held, subscription, recover, prevData, decoding, loaded>>
    BY <1>6 DEF Dispatcher, RunSubscribed, RunPublication, RunRecovered, Deliver
  <2>2. UNCHANGED <<epoch, offset>> \/ RunRecovered
    BY <1>6 DEF Dispatcher, RunSubscribed, RunPublication
  <2>3. QED
    BY <1>6, <2>1, <2>2
<1>7. CASE Answered(G)
  BY <1>7, AnswerFacts
<1>8. CASE ServerUnsubscribes \/ Server
  BY <1>8 DEF ServerUnsubscribes, Server, Publish, Reset, Invalidate, HistoryLost
<1>9. CASE UNCHANGED vars
  BY <1>9 DEF vars
<1>10. QED
  BY <1>1, <1>2, <1>3, <1>4, <1>5, <1>6, <1>7, <1>8, <1>9, StepCases

\* A step keeps the types of the server's state.
LEMMA ServerTypesStep ==
  ASSUME NEW G \in BOOLEAN, StepOf(G), Types
  PROVE  ServerTypes'
<1> USE DEF Types
<1>1. ServerEpoch \in Nat \ {0} /\ Top \in 0..MaxPublished /\ Top \in Nat
          /\ MaxPublished \in Nat
  BY NextPubType, RecoveryBounds
<1>2. Nothing \in Positions /\ <<ServerEpoch, Top>> \in Positions
      /\ <<ServerEpoch, Top + 1>> \in Positions
  BY <1>1 DEF Positions, Nothing
<1>3. CASE Publish
  <2>1. Top + 1 \in 0..MaxPublished
    BY <1>1, <1>3 DEF Publish
  <2>2. tops' = [tops EXCEPT ![ServerEpoch] = Top + 1]
    BY <1>3 DEF Publish
  <2>3. tops' \in Seq(0..MaxPublished) /\ Len(tops') = Len(tops)
    BY <1>1, <2>1, <2>2 DEF ServerTypes, ServerEpoch
  <2>4. tops' # <<>>
    BY <1>1, <2>3 DEF ServerEpoch
  <2>5. floor' \in Nat /\ serverSub' \in BOOLEAN /\ base' \in Positions
    BY <1>2, <1>3 DEF Publish, ServerTypes
  <2>6. QED
    BY <2>3, <2>4, <2>5 DEF ServerTypes
<1>4. CASE Reset
  <2>1. tops' = Append(tops, 0) /\ floor' = 0 /\ serverSub' \in BOOLEAN /\ base' \in Positions
    BY <1>2, <1>4 DEF Reset, Unsubscribed, Forget, ServerTypes
  <2>2. 0 \in 0..MaxPublished
    BY <1>1
  <2>3. tops' \in Seq(0..MaxPublished) /\ tops' # <<>>
    BY <2>1, <2>2 DEF ServerTypes
  <2>4. QED
    BY <2>1, <2>3 DEF ServerTypes
<1>5. CASE Invalidate \/ ServerUnsubscribes \/ HistoryLost \/ ConnectionLost
  BY <1>1, <1>2, <1>5 DEF Invalidate, ServerUnsubscribes, HistoryLost, ConnectionLost,
     Unsubscribed, Forget, ServerTypes
<1>6. CASE Answered(G)
  <2>1. UNCHANGED <<tops, floor>> /\ serverSub' \in BOOLEAN
        /\ base' \in {Nothing, <<ServerEpoch, Top>>}
    BY <1>6, AnswerFacts
  <2>2. QED
    BY <1>2, <2>1 DEF ServerTypes
<1>7. CASE UNCHANGED <<tops, floor, serverSub, base>>
  BY <1>7 DEF ServerTypes
<1>8. QED
  BY <1>3, <1>4, <1>5, <1>6, <1>7, Frames

\* A reset of the stream, or an invalidation, ends the subscription that the server has,
\* and tells the client so.
LEMMA UnsubscribedFacts ==
  ASSUME Types, Reset \/ Invalidate
  PROVE  /\ UNCHANGED <<connected, connection, commands, held, subscription, position, prevData,
                        queue, application, decoding>>
         /\ IF serverSub
            THEN \E m \in Messages :
                   m.type = "unsubscribe" /\ wire' = Append(wire, m)
                     /\ serverSub' = FALSE /\ base' = Nothing
            ELSE UNCHANGED <<wire, serverSub, base>>
<1>1. ASSUME NEW b \in BOOLEAN, Unsubscribed(b), serverSub
      PROVE  \E m \in Messages :
               m.type = "unsubscribe" /\ wire' = Append(wire, m)
                 /\ serverSub' = FALSE /\ base' = Nothing
  <2> DEFINE m == [type |-> "unsubscribe", invalidated |-> b]
  <2>1. m \in Messages /\ m.type = "unsubscribe"
    BY OtherMessages
  <2>2. wire' = Append(wire, m) /\ serverSub' = FALSE /\ base' = Nothing
    BY <1>1 DEF Unsubscribed, Send, Forget
  <2>3. QED
    BY <2>1, <2>2
<1>2. \E b \in BOOLEAN : Unsubscribed(b)
  BY DEF Reset, Invalidate
<1>3. UNCHANGED <<connected, connection, commands, held, subscription, position, prevData,
                        queue, application, decoding>>
  BY DEF Reset, Invalidate
<1>4. CASE serverSub
  BY <1>1, <1>2, <1>3, <1>4
<1>5. CASE ~serverSub
  BY <1>2, <1>3, <1>5 DEF Unsubscribed
<1>6. QED
  BY <1>4, <1>5

\* A step keeps the types of the connection.
LEMMA LinkTypesStep ==
  ASSUME NEW G \in BOOLEAN, StepOf(G), Types
  PROVE  LinkTypes'
<1> USE DEF Types
<1>1. CASE Publish
  <2>1. wire' \in Seq(Messages)
    <3>1. wire' = Append(wire, NextPub) \/ wire' = wire
      BY <1>1 DEF Publish, Send, NextPub
    <3>2. wire \in Seq(Messages) /\ NextPub \in Messages
      BY NextPubType DEF LinkTypes
    <3>3. QED
      BY <3>1, <3>2, AppendFacts
  <2>2. QED
    BY <1>1, <2>1 DEF Publish, LinkTypes
<1>2. CASE Reset \/ Invalidate
  <2>1. wire' \in Seq(Messages)
    <3>1. wire \in Seq(Messages)
              /\ (wire' = wire \/ \E m \in Messages : wire' = Append(wire, m))
      BY <1>2, UnsubscribedFacts DEF LinkTypes
    <3>2. QED
      BY <3>1, AppendFacts
  <2>2. QED
    BY <1>2, <2>1, UnsubscribedFacts DEF LinkTypes
<1>3. CASE Answered(G)
  <2>1. wire' \in Seq(Messages) /\ commands' \in Seq(Commands)
    <3>1. /\ wire \in Seq(Messages) /\ commands \in Seq(Commands) /\ commands # <<>>
          /\ commands' = Tail(commands) /\ \E m \in Messages : wire' = Append(wire, m)
      <4>1. \E m \in Messages : wire' = Append(wire, m)
        BY <1>3, AnswerCases
      <4>2. QED
        BY <1>3, <4>1, AnswerFacts DEF LinkTypes
    <3>2. QED
      BY <3>1, AppendFacts, SeqFacts
  <2>2. QED
    BY <1>3, <2>1, AnswerFacts DEF LinkTypes
<1>4. CASE Take
  <2>1. wire' \in Seq(Messages)
    <3>1. wire \in Seq(Messages) /\ wire # <<>> /\ wire' = Tail(wire)
      BY <1>4, FlowTake DEF LinkTypes
    <3>2. QED
      BY <3>1, SeqFacts
  <2>2. connection \in 1..connection /\ Head(wire) \in Messages
    BY <1>4, FlowTake DEF LinkTypes
  <2>3. [connection |-> connection, msg |-> Head(wire)] \in [connection : 1..connection,
        msg : Messages]
    BY <2>2
  <2>4. QED
    BY <1>4, <2>1, <2>3, FlowTake DEF LinkTypes
<1>5. CASE ConnectionLost
  <2>1. /\ connected' \in BOOLEAN /\ connection' = connection + 1 /\ commands' = <<>>
               /\ wire' = <<>>
        /\ held' \subseteq held
    BY <1>5 DEF ConnectionLost
  <2>2. connection' \in Nat \ {0} /\ 1..connection \subseteq 1..connection'
    BY <2>1 DEF LinkTypes
  <2>3. [connection : 1..connection,
        msg : Messages] \subseteq [connection : 1..connection', msg : Messages]
    BY <2>2
  <2>4. held' \subseteq [connection : 1..connection', msg : Messages]
    BY <2>1, <2>3 DEF LinkTypes
  <2>5. QED
    BY <2>1, <2>2, <2>4 DEF LinkTypes
<1>6. CASE Sends(G)
  <2>1. commands' \in Seq(Commands)
    <3>1. commands \in Seq(Commands) /\ \E c \in Commands : commands' = Append(commands, c)
      BY <1>6, SendFacts, NewCommands DEF LinkTypes
    <3>2. QED
      BY <3>1, AppendFacts
  <2>2. QED
    BY <1>6, <2>1, SendFacts DEF LinkTypes
<1>7. CASE Unsubscribe
  <2>1. commands' \in Seq(Commands)
    BY <1>7, NewCommands DEF LinkTypes, Unsubscribe
  <2>2. QED
    BY <1>7, <2>1 DEF LinkTypes, Unsubscribe
<1>8. CASE ServerUnsubscribes
  <2>1. commands' \in Seq(Commands)
    BY <1>8 DEF LinkTypes, ServerUnsubscribes
  <2>2. QED
    BY <1>8, <2>1 DEF LinkTypes, ServerUnsubscribes
<1>9. ASSUME NEW h \in held, Handle(h) PROVE LinkTypes'
  <2>1. held' \subseteq held /\ UNCHANGED link
    BY <1>9
       DEF Handle, HandleReply, HandleUnrecoverable, HandlePublication, HandleUnsubscribe
  <2>2. QED
    BY <2>1 DEF LinkTypes, link
<1>10. CASE Reconnect
  BY <1>10 DEF Reconnect, LinkTypes
<1>11. CASE UNCHANGED <<connected, connection, commands, wire, held>>
  BY <1>11 DEF LinkTypes
<1>12. QED
  BY <1>1, <1>2, <1>3, <1>4, <1>5, <1>6, <1>7, <1>8, <1>9, <1>10, <1>11, Frames

\* Each publication, full or decoded, is the base of the next delta.
LEMMA DecodedType ==
  ASSUME SubscriptionTypes, NEW pubs \in Seq(PubRecords)
  PROVE  Decoded(pubs) \in Positions
<1>1. CASE pubs = <<>>
  BY <1>1 DEF Decoded, SubscriptionTypes
<1>2. CASE pubs # <<>>
  <2>1. pubs[Len(pubs)] \in PubRecords
    BY <1>2
  <2>2. QED
    BY <1>2, <2>1 DEF Decoded, PubRecords
<1>3. QED
  BY <1>1, <1>2

\* A step keeps the types of the subscription.
LEMMA SubscriptionTypesStep ==
  ASSUME NEW G \in BOOLEAN, StepOf(G), Types
  PROVE  SubscriptionTypes'
<1> USE DEF Types
<1>1. ServerEpoch \in Nat \ {0} /\ Top \in Nat
  BY NextPubType, RecoveryBounds
<1>2. \A id \in Positions : EpochAfter(id) \in Int /\ id[2] \in Nat
  BY DEF EpochAfter, Positions, SubscriptionTypes
<1>3. CASE GetState /\ G
  BY <1>1, <1>3 DEF GetState, SubscriptionTypes, subscription, decoding
<1>4. CASE Subscribe \/ Unsubscribe \/ ConnectionLost
  BY <1>4
     DEF Subscribe, Unsubscribe, ConnectionLost, SubscriptionTypes, position, decoding
<1>5. ASSUME RunRecovered
      PROVE  SubscriptionTypes'
  <2>1. Head(queue) \in Events /\ Head(queue) = queue[1] /\ 1 \in 1..Len(queue)
        /\ queue[1].kind = "publications"
    BY <1>5, RecoveredFacts, SeqFacts DEF QueueTypes
  <2>2. Head(queue).pubs \in Seq(PubRecords) /\ Head(queue).pubs # <<>>
    BY <2>1, EventFields DEF QueueTypes
  <2>3. Head(queue).pubs[1].id \in Positions
    <3>1. Head(queue).pubs[1] \in PubRecords
      BY <2>2
    <3>2. QED
      BY <3>1, PubFields
  <2>4. epoch' \in Int /\ offset' \in Nat
    BY <1>2, <1>5, <2>3, RecoveredFacts DEF SubscriptionTypes
  <2>5. QED
    BY <1>5, <2>4, RecoveredFacts DEF SubscriptionTypes, subscription, decoding
<1>6. ASSUME NEW h \in held, HandleReply(h) PROVE SubscriptionTypes'
  <2>1. h.msg \in Messages /\ h.msg.type = "reply"
    BY <1>6, ReplyFacts DEF LinkTypes
  <2>2. h.msg.epoch \in Nat /\ h.msg.offset \in Nat /\ Decoded(h.msg.pubs) \in Positions
    BY <2>1, MessageTypes, DecodedType
  <2>3. CASE Applies(h)
    <3>1. /\ state' = "subscribed" /\ subscribedSession' = subscribedSession + 1
          /\ UNCHANGED <<subscribeAttempt, tainted>>
          /\ epoch' \in {epoch, h.msg.epoch} /\ offset' \in {offset, h.msg.offset}
          /\ prevData' = Decoded(h.msg.pubs)
      BY <1>6, <2>3, ReplyFacts
    <3>2. subscribedSession \in Nat /\ 0..subscribedSession \subseteq 0..(subscribedSession + 1)
      BY DEF SubscriptionTypes
    <3>3. QED
      BY <2>2, <3>1, <3>2 DEF SubscriptionTypes
  <2>4. CASE ~Applies(h)
    BY <1>6, <2>4, ReplyFacts DEF SubscriptionTypes, position
  <2>5. QED
    BY <2>3, <2>4
<1>7. ASSUME NEW h \in held, HandlePublication(h) PROVE SubscriptionTypes'
  <2>1. h.msg \in Messages /\ h.msg.type = "pub"
    BY <1>7, PublicationFacts DEF LinkTypes
  <2>2. h.msg.pub.id \in Positions
    BY <2>1, MessageTypes DEF PubRecords
  <2>3. /\ UNCHANGED <<state, subscribeAttempt, subscribedSession>>
        /\ epoch' \in {epoch, EpochAfter(h.msg.pub.id)}
        /\ offset' \in {offset, h.msg.pub.id[2]}
        /\ prevData' \in {prevData, h.msg.pub.id}
        /\ tainted' \in {tainted, subscribedSession}
    BY <1>7, PublicationFacts DEF subscription, decoding
  <2>4. QED
    BY <1>2, <2>2, <2>3 DEF SubscriptionTypes
<1>8. ASSUME NEW h \in held, HandleUnrecoverable(h) \/ HandleUnsubscribe(h)
      PROVE SubscriptionTypes'
  <2>1. Nothing \in Positions /\ NoEpoch \in Int /\ InvalidatedEpoch \in Int
    BY DEF Nothing, Positions, NoEpoch, InvalidatedEpoch
  <2>2. QED
    BY <1>8, <2>1
       DEF HandleUnrecoverable, HandleUnsubscribe, SubscriptionTypes, decoding, position
<1>9. CASE UNCHANGED <<state, subscribeAttempt, subscribedSession, epoch, offset, prevData,
                       tainted>>
  BY <1>9 DEF SubscriptionTypes
<1>10. QED
  BY <1>3, <1>4, <1>5, <1>6, <1>7, <1>8, <1>9, Frames DEF Handle

\* A step keeps the flags Boolean.
LEMMA FlagTypesStep ==
  ASSUME NEW G \in BOOLEAN, StepOf(G), Types
  PROVE  FlagTypes'
<1> USE DEF Types
<1>1. CASE GetState /\ G
  BY <1>1, Zenon DEF GetState, FlagTypes, subscription, decoding
<1>2. CASE Sends(G)
  BY <1>2, SendFacts, Zenon DEF FlagTypes, position, decoding
<1>3. CASE ConnectionLost
  BY <1>3, Zenon DEF ConnectionLost, FlagTypes, position, decoding
<1>4. ASSUME NEW h \in held, HandleReply(h) PROVE FlagTypes'
  <2>1. inflight' \in BOOLEAN
    BY <1>4, Zenon DEF HandleReply, FlagTypes
  <2>2. recover' \in BOOLEAN
    BY <1>4, Zenon DEF HandleReply, FlagTypes, position
  <2>3. misdecoded' \in BOOLEAN
    BY <1>4, Zenon DEF HandleReply, FlagTypes
  <2>4. QED
    BY <2>1, <2>2, <2>3, Zenon DEF FlagTypes
<1>5. ASSUME NEW h \in held, HandleUnrecoverable(h) PROVE FlagTypes'
  BY <1>5, Zenon DEF HandleUnrecoverable, FlagTypes, position, decoding
<1>6. ASSUME NEW h \in held, HandlePublication(h) PROVE FlagTypes'
  <2>1. inflight' = inflight /\ recover' = recover
    BY <1>6 DEF HandlePublication, subscription
  <2>2. misdecoded' \in BOOLEAN
    BY <1>6, Zenon DEF HandlePublication, FlagTypes, decoding
  <2>3. QED
    BY <2>1, <2>2, Zenon DEF FlagTypes
<1>7. ASSUME NEW h \in held, HandleUnsubscribe(h) PROVE FlagTypes'
  BY <1>7, Zenon DEF HandleUnsubscribe, FlagTypes, position, decoding
<1>8. CASE UNCHANGED <<inflight, recover, misdecoded>>
  BY <1>8 DEF FlagTypes
<1>9. QED
  BY <1>1, <1>2, <1>3, <1>4, <1>5, <1>6, <1>7, <1>8, Frames DEF Handle

\* A run of the dispatcher takes the head of the queue, or its first publication.
LEMMA DispatcherFacts ==
  ASSUME Types, Dispatcher
  PROVE  /\ queue # <<>>
         /\ \/ queue' = Tail(queue)
            \/ /\ Len(Head(queue).pubs) > 1
               /\ queue' = <<Rest(Head(queue))>> \o Tail(queue)
<1> USE DEF Types
<1>1. ASSUME RunSubscribed \/ RunPublication
      PROVE  queue # <<>> /\ queue' = Tail(queue)
  BY <1>1 DEF RunSubscribed, RunPublication
<1>2. ASSUME RunRecovered
      PROVE  /\ queue # <<>>
             /\ \/ queue' = Tail(queue)
                \/ /\ Len(Head(queue).pubs) > 1
                   /\ queue' = <<Rest(Head(queue))>> \o Tail(queue)
  <2>1. queue # <<>> /\ Head(queue) = queue[1] /\ 1 \in 1..Len(queue) /\ Head(queue) \in Events
        /\ queue[1].kind = "publications"
    BY <1>2, RecoveredFacts, SeqFacts DEF QueueTypes
  <2>2. Len(Head(queue).pubs) \in Nat \ {0}
    BY <2>1, EventFields, SeqFacts DEF QueueTypes
  <2>3. Len(Head(queue).pubs) = 1 \/ Len(Head(queue).pubs) > 1
    <3>1. \A n \in Nat \ {0} : n = 1 \/ n > 1
      OBVIOUS
    <3>2. QED
      BY <2>2, <3>1
  <2>4. \/ queue' = Tail(queue)
        \/ Len(Head(queue).pubs) # 1 /\ queue' = <<Rest(Head(queue))>> \o Tail(queue)
    BY <1>2, RecoveredFacts
  <2>5. QED
    BY <2>1, <2>3, <2>4
<1>3. QED
  BY <1>1, <1>2 DEF Dispatcher

\* What a step does to the queue.
LEMMA QueueChanges ==
  ASSUME NEW G \in BOOLEAN, StepOf(G), Types
  PROVE  \/ UNCHANGED queue
         \/ \E e \in Events :
              /\ e.kind \in {"publication", "publications"} => e.pubs # <<>>
              /\ queue' = Append(queue, e)
         \/ \E e, f \in Events :
              /\ e.kind \notin {"publication", "publications"} /\ f.pubs # <<>>
              /\ queue' = Append(Append(queue, e), f)
         \/ queue # <<>> /\ queue' = Tail(queue)
         \/ /\ queue # <<>> /\ Len(Head(queue).pubs) > 1
            /\ queue' = <<Rest(Head(queue))>> \o Tail(queue)
<1> USE DEF Types
<1>1. ASSUME NEW h \in held, HandleReply(h), Applies(h)
      PROVE  \E e, f \in Events :
               /\ e.kind \notin {"publication", "publications"}
               /\ \/ queue' = Append(queue, e)
                  \/ f.pubs # <<>> /\ queue' = Append(Append(queue, e), f)
  <2> DEFINE e == SubscribedEvent(h.msg, h.connection)
             f == RecoveredEvent(h.msg, h.connection, subscribedSession + 1)
  <2>1. h.msg \in Messages /\ h.msg.type = "reply" /\ h.connection \in Nat
        /\ subscribedSession + 1 \in Nat
    <3>1. h.msg.type = "reply"
      BY <1>1 DEF HandleReply
    <3>2. subscribedSession + 1 \in Nat
      BY DEF SubscriptionTypes
    <3>3. QED
      BY <3>1, <3>2, HeldTypes
  <2>2. e \in Events /\ f \in Events
    BY <2>1, EventTypes
  <2>3. e.kind \notin {"publication", "publications"} /\ f.pubs = h.msg.pubs
    BY DEF SubscribedEvent, RecoveredEvent, Told
  <2>4. queue \in Seq(Events)
    BY DEF QueueTypes
  <2>5. queue' = queue \o IF h.msg.pubs = <<>> THEN <<e>> ELSE <<e, f>>
    BY <1>1, ReplyFacts
  <2> HIDE DEF e, f
  <2>6. queue' = Append(queue, e) \/ (h.msg.pubs # <<>> /\ queue' = Append(Append(queue, e), f))
    BY <2>2, <2>4, <2>5
  <2>7. QED
    BY <2>2, <2>3, <2>6
<1>2. ASSUME NEW h \in held, HandlePublication(h), state = "subscribed"
      PROVE  \E e \in Events : e.pubs # <<>> /\ queue' = Append(queue, e)
  <2> DEFINE e == PublicationEvent(h.msg, h.connection, h.connection # connection)
  <2>1. h.msg \in Messages /\ h.msg.type = "pub" /\ h.connection \in Nat
    BY <1>2, PublicationFacts, HeldTypes
  <2>2. e \in Events
    BY <2>1, EventTypes
  <2>3. e.pubs = <<h.msg.pub>> /\ <<h.msg.pub>> # <<>>
    BY DEF PublicationEvent
  <2>4. queue' = Append(queue, e)
    BY <1>2, PublicationFacts
  <2>5. QED
    BY <2>2, <2>3, <2>4
<1>3. CASE \E h \in held : Handle(h)
  <2>1. PICK h \in held : Handle(h)
    BY <1>3
  <2>2. CASE HandleUnrecoverable(h) \/ HandleUnsubscribe(h)
    BY <2>2 DEF HandleUnrecoverable, HandleUnsubscribe
  <2>3. CASE HandleReply(h) /\ ~Applies(h)
    BY <2>3, ReplyFacts
  <2>4. CASE HandlePublication(h) /\ state # "subscribed"
    BY <2>4, PublicationFacts
  <2>5. QED
    BY <1>1, <1>2, <2>1, <2>2, <2>3, <2>4 DEF Handle
<1>4. CASE Dispatcher
  BY <1>4, DispatcherFacts
<1>5. UNCHANGED queue \/ Dispatcher \/ \E h \in held : Handle(h)
  BY Frames
<1>6. QED
  BY <1>3, <1>4, <1>5

\* A step keeps the types of the callback queue.
LEMMA QueueTypesStep ==
  ASSUME NEW G \in BOOLEAN, StepOf(G), Types
  PROVE  QueueTypes'
<1> USE DEF Types
<1> DEFINE Ok(e) == e.kind \in {"publication", "publications"} => e.pubs # <<>>
<1>1. queue \in Seq(Events) /\ \A i \in 1..Len(queue) : Ok(queue[i])
  BY DEF QueueTypes
<1>2. SUFFICES queue' \in Seq(Events) /\ \A i \in 1..Len(queue') : Ok(queue'[i])
  BY DEF QueueTypes
<1> HIDE DEF Ok
<1>3. ASSUME NEW q \in Seq(Events), \A i \in 1..Len(q) : Ok(q[i]), NEW e \in Events, Ok(e)
      PROVE  Append(q, e) \in Seq(Events) /\ \A i \in 1..Len(Append(q, e)) : Ok(Append(q, e)[i])
  BY <1>3, AppendFacts
<1>4. CASE \E e \in Events : Ok(e) /\ queue' = Append(queue, e)
  BY <1>1, <1>3, <1>4
<1>5. CASE \E e, f \in Events : Ok(e) /\ Ok(f) /\ queue' = Append(Append(queue, e), f)
  BY <1>1, <1>3, <1>5
<1>6. CASE queue # <<>> /\ queue' = Tail(queue)
  BY <1>1, <1>6, SeqFacts
<1>7. CASE queue # <<>> /\ Len(Head(queue).pubs) > 1
          /\ queue' = <<Rest(Head(queue))>> \o Tail(queue)
  <2>1. Head(queue) \in Events /\ Tail(queue) \in Seq(Events)
        /\ \A i \in 1..Len(Tail(queue)) : Ok(Tail(queue)[i])
    BY <1>1, <1>7, SeqFacts
  <2>2. Head(queue).pubs \in Seq(PubRecords) /\ Head(queue).pubs # <<>>
    BY <1>7, <2>1, EventFields
  <2>3. Rest(Head(queue)) \in Events /\ Ok(Rest(Head(queue)))
    <3>1. Tail(Head(queue).pubs) # <<>>
      <4>1. Len(Tail(Head(queue).pubs)) = Len(Head(queue).pubs) - 1
            /\ Len(Head(queue).pubs) \in Nat
        BY <2>2, SeqFacts
      <4>2. \A n \in Nat : n > 1 => n - 1 # 0
        OBVIOUS
      <4>3. Len(Tail(Head(queue).pubs)) # 0
        BY <1>7, <4>1, <4>2
      <4>4. Len(<<>>) = 0
        OBVIOUS
      <4>5. QED
        BY <4>3, <4>4, Zenon
    <3>2. QED
      BY <2>1, <2>2, <3>1, RestFields DEF Ok
  <2>4. QED
    BY <1>7, <2>1, <2>3
<1>8. CASE queue' = queue
  BY <1>1, <1>8
<1>9. QED
  BY <1>4, <1>5, <1>6, <1>7, <1>8, QueueChanges DEF Ok

\* A step keeps the types of what the application has seen.
LEMMA ApplicationTypesStep ==
  ASSUME NEW G \in BOOLEAN, StepOf(G), Types
  PROVE  ApplicationTypes'
<1> USE DEF Types
<1>1. Unknown \in Positions
  BY DEF Unknown, Positions
<1>2. CASE GetState /\ G
  BY <1>2, NextPubType, RecoveryBounds DEF GetState, ApplicationTypes, Positions
<1>3. CASE RunSubscribed
  <2>1. Head(queue) \in Events
    BY <1>3, SeqFacts DEF RunSubscribed, QueueTypes
  <2>2. Head(queue).position \in Positions
    BY <2>1, EventFields
  <2>3. QED
    BY <1>1, <1>3, <2>2 DEF RunSubscribed, ApplicationTypes, application
<1>4. ASSUME RunPublication \/ RunRecovered PROVE ApplicationTypes'
  <2>1. queue # <<>> /\ Head(queue) = queue[1] /\ 1 \in 1..Len(queue) /\ Head(queue) \in Events
        /\ queue[1].kind \in {"publication", "publications"}
    BY <1>4, SeqFacts DEF RunPublication, RunRecovered, QueueTypes
  <2>2. Head(queue).pubs \in Seq(PubRecords) /\ Head(queue).pubs # <<>>
    BY <2>1, EventFields DEF QueueTypes
  <2>3. Head(queue).pubs[1] \in PubRecords
    BY <2>2
  <2>4. Head(queue).pubs[1].id \in Positions
    BY <2>3, PubFields
  <2>5. CASE RunPublication
    BY <1>1, <2>4, <2>5 DEF RunPublication, Deliver, ApplicationTypes
  <2>6. CASE RunRecovered
    BY <2>4, <2>6, RecoveredFacts DEF ApplicationTypes
  <2>7. QED
    BY <1>4, <2>5, <2>6
<1>5. CASE UNCHANGED <<seen, loaded, reloads>>
  BY <1>5 DEF ApplicationTypes
<1>6. QED
  BY <1>2, <1>3, <1>4, <1>5, Frames DEF Dispatcher

\* A step keeps the type invariant.
LEMMA TypesStep ==
  ASSUME NEW G \in BOOLEAN, StepOf(G), Types
  PROVE  Types'
BY ServerTypesStep, LinkTypesStep, SubscriptionTypesStep, FlagTypesStep, QueueTypesStep,
   ApplicationTypesStep DEF Types

\* Handling a message takes it from the reader and changes neither the server nor the
\* connection.
LEMMA HandleFacts ==
  ASSUME NEW h \in held, Handle(h)
  PROVE  held' = held \ {h} /\ UNCHANGED <<server, link, subscribeAttempt, application>>
         /\ UNCHANGED <<tops, floor, serverSub, base, connected, connection, commands,
            wire, loaded>>
BY DEF Handle, HandleReply, HandleUnrecoverable, HandlePublication, HandleUnsubscribe,
       server, link, subscription, application

\* A reader takes a message only when it holds none and the queue has no entry of it.
LEMMA ReaderStep ==
  ASSUME NEW G \in BOOLEAN, StepOf(G), Types, ReaderInv
  PROVE  ReaderInv'
<1> USE DEF Types
<1>1. CASE Take
  <2>1. /\ held' = held \cup {[connection |-> connection, msg |-> Head(wire)]}
        /\ ReaderFree(connection) /\ queue' = queue
    BY <1>1, FlowTake
  <2>2. (\A h \in held : h.connection # connection)
        /\ \A i \in 1..Len(queue) : queue[i].reader # connection
    BY <2>1 DEF ReaderFree
  <2>3. QED
    BY <2>1, <2>2 DEF ReaderInv
<1>2. CASE ConnectionLost
  <2>1. held' \subseteq held /\ queue' = queue
    BY <1>2 DEF ConnectionLost
  <2>2. QED
    BY <2>1 DEF ReaderInv
<1>3. ASSUME NEW h \in held, Handle(h) PROVE ReaderInv'
  <2>1. queue \in Seq(Events) /\ held' = held \ {h}
    BY <1>3, HandleFacts DEF QueueTypes
  <2>2. \/ queue' = queue
        \/ \E e \in Events : e.reader = h.connection /\ queue' = queue \o <<e>>
        \/ \E e, f \in Events :
             e.reader = h.connection /\ f.reader = h.connection /\ queue' = queue \o <<e, f>>
    <3>1. CASE HandleReply(h)
      <4> DEFINE e == SubscribedEvent(h.msg, h.connection)
                 f == RecoveredEvent(h.msg, h.connection, subscribedSession + 1)
      <4>1. e.reader = h.connection /\ f.reader = h.connection
        BY DEF SubscribedEvent, RecoveredEvent
      <4>2. queue' = queue \/ queue' = queue \o IF h.msg.pubs = <<>> THEN <<e>> ELSE <<e, f>>
        BY <3>1, ReplyFacts
      <4>3. e \in Events /\ f \in Events
        <5>1. h.msg.type = "reply"
          BY <3>1 DEF HandleReply
        <5>2. subscribedSession + 1 \in Nat
          BY DEF SubscriptionTypes
        <5>3. QED
          BY <5>1, <5>2, HeldTypes, EventTypes
      <4> HIDE DEF e, f
      <4>4. QED
        BY <4>1, <4>2, <4>3
    <3>2. CASE HandlePublication(h)
      <4> DEFINE e == PublicationEvent(h.msg, h.connection, h.connection # connection)
      <4>1. e.reader = h.connection
        BY DEF PublicationEvent
      <4>2. queue' = queue \/ queue' = Append(queue, e)
        BY <3>2, PublicationFacts
      <4>3. e \in Events
        BY <3>2, PublicationFacts, HeldTypes, EventTypes
      <4> HIDE DEF e
      <4>4. Append(queue, e) = queue \o <<e>>
        BY <2>1, <4>3
      <4>5. QED
        BY <4>1, <4>2, <4>3, <4>4
    <3>3. CASE HandleUnrecoverable(h) \/ HandleUnsubscribe(h)
      BY <3>3 DEF HandleUnrecoverable, HandleUnsubscribe
    <3>4. QED
      BY <1>3, <3>1, <3>2, <3>3 DEF Handle
  <2>3. \A i \in 1..Len(queue') : \/ queue'[i].reader = h.connection
                                  \/ i \in 1..Len(queue) /\ queue'[i] = queue[i]
    <3>1. CASE queue' = queue
      BY <3>1
    <3>2. ASSUME NEW e \in Events, e.reader = h.connection, queue' = queue \o <<e>>
          PROVE  \A i \in 1..Len(queue') :
                   \/ queue'[i].reader = h.connection
                   \/ i \in 1..Len(queue) /\ queue'[i] = queue[i]
      BY <2>1, <3>2
    <3>3. ASSUME NEW e \in Events, NEW f \in Events, e.reader = h.connection,
                 f.reader = h.connection, queue' = queue \o <<e, f>>
          PROVE  \A i \in 1..Len(queue') :
                   \/ queue'[i].reader = h.connection
                   \/ i \in 1..Len(queue) /\ queue'[i] = queue[i]
      BY <2>1, <3>3
    <3>4. QED
      BY <2>2, <3>1, <3>2, <3>3
  <2>4. QED
    BY <2>1, <2>3 DEF ReaderInv
<1>4. CASE Dispatcher
  <2>1. held' = held
    BY <1>4 DEF Dispatcher, RunSubscribed, RunPublication, RunRecovered
  <2>2. queue \in Seq(Events)
    BY DEF QueueTypes
  <2>3. \A i \in 1..Len(queue') : \E j \in 1..Len(queue) : queue'[i].reader = queue[j].reader
    <3>1. CASE queue # <<>> /\ queue' = Tail(queue)
      <4>1. \A i \in 1..Len(queue') : i + 1 \in 1..Len(queue) /\ queue'[i] = queue[i + 1]
        BY <2>2, <3>1
      <4>2. QED
        BY <4>1
    <3>2. CASE RunRecovered /\ queue' # Tail(queue)
      <4>1. queue # <<>> /\ queue' = <<Rest(Head(queue))>> \o Tail(queue)
        BY <3>2, RecoveredFacts
      <4>2. Rest(Head(queue)).reader = queue[1].reader
        <5>1. queue # <<>> /\ Head(queue) = queue[1] /\ 1 \in 1..Len(queue)
                  /\ Head(queue) \in Events
              /\ queue[1].kind = "publications"
          BY <3>2, RecoveredFacts, SeqFacts DEF QueueTypes
        <5>2. QED
          BY <5>1, RestFields DEF QueueTypes
      <4> DEFINE r == Rest(Head(queue))
      <4> HIDE DEF r
      <4>3. queue' = <<r>> \o Tail(queue) /\ r.reader = queue[1].reader
        BY <4>1, <4>2 DEF r
      <4>4. \A i \in 1..Len(queue') : i \in 1..Len(queue)
                /\ (IF i = 1 THEN queue'[i] = r ELSE queue'[i] = queue[i])
        BY <2>2, <4>1, <4>3
      <4>5. QED
        BY <4>3, <4>4
    <3>3. queue # <<>> /\ (queue' = Tail(queue) \/ RunRecovered)
      BY <1>4 DEF Dispatcher, RunSubscribed, RunPublication, RunRecovered
    <3>4. QED
      BY <3>1, <3>2, <3>3
  <2>4. QED
    BY <2>1, <2>3 DEF ReaderInv
<1>5. CASE UNCHANGED <<held, queue>>
  BY <1>5 DEF ReaderInv
<1>6. QED
  BY <1>1, <1>2, <1>3, <1>4, <1>5, Frames

------------------------------------------------------------------------------
(* Subscribe commands and their answers *)

\* A command that is a subscribe.
IsAsk(c) == c.type = "subscribe"

\* A message that answers one.
IsAnswer(m) == m.type \in {"reply", "unrecoverable"}

\* At most one subscribe command is on its way or answered.
Asked(asks, f, flying) ==
  /\ \A i \in 1..Len(asks) : IsAsk(asks[i]) =>
       /\ flying
       /\ \A j \in 1..Len(asks) : IsAsk(asks[j]) => i = j
       /\ \A j \in 1..Len(f) : ~IsAnswer(f[j])
  /\ \A i \in 1..Len(f) : IsAnswer(f[i]) =>
       flying /\ \A j \in 1..Len(f) : IsAnswer(f[j]) => i = j

\* A subscription that is subscribed has no subscribe on its way, and recovers next time.
AskInv ==
  /\ state = "subscribed" => ~inflight /\ recover
  /\ Asked(commands, Flow, inflight)

\* With none on its way a subscribe may be sent.
LEMMA AskedSend ==
  ASSUME NEW c \in Seq(Commands), NEW f \in Seq(Messages), Asked(c, f, FALSE),
         NEW x \in Commands
  PROVE  Asked(Append(c, x), f, TRUE)
<1>1. (\A i \in 1..Len(c) : ~IsAsk(c[i])) /\ \A i \in 1..Len(f) : ~IsAnswer(f[i])
  BY DEF Asked
<1>2. \A i \in 1..Len(Append(c, x)) : (i \in 1..Len(c)
          /\ Append(c, x)[i] = c[i]) \/ i = Len(c) + 1
  BY AppendFacts
<1>3. \A i \in 1..Len(Append(c, x)) : IsAsk(Append(c, x)[i]) => i = Len(c) + 1
  BY <1>1, <1>2
<1>4. QED
  BY <1>1, <1>3 DEF Asked

\* Another command may always be sent.
LEMMA AskedOther ==
  ASSUME NEW c \in Seq(Commands), NEW f \in Seq(Messages), NEW y \in BOOLEAN, Asked(c, f, y),
         NEW x \in Commands, ~IsAsk(x)
  PROVE  Asked(Append(c, x), f, y)
<1>1. \A i \in 1..Len(Append(c, x)) :
        IsAsk(Append(c, x)[i]) => i \in 1..Len(c) /\ Append(c, x)[i] = c[i]
  BY AppendFacts
<1>2. QED
  BY <1>1 DEF Asked

\* A push is no answer.
LEMMA AskedPushed ==
  ASSUME NEW c \in Seq(Commands), NEW f \in Seq(Messages), NEW y \in BOOLEAN, Asked(c, f, y),
         NEW m \in Messages, ~IsAnswer(m)
  PROVE  Asked(c, Append(f, m), y)
<1>1. \A i \in 1..Len(Append(f, m)) :
        IsAnswer(Append(f, m)[i]) => i \in 1..Len(f) /\ Append(f, m)[i] = f[i]
  BY AppendFacts
<1>2. QED
  BY <1>1 DEF Asked

\* What is taken off either end leaves at most one; the answer, none.
LEMMA AskedTail ==
  ASSUME NEW c \in Seq(Commands), NEW f \in Seq(Messages), NEW y \in BOOLEAN, Asked(c, f, y)
  PROVE  /\ c # <<>> => Asked(Tail(c), f, y)
         /\ f # <<>> => Asked(c, Tail(f), y)
         /\ f # <<>> /\ IsAnswer(f[1]) => Asked(c, Tail(f), FALSE)
<1>1. c # <<>> => \A i \in 1..Len(Tail(c)) : i + 1 \in 1..Len(c) /\ Tail(c)[i] = c[i + 1]
          /\ i \in Nat
  BY SeqFacts
<1>2. f # <<>> => /\ 1 \in 1..Len(f)
                  /\ \A i \in 1..Len(Tail(f)) : i + 1 \in 1..Len(f)
                         /\ Tail(f)[i] = f[i + 1] /\ i \in Nat
  BY SeqFacts
<1>3. \A i, j \in Nat : i + 1 = j + 1 => i = j
  OBVIOUS
<1>4. c # <<>> => Asked(Tail(c), f, y)
  BY <1>1, <1>3 DEF Asked
<1>5. f # <<>> => Asked(c, Tail(f), y)
  BY <1>2, <1>3 DEF Asked
<1>6. \A i \in Nat : i + 1 = 1 => i = 0
  OBVIOUS
<1>7. ASSUME f # <<>>, IsAnswer(f[1]) PROVE Asked(c, Tail(f), FALSE)
  <2>1. \A i \in 1..Len(f) : IsAnswer(f[i]) => i = 1
    BY <1>2, <1>7 DEF Asked
  <2>2. \A i \in 1..Len(Tail(f)) : ~IsAnswer(Tail(f)[i])
    BY <1>2, <1>6, <1>7, <2>1
  <2>3. \A i \in 1..Len(c) : ~IsAsk(c[i])
    BY <1>2, <1>7 DEF Asked
  <2>4. QED
    BY <2>2, <2>3 DEF Asked
<1>8. QED
  BY <1>4, <1>5, <1>7

\* The server answers the only subscribe.
LEMMA AskedAnswer ==
  ASSUME NEW c \in Seq(Commands), NEW f \in Seq(Messages), NEW y \in BOOLEAN, Asked(c, f, y),
         c # <<>>, IsAsk(Head(c)), NEW m \in Messages
  PROVE  y /\ Asked(Tail(c), Append(f, m), y)
<1>1. 1 \in 1..Len(c) /\ c[1] = Head(c)
      /\ \A i \in 1..Len(Tail(c)) : i + 1 \in 1..Len(c) /\ Tail(c)[i] = c[i + 1] /\ i \in Nat
  BY SeqFacts
<1>2. y /\ (\A i \in 1..Len(f) : ~IsAnswer(f[i])) /\ \A i \in 1..Len(c) : IsAsk(c[i]) => i = 1
  BY <1>1 DEF Asked
<1>3. \A i \in 1..Len(Append(f, m)) :
        IsAnswer(Append(f, m)[i]) => i = Len(f) + 1
  BY <1>2, AppendFacts
<1>4. \A i \in Nat : i + 1 = 1 => i = 0
  OBVIOUS
<1>5. \A i \in 1..Len(Tail(c)) : ~IsAsk(Tail(c)[i])
  BY <1>1, <1>2, <1>4
<1>6. QED
  BY <1>2, <1>3, <1>5 DEF Asked

\* The tail of a sequence with one more element.
LEMMA TailAppend ==
  ASSUME NEW S, NEW s \in Seq(S), NEW x \in S, s # <<>>
  PROVE  /\ Tail(Append(s, x)) = Append(Tail(s), x) /\ Append(s, x)[1] = s[1]
         /\ Append(s, x) # <<>>
<1>1. Len(s) \in Nat \ {0}
  OBVIOUS
<1>2. Append(s, x) \in Seq(S) /\ Len(Append(s, x)) = Len(s) + 1 /\ Append(s, x) # <<>>
  BY <1>1
<1>3. Tail(Append(s, x)) \in Seq(S) /\ Append(Tail(s), x) \in Seq(S) /\ Tail(s) \in Seq(S)
      /\ Len(Tail(Append(s, x))) = Len(s) /\ Len(Tail(s)) = Len(s) - 1
      /\ Len(Append(Tail(s), x)) = Len(s)
  BY <1>1, <1>2
<1>4. \A i \in 1..Len(s) : Tail(Append(s, x))[i] = Append(Tail(s), x)[i]
  <2> SUFFICES ASSUME NEW i \in 1..Len(s)
               PROVE  Tail(Append(s, x))[i] = Append(Tail(s), x)[i]
    OBVIOUS
  <2>1. Tail(Append(s, x))[i] = Append(s, x)[i + 1]
    BY <1>1, <1>2, <1>3
  <2>2. CASE i = Len(s)
    BY <1>1, <1>3, <2>1, <2>2
  <2>3. CASE i # Len(s)
    <3>1. i \in 1..Len(Tail(s)) /\ i + 1 \in 1..Len(s)
      <4>1. \A n \in Nat \ {0} : i \in 1..n /\ i # n => i \in 1..(n - 1) /\ i + 1 \in 1..n
        OBVIOUS
      <4>2. QED
        BY <1>1, <1>3, <2>3, <4>1
    <3>2. Append(s, x)[i + 1] = s[i + 1] /\ Append(Tail(s), x)[i] = Tail(s)[i]
              /\ Tail(s)[i] = s[i + 1]
      BY <1>3, <3>1
    <3>3. QED
      BY <2>1, <3>2
  <2>4. QED
    BY <2>2, <2>3
<1>5. \A i \in 1..Len(Tail(Append(s, x))) : Tail(Append(s, x))[i] = Append(Tail(s), x)[i]
  BY <1>3, <1>4
<1>6. Tail(Append(s, x)) = Append(Tail(s), x)
  <2> DEFINE u == Tail(Append(s, x))
             v == Append(Tail(s), x)
  <2>1. u \in Seq(S) /\ v \in Seq(S) /\ Len(u) = Len(v) /\ \A i \in 1..Len(u) : u[i] = v[i]
    BY <1>3, <1>5
  <2> HIDE DEF u, v
  <2>2. u = v
    BY <2>1, SeqEqual
  <2>3. QED
    BY <2>2 DEF u, v
<1>7. Append(s, x)[1] = s[1]
  <2>1. 1 \in 1..Len(s)
    BY <1>1
  <2>2. QED
    BY <2>1, AppendFacts
<1>8. QED
  BY <1>2, <1>6, <1>7

\* Ahead depends on Flow and on the server's stream only.
LEMMA AheadKept ==
  ASSUME Flow' = Flow, UNCHANGED <<tops, serverSub, base>>
  PROVE  Ahead' = Ahead
BY DEF Ahead, NextPub, ServerEpoch, Top

\* The message in hand is the first of Ahead, and handling it takes it from there.
LEMMA AheadHandled ==
  ASSUME Types, ReaderInv, NEW h \in held, Handle(h)
  PROVE  IF h.connection = connection
         THEN /\ Flow # <<>> /\ h.msg = Flow[1] /\ Flow' = Tail(Flow)
              /\ Ahead # <<>> /\ h.msg = Ahead[1] /\ Ahead' = Tail(Ahead)
         ELSE Flow' = Flow /\ Ahead' = Ahead
<1> USE DEF Types
<1>1. held' = held \ {h} /\ UNCHANGED <<tops, serverSub, base, connection, wire>>
  BY HandleFacts
<1>2. CASE h.connection = connection
  <2>1. Flow # <<>> /\ h.msg = Flow[1] /\ Flow' = Tail(Flow)
    BY <1>1, <1>2, FlowHandled
  <2>2. Flow \in Seq(Messages) /\ NextPub \in Messages
    BY FlowType, NextPubType
  <2>3. Ahead' = IF serverSub THEN Append(Tail(Flow), NextPub) ELSE Tail(Flow)
    BY <1>1, <2>1 DEF Ahead, NextPub, ServerEpoch, Top
  <2>4. QED
    BY <1>2, <2>1, <2>2, <2>3, TailAppend DEF Ahead
<1>3. CASE h.connection # connection
  BY <1>1, <1>3, FlowHandled, AheadKept
<1>4. QED
  BY <1>2, <1>3

\* A publication that the server sends is the one that was ahead; the one after it is made
\* against it.
LEMMA PublishFacts ==
  ASSUME Types, Publish
  PROVE  /\ tops' = [tops EXCEPT ![ServerEpoch] = Top + 1] /\ ServerEpoch' = ServerEpoch
         /\ Top' = Top + 1 /\ Len(tops') = Len(tops)
         /\ UNCHANGED <<floor, serverSub, connected, connection, commands, held, subscription,
                        position, prevData, queue, application, decoding>>
         /\ IF serverSub
            THEN /\ Flow' = Ahead /\ Ahead = Append(Flow, NextPub)
                /\ Ahead' = Append(Ahead, NextPub')
                 /\ wire' = Append(wire, NextPub)
                 /\ NextPub.type = "pub" /\ NextPub.pub.id = <<ServerEpoch, Top + 1>>
                 /\ NextPub'.type = "pub" /\ NextPub'.pub.id = <<ServerEpoch, Top + 2>>
                 /\ NextPub'.pub.base = NextPub.pub.id
                 /\ base' = NextPub.pub.id
            ELSE wire' = wire /\ Flow' = Flow /\ Ahead' = Flow /\ Ahead = Flow /\ base' = base
<1> USE DEF Types
<1>1. ServerEpoch \in Nat \ {0} /\ Top \in Nat /\ ServerEpoch = Len(tops)
          /\ Top = tops[ServerEpoch]
  BY NextPubType, RecoveryBounds DEF ServerEpoch, Top
<1>2. tops' = [tops EXCEPT ![ServerEpoch] = Top + 1]
      /\ UNCHANGED <<floor, serverSub, connected, connection, commands, held, subscription,
                        position, prevData, queue, application, decoding>>
  BY DEF Publish
<1>3. Len(tops') = Len(tops) /\ tops'[ServerEpoch] = Top + 1
  BY <1>1, <1>2 DEF ServerTypes
<1>4. ServerEpoch' = ServerEpoch /\ Top' = Top + 1
  BY <1>3, <1>1 DEF ServerEpoch, Top
<1>5. CASE serverSub
  <2>1. wire' = Append(wire, NextPub) /\ base' = <<ServerEpoch, Top + 1>>
    BY <1>5 DEF Publish, Send, NextPub
  <2>2. Flow' = Append(Flow, NextPub) /\ Ahead = Append(Flow, NextPub)
    BY <1>2, <1>5, <2>1, FlowSend, NextPubType DEF Ahead
  <2>3. Ahead' = Append(Flow', NextPub')
    BY <1>2, <1>5 DEF Ahead
  <2>4. NextPub' = [type |-> "pub", pub |-> [id |-> <<ServerEpoch, Top + 2>>,
        base |-> <<ServerEpoch, Top + 1>>]]
    <3>1. (Top + 1) + 1 = Top + 2
      BY <1>1
    <3>2. QED
      BY <1>4, <2>1, <3>1 DEF NextPub
  <2>5. QED
    BY <1>2, <1>3, <1>4, <1>5, <2>1, <2>2, <2>3, <2>4 DEF NextPub
<1>6. CASE ~serverSub
  <2>1. wire' = wire /\ base' = base
    BY <1>6 DEF Publish
  <2>2. Flow' = Flow
    BY <1>2, <2>1, FlowKept
  <2>3. QED
    BY <1>2, <1>3, <1>4, <1>6, <2>1, <2>2 DEF Ahead
<1>7. QED
  BY <1>5, <1>6

\* An unsubscribe push ends what is ahead.
LEMMA AheadUnsubscribed ==
  ASSUME Types, Reset \/ Invalidate
  PROVE  \/ \E m \in Messages : /\ m.type = "unsubscribe" /\ serverSub /\ ~serverSub'
                               /\ base' = Nothing /\ wire' = Append(wire, m)
                               /\ Flow' = Append(Flow, m) /\ Ahead' = Append(Flow, m)
         \/ ~serverSub /\ ~serverSub' /\ base' = base /\ wire' = wire /\ Flow' = Flow
                /\ Ahead' = Flow
<1> USE DEF Types
<1>1. held' = held /\ connection' = connection
  BY DEF Reset, Invalidate
<1>2. CASE serverSub
  <2>1. PICK m \in Messages : m.type = "unsubscribe" /\ wire' = Append(wire, m)
                              /\ serverSub' = FALSE /\ base' = Nothing
    BY <1>2, UnsubscribedFacts
  <2>2. Flow' = Append(Flow, m)
    BY <1>1, <2>1, FlowSend
  <2>3. QED
    BY <1>2, <2>1, <2>2 DEF Ahead
<1>3. CASE ~serverSub
  <2>1. UNCHANGED <<wire, serverSub, base>>
    BY <1>3, UnsubscribedFacts
  <2>2. QED
    BY <1>1, <1>3, <2>1, FlowKept DEF Ahead
<1>4. QED
  BY <1>2, <1>3

\* A reply puts the publication after it ahead, if the subscribe succeeded.
LEMMA AheadAnswered ==
  ASSUME NEW G \in BOOLEAN, Answered(G), Types, NEW m \in Messages, wire' = Append(wire, m)
  PROVE  /\ Flow' = Append(Flow, m) /\ ServerEpoch' = ServerEpoch /\ Top' = Top
         /\ Ahead' = IF serverSub' THEN Append(Append(Flow, m), NextPub') ELSE Append(Flow, m)
         /\ NextPub'.type = "pub" /\ NextPub'.pub.id = <<ServerEpoch, Top + 1>>
         /\ NextPub'.pub.base = base'
<1> USE DEF Types
<1>1. UNCHANGED <<tops, held, connection>>
  BY AnswerFacts
<1>2. Flow' = Append(Flow, m)
  BY <1>1, FlowSend
<1>3. ServerEpoch' = ServerEpoch /\ Top' = Top
  BY <1>1 DEF ServerEpoch, Top
<1>4. Ahead' = IF serverSub' THEN Append(Append(Flow, m), NextPub') ELSE Append(Flow, m)
  BY <1>2 DEF Ahead
<1>5. NextPub' = [type |-> "pub", pub |-> [id |-> <<ServerEpoch, Top + 1>>, base |-> base']]
  BY <1>3 DEF NextPub
<1>6. QED
  BY <1>2, <1>3, <1>4, <1>5

\* What the other steps do to what is ahead.
LEMMA FlowCases ==
  ASSUME NEW G \in BOOLEAN, StepOf(G), Types, ReaderInv
  PROVE  \/ Publish \/ Reset \/ Invalidate \/ Answered(G)
         \/ \E h \in held : Handle(h)
         \/ ConnectionLost /\ Flow' = <<>> /\ Ahead' = <<>>
         \/ ServerUnsubscribes /\ Flow' = Flow /\ Ahead' = Flow
         \/ /\ Flow' = Flow /\ Ahead' = Ahead
            /\ UNCHANGED <<tops, serverSub, base, connection, wire>> \/ Take \/ HistoryLost
            /\ UNCHANGED <<tops, serverSub, base, connection>>
<1> USE DEF Types
<1>1. CASE ConnectionLost
  <2>1. serverSub' = FALSE
    BY <1>1 DEF ConnectionLost, Forget
  <2>2. QED
    BY <1>1, <2>1, FlowLost DEF Ahead
<1>2. CASE ServerUnsubscribes
  <2>1. serverSub' = FALSE /\ UNCHANGED <<held, connection, wire>>
    BY <1>2 DEF ServerUnsubscribes, Forget
  <2>2. QED
    BY <1>2, <2>1, FlowKept DEF Ahead
<1>3. CASE Take
  <2>1. Flow' = Flow /\ UNCHANGED <<tops, serverSub, base, connection>>
    BY <1>3, FlowTake DEF server
  <2>2. QED
    BY <1>3, <2>1, AheadKept
<1>4. CASE HistoryLost
  <2>1. UNCHANGED <<tops, serverSub, base, held, connection, wire>>
    BY <1>4 DEF HistoryLost, link
  <2>2. QED
    BY <1>4, <2>1, FlowKept, AheadKept
<1>5. CASE UNCHANGED <<tops, serverSub, base, held, connection, wire>>
  BY <1>5, FlowKept, AheadKept
<1>6. QED
  BY <1>1, <1>2, <1>3, <1>4, <1>5, Frames

\* A step keeps at most one subscribe on its way: the flag inflight is set while it is.
LEMMA AskStep ==
  ASSUME NEW G \in BOOLEAN, StepOf(G), Types, ReaderInv, AskInv
  PROVE  AskInv'
<1> USE DEF Types
<1>1. Flow \in Seq(Messages) /\ commands \in Seq(Commands) /\ inflight \in BOOLEAN
          /\ recover \in BOOLEAN
  BY FlowType DEF LinkTypes, FlagTypes
<1>2. Asked(commands, Flow, inflight) /\ (state = "subscribed" => ~inflight /\ recover)
  BY DEF AskInv
<1>3. SUFFICES Asked(commands', Flow', inflight') /\ (state' = "subscribed"
                   => ~inflight' /\ recover')
  BY DEF AskInv
<1>4. CASE Publish
  <2>1. UNCHANGED <<commands, inflight, state, recover>>
    BY <1>4 DEF Publish, subscription, position
  <2>2. Flow' = Flow \/ Flow' = Append(Flow, NextPub)
    BY <1>4, PublishFacts
  <2>3. NextPub \in Messages /\ ~IsAnswer(NextPub)
    BY NextPubType DEF NextPub, IsAnswer
  <2>4. QED
    BY <1>1, <1>2, <2>1, <2>2, <2>3, AskedPushed
<1>5. CASE Reset \/ Invalidate
  <2>1. UNCHANGED <<commands, inflight, state, recover>>
    BY <1>5 DEF Reset, Invalidate, subscription, position
  <2>2. Flow' = Flow \/ \E m \in Messages : ~IsAnswer(m) /\ Flow' = Append(Flow, m)
    <3>1. CASE Flow' = Flow
      BY <3>1
    <3>2. CASE \E m \in Messages : m.type = "unsubscribe" /\ Flow' = Append(Flow, m)
      BY <3>2 DEF IsAnswer
    <3>3. QED
      BY <1>5, <3>1, <3>2, AheadUnsubscribed
  <2>3. QED
    BY <1>1, <1>2, <2>1, <2>2, AskedPushed
<1>6. CASE Answered(G)
  <2>1. PICK m \in Messages : wire' = Append(wire, m)
    BY <1>6, AnswerCases
  <2>2. Flow' = Append(Flow, m)
    BY <1>6, <2>1, AheadAnswered
  <2>3. commands # <<>> /\ IsAsk(Head(commands)) /\ commands' = Tail(commands)
        /\ UNCHANGED <<inflight, state, recover>>
    BY <1>6, AnswerFacts DEF IsAsk, subscription, position
  <2>4. QED
    BY <1>1, <1>2, <2>2, <2>3, AskedAnswer
<1>7. CASE ConnectionLost
  <2>1. commands' = <<>> /\ inflight' = FALSE /\ state' # "subscribed"
    BY <1>7 DEF ConnectionLost
  <2>2. Flow' = <<>>
    BY <1>7, FlowLost
  <2>3. QED
    BY <2>1, <2>2 DEF Asked
<1>8. CASE ServerUnsubscribes
  <2>1. commands # <<>> /\ commands' = Tail(commands)
        /\ UNCHANGED <<inflight, state, recover, held, connection, wire>>
    BY <1>8 DEF ServerUnsubscribes, subscription, position
  <2>2. QED
    BY <1>1, <1>2, <2>1, FlowKept, AskedTail
<1>9. CASE Unsubscribe
  <2> DEFINE x == [type |-> "unsubscribe"]
  <2>1. state' = "unsubscribed" /\ UNCHANGED <<inflight, held, connection, wire>>
        /\ (commands' = commands \/ commands' = Append(commands, x))
    BY <1>9 DEF Unsubscribe, position
  <2>2. x \in Commands /\ ~IsAsk(x)
    BY NewCommands DEF IsAsk
  <2> HIDE DEF x
  <2>3. QED
    BY <1>1, <1>2, <2>1, <2>2, FlowKept, AskedOther
<1>10. CASE Sends(G)
  <2> DEFINE x == [type |-> "subscribe", attempt |-> subscribeAttempt, recover |-> recover,
                   epoch |-> epoch, offset |-> offset]
  <2>1. state = "subscribing" /\ inflight = FALSE /\ inflight' = TRUE
            /\ commands' = Append(commands, x)
        /\ UNCHANGED <<state, held, connection, wire>>
    BY <1>10, SendFacts DEF FlagTypes
  <2>2. x \in Commands
    BY NewCommands
  <2> HIDE DEF x
  <2>3. QED
    BY <1>1, <1>2, <2>1, <2>2, FlowKept, AskedSend
<1>11. ASSUME NEW h \in held, Handle(h)
       PROVE  Asked(commands', Flow', inflight') /\ (state' = "subscribed"
                  => ~inflight' /\ recover')
  <2>1. commands' = commands
    BY <1>11, HandleFacts
  <2>2. IF h.connection = connection
        THEN Flow # <<>> /\ h.msg = Flow[1] /\ Flow' = Tail(Flow) ELSE Flow' = Flow
    BY <1>11, AheadHandled
  <2>3. CASE HandleReply(h) \/ HandleUnrecoverable(h)
    <3>1. inflight' = (inflight /\ h.connection # connection)
          /\ IsAnswer(h.msg)
      BY <2>3 DEF HandleReply, HandleUnrecoverable, IsAnswer
    <3>2. Asked(commands', Flow', inflight')
      <4>1. CASE h.connection = connection
        <5>1. inflight' = FALSE
          BY <3>1, <4>1
        <5>2. QED
          BY <1>1, <1>2, <2>1, <2>2, <3>1, <4>1, <5>1, AskedTail
      <4>2. CASE h.connection # connection
        <5>1. inflight' = inflight
          BY <1>1, <3>1, <4>2
        <5>2. QED
          BY <1>2, <2>1, <2>2, <4>2, <5>1
      <4>3. QED
        BY <4>1, <4>2
    <3>3. CASE Applies(h)
      <4>1. h.connection = connection /\ state # "subscribed"
        BY <3>3 DEF Applies
      <4>2. inflight' = FALSE
        BY <3>1, <4>1
      <4>3. state' = "subscribed" => recover'
        BY <2>3, <3>3, <4>1 DEF HandleReply, HandleUnrecoverable
      <4>4. QED
        BY <3>2, <4>2, <4>3
    <3>4. CASE ~Applies(h)
      <4>1. state' = state /\ recover' = recover
        BY <2>3, <3>4 DEF HandleReply, HandleUnrecoverable, position
      <4>2. QED
        BY <1>2, <3>1, <3>2, <4>1
    <3>5. QED
      BY <3>3, <3>4
  <2>4. CASE HandlePublication(h) \/ HandleUnsubscribe(h)
    <3>1. inflight' = inflight /\ recover' = recover
          /\ (state' = "subscribed" => state = "subscribed")
      BY <2>4 DEF HandlePublication, HandleUnsubscribe, subscription
    <3>2. QED
      BY <1>1, <1>2, <2>1, <2>2, <3>1, AskedTail
  <2>5. QED
    BY <1>11, <2>3, <2>4 DEF Handle
<1>12. CASE GetState /\ G
  <2>1. state = "subscribing" /\ UNCHANGED <<state, inflight, commands, held, connection, wire>>
    BY <1>12 DEF GetState, subscription, link
  <2>2. QED
    BY <1>2, <2>1, FlowKept
<1>13. CASE Subscribe
  <2>1. state' = "subscribing" /\ UNCHANGED <<inflight, commands, held, connection, wire>>
    BY <1>13 DEF Subscribe, link
  <2>2. QED
    BY <1>2, <2>1, FlowKept
<1>14. CASE Flow' = Flow /\ UNCHANGED <<state, inflight, recover, commands>>
  BY <1>2, <1>14
<1>15. Take => Flow' = Flow /\ UNCHANGED <<state, inflight, recover, commands>>
  BY FlowTake DEF subscription, position
<1>16. Flow' = Flow \/ Publish \/ Reset \/ Invalidate \/ Answered(G) \/ ConnectionLost
           \/ \E h \in held : Handle(h)
  BY FlowCases
<1>17. QED
  BY <1>4, <1>5, <1>6, <1>7, <1>8, <1>9, <1>10, <1>11, <1>12, <1>13, <1>14, <1>16, Frames

------------------------------------------------------------------------------
(* What is sent was published *)

\* The position after a position.
Following(p) == <<p[1], p[2] + 1>>

\* A position that the server has published.
PublishedIn(t, id) == id[1] \in 1..Len(t) /\ id[2] \in 1..t[id[1]]

\* What a message carries has been published; a recovered reply has the publications that
\* follow its position, in order, each the delta base of the next.
MessageOk(m, t) ==
  /\ m.type = "pub" => PublishedIn(t, m.pub.id)
  /\ m.type = "reply" =>
       /\ m.epoch <= Len(t)
       /\ m.recovered => m.epoch # NoEpoch
       /\ ~m.recovered => m.pubs = <<>>
       /\ \A k \in 1..Len(m.pubs) :
            /\ m.pubs[k].id = <<m.epoch, m.offset + k>>
            /\ m.pubs[k].base = IF k = 1 THEN Nothing ELSE <<m.epoch, m.offset + k - 1>>
            /\ PublishedIn(t, m.pubs[k].id)

\* What an entry carries has been published, in order, and is of a session there was.
EventOk(e, t, s) ==
  /\ \A k \in 1..Len(e.pubs) : PublishedIn(t, e.pubs[k].id)
  /\ e.kind = "publications" =>
       /\ e.session \in 1..s
       /\ \A k \in 1..Len(e.pubs) - 1 : e.pubs[k + 1].id = Following(e.pubs[k].id)

\* So it is of every message and every entry.
SentInv ==
  /\ \A h \in held : MessageOk(h.msg, tops)
  /\ \A i \in 1..Len(wire) : MessageOk(wire[i], tops)

\* Every entry of the queue carries what was published.
EventsInv == \A i \in 1..Len(queue) : EventOk(queue[i], tops, subscribedSession)

\* The stream of the server only grows: each epoch, and the list of them.
Grows(t, u) ==
  Len(t) \in Nat /\ Len(u) \in Nat /\ Len(t) <= Len(u)
      /\ \A e \in 1..Len(t) : t[e] \in Nat /\ u[e] \in Nat /\ t[e] <= u[e]

\* What was published stays so.
LEMMA PublishedGrows ==
  ASSUME NEW t, NEW u, Grows(t, u), NEW id, PublishedIn(t, id)
  PROVE  PublishedIn(u, id)
BY DEF Grows, PublishedIn

\* A message and an entry stay right as the stream grows.
LEMMA OkGrows ==
  ASSUME NEW t, NEW u, Grows(t, u)
  PROVE  /\ \A m \in Messages : MessageOk(m, t) => MessageOk(m, u)
         /\ \A e \in Events : \A r, s \in Nat : r <= s /\ EventOk(e, t, r) => EventOk(e, u, s)
<1>1. \A m \in Messages : MessageOk(m, t) => MessageOk(m, u)
  <2> SUFFICES ASSUME NEW m \in Messages, MessageOk(m, t) PROVE MessageOk(m, u)
    OBVIOUS
  <2>1. m.type = "reply" => m.epoch <= Len(u)
    BY MessageTypes DEF MessageOk, Grows
  <2>2. QED
    BY <2>1, PublishedGrows DEF MessageOk
<1>2. \A e \in Events : \A r, s \in Nat : r <= s /\ EventOk(e, t, r) => EventOk(e, u, s)
  <2> SUFFICES ASSUME NEW e \in Events, NEW r \in Nat, NEW s \in Nat, r <= s, EventOk(e, t, r)
               PROVE  EventOk(e, u, s)
    OBVIOUS
  <2>1. 1..r \subseteq 1..s
    OBVIOUS
  <2>2. QED
    BY <2>1, PublishedGrows DEF EventOk
<1>3. QED
  BY <1>1, <1>2

\* Every step lets the stream grow or leaves it: a reset adds an epoch.
LEMMA TopsGrow ==
  ASSUME NEW G \in BOOLEAN, StepOf(G), Types
  PROVE  Grows(tops, tops')
<1> USE DEF Types
<1>1. Len(tops) \in Nat /\ \A e \in 1..Len(tops) : tops[e] \in Nat
  <2>1. \A x \in 0..MaxPublished : x \in Nat
    BY RecoveryBounds
  <2>2. tops \in Seq(0..MaxPublished) /\ tops # <<>>
    BY DEF ServerTypes
  <2>3. QED
    BY <2>1, <2>2, SeqFacts
<1>2. CASE Publish
  <2>1. tops' = [tops EXCEPT ![ServerEpoch] = Top + 1] /\ Len(tops') = Len(tops)
    BY <1>2, PublishFacts
  <2>2. ServerEpoch \in 1..Len(tops) /\ Top = tops[ServerEpoch] /\ Top \in Nat
    BY NextPubType, RecoveryBounds DEF ServerEpoch, Top
  <2>3. tops \in Seq(0..MaxPublished) /\ DOMAIN tops = 1..Len(tops)
    BY DEF ServerTypes
  <2>4. \A e \in 1..Len(tops) : tops'[e] = IF e = ServerEpoch THEN tops[e] + 1 ELSE tops[e]
    BY <2>1, <2>2, <2>3
  <2>5. QED
    BY <1>1, <2>1, <2>4 DEF Grows
<1>3. CASE Reset
  <2>1. tops' = Append(tops, 0) /\ tops \in Seq(0..MaxPublished) /\ 0 \in 0..MaxPublished
    BY <1>3, RecoveryBounds DEF Reset, ServerTypes
  <2>2. Len(tops') = Len(tops) + 1 /\ \A e \in 1..Len(tops) : tops'[e] = tops[e]
    BY <2>1, AppendFacts
  <2>3. QED
    BY <1>1, <2>2 DEF Grows
<1>4. CASE tops' = tops
  BY <1>1, <1>4 DEF Grows
<1>5. CASE HistoryLost
  BY <1>4, <1>5 DEF HistoryLost
<1>6. QED
  BY <1>2, <1>3, <1>4, <1>5, Frames

\* A reply of the server carries what it has.
LEMMA AnswerOk ==
  ASSUME NEW G \in BOOLEAN, Answered(G), Types, NEW m \in Messages, wire' = Append(wire, m),
         LET cmd == Head(commands) IN
                 \/ /\ cmd.recover /\ cmd.epoch \in {NoEpoch, ServerEpoch} /\ cmd.offset <= Top
                    /\ m = Replied(cmd.attempt, ServerEpoch, cmd.offset,
                       History(cmd.offset), TRUE)
                 \/ m = Replied(cmd.attempt, ServerEpoch, Top, <<>>, FALSE)
                 \/ m = Replied(cmd.attempt, NoEpoch, 0, <<>>, FALSE)
                 \/ m = [type |-> "unrecoverable", attempt |-> cmd.attempt]
  PROVE  MessageOk(m, tops)
<1> USE DEF Types
<1> DEFINE cmd == Head(commands)
           o == cmd.offset
<1>1. o \in Nat
  BY AnswerCases
<1> HIDE DEF o
<1>2. ServerEpoch \in Nat \ {0} /\ Top \in Nat /\ ServerEpoch = Len(tops)
          /\ Top = tops[ServerEpoch]
  BY NextPubType, RecoveryBounds DEF ServerEpoch, Top
<1>3. CASE o <= Top /\ m = Replied(cmd.attempt, ServerEpoch, o, History(o), TRUE)
  <2>1. /\ m.type = "reply" /\ m.epoch = ServerEpoch /\ m.offset = o /\ m.pubs = History(o)
        /\ m.recovered = TRUE
    BY <1>3 DEF Replied
  <2> DEFINE p == History(o)
             n == Top - o
  <2>2. /\ Len(p) = n
        /\ \A i \in 1..n : /\ p[i].id = <<ServerEpoch, o + i>>
                            /\ p[i].base = IF i = 1 THEN Nothing ELSE <<ServerEpoch, o + i - 1>>
    BY <1>1, <1>3, HistoryType
  <2>3. \A i \in 1..n : o + i \in 1..Top
    BY <1>1, <1>2
  <2> HIDE DEF p, n
  <2>4. m.pubs = p
    BY <2>1 DEF p
  <2>5. \A k \in 1..Len(m.pubs) :
          /\ m.pubs[k].id = <<m.epoch, m.offset + k>>
          /\ m.pubs[k].base = IF k = 1 THEN Nothing ELSE <<m.epoch, m.offset + k - 1>>
    BY <2>1, <2>2, <2>4
  <2>6. \A k \in 1..Len(m.pubs) : o + k \in 1..Top
    BY <2>2, <2>3, <2>4
  <2>7. \A k \in 1..Len(m.pubs) : m.pubs[k].id = <<ServerEpoch, o + k>>
    BY <2>1, <2>5
  <2>8. \A k \in 1..Top : PublishedIn(tops, <<ServerEpoch, k>>)
    <3>1. ServerEpoch \in 1..Len(tops)
      BY <1>2
    <3>2. SUFFICES ASSUME NEW k \in 1..Top PROVE PublishedIn(tops, <<ServerEpoch, k>>)
      OBVIOUS
    <3>3. k \in 1..tops[ServerEpoch]
      BY <1>2, <3>2
    <3>4. QED
      BY <3>1, <3>3 DEF PublishedIn
  <2>9. \A k \in 1..Len(m.pubs) : PublishedIn(tops, m.pubs[k].id)
    BY <2>7, <2>6, <2>8
  <2>10. QED
    BY <1>2, <2>1, <2>5, <2>9 DEF MessageOk, NoEpoch
<1>4. CASE m = Replied(cmd.attempt, ServerEpoch, Top, <<>>, FALSE)
           \/ m = Replied(cmd.attempt, NoEpoch, 0, <<>>, FALSE)
  BY <1>2, <1>4 DEF MessageOk, Replied, NoEpoch
<1>5. CASE m = [type |-> "unrecoverable", attempt |-> cmd.attempt]
  BY <1>5 DEF MessageOk
<1>6. QED
  BY <1>3, <1>4, <1>5 DEF o

\* A step keeps that the messages carry what was published.
LEMMA SentStep ==
  ASSUME NEW G \in BOOLEAN, StepOf(G), Types, SentInv
  PROVE  SentInv'
<1> USE DEF Types
<1>1. Grows(tops, tops') /\ wire \in Seq(Messages)
  BY TopsGrow DEF LinkTypes
<1>2. \A h \in held : MessageOk(h.msg, tops')
  BY <1>1, OkGrows, HeldTypes DEF SentInv
<1>3. \A i \in 1..Len(wire) : MessageOk(wire[i], tops')
  BY <1>1, OkGrows DEF SentInv
<1>4. ASSUME NEW m \in Messages, MessageOk(m, tops'), wire' = Append(wire, m)
      PROVE  \A i \in 1..Len(wire') : MessageOk(wire'[i], tops')
  BY <1>1, <1>3, <1>4, AppendFacts
<1>5. CASE Publish
  <2>1. held' = held /\ (wire' = wire \/ wire' = Append(wire, NextPub))
    BY <1>5, PublishFacts
  <2>2. MessageOk(NextPub, tops')
    <3>1. ServerEpoch \in 1..Len(tops) /\ Top \in Nat /\ Len(tops') = Len(tops)
          /\ tops' = [tops EXCEPT ![ServerEpoch] = Top + 1]
      BY <1>5, NextPubType, PublishFacts, RecoveryBounds DEF ServerEpoch
    <3>2. tops'[ServerEpoch] = Top + 1
      BY <3>1 DEF ServerTypes
    <3>3. QED
      BY <3>1, <3>2 DEF MessageOk, PublishedIn, NextPub
  <2>3. QED
    BY <1>2, <1>3, <1>4, <2>1, <2>2, NextPubType DEF SentInv
<1>6. CASE Reset \/ Invalidate
  <2>1. held' = held /\ (wire' = wire \/ \E m \in Messages : m.type = "unsubscribe"
            /\ wire' = Append(wire, m))
    BY <1>6, UnsubscribedFacts
  <2>2. \A m \in Messages : m.type = "unsubscribe" => MessageOk(m, tops')
    BY DEF MessageOk
  <2>3. QED
    BY <1>2, <1>3, <1>4, <2>1, <2>2 DEF SentInv
<1>7. CASE Answered(G)
  <2>1. \E m \in Messages : wire' = Append(wire, m) /\ MessageOk(m, tops)
    BY <1>7, AnswerCases, AnswerOk
  <2>2. held' = held /\ tops' = tops
    BY <1>7, AnswerFacts
  <2>3. QED
    BY <1>2, <1>3, <1>4, <2>1, <2>2 DEF SentInv
<1>8. CASE Take
  <2>1. wire # <<>> /\ wire' = Tail(wire)
            /\ held' = held \cup {[connection |-> connection, msg |-> Head(wire)]}
    BY <1>8, FlowTake
  <2>2. Head(wire) = wire[1] /\ 1 \in 1..Len(wire)
        /\ \A i \in 1..Len(wire') : i + 1 \in 1..Len(wire) /\ wire'[i] = wire[i + 1]
    BY <1>1, <2>1, SeqFacts
  <2>3. QED
    BY <1>2, <1>3, <2>1, <2>2 DEF SentInv
<1>9. CASE ConnectionLost
  <2>1. held' \subseteq held /\ wire' = <<>>
    BY <1>9 DEF ConnectionLost
  <2>2. QED
    BY <1>2, <2>1 DEF SentInv
<1>10. ASSUME NEW h \in held, Handle(h) PROVE SentInv'
  <2>1. held' \subseteq held /\ wire' = wire
    BY <1>10, HandleFacts
  <2>2. QED
    BY <1>2, <1>3, <2>1 DEF SentInv
<1>11. CASE UNCHANGED <<held, wire>>
  BY <1>2, <1>3, <1>11 DEF SentInv
<1>12. QED
  BY <1>5, <1>6, <1>7, <1>8, <1>9, <1>10, <1>11, Frames

\* A step keeps that the entries of the queue carry what was published.
LEMMA EventsStep ==
  ASSUME NEW G \in BOOLEAN, StepOf(G), Types, SentInv, EventsInv
  PROVE  EventsInv'
<1> USE DEF Types
<1> DEFINE Ok(e) == EventOk(e, tops', subscribedSession')
<1>1. Grows(tops, tops') /\ queue \in Seq(Events)
  BY TopsGrow DEF QueueTypes
<1>2. subscribedSession \in Nat /\ subscribedSession' \in Nat
          /\ subscribedSession <= subscribedSession'
  <2>1. subscribedSession \in Nat
    BY DEF SubscriptionTypes
  <2>2. subscribedSession' = subscribedSession \/ subscribedSession' = subscribedSession + 1
    <3>1. ASSUME NEW h \in held, Handle(h)
          PROVE  subscribedSession' = subscribedSession
                     \/ subscribedSession' = subscribedSession + 1
      BY <3>1
         DEF Handle, HandleReply, HandleUnrecoverable, HandlePublication,
             HandleUnsubscribe, subscription
    <3>2. QED
      BY <3>1, Frames DEF Subscribe, Unsubscribe, ConnectionLost
  <2>3. QED
    BY <2>1, <2>2
<1>3. \A i \in 1..Len(queue) : Ok(queue[i])
  BY <1>1, <1>2, OkGrows DEF EventsInv
<1>4. SUFFICES \A i \in 1..Len(queue') : Ok(queue'[i])
  BY DEF EventsInv, EventOk, PublishedIn
<1> HIDE DEF Ok
<1>5. ASSUME NEW h \in held, Handle(h)
      PROVE  \/ queue' = queue
             \/ \E e \in Events : Ok(e) /\ queue' = Append(queue, e)
             \/ \E e, f \in Events : Ok(e) /\ Ok(f) /\ queue' = Append(Append(queue, e), f)
  <2>1. MessageOk(h.msg, tops) /\ h.msg \in Messages /\ h.connection \in Nat /\ tops' = tops
    BY <1>5, HeldTypes, HandleFacts DEF SentInv
  <2>2. CASE HandleReply(h) /\ Applies(h)
    <3> DEFINE e == SubscribedEvent(h.msg, h.connection)
               f == RecoveredEvent(h.msg, h.connection, subscribedSession + 1)
    <3>1. h.msg.type = "reply" /\ subscribedSession' = subscribedSession + 1
          /\ queue' = queue \o IF h.msg.pubs = <<>> THEN <<e>> ELSE <<e, f>>
      BY <2>2, ReplyFacts
    <3>2. e \in Events /\ f \in Events
      BY <1>2, <2>1, <3>1, EventTypes
    <3>3. Ok(e)
      BY DEF Ok, EventOk, SubscribedEvent, Told
    <3>4. Ok(f)
      <4>1. f.pubs = h.msg.pubs /\ f.session = subscribedSession' /\ f.kind = "publications"
        BY <3>1 DEF RecoveredEvent
      <4>2. h.msg.epoch \in Nat /\ h.msg.offset \in Nat /\ h.msg.pubs \in Seq(PubRecords)
        BY <2>1, <3>1, MessageTypes
      <4>3. \A k \in 1..Len(f.pubs) : f.pubs[k].id = <<h.msg.epoch, h.msg.offset + k>>
                                      /\ PublishedIn(tops', f.pubs[k].id)
        BY <2>1, <3>1, <4>1 DEF MessageOk
      <4>4. \A k \in 1..Len(f.pubs) - 1 : f.pubs[k + 1].id = Following(f.pubs[k].id)
        <5> SUFFICES ASSUME NEW k \in 1..Len(f.pubs) - 1
                     PROVE  f.pubs[k + 1].id = Following(f.pubs[k].id)
          OBVIOUS
        <5>1. k \in 1..Len(f.pubs) /\ k + 1 \in 1..Len(f.pubs)
          BY <4>1, <4>2
        <5>2. h.msg.offset + (k + 1) = (h.msg.offset + k) + 1
          BY <4>2
        <5>3. QED
          BY <4>3, <5>1, <5>2 DEF Following
      <4>5. subscribedSession' \in 1..subscribedSession'
        BY <1>2, <3>1
      <4>6. QED
        BY <4>1, <4>3, <4>4, <4>5 DEF Ok, EventOk
    <3> HIDE DEF e, f
    <3>5. queue' = Append(queue, e) \/ queue' = Append(Append(queue, e), f)
      BY <1>1, <3>1, <3>2
    <3>6. QED
      BY <3>2, <3>3, <3>4, <3>5
  <2>3. CASE HandlePublication(h) /\ state = "subscribed"
    <3> DEFINE e == PublicationEvent(h.msg, h.connection, h.connection # connection)
    <3>1. h.msg.type = "pub" /\ queue' = Append(queue, e)
      BY <2>3, PublicationFacts
    <3>2. e \in Events
      BY <2>1, <3>1, EventTypes
    <3>3. Ok(e)
      <4>1. e.pubs = <<h.msg.pub>> /\ e.kind = "publication"
        BY DEF PublicationEvent
      <4>2. \A k \in 1..Len(e.pubs) : e.pubs[k] = h.msg.pub
        BY <4>1
      <4>3. PublishedIn(tops', h.msg.pub.id)
        BY <2>1, <3>1 DEF MessageOk
      <4>4. QED
        BY <4>1, <4>2, <4>3 DEF Ok, EventOk
    <3> HIDE DEF e
    <3>4. QED
      BY <3>1, <3>2, <3>3
  <2>4. CASE HandleReply(h) /\ ~Applies(h)
    BY <2>4, ReplyFacts
  <2>5. CASE HandlePublication(h) /\ state # "subscribed"
    BY <2>5, PublicationFacts
  <2>6. CASE HandleUnrecoverable(h) \/ HandleUnsubscribe(h)
    BY <2>6 DEF HandleUnrecoverable, HandleUnsubscribe
  <2>7. QED
    BY <1>5, <2>2, <2>3, <2>4, <2>5, <2>6 DEF Handle
<1>6. ASSUME NEW q \in Seq(Events), \A i \in 1..Len(q) : Ok(q[i]), NEW e \in Events, Ok(e)
      PROVE  Append(q, e) \in Seq(Events) /\ \A i \in 1..Len(Append(q, e)) : Ok(Append(q, e)[i])
  BY <1>6, AppendFacts
<1>7. CASE \E h \in held : Handle(h)
  <2>1. CASE queue' = queue
    BY <1>3, <2>1
  <2>2. CASE \E e \in Events : Ok(e) /\ queue' = Append(queue, e)
    BY <1>1, <1>3, <1>6, <2>2
  <2>3. CASE \E e, f \in Events : Ok(e) /\ Ok(f) /\ queue' = Append(Append(queue, e), f)
    BY <1>1, <1>3, <1>6, <2>3
  <2>4. QED
    BY <1>5, <1>7, <2>1, <2>2, <2>3
<1>8. CASE queue # <<>> /\ queue' = Tail(queue)
  BY <1>1, <1>3, <1>8, SeqFacts
<1>9. CASE queue # <<>> /\ Len(Head(queue).pubs) > 1
          /\ queue' = <<Rest(Head(queue))>> \o Tail(queue)
  <2> DEFINE e == Head(queue)
             r == Rest(Head(queue))
  <2>1. e \in Events /\ Ok(e) /\ Tail(queue) \in Seq(Events)
        /\ \A i \in 1..Len(Tail(queue)) : Ok(Tail(queue)[i])
    BY <1>1, <1>3, <1>9, SeqFacts
  <2>2. e.pubs \in Seq(PubRecords) /\ e.pubs # <<>>
    BY <1>9, <2>1, EventFields
  <2>3. r \in Events /\ r.pubs = Tail(e.pubs) /\ r.kind = e.kind /\ r.session = e.session
    BY <2>1, <2>2, RestFields
  <2>4. /\ Len(r.pubs) = Len(e.pubs) - 1 /\ Len(e.pubs) \in Nat
        /\ \A k \in 1..Len(r.pubs) : r.pubs[k] = e.pubs[k + 1]
    <3> DEFINE s == e.pubs
               t == r.pubs
    <3>1. s \in Seq(PubRecords) /\ s # <<>> /\ t = Tail(s)
      BY <2>2, <2>3
    <3> HIDE DEF s, t, e, r
    <3>2. Len(t) = Len(s) - 1 /\ Len(s) \in Nat /\ \A k \in 1..Len(t) : t[k] = s[k + 1]
      BY <3>1, SeqFacts
    <3>3. QED
      BY <3>2 DEF s, t
  <2>5. Ok(r)
    <3>1. \A k \in 1..Len(r.pubs) : k + 1 \in 1..Len(e.pubs) /\ r.pubs[k] = e.pubs[k + 1]
      BY <2>4
    <3>2. \A k \in 1..Len(r.pubs) - 1 : /\ k + 1 \in 1..Len(e.pubs) - 1
              /\ k + 1 \in 1..Len(r.pubs)
                                        /\ k \in 1..Len(r.pubs)
      BY <2>4
    <3> HIDE DEF e, r
    <3>3. \A k \in 1..Len(r.pubs) : PublishedIn(tops', r.pubs[k].id)
      BY <2>1, <3>1 DEF Ok, EventOk
    <3>4. e.kind = "publications"
              => \A k \in 1..Len(r.pubs) - 1 : r.pubs[k + 1].id = Following(r.pubs[k].id)
      BY <2>1, <3>1, <3>2 DEF Ok, EventOk
    <3>5. QED
      BY <2>1, <2>3, <3>3, <3>4 DEF Ok, EventOk
  <2>6. QED
    BY <1>9, <2>1, <2>3, <2>5
<1>10. CASE queue' = queue
  BY <1>3, <1>10
<1>11. CASE Dispatcher
  <2>1. queue # <<>> /\ (queue' = Tail(queue) \/ (Len(Head(queue).pubs) > 1
            /\ queue' = <<Rest(Head(queue))>> \o Tail(queue)))
    BY <1>11, DispatcherFacts
  <2>2. QED
    BY <1>8, <1>9, <2>1
<1>12. QED
  BY <1>7, <1>10, <1>11, Frames

\* The publication a message leaves in prevData, and the position it leads to.
LastId(m) == IF m.type = "pub" THEN m.pub.id
             ELSE IF m.type = "reply" /\ m.pubs # <<>> THEN m.pubs[Len(m.pubs)].id ELSE Nothing

\* The position a message leads to, Unknown if the server gives none.
PosAfter(m) == IF m.type = "pub" THEN m.pub.id
               ELSE IF m.pubs # <<>> THEN m.pubs[Len(m.pubs)].id
               ELSE IF m.epoch = NoEpoch THEN Unknown ELSE <<m.epoch, m.offset>>

\* A publication follows what the message before it leads to.
Link(m, pub) ==
  /\ m.type \in {"pub", "reply"}
  /\ pub.base # Nothing => pub.base = LastId(m)
  /\ PosAfter(m) = Unknown \/ pub.id = Following(PosAfter(m))

\* Every publication is linked to the message before it.
Chain(f) == \A i \in 2..Len(f) : f[i].type = "pub" => Link(f[i - 1], f[i].pub)

\* The messages ahead are such a chain.
ChainInv == Chain(Ahead)

\* The first publication ahead is made against what the client keeps in prevData, unless a
\* publication of an older connection is what it keeps.
FirstInv ==
  (state = "subscribed" /\ Ahead # <<>> /\ Ahead[1].type = "pub")
  => (tainted # subscribedSession /\ Ahead[1].pub.base # Nothing
      => prevData = Ahead[1].pub.base)

\* A chain without its first message is a chain.
LEMMA ChainTail ==
  ASSUME NEW S, NEW f \in Seq(S), f # <<>>, Chain(f)
  PROVE  Chain(Tail(f))
<1>1. Len(f) \in Nat /\ Len(Tail(f)) = Len(f) - 1
          /\ \A i \in 1..Len(Tail(f)) : Tail(f)[i] = f[i + 1]
  BY SeqFacts
<1>2. SUFFICES ASSUME NEW i \in 2..Len(Tail(f)), Tail(f)[i].type = "pub"
               PROVE  Link(Tail(f)[i - 1], Tail(f)[i].pub)
  BY DEF Chain
<1>3. i + 1 \in 2..Len(f) /\ Tail(f)[i] = f[i + 1] /\ Tail(f)[i - 1] = f[(i + 1) - 1]
  <2>1. i \in 1..Len(Tail(f)) /\ i - 1 \in 1..Len(Tail(f)) /\ (i - 1) + 1 = i /\ (i + 1) - 1 = i
        /\ i + 1 \in 2..Len(f)
    BY <1>1
  <2>2. QED
    BY <1>1, <2>1
<1>4. QED
  BY <1>2, <1>3 DEF Chain

\* A chain goes on with a message that is no publication, or with one that is linked.
LEMMA ChainAppend ==
  ASSUME NEW S, NEW f \in Seq(S), NEW m \in S
  PROVE  /\ Chain(Append(f, m)) => Chain(f)
         /\ Chain(f) /\ m.type # "pub" => Chain(Append(f, m))
         /\ Chain(f) /\ (f # <<>> => Link(f[Len(f)], m.pub)) => Chain(Append(f, m))
<1> DEFINE g == Append(f, m)
           n == Len(f)
<1>1. n \in Nat /\ Len(g) = n + 1 /\ g[n + 1] = m /\ \A i \in 1..n : g[i] = f[i]
  BY AppendFacts
<1>2. f # <<>> => n # 0
  OBVIOUS
<1>3. n # 0 => f # <<>>
  OBVIOUS
<1> HIDE DEF g, n
<1>4. \A i \in 2..n : i \in 2..n + 1 /\ g[i] = f[i] /\ g[i - 1] = f[i - 1]
  BY <1>1
<1>5. \A i \in 2..n + 1 : i \in 2..n \/ (i = n + 1 /\ n # 0 /\ g[i] = m /\ g[i - 1] = f[n])
  <2> SUFFICES ASSUME NEW i \in 2..n + 1
               PROVE  i \in 2..n \/ (i = n + 1 /\ n # 0 /\ g[i] = m /\ g[i - 1] = f[n])
    OBVIOUS
  <2>1. CASE i \in 2..n
    BY <2>1
  <2>2. CASE i \notin 2..n
    <3>1. i = n + 1 /\ n \in 1..n /\ i - 1 = n /\ n # 0
      BY <1>1, <2>2
    <3>2. QED
      BY <1>1, <3>1
  <2>3. QED
    BY <2>1, <2>2
<1>6. Chain(f) <=> \A i \in 2..n : f[i].type = "pub" => Link(f[i - 1], f[i].pub)
  BY DEF Chain, n
<1>7. Chain(g) <=> \A i \in 2..n + 1 : g[i].type = "pub" => Link(g[i - 1], g[i].pub)
  BY <1>1 DEF Chain
<1>8. Chain(g) => Chain(f)
  BY <1>4, <1>6, <1>7
<1>9. Chain(f) /\ m.type # "pub" => Chain(g)
  BY <1>4, <1>5, <1>6, <1>7
<1>10. Chain(f) /\ (f # <<>> => Link(f[n], m.pub)) => Chain(g)
  BY <1>3, <1>4, <1>5, <1>6, <1>7
<1>11. QED
  BY <1>8, <1>9, <1>10 DEF g, n

\* The next publication follows the reply to a subscribe command.
LEMMA LinkOfReply ==
  ASSUME ServerTypes, NEW a, NEW o \in Nat, o <= Top, NEW pub, pub.id = <<ServerEpoch, Top + 1>>
  PROVE  /\ pub.base = (IF o = Top THEN Nothing ELSE <<ServerEpoch, Top>>)
              => Link(Replied(a, ServerEpoch, o, History(o), TRUE), pub)
         /\ pub.base = Nothing => Link(Replied(a, ServerEpoch, Top, <<>>, FALSE), pub)
                                  /\ Link(Replied(a, NoEpoch, 0, <<>>, FALSE), pub)
<1>1. ServerEpoch \in Nat \ {0} /\ Top \in Nat
  BY NextPubType, RecoveryBounds
<1>2. pub.id = Following(<<ServerEpoch, Top>>)
  BY DEF Following
<1>3. ASSUME pub.base = (IF o = Top THEN Nothing ELSE <<ServerEpoch, Top>>)
      PROVE  Link(Replied(a, ServerEpoch, o, History(o), TRUE), pub)
  <2> DEFINE p == History(o)
             n == Top - o
             m == Replied(a, ServerEpoch, o, p, TRUE)
  <2>1. /\ p \in Seq(PubRecords) /\ Len(p) = n
        /\ \A i \in 1..n : p[i].id = <<ServerEpoch, o + i>>
    BY HistoryType
  <2>2. m.type = "reply" /\ m.pubs = p /\ m.epoch = ServerEpoch /\ m.offset = o
    BY DEF Replied
  <2>3. CASE o = Top
    <3>1. p = <<>>
      BY <2>1, <2>3, <1>1
    <3>2. PosAfter(m) = <<ServerEpoch, Top>>
      BY <1>1, <2>2, <2>3, <3>1 DEF PosAfter, NoEpoch
    <3>3. QED
      BY <1>2, <1>3, <2>2, <2>3, <3>2 DEF Link
  <2>4. CASE o # Top
    <3>1. n \in 1..n /\ o + n = Top
      BY <1>1, <2>4
    <3>2. p # <<>>
      BY <2>1, <3>1
    <3>3. p[Len(p)].id = <<ServerEpoch, Top>>
      BY <2>1, <3>1
    <3>4. PosAfter(m) = <<ServerEpoch, Top>> /\ LastId(m) = <<ServerEpoch, Top>>
      BY <2>2, <3>2, <3>3 DEF PosAfter, LastId
    <3> HIDE DEF m, p, n
    <3>5. Link(m, pub)
      BY <1>2, <1>3, <2>2, <2>4, <3>4 DEF Link
    <3>6. QED
      BY <3>5 DEF m, p
  <2>5. QED
    BY <2>3, <2>4
<1>4. ASSUME pub.base = Nothing
      PROVE  Link(Replied(a, ServerEpoch, Top, <<>>, FALSE), pub)
  <2>1. PosAfter(Replied(a, ServerEpoch, Top, <<>>, FALSE)) = <<ServerEpoch, Top>>
    BY <1>1 DEF PosAfter, Replied, NoEpoch
  <2>2. Replied(a, ServerEpoch, Top, <<>>, FALSE).type = "reply"
    BY DEF Replied
  <2>3. QED
    BY <1>2, <1>4, <2>1, <2>2 DEF Link
<1>5. ASSUME pub.base = Nothing
      PROVE  Link(Replied(a, NoEpoch, 0, <<>>, FALSE), pub)
  BY <1>5 DEF Link, PosAfter, Replied
<1>6. QED
  BY <1>3, <1>4, <1>5

\* A step keeps the next publication a message.
LEMMA NextPubStep ==
  ASSUME NEW G \in BOOLEAN, StepOf(G), Types
  PROVE  NextPub' \in Messages
<1>1. ServerTypes'
  BY ServerTypesStep
<1>2. /\ tops' \in Seq(0..MaxPublished) /\ tops' # <<>> /\ base' \in Positions
  BY <1>1 DEF ServerTypes
<1>3. ServerEpoch' \in Nat /\ Top' \in Nat
  <2>1. \A n \in 0..MaxPublished : n \in Nat
    BY RecoveryBounds
  <2>2. Len(tops') \in 1..Len(tops') /\ Len(tops') \in Nat
    BY <1>2
  <2>3. tops'[Len(tops')] \in 0..MaxPublished
    <3>1. \A t \in Seq(0..MaxPublished) : t # <<>> => t[Len(t)] \in 0..MaxPublished
      <4>1. \A S : \A t \in Seq(S) : t # <<>> => t[Len(t)] \in S
        OBVIOUS
      <4>2. QED
        BY <4>1
    <3>2. QED
      BY <1>2, <3>1
  <2>4. QED
    BY <2>1, <2>2, <2>3 DEF ServerEpoch, Top
<1>4. <<ServerEpoch', Top' + 1>> \in Positions
  BY <1>3 DEF Positions
<1>5. QED
  BY <1>2, <1>4, PubMessage DEF NextPub

\* A step keeps the chain: the server makes a delta against the last publication it sent
\* on this subscription, or sends it in full.
LEMMA ChainStep ==
  ASSUME NEW G \in BOOLEAN, StepOf(G), Types, ReaderInv, ChainInv
  PROVE  ChainInv'
<1> USE DEF Types
<1>1. Ahead \in Seq(Messages) /\ Flow \in Seq(Messages) /\ NextPub \in Messages
      /\ ServerEpoch \in Nat /\ Top \in Nat /\ NextPub' \in Messages
  BY AheadType, FlowType, NextPubType, NextPubStep, RecoveryBounds
<1>2. Chain(Ahead) /\ Chain(Flow)
  BY <1>1, ChainAppend DEF ChainInv, Ahead
<1>3. SUFFICES Chain(Ahead')
  BY DEF ChainInv, Chain, Link, LastId, PosAfter, Following
<1>4. CASE Publish
  <2>1. CASE serverSub
    <3>1. Ahead = Append(Flow, NextPub) /\ Ahead' = Append(Ahead, NextPub')
          /\ NextPub.type = "pub" /\ NextPub.pub.id = <<ServerEpoch, Top + 1>>
          /\ NextPub'.pub.id = <<ServerEpoch, Top + 2>> /\ NextPub'.pub.base = NextPub.pub.id
      BY <1>4, <2>1, PublishFacts
    <3>2. Ahead[Len(Ahead)] = NextPub
      BY <1>1, <3>1, AppendFacts
    <3>3. Link(NextPub, NextPub'.pub)
      <4>1. Following(<<ServerEpoch, Top + 1>>) = <<ServerEpoch, Top + 2>>
        <5>1. (Top + 1) + 1 = Top + 2
          BY <1>1
        <5>2. QED
          BY <5>1 DEF Following
      <4>2. QED
        BY <3>1, <4>1 DEF Link, LastId, PosAfter
    <3>4. QED
      BY <1>1, <1>2, <3>1, <3>2, <3>3, ChainAppend
  <2>2. CASE ~serverSub
    BY <1>2, <1>4, <2>2, PublishFacts
  <2>3. QED
    BY <2>1, <2>2
<1>5. CASE Reset \/ Invalidate
  <2>1. CASE Ahead' = Flow
    BY <1>2, <2>1
  <2>2. CASE \E m \in Messages : m.type = "unsubscribe" /\ Ahead' = Append(Flow, m)
    BY <1>1, <1>2, <2>2, ChainAppend
  <2>3. QED
    BY <1>5, <2>1, <2>2, AheadUnsubscribed
<1>6. CASE Answered(G)
  <2> DEFINE cmd == Head(commands)
             o == cmd.offset
  <2>1. o \in Nat
    BY <1>6, AnswerCases
  <2>2. PICK m \in Messages :
              /\ wire' = Append(wire, m)
              /\ \/ /\ cmd.recover /\ cmd.epoch \in {NoEpoch, ServerEpoch} /\ o <= Top
                    /\ m = Replied(cmd.attempt, ServerEpoch, o, History(o), TRUE)
                    /\ serverSub' = TRUE
                    /\ base' = IF o = Top THEN Nothing ELSE <<ServerEpoch, Top>>
                 \/ /\ ~G /\ serverSub' = TRUE /\ base' = Nothing
                    /\ m = Replied(cmd.attempt, ServerEpoch, Top, <<>>, FALSE)
                 \/ /\ ~G /\ serverSub' = TRUE /\ base' = Nothing
                    /\ m = Replied(cmd.attempt, NoEpoch, 0, <<>>, FALSE)
                 \/ /\ serverSub' = FALSE /\ base' = Nothing
                    /\ m = [type |-> "unrecoverable", attempt |-> cmd.attempt]
    BY <1>6, AnswerCases
  <2>3. /\ Ahead' = IF serverSub' THEN Append(Append(Flow, m), NextPub') ELSE Append(Flow, m)
        /\ NextPub'.pub.id = <<ServerEpoch, Top + 1>> /\ NextPub'.pub.base = base'
    BY <1>6, <2>2, AheadAnswered
  <2>4. m.type # "pub"
    BY <2>2 DEF Replied
  <2>5. Chain(Append(Flow, m)) /\ Append(Flow, m) \in Seq(Messages)
        /\ Append(Flow, m)[Len(Append(Flow, m))] = m
    BY <1>1, <1>2, <2>4, ChainAppend, AppendFacts
  <2>6. serverSub' => Link(m, NextPub'.pub)
    <3>1. Top <= Top /\ 0 <= Top
      BY <1>1
    <3> HIDE DEF o, cmd
    <3>2. CASE m = Replied(cmd.attempt, ServerEpoch, o, History(o), TRUE) /\ o <= Top
               /\ base' = IF o = Top THEN Nothing ELSE <<ServerEpoch, Top>>
      BY <2>1, <2>3, <3>2, LinkOfReply
    <3>3. CASE base' = Nothing /\ \/ m = Replied(cmd.attempt, ServerEpoch, Top, <<>>, FALSE)
                                  \/ m = Replied(cmd.attempt, NoEpoch, 0, <<>>, FALSE)
      BY <1>1, <2>3, <3>1, <3>3, LinkOfReply
    <3>4. QED
      BY <2>2, <3>2, <3>3
  <2> HIDE DEF o, cmd
  <2>7. QED
    BY <1>1, <2>3, <2>5, <2>6, ChainAppend
<1>7. ASSUME NEW h \in held, Handle(h) PROVE Chain(Ahead')
  BY <1>1, <1>2, <1>7, AheadHandled, ChainTail
<1>8. CASE Ahead' = <<>>
  BY <1>8 DEF Chain
<1>9. CASE Ahead' = Flow \/ Ahead' = Ahead
  BY <1>2, <1>9
<1>10. QED
  BY <1>4, <1>5, <1>6, <1>7, <1>8, <1>9, FlowCases

\* Between the messages the reader handles, the first publication ahead of a
\* subscribed client is the same.
LEMMA FirstKept ==
  ASSUME NEW G \in BOOLEAN, StepOf(G), Types, ReaderInv, AskInv,
         state' = "subscribed", Ahead' # <<>>, Ahead'[1].type = "pub"
  PROVE  \/ \E h \in held : Handle(h)
         \/ /\ state = "subscribed" /\ Ahead # <<>> /\ Ahead[1] = Ahead'[1]
            /\ UNCHANGED <<subscribedSession, inflight, tainted, prevData, connection>>
<1> USE DEF Types
<1>1. SUFFICES ASSUME ~\E h \in held : Handle(h)
               PROVE  /\ state = "subscribed" /\ Ahead # <<>> /\ Ahead[1] = Ahead'[1]
                      /\ UNCHANGED <<subscribedSession, inflight, tainted, prevData,
                         connection>>
  OBVIOUS
<1>2. Flow \in Seq(Messages) /\ Ahead \in Seq(Messages) /\ NextPub \in Messages
          /\ NextPub' \in Messages
  BY FlowType, AheadType, NextPubType, NextPubStep
<1>3. ~(Subscribe \/ Unsubscribe \/ ConnectionLost)
  BY DEF Subscribe, Unsubscribe, ConnectionLost
<1>4. UNCHANGED <<state, subscribedSession, tainted, prevData, connection>>
  BY <1>1, <1>3, Frames
<1>5. ~Sends(G)
  BY <1>4, SendFacts
<1>6. UNCHANGED inflight
  BY <1>1, <1>3, <1>5, Frames
<1>7. ~Answered(G)
  <2>1. SUFFICES ASSUME Answered(G) PROVE FALSE
    OBVIOUS
  <2>2. commands # <<>> /\ IsAsk(Head(commands)) /\ commands \in Seq(Commands)
    BY <2>1, AnswerFacts DEF LinkTypes, IsAsk
  <2>3. 1 \in 1..Len(commands) /\ IsAsk(commands[1])
    BY <2>2
  <2>4. QED
    BY <1>4, <2>3 DEF AskInv, Asked
<1>8. \A f \in Seq(Messages) : \A m \in Messages : f # <<>>
          => Append(f, m)[1] = f[1] /\ Append(f, m) # <<>>
  BY TailAppend
<1>9. Flow # <<>> => Ahead # <<>> /\ Ahead[1] = Flow[1]
  BY <1>2, <1>8 DEF Ahead
<1>10. CASE Ahead' = Ahead
  BY <1>4, <1>6, <1>10
<1>11. CASE Ahead' = Flow
  BY <1>4, <1>6, <1>9, <1>11
<1>12. CASE Publish
  <2>1. CASE serverSub
    <3>1. Ahead = Append(Flow, NextPub) /\ Ahead' = Append(Ahead, NextPub')
      BY <1>12, <2>1, PublishFacts
    <3>2. Ahead # <<>>
      BY <1>2, <3>1
    <3>3. QED
      BY <1>2, <1>4, <1>6, <1>8, <3>1, <3>2
  <2>2. CASE ~serverSub
    BY <1>11, <1>12, <2>2, PublishFacts
  <2>3. QED
    BY <2>1, <2>2
<1>13. CASE Reset \/ Invalidate
  <2>1. CASE \E m \in Messages : m.type = "unsubscribe" /\ Ahead' = Append(Flow, m)
    <3>1. PICK m \in Messages : m.type = "unsubscribe" /\ Ahead' = Append(Flow, m)
      BY <2>1
    <3>2. Flow # <<>>
      <4>1. Flow = <<>> => Append(Flow, m)[1] = m
        OBVIOUS
      <4>2. QED
        BY <3>1, <4>1
    <3>3. QED
      BY <1>2, <1>4, <1>6, <1>8, <1>9, <3>1, <3>2
  <2>2. QED
    BY <1>11, <1>13, <2>1, AheadUnsubscribed
<1>14. QED
  BY <1>1, <1>3, <1>7, <1>10, <1>11, <1>12, <1>13, FlowCases

\* A step keeps the base of the first publication: a reply leaves the last of its
\* publications in prevData, a publication itself.
LEMMA FirstStep ==
  ASSUME NEW G \in BOOLEAN, StepOf(G), Types, ReaderInv, AskInv, ChainInv, FirstInv
  PROVE  FirstInv'
<1> USE DEF Types
<1>1. SUFFICES ASSUME state' = "subscribed", Ahead' # <<>>, Ahead'[1].type = "pub",
                      tainted' # subscribedSession', Ahead'[1].pub.base # Nothing
               PROVE  prevData' = Ahead'[1].pub.base
  BY DEF FirstInv, Nothing
<1>2. ASSUME NEW h \in held, Handle(h) PROVE prevData' = Ahead'[1].pub.base
  <2>1. Ahead \in Seq(Messages) /\ h.msg \in Messages
    BY AheadType, HeldTypes
  <2>2. h.connection = connection =>
          /\ Flow # <<>> /\ h.msg = Flow[1] /\ Ahead # <<>> /\ h.msg = Ahead[1]
          /\ Ahead' = Tail(Ahead) /\ Link(h.msg, Ahead'[1].pub)
    <3>1. SUFFICES ASSUME h.connection = connection
                   PROVE  /\ Flow # <<>> /\ h.msg = Flow[1] /\ Ahead # <<>> /\ h.msg = Ahead[1]
                          /\ Ahead' = Tail(Ahead) /\ Link(h.msg, Ahead'[1].pub)
      OBVIOUS
    <3>2. Flow # <<>> /\ h.msg = Flow[1] /\ Ahead # <<>> /\ h.msg = Ahead[1]
              /\ Ahead' = Tail(Ahead)
      BY <1>2, <3>1, AheadHandled
    <3>3. Ahead'[1] = Ahead[2] /\ 2 \in 2..Len(Ahead)
      BY <1>1, <2>1, <3>2
    <3>4. Link(Ahead[2 - 1], Ahead[2].pub)
      BY <1>1, <3>3 DEF ChainInv, Chain
    <3>5. QED
      BY <3>2, <3>3, <3>4
  <2>3. h.connection # connection => Ahead' = Ahead
    BY <1>2, AheadHandled
  <2>4. state = "subscribed" /\ h.connection = connection => ~IsAnswer(h.msg)
    <3>1. SUFFICES ASSUME state = "subscribed", h.connection = connection, IsAnswer(h.msg)
                   PROVE  FALSE
      OBVIOUS
    <3>2. 1 \in 1..Len(Flow) /\ IsAnswer(Flow[1])
      BY <2>2, <3>1, FlowType
    <3>3. QED
      BY <3>1, <3>2 DEF AskInv, Asked
  <2>5. CASE HandleReply(h) /\ Applies(h)
    <3>1. h.connection = connection /\ h.msg.type = "reply" /\ prevData' = Decoded(h.msg.pubs)
      BY <2>5, ReplyFacts DEF Applies
    <3>2. Ahead'[1].pub.base = LastId(h.msg)
      BY <1>1, <2>2, <3>1 DEF Link
    <3>3. h.msg.pubs # <<>>
      BY <1>1, <3>1, <3>2 DEF LastId
    <3>4. QED
      BY <3>1, <3>2, <3>3 DEF LastId, Decoded
  <2>6. CASE HandlePublication(h)
    <3>1. h.msg.type = "pub" /\ state = "subscribed" /\ h.connection = connection
          /\ prevData' = h.msg.pub.id
      BY <1>1, <2>6, PublicationFacts DEF subscription
    <3>2. QED
      BY <1>1, <2>2, <3>1 DEF Link, LastId
  <2>7. CASE (HandleReply(h) /\ ~Applies(h)) \/ HandleUnrecoverable(h)
    <3>1. state = "subscribed" /\ IsAnswer(h.msg)
          /\ UNCHANGED <<subscribedSession, tainted>>
      BY <1>1, <2>7, ReplyFacts DEF HandleUnrecoverable, IsAnswer, decoding
    <3>2. prevData' = prevData
      BY <2>7, <3>1, ReplyFacts DEF HandleUnrecoverable, Applies
    <3>3. h.connection # connection
      BY <2>4, <3>1
    <3>4. QED
      BY <1>1, <2>3, <3>1, <3>2, <3>3 DEF FirstInv
  <2>8. CASE HandleUnsubscribe(h)
    BY <1>1, <2>8 DEF HandleUnsubscribe
  <2>9. QED
    BY <1>2, <2>5, <2>6, <2>7, <2>8 DEF Handle
<1>3. QED
  BY <1>1, <1>2, FirstKept DEF FirstInv

\* A step decodes no delta against the wrong base.
LEMMA DecodedStep ==
  ASSUME NEW G \in BOOLEAN, StepOf(G), Types, ReaderInv, SentInv, FirstInv, misdecoded = FALSE
  PROVE  misdecoded' = FALSE
<1> USE DEF Types
<1>1. ASSUME NEW h \in held, Handle(h) PROVE misdecoded' = FALSE
  <2>1. h.msg \in Messages /\ MessageOk(h.msg, tops)
    BY HeldTypes DEF SentInv
  <2>2. CASE HandleReply(h) /\ Applies(h)
    <3>1. h.msg.type = "reply" /\ misdecoded' = (misdecoded \/ ~WellBased(h.msg.pubs))
      BY <2>2, ReplyFacts
    <3>2. h.msg.offset \in Nat /\ Len(h.msg.pubs) \in Nat
      BY <2>1, <3>1, MessageTypes
    <3>3. \A k \in 1..Len(h.msg.pubs) :
            /\ h.msg.pubs[k].id = <<h.msg.epoch, h.msg.offset + k>>
            /\ h.msg.pubs[k].base = IF k = 1 THEN Nothing ELSE <<h.msg.epoch,
               h.msg.offset + k - 1>>
      BY <2>1, <3>1 DEF MessageOk
    <3>4. WellBased(h.msg.pubs)
      <4>1. SUFFICES ASSUME NEW k \in 1..Len(h.msg.pubs), h.msg.pubs[k].base # Nothing
                     PROVE  h.msg.pubs[k].base = IF k = 1 THEN prevData
                                ELSE h.msg.pubs[k - 1].id
        BY DEF WellBased
      <4>2. k # 1
        BY <3>3, <4>1
      <4>3. k - 1 \in 1..Len(h.msg.pubs) /\ h.msg.offset + (k - 1) = h.msg.offset + k - 1
        BY <3>2, <4>2
      <4>4. QED
        BY <3>3, <4>2, <4>3
    <3>5. QED
      BY <3>1, <3>4
  <2>3. CASE HandlePublication(h) /\ state = "subscribed"
    <3>1. /\ h.msg.type = "pub"
          /\ tainted' = IF h.connection # connection THEN subscribedSession ELSE tainted
          /\ misdecoded' = (misdecoded \/ (tainted' # subscribedSession
                 /\ ~WellBased(<<h.msg.pub>>)))
      BY <2>3, PublicationFacts
    <3>2. CASE h.connection # connection
      BY <3>1, <3>2
    <3>3. CASE h.connection = connection
      <4>1. Ahead # <<>> /\ h.msg = Ahead[1]
        BY <1>1, <3>3, AheadHandled
      <4>2. tainted # subscribedSession /\ h.msg.pub.base # Nothing => h.msg.pub.base = prevData
        BY <2>3, <3>1, <4>1 DEF FirstInv
      <4>3. tainted # subscribedSession => WellBased(<<h.msg.pub>>)
        BY <4>2 DEF WellBased
      <4>4. QED
        BY <3>1, <3>3, <4>3
    <3>4. QED
      BY <3>2, <3>3
  <2>4. CASE HandleReply(h) /\ ~Applies(h)
    BY <2>4, ReplyFacts
  <2>5. CASE HandlePublication(h) /\ state # "subscribed"
    BY <2>5, PublicationFacts DEF decoding
  <2>6. CASE HandleUnrecoverable(h) \/ HandleUnsubscribe(h)
    BY <2>6 DEF HandleUnrecoverable, HandleUnsubscribe, decoding
  <2>7. QED
    BY <1>1, <2>2, <2>3, <2>4, <2>5, <2>6 DEF Handle
<1>2. QED
  BY <1>1, Frames

------------------------------------------------------------------------------
(* With GetState, what cannot be recovered is rejected *)

\* Where GetState is in use, a subscription asks with a position, and a reply recovered it.
ReplyRecovered(G, m) == G /\ m.type = "reply" => m.recovered

\* So OnSubscribed says.
EventRecovered(G, e) == G => e.kind \notin {"unrecovered", "noPosition"}

\* Where it is not in use, nothing is loaded.
GetStateInv(G) ==
  /\ \A h \in held : ReplyRecovered(G, h.msg)
  /\ \A i \in 1..Len(wire) : ReplyRecovered(G, wire[i])
  /\ \A i \in 1..Len(queue) : EventRecovered(G, queue[i])
  /\ ~G => loaded = Unknown

\* A step keeps that: the server refuses a subscribe it cannot recover (strict recovery).
LEMMA GetStateStep ==
  ASSUME NEW G \in BOOLEAN, StepOf(G), Types, GetStateInv(G)
  PROVE  /\ \A h \in held' : ReplyRecovered(G, h.msg)
         /\ \A i \in 1..Len(wire') : ReplyRecovered(G, wire'[i])
         /\ \A i \in 1..Len(queue') : EventRecovered(G, queue'[i])
         /\ ~G => loaded' = Unknown
<1> USE DEF Types
<1>1. wire \in Seq(Messages) /\ queue \in Seq(Events)
  BY DEF LinkTypes, QueueTypes
<1> DEFINE R(m) == ReplyRecovered(G, m)
           E(e) == EventRecovered(G, e)
<1>2. (\A h \in held : R(h.msg)) /\ (\A i \in 1..Len(wire) : R(wire[i]))
      /\ \A i \in 1..Len(queue) : E(queue[i])
  BY DEF GetStateInv
<1>3. \A m \in Messages : m.type # "reply" => R(m)
  BY DEF ReplyRecovered
<1>4. ASSUME Answered(G) PROVE \E m \in Messages : wire' = Append(wire, m) /\ R(m)
  <2>1. PICK m \in Messages :
          /\ wire' = Append(wire, m)
          /\ \/ \E a, e, o, p : m = Replied(a, e, o, p, TRUE)
             \/ ~G
             \/ \E a : m = [type |-> "unrecoverable", attempt |-> a]
    <3>1. PICK m \in Messages :
            /\ wire' = Append(wire, m)
            /\ \/ m = Replied(Head(commands).attempt, ServerEpoch, Head(commands).offset,
                               History(Head(commands).offset), TRUE)
               \/ ~G
               \/ m = [type |-> "unrecoverable", attempt |-> Head(commands).attempt]
      BY <1>4, AnswerCases
    <3>2. QED
      BY <3>1
  <2>2. CASE \E a, e, o, p : m = Replied(a, e, o, p, TRUE)
    <3>1. m.recovered = TRUE
      BY <2>2 DEF Replied
    <3>2. QED
      BY <2>1, <3>1 DEF R, ReplyRecovered
  <2>3. CASE ~G
    BY <2>1, <2>3 DEF R, ReplyRecovered
  <2>4. CASE \E a : m = [type |-> "unrecoverable", attempt |-> a]
    <3>1. m.type # "reply"
      BY <2>4
    <3>2. QED
      BY <2>1, <3>1 DEF R, ReplyRecovered
  <2>5. QED
    BY <2>1, <2>2, <2>3, <2>4
<1>5. \A e, f \in Events : e.kind = f.kind /\ E(e) => E(f)
  BY DEF EventRecovered
<1> HIDE DEF R, E
<1>6. \A h \in held' : R(h.msg)
  <2>1. CASE Take
    <3>1. wire # <<>> /\ held' = held \cup {[connection |-> connection, msg |-> Head(wire)]}
      BY <2>1, FlowTake
    <3>2. Head(wire) = wire[1] /\ 1 \in 1..Len(wire)
      BY <1>1, <3>1
    <3>3. QED
      BY <1>2, <3>1, <3>2
  <2>2. CASE held' \subseteq held
    BY <1>2, <2>2
  <2>3. (\E h \in held : Handle(h)) \/ ConnectionLost => held' \subseteq held
    BY HandleFacts DEF ConnectionLost
  <2>4. QED
    BY <2>1, <2>2, <2>3, Frames
<1>7. \A i \in 1..Len(wire') : R(wire'[i])
  <2>1. CASE \E m \in Messages : wire' = Append(wire, m) /\ R(m)
    BY <1>1, <1>2, <2>1, AppendFacts
  <2>2. CASE wire' = wire
    BY <1>2, <2>2
  <2>3. CASE wire # <<>> /\ wire' = Tail(wire)
    BY <1>1, <1>2, <2>3, SeqFacts
  <2>4. CASE wire' = <<>>
    BY <2>4
  <2>5. Take => wire # <<>> /\ wire' = Tail(wire)
    BY FlowTake
  <2>6. ConnectionLost => wire' = <<>>
    BY DEF ConnectionLost
  <2>7. Publish => wire' = wire \/ \E m \in Messages : wire' = Append(wire, m) /\ R(m)
    BY <1>3, NextPubType, PublishFacts DEF NextPub
  <2>8. Reset \/ Invalidate => wire' = wire \/ \E m \in Messages : wire' = Append(wire, m)
            /\ R(m)
    BY <1>3, UnsubscribedFacts
  <2>9. QED
    BY <1>4, <2>1, <2>2, <2>3, <2>4, <2>5, <2>6, <2>7, <2>8, Frames
<1>8. \A i \in 1..Len(queue') : E(queue'[i])
  <2>1. ASSUME NEW q \in Seq(Events), \A i \in 1..Len(q) : E(q[i]), NEW e \in Events, E(e)
        PROVE  Append(q, e) \in Seq(Events)
                   /\ \A i \in 1..Len(Append(q, e)) : E(Append(q, e)[i])
    BY <2>1, AppendFacts
  <2>2. CASE queue' = queue
    BY <1>2, <2>2
  <2>3. ASSUME NEW h \in held, Handle(h)
        PROVE  \/ queue' = queue
               \/ \E e \in Events : E(e) /\ queue' = Append(queue, e)
               \/ \E e, f \in Events : E(e) /\ E(f) /\ queue' = Append(Append(queue, e), f)
    <3>1. h.msg \in Messages /\ R(h.msg)
      BY <1>2, HeldTypes
    <3>2. CASE HandleReply(h) /\ Applies(h)
      <4> DEFINE e == SubscribedEvent(h.msg, h.connection)
                 f == RecoveredEvent(h.msg, h.connection, subscribedSession + 1)
      <4>1. h.msg.type = "reply"
                /\ queue' = queue \o IF h.msg.pubs = <<>> THEN <<e>> ELSE <<e, f>>
        BY <3>2, ReplyFacts
      <4>2. subscribedSession + 1 \in Nat /\ h.connection \in Nat
        BY HeldTypes DEF SubscriptionTypes
      <4>3. e \in Events /\ f \in Events
        BY <3>1, <4>1, <4>2, EventTypes
      <4>4. E(e) /\ E(f)
        BY <3>1, <4>1
           DEF E, R, EventRecovered, ReplyRecovered, SubscribedEvent, RecoveredEvent, Told
      <4> HIDE DEF e, f
      <4>5. queue' = Append(queue, e) \/ queue' = Append(Append(queue, e), f)
        BY <1>1, <4>1, <4>3
      <4>6. QED
        BY <4>3, <4>4, <4>5
    <3>3. CASE HandlePublication(h) /\ state = "subscribed"
      <4> DEFINE e == PublicationEvent(h.msg, h.connection, h.connection # connection)
      <4>1. h.msg.type = "pub" /\ queue' = Append(queue, e)
        BY <3>3, PublicationFacts
      <4>2. e \in Events
        BY <3>1, <4>1, HeldTypes, EventTypes
      <4>3. E(e)
        BY DEF E, EventRecovered, PublicationEvent
      <4> HIDE DEF e
      <4>4. QED
        BY <4>1, <4>2, <4>3
    <3>4. CASE HandleReply(h) /\ ~Applies(h)
      BY <3>4, ReplyFacts
    <3>5. CASE HandlePublication(h) /\ state # "subscribed"
      BY <3>5, PublicationFacts
    <3>6. CASE HandleUnrecoverable(h) \/ HandleUnsubscribe(h)
      BY <3>6 DEF HandleUnrecoverable, HandleUnsubscribe
    <3>7. QED
      BY <2>3, <3>2, <3>3, <3>4, <3>5, <3>6 DEF Handle
  <2>4. CASE \E h \in held : Handle(h)
    <3>1. CASE \E e \in Events : E(e) /\ queue' = Append(queue, e)
      BY <1>1, <1>2, <2>1, <3>1
    <3>2. CASE \E e, f \in Events : E(e) /\ E(f) /\ queue' = Append(Append(queue, e), f)
      BY <1>1, <1>2, <2>1, <3>2
    <3>3. QED
      BY <2>2, <2>3, <2>4, <3>1, <3>2
  <2>5. CASE Dispatcher
    <3>1. queue # <<>> /\ Head(queue) = queue[1] /\ Head(queue) \in Events /\ E(Head(queue))
          /\ Tail(queue) \in Seq(Events) /\ \A i \in 1..Len(Tail(queue)) : E(Tail(queue)[i])
      <4>1. queue # <<>>
        BY <2>5, DispatcherFacts
      <4>2. QED
        BY <1>1, <1>2, <4>1, SeqFacts
    <3>2. CASE queue' = Tail(queue)
      BY <3>1, <3>2
    <3>3. CASE Len(Head(queue).pubs) > 1 /\ queue' = <<Rest(Head(queue))>> \o Tail(queue)
      <4> DEFINE r == Rest(Head(queue))
      <4>1. Head(queue).pubs # <<>>
        BY <3>3
      <4>2. r \in Events /\ E(r)
        BY <1>5, <3>1, <4>1, RestFields
      <4> HIDE DEF r
      <4>3. queue' = <<r>> \o Tail(queue)
        BY <3>3 DEF r
      <4>4. QED
        BY <3>1, <4>2, <4>3
    <3>4. QED
      BY <2>5, <3>2, <3>3, DispatcherFacts
  <2>6. QED
    BY <2>2, <2>4, <2>5, Frames
<1>9. ~G => loaded' = Unknown
  BY Frames DEF GetStateInv
<1>10. QED
  BY <1>6, <1>7, <1>8, <1>9 DEF R, E

------------------------------------------------------------------------------
(* Live entries of the queue: recovered publications of the current session *)

\* The session that is live: none unless the subscription is subscribed.
LiveSession == IF state = "subscribed" THEN subscribedSession ELSE 0

\* An entry of recovered publications of session s.
Live(e, s) == e.kind = "publications" /\ e.session = s

\* A publication that came by an older connection.
StalePub(e) == e.kind = "publication" /\ e.stale

\* A live entry is of the connection, its publications are of the epoch, and what
\* comes after it is stale.
LiveQueue(q, s, n, ep) ==
  \A i \in 1..Len(q) : Live(q[i], s) =>
    /\ q[i].reader = n
    /\ \A k \in 1..Len(q[i].pubs) : q[i].pubs[k].id[1] = ep
    /\ \A j \in i + 1..Len(q) : StalePub(q[j])

\* The entry of the live session, if it is still in the queue.
LiveInv == LiveQueue(queue, LiveSession, connection, epoch)

\* What may follow a live entry is stale; one that is live is of this connection.
LEMMA LiveAppend ==
  ASSUME NEW q \in Seq(Events), NEW s, NEW n, NEW ep, LiveQueue(q, s, n, ep), NEW e \in Events,
         (\E i \in 1..Len(q) : Live(q[i], s)) => StalePub(e),
         Live(e, s) => e.reader = n /\ \A k \in 1..Len(e.pubs) : e.pubs[k].id[1] = ep
  PROVE  LiveQueue(Append(q, e), s, n, ep)
<1> DEFINE r == Append(q, e)
           m == Len(q)
<1>1. m \in Nat /\ Len(r) = m + 1 /\ r[m + 1] = e /\ \A i \in 1..m : r[i] = q[i]
  BY AppendFacts
<1> HIDE DEF r, m
<1>2. SUFFICES ASSUME NEW i \in 1..m + 1, Live(r[i], s)
               PROVE  /\ r[i].reader = n
                      /\ \A k \in 1..Len(r[i].pubs) : r[i].pubs[k].id[1] = ep
                      /\ \A j \in i + 1..m + 1 : StalePub(r[j])
  BY <1>1 DEF LiveQueue, r
<1>3. CASE i \in 1..m
  <2>1. Live(q[i], s) /\ r[i] = q[i] /\ i \in 1..Len(q)
    BY <1>1, <1>2, <1>3 DEF m
  <2>2. /\ q[i].reader = n
        /\ \A k \in 1..Len(q[i].pubs) : q[i].pubs[k].id[1] = ep
        /\ \A j \in i + 1..m : StalePub(q[j])
    BY <2>1 DEF LiveQueue, m
  <2>3. StalePub(e)
    BY <2>1
  <2>4. \A j \in i + 1..m + 1 : j = m + 1 \/ (j \in i + 1..m /\ j \in 1..m)
    BY <1>1, <1>3
  <2>5. QED
    BY <1>1, <2>1, <2>2, <2>3, <2>4
<1>4. CASE i \notin 1..m
  <2>1. i = m + 1 /\ ~\E j \in i + 1..m + 1 : TRUE
    BY <1>1, <1>4
  <2>2. QED
    BY <1>1, <1>2, <2>1
<1>5. QED
  BY <1>3, <1>4

\* A queue with no live entry.
LEMMA LiveNone ==
  ASSUME NEW q, NEW s, NEW n, NEW ep, \A i \in 1..Len(q) : ~Live(q[i], s)
  PROVE  LiveQueue(q, s, n, ep)
BY DEF LiveQueue

\* A queue without its head, or with one publication of it delivered.
LEMMA LiveTail ==
  ASSUME NEW q \in Seq(Events), NEW s, NEW n, NEW ep, LiveQueue(q, s, n, ep), q # <<>>
  PROVE  /\ LiveQueue(Tail(q), s, n, ep)
         /\ Live(q[1], s) => \A i \in 1..Len(Tail(q)) : StalePub(Tail(q)[i])
         /\ \A r \in Events :
              /\ r.kind = q[1].kind /\ r.session = q[1].session /\ r.reader = q[1].reader
              /\ q[1].pubs # <<>> /\ r.pubs = Tail(q[1].pubs)
              => LiveQueue(<<r>> \o Tail(q), s, n, ep)
<1> DEFINE t == Tail(q)
           m == Len(q)
<1>1. m \in Nat /\ m # 0 /\ Len(t) = m - 1 /\ (\A i \in 1..m - 1 : t[i] = q[i + 1])
          /\ t \in Seq(Events)
      /\ \A i \in 1..m : q[i] \in Events
  BY SeqFacts
<1> HIDE DEF t, m
<1>2. \A i \in 1..m : Live(q[i], s) =>
    /\ q[i].reader = n
    /\ \A k \in 1..Len(q[i].pubs) : q[i].pubs[k].id[1] = ep
    /\ \A j \in i + 1..m : StalePub(q[j])
  BY DEF LiveQueue, m
<1>3. LiveQueue(t, s, n, ep)
  <2>1. SUFFICES ASSUME NEW i \in 1..m - 1, Live(t[i], s)
                 PROVE  /\ t[i].reader = n
                        /\ \A k \in 1..Len(t[i].pubs) : t[i].pubs[k].id[1] = ep
                        /\ \A j \in i + 1..m - 1 : StalePub(t[j])
    BY <1>1 DEF LiveQueue
  <2>2. i + 1 \in 1..m /\ \A j \in i + 1..m - 1 : j + 1 \in (i + 1) + 1..m /\ j \in 1..m - 1
    BY <1>1
  <2>3. QED
    BY <1>1, <1>2, <2>1, <2>2
<1>4. Live(q[1], s) => \A i \in 1..Len(t) : StalePub(t[i])
  <2>1. 1 \in 1..m /\ \A i \in 1..m - 1 : i + 1 \in 1 + 1..m
    BY <1>1
  <2>2. QED
    BY <1>1, <1>2, <2>1
<1>5. ASSUME NEW r \in Events,
             r.kind = q[1].kind, r.session = q[1].session, r.reader = q[1].reader,
             q[1].pubs # <<>>, r.pubs = Tail(q[1].pubs)
      PROVE  LiveQueue(<<r>> \o t, s, n, ep)
  <2> DEFINE u == <<r>> \o t
  <2>1. Len(u) = m /\ u[1] = r /\ \A i \in 2..m : u[i] = q[i]
    <3>1. Len(u) = m /\ u[1] = r /\ \A i \in 2..m : u[i] = t[i - 1] /\ i - 1 \in 1..m - 1
              /\ (i - 1) + 1 = i
      BY <1>1
    <3>2. QED
      BY <1>1, <3>1
  <2> HIDE DEF u
  <2>2. SUFFICES ASSUME NEW i \in 1..m, Live(u[i], s)
                 PROVE  /\ u[i].reader = n
                        /\ \A k \in 1..Len(u[i].pubs) : u[i].pubs[k].id[1] = ep
                        /\ \A j \in i + 1..m : StalePub(u[j])
    BY <2>1 DEF LiveQueue, u
  <2>3. \A j \in i + 1..m : j \in 2..m
    BY <2>2
  <2>4. CASE i = 1
    <3>1. Live(q[1], s) /\ 1 \in 1..m /\ q[1] \in Events
      BY <1>1, <1>5, <2>1, <2>2, <2>4 DEF Live
    <3>2. q[1].pubs \in Seq(PubRecords)
      BY <3>1, EventFields
    <3>3. \A k \in 1..Len(r.pubs) : k + 1 \in 1..Len(q[1].pubs) /\ r.pubs[k] = q[1].pubs[k + 1]
      <4> DEFINE p == q[1].pubs
                 z == r.pubs
      <4>1. p \in Seq(PubRecords) /\ p # <<>> /\ z = Tail(p)
        BY <1>5, <3>2
      <4> HIDE DEF p, z
      <4>2. \A k \in 1..Len(z) : k + 1 \in 1..Len(p) /\ z[k] = p[k + 1]
        BY <4>1
      <4>3. QED
        BY <4>2 DEF p, z
    <3>4. QED
      BY <1>2, <1>5, <2>1, <2>3, <2>4, <3>1, <3>3
  <2>5. CASE i # 1
    <3>1. i \in 2..m /\ u[i] = q[i] /\ Live(q[i], s)
      BY <2>1, <2>2, <2>5
    <3>2. QED
      BY <1>2, <2>1, <2>2, <2>3, <3>1
  <2>6. QED
    BY <2>4, <2>5
<1>6. QED
  BY <1>3, <1>4, <1>5 DEF t

\* The epoch of the client is not ahead of the publications it is to handle.
Above(f, x) == \A i \in 1..Len(f) : f[i].type = "pub" => x <= f[i].pub.id[1]

\* No publication that the client is to handle is of an epoch before its own.
EpochInv ==
  /\ epoch <= ServerEpoch
  /\ state = "subscribed" /\ Ahead # <<>> /\ Ahead[1].type = "pub"
         => epoch <= Ahead[1].pub.id[1]
  /\ \A i \in 2..Len(Ahead) :
       Ahead[i].type = "pub" /\ Ahead[i - 1].type = "reply" => epoch <= Ahead[i].pub.id[1]
  /\ \A h \in held :
       h.connection # connection /\ h.msg.type = "pub" => Above(Ahead, h.msg.pub.id[1])

\* Everything proved so far of one state.
Base ==
  Types /\ ReaderInv /\ AskInv /\ SentInv /\ EventsInv /\ ChainInv

\* A session ends, or a new one begins with a number no entry has, or all stays.
LEMMA SessionSteps ==
  ASSUME NEW G \in BOOLEAN, StepOf(G), Types, EventsInv
  PROVE  /\ LiveSession \in Nat
         /\ \A i \in 1..Len(queue) : ~Live(queue[i], 0)
                /\ ~Live(queue[i], subscribedSession + 1)
         /\ \/ LiveSession' = LiveSession /\ state' = state
            \/ LiveSession' = 0 /\ state' # "subscribed"
            \/ /\ \E h \in held : HandleReply(h) /\ Applies(h)
               /\ LiveSession = 0 /\ LiveSession' = subscribedSession + 1
<1> USE DEF Types
<1>1. subscribedSession \in Nat
  BY DEF SubscriptionTypes
<1>2. LiveSession \in Nat
  BY <1>1 DEF LiveSession
<1>3. \A i \in 1..Len(queue) : queue[i].kind = "publications"
          => queue[i].session \in 1..subscribedSession
  BY DEF EventsInv, EventOk
<1>4. \A i \in 1..Len(queue) : ~Live(queue[i], 0) /\ ~Live(queue[i], subscribedSession + 1)
  <2>1. \A n \in 1..subscribedSession : n # 0 /\ n # subscribedSession + 1
    BY <1>1
  <2>2. QED
    BY <1>3, <2>1 DEF Live
<1>5. CASE UNCHANGED <<state, subscribedSession>>
  BY <1>2, <1>4, <1>5 DEF LiveSession
<1>6. CASE Subscribe \/ Unsubscribe \/ ConnectionLost
  <2>1. state' # "subscribed"
    BY <1>6 DEF Subscribe, Unsubscribe, ConnectionLost
  <2>2. QED
    BY <1>2, <1>4, <2>1 DEF LiveSession
<1>7. ASSUME NEW h \in held, HandleReply(h), Applies(h)
      PROVE  LiveSession = 0 /\ LiveSession' = subscribedSession + 1
  BY <1>7, ReplyFacts DEF Applies, LiveSession
<1>8. ASSUME NEW h \in held, Handle(h), ~(HandleReply(h) /\ Applies(h))
      PROVE  UNCHANGED <<state, subscribedSession>> \/ state' # "subscribed"
  <2>1. CASE HandleReply(h)
    BY <1>8, <2>1, ReplyFacts
  <2>2. CASE HandlePublication(h) \/ HandleUnrecoverable(h) \/ HandleUnsubscribe(h)
    BY <2>2 DEF HandlePublication, HandleUnrecoverable, HandleUnsubscribe, subscription
  <2>3. QED
    BY <1>8, <2>1, <2>2 DEF Handle
<1>9. CASE state' # "subscribed"
  BY <1>2, <1>4, <1>9 DEF LiveSession
<1>10. QED
  BY <1>2, <1>4, <1>5, <1>6, <1>7, <1>8, <1>9, Frames

\* A publication the reader of the connection handles comes without a live entry.
LEMMA NoneLive ==
  ASSUME Types, ReaderInv, LiveInv, NEW h \in held, h.connection = connection
  PROVE  \A i \in 1..Len(queue) : ~Live(queue[i], LiveSession)
BY DEF ReaderInv, LiveInv, LiveQueue

\* A live entry has the epoch of the client, and it is a real one.
LEMMA LiveEpoch ==
  ASSUME Types, EventsInv, LiveInv, NEW i \in 1..Len(queue), Live(queue[i], LiveSession)
  PROVE  /\ queue[i].pubs # <<>> /\ queue[i].pubs \in Seq(PubRecords)
                /\ queue[i].pubs[1].id[1] = epoch
         /\ epoch # NoEpoch /\ epoch \in Nat /\ queue[i].pubs[1].id \in Positions
<1> USE DEF Types
<1> DEFINE p == queue[i].pubs
<1>1. p # <<>> /\ p \in Seq(PubRecords)
  BY EventFields DEF QueueTypes, Live
<1>2. 1 \in 1..Len(p) /\ p[1] \in PubRecords
  BY <1>1, SeqFacts
<1>3. p[1].id[1] = epoch
  BY <1>2 DEF LiveInv, LiveQueue
<1>4. PublishedIn(tops, p[1].id)
  BY <1>2 DEF EventsInv, EventOk
<1> HIDE DEF p
<1>5. epoch \in 1..Len(tops)
  BY <1>3, <1>4 DEF PublishedIn
<1>6. epoch \in Nat /\ epoch # NoEpoch
  BY <1>5 DEF NoEpoch
<1>7. QED
  BY <1>1, <1>2, <1>3, <1>6, PubFields DEF p

\* A step keeps the live entry the last that is not stale: its reader waits for it, and
\* only the reader of an older connection can go on meanwhile.
LEMMA LiveStep ==
  ASSUME NEW G \in BOOLEAN, StepOf(G), Base, LiveInv
  PROVE  LiveInv'
<1> USE DEF Types, Base
<1> DEFINE s == LiveSession
<1>1. queue \in Seq(Events) /\ s \in Nat /\ LiveQueue(queue, s, connection, epoch)
  BY SessionSteps DEF QueueTypes, LiveInv
<1>2. \A i \in 1..Len(queue) : ~Live(queue[i], 0) /\ ~Live(queue[i], subscribedSession + 1)
  BY SessionSteps
<1>3. SUFFICES LiveQueue(queue', LiveSession', connection', epoch')
  BY DEF LiveInv, LiveQueue, Live, StalePub
<1>4. \A n, ep : LiveQueue(queue, 0, n, ep)
  BY <1>2, LiveNone
<1>5. CASE queue' = queue /\ LiveSession' = 0
  BY <1>4, <1>5
<1>6. CASE queue' = queue /\ LiveSession' = s /\ connection' = connection /\ epoch' = epoch
  BY <1>1, <1>6
<1>7. CASE ConnectionLost \/ Subscribe \/ Unsubscribe
  <2>1. queue' = queue /\ state' # "subscribed"
    BY <1>7 DEF ConnectionLost, Subscribe, Unsubscribe
  <2>2. QED
    BY <1>5, <2>1 DEF LiveSession
<1>8. CASE GetState /\ G
  <2>1. queue' = queue /\ state' # "subscribed"
    BY <1>8 DEF GetState, subscription
  <2>2. QED
    BY <1>5, <2>1 DEF LiveSession
<1>9. ASSUME NEW h \in held, Handle(h)
      PROVE  LiveQueue(queue', LiveSession', connection', epoch')
  <2>1. h.msg \in Messages /\ MessageOk(h.msg, tops) /\ h.connection \in Nat
            /\ connection' = connection
    BY <1>9, HeldTypes, HandleFacts DEF SentInv
  <2>2. CASE HandleReply(h) /\ Applies(h)
    <3> DEFINE e == SubscribedEvent(h.msg, h.connection)
               f == RecoveredEvent(h.msg, h.connection, subscribedSession + 1)
               t == subscribedSession + 1
    <3> HIDE DEF e, f, t
    <3>1. t \in Nat /\ \A i \in 1..Len(queue) : ~Live(queue[i], t)
      BY <1>2 DEF SubscriptionTypes, t
    <3>2. h.msg.type = "reply"
              /\ queue' = queue \o IF h.msg.pubs = <<>> THEN <<e>> ELSE <<e, f>>
      BY <2>2, ReplyFacts DEF e, f
    <3>3. state' = "subscribed" /\ subscribedSession' = t /\ h.connection = connection
      BY <2>2, ReplyFacts DEF Applies, t
    <3>4. TakesPosition(h.msg) => epoch' = h.msg.epoch
      BY <2>2, ReplyFacts
    <3>5. LiveSession' = t
      BY <3>3 DEF LiveSession
    <3>6. e \in Events /\ f \in Events
      BY <2>1, <3>1, <3>2, EventTypes DEF e, f, t
    <3>7. ~Live(e, t)
      BY DEF Live, SubscribedEvent, Told, e
    <3>8. LiveQueue(Append(queue, e), t, connection, epoch')
          /\ \A i \in 1..Len(Append(queue, e)) : ~Live(Append(queue, e)[i], t)
      <4>1. \A i \in 1..Len(Append(queue, e)) : ~Live(Append(queue, e)[i], t)
        BY <1>1, <3>1, <3>6, <3>7
      <4>2. QED
        BY <4>1, LiveNone
    <3>9. CASE h.msg.pubs = <<>>
      <4>1. queue' = Append(queue, e)
        BY <1>1, <3>2, <3>6, <3>9
      <4>2. QED
        BY <2>1, <3>5, <3>8, <4>1
    <3>10. CASE h.msg.pubs # <<>>
      <4>1. queue' = Append(Append(queue, e), f) /\ Append(queue, e) \in Seq(Events)
        BY <1>1, <3>2, <3>6, <3>10
      <4>2. h.msg.epoch # NoEpoch
        BY <2>1, <3>2, <3>10 DEF MessageOk
      <4>3. epoch' = h.msg.epoch
        BY <3>4, <4>2 DEF TakesPosition
      <4>4. f.reader = connection /\ f.pubs = h.msg.pubs
        BY <3>3 DEF RecoveredEvent, f
      <4>5. \A k \in 1..Len(f.pubs) : f.pubs[k].id[1] = epoch'
        <5>1. \A k \in 1..Len(f.pubs) : f.pubs[k].id = <<h.msg.epoch, h.msg.offset + k>>
          BY <2>1, <3>2, <4>4 DEF MessageOk
        <5>2. QED
          BY <4>3, <5>1
      <4>6. LiveQueue(Append(Append(queue, e), f), t, connection, epoch')
        BY <3>6, <3>8, <4>1, <4>4, <4>5, LiveAppend
      <4>7. QED
        BY <2>1, <3>5, <4>1, <4>6
    <3>11. QED
      BY <3>9, <3>10
  <2>3. CASE HandlePublication(h) /\ state = "subscribed"
    <3> DEFINE e == PublicationEvent(h.msg, h.connection, h.connection # connection)
    <3>1. h.msg.type = "pub" /\ queue' = Append(queue, e)
              /\ UNCHANGED <<state, subscribedSession>>
          /\ epoch' = EpochAfter(h.msg.pub.id)
      BY <2>3, PublicationFacts DEF subscription
    <3>2. e \in Events /\ ~Live(e, s)
      BY <2>1, <3>1, EventTypes DEF Live, PublicationEvent
    <3>3. LiveSession' = s
      BY <3>1 DEF LiveSession
    <3>4. CASE h.connection = connection
      <4>1. \A i \in 1..Len(queue) : ~Live(queue[i], s)
        BY <3>4, NoneLive
      <4> HIDE DEF e, s
      <4>2. \A i \in 1..Len(Append(queue, e)) : ~Live(Append(queue, e)[i], s)
        BY <1>1, <3>2, <4>1
      <4>3. QED
        BY <3>1, <3>3, <4>2, LiveNone
    <3>5. CASE h.connection # connection
      <4>1. StalePub(e)
        BY <3>5 DEF StalePub, PublicationEvent
      <4>2. CASE \E i \in 1..Len(queue) : Live(queue[i], s)
        <5>1. epoch # NoEpoch
          BY <4>2, LiveEpoch
        <5>2. epoch' = epoch
          BY <3>1, <5>1 DEF EpochAfter
        <5> HIDE DEF e, s
        <5>3. LiveQueue(Append(queue, e), s, connection, epoch)
          BY <1>1, <3>2, <4>1, LiveAppend
        <5>4. QED
          BY <2>1, <3>1, <3>3, <5>2, <5>3
      <4>3. CASE ~\E i \in 1..Len(queue) : Live(queue[i], s)
        <5> HIDE DEF e, s
        <5>1. \A i \in 1..Len(Append(queue, e)) : ~Live(Append(queue, e)[i], s)
          BY <1>1, <3>2, <4>3
        <5>2. QED
          BY <3>1, <3>3, <5>1, LiveNone
      <4>4. QED
        BY <4>2, <4>3
    <3>6. QED
      BY <3>4, <3>5
  <2>4. CASE HandleReply(h) /\ ~Applies(h)
    <3>1. queue' = queue /\ epoch' = epoch /\ UNCHANGED <<state, subscribedSession>>
      BY <2>4, ReplyFacts DEF position
    <3>2. QED
      BY <1>6, <2>1, <3>1 DEF LiveSession
  <2>5. CASE HandlePublication(h) /\ state # "subscribed"
    <3>1. queue' = queue /\ epoch' = epoch /\ UNCHANGED <<state, subscribedSession>>
      BY <2>5, PublicationFacts DEF subscription
    <3>2. QED
      BY <1>6, <2>1, <3>1 DEF LiveSession
  <2>6. CASE HandleUnrecoverable(h)
    <3>1. queue' = queue /\ UNCHANGED <<state, subscribedSession>>
          /\ (state = "subscribed" => epoch' = epoch)
      BY <2>6 DEF HandleUnrecoverable, Applies, position
    <3>2. CASE state = "subscribed"
      BY <1>6, <2>1, <3>1, <3>2 DEF LiveSession
    <3>3. CASE state # "subscribed"
      BY <1>5, <3>1, <3>3 DEF LiveSession
    <3>4. QED
      BY <3>2, <3>3
  <2>7. CASE HandleUnsubscribe(h)
    <3>1. queue' = queue /\ state' # "subscribed"
      BY <2>7 DEF HandleUnsubscribe
    <3>2. QED
      BY <1>5, <3>1 DEF LiveSession
  <2>8. QED
    BY <1>9, <2>2, <2>3, <2>4, <2>5, <2>6, <2>7 DEF Handle
<1>10. CASE Dispatcher
  <2>1. UNCHANGED <<state, subscribedSession, connection>>
    BY <1>10
       DEF Dispatcher, RunSubscribed, RunPublication, RunRecovered, subscription, link
  <2>2. LiveSession' = s
    BY <2>1 DEF LiveSession
  <2>3. queue # <<>> /\ Head(queue) = queue[1] /\ 1 \in 1..Len(queue) /\ queue[1] \in Events
    BY <1>1, <1>10, DispatcherFacts, SeqFacts
  <2>4. epoch' = epoch
    <3>1. CASE RunRecovered
      <4>1. epoch' = epoch \/ (StillInSession(queue[1].session)
                /\ queue[1].kind = "publications"
                               /\ epoch' = EpochAfter(queue[1].pubs[1].id))
        BY <2>3, <3>1, RecoveredFacts
      <4>2. StillInSession(queue[1].session) /\ queue[1].kind = "publications"
                => epoch # NoEpoch
        <5>1. SUFFICES ASSUME StillInSession(queue[1].session), queue[1].kind = "publications"
                       PROVE  epoch # NoEpoch
          OBVIOUS
        <5>2. Live(queue[1], LiveSession)
          BY <5>1 DEF StillInSession, Live, LiveSession
        <5>3. QED
          BY <2>3, <5>2, LiveEpoch
      <4>3. QED
        BY <4>1, <4>2 DEF EpochAfter
    <3>2. CASE RunSubscribed \/ RunPublication
      BY <3>2 DEF RunSubscribed, RunPublication, position
    <3>3. QED
      BY <1>10, <3>1, <3>2 DEF Dispatcher
  <2>5. CASE queue' = Tail(queue)
    BY <1>1, <2>1, <2>2, <2>3, <2>4, <2>5, LiveTail
  <2>6. CASE Len(Head(queue).pubs) > 1 /\ queue' = <<Rest(Head(queue))>> \o Tail(queue)
    <3> DEFINE r == Rest(Head(queue))
               p == Head(queue).pubs
    <3>1. p # <<>>
      BY <2>6
    <3>2. /\ r \in Events /\ r.kind = queue[1].kind /\ r.session = queue[1].session
          /\ r.reader = queue[1].reader /\ r.pubs = Tail(queue[1].pubs) /\ queue[1].pubs # <<>>
      BY <2>3, <3>1, RestFields
    <3>3. queue' = <<r>> \o Tail(queue)
      BY <2>6
    <3> HIDE DEF r, s
    <3>4. LiveQueue(<<r>> \o Tail(queue), s, connection, epoch)
      BY <1>1, <2>3, <3>2, LiveTail
    <3>5. QED
      BY <2>1, <2>2, <2>4, <3>3, <3>4
  <2>7. QED
    BY <1>10, <2>5, <2>6, DispatcherFacts
<1>11. CASE UNCHANGED <<state, subscribedSession, queue, connection, epoch>>
  BY <1>6, <1>11 DEF LiveSession
<1>12. RunRecovered => Dispatcher
  BY DEF Dispatcher
<1>13. QED
  BY <1>7, <1>8, <1>9, <1>10, <1>11, <1>12, Frames

\* What steps other than the reader's do to what is ahead: a part of it stays, and
\* the publications that are new are of the current epoch.
LEMMA AheadGrows ==
  ASSUME NEW G \in BOOLEAN, StepOf(G), Types, ReaderInv, ~\E h \in held : Handle(h)
  PROVE  \E n \in 0..Len(Ahead) : \A i \in 1..Len(Ahead') :
           \/ i \in 1..n /\ Ahead'[i] = Ahead[i]
           \/ i \notin 1..n /\ (Ahead'[i].type = "pub" => Ahead'[i].pub.id[1] = ServerEpoch)
<1> USE DEF Types
<1>1. Flow \in Seq(Messages) /\ Ahead \in Seq(Messages) /\ NextPub \in Messages
          /\ NextPub' \in Messages
  BY FlowType, AheadType, NextPubType, NextPubStep
<1>2. /\ Len(Flow) \in 0..Len(Ahead) /\ Len(Ahead) \in 0..Len(Ahead) /\ 0 \in 0..Len(Ahead)
      /\ \A i \in 1..Len(Flow) : Ahead[i] = Flow[i]
      /\ Len(Flow) \in Nat /\ Len(Ahead) \in Nat
  <2>1. CASE serverSub
    <3>1. Ahead = Append(Flow, NextPub)
      BY <2>1 DEF Ahead
    <3>2. Len(Ahead) = Len(Flow) + 1 /\ Len(Flow) \in Nat
              /\ \A i \in 1..Len(Flow) : Ahead[i] = Flow[i]
      BY <1>1, <3>1, AppendFacts
    <3>3. QED
      BY <3>2
  <2>2. CASE ~serverSub
    <3>1. Ahead = Flow /\ Len(Flow) \in Nat
      BY <1>1, <2>2 DEF Ahead
    <3>2. QED
      BY <3>1
  <2>3. QED
    BY <2>1, <2>2
<1>3. \A f \in Seq(Messages) : \A m \in Messages :
        /\ Append(f, m) \in Seq(Messages)
        /\ \A i \in 1..Len(Append(f, m)) :
             \/ i \in 1..Len(f) /\ Append(f, m)[i] = f[i]
             \/ i \notin 1..Len(f) /\ Append(f, m)[i] = m
  <2> SUFFICES ASSUME NEW f \in Seq(Messages), NEW m \in Messages
               PROVE  /\ Append(f, m) \in Seq(Messages)
                      /\ \A i \in 1..Len(Append(f, m)) :
                           \/ i \in 1..Len(f) /\ Append(f, m)[i] = f[i]
                           \/ i \notin 1..Len(f) /\ Append(f, m)[i] = m
    OBVIOUS
  <2> DEFINE g == Append(f, m)
             n == Len(f)
  <2>1. g \in Seq(Messages) /\ Len(g) = n + 1 /\ n \in Nat /\ g[n + 1] = m
            /\ \A i \in 1..n : g[i] = f[i]
    BY AppendFacts
  <2> HIDE DEF g, n
  <2>2. \A i \in 1..n + 1 : i \in 1..n \/ (i \notin 1..n /\ i = n + 1)
    BY <2>1
  <2>3. \A i \in 1..Len(g) : (i \in 1..n /\ g[i] = f[i]) \/ (i \notin 1..n /\ g[i] = m)
    BY <2>1, <2>2
  <2>4. QED
    BY <2>1, <2>3 DEF g, n
<1>4. CASE Ahead' = Ahead
  BY <1>2, <1>4
<1>5. CASE Ahead' = Flow
  BY <1>2, <1>5
<1>6. CASE Ahead' = <<>>
  BY <1>2, <1>6
<1>7. CASE Publish
  <2>1. CASE serverSub
    <3>1. Ahead' = Append(Ahead, NextPub') /\ NextPub'.pub.id = <<ServerEpoch, Top + 2>>
      BY <1>7, <2>1, PublishFacts
    <3>2. NextPub'.pub.id[1] = ServerEpoch
      BY <3>1
    <3>3. QED
      BY <1>1, <1>2, <1>3, <3>1, <3>2
  <2>2. QED
    BY <1>5, <1>7, <2>1, PublishFacts
<1>8. CASE Reset \/ Invalidate
  <2>1. CASE \E m \in Messages : m.type = "unsubscribe" /\ Ahead' = Append(Flow, m)
    BY <1>1, <1>2, <1>3, <2>1
  <2>2. QED
    BY <1>5, <1>8, <2>1, AheadUnsubscribed
<1>9. CASE Answered(G)
  <2>1. PICK m \in Messages : wire' = Append(wire, m) /\ m.type # "pub"
    <3>1. PICK m \in Messages :
            /\ wire' = Append(wire, m)
            /\ \/ \E a, e, o, p, r : m = Replied(a, e, o, p, r)
               \/ \E a : m = [type |-> "unrecoverable", attempt |-> a]
      <4>1. PICK m \in Messages :
            /\ wire' = Append(wire, m)
            /\ \/ m = Replied(Head(commands).attempt, ServerEpoch, Head(commands).offset,
                               History(Head(commands).offset), TRUE)
               \/ m = Replied(Head(commands).attempt, ServerEpoch, Top, <<>>, FALSE)
               \/ m = Replied(Head(commands).attempt, NoEpoch, 0, <<>>, FALSE)
               \/ m = [type |-> "unrecoverable", attempt |-> Head(commands).attempt]
        BY <1>9, AnswerCases
      <4>2. QED
        BY <4>1
    <3>2. m.type # "pub"
      BY <3>1 DEF Replied
    <3>3. QED
      BY <3>1, <3>2
  <2>2. /\ Ahead' = Append(Append(Flow, m), NextPub') \/ Ahead' = Append(Flow, m)
        /\ NextPub'.pub.id = <<ServerEpoch, Top + 1>>
    BY <1>9, <2>1, AheadAnswered
  <2>3. NextPub'.pub.id[1] = ServerEpoch
    BY <2>2
  <2>4. Append(Flow, m) \in Seq(Messages) /\ Len(Append(Flow, m)) = Len(Flow) + 1
    BY <1>1, AppendFacts
  <2>5. \A i \in 1..Len(Ahead') :
           \/ i \in 1..Len(Flow) /\ Ahead'[i] = Flow[i]
           \/ i \notin 1..Len(Flow) /\ (Ahead'[i] = m \/ Ahead'[i] = NextPub')
    <3>1. CASE Ahead' = Append(Flow, m)
      BY <1>1, <1>3, <3>1
    <3>2. CASE Ahead' = Append(Append(Flow, m), NextPub')
      <4> DEFINE g == Append(Flow, m)
      <4>1. \A i \in 1..Len(g) : \/ i \in 1..Len(Flow) /\ g[i] = Flow[i]
                                 \/ i \notin 1..Len(Flow) /\ g[i] = m
        BY <1>1, <1>3
      <4> HIDE DEF g
      <4>2. \A i \in 1..Len(Flow) : i \in 1..Len(g)
        BY <1>2, <2>4 DEF g
      <4>3. \A i \in 1..Len(Ahead') : \/ i \in 1..Len(g) /\ Ahead'[i] = g[i]
                                      \/ i \notin 1..Len(g) /\ Ahead'[i] = NextPub'
        BY <1>1, <1>3, <2>4, <3>2 DEF g
      <4>4. QED
        BY <4>1, <4>2, <4>3
    <3>3. QED
      BY <2>2, <3>1, <3>2
  <2>6. QED
    BY <1>2, <2>1, <2>3, <2>5
<1>10. QED
  BY <1>4, <1>5, <1>6, <1>7, <1>8, <1>9, FlowCases

\* There is one answer at most, and none when the client is subscribed.
LEMMA AheadAnswers ==
  ASSUME Types, AskInv, NEW i \in 1..Len(Ahead), Ahead[i].type = "reply"
  PROVE  /\ inflight = TRUE /\ state # "subscribed"
         /\ i \in 1..Len(Flow) /\ Flow[i] = Ahead[i]
                /\ \A j \in 1..Len(Flow) : IsAnswer(Flow[j]) => j = i
<1> USE DEF Types
<1>1. Flow \in Seq(Messages) /\ NextPub \in Messages
  BY FlowType, NextPubType
<1>2. i \in 1..Len(Flow) /\ Flow[i] = Ahead[i]
  <2>1. NextPub.type # "reply"
    BY DEF NextPub
  <2>2. CASE serverSub
    <3>1. Ahead = Append(Flow, NextPub)
      BY <2>2 DEF Ahead
    <3>2. (i \in 1..Len(Flow) /\ Ahead[i] = Flow[i]) \/ Ahead[i] = NextPub
      BY <1>1, <3>1, AppendFacts
    <3>3. QED
      BY <2>1, <3>2
  <2>3. CASE ~serverSub
    BY <2>3 DEF Ahead
  <2>4. QED
    BY <2>2, <2>3
<1>3. IsAnswer(Flow[i])
  BY <1>2 DEF IsAnswer
<1>4. QED
  BY <1>2, <1>3, Zenon DEF AskInv, Asked, FlagTypes

\* The epoch of publications sent.
LEMMA SentEpochs ==
  ASSUME Base
  PROVE  /\ \A h \in held : h.msg.type = "pub" =>
              h.msg.pub \in PubRecords /\ h.msg.pub.id[1] \in 1..ServerEpoch
                  /\ h.msg.pub.id[2] \in Nat \ {0}
         /\ ServerEpoch \in Nat \ {0} /\ Top \in Nat
<1> USE DEF Base, Types
<1>1. ServerEpoch \in Nat \ {0} /\ Top \in Nat /\ ServerEpoch = Len(tops)
  BY NextPubType, RecoveryBounds DEF ServerEpoch
<1>2. ASSUME NEW h \in held, h.msg.type = "pub"
      PROVE  h.msg.pub \in PubRecords /\ h.msg.pub.id[1] \in 1..ServerEpoch
                 /\ h.msg.pub.id[2] \in Nat \ {0}
  <2>1. h.msg \in Messages /\ PublishedIn(tops, h.msg.pub.id)
    BY <1>2, HeldTypes DEF SentInv, MessageOk
  <2>2. h.msg.pub \in PubRecords
    BY <1>2, <2>1, MessageTypes
  <2>3. h.msg.pub.id[2] \in Nat
    BY <2>2, PubFields
  <2>4. QED
    BY <1>1, <2>1, <2>2, <2>3 DEF PublishedIn
<1>3. QED
  BY <1>1, <1>2

\* A step keeps the order of the epochs.
LEMMA EpochStep ==
  ASSUME NEW G \in BOOLEAN, StepOf(G), Base, Base', LiveInv, EpochInv
  PROVE  EpochInv'
<1> USE DEF Types, Base
<1>1. /\ Ahead \in Seq(Messages) /\ Flow \in Seq(Messages) /\ ServerEpoch \in Nat \ {0}
             /\ epoch \in Int
      /\ Len(Ahead) \in Nat
  BY AheadType, FlowType, SentEpochs DEF SubscriptionTypes
<1>2. ServerEpoch <= ServerEpoch' /\ ServerEpoch' \in Nat
  BY TopsGrow DEF Grows, ServerEpoch
<1> DEFINE First(f, x) == f # <<>> /\ f[1].type = "pub" => x <= f[1].pub.id[1]
           Later(f, x) == \A i \in 2..Len(f) :
                            f[i].type = "pub" /\ f[i - 1].type = "reply" => x <= f[i].pub.id[1]
<1>3. /\ epoch <= ServerEpoch /\ Later(Ahead, epoch)
      /\ state = "subscribed" => First(Ahead, epoch)
      /\ \A h \in held :
           h.connection # connection /\ h.msg.type = "pub" => Above(Ahead, h.msg.pub.id[1])
  BY DEF EpochInv
<1>4. SUFFICES /\ epoch' <= ServerEpoch' /\ Later(Ahead', epoch')
               /\ state' = "subscribed" => First(Ahead', epoch')
               /\ \A h \in held' :
                    h.connection # connection' /\ h.msg.type = "pub"
                        => Above(Ahead', h.msg.pub.id[1])
  BY DEF EpochInv, Above
<1>5. ASSUME ~\E h \in held : Handle(h)
      PROVE  /\ epoch' <= ServerEpoch' /\ Later(Ahead', epoch')
             /\ state' = "subscribed" => First(Ahead', epoch')
             /\ \A h \in held' :
                  h.connection # connection' /\ h.msg.type = "pub"
                      => Above(Ahead', h.msg.pub.id[1])
  <2>1. PICK n \in 0..Len(Ahead) : \A i \in 1..Len(Ahead') :
           \/ i \in 1..n /\ Ahead'[i] = Ahead[i]
           \/ i \notin 1..n /\ (Ahead'[i].type = "pub" => Ahead'[i].pub.id[1] = ServerEpoch)
    BY <1>5, AheadGrows
  <2>2. \A i \in 1..n : i \in 1..Len(Ahead)
    BY <1>1
  <2>3. epoch' = epoch \/ (GetState /\ G)
    <3>1. CASE RunRecovered
      <4>1. queue # <<>> /\ queue[1] = Head(queue) /\ 1 \in 1..Len(queue)
        BY <3>1, RecoveredFacts DEF QueueTypes
      <4>2. epoch' = epoch \/ (StillInSession(queue[1].session)
                /\ queue[1].kind = "publications"
                               /\ epoch' = EpochAfter(queue[1].pubs[1].id))
        BY <3>1, <4>1, RecoveredFacts
      <4>3. StillInSession(queue[1].session) /\ queue[1].kind = "publications"
                => epoch # NoEpoch
        BY <4>1, LiveEpoch DEF StillInSession, Live, LiveSession
      <4>4. QED
        BY <4>2, <4>3 DEF EpochAfter
    <3>2. QED
      BY <1>5, <3>1, Frames
  <2>4. CASE epoch' = epoch
    <3>1. epoch' <= ServerEpoch'
      BY <1>1, <1>2, <1>3, <2>4
    <3>2. Later(Ahead', epoch')
      <4>1. SUFFICES ASSUME NEW i \in 2..Len(Ahead'), Ahead'[i].type = "pub",
                            Ahead'[i - 1].type = "reply"
                     PROVE  epoch <= Ahead'[i].pub.id[1]
        BY <2>4
      <4>2. i \in 1..Len(Ahead') /\ i - 1 \in 1..Len(Ahead')
        BY <4>1
      <4>3. CASE i \in 1..n
        <5>1. i - 1 \in 1..n /\ i \in 2..Len(Ahead)
          BY <2>2, <4>1, <4>3
        <5>2. Ahead'[i] = Ahead[i] /\ Ahead'[i - 1] = Ahead[i - 1]
          BY <2>1, <4>2, <4>3, <5>1
        <5>3. QED
          BY <1>3, <4>1, <5>1, <5>2
      <4>4. CASE i \notin 1..n
        BY <1>3, <2>1, <4>1, <4>2, <4>4
      <4>5. QED
        BY <4>3, <4>4
    <3>3. state' = "subscribed" => First(Ahead', epoch')
      <4>1. SUFFICES ASSUME state' = "subscribed", Ahead' # <<>>, Ahead'[1].type = "pub"
                     PROVE  epoch' <= Ahead'[1].pub.id[1]
        OBVIOUS
      <4>2. state = "subscribed" /\ Ahead # <<>> /\ Ahead[1] = Ahead'[1]
        BY <1>5, <4>1, FirstKept
      <4>3. QED
        BY <1>3, <2>4, <4>1, <4>2
    <3>4. ASSUME NEW h \in held', h.connection # connection', h.msg.type = "pub"
          PROVE  Above(Ahead', h.msg.pub.id[1])
      <4>1. CASE ConnectionLost
        <5>1. Ahead' = <<>>
          <6>1. serverSub' = FALSE
            BY <4>1 DEF ConnectionLost, Forget
          <6>2. QED
            BY <4>1, <6>1, FlowLost DEF Ahead
        <5>2. QED
          BY <5>1 DEF Above
      <4>2. CASE ~ConnectionLost
        <5>1. connection' = connection
          BY <4>2, Frames
        <5>2. h \in held
          BY <1>5, <3>4, <4>2, <5>1, FlowTake, Frames
        <5>3. Above(Ahead, h.msg.pub.id[1]) /\ h.msg.pub.id[1] <= ServerEpoch
          BY <1>3, <3>4, <5>1, <5>2, SentEpochs
        <5>4. QED
          BY <2>1, <2>2, <5>3 DEF Above
      <4>3. QED
        BY <4>1, <4>2
    <3>5. QED
      BY <3>1, <3>2, <3>3, <3>4
  <2>5. CASE GetState /\ G
    <3>1. state = "subscribing" /\ ~inflight /\ epoch' = ServerEpoch
          /\ UNCHANGED <<tops, serverSub, base, held, connection, wire, state>>
      BY <2>5 DEF GetState, server, link, subscription
    <3>2. Ahead' = Ahead /\ ServerEpoch' = ServerEpoch
      BY <3>1, FlowKept, AheadKept DEF ServerEpoch
    <3>3. Later(Ahead', epoch')
      <4>1. SUFFICES ASSUME NEW i \in 2..Len(Ahead), Ahead[i - 1].type = "reply"
                     PROVE  FALSE
        BY <3>2
      <4>2. i - 1 \in 1..Len(Ahead)
        BY <1>1
      <4>3. QED
        BY <3>1, <4>1, <4>2, AheadAnswers
    <3>4. QED
      BY <1>1, <1>3, <3>1, <3>2, <3>3
  <2>6. QED
    BY <2>3, <2>4, <2>5
<1>6. ASSUME NEW h \in held, Handle(h)
      PROVE  /\ epoch' <= ServerEpoch' /\ Later(Ahead', epoch')
             /\ state' = "subscribed" => First(Ahead', epoch')
             /\ \A k \in held' :
                  k.connection # connection' /\ k.msg.type = "pub"
                      => Above(Ahead', k.msg.pub.id[1])
  <2>1. h.msg \in Messages /\ MessageOk(h.msg, tops) /\ held' \subseteq held
            /\ connection' = connection
        /\ ServerEpoch' = ServerEpoch
    BY <1>6, HeldTypes, HandleFacts DEF SentInv, ServerEpoch
  <2>2. IF h.connection = connection
        THEN /\ Ahead # <<>> /\ h.msg = Ahead[1] /\ Ahead' = Tail(Ahead)
             /\ 1 \in 1..Len(Ahead)
             /\ \A i \in 1..Len(Ahead') : i + 1 \in 2..Len(Ahead) /\ Ahead'[i] = Ahead[i + 1]
        ELSE Ahead' = Ahead
    <3>1. CASE h.connection = connection
      <4>1. Ahead # <<>> /\ h.msg = Ahead[1] /\ Ahead' = Tail(Ahead)
        BY <1>6, <3>1, AheadHandled
      <4>2. 1 \in 1..Len(Ahead) /\ \A i \in 1..Len(Ahead') : i + 1 \in 2..Len(Ahead)
                /\ Ahead'[i] = Ahead[i + 1]
        BY <1>1, <4>1, SeqFacts
      <4>3. QED
        BY <3>1, <4>1, <4>2
    <3>2. CASE h.connection # connection
      BY <1>6, <3>2, AheadHandled
    <3>3. QED
      BY <3>1, <3>2
  <2>3. \A i \in 1..Len(Ahead') : \E j \in 1..Len(Ahead) : Ahead'[i] = Ahead[j]
    <3>1. \A i \in 2..Len(Ahead) : i \in 1..Len(Ahead)
      OBVIOUS
    <3>2. QED
      BY <2>2, <3>1
  <2>4. \A k \in held' :
           k.connection # connection' /\ k.msg.type = "pub" => Above(Ahead', k.msg.pub.id[1])
    BY <1>3, <2>1, <2>3 DEF Above
  <2>5. Later(Ahead', epoch)
    <3>1. CASE h.connection # connection
      BY <1>3, <2>2, <3>1
    <3>2. CASE h.connection = connection
      <4>1. SUFFICES ASSUME NEW i \in 2..Len(Ahead'), Ahead'[i].type = "pub",
                            Ahead'[i - 1].type = "reply"
                     PROVE  epoch <= Ahead'[i].pub.id[1]
        OBVIOUS
      <4>2. i \in 1..Len(Ahead') /\ i - 1 \in 1..Len(Ahead') /\ (i + 1) - 1 = (i - 1) + 1
        BY <4>1
      <4>3. Ahead'[i] = Ahead[i + 1] /\ Ahead'[i - 1] = Ahead[(i + 1) - 1]
                /\ i + 1 \in 2..Len(Ahead)
        BY <2>2, <3>2, <4>2
      <4>4. QED
        BY <1>3, <4>1, <4>3
    <3>3. QED
      BY <3>1, <3>2
  <2>6. ASSUME \A i \in 1..Len(Ahead) : Ahead[i].type = "reply"
                   => i = 1 /\ h.connection = connection
        PROVE  \A x : Later(Ahead', x)
    <3>1. SUFFICES ASSUME NEW i \in 2..Len(Ahead'), Ahead'[i - 1].type = "reply"
                   PROVE  FALSE
      OBVIOUS
    <3>2. i - 1 \in 1..Len(Ahead') /\ (i - 1) + 1 = i /\ i # 1 /\ i - 1 \in Nat
      BY <3>1
    <3>3. CASE h.connection = connection
      <4>1. Ahead'[i - 1] = Ahead[i] /\ i \in 2..Len(Ahead)
        BY <2>2, <3>2, <3>3
      <4>2. i \in 1..Len(Ahead)
        BY <4>1
      <4>3. QED
        BY <2>6, <3>1, <3>2, <4>1, <4>2
    <3>4. CASE h.connection # connection
      BY <2>2, <2>6, <3>1, <3>2, <3>4
    <3>5. QED
      BY <3>3, <3>4
  <2>7. ASSUME epoch' = epoch, state' = "subscribed"
                   => state = "subscribed" /\ h.connection # connection
        PROVE  /\ epoch' <= ServerEpoch' /\ Later(Ahead', epoch')
               /\ state' = "subscribed" => First(Ahead', epoch')
    BY <1>3, <2>1, <2>2, <2>5, <2>7
  <2>8. state = "subscribed" /\ h.connection = connection => ~IsAnswer(h.msg)
    <3>1. SUFFICES ASSUME state = "subscribed", h.connection = connection, IsAnswer(h.msg)
                   PROVE  FALSE
      OBVIOUS
    <3>2. 1 \in 1..Len(Flow) /\ IsAnswer(Flow[1])
      BY <1>6, <3>1, AheadHandled, FlowType
    <3>3. QED
      BY <3>1, <3>2 DEF AskInv, Asked
  <2>9. CASE HandleReply(h) /\ Applies(h)
    <3>1. h.msg.type = "reply" /\ h.connection = connection
          /\ (IF TakesPosition(h.msg) THEN epoch' = h.msg.epoch ELSE epoch' = epoch)
      BY <2>9, ReplyFacts DEF Applies
    <3>2. h.msg = Ahead[1] /\ 1 \in 1..Len(Ahead) /\ h.msg.epoch <= ServerEpoch
          /\ h.msg.epoch \in Nat
      BY <2>1, <2>2, <3>1, MessageTypes DEF MessageOk, ServerEpoch
    <3>3. \A i \in 1..Len(Ahead) : Ahead[i].type = "reply" => i = 1
      BY <3>1, <3>2, AheadAnswers DEF IsAnswer
    <3>4. epoch' <= ServerEpoch'
      BY <1>3, <2>1, <3>1, <3>2
    <3>5. First(Ahead', epoch')
      <4>1. SUFFICES ASSUME Ahead' # <<>>, Ahead'[1].type = "pub"
                     PROVE  epoch' <= Ahead'[1].pub.id[1]
        OBVIOUS
      <4>2. Ahead'[1] = Ahead[2] /\ 2 \in 2..Len(Ahead)
        BY <1>1, <2>2, <3>1, <4>1
      <4>3. Link(h.msg, Ahead'[1].pub) /\ epoch <= Ahead'[1].pub.id[1]
        <5>1. Ahead[2 - 1] = h.msg
          BY <3>2
        <5>2. QED
          BY <1>3, <3>1, <4>1, <4>2, <5>1 DEF ChainInv, Chain
      <4>4. CASE h.msg.epoch = NoEpoch
        BY <3>1, <4>3, <4>4 DEF TakesPosition
      <4>5. CASE h.msg.epoch # NoEpoch
        <5>1. epoch' = h.msg.epoch
          BY <3>1, <4>5 DEF TakesPosition
        <5>2. PosAfter(h.msg)[1] = h.msg.epoch
          <6>1. CASE h.msg.pubs = <<>>
            BY <3>1, <4>5, <6>1 DEF PosAfter
          <6>2. CASE h.msg.pubs # <<>>
            <7> DEFINE p == h.msg.pubs
            <7>1. p \in Seq(PubRecords) /\ p # <<>>
              BY <2>1, <3>1, <6>2, MessageTypes
            <7>2. Len(p) \in 1..Len(p)
              <8> HIDE DEF p
              <8>1. QED
                BY <7>1
            <7>3. p[Len(p)].id = <<h.msg.epoch, h.msg.offset + Len(p)>>
              BY <2>1, <3>1, <7>2 DEF MessageOk
            <7>4. QED
              BY <3>1, <6>2, <7>3 DEF PosAfter
          <6>3. QED
            BY <6>1, <6>2
        <5>3. PosAfter(h.msg) # Unknown
          BY <4>5, <5>2 DEF Unknown, NoEpoch
        <5>4. Ahead'[1].pub.id[1] = h.msg.epoch
          BY <4>3, <5>2, <5>3 DEF Link, Following
        <5>5. QED
          BY <3>2, <5>1, <5>4
      <4>6. QED
        BY <4>4, <4>5
    <3>6. \A x : Later(Ahead', x)
      BY <2>6, <3>1, <3>3
    <3> HIDE DEF First, Later
    <3>7. QED
      BY <2>4, <3>4, <3>5, <3>6
  <2>10. CASE HandlePublication(h) /\ state = "subscribed"
    <3>1. h.msg.type = "pub" /\ epoch' = EpochAfter(h.msg.pub.id)
      BY <2>10, PublicationFacts
    <3>2. h.msg.pub \in PubRecords /\ h.msg.pub.id[1] \in 1..ServerEpoch
          /\ h.msg.pub.id[2] \in Nat \ {0}
      BY <3>1, SentEpochs
    <3>3. epoch' <= ServerEpoch'
      BY <1>1, <1>3, <2>1, <3>1, <3>2 DEF EpochAfter
    <3>4. \A x : Later(Ahead', x)
      BY <2>6, <2>10, AheadAnswers
    <3>5. First(Ahead', epoch')
      <4>1. SUFFICES ASSUME Ahead' # <<>>, Ahead'[1].type = "pub"
                     PROVE  epoch' <= Ahead'[1].pub.id[1]
        OBVIOUS
      <4>2. CASE h.connection # connection
        <5>1. 1 \in 1..Len(Ahead) /\ Ahead' = Ahead /\ Ahead # <<>>
          BY <1>1, <2>2, <4>1, <4>2
        <5>2. h.msg.pub.id[1] <= Ahead[1].pub.id[1] /\ epoch <= Ahead[1].pub.id[1]
          BY <1>3, <2>10, <3>1, <4>1, <4>2, <5>1 DEF Above
        <5>3. QED
          BY <3>1, <5>1, <5>2 DEF EpochAfter
      <4>3. CASE h.connection = connection
        <5>1. Ahead'[1] = Ahead[2] /\ 2 \in 2..Len(Ahead) /\ Ahead[2 - 1] = h.msg
                  /\ Ahead # <<>>
          BY <1>1, <2>2, <4>1, <4>3
        <5>2. Link(h.msg, Ahead'[1].pub)
          BY <4>1, <5>1 DEF ChainInv, Chain
        <5>3. PosAfter(h.msg) = h.msg.pub.id /\ h.msg.pub.id # Unknown
          BY <3>1, <3>2 DEF PosAfter, Unknown
        <5>4. Ahead'[1].pub.id[1] = h.msg.pub.id[1]
          BY <5>2, <5>3 DEF Link, Following
        <5>5. epoch <= h.msg.pub.id[1]
          BY <1>3, <2>10, <3>1, <5>1, <2>2, <4>3
        <5>6. QED
          BY <3>1, <3>2, <5>4, <5>5 DEF EpochAfter
      <4>4. QED
        BY <4>2, <4>3
    <3> HIDE DEF First, Later
    <3>6. QED
      BY <2>4, <3>3, <3>4, <3>5
  <2>11. CASE HandleReply(h) /\ ~Applies(h)
    <3>1. epoch' = epoch /\ state' = state /\ IsAnswer(h.msg)
      BY <2>11, ReplyFacts DEF position, IsAnswer
    <3> HIDE DEF First, Later
    <3>2. QED
      BY <2>4, <2>7, <2>8, <3>1
  <2>12. CASE HandlePublication(h) /\ state # "subscribed"
    <3>1. epoch' = epoch /\ state' = state
      BY <2>12, PublicationFacts DEF subscription
    <3> HIDE DEF First, Later
    <3>2. QED
      BY <2>4, <2>7, <2>12, <3>1
  <2>13. CASE HandleUnrecoverable(h)
    <3>1. state' = state /\ IsAnswer(h.msg)
      BY <2>13 DEF HandleUnrecoverable, IsAnswer
    <3>2. CASE Applies(h)
      <4>1. epoch' = NoEpoch /\ state' # "subscribed" /\ h.connection = connection
        BY <2>13, <3>1, <3>2 DEF HandleUnrecoverable, Applies
      <4>2. epoch' <= ServerEpoch'
        BY <1>1, <2>1, <4>1 DEF NoEpoch
      <4>3. 1 \in 1..Len(Flow) /\ IsAnswer(Flow[1]) /\ Flow[1] = h.msg
        BY <1>6, <3>1, <4>1, AheadHandled, FlowType
      <4>4. h.msg.type # "reply"
        BY <2>13 DEF HandleUnrecoverable
      <4>5. \A i \in 1..Len(Ahead) : Ahead[i].type # "reply"
        BY <4>3, <4>4, AheadAnswers
      <4>6. \A x : Later(Ahead', x)
        BY <2>6, <4>5
      <4> HIDE DEF First, Later
      <4>7. QED
        BY <2>4, <4>1, <4>2, <4>6
    <3>3. CASE ~Applies(h)
      <4>1. epoch' = epoch
        BY <2>13, <3>3 DEF HandleUnrecoverable, position
      <4> HIDE DEF First, Later
      <4>2. QED
        BY <2>4, <2>7, <2>8, <3>1, <4>1
    <3>4. QED
      BY <3>2, <3>3
  <2>14. CASE HandleUnsubscribe(h)
    <3>1. state' # "subscribed" /\ (epoch' = epoch \/ epoch' = -1)
      BY <2>14 DEF HandleUnsubscribe, InvalidatedEpoch
    <3>2. CASE epoch' = epoch
      <4> HIDE DEF First, Later
      <4>1. QED
        BY <2>4, <2>7, <3>1, <3>2
    <3>3. CASE epoch' = -1
      <4>1. \A i \in 1..Len(Ahead') : Ahead'[i].type = "pub" => Ahead'[i].pub.id[1] \in Nat
        BY <1>1, <2>3, MessageTypes, PubFields
      <4>2. Later(Ahead', epoch')
        <5>1. \A i \in 2..Len(Ahead') : i \in 1..Len(Ahead')
          OBVIOUS
        <5>2. \A x \in Nat : -1 <= x
          OBVIOUS
        <5>3. QED
          BY <3>3, <4>1, <5>1, <5>2
      <4>3. epoch' <= ServerEpoch'
        BY <1>1, <2>1, <3>3
      <4> HIDE DEF First, Later
      <4>4. QED
        BY <2>4, <3>1, <4>2, <4>3
    <3>4. QED
      BY <3>1, <3>2, <3>3
  <2>15. QED
    BY <1>6, <2>9, <2>10, <2>11, <2>12, <2>13, <2>14 DEF Handle
<1>7. QED
  BY <1>5, <1>6

------------------------------------------------------------------------------
(* Where the entries of the queue lead the application *)

\* What an entry does to what the application has seen, from a to b.
Moves(e, a, b, l, s) ==
  /\ e.kind = "recovered" => b = a
  /\ e.kind = "unrecovered" => b = e.position
  /\ e.kind = "noPosition" => b = Unknown
  /\ e.kind = "publication" /\ e.stale => b = Unknown
  /\ e.kind = "publication" /\ ~e.stale =>
       IF Earlier(e.pubs[1].id, l) THEN b = a
                                   ELSE b = e.pubs[1].id /\ (a = Unknown \/ b = Following(a))
  /\ e.kind = "publications" =>
       b = a /\ (Live(e, s) => a = Unknown \/ e.pubs[1].id = Following(a))

\* Nothing seen is before what was loaded.
Knows(a, l) == a # Unknown => Earlier(l, a)

\* The positions p that the entries of the queue q lead through.
Walks(p, q, l, s) ==
  /\ p \in Seq(Positions) /\ Len(p) = Len(q) + 1
  /\ \A i \in 1..Len(q) + 1 : Knows(p[i], l)
  /\ \A i \in 1..Len(q) : Moves(q[i], p[i], p[i + 1], l, s)

\* The queue leads the application from a to v.
Leads(a, v, q, l, s) == \E p : Walks(p, q, l, s) /\ p[1] = a /\ p[Len(q) + 1] = v

\* Positions are in a total order, Unknown first, and a position is before the one that
\* follows it.
LEMMA EarlierFacts ==
  ASSUME NEW p \in Positions, NEW q \in Positions
  PROVE  /\ Earlier(p, p) /\ (~Earlier(p, q) => Earlier(q, p)) /\ Earlier(Unknown, p)
         /\ Following(p) \in Positions
         /\ Earlier(q, p) => ~Earlier(Following(p), q)
         /\ Unknown \in Positions
BY DEF Earlier, Positions, Unknown, Following

\* Both ends are positions that are not before what was loaded.
LEMMA LeadsEnds ==
  ASSUME NEW q \in Seq(Events), NEW a, NEW v, NEW l, NEW s, Leads(a, v, q, l, s)
  PROVE  a \in Positions /\ v \in Positions /\ Knows(a, l) /\ Knows(v, l)
<1>1. PICK p : Walks(p, q, l, s) /\ p[1] = a /\ p[Len(q) + 1] = v
  BY DEF Leads
<1>2. Len(q) \in Nat /\ 1 \in 1..Len(q) + 1 /\ Len(q) + 1 \in 1..Len(q) + 1
  OBVIOUS
<1>3. p \in Seq(Positions) /\ Len(p) = Len(q) + 1 /\ Knows(p[1], l) /\ Knows(p[Len(q) + 1], l)
  BY <1>1, <1>2 DEF Walks
<1>4. \A i \in 1..Len(p) : p[i] \in Positions
  BY <1>3
<1>5. QED
  BY <1>1, <1>2, <1>3, <1>4

\* An empty queue leads nowhere.
LEMMA LeadsEmpty ==
  ASSUME NEW a, NEW v, NEW l, NEW s
  PROVE  /\ Leads(a, v, <<>>, l, s) => a = v
         /\ a \in Positions /\ Knows(a, l) => Leads(a, a, <<>>, l, s)
<1>1. Leads(a, v, <<>>, l, s) => a = v
  BY DEF Leads
<1>2. ASSUME a \in Positions, Knows(a, l) PROVE Leads(a, a, <<>>, l, s)
  <2> DEFINE p == <<a>>
  <2>1. p \in Seq(Positions) /\ Len(p) = 1 /\ p[1] = a /\ Len(<<>>) = 0
    BY <1>2
  <2> HIDE DEF p
  <2>2. (\A i \in 1..0 + 1 : i = 1) /\ 0 + 1 = 1 /\ \A i \in 1..0 : FALSE
    OBVIOUS
  <2>3. Walks(p, <<>>, l, s)
    BY <1>2, <2>1, <2>2 DEF Walks
  <2>4. QED
    BY <2>1, <2>3 DEF Leads
<1>3. QED
  BY <1>1, <1>2

\* One more entry at the end moves v.
LEMMA LeadsAppend ==
  ASSUME NEW q \in Seq(Events), NEW e \in Events, NEW a, NEW v, NEW w \in Positions, NEW l,
         NEW s,
         Leads(a, v, q, l, s), Moves(e, v, w, l, s), Knows(w, l)
  PROVE  Leads(a, w, Append(q, e), l, s)
<1>1. PICK p : Walks(p, q, l, s) /\ p[1] = a /\ p[Len(q) + 1] = v
  BY DEF Leads
<1> DEFINE n == Len(q)
           r == Append(q, e)
           o == Append(p, w)
<1>2. n \in Nat /\ Len(r) = n + 1 /\ r[n + 1] = e /\ \A i \in 1..n : r[i] = q[i]
  BY AppendFacts
<1>3. p \in Seq(Positions) /\ Len(p) = n + 1
  BY <1>1 DEF Walks
<1>4. o \in Seq(Positions) /\ Len(o) = (n + 1) + 1 /\ o[(n + 1) + 1] = w
          /\ \A i \in 1..n + 1 : o[i] = p[i]
  BY <1>3, AppendFacts
<1>5. /\ \A i \in 1..n + 1 : Knows(p[i], l)
      /\ \A i \in 1..n : Moves(q[i], p[i], p[i + 1], l, s)
  BY <1>1 DEF Walks
<1> HIDE DEF n, r, o
<1>6. \A i \in 1..(n + 1) + 1 : i \in 1..n + 1 \/ i = (n + 1) + 1
  BY <1>2
<1>7. \A i \in 1..n + 1 : Moves(r[i], o[i], o[i + 1], l, s)
  <2> SUFFICES ASSUME NEW i \in 1..n + 1 PROVE Moves(r[i], o[i], o[i + 1], l, s)
    OBVIOUS
  <2>1. CASE i \in 1..n
    <3>1. i + 1 \in 1..n + 1
      BY <1>2, <2>1
    <3>2. QED
      BY <1>2, <1>4, <1>5, <2>1, <3>1
  <2>2. CASE i \notin 1..n
    <3>1. i = n + 1
      BY <1>2, <2>2
    <3>2. o[n + 1] = v
      BY <1>1, <1>2, <1>4, <3>1 DEF n
    <3>3. QED
      BY <1>2, <1>4, <3>1, <3>2
  <2>3. QED
    BY <2>1, <2>2
<1>8. Walks(o, r, l, s)
  BY <1>2, <1>4, <1>5, <1>6, <1>7 DEF Walks
<1>9. o[1] = a
  <2>1. 1 \in 1..n + 1
    BY <1>2
  <2>2. QED
    BY <1>1, <1>4, <2>1
<1>10. QED
  BY <1>2, <1>4, <1>8, <1>9 DEF Leads, r

\* The first entry moves what the application has seen.
LEMMA LeadsTail ==
  ASSUME NEW q \in Seq(Events), NEW a, NEW v, NEW l, NEW s, Leads(a, v, q, l, s), q # <<>>
  PROVE  \E b \in Positions : Knows(b, l) /\ Moves(q[1], a, b, l, s)
             /\ Leads(b, v, Tail(q), l, s)
<1>1. PICK p : Walks(p, q, l, s) /\ p[1] = a /\ p[Len(q) + 1] = v
  BY DEF Leads
<1> DEFINE n == Len(q)
           t == Tail(q)
           o == Tail(p)
<1>2. n \in Nat /\ n # 0 /\ Len(t) = n - 1 /\ \A i \in 1..n - 1 : t[i] = q[i + 1]
  BY SeqFacts
<1>3. p \in Seq(Positions) /\ Len(p) = n + 1
  BY <1>1 DEF Walks
<1>4. p # <<>>
  BY <1>2, <1>3
<1>5. o \in Seq(Positions) /\ Len(o) = (n + 1) - 1
          /\ (\A i \in 1..(n + 1) - 1 : o[i] = p[i + 1])
      /\ \A i \in 1..n + 1 : p[i] \in Positions
  BY <1>3, <1>4, SeqFacts
<1>6. /\ \A i \in 1..n + 1 : Knows(p[i], l)
      /\ \A i \in 1..n : Moves(q[i], p[i], p[i + 1], l, s)
  BY <1>1 DEF Walks
<1> HIDE DEF n, t, o
<1>7. (n - 1) + 1 = n /\ (n + 1) - 1 = n
  BY <1>2
<1>8. \A i \in 1..n : i + 1 \in 1..n + 1
  BY <1>2
<1>9. \A i \in 1..n - 1 : i \in 1..n /\ i + 1 \in 1..n
  BY <1>2
<1>10. \A i \in 1..n : Knows(o[i], l)
  BY <1>5, <1>6, <1>7, <1>8
<1>11. \A i \in 1..n - 1 : Moves(t[i], o[i], o[i + 1], l, s)
  BY <1>2, <1>5, <1>6, <1>7, <1>9
<1>12. Walks(o, t, l, s)
  BY <1>2, <1>5, <1>7, <1>10, <1>11 DEF Walks
<1>13. 1 \in 1..n /\ n \in 1..n /\ 1 + 1 \in 1..n + 1
  BY <1>2
<1>14. o[1] = p[1 + 1] /\ o[n] = v
  BY <1>1, <1>5, <1>7, <1>13 DEF n
<1>15. Leads(p[1 + 1], v, t, l, s)
  BY <1>2, <1>7, <1>12, <1>14 DEF Leads
<1>16. QED
  BY <1>1, <1>5, <1>6, <1>13, <1>15 DEF t

\* An entry put in front.
LEMMA LeadsCons ==
  ASSUME NEW q \in Seq(Events), NEW r \in Events, NEW a \in Positions, NEW b, NEW v, NEW l,
         NEW s,
         Knows(a, l), Moves(r, a, b, l, s), Leads(b, v, q, l, s)
  PROVE  Leads(a, v, <<r>> \o q, l, s)
<1>1. PICK p : Walks(p, q, l, s) /\ p[1] = b /\ p[Len(q) + 1] = v
  BY DEF Leads
<1> DEFINE n == Len(q)
           t == <<r>> \o q
           o == <<a>> \o p
<1>2. n \in Nat /\ Len(t) = n + 1 /\ t[1] = r /\ \A i \in 2..n + 1 : t[i] = q[i - 1]
  OBVIOUS
<1>3. p \in Seq(Positions) /\ Len(p) = n + 1
  BY <1>1 DEF Walks
<1>4. o \in Seq(Positions) /\ Len(o) = (n + 1) + 1 /\ o[1] = a
          /\ \A i \in 2..(n + 1) + 1 : o[i] = p[i - 1]
  BY <1>3
<1>5. /\ \A i \in 1..n + 1 : Knows(p[i], l)
      /\ \A i \in 1..n : Moves(q[i], p[i], p[i + 1], l, s)
  BY <1>1 DEF Walks
<1> HIDE DEF n, t, o
<1>6. \A i \in 1..(n + 1) + 1 : i = 1 \/ (i \in 2..(n + 1) + 1 /\ i - 1 \in 1..n + 1)
  BY <1>2
<1>7. \A i \in 1..(n + 1) + 1 : Knows(o[i], l)
  BY <1>4, <1>5, <1>6
<1>8. \A i \in 1..n + 1 : Moves(t[i], o[i], o[i + 1], l, s)
  <2> SUFFICES ASSUME NEW i \in 1..n + 1 PROVE Moves(t[i], o[i], o[i + 1], l, s)
    OBVIOUS
  <2>1. i + 1 \in 2..(n + 1) + 1 /\ (i + 1) - 1 = i
    BY <1>2
  <2>2. CASE i = 1
    <3>1. o[i + 1] = p[i]
      BY <1>4, <2>1
    <3>2. QED
      BY <1>1, <1>2, <1>4, <2>2, <3>1
  <2>3. CASE i # 1
    <3>1. i \in 2..n + 1 /\ i \in 2..(n + 1) + 1 /\ i - 1 \in 1..n /\ (i - 1) + 1 = i
      BY <1>2, <2>3
    <3>2. t[i] = q[i - 1] /\ o[i] = p[i - 1] /\ o[i + 1] = p[(i - 1) + 1]
      BY <1>2, <1>4, <2>1, <3>1
    <3>3. QED
      BY <1>5, <3>1, <3>2
  <2>4. QED
    BY <2>2, <2>3
<1>9. Walks(o, t, l, s)
  BY <1>2, <1>4, <1>7, <1>8 DEF Walks
<1>10. o[(n + 1) + 1] = v
  <2>1. (n + 1) + 1 \in 2..(n + 1) + 1 /\ ((n + 1) + 1) - 1 = n + 1
    BY <1>2
  <2>2. QED
    BY <1>1, <1>4, <2>1 DEF n
<1>11. QED
  BY <1>2, <1>4, <1>9, <1>10 DEF Leads, t

\* The session matters to an entry of recovered publications only.
LEMMA LeadsSession ==
  ASSUME NEW q, NEW a, NEW v, NEW l, NEW s, NEW t, Leads(a, v, q, l, s),
         \A i \in 1..Len(q) : Live(q[i], t) => Live(q[i], s)
  PROVE  Leads(a, v, q, l, t)
<1>1. PICK p : Walks(p, q, l, s) /\ p[1] = a /\ p[Len(q) + 1] = v
  BY DEF Leads
<1>2. \A i \in 1..Len(q) : Moves(q[i], p[i], p[i + 1], l, t)
  BY <1>1 DEF Walks, Moves
<1>3. Walks(p, q, l, t)
  BY <1>1, <1>2 DEF Walks
<1>4. QED
  BY <1>1, <1>3 DEF Leads

\* Stale publications lead nowhere, from anywhere.
LEMMA LeadsStale ==
  ASSUME NEW q \in Seq(Events), q # <<>>, \A i \in 1..Len(q) : StalePub(q[i]),
         NEW a, NEW v, NEW l, NEW s, Leads(a, v, q, l, s), NEW b \in Positions, Knows(b, l)
  PROVE  v = Unknown /\ Leads(b, Unknown, q, l, s)
<1>1. PICK p : Walks(p, q, l, s) /\ p[1] = a /\ p[Len(q) + 1] = v
  BY DEF Leads
<1>2. Len(q) \in Nat \ {0} /\ Len(q) \in 1..Len(q) /\ 1 \in 1..Len(q)
  OBVIOUS
<1>3. v = Unknown
  <2>1. Moves(q[Len(q)], p[Len(q)], p[Len(q) + 1], l, s)
    BY <1>1, <1>2 DEF Walks
  <2>2. QED
    BY <1>1, <1>2, <2>1 DEF Moves, StalePub
<1>4. PICK c \in Positions : Knows(c, l) /\ Moves(q[1], a, c, l, s)
          /\ Leads(c, v, Tail(q), l, s)
  BY LeadsTail
<1>5. c = Unknown
  BY <1>2, <1>4 DEF Moves, StalePub
<1>6. Moves(q[1], b, c, l, s)
  BY <1>2, <1>5 DEF Moves, StalePub
<1>7. Tail(q) \in Seq(Events) /\ q[1] \in Events /\ q = <<q[1]>> \o Tail(q)
  OBVIOUS
<1>8. Leads(b, v, <<q[1]>> \o Tail(q), l, s)
  BY <1>4, <1>6, <1>7, LeadsCons
<1>9. QED
  BY <1>3, <1>7, <1>8

\* After the state was loaded, entries queued before lead nowhere else.
LEMMA LeadsLoaded ==
  ASSUME NEW q \in Seq(Events), NEW l \in Positions, NEW s,
         \A i \in 1..Len(q) :
           /\ q[i].kind \notin {"unrecovered", "noPosition"} /\ ~Live(q[i], s)
           /\ q[i].kind = "publication" => Earlier(q[i].pubs[1].id, l)
  PROVE  \E v \in {Unknown, l} : Leads(l, v, q, l, s)
<1> DEFINE n == Len(q)
           A(i) == IF \E j \in 1..n : j < i /\ StalePub(q[j]) THEN Unknown ELSE l
           p == [i \in 1..n + 1 |-> A(i)]
<1>1. n \in Nat /\ Unknown \in Positions /\ Earlier(l, l)
  BY EarlierFacts
<1>2. \A i : A(i) \in Positions /\ Knows(A(i), l) /\ A(i) \in {Unknown, l}
  BY <1>1 DEF Knows
<1>3. \A i \in 1..n : Moves(q[i], A(i), A(i + 1), l, s)
  <2> SUFFICES ASSUME NEW i \in 1..n PROVE Moves(q[i], A(i), A(i + 1), l, s)
    OBVIOUS
  <2>1. \A j \in 1..n : j < i + 1 <=> j < i \/ j = i
    BY <1>1
  <2>2. CASE StalePub(q[i])
    <3>1. A(i + 1) = Unknown
      BY <2>1, <2>2
    <3> HIDE DEF A
    <3>2. QED
      BY <2>2, <3>1 DEF Moves, StalePub
  <2>3. CASE ~StalePub(q[i])
    <3>1. A(i + 1) = A(i)
      BY <2>1, <2>3
    <3>2. q[i].kind \in {"recovered", "publication", "publications"}
      BY EventFields DEF Kinds, n
    <3> HIDE DEF A
    <3>3. QED
      BY <2>3, <3>1, <3>2 DEF Moves, StalePub, n
  <2>4. QED
    BY <2>2, <2>3
<1>4. \A i \in 1..n + 1 : p[i] = A(i)
  OBVIOUS
<1>5. p \in Seq(Positions) /\ Len(p) = n + 1
  <2> HIDE DEF A, n
  <2>1. n + 1 \in Nat
    BY <1>1
  <2>2. QED
    BY <1>2, <2>1
<1>6. A(1) = l
  BY <1>1
<1> HIDE DEF A, p, n
<1>7. \A i \in 1..n : i \in 1..n + 1 /\ i + 1 \in 1..n + 1
  BY <1>1
<1>8. 1 \in 1..n + 1 /\ n + 1 \in 1..n + 1
  BY <1>1
<1>9. Walks(p, q, l, s)
  BY <1>2, <1>3, <1>4, <1>5, <1>7 DEF Walks, n
<1>10. Leads(l, A(n + 1), q, l, s)
  BY <1>4, <1>6, <1>8, <1>9 DEF Leads, n
<1>11. QED
  BY <1>2, <1>10

\* The last publication of an entry.
LastOf(e) == e.pubs[Len(e.pubs)].id

\* The entries of the queue lead to v.  A position the server recovers from is v, and
\* an unknown one says nothing.
PosRight(v, r, ep, o, se) ==
  r => /\ ep = se => v \in {Unknown, <<ep, o>>}
       /\ ep = NoEpoch => v = Unknown

\* A subscribe that recovers asks from v, in an epoch there was.
CmdRight(v, c, se) ==
  c.type = "subscribe" /\ c.recover => c.epoch <= se /\ PosRight(v, TRUE, c.epoch, c.offset, se)

\* So does every one that is on its way.
CmdsRight(v, c, se) == \A i \in 1..Len(c) : CmdRight(v, c[i], se)

\* A reply that recovered starts from v.
ReplyRight(v, m) == m.type = "reply" /\ m.recovered => v \in {Unknown, <<m.epoch, m.offset>>}

\* So does every one that is on its way.
RepliesRight(v, f) == \A i \in 1..Len(f) : ReplyRight(v, f[i])
\* The next publication continues the live entry, or else v.
NextRight(v, st, f, q, s) ==
  st = "subscribed" /\ f # <<>> /\ f[1].type = "pub" =>
    /\ \A i \in 1..Len(q) : Live(q[i], s) => f[1].pub.id = Following(LastOf(q[i]))
    /\ (\A i \in 1..Len(q) : ~Live(q[i], s)) => v = Unknown \/ f[1].pub.id = Following(v)

\* What the application will have seen, once the queue is delivered, is v: the position of
\* the client, of its subscribe and of the reply to it.
WalkTo(v) ==
  /\ Leads(seen, v, queue, loaded, LiveSession)
  /\ PosRight(v, recover, epoch, offset, ServerEpoch)
  /\ CmdsRight(v, commands, ServerEpoch)
  /\ RepliesRight(v, Flow)
  /\ NextRight(v, state, Ahead, queue, LiveSession)

\* There is such a position.
WalkInv == \E v \in Positions : WalkTo(v)

\* WalkTo after a step, term by term.
WalksToNext(v) ==
  /\ Leads(seen', v, queue', loaded', LiveSession')
  /\ PosRight(v, recover', epoch', offset', ServerEpoch')
  /\ CmdsRight(v, commands', ServerEpoch')
  /\ RepliesRight(v, Flow')
  /\ NextRight(v, state', Ahead', queue', LiveSession')

\* The terms make the invariant of the next state.
LEMMA WalkNext ==
  ASSUME NEW v \in Positions, WalksToNext(v)
  PROVE  WalkInv'
BY DEF WalksToNext, WalkInv, WalkTo, Leads, Walks, Knows, Moves, Live, Earlier, PosRight,
       CmdsRight, CmdRight, RepliesRight, ReplyRight, NextRight, LastOf, Following,
       Unknown, NoEpoch, Positions

\* Subscribe commands grow stale, never wrong, as epochs begin.
LEMMA CmdsGrow ==
  ASSUME NEW v, NEW c \in Seq(Commands), NEW se \in Nat,
         NEW te \in Nat, se <= te, CmdsRight(v, c, se)
  PROVE  CmdsRight(v, c, te)
<1>1. SUFFICES ASSUME NEW i \in 1..Len(c), c[i].type = "subscribe", c[i].recover
               PROVE  c[i].epoch <= te /\ PosRight(v, TRUE, c[i].epoch, c[i].offset, te)
  BY DEF CmdsRight, CmdRight
<1>2. c[i] \in Commands
  OBVIOUS
<1>3. c[i].epoch \in Int
  BY <1>1, <1>2, CommandTypes
<1>4. c[i].epoch <= se /\ PosRight(v, TRUE, c[i].epoch, c[i].offset, se)
  BY <1>1 DEF CmdsRight, CmdRight
<1>5. c[i].epoch = te => c[i].epoch = se
  BY <1>3, <1>4
<1>6. QED
  BY <1>3, <1>4, <1>5 DEF PosRight

\* A subscribe on its way stays right: a new one has the recorded position.
LEMMA QuietCommands ==
  ASSUME NEW G \in BOOLEAN, StepOf(G), Base, EpochInv, NEW v \in Positions, WalkTo(v)
  PROVE  CmdsRight(v, commands', ServerEpoch')
<1> USE DEF Base, Types
<1>1. commands \in Seq(Commands) /\ ServerEpoch \in Nat /\ ServerEpoch' \in Nat
          /\ ServerEpoch <= ServerEpoch'
  BY TopsGrow, SentEpochs DEF Grows, ServerEpoch, LinkTypes
<1>2. SUFFICES CmdsRight(v, commands', ServerEpoch)
  <2>1. commands' \in Seq(Commands)
    BY LinkTypesStep DEF LinkTypes
  <2>2. QED
    BY <1>1, <1>2, <2>1, CmdsGrow
<1> DEFINE R(c) == CmdRight(v, c, ServerEpoch)
<1>3. \A i \in 1..Len(commands) : R(commands[i])
  BY DEF WalkTo, CmdsRight
<1>4. ASSUME NEW c \in Commands, R(c), commands' = Append(commands, c)
      PROVE  CmdsRight(v, commands', ServerEpoch)
  <2> HIDE DEF R
  <2>1. \A i \in 1..Len(commands') : R(commands'[i])
    BY <1>1, <1>3, <1>4, AppendFacts
  <2>2. QED
    BY <2>1 DEF CmdsRight, R
<1>5. CASE commands' = commands
  BY <1>5 DEF WalkTo
<1>6. CASE Unsubscribe
  <2> DEFINE c == [type |-> "unsubscribe"]
  <2>1. commands' = commands \/ commands' = Append(commands, c)
    BY <1>6 DEF Unsubscribe
  <2>2. c \in Commands
    BY NewCommands
  <2>3. R(c)
    BY DEF CmdRight
  <2> HIDE DEF c, R
  <2>4. QED
    BY <1>4, <1>5, <2>1, <2>2, <2>3
<1>7. CASE Sends(G)
  <2> DEFINE c == [type |-> "subscribe", attempt |-> subscribeAttempt,
                           recover |-> recover, epoch |-> epoch, offset |-> offset]
  <2>1. commands' = Append(commands, c)
    BY <1>7, SendFacts
  <2>2. c \in Commands
    BY NewCommands
  <2>3. c.recover = recover /\ c.epoch = epoch /\ c.offset = offset
    OBVIOUS
  <2>4. PosRight(v, recover, epoch, offset, ServerEpoch) /\ epoch <= ServerEpoch
    BY DEF WalkTo, EpochInv
  <2> HIDE DEF c
  <2>5. R(c)
    BY <2>3, <2>4 DEF CmdRight, PosRight
  <2> HIDE DEF R
  <2>6. QED
    BY <1>4, <2>1, <2>2, <2>5
<1>8. CASE commands # <<>> /\ commands' = Tail(commands)
  <2>1. \A i \in 1..Len(Tail(commands)) : i + 1 \in 1..Len(commands)
            /\ Tail(commands)[i] = commands[i + 1]
    BY <1>1, <1>8
  <2> HIDE DEF R
  <2>2. \A i \in 1..Len(commands') : R(commands'[i])
    BY <1>3, <1>8, <2>1
  <2>3. QED
    BY <2>2 DEF R, CmdsRight
<1>9. CASE ConnectionLost
  BY <1>9 DEF ConnectionLost, CmdsRight
<1>10. Answered(G) => commands # <<>> /\ commands' = Tail(commands)
  BY AnswerFacts
<1>11. ServerUnsubscribes => commands # <<>> /\ commands' = Tail(commands)
  BY DEF ServerUnsubscribes
<1>12. QED
  BY <1>5, <1>6, <1>7, <1>8, <1>9, <1>10, <1>11, Frames

\* A reply on its way stays right: the server recovers from the position it is asked.
LEMMA QuietReplies ==
  ASSUME NEW G \in BOOLEAN, StepOf(G), Base, NEW v \in Positions, WalkTo(v)
  PROVE  RepliesRight(v, Flow')
<1> USE DEF Base, Types
<1> DEFINE R(m) == ReplyRight(v, m)
<1>1. Flow \in Seq(Messages) /\ commands \in Seq(Commands)
  BY FlowType DEF LinkTypes
<1>2. \A i \in 1..Len(Flow) : R(Flow[i])
  BY DEF WalkTo, RepliesRight
<1>3. ASSUME NEW m \in Messages, R(m), Flow' = Append(Flow, m)
      PROVE  RepliesRight(v, Flow')
  <2> HIDE DEF R
  <2>1. \A i \in 1..Len(Flow') : R(Flow'[i])
    BY <1>1, <1>2, <1>3, AppendFacts
  <2>2. QED
    BY <2>1 DEF RepliesRight, R
<1>4. \A m \in Messages : m.type # "reply" => R(m)
  BY DEF ReplyRight
<1>5. CASE Flow' = Flow
  BY <1>5 DEF WalkTo
<1>6. CASE Flow' = <<>>
  BY <1>6 DEF RepliesRight
<1>7. CASE Flow # <<>> /\ Flow' = Tail(Flow)
  <2>1. \A i \in 1..Len(Flow') : i + 1 \in 1..Len(Flow) /\ Flow'[i] = Flow[i + 1]
    BY <1>1, <1>7
  <2>2. QED
    BY <1>2, <2>1 DEF RepliesRight
<1>8. CASE Publish
  <2>1. Flow' = Flow \/ Flow' = Append(Flow, NextPub)
    BY <1>8, PublishFacts
  <2>2. NextPub \in Messages /\ NextPub.type # "reply"
    BY NextPubType DEF NextPub
  <2> HIDE DEF R
  <2>3. QED
    BY <1>3, <1>4, <1>5, <2>1, <2>2
<1>9. CASE Reset \/ Invalidate
  <2>1. CASE \E m \in Messages : m.type = "unsubscribe" /\ Flow' = Append(Flow, m)
    BY <1>3, <1>4, <2>1
  <2>2. QED
    BY <1>5, <1>9, <2>1, AheadUnsubscribed
<1>10. CASE Answered(G)
  <2> DEFINE cmd == Head(commands)
  <2>1. PICK m \in Messages :
              /\ wire' = Append(wire, m)
              /\ \/ /\ cmd.recover /\ cmd.epoch \in {NoEpoch, ServerEpoch}
                    /\ m = Replied(cmd.attempt, ServerEpoch, cmd.offset,
                       History(cmd.offset), TRUE)
                 \/ m = Replied(cmd.attempt, ServerEpoch, Top, <<>>, FALSE)
                 \/ m = Replied(cmd.attempt, NoEpoch, 0, <<>>, FALSE)
                 \/ m = [type |-> "unrecoverable", attempt |-> cmd.attempt]
    BY <1>10, AnswerCases
  <2>2. Flow' = Append(Flow, m)
    BY <1>10, <2>1, AheadAnswered
  <2>3. cmd.type = "subscribe" /\ CmdRight(v, cmd, ServerEpoch)
    <3>1. commands # <<>> /\ cmd.type = "subscribe"
      BY <1>10, AnswerFacts
    <3>2. 1 \in 1..Len(commands) /\ cmd = commands[1]
      BY <1>1, <3>1
    <3>3. QED
      BY <3>1, <3>2 DEF WalkTo, CmdsRight
  <2> HIDE DEF cmd
  <2>4. R(m)
    <3>1. CASE /\ cmd.recover /\ cmd.epoch \in {NoEpoch, ServerEpoch}
               /\ m = Replied(cmd.attempt, ServerEpoch, cmd.offset, History(cmd.offset), TRUE)
      <4>1. m.epoch = ServerEpoch /\ m.offset = cmd.offset
        BY <3>1 DEF Replied
      <4>2. v \in {Unknown, <<ServerEpoch, cmd.offset>>}
        BY <2>3, <3>1 DEF CmdRight, PosRight
      <4>3. QED
        BY <4>1, <4>2 DEF ReplyRight
    <3>2. CASE \/ m = Replied(cmd.attempt, ServerEpoch, Top, <<>>, FALSE)
               \/ m = Replied(cmd.attempt, NoEpoch, 0, <<>>, FALSE)
      <4>1. m.recovered = FALSE
        BY <3>2 DEF Replied
      <4>2. QED
        BY <4>1 DEF ReplyRight
    <3>3. CASE m = [type |-> "unrecoverable", attempt |-> cmd.attempt]
      <4>1. m.type # "reply"
        BY <3>3
      <4>2. QED
        BY <1>4, <4>1
    <3>4. QED
      BY <2>1, <3>1, <3>2, <3>3
  <2> HIDE DEF R
  <2>5. QED
    BY <1>3, <2>2, <2>4
<1>11. ASSUME NEW h \in held, Handle(h) PROVE RepliesRight(v, Flow')
  BY <1>5, <1>7, <1>11, AheadHandled
<1>12. QED
  BY <1>5, <1>6, <1>8, <1>9, <1>10, <1>11, FlowCases

\* A step that handles no message and delivers nothing keeps v.
LEMMA WalkQuiet ==
  ASSUME NEW G \in BOOLEAN, StepOf(G), Base, EpochInv, NEW v \in Positions, WalkTo(v),
         ~\E h \in held : Handle(h), ~Dispatcher, ~(GetState /\ G)
  PROVE  WalksToNext(v)
<1> USE DEF Base, Types
<1>1. UNCHANGED <<recover, epoch, offset, queue, seen, loaded>>
  <2>1. ~RunRecovered
    BY DEF Dispatcher
  <2>2. QED
    BY <2>1, Frames
<1>2. ServerEpoch \in Nat /\ ServerEpoch' \in Nat /\ ServerEpoch <= ServerEpoch'
          /\ epoch \in Int
      /\ epoch <= ServerEpoch
  BY TopsGrow, SentEpochs DEF Grows, ServerEpoch, SubscriptionTypes, EpochInv
<1>3. PosRight(v, recover', epoch', offset', ServerEpoch')
  <2>1. epoch = ServerEpoch' => epoch = ServerEpoch
    BY <1>2
  <2>2. QED
    BY <1>1, <2>1 DEF WalkTo, PosRight
<1>4. LiveSession' \in {LiveSession, 0} /\ \A i \in 1..Len(queue) : ~Live(queue[i], 0)
  <2>1. \A h \in held : ~HandleReply(h)
    BY DEF Handle
  <2>2. QED
    BY <2>1, SessionSteps
<1>5. Leads(seen', v, queue', loaded', LiveSession')
  BY <1>1, <1>4, LeadsSession DEF WalkTo
<1>6. NextRight(v, state', Ahead', queue', LiveSession')
  <2>1. SUFFICES ASSUME state' = "subscribed", Ahead' # <<>>, Ahead'[1].type = "pub"
                 PROVE  NextRight(v, state', Ahead', queue', LiveSession')
    BY DEF NextRight
  <2>2. state = "subscribed" /\ Ahead # <<>> /\ Ahead[1] = Ahead'[1]
            /\ UNCHANGED subscribedSession
    BY <2>1, FirstKept
  <2>3. LiveSession' = LiveSession
    BY <2>1, <2>2 DEF LiveSession
  <2>4. QED
    BY <1>1, <2>1, <2>2, <2>3 DEF NextRight, WalkTo
<1>7. QED
  BY <1>3, <1>5, <1>6, QuietCommands, QuietReplies DEF WalksToNext

\* Nothing is under way when the state is loaded.
LEMMA WalkLoads ==
  ASSUME NEW G \in BOOLEAN, StepOf(G), Base, GetStateInv(G), GetState, G
  PROVE  WalkInv'
<1> USE DEF Base, Types
<1>1. /\ state = "subscribing" /\ ~inflight /\ recover' = TRUE /\ epoch' = ServerEpoch
             /\ offset' = Top
      /\ seen' = <<ServerEpoch, Top>> /\ loaded' = seen'
      /\ UNCHANGED <<queue, held, state, subscribedSession, tops, serverSub, base,
         commands, wire, connection>>
  BY DEF GetState, server, link, subscription
<1>2. ServerEpoch \in Nat \ {0} /\ Top \in Nat /\ ServerEpoch' = ServerEpoch
      /\ <<ServerEpoch, Top>> \in Positions /\ Unknown \in Positions
  BY <1>1, SentEpochs DEF ServerEpoch, Positions, Unknown
<1>3. Flow' = Flow /\ LiveSession' = 0 /\ LiveSession = 0
  BY <1>1, FlowKept DEF LiveSession
<1> DEFINE l == <<ServerEpoch, Top>>
<1>4. \A i \in 1..Len(queue) :
           /\ queue[i].kind \notin {"unrecovered", "noPosition"} /\ ~Live(queue[i], 0)
           /\ queue[i].kind = "publication" => Earlier(queue[i].pubs[1].id, l)
  <2> SUFFICES ASSUME NEW i \in 1..Len(queue)
               PROVE  /\ queue[i].kind \notin {"unrecovered", "noPosition"}
                             /\ ~Live(queue[i], 0)
                      /\ queue[i].kind = "publication" => Earlier(queue[i].pubs[1].id, l)
    OBVIOUS
  <2>1. queue[i].kind \notin {"unrecovered", "noPosition"} /\ ~Live(queue[i], 0)
    BY SessionSteps DEF GetStateInv, EventRecovered
  <2>2. ASSUME queue[i].kind = "publication" PROVE Earlier(queue[i].pubs[1].id, l)
    <3> DEFINE p == queue[i].pubs
    <3>1. p # <<>> /\ p \in Seq(PubRecords)
      BY <2>2, EventFields DEF QueueTypes
    <3>2. 1 \in 1..Len(p) /\ p[1] \in PubRecords
      <4> HIDE DEF p
      <4>1. QED
        BY <3>1
    <3>3. PublishedIn(tops, p[1].id)
      BY <3>2 DEF EventsInv, EventOk
    <3>4. p[1].id[1] \in Nat /\ p[1].id[2] \in Nat
      BY <3>2, PubFields
    <3> HIDE DEF p
    <3>5. /\ p[1].id[1] \in 1..ServerEpoch /\ (p[1].id[1] = ServerEpoch
                 => p[1].id[2] \in 1..Top)
      BY <3>3 DEF PublishedIn, ServerEpoch, Top
    <3>6. QED
      BY <1>2, <3>4, <3>5 DEF Earlier, p
  <2>3. QED
    BY <2>1, <2>2
<1>5. PICK v \in {Unknown, l} : Leads(l, v, queue, l, 0)
  <2>1. queue \in Seq(Events) /\ l \in Positions
    BY <1>2 DEF QueueTypes
  <2> HIDE DEF l
  <2>2. QED
    BY <1>4, <2>1, LeadsLoaded
<1>6. v \in Positions
  BY <1>2
<1>7. PosRight(v, recover', epoch', offset', ServerEpoch')
  BY <1>1, <1>2 DEF PosRight, NoEpoch
<1>8. CmdsRight(v, commands', ServerEpoch')
  BY <1>1 DEF CmdsRight, CmdRight, AskInv, Asked, IsAsk
<1>9. RepliesRight(v, Flow')
  BY <1>1, <1>3 DEF RepliesRight, ReplyRight, AskInv, Asked, IsAnswer
<1>10. NextRight(v, state', Ahead', queue', LiveSession')
  BY <1>1 DEF NextRight
<1>11. WalksToNext(v)
  BY <1>1, <1>3, <1>5, <1>7, <1>8, <1>9, <1>10 DEF WalksToNext
<1>12. QED
  BY <1>6, <1>11, WalkNext

\* The first message ahead, when the reader of the connection handles it.
LEMMA HeadAhead ==
  ASSUME Base, NEW h \in held, Handle(h)
  PROVE  /\ h.msg \in Messages /\ MessageOk(h.msg, tops)
         /\ state = "subscribed" /\ h.connection = connection => ~IsAnswer(h.msg)
         /\ h.connection # connection => Ahead' = Ahead
         /\ h.connection = connection =>
              /\ Flow # <<>> /\ h.msg = Flow[1] /\ 1 \in 1..Len(Flow)
              /\ Ahead # <<>> /\ h.msg = Ahead[1]
              /\ Ahead' # <<>> /\ Ahead'[1].type = "pub" => Link(h.msg, Ahead'[1].pub)
<1> USE DEF Base, Types
<1>1. h.msg \in Messages /\ MessageOk(h.msg, tops)
  BY HeldTypes DEF SentInv
<1>2. h.connection # connection => Ahead' = Ahead
  BY AheadHandled
<1>3. ASSUME h.connection = connection
      PROVE  /\ Flow # <<>> /\ h.msg = Flow[1] /\ 1 \in 1..Len(Flow)
             /\ Ahead # <<>> /\ h.msg = Ahead[1]
             /\ Ahead' # <<>> /\ Ahead'[1].type = "pub" => Link(h.msg, Ahead'[1].pub)
  <2>1. Flow # <<>> /\ h.msg = Flow[1] /\ Ahead # <<>> /\ h.msg = Ahead[1]
            /\ Ahead' = Tail(Ahead)
    BY <1>3, AheadHandled
  <2>2. 1 \in 1..Len(Flow)
    BY <2>1, FlowType
  <2>3. ASSUME Ahead' # <<>>, Ahead'[1].type = "pub" PROVE Link(h.msg, Ahead'[1].pub)
    <3>1. Ahead \in Seq(Messages)
      BY AheadType
    <3>2. Ahead'[1] = Ahead[2] /\ 2 \in 2..Len(Ahead) /\ Ahead[2 - 1] = h.msg
      BY <2>1, <2>3, <3>1
    <3>3. QED
      BY <2>3, <3>2 DEF ChainInv, Chain
  <2>4. QED
    BY <2>1, <2>2, <2>3
<1>4. ASSUME state = "subscribed", h.connection = connection PROVE ~IsAnswer(h.msg)
  BY <1>3, <1>4 DEF AskInv, Asked
<1>5. QED
  BY <1>1, <1>2, <1>3, <1>4

\* A reply that subscribes.
LEMMA WalkSubscribes ==
  ASSUME NEW G \in BOOLEAN, StepOf(G), Base, EpochInv, LiveInv, GetStateInv(G),
         NEW v \in Positions, WalkTo(v), NEW h \in held, HandleReply(h), Applies(h)
  PROVE  WalkInv'
<1> USE DEF Base, Types
<1> DEFINE m == h.msg
           t == subscribedSession + 1
           e == SubscribedEvent(m, h.connection)
           f == RecoveredEvent(m, h.connection, t)
           z == <<m.epoch, m.offset>>
<1>1. Handle(h)
  BY DEF Handle
<1>2. /\ m \in Messages /\ MessageOk(m, tops) /\ m.type = "reply" /\ h.connection = connection
      /\ Flow # <<>> /\ m = Flow[1] /\ 1 \in 1..Len(Flow)
      /\ Ahead' # <<>> /\ Ahead'[1].type = "pub" => Link(m, Ahead'[1].pub)
  BY <1>1, HeadAhead, ReplyFacts DEF Applies
<1> HIDE DEF t, e, f, z
<1>3. m.pubs \in Seq(PubRecords) /\ m.epoch \in Nat /\ m.offset \in Nat
          /\ m.recovered \in BOOLEAN
      /\ h.connection \in Nat /\ z \in Positions /\ Unknown \in Positions
  BY <1>2, MessageTypes, HeldTypes DEF z, Positions, Unknown
<1>4. /\ recover' = TRUE /\ state' = "subscribed" /\ subscribedSession' = t
      /\ UNCHANGED <<tops, seen, loaded, commands>>
      /\ IF TakesPosition(m) THEN epoch' = m.epoch
             /\ offset' = m.offset ELSE UNCHANGED <<epoch, offset>>
  BY ReplyFacts, HandleFacts, <1>1 DEF application, t
<1>5. queue' = queue \o IF m.pubs = <<>> THEN <<e>> ELSE <<e, f>>
  BY ReplyFacts DEF e, f, t
<1>6. queue \in Seq(Events) /\ t \in Nat /\ e \in Events /\ f \in Events
  BY <1>2, <1>3, EventTypes DEF e, f, t, QueueTypes, SubscriptionTypes
<1>7. LiveSession = 0 /\ LiveSession' = t /\ ServerEpoch' = ServerEpoch
          /\ ServerEpoch \in Nat \ {0}
  BY <1>4, SentEpochs DEF LiveSession, Applies, ServerEpoch
<1>8. \A i \in 1..Len(queue) : ~Live(queue[i], t)
  BY SessionSteps DEF t
<1>9. ~Live(e, t) /\ f.kind = "publications" /\ f.pubs = m.pubs
      /\ e.kind = Told(m) /\ e.position = z
  BY DEF Live, SubscribedEvent, RecoveredEvent, Told, e, f, z
<1>10. CmdsRight(v, commands, 0) /\ \A w : CmdsRight(w, commands', ServerEpoch')
  <2>1. \A i \in 1..Len(commands) : commands[i].type # "subscribe"
    BY <1>2 DEF AskInv, Asked, IsAsk, IsAnswer
  <2>2. QED
    BY <1>4, <2>1 DEF CmdsRight, CmdRight
<1>11. \A w : RepliesRight(w, Flow')
  <2>1. Flow' = Tail(Flow) /\ Flow \in Seq(Messages)
    BY <1>1, <1>2, AheadHandled, FlowType
  <2>2. \A i \in 1..Len(Flow') : i + 1 \in 1..Len(Flow) /\ Flow'[i] = Flow[i + 1] /\ i + 1 # 1
    BY <1>2, <2>1
  <2>3. \A i \in 1..Len(Flow) : IsAnswer(Flow[i]) => i = 1
    BY <1>2 DEF AskInv, Asked, IsAnswer
  <2>4. QED
    BY <2>2, <2>3 DEF RepliesRight, ReplyRight, IsAnswer
<1>12. ReplyRight(v, m) /\ Leads(seen, v, queue, loaded, 0) /\ Knows(v, loaded)
  <2>1. Leads(seen, v, queue, loaded, 0) /\ RepliesRight(v, Flow)
    BY <1>7 DEF WalkTo
  <2>2. QED
    BY <1>2, <1>6, <2>1, LeadsEnds DEF RepliesRight
<1>13. Leads(seen', v, queue, loaded', t)
  <2>1. \A i \in 1..Len(queue) : Live(queue[i], t) => Live(queue[i], 0)
    BY <1>8
  <2>2. QED
    BY <1>4, <1>12, <2>1, LeadsSession
<1>14. ASSUME NEW w \in Positions, Moves(e, v, w, loaded, t), Knows(w, loaded)
       PROVE  Leads(seen', w, Append(queue, e), loaded', t) /\ Append(queue, e) \in Seq(Events)
              /\ \A i \in 1..Len(Append(queue, e)) : ~Live(Append(queue, e)[i], t)
  <2>1. Leads(seen', w, Append(queue, e), loaded', t)
    BY <1>4, <1>6, <1>13, <1>14, LeadsAppend
  <2>2. Append(queue, e) \in Seq(Events)
              /\ \A i \in 1..Len(Append(queue, e)) : Append(queue, e)[i] = e \/
                    (i \in 1..Len(queue) /\ Append(queue, e)[i] = queue[i])
    BY <1>6
  <2>3. QED
    BY <1>8, <1>9, <2>1, <2>2
<1>15. m.pubs = <<>> => queue' = Append(queue, e)
  BY <1>5, <1>6
<1>16. m.pubs # <<>> => queue' = Append(Append(queue, e), f)
  BY <1>5, <1>6
<1>17. ASSUME NEW w \in Positions, Moves(e, v, w, loaded, t), Knows(w, loaded), m.pubs = <<>>,
              PosRight(w, TRUE, epoch', offset', ServerEpoch),
              w = Unknown \/ w = PosAfter(m)
       PROVE  WalkInv'
  <2>1. Leads(seen', w, queue', loaded', LiveSession')
    BY <1>7, <1>14, <1>15, <1>17
  <2>2. NextRight(w, state', Ahead', queue', LiveSession')
    <3>1. SUFFICES ASSUME Ahead' # <<>>, Ahead'[1].type = "pub"
                   PROVE  /\ \A i \in 1..Len(queue') : ~Live(queue'[i], t)
                          /\ w = Unknown \/ Ahead'[1].pub.id = Following(w)
      BY <1>7 DEF NextRight
    <3>2. QED
      BY <1>2, <1>14, <1>15, <1>17, <3>1 DEF Link
  <2>3. QED
    BY <1>4, <1>7, <1>10, <1>11, <1>17, <2>1, <2>2, WalkNext DEF WalksToNext
<1>18. CASE m.recovered
  <2>1. v \in {Unknown, z} /\ m.epoch # NoEpoch
    BY <1>2, <1>12, <1>18 DEF ReplyRight, MessageOk, z
  <2>2. epoch' = m.epoch /\ offset' = m.offset
    BY <1>4, <2>1 DEF TakesPosition
  <2>3. PosRight(v, TRUE, epoch', offset', ServerEpoch)
    BY <2>1, <2>2 DEF PosRight, z
  <2>4. Moves(e, v, v, loaded, t)
    BY <1>9, <1>18 DEF Moves, Told
  <2>5. CASE m.pubs = <<>>
    <3>1. PosAfter(m) = z
      BY <1>2, <2>1, <2>5 DEF PosAfter, z
    <3>2. QED
      BY <1>12, <1>17, <2>1, <2>3, <2>4, <2>5, <3>1
  <2>6. CASE m.pubs # <<>>
    <3>1. Leads(seen', v, Append(queue, e), loaded', t) /\ Append(queue, e) \in Seq(Events)
          /\ \A i \in 1..Len(Append(queue, e)) : ~Live(Append(queue, e)[i], t)
      BY <1>12, <1>14, <2>4
    <3>2. 1 \in 1..Len(m.pubs) /\ Len(m.pubs) \in 1..Len(m.pubs)
      <4>1. \A p \in Seq(PubRecords) : p # <<>> => 1 \in 1..Len(p) /\ Len(p) \in 1..Len(p)
        OBVIOUS
      <4>2. QED
        BY <1>3, <2>6, <4>1
    <3>3. m.pubs[1].id = Following(z)
      <4>1. m.pubs[1].id = <<m.epoch, m.offset + 1>>
        BY <1>2, <3>2 DEF MessageOk
      <4>2. QED
        BY <4>1 DEF Following, z
    <3>4. Moves(f, v, v, loaded, t)
      BY <1>9, <2>1, <3>3 DEF Moves
    <3>5. Leads(seen', v, queue', loaded', LiveSession')
      BY <1>4, <1>6, <1>7, <1>12, <1>16, <2>6, <3>1, <3>4, LeadsAppend
    <3>6. NextRight(v, state', Ahead', queue', LiveSession')
      <4>1. Live(f, t)
        BY DEF Live, f, RecoveredEvent
      <4> DEFINE g == Append(queue, e)
      <4> HIDE DEF g
      <4>2. /\ \A i \in 1..Len(queue') : queue'[i] = f \/ ~Live(queue'[i], t)
            /\ Len(queue') \in 1..Len(queue') /\ queue'[Len(queue')] = f
        <5>1. g \in Seq(Events) /\ queue' = Append(g, f) /\ \A i \in 1..Len(g) : ~Live(g[i], t)
          BY <1>16, <2>6, <3>1 DEF g
        <5>2. QED
          BY <1>6, <5>1
      <4>3. SUFFICES ASSUME Ahead' # <<>>, Ahead'[1].type = "pub"
                     PROVE  Ahead'[1].pub.id = Following(LastOf(f))
        BY <1>7, <4>1, <4>2 DEF NextRight
      <4>4. LastOf(f) = PosAfter(m)
        BY <1>2, <1>9, <2>6 DEF LastOf, PosAfter
      <4>5. PosAfter(m) # Unknown
        <5>1. m.pubs[Len(m.pubs)].id = <<m.epoch, m.offset + Len(m.pubs)>>
          BY <1>2, <3>2 DEF MessageOk
        <5>2. QED
          BY <1>2, <2>1, <2>6, <5>1 DEF PosAfter, Unknown, NoEpoch
      <4>6. QED
        BY <1>2, <4>3, <4>4, <4>5 DEF Link
    <3>7. QED
      BY <1>4, <1>7, <1>10, <1>11, <2>3, <3>5, <3>6, WalkNext DEF WalksToNext
  <2>7. QED
    BY <2>5, <2>6
<1>19. CASE ~m.recovered
  <2>1. m.pubs = <<>>
    BY <1>2, <1>19 DEF MessageOk
  <2>2. ~G
    <3>1. ReplyRecovered(G, m)
      BY DEF GetStateInv
    <3>2. QED
      BY <1>2, <1>19, <3>1 DEF ReplyRecovered
  <2>3. loaded = Unknown
    BY <2>2 DEF GetStateInv
  <2>4. CASE m.epoch = NoEpoch
    <3>1. Moves(e, v, Unknown, loaded, t)
      BY <1>9, <1>19, <2>4 DEF Moves, Told
    <3>2. Knows(Unknown, loaded) /\ PosRight(Unknown, TRUE, epoch', offset', ServerEpoch)
      BY DEF Knows, PosRight
    <3>3. QED
      BY <1>3, <1>17, <2>1, <3>1, <3>2
  <2>5. CASE m.epoch # NoEpoch
    <3>1. Moves(e, v, z, loaded, t)
      BY <1>9, <1>19, <2>5 DEF Moves, Told
    <3>2. Knows(z, loaded)
      BY <1>3, <2>3, EarlierFacts DEF Knows
    <3>3. epoch' = m.epoch /\ offset' = m.offset
      BY <1>4, <2>5 DEF TakesPosition
    <3>4. PosRight(z, TRUE, epoch', offset', ServerEpoch)
      BY <2>5, <3>3 DEF PosRight, z
    <3>5. z = PosAfter(m)
      BY <1>2, <2>1, <2>5 DEF PosAfter, z
    <3>6. QED
      BY <1>3, <1>17, <2>1, <3>1, <3>2, <3>4, <3>5
  <2>6. QED
    BY <2>4, <2>5
<1>20. QED
  BY <1>18, <1>19

\* A publication handled while subscribed.
LEMMA WalkPublication ==
  ASSUME NEW G \in BOOLEAN, StepOf(G), Base, EpochInv, LiveInv,
         NEW v \in Positions, WalkTo(v),
         NEW h \in held, HandlePublication(h), state = "subscribed"
  PROVE  WalkInv'
<1> USE DEF Base, Types
<1> DEFINE m == h.msg
           id == m.pub.id
           e == PublicationEvent(m, h.connection, h.connection # connection)
           s == LiveSession
<1>1. Handle(h)
  BY DEF Handle
<1>2. /\ m \in Messages /\ m.type = "pub" /\ h.connection \in Nat
      /\ h.connection # connection => Ahead' = Ahead
      /\ h.connection = connection =>
           /\ Ahead # <<>> /\ m = Ahead[1]
           /\ Ahead' # <<>> /\ Ahead'[1].type = "pub" => Link(m, Ahead'[1].pub)
  BY <1>1, HeadAhead, HeldTypes, PublicationFacts
<1>3. m.pub \in PubRecords /\ id \in Positions /\ id[1] \in 1..ServerEpoch
          /\ id[2] \in Nat \ {0}
      /\ ServerEpoch \in Nat /\ Unknown \in Positions /\ id[1] \in Nat \ {0}
  BY <1>2, SentEpochs, PubFields DEF Unknown, Positions
<1>4. /\ UNCHANGED <<tops, seen, loaded, commands, recover, state, subscribedSession>>
      /\ epoch' = EpochAfter(id) /\ offset' = id[2] /\ queue' = Append(queue, e)
  BY <1>1, PublicationFacts, HandleFacts DEF application, subscription
<1> HIDE DEF e
<1>5. queue \in Seq(Events) /\ e \in Events /\ e.kind = "publication"
      /\ (e.stale <=> h.connection # connection) /\ e.pubs = <<m.pub>>
  BY <1>2, EventTypes DEF e, QueueTypes, PublicationEvent
<1>6. LiveSession' = s /\ ServerEpoch' = ServerEpoch /\ ~Live(e, s)
  BY <1>4, <1>5 DEF LiveSession, ServerEpoch, Live
<1>7. (\A w : CmdsRight(w, commands', ServerEpoch')) /\ \A w : RepliesRight(w, Flow')
  <2>1. inflight = FALSE
    BY DEF AskInv, FlagTypes
  <2>2. \A i \in 1..Len(commands) : commands[i].type # "subscribe"
    BY <2>1 DEF AskInv, Asked, IsAsk
  <2>3. \A i \in 1..Len(Flow) : Flow[i].type # "reply"
    BY <2>1 DEF AskInv, Asked, IsAnswer
  <2>4. \A i \in 1..Len(Flow') : \E j \in 1..Len(Flow) : Flow'[i] = Flow[j]
    <3>1. Flow' = Flow \/ (Flow # <<>> /\ Flow' = Tail(Flow))
      BY <1>1, AheadHandled
    <3>2. Flow \in Seq(Messages)
      BY FlowType
    <3>3. Flow # <<>> => \A i \in 1..Len(Tail(Flow)) : i + 1 \in 1..Len(Flow)
              /\ Tail(Flow)[i] = Flow[i + 1]
      BY <3>2
    <3>4. QED
      BY <3>1, <3>3
  <2>5. QED
    BY <1>4, <2>2, <2>3, <2>4 DEF CmdsRight, CmdRight, RepliesRight, ReplyRight
<1>8. Leads(seen, v, queue, loaded, s) /\ NextRight(v, state, Ahead, queue, s)
  BY DEF WalkTo
<1>9. Knows(v, loaded) /\ loaded \in Positions
  BY <1>5, <1>8, LeadsEnds DEF ApplicationTypes
<1>10. ASSUME NEW w \in Positions, Moves(e, v, w, loaded, s), Knows(w, loaded),
              PosRight(w, TRUE, epoch', offset', ServerEpoch),
              NextRight(w, state', Ahead', queue', s)
       PROVE  WalkInv'
  <2>1. Leads(seen', w, queue', loaded', LiveSession')
    <3> HIDE DEF s
    <3>1. QED
      BY <1>4, <1>5, <1>6, <1>8, <1>10, LeadsAppend
  <2>2. PosRight(w, recover', epoch', offset', ServerEpoch')
    BY <1>6, <1>10 DEF PosRight
  <2>3. QED
    BY <1>6, <1>7, <1>10, <2>1, <2>2, WalkNext DEF WalksToNext
<1>11. \A i \in 1..Len(queue') : queue'[i] = e \/ (i \in 1..Len(queue) /\ queue'[i] = queue[i])
  BY <1>4, <1>5
<1>12. \A i \in 1..Len(queue) : i \in 1..Len(queue') /\ queue'[i] = queue[i]
  BY <1>4, <1>5
<1>13. CASE h.connection # connection
  <2>1. Moves(e, v, Unknown, loaded, s) /\ Knows(Unknown, loaded)
        /\ PosRight(Unknown, TRUE, epoch', offset', ServerEpoch)
    BY <1>5, <1>13 DEF Moves, Knows, PosRight
  <2>2. NextRight(Unknown, state', Ahead', queue', s)
    <3> HIDE DEF s
    <3>1. QED
      BY <1>2, <1>4, <1>6, <1>8, <1>11, <1>13 DEF NextRight
  <2>3. QED
    BY <1>3, <1>10, <2>1, <2>2
<1>14. CASE h.connection = connection
  <2>1. \A i \in 1..Len(queue) : ~Live(queue[i], s)
    BY <1>14, NoneLive
  <2>2. v = Unknown \/ id = Following(v)
    BY <1>2, <1>8, <1>14, <2>1 DEF NextRight
  <2>3. epoch <= id[1] /\ epoch \in Int
    BY <1>2, <1>14 DEF EpochInv, SubscriptionTypes
  <2>4. \A w \in {Unknown, id} : PosRight(w, TRUE, epoch', offset', ServerEpoch)
    <3>1. epoch' # NoEpoch
      BY <1>3, <1>4 DEF EpochAfter, NoEpoch
    <3>2. epoch' = ServerEpoch => id[1] = epoch'
      BY <1>3, <1>4, <2>3 DEF EpochAfter
    <3>3. id = <<id[1], id[2]>>
      BY <1>3, PubFields
    <3>4. QED
      BY <1>4, <3>1, <3>2, <3>3 DEF PosRight
  <2>5. id # Unknown
    BY <1>3 DEF Unknown
  <2>6. \A w \in {Unknown, id} : NextRight(w, state', Ahead', queue', s)
    <3>1. PosAfter(m) = id
      BY <1>2 DEF PosAfter
    <3>2. \A i \in 1..Len(queue') : ~Live(queue'[i], s)
      <4> HIDE DEF s
      <4>1. QED
        BY <1>6, <1>11, <2>1
    <3>3. QED
      BY <1>2, <1>14, <2>5, <3>1, <3>2 DEF NextRight, Link
  <2>7. e.pubs[1].id = id /\ ~e.stale
    BY <1>5, <1>14
  <2>8. CASE Earlier(id, loaded)
    <3>1. v = Unknown
      BY <1>9, <2>2, <2>8, EarlierFacts DEF Knows
    <3>2. Moves(e, v, Unknown, loaded, s) /\ Knows(Unknown, loaded)
      BY <1>5, <2>7, <2>8, <3>1 DEF Moves, Knows
    <3>3. QED
      BY <1>3, <1>10, <2>4, <2>6, <3>2
  <2>9. CASE ~Earlier(id, loaded)
    <3>1. Moves(e, v, id, loaded, s)
      BY <1>5, <2>2, <2>7, <2>9 DEF Moves
    <3>2. Knows(id, loaded)
      BY <1>3, <1>9, <2>9, EarlierFacts DEF Knows
    <3>3. QED
      BY <1>3, <1>10, <2>4, <2>6, <3>1, <3>2
  <2>10. QED
    BY <2>8, <2>9
<1>15. QED
  BY <1>13, <1>14

\* Handling a message keeps the invariant, whichever it is.
LEMMA WalkHandles ==
  ASSUME NEW G \in BOOLEAN, StepOf(G), Base, EpochInv, LiveInv, GetStateInv(G),
         NEW v \in Positions, WalkTo(v), NEW h \in held, Handle(h)
  PROVE  WalkInv'
<1> USE DEF Base, Types
<1>1. CASE HandleReply(h) /\ Applies(h)
  BY <1>1, WalkSubscribes
<1>2. CASE HandlePublication(h) /\ state = "subscribed"
  BY <1>2, WalkPublication
<1>3. ASSUME UNCHANGED <<queue, seen, loaded>>,
             PosRight(v, recover', epoch', offset', ServerEpoch'),
             \/ state' # "subscribed"
             \/ UNCHANGED <<state, subscribedSession>> /\ h.connection # connection
      PROVE  WalkInv'
  <2>1. \A i \in 1..Len(queue) : ~Live(queue[i], 0)
    BY SessionSteps
  <2>2. LiveSession' \in {LiveSession, 0}
    BY <1>3 DEF LiveSession
  <2>3. Leads(seen', v, queue', loaded', LiveSession')
    BY <1>3, <2>1, <2>2, LeadsSession DEF WalkTo
  <2>4. NextRight(v, state', Ahead', queue', LiveSession')
    <3>1. CASE state' # "subscribed"
      BY <3>1 DEF NextRight
    <3>2. CASE UNCHANGED <<state, subscribedSession>> /\ h.connection # connection
      <4>1. LiveSession' = LiveSession /\ Ahead' = Ahead
        BY <3>2, HeadAhead DEF LiveSession
      <4>2. QED
        BY <1>3, <3>2, <4>1 DEF WalkTo
    <3>3. QED
      BY <1>3, <3>1, <3>2
  <2>5. QED
    BY <1>3, <2>3, <2>4, QuietCommands, QuietReplies, WalkNext DEF WalksToNext
<1>4. UNCHANGED <<seen, loaded, tops>> /\ ServerEpoch' = ServerEpoch
          /\ ServerEpoch \in Nat \ {0}
      /\ PosRight(v, recover, epoch, offset, ServerEpoch)
  BY HandleFacts, SentEpochs DEF application, ServerEpoch, WalkTo
<1>5. state = "subscribed" /\ h.connection = connection => ~IsAnswer(h.msg)
  BY HeadAhead
<1>6. CASE HandleReply(h) /\ ~Applies(h)
  <2>1. UNCHANGED <<queue, recover, epoch, offset, state, subscribedSession>> /\ IsAnswer(h.msg)
    BY <1>6, ReplyFacts DEF position, IsAnswer
  <2>2. QED
    BY <1>3, <1>4, <1>5, <2>1
<1>7. CASE HandlePublication(h) /\ state # "subscribed"
  <2>1. UNCHANGED <<queue, recover, epoch, offset, state, subscribedSession>>
    BY <1>7, PublicationFacts DEF subscription
  <2>2. QED
    BY <1>3, <1>4, <1>7, <2>1
<1>8. CASE HandleUnrecoverable(h)
  <2>1. UNCHANGED <<queue, state, subscribedSession>> /\ IsAnswer(h.msg)
    BY <1>8 DEF HandleUnrecoverable, IsAnswer
  <2>2. CASE Applies(h)
    <3>1. recover' = FALSE /\ state # "subscribed"
      BY <1>8, <2>2 DEF HandleUnrecoverable, Applies
    <3>2. PosRight(v, recover', epoch', offset', ServerEpoch')
      BY <3>1 DEF PosRight
    <3>3. QED
      BY <1>3, <1>4, <2>1, <3>1, <3>2
  <2>3. CASE ~Applies(h)
    <3>1. UNCHANGED <<recover, epoch, offset>>
      BY <1>8, <2>3 DEF HandleUnrecoverable, position
    <3>2. QED
      BY <1>3, <1>4, <1>5, <2>1, <3>1
  <2>4. QED
    BY <2>2, <2>3
<1>9. CASE HandleUnsubscribe(h)
  <2>1. queue' = queue /\ state' # "subscribed" /\ recover' = recover
        /\ (epoch' = -1 \/ UNCHANGED <<epoch, offset>>)
    BY <1>9 DEF HandleUnsubscribe, InvalidatedEpoch
  <2>2. PosRight(v, recover', epoch', offset', ServerEpoch')
    <3>1. -1 # ServerEpoch /\ -1 # NoEpoch
      BY <1>4 DEF NoEpoch
    <3>2. QED
      BY <1>4, <2>1, <3>1 DEF PosRight
  <2>3. QED
    BY <1>3, <1>4, <2>1, <2>2
<1>10. QED
  BY <1>1, <1>2, <1>6, <1>7, <1>8, <1>9 DEF Handle

\* The dispatcher touches the queue, the application and the position only.
LEMMA DispatcherFrame ==
  ASSUME Dispatcher, Types
  PROVE  /\ UNCHANGED <<state, subscribedSession, tops, recover, loaded, commands>>
         /\ Flow' = Flow /\ Ahead' = Ahead
         /\ LiveSession' = LiveSession /\ ServerEpoch' = ServerEpoch
<1>1. UNCHANGED <<server, link, held, subscription, recover, loaded>>
  <2>1. CASE RunSubscribed
    BY <2>1 DEF RunSubscribed, application, position
  <2>2. CASE RunPublication
    BY <2>2 DEF RunPublication, Deliver, position
  <2>3. CASE RunRecovered
    BY <2>3, RecoveredFacts
  <2>4. QED
    BY <2>1, <2>2, <2>3 DEF Dispatcher
<1>2. UNCHANGED <<state, subscribedSession, tops, serverSub, base, commands, wire,
      connection, held>>
  BY <1>1 DEF server, link, subscription
<1>3. LiveSession' = LiveSession /\ ServerEpoch' = ServerEpoch
  BY <1>2 DEF LiveSession, ServerEpoch
<1>4. Flow' = Flow
  BY <1>2, FlowKept
<1>5. Ahead' = Ahead
  BY <1>2, <1>4 DEF Ahead, NextPub, ServerEpoch, Top
<1>6. QED
  BY <1>1, <1>2, <1>3, <1>4, <1>5

\* An entry that leaves the position alone runs.
LEMMA WalkRuns ==
  ASSUME NEW G \in BOOLEAN, StepOf(G), Base, EpochInv, Dispatcher,
         NEW v \in Positions, WalkTo(v),
         queue # <<>>, queue' = Tail(queue), ~Live(queue[1], LiveSession),
         UNCHANGED <<epoch, offset>>,
         \A b \in Positions : Moves(queue[1], seen, b, loaded, LiveSession) => seen' = b
  PROVE  WalkInv'
<1> USE DEF Base, Types
<1>1. /\ UNCHANGED <<state, subscribedSession, tops, recover, loaded, commands>>
      /\ Flow' = Flow /\ Ahead' = Ahead
      /\ LiveSession' = LiveSession /\ ServerEpoch' = ServerEpoch
  BY DispatcherFrame
<1>2. PICK b \in Positions : /\ Knows(b, loaded)
          /\ Moves(queue[1], seen, b, loaded, LiveSession)
                             /\ Leads(b, v, Tail(queue), loaded, LiveSession)
  <2>1. queue \in Seq(Events)
    BY DEF QueueTypes
  <2>2. QED
    BY <2>1, LeadsTail DEF WalkTo
<1>3. Leads(seen', v, queue', loaded', LiveSession')
  BY <1>1, <1>2
<1>4. \A i \in 1..Len(queue') : i + 1 \in 1..Len(queue) /\ queue'[i] = queue[i + 1]
  BY DEF QueueTypes
<1>5. \A i \in 1..Len(queue) : i = 1 \/ (i - 1 \in 1..Len(queue') /\ queue'[i - 1] = queue[i])
  BY DEF QueueTypes
<1>6. NextRight(v, state', Ahead', queue', LiveSession')
  <2>1. SUFFICES ASSUME state = "subscribed", Ahead # <<>>, Ahead[1].type = "pub"
                 PROVE  NextRight(v, state', Ahead', queue', LiveSession')
    BY <1>1 DEF NextRight
  <2>2. /\ \A i \in 1..Len(queue) : Live(queue[i], LiveSession)
               => Ahead[1].pub.id = Following(LastOf(queue[i]))
        /\ (\A i \in 1..Len(queue) : ~Live(queue[i], LiveSession))
               => v = Unknown \/ Ahead[1].pub.id = Following(v)
    BY <2>1 DEF WalkTo, NextRight
  <2>3. \A i \in 1..Len(queue') : Live(queue'[i], LiveSession)
            => Ahead[1].pub.id = Following(LastOf(queue'[i]))
    BY <1>4, <2>2
  <2>4. (\A i \in 1..Len(queue') : ~Live(queue'[i], LiveSession))
            => \A i \in 1..Len(queue) : ~Live(queue[i], LiveSession)
    BY <1>5
  <2>5. QED
    BY <1>1, <2>2, <2>3, <2>4 DEF NextRight
<1>7. PosRight(v, recover', epoch', offset', ServerEpoch')
  BY <1>1 DEF WalkTo
<1>8. QED
  BY <1>3, <1>6, <1>7, QuietCommands, QuietReplies, WalkNext DEF WalksToNext

\* The events that say whether publications were missed, and publications pushed.
LEMMA WalkTold ==
  ASSUME NEW G \in BOOLEAN, StepOf(G), Base, EpochInv, NEW v \in Positions, WalkTo(v),
         RunSubscribed \/ RunPublication
  PROVE  WalkInv'
<1>1. /\ queue # <<>> /\ queue' = Tail(queue) /\ Head(queue) = queue[1]
      /\ queue[1].kind \in {"recovered", "unrecovered", "noPosition", "publication"}
      /\ UNCHANGED <<epoch, offset>>
  BY DEF RunSubscribed, RunPublication, position
<1>2. ~Live(queue[1], LiveSession) /\ Dispatcher
  BY <1>1 DEF Live, Dispatcher
<1>3. ASSUME NEW b \in Positions, Moves(queue[1], seen, b, loaded, LiveSession)
      PROVE  seen' = b
  <2>1. CASE RunSubscribed
    BY <1>1, <1>3, <2>1 DEF RunSubscribed, Moves, application
  <2>2. CASE RunPublication
    BY <1>1, <1>3, <2>2 DEF RunPublication, Moves, Deliver
  <2>3. QED
    BY <2>1, <2>2
<1>4. QED
  BY <1>1, <1>2, <1>3, WalkRuns

\* The first recovered publication of a live entry is delivered.
LEMMA WalkRecovers ==
  ASSUME NEW G \in BOOLEAN, StepOf(G), Base, EpochInv, LiveInv, NEW v \in Positions, WalkTo(v),
         RunRecovered, StillInSession(Head(queue).session)
  PROVE  WalkInv'
<1> USE DEF Base, Types
<1> DEFINE e == queue[1]
           id == e.pubs[1].id
           t == Tail(queue)
           s == LiveSession
<1>1. /\ UNCHANGED <<state, subscribedSession, tops, recover, loaded, commands>>
      /\ Flow' = Flow /\ Ahead' = Ahead
      /\ LiveSession' = s /\ ServerEpoch' = ServerEpoch
  BY DispatcherFrame DEF Dispatcher
<1>2. /\ queue # <<>> /\ e.kind = "publications" /\ Live(e, s) /\ state = "subscribed"
      /\ epoch' = EpochAfter(id) /\ offset' = id[2]
      /\ seen' = IF Earlier(id, loaded) THEN seen ELSE id
      /\ queue' = IF Len(e.pubs) = 1 THEN t ELSE <<Rest(e)>> \o t
  <2>1. queue # <<>> => Head(queue) = e
    BY DEF QueueTypes
  <2>2. QED
    BY <2>1, RecoveredFacts DEF StillInSession, Live, LiveSession
<1>3. queue \in Seq(Events) /\ t \in Seq(Events) /\ 1 \in 1..Len(queue) /\ e \in Events
  BY <1>2 DEF QueueTypes
<1>4. e.pubs # <<>> /\ e.pubs \in Seq(PubRecords) /\ id[1] = epoch /\ epoch # NoEpoch
          /\ id \in Positions
      /\ loaded \in Positions /\ Unknown \in Positions
  BY <1>2, <1>3, LiveEpoch, EarlierFacts DEF ApplicationTypes
<1>5. epoch' = epoch /\ id = <<epoch, offset'>> /\ id # Unknown
  BY <1>2, <1>4 DEF EpochAfter, Positions, NoEpoch, Unknown
<1>6. EventOk(e, tops, subscribedSession)
  BY <1>3 DEF EventsInv
<1> HIDE DEF id
<1>7. PICK b \in Positions : Knows(b, loaded) /\ Moves(e, seen, b, loaded, s)
          /\ Leads(b, v, t, loaded, s)
  <2>1. Leads(seen, v, queue, loaded, s)
    BY DEF WalkTo
  <2> HIDE DEF s
  <2>2. QED
    BY <1>2, <1>3, <2>1, LeadsTail
<1>8. seen = b /\ (seen = Unknown \/ id = Following(seen))
  BY <1>2, <1>7 DEF Moves, id
<1>9. seen' \in {Unknown, id} /\ seen' \in Positions /\ Knows(seen', loaded)
  <2>1. CASE Earlier(id, loaded)
    <3>1. seen = Unknown
      BY <1>4, <1>7, <1>8, <2>1, EarlierFacts DEF Knows
    <3>2. QED
      BY <1>2, <1>4, <2>1, <3>1 DEF Knows
  <2>2. CASE ~Earlier(id, loaded)
    BY <1>2, <1>4, <2>2, EarlierFacts DEF Knows
  <2>3. QED
    BY <2>1, <2>2
<1>10. /\ \A i \in 1..Len(t) : StalePub(t[i])
  <2> HIDE DEF t, e, s
  <2>1. LiveQueue(queue, s, connection, epoch)
    BY DEF LiveInv, s
  <2>2. QED
    BY <1>2, <1>3, <2>1, LiveTail DEF t, e
<1>11. \A i \in 1..Len(t) : ~Live(t[i], s)
  BY <1>10 DEF StalePub, Live
<1> DEFINE w == IF t = <<>> THEN seen' ELSE Unknown
<1>12. w \in Positions /\ w \in {Unknown, id} /\ Leads(seen', w, t, loaded, s)
  <2>1. CASE t = <<>>
    <3> HIDE DEF t, s
    <3>1. QED
      BY <1>9, <2>1, LeadsEmpty
  <2>2. CASE t # <<>>
    <3> HIDE DEF t, s
    <3>1. QED
      BY <1>3, <1>4, <1>7, <1>9, <1>10, <2>2, LeadsStale
  <2>3. QED
    BY <2>1, <2>2
<1> HIDE DEF w, t
<1>13. ServerEpoch \in Nat \ {0} /\ PosRight(w, recover', epoch', offset', ServerEpoch')
  <2>1. ServerEpoch \in Nat \ {0}
    BY SentEpochs
  <2>2. QED
    BY <1>4, <1>5, <1>12, <2>1 DEF PosRight
<1>14. CmdsRight(w, commands', ServerEpoch') /\ RepliesRight(w, Flow')
  <2>1. inflight = FALSE
    BY <1>2 DEF AskInv, FlagTypes
  <2>2. \A i \in 1..Len(commands) : commands[i].type # "subscribe"
    BY <2>1 DEF AskInv, Asked, IsAsk
  <2>3. \A i \in 1..Len(Flow) : Flow[i].type # "reply"
    BY <2>1 DEF AskInv, Asked, IsAnswer
  <2>4. QED
    BY <1>1, <2>2, <2>3 DEF CmdsRight, CmdRight, RepliesRight, ReplyRight
<1>15. Ahead # <<>> /\ Ahead[1].type = "pub" => Ahead[1].pub.id = Following(LastOf(e))
  BY <1>2, <1>3 DEF WalkTo, NextRight
<1>16. CASE Len(e.pubs) = 1
  <2>1. queue' = t
    BY <1>2, <1>16
  <2>2. LastOf(e) = id
    BY <1>16 DEF LastOf, id
  <2>3. NextRight(w, state', Ahead', queue', LiveSession')
    BY <1>1, <1>11, <1>12, <1>15, <2>1, <2>2 DEF NextRight
  <2>4. QED
    BY <1>1, <1>12, <1>13, <1>14, <2>1, <2>3, WalkNext DEF WalksToNext
<1>17. CASE Len(e.pubs) # 1
  <2> DEFINE r == Rest(e)
  <2> HIDE DEF e, s
  <2>1. queue' = <<r>> \o t
    BY <1>2, <1>17
  <2>2. r \in Events /\ r.pubs = Tail(e.pubs) /\ r.kind = "publications" /\ Live(r, s)
    BY <1>2, <1>3, <1>4, RestFields DEF Live
  <2>3. 1 \in 1..Len(e.pubs) - 1 /\ Tail(e.pubs)[1] = e.pubs[1 + 1]
            /\ Tail(e.pubs) \in Seq(PubRecords)
        /\ Tail(e.pubs) # <<>> /\ Tail(e.pubs)[Len(Tail(e.pubs))] = e.pubs[Len(e.pubs)]
    <3>1. \A S : \A q \in Seq(S) : q # <<>> /\ Len(q) # 1 =>
            /\ 1 \in 1..Len(q) - 1 /\ Tail(q)[1] = q[1 + 1] /\ Tail(q) \in Seq(S)
                   /\ Tail(q) # <<>>
            /\ Tail(q)[Len(Tail(q))] = q[Len(q)]
      <4> SUFFICES ASSUME NEW S, NEW q \in Seq(S), q # <<>>, Len(q) # 1
                   PROVE  /\ 1 \in 1..Len(q) - 1 /\ Tail(q)[1] = q[1 + 1]
                                 /\ Tail(q) \in Seq(S) /\ Tail(q) # <<>>
                          /\ Tail(q)[Len(Tail(q))] = q[Len(q)]
        OBVIOUS
      <4>1. Len(q) \in Nat /\ Len(q) # 0 /\ Len(q) # 1
        OBVIOUS
      <4>2. /\ Tail(q) \in Seq(S) /\ Len(Tail(q)) = Len(q) - 1
            /\ \A i \in 1..Len(q) - 1 : Tail(q)[i] = q[i + 1]
        BY SeqFacts
      <4>3. 1 \in 1..Len(q) - 1 /\ Len(q) - 1 \in 1..Len(q) - 1 /\ (Len(q) - 1) + 1 = Len(q)
        <5>1. \A n \in Nat : n # 0 /\ n # 1
                  => 1 \in 1..n - 1 /\ n - 1 \in 1..n - 1 /\ (n - 1) + 1 = n
          OBVIOUS
        <5>2. QED
          BY <4>1, <5>1
      <4>4. Tail(q) # <<>>
        <5>1. Len(Tail(q)) # 0
          BY <4>1, <4>2
        <5>2. Len(<<>>) = 0
          OBVIOUS
        <5>3. QED
          BY <5>1, <5>2
      <4>5. Tail(q)[Len(Tail(q))] = q[Len(q)]
        BY <4>2, <4>3
      <4>6. QED
        BY <4>2, <4>3, <4>4, <4>5
    <3>2. QED
      BY <1>4, <1>17, <3>1
  <2>4. r.pubs[1].id = Following(id)
    BY <1>2, <1>6, <2>2, <2>3 DEF EventOk, id
  <2>5. LastOf(r) = LastOf(e)
    BY <2>2, <2>3 DEF LastOf
  <2> HIDE DEF r
  <2>6. Moves(r, seen', seen', loaded, s)
    BY <1>9, <2>2, <2>4 DEF Moves
  <2>7. Leads(seen', w, queue', loaded', LiveSession')
    BY <1>1, <1>3, <1>9, <1>12, <2>1, <2>2, <2>6, LeadsCons
  <2>8. \A i \in 1..Len(queue') : queue'[i] = r \/ ~Live(queue'[i], s)
    <3>1. \A i \in 1..Len(queue') : queue'[i] = r \/ (i - 1 \in 1..Len(t)
              /\ queue'[i] = t[i - 1])
      BY <1>3, <2>1, <2>2
    <3>2. QED
      BY <1>11, <3>1
  <2>9. 1 \in 1..Len(queue') /\ queue'[1] = r
    BY <1>3, <2>1, <2>2
  <2>10. NextRight(w, state', Ahead', queue', LiveSession')
    BY <1>1, <1>15, <2>2, <2>5, <2>8, <2>9 DEF NextRight
  <2>11. QED
    BY <1>12, <1>13, <1>14, <2>7, <2>10, WalkNext DEF WalksToNext
<1>18. QED
  BY <1>16, <1>17

\* A delivery keeps the invariant, whichever it is.
LEMMA WalkDispatches ==
  ASSUME NEW G \in BOOLEAN, StepOf(G), Base, EpochInv, LiveInv, NEW v \in Positions, WalkTo(v),
         Dispatcher
  PROVE  WalkInv'
<1> USE DEF Base, Types
<1>1. CASE RunSubscribed \/ RunPublication
  BY <1>1, WalkTold
<1>2. CASE RunRecovered /\ StillInSession(Head(queue).session)
  BY <1>2, WalkRecovers
<1>3. CASE RunRecovered /\ ~StillInSession(Head(queue).session)
  <2>1. /\ queue # <<>> /\ queue' = Tail(queue) /\ Head(queue) = queue[1]
        /\ queue[1].kind = "publications" /\ UNCHANGED <<epoch, offset, seen>>
    BY <1>3, RecoveredFacts
  <2>2. queue[1].session # 0
    <3>1. 1 \in 1..Len(queue)
      BY <2>1 DEF QueueTypes
    <3>2. QED
      BY <2>1, <3>1 DEF EventsInv, EventOk, SubscriptionTypes
  <2>3. ~Live(queue[1], LiveSession)
    BY <1>3, <2>1, <2>2 DEF Live, LiveSession, StillInSession
  <2>4. \A b \in Positions : Moves(queue[1], seen, b, loaded, LiveSession) => seen' = b
    BY <2>1 DEF Moves
  <2>5. QED
    BY <2>1, <2>3, <2>4, WalkRuns
<1>4. QED
  BY <1>1, <1>2, <1>3 DEF Dispatcher

\* The inductive invariant of recovery.
RInv(G) ==
  /\ Base /\ FirstInv /\ misdecoded = FALSE
  /\ LiveInv /\ EpochInv /\ GetStateInv(G) /\ WalkInv

\* A step keeps what the queue leads to.
LEMMA WalkStep ==
  ASSUME NEW G \in BOOLEAN, StepOf(G), RInv(G)
  PROVE  WalkInv'
<1>1. PICK v \in Positions : WalkTo(v)
  BY DEF RInv, WalkInv
<1>2. CASE \E h \in held : Handle(h)
  BY <1>1, <1>2, WalkHandles DEF RInv
<1>3. CASE Dispatcher
  BY <1>1, <1>3, WalkDispatches DEF RInv
<1>4. CASE GetState /\ G
  BY <1>4, WalkLoads DEF RInv
<1>5. CASE ~(\E h \in held : Handle(h)) /\ ~Dispatcher /\ ~(GetState /\ G)
  <2>1. WalksToNext(v)
    BY <1>1, <1>5, WalkQuiet DEF RInv
  <2>2. QED
    BY <2>1, WalkNext
<1>6. QED
  BY <1>2, <1>3, <1>4, <1>5

\* A step keeps the inductive invariant.
LEMMA RInvStep ==
  ASSUME NEW G \in BOOLEAN, StepOf(G), RInv(G)
  PROVE  RInv(G)'
<1>1. Base /\ FirstInv /\ misdecoded = FALSE /\ LiveInv /\ EpochInv /\ GetStateInv(G)
  BY DEF RInv
<1>2. Types /\ ReaderInv /\ AskInv /\ SentInv /\ EventsInv /\ ChainInv
  BY <1>1 DEF Base
<1>3. Base'
  <2>1. Types'
    BY <1>2, TypesStep
  <2>2. ReaderInv'
    BY <1>2, ReaderStep
  <2>3. AskInv'
    BY <1>2, AskStep
  <2>4. SentInv'
    BY <1>2, SentStep
  <2>5. EventsInv'
    BY <1>2, EventsStep
  <2>6. ChainInv'
    BY <1>2, ChainStep
  <2>7. QED
    BY <2>1, <2>2, <2>3, <2>4, <2>5, <2>6 DEF Base
<1>4. FirstInv'
  BY <1>1, <1>2, FirstStep
<1>5. misdecoded' = FALSE
  BY <1>1, <1>2, DecodedStep
<1>6. LiveInv'
  BY <1>1, LiveStep
<1>7. EpochInv'
  BY <1>1, <1>3, EpochStep
<1>8. WalkInv'
  BY WalkStep
<1>9. GetStateInv(G)'
  <2>1. /\ \A h \in held' : ReplyRecovered(G, h.msg)
        /\ \A i \in 1..Len(wire') : ReplyRecovered(G, wire'[i])
        /\ \A i \in 1..Len(queue') : EventRecovered(G, queue'[i])
        /\ ~G => loaded' = Unknown
    BY <1>1, <1>2, GetStateStep
  <2>2. QED
    BY <2>1 DEF GetStateInv, ReplyRecovered, EventRecovered, Unknown
<1>10. QED
  BY <1>3, <1>4, <1>5, <1>6, <1>7, <1>8, <1>9 DEF RInv

\* The types of the initial state.
LEMMA InitTypes ==
  ASSUME Init
  PROVE  Types
<1>1. Unknown \in Positions /\ Nothing \in Positions /\ NoEpoch \in Nat
  BY DEF Unknown, Nothing, Positions, NoEpoch
<1>2. ServerTypes
  <2>1. 0 \in 0..MaxPublished
    BY RecoveryBounds
  <2>2. <<0>> \in Seq(0..MaxPublished) /\ <<0>> # <<>>
    BY <2>1
  <2>3. QED
    BY <1>1, <2>2 DEF Init, ServerTypes
<1>3. LinkTypes
  <2>1. <<>> \in Seq(Commands) /\ <<>> \in Seq(Messages)
    OBVIOUS
  <2>2. QED
    BY <2>1 DEF Init, LinkTypes
<1>4. SubscriptionTypes
  BY <1>1 DEF Init, SubscriptionTypes
<1>5. FlagTypes
  BY DEF Init, FlagTypes
<1>6. QueueTypes
  <2>1. <<>> \in Seq(Events) /\ 1..Len(<<>>) = {}
    OBVIOUS
  <2>2. QED
    BY <2>1 DEF Init, QueueTypes
<1>7. ApplicationTypes
  BY <1>1 DEF Init, ApplicationTypes
<1>8. QED
  BY <1>2, <1>3, <1>4, <1>5, <1>6, <1>7 DEF Types

\* The inductive invariant holds at first.
LEMMA RInvInit ==
  ASSUME NEW G \in BOOLEAN, Init
  PROVE  RInv(G)
<1>1. 1..Len(<<>>) = {} /\ 2..Len(<<>>) = {} /\ Len(<<0>>) = 1
  OBVIOUS
<1>2. /\ tops = <<0>> /\ serverSub = FALSE /\ commands = <<>> /\ wire = <<>> /\ held = {}
      /\ state = "unsubscribed" /\ inflight = FALSE /\ recover = FALSE
      /\ epoch = NoEpoch /\ queue = <<>> /\ seen = Unknown /\ loaded = Unknown
             /\ misdecoded = FALSE
  BY DEF Init
<1>3. Flow = <<>> /\ Ahead = <<>>
  <2>1. InHand = <<>>
    BY <1>2 DEF InHand, Current
  <2>2. QED
    BY <1>2, <2>1 DEF Flow, Ahead
<1>4. Types
  BY InitTypes
<1>5. ReaderInv /\ AskInv
  BY <1>1, <1>2, <1>3 DEF ReaderInv, AskInv, Asked
<1>6. SentInv /\ EventsInv
  BY <1>1, <1>2 DEF SentInv, EventsInv
<1>7. ChainInv /\ FirstInv
  BY <1>1, <1>3 DEF ChainInv, Chain, FirstInv
<1>8. LiveInv
  BY <1>1, <1>2 DEF LiveInv, LiveQueue
<1>9. EpochInv
  <2>1. ServerEpoch = 1
    BY <1>1, <1>2 DEF ServerEpoch
  <2>2. QED
    BY <1>1, <1>2, <1>3, <2>1 DEF EpochInv, NoEpoch
<1>10. GetStateInv(G)
  BY <1>1, <1>2 DEF GetStateInv
<1>11. WalkInv
  <2>1. Unknown \in Positions
    BY DEF Unknown, Positions
  <2>2. Leads(seen, Unknown, queue, loaded, LiveSession)
    BY <1>2, <2>1, LeadsEmpty DEF Knows
  <2>3. WalkTo(Unknown)
    BY <1>1, <1>2, <1>3, <2>2 DEF WalkTo, PosRight, CmdsRight, RepliesRight, NextRight
  <2>4. QED
    BY <2>1, <2>3 DEF WalkInv
<1>12. Base
  BY <1>4, <1>5, <1>6, <1>7 DEF Base
<1>13. QED
  BY <1>2, <1>7, <1>8, <1>9, <1>10, <1>11, <1>12 DEF RInv

\* The inductive invariant of recovery holds of every state, with GetState or without, for
\* any bounds.
THEOREM RecoveryInvariant == Spec => []RInv(HasGetState)
<1>1. HasGetState \in BOOLEAN
  BY RecoveryGetState
<1>2. Init => RInv(HasGetState)
  BY <1>1, RInvInit
<1>3. RInv(HasGetState) /\ [Next]_vars => RInv(HasGetState)'
  <2>1. [Next]_vars => StepOf(HasGetState)
    BY DEF StepOf
  <2>2. QED
    BY <1>1, <2>1, RInvStep
<1>4. QED
  BY <1>2, <1>3, PTL DEF Spec

\* decodeFossil is never given a base other than the publication that the server made the
\* delta against.  A session that a publication of an older connection got into is not
\* judged: that publication leaves its own data as the base.
THEOREM DeltasFit == Spec => []DeltasFitTheirBase
<1>1. RInv(HasGetState) => DeltasFitTheirBase
  BY DEF RInv, DeltasFitTheirBase
<1>2. QED
  BY <1>1, RecoveryInvariant, PTL

\* The position the client recovers from is what its queue leads the application to; with
\* an empty queue it is what the application has seen.
LEMMA PositionSeen ==
  ASSUME NEW G \in BOOLEAN, RInv(G)
  PROVE  RecoversFromWhatWasSeen
<1>1. SUFFICES ASSUME queue = <<>>, recover, seen # Unknown, epoch = ServerEpoch
               PROVE  seen = <<epoch, offset>>
  BY DEF RecoversFromWhatWasSeen
<1>2. PICK v \in Positions : WalkTo(v)
  BY DEF RInv, WalkInv
<1>3. v = seen
  BY <1>1, <1>2, LeadsEmpty DEF WalkTo
<1>4. QED
  BY <1>1, <1>2, <1>3 DEF WalkTo, PosRight

\* When nothing is left in the callback queue, a subscribe that recovers asks for what
\* follows the last publication the application was handed, and for nothing else: none is
\* lost and none comes twice.
THEOREM PositionIsSeen == Spec => []RecoversFromWhatWasSeen
<1>1. RInv(HasGetState) => RecoversFromWhatWasSeen
  BY RecoveryGetState, PositionSeen
<1>2. QED
  BY <1>1, RecoveryInvariant, PTL

\* The set of publications of a server with these offsets.
PublishedOf(t) == {p \in (1..Len(t)) \X (1..MaxPublished) : p[2] <= t[p[1]]}

\* The server publishes at most one publication in a step, and none is taken back.
LEMMA PublishedChanges ==
  ASSUME NEW G \in BOOLEAN, StepOf(G), Types
  PROVE  \/ PublishedOf(tops') = PublishedOf(tops)
         \/ /\ UNCHANGED <<seen, reloads>>
            /\ \E p \in PublishedOf(tops') \ PublishedOf(tops) :
                 PublishedOf(tops') = PublishedOf(tops) \cup {p}
<1> USE DEF Types
<1>1. /\ ServerEpoch = Len(tops) /\ Top = tops[ServerEpoch]
      /\ ServerEpoch \in Nat \ {0} /\ Top \in Nat /\ tops \in Seq(0..MaxPublished)
             /\ MaxPublished \in Nat
  BY NextPubType, RecoveryBounds DEF ServerEpoch, Top, ServerTypes
<1>2. CASE Publish
  <2>1. Top < MaxPublished /\ tops' = [tops EXCEPT ![ServerEpoch] = Top + 1]
            /\ UNCHANGED <<seen, reloads>>
    BY <1>2 DEF Publish, application
  <2> DEFINE n == ServerEpoch
             k == Top
             t == tops'
             id == <<n, k + 1>>
  <2> HIDE DEF n, k, t
  <2>2. /\ Len(t) = Len(tops) /\ Len(tops) = n /\ tops[n] = k /\ t[n] = k + 1
        /\ \A e \in 1..n : e # n => t[e] = tops[e]
    BY <1>1, <2>1 DEF n, k, t
  <2>3. n \in Nat \ {0} /\ k \in Nat /\ k < MaxPublished
    BY <1>1, <2>1 DEF n, k
  <2>4. id \in PublishedOf(t) /\ id \notin PublishedOf(tops)
    BY <1>1, <2>2, <2>3 DEF PublishedOf
  <2>5. ASSUME NEW p \in (1..n) \X (1..MaxPublished)
        PROVE  p[2] <= t[p[1]] <=> p[2] <= tops[p[1]] \/ p = id
    <3>1. CASE p[1] = n
      BY <2>2, <2>3, <2>5, <3>1
    <3>2. CASE p[1] # n
      BY <2>2, <2>5, <3>2
    <3>3. QED
      BY <3>1, <3>2
  <2>6. PublishedOf(t) = PublishedOf(tops) \cup {id}
    <3> HIDE DEF id
    <3>1. id \in (1..n) \X (1..MaxPublished)
      BY <1>1, <2>2, <2>3 DEF id
    <3>2. QED
      BY <2>2, <2>5, <3>1 DEF PublishedOf
  <2>7. QED
    BY <2>1, <2>4, <2>6 DEF t
<1>3. CASE Reset
  <2>1. tops' = Append(tops, 0)
    BY <1>3 DEF Reset
  <2> DEFINE n == Len(tops)
  <2>2. Len(tops') = n + 1 /\ tops'[n + 1] = 0 /\ n \in Nat
            /\ \A e \in 1..n : tops'[e] = tops[e]
    BY <1>1, <2>1, AppendFacts
  <2> HIDE DEF n
  <2>3. \A p \in (1..n + 1) \X (1..MaxPublished) :
          p[2] <= tops'[p[1]] <=> p \in (1..n) \X (1..MaxPublished) /\ p[2] <= tops[p[1]]
    BY <1>1, <2>2
  <2>4. (1..n) \X (1..MaxPublished) \subseteq (1..n + 1) \X (1..MaxPublished)
    BY <2>2
  <2>5. PublishedOf(tops') = PublishedOf(tops)
    BY <2>2, <2>3, <2>4 DEF PublishedOf, n
  <2>6. QED
    BY <2>5
<1>4. CASE UNCHANGED tops
  BY <1>4
<1>5. HistoryLost => UNCHANGED tops
  BY DEF HistoryLost
<1>6. QED
  BY <1>2, <1>3, <1>4, <1>5, Frames

\* The application is handed a publication that follows the last it has seen, or is told
\* that its position is another.
LEMMA ApplicationSteps ==
  ASSUME NEW G \in BOOLEAN, StepOf(G), RInv(G)
  PROVE  \/ UNCHANGED <<seen, reloads>>
         \/ /\ tops' = tops
            /\ \/ reloads' = reloads + 1 /\ seen' \in Nat \X Nat
               \/ /\ UNCHANGED reloads
                  /\ \E p \in PublishedOf(tops) : (seen = Unknown \/ p = Following(seen))
                         /\ seen' = p
<1> USE DEF Base, Types
<1>1. Base
  BY DEF RInv
<1>2. CASE GetState /\ G
  <2>1. reloads' = reloads + 1 /\ seen' = <<ServerEpoch, Top>> /\ tops' = tops
    BY <1>2 DEF GetState, server
  <2>2. ServerEpoch \in Nat /\ Top \in Nat
    BY <1>1, SentEpochs
  <2>3. QED
    BY <2>1, <2>2
<1>3. ASSUME Dispatcher
      PROVE  \/ UNCHANGED <<seen, reloads>>
             \/ /\ tops' = tops
                /\ \/ reloads' = reloads + 1 /\ seen' \in Nat \X Nat
                   \/ /\ UNCHANGED reloads
                      /\ \E p \in PublishedOf(tops) : (seen = Unknown
                             \/ p = Following(seen)) /\ seen' = p
  <2> DEFINE e == Head(queue)
             id == e.pubs[1].id
  <2>1. queue # <<>> /\ queue \in Seq(Events) /\ e = queue[1] /\ 1 \in 1..Len(queue)
            /\ e \in Events
        /\ tops' = tops
    BY <1>1, <1>3, DispatcherFacts, DispatcherFrame DEF QueueTypes
  <2>2. e.position \in Nat \X Nat /\ Unknown \in Nat \X Nat /\ e.pubs \in Seq(PubRecords)
    BY <2>1, EventFields DEF Positions, Unknown
  <2>3. PICK v \in Positions : WalkTo(v)
    BY DEF RInv, WalkInv
  <2>4. PICK b \in Positions : Moves(e, seen, b, loaded, LiveSession)
    BY <2>1, <2>3, LeadsTail DEF WalkTo
  <2>5. ASSUME e.pubs # <<>> PROVE id \in PublishedOf(tops)
    <3> HIDE DEF e
    <3>1. 1 \in 1..Len(e.pubs) /\ e.pubs[1] \in PubRecords
      BY <2>2, <2>5
    <3>2. PublishedIn(tops, id) /\ id \in Positions
      BY <1>1, <2>1, <3>1, PubFields DEF EventsInv, EventOk
    <3>3. id[1] \in 1..Len(tops) /\ id[2] \in 1..tops[id[1]] /\ id = <<id[1], id[2]>>
              /\ id[2] \in Nat
      BY <3>2 DEF PublishedIn, Positions
    <3> HIDE DEF id
    <3>4. tops[id[1]] \in 0..MaxPublished /\ MaxPublished \in Nat
      BY <1>1, <3>3, RecoveryBounds DEF ServerTypes
    <3>5. id[1] \in 1..Len(tops) /\ id[2] \in 1..MaxPublished /\ id[2] <= tops[id[1]]
      BY <3>3, <3>4
    <3>6. id \in (1..Len(tops)) \X (1..MaxPublished)
      BY <3>3, <3>5
    <3>7. QED
      BY <3>5, <3>6 DEF PublishedOf
  <2>6. e.kind \in {"publication", "publications"} => e.pubs # <<>>
    BY <1>1, <2>1 DEF QueueTypes
  <2>7. CASE RunSubscribed
    BY <2>1, <2>2, <2>7 DEF RunSubscribed, application
  <2>8. CASE RunPublication
    <3>1. CASE e.stale
      BY <2>1, <2>2, <2>8, <3>1 DEF RunPublication
    <3>2. CASE ~e.stale
      <4>1. e.kind = "publication" /\ seen' = (IF Earlier(id, loaded) THEN seen ELSE id)
                /\ UNCHANGED reloads
        BY <2>8, <3>2 DEF RunPublication, Deliver
      <4>2. ~Earlier(id, loaded) => seen = Unknown \/ id = Following(seen)
        BY <2>4, <3>2, <4>1 DEF Moves
      <4> HIDE DEF id, e
      <4>3. QED
        BY <2>1, <2>5, <2>6, <4>1, <4>2
    <3>3. QED
      BY <3>1, <3>2
  <2>9. CASE RunRecovered
    <3>1. e.kind = "publications" /\ UNCHANGED reloads
          /\ seen' = IF StillInSession(e.session) /\ ~Earlier(id, loaded) THEN id ELSE seen
      BY <2>9, RecoveredFacts
    <3>2. StillInSession(e.session) => seen = Unknown \/ id = Following(seen)
      BY <2>4, <3>1 DEF Moves, Live, StillInSession, LiveSession
    <3> HIDE DEF id, e
    <3>3. QED
      BY <2>1, <2>5, <2>6, <3>1, <3>2
  <2>10. QED
    BY <1>3, <2>7, <2>8, <2>9 DEF Dispatcher
<1>4. QED
  BY <1>2, <1>3, Frames

\* Every step of recovery is a step of the stream, or changes nothing of it.
LEMMA StreamStep ==
  ASSUME NEW G \in BOOLEAN, StepOf(G), RInv(G)
  PROVE  [Promise!Next]_Promise!vars
<1> DEFINE P == {p \in (1..ServerEpoch) \X (1..MaxPublished) : p[2] <= tops[p[1]]}
<1>1. P = PublishedOf(tops) /\ P' = PublishedOf(tops')
  BY DEF PublishedOf, ServerEpoch
<1> HIDE DEF P
<1>2. Types
  BY DEF RInv, Base
<1>3. CASE UNCHANGED <<seen, reloads>>
  <2>1. P' = P \/ \E p \in P' \ P : P' = P \cup {p}
    BY <1>1, <1>2, PublishedChanges
  <2>2. CASE P' = P
    BY <1>3, <2>2 DEF Promise!vars, P
  <2>3. CASE \E p \in P' \ P : P' = P \cup {p}
    BY <1>3, <2>3 DEF Promise!Next, Promise!Publish, P
  <2>4. QED
    BY <2>1, <2>2, <2>3
<1>4. CASE tops' = tops /\ reloads' = reloads + 1 /\ seen' \in Nat \X Nat
  <2>1. P' = P
    BY <1>1, <1>4
  <2>2. QED
    BY <1>4, <2>1 DEF Promise!Next, Promise!Reload, P
<1>5. CASE /\ tops' = tops /\ UNCHANGED reloads
           /\ \E p \in PublishedOf(tops) : (seen = Unknown \/ p = Following(seen)) /\ seen' = p
  <2>1. P' = P
    BY <1>1, <1>5
  <2>2. PICK p \in P : (seen = Unknown \/ p = Following(seen)) /\ seen' = p
    BY <1>1, <1>5
  <2>3. Promise!Deliver(p)
    BY <1>5, <2>1, <2>2
       DEF Promise!Deliver, Promise!Unknown, Promise!Following, Unknown, Following, P
  <2>4. QED
    BY <2>2, <2>3 DEF Promise!Next, P
<1>6. QED
  BY <1>3, <1>4, <1>5, ApplicationSteps

\* At first nothing is published and nothing seen.
LEMMA StreamInit ==
  ASSUME Init
  PROVE  Promise!Init
<1>1. tops = <<0>> /\ seen = Unknown /\ reloads = 0
  BY DEF Init
<1>2. ServerEpoch = 1 /\ \A e \in 1..1 : tops[e] = 0
  BY <1>1 DEF ServerEpoch
<1>3. {p \in (1..ServerEpoch) \X (1..MaxPublished) : p[2] <= tops[p[1]]} = {}
  BY <1>2
<1>4. QED
  BY <1>1, <1>3 DEF Promise!Init, Promise!Unknown, Unknown

\* Recovery implements the stream: publications are handed to the application in the order
\* of the server, with no gap and no repetition, unless it is told that its position is
\* another.
THEOREM FollowsStream == Spec => StreamSpec
<1>1. Init => Promise!Init
  BY StreamInit
<1>2. RInv(HasGetState) /\ [Next]_vars => [Promise!Next]_Promise!vars
  <2>1. [Next]_vars => StepOf(HasGetState)
    BY DEF StepOf
  <2>2. QED
    BY <2>1, RecoveryGetState, StreamStep
<1>3. QED
  BY <1>1, <1>2, RecoveryInvariant, PTL DEF Spec, StreamSpec, Promise!Spec

\* The inductive invariant of the instance that is model-checked.
PInv == IF part = "getState" THEN RInv(HasGetState) ELSE RInv(FALSE)

\* A step of the instances is a step of one of them, and the part stays.
LEMMA PartStep ==
  ASSUME [MCNext]_<<part, vars, serverVars>>
  PROVE  part' = part /\ (part = "getState" => StepOf(HasGetState)) /\ (part # "getState"
             => StepOf(FALSE))
BY DEF MCNext, StepOf

\* A step of the instances keeps the invariant.
LEMMA PInvStep ==
  ASSUME PInv, [MCNext]_<<part, vars, serverVars>>
  PROVE  PInv'
<1>1. CASE part = "getState"
  <2>1. RInv(HasGetState)'
    BY <1>1, RecoveryGetState, PartStep, RInvStep DEF PInv
  <2>2. QED
    BY <1>1, <2>1, PartStep DEF PInv
<1>2. CASE part # "getState"
  <2>1. RInv(FALSE)'
    BY <1>2, PartStep, RInvStep DEF PInv
  <2>2. QED
    BY <1>2, <2>1, PartStep DEF PInv
<1>3. QED
  BY <1>1, <1>2

\* The inductive invariant holds of both instances of recovery that are model-checked
\* together.
LEMMA PartsInvariant == MCSpec => []PInv
<1>1. MCInit => PInv
  BY RecoveryGetState, RInvInit DEF MCInit, PInv
<1>2. PInv /\ [MCNext]_<<part, vars, serverVars>> => PInv'
  BY PInvStep
<1>3. QED
  BY <1>1, <1>2, PTL DEF MCSpec

------------------------------------------------------------------------------
(* The server-side subscriptions *)

\* The server-side subscriptions of MCDelivery, with what is proved about them.
PushedProofs == INSTANCE ServerSubsProofs WITH
  Channels <- MCChannels, Recoverable <- MCRecoverable,
  MaxPublished <- MaxServerPublished, MaxCalls <- MaxServerCalls,
  MaxChanges <- MaxServerChanges, MaxFaults <- MaxServerFaults,
  tops <- serverTops, floor <- serverFloor, state <- clientState, wire <- serverWire,
  held <- serverHeld, queue <- serverQueue, seen <- serverSeen, reloads <- serverReloads,
  calls <- serverCalls, faults <- serverFaults

\* Both instances of ServerSubs start alike ...
LEMMA PushedInit == Pushed!Init <=> PushedProofs!Init
BY DEF Pushed!Init, PushedProofs!Init, Pushed!Unknown, PushedProofs!Unknown

\* ... and take the same steps.
LEMMA PushedNext == Pushed!Next <=> PushedProofs!Next
<1> USE DEF Pushed!server, PushedProofs!server, Pushed!connection,
  PushedProofs!connection, Pushed!application, PushedProofs!application, Pushed!budget,
  PushedProofs!budget, Pushed!NoFault, PushedProofs!NoFault, Pushed!Fault,
  PushedProofs!Fault, Pushed!Change, PushedProofs!Change, Pushed!ApplicationCalls,
  PushedProofs!ApplicationCalls
<1>1. Pushed!Connect <=> PushedProofs!Connect
  BY DEF Pushed!Connect, PushedProofs!Connect
<1>2. Pushed!Disconnect <=> PushedProofs!Disconnect
  BY DEF Pushed!Disconnect, PushedProofs!Disconnect, Pushed!MoveToConnecting,
         PushedProofs!MoveToConnecting, Pushed!LinkEnds, PushedProofs!LinkEnds,
         Pushed!Subscribing, PushedProofs!Subscribing, Pushed!Reported,
         PushedProofs!Reported, Pushed!Event, PushedProofs!Event, Pushed!Unknown,
         PushedProofs!Unknown
<1>3. Pushed!Close <=> PushedProofs!Close
  BY DEF Pushed!Close, PushedProofs!Close, Pushed!MoveToConnecting,
         PushedProofs!MoveToConnecting, Pushed!LinkEnds, PushedProofs!LinkEnds,
         Pushed!Subscribing, PushedProofs!Subscribing, Pushed!Reported,
         PushedProofs!Reported, Pushed!Event, PushedProofs!Event, Pushed!Unknown,
         PushedProofs!Unknown
<1>4. Pushed!ReportClosed <=> PushedProofs!ReportClosed
  BY DEF Pushed!ReportClosed, PushedProofs!ReportClosed, Pushed!Event,
         PushedProofs!Event, Pushed!Unknown, PushedProofs!Unknown
<1>5. Pushed!Open <=> PushedProofs!Open
  BY DEF Pushed!Open, PushedProofs!Open, Pushed!ServerPosition,
         PushedProofs!ServerPosition, Pushed!ServerEpoch, PushedProofs!ServerEpoch,
         Pushed!Top, PushedProofs!Top, Pushed!Unknown, PushedProofs!Unknown,
         Pushed!NoEpoch, PushedProofs!NoEpoch, Pushed!NoPosition,
         PushedProofs!NoPosition, Pushed!CanRecover, PushedProofs!CanRecover,
         Pushed!Recovered, PushedProofs!Recovered, Pushed!Missed, PushedProofs!Missed,
         Pushed!Unrecovered, PushedProofs!Unrecovered
<1>6. Pushed!Take <=> PushedProofs!Take
  BY DEF Pushed!Take, PushedProofs!Take, Pushed!ReaderFree, PushedProofs!ReaderFree,
         Pushed!EventsRan, PushedProofs!EventsRan
<1>7. ASSUME NEW h PROVE Pushed!HandleConnect(h) <=> PushedProofs!HandleConnect(h)
  BY DEF Pushed!HandleConnect, PushedProofs!HandleConnect, Pushed!IsConnectedAttempt,
         PushedProofs!IsConnectedAttempt, Pushed!Done, PushedProofs!Done,
         Pushed!Continue, PushedProofs!Continue, Pushed!With, PushedProofs!With,
         Pushed!Without, PushedProofs!Without, Pushed!Stale, PushedProofs!Stale,
         Pushed!EventsRan, PushedProofs!EventsRan, Pushed!Event, PushedProofs!Event,
         Pushed!Unknown, PushedProofs!Unknown
<1>8. ASSUME NEW h, NEW c PROVE Pushed!StoreSub(h, c) <=> PushedProofs!StoreSub(h, c)
  BY DEF Pushed!StoreSub, PushedProofs!StoreSub, Pushed!IsConnectedAttempt,
         PushedProofs!IsConnectedAttempt, Pushed!Done, PushedProofs!Done,
         Pushed!Continue, PushedProofs!Continue, Pushed!With, PushedProofs!With,
         Pushed!Without, PushedProofs!Without, Pushed!Stale, PushedProofs!Stale,
         Pushed!EventsRan, PushedProofs!EventsRan, Pushed!Event, PushedProofs!Event,
         Pushed!Unknown, PushedProofs!Unknown, Pushed!Stored, PushedProofs!Stored,
         Pushed!TakesPosition, PushedProofs!TakesPosition, Pushed!NoEpoch,
         PushedProofs!NoEpoch
<1>9. ASSUME NEW h PROVE Pushed!RemoveAbsent(h) <=> PushedProofs!RemoveAbsent(h)
  BY DEF Pushed!RemoveAbsent, PushedProofs!RemoveAbsent, Pushed!IsConnectedAttempt,
         PushedProofs!IsConnectedAttempt, Pushed!Done, PushedProofs!Done,
         Pushed!Continue, PushedProofs!Continue, Pushed!With, PushedProofs!With,
         Pushed!Without, PushedProofs!Without, Pushed!Stale, PushedProofs!Stale,
         Pushed!EventsRan, PushedProofs!EventsRan, Pushed!Event, PushedProofs!Event,
         Pushed!Unknown, PushedProofs!Unknown, Pushed!Absent, PushedProofs!Absent
<1>10. ASSUME NEW h
       PROVE Pushed!HandleServerPublication(h) <=> PushedProofs!HandleServerPublication(h)
  BY DEF Pushed!HandleServerPublication, PushedProofs!HandleServerPublication,
         Pushed!IsConnectedAttempt, PushedProofs!IsConnectedAttempt, Pushed!Done,
         PushedProofs!Done, Pushed!Continue, PushedProofs!Continue, Pushed!With,
         PushedProofs!With, Pushed!Without, PushedProofs!Without, Pushed!Stale,
         PushedProofs!Stale, Pushed!EventsRan, PushedProofs!EventsRan, Pushed!Event,
         PushedProofs!Event, Pushed!Unknown, PushedProofs!Unknown, Pushed!Adopted,
         PushedProofs!Adopted, Pushed!NoEpoch, PushedProofs!NoEpoch
<1>11. ASSUME NEW h PROVE Pushed!HandleServerSub(h) <=> PushedProofs!HandleServerSub(h)
  BY DEF Pushed!HandleServerSub, PushedProofs!HandleServerSub,
         Pushed!IsConnectedAttempt, PushedProofs!IsConnectedAttempt, Pushed!Done,
         PushedProofs!Done, Pushed!Continue, PushedProofs!Continue, Pushed!With,
         PushedProofs!With, Pushed!Without, PushedProofs!Without, Pushed!Stale,
         PushedProofs!Stale, Pushed!EventsRan, PushedProofs!EventsRan, Pushed!Event,
         PushedProofs!Event, Pushed!Unknown, PushedProofs!Unknown
<1>12. ASSUME NEW h PROVE Pushed!HandleServerUnsub(h) <=> PushedProofs!HandleServerUnsub(h)
  BY DEF Pushed!HandleServerUnsub, PushedProofs!HandleServerUnsub,
         Pushed!IsConnectedAttempt, PushedProofs!IsConnectedAttempt, Pushed!Done,
         PushedProofs!Done, Pushed!Continue, PushedProofs!Continue, Pushed!With,
         PushedProofs!With, Pushed!Without, PushedProofs!Without, Pushed!Stale,
         PushedProofs!Stale, Pushed!EventsRan, PushedProofs!EventsRan, Pushed!Event,
         PushedProofs!Event, Pushed!Unknown, PushedProofs!Unknown
<1>13. Pushed!ConnectionLost <=> PushedProofs!ConnectionLost
  BY DEF Pushed!ConnectionLost, PushedProofs!ConnectionLost, Pushed!MoveToConnecting,
         PushedProofs!MoveToConnecting, Pushed!LinkEnds, PushedProofs!LinkEnds,
         Pushed!Subscribing, PushedProofs!Subscribing, Pushed!Reported,
         PushedProofs!Reported, Pushed!Event, PushedProofs!Event, Pushed!Unknown,
         PushedProofs!Unknown
<1>14. Pushed!Invalidated <=> PushedProofs!Invalidated
  BY DEF Pushed!Invalidated, PushedProofs!Invalidated, Pushed!ReaderFree,
         PushedProofs!ReaderFree, Pushed!EventsRan, PushedProofs!EventsRan
<1>15. ASSUME NEW n
       PROVE Pushed!InvalidateConnectionState(n) <=> PushedProofs!InvalidateConnectionState(n)
  BY DEF Pushed!InvalidateConnectionState, PushedProofs!InvalidateConnectionState,
         Pushed!InvalidatedEpoch, PushedProofs!InvalidatedEpoch
<1>16. ASSUME NEW n PROVE Pushed!CloseReported(n) <=> PushedProofs!CloseReported(n)
  BY DEF Pushed!CloseReported, PushedProofs!CloseReported, Pushed!MoveToConnecting,
         PushedProofs!MoveToConnecting, Pushed!LinkEnds, PushedProofs!LinkEnds,
         Pushed!Subscribing, PushedProofs!Subscribing, Pushed!Reported,
         PushedProofs!Reported, Pushed!Event, PushedProofs!Event, Pushed!Unknown,
         PushedProofs!Unknown
<1>17. ASSUME NEW c PROVE Pushed!Publish(c) <=> PushedProofs!Publish(c)
  BY DEF Pushed!Publish, PushedProofs!Publish, Pushed!ServerPosition,
         PushedProofs!ServerPosition, Pushed!ServerEpoch, PushedProofs!ServerEpoch,
         Pushed!Top, PushedProofs!Top, Pushed!Push, PushedProofs!Push
<1>18. ASSUME NEW c PROVE Pushed!ServerSubscribes(c) <=> PushedProofs!ServerSubscribes(c)
  BY DEF Pushed!ServerSubscribes, PushedProofs!ServerSubscribes, Pushed!ServerPosition,
         PushedProofs!ServerPosition, Pushed!ServerEpoch, PushedProofs!ServerEpoch,
         Pushed!Top, PushedProofs!Top, Pushed!Unknown, PushedProofs!Unknown
<1>19. ASSUME NEW c
       PROVE Pushed!ServerUnsubscribes(c) <=> PushedProofs!ServerUnsubscribes(c)
  BY DEF Pushed!ServerUnsubscribes, PushedProofs!ServerUnsubscribes, Pushed!Push,
         PushedProofs!Push, Pushed!Unknown, PushedProofs!Unknown
<1>20. ASSUME NEW c PROVE Pushed!Reset(c) <=> PushedProofs!Reset(c)
  BY DEF Pushed!Reset, PushedProofs!Reset
<1>21. ASSUME NEW c PROVE Pushed!HistoryLost(c) <=> PushedProofs!HistoryLost(c)
  BY DEF Pushed!HistoryLost, PushedProofs!HistoryLost, Pushed!ServerPosition,
         PushedProofs!ServerPosition, Pushed!ServerEpoch, PushedProofs!ServerEpoch,
         Pushed!Top, PushedProofs!Top
<1>22. Pushed!RunNotice <=> PushedProofs!RunNotice
  BY DEF Pushed!RunNotice, PushedProofs!RunNotice
<1>23. Pushed!RunSubscribed <=> PushedProofs!RunSubscribed
  BY DEF Pushed!RunSubscribed, PushedProofs!RunSubscribed
<1>24. Pushed!RunPublication <=> PushedProofs!RunPublication
  BY DEF Pushed!RunPublication, PushedProofs!RunPublication, Pushed!Unknown,
         PushedProofs!Unknown
<1>25. Pushed!RunRecovered <=> PushedProofs!RunRecovered
  BY DEF Pushed!RunRecovered, PushedProofs!RunRecovered, Pushed!MayDeliver,
         PushedProofs!MayDeliver, Pushed!IsConnectedAttempt,
         PushedProofs!IsConnectedAttempt, Pushed!With, PushedProofs!With,
         Pushed!Adopted, PushedProofs!Adopted, Pushed!NoEpoch, PushedProofs!NoEpoch
<1>26. QED
  BY <1>1, <1>2, <1>3, <1>4, <1>5, <1>6, <1>7, <1>8, <1>9, <1>10, <1>11, <1>12, <1>13,
     <1>14, <1>15, <1>16, <1>17, <1>18, <1>19, <1>20, <1>21, <1>22, <1>23, <1>24, <1>25
  DEF Pushed!Next, PushedProofs!Next, Pushed!HandlePush, PushedProofs!HandlePush

\* What runs in MCDelivery is a behaviour of ServerSubs.
LEMMA PushedSpec == MCSpec => PushedProofs!Spec
<1>1. MCInit => PushedProofs!Init
  BY PushedInit DEF MCInit
<1>2. [MCNext]_<<part, vars, serverVars>> => [PushedProofs!Next]_(PushedProofs!vars)
  <2>1. UNCHANGED serverVars => UNCHANGED PushedProofs!vars
    BY DEF serverVars, PushedProofs!vars, PushedProofs!server, PushedProofs!connection,
           PushedProofs!application, PushedProofs!budget
  <2>2. QED
    BY <2>1, PushedNext DEF MCNext
<1>3. QED
  BY <1>1, <1>2, PTL DEF MCSpec, PushedProofs!Spec

\* The application's picture of its server-side subscriptions is the client's, and the
\* client's is the server's, whichever part runs: storeServerSubs, the pushes and the
\* teardowns of client.go.
THEOREM ServerSubsAlwaysAgree == MCSpec => []ServerSubsAgree
<1>1. PushedProofs!AgreesWithServer /\ PushedProofs!ToldWhatIs => ServerSubsAgree
  BY DEF PushedProofs!AgreesWithServer, PushedProofs!ToldWhatIs, PushedProofs!Settled,
         ServerSubsAgree, Pushed!AgreesWithServer, Pushed!ToldWhatIs, Pushed!Settled
<1>2. MaxServerPublished \in Nat
  BY ServerSubsBounds
<1>3. PushedProofs!Spec => []PushedProofs!AgreesWithServer
  BY <1>2, PushedProofs!ClientAgrees
<1>4. PushedProofs!Spec => []PushedProofs!ToldWhatIs
  BY <1>2, PushedProofs!ApplicationAgrees
<1>5. QED
  BY <1>1, <1>3, <1>4, PushedSpec, PTL

\* Once every event has run, what the client recovers from is what the application has
\* seen, for subscriptions with and without GetState and for server-side ones: the
\* positions recorded in subscription.go and in the serverSubs of client.go.
THEOREM BothAlwaysRecoverFromWhatWasSeen == MCSpec => []BothRecoverFromWhatWasSeen
<1>1. PInv => RecoversFromWhatWasSeen
  <2>1. CASE part = "getState"
    BY <2>1, RecoveryGetState, PositionSeen DEF PInv
  <2>2. CASE part # "getState"
    BY <2>2, PositionSeen DEF PInv
  <2>3. QED
    BY <2>1, <2>2
<1>2. PushedProofs!RecoversFromWhatWasSeen => Pushed!RecoversFromWhatWasSeen
  BY DEF PushedProofs!RecoversFromWhatWasSeen, Pushed!RecoversFromWhatWasSeen,
         PushedProofs!Settled, Pushed!Settled, PushedProofs!PositionsAreSeen,
         Pushed!PositionsAreSeen, PushedProofs!ServerEpoch, Pushed!ServerEpoch,
         PushedProofs!Unknown, Pushed!Unknown
<1>3. MaxServerPublished \in Nat
  BY ServerSubsBounds
<1>4. PushedProofs!Spec => []PushedProofs!RecoversFromWhatWasSeen
  BY <1>3, PushedProofs!RecoversFromTheSeen
<1>5. PInv /\ PushedProofs!RecoversFromWhatWasSeen => BothRecoverFromWhatWasSeen
  BY <1>1, <1>2 DEF BothRecoverFromWhatWasSeen
<1>6. QED
  BY <1>4, <1>5, PartsInvariant, PushedSpec, PTL

\* The promise to the application is the same in both instances of ServerSubs.
LEMMA PushedPromise ==
  ASSUME NEW c
  PROVE  /\ Pushed!Promise(c)!Init <=> PushedProofs!Promise(c)!Init
         /\ [Pushed!Promise(c)!Next]_(Pushed!Promise(c)!vars)
              <=> [PushedProofs!Promise(c)!Next]_(PushedProofs!Promise(c)!vars)
BY DEF Pushed!Promise!Init, PushedProofs!Promise!Init, Pushed!Promise!Next,
       PushedProofs!Promise!Next, Pushed!Promise!vars, PushedProofs!Promise!vars,
       Pushed!Promise!Publish, PushedProofs!Promise!Publish, Pushed!Promise!Reload,
       PushedProofs!Promise!Reload, Pushed!Promise!Deliver, PushedProofs!Promise!Deliver,
       Pushed!Promise!Unknown, PushedProofs!Promise!Unknown, Pushed!Promise!Following,
       PushedProofs!Promise!Following, Pushed!ServerEpoch, PushedProofs!ServerEpoch

\* Recovery and the server-side subscriptions implement the stream, whichever runs: the
\* publications of a channel are handed over in the order of the server, with no gap and no
\* repetition, unless the application is told to load its state.
THEOREM BothAlwaysFollowStream == MCSpec => BothFollowStream
<1>1. MCInit => Promise!Init
  BY StreamInit DEF MCInit
<1>2. PInv /\ [MCNext]_<<part, vars, serverVars>> => [Promise!Next]_Promise!vars
  <2>1. SUFFICES ASSUME PInv, [MCNext]_<<part, vars, serverVars>>
                 PROVE  [Promise!Next]_Promise!vars
    OBVIOUS
  <2>2. CASE part = "getState"
    BY <2>1, <2>2, RecoveryGetState, PartStep, StreamStep DEF PInv
  <2>3. CASE part # "getState"
    BY <2>1, <2>3, PartStep, StreamStep DEF PInv
  <2>4. QED
    BY <2>2, <2>3
<1>3. MCSpec => StreamSpec
  BY <1>1, <1>2, PartsInvariant, PTL DEF MCSpec, StreamSpec, Promise!Spec
<1>4. MaxServerPublished \in Nat /\ MCRecoverable \subseteq MCChannels
  BY ServerSubsBounds, ServerSubsChannels
<1>5. PushedProofs!Spec => PushedProofs!StreamSpec
  BY <1>4, PushedProofs!FollowsStreams
<1>6. PushedProofs!StreamSpec => Pushed!StreamSpec
  <2>1. (\A c \in MCRecoverable : PushedProofs!Promise(c)!Init)
          => (\A c \in MCRecoverable : Pushed!Promise(c)!Init)
    BY PushedPromise
  <2>2. [\/ strayed' \/ late
         \/ \A c \in MCRecoverable :
              [PushedProofs!Promise(c)!Next]_(PushedProofs!Promise(c)!vars)
        ]_(PushedProofs!vars)
          => [\/ strayed' \/ late
              \/ \A c \in MCRecoverable : [Pushed!Promise(c)!Next]_(Pushed!Promise(c)!vars)
             ]_(Pushed!vars)
    BY PushedPromise DEF PushedProofs!vars, Pushed!vars, PushedProofs!server,
       Pushed!server, PushedProofs!connection, Pushed!connection,
       PushedProofs!application, Pushed!application, PushedProofs!budget, Pushed!budget
  <2>3. QED
    BY <2>1, <2>2, PTL DEF PushedProofs!StreamSpec, Pushed!StreamSpec
<1>7. QED
  BY <1>3, <1>5, <1>6, PushedSpec, PTL DEF BothFollowStream
==============================================================================
