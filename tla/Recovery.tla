------------------------------ MODULE Recovery ------------------------------
(***************************************************************************)
(* The recovery of a subscription (subscription.go): the stream position   *)
(* it keeps, the publications recovered with a subscribe reply and those   *)
(* pushed afterwards, the base of fossil deltas, GetState, and the callback*)
(* queue the publications pass on their way to the application.            *)
(*                                                                         *)
(* A step is one hold of s.mu, one entry of the callback queue (one        *)
(* publication of the entry that delivers recovered ones), or one message  *)
(* sent, received or answered.  The reader takes a message, which includes *)
(* the check in handle() that its transport is current, and handles it in a*)
(* later step.  The end of a connection moves the subscription at once.    *)
(* Tokens, retries and errors are in module Subscription.                  *)
(***************************************************************************)
EXTENDS Integers, Sequences

CONSTANTS
  HasGetState,   \* the subscription is configured with GetState
  MaxPublished,  \* bound: publications of one epoch
  MaxCalls,      \* bound: Subscribe and Unsubscribe
  MaxFaults      \* bound: lost connections, resets, invalidations, lost history, replicas

ASSUME RecoveryBounds == MaxPublished \in Nat /\ MaxCalls \in Nat /\ MaxFaults \in Nat
ASSUME RecoveryGetState == HasGetState \in BOOLEAN

VARIABLES
  tops,             \* last offset of each epoch; the last epoch is the current one
  floor,            \* history starts after this offset
  serverSub, base,  \* the server's subscription, and the base of its next delta
  connected, connection,
  commands, wire,   \* messages of the connection
  held,             \* messages taken by readers and not handled
  state, subscribeAttempt, subscribedSession, inflight,
  recover, epoch, offset,
  prevData,         \* the publication prevData holds
  queue,            \* entries of the callback queue
  seen, loaded, reloads, \* history: what the application has, and knows it missed
  tainted,          \* history: session a publication of a former connection got into
  misdecoded,       \* history: a delta was applied to something else than its base
  calls, faults

server == <<tops, floor, serverSub, base>>
link == <<connected, connection, commands, wire>>
subscription == <<state, subscribeAttempt, subscribedSession, inflight>>
position == <<recover, epoch, offset>>
application == <<seen, loaded, reloads>>
decoding == <<tainted, misdecoded>>
budget == <<calls, faults>>
vars == <<server, link, held, subscription, position, prevData, queue, application,
          decoding, budget>>

NoEpoch == 0
InvalidatedEpoch == -1     \* stateInvalidatedEpoch: the server never has it
Unknown == <<0, 0>>
Nothing == <<0, 0>>        \* no base, or no data to apply a delta to
ServerEpoch == Len(tops)
Top == tops[ServerEpoch]
Earlier(p, q) == p[1] < q[1] \/ (p[1] = q[1] /\ p[2] <= q[2])

Init ==
  /\ tops = <<0>> /\ floor = 0 /\ serverSub = FALSE /\ base = Nothing
  /\ connected = TRUE /\ connection = 1 /\ commands = <<>> /\ wire = <<>> /\ held = {}
  /\ state = "unsubscribed" /\ subscribeAttempt = 0 /\ subscribedSession = 0
  /\ inflight = FALSE
  /\ recover = FALSE /\ epoch = NoEpoch /\ offset = 0 /\ prevData = Nothing
  /\ queue = <<>>
  /\ seen = Unknown /\ loaded = Unknown /\ reloads = 0
  /\ tainted = 0 /\ misdecoded = FALSE
  /\ calls = 0 /\ faults = 0

ApplicationCalls == calls < MaxCalls /\ calls' = calls + 1 /\ UNCHANGED faults
Fault == faults < MaxFaults /\ faults' = faults + 1 /\ UNCHANGED calls
NoFault == UNCHANGED budget

------------------------------------------------------------------------------
(* Variants of the definitions below with a bug planted; used to check that *)
(* the properties notice it.                                                *)

FaultyStillInSession(session) == state = "subscribed"
FaultyDecoded(pubs) == prevData
FaultyPositionOfPub(pub) == <<epoch, offset>>
FaultyAttemptCurrent(attempt) == TRUE

------------------------------------------------------------------------------
(* Parts of several actions                                                 *)

\* moveToSubscribed applies a reply of the current attempt only.
AttemptCurrent(attempt) == subscribeAttempt = attempt

\* An empty epoch keeps a position already known.
TakesPosition(reply) == reply.epoch # NoEpoch \/ epoch = NoEpoch

\* An epoch is adopted from a publication only while none is known.
EpochAfter(pub) == IF epoch = NoEpoch THEN pub[1] ELSE epoch
PositionOfPub(pub) == <<EpochAfter(pub), pub[2]>>

\* The recovered publications are delivered in their own session only.
StillInSession(session) == state = "subscribed" /\ subscribedSession = session

\* Each publication, full or decoded, is the base of the next delta.
Decoded(pubs) == IF pubs = <<>> THEN prevData ELSE pubs[Len(pubs)].id
WellBased(pubs) ==
  \A i \in 1..Len(pubs) :
    pubs[i].base # Nothing => pubs[i].base = IF i = 1 THEN prevData ELSE pubs[i - 1].id

\* The reader of a connection handles a message and waits for its last event.
ReaderFree(n) ==
  /\ \A h \in held : h.connection # n
  /\ \A i \in 1..Len(queue) : queue[i].reader # n

Event(kind, pubs, reader) ==
  [kind |-> kind, pubs |-> pubs, reader |-> reader, position |-> Unknown, session |-> 0,
   stale |-> FALSE]

\* The application gets a publication, maybe one that was in the state it loaded.
Deliver(id) ==
  /\ seen' = IF Earlier(id, loaded) THEN seen ELSE id
  /\ UNCHANGED <<loaded, reloads>>

------------------------------------------------------------------------------
(* Calls of the application                                                 *)

Subscribe ==
  /\ ApplicationCalls
  /\ state = "unsubscribed" /\ state' = "subscribing"
  /\ UNCHANGED <<server, link, held, subscribeAttempt, subscribedSession, inflight, position,
                 prevData, queue, application, decoding>>

\* The server is told when it may have the subscription.
Unsubscribe ==
  /\ ApplicationCalls
  /\ state # "unsubscribed" /\ state' = "unsubscribed"
  /\ subscribeAttempt' = subscribeAttempt + 1
  /\ commands' = IF connected /\ (state = "subscribed" \/ inflight)
                 THEN Append(commands, [type |-> "unsubscribe"]) ELSE commands
  /\ UNCHANGED <<server, connected, connection, wire, held, subscribedSession, inflight,
                 position, prevData, queue, application, decoding>>

\* The application loads its state and says which position that is.
GetState ==
  /\ HasGetState /\ ~recover
  /\ state = "subscribing" /\ connected /\ ~inflight
  /\ recover' = TRUE /\ epoch' = ServerEpoch /\ offset' = Top
  /\ seen' = <<ServerEpoch, Top>> /\ loaded' = seen' /\ reloads' = reloads + 1
  /\ NoFault
  /\ UNCHANGED <<server, link, held, subscription, prevData, queue, decoding>>

\* resubscribe and continueResubscribe
SendSubscribe ==
  /\ state = "subscribing" /\ connected /\ ~inflight
  /\ HasGetState => recover
  /\ inflight' = TRUE
  /\ commands' = Append(commands, [type |-> "subscribe", attempt |-> subscribeAttempt,
                                   recover |-> recover, epoch |-> epoch, offset |-> offset])
  /\ NoFault
  /\ UNCHANGED <<server, connected, connection, wire, held, state, subscribeAttempt,
                 subscribedSession, position, prevData, queue, application, decoding>>

------------------------------------------------------------------------------
(* The server                                                               *)

Send(msg) == wire' = Append(wire, msg)
Forget == serverSub' = FALSE /\ base' = Nothing

Reply(cmd, e, o, pubs, recovered) ==
  Send([type |-> "reply", attempt |-> cmd.attempt, epoch |-> e, offset |-> o, pubs |-> pubs,
        recovered |-> recovered])

\* Publications after an offset: the first in full, the others as deltas.
History(o) ==
  [i \in 1..(Top - o) |->
     [id |-> <<ServerEpoch, o + i>>,
      base |-> IF i = 1 THEN Nothing ELSE <<ServerEpoch, o + i - 1>>]]

CanRecover(cmd) ==
  cmd.recover /\ cmd.epoch \in {NoEpoch, ServerEpoch} /\ cmd.offset \in floor..Top

ServerSubscribes ==
  /\ commands # <<>> /\ Head(commands).type = "subscribe"
  /\ LET cmd == Head(commands) IN
     \/ /\ CanRecover(cmd)
        /\ Reply(cmd, ServerEpoch, cmd.offset, History(cmd.offset), TRUE)
        /\ serverSub' = TRUE
        /\ base' = IF cmd.offset = Top THEN Nothing ELSE <<ServerEpoch, Top>>
        /\ NoFault
     \/ /\ ~CanRecover(cmd) /\ ~HasGetState
        /\ Reply(cmd, ServerEpoch, Top, <<>>, FALSE)
        /\ serverSub' = TRUE /\ base' = Nothing
        /\ NoFault
     \* A replica that lags behind knows no position.
     \/ /\ ~HasGetState /\ Fault
        /\ Reply(cmd, NoEpoch, 0, <<>>, FALSE)
        /\ serverSub' = TRUE /\ base' = Nothing
     \* Error 112: the client asked to reject what cannot be recovered.
     \/ /\ ~CanRecover(cmd) /\ HasGetState
        /\ Send([type |-> "unrecoverable", attempt |-> cmd.attempt])
        /\ Forget
        /\ NoFault
  /\ commands' = Tail(commands)
  /\ UNCHANGED <<tops, floor, connected, connection, held, subscription, position, prevData,
                 queue, application, decoding>>

ServerUnsubscribes ==
  /\ commands # <<>> /\ Head(commands).type = "unsubscribe"
  /\ commands' = Tail(commands)
  /\ Forget
  /\ NoFault
  /\ UNCHANGED <<tops, floor, connected, connection, wire, held, subscription, position,
                 prevData, queue, application, decoding>>

Publish ==
  /\ Top < MaxPublished
  /\ tops' = [tops EXCEPT ![ServerEpoch] = Top + 1]
  /\ IF serverSub
     THEN /\ Send([type |-> "pub", pub |-> [id |-> <<ServerEpoch, Top + 1>>, base |-> base]])
          /\ base' = <<ServerEpoch, Top + 1>>
     ELSE UNCHANGED <<wire, base>>
  /\ NoFault
  /\ UNCHANGED <<floor, serverSub, connected, connection, commands, held, subscription,
                 position, prevData, queue, application, decoding>>

\* An unsubscribe push that asks to resubscribe: the stream was reset
\* (insufficient state), or the server invalidates the state.
Unsubscribed(invalidated) ==
  IF serverSub
  THEN Send([type |-> "unsubscribe", invalidated |-> invalidated]) /\ Forget
  ELSE UNCHANGED <<wire, serverSub, base>>

Reset ==
  /\ Fault
  /\ tops' = Append(tops, 0) /\ floor' = 0
  /\ Unsubscribed(FALSE)
  /\ UNCHANGED <<connected, connection, commands, held, subscription, position, prevData,
                 queue, application, decoding>>

Invalidate ==
  /\ Fault
  /\ serverSub /\ Unsubscribed(TRUE)
  /\ UNCHANGED <<tops, floor, connected, connection, commands, held, subscription, position,
                 prevData, queue, application, decoding>>

HistoryLost ==
  /\ Fault
  /\ floor < Top /\ floor' = Top
  /\ UNCHANGED <<tops, serverSub, base, link, held, subscription, position, prevData, queue,
                 application, decoding>>

------------------------------------------------------------------------------
(* The connection                                                           *)

\* A push that unsubscribes, applied after the connection ended, is a matter of
\* module Subscription.
ConnectionLost ==
  /\ Fault
  /\ connected /\ connected' = FALSE /\ connection' = connection + 1
  /\ commands' = <<>> /\ wire' = <<>>
  /\ held' = {h \in held : h.msg.type # "unsubscribe"}
  /\ Forget
  /\ state' = IF state = "subscribed" THEN "subscribing" ELSE state
  /\ inflight' = FALSE
  /\ UNCHANGED <<tops, floor, subscribeAttempt, subscribedSession, position, prevData, queue,
                 application, decoding>>

Reconnect ==
  /\ ~connected /\ connected' = TRUE
  /\ NoFault
  /\ UNCHANGED <<server, connection, commands, wire, held, subscription, position, prevData,
                 queue, application, decoding>>

\* The reader takes a message; the transport is current.
Take ==
  /\ wire # <<>> /\ ReaderFree(connection)
  /\ held' = held \cup {[connection |-> connection, msg |-> Head(wire)]}
  /\ wire' = Tail(wire)
  /\ NoFault
  /\ UNCHANGED <<server, connected, connection, commands, subscription, position, prevData,
                 queue, application, decoding>>

------------------------------------------------------------------------------
(* Handling of messages                                                     *)

Applies(h) ==
  state = "subscribing" /\ AttemptCurrent(h.msg.attempt) /\ h.connection = connection

\* moveToSubscribed
HandleReply(h) ==
  /\ h.msg.type = "reply"
  /\ inflight' = (inflight /\ h.connection # connection)
  /\ IF Applies(h)
     THEN /\ state' = "subscribed" /\ subscribedSession' = subscribedSession + 1
          /\ recover' = TRUE
          /\ IF TakesPosition(h.msg)
             THEN epoch' = h.msg.epoch /\ offset' = h.msg.offset
             ELSE UNCHANGED <<epoch, offset>>
          /\ prevData' = Decoded(h.msg.pubs)
          /\ misdecoded' = (misdecoded \/ ~WellBased(h.msg.pubs))
          /\ LET told == IF h.msg.recovered THEN "recovered"
                         ELSE IF h.msg.epoch = NoEpoch THEN "noPosition" ELSE "unrecovered"
                 subscribed == [Event(told, <<>>, h.connection)
                                  EXCEPT !.position = <<h.msg.epoch, h.msg.offset>>]
                 pubs == [Event("publications", h.msg.pubs, h.connection)
                            EXCEPT !.session = subscribedSession']
             IN  queue' = queue \o IF h.msg.pubs = <<>> THEN <<subscribed>>
                                                        ELSE <<subscribed, pubs>>
     ELSE UNCHANGED <<state, subscribedSession, position, prevData, misdecoded, queue>>
  /\ UNCHANGED tainted
  /\ held' = held \ {h}
  /\ NoFault
  /\ UNCHANGED <<server, link, subscribeAttempt, application>>

\* subscribeError with GetState: the state is to be loaded again.
HandleUnrecoverable(h) ==
  /\ h.msg.type = "unrecoverable"
  /\ inflight' = (inflight /\ h.connection # connection)
  /\ IF Applies(h)
     THEN recover' = FALSE /\ offset' = 0 /\ epoch' = NoEpoch /\ prevData' = Nothing
     ELSE UNCHANGED <<position, prevData>>
  /\ held' = held \ {h}
  /\ NoFault
  /\ UNCHANGED <<server, link, state, subscribeAttempt, subscribedSession, queue, application,
                 decoding>>

\* handlePublication; stale when its connection was replaced since it was taken.
HandlePublication(h) ==
  /\ h.msg.type = "pub"
  /\ IF state = "subscribed"
     THEN LET pub == h.msg.pub
              stale == h.connection # connection
              at == PositionOfPub(pub.id)
          IN  /\ epoch' = at[1] /\ offset' = at[2]
              /\ prevData' = Decoded(<<pub>>)
              /\ tainted' = IF stale THEN subscribedSession ELSE tainted
              /\ misdecoded' =
                   (misdecoded \/ (tainted' # subscribedSession /\ ~WellBased(<<pub>>)))
              /\ queue' = Append(queue, [Event("publication", <<pub>>, h.connection)
                                           EXCEPT !.stale = stale])
     ELSE UNCHANGED <<epoch, offset, prevData, decoding, queue>>
  /\ held' = held \ {h}
  /\ NoFault
  /\ UNCHANGED <<server, link, subscription, recover, application>>

\* handleUnsubscribe with a code that resubscribes, and invalidateState
HandleUnsubscribe(h) ==
  /\ h.msg.type = "unsubscribe"
  /\ IF h.msg.invalidated
     THEN epoch' = InvalidatedEpoch /\ offset' = 0 /\ prevData' = Nothing
     ELSE UNCHANGED <<epoch, offset, prevData>>
  /\ state' = IF state = "unsubscribed" THEN state ELSE "subscribing"
  /\ held' = held \ {h}
  /\ NoFault
  /\ UNCHANGED <<server, link, subscribeAttempt, subscribedSession, inflight, recover, queue,
                 application, decoding>>

Handle(h) ==
  HandleReply(h) \/ HandleUnrecoverable(h) \/ HandlePublication(h) \/ HandleUnsubscribe(h)

------------------------------------------------------------------------------
(* The callback queue                                                       *)

\* The subscribed event says whether publications were missed, and the new position.
RunSubscribed ==
  /\ queue # <<>> /\ Head(queue).kind \in {"recovered", "unrecovered", "noPosition"}
  /\ LET e == Head(queue) IN
     IF e.kind = "recovered"
     THEN UNCHANGED application
     ELSE /\ seen' = IF e.kind = "unrecovered" THEN e.position ELSE Unknown
          /\ reloads' = reloads + 1
          /\ UNCHANGED loaded
  /\ queue' = Tail(queue)
  /\ NoFault
  /\ UNCHANGED <<server, link, held, subscription, position, prevData, decoding>>

\* A publication of an ended session's reader counts as a reload: nothing is
\* promised of it.
RunPublication ==
  /\ queue # <<>> /\ Head(queue).kind = "publication"
  /\ IF Head(queue).stale
     THEN seen' = Unknown /\ reloads' = reloads + 1 /\ UNCHANGED loaded
     ELSE Deliver(Head(queue).pubs[1].id)
  /\ queue' = Tail(queue)
  /\ NoFault
  /\ UNCHANGED <<server, link, held, subscription, position, prevData, decoding>>

\* The entry that delivers recovered publications, one by one.
RunRecovered ==
  /\ queue # <<>> /\ Head(queue).kind = "publications"
  /\ LET e == Head(queue) IN
     IF StillInSession(e.session)
     THEN LET at == PositionOfPub(e.pubs[1].id)
          IN  /\ epoch' = at[1] /\ offset' = at[2]
              /\ Deliver(e.pubs[1].id)
              /\ queue' = IF Len(e.pubs) = 1 THEN Tail(queue)
                          ELSE <<[e EXCEPT !.pubs = Tail(e.pubs)]>> \o Tail(queue)
     ELSE queue' = Tail(queue) /\ UNCHANGED <<epoch, offset, application>>
  /\ NoFault
  /\ UNCHANGED <<server, link, held, subscription, recover, prevData, decoding>>

------------------------------------------------------------------------------
Application == Subscribe \/ Unsubscribe
Client ==
  \/ GetState \/ SendSubscribe \/ Take
  \/ \E h \in held : Handle(h)
Dispatcher == RunSubscribed \/ RunPublication \/ RunRecovered
Answers == ServerSubscribes \/ ServerUnsubscribes
Server == Publish \/ Reset \/ Invalidate \/ HistoryLost

Next == Application \/ Client \/ Dispatcher \/ Answers \/ Server \/ ConnectionLost \/ Reconnect

Spec == Init /\ [][Next]_vars

\* The client reconnects and resubscribes, goroutines and handlers run, and the
\* server answers commands.
Fairness ==
  /\ WF_vars(GetState) /\ WF_vars(SendSubscribe) /\ WF_vars(Take)
  /\ WF_vars(\E h \in held : Handle(h))
  /\ WF_vars(Dispatcher) /\ WF_vars(Answers) /\ WF_vars(Reconnect)

LiveSpec == Spec /\ Fairness

------------------------------------------------------------------------------
(* Properties *)

Epochs == 0..ServerEpoch
Ids == Epochs \X (0..MaxPublished)

TypeOK ==
  /\ \A e \in 1..Len(tops) : tops[e] \in 0..MaxPublished
  /\ floor \in 0..Top /\ serverSub \in BOOLEAN /\ base \in Ids
  /\ connected \in BOOLEAN /\ connection \in Nat \ {0}
  /\ state \in {"unsubscribed", "subscribing", "subscribed"}
  /\ subscribeAttempt \in Nat /\ subscribedSession \in Nat
  /\ inflight \in BOOLEAN /\ recover \in BOOLEAN
  /\ epoch \in Epochs \cup {InvalidatedEpoch} /\ offset \in 0..MaxPublished
  /\ prevData \in Ids /\ seen \in Ids /\ loaded \in Ids /\ reloads \in Nat
  /\ \A h \in held : h.connection \in 1..connection
  /\ \A i \in 1..Len(queue) : queue[i].reader \in 1..connection
  /\ tainted \in 0..subscribedSession /\ misdecoded \in BOOLEAN

\* A delta is applied only to the publication the server made it from: its data
\* would be wrong otherwise, or the client stop with a bad protocol code
\* (deltaFailed).  Deltas are applied when messages arrive, long before handlers run.
\* A publication of a former connection applied late may break the chain.
DeltasFitTheirBase == ~misdecoded

\* Once all events have run, a position the server recovers from is where the
\* application is: an earlier one would deliver publications again, a later one skip
\* some.
RecoversFromWhatWasSeen ==
  (queue = <<>> /\ recover /\ seen # Unknown /\ epoch = ServerEpoch)
  => seen = <<epoch, offset>>

\* The application sees the stream: publications in order, none twice, none lost,
\* unless it was told to load its state again (Recovered = false, GetState).
Promise == INSTANCE Stream WITH
  published <- {p \in (1..ServerEpoch) \X (1..MaxPublished) : p[2] <= tops[p[1]]}
StreamSpec == Promise!Spec

\* "Delivering them here would duplicate them and move its position back"
\* (moveToSubscribed, of publications of an ended session): within a subscribed
\* session the position never moves back.
PositionNeverMovesBack ==
  [][state = "subscribed" /\ state' = "subscribed" /\ epoch' = epoch => offset' >= offset]_vars

\* When connections last, the application has seen everything in the end.
CatchesUp ==
  <>[](state = "subscribed" /\ seen # Unknown => seen = <<ServerEpoch, Top>>)
==============================================================================
