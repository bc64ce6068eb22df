----------------------------- MODULE ServerSubs -----------------------------
(***************************************************************************)
(* Server-side subscriptions (client.go): the map the client keeps of them *)
(* across connections, with the position of each that the next connect     *)
(* recovers from; the connect reply and the pushes that change the map, and*)
(* the events and publications the application gets.                       *)
(*                                                                         *)
(* A step is one hold of c.mu, one entry of the callback queue (one        *)
(* publication of the entry that delivers recovered ones), or one message. *)
(* A connection is named by its connect attempt.  The reader takes a       *)
(* message - for a push this includes the check in handle() that its       *)
(* transport is current - and handles it in later steps.  The application  *)
(* has set every handler.                                                  *)
(***************************************************************************)
EXTENDS Integers, Sequences, FiniteSets

CONSTANTS
  Channels,
  Recoverable,   \* the channels with history, whose subscriptions have a position
  MaxPublished,  \* bound: publications of an epoch of a channel
  MaxCalls,      \* bound: Connect, Disconnect, Close
  MaxChanges,    \* bound: server-side subscribes and unsubscribes
  MaxFaults      \* bound: lost connections, resets, invalidations, lost history, replicas

VARIABLES
  tops,          \* last offset of each epoch of a channel; the last is the current one
  floor,         \* history starts after this offset
  serverSide,    \* the channels the server subscribes this client to
  serverUp,      \* the server has the connection
  state, connectAttempt,
  wire,          \* messages of the current connection
  held,          \* messages taken by readers and not handled to the end
  closes,        \* transports reported closed with state invalidated: <<connection, step>>
  serverSubs,    \* channel -> position
  leaving,       \* the channels Close has yet to report
  queue,         \* entries of the callback queue
  told,          \* history: the last event the application got of each channel
  seen, reloads, \* history: what the application has, and knows it missed
  strayed,       \* history: a push changed something after its connection ended
  late,          \* history: a state invalidation hit a newer connection
  calls, changes, faults

server == <<tops, floor, serverSide>>
connection == <<state, connectAttempt>>
application == <<told, seen, reloads>>
budget == <<calls, changes, faults>>
vars == <<server, serverUp, connection, wire, held, closes, serverSubs, leaving, queue,
          application, strayed, late, budget>>

NoEpoch == 0
InvalidatedEpoch == -1     \* stateInvalidatedEpoch: the server never has it
Unknown == <<0, 0>>
ServerEpoch(c) == Len(tops[c])
Top(c) == tops[c][ServerEpoch(c)]
ServerPosition(c) == IF c \in Recoverable THEN <<ServerEpoch(c), Top(c)>> ELSE Unknown

Init ==
  /\ tops = [c \in Channels |-> <<0>>] /\ floor = [c \in Channels |-> 0]
  /\ serverSide = Channels /\ serverUp = FALSE
  /\ state = "disconnected" /\ connectAttempt = 0 /\ wire = <<>>
  /\ held = {} /\ closes = {}
  /\ serverSubs = << >> /\ leaving = {} /\ queue = <<>>
  /\ told = [c \in Channels |-> "unsubscribed"]
  /\ seen = [c \in Channels |-> Unknown] /\ reloads = [c \in Channels |-> 0]
  /\ strayed = FALSE /\ late = FALSE
  /\ calls = 0 /\ changes = 0 /\ faults = 0

ApplicationCalls == calls < MaxCalls /\ calls' = calls + 1 /\ UNCHANGED <<changes, faults>>
Change == changes < MaxChanges /\ changes' = changes + 1 /\ UNCHANGED <<calls, faults>>
Fault == faults < MaxFaults /\ faults' = faults + 1 /\ UNCHANGED <<calls, changes>>
NoFault == UNCHANGED budget

------------------------------------------------------------------------------
(* Variants of the definitions below with a bug planted; used to check that *)
(* the properties notice it.                                                *)

FaultyStored(c, sub) ==
  IF c \in DOMAIN serverSubs /\ ~(sub.epoch # NoEpoch \/ serverSubs[c][1] = NoEpoch)
  THEN serverSubs[c]
  ELSE <<sub.epoch, IF sub.pubs = <<>> THEN sub.offset ELSE sub.pubs[Len(sub.pubs)][2]>>
FaultyIsConnectedAttempt(n) == state = "connected"

------------------------------------------------------------------------------
(* Parts of several actions                                                 *)

IsConnectedAttempt(n) == state = "connected" /\ connectAttempt = n

\* An empty epoch keeps a position already known ...
TakesPosition(c, sub) == sub.epoch # NoEpoch \/ serverSubs[c][1] = NoEpoch

\* ... and the offset of a reply with publications comes with the last of them.
Stored(c, sub) ==
  IF c \notin DOMAIN serverSubs THEN <<sub.epoch, sub.offset>>
  ELSE IF ~TakesPosition(c, sub) THEN serverSubs[c]
  ELSE <<sub.epoch, IF sub.pubs = <<>> THEN sub.offset ELSE serverSubs[c][2]>>

\* The position after a publication; an epoch is adopted while none is known.
Adopted(c, id) ==
  <<IF serverSubs[c][1] = NoEpoch THEN id[1] ELSE serverSubs[c][1], id[2]>>

With(c, position) ==
  [d \in DOMAIN serverSubs \cup {c} |-> IF d = c THEN position ELSE serverSubs[d]]
Without(cs) == [d \in DOMAIN serverSubs \ cs |-> serverSubs[d]]

\* The channels of the map that a connect reply does not have.
Absent(subs) == DOMAIN serverSubs \ DOMAIN subs

\* A recovered publication is delivered in the connection that recovered it.
MayDeliver(c, n) == c \in DOMAIN serverSubs /\ IsConnectedAttempt(n)

\* A reader waits for its last event before it goes on, and handles messages in turn.
EventsRan(n) == \A i \in 1..Len(queue) : queue[i].reader # n
ReaderFree(n) == EventsRan(n) /\ \A h \in held : h.connection # n

Event(kind, channels, reader) ==
  [kind |-> kind, channels |-> channels, reader |-> reader, pubs |-> <<>>,
   position |-> Unknown, stale |-> FALSE]

Stale(h) == h.connection # connectAttempt \/ state # "connected"

\* The connection is gone, for the client and for the server.
LinkEnds == wire' = <<>> /\ serverUp' = FALSE

------------------------------------------------------------------------------
(* Calls of the application                                                 *)

Connect ==
  /\ ApplicationCalls
  /\ state = "disconnected" /\ state' = "connecting"
  /\ UNCHANGED <<server, serverUp, connectAttempt, wire, held, closes, serverSubs, leaving,
                 queue, application, strayed, late>>

\* A teardown reports every server-side subscription.
Reported(cs) == cs
Subscribing ==
  queue' = Append(queue, Event("subscribing", Reported(DOMAIN serverSubs), 0))

Disconnect ==
  /\ ApplicationCalls
  /\ state \notin {"disconnected", "closed"} /\ state' = "disconnected"
  /\ connectAttempt' = connectAttempt + 1
  /\ LinkEnds
  /\ IF state = "connected" THEN Subscribing ELSE UNCHANGED queue
  /\ UNCHANGED <<server, held, closes, serverSubs, leaving, application, strayed, late>>

\* moveToClosed ends the connection ...
Close ==
  /\ ApplicationCalls
  /\ state # "closed" /\ state' = "closed"
  /\ connectAttempt' = connectAttempt + 1
  /\ LinkEnds
  /\ leaving' = DOMAIN serverSubs
  /\ UNCHANGED <<server, held, closes, serverSubs, queue, application, strayed, late>>

\* ... and reports the unsubscribes without the lock.
ReportClosed ==
  /\ leaving # {} /\ leaving' = {}
  /\ queue' = Append(queue, Event("unsubscribed", leaving, 0))
  /\ NoFault
  /\ UNCHANGED <<server, serverUp, connection, wire, held, closes, serverSubs, application,
                 strayed, late>>

------------------------------------------------------------------------------
(* Connecting                                                               *)

\* The server can recover what is asked for.
CanRecover(c) ==
  /\ c \in Recoverable \cap DOMAIN serverSubs
  /\ serverSubs[c][1] \in {NoEpoch, ServerEpoch(c)}
  /\ serverSubs[c][2] \in floor[c]..Top(c)

Missed(c) == [i \in 1..(Top(c) - serverSubs[c][2]) |-> <<ServerEpoch(c), serverSubs[c][2] + i>>]

Recovered(c) ==
  [kind |-> "recovered", epoch |-> ServerEpoch(c), offset |-> serverSubs[c][2],
   pubs |-> Missed(c)]
Unrecovered(c) ==
  [kind |-> "unrecovered", epoch |-> ServerPosition(c)[1], offset |-> ServerPosition(c)[2],
   pubs |-> <<>>]
NoPosition ==
  [kind |-> "noPosition", epoch |-> NoEpoch, offset |-> 0, pubs |-> <<>>]

\* The connect command has the positions, and the server answers with its
\* subscriptions; a replica that lags behind knows no position.
Open ==
  /\ state = "connecting" /\ state' = "opening"
  /\ connectAttempt' = connectAttempt + 1
  /\ serverUp' = TRUE
  /\ \E lagging \in SUBSET (Recoverable \cap serverSide) :
       /\ IF lagging = {} THEN NoFault ELSE Fault
       /\ wire' = <<[type |-> "connect",
                     subs |-> [c \in serverSide |->
                                 IF c \in lagging THEN NoPosition
                                 ELSE IF CanRecover(c) THEN Recovered(c)
                                 ELSE Unrecovered(c)]]>>
  /\ UNCHANGED <<server, held, closes, serverSubs, leaving, queue, application, strayed, late>>

\* The reader takes a message: its transport is current.
Take ==
  /\ wire # <<>> /\ ReaderFree(connectAttempt)
  /\ held' = held \cup {[connection |-> connectAttempt, msg |-> Head(wire), started |-> FALSE,
                         todo |-> IF Head(wire).type = "connect"
                                  THEN DOMAIN Head(wire).subs ELSE {}]}
  /\ wire' = Tail(wire)
  /\ NoFault
  /\ UNCHANGED <<server, serverUp, connection, closes, serverSubs, leaving, queue,
                 application, strayed, late>>

Done(h) == held' = held \ {h}
Continue(h, todo) == held' = (held \ {h}) \cup {[h EXCEPT !.started = TRUE, !.todo = todo]}

\* The connect reply makes the client connected, if it is of the current attempt ...
HandleConnect(h) ==
  /\ h.msg.type = "connect" /\ ~h.started
  /\ IF state = "opening" /\ connectAttempt = h.connection
     THEN /\ state' = "connected"
          /\ queue' = Append(queue, Event("connected", {}, h.connection))
          /\ Continue(h, h.todo)
     ELSE Done(h) /\ UNCHANGED <<state, queue>>
  /\ NoFault
  /\ UNCHANGED <<server, serverUp, connectAttempt, wire, closes, serverSubs, leaving,
                 application, strayed, late>>

\* ... then its subscriptions are stored one after the other, each with a lock hold of
\* its own and a wait for the handlers, which may end the connection.
StoreSub(h, c) ==
  /\ h.msg.type = "connect" /\ h.started /\ EventsRan(h.connection) /\ c \in h.todo
  /\ IF IsConnectedAttempt(h.connection)
     THEN LET sub == h.msg.subs[c]
              subscribed == [Event(sub.kind, {c}, h.connection)
                               EXCEPT !.position = <<sub.epoch, sub.offset>>]
              recovered == [Event("publications", {c}, h.connection) EXCEPT !.pubs = sub.pubs]
          IN  /\ serverSubs' = With(c, Stored(c, sub))
              /\ queue' = queue \o IF sub.pubs = <<>> THEN <<subscribed>>
                                                     ELSE <<subscribed, recovered>>
              /\ Continue(h, h.todo \ {c})
     ELSE Done(h) /\ UNCHANGED <<serverSubs, queue>>
  /\ NoFault
  /\ UNCHANGED <<server, serverUp, connection, wire, closes, leaving, application, strayed, late>>

\* ... and at last those it does not have are removed.
RemoveAbsent(h) ==
  /\ h.msg.type = "connect" /\ h.started /\ EventsRan(h.connection) /\ h.todo = {}
  /\ LET gone == Absent(h.msg.subs) IN
     IF IsConnectedAttempt(h.connection) /\ gone # {}
     THEN /\ serverSubs' = Without(gone)
          /\ queue' = Append(queue, Event("unsubscribed", gone, h.connection))
     ELSE UNCHANGED <<serverSubs, queue>>
  /\ Done(h)
  /\ NoFault
  /\ UNCHANGED <<server, serverUp, connection, wire, closes, leaving, application, strayed, late>>

------------------------------------------------------------------------------
(* Pushes                                                                   *)

HandleServerPublication(h) ==
  /\ h.msg.type = "pub"
  /\ LET c == h.msg.channel IN
     IF c \in DOMAIN serverSubs
     THEN /\ serverSubs' = With(c, Adopted(c, h.msg.position))
          /\ queue' = Append(queue, [Event("publication", {c}, h.connection)
                                       EXCEPT !.pubs = <<h.msg.position>>, !.stale = Stale(h)])
          /\ strayed' = (strayed \/ Stale(h))
     ELSE UNCHANGED <<serverSubs, queue, strayed>>
  /\ Done(h)
  /\ NoFault
  /\ UNCHANGED <<server, serverUp, connection, wire, closes, leaving, application, late>>

HandleServerSub(h) ==
  /\ h.msg.type = "subscribe"
  /\ LET c == h.msg.channel IN
     IF c \notin DOMAIN serverSubs
     THEN /\ serverSubs' = With(c, h.msg.position)
          /\ queue' = Append(queue, [Event("unrecovered", {c}, h.connection)
                                       EXCEPT !.position = h.msg.position])
          /\ strayed' = (strayed \/ Stale(h))
     ELSE UNCHANGED <<serverSubs, queue, strayed>>
  /\ Done(h)
  /\ NoFault
  /\ UNCHANGED <<server, serverUp, connection, wire, closes, leaving, application, late>>

HandleServerUnsub(h) ==
  /\ h.msg.type = "unsubscribe"
  /\ LET c == h.msg.channel IN
     IF c \in DOMAIN serverSubs
     THEN /\ serverSubs' = Without({c})
          /\ queue' = Append(queue, Event("unsubscribed", {c}, h.connection))
          /\ strayed' = (strayed \/ Stale(h))
     ELSE UNCHANGED <<serverSubs, queue, strayed>>
  /\ Done(h)
  /\ NoFault
  /\ UNCHANGED <<server, serverUp, connection, wire, closes, leaving, application, late>>

HandlePush(h) == HandleServerPublication(h) \/ HandleServerSub(h) \/ HandleServerUnsub(h)

------------------------------------------------------------------------------
(* The end of a connection                                                  *)

\* moveToConnectingFrom
MoveToConnecting ==
  /\ state' = "connecting"
  /\ connectAttempt' = IF state = "opening" THEN connectAttempt + 1 ELSE connectAttempt
  /\ LinkEnds
  /\ IF state = "connected" THEN Subscribing ELSE UNCHANGED queue

ConnectionLost ==
  /\ Fault
  /\ state \in {"opening", "connected"}
  /\ MoveToConnecting
  /\ UNCHANGED <<server, held, closes, serverSubs, leaving, application, strayed, late>>

\* The server closes the transport with state invalidated, which the reader gets to
\* after everything else: the client looks whether the transport is current ...
Invalidated ==
  /\ Fault
  /\ serverUp /\ serverUp' = FALSE
  /\ state = "connected" /\ wire = <<>> /\ ReaderFree(connectAttempt)
  /\ closes' = closes \cup {<<connectAttempt, "invalidate">>}
  /\ UNCHANGED <<server, connection, wire, held, serverSubs, leaving, queue, application,
                 strayed, late>>

\* ... gives every subscription a position that cannot be recovered from ...
InvalidateConnectionState(n) ==
  /\ <<n, "invalidate">> \in closes
  /\ closes' = (closes \ {<<n, "invalidate">>}) \cup {<<n, "move">>}
  /\ serverSubs' = [c \in DOMAIN serverSubs |-> <<InvalidatedEpoch, 0>>]
  /\ late' = (late \/ (n # connectAttempt /\ state \in {"opening", "connected"}))
  /\ NoFault
  /\ UNCHANGED <<server, serverUp, connection, wire, held, leaving, queue, application,
                 strayed>>

\* ... and then moves to connecting, if the transport is still current.
CloseReported(n) ==
  /\ <<n, "move">> \in closes
  /\ closes' = closes \ {<<n, "move">>}
  /\ IF n = connectAttempt /\ state \in {"opening", "connected"}
     THEN MoveToConnecting
     ELSE UNCHANGED <<serverUp, connection, wire, queue>>
  /\ NoFault
  /\ UNCHANGED <<server, held, serverSubs, leaving, application, strayed, late>>

------------------------------------------------------------------------------
(* The server                                                               *)

Push(type, c, position) ==
  wire' = IF serverUp /\ c \in serverSide
          THEN Append(wire, [type |-> type, channel |-> c, position |-> position])
          ELSE wire

Publish(c) ==
  /\ c \in Recoverable /\ Top(c) < MaxPublished
  /\ tops' = [tops EXCEPT ![c][ServerEpoch(c)] = @ + 1]
  /\ Push("pub", c, <<ServerEpoch(c), Top(c) + 1>>)
  /\ NoFault
  /\ UNCHANGED <<floor, serverSide, serverUp, connection, held, closes, serverSubs, leaving,
                 queue, application, strayed, late>>

ServerSubscribes(c) ==
  /\ Change
  /\ c \notin serverSide /\ serverSide' = serverSide \cup {c}
  /\ wire' = IF serverUp
             THEN Append(wire, [type |-> "subscribe", channel |-> c,
                                position |-> ServerPosition(c)])
             ELSE wire
  /\ UNCHANGED <<tops, floor, serverUp, connection, held, closes, serverSubs, leaving, queue,
                 application, strayed, late>>

ServerUnsubscribes(c) ==
  /\ Change
  /\ c \in serverSide /\ serverSide' = serverSide \ {c}
  /\ Push("unsubscribe", c, Unknown)
  /\ UNCHANGED <<tops, floor, serverUp, connection, held, closes, serverSubs, leaving, queue,
                 application, strayed, late>>

\* The stream starts anew: the server ends a connection that is subscribed to it.
Reset(c) ==
  /\ Fault
  /\ c \in Recoverable
  /\ tops' = [tops EXCEPT ![c] = Append(@, 0)] /\ floor' = [floor EXCEPT ![c] = 0]
  /\ serverUp' = (serverUp /\ c \notin serverSide)
  /\ UNCHANGED <<serverSide, connection, wire, held, closes, serverSubs, leaving, queue,
                 application, strayed, late>>

HistoryLost(c) ==
  /\ Fault
  /\ c \in Recoverable /\ floor[c] < Top(c)
  /\ floor' = [floor EXCEPT ![c] = Top(c)]
  /\ UNCHANGED <<tops, serverSide, serverUp, connection, wire, held, closes, serverSubs,
                 leaving, queue, application, strayed, late>>

------------------------------------------------------------------------------
(* The callback queue                                                       *)

\* The connected, subscribing and unsubscribed handlers
RunNotice ==
  /\ queue # <<>> /\ Head(queue).kind \in {"connected", "subscribing", "unsubscribed"}
  /\ LET e == Head(queue) IN
     told' = [c \in Channels |-> IF c \in e.channels THEN e.kind ELSE told[c]]
  /\ queue' = Tail(queue)
  /\ NoFault
  /\ UNCHANGED <<server, serverUp, connection, wire, held, closes, serverSubs, leaving, seen,
                 reloads, strayed, late>>

\* The subscribed handler says whether publications were missed, and the position.
RunSubscribed ==
  /\ queue # <<>> /\ Head(queue).kind \in {"recovered", "unrecovered", "noPosition"}
  /\ LET e == Head(queue) IN
     \E c \in e.channels :
       /\ told' = [told EXCEPT ![c] = "subscribed"]
       /\ IF e.kind = "recovered"
          THEN UNCHANGED <<seen, reloads>>
          ELSE /\ seen' = [seen EXCEPT ![c] = e.position]
               /\ reloads' = [reloads EXCEPT ![c] = @ + 1]
  /\ queue' = Tail(queue)
  /\ NoFault
  /\ UNCHANGED <<server, serverUp, connection, wire, held, closes, serverSubs, leaving,
                 strayed, late>>

\* Nothing is promised of a publication handled after its connection ended: it counts
\* as a reload.
RunPublication ==
  /\ queue # <<>> /\ Head(queue).kind = "publication"
  /\ LET e == Head(queue) IN
     \E c \in e.channels :
       /\ seen' = [seen EXCEPT ![c] = IF e.stale THEN Unknown ELSE e.pubs[1]]
       /\ reloads' = IF e.stale THEN [reloads EXCEPT ![c] = @ + 1] ELSE reloads
  /\ queue' = Tail(queue)
  /\ NoFault
  /\ UNCHANGED <<server, serverUp, connection, wire, held, closes, serverSubs, leaving, told,
                 strayed, late>>

\* The entry that delivers recovered publications, one by one.
RunRecovered ==
  /\ queue # <<>> /\ Head(queue).kind = "publications"
  /\ LET e == Head(queue) IN
     \E c \in e.channels :
       IF MayDeliver(c, e.reader)
       THEN /\ serverSubs' = With(c, Adopted(c, e.pubs[1]))
            /\ seen' = [seen EXCEPT ![c] = e.pubs[1]]
            /\ queue' = IF Len(e.pubs) = 1 THEN Tail(queue)
                        ELSE <<[e EXCEPT !.pubs = Tail(e.pubs)]>> \o Tail(queue)
       ELSE queue' = Tail(queue) /\ UNCHANGED <<serverSubs, seen>>
  /\ NoFault
  /\ UNCHANGED <<server, serverUp, connection, wire, held, closes, leaving, told, reloads,
                 strayed, late>>

------------------------------------------------------------------------------
Next ==
  \/ Connect \/ Disconnect \/ Close \/ ReportClosed
  \/ Open \/ Take
  \/ \E h \in held :
       \/ HandleConnect(h) \/ (\E c \in h.todo : StoreSub(h, c)) \/ RemoveAbsent(h)
       \/ HandlePush(h)
  \/ ConnectionLost \/ Invalidated
  \/ \E n \in 1..connectAttempt : InvalidateConnectionState(n) \/ CloseReported(n)
  \/ \E c \in Channels :
       \/ Publish(c) \/ ServerSubscribes(c) \/ ServerUnsubscribes(c)
       \/ Reset(c) \/ HistoryLost(c)
  \/ RunNotice \/ RunSubscribed \/ RunPublication \/ RunRecovered

Spec == Init /\ [][Next]_vars

------------------------------------------------------------------------------
(* Properties *)

Epochs == 0..2 * (MaxFaults + 1)
Positions == (Epochs \cup {InvalidatedEpoch}) \X (0..MaxPublished)

TypeOK ==
  /\ serverSide \subseteq Channels /\ serverUp \in BOOLEAN
  /\ state \in {"disconnected", "connecting", "opening", "connected", "closed"}
  /\ connectAttempt \in Nat
  /\ DOMAIN serverSubs \subseteq Channels
  /\ \A c \in DOMAIN serverSubs : serverSubs[c] \in Positions
  /\ \A h \in held : h.connection \in 1..connectAttempt /\ h.todo \subseteq Channels
  /\ closes \subseteq (1..connectAttempt) \X {"invalidate", "move"}
  /\ leaving \subseteq Channels
  /\ \A i \in 1..Len(queue) :
       queue[i].channels \subseteq Channels /\ queue[i].reader \in 0..connectAttempt
  /\ told \in [Channels -> {"subscribed", "subscribing", "unsubscribed"}]
  /\ seen \in [Channels -> Positions] /\ reloads \in [Channels -> Nat]
  /\ strayed \in BOOLEAN /\ late \in BOOLEAN

\* Everything that was received has been handled, and every event has run.
Settled == queue = <<>> /\ held = {} /\ leaving = {}

\* The application's picture is the client's: a channel was last reported subscribed
\* exactly if the client is connected and has the subscription.  Events come from
\* connect replies, pushes and teardowns of several goroutines.
ToldWhatIs ==
  (Settled /\ ~strayed) =>
    \A c \in Channels :
      told[c] = "subscribed" <=> (state = "connected" /\ c \in DOMAIN serverSubs)

\* ... and the client's is the server's: a subscription left out of a connect reply
\* while the client was away is gone, none of a former connection comes back.
AgreesWithServer ==
  (Settled /\ ~strayed /\ state = "connected" /\ serverUp /\ wire = <<>>)
  => DOMAIN serverSubs = serverSide

PositionsAreSeen ==
  \A c \in Recoverable \cap DOMAIN serverSubs :
    (seen[c] # Unknown /\ serverSubs[c][1] = ServerEpoch(c)) => seen[c] = serverSubs[c]

\* Once all events have run, a position the server recovers from is where the
\* application is: publications recovered and not delivered, because a handler or
\* another goroutine ended the connection, are recovered again, no other ones are.
RecoversFromWhatWasSeen == (Settled /\ ~strayed /\ ~late) => PositionsAreSeen

\* "Recovered publications not delivered are recovered on the next connect from the
\* positions kept" (the connect reply), also when the invalidation of a connection is
\* late.
KeepsPositions == (Settled /\ ~strayed) => PositionsAreSeen

\* The application sees the stream of each channel: publications in order, none twice,
\* none lost, unless it was told (Recovered = false, or a new subscription).  Nothing is
\* promised once a push of an ended connection was applied to a newer one (an old
\* subscription's position, say), or an invalidation hit a newer one (KeepsPositions).
Promise(c) == INSTANCE Stream WITH
  published <- {p \in (1..ServerEpoch(c)) \X (1..MaxPublished) : p[2] <= tops[c][p[1]]},
  seen <- seen[c], reloads <- reloads[c]
StreamSpec ==
  /\ \A c \in Recoverable : Promise(c)!Init
  /\ [][strayed' \/ late \/ \A c \in Recoverable : [Promise(c)!Next]_(Promise(c)!vars)]_vars
==============================================================================
