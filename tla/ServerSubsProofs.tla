------------------------- MODULE ServerSubsProofs -------------------------
(***************************************************************************)
(* Proofs about ServerSubs, for any channels and any bounds: the client    *)
(* has the server-side subscriptions the server has (AgreesWithServer),    *)
(* the application was last told what the client has (ToldWhatIs), it is   *)
(* recovered from what it has seen (RecoversFromWhatWasSeen), and what it  *)
(* is handed follows the stream of every channel, an abstract              *)
(* specification (StreamSpec).                                             *)
(*                                                                         *)
(* What a connection carries for a channel are moves: each message says    *)
(* what becomes of the client's view of the channel, which is Gone, or the *)
(* position of the last thing the client knows of it.  The message in the  *)
(* reader's hands and those on the wire lead, move by move, from the       *)
(* client's view to the server's (SideFlow).  A subscribe is only sent for *)
(* a channel the client does not have by then, an unsubscribe and a        *)
(* publication only for one it has, and a publication follows the one      *)
(* before it.  The entries of the callback queue are moves too, and lead   *)
(* from what the application was last told to what the client has          *)
(* (SideTold).  Both end when a push of an ended connection was applied to *)
(* a newer one (strayed).                                                  *)
(*                                                                         *)
(* A position the server recovers from is where the application is once    *)
(* every event has run (RecoversFromWhatWasSeen), and the application      *)
(* follows the stream of every recoverable channel (StreamSpec). For this  *)
(* the entries of the queue are read as moves of the application's         *)
(* position: they lead from what it has seen to a position v, and v is     *)
(* what a subscription that can be recovered has, what a connect reply     *)
(* recovers from, and what the recovered publications not yet delivered    *)
(* follow (SideSeen). Those publications are delivered by one entry, which *)
(* moves the subscription's position itself, so it has to be the last      *)
(* entry of the queue (SideOrder); all that is sent is published by the    *)
(* server, one after the other (SideSent). This ends, too, when an         *)
(* invalidation hits a newer connection (late).                            *)
(*                                                                         *)
(* A step of a reader handles the message it holds for one channel         *)
(* (Consumes), or does nothing to it (Quiet).  SideReader and SideOpen are *)
(* what makes this true: a reader holds one message, and the connect reply *)
(* is the first of its connection.                                         *)
(***************************************************************************)
EXTENDS ServerSubs, SequenceTheorems, TLAPS

\* Positions: an epoch and an offset.
Places == Nat \X Nat

\* The next publication.
Following(p) == <<p[1], p[2] + 1>>

\* The first and the other elements of a sequence that is not empty.
LEMMA SeqFacts ==
  ASSUME NEW S, NEW s \in Seq(S), s # <<>>
  PROVE  /\ Len(s) \in Nat /\ Len(s) # 0 /\ \A i \in 1..Len(s) : s[i] \in S
         /\ Head(s) = s[1] /\ Head(s) \in S
         /\ Tail(s) \in Seq(S) /\ Len(Tail(s)) = Len(s) - 1
         /\ \A i \in 1..Len(Tail(s)) : Tail(s)[i] = s[i + 1]
OBVIOUS

\* A sequence with one more element.
LEMMA AppendFacts ==
  ASSUME NEW S, NEW s \in Seq(S), NEW x \in S
  PROVE  /\ Append(s, x) \in Seq(S) /\ Len(Append(s, x)) = Len(s) + 1 /\ Len(s) \in Nat
         /\ Append(s, x)[Len(s) + 1] = x
         /\ \A i \in 1..Len(s) : Append(s, x)[i] = s[i] /\ s[i] \in S
OBVIOUS

\* There is a connection, or one is being opened.
Linked == state \in {"opening", "connected"}

\* How a subscribe ends: with everything recovered, or not, or from a replica that
\* knows no position.
SubKinds == {"recovered", "unrecovered", "noPosition"}

\* What the application can have been told of a channel last.
Notices == {"connected", "subscribing", "unsubscribed", "subscribed"}

\* A subscription of a connect reply.
SubReplies == [kind : SubKinds, epoch : Nat, offset : Nat, pubs : Seq(Places)]

\* The subscriptions of a connect reply, by channel.
ConnectReplies == UNION {[D -> SubReplies] : D \in SUBSET Channels}

\* The messages the server sends.
SideMessages ==
  [type : {"connect"}, subs : ConnectReplies]
  \cup [type : {"pub", "subscribe", "unsubscribe"}, channel : Channels, position : Places]

\* The kinds of entries of the callback queue.
SideKinds ==
  SubKinds \cup {"connected", "subscribing", "unsubscribed", "publication", "publications"}

\* The entries of the callback queue.
SideEvents ==
  [kind : SideKinds, channels : SUBSET Channels, reader : Nat, pubs : Seq(Places),
   position : Places, stale : BOOLEAN]

\* A message in the hands of a reader.
Helds ==
  [connection : Nat \ {0}, msg : SideMessages, started : BOOLEAN, todo : SUBSET Channels]

\* Types of the server's streams and subscriptions.
StreamTypes ==
  /\ MaxPublished \in Nat
  /\ tops \in [Channels -> Seq(0..MaxPublished)] /\ \A c \in Channels : tops[c] # <<>>
  /\ floor \in [Channels -> Nat] /\ serverSide \subseteq Channels

\* Types of the connection: the server has one only while the client does.
SessionTypes ==
  /\ state \in {"disconnected", "connecting", "opening", "connected", "closed"}
  /\ connectAttempt \in Nat /\ (Linked => connectAttempt # 0)
  /\ serverUp \in BOOLEAN /\ (serverUp => Linked)

\* Types of what is on its way.  Only a connect reply is handled in several steps.
WireTypes ==
  /\ wire \in Seq(SideMessages) /\ (~Linked => wire = <<>>)
  /\ held \subseteq Helds /\ \A h \in held : h.connection <= connectAttempt
  /\ \A h \in held : IF h.msg.type = "connect"
                     THEN h.todo \subseteq DOMAIN h.msg.subs
                          /\ (~h.started => h.todo = DOMAIN h.msg.subs)
                     ELSE h.todo = {} /\ ~h.started
  /\ \A x \in closes : x[1] \in Nat /\ x[1] <= connectAttempt

\* Types of the map the client keeps: an epoch may be InvalidatedEpoch.
SubTypes ==
  /\ DOMAIN serverSubs \subseteq Channels
  /\ \A c \in DOMAIN serverSubs : serverSubs[c] \in Int \X Nat
  /\ leaving \subseteq Channels /\ (leaving # {} => state = "closed")

\* What the entries of the queue are for.
Shaped(e, n) ==
  /\ e.reader <= n
  /\ e.kind \in SubKinds \cup {"publication", "publications"} =>
       \E c \in Channels : e.channels = {c}
  /\ e.kind = "publication" => Len(e.pubs) = 1
  /\ e.kind = "publications" => e.pubs # <<>> /\ e.reader # 0

\* Types of the queue.
SideQueueTypes ==
  queue \in Seq(SideEvents) /\ \A i \in 1..Len(queue) : Shaped(queue[i], connectAttempt)

\* Types of what the application has.
ToldTypes ==
  /\ told \in [Channels -> Notices] /\ seen \in [Channels -> Places]
  /\ reloads \in [Channels -> Nat]

\* Types of the flags about the past.
PastTypes == strayed \in BOOLEAN /\ late \in BOOLEAN

\* Type correctness, by parts.
SideTypes ==
  /\ StreamTypes /\ SessionTypes /\ WireTypes /\ SubTypes /\ SideQueueTypes /\ ToldTypes
  /\ PastTypes

\* The fields of a message.
LEMMA SideMessageFields ==
  ASSUME NEW m \in SideMessages
  PROVE  /\ m.type \in {"connect", "pub", "subscribe", "unsubscribe"}
         /\ m.type = "connect" => /\ DOMAIN m.subs \subseteq Channels
                                  /\ \A c \in DOMAIN m.subs : m.subs[c] \in SubReplies
         /\ m.type # "connect" => m.channel \in Channels /\ m.position \in Places
<1>1. CASE m \in [type : {"connect"}, subs : ConnectReplies]
  <2>1. m.type = "connect" /\ m.subs \in ConnectReplies
    BY <1>1
  <2>2. PICK D \in SUBSET Channels : m.subs \in [D -> SubReplies]
    BY <2>1 DEF ConnectReplies
  <2>3. QED
    BY <2>1, <2>2
<1>2. CASE m \in [type : {"pub", "subscribe", "unsubscribe"}, channel : Channels,
                  position : Places]
  BY <1>2
<1>3. QED
  BY <1>1, <1>2 DEF SideMessages

\* A push is a message.
LEMMA PushTypes ==
  ASSUME NEW t \in {"pub", "subscribe", "unsubscribe"}, NEW c \in Channels, NEW p \in Places
  PROVE  [type |-> t, channel |-> c, position |-> p] \in SideMessages
BY DEF SideMessages

\* A connect reply is a message.
LEMMA ConnectTypes ==
  ASSUME NEW D \in SUBSET Channels, NEW f \in [D -> SubReplies]
  PROVE  [type |-> "connect", subs |-> f] \in SideMessages
<1>1. f \in ConnectReplies
  BY DEF ConnectReplies
<1>2. QED
  BY <1>1 DEF SideMessages

\* The fields of a subscription of a connect reply.
LEMMA SubReplyFields ==
  ASSUME NEW r \in SubReplies
  PROVE  r.kind \in SubKinds /\ r.epoch \in Nat /\ r.offset \in Nat /\ r.pubs \in Seq(Places)
BY DEF SubReplies

\* The fields of an entry.
LEMMA SideEventFields ==
  ASSUME NEW e \in SideEvents
  PROVE  /\ e.kind \in SideKinds /\ e.channels \subseteq Channels /\ e.reader \in Nat
         /\ e.pubs \in Seq(Places) /\ e.position \in Places /\ e.stale \in BOOLEAN
BY DEF SideEvents

\* The fields of a message in a reader's hands.
LEMMA HeldFields ==
  ASSUME NEW h \in Helds
  PROVE  /\ h.connection \in Nat \ {0} /\ h.msg \in SideMessages /\ h.started \in BOOLEAN
         /\ h.todo \subseteq Channels
BY DEF Helds

\* The entries of the queue, written out.
Entry(kind, cs, n, pubs, p, stale) ==
  [kind |-> kind, channels |-> cs, reader |-> n, pubs |-> pubs, position |-> p,
   stale |-> stale]

\* An entry written out has its type.
LEMMA EntryTypes ==
  ASSUME NEW k \in SideKinds, NEW cs \in SUBSET Channels, NEW n \in Nat,
         NEW pubs \in Seq(Places),
         NEW p \in Places, NEW stale \in BOOLEAN
  PROVE  Entry(k, cs, n, pubs, p, stale) \in SideEvents
BY DEF Entry, SideEvents

\* Event is an entry without publications.
LEMMA EntryPlain ==
  ASSUME NEW k, NEW cs, NEW n
  PROVE  Event(k, cs, n) = Entry(k, cs, n, <<>>, Unknown, FALSE)
BY DEF Event, Entry

\* Event with a position.
LEMMA EntryAt ==
  ASSUME NEW k, NEW cs, NEW n, NEW v
  PROVE  [Event(k, cs, n) EXCEPT !.position = v] = Entry(k, cs, n, <<>>, v, FALSE)
<1> DEFINE f == FALSE
<1> DEFINE q == <<>>
<1> HIDE DEF f, q
<1>1. Event(k, cs, n) = [kind |-> k, channels |-> cs, reader |-> n, pubs |-> q,
                         position |-> Unknown, stale |-> f]
  BY DEF Event, f, q
<1>2. [Event(k, cs, n) EXCEPT !.position = v]
      = [kind |-> k, channels |-> cs, reader |-> n, pubs |-> q, position |-> v, stale |-> f]
  BY <1>1
<1>3. QED
  BY <1>2 DEF Entry, f, q

\* Event with publications.
LEMMA EntryOf ==
  ASSUME NEW k, NEW cs, NEW n, NEW v
  PROVE  [Event(k, cs, n) EXCEPT !.pubs = v] = Entry(k, cs, n, v, Unknown, FALSE)
<1> DEFINE f == FALSE
<1> DEFINE q == <<>>
<1> HIDE DEF f, q
<1>1. Event(k, cs, n) = [kind |-> k, channels |-> cs, reader |-> n, pubs |-> q,
                         position |-> Unknown, stale |-> f]
  BY DEF Event, f, q
<1>2. [Event(k, cs, n) EXCEPT !.pubs = v]
      = [kind |-> k, channels |-> cs, reader |-> n, pubs |-> v, position |-> Unknown,
         stale |-> f]
  BY <1>1
<1>3. QED
  BY <1>2 DEF Entry, f

\* An entry of recovered publications without the first of them.
LEMMA EntryRest ==
  ASSUME NEW e \in SideEvents, e.pubs # <<>>
  PROVE  LET r == [e EXCEPT !.pubs = Tail(e.pubs)] IN
         /\ r \in SideEvents /\ r.pubs = Tail(e.pubs) /\ r.kind = e.kind
         /\ r.channels = e.channels /\ r.reader = e.reader /\ r.stale = e.stale
         /\ r.position = e.position
<1> DEFINE r == [e EXCEPT !.pubs = Tail(e.pubs)]
<1>1. Tail(e.pubs) \in Seq(Places)
  BY SideEventFields
<1>2. r \in SideEvents
  BY <1>1, Zenon DEF SideEvents
<1>3. QED
  BY <1>2 DEF SideEvents

\* Nothing these proofs look at changes.
SideSame ==
  /\ UNCHANGED <<tops, serverSide, serverUp, state, connectAttempt, wire, held, serverSubs>>
  /\ UNCHANGED <<leaving, queue, told, seen, reloads, strayed, late>>

\* Steps that only end the report of a transport, lose history, or stutter.
Idles == SideSame /\ closes' \subseteq closes
    /\ (floor' = floor \/ \E c \in Channels : HistoryLost(c))

\* Steps that end the connection.
Ends ==
  \/ Disconnect \/ ConnectionLost
  \/ \E n \in Nat : CloseReported(n) /\ n = connectAttempt /\ Linked

\* What a reader does with a message.
Handles(h) ==
  HandleConnect(h) \/ (\E c \in h.todo : StoreSub(h, c)) \/ RemoveAbsent(h) \/ HandlePush(h)

\* What the goroutine of the callback queue does.
Runs == RunNotice \/ RunSubscribed \/ RunPublication \/ RunRecovered

\* What the server does to a channel, reset and lost history aside.
Publishes(c) == Publish(c) \/ ServerSubscribes(c) \/ ServerUnsubscribes(c)

\* The steps of the system, grouped.
LEMMA SideCases ==
  ASSUME [Next]_vars
  PROVE  \/ Connect \/ Ends \/ Close \/ ReportClosed \/ Open \/ Take
         \/ \E h \in held : Handles(h)
         \/ Invalidated \/ \E n \in Nat : InvalidateConnectionState(n)
         \/ \E c \in Channels : Publishes(c) \/ Reset(c)
         \/ Runs \/ Idles
<1>1. CASE Next
  <2>1. ASSUME NEW n \in 1..connectAttempt, CloseReported(n)
        PROVE  Ends \/ Idles
    <3>1. n \in Nat
      OBVIOUS
    <3>2. CASE n = connectAttempt /\ Linked
      BY <2>1, <3>1, <3>2 DEF Ends
    <3>3. CASE ~(n = connectAttempt /\ Linked)
      <4>1. UNCHANGED <<serverUp, connection, wire, queue>>
        BY <2>1, <3>3 DEF CloseReported, Linked
      <4>2. QED
        BY <2>1, <4>1 DEF CloseReported, Idles, SideSame, connection, server, application
    <3>4. QED
      BY <3>2, <3>3
  <2>2. ASSUME NEW c \in Channels, HistoryLost(c)
        PROVE  Idles
    BY <2>2 DEF HistoryLost, Idles, SideSame, connection, application
  <2>3. QED
    BY <1>1, <2>1, <2>2 DEF Next, Handles, Runs, Publishes, Ends
<1>2. CASE UNCHANGED vars
  BY <1>2 DEF vars, server, connection, application, Idles, SideSame
<1>3. QED
  BY <1>1, <1>2

\* What the end of a connection does: a connected client reports it to the application.
LEMMA EndFacts ==
  ASSUME Ends
  PROVE  /\ state # "closed" /\ state' \in {"disconnected", "connecting"}
         /\ wire' = <<>> /\ serverUp' = FALSE
         /\ connectAttempt' \in {connectAttempt, connectAttempt + 1}
         /\ closes' \subseteq closes
         /\ queue' = IF state = "connected"
                     THEN Append(queue, Entry("subscribing", DOMAIN serverSubs, 0, <<>>,
                                              Unknown, FALSE))
                     ELSE queue
         /\ UNCHANGED <<tops, floor, serverSide, held, serverSubs>>
         /\ UNCHANGED <<leaving, told, seen, reloads, strayed, late>>
<1>1. MoveToConnecting => /\ state' = "connecting" /\ wire' = <<>> /\ serverUp' = FALSE
                          /\ connectAttempt' \in {connectAttempt, connectAttempt + 1}
                          /\ IF state = "connected" THEN Subscribing ELSE queue' = queue
  BY DEF MoveToConnecting, LinkEnds
<1>2. Event("subscribing", DOMAIN serverSubs, 0)
      = Entry("subscribing", DOMAIN serverSubs, 0, <<>>, Unknown, FALSE)
  BY EntryPlain
<1>3. Subscribing =>
        queue' = Append(queue, Entry("subscribing", DOMAIN serverSubs, 0, <<>>, Unknown, FALSE))
  BY <1>2 DEF Subscribing, Reported
<1>4. CASE Disconnect
  BY <1>3, <1>4 DEF Disconnect, LinkEnds, server, application
<1>5. CASE ConnectionLost
  BY <1>1, <1>3, <1>5 DEF ConnectionLost, server, application
<1>6. CASE \E n \in Nat : CloseReported(n) /\ n = connectAttempt /\ Linked
  BY <1>1, <1>3, <1>6 DEF CloseReported, Linked, server, application
<1>7. QED
  BY <1>4, <1>5, <1>6 DEF Ends

\* The shared part of what a reader does.
LEMMA HandledFrame ==
  ASSUME NEW h \in held, Handles(h)
  PROVE  /\ UNCHANGED <<tops, floor, serverSide, serverUp, connectAttempt, wire, closes>>
         /\ UNCHANGED <<leaving, told, seen, reloads, late>>
         /\ state' = state \/ HandleConnect(h)
         /\ strayed' = strayed \/ HandlePush(h)
BY DEF Handles, HandleConnect, StoreSub, RemoveAbsent, HandlePush,
       HandleServerPublication, HandleServerSub, HandleServerUnsub, connection, server,
       application

\* A connect reply whose handling goes on.
LEMMA Going ==
  ASSUME NEW h \in Helds, NEW D \in SUBSET Channels
  PROVE  LET g == [h EXCEPT !.started = TRUE, !.todo = D] IN
         g \in Helds /\ g.connection = h.connection /\ g.msg = h.msg /\ g.started = TRUE
             /\ g.todo = D
<1> DEFINE g == [h EXCEPT !.started = TRUE, !.todo = D]
<1>1. g \in Helds
  BY Zenon DEF Helds
<1>2. QED
  BY <1>1 DEF Helds

\* What the first step of a connect reply does.
LEMMA ConnectFacts ==
  ASSUME NEW h \in held, h \in Helds, HandleConnect(h)
  PROVE  /\ h.msg.type = "connect" /\ ~h.started
         /\ UNCHANGED <<serverSubs, strayed>>
         /\ IF state = "opening" /\ connectAttempt = h.connection
            THEN /\ state' = "connected"
                 /\ queue' = Append(queue, Entry("connected", {}, h.connection, <<>>,
                    Unknown, FALSE))
                 /\ \E g \in Helds : /\ held' = (held \ {h}) \cup {g}
                                     /\ g.connection = h.connection /\ g.msg = h.msg
                                     /\ g.started = TRUE /\ g.todo = h.todo
            ELSE held' = held \ {h} /\ UNCHANGED <<state, queue>>
<1>1. h.todo \in SUBSET Channels
  BY HeldFields
<1>2. CASE state = "opening" /\ connectAttempt = h.connection
  <2>1. Continue(h, h.todo) /\ queue' = Append(queue, Event("connected", {}, h.connection))
    BY <1>2 DEF HandleConnect
  <2>2. queue' = Append(queue, Entry("connected", {}, h.connection, <<>>, Unknown, FALSE))
    BY <2>1, EntryPlain
  <2>3. QED
    BY <1>1, <1>2, <2>1, <2>2, Going DEF HandleConnect, Continue
<1>3. CASE ~(state = "opening" /\ connectAttempt = h.connection)
  BY <1>3 DEF HandleConnect, Done
<1>4. QED
  BY <1>2, <1>3

\* What storing a subscription of a connect reply does.
LEMMA StoreFacts ==
  ASSUME NEW h \in held, h \in Helds, NEW c, StoreSub(h, c), queue \in Seq(SideEvents)
  PROVE  LET sub == h.msg.subs[c]
             e == Entry(sub.kind, {c}, h.connection, <<>>, <<sub.epoch, sub.offset>>, FALSE)
             f == Entry("publications", {c}, h.connection, sub.pubs, Unknown, FALSE)
         IN
         /\ h.msg.type = "connect" /\ h.started /\ EventsRan(h.connection) /\ c \in h.todo
         /\ UNCHANGED <<state, strayed>>
         /\ IF IsConnectedAttempt(h.connection)
            THEN /\ serverSubs' = With(c, Stored(c, sub))
                 /\ queue' = queue \o (IF sub.pubs = <<>> THEN <<e>> ELSE <<e, f>>)
                 /\ \E g \in Helds : /\ held' = (held \ {h}) \cup {g}
                                     /\ g.connection = h.connection /\ g.msg = h.msg
                                     /\ g.started = TRUE /\ g.todo = h.todo \ {c}
            ELSE held' = held \ {h} /\ UNCHANGED <<serverSubs, queue>>
<1> DEFINE sub == h.msg.subs[c]
           e == Entry(sub.kind, {c}, h.connection, <<>>, <<sub.epoch, sub.offset>>, FALSE)
           f == Entry("publications", {c}, h.connection, sub.pubs, Unknown, FALSE)
<1>1. h.todo \ {c} \in SUBSET Channels
  BY HeldFields
<1>2. [Event(sub.kind, {c}, h.connection) EXCEPT !.position = <<sub.epoch, sub.offset>>] = e
  BY EntryAt, Zenon
<1>3. [Event("publications", {c}, h.connection) EXCEPT !.pubs = sub.pubs] = f
  BY EntryOf, Zenon
<1>4. CASE IsConnectedAttempt(h.connection)
  <2>1. queue' = queue \o (IF sub.pubs = <<>> THEN <<e>> ELSE <<e, f>>)
    BY <1>2, <1>3, <1>4, Zenon DEF StoreSub
  <2>2. serverSubs' = With(c, Stored(c, sub)) /\ Continue(h, h.todo \ {c})
    BY <1>4 DEF StoreSub
  <2>3. \E g \in Helds : /\ held' = (held \ {h}) \cup {g}
                         /\ g.connection = h.connection /\ g.msg = h.msg
                         /\ g.started = TRUE /\ g.todo = h.todo \ {c}
    BY <1>1, <2>2, Going DEF Continue
  <2>4. h.msg.type = "connect" /\ h.started /\ EventsRan(h.connection) /\ c \in h.todo
            /\ UNCHANGED <<state, strayed>>
    BY DEF StoreSub, connection
  <2> HIDE DEF e, f
  <2>5. QED
    BY <1>4, <2>1, <2>2, <2>3, <2>4 DEF e, f
<1>5. CASE ~IsConnectedAttempt(h.connection)
  BY <1>5 DEF StoreSub, Done, connection
<1>6. QED
  BY <1>4, <1>5

\* What removing the subscriptions a connect reply does not have does.
LEMMA RemoveFacts ==
  ASSUME NEW h \in held, RemoveAbsent(h)
  PROVE  LET gone == Absent(h.msg.subs) IN
         /\ h.msg.type = "connect" /\ h.started /\ EventsRan(h.connection) /\ h.todo = {}
         /\ held' = held \ {h} /\ UNCHANGED <<state, strayed>>
         /\ IF IsConnectedAttempt(h.connection) /\ gone # {}
            THEN /\ serverSubs' = Without(gone)
                 /\ queue' = Append(queue, Entry("unsubscribed", gone, h.connection, <<>>,
                                                 Unknown, FALSE))
            ELSE UNCHANGED <<serverSubs, queue>>
<1>1. Event("unsubscribed", Absent(h.msg.subs), h.connection)
      = Entry("unsubscribed", Absent(h.msg.subs), h.connection, <<>>, Unknown, FALSE)
  BY EntryPlain
<1>2. QED
  BY <1>1 DEF RemoveAbsent, Done, connection

\* What handling a push does.
LEMMA PushFacts ==
  ASSUME NEW h \in held, HandlePush(h)
  PROVE  LET c == h.msg.channel
             p == h.msg.position
             n == h.connection
         IN
         /\ h.msg.type \in {"pub", "subscribe", "unsubscribe"}
         /\ held' = held \ {h} /\ UNCHANGED state
         /\ \/ /\ h.msg.type = "pub" /\ c \in DOMAIN serverSubs
               /\ serverSubs' = With(c, Adopted(c, p)) /\ strayed' = (strayed \/ Stale(h))
               /\ queue' = Append(queue, Entry("publication", {c}, n, <<p>>, Unknown, Stale(h)))
            \/ /\ h.msg.type = "subscribe" /\ c \notin DOMAIN serverSubs
               /\ serverSubs' = With(c, p) /\ strayed' = (strayed \/ Stale(h))
               /\ queue' = Append(queue, Entry("unrecovered", {c}, n, <<>>, p, FALSE))
            \/ /\ h.msg.type = "unsubscribe" /\ c \in DOMAIN serverSubs
               /\ serverSubs' = Without({c}) /\ strayed' = (strayed \/ Stale(h))
               /\ queue' = Append(queue, Entry("unsubscribed", {c}, n, <<>>, Unknown, FALSE))
            \/ /\ c \in DOMAIN serverSubs <=> h.msg.type = "subscribe"
               /\ UNCHANGED <<serverSubs, queue, strayed>>
<1> DEFINE c == h.msg.channel
           p == h.msg.position
           n == h.connection
<1>1. [Event("publication", {c}, n) EXCEPT !.pubs = <<p>>, !.stale = Stale(h)]
      = Entry("publication", {c}, n, <<p>>, Unknown, Stale(h))
  <2> DEFINE w == Stale(h)
             g == [Event("publication", {c}, n) EXCEPT !.pubs = <<p>>]
  <2>1. g = Entry("publication", {c}, n, <<p>>, Unknown, FALSE)
    BY EntryOf, Zenon
  <2>2. [g EXCEPT !.stale = w] = Entry("publication", {c}, n, <<p>>, Unknown, w)
    <3> DEFINE f == FALSE
               q == <<p>>
               z == {c}
               y == n
    <3>1. g = [kind |-> "publication", channels |-> z, reader |-> y, pubs |-> q,
               position |-> Unknown, stale |-> f]
      BY <2>1 DEF Entry
    <3> HIDE DEF g, f, q, z, y, w
    <3>2. [g EXCEPT !.stale = w]
          = [kind |-> "publication", channels |-> z, reader |-> y, pubs |-> q,
             position |-> Unknown, stale |-> w]
      BY <3>1
    <3>3. QED
      BY <3>2 DEF Entry, q, z, y
  <2>3. QED
    BY <2>2
<1>2. [Event("unrecovered", {c}, n) EXCEPT !.position = p]
      = Entry("unrecovered", {c}, n, <<>>, p, FALSE)
  BY EntryAt, Zenon
<1>3. Event("unsubscribed", {c}, n) = Entry("unsubscribed", {c}, n, <<>>, Unknown, FALSE)
  BY EntryPlain
<1>4. CASE HandleServerPublication(h)
  <2>1. CASE c \in DOMAIN serverSubs
    <3>1. /\ serverSubs' = With(c, Adopted(c, p)) /\ strayed' = (strayed \/ Stale(h))
          /\ h.msg.type = "pub" /\ held' = held \ {h} /\ UNCHANGED state
      BY <1>4, <2>1 DEF HandleServerPublication, Done, connection
    <3>2. queue' = Append(queue, Entry("publication", {c}, n, <<p>>, Unknown, Stale(h)))
      BY <1>1, <1>4, <2>1, Zenon DEF HandleServerPublication
    <3>3. QED
      BY <2>1, <3>1, <3>2
  <2>2. CASE c \notin DOMAIN serverSubs
    BY <1>4, <2>2 DEF HandleServerPublication, Done, connection
  <2>3. QED
    BY <2>1, <2>2
<1>5. CASE HandleServerSub(h)
  <2>1. CASE c \notin DOMAIN serverSubs
    <3>1. /\ serverSubs' = With(c, p) /\ strayed' = (strayed \/ Stale(h))
          /\ h.msg.type = "subscribe" /\ held' = held \ {h} /\ UNCHANGED state
      BY <1>5, <2>1 DEF HandleServerSub, Done, connection
    <3>2. queue' = Append(queue, Entry("unrecovered", {c}, n, <<>>, p, FALSE))
      BY <1>2, <1>5, <2>1, Zenon DEF HandleServerSub
    <3>3. QED
      BY <2>1, <3>1, <3>2
  <2>2. CASE c \in DOMAIN serverSubs
    BY <1>5, <2>2 DEF HandleServerSub, Done, connection
  <2>3. QED
    BY <2>1, <2>2
<1>6. CASE HandleServerUnsub(h)
  BY <1>3, <1>6 DEF HandleServerUnsub, Done, connection
<1>7. QED
  BY <1>4, <1>5, <1>6 DEF HandlePush

\* Values that the elements of q lead from a to v, one step of R each.
Trail(p, q, V, R) ==
  /\ p \in Seq(V) /\ Len(p) = Len(q) + 1
  /\ \A i \in 1..Len(q) : <<q[i], p[i], p[i + 1]>> \in R

\* The elements of q lead from a to v.
Path(a, v, q, V, R) == \E p : Trail(p, q, V, R) /\ p[1] = a /\ p[Len(q) + 1] = v

\* No element leads nowhere else.
LEMMA PathEmpty ==
  ASSUME NEW V, NEW R, NEW a, NEW v
  PROVE  /\ Path(a, v, <<>>, V, R) => a = v
         /\ a \in V => Path(a, a, <<>>, V, R)
<1>1. Path(a, v, <<>>, V, R) => a = v
  BY DEF Path
<1>2. ASSUME a \in V PROVE Path(a, a, <<>>, V, R)
  <2> DEFINE p == <<a>>
  <2>1. p \in Seq(V) /\ Len(p) = 1 /\ p[1] = a /\ Len(<<>>) = 0
    BY <1>2
  <2> HIDE DEF p
  <2>2. 0 + 1 = 1 /\ \A i \in 1..0 : FALSE
    OBVIOUS
  <2>3. Trail(p, <<>>, V, R)
    BY <2>1, <2>2 DEF Trail
  <2>4. QED
    BY <2>1, <2>3 DEF Path
<1>3. QED
  BY <1>1, <1>2

\* A path gets longer at its end.
LEMMA PathAppend ==
  ASSUME NEW M, NEW q \in Seq(M), NEW e \in M, NEW V, NEW R, NEW a, NEW v, NEW w \in V,
         Path(a, v, q, V, R), <<e, v, w>> \in R
  PROVE  Path(a, w, Append(q, e), V, R)
<1>1. PICK p : Trail(p, q, V, R) /\ p[1] = a /\ p[Len(q) + 1] = v
  BY DEF Path
<1> DEFINE n == Len(q)
           r == Append(q, e)
           o == Append(p, w)
<1>2. n \in Nat /\ Len(r) = n + 1 /\ r[n + 1] = e /\ \A i \in 1..n : r[i] = q[i]
  BY AppendFacts
<1>3. p \in Seq(V) /\ Len(p) = n + 1
  BY <1>1 DEF Trail
<1>4. o \in Seq(V) /\ Len(o) = (n + 1) + 1 /\ o[(n + 1) + 1] = w
          /\ \A i \in 1..n + 1 : o[i] = p[i]
  BY <1>3, AppendFacts
<1>5. \A i \in 1..n : <<q[i], p[i], p[i + 1]>> \in R
  BY <1>1 DEF Trail
<1>6. p[1] = a /\ p[n + 1] = v
  BY <1>1
<1> HIDE DEF n, r, o
<1>7. 1 \in 1..n + 1 /\ n + 1 \in 1..n + 1 /\ \A i \in 1..n + 1 : i \in 1..n \/ i = n + 1
  BY <1>2
<1>8. \A i \in 1..n : i \in 1..n + 1 /\ i + 1 \in 1..n + 1
  BY <1>2
<1>9. \A i \in 1..n + 1 : <<r[i], o[i], o[i + 1]>> \in R
  <2> SUFFICES ASSUME NEW i \in 1..n + 1 PROVE <<r[i], o[i], o[i + 1]>> \in R
    OBVIOUS
  <2>1. CASE i \in 1..n
    BY <1>2, <1>4, <1>5, <1>8, <2>1
  <2>2. CASE i = n + 1
    BY <1>2, <1>4, <1>7, <1>6, <2>2
  <2>3. QED
    BY <1>7, <2>1, <2>2
<1>10. Trail(o, r, V, R)
  BY <1>2, <1>4, <1>9 DEF Trail
<1>11. o[1] = a
  BY <1>4, <1>7, <1>6
<1>12. QED
  BY <1>2, <1>4, <1>10, <1>11 DEF Path, r

\* The first element of a path leads to where the others start.
LEMMA PathTail ==
  ASSUME NEW M, NEW q \in Seq(M), NEW V, NEW R, NEW a, NEW v, Path(a, v, q, V, R), q # <<>>
  PROVE  \E b \in V : <<q[1], a, b>> \in R /\ Path(b, v, Tail(q), V, R)
<1>1. PICK p : Trail(p, q, V, R) /\ p[1] = a /\ p[Len(q) + 1] = v
  BY DEF Path
<1> DEFINE n == Len(q)
           t == Tail(q)
           o == Tail(p)
<1>2. n \in Nat /\ n # 0 /\ Len(t) = n - 1 /\ \A i \in 1..n - 1 : t[i] = q[i + 1]
  BY SeqFacts
<1>3. p \in Seq(V) /\ Len(p) = n + 1
  BY <1>1 DEF Trail
<1>4. p # <<>>
  BY <1>2, <1>3
<1>5. o \in Seq(V) /\ Len(o) = (n + 1) - 1 /\ (\A i \in 1..(n + 1) - 1 : o[i] = p[i + 1])
      /\ \A i \in 1..n + 1 : p[i] \in V
  BY <1>3, <1>4, SeqFacts
<1>6. \A i \in 1..n : <<q[i], p[i], p[i + 1]>> \in R
  BY <1>1 DEF Trail
<1>7. p[1] = a /\ p[n + 1] = v
  BY <1>1
<1> HIDE DEF n, t, o
<1>8. (n - 1) + 1 = n /\ (n + 1) - 1 = n /\ 1 \in 1..n /\ n \in 1..n
  BY <1>2
<1>9. \A i \in 1..n : i + 1 \in 1..n + 1
  BY <1>2
<1>10. \A i \in 1..n - 1 : i \in 1..n /\ i + 1 \in 1..n
  BY <1>2
<1>11. \A i \in 1..n - 1 : <<t[i], o[i], o[i + 1]>> \in R
  BY <1>2, <1>5, <1>6, <1>8, <1>10
<1>12. Trail(o, t, V, R)
  BY <1>2, <1>5, <1>8, <1>11 DEF Trail
<1>13. o[n] = v /\ o[1] = p[1 + 1]
  BY <1>5, <1>8, <1>7
<1>14. Path(p[1 + 1], v, t, V, R)
  BY <1>2, <1>8, <1>12, <1>13 DEF Path
<1>15. p[1 + 1] \in V /\ <<q[1], a, p[1 + 1]>> \in R
  BY <1>5, <1>6, <1>8, <1>9, <1>7
<1>16. QED
  BY <1>14, <1>15 DEF t

\* A path gets longer at its start.
LEMMA PathCons ==
  ASSUME NEW M, NEW q \in Seq(M), NEW r \in M, NEW V, NEW R, NEW a \in V, NEW b, NEW v,
         Path(b, v, q, V, R), <<r, a, b>> \in R
  PROVE  Path(a, v, <<r>> \o q, V, R)
<1>1. PICK p : Trail(p, q, V, R) /\ p[1] = b /\ p[Len(q) + 1] = v
  BY DEF Path
<1> DEFINE n == Len(q)
           t == <<r>> \o q
           o == <<a>> \o p
<1>2. n \in Nat /\ Len(t) = n + 1 /\ t[1] = r /\ \A i \in 2..n + 1 : t[i] = q[i - 1]
  OBVIOUS
<1>3. p \in Seq(V) /\ Len(p) = n + 1
  BY <1>1 DEF Trail
<1>4. o \in Seq(V) /\ Len(o) = (n + 1) + 1 /\ o[1] = a
          /\ \A i \in 2..(n + 1) + 1 : o[i] = p[i - 1]
  BY <1>2, <1>3
<1>5. \A i \in 1..n : <<q[i], p[i], p[i + 1]>> \in R
  BY <1>1 DEF Trail
<1>6. p[1] = b /\ p[n + 1] = v
  BY <1>1
<1> HIDE DEF n, t, o
<1>7. \A i \in 1..n + 1 : i = 1 \/ (i \in 2..n + 1 /\ i - 1 \in 1..n /\ i \in 2..(n + 1) + 1)
  BY <1>2
<1>8. \A i \in 1..n + 1 : i + 1 \in 2..(n + 1) + 1 /\ (i + 1) - 1 = i /\ (i - 1) + 1 = i
  BY <1>2
<1>9. 1 \in 1..n + 1 /\ (n + 1) + 1 \in 2..(n + 1) + 1 /\ ((n + 1) + 1) - 1 = n + 1
  BY <1>2
<1>10. \A i \in 1..n + 1 : <<t[i], o[i], o[i + 1]>> \in R
  <2> SUFFICES ASSUME NEW i \in 1..n + 1 PROVE <<t[i], o[i], o[i + 1]>> \in R
    OBVIOUS
  <2>1. o[i + 1] = p[i]
    BY <1>4, <1>8
  <2>2. CASE i = 1
    BY <1>2, <1>4, <1>6, <2>1, <2>2
  <2>3. CASE i # 1
    <3>1. i \in 2..n + 1 /\ i - 1 \in 1..n /\ i \in 2..(n + 1) + 1
      BY <1>7, <2>3
    <3>2. t[i] = q[i - 1] /\ o[i] = p[i - 1] /\ p[(i - 1) + 1] = p[i]
      BY <1>2, <1>4, <1>8, <3>1
    <3>3. QED
      BY <1>5, <2>1, <3>1, <3>2
  <2>4. QED
    BY <2>2, <2>3
<1>11. Trail(o, t, V, R)
  BY <1>2, <1>4, <1>10 DEF Trail
<1>12. o[(n + 1) + 1] = v
  BY <1>4, <1>9, <1>6
<1>13. QED
  BY <1>2, <1>4, <1>11, <1>12 DEF Path, t

\* What a position is.
LEMMA PlacesFacts ==
  /\ Unknown \in Places /\ <<>> \in Seq(Places)
  /\ \A x, y \in Nat : <<x, y>> \in Places
  /\ \A p \in Places : p \in Int \X Nat /\ p[1] \in Nat /\ p[2] \in Nat /\ <<p>> \in Seq(Places)
                       /\ p = <<p[1], p[2]>> /\ p \in Nat \X Nat
BY DEF Places, Unknown

\* What the types say of one channel of the server.
LEMMA StreamFacts ==
  ASSUME StreamTypes, NEW c \in Channels
  PROVE  /\ tops[c] \in Seq(0..MaxPublished) /\ tops[c] # <<>> /\ ServerEpoch(c) \in Nat \ {0}
         /\ ServerEpoch(c) \in 1..Len(tops[c]) /\ Top(c) \in Nat
         /\ \A i \in 1..Len(tops[c]) : tops[c][i] \in 0..MaxPublished
         /\ floor[c] \in Nat
         /\ ServerPosition(c) \in Places /\ MaxPublished \in Nat
<1>1. tops[c] \in Seq(0..MaxPublished) /\ tops[c] # <<>> /\ floor[c] \in Nat
          /\ MaxPublished \in Nat
  BY DEF StreamTypes
<1>2. Len(tops[c]) \in Nat /\ Len(tops[c]) # 0
          /\ \A i \in 1..Len(tops[c]) : tops[c][i] \in 0..MaxPublished
  BY <1>1, SeqFacts
<1>3. Len(tops[c]) \in 1..Len(tops[c])
  BY <1>2
<1>4. Top(c) \in Nat
  BY <1>1, <1>2, <1>3 DEF Top, ServerEpoch
<1>5. ServerPosition(c) \in Places
  BY <1>2, <1>4, PlacesFacts DEF ServerPosition, ServerEpoch
<1>6. QED
  BY <1>1, <1>2, <1>3, <1>4, <1>5 DEF ServerEpoch

\* StreamTypes is kept.
LEMMA StreamTypesStep ==
  ASSUME SideTypes, [Next]_vars
  PROVE  StreamTypes'
<1>1. StreamTypes
  BY DEF SideTypes
<1>2. ASSUME UNCHANGED <<tops, floor, serverSide>>
      PROVE  StreamTypes'
  BY <1>1, <1>2 DEF StreamTypes
<1>3. ASSUME NEW c \in Channels, Publish(c)
      PROVE  StreamTypes'
  <2>1. tops' = [tops EXCEPT ![c][ServerEpoch(c)] = @ + 1] /\ UNCHANGED <<floor, serverSide>>
        /\ Top(c) < MaxPublished
    BY <1>3 DEF Publish
  <2>2. /\ tops[c] \in Seq(0..MaxPublished) /\ ServerEpoch(c) \in 1..Len(tops[c])
               /\ Top(c) \in Nat
        /\ tops[c] # <<>> /\ MaxPublished \in Nat
    BY <1>1, StreamFacts
  <2>3. Top(c) + 1 \in 0..MaxPublished
    BY <2>1, <2>2
  <2> DEFINE t == [tops[c] EXCEPT ![ServerEpoch(c)] = @ + 1]
  <2>4. t \in Seq(0..MaxPublished) /\ Len(t) = Len(tops[c]) /\ t # <<>>
    <3>1. t = [tops[c] EXCEPT ![ServerEpoch(c)] = Top(c) + 1]
      BY DEF Top
    <3>2. QED
      BY <2>2, <2>3, <3>1
  <2>5. tops' = [tops EXCEPT ![c] = t]
    BY <2>1
  <2> HIDE DEF t
  <2>6. QED
    BY <1>1, <2>1, <2>4, <2>5 DEF StreamTypes
<1>4. ASSUME NEW c \in Channels, Reset(c)
      PROVE  StreamTypes'
  <2>1. tops' = [tops EXCEPT ![c] = Append(@, 0)] /\ floor' = [floor EXCEPT ![c] = 0]
        /\ serverSide' = serverSide
    BY <1>4 DEF Reset
  <2>2. tops[c] \in Seq(0..MaxPublished) /\ 0 \in 0..MaxPublished
    BY <1>1, StreamFacts
  <2>3. Append(tops[c], 0) \in Seq(0..MaxPublished) /\ Append(tops[c], 0) # <<>>
    BY <2>2
  <2>4. QED
    BY <1>1, <2>1, <2>3 DEF StreamTypes
<1>5. ASSUME NEW c \in Channels, HistoryLost(c)
      PROVE  StreamTypes'
  <2>1. Top(c) \in Nat
    BY <1>1, StreamFacts
  <2>2. QED
    BY <1>1, <1>5, <2>1 DEF StreamTypes, HistoryLost
<1>6. ASSUME NEW c \in Channels, ServerSubscribes(c) \/ ServerUnsubscribes(c)
      PROVE  StreamTypes'
  BY <1>1, <1>6 DEF StreamTypes, ServerSubscribes, ServerUnsubscribes
<1>7. CASE Idles
  <2>1. CASE floor' = floor
    BY <1>2, <1>7, <2>1 DEF Idles, SideSame
  <2>2. CASE \E c \in Channels : HistoryLost(c)
    BY <1>5, <2>2
  <2>3. QED
    BY <1>7, <2>1, <2>2 DEF Idles
<1>8. CASE Ends
  BY <1>2, <1>8, EndFacts
<1>9. CASE \E h \in held : Handles(h)
  BY <1>2, <1>9, HandledFrame
<1>10. CASE Connect \/ Close \/ ReportClosed \/ Open \/ Take \/ Invalidated
            \/ (\E n \in Nat : InvalidateConnectionState(n)) \/ Runs
  BY <1>2, <1>10
     DEF Connect, Close, ReportClosed, Open, Take, Invalidated, InvalidateConnectionState,
         Runs, RunNotice, RunSubscribed, RunPublication, RunRecovered, server
<1>11. QED
  BY <1>3, <1>4, <1>6, <1>7, <1>8, <1>9, <1>10, SideCases DEF Publishes

\* What the dispatcher leaves alone.
LEMMA RunFrame ==
  ASSUME Runs
  PROVE  /\ queue # <<>>
         /\ UNCHANGED <<tops, floor, serverSide, serverUp, state, connectAttempt, wire,
            held, closes>>
         /\ UNCHANGED <<leaving, strayed, late>>
         /\ serverSubs' = serverSubs \/ RunRecovered
BY DEF Runs, RunNotice, RunSubscribed, RunPublication, RunRecovered, server, connection

\* SessionTypes is kept.
LEMMA SessionTypesStep ==
  ASSUME SideTypes, [Next]_vars
  PROVE  SessionTypes'
<1>1. SessionTypes
  BY DEF SideTypes
<1>2. ASSUME UNCHANGED <<state, connectAttempt>>, serverUp' \in BOOLEAN, serverUp' => serverUp
      PROVE  SessionTypes'
  BY <1>1, <1>2 DEF SessionTypes, Linked
<1>3. serverUp \in BOOLEAN
  BY <1>1 DEF SessionTypes
<1>4. CASE Ends
  BY <1>1, <1>4, EndFacts DEF SessionTypes, Linked
<1>5. CASE Connect
  <2>1. state' = "connecting" /\ connectAttempt' = connectAttempt /\ serverUp' \in BOOLEAN
            /\ ~serverUp'
    BY <1>1, <1>5, <1>3 DEF SessionTypes, Linked, Connect
  <2>2. connectAttempt' \in Nat
    BY <1>1, <2>1 DEF SessionTypes
  <2>3. QED
    BY <2>1, <2>2 DEF SessionTypes, Linked
<1>6. CASE Close
  <2>1. state' = "closed" /\ connectAttempt' = connectAttempt + 1 /\ serverUp' = FALSE
    BY <1>6 DEF Close, LinkEnds
  <2>2. ~serverUp' /\ serverUp' \in BOOLEAN
    BY <2>1, Zenon
  <2>3. connectAttempt' \in Nat
    BY <1>1, <2>1 DEF SessionTypes
  <2>4. QED
    BY <2>1, <2>2, <2>3 DEF SessionTypes, Linked
<1>7. CASE Open
  BY <1>1, <1>7 DEF SessionTypes, Linked, Open
<1>8. ASSUME NEW h \in held, Handles(h) PROVE SessionTypes'
  <2>1. CASE HandleConnect(h) /\ state' # state
    <3>1. state = "opening" /\ state' = "connected" /\ connectAttempt' = connectAttempt
          /\ serverUp' \in BOOLEAN
      BY <1>3, <2>1 DEF HandleConnect
    <3>2. connectAttempt' \in Nat /\ connectAttempt' # 0
      BY <1>1, <3>1 DEF SessionTypes, Linked
    <3>3. QED
      BY <3>1, <3>2 DEF SessionTypes, Linked
  <2>2. CASE state' = state
    BY <1>2, <1>8, <1>3, <2>2, HandledFrame
  <2>3. QED
    BY <1>8, <2>1, <2>2, HandledFrame
<1>9. ASSUME NEW c \in Channels, Publishes(c) \/ Reset(c) PROVE SessionTypes'
  <2>1. UNCHANGED <<state, connectAttempt>>
            /\ (serverUp' = serverUp \/ serverUp' = (serverUp /\ c \notin serverSide))
    BY <1>9, Zenon
       DEF Publishes, Publish, ServerSubscribes, ServerUnsubscribes, Reset, connection
  <2>2. serverUp' \in BOOLEAN /\ (serverUp' => serverUp)
    <3>1. (serverUp /\ c \notin serverSide) \in BOOLEAN
      OBVIOUS
    <3>2. CASE serverUp' = (serverUp /\ c \notin serverSide)
      BY <3>1, <3>2, Zenon
    <3>3. QED
      BY <1>3, <2>1, <3>2, Zenon
  <2>3. QED
    BY <1>2, <2>1, <2>2
<1>10. CASE ReportClosed \/ Take \/ Invalidated \/ (\E n \in Nat : InvalidateConnectionState(n))
  BY <1>2, <1>10, <1>3
     DEF ReportClosed, Take, Invalidated, InvalidateConnectionState, connection
<1>11. CASE Runs \/ Idles
  BY <1>2, <1>11, <1>3, RunFrame DEF Idles, SideSame
<1>12. QED
  BY <1>4, <1>5, <1>6, <1>7, <1>8, <1>9, <1>10, <1>11, SideCases

\* A push is sent on a connection the server has.
LEMMA PushedFacts ==
  ASSUME SideTypes, NEW c \in Channels, Publishes(c)
  PROVE  /\ UNCHANGED <<floor, serverUp, state, connectAttempt, held, closes, serverSubs>>
         /\ UNCHANGED <<leaving, queue, told, seen, reloads, strayed, late>>
         /\ \/ wire' = wire /\ (serverUp => c \notin serverSide /\ Publish(c))
            \/ /\ serverUp
               /\ \E t \in {"pub", "subscribe", "unsubscribe"} : \E p \in Places :
                    wire' = Append(wire, [type |-> t, channel |-> c, position |-> p])
<1>1. ServerPosition(c) \in Places /\ <<ServerEpoch(c), Top(c) + 1>> \in Places
          /\ Unknown \in Places
  <2>1. ServerEpoch(c) \in Nat /\ Top(c) + 1 \in Nat /\ ServerPosition(c) \in Places
    BY StreamFacts DEF SideTypes
  <2>2. QED
    BY <2>1, PlacesFacts
<1>2. CASE Publish(c)
  <2>1. Push("pub", c, <<ServerEpoch(c), Top(c) + 1>>)
    BY <1>2 DEF Publish
  <2>2. UNCHANGED <<floor, serverUp, state, connectAttempt, held, closes, serverSubs>>
    BY <1>2 DEF Publish, connection
  <2>3. UNCHANGED <<leaving, queue, told, seen, reloads, strayed, late>>
    BY <1>2 DEF Publish, application
  <2>4. QED
    BY <1>1, <1>2, <2>1, <2>2, <2>3 DEF Push
<1>3. CASE ServerSubscribes(c)
  <2>1. UNCHANGED <<floor, serverUp, state, connectAttempt, held, closes, serverSubs>>
    BY <1>3 DEF ServerSubscribes, connection
  <2>2. UNCHANGED <<leaving, queue, told, seen, reloads, strayed, late>>
    BY <1>3 DEF ServerSubscribes, application
  <2>3. IF serverUp THEN wire' = Append(wire, [type |-> "subscribe", channel |-> c,
        position |-> ServerPosition(c)])
                    ELSE wire' = wire
    BY <1>3 DEF ServerSubscribes
  <2>4. QED
    BY <1>1, <2>1, <2>2, <2>3
<1>4. CASE ServerUnsubscribes(c)
  <2>1. UNCHANGED <<floor, serverUp, state, connectAttempt, held, closes, serverSubs>>
    BY <1>4 DEF ServerUnsubscribes, connection
  <2>2. UNCHANGED <<leaving, queue, told, seen, reloads, strayed, late>>
    BY <1>4 DEF ServerUnsubscribes, application
  <2>3. Push("unsubscribe", c, Unknown) /\ c \in serverSide
    BY <1>4 DEF ServerUnsubscribes
  <2>4. QED
    BY <1>1, <2>1, <2>2, <2>3 DEF Push
<1>5. QED
  BY <1>2, <1>3, <1>4 DEF Publishes

\* The connect reply of the server.
LEMMA RecoveredTypes ==
  ASSUME SideTypes, NEW c \in Channels, CanRecover(c)
  PROVE  /\ Recovered(c) \in SubReplies /\ c \in Recoverable /\ c \in DOMAIN serverSubs
         /\ serverSubs[c][2] \in Nat /\ serverSubs[c][2] <= Top(c)
         /\ Recovered(c).kind = "recovered" /\ Recovered(c).epoch = ServerEpoch(c)
         /\ Recovered(c).offset = serverSubs[c][2] /\ Recovered(c).pubs = Missed(c)
         /\ Len(Missed(c)) = Top(c) - serverSubs[c][2]
         /\ \A k \in 1..Len(Missed(c)) : Missed(c)[k] = <<ServerEpoch(c), serverSubs[c][2] + k>>
<1>1. /\ c \in Recoverable /\ c \in DOMAIN serverSubs /\ serverSubs[c][2] \in floor[c]..Top(c)
  BY DEF CanRecover
<1>2. floor[c] \in Nat /\ Top(c) \in Nat /\ ServerEpoch(c) \in Nat
  BY StreamFacts DEF SideTypes
<1>3. serverSubs[c][2] \in Nat /\ serverSubs[c][2] <= Top(c)
  BY <1>1, <1>2
<1>4. /\ Missed(c) \in Seq(Places) /\ Len(Missed(c)) = Top(c) - serverSubs[c][2]
      /\ \A k \in 1..Len(Missed(c)) : Missed(c)[k] = <<ServerEpoch(c), serverSubs[c][2] + k>>
  <2> DEFINE n == Top(c) - serverSubs[c][2]
             x == ServerEpoch(c)
             y == serverSubs[c][2]
  <2>1. n \in Nat
    BY <1>2, <1>3
  <2>2. \A i \in 1..n : <<x, y + i>> \in Places
    BY <1>2, <1>3 DEF Places
  <2>3. Missed(c) = [i \in 1..n |-> <<x, y + i>>]
    BY DEF Missed
  <2> HIDE DEF n, x, y
  <2>4. Missed(c) \in Seq(Places) /\ Len(Missed(c)) = n
            /\ \A k \in 1..n : Missed(c)[k] = <<x, y + k>>
    BY <2>1, <2>2, <2>3
  <2>5. QED
    BY <2>4 DEF n, x, y
<1>5. QED
  BY <1>1, <1>2, <1>3, <1>4 DEF Recovered, SubReplies, SubKinds

\* The other subscriptions of a connect reply.
LEMMA OtherReplyTypes ==
  ASSUME SideTypes, NEW c \in Channels
  PROVE  /\ Unrecovered(c) \in SubReplies /\ NoPosition \in SubReplies
         /\ Unrecovered(c).kind = "unrecovered" /\ Unrecovered(c).pubs = <<>>
         /\ <<Unrecovered(c).epoch, Unrecovered(c).offset>> = ServerPosition(c)
         /\ NoPosition.kind = "noPosition" /\ NoPosition.pubs = <<>>
         /\ NoPosition.epoch = 0 /\ NoPosition.offset = 0
<1>1. ServerPosition(c) \in Nat \X Nat
  BY StreamFacts DEF SideTypes, Places
<1>2. ServerPosition(c)[1] \in Nat /\ ServerPosition(c)[2] \in Nat /\ <<>> \in Seq(Places)
      /\ ServerPosition(c) = <<ServerPosition(c)[1], ServerPosition(c)[2]>>
  BY <1>1
<1>3. Unrecovered(c) \in SubReplies
  BY <1>2 DEF Unrecovered, SubReplies, SubKinds
<1>4. NoPosition \in SubReplies
  BY <1>2 DEF NoPosition, SubReplies, SubKinds, NoEpoch
<1>5. QED
  BY <1>2, <1>3, <1>4 DEF Unrecovered, NoPosition, NoEpoch

\* The message the server opens a connection with.
LEMMA OpenFacts ==
  ASSUME SideTypes, Open
  PROVE  /\ state = "connecting" /\ state' = "opening" /\ connectAttempt' = connectAttempt + 1
         /\ serverUp' = TRUE
         /\ UNCHANGED <<tops, floor, serverSide, held, closes, serverSubs, leaving, queue,
            told, seen,
                        reloads, strayed, late>>
         /\ \E m \in SideMessages :
              /\ wire' = <<m>> /\ m.type = "connect" /\ DOMAIN m.subs = serverSide
              /\ \A c \in serverSide :
                   m.subs[c] \in {NoPosition, Unrecovered(c)} \/ (CanRecover(c)
                       /\ m.subs[c] = Recovered(c))
<1>1. PICK L \in SUBSET (Recoverable \cap serverSide) :
        wire' = <<[type |-> "connect",
                   subs |-> [c \in serverSide |->
                               IF c \in L THEN NoPosition
                               ELSE IF CanRecover(c) THEN Recovered(c)
                               ELSE Unrecovered(c)]]>>
  BY DEF Open
<1> DEFINE f == [c \in serverSide |-> IF c \in L THEN NoPosition
                                      ELSE IF CanRecover(c) THEN Recovered(c)
                                      ELSE Unrecovered(c)]
<1>2. serverSide \in SUBSET Channels
  BY DEF SideTypes, StreamTypes
<1>3. f \in [serverSide -> SubReplies]
  BY <1>2, RecoveredTypes, OtherReplyTypes
<1>4. \A c \in serverSide : f[c] \in {NoPosition, Unrecovered(c)} \/ (CanRecover(c)
          /\ f[c] = Recovered(c))
  OBVIOUS
<1>5. DOMAIN f = serverSide /\ wire' = <<[type |-> "connect", subs |-> f]>>
  BY <1>1
<1> HIDE DEF f
<1>6. [type |-> "connect", subs |-> f] \in SideMessages
  BY <1>2, <1>3, ConnectTypes
<1>7. QED
  BY <1>4, <1>6, <1>5 DEF Open, server, application

\* Appending by concatenation.
LEMMA SeqAppends ==
  ASSUME NEW S, NEW q \in Seq(S), NEW e \in S
  PROVE  /\ q \o <<e>> = Append(q, e)
         /\ \A f \in S : q \o <<e, f>> = Append(Append(q, e), f)
OBVIOUS

\* An entry that is well formed can be appended.
LEMMA ShapedAppend ==
  ASSUME NEW q \in Seq(SideEvents), NEW n \in Nat, NEW m \in Nat, n <= m,
         \A i \in 1..Len(q) : Shaped(q[i], n),
         NEW e \in SideEvents, Shaped(e, m)
  PROVE  /\ Append(q, e) \in Seq(SideEvents)
         /\ \A i \in 1..Len(Append(q, e)) : Shaped(Append(q, e)[i], m)
<1>1. \A x \in SideEvents : Shaped(x, n) => Shaped(x, m)
  <2>1. \A x \in SideEvents : x.reader \in Nat
    BY SideEventFields
  <2>2. QED
    BY <2>1 DEF Shaped
<1> DEFINE r == Append(q, e)
<1>2. r \in Seq(SideEvents) /\ Len(r) = Len(q) + 1 /\ Len(q) \in Nat /\ r[Len(q) + 1] = e
      /\ \A i \in 1..Len(q) : r[i] = q[i] /\ q[i] \in SideEvents
  BY AppendFacts
<1> HIDE DEF r
<1>3. \A i \in 1..Len(r) : i \in 1..Len(q) \/ i = Len(q) + 1
  BY <1>2
<1>4. \A i \in 1..Len(r) : Shaped(r[i], m)
  BY <1>1, <1>2, <1>3
<1>5. QED
  BY <1>2, <1>4 DEF r

\* What a stored subscription appends to the queue.
LEMMA StoreStep ==
  ASSUME SideTypes, NEW h \in held, NEW c, StoreSub(h, c)
  PROVE  LET sub == h.msg.subs[c]
             e == Entry(sub.kind, {c}, h.connection, <<>>, <<sub.epoch, sub.offset>>, FALSE)
             f == Entry("publications", {c}, h.connection, sub.pubs, Unknown, FALSE)
         IN
         /\ c \in Channels /\ c \in DOMAIN h.msg.subs /\ sub \in SubReplies
         /\ e \in SideEvents /\ f \in SideEvents
         /\ Stored(c, sub) \in Int \X Nat
         /\ IsConnectedAttempt(h.connection) =>
              queue' = IF sub.pubs = <<>> THEN Append(queue, e) ELSE Append(Append(queue, e), f)
<1> DEFINE sub == h.msg.subs[c]
           e == Entry(sub.kind, {c}, h.connection, <<>>, <<sub.epoch, sub.offset>>, FALSE)
           f == Entry("publications", {c}, h.connection, sub.pubs, Unknown, FALSE)
<1>1. h \in Helds /\ queue \in Seq(SideEvents)
  BY DEF SideTypes, WireTypes, SideQueueTypes
<1>2. h.msg.type = "connect" /\ c \in h.todo
  BY <1>1, StoreFacts
<1>3. h.todo \subseteq DOMAIN h.msg.subs /\ h.todo \subseteq Channels /\ h.msg \in SideMessages
      /\ h.connection \in Nat
  BY <1>1, <1>2, HeldFields DEF SideTypes, WireTypes
<1>4. c \in Channels /\ c \in DOMAIN h.msg.subs /\ sub \in SubReplies
  BY <1>2, <1>3, SideMessageFields
<1> HIDE DEF sub
<1>5. sub.kind \in SubKinds /\ sub.epoch \in Nat /\ sub.offset \in Nat
          /\ sub.pubs \in Seq(Places)
  BY <1>4, SubReplyFields
<1>6. <<sub.epoch, sub.offset>> \in Places /\ <<>> \in Seq(Places) /\ Unknown \in Places
      /\ <<sub.epoch, sub.offset>> \in Int \X Nat
  BY <1>5, PlacesFacts
<1>7. sub.kind \in SideKinds /\ "publications" \in SideKinds /\ FALSE \in BOOLEAN
          /\ {c} \in SUBSET Channels
  BY <1>4, <1>5 DEF SideKinds
<1>8. e \in SideEvents /\ f \in SideEvents
  BY <1>3, <1>5, <1>6, <1>7, EntryTypes
<1>9. Stored(c, sub) \in Int \X Nat
  <2>1. c \in DOMAIN serverSubs => serverSubs[c] \in Int \X Nat
    BY DEF SideTypes, SubTypes
  <2>2. c \in DOMAIN serverSubs => serverSubs[c][2] \in Nat
    BY <2>1
  <2>3. QED
    BY <1>5, <1>6, <2>1, <2>2 DEF Stored
<1>10. IsConnectedAttempt(h.connection) =>
         queue' = queue \o (IF sub.pubs = <<>> THEN <<e>> ELSE <<e, f>>)
  BY <1>1, StoreFacts DEF sub
<1> HIDE DEF e, f
<1>11. queue \o <<e>> = Append(queue, e) /\ queue \o <<e, f>> = Append(Append(queue, e), f)
  BY <1>1, <1>8, SeqAppends
<1>12. IsConnectedAttempt(h.connection) =>
         queue' = IF sub.pubs = <<>> THEN Append(queue, e) ELSE Append(Append(queue, e), f)
  BY <1>10, <1>11
<1>13. QED
  BY <1>4, <1>8, <1>9, <1>12 DEF sub, e, f

\* What taking a message does.
LEMMA TakeFacts ==
  ASSUME SideTypes, Take
  PROVE  /\ wire # <<>> /\ ReaderFree(connectAttempt) /\ Linked /\ wire' = Tail(wire)
         /\ UNCHANGED <<tops, floor, serverSide, serverUp, state, connectAttempt, closes,
            serverSubs>>
         /\ UNCHANGED <<leaving, queue, told, seen, reloads, strayed, late>>
         /\ wire[1] \in SideMessages /\ wire \in Seq(SideMessages)
         /\ \E h \in Helds :
              /\ held' = held \cup {h} /\ h.connection = connectAttempt /\ h.msg = wire[1]
              /\ h.started = FALSE
              /\ h.todo = IF wire[1].type = "connect" THEN DOMAIN wire[1].subs ELSE {}
<1>1. wire # <<>> /\ wire \in Seq(SideMessages) /\ Linked
  BY DEF Take, SideTypes, WireTypes
<1>2. Head(wire) = wire[1] /\ wire[1] \in SideMessages
  BY <1>1, SeqFacts
<1>3. connectAttempt \in Nat \ {0}
  BY <1>1 DEF SideTypes, SessionTypes
<1> DEFINE d == IF wire[1].type = "connect" THEN DOMAIN wire[1].subs ELSE {}
           h == [connection |-> connectAttempt, msg |-> wire[1], started |-> FALSE, todo |-> d]
<1>4. d \in SUBSET Channels
  BY <1>2, SideMessageFields
<1>5. held' = held \cup {h}
  BY <1>2 DEF Take
<1>6. FALSE \in BOOLEAN
  OBVIOUS
<1> HIDE DEF d
<1>7. h \in Helds
  BY <1>2, <1>3, <1>4, <1>6 DEF Helds
<1>8. h.connection = connectAttempt /\ h.msg = wire[1] /\ h.started = FALSE /\ h.todo = d
  OBVIOUS
<1> HIDE DEF h
<1>9. QED
  BY <1>1, <1>2, <1>5, <1>7, <1>8 DEF Take, connection, server, application, d

\* What becomes of a message in hand.
LEMMA HandledHeld ==
  ASSUME SideTypes, NEW h \in held, Handles(h)
  PROVE  /\ h \in Helds
         /\ \/ held' = held \ {h}
            \/ \E g \in Helds :
                 /\ held' = (held \ {h}) \cup {g} /\ g.connection = h.connection
                        /\ g.msg = h.msg
                 /\ g.started = TRUE /\ g.todo \subseteq h.todo /\ h.msg.type = "connect"
<1>1. h \in Helds
  BY DEF SideTypes, WireTypes
<1>2. CASE HandleConnect(h)
  BY <1>1, <1>2, ConnectFacts
<1>3. CASE \E c \in h.todo : StoreSub(h, c)
  <2>1. PICK c \in h.todo : StoreSub(h, c)
    BY <1>3
  <2>2. queue \in Seq(SideEvents)
    BY DEF SideTypes, SideQueueTypes
  <2>3. h.msg.type = "connect"
    BY <2>1 DEF StoreSub
  <2>4. CASE IsConnectedAttempt(h.connection)
    <3>1. \E g \in Helds : /\ held' = (held \ {h}) \cup {g}
                           /\ g.connection = h.connection /\ g.msg = h.msg
                           /\ g.started = TRUE /\ g.todo = h.todo \ {c}
      BY <1>1, <2>1, <2>2, <2>4, StoreFacts
    <3>2. QED
      BY <1>1, <2>3, <3>1
  <2>5. CASE ~IsConnectedAttempt(h.connection)
    BY <1>1, <2>1, <2>5 DEF StoreSub, Done
  <2>6. QED
    BY <2>4, <2>5
<1>4. CASE RemoveAbsent(h)
  BY <1>1, <1>4 DEF RemoveAbsent, Done
<1>5. CASE HandlePush(h)
  BY <1>1, <1>5
     DEF HandlePush, HandleServerPublication, HandleServerSub, HandleServerUnsub, Done
<1>6. QED
  BY <1>2, <1>3, <1>4, <1>5 DEF Handles

\* The wire keeps its type.
LEMMA WireStep ==
  ASSUME SideTypes, [Next]_vars
  PROVE  wire' \in Seq(SideMessages) /\ (~Linked' => wire' = <<>>)
<1>1. wire \in Seq(SideMessages) /\ (~Linked => wire = <<>>) /\ (serverUp => Linked)
  BY DEF SideTypes, WireTypes, SessionTypes
<1>2. ASSUME wire' = <<>> PROVE wire' \in Seq(SideMessages)
  BY <1>2
<1>3. ASSUME UNCHANGED <<wire, state>>
      PROVE  wire' \in Seq(SideMessages) /\ (~Linked' => wire' = <<>>)
  BY <1>1, <1>3 DEF Linked
<1>4. CASE Ends
  BY <1>2, <1>4, EndFacts
<1>5. CASE Close
  BY <1>2, <1>5 DEF Close, LinkEnds
<1>6. CASE Connect
  <2>1. wire' = <<>>
    BY <1>1, <1>6 DEF Connect, Linked
  <2>2. QED
    BY <1>2, <2>1
<1>7. CASE Open
  <2>1. state' = "opening" /\ \E m \in SideMessages : wire' = <<m>>
    BY <1>7, OpenFacts
  <2>2. QED
    BY <2>1 DEF Linked
<1>8. CASE Take
  <2>1. Linked /\ state' = state /\ wire' = Tail(wire) /\ wire # <<>>
    BY <1>8, TakeFacts
  <2>2. Tail(wire) \in Seq(SideMessages)
    BY <1>1, <2>1, SeqFacts
  <2>3. QED
    BY <2>1, <2>2 DEF Linked
<1>9. ASSUME NEW h \in held, Handles(h)
      PROVE  wire' \in Seq(SideMessages) /\ (~Linked' => wire' = <<>>)
  <2>1. wire' = wire /\ (state' = state \/ HandleConnect(h))
    BY <1>9, HandledFrame
  <2>2. HandleConnect(h) => state' \in {state, "connected"}
    BY DEF HandleConnect
  <2>3. ~Linked' => ~Linked
    BY <2>1, <2>2 DEF Linked
  <2>4. QED
    BY <1>1, <2>1, <2>3
<1>10. ASSUME NEW c \in Channels, Publishes(c)
       PROVE  wire' \in Seq(SideMessages) /\ (~Linked' => wire' = <<>>)
  <2>1. CASE wire' = wire
    BY <1>3, <1>10, <2>1, PushedFacts
  <2>2. CASE \E t \in {"pub", "subscribe", "unsubscribe"} : \E p \in Places :
                    wire' = Append(wire, [type |-> t, channel |-> c, position |-> p])
    <3>1. \E m \in SideMessages : wire' = Append(wire, m)
      BY <2>2, PushTypes
    <3>2. wire' \in Seq(SideMessages)
      BY <1>1, <3>1, AppendFacts
    <3>3. serverUp \/ wire' = wire
      BY <1>10, PushedFacts
    <3>4. Linked' \/ wire' = wire
      BY <1>1, <1>10, <3>3, PushedFacts DEF Linked
    <3>5. QED
      BY <1>3, <1>10, <3>2, <3>4, PushedFacts
  <2>3. QED
    BY <1>10, <2>1, <2>2, PushedFacts
<1>11. CASE (\E c \in Channels : Reset(c)) \/ Invalidated \/ ReportClosed
            \/ (\E n \in Nat : InvalidateConnectionState(n))
  BY <1>3, <1>11
     DEF Reset, Invalidated, ReportClosed, InvalidateConnectionState, connection
<1>12. CASE Runs \/ Idles
  BY <1>3, <1>12, RunFrame DEF Idles, SideSame
<1>13. QED
  BY <1>4, <1>5, <1>6, <1>7, <1>8, <1>9, <1>10, <1>11, <1>12, SideCases

\* A reader's hand, and the connection of it.
Holds(h, n) ==
  /\ h \in Helds /\ h.connection <= n
  /\ IF h.msg.type = "connect"
     THEN h.todo \subseteq DOMAIN h.msg.subs /\ (~h.started => h.todo = DOMAIN h.msg.subs)
     ELSE h.todo = {} /\ ~h.started

\* Connect attempts are counted up.
LEMMA AttemptGrows ==
  ASSUME SideTypes, [Next]_vars
  PROVE  connectAttempt \in Nat /\ connectAttempt' \in {connectAttempt, connectAttempt + 1}
<1>1. connectAttempt \in Nat
  BY DEF SideTypes, SessionTypes
<1>2. CASE (\E h \in held : Handles(h)) \/ Runs \/ Idles
  BY <1>1, <1>2, HandledFrame, RunFrame DEF Idles, SideSame
<1>3. CASE Ends
  BY <1>1, <1>3, EndFacts
<1>4. CASE \E c \in Channels : Publishes(c)
  BY <1>1, <1>4, PushedFacts
<1>5. CASE Connect \/ Open \/ Close \/ Invalidated
  BY <1>1, <1>5 DEF Connect, Close, Open, Invalidated, connection
<1>6. CASE ReportClosed \/ Take
  BY <1>1, <1>6 DEF ReportClosed, Take, connection
<1>7. CASE (\E n \in Nat : InvalidateConnectionState(n)) \/ (\E c \in Channels : Reset(c))
  BY <1>1, <1>7 DEF InvalidateConnectionState, Reset, connection
<1>8. QED
  BY <1>1, <1>2, <1>3, <1>4, <1>5, <1>6, <1>7, SideCases

\* What readers hold keeps its type.
LEMMA HeldStep ==
  ASSUME SideTypes, [Next]_vars
  PROVE  \A h \in held' : Holds(h, connectAttempt')
<1>1. connectAttempt \in Nat /\ connectAttempt' \in {connectAttempt, connectAttempt + 1}
  BY AttemptGrows
<1>2. \A h \in held : Holds(h, connectAttempt)
  BY DEF SideTypes, WireTypes, Holds
<1>3. \A h \in held : Holds(h, connectAttempt')
  <2>1. \A h \in Helds : h.connection \in Nat
    BY HeldFields
  <2>2. \A h \in Helds : h.connection <= connectAttempt => h.connection <= connectAttempt'
    BY <1>1, <2>1
  <2>3. QED
    BY <1>2, <2>2 DEF Holds
<1>4. CASE Take
  <2>1. PICK h \in Helds :
              /\ held' = held \cup {h} /\ h.connection = connectAttempt /\ h.msg = wire[1]
              /\ h.started = FALSE
              /\ h.todo = IF wire[1].type = "connect" THEN DOMAIN wire[1].subs ELSE {}
    BY <1>4, TakeFacts
  <2>2. h.connection <= connectAttempt'
    BY <1>1, <2>1
  <2>3. h.todo = (IF h.msg.type = "connect" THEN DOMAIN h.msg.subs ELSE {}) /\ ~h.started
    BY <2>1, Zenon
  <2>4. Holds(h, connectAttempt')
    BY <2>2, <2>3 DEF Holds
  <2>5. QED
    BY <1>3, <2>1, <2>4
<1>5. ASSUME NEW h \in held, Handles(h) PROVE \A k \in held' : Holds(k, connectAttempt')
  <2>1. CASE held' = held \ {h}
    BY <1>3, <2>1
  <2>2. CASE \E g \in Helds :
                 /\ held' = (held \ {h}) \cup {g} /\ g.connection = h.connection
                        /\ g.msg = h.msg
                 /\ g.started = TRUE /\ g.todo \subseteq h.todo /\ h.msg.type = "connect"
    <3>1. PICK g \in Helds :
                 /\ held' = (held \ {h}) \cup {g} /\ g.connection = h.connection
                        /\ g.msg = h.msg
                 /\ g.started = TRUE /\ g.todo \subseteq h.todo /\ h.msg.type = "connect"
      BY <2>2
    <3>2. Holds(h, connectAttempt')
      BY <1>3
    <3>3. Holds(g, connectAttempt')
      BY <3>1, <3>2 DEF Holds
    <3>4. QED
      BY <1>3, <3>1, <3>3
  <2>3. QED
    BY <1>5, <2>1, <2>2, HandledHeld
<1>6. CASE held' = held
  BY <1>3, <1>6
<1>7. CASE Runs \/ Idles \/ Ends \/ (\E c \in Channels : Publishes(c)) \/ Open
  BY <1>6, <1>7, RunFrame, PushedFacts, EndFacts, OpenFacts DEF Idles, SideSame
<1>8. CASE Connect \/ Close \/ ReportClosed \/ Invalidated
           \/ (\E n \in Nat : InvalidateConnectionState(n)) \/ (\E c \in Channels : Reset(c))
  BY <1>6, <1>8
     DEF Connect, Close, ReportClosed, Invalidated, InvalidateConnectionState, Reset
<1>9. QED
  BY <1>4, <1>5, <1>7, <1>8, SideCases

\* The reports of ended transports keep their type.
LEMMA ClosesStep ==
  ASSUME SideTypes, [Next]_vars
  PROVE  \A x \in closes' : x[1] \in Nat /\ x[1] <= connectAttempt'
<1>1. connectAttempt \in Nat /\ connectAttempt' \in {connectAttempt, connectAttempt + 1}
  BY AttemptGrows
<1>2. \A x \in closes : x[1] \in Nat /\ x[1] <= connectAttempt
  BY DEF SideTypes, WireTypes
<1>3. \A x \in closes : x[1] \in Nat /\ x[1] <= connectAttempt'
  BY <1>1, <1>2
<1>4. CASE closes' \subseteq closes
  BY <1>3, <1>4
<1>5. CASE Invalidated
  <2>1. closes' = closes \cup {<<connectAttempt, "invalidate">>}
            /\ connectAttempt' = connectAttempt
    BY <1>5 DEF Invalidated, connection
  <2>2. QED
    BY <1>1, <1>3, <2>1
<1>6. ASSUME NEW n \in Nat, InvalidateConnectionState(n)
      PROVE  \A x \in closes' : x[1] \in Nat /\ x[1] <= connectAttempt'
  <2>1. <<n, "invalidate">> \in closes
        /\ closes' = (closes \ {<<n, "invalidate">>}) \cup {<<n, "move">>}
    BY <1>6 DEF InvalidateConnectionState
  <2>2. <<n, "invalidate">>[1] <= connectAttempt'
    BY <1>3, <2>1
  <2>3. QED
    BY <1>3, <2>1, <2>2
<1>7. CASE (\E h \in held : Handles(h)) \/ Runs \/ Idles \/ Ends
          \/ (\E c \in Channels : Publishes(c)) \/ Open
           \/ Take
  BY <1>4, <1>7, HandledFrame, RunFrame, PushedFacts, EndFacts, OpenFacts, TakeFacts
     DEF Idles, SideSame
<1>8. CASE Connect \/ Close \/ ReportClosed \/ (\E c \in Channels : Reset(c))
  BY <1>4, <1>8 DEF Connect, Close, ReportClosed, Reset
<1>9. QED
  BY <1>5, <1>6, <1>7, <1>8, SideCases

\* WireTypes is kept.
LEMMA WireTypesStep ==
  ASSUME SideTypes, [Next]_vars
  PROVE  WireTypes'
BY WireStep, HeldStep, ClosesStep DEF WireTypes, Holds

\* The map with some channels removed.
LEMMA WithoutFacts ==
  ASSUME NEW cs
  PROVE  /\ DOMAIN Without(cs) = DOMAIN serverSubs \ cs
         /\ \A d \in DOMAIN serverSubs \ cs : Without(cs)[d] = serverSubs[d]
BY DEF Without

\* The position after a publication has its type.
LEMMA AdoptedTypes ==
  ASSUME SubTypes, NEW c \in DOMAIN serverSubs, NEW id \in Places
  PROVE  Adopted(c, id) \in Int \X Nat /\ Adopted(c, id)[2] = id[2]
         /\ Adopted(c, id)[1] = IF serverSubs[c][1] = NoEpoch THEN id[1] ELSE serverSubs[c][1]
<1>1. serverSubs[c][1] \in Int /\ id[1] \in Nat /\ id[2] \in Nat
  BY DEF SubTypes, Places
<1>2. QED
  BY <1>1 DEF Adopted

\* The first entry of the queue.
LEMMA FirstEvent ==
  ASSUME SideTypes, queue # <<>>
  PROVE  /\ Head(queue) = queue[1] /\ queue[1] \in SideEvents
         /\ Shaped(queue[1], connectAttempt) /\ Tail(queue) \in Seq(SideEvents)
         /\ queue \in Seq(SideEvents)
         /\ Len(Tail(queue)) = Len(queue) - 1 /\ Len(queue) \in Nat \ {0}
         /\ \A i \in 1..Len(Tail(queue)) : i + 1 \in 1..Len(queue)
                /\ Tail(queue)[i] = queue[i + 1]
         /\ \A i \in 1..Len(Tail(queue)) : Shaped(Tail(queue)[i], connectAttempt)
<1>1. queue \in Seq(SideEvents) /\ \A i \in 1..Len(queue) : Shaped(queue[i], connectAttempt)
  BY DEF SideTypes, SideQueueTypes
<1>2. /\ Len(queue) \in Nat /\ Len(queue) # 0
             /\ \A i \in 1..Len(queue) : queue[i] \in SideEvents
      /\ Head(queue) = queue[1] /\ Tail(queue) \in Seq(SideEvents)
      /\ Len(Tail(queue)) = Len(queue) - 1
      /\ \A i \in 1..Len(Tail(queue)) : Tail(queue)[i] = queue[i + 1]
  BY <1>1, SeqFacts
<1>3. 1 \in 1..Len(queue) /\ \A i \in 1..Len(Tail(queue)) : i + 1 \in 1..Len(queue)
  BY <1>2
<1>4. QED
  BY <1>1, <1>2, <1>3

\* The entry of recovered publications, one of which is delivered or none.
LEMMA RecoveredFacts ==
  ASSUME SideTypes, RunRecovered
  PROVE  /\ queue # <<>> /\ queue[1].kind = "publications" /\ queue[1].pubs # <<>>
         /\ UNCHANGED <<told, reloads>>
         /\ \E c \in Channels :
              /\ queue[1].channels = {c}
              /\ \/ /\ MayDeliver(c, queue[1].reader)
                    /\ queue[1].pubs[1] \in Places
                    /\ serverSubs' = With(c, Adopted(c, queue[1].pubs[1]))
                    /\ seen' = [seen EXCEPT ![c] = queue[1].pubs[1]]
                    /\ \/ Len(queue[1].pubs) = 1 /\ queue' = Tail(queue)
                       \/ \E r \in SideEvents :
                            /\ Len(queue[1].pubs) # 1 /\ queue' = <<r>> \o Tail(queue)
                            /\ r.pubs = Tail(queue[1].pubs) /\ r.kind = "publications"
                            /\ r.channels = {c} /\ r.reader = queue[1].reader
                            /\ r.stale = queue[1].stale /\ r.pubs # <<>>
                 \/ /\ ~MayDeliver(c, queue[1].reader)
                    /\ UNCHANGED <<serverSubs, seen>> /\ queue' = Tail(queue)
<1> DEFINE e == queue[1]
<1>1. queue # <<>> /\ Head(queue) = e /\ e \in SideEvents /\ e.kind = "publications"
      /\ Shaped(e, connectAttempt)
  BY FirstEvent DEF RunRecovered
<1>2. e.pubs # <<>> /\ \E c \in Channels : e.channels = {c}
  BY <1>1 DEF Shaped
<1>3. PICK c \in Channels : e.channels = {c}
  BY <1>2
<1>4. e.pubs \in Seq(Places)
  BY <1>1, SideEventFields
<1>5. e.pubs[1] \in Places /\ Len(e.pubs) \in Nat /\ Len(Tail(e.pubs)) = Len(e.pubs) - 1
  BY <1>2, <1>4
<1> DEFINE r == [e EXCEPT !.pubs = Tail(e.pubs)]
<1>6. /\ r \in SideEvents /\ r.pubs = Tail(e.pubs) /\ r.kind = e.kind
      /\ r.channels = e.channels /\ r.reader = e.reader /\ r.stale = e.stale
  BY <1>1, <1>2, EntryRest
<1>7. IF MayDeliver(c, e.reader)
      THEN /\ serverSubs' = With(c, Adopted(c, e.pubs[1]))
           /\ seen' = [seen EXCEPT ![c] = e.pubs[1]]
           /\ queue' = IF Len(e.pubs) = 1 THEN Tail(queue) ELSE <<r>> \o Tail(queue)
      ELSE queue' = Tail(queue) /\ UNCHANGED <<serverSubs, seen>>
  <2>1. PICK d \in e.channels :
          IF MayDeliver(d, e.reader)
          THEN /\ serverSubs' = With(d, Adopted(d, e.pubs[1]))
               /\ seen' = [seen EXCEPT ![d] = e.pubs[1]]
               /\ queue' = IF Len(e.pubs) = 1 THEN Tail(queue) ELSE <<r>> \o Tail(queue)
          ELSE queue' = Tail(queue) /\ UNCHANGED <<serverSubs, seen>>
    BY <1>1, Zenon DEF RunRecovered
  <2>2. d = c
    BY <1>3, <2>1
  <2>3. QED
    BY <2>1, <2>2, Zenon
<1> HIDE DEF e, r
<1>8. UNCHANGED <<told, reloads>>
  BY DEF RunRecovered
<1>9. Len(e.pubs) # 1 => Tail(e.pubs) # <<>>
  <2>1. Len(e.pubs) # 1 => Len(Tail(e.pubs)) # 0
    BY <1>5
  <2>2. Len(<<>>) = 0
    OBVIOUS
  <2>3. QED
    BY <2>1, <2>2
<1>10. QED
  BY <1>1, <1>2, <1>3, <1>5, <1>6, <1>7, <1>8, <1>9 DEF e

\* SubTypes is kept.
LEMMA SubTypesStep ==
  ASSUME SideTypes, [Next]_vars
  PROVE  SubTypes'
<1>1. /\ SubTypes /\ DOMAIN serverSubs \subseteq Channels
      /\ \A c \in DOMAIN serverSubs : serverSubs[c] \in Int \X Nat
      /\ leaving \subseteq Channels /\ (leaving # {} => state = "closed")
  BY DEF SideTypes, SubTypes
<1>2. ASSUME leaving' = leaving, leaving # {} => state' = "closed",
             \/ serverSubs' = serverSubs
             \/ \E c \in Channels, p \in Int \X Nat : serverSubs' = With(c, p)
             \/ \E cs : serverSubs' = Without(cs)
      PROVE  SubTypes'
  <2>1. CASE serverSubs' = serverSubs
    BY <1>1, <1>2, <2>1 DEF SubTypes
  <2>2. CASE \E c \in Channels, p \in Int \X Nat : serverSubs' = With(c, p)
    <3>1. PICK c \in Channels, p \in Int \X Nat : serverSubs' = With(c, p)
      BY <2>2
    <3>2. DOMAIN serverSubs' = DOMAIN serverSubs \cup {c} /\ serverSubs'[c] = p
          /\ \A d \in DOMAIN serverSubs : d # c => serverSubs'[d] = serverSubs[d]
      BY <3>1 DEF With
    <3>3. \A d \in DOMAIN serverSubs' : d \in Channels /\ serverSubs'[d] \in Int \X Nat
      BY <1>1, <3>1, <3>2
    <3>4. QED
      BY <1>1, <1>2, <3>3 DEF SubTypes
  <2>3. CASE \E cs : serverSubs' = Without(cs)
    <3>1. PICK cs : serverSubs' = Without(cs)
      BY <2>3
    <3>2. QED
      BY <1>1, <1>2, <3>1, WithoutFacts DEF SubTypes
  <2>4. QED
    BY <1>2, <2>1, <2>2, <2>3
<1>3. ASSUME UNCHANGED <<leaving, state, serverSubs>> PROVE SubTypes'
  BY <1>1, <1>3 DEF SubTypes
<1>4. CASE Ends
  <2>1. state # "closed" /\ leaving' = leaving /\ serverSubs' = serverSubs
    BY <1>4, EndFacts
  <2>2. QED
    BY <1>1, <1>2, <2>1
<1>5. CASE Close
  <2>1. state' = "closed" /\ leaving' = DOMAIN serverSubs /\ serverSubs' = serverSubs
    BY <1>5 DEF Close
  <2>2. QED
    BY <1>1, <2>1 DEF SubTypes
<1>6. CASE ReportClosed
  BY <1>1, <1>6 DEF SubTypes, ReportClosed
<1>7. CASE Connect \/ Open
  BY <1>1, <1>2, <1>7 DEF Connect, Open
<1>8. ASSUME NEW h \in held, Handles(h) PROVE SubTypes'
  <2>1. leaving' = leaving /\ h \in Helds /\ queue \in Seq(SideEvents)
    BY <1>8, HandledFrame DEF SideTypes, WireTypes, SideQueueTypes
  <2>2. leaving # {} => state' = "closed"
    BY <1>1, <1>8, HandledFrame DEF HandleConnect
  <2>3. ASSUME NEW c, StoreSub(h, c) PROVE SubTypes'
    <3>1. c \in Channels /\ Stored(c, h.msg.subs[c]) \in Int \X Nat
      BY <2>3, StoreStep
    <3>2. serverSubs' = serverSubs \/ serverSubs' = With(c, Stored(c, h.msg.subs[c]))
      BY <2>3 DEF StoreSub
    <3>3. QED
      BY <1>2, <2>1, <2>2, <3>1, <3>2
  <2>4. CASE HandleConnect(h)
    BY <1>2, <2>1, <2>2, <2>4, ConnectFacts
  <2>5. CASE RemoveAbsent(h)
    BY <1>2, <2>1, <2>2, <2>5, RemoveFacts
  <2>6. CASE HandlePush(h)
    <3>1. h.msg.type \in {"pub", "subscribe", "unsubscribe"}
      BY <2>6, PushFacts
    <3>2. h.msg.channel \in Channels /\ h.msg.position \in Places
      BY <2>1, <3>1, HeldFields, SideMessageFields
    <3>3. h.msg.channel \in DOMAIN serverSubs
              => Adopted(h.msg.channel, h.msg.position) \in Int \X Nat
      BY <1>1, <3>2, AdoptedTypes
    <3>4. h.msg.position \in Int \X Nat
      BY <3>2, PlacesFacts
    <3>5. \/ serverSubs' = serverSubs
          \/ \E c \in Channels, p \in Int \X Nat : serverSubs' = With(c, p)
          \/ \E cs : serverSubs' = Without(cs)
      BY <2>6, <3>2, <3>3, <3>4, PushFacts
    <3>6. QED
      BY <1>2, <2>1, <2>2, <3>5
  <2>7. QED
    BY <1>8, <2>3, <2>4, <2>5, <2>6 DEF Handles
<1>9. ASSUME NEW n \in Nat, InvalidateConnectionState(n) PROVE SubTypes'
  <2>1. serverSubs' = [c \in DOMAIN serverSubs |-> <<InvalidatedEpoch, 0>>]
            /\ leaving' = leaving
        /\ state' = state
    BY <1>9 DEF InvalidateConnectionState, connection
  <2>2. QED
    BY <1>1, <2>1 DEF SubTypes, InvalidatedEpoch
<1>10. CASE Runs
  <2>1. UNCHANGED <<leaving, state>>
    BY <1>10, RunFrame
  <2>2. CASE RunRecovered
    <3>1. \/ serverSubs' = serverSubs
          \/ \E c \in Channels : /\ c \in DOMAIN serverSubs /\ queue[1].pubs[1] \in Places
                                 /\ serverSubs' = With(c, Adopted(c, queue[1].pubs[1]))
      BY <2>2, RecoveredFacts DEF MayDeliver
    <3>2. \/ serverSubs' = serverSubs
          \/ \E c \in Channels, p \in Int \X Nat : serverSubs' = With(c, p)
      BY <1>1, <3>1, AdoptedTypes
    <3>3. QED
      BY <1>1, <1>2, <2>1, <3>2
  <2>3. QED
    BY <1>3, <1>10, <2>1, <2>2, RunFrame
<1>11. CASE Idles
  BY <1>3, <1>11 DEF Idles, SideSame
<1>12. CASE Take \/ \E c \in Channels : Publishes(c)
  BY <1>3, <1>12, TakeFacts, PushedFacts
<1>13. CASE Invalidated \/ \E c \in Channels : Reset(c)
  BY <1>3, <1>13 DEF Invalidated, Reset, connection
<1>14. QED
  BY <1>4, <1>5, <1>6, <1>7, <1>8, <1>9, <1>10, <1>11, <1>12, <1>13, SideCases

\* The entry of a connected, subscribing or unsubscribed handler is well formed.
LEMMA NoticeTypes ==
  ASSUME NEW k \in {"connected", "subscribing", "unsubscribed"}, NEW cs \in SUBSET Channels,
         NEW n \in Nat, NEW m \in Nat, n <= m
  PROVE  /\ Entry(k, cs, n, <<>>, Unknown, FALSE) \in SideEvents
         /\ Shaped(Entry(k, cs, n, <<>>, Unknown, FALSE), m)
         /\ Entry(k, cs, n, <<>>, Unknown, FALSE).reader = n
<1> DEFINE e == Entry(k, cs, n, <<>>, Unknown, FALSE)
<1>1. e \in SideEvents
  BY EntryTypes, PlacesFacts DEF SideKinds
<1>2. e.kind = k /\ e.reader = n
  BY DEF Entry
<1> HIDE DEF e
<1>3. Shaped(e, m)
  BY <1>2 DEF Shaped, SubKinds
<1>4. QED
  BY <1>1, <1>2, <1>3 DEF e

\* The entry of a subscribed handler is well formed.
LEMMA SubbedTypes ==
  ASSUME NEW k \in SubKinds, NEW c \in Channels, NEW n \in Nat, NEW m \in Nat, n <= m,
         NEW p \in Places
  PROVE  /\ Entry(k, {c}, n, <<>>, p, FALSE) \in SideEvents
         /\ Shaped(Entry(k, {c}, n, <<>>, p, FALSE), m)
         /\ Entry(k, {c}, n, <<>>, p, FALSE).reader = n
<1> DEFINE e == Entry(k, {c}, n, <<>>, p, FALSE)
<1>1. e \in SideEvents
  BY EntryTypes, PlacesFacts DEF SideKinds
<1>2. e.kind = k /\ e.reader = n /\ e.channels = {c}
  BY DEF Entry
<1> HIDE DEF e
<1>3. Shaped(e, m)
  BY <1>2 DEF Shaped, SubKinds
<1>4. QED
  BY <1>1, <1>2, <1>3 DEF e

\* The entry of a publication is well formed.
LEMMA PubbedTypes ==
  ASSUME NEW c \in Channels, NEW n \in Nat, NEW m \in Nat, n <= m, NEW p \in Places,
         NEW stale \in BOOLEAN
  PROVE  /\ Entry("publication", {c}, n, <<p>>, Unknown, stale) \in SideEvents
         /\ Shaped(Entry("publication", {c}, n, <<p>>, Unknown, stale), m)
         /\ Entry("publication", {c}, n, <<p>>, Unknown, stale).reader = n
<1> DEFINE q == <<p>>
           e == Entry("publication", {c}, n, q, Unknown, stale)
<1>1. q \in Seq(Places) /\ Len(q) = 1
  OBVIOUS
<1> HIDE DEF q
<1>2. e \in SideEvents
  BY <1>1, EntryTypes, PlacesFacts DEF SideKinds
<1>3. e.kind = "publication" /\ e.reader = n /\ e.channels = {c} /\ e.pubs = q
  BY DEF Entry
<1> HIDE DEF e
<1>4. Shaped(e, m)
  BY <1>1, <1>3 DEF Shaped, SubKinds
<1>5. QED
  BY <1>2, <1>3, <1>4 DEF e, q

\* The entry of recovered publications is well formed.
LEMMA RecoversTypes ==
  ASSUME NEW c \in Channels, NEW n \in Nat \ {0}, NEW m \in Nat, n <= m, NEW q \in Seq(Places),
         q # <<>>
  PROVE  /\ Entry("publications", {c}, n, q, Unknown, FALSE) \in SideEvents
         /\ Shaped(Entry("publications", {c}, n, q, Unknown, FALSE), m)
         /\ Entry("publications", {c}, n, q, Unknown, FALSE).reader = n
<1> DEFINE e == Entry("publications", {c}, n, q, Unknown, FALSE)
<1>1. e \in SideEvents
  BY EntryTypes, PlacesFacts DEF SideKinds
<1>2. e.kind = "publications" /\ e.reader = n /\ e.channels = {c} /\ e.pubs = q
  BY DEF Entry
<1> HIDE DEF e
<1>3. Shaped(e, m)
  BY <1>2 DEF Shaped, SubKinds
<1>4. QED
  BY <1>1, <1>2, <1>3 DEF e

\* What a reader queues.
Queues(h) ==
  \/ queue' = queue
  \/ \E e \in SideEvents : Shaped(e, connectAttempt) /\ e.reader = h.connection
         /\ queue' = Append(queue, e)
  \/ \E e, f \in SideEvents :
       /\ Shaped(e, connectAttempt) /\ e.reader = h.connection
       /\ Shaped(f, connectAttempt) /\ f.reader = h.connection
       /\ queue' = Append(Append(queue, e), f)

\* ... as every one of them does.
LEMMA HandledQueue ==
  ASSUME SideTypes, NEW h \in held, Handles(h)
  PROVE  Queues(h)
<1>1. h \in Helds /\ queue \in Seq(SideEvents) /\ connectAttempt \in Nat
          /\ h.connection <= connectAttempt
      /\ DOMAIN serverSubs \in SUBSET Channels
  BY DEF SideTypes, WireTypes, SideQueueTypes, SessionTypes, SubTypes
<1>2. h.connection \in Nat \ {0} /\ h.connection \in Nat /\ h.msg \in SideMessages
  BY <1>1, HeldFields
<1> DEFINE n == h.connection
<1>3. n \in Nat /\ n \in Nat \ {0} /\ connectAttempt \in Nat /\ n <= connectAttempt
  BY <1>1, <1>2
<1>4. CASE HandleConnect(h)
  <2> DEFINE e == Entry("connected", {}, n, <<>>, Unknown, FALSE)
  <2>1. e \in SideEvents /\ Shaped(e, connectAttempt)
    BY <1>1, <1>2, NoticeTypes
  <2>2. e.reader = n
    BY DEF Entry
  <2>3. queue' = queue \/ queue' = Append(queue, e)
    BY <1>1, <1>4, ConnectFacts
  <2> HIDE DEF e
  <2>4. QED
    BY <2>1, <2>2, <2>3 DEF Queues
<1>5. ASSUME NEW c, StoreSub(h, c) PROVE Queues(h)
  <2> DEFINE sub == h.msg.subs[c]
             e == Entry(sub.kind, {c}, n, <<>>, <<sub.epoch, sub.offset>>, FALSE)
             f == Entry("publications", {c}, n, sub.pubs, Unknown, FALSE)
  <2>1. /\ c \in Channels /\ sub \in SubReplies
        /\ IsConnectedAttempt(h.connection) =>
              queue' = IF sub.pubs = <<>> THEN Append(queue, e) ELSE Append(Append(queue, e), f)
    BY <1>5, StoreStep
  <2>2. ~IsConnectedAttempt(h.connection) => queue' = queue
    BY <1>5 DEF StoreSub
  <2> HIDE DEF sub
  <2>3. sub.kind \in SubKinds /\ sub.epoch \in Nat /\ sub.offset \in Nat
            /\ sub.pubs \in Seq(Places)
    BY <2>1, SubReplyFields
  <2>4. <<sub.epoch, sub.offset>> \in Places
    BY <2>3, PlacesFacts
  <2>5. c \in Channels
    BY <2>1
  <2>6. e \in SideEvents /\ Shaped(e, connectAttempt) /\ e.reader = n
    <3> DEFINE p == <<sub.epoch, sub.offset>>
               k == sub.kind
    <3>1. p \in Places /\ k \in SubKinds
      BY <2>3, <2>4
    <3> HIDE DEF p, k, n
    <3>2. /\ Entry(k, {c}, n, <<>>, p, FALSE) \in SideEvents
          /\ Shaped(Entry(k, {c}, n, <<>>, p, FALSE), connectAttempt)
          /\ Entry(k, {c}, n, <<>>, p, FALSE).reader = n
      <4>1. Entry(k, {c}, n, <<>>, p, FALSE) \in SideEvents
        BY <1>3, <2>5, <3>1, EntryTypes, PlacesFacts DEF SideKinds
      <4> DEFINE x == Entry(k, {c}, n, <<>>, p, FALSE)
      <4>2. x.kind = k /\ x.reader = n /\ x.channels = {c}
        BY DEF Entry
      <4> HIDE DEF x
      <4>3. Shaped(x, connectAttempt)
        BY <1>3, <2>5, <3>1, <4>2 DEF Shaped, SubKinds
      <4>4. QED
        BY <4>1, <4>2, <4>3 DEF x
    <3>3. QED
      BY <3>2 DEF p, k
  <2>7. sub.pubs # <<>> => f \in SideEvents /\ Shaped(f, connectAttempt) /\ f.reader = n
    BY <1>1, <1>2, <2>1, <2>3, RecoversTypes
  <2> HIDE DEF e, f
  <2>8. QED
    BY <2>1, <2>2, <2>6, <2>7 DEF Queues
<1>6. CASE RemoveAbsent(h)
  <2> DEFINE gone == Absent(h.msg.subs)
             e == Entry("unsubscribed", gone, n, <<>>, Unknown, FALSE)
  <2>1. gone \in SUBSET Channels
    BY <1>1 DEF Absent
  <2>2. queue' = queue \/ queue' = Append(queue, e)
    BY <1>6, RemoveFacts
  <2> HIDE DEF gone
  <2>3. e \in SideEvents /\ Shaped(e, connectAttempt) /\ e.reader = n
    BY <1>1, <1>2, <2>1, NoticeTypes
  <2> HIDE DEF e
  <2>4. QED
    BY <2>2, <2>3 DEF Queues
<1>7. CASE HandlePush(h)
  <2> DEFINE c == h.msg.channel
             p == h.msg.position
             x == Entry("publication", {c}, n, <<p>>, Unknown, Stale(h))
             y == Entry("unrecovered", {c}, n, <<>>, p, FALSE)
             z == Entry("unsubscribed", {c}, n, <<>>, Unknown, FALSE)
  <2>1. h.msg.type # "connect"
    BY <1>7, PushFacts
  <2>2. c \in Channels /\ p \in Places /\ {c} \in SUBSET Channels
    BY <1>2, <2>1, SideMessageFields
  <2>3. "unrecovered" \in SubKinds
    BY DEF SubKinds
  <2>4. "unsubscribed" \in {"connected", "subscribing", "unsubscribed"}
    OBVIOUS
  <2>5. Stale(h) \in BOOLEAN
    BY DEF Stale
  <2> DEFINE w == Stale(h)
  <2>6. queue' = queue \/ queue' = Append(queue, x) \/ queue' = Append(queue, y)
            \/ queue' = Append(queue, z)
    BY <1>7, PushFacts
  <2>7. x \in SideEvents /\ Shaped(x, connectAttempt) /\ x.reader = n
    <3>1. w \in BOOLEAN
      BY <2>5
    <3> HIDE DEF c, p, w, n
    <3>2. QED
      BY <1>3, <2>2, <3>1, PubbedTypes DEF w
  <2>8. y \in SideEvents /\ Shaped(y, connectAttempt) /\ y.reader = n
    <3> DEFINE k == "unrecovered"
    <3>1. k \in SubKinds
      BY <2>3
    <3>2. y = Entry(k, {c}, n, <<>>, p, FALSE)
      OBVIOUS
    <3> HIDE DEF c, p, n, k
    <3>3. y \in SideEvents
      BY <1>3, <2>2, <3>1, <3>2, EntryTypes, PlacesFacts DEF SideKinds
    <3>4. y.kind = k /\ y.reader = n /\ y.channels = {c}
      BY <3>2 DEF Entry
    <3> HIDE DEF y
    <3>5. Shaped(y, connectAttempt)
      BY <1>3, <2>2, <3>1, <3>4 DEF Shaped, SubKinds
    <3>6. QED
      BY <3>3, <3>4, <3>5
  <2>9. z \in SideEvents /\ Shaped(z, connectAttempt) /\ z.reader = n
    BY <1>1, <1>2, <2>2, <2>4, NoticeTypes, Zenon
  <2> HIDE DEF x, y, z
  <2>10. QED
    BY <2>6, <2>7, <2>8, <2>9 DEF Queues
<1>8. QED
  BY <1>4, <1>5, <1>6, <1>7 DEF Handles

\* A well formed entry may come first.
LEMMA ShapedCons ==
  ASSUME NEW q \in Seq(SideEvents), NEW n, \A i \in 1..Len(q) : Shaped(q[i], n),
         NEW r \in SideEvents, Shaped(r, n)
  PROVE  /\ <<r>> \o q \in Seq(SideEvents)
         /\ \A i \in 1..Len(<<r>> \o q) : Shaped((<<r>> \o q)[i], n)
<1> DEFINE s == <<r>> \o q
<1>1. /\ s \in Seq(SideEvents) /\ Len(s) = Len(q) + 1 /\ Len(q) \in Nat /\ s[1] = r
      /\ \A i \in 2..Len(s) : s[i] = q[i - 1]
  OBVIOUS
<1> HIDE DEF s
<1>2. \A i \in 1..Len(s) : i = 1 \/ (i \in 2..Len(s) /\ i - 1 \in 1..Len(q))
  BY <1>1
<1>3. \A i \in 1..Len(s) : Shaped(s[i], n)
  BY <1>1, <1>2
<1>4. QED
  BY <1>1, <1>3 DEF s

\* SideQueueTypes is kept.
LEMMA SideQueueStep ==
  ASSUME SideTypes, [Next]_vars
  PROVE  SideQueueTypes'
<1>1. /\ queue \in Seq(SideEvents)
             /\ (\A i \in 1..Len(queue) : Shaped(queue[i], connectAttempt))
      /\ DOMAIN serverSubs \in SUBSET Channels /\ leaving \in SUBSET Channels
  BY DEF SideTypes, SideQueueTypes, SubTypes
<1>2. connectAttempt \in Nat /\ connectAttempt' \in {connectAttempt, connectAttempt + 1}
  BY AttemptGrows
<1>3. connectAttempt' \in Nat /\ connectAttempt <= connectAttempt' /\ 0 <= connectAttempt'
          /\ 0 \in Nat
  BY <1>2
<1>4. ASSUME queue' = queue PROVE SideQueueTypes'
  <2>1. \A i \in 1..Len(queue) : Shaped(queue[i], connectAttempt')
    <3>1. \A i \in 1..Len(queue) : queue[i].reader \in Nat
      BY <1>1, SideEventFields
    <3>2. QED
      BY <1>1, <1>2, <3>1 DEF Shaped
  <2>2. QED
    BY <1>1, <1>4, <2>1 DEF SideQueueTypes
<1>5. ASSUME NEW e \in SideEvents, Shaped(e, connectAttempt'), queue' = Append(queue, e)
      PROVE  SideQueueTypes'
  BY <1>1, <1>2, <1>3, <1>5, ShapedAppend DEF SideQueueTypes
<1>6. CASE Ends
  <2> DEFINE e == Entry("subscribing", DOMAIN serverSubs, 0, <<>>, Unknown, FALSE)
  <2>1. e \in SideEvents /\ Shaped(e, connectAttempt')
    BY <1>1, <1>3, NoticeTypes
  <2>2. queue' = queue \/ queue' = Append(queue, e)
    BY <1>6, EndFacts
  <2> HIDE DEF e
  <2>3. QED
    BY <1>4, <1>5, <2>1, <2>2
<1>7. CASE ReportClosed
  <2> DEFINE e == Entry("unsubscribed", leaving, 0, <<>>, Unknown, FALSE)
  <2>1. e \in SideEvents /\ Shaped(e, connectAttempt')
    BY <1>1, <1>3, NoticeTypes
  <2>2. queue' = Append(queue, e)
    BY <1>7, EntryPlain DEF ReportClosed
  <2> HIDE DEF e
  <2>3. QED
    BY <1>5, <2>1, <2>2
<1>8. ASSUME NEW h \in held, Handles(h) PROVE SideQueueTypes'
  <2>1. connectAttempt' = connectAttempt /\ Queues(h)
    BY <1>8, HandledFrame, HandledQueue
  <2>2. CASE \E e, f \in SideEvents :
                 /\ Shaped(e, connectAttempt) /\ e.reader = h.connection
                 /\ Shaped(f, connectAttempt) /\ f.reader = h.connection
                 /\ queue' = Append(Append(queue, e), f)
    <3>1. PICK e \in SideEvents, f \in SideEvents :
                 /\ Shaped(e, connectAttempt) /\ Shaped(f, connectAttempt)
                 /\ queue' = Append(Append(queue, e), f)
      BY <2>2
    <3> DEFINE q == Append(queue, e)
    <3>2. connectAttempt <= connectAttempt
      BY <1>2
    <3>3. q \in Seq(SideEvents) /\ \A i \in 1..Len(q) : Shaped(q[i], connectAttempt)
      BY <1>1, <1>2, <3>1, <3>2, ShapedAppend
    <3>4. queue' = Append(q, f)
      BY <3>1
    <3> HIDE DEF q
    <3>5. QED
      BY <1>2, <2>1, <3>1, <3>2, <3>3, <3>4, ShapedAppend DEF SideQueueTypes
  <2>3. QED
    BY <1>4, <1>5, <2>1, <2>2 DEF Queues
<1>9. CASE Runs
  <2>1. queue # <<>> /\ connectAttempt' = connectAttempt
    BY <1>9, RunFrame
  <2>2. Tail(queue) \in Seq(SideEvents)
            /\ \A i \in 1..Len(Tail(queue)) : Shaped(Tail(queue)[i], connectAttempt)
    BY <2>1, FirstEvent
  <2>3. CASE queue' = Tail(queue)
    BY <2>1, <2>2, <2>3 DEF SideQueueTypes
  <2>4. CASE RunRecovered /\ queue' # Tail(queue)
    <3>1. PICK r \in SideEvents :
               /\ queue' = <<r>> \o Tail(queue) /\ r.kind = "publications"
                      /\ r.reader = queue[1].reader
               /\ r.pubs # <<>> /\ \E c \in Channels : r.channels = {c}
      BY <2>4, RecoveredFacts
    <3>2. Shaped(queue[1], connectAttempt) /\ queue[1].kind = "publications"
      BY <2>1, <2>4, FirstEvent, RecoveredFacts
    <3>3. Shaped(r, connectAttempt)
      BY <3>1, <3>2 DEF Shaped
    <3>4. QED
      BY <2>1, <2>2, <3>1, <3>3, ShapedCons DEF SideQueueTypes
  <2>5. QED
    BY <1>9, <2>3, <2>4 DEF Runs, RunNotice, RunSubscribed, RunPublication
<1>10. CASE Idles \/ Take \/ Open \/ \E c \in Channels : Publishes(c)
  BY <1>4, <1>10, TakeFacts, OpenFacts, PushedFacts DEF Idles, SideSame
<1>11. CASE Connect \/ Close \/ Invalidated \/ (\E n \in Nat : InvalidateConnectionState(n))
            \/ \E c \in Channels : Reset(c)
  BY <1>4, <1>11 DEF Connect, Close, Invalidated, InvalidateConnectionState, Reset
<1>12. QED
  BY <1>6, <1>7, <1>8, <1>9, <1>10, <1>11, SideCases

\* ToldTypes and PastTypes are kept.
LEMMA ToldTypesStep ==
  ASSUME SideTypes, [Next]_vars
  PROVE  ToldTypes' /\ PastTypes'
<1>1. /\ told \in [Channels -> Notices] /\ seen \in [Channels -> Places]
             /\ reloads \in [Channels -> Nat]
      /\ strayed \in BOOLEAN /\ late \in BOOLEAN
  BY DEF SideTypes, ToldTypes, PastTypes
<1>2. ASSUME UNCHANGED <<told, seen, reloads>> PROVE ToldTypes'
  BY <1>1, <1>2 DEF ToldTypes
<1>3. ASSUME UNCHANGED <<strayed, late>> PROVE PastTypes'
  BY <1>1, <1>3 DEF PastTypes
<1>4. CASE Runs
  <2>1. /\ queue[1] \in SideEvents /\ Shaped(queue[1], connectAttempt) /\ Head(queue) = queue[1]
    BY <1>4, RunFrame, FirstEvent
  <2>2. /\ queue[1].kind \in SideKinds /\ queue[1].pubs \in Seq(Places)
               /\ queue[1].position \in Places
        /\ queue[1].channels \subseteq Channels
    BY <2>1, SideEventFields
  <2>3. UNCHANGED <<strayed, late>>
    BY <1>4, RunFrame
  <2>4. CASE RunNotice
    <3>1. told' = [c \in Channels |-> IF c \in queue[1].channels THEN queue[1].kind
              ELSE told[c]]
          /\ queue[1].kind \in Notices /\ UNCHANGED <<seen, reloads>>
      BY <2>1, <2>4 DEF RunNotice, Notices
    <3>2. told' \in [Channels -> Notices]
      BY <1>1, <3>1
    <3>3. QED
      BY <1>1, <1>3, <2>3, <3>1, <3>2 DEF ToldTypes
  <2>5. CASE RunSubscribed
    <3>1. PICK c \in queue[1].channels :
            /\ told' = [told EXCEPT ![c] = "subscribed"]
            /\ \/ UNCHANGED <<seen, reloads>>
               \/ /\ seen' = [seen EXCEPT ![c] = queue[1].position]
                  /\ reloads' = [reloads EXCEPT ![c] = @ + 1]
      BY <2>1, <2>5 DEF RunSubscribed
    <3>2. "subscribed" \in Notices /\ c \in Channels
      BY <2>2, <3>1 DEF Notices
    <3>3. told' \in [Channels -> Notices] /\ seen' \in [Channels -> Places]
              /\ reloads' \in [Channels -> Nat]
      BY <1>1, <2>2, <3>1, <3>2
    <3>4. QED
      BY <1>3, <2>3, <3>3 DEF ToldTypes
  <2>6. CASE RunPublication
    <3>1. PICK c \in queue[1].channels :
            /\ seen' = [seen EXCEPT ![c] = IF queue[1].stale THEN Unknown ELSE queue[1].pubs[1]]
            /\ reloads' = reloads \/ reloads' = [reloads EXCEPT ![c] = @ + 1]
            /\ told' = told
      BY <2>1, <2>6 DEF RunPublication
    <3>2. queue[1].kind = "publication"
      BY <2>1, <2>6 DEF RunPublication
    <3>3. queue[1].pubs[1] \in Places /\ c \in Channels
      BY <2>1, <2>2, <3>1, <3>2 DEF Shaped
    <3>4. (IF queue[1].stale THEN Unknown ELSE queue[1].pubs[1]) \in Places
      BY <3>3, PlacesFacts
    <3>5. seen' \in [Channels -> Places] /\ reloads' \in [Channels -> Nat]
      BY <1>1, <3>1, <3>3, <3>4
    <3>6. QED
      BY <1>1, <1>3, <2>3, <3>1, <3>5 DEF ToldTypes
  <2>7. CASE RunRecovered
    <3>1. UNCHANGED <<told, reloads>> /\ \E c \in Channels :
            \/ seen' = [seen EXCEPT ![c] = queue[1].pubs[1]] /\ queue[1].pubs[1] \in Places
            \/ seen' = seen
      BY <2>7, RecoveredFacts
    <3>2. seen' \in [Channels -> Places]
      BY <1>1, <3>1
    <3>3. QED
      BY <1>1, <1>3, <2>3, <3>1, <3>2 DEF ToldTypes
  <2>8. QED
    BY <1>4, <2>4, <2>5, <2>6, <2>7 DEF Runs
<1>5. ASSUME NEW h \in held, Handles(h) PROVE ToldTypes' /\ PastTypes'
  <2>1. UNCHANGED <<told, seen, reloads>> /\ late' = late
    BY <1>5, HandledFrame
  <2>2. strayed' \in BOOLEAN
    <3>1. Stale(h) \in BOOLEAN
      BY DEF Stale
    <3>2. (strayed \/ Stale(h)) \in BOOLEAN
      BY <1>1, <3>1
    <3>3. strayed' = strayed \/ strayed' = (strayed \/ Stale(h))
      BY <1>5, HandledFrame, PushFacts, Zenon
    <3>4. QED
      BY <1>1, <3>2, <3>3, Zenon
  <2>3. QED
    BY <1>1, <1>2, <2>1, <2>2 DEF PastTypes
<1>6. ASSUME NEW n \in Nat, InvalidateConnectionState(n) PROVE ToldTypes' /\ PastTypes'
  <2>1. late' \in BOOLEAN /\ UNCHANGED <<told, seen, reloads, strayed>>
    BY <1>6 DEF InvalidateConnectionState, application
  <2>2. QED
    BY <1>1, <1>2, <2>1 DEF PastTypes
<1>7. CASE Idles \/ Take \/ Open \/ Ends \/ \E c \in Channels : Publishes(c)
  BY <1>2, <1>3, <1>7, TakeFacts, OpenFacts, PushedFacts, EndFacts DEF Idles, SideSame
<1>8. CASE Connect \/ Close \/ Invalidated \/ ReportClosed \/ \E c \in Channels : Reset(c)
  BY <1>2, <1>3, <1>8 DEF Connect, Close, Invalidated, ReportClosed, Reset, application
<1>9. QED
  BY <1>4, <1>5, <1>6, <1>7, <1>8, SideCases

\* SideTypes is kept.
LEMMA SideTypesStep ==
  ASSUME SideTypes, [Next]_vars
  PROVE  SideTypes'
BY StreamTypesStep, SessionTypesStep, WireTypesStep, SubTypesStep, SideQueueStep,
   ToldTypesStep
   DEF SideTypes

\* A reader holds one message.
SideReader == \A h, k \in held : h.connection = k.connection => h = k

\* The reader of connection n holds nothing.
Idle(H, n) == \A h \in H : h.connection # n

\* The connect reply is the first message of a connection, and the client is connected
\* once it has been handled: no push of the connection is handled before.
OpensFirst(st, n, H, w) ==
  /\ \A h \in H : h.connection = n =>
       IF h.msg.type = "connect" THEN h.started <=> st = "connected" ELSE st = "connected"
  /\ \A i \in 1..Len(w) : w[i].type = "connect" <=> (st = "opening" /\ i = 1 /\ Idle(H, n))
  /\ st = "opening" /\ Idle(H, n) => w # <<>>

\* ... on the current connection.
SideOpen == Linked => OpensFirst(state, connectAttempt, held, wire)

\* SideReader is kept: a reader takes a message when it has finished the one before.
LEMMA SideReaderStep ==
  ASSUME SideTypes, SideReader, [Next]_vars
  PROVE  SideReader'
<1>1. CASE Take
  <2>1. PICK g \in Helds : held' = held \cup {g} /\ g.connection = connectAttempt
    BY <1>1, TakeFacts
  <2>2. \A h \in held : h.connection # connectAttempt
    BY <1>1, TakeFacts DEF ReaderFree
  <2>3. QED
    BY <2>1, <2>2 DEF SideReader
<1>2. ASSUME NEW h \in held, Handles(h) PROVE SideReader'
  <2>1. held' = held \ {h} \/ \E g \in Helds : held' = (held \ {h}) \cup {g}
            /\ g.connection = h.connection
    BY <1>2, HandledHeld
  <2>2. \A k \in held \ {h} : k.connection # h.connection
    BY DEF SideReader
  <2>3. QED
    BY <2>1, <2>2 DEF SideReader
<1>3. CASE held' = held
  BY <1>3 DEF SideReader
<1>4. CASE Idles \/ Runs \/ Open \/ Ends \/ \E c \in Channels : Publishes(c)
  BY <1>3, <1>4, RunFrame, OpenFacts, PushedFacts, EndFacts DEF Idles, SideSame
<1>5. CASE Connect \/ Close \/ Invalidated \/ ReportClosed \/ (\E c \in Channels : Reset(c))
           \/ \E n \in Nat : InvalidateConnectionState(n)
  BY <1>3, <1>5
     DEF Connect, Close, Invalidated, ReportClosed, Reset, InvalidateConnectionState
<1>6. QED
  BY <1>1, <1>2, <1>4, <1>5, SideCases

\* A message of the current connection is handled while the client is connected by it.
LEMMA CurrentHandled ==
  ASSUME SideTypes, SideOpen, Linked, NEW h \in held, Handles(h), h.connection = connectAttempt
  PROVE  /\ state' = "connected"
         /\ HandleConnect(h) => state = "opening"
         /\ ~HandleConnect(h) => IsConnectedAttempt(h.connection) /\ ~Stale(h)
<1>1. h \in Helds
  BY DEF SideTypes, WireTypes
<1>2. IF h.msg.type = "connect" THEN h.started <=> state = "connected" ELSE state = "connected"
  BY DEF SideOpen, OpensFirst
<1>3. CASE HandleConnect(h)
  <2>1. state = "opening"
    BY <1>1, <1>2, <1>3, ConnectFacts DEF Linked
  <2>2. QED
    BY <1>1, <1>3, <2>1, ConnectFacts
<1>4. CASE ~HandleConnect(h)
  <2>1. state = "connected"
    <3>1. CASE \E c \in h.todo : StoreSub(h, c)
      BY <1>2, <3>1 DEF StoreSub
    <3>2. CASE RemoveAbsent(h)
      BY <1>2, <3>2 DEF RemoveAbsent
    <3>3. CASE HandlePush(h)
      BY <1>2, <3>3, PushFacts
    <3>4. QED
      BY <1>4, <3>1, <3>2, <3>3 DEF Handles
  <2>2. QED
    BY <1>4, <2>1, HandledFrame DEF IsConnectedAttempt, Stale
<1>5. QED
  BY <1>3, <1>4

\* SideOpen is kept.
LEMMA SideOpenStep ==
  ASSUME SideTypes, SideReader, SideOpen, [Next]_vars
  PROVE  SideOpen'
<1>1. ASSUME ~Linked' PROVE SideOpen'
  BY <1>1 DEF SideOpen
<1>2. ASSUME UNCHANGED <<state, connectAttempt, held, wire>> PROVE SideOpen'
  BY <1>2 DEF SideOpen, Linked
<1>3. CASE Open
  <2>1. connectAttempt \in Nat /\ \A h \in held : h \in Helds /\ h.connection <= connectAttempt
    BY DEF SideTypes, SessionTypes, WireTypes
  <2>2. \A h \in held : h.connection # connectAttempt + 1
    BY <2>1, HeldFields
  <2>3. PICK m : wire' = <<m>> /\ m.type = "connect" /\ state' = "opening" /\ held' = held
                 /\ connectAttempt' = connectAttempt + 1
    BY <1>3, OpenFacts
  <2>4. /\ Len(wire') = 1 /\ wire'[1] = m /\ wire' # <<>> /\ \A i \in 1..1 : i = 1
    BY <2>3
  <2>5. QED
    BY <2>2, <2>3, <2>4 DEF SideOpen, OpensFirst, Idle
<1>4. CASE Take
  <2>1. /\ wire # <<>> /\ wire' = Tail(wire) /\ UNCHANGED <<state, connectAttempt>> /\ Linked
        /\ wire \in Seq(SideMessages) /\ Idle(held, connectAttempt)
    BY <1>4, TakeFacts DEF ReaderFree, Idle
  <2>2. PICK h \in Helds : held' = held \cup {h} /\ h.connection = connectAttempt
            /\ h.msg = wire[1]
                           /\ h.started = FALSE
    BY <1>4, TakeFacts
  <2>3. /\ \A i \in 1..Len(wire) : wire[i].type = "connect" <=> (state = "opening" /\ i = 1)
    BY <2>1 DEF SideOpen, OpensFirst
  <2>4. /\ Len(wire) \in Nat /\ Len(wire) # 0 /\ Len(Tail(wire)) = Len(wire) - 1
        /\ \A i \in 1..Len(Tail(wire)) : Tail(wire)[i] = wire[i + 1]
    BY <2>1, SeqFacts
  <2>5. 1 \in 1..Len(wire) /\ \A i \in 1..Len(Tail(wire)) : i + 1 \in 1..Len(wire) /\ i + 1 # 1
    BY <2>4
  <2>6. \A i \in 1..Len(wire') : wire'[i].type # "connect"
    BY <2>1, <2>3, <2>4, <2>5
  <2>7. IF h.msg.type = "connect" THEN h.started <=> state = "connected"
            ELSE state = "connected"
    BY <2>1, <2>2, <2>3, <2>5 DEF Linked
  <2>8. ~Idle(held', connectAttempt')
    BY <2>1, <2>2 DEF Idle
  <2>9. \A k \in held' : k.connection = connectAttempt' =>
          IF k.msg.type = "connect" THEN k.started <=> state' = "connected"
              ELSE state' = "connected"
    BY <2>1, <2>2, <2>7 DEF Idle
  <2>10. QED
    BY <2>6, <2>8, <2>9 DEF SideOpen, OpensFirst
<1>5. ASSUME NEW h \in held, Handles(h), Linked PROVE SideOpen'
  <2>1. UNCHANGED <<connectAttempt, wire>> /\ (state' = state \/ HandleConnect(h))
            /\ h \in Helds
    BY <1>5, HandledFrame DEF SideTypes, WireTypes
  <2>2. OpensFirst(state, connectAttempt, held, wire)
    BY <1>5 DEF SideOpen
  <2>3. \A k \in held \ {h} : k.connection # h.connection
    BY DEF SideReader
  <2>4. \/ held' = held \ {h}
        \/ \E g \in Helds :
                 /\ held' = (held \ {h}) \cup {g} /\ g.connection = h.connection
                        /\ g.msg = h.msg
                 /\ g.started = TRUE /\ h.msg.type = "connect"
    BY <1>5, HandledHeld
  <2>5. CASE h.connection = connectAttempt
    <3>1. state' = "connected"
      BY <1>5, <2>5, CurrentHandled
    <3>2. \A k \in held' : k.connection = connectAttempt =>
            k.msg.type = "connect" /\ k.started
      BY <2>3, <2>4, <2>5
    <3>3. \A i \in 1..Len(wire) : wire[i].type # "connect"
      BY <2>2, <2>5 DEF OpensFirst, Idle
    <3>4. QED
      BY <2>1, <3>1, <3>2, <3>3 DEF SideOpen, OpensFirst
  <2>6. CASE h.connection # connectAttempt
    <3>1. state' = state
      BY <2>1, <2>6, ConnectFacts
    <3>2. \A k \in held' : k.connection = connectAttempt => k \in held
      BY <2>4, <2>6
    <3>3. Idle(held', connectAttempt) <=> Idle(held, connectAttempt)
      BY <2>4, <2>6 DEF Idle
    <3>4. QED
      BY <2>1, <2>2, <3>1, <3>2, <3>3 DEF SideOpen, OpensFirst
  <2>7. QED
    BY <2>5, <2>6
<1>6. ASSUME NEW h \in held, Handles(h), ~Linked PROVE SideOpen'
  <2>1. state' = state
    <3>1. h \in Helds
      BY DEF SideTypes, WireTypes
    <3>2. HandleConnect(h) => state' = state
      BY <1>6, <3>1, ConnectFacts DEF Linked
    <3>3. QED
      BY <1>6, <3>2, HandledFrame
  <2>2. QED
    BY <1>1, <1>6, <2>1 DEF Linked
<1>7. ASSUME NEW c \in Channels, Publishes(c) PROVE SideOpen'
  <2>1. UNCHANGED <<state, connectAttempt, held>> /\ wire \in Seq(SideMessages)
    BY <1>7, PushedFacts DEF SideTypes, WireTypes
  <2>2. CASE wire' = wire
    BY <1>2, <2>1, <2>2
  <2>3. CASE wire' # wire /\ Linked
    <3>1. PICK t \in {"pub", "subscribe", "unsubscribe"}, p \in Places :
            wire' = Append(wire, [type |-> t, channel |-> c, position |-> p])
      BY <1>7, <2>3, PushedFacts
    <3> DEFINE m == [type |-> t, channel |-> c, position |-> p]
    <3>2. m \in SideMessages /\ m.type # "connect" /\ wire' = Append(wire, m)
      BY <3>1, PushTypes
    <3> HIDE DEF m
    <3>3. /\ Len(wire') = Len(wire) + 1 /\ Len(wire) \in Nat /\ wire'[Len(wire) + 1] = m
          /\ \A i \in 1..Len(wire) : wire'[i] = wire[i]
      BY <2>1, <3>2, AppendFacts
    <3>4. OpensFirst(state, connectAttempt, held, wire)
      BY <2>3 DEF SideOpen
    <3>5. state = "opening" /\ Idle(held, connectAttempt) => Len(wire) # 0
      BY <2>1, <3>4 DEF OpensFirst
    <3>6. /\ \A i \in 1..Len(wire') : i \in 1..Len(wire) \/ i = Len(wire) + 1
          /\ Len(wire') # 0
      BY <3>3
    <3>7. \A i \in 1..Len(wire') : wire'[i].type = "connect" <=> (state = "opening"
              /\ i = 1 /\ Idle(held, connectAttempt))
      <4>1. ASSUME NEW i \in 1..Len(wire), i \in 1..Len(wire')
            PROVE  wire'[i].type = "connect" <=> (state = "opening" /\ i = 1
                       /\ Idle(held, connectAttempt))
        BY <3>3, <3>4 DEF OpensFirst
      <4>2. Len(wire) + 1 = 1 => Len(wire) = 0
        BY <3>3
      <4>3. wire'[Len(wire) + 1].type = "connect"
            <=> (state = "opening" /\ Len(wire) + 1 = 1 /\ Idle(held, connectAttempt))
        BY <3>2, <3>3, <3>5, <4>2
      <4>4. QED
        BY <3>6, <4>1, <4>3
    <3>8. wire' # <<>>
      BY <3>6
    <3>9. QED
      BY <2>1, <3>4, <3>7, <3>8 DEF SideOpen, OpensFirst
  <2>4. CASE ~Linked
    BY <1>1, <2>1, <2>4 DEF Linked
  <2>5. QED
    BY <2>2, <2>3, <2>4
<1>8. CASE Ends \/ Close \/ Connect
  BY <1>1, <1>8, EndFacts DEF Close, Connect, Linked
<1>9. CASE Idles \/ Runs
  BY <1>2, <1>9, RunFrame DEF Idles, SideSame
<1>10. CASE Invalidated \/ ReportClosed \/ (\E c \in Channels : Reset(c))
           \/ \E n \in Nat : InvalidateConnectionState(n)
  BY <1>2, <1>10
     DEF Invalidated, ReportClosed, Reset, InvalidateConnectionState, connection
<1>11. QED
  BY <1>3, <1>4, <1>5, <1>6, <1>7, <1>8, <1>9, <1>10, SideCases

\* A connect reply that has come to an end for a channel it has.
Handled(h, c) == h.msg.type = "connect" /\ h.started /\ c \in DOMAIN h.msg.subs
    /\ c \notin h.todo

\* What readers of the current connection have yet to do for a channel.
HeldFor(c) == {h \in held : h.connection = connectAttempt /\ ~Handled(h, c)}

\* The connect reply has not said yet what becomes of the channel.
Pending(c) == state = "opening" \/ \E h \in HeldFor(c) : h.msg.type = "connect"

\* The subscription of a channel stays what it is.
SubSame(c) ==
  /\ c \in DOMAIN serverSubs' <=> c \in DOMAIN serverSubs
  /\ c \in DOMAIN serverSubs => serverSubs'[c] = serverSubs[c]

\* What is appended to the queue is not about the channel.
QueueQuiet(c) ==
  \/ queue' = queue
  \/ \E e \in SideEvents : c \notin e.channels /\ queue' = Append(queue, e)
  \/ \E e, f \in SideEvents :
       c \notin e.channels /\ c \notin f.channels /\ queue' = Append(Append(queue, e), f)

\* What readers have yet to do for a channel stays the same.
HandQuiet(c) ==
  /\ state' = state \/ (state = "opening" /\ state' = "connected")
  /\ Linked => /\ Pending(c)' <=> Pending(c)
               /\ \A h \in HeldFor(c) : \E g \in HeldFor(c)' : g.msg = h.msg
               /\ \A g \in HeldFor(c)' : \E h \in HeldFor(c) : g.msg = h.msg

\* A step does nothing about a channel.
Quiet(c) == SubSame(c) /\ QueueQuiet(c) /\ HandQuiet(c)

\* The part of a message about a channel is handled.
Stores(h, c) ==
  LET sub == h.msg.subs[c]
      e == Entry(sub.kind, {c}, h.connection, <<>>, <<sub.epoch, sub.offset>>, FALSE)
      f == Entry("publications", {c}, h.connection, sub.pubs, Unknown, FALSE)
  IN /\ h.msg.type = "connect" /\ c \in DOMAIN h.msg.subs
     /\ serverSubs' = With(c, Stored(c, sub))
     /\ queue' = IF sub.pubs = <<>> THEN Append(queue, e) ELSE Append(Append(queue, e), f)
     /\ strayed' = strayed /\ EventsRan(h.connection)

\* A reader removes a channel the connect reply does not have.
Removes(h, c) ==
  /\ h.msg.type = "connect" /\ c \notin DOMAIN h.msg.subs /\ c \notin DOMAIN serverSubs'
  /\ strayed' = strayed
  /\ \/ c \notin DOMAIN serverSubs /\ QueueQuiet(c)
     \/ /\ c \in DOMAIN serverSubs
        /\ \E e \in SideEvents : /\ c \in e.channels /\ e.kind = "unsubscribed"
                                 /\ queue' = Append(queue, e)

\* A reader handles a push of the channel.
Pushes(h, c) ==
  /\ h.msg.type \in {"pub", "subscribe", "unsubscribe"} /\ h.msg.channel = c
  /\ \/ /\ h.msg.type = "pub" /\ c \in DOMAIN serverSubs
        /\ serverSubs' = With(c, Adopted(c, h.msg.position))
        /\ queue' = Append(queue, Entry("publication", {c}, h.connection, <<h.msg.position>>,
                                        Unknown, FALSE))
     \/ /\ h.msg.type = "subscribe" /\ c \notin DOMAIN serverSubs
        /\ serverSubs' = With(c, h.msg.position)
        /\ queue' = Append(queue, Entry("unrecovered", {c}, h.connection, <<>>,
                                        h.msg.position, FALSE))
     \/ /\ h.msg.type = "unsubscribe" /\ c \in DOMAIN serverSubs
        /\ serverSubs' = Without({c})
        /\ queue' = Append(queue, Entry("unsubscribed", {c}, h.connection, <<>>, Unknown,
           FALSE))
     \/ /\ c \in DOMAIN serverSubs <=> h.msg.type = "subscribe"
        /\ UNCHANGED <<serverSubs, queue>>

\* A reader handles a push of another channel.
Others(h, c) ==
  /\ h.msg.type \in {"pub", "subscribe", "unsubscribe"} /\ h.msg.channel # c
  /\ SubSame(c) /\ QueueQuiet(c)

\* A reader does, on the current connection, what it had yet to do for a channel.
Consumes(h, c) ==
  /\ Linked /\ h \in HeldFor(c) /\ HeldFor(c) = {h} /\ HeldFor(c)' = {}
  /\ state = "connected" /\ state' = "connected" /\ h.connection = connectAttempt
  /\ Stores(h, c) \/ Removes(h, c) \/ Pushes(h, c) \/ Others(h, c)

\* What is to be done for a channel is the one message the current reader holds.
LEMMA HeldForOne ==
  ASSUME SideTypes, SideReader, NEW h \in held, h.connection = connectAttempt, NEW c,
         connectAttempt' = connectAttempt
  PROVE  /\ HeldFor(c) = IF Handled(h, c) THEN {} ELSE {h}
         /\ held' = held \ {h} => HeldFor(c)' = {}
         /\ \A g : held' = (held \ {h}) \cup {g} /\ g.connection = h.connection =>
              HeldFor(c)' = IF Handled(g, c) THEN {} ELSE {g}
<1>1. \A k \in held : k.connection = connectAttempt <=> k = h
  BY DEF SideReader
<1>2. HeldFor(c) = IF Handled(h, c) THEN {} ELSE {h}
  BY <1>1 DEF HeldFor
<1>3. ASSUME held' = held \ {h} PROVE HeldFor(c)' = {}
  BY <1>1, <1>3 DEF HeldFor
<1>4. ASSUME NEW g, held' = (held \ {h}) \cup {g}, g.connection = h.connection
      PROVE  HeldFor(c)' = IF Handled(g, c) THEN {} ELSE {g}
  <2>1. HeldFor(c)' = {k \in held' : k.connection = connectAttempt /\ ~Handled(k, c)}
    BY DEF HeldFor, Handled
  <2>2. \A k \in held' : k.connection = connectAttempt <=> k = g
    BY <1>1, <1>4
  <2>3. g \in held'
    BY <1>4
  <2>4. QED
    BY <2>1, <2>2, <2>3
<1>5. QED
  BY <1>2, <1>3, <1>4

\* Messages of former connections do not matter for what is to be done.
LEMMA HandKept ==
  ASSUME NEW c, UNCHANGED <<state, connectAttempt>>,
         \A k : k.connection = connectAttempt => (k \in held' <=> k \in held)
  PROVE  HandQuiet(c)
<1>1. HeldFor(c)' = HeldFor(c)
  BY DEF HeldFor, Handled
<1>2. Pending(c)' <=> Pending(c)
  BY <1>1 DEF Pending
<1>3. QED
  BY <1>1, <1>2 DEF HandQuiet

\* Neither does finishing one of them.
LEMMA HandFinished ==
  ASSUME NEW h \in held, held' = held \ {h}, NEW c, UNCHANGED <<state, connectAttempt>>,
         h.connection # connectAttempt \/ ~Linked
  PROVE  HandQuiet(c)
<1>1. CASE ~Linked
  BY <1>1 DEF HandQuiet
<1>2. CASE h.connection # connectAttempt
  BY <1>2, HandKept
<1>3. QED
  BY <1>1, <1>2

\* The first step of a connect reply does nothing about a channel.
LEMMA ConnectCases ==
  ASSUME SideTypes, SideReader, SideOpen, NEW h \in held, HandleConnect(h), NEW c
  PROVE  Quiet(c)
<1>1. h \in Helds /\ connectAttempt' = connectAttempt /\ Handles(h)
  BY DEF SideTypes, WireTypes, HandleConnect, Handles
<1>2. serverSubs' = serverSubs /\ SubSame(c)
  BY <1>1, ConnectFacts DEF SubSame
<1>3. CASE state = "opening" /\ connectAttempt = h.connection
  <2> DEFINE e == Entry("connected", {}, h.connection, <<>>, Unknown, FALSE)
  <2>1. queue' = Append(queue, e) /\ state' = "connected" /\ ~h.started
            /\ h.msg.type = "connect"
    BY <1>1, <1>3, ConnectFacts
  <2>2. e \in SideEvents /\ e.channels = {}
    <3>1. h.connection \in Nat /\ h.connection <= h.connection
      BY <1>1, HeldFields
    <3>2. e \in SideEvents
      BY <3>1, NoticeTypes
    <3>3. QED
      BY <3>2 DEF Entry
  <2> HIDE DEF e
  <2>3. QueueQuiet(c)
    BY <2>1, <2>2 DEF QueueQuiet
  <2>4. PICK g \in Helds : /\ held' = (held \ {h}) \cup {g}
                           /\ g.connection = h.connection /\ g.msg = h.msg
                           /\ g.started = TRUE /\ g.todo = h.todo
    BY <1>1, <1>3, ConnectFacts
  <2>5. h.todo = DOMAIN h.msg.subs
    BY <2>1 DEF SideTypes, WireTypes
  <2>6. ~Handled(h, c) /\ ~Handled(g, c)
    BY <2>1, <2>4, <2>5 DEF Handled
  <2>7. HeldFor(c) = {h} /\ HeldFor(c)' = {g}
    <3>1. h.connection = connectAttempt
      BY <1>3
    <3>2. HeldFor(c) = IF Handled(h, c) THEN {} ELSE {h}
      BY <1>1, <3>1, HeldForOne
    <3>3. HeldFor(c)' = IF Handled(g, c) THEN {} ELSE {g}
      BY <1>1, <2>4, <3>1, HeldForOne
    <3>4. QED
      BY <2>6, <3>2, <3>3
  <2>8. Pending(c) /\ Pending(c)'
    BY <1>3, <2>1, <2>4, <2>7 DEF Pending
  <2>9. HandQuiet(c)
    BY <1>3, <2>1, <2>4, <2>7, <2>8 DEF HandQuiet
  <2>10. QED
    BY <1>2, <2>3, <2>9 DEF Quiet
<1>4. CASE ~(state = "opening" /\ connectAttempt = h.connection)
  <2>1. held' = held \ {h} /\ UNCHANGED <<state, queue>>
    BY <1>1, <1>4, ConnectFacts
  <2>2. Linked /\ h.connection = connectAttempt => state = "opening"
    BY <1>1, CurrentHandled
  <2>3. HandQuiet(c)
    BY <1>1, <1>4, <2>1, <2>2, HandFinished
  <2>4. QED
    BY <1>2, <2>1, <2>3 DEF Quiet, QueueQuiet
<1>5. QED
  BY <1>3, <1>4

\* Storing a subscription is about its channel.
LEMMA StoreCases ==
  ASSUME SideTypes, SideReader, SideOpen, NEW h \in held, NEW d, StoreSub(h, d), NEW c
  PROVE  Quiet(c) \/ Consumes(h, c)
<1>1. h \in Helds /\ connectAttempt' = connectAttempt /\ queue \in Seq(SideEvents)
  BY DEF SideTypes, WireTypes, StoreSub, connection, SideQueueTypes
<1>2. h.msg.type = "connect" /\ h.started /\ d \in h.todo /\ UNCHANGED <<state, strayed>>
      /\ EventsRan(h.connection)
  BY <1>1, StoreFacts
<1>3. Handles(h)
  BY <1>2 DEF Handles
<1>4. CASE IsConnectedAttempt(h.connection)
  <2> DEFINE sub == h.msg.subs[d]
             e == Entry(sub.kind, {d}, h.connection, <<>>, <<sub.epoch, sub.offset>>, FALSE)
             f == Entry("publications", {d}, h.connection, sub.pubs, Unknown, FALSE)
  <2>1. /\ d \in Channels /\ d \in DOMAIN h.msg.subs /\ e \in SideEvents /\ f \in SideEvents
        /\ queue' = IF sub.pubs = <<>> THEN Append(queue, e) ELSE Append(Append(queue, e), f)
    BY <1>4, StoreStep
  <2>2. serverSubs' = With(d, Stored(d, sub))
    BY <1>1, <1>4, StoreFacts
  <2>3. PICK g \in Helds : /\ held' = (held \ {h}) \cup {g}
                           /\ g.connection = h.connection /\ g.msg = h.msg
                           /\ g.started = TRUE /\ g.todo = h.todo \ {d}
    BY <1>1, <1>4, StoreFacts
  <2>4. e.channels = {d} /\ f.channels = {d}
    BY DEF Entry
  <2>5. h.connection = connectAttempt /\ state = "connected" /\ Linked
    BY <1>4 DEF IsConnectedAttempt, Linked
  <2>6. /\ HeldFor(c) = IF Handled(h, c) THEN {} ELSE {h}
        /\ HeldFor(c)' = IF Handled(g, c) THEN {} ELSE {g}
    <3>1. HeldFor(c) = IF Handled(h, c) THEN {} ELSE {h}
      BY <1>1, <2>5, HeldForOne
    <3>2. HeldFor(c)' = IF Handled(g, c) THEN {} ELSE {g}
      BY <1>1, <2>3, <2>5, HeldForOne
    <3>3. QED
      BY <3>1, <3>2
  <2>7. CASE d # c
    <3>1. Handled(g, c) <=> Handled(h, c)
      BY <1>2, <2>3, <2>7 DEF Handled
    <3>2. HandQuiet(c)
      <4>1. Pending(c)' <=> Pending(c)
        BY <1>2, <2>3, <2>6, <3>1 DEF Pending
      <4>2. QED
        BY <1>2, <2>3, <2>6, <3>1, <4>1 DEF HandQuiet
    <3>3. SubSame(c)
      BY <2>2, <2>7 DEF SubSame, With
    <3> HIDE DEF e, f
    <3>4. c \notin e.channels /\ c \notin f.channels
      BY <2>4, <2>7
    <3>5. QueueQuiet(c)
      BY <2>1, <3>4 DEF QueueQuiet
    <3>6. QED
      BY <3>2, <3>3, <3>5 DEF Quiet
  <2>8. CASE d = c
    <3>1. ~Handled(h, c) /\ Handled(g, c)
      BY <1>2, <2>1, <2>3, <2>8 DEF Handled
    <3>2. Stores(h, c)
      BY <1>2, <2>1, <2>2, <2>8 DEF Stores
    <3>3. QED
      BY <1>2, <2>5, <2>6, <3>1, <3>2 DEF Consumes
  <2>9. QED
    BY <2>7, <2>8
<1>5. CASE ~IsConnectedAttempt(h.connection)
  <2>1. held' = held \ {h} /\ UNCHANGED <<serverSubs, queue>>
    BY <1>1, <1>5, StoreFacts
  <2>2. ~HandleConnect(h)
    BY <1>2 DEF HandleConnect
  <2>3. h.connection # connectAttempt \/ ~Linked
    BY <1>5, <1>3, <2>2, CurrentHandled
  <2>4. HandQuiet(c)
    BY <1>1, <1>2, <2>1, <2>3, HandFinished
  <2>5. QED
    BY <2>1, <2>4 DEF Quiet, SubSame, QueueQuiet
<1>6. QED
  BY <1>4, <1>5

\* Removing what the connect reply does not have is about those channels.
LEMMA RemoveCases ==
  ASSUME SideTypes, SideReader, SideOpen, NEW h \in held, RemoveAbsent(h), NEW c \in Channels
  PROVE  Quiet(c) \/ Consumes(h, c)
<1> DEFINE gone == Absent(h.msg.subs)
           e == Entry("unsubscribed", gone, h.connection, <<>>, Unknown, FALSE)
<1>1. /\ h \in Helds /\ connectAttempt' = connectAttempt /\ h.msg.type = "connect" /\ h.started
      /\ h.todo = {} /\ held' = held \ {h} /\ UNCHANGED <<state, strayed>> /\ Handles(h)
  BY RemoveFacts DEF SideTypes, WireTypes, RemoveAbsent, connection, Handles
<1>2. h.connection \in Nat
  BY <1>1, HeldFields
<1>3. gone \in SUBSET Channels
  BY DEF Absent, SideTypes, SubTypes
<1>4. e \in SideEvents /\ e.channels = gone /\ e.kind = "unsubscribed"
  <2>1. h.connection <= h.connection
    BY <1>2
  <2>2. e.channels = gone /\ e.kind = "unsubscribed"
    BY DEF Entry
  <2> HIDE DEF gone
  <2>3. e \in SideEvents
    BY <1>2, <1>3, <2>1, NoticeTypes
  <2>4. QED
    BY <2>2, <2>3
<1> HIDE DEF e
<1>5. CASE h.connection = connectAttempt /\ Linked
  <2>1. IsConnectedAttempt(h.connection)
    <3>1. ~HandleConnect(h)
      BY <1>1 DEF HandleConnect
    <3>2. QED
      BY <1>1, <1>5, <3>1, CurrentHandled
  <2>2. state = "connected"
    BY <2>1 DEF IsConnectedAttempt
  <2>3. \/ gone # {} /\ serverSubs' = Without(gone) /\ queue' = Append(queue, e)
        \/ gone = {} /\ UNCHANGED <<serverSubs, queue>>
    BY <2>1, RemoveFacts DEF e
  <2>4. HeldFor(c) = (IF Handled(h, c) THEN {} ELSE {h}) /\ HeldFor(c)' = {}
    BY <1>1, <1>5, HeldForOne
  <2>5. CASE c \in DOMAIN h.msg.subs
    <3>1. Handled(h, c)
      BY <1>1, <2>5 DEF Handled
    <3>2. HandQuiet(c)
      BY <1>1, <2>2, <2>4, <3>1 DEF HandQuiet, Pending
    <3>3. c \notin gone
      BY <2>5 DEF Absent
    <3>4. SubSame(c)
      BY <2>3, <3>3 DEF SubSame, Without
    <3>5. QueueQuiet(c)
      BY <1>4, <2>3, <3>3 DEF QueueQuiet
    <3>6. QED
      BY <3>2, <3>4, <3>5 DEF Quiet
  <2>6. CASE c \notin DOMAIN h.msg.subs
    <3>1. ~Handled(h, c)
      BY <2>6 DEF Handled
    <3>2. c \in gone <=> c \in DOMAIN serverSubs
      BY <2>6 DEF Absent
    <3>3. c \notin DOMAIN serverSubs'
      BY <2>3, <3>2 DEF Without
    <3>4. \/ c \notin DOMAIN serverSubs /\ QueueQuiet(c)
          \/ /\ c \in DOMAIN serverSubs
             /\ \E x \in SideEvents : /\ c \in x.channels /\ x.kind = "unsubscribed"
                                      /\ queue' = Append(queue, x)
      BY <1>4, <2>3, <3>2 DEF QueueQuiet
    <3>5. Removes(h, c)
      BY <1>1, <2>6, <3>3, <3>4 DEF Removes
    <3>6. QED
      BY <1>1, <1>5, <2>2, <2>4, <3>1, <3>5 DEF Consumes
  <2>7. QED
    BY <2>5, <2>6
<1>6. CASE ~(h.connection = connectAttempt /\ Linked)
  <2>1. ~IsConnectedAttempt(h.connection)
    BY <1>6 DEF IsConnectedAttempt, Linked
  <2>2. UNCHANGED <<serverSubs, queue>>
    BY <2>1, RemoveFacts
  <2>3. HandQuiet(c)
    BY <1>1, <1>6, HandFinished
  <2>4. QED
    BY <2>2, <2>3 DEF Quiet, SubSame, QueueQuiet
<1>7. QED
  BY <1>5, <1>6

\* A push is about its channel, unless its connection has ended.
LEMMA PushCases ==
  ASSUME SideTypes, SideReader, SideOpen, NEW h \in held, HandlePush(h), ~strayed',
         NEW c \in Channels
  PROVE  Quiet(c) \/ Consumes(h, c)
<1> DEFINE d == h.msg.channel
           p == h.msg.position
           n == h.connection
           pub == Entry("publication", {d}, n, <<p>>, Unknown, FALSE)
           sub == Entry("unrecovered", {d}, n, <<>>, p, FALSE)
           unsub == Entry("unsubscribed", {d}, n, <<>>, Unknown, FALSE)
<1>1. /\ h \in Helds /\ connectAttempt' = connectAttempt /\ Handles(h)
      /\ h.msg.type \in {"pub", "subscribe", "unsubscribe"}
      /\ held' = held \ {h} /\ state' = state
  BY PushFacts, HandledFrame DEF SideTypes, WireTypes, Handles
<1>2. h.msg \in SideMessages /\ d \in Channels /\ p \in Places /\ n \in Nat
  BY <1>1, HeldFields, SideMessageFields
<1>3. CASE n = connectAttempt /\ Linked
  <2>1. ~HandleConnect(h)
    BY <1>1 DEF HandleConnect
  <2>2. IsConnectedAttempt(n) /\ ~Stale(h)
    BY <1>1, <1>3, <2>1, CurrentHandled
  <2>3. state = "connected" /\ Stale(h) = FALSE
    BY <2>2 DEF IsConnectedAttempt, Stale
  <2>4. ~Handled(h, c)
    BY <1>1 DEF Handled
  <2>5. HeldFor(c) = {h} /\ HeldFor(c)' = {}
    BY <1>1, <1>3, <2>4, HeldForOne
  <2>6. \/ h.msg.type = "pub" /\ d \in DOMAIN serverSubs /\ serverSubs' = With(d, Adopted(d, p))
           /\ queue' = Append(queue, pub)
        \/ h.msg.type = "subscribe" /\ d \notin DOMAIN serverSubs /\ serverSubs' = With(d, p)
           /\ queue' = Append(queue, sub)
        \/ h.msg.type = "unsubscribe" /\ d \in DOMAIN serverSubs /\ serverSubs' = Without({d})
           /\ queue' = Append(queue, unsub)
        \/ (d \in DOMAIN serverSubs <=> h.msg.type = "subscribe")
               /\ UNCHANGED <<serverSubs, queue>>
    BY <2>3, PushFacts
  <2>7. CASE d = c
    <3> HIDE DEF n, p
    <3>1. Pushes(h, c)
      BY <1>1, <2>6, <2>7 DEF Pushes, n, p
    <3>2. QED
      BY <1>1, <1>3, <2>3, <2>4, <2>5, <3>1 DEF Consumes, n
  <2>8. CASE d # c
    <3>1. SubSame(c)
      BY <2>6, <2>8 DEF SubSame, With, Without
    <3>2. pub.channels = {d} /\ sub.channels = {d} /\ unsub.channels = {d}
      BY DEF Entry
    <3>3. pub \in SideEvents /\ sub \in SideEvents /\ unsub \in SideEvents
      <4>1. {d} \in SUBSET Channels /\ n <= n /\ FALSE \in BOOLEAN /\ "unrecovered" \in SubKinds
        BY <1>2 DEF SubKinds
      <4> HIDE DEF n, p, d
      <4>2. pub \in SideEvents
        BY <1>2, <4>1, PubbedTypes, Zenon
      <4>3. sub \in SideEvents
        BY <1>2, <4>1, SubbedTypes
      <4>4. unsub \in SideEvents
        BY <1>2, <4>1, NoticeTypes
      <4>5. QED
        BY <4>2, <4>3, <4>4
    <3> HIDE DEF pub, sub, unsub
    <3>4. c \notin pub.channels /\ c \notin sub.channels /\ c \notin unsub.channels
      BY <2>8, <3>2
    <3>5. QueueQuiet(c)
      BY <2>6, <3>3, <3>4 DEF QueueQuiet
    <3>6. Others(h, c)
      BY <1>1, <2>8, <3>1, <3>5 DEF Others
    <3>7. QED
      BY <1>1, <1>3, <2>3, <2>4, <2>5, <3>6 DEF Consumes
  <2>9. QED
    BY <2>7, <2>8
<1>4. CASE ~(n = connectAttempt /\ Linked)
  <2>1. Stale(h)
    BY <1>4 DEF Stale, Linked
  <2>2. ~(strayed' = (strayed \/ Stale(h)))
    BY <2>1
  <2>3. UNCHANGED <<serverSubs, queue>>
    BY <2>2, PushFacts
  <2>4. HandQuiet(c)
    BY <1>1, <1>4, HandFinished
  <2>5. QED
    BY <2>3, <2>4 DEF Quiet, SubSame, QueueQuiet
<1>5. QED
  BY <1>3, <1>4

\* For each channel, a step of a reader does nothing or handles what it holds.
LEMMA HandleCases ==
  ASSUME SideTypes, SideReader, SideOpen, NEW h \in held, Handles(h), ~strayed',
         NEW c \in Channels
  PROVE  Quiet(c) \/ Consumes(h, c)
BY ConnectCases, StoreCases, RemoveCases, PushCases DEF Handles

\* Where a channel is, as seen from a point between the client and the server: not
\* subscribed to, or at a position; the offset is -1 when the server did not say.
Gone == <<-1, 0>>

\* Views of a channel: a position, or an epoch of which the offset is not known (-1).
View == {Gone} \cup (Nat \X Int)

\* The last of a sequence of publications.
LastPub(q) == q[Len(q)]

\* The position a subscription of a connect reply leads to.
After(sub) == IF sub.pubs = <<>> THEN <<sub.epoch, sub.offset>> ELSE LastPub(sub.pubs)

\* A message m is right for a client with view a of the channel, and leads to view b.
FlowMove(c, m, a, b) ==
  IF m.type = "connect"
  THEN IF c \notin DOMAIN m.subs THEN b = Gone
       ELSE IF m.subs[c].kind = "noPosition" THEN a # Gone /\ b = <<a[1], -1>>
       ELSE b = After(m.subs[c])
  ELSE IF m.channel # c THEN b = a
  ELSE /\ m.type = "subscribe" => a = Gone /\ b = m.position
       /\ m.type = "unsubscribe" => a # Gone /\ b = Gone
       /\ m.type = "pub" => /\ a # Gone /\ a[1] <= m.position[1] /\ b = m.position
                            /\ a[2] = -1 \/ m.position = Following(a)

\* The moves of messages, as a relation.
FlowMoves(c) == {t \in SideMessages \X View \X View : FlowMove(c, t[1], t[2], t[3])}

\* s is the view of the client: while the connect reply is to come, that of the map it
\* sent; after that, Gone exactly if it does not have the subscription.
ClientAt(c, s) ==
  /\ Pending(c) => s # Gone
  /\ ~Pending(c) => (s # Gone <=> c \in DOMAIN serverSubs)

\* e is the view of the server, as long as it has the connection: the last thing it sent
\* is its position.
ServerAt(c, e) ==
  serverUp =>
    IF c \in serverSide
    THEN e # Gone /\ e[1] <= ServerEpoch(c) /\ (e[2] = -1 \/ e = ServerPosition(c))
    ELSE e = Gone

\* What the reader has yet to do leads from s to m, the wire from m to e.
FlowThrough(c, s, m, e) ==
  /\ ClientAt(c, s)
  /\ \A h \in HeldFor(c) : FlowMove(c, h.msg, s, m)
  /\ HeldFor(c) = {} => m = s
  /\ Path(m, e, wire, View, FlowMoves(c))
  /\ ServerAt(c, e)

\* What was sent on the connection leads from view s to the server's.
FlowAt(c, s) == Linked => \E m, e \in View : FlowThrough(c, s, m, e)

\* What a view is.
LEMMA ViewFacts ==
  /\ Gone \in View
  /\ \A p \in Places : p \in View /\ p # Gone
  /\ \A v \in View : v # Gone => v[1] \in Nat /\ v[2] \in Int
  /\ \A x \in Nat : <<x, -1>> \in View /\ <<x, -1>> # Gone /\ <<x, 0>> \in View
         /\ <<x, 0>> # Gone
BY DEF Gone, View, Places

\* The relation is the move.
LEMMA FlowMovesFacts ==
  ASSUME NEW c, NEW m, NEW a, NEW b
  PROVE  <<m, a, b>> \in FlowMoves(c) <=>
           m \in SideMessages /\ a \in View /\ b \in View /\ FlowMove(c, m, a, b)
BY DEF FlowMoves

\* The position a subscription leads to has its type.
LEMMA AfterTypes ==
  ASSUME NEW r \in SubReplies
  PROVE  After(r) \in Places
<1>1. r.epoch \in Nat /\ r.offset \in Nat /\ r.pubs \in Seq(Places)
  BY SubReplyFields
<1>2. r.pubs # <<>> => LastPub(r.pubs) \in Places
  BY <1>1 DEF LastPub
<1>3. QED
  BY <1>1, <1>2, PlacesFacts DEF After

\* The server's position is a view.
LEMMA PositionFacts ==
  ASSUME StreamTypes, NEW c \in Channels
  PROVE  /\ ServerPosition(c) \in Places /\ ServerPosition(c) # Gone
                /\ ServerPosition(c) \in View
         /\ ServerPosition(c)[1] <= ServerEpoch(c)
<1>1. ServerPosition(c) \in Places /\ ServerEpoch(c) \in Nat
  BY StreamFacts
<1>2. ServerPosition(c)[1] <= ServerEpoch(c)
  BY <1>1 DEF ServerPosition, Unknown
<1>3. QED
  BY <1>1, <1>2, ViewFacts

\* One element leads where its move leads.
LEMMA PathOne ==
  ASSUME NEW M, NEW m \in M, NEW V, NEW R, NEW a \in V, NEW b \in V, <<m, a, b>> \in R
  PROVE  Path(a, b, <<m>>, V, R)
<1>1. Path(b, b, <<>>, V, R)
  BY PathEmpty
<1>2. <<>> \in Seq(M) /\ <<m>> \o <<>> = <<m>>
  OBVIOUS
<1>3. Path(a, b, <<m>> \o <<>>, V, R)
  BY <1>1, <1>2, PathCons
<1>4. QED
  BY <1>2, <1>3

\* Nothing of a channel moves.
LEMMA FlowSame ==
  ASSUME NEW c, NEW s, FlowAt(c, s), UNCHANGED <<state, connectAttempt, held, wire>>,
         UNCHANGED <<tops, serverSide>>, serverUp' => serverUp,
         c \in DOMAIN serverSubs' <=> c \in DOMAIN serverSubs
  PROVE  FlowAt(c, s)'
<1>1. HeldFor(c)' = HeldFor(c) /\ (Linked' <=> Linked)
  BY DEF HeldFor, Handled, Linked
<1>2. Pending(c)' <=> Pending(c)
  BY <1>1 DEF Pending
<1>3. ClientAt(c, s)' <=> ClientAt(c, s)
  BY <1>2 DEF ClientAt
<1>4. ServerEpoch(c)' = ServerEpoch(c) /\ ServerPosition(c)' = ServerPosition(c)
  BY DEF ServerEpoch, ServerPosition, Top
<1>5. \A e : ServerAt(c, e) => ServerAt(c, e)'
  BY <1>4 DEF ServerAt
<1>6. QED
  BY <1>1, <1>3, <1>5 DEF FlowAt, FlowThrough

\* A connection opens with a reply that says all of the server's view.
LEMMA FlowOpen ==
  ASSUME SideTypes, Open, NEW c \in Channels, NEW x \in 0..ServerEpoch(c)
  PROVE  FlowAt(c, <<x, 0>>)'
<1>1. /\ serverUp' = TRUE /\ state' = "opening" /\ connectAttempt' = connectAttempt + 1
      /\ UNCHANGED <<tops, serverSide, held, serverSubs>>
  BY OpenFacts
<1>2. PICK m \in SideMessages :
              /\ wire' = <<m>> /\ m.type = "connect" /\ DOMAIN m.subs = serverSide
              /\ \A d \in serverSide :
                   m.subs[d] \in {NoPosition, Unrecovered(d)} \/ (CanRecover(d)
                       /\ m.subs[d] = Recovered(d))
  BY OpenFacts
<1>3. HeldFor(c)' = {}
  <2>1. connectAttempt \in Nat /\ \A h \in held : h \in Helds /\ h.connection <= connectAttempt
    BY DEF SideTypes, SessionTypes, WireTypes
  <2>2. \A h \in held : h.connection # connectAttempt + 1
    BY <2>1, HeldFields
  <2>3. QED
    BY <1>1, <2>2 DEF HeldFor
<1>4. StreamTypes /\ ServerEpoch(c) \in Nat /\ x \in Nat /\ x <= ServerEpoch(c)
  <2>1. StreamTypes
    BY DEF SideTypes
  <2>2. ServerEpoch(c) \in Nat
    BY <2>1, StreamFacts
  <2>3. QED
    BY <2>1, <2>2
<1> DEFINE s == <<x, 0>>
<1>5. s \in View /\ s # Gone /\ s[1] = x /\ <<x, -1>> \in View /\ <<x, -1>> # Gone
  BY <1>4, ViewFacts
<1>6. Pending(c)'
  BY <1>1 DEF Pending
<1>7. ServerEpoch(c)' = ServerEpoch(c) /\ ServerPosition(c)' = ServerPosition(c)
  BY <1>1 DEF ServerEpoch, ServerPosition, Top
<1> HIDE DEF s
<1>8. \E b \in View : FlowMove(c, m, s, b) /\ ServerAt(c, b)'
  <2>1. CASE c \notin serverSide
    BY <1>1, <1>2, <2>1, ViewFacts DEF FlowMove, ServerAt
  <2>2. CASE c \in serverSide /\ m.subs[c] = NoPosition
    <3> DEFINE b == <<x, -1>>
    <3>1. b \in View /\ b # Gone /\ b[1] = x /\ b[2] = -1
      BY <1>5
    <3>2. m.subs[c].kind = "noPosition"
      BY <2>2, OtherReplyTypes
    <3>3. b = <<s[1], -1>>
      BY <1>5
    <3> HIDE DEF b
    <3>4. FlowMove(c, m, s, b)
      BY <1>2, <1>5, <2>2, <3>2, <3>3 DEF FlowMove
    <3>5. ServerAt(c, b)'
      BY <1>1, <1>4, <1>7, <2>2, <3>1 DEF ServerAt
    <3>6. QED
      BY <3>1, <3>4, <3>5
  <2>3. CASE c \in serverSide /\ m.subs[c] = Unrecovered(c)
    <3>1. After(m.subs[c]) = ServerPosition(c) /\ m.subs[c].kind # "noPosition"
      BY <2>3, OtherReplyTypes DEF After
    <3>2. FlowMove(c, m, s, ServerPosition(c))
      BY <1>2, <2>3, <3>1 DEF FlowMove
    <3>3. PICK b \in View : b = ServerPosition(c)
      BY <1>4, PositionFacts
    <3>4. b # Gone /\ b[1] <= ServerEpoch(c)
      BY <1>4, <3>3, PositionFacts
    <3>5. ServerAt(c, b)'
      BY <1>1, <1>7, <2>3, <3>3, <3>4 DEF ServerAt
    <3>6. QED
      BY <3>2, <3>3, <3>5
  <2>4. CASE c \in serverSide /\ CanRecover(c) /\ m.subs[c] = Recovered(c)
    <3>1. /\ Recovered(c).pubs = Missed(c) /\ c \in Recoverable
                 /\ Recovered(c).kind = "recovered"
          /\ Recovered(c).epoch = ServerEpoch(c) /\ Recovered(c).offset = serverSubs[c][2]
          /\ serverSubs[c][2] \in Nat
          /\ Len(Missed(c)) = Top(c) - serverSubs[c][2]
          /\ \A k \in 1..Len(Missed(c)) : Missed(c)[k] = <<ServerEpoch(c),
             serverSubs[c][2] + k>>
          /\ Recovered(c) \in SubReplies
      BY <2>4, RecoveredTypes
    <3>2. Top(c) \in Nat
      BY <1>4, StreamFacts
    <3>3. ServerPosition(c) = <<ServerEpoch(c), Top(c)>>
      BY <3>1 DEF ServerPosition
    <3>4. After(m.subs[c]) = ServerPosition(c)
      <4>1. CASE Missed(c) = <<>>
        <5>1. serverSubs[c][2] = Top(c)
          BY <3>1, <3>2, <4>1
        <5>2. QED
          BY <2>4, <3>1, <3>3, <4>1, <5>1 DEF After
      <4>2. CASE Missed(c) # <<>>
        <5>1. Missed(c) \in Seq(Places)
          BY <3>1, SubReplyFields
        <5>2. Len(Missed(c)) \in Nat /\ Len(Missed(c)) # 0
          BY <4>2, <5>1, SeqFacts
        <5>3. Len(Missed(c)) \in 1..Len(Missed(c))
          BY <5>2
        <5>4. LastPub(Missed(c)) = <<ServerEpoch(c), serverSubs[c][2] + Len(Missed(c))>>
          BY <3>1, <5>3 DEF LastPub
        <5>5. serverSubs[c][2] + Len(Missed(c)) = Top(c)
          BY <3>1, <3>2
        <5>6. QED
          BY <2>4, <3>1, <3>3, <4>2, <5>4, <5>5 DEF After
      <4>3. QED
        BY <4>1, <4>2
    <3>5. FlowMove(c, m, s, ServerPosition(c))
      BY <1>2, <2>4, <3>1, <3>4 DEF FlowMove
    <3>6. PICK b \in View : b = ServerPosition(c)
      BY <1>4, PositionFacts
    <3>7. b # Gone /\ b[1] <= ServerEpoch(c)
      BY <1>4, <3>6, PositionFacts
    <3>8. ServerAt(c, b)'
      BY <1>1, <1>7, <2>4, <3>6, <3>7 DEF ServerAt
    <3>9. QED
      BY <3>5, <3>6, <3>8
  <2>5. QED
    BY <1>2, <2>1, <2>2, <2>3, <2>4
<1>9. PICK b \in View : FlowMove(c, m, s, b) /\ ServerAt(c, b)'
  BY <1>8
<1>10. Path(s, b, wire', View, FlowMoves(c))
  <2>1. <<m, s, b>> \in FlowMoves(c)
    BY <1>5, <1>9, FlowMovesFacts
  <2>2. QED
    BY <1>2, <1>5, <2>1, PathOne
<1>11. ClientAt(c, s)'
  BY <1>5, <1>6 DEF ClientAt
<1>12. FlowThrough(c, s, s, b)'
  BY <1>3, <1>9, <1>10, <1>11 DEF FlowThrough
<1>13. QED
  BY <1>5, <1>12 DEF FlowAt, s

\* FlowAt is kept when a message is taken.
LEMMA FlowTake ==
  ASSUME SideTypes, SideOpen, Take, NEW c, NEW s \in View, FlowAt(c, s)
  PROVE  FlowAt(c, s)' /\ SubSame(c)
<1>1. /\ wire # <<>> /\ wire \in Seq(SideMessages) /\ wire' = Tail(wire) /\ Linked
      /\ UNCHANGED <<tops, serverSide, serverUp, state, connectAttempt, serverSubs>>
      /\ Idle(held, connectAttempt)
  BY TakeFacts DEF ReaderFree, Idle
<1>2. PICK h \in Helds : held' = held \cup {h} /\ h.connection = connectAttempt
          /\ h.msg = wire[1]
                         /\ h.started = FALSE
  BY TakeFacts
<1>3. HeldFor(c) = {}
  BY <1>1 DEF HeldFor, Idle
<1>4. HeldFor(c)' = {h}
  BY <1>1, <1>2 DEF HeldFor, Handled, Idle
<1>5. PICK m \in View, e \in View : FlowThrough(c, s, m, e)
  BY <1>1 DEF FlowAt
<1>6. m = s /\ Path(s, e, wire, View, FlowMoves(c))
  BY <1>3, <1>5 DEF FlowThrough
<1>7. PICK b \in View : <<wire[1], s, b>> \in FlowMoves(c)
          /\ Path(b, e, Tail(wire), View, FlowMoves(c))
  BY <1>1, <1>6, PathTail
<1>8. FlowMove(c, wire[1], s, b)
  BY <1>7, FlowMovesFacts
<1>9. Pending(c)' <=> Pending(c)
  <2>1. 1 \in 1..Len(wire)
    BY <1>1
  <2>2. wire[1].type = "connect" => state = "opening"
    BY <1>1, <2>1 DEF SideOpen, OpensFirst
  <2>3. QED
    BY <1>1, <1>2, <1>3, <1>4, <2>2 DEF Pending
<1>10. ClientAt(c, s)'
  BY <1>1, <1>5, <1>9 DEF FlowThrough, ClientAt
<1>11. ServerAt(c, e)'
  BY <1>1, <1>5 DEF FlowThrough, ServerAt, ServerEpoch, ServerPosition, Top
<1>12. FlowThrough(c, s, b, e)'
  BY <1>1, <1>2, <1>4, <1>7, <1>8, <1>10, <1>11 DEF FlowThrough
<1>13. QED
  BY <1>1, <1>12 DEF FlowAt, SubSame

\* What publishing does to the position of a channel.
LEMMA PublishedStep ==
  ASSUME StreamTypes, NEW d \in Channels, Publish(d), NEW c \in Channels
  PROVE  /\ ServerEpoch(c)' = ServerEpoch(c) /\ serverSide' = serverSide
         /\ c # d => ServerPosition(c)' = ServerPosition(c)
         /\ ServerPosition(d) = <<ServerEpoch(d), Top(d)>>
         /\ ServerPosition(d)' = <<ServerEpoch(d), Top(d) + 1>>
         /\ d \in Recoverable
<1>1. tops' = [tops EXCEPT ![d][ServerEpoch(d)] = @ + 1] /\ d \in Recoverable
          /\ serverSide' = serverSide
  BY DEF Publish
<1>2. tops \in [Channels -> Seq(0..MaxPublished)]
  BY DEF StreamTypes
<1>3. tops[d] \in Seq(0..MaxPublished) /\ ServerEpoch(d) \in 1..Len(tops[d])
          /\ ServerEpoch(d) \in Nat
  BY StreamFacts
<1> DEFINE t == [tops[d] EXCEPT ![ServerEpoch(d)] = @ + 1]
<1>4. tops' = [tops EXCEPT ![d] = t]
  BY <1>1
<1>5. Len(t) = Len(tops[d]) /\ t[ServerEpoch(d)] = Top(d) + 1
  BY <1>3 DEF Top
<1> HIDE DEF t
<1>6. tops'[d] = t /\ (c # d => tops'[c] = tops[c])
  BY <1>2, <1>4
<1>7. ServerEpoch(d)' = ServerEpoch(d) /\ (c # d => ServerEpoch(c)' = ServerEpoch(c))
  BY <1>5, <1>6 DEF ServerEpoch
<1>8. Top(d)' = Top(d) + 1 /\ (c # d => Top(c)' = Top(c))
  BY <1>5, <1>6, <1>7 DEF Top
<1>9. QED
  BY <1>1, <1>7, <1>8 DEF ServerPosition

\* FlowAt is kept when the server sends: what it sends follows from its view.
LEMMA FlowSends ==
  ASSUME SideTypes, NEW c \in Channels, NEW s \in View, FlowAt(c, s),
         NEW d \in Channels, Publishes(d)
  PROVE  FlowAt(c, s)' /\ SubSame(c)
<1>1. UNCHANGED <<serverUp, state, connectAttempt, held, serverSubs>>
          /\ wire \in Seq(SideMessages)
      /\ StreamTypes /\ serverUp \in BOOLEAN
  BY PushedFacts DEF SideTypes, WireTypes, SessionTypes
<1>2. HeldFor(c)' = HeldFor(c) /\ (Linked' <=> Linked) /\ SubSame(c)
  BY <1>1 DEF HeldFor, Handled, Linked, SubSame
<1>3. Pending(c)' <=> Pending(c)
  BY <1>1, <1>2 DEF Pending
<1>4. \A x : ClientAt(c, x)' <=> ClientAt(c, x)
  BY <1>1, <1>3 DEF ClientAt
<1>5. SUFFICES ASSUME Linked PROVE FlowAt(c, s)'
  BY <1>2 DEF FlowAt
<1>6. PICK m \in View, e \in View : FlowThrough(c, s, m, e)
  BY <1>5 DEF FlowAt
<1>7. ASSUME NEW b \in View, Path(m, b, wire', View, FlowMoves(c)), ServerAt(c, b)'
      PROVE  FlowAt(c, s)'
  <2>1. FlowThrough(c, s, m, b)'
    BY <1>2, <1>4, <1>6, <1>7 DEF FlowThrough
  <2>2. QED
    BY <2>1 DEF FlowAt
<1>8. ASSUME NEW x \in SideMessages, wire' = Append(wire, x),
             NEW b \in View, FlowMove(c, x, e, b),
             ServerAt(c, b)'
      PROVE  FlowAt(c, s)'
  <2>1. Path(m, e, wire, View, FlowMoves(c)) /\ <<x, e, b>> \in FlowMoves(c)
    BY <1>6, <1>8, FlowMovesFacts DEF FlowThrough
  <2>2. Path(m, b, wire', View, FlowMoves(c))
    BY <1>1, <1>8, <2>1, PathAppend
  <2>3. QED
    BY <1>7, <1>8, <2>2
<1>9. ServerAt(c, e) /\ Path(m, e, wire, View, FlowMoves(c))
  BY <1>6 DEF FlowThrough
<1>10. CASE ~serverUp
  <2>1. ServerAt(c, e)' /\ wire' = wire
    BY <1>1, <1>10, PushedFacts DEF ServerAt
  <2>2. QED
    BY <1>7, <1>9, <2>1
<1>11. CASE serverUp /\ c # d
  <2>1. ServerEpoch(c)' = ServerEpoch(c) /\ ServerPosition(c)' = ServerPosition(c)
        /\ (c \in serverSide' <=> c \in serverSide)
    <3>1. CASE Publish(d)
      BY <1>1, <1>11, <3>1, PublishedStep
    <3>2. CASE ServerSubscribes(d) \/ ServerUnsubscribes(d)
      BY <1>11, <3>2
         DEF ServerSubscribes, ServerUnsubscribes, ServerEpoch, ServerPosition, Top
    <3>3. QED
      BY <3>1, <3>2 DEF Publishes
  <2>2. ServerAt(c, e)'
    BY <1>1, <1>9, <2>1 DEF ServerAt
  <2>3. wire' = wire \/ \E t \in {"pub", "subscribe", "unsubscribe"}, p \in Places :
                    wire' = Append(wire, [type |-> t, channel |-> d, position |-> p])
    BY PushedFacts
  <2>4. ASSUME NEW t \in {"pub", "subscribe", "unsubscribe"}, NEW p \in Places,
               wire' = Append(wire, [type |-> t, channel |-> d, position |-> p])
        PROVE  FlowAt(c, s)'
    <3> DEFINE x == [type |-> t, channel |-> d, position |-> p]
    <3>1. x \in SideMessages /\ x.type # "connect" /\ x.channel = d /\ wire' = Append(wire, x)
      BY <2>4, PushTypes
    <3> HIDE DEF x
    <3>2. FlowMove(c, x, e, e)
      BY <1>11, <3>1 DEF FlowMove
    <3>3. QED
      BY <1>8, <2>2, <3>1, <3>2
  <2>5. QED
    BY <1>7, <1>9, <2>2, <2>3, <2>4
<1>12. CASE serverUp /\ c = d /\ Publish(d)
  <2> DEFINE p == <<ServerEpoch(c), Top(c) + 1>>
             x == [type |-> "pub", channel |-> c, position |-> p]
  <2>1. ServerEpoch(c) \in Nat /\ Top(c) + 1 \in Nat
    BY <1>1, StreamFacts
  <2>2. p \in Places /\ p[1] = ServerEpoch(c) /\ p[2] = Top(c) + 1 /\ p \in View /\ p # Gone
    BY <2>1, ViewFacts DEF Places
  <2>3. /\ ServerEpoch(c)' = ServerEpoch(c) /\ serverSide' = serverSide
        /\ ServerPosition(c) = <<ServerEpoch(c), Top(c)>> /\ ServerPosition(c)' = p
    BY <1>1, <1>12, PublishedStep
  <2>4. wire' = IF c \in serverSide THEN Append(wire, x) ELSE wire
    BY <1>12 DEF Publish, Push
  <2>5. PICK b \in View : b = p
    BY <2>2
  <2>6. CASE c \in serverSide
    <3>1. e # Gone /\ e[1] <= ServerEpoch(c) /\ (e[2] = -1 \/ e = ServerPosition(c))
      BY <1>9, <1>12, <2>6 DEF ServerAt
    <3>2. x \in SideMessages /\ x.type = "pub" /\ x.channel = c /\ x.position = b
      BY <2>2, <2>5, PushTypes
    <3>3. e[2] = -1 \/ b = Following(e)
      BY <2>3, <2>5, <3>1 DEF Following
    <3>4. e[1] <= b[1]
      BY <2>2, <2>5, <3>1
    <3>5. wire' = Append(wire, x)
      BY <2>4, <2>6
    <3> HIDE DEF x, p
    <3>6. FlowMove(c, x, e, b)
      BY <3>1, <3>2, <3>3, <3>4 DEF FlowMove
    <3>7. b[1] <= ServerEpoch(c) /\ b # Gone
      BY <2>1, <2>2, <2>5
    <3>8. ServerAt(c, b)'
      BY <2>3, <2>5, <2>6, <3>7 DEF ServerAt
    <3>9. QED
      BY <1>8, <3>2, <3>5, <3>6, <3>8
  <2>7. CASE c \notin serverSide
    <3>1. ServerAt(c, e)' /\ wire' = wire
      BY <1>1, <1>9, <2>3, <2>4, <2>7 DEF ServerAt
    <3>2. QED
      BY <1>7, <1>9, <3>1
  <2>8. QED
    BY <2>6, <2>7
<1>13. CASE serverUp /\ c = d /\ ServerSubscribes(d)
  <2>1. /\ c \notin serverSide /\ serverSide' = serverSide \cup {c} /\ tops' = tops
        /\ wire' = Append(wire, [type |-> "subscribe", channel |-> c,
           position |-> ServerPosition(c)])
    BY <1>13 DEF ServerSubscribes
  <2>2. PICK b \in View : b = ServerPosition(c)
    BY <1>1, PositionFacts
  <2>3. b \in Places /\ b # Gone /\ b[1] <= ServerEpoch(c)
    BY <1>1, <2>2, PositionFacts
  <2> DEFINE x == [type |-> "subscribe", channel |-> c, position |-> b]
  <2>4. x \in SideMessages /\ x.type = "subscribe" /\ x.channel = c /\ x.position = b
        /\ wire' = Append(wire, x)
    BY <2>1, <2>2, <2>3, PushTypes
  <2> HIDE DEF x
  <2>5. e = Gone
    BY <1>9, <1>13, <2>1 DEF ServerAt
  <2>6. FlowMove(c, x, e, b)
    BY <2>4, <2>5 DEF FlowMove
  <2>7. ServerEpoch(c)' = ServerEpoch(c) /\ ServerPosition(c)' = ServerPosition(c)
    BY <2>1 DEF ServerEpoch, ServerPosition, Top
  <2>8. ServerAt(c, b)'
    BY <2>1, <2>2, <2>3, <2>7 DEF ServerAt
  <2>9. QED
    BY <1>8, <2>4, <2>6, <2>8
<1>14. CASE serverUp /\ c = d /\ ServerUnsubscribes(d)
  <2>1. /\ c \in serverSide /\ serverSide' = serverSide \ {c} /\ tops' = tops
        /\ wire' = Append(wire, [type |-> "unsubscribe", channel |-> c, position |-> Unknown])
    BY <1>14 DEF ServerUnsubscribes, Push
  <2> DEFINE x == [type |-> "unsubscribe", channel |-> c, position |-> Unknown]
  <2>2. x \in SideMessages /\ x.type = "unsubscribe" /\ x.channel = c /\ wire' = Append(wire, x)
    BY <2>1, PlacesFacts, PushTypes
  <2> HIDE DEF x
  <2>3. e # Gone
    BY <1>9, <1>14, <2>1 DEF ServerAt
  <2>4. FlowMove(c, x, e, Gone)
    BY <2>2, <2>3 DEF FlowMove
  <2>5. ServerAt(c, Gone)'
    BY <2>1 DEF ServerAt
  <2>6. QED
    BY <1>8, <2>2, <2>4, <2>5, ViewFacts
<1>15. QED
  BY <1>1, <1>10, <1>11, <1>12, <1>13, <1>14 DEF Publishes

\* FlowAt is kept by a step that does nothing about the channel.
LEMMA FlowQuiet ==
  ASSUME NEW h \in held, Handles(h), NEW c, Quiet(c), NEW s, FlowAt(c, s)
  PROVE  FlowAt(c, s)'
<1>1. UNCHANGED <<tops, serverSide, serverUp, connectAttempt, wire>>
  BY HandledFrame
<1>2. Linked' <=> Linked
  BY DEF Quiet, HandQuiet, Linked
<1>3. SUFFICES ASSUME Linked PROVE FlowAt(c, s)'
  BY <1>2 DEF FlowAt
<1>4. /\ Pending(c)' <=> Pending(c)
      /\ \A k \in HeldFor(c) : \E g \in HeldFor(c)' : g.msg = k.msg
      /\ \A g \in HeldFor(c)' : \E k \in HeldFor(c) : g.msg = k.msg
      /\ c \in DOMAIN serverSubs' <=> c \in DOMAIN serverSubs
  BY <1>3 DEF Quiet, HandQuiet, SubSame
<1>5. PICK m \in View, e \in View : FlowThrough(c, s, m, e)
  BY <1>3 DEF FlowAt
<1>6. ClientAt(c, s)'
  BY <1>4, <1>5 DEF FlowThrough, ClientAt
<1>7. ServerAt(c, e)'
  BY <1>1, <1>5 DEF FlowThrough, ServerAt, ServerEpoch, ServerPosition, Top
<1>8. (\A g \in HeldFor(c)' : FlowMove(c, g.msg, s, m)) /\ (HeldFor(c)' = {} => m = s)
  BY <1>4, <1>5 DEF FlowThrough
<1>9. FlowThrough(c, s, m, e)'
  BY <1>1, <1>5, <1>6, <1>7, <1>8 DEF FlowThrough
<1>10. QED
  BY <1>9 DEF FlowAt

\* Handling a message moves the client's view as the message says.
LEMMA FlowConsumes ==
  ASSUME SideTypes, NEW h \in held, Handles(h), NEW c \in Channels, Consumes(h, c),
         NEW s \in View, FlowAt(c, s)
  PROVE  \E m \in View : FlowMove(c, h.msg, s, m) /\ FlowAt(c, m)'
<1>1. /\ UNCHANGED <<tops, serverSide, serverUp, connectAttempt, wire>>
      /\ Linked /\ HeldFor(c) = {h} /\ HeldFor(c)' = {} /\ state = "connected"
             /\ state' = "connected"
      /\ h \in Helds /\ h.msg \in SideMessages
  BY HandledFrame, HeldFields DEF Consumes, SideTypes, WireTypes
<1>2. PICK m \in View, e \in View : FlowThrough(c, s, m, e)
  BY <1>1 DEF FlowAt
<1>3. FlowMove(c, h.msg, s, m)
  BY <1>1, <1>2 DEF FlowThrough
<1>4. ~Pending(c)'
  BY <1>1 DEF Pending
<1>5. h.msg.type # "connect" => (s # Gone <=> c \in DOMAIN serverSubs)
  BY <1>1, <1>2 DEF FlowThrough, ClientAt, Pending
<1>6. m # Gone <=> c \in DOMAIN serverSubs'
  <2>1. CASE Stores(h, c)
    <3>1. c \in DOMAIN serverSubs'
      BY <2>1 DEF Stores, With
    <3>2. h.msg.type = "connect" /\ c \in DOMAIN h.msg.subs
      BY <2>1 DEF Stores
    <3>3. h.msg.subs[c] \in SubReplies
      BY <1>1, <3>2, SideMessageFields
    <3>4. After(h.msg.subs[c]) \in Places
      BY <3>3, AfterTypes
    <3>5. m = After(h.msg.subs[c]) \/ (s # Gone /\ m = <<s[1], -1>>)
      BY <1>3, <3>2 DEF FlowMove
    <3>6. QED
      BY <3>1, <3>4, <3>5, ViewFacts
  <2>2. CASE Removes(h, c)
    BY <1>3, <2>2 DEF Removes, FlowMove
  <2>3. CASE Pushes(h, c)
    <3>1. /\ h.msg.type \in {"pub", "subscribe", "unsubscribe"} /\ h.msg.channel = c
          /\ h.msg.type # "connect" /\ h.msg.position \in Places
      BY <1>1, <2>3, SideMessageFields DEF Pushes
    <3>2. h.msg.position # Gone
      BY <3>1, ViewFacts
    <3>3. /\ h.msg.type = "subscribe" => s = Gone /\ m = h.msg.position
          /\ h.msg.type = "unsubscribe" => s # Gone /\ m = Gone
          /\ h.msg.type = "pub" => s # Gone /\ m = h.msg.position
      BY <1>3, <3>1 DEF FlowMove
    <3>4. CASE h.msg.type = "pub"
      <4>1. c \in DOMAIN serverSubs'
        BY <1>5, <2>3, <3>1, <3>3, <3>4 DEF Pushes, With
      <4>2. QED
        BY <3>2, <3>3, <3>4, <4>1
    <3>5. CASE h.msg.type = "subscribe"
      <4>1. c \in DOMAIN serverSubs'
        BY <1>5, <2>3, <3>1, <3>3, <3>5 DEF Pushes, With
      <4>2. QED
        BY <3>2, <3>3, <3>5, <4>1
    <3>6. CASE h.msg.type = "unsubscribe"
      <4>1. c \notin DOMAIN serverSubs'
        BY <1>5, <2>3, <3>1, <3>3, <3>6 DEF Pushes, Without
      <4>2. QED
        BY <3>3, <3>6, <4>1
    <3>7. QED
      BY <3>1, <3>4, <3>5, <3>6
  <2>4. CASE Others(h, c)
    <3>1. m = s /\ h.msg.type # "connect"
              /\ (c \in DOMAIN serverSubs' <=> c \in DOMAIN serverSubs)
      BY <1>3, <2>4 DEF Others, FlowMove, SubSame
    <3>2. QED
      BY <1>5, <3>1
  <2>5. QED
    BY <2>1, <2>2, <2>3, <2>4 DEF Consumes
<1>7. ClientAt(c, m)'
  BY <1>4, <1>6 DEF ClientAt
<1>8. ServerAt(c, e)'
  BY <1>1, <1>2 DEF FlowThrough, ServerAt, ServerEpoch, ServerPosition, Top
<1>9. FlowThrough(c, m, m, e)'
  BY <1>1, <1>2, <1>7, <1>8 DEF FlowThrough
<1>10. QED
  BY <1>3, <1>9 DEF FlowAt

\* FlowAt is kept when a stream starts anew: the server ends the connections to it.
LEMMA FlowReset ==
  ASSUME SideTypes, NEW c \in Channels, NEW d \in Channels, Reset(d),
         NEW s \in View, FlowAt(c, s)
  PROVE  FlowAt(c, s)'
<1>1. /\ UNCHANGED <<serverSide, state, connectAttempt, held, wire, serverSubs>>
      /\ tops' = [tops EXCEPT ![d] = Append(@, 0)] /\ serverUp' = (serverUp
             /\ d \notin serverSide)
  BY DEF Reset, connection
<1>2. HeldFor(c)' = HeldFor(c) /\ (Linked' <=> Linked)
  BY <1>1 DEF HeldFor, Handled, Linked
<1>3. ClientAt(c, s)' <=> ClientAt(c, s)
  BY <1>1, <1>2 DEF ClientAt, Pending
<1>4. \A e : ServerAt(c, e) => ServerAt(c, e)'
  <2>1. CASE c = d
    BY <1>1, <2>1 DEF ServerAt
  <2>2. CASE c # d
    <3>1. tops' [c] = tops[c]
      BY <1>1, <2>2 DEF SideTypes, StreamTypes
    <3>2. ServerEpoch(c)' = ServerEpoch(c) /\ ServerPosition(c)' = ServerPosition(c)
      BY <3>1 DEF ServerEpoch, ServerPosition, Top
    <3>3. QED
      BY <1>1, <3>2 DEF ServerAt
  <2>3. QED
    BY <2>1, <2>2
<1>5. QED
  BY <1>1, <1>2, <1>3, <1>4 DEF FlowAt, FlowThrough

\* strayed stays.
LEMMA StraysForever ==
  ASSUME SideTypes, [Next]_vars, strayed
  PROVE  strayed'
<1>1. ASSUME NEW h \in held, Handles(h)
      PROVE  strayed'
  <2>1. strayed' = strayed \/ HandlePush(h)
    BY <1>1, HandledFrame
  <2>2. QED
    BY <1>1, <2>1, PushFacts
<1>2. CASE Connect \/ Ends \/ Close \/ ReportClosed \/ Open \/ Take \/ Invalidated
  BY <1>2, EndFacts DEF Connect, Close, ReportClosed, Open, Take, Invalidated
<1>3. CASE Runs \/ Idles \/ \E n \in Nat : InvalidateConnectionState(n)
  BY <1>3, RunFrame DEF Idles, SideSame, InvalidateConnectionState
<1>4. CASE \E c \in Channels : Publishes(c) \/ Reset(c)
  BY <1>4 DEF Publishes, Publish, ServerSubscribes, ServerUnsubscribes, Reset
<1>5. QED
  BY <1>1, <1>2, <1>3, <1>4, SideCases

\* What was sent on a connection is what the client makes of it.
SideFlow == ~strayed => \A c \in Channels : \E s \in View : FlowAt(c, s)

\* SideFlow is kept.
LEMMA SideFlowStep ==
  ASSUME SideTypes, SideReader, SideOpen, SideFlow, [Next]_vars
  PROVE  SideFlow'
<1>1. SUFFICES ASSUME ~strayed', NEW c \in Channels
               PROVE  \E s \in View : FlowAt(c, s)'
  BY DEF SideFlow
<1>2. PICK s \in View : FlowAt(c, s)
  BY <1>1, StraysForever DEF SideFlow
<1>3. CASE Connect \/ Ends \/ Close
  <2>1. ~Linked'
    BY <1>3, EndFacts DEF Connect, Close, Linked
  <2>2. FlowAt(c, s)'
    BY <2>1 DEF FlowAt
  <2>3. QED
    BY <2>2
<1>4. CASE Open
  <2>1. ServerEpoch(c) \in Nat
    BY StreamFacts DEF SideTypes
  <2> DEFINE x == 0
  <2>2. x \in Nat /\ x \in 0..ServerEpoch(c)
    BY <2>1
  <2> HIDE DEF x
  <2>3. <<x, 0>> \in View
    BY <2>2, ViewFacts
  <2>4. QED
    BY <1>4, <2>2, <2>3, FlowOpen
<1>5. CASE Take
  BY <1>2, <1>5, FlowTake
<1>6. ASSUME NEW h \in held, Handles(h)
      PROVE  \E t \in View : FlowAt(c, t)'
  <2>1. Quiet(c) \/ Consumes(h, c)
    BY <1>1, <1>6, HandleCases
  <2>2. QED
    BY <1>2, <1>6, <2>1, FlowQuiet, FlowConsumes
<1>7. ASSUME NEW d \in Channels, Publishes(d) \/ Reset(d)
      PROVE  FlowAt(c, s)'
  BY <1>2, <1>7, FlowSends, FlowReset
<1>8. CASE Invalidated \/ ReportClosed \/ Runs \/ Idles
          \/ \E n \in Nat : InvalidateConnectionState(n)
  <2>1. /\ UNCHANGED <<state, connectAttempt, held, wire>> /\ UNCHANGED <<tops, serverSide>>
        /\ serverUp' => serverUp
    <3>1. CASE Runs \/ Idles
      BY <3>1, RunFrame DEF Idles, SideSame
    <3>2. CASE Invalidated
      <4>1. ~serverUp'
        BY <3>2, Zenon DEF Invalidated
      <4>2. QED
        BY <3>2, <4>1 DEF Invalidated, server, connection
    <3>3. CASE ReportClosed \/ \E n \in Nat : InvalidateConnectionState(n)
      <4>1. UNCHANGED <<server, serverUp, connection, wire, held>>
        BY <3>3 DEF ReportClosed, InvalidateConnectionState
      <4>2. QED
        BY <4>1 DEF server, connection
    <3>4. QED
      BY <1>8, <3>1, <3>2, <3>3
  <2>2. c \in DOMAIN serverSubs' <=> c \in DOMAIN serverSubs
    <3>1. CASE Idles \/ Invalidated \/ ReportClosed \/ RunNotice \/ RunSubscribed
              \/ RunPublication
      BY <3>1
         DEF Idles, SideSame, Invalidated, ReportClosed, RunNotice, RunSubscribed,
             RunPublication
    <3>2. CASE \E n \in Nat : InvalidateConnectionState(n)
      BY <3>2 DEF InvalidateConnectionState
    <3>3. CASE RunRecovered
      <4>1. PICK d \in Head(queue).channels :
                IF MayDeliver(d, Head(queue).reader)
                THEN serverSubs' = With(d, Adopted(d, Head(queue).pubs[1]))
                ELSE serverSubs' = serverSubs
        BY <3>3 DEF RunRecovered
      <4>2. QED
        BY <4>1 DEF MayDeliver, With
    <3>4. QED
      BY <1>8, <3>1, <3>2, <3>3 DEF Runs
  <2>3. QED
    BY <1>2, <2>1, <2>2, FlowSame
<1>9. QED
  BY <1>2, <1>3, <1>4, <1>5, <1>6, <1>7, <1>8, SideCases

\* When nothing is on its way, the two views are the same.
LEMMA FlowAgrees ==
  ASSUME SideTypes, SideFlow
  PROVE  AgreesWithServer
<1>1. SUFFICES ASSUME Settled, ~strayed, state = "connected", serverUp, wire = <<>>
               PROVE  DOMAIN serverSubs = serverSide
  BY DEF AgreesWithServer
<1>2. Linked /\ held = {}
  BY <1>1 DEF Linked, Settled
<1>3. ASSUME NEW c \in Channels
      PROVE  c \in DOMAIN serverSubs <=> c \in serverSide
  <2>1. HeldFor(c) = {} /\ ~Pending(c)
    BY <1>1, <1>2 DEF HeldFor, Pending
  <2>2. PICK s \in View, m \in View, e \in View : FlowThrough(c, s, m, e)
    BY <1>1, <1>2 DEF SideFlow, FlowAt
  <2>3. m = s /\ Path(m, e, <<>>, View, FlowMoves(c))
    BY <1>1, <2>1, <2>2 DEF FlowThrough
  <2>4. m = e
    BY <2>3, PathEmpty
  <2>5. s # Gone <=> c \in DOMAIN serverSubs
    BY <2>1, <2>2 DEF FlowThrough, ClientAt
  <2>6. e # Gone <=> c \in serverSide
    BY <1>1, <2>2 DEF FlowThrough, ServerAt
  <2>7. QED
    BY <2>3, <2>4, <2>5, <2>6
<1>4. DOMAIN serverSubs \subseteq Channels /\ serverSide \subseteq Channels
  BY DEF SideTypes, SubTypes, StreamTypes
<1>5. QED
  BY <1>3, <1>4

\* What the events of the queue make of the last one the application got of a channel.
ToldMove(c, e, a, b) ==
  IF c \notin e.channels \/ e.kind \in {"publication", "publications"} THEN b = a
  ELSE IF e.kind \in SubKinds THEN b = "subscribed"
  ELSE b = e.kind

\* The moves of entries, as a relation.
ToldMoves(c) == {t \in SideEvents \X Notices \X Notices : ToldMove(c, t[1], t[2], t[3])}

\* t is what the client has of the channel: subscribed while it is connected and has the
\* subscription; when it is closed, until that is reported.
ToldEnd(c, t) ==
  IF state = "closed" THEN t = "subscribed" => c \in leaving
  ELSE t = "subscribed" <=> (state = "connected" /\ c \in DOMAIN serverSubs /\ ~Pending(c))

\* The queue leads from what the application was told to t.
ToldThrough(c, t) == ToldEnd(c, t) /\ Path(told[c], t, queue, Notices, ToldMoves(c))

\* ... which is what the client has.
ToldAt(c) == \E t \in Notices : ToldThrough(c, t)

\* The relation is the move.
LEMMA ToldMovesFacts ==
  ASSUME NEW c, NEW e, NEW a, NEW b
  PROVE  <<e, a, b>> \in ToldMoves(c) <=>
           e \in SideEvents /\ a \in Notices /\ b \in Notices /\ ToldMove(c, e, a, b)
BY DEF ToldMoves

\* One more entry leads to where its move leads.
LEMMA ToldAppends ==
  ASSUME NEW c, NEW a, NEW t \in Notices, NEW b \in Notices, NEW q \in Seq(SideEvents),
         NEW e \in SideEvents, Path(a, t, q, Notices, ToldMoves(c)), ToldMove(c, e, t, b)
  PROVE  Path(a, b, Append(q, e), Notices, ToldMoves(c)) /\ Append(q, e) \in Seq(SideEvents)
<1>1. <<e, t, b>> \in ToldMoves(c)
  BY ToldMovesFacts
<1>2. QED
  BY <1>1, PathAppend

\* ToldAt is kept when nothing about the channel is appended.
LEMMA ToldSame ==
  ASSUME SideTypes, NEW c, ToldAt(c), told' = told, QueueQuiet(c),
         \A t \in Notices : ToldEnd(c, t) => ToldEnd(c, t)'
  PROVE  ToldAt(c)'
<1>1. PICK t \in Notices : ToldThrough(c, t)
  BY DEF ToldAt
<1>2. queue \in Seq(SideEvents) /\ Path(told[c], t, queue, Notices, ToldMoves(c))
          /\ ToldEnd(c, t)'
  BY <1>1 DEF SideTypes, SideQueueTypes, ToldThrough
<1>3. \A e : c \notin e.channels => ToldMove(c, e, t, t)
  BY DEF ToldMove
<1>4. Path(told[c], t, queue', Notices, ToldMoves(c))
  <2>1. CASE queue' = queue
    BY <1>2, <2>1
  <2>2. ASSUME NEW e \in SideEvents, c \notin e.channels, queue' = Append(queue, e)
        PROVE  Path(told[c], t, queue', Notices, ToldMoves(c))
    BY <1>2, <1>3, <2>2, ToldAppends
  <2>3. ASSUME NEW e \in SideEvents,
               NEW f \in SideEvents, c \notin e.channels, c \notin f.channels,
               queue' = Append(Append(queue, e), f)
        PROVE  Path(told[c], t, queue', Notices, ToldMoves(c))
    <3>1. Path(told[c], t, Append(queue, e), Notices, ToldMoves(c))
              /\ Append(queue, e) \in Seq(SideEvents)
      BY <1>2, <1>3, <2>3, ToldAppends
    <3>2. QED
      BY <1>3, <2>3, <3>1, ToldAppends
  <2>4. QED
    BY <2>1, <2>2, <2>3 DEF QueueQuiet
<1>5. ToldThrough(c, t)'
  BY <1>2, <1>4 DEF ToldThrough
<1>6. QED
  BY <1>5 DEF ToldAt

\* ToldAt is kept when the entry that is appended says what changed.
LEMMA ToldEvent ==
  ASSUME SideTypes, NEW c, NEW t \in Notices, ToldThrough(c, t), told' = told,
         NEW e \in SideEvents, queue' = Append(queue, e),
         NEW b \in Notices, ToldMove(c, e, t, b), ToldEnd(c, b)'
  PROVE  ToldAt(c)'
<1>1. queue \in Seq(SideEvents) /\ Path(told[c], t, queue, Notices, ToldMoves(c))
  BY DEF SideTypes, SideQueueTypes, ToldThrough
<1>2. Path(told[c], b, queue', Notices, ToldMoves(c))
  BY <1>1, ToldAppends
<1>3. ToldThrough(c, b)'
  BY <1>2 DEF ToldThrough
<1>4. QED
  BY <1>3 DEF ToldAt

\* ToldAt is kept at the end of a connection: every subscription is reported.
LEMMA ToldEnds ==
  ASSUME SideTypes, Ends, NEW c \in Channels, ToldAt(c)
  PROVE  ToldAt(c)'
<1>1. /\ state # "closed" /\ state' \in {"disconnected", "connecting"} /\ told' = told
      /\ queue' = IF state = "connected"
                  THEN Append(queue, Entry("subscribing", DOMAIN serverSubs, 0, <<>>,
                  Unknown, FALSE))
                  ELSE queue
  BY EndFacts
<1>2. \A t : t # "subscribed" => ToldEnd(c, t)'
  BY <1>1 DEF ToldEnd
<1>3. CASE state # "connected"
  <2>1. queue' = queue /\ \A t : ToldEnd(c, t) => t # "subscribed"
    BY <1>1, <1>3 DEF ToldEnd
  <2>2. QED
    BY <1>1, <1>2, <2>1, ToldSame DEF QueueQuiet
<1>4. CASE state = "connected"
  <2> DEFINE e == Entry("subscribing", DOMAIN serverSubs, 0, <<>>, Unknown, FALSE)
  <2>1. e \in SideEvents
    <3>1. DOMAIN serverSubs \in SUBSET Channels
      BY DEF SideTypes, SubTypes
    <3>2. QED
      BY <3>1, EntryTypes, PlacesFacts DEF SideKinds
  <2>2. e.kind = "subscribing" /\ e.channels = DOMAIN serverSubs /\ queue' = Append(queue, e)
    BY <1>1, <1>4 DEF Entry
  <2> HIDE DEF e
  <2>3. PICK t \in Notices : ToldThrough(c, t)
    BY DEF ToldAt
  <2>4. CASE c \in DOMAIN serverSubs
    <3>1. "subscribing" \in Notices /\ ToldMove(c, e, t, "subscribing")
      BY <2>2, <2>4 DEF Notices, ToldMove, SubKinds
    <3>2. QED
      BY <1>1, <1>2, <2>1, <2>2, <2>3, <3>1, ToldEvent
  <2>5. CASE c \notin DOMAIN serverSubs
    <3>1. t # "subscribed"
      BY <1>1, <2>3, <2>5 DEF ToldThrough, ToldEnd
    <3>2. ToldMove(c, e, t, t)
      BY <2>2, <2>5 DEF ToldMove
    <3>3. QED
      BY <1>1, <1>2, <2>1, <2>2, <2>3, <3>1, <3>2, ToldEvent
  <2>6. QED
    BY <2>4, <2>5
<1>5. QED
  BY <1>3, <1>4

\* ToldAt is kept when Close reports the subscriptions.
LEMMA ToldReported ==
  ASSUME SideTypes, ReportClosed, NEW c \in Channels, ToldAt(c)
  PROVE  ToldAt(c)'
<1>1. /\ leaving # {} /\ state = "closed" /\ leaving \in SUBSET Channels
      /\ state' = state /\ told' = told
      /\ queue' = Append(queue, Event("unsubscribed", leaving, 0))
  BY DEF ReportClosed, SideTypes, SubTypes, connection, application
<1> DEFINE e == Entry("unsubscribed", leaving, 0, <<>>, Unknown, FALSE)
<1>2. e \in SideEvents
  BY <1>1, EntryTypes, PlacesFacts DEF SideKinds
<1>3. e.kind = "unsubscribed" /\ e.channels = leaving /\ queue' = Append(queue, e)
  BY <1>1, EntryPlain DEF Entry
<1> HIDE DEF e
<1>4. PICK t \in Notices : ToldThrough(c, t)
  BY DEF ToldAt
<1>5. \A b : b # "subscribed" => ToldEnd(c, b)'
  BY <1>1 DEF ToldEnd
<1>6. CASE c \in leaving
  <2>1. "unsubscribed" \in Notices /\ ToldMove(c, e, t, "unsubscribed")
    BY <1>3, <1>6 DEF Notices, ToldMove, SubKinds
  <2>2. QED
    BY <1>1, <1>2, <1>3, <1>4, <1>5, <2>1, ToldEvent
<1>7. CASE c \notin leaving
  <2>1. t # "subscribed" /\ ToldMove(c, e, t, t)
    BY <1>1, <1>3, <1>4, <1>7 DEF ToldThrough, ToldEnd, ToldMove
  <2>2. QED
    BY <1>1, <1>2, <1>3, <1>4, <1>5, <2>1, ToldEvent
<1>8. QED
  BY <1>6, <1>7

\* ToldAt is kept when a reader handles what it has for the channel.
LEMMA ToldConsumes ==
  ASSUME SideTypes, NEW h \in held, Handles(h), NEW c \in Channels, Consumes(h, c), ToldAt(c)
  PROVE  ToldAt(c)'
<1>1. /\ told' = told /\ HeldFor(c) = {h} /\ HeldFor(c)' = {} /\ state = "connected"
             /\ state' = "connected"
      /\ h.msg \in SideMessages /\ queue \in Seq(SideEvents) /\ h.connection \in Nat \ {0}
  BY HandledFrame, HeldFields DEF Consumes, SideTypes, WireTypes, SideQueueTypes
<1>2. ~Pending(c)'
  BY <1>1 DEF Pending
<1>3. h.msg.type # "connect" => ~Pending(c)
  BY <1>1 DEF Pending
<1>4. PICK t \in Notices : ToldThrough(c, t)
  BY DEF ToldAt
<1>5. \A b : ToldEnd(c, b)' <=> (b = "subscribed" <=> c \in DOMAIN serverSubs')
  BY <1>1, <1>2 DEF ToldEnd
<1>6. /\ t = "subscribed" => c \in DOMAIN serverSubs
      /\ h.msg.type # "connect" => (t = "subscribed" <=> c \in DOMAIN serverSubs)
  BY <1>1, <1>3, <1>4 DEF ToldThrough, ToldEnd
<1>7. CASE Stores(h, c)
  <2> DEFINE sub == h.msg.subs[c]
             n == h.connection
             p == <<sub.epoch, sub.offset>>
             e == Entry(sub.kind, {c}, n, <<>>, p, FALSE)
             f == Entry("publications", {c}, n, sub.pubs, Unknown, FALSE)
             b == "subscribed"
  <2>1. /\ c \in DOMAIN serverSubs' /\ h.msg.type = "connect" /\ c \in DOMAIN h.msg.subs
        /\ queue' = IF sub.pubs = <<>> THEN Append(queue, e) ELSE Append(Append(queue, e), f)
    BY <1>7 DEF Stores, With
  <2>2. sub \in SubReplies
    BY <1>1, <2>1, SideMessageFields
  <2>3. sub.kind \in SubKinds /\ p \in Places /\ sub.pubs \in Seq(Places)
    BY <2>2, SubReplyFields, PlacesFacts
  <2>4. e \in SideEvents
    BY <1>1, <2>3, EntryTypes, PlacesFacts DEF SideKinds
  <2>5. sub.pubs # <<>> => f \in SideEvents
    BY <1>1, <2>3, EntryTypes, PlacesFacts DEF SideKinds
  <2>6. e.channels = {c} /\ e.kind \in SubKinds /\ f.kind = "publications"
    BY <2>3 DEF Entry
  <2>7. b \in Notices /\ ToldEnd(c, b)'
    BY <1>5, <2>1 DEF Notices
  <2>8. ToldMove(c, e, t, b) /\ ToldMove(c, f, b, b)
    <3> HIDE DEF e, f
    <3>1. c \in e.channels /\ e.kind \notin {"publication", "publications"}
      BY <2>6 DEF SubKinds
    <3>2. QED
      BY <2>6, <3>1 DEF ToldMove
  <2> HIDE DEF e, f
  <2>9. CASE sub.pubs = <<>>
    BY <1>1, <1>4, <2>1, <2>4, <2>7, <2>8, <2>9, ToldEvent
  <2>10. CASE sub.pubs # <<>>
    <3>1. Path(told[c], t, queue, Notices, ToldMoves(c))
      BY <1>4 DEF ToldThrough
    <3>2. Path(told[c], b, Append(queue, e), Notices, ToldMoves(c))
              /\ Append(queue, e) \in Seq(SideEvents)
      BY <1>1, <2>4, <2>7, <2>8, <3>1, ToldAppends
    <3>3. Path(told[c], b, queue', Notices, ToldMoves(c))
      BY <2>1, <2>5, <2>7, <2>8, <2>10, <3>2, ToldAppends
    <3>4. ToldThrough(c, b)'
      BY <1>1, <2>7, <3>3 DEF ToldThrough
    <3>5. QED
      BY <2>7, <3>4 DEF ToldAt
  <2>11. QED
    BY <2>9, <2>10
<1>8. CASE Removes(h, c)
  <2>1. c \notin DOMAIN serverSubs'
    BY <1>8 DEF Removes
  <2>2. CASE c \notin DOMAIN serverSubs /\ QueueQuiet(c)
    <3>1. \A b \in Notices : ToldEnd(c, b) => ToldEnd(c, b)'
      BY <1>1, <1>5, <2>1, <2>2 DEF ToldEnd
    <3>2. QED
      BY <1>1, <2>2, <3>1, ToldSame
  <2>3. ASSUME NEW e \in SideEvents, c \in e.channels, e.kind = "unsubscribed",
               queue' = Append(queue, e)
        PROVE  ToldAt(c)'
    <3>1. "unsubscribed" \in Notices /\ ToldMove(c, e, t, "unsubscribed")
              /\ ToldEnd(c, "unsubscribed")'
      BY <1>5, <2>1, <2>3 DEF Notices, ToldMove, SubKinds
    <3>2. QED
      BY <1>1, <1>4, <2>3, <3>1, ToldEvent
  <2>4. QED
    BY <1>8, <2>2, <2>3 DEF Removes
<1>9. CASE Pushes(h, c)
  <2> DEFINE n == h.connection
             m == h.msg.position
  <2>1. h.msg.type # "connect" /\ m \in Places /\ n \in Nat
    BY <1>1, <1>9, SideMessageFields DEF Pushes
  <2>2. t = "subscribed" <=> c \in DOMAIN serverSubs
    BY <1>6, <2>1
  <2>3. CASE UNCHANGED <<serverSubs, queue>>
    <3>1. \A b \in Notices : ToldEnd(c, b) => ToldEnd(c, b)'
      BY <1>1, <1>3, <1>5, <2>1, <2>3 DEF ToldEnd
    <3>2. QED
      BY <1>1, <2>3, <3>1, ToldSame DEF QueueQuiet
  <2>4. CASE /\ c \in DOMAIN serverSubs /\ serverSubs' = With(c, Adopted(c, m))
             /\ queue' = Append(queue, Entry("publication", {c}, n, <<m>>, Unknown, FALSE))
    <3> DEFINE w == FALSE
               e == Entry("publication", {c}, n, <<m>>, Unknown, w)
    <3>1. w \in BOOLEAN
      OBVIOUS
    <3> HIDE DEF w
    <3>2. e \in SideEvents
      BY <2>1, <3>1, PubbedTypes
    <3>3. e.kind = "publication" /\ queue' = Append(queue, e)
      BY <2>4 DEF Entry, w
    <3> HIDE DEF e
    <3>4. ToldMove(c, e, t, t)
      BY <3>3 DEF ToldMove
    <3>5. ToldEnd(c, t)'
      BY <1>5, <2>2, <2>4 DEF With
    <3>6. QED
      BY <1>1, <1>4, <3>2, <3>3, <3>4, <3>5, ToldEvent
  <2>5. CASE /\ c \notin DOMAIN serverSubs /\ serverSubs' = With(c, m)
             /\ queue' = Append(queue, Entry("unrecovered", {c}, n, <<>>, m, FALSE))
    <3> DEFINE e == Entry("unrecovered", {c}, n, <<>>, m, FALSE)
    <3>1. e \in SideEvents
      BY <2>1, EntryTypes, PlacesFacts DEF SideKinds, SubKinds
    <3>2. e.kind = "unrecovered" /\ e.channels = {c} /\ queue' = Append(queue, e)
      BY <2>5 DEF Entry
    <3> HIDE DEF e
    <3>3. "subscribed" \in Notices /\ ToldMove(c, e, t, "subscribed")
      BY <3>2 DEF ToldMove, Notices, SubKinds
    <3>4. ToldEnd(c, "subscribed")'
      BY <1>5, <2>5 DEF With
    <3>5. QED
      BY <1>1, <1>4, <3>1, <3>2, <3>3, <3>4, ToldEvent
  <2>6. CASE /\ c \in DOMAIN serverSubs /\ serverSubs' = Without({c})
             /\ queue' = Append(queue, Entry("unsubscribed", {c}, n, <<>>, Unknown, FALSE))
    <3> DEFINE e == Entry("unsubscribed", {c}, n, <<>>, Unknown, FALSE)
    <3>1. e \in SideEvents
      BY <2>1, EntryTypes, PlacesFacts DEF SideKinds
    <3>2. e.kind = "unsubscribed" /\ e.channels = {c} /\ queue' = Append(queue, e)
      BY <2>6 DEF Entry
    <3> HIDE DEF e
    <3>3. "unsubscribed" \in Notices /\ ToldMove(c, e, t, "unsubscribed")
      BY <3>2 DEF ToldMove, Notices, SubKinds
    <3>4. ToldEnd(c, "unsubscribed")'
      BY <1>5, <2>6 DEF Without
    <3>5. QED
      BY <1>1, <1>4, <3>1, <3>2, <3>3, <3>4, ToldEvent
  <2>7. QED
    BY <1>9, <2>3, <2>4, <2>5, <2>6 DEF Pushes
<1>10. CASE Others(h, c)
  <2>1. h.msg.type # "connect" /\ QueueQuiet(c)
            /\ (c \in DOMAIN serverSubs' <=> c \in DOMAIN serverSubs)
    BY <1>10 DEF Others, SubSame
  <2>2. \A b \in Notices : ToldEnd(c, b) => ToldEnd(c, b)'
    BY <1>1, <1>3, <1>5, <2>1 DEF ToldEnd
  <2>3. QED
    BY <1>1, <2>1, <2>2, ToldSame
<1>11. QED
  BY <1>7, <1>8, <1>9, <1>10 DEF Consumes

\* ToldAt is kept when an entry runs.
LEMMA ToldRuns ==
  ASSUME SideTypes, Runs, NEW c \in Channels, ToldAt(c)
  PROVE  ToldAt(c)'
<1>1. /\ queue # <<>> /\ queue \in Seq(SideEvents) /\ Head(queue) = queue[1]
             /\ queue[1] \in SideEvents
      /\ Shaped(queue[1], connectAttempt) /\ told \in [Channels -> Notices]
             /\ Tail(queue) \in Seq(SideEvents)
      /\ UNCHANGED <<state, connectAttempt, held, leaving>>
  BY RunFrame, FirstEvent DEF SideTypes, SideQueueTypes, ToldTypes
<1>2. PICK t \in Notices : ToldThrough(c, t)
  BY DEF ToldAt
<1>3. HeldFor(c)' = HeldFor(c)
  BY <1>1 DEF HeldFor, Handled
<1>4. Pending(c)' <=> Pending(c)
  BY <1>1, <1>3 DEF Pending
<1>5. c \in DOMAIN serverSubs' <=> c \in DOMAIN serverSubs
  <2>1. CASE RunRecovered
    BY <2>1, RecoveredFacts DEF MayDeliver, With
  <2>2. CASE ~RunRecovered
    BY <2>2, RunFrame
  <2>3. QED
    BY <2>1, <2>2
<1>6. ToldEnd(c, t)'
  BY <1>1, <1>2, <1>4, <1>5 DEF ToldThrough, ToldEnd
<1>7. PICK b \in Notices : <<queue[1], told[c], b>> \in ToldMoves(c)
                           /\ Path(b, t, Tail(queue), Notices, ToldMoves(c))
  BY <1>1, <1>2, PathTail DEF ToldThrough
<1>8. ToldMove(c, queue[1], told[c], b)
  BY <1>7, ToldMovesFacts
<1>9. ASSUME queue' = Tail(queue), told'[c] = b PROVE ToldAt(c)'
  <2>1. ToldThrough(c, t)'
    BY <1>6, <1>7, <1>9 DEF ToldThrough
  <2>2. QED
    BY <2>1 DEF ToldAt
<1>10. CASE RunNotice
  <2>1. told' = [d \in Channels |-> IF d \in queue[1].channels THEN queue[1].kind ELSE told[d]]
        /\ queue[1].kind \in {"connected", "subscribing", "unsubscribed"}
               /\ queue' = Tail(queue)
    BY <1>1, <1>10 DEF RunNotice
  <2>2. told'[c] = b
    BY <1>8, <2>1 DEF ToldMove, SubKinds
  <2>3. QED
    BY <1>9, <2>1, <2>2
<1>11. CASE RunSubscribed
  <2>1. queue[1].kind \in SubKinds /\ queue' = Tail(queue)
    BY <1>1, <1>11 DEF RunSubscribed, SubKinds
  <2>2. PICK d \in queue[1].channels : told' = [told EXCEPT ![d] = "subscribed"]
    BY <1>1, <1>11 DEF RunSubscribed
  <2>3. queue[1].channels = {d}
    BY <1>1, <2>1, <2>2 DEF Shaped
  <2>4. told'[c] = b
    BY <1>1, <1>8, <2>1, <2>2, <2>3 DEF ToldMove, SubKinds
  <2>5. QED
    BY <1>9, <2>1, <2>4
<1>12. CASE RunPublication
  <2>1. queue[1].kind = "publication" /\ queue' = Tail(queue) /\ told' = told
    BY <1>1, <1>12 DEF RunPublication
  <2>2. b = told[c]
    BY <1>8, <2>1 DEF ToldMove
  <2>3. QED
    BY <1>9, <2>1, <2>2
<1>13. CASE RunRecovered
  <2>1. queue[1].kind = "publications" /\ told' = told
    BY <1>13, RecoveredFacts
  <2>2. b = told[c]
    BY <1>8, <2>1 DEF ToldMove
  <2>3. ASSUME NEW r \in SideEvents, r.kind = "publications", queue' = <<r>> \o Tail(queue)
        PROVE  ToldAt(c)'
    <3>1. ToldMove(c, r, told[c], told[c]) /\ told[c] \in Notices
      BY <1>1, <2>3 DEF ToldMove
    <3>2. <<r, told[c], told[c]>> \in ToldMoves(c)
      BY <3>1, ToldMovesFacts
    <3>3. Path(told[c], t, Tail(queue), Notices, ToldMoves(c))
      BY <1>7, <2>2
    <3>4. Path(told[c], t, queue', Notices, ToldMoves(c))
      BY <1>1, <2>3, <3>1, <3>2, <3>3, PathCons
    <3>5. ToldThrough(c, t)'
      BY <1>6, <2>1, <3>4 DEF ToldThrough
    <3>6. QED
      BY <3>5 DEF ToldAt
  <2>4. QED
    BY <1>9, <1>13, <2>1, <2>2, <2>3, RecoveredFacts
<1>14. QED
  BY <1>10, <1>11, <1>12, <1>13 DEF Runs

\* The events on their way make of what the application was told what the client is.
SideTold == ~strayed => \A c \in Channels : ToldAt(c)

\* SideTold is kept.
LEMMA SideToldStep ==
  ASSUME SideTypes, SideReader, SideOpen, SideTold, [Next]_vars
  PROVE  SideTold'
<1>1. SUFFICES ASSUME ~strayed', NEW c \in Channels
               PROVE  ToldAt(c)'
  BY DEF SideTold
<1>2. ToldAt(c)
  BY <1>1, StraysForever DEF SideTold
<1>3. ASSUME UNCHANGED <<told, queue>>, \A t \in Notices : ToldEnd(c, t) => ToldEnd(c, t)'
      PROVE  ToldAt(c)'
  BY <1>2, <1>3, ToldSame DEF QueueQuiet
<1>4. CASE Connect \/ Open
  <2>1. state \notin {"connected", "closed"} /\ state' \notin {"connected", "closed"}
        /\ UNCHANGED <<told, queue>>
    BY <1>4, OpenFacts DEF Connect, application
  <2>2. QED
    BY <1>3, <2>1 DEF ToldEnd
<1>5. CASE Close
  <2>1. state # "closed" /\ state' = "closed" /\ leaving' = DOMAIN serverSubs
        /\ UNCHANGED <<told, queue>>
    BY <1>5 DEF Close, application
  <2>2. QED
    BY <1>3, <2>1 DEF ToldEnd
<1>6. CASE Take
  <2>1. /\ wire # <<>> /\ wire \in Seq(SideMessages) /\ Linked
        /\ UNCHANGED <<state, connectAttempt, serverSubs, told, queue, leaving>>
        /\ Idle(held, connectAttempt)
    BY <1>6, TakeFacts DEF ReaderFree, Idle
  <2>2. PICK h \in Helds : held' = held \cup {h} /\ h.msg = wire[1]
    BY <1>6, TakeFacts
  <2>3. 1 \in 1..Len(wire)
    BY <2>1
  <2>4. h.msg.type = "connect" => state = "opening"
    BY <2>1, <2>2, <2>3 DEF SideOpen, OpensFirst
  <2>5. \A g \in HeldFor(c)' : g = h
    BY <2>1, <2>2 DEF HeldFor, Idle
  <2>6. HeldFor(c) = {}
    BY <2>1 DEF HeldFor, Idle
  <2>7. state = "connected" => (Pending(c)' <=> Pending(c))
    BY <2>1, <2>4, <2>5, <2>6 DEF Pending
  <2>8. QED
    BY <1>3, <2>1, <2>7 DEF ToldEnd
<1>7. ASSUME NEW h \in held, Handles(h)
      PROVE  ToldAt(c)'
  <2>1. Quiet(c) \/ Consumes(h, c)
    BY <1>1, <1>7, HandleCases
  <2>2. CASE Quiet(c)
    <3>1. /\ UNCHANGED <<told, leaving>> /\ QueueQuiet(c)
          /\ c \in DOMAIN serverSubs' <=> c \in DOMAIN serverSubs
          /\ state' = state \/ (state = "opening" /\ state' = "connected")
          /\ Linked => (Pending(c)' <=> Pending(c))
      BY <1>7, <2>2, HandledFrame DEF Quiet, HandQuiet, SubSame
    <3>2. \A t \in Notices : ToldEnd(c, t) => ToldEnd(c, t)'
      <4>1. CASE state' = state
        BY <3>1, <4>1 DEF ToldEnd, Linked
      <4>2. CASE state = "opening" /\ state' = "connected"
        <5>1. Pending(c) /\ Linked
          BY <4>2 DEF Pending, Linked
        <5>2. Pending(c)'
          BY <3>1, <5>1
        <5>3. QED
          BY <4>2, <5>2 DEF ToldEnd
      <4>3. QED
        BY <3>1, <4>1, <4>2
    <3>3. QED
      BY <1>2, <3>1, <3>2, ToldSame
  <2>3. QED
    BY <1>2, <1>7, <2>1, <2>2, ToldConsumes
<1>8. CASE Idles \/ Invalidated \/ (\E n \in Nat : InvalidateConnectionState(n))
           \/ \E d \in Channels : Publishes(d) \/ Reset(d)
  <2>1. /\ UNCHANGED <<state, connectAttempt, held, told, queue, leaving>>
        /\ c \in DOMAIN serverSubs' <=> c \in DOMAIN serverSubs
    <3>1. CASE Idles
      BY <3>1 DEF Idles, SideSame
    <3>2. CASE Invalidated \/ (\E n \in Nat : InvalidateConnectionState(n))
              \/ \E d \in Channels : Reset(d)
      BY <3>2 DEF Invalidated, InvalidateConnectionState, Reset, connection, application
    <3>3. CASE \E d \in Channels : Publishes(d)
      BY <3>3, PushedFacts
    <3>4. QED
      BY <1>8, <3>1, <3>2, <3>3
  <2>2. HeldFor(c)' = HeldFor(c)
    BY <2>1 DEF HeldFor, Handled
  <2>3. Pending(c)' <=> Pending(c)
    BY <2>1, <2>2 DEF Pending
  <2>4. QED
    BY <1>3, <2>1, <2>3 DEF ToldEnd
<1>9. CASE Ends \/ ReportClosed \/ Runs
  BY <1>2, <1>9, ToldEnds, ToldReported, ToldRuns
<1>10. QED
  BY <1>4, <1>5, <1>6, <1>7, <1>8, <1>9, SideCases

\* When all entries have run, the application was told what the client has.
LEMMA ToldAgrees ==
  ASSUME SideTypes, SideTold
  PROVE  ToldWhatIs
<1>1. SUFFICES ASSUME Settled, ~strayed, NEW c \in Channels
               PROVE  told[c] = "subscribed" <=> (state = "connected"
                          /\ c \in DOMAIN serverSubs)
  BY DEF ToldWhatIs
<1>2. queue = <<>> /\ held = {} /\ leaving = {}
  BY <1>1 DEF Settled
<1>3. PICK t \in Notices : ToldThrough(c, t)
  BY <1>1 DEF SideTold, ToldAt
<1>4. Path(told[c], t, <<>>, Notices, ToldMoves(c)) /\ ToldEnd(c, t)
  BY <1>2, <1>3 DEF ToldThrough
<1>5. told[c] = t
  BY <1>4, PathEmpty
<1>6. HeldFor(c) = {}
  BY <1>2 DEF HeldFor
<1>7. QED
  BY <1>2, <1>4, <1>5, <1>6 DEF ToldEnd, Pending

------------------------------------------------------------------------------
(* What is sent: publications the server has, one after the other *)

\* The server has published id on the channel.
Issued(c, id) == id[1] \in 1..Len(tops[c]) /\ id[2] \in 1..tops[c][id[1]]

\* Publications one after the other.
Chained(q) == \A i, k \in 1..Len(q) : k = i + 1 => q[k] = Following(q[i])

\* What the server says of a channel in a connect reply: a recovered subscription has what
\* comes after its offset.
SubRight(c, sub) ==
  /\ sub.epoch <= Len(tops[c])
  /\ sub.kind = "recovered" /\ sub.pubs # <<>>
         => sub.pubs[1] = Following(<<sub.epoch, sub.offset>>)
  /\ sub.kind = "recovered" \/ (sub.kind = "unrecovered" /\ c \in Recoverable) => sub.epoch # 0
  /\ sub.kind = "noPosition" => sub.epoch = 0 /\ sub.offset = 0
  /\ sub.kind # "recovered" => sub.pubs = <<>>
  /\ Chained(sub.pubs) /\ \A i \in 1..Len(sub.pubs) : Issued(c, sub.pubs[i])
         /\ sub.pubs[i][1] = sub.epoch

\* A message has publications of the server; a subscribe is of an epoch of the server.
MsgRight(m) ==
  /\ m.type = "connect" => \A c \in DOMAIN m.subs : SubRight(c, m.subs[c])
  /\ m.type = "pub" => Issued(m.channel, m.position)
  /\ m.type = "subscribe" => /\ m.position[1] <= Len(tops[m.channel])
                             /\ m.channel \in Recoverable => m.position[1] # 0

\* An entry has publications of the server, one after the other.
EntryRight(e) ==
  e.kind \in {"publication", "publications"} =>
    /\ Chained(e.pubs)
    /\ \A c \in e.channels : \A i \in 1..Len(e.pubs) : Issued(c, e.pubs[i])

\* ... every message on the wire,
WireRight == \A i \in 1..Len(wire) : MsgRight(wire[i])

\* ... every message a reader holds,
HeldRight == \A h \in held : MsgRight(h.msg)

\* ... every entry of the queue,
QueueRight == \A i \in 1..Len(queue) : EntryRight(queue[i])

\* ... and a subscription is of an epoch the server has had.
SubsRight == \A c \in DOMAIN serverSubs : serverSubs[c][1] <= Len(tops[c])

\* All that is sent, held, queued and stored is of the server.
SideSent == WireRight /\ HeldRight /\ QueueRight /\ SubsRight

\* Epochs and publications of the server are only added.
LEMMA TopsGrow ==
  ASSUME SideTypes, [Next]_vars, NEW c \in Channels
  PROVE  /\ Len(tops[c]) \in Nat \ {0} /\ Len(tops'[c]) \in Nat \ {0}
                /\ Len(tops[c]) <= Len(tops'[c])
         /\ \A i \in 1..Len(tops[c]) : tops[c][i] \in Nat /\ tops'[c][i] \in Nat
                /\ tops[c][i] <= tops'[c][i]
<1>1. /\ StreamTypes /\ tops \in [Channels -> Seq(0..MaxPublished)] /\ MaxPublished \in Nat
      /\ tops[c] \in Seq(0..MaxPublished) /\ tops[c] # <<>>
  BY DEF SideTypes, StreamTypes
<1>2. /\ Len(tops[c]) \in Nat \ {0}
      /\ \A i \in 1..Len(tops[c]) : tops[c][i] \in Nat
  BY <1>1, StreamFacts
<1>3. CASE tops' = tops
  BY <1>2, <1>3
<1>4. CASE \E d \in Channels : Reset(d)
  <2>1. PICK d \in Channels : tops' = [tops EXCEPT ![d] = Append(@, 0)]
    BY <1>4 DEF Reset
  <2>2. CASE d = c
    <3>1. tops'[c] = Append(tops[c], 0)
      BY <1>1, <2>1, <2>2
    <3>2. 0 \in 0..MaxPublished
      BY <1>1
    <3> DEFINE t == tops[c]
               u == tops'[c]
               z == 0
    <3>3. t \in Seq(0..MaxPublished) /\ z \in 0..MaxPublished /\ u = Append(t, z)
      BY <1>1, <3>1, <3>2
    <3>4. Len(t) \in Nat \ {0} /\ \A i \in 1..Len(t) : t[i] \in Nat
      BY <1>2
    <3> HIDE DEF t, u, z
    <3>5. Len(u) = Len(t) + 1 /\ \A i \in 1..Len(t) : u[i] = t[i]
      BY <3>3, AppendFacts
    <3>6. QED
      BY <3>4, <3>5 DEF t, u
  <2>3. CASE d # c
    <3>1. tops'[c] = tops[c]
      BY <1>1, <2>1, <2>3
    <3>2. QED
      BY <1>2, <3>1
  <2>4. QED
    BY <2>2, <2>3
<1>5. CASE \E d \in Channels : Publish(d)
  <2>1. PICK d \in Channels : tops' = [tops EXCEPT ![d][ServerEpoch(d)] = @ + 1]
    BY <1>5 DEF Publish
  <2>2. CASE d = c
    <3>1. tops'[c] = [tops[c] EXCEPT ![ServerEpoch(c)] = @ + 1]
      BY <1>1, <2>1, <2>2
    <3>2. Len(tops'[c]) = Len(tops[c])
              /\ \A i \in 1..Len(tops[c]) : tops'[c][i] \in {tops[c][i], tops[c][i] + 1}
      <4> DEFINE t == tops[c]
                 n == ServerEpoch(c)
                 u == tops'[c]
      <4>1. u = [t EXCEPT ![n] = @ + 1] /\ t \in Seq(0..MaxPublished)
        BY <1>1, <3>1
      <4> HIDE DEF t, n, u
      <4>2. Len(u) = Len(t) /\ \A i \in 1..Len(t) : u[i] \in {t[i], t[i] + 1}
        BY <4>1
      <4>3. QED
        BY <4>2 DEF t, u
    <3>3. QED
      BY <1>2, <3>2
  <2>3. CASE d # c
    <3>1. tops'[c] = tops[c]
      BY <1>1, <2>1, <2>3
    <3>2. QED
      BY <1>2, <3>1
  <2>4. QED
    BY <2>2, <2>3
<1>6. CASE Ends \/ Open \/ Take \/ Runs \/ Idles
  BY <1>3, <1>6, EndFacts, OpenFacts, TakeFacts, RunFrame DEF Idles, SideSame
<1>7. CASE \E h \in held : Handles(h)
  BY <1>3, <1>7, HandledFrame
<1>8. CASE Connect \/ Close \/ ReportClosed \/ Invalidated
          \/ \E n \in Nat : InvalidateConnectionState(n)
  BY <1>3, <1>8
     DEF Connect, Close, ReportClosed, Invalidated, InvalidateConnectionState, server
<1>9. CASE \E d \in Channels : ServerSubscribes(d) \/ ServerUnsubscribes(d)
  BY <1>3, <1>9 DEF ServerSubscribes, ServerUnsubscribes
<1>10. QED
  BY <1>4, <1>5, <1>6, <1>7, <1>8, <1>9, SideCases DEF Publishes

\* What is of the server stays so.
LEMMA RightKept ==
  ASSUME SideTypes, [Next]_vars
  PROVE  /\ \A m \in SideMessages : MsgRight(m) => MsgRight(m)'
         /\ \A e \in SideEvents : EntryRight(e) => EntryRight(e)'
<1>1. ASSUME NEW c \in Channels, NEW id \in Places, Issued(c, id) PROVE Issued(c, id)'
  <2>1. id[1] \in Nat /\ id[2] \in Nat
    BY PlacesFacts
  <2>2. QED
    BY <1>1, <2>1, TopsGrow DEF Issued
<1>2. ASSUME NEW m \in SideMessages, MsgRight(m) PROVE MsgRight(m)'
  <2>1. CASE m.type = "connect"
    <3>1. SUFFICES ASSUME NEW c \in DOMAIN m.subs PROVE SubRight(c, m.subs[c])'
      BY <2>1 DEF MsgRight
    <3> DEFINE sub == m.subs[c]
    <3>2. c \in Channels /\ sub \in SubReplies
      BY <2>1, SideMessageFields
    <3>3. sub.epoch \in Nat /\ sub.pubs \in Seq(Places)
      BY <3>2, SubReplyFields
    <3>4. SubRight(c, sub)
      BY <1>2, <2>1 DEF MsgRight
    <3> HIDE DEF sub
    <3>5. sub.epoch <= Len(tops'[c])
      BY <3>2, <3>3, <3>4, TopsGrow DEF SubRight
    <3>6. \A i \in 1..Len(sub.pubs) : Issued(c, sub.pubs[i])'
      <4>1. \A i \in 1..Len(sub.pubs) : sub.pubs[i] \in Places
        BY <3>3
      <4>2. QED
        BY <1>1, <3>2, <3>4, <4>1 DEF SubRight
    <3>7. SubRight(c, sub)'
      BY <3>4, <3>5, <3>6 DEF SubRight
    <3>8. QED
      BY <3>7 DEF sub
  <2>2. CASE m.type # "connect"
    <3>1. m.channel \in Channels /\ m.position \in Places
      BY <2>2, SideMessageFields
    <3>2. m.position[1] \in Nat
      BY <3>1, PlacesFacts
    <3>3. m.type = "pub" => Issued(m.channel, m.position)'
      BY <1>1, <1>2, <3>1 DEF MsgRight
    <3>4. m.type = "subscribe" => m.position[1] <= Len(tops'[m.channel])
      BY <1>2, <3>1, <3>2, TopsGrow DEF MsgRight
    <3>5. QED
      BY <1>2, <2>2, <3>3, <3>4 DEF MsgRight
  <2>3. QED
    BY <2>1, <2>2
<1>3. ASSUME NEW e \in SideEvents, EntryRight(e) PROVE EntryRight(e)'
  <2>1. e.channels \subseteq Channels /\ \A i \in 1..Len(e.pubs) : e.pubs[i] \in Places
    BY SideEventFields
  <2>2. QED
    BY <1>1, <1>3, <2>1 DEF EntryRight
<1>4. QED
  BY <1>2, <1>3

\* The publication the server publishes is one it has published.
LEMMA IssuedNow ==
  ASSUME SideTypes, NEW c \in Channels, Publish(c), NEW p, p = <<ServerEpoch(c), Top(c) + 1>>
  PROVE  Issued(c, p)'
<1> DEFINE t == tops[c]
           n == ServerEpoch(c)
           u == tops'[c]
<1>1. /\ tops \in [Channels -> Seq(0..MaxPublished)] /\ t \in Seq(0..MaxPublished)
      /\ n \in Nat \ {0} /\ n \in 1..Len(t) /\ Top(c) \in Nat /\ Top(c) = t[n]
  BY StreamFacts DEF SideTypes, StreamTypes, Top
<1>2. tops' = [tops EXCEPT ![c][n] = @ + 1]
  BY DEF Publish
<1>3. u = [t EXCEPT ![n] = @ + 1]
  BY <1>1, <1>2
<1> HIDE DEF t, n, u
<1>4. n \in 1..Len(u) /\ u[n] = Top(c) + 1
  BY <1>1, <1>3
<1>5. p[1] = n /\ p[2] = Top(c) + 1
  BY DEF n
<1>6. p[1] \in 1..Len(tops'[c]) /\ p[2] \in 1..tops'[c][p[1]]
  BY <1>1, <1>4, <1>5 DEF u
<1>7. QED
  BY <1>6 DEF Issued

\* Messages on the wire stay of the server.
LEMMA SentWire ==
  ASSUME SideTypes, SideSent, [Next]_vars
  PROVE  WireRight'
<1>1. wire \in Seq(SideMessages) /\ \A i \in 1..Len(wire) : wire[i] \in SideMessages
  BY DEF SideTypes, WireTypes
<1>2. \A i \in 1..Len(wire) : \E m \in SideMessages : m = wire[i] /\ MsgRight(m)'
  BY <1>1, RightKept DEF SideSent, WireRight
<1>3. ASSUME wire' = wire \/ wire' = <<>> PROVE WireRight'
  BY <1>2, <1>3 DEF WireRight
<1>4. ASSUME NEW x \in SideMessages, wire' = Append(wire, x), MsgRight(x)'
      PROVE  WireRight'
  <2>1. \A i \in 1..Len(wire') : wire'[i] = x \/ (i \in 1..Len(wire) /\ wire'[i] = wire[i])
    BY <1>1, <1>4
  <2>2. QED
    BY <1>2, <1>4, <2>1 DEF WireRight
<1>5. CASE Take
  <2>1. wire' = Tail(wire) /\ wire # <<>>
    BY <1>5, TakeFacts
  <2>2. \A i \in 1..Len(wire') : i + 1 \in 1..Len(wire) /\ wire'[i] = wire[i + 1]
    BY <1>1, <2>1, SeqFacts
  <2>3. QED
    BY <1>2, <2>2 DEF WireRight
<1>6. CASE Open
  <2>1. PICK m \in SideMessages :
               /\ wire' = <<m>> /\ m.type = "connect" /\ DOMAIN m.subs = serverSide
               /\ \A c \in serverSide : m.subs[c] \in {NoPosition, Unrecovered(c)}
                                        \/ (CanRecover(c) /\ m.subs[c] = Recovered(c))
    BY <1>6, OpenFacts
  <2>2. ASSUME NEW c \in serverSide PROVE SubRight(c, m.subs[c])
    <3> DEFINE sub == m.subs[c]
    <3>1. c \in Channels /\ StreamTypes
      BY <2>1, SideMessageFields DEF SideTypes
    <3>2. /\ ServerEpoch(c) \in Nat \ {0} /\ ServerEpoch(c) \in 1..Len(tops[c])
                 /\ Top(c) \in Nat
          /\ ServerEpoch(c) = Len(tops[c]) /\ Top(c) = tops[c][ServerEpoch(c)]
      BY <3>1, StreamFacts DEF ServerEpoch, Top
    <3>3. CASE sub = NoPosition
      <4>1. sub.kind = "noPosition" /\ sub.pubs = <<>> /\ sub.epoch = 0 /\ sub.offset = 0
        BY <3>1, <3>3, OtherReplyTypes
      <4> HIDE DEF sub
      <4>2. SubRight(c, sub)
        BY <3>2, <4>1 DEF SubRight, Chained
      <4>3. QED
        BY <4>2 DEF sub
    <3>4. CASE sub = Unrecovered(c)
      <4>1. sub.kind = "unrecovered" /\ sub.pubs = <<>>
                /\ <<sub.epoch, sub.offset>> = ServerPosition(c)
        BY <3>1, <3>4, OtherReplyTypes
      <4> HIDE DEF sub
      <4>2. sub.epoch = IF c \in Recoverable THEN ServerEpoch(c) ELSE 0
        BY <4>1 DEF ServerPosition, Unknown
      <4>3. SubRight(c, sub)
        BY <3>2, <4>1, <4>2 DEF SubRight, Chained
      <4>4. QED
        BY <4>3 DEF sub
    <3>5. CASE CanRecover(c) /\ sub = Recovered(c)
      <4> DEFINE o == serverSubs[c][2]
                 e == ServerEpoch(c)
      <4>1. /\ o \in Nat /\ o <= Top(c) /\ sub.kind = "recovered" /\ sub.epoch = e
                   /\ sub.offset = o
            /\ Len(sub.pubs) = Top(c) - o
                   /\ \A k \in 1..Len(sub.pubs) : sub.pubs[k] = <<e, o + k>>
            /\ sub \in SubReplies
        BY <3>1, <3>5, RecoveredTypes
      <4>2. sub.pubs \in Seq(Places)
        BY <4>1, SubReplyFields
      <4> HIDE DEF sub, o, e
      <4>3. sub.pubs # <<>> => sub.pubs[1] = Following(<<e, o>>)
        <5>1. sub.pubs # <<>> => 1 \in 1..Len(sub.pubs)
          BY <4>2
        <5>2. QED
          BY <4>1, <5>1 DEF Following
      <4>4. Chained(sub.pubs)
        BY <3>2, <4>1 DEF Chained, Following
      <4>5. \A i \in 1..Len(sub.pubs) : Issued(c, sub.pubs[i]) /\ sub.pubs[i][1] = e
        <5>1. ASSUME NEW i \in 1..Len(sub.pubs)
              PROVE  Issued(c, sub.pubs[i]) /\ sub.pubs[i][1] = e
          <6>1. sub.pubs[i] = <<e, o + i>>
            BY <4>1
          <6>2. e = Len(tops[c]) /\ e \in 1..Len(tops[c]) /\ o + i \in 1..tops[c][e]
            BY <3>2, <4>1 DEF e
          <6>3. QED
            BY <6>1, <6>2 DEF Issued
        <5>2. QED
          BY <5>1
      <4>6. SubRight(c, sub)
        BY <3>2, <4>1, <4>3, <4>4, <4>5 DEF SubRight, e
      <4>7. QED
        BY <4>6 DEF sub
    <3>6. QED
      BY <2>1, <3>3, <3>4, <3>5
  <2>3. MsgRight(m)
    BY <2>1, <2>2 DEF MsgRight
  <2>4. MsgRight(m)'
    BY <2>3, RightKept
  <2>5. \A i \in 1..Len(wire') : wire'[i] = m
    BY <2>1
  <2>6. QED
    BY <2>4, <2>5 DEF WireRight
<1>7. ASSUME NEW c \in Channels, Publishes(c)
      PROVE  WireRight'
  <2>1. /\ ServerPosition(c) \in Places /\ <<ServerEpoch(c), Top(c) + 1>> \in Places
        /\ Unknown \in Places /\ ServerEpoch(c) \in Nat \ {0} /\ ServerEpoch(c) = Len(tops[c])
    <3>1. /\ ServerPosition(c) \in Places /\ ServerEpoch(c) \in Nat \ {0} /\ Top(c) \in Nat
          /\ Unknown \in Places
      BY StreamFacts, PlacesFacts DEF SideTypes
    <3>2. \A x, y \in Nat : <<x, y>> \in Places
      BY PlacesFacts
    <3>3. ServerEpoch(c) \in Nat /\ Top(c) + 1 \in Nat
      BY <3>1
    <3>4. ServerEpoch(c) = Len(tops[c])
      BY DEF ServerEpoch
    <3>5. QED
      BY <3>1, <3>2, <3>3, <3>4
  <2>2. CASE Publish(c)
    <3> DEFINE p == <<ServerEpoch(c), Top(c) + 1>>
               x == [type |-> "pub", channel |-> c, position |-> p]
    <3>1. PICK id : id = p
      OBVIOUS
    <3>2. Issued(c, id)'
      BY <2>2, <3>1, IssuedNow
    <3>3. p \in Places /\ "pub" \in {"pub", "subscribe", "unsubscribe"}
      BY <2>1
    <3>4. wire' = wire \/ wire' = Append(wire, x)
      BY <2>2 DEF Publish, Push
    <3> HIDE DEF p
    <3>5. x \in SideMessages /\ x.type = "pub" /\ x.channel = c /\ x.position = id
      BY <3>1, <3>3, PushTypes
    <3>6. PICK y : y = x
      OBVIOUS
    <3> HIDE DEF x
    <3>7. MsgRight(y)'
      BY <3>2, <3>5, <3>6 DEF MsgRight
    <3>8. QED
      BY <1>3, <1>4, <3>4, <3>5, <3>6, <3>7
  <2>3. CASE ServerSubscribes(c)
    <3> DEFINE p == ServerPosition(c)
               x == [type |-> "subscribe", channel |-> c, position |-> p]
    <3>1. p \in Places /\ "subscribe" \in {"pub", "subscribe", "unsubscribe"}
      BY <2>1
    <3>2. p[1] <= Len(tops[c]) /\ (c \in Recoverable => p[1] # 0)
      BY <2>1 DEF ServerPosition, Unknown
    <3>3. wire' = wire \/ wire' = Append(wire, x)
      BY <2>3 DEF ServerSubscribes
    <3> HIDE DEF p
    <3>4. x \in SideMessages /\ x.type = "subscribe" /\ x.channel = c /\ x.position = p
      BY <3>1, PushTypes
    <3> HIDE DEF x
    <3>5. MsgRight(x)
      BY <3>2, <3>4 DEF MsgRight
    <3>6. PICK y \in SideMessages : y = x /\ MsgRight(y)
      BY <3>4, <3>5
    <3>7. MsgRight(y)'
      BY <3>6, RightKept
    <3>8. QED
      BY <1>3, <1>4, <3>3, <3>6, <3>7
  <2>4. CASE ServerUnsubscribes(c)
    <3> DEFINE x == [type |-> "unsubscribe", channel |-> c, position |-> Unknown]
    <3>1. wire' = wire \/ wire' = Append(wire, x)
      BY <2>4 DEF ServerUnsubscribes, Push
    <3>2. x \in SideMessages /\ x.type = "unsubscribe"
      BY <2>1, PushTypes
    <3>3. PICK y \in SideMessages : y = x
      BY <3>2
    <3> HIDE DEF x
    <3>4. MsgRight(y)'
      BY <3>2, <3>3 DEF MsgRight
    <3>5. QED
      BY <1>3, <1>4, <3>1, <3>3, <3>4
  <2>5. QED
    BY <1>7, <2>2, <2>3, <2>4 DEF Publishes
<1>8. CASE Connect \/ ReportClosed \/ Invalidated
          \/ (\E n \in Nat : InvalidateConnectionState(n))
           \/ \E c \in Channels : Reset(c)
  BY <1>3, <1>8 DEF Connect, ReportClosed, Invalidated, InvalidateConnectionState, Reset
<1>9. CASE Ends \/ Close \/ Runs \/ Idles \/ \E h \in held : Handles(h)
  BY <1>3, <1>9, EndFacts, RunFrame, HandledFrame DEF Close, LinkEnds, Idles, SideSame
<1>10. QED
  BY <1>5, <1>6, <1>7, <1>8, <1>9, SideCases

\* Messages held stay of the server.
LEMMA SentHeld ==
  ASSUME SideTypes, SideSent, [Next]_vars
  PROVE  HeldRight'
<1>1. \A h \in held : h.msg \in SideMessages /\ MsgRight(h.msg)'
  BY RightKept, HeldFields DEF SideTypes, WireTypes, SideSent, HeldRight
<1>2. CASE Take
  <2>1. PICK g \in Helds : held' = held \cup {g} /\ g.msg = wire[1]
    BY <1>2, TakeFacts
  <2>2. wire # <<>> /\ wire \in Seq(SideMessages)
    BY <1>2, TakeFacts
  <2>3. 1 \in 1..Len(wire)
    BY <2>2
  <2>4. g.msg \in SideMessages /\ MsgRight(g.msg)
    BY <2>1, <2>2, <2>3 DEF SideSent, WireRight
  <2>5. MsgRight(g.msg)'
    BY <2>4, RightKept
  <2>6. QED
    BY <1>1, <2>1, <2>5 DEF HeldRight
<1>3. ASSUME NEW h \in held, Handles(h) PROVE HeldRight'
  BY <1>1, <1>3, HandledHeld DEF HeldRight
<1>4. CASE held' = held
  BY <1>1, <1>4 DEF HeldRight
<1>5. CASE Idles \/ Runs \/ Open \/ Ends \/ \E c \in Channels : Publishes(c)
  BY <1>4, <1>5, RunFrame, OpenFacts, PushedFacts, EndFacts DEF Idles, SideSame
<1>6. CASE Connect \/ Close \/ Invalidated \/ ReportClosed \/ (\E c \in Channels : Reset(c))
           \/ \E n \in Nat : InvalidateConnectionState(n)
  BY <1>4, <1>6
     DEF Connect, Close, Invalidated, ReportClosed, Reset, InvalidateConnectionState
<1>7. QED
  BY <1>2, <1>3, <1>5, <1>6, SideCases

\* The entry of one publication of the server.
LEMMA EntryOfPublication ==
  ASSUME NEW c, NEW n, NEW p, NEW w, Issued(c, p)
  PROVE  EntryRight(Entry("publication", {c}, n, <<p>>, Unknown, w))
<1> DEFINE e == Entry("publication", {c}, n, <<p>>, Unknown, w)
<1>1. e.pubs = <<p>> /\ e.channels = {c}
  BY DEF Entry
<1> HIDE DEF e
<1>2. Len(e.pubs) = 1 /\ e.pubs[1] = p
  BY <1>1
<1>3. Chained(e.pubs)
  BY <1>2 DEF Chained
<1>4. EntryRight(e)
  BY <1>1, <1>2, <1>3 DEF EntryRight
<1>5. QED
  BY <1>4 DEF e

\* An entry without publications.
LEMMA EntryOfOthers ==
  ASSUME NEW k, NEW cs, NEW n, NEW q, NEW p, NEW w, k \notin {"publication", "publications"}
  PROVE  EntryRight(Entry(k, cs, n, q, p, w))
<1>1. Entry(k, cs, n, q, p, w).kind = k
  BY DEF Entry
<1>2. QED
  BY <1>1 DEF EntryRight

\* The entry of the publications recovered.
LEMMA EntryOfRecovered ==
  ASSUME NEW c, NEW n, NEW sub, SubRight(c, sub)
  PROVE  EntryRight(Entry("publications", {c}, n, sub.pubs, Unknown, FALSE))
<1> DEFINE e == Entry("publications", {c}, n, sub.pubs, Unknown, FALSE)
<1>1. e.pubs = sub.pubs /\ e.channels = {c}
  BY DEF Entry
<1> HIDE DEF e
<1>2. EntryRight(e)
  BY <1>1 DEF EntryRight, SubRight
<1>3. QED
  BY <1>2 DEF e

\* A subscription of the connect reply a reader holds is what the server says.
LEMMA SubRightOf ==
  ASSUME SideTypes, SideSent, NEW h \in held, h.msg.type = "connect",
         NEW c \in DOMAIN h.msg.subs
  PROVE  SubRight(c, h.msg.subs[c]) /\ h.msg.subs[c] \in SubReplies /\ c \in Channels
<1>1. h.msg \in SideMessages /\ MsgRight(h.msg)
  BY HeldFields DEF SideTypes, WireTypes, SideSent, HeldRight
<1>2. QED
  BY <1>1, SideMessageFields DEF MsgRight

\* Entries of the queue stay of the server.
LEMMA SentQueue ==
  ASSUME SideTypes, SideSent, [Next]_vars
  PROVE  QueueRight'
<1>1. queue \in Seq(SideEvents) /\ \A i \in 1..Len(queue) : queue[i] \in SideEvents
  BY DEF SideTypes, SideQueueTypes
<1>2. \A i \in 1..Len(queue) : \E e \in SideEvents : e = queue[i] /\ EntryRight(e)'
  BY <1>1, RightKept DEF SideSent, QueueRight
<1>3. ASSUME queue' = queue PROVE QueueRight'
  BY <1>2, <1>3 DEF QueueRight
<1>4. ASSUME NEW x \in SideEvents, queue' = Append(queue, x), EntryRight(x)
      PROVE  QueueRight'
  <2>1. \A i \in 1..Len(queue') : queue'[i] = x \/ (i \in 1..Len(queue) /\ queue'[i] = queue[i])
    BY <1>1, <1>4
  <2>2. EntryRight(x)'
    BY <1>4, RightKept
  <2>3. QED
    BY <1>2, <2>1, <2>2 DEF QueueRight
<1>5. ASSUME NEW x \in SideEvents, NEW y \in SideEvents, queue' = Append(Append(queue, x), y),
             EntryRight(x), EntryRight(y)
      PROVE  QueueRight'
  <2>1. \A i \in 1..Len(queue') : queue'[i] \in {x, y} \/ (i \in 1..Len(queue)
            /\ queue'[i] = queue[i])
    BY <1>1, <1>5
  <2>2. EntryRight(x)' /\ EntryRight(y)'
    BY <1>5, RightKept
  <2>3. QED
    BY <1>2, <2>1, <2>2 DEF QueueRight
<1>6. CASE Ends
  <2> DEFINE e == Entry("subscribing", DOMAIN serverSubs, 0, <<>>, Unknown, FALSE)
  <2>1. e \in SideEvents
    <3>1. DOMAIN serverSubs \in SUBSET Channels /\ 0 \in Nat /\ 0 <= 0
      BY DEF SideTypes, SubTypes
    <3>2. QED
      BY <3>1, NoticeTypes
  <2>2. EntryRight(e)
    BY EntryOfOthers
  <2>3. queue' = queue \/ queue' = Append(queue, e)
    BY <1>6, EndFacts
  <2> HIDE DEF e
  <2>4. QED
    BY <1>3, <1>4, <2>1, <2>2, <2>3
<1>7. CASE ReportClosed
  <2> DEFINE e == Entry("unsubscribed", leaving, 0, <<>>, Unknown, FALSE)
  <2>1. e \in SideEvents
    <3>1. leaving \in SUBSET Channels /\ 0 \in Nat /\ 0 <= 0
      BY DEF SideTypes, SubTypes
    <3>2. QED
      BY <3>1, NoticeTypes
  <2>2. EntryRight(e)
    BY EntryOfOthers
  <2>3. queue' = Append(queue, e)
    BY <1>7, EntryPlain DEF ReportClosed
  <2> HIDE DEF e
  <2>4. QED
    BY <1>4, <2>1, <2>2, <2>3
<1>8. ASSUME NEW h \in held, Handles(h) PROVE QueueRight'
  <2>1. h \in Helds /\ h.msg \in SideMessages /\ h.connection \in Nat
            /\ h.connection <= h.connection
    BY HeldFields DEF SideTypes, WireTypes
  <2>2. CASE HandleConnect(h)
    <3> DEFINE e == Entry("connected", {}, h.connection, <<>>, Unknown, FALSE)
    <3>1. queue' = queue \/ queue' = Append(queue, e)
      BY <2>1, <2>2, ConnectFacts
    <3>2. e \in SideEvents
      BY <2>1, NoticeTypes
    <3>3. EntryRight(e)
      BY EntryOfOthers
    <3> HIDE DEF e
    <3>4. QED
      BY <1>3, <1>4, <3>1, <3>2, <3>3
  <2>3. ASSUME NEW c, StoreSub(h, c) PROVE QueueRight'
    <3> DEFINE sub == h.msg.subs[c]
               e == Entry(sub.kind, {c}, h.connection, <<>>, <<sub.epoch, sub.offset>>, FALSE)
               f == Entry("publications", {c}, h.connection, sub.pubs, Unknown, FALSE)
    <3>1. /\ c \in DOMAIN h.msg.subs /\ e \in SideEvents /\ f \in SideEvents
                 /\ sub \in SubReplies
          /\ h.msg.type = "connect"
          /\ queue' = queue \/ queue' = Append(queue, e) \/ queue' = Append(Append(queue, e), f)
      BY <2>3, StoreStep DEF StoreSub
    <3>2. sub.kind \notin {"publication", "publications"}
      BY <3>1, SubReplyFields DEF SubKinds
    <3>3. EntryRight(e)
      BY <3>2, EntryOfOthers
    <3>4. EntryRight(f)
      BY <3>1, SubRightOf, EntryOfRecovered
    <3> HIDE DEF e, f
    <3>5. QED
      BY <1>3, <1>4, <1>5, <3>1, <3>3, <3>4
  <2>4. CASE RemoveAbsent(h)
    <3> DEFINE gone == Absent(h.msg.subs)
               e == Entry("unsubscribed", gone, h.connection, <<>>, Unknown, FALSE)
    <3>1. queue' = queue \/ queue' = Append(queue, e)
      BY <2>4, RemoveFacts
    <3>2. EntryRight(e)
      BY EntryOfOthers
    <3>3. gone \in SUBSET Channels
      BY DEF Absent, SideTypes, SubTypes
    <3> HIDE DEF gone
    <3>4. e \in SideEvents
      BY <2>1, <3>3, NoticeTypes
    <3> HIDE DEF e
    <3>5. QED
      BY <1>3, <1>4, <3>1, <3>2, <3>4
  <2>5. CASE HandlePush(h)
    <3> DEFINE c == h.msg.channel
               p == h.msg.position
               n == h.connection
               w == Stale(h)
               x == Entry("publication", {c}, n, <<p>>, Unknown, w)
               y == Entry("unrecovered", {c}, n, <<>>, p, FALSE)
               z == Entry("unsubscribed", {c}, n, <<>>, Unknown, FALSE)
    <3>1. /\ h.msg.type \in {"pub", "subscribe", "unsubscribe"}
          /\ queue' = queue \/ (h.msg.type = "pub" /\ queue' = Append(queue, x))
             \/ queue' = Append(queue, y) \/ queue' = Append(queue, z)
      BY <2>5, PushFacts
    <3>2. c \in Channels /\ p \in Places
      BY <2>1, <3>1, SideMessageFields
    <3>3. h.msg.type = "pub" => Issued(c, p)
      BY DEF SideSent, HeldRight, MsgRight
    <3>4. w \in BOOLEAN
      BY DEF Stale
    <3> HIDE DEF c, p, n, w
    <3>5. x \in SideEvents
      BY <2>1, <3>2, <3>4, PubbedTypes DEF n
    <3>6. y \in SideEvents
      <4> DEFINE k == "unrecovered"
      <4>1. k \in SubKinds
        BY DEF SubKinds
      <4>2. y = Entry(k, {c}, n, <<>>, p, FALSE)
        OBVIOUS
      <4> HIDE DEF k
      <4>3. QED
        BY <2>1, <3>2, <4>1, <4>2, EntryTypes, PlacesFacts DEF SideKinds, n
    <3>7. z \in SideEvents
      <4>1. {c} \in SUBSET Channels /\ n \in Nat /\ n <= n
        BY <2>1, <3>2 DEF n
      <4>2. QED
        BY <4>1, NoticeTypes
    <3>8. EntryRight(y) /\ EntryRight(z)
      BY EntryOfOthers
    <3>9. h.msg.type = "pub" => EntryRight(x)
      BY <3>3, EntryOfPublication
    <3> HIDE DEF x, y, z
    <3>10. QED
      BY <1>3, <1>4, <3>1, <3>5, <3>6, <3>7, <3>8, <3>9
  <2>6. QED
    BY <1>8, <2>2, <2>3, <2>4, <2>5 DEF Handles
<1>9. CASE Runs
  <2>1. queue # <<>>
    BY <1>9, RunFrame
  <2>2. /\ Tail(queue) \in Seq(SideEvents) /\ queue[1] \in SideEvents
               /\ Len(queue) \in Nat \ {0}
        /\ \A i \in 1..Len(Tail(queue)) : i + 1 \in 1..Len(queue)
               /\ Tail(queue)[i] = queue[i + 1]
    BY <2>1, FirstEvent
  <2>3. CASE queue' = Tail(queue)
    BY <1>2, <2>2, <2>3 DEF QueueRight
  <2>4. CASE RunRecovered /\ queue' # Tail(queue)
    <3>1. PICK r \in SideEvents :
               /\ queue' = <<r>> \o Tail(queue) /\ r.kind = "publications"
               /\ r.pubs = Tail(queue[1].pubs) /\ r.channels = queue[1].channels
      BY <2>4, RecoveredFacts
    <3>2. queue[1].kind = "publications" /\ queue[1].pubs # <<>>
              /\ queue[1].pubs \in Seq(Places)
      BY <2>2, <2>4, RecoveredFacts, SideEventFields
    <3>3. EntryRight(queue[1])
      BY <2>2 DEF SideSent, QueueRight
    <3> DEFINE q == queue[1].pubs
    <3>4. Len(Tail(q)) = Len(q) - 1 /\ Len(q) \in Nat
              /\ \A i \in 1..Len(Tail(q)) : Tail(q)[i] = q[i + 1]
      BY <3>2, SeqFacts
    <3>5. Chained(q) /\ \A c \in queue[1].channels : \A i \in 1..Len(q) : Issued(c, q[i])
      BY <3>2, <3>3 DEF EntryRight
    <3> HIDE DEF q
    <3>6. Chained(Tail(q)) /\ \A c \in queue[1].channels : \A i \in 1..Len(Tail(q)) : Issued(c, Tail(q)[i])
      <4>1. \A i \in 1..Len(Tail(q)) : i + 1 \in 1..Len(q) /\ Tail(q)[i] = q[i + 1]
        BY <3>4
      <4>2. Chained(Tail(q))
        BY <3>5, <4>1 DEF Chained
      <4>3. QED
        BY <3>5, <4>1, <4>2
    <3>7. EntryRight(r)
      BY <3>1, <3>6 DEF EntryRight, q
    <3>8. EntryRight(r)'
      BY <3>7, RightKept
    <3>9. \A i \in 1..Len(queue') : queue'[i] = r
              \/ \E k \in 1..Len(queue) : queue'[i] = queue[k]
      <4>1. \A i \in 1..Len(queue') :
               IF i = 1 THEN queue'[i] = r
               ELSE i - 1 \in 1..Len(Tail(queue)) /\ queue'[i] = Tail(queue)[i - 1]
        BY <2>2, <3>1
      <4>2. QED
        BY <2>2, <4>1
    <3>10. QED
      BY <1>2, <3>8, <3>9 DEF QueueRight
  <2>5. QED
    BY <1>9, <2>3, <2>4 DEF Runs, RunNotice, RunSubscribed, RunPublication
<1>10. CASE Idles \/ Take \/ Open \/ \E c \in Channels : Publishes(c)
  BY <1>3, <1>10, TakeFacts, OpenFacts, PushedFacts DEF Idles, SideSame
<1>11. CASE Connect \/ Close \/ Invalidated \/ (\E n \in Nat : InvalidateConnectionState(n))
            \/ \E c \in Channels : Reset(c)
  BY <1>3, <1>11 DEF Connect, Close, Invalidated, InvalidateConnectionState, Reset
<1>12. QED
  BY <1>6, <1>7, <1>8, <1>9, <1>10, <1>11, SideCases

\* Subscriptions stay of an epoch of the server.
LEMMA SentSubs ==
  ASSUME SideTypes, SideSent, [Next]_vars
  PROVE  SubsRight'
<1>1. /\ DOMAIN serverSubs \subseteq Channels
      /\ \A d \in DOMAIN serverSubs : serverSubs[d] \in Int \X Nat /\ serverSubs[d][1] \in Int
                                      /\ serverSubs[d][1] <= Len(tops[d])
  BY DEF SideTypes, SubTypes, SideSent, SubsRight
<1>2. ASSUME \A c \in DOMAIN serverSubs' : c \in Channels /\ serverSubs'[c][1] \in Int
                                           /\ serverSubs'[c][1] <= Len(tops[c])
      PROVE  SubsRight'
  BY <1>2, TopsGrow DEF SubsRight
<1>3. ASSUME serverSubs' = serverSubs PROVE SubsRight'
  BY <1>1, <1>2, <1>3
<1>4. ASSUME NEW d \in Channels, NEW p, p[1] \in Int, p[1] <= Len(tops[d]),
             serverSubs' = With(d, p)
      PROVE  SubsRight'
  <2>1. /\ DOMAIN serverSubs' = DOMAIN serverSubs \cup {d}
        /\ \A c \in DOMAIN serverSubs' : serverSubs'[c] = IF c = d THEN p ELSE serverSubs[c]
    BY <1>4 DEF With
  <2>2. QED
    BY <1>1, <1>2, <1>4, <2>1
<1>5. ASSUME NEW cs, serverSubs' = Without(cs) PROVE SubsRight'
  <2>1. /\ DOMAIN serverSubs' = DOMAIN serverSubs \ cs
        /\ \A c \in DOMAIN serverSubs \ cs : serverSubs'[c] = serverSubs[c]
    BY <1>5, WithoutFacts
  <2>2. QED
    BY <1>1, <1>2, <2>1
<1>6. ASSUME NEW d \in DOMAIN serverSubs,
             NEW id \in Places, Issued(d, id), serverSubs' = With(d, Adopted(d, id))
      PROVE  SubsRight'
  <2>1. /\ Adopted(d, id)[1] = IF serverSubs[d][1] = NoEpoch THEN id[1] ELSE serverSubs[d][1]
        /\ id[1] \in Nat /\ d \in Channels /\ Len(tops[d]) \in Nat
    BY <1>1, AdoptedTypes, PlacesFacts, TopsGrow DEF SideTypes
  <2>2. id[1] <= Len(tops[d])
    BY <1>6, <2>1 DEF Issued
  <2>3. QED
    BY <1>1, <1>4, <1>6, <2>1, <2>2
<1>7. ASSUME NEW h \in held, Handles(h) PROVE SubsRight'
  <2>1. h \in Helds /\ h.msg \in SideMessages /\ MsgRight(h.msg)
    BY HeldFields DEF SideTypes, WireTypes, SideSent, HeldRight
  <2>2. CASE HandleConnect(h)
    BY <1>3, <2>1, <2>2, ConnectFacts
  <2>3. ASSUME NEW c, StoreSub(h, c) PROVE SubsRight'
    <3> DEFINE sub == h.msg.subs[c]
    <3>1. /\ c \in DOMAIN h.msg.subs /\ h.msg.type = "connect" /\ queue \in Seq(SideEvents)
          /\ serverSubs' = serverSubs \/ serverSubs' = With(c, Stored(c, sub))
      BY <2>1, <2>3, StoreStep, StoreFacts DEF SideTypes, SideQueueTypes
    <3>2. SubRight(c, sub) /\ sub \in SubReplies /\ c \in Channels
      BY <3>1, SubRightOf
    <3>3. sub.epoch \in Nat /\ sub.epoch <= Len(tops[c])
      BY <3>2, SubReplyFields DEF SubRight
    <3> HIDE DEF sub
    <3>4. Stored(c, sub)[1] = sub.epoch \/ (c \in DOMAIN serverSubs
              /\ Stored(c, sub)[1] = serverSubs[c][1])
      BY DEF Stored
    <3>5. Stored(c, sub)[1] \in Int /\ Stored(c, sub)[1] <= Len(tops[c])
      BY <1>1, <3>3, <3>4
    <3>6. QED
      BY <1>3, <1>4, <3>1, <3>2, <3>5
  <2>4. CASE RemoveAbsent(h)
    BY <1>3, <1>5, <2>4, RemoveFacts
  <2>5. CASE HandlePush(h)
    <3> DEFINE c == h.msg.channel
               p == h.msg.position
    <3>1. /\ h.msg.type \in {"pub", "subscribe", "unsubscribe"}
          /\ \/ h.msg.type = "pub" /\ c \in DOMAIN serverSubs
                    /\ serverSubs' = With(c, Adopted(c, p))
             \/ h.msg.type = "subscribe" /\ serverSubs' = With(c, p)
             \/ serverSubs' = Without({c})
             \/ serverSubs' = serverSubs
      BY <2>5, PushFacts
    <3>2. c \in Channels /\ p \in Places /\ p[1] \in Int
      BY <2>1, <3>1, SideMessageFields, PlacesFacts
    <3>3. /\ h.msg.type = "pub" => Issued(c, p)
          /\ h.msg.type = "subscribe" => p[1] <= Len(tops[c])
      BY <2>1 DEF MsgRight
    <3> HIDE DEF c, p
    <3>4. QED
      BY <1>3, <1>4, <1>5, <1>6, <3>1, <3>2, <3>3
  <2>6. QED
    BY <1>7, <2>2, <2>3, <2>4, <2>5 DEF Handles
<1>8. CASE RunRecovered
  <2>1. PICK c \in Channels :
          /\ queue[1].channels = {c}
          /\ \/ /\ c \in DOMAIN serverSubs /\ queue[1].pubs[1] \in Places
                /\ serverSubs' = With(c, Adopted(c, queue[1].pubs[1]))
             \/ serverSubs' = serverSubs
    BY <1>8, RecoveredFacts DEF MayDeliver
  <2>2. /\ queue[1].kind = "publications" /\ queue[1].pubs # <<>> /\ queue # <<>>
        /\ queue[1] \in SideEvents /\ queue[1].pubs \in Seq(Places)
    BY <1>8, RecoveredFacts, FirstEvent, SideEventFields
  <2>3. 1 \in 1..Len(queue) /\ 1 \in 1..Len(queue[1].pubs)
    BY <2>2, FirstEvent
  <2>4. EntryRight(queue[1])
    BY <2>3 DEF SideSent, QueueRight
  <2>5. Issued(c, queue[1].pubs[1])
    BY <2>1, <2>2, <2>3, <2>4 DEF EntryRight
  <2>6. QED
    BY <1>3, <1>6, <2>1, <2>5
<1>9. CASE \E n \in Nat : InvalidateConnectionState(n)
  <2> DEFINE g == <<-1, 0>>
  <2>1. serverSubs' = [c \in DOMAIN serverSubs |-> g]
    BY <1>9 DEF InvalidateConnectionState, InvalidatedEpoch
  <2>2. g[1] = -1
    OBVIOUS
  <2> HIDE DEF g
  <2>3. \A c \in DOMAIN serverSubs' : c \in Channels /\ serverSubs'[c][1] = -1
    BY <1>1, <2>1, <2>2
  <2>4. \A c \in Channels : Len(tops[c]) \in Nat
    BY TopsGrow
  <2>5. QED
    BY <1>2, <2>3, <2>4
<1>10. CASE Idles \/ Take \/ Open \/ Ends \/ (\E c \in Channels : Publishes(c)) \/ (Runs
           /\ ~RunRecovered)
  BY <1>3, <1>10, TakeFacts, OpenFacts, EndFacts, PushedFacts, RunFrame
     DEF Idles, SideSame
<1>11. CASE Connect \/ Close \/ Invalidated \/ ReportClosed \/ \E c \in Channels : Reset(c)
  BY <1>3, <1>11 DEF Connect, Close, Invalidated, ReportClosed, Reset
<1>12. QED
  BY <1>7, <1>8, <1>9, <1>10, <1>11, SideCases

\* A step keeps that all is of the server.
LEMMA SideSentStep ==
  ASSUME SideTypes, SideSent, [Next]_vars
  PROVE  SideSent'
BY SentWire, SentHeld, SentQueue, SentSubs DEF SideSent

------------------------------------------------------------------------------
(* The order in which readers, closes and the queue work *)

\* A message that was just taken: the reader waited for its last event.
HeldFresh == \A h \in held : ~h.started => EventsRan(h.connection)

\* A transport is reported closed, with state invalidated, after everything it carried.
ClosedLast ==
  \A x \in closes : x[1] = connectAttempt /\ Linked =>
    state = "connected" /\ wire = <<>> /\ ~serverUp /\ ReaderFree(connectAttempt)

\* The entry delivers recovered publications of the current connection.
Current(e) == e.kind = "publications" /\ e.reader = connectAttempt /\ state = "connected"

\* ... and the reader waits for it: nothing comes after it.
OneCurrent == \A i \in 1..Len(queue) : Current(queue[i]) => i = Len(queue)

\* ... unless a push of an ended connection was applied to this one.
CurrentLast == ~strayed => OneCurrent

\* The order of messages, closes and entries.
SideOrder == HeldFresh /\ ClosedLast /\ CurrentLast

\* What a step does to the queue: a reader adds to it, a teardown or a close adds to it,
\* it runs its first entry, or nothing.
LEMMA QueueCases ==
  ASSUME [Next]_vars
  PROVE  (\E h \in held : Handles(h)) \/ Ends \/ ReportClosed \/ Runs \/ queue' = queue
<1>1. CASE Idles \/ Take \/ Open \/ \E c \in Channels : Publishes(c)
  BY <1>1
     DEF Idles, SideSame, Take, Open, Publishes, Publish, ServerSubscribes,
         ServerUnsubscribes
<1>2. CASE Connect \/ Close \/ Invalidated \/ (\E n \in Nat : InvalidateConnectionState(n))
            \/ \E c \in Channels : Reset(c)
  BY <1>2 DEF Connect, Close, Invalidated, InvalidateConnectionState, Reset
<1>3. QED
  BY <1>1, <1>2, SideCases

\* What a reader does leaves the events of the others run.
LEMMA RanByReader ==
  ASSUME SideTypes, NEW h \in held, Handles(h), NEW n, n # h.connection, EventsRan(n)
  PROVE  EventsRan(n)'
<1>1. queue \in Seq(SideEvents) /\ Queues(h) /\ \A i \in 1..Len(queue) : queue[i].reader # n
  BY HandledQueue DEF SideTypes, SideQueueTypes, EventsRan
<1>2. CASE queue' = queue
  BY <1>1, <1>2 DEF EventsRan
<1>3. ASSUME NEW e \in SideEvents, e.reader = h.connection, queue' = Append(queue, e)
      PROVE  EventsRan(n)'
  <2>1. \A i \in 1..Len(queue') : queue'[i] = e \/ (i \in 1..Len(queue) /\ queue'[i] = queue[i])
    BY <1>1, <1>3
  <2>2. QED
    BY <1>1, <1>3, <2>1 DEF EventsRan
<1>4. ASSUME NEW e \in SideEvents, NEW f \in SideEvents, e.reader = h.connection,
             f.reader = h.connection, queue' = Append(Append(queue, e), f)
      PROVE  EventsRan(n)'
  <2>1. \A i \in 1..Len(queue') : queue'[i] \in {e, f} \/ (i \in 1..Len(queue)
            /\ queue'[i] = queue[i])
    BY <1>1, <1>4
  <2>2. QED
    BY <1>1, <1>4, <2>1 DEF EventsRan
<1>5. QED
  BY <1>1, <1>2, <1>3, <1>4 DEF Queues

\* So does every step that is not a reader's.
LEMMA RanByOthers ==
  ASSUME SideTypes, Ends \/ ReportClosed \/ Runs \/ queue' = queue, NEW n, n # 0, EventsRan(n)
  PROVE  EventsRan(n)'
<1>1. queue \in Seq(SideEvents) /\ \A i \in 1..Len(queue) : queue[i].reader # n
  BY DEF SideTypes, SideQueueTypes, EventsRan
<1>2. CASE queue' = queue
  BY <1>1, <1>2 DEF EventsRan
<1>3. ASSUME NEW e, e.reader = 0, queue' = Append(queue, e)
      PROVE  EventsRan(n)'
  <2>1. \A i \in 1..Len(queue') : queue'[i] = e \/ (i \in 1..Len(queue) /\ queue'[i] = queue[i])
    BY <1>1, <1>3
  <2>2. QED
    BY <1>1, <1>3, <2>1 DEF EventsRan
<1>4. CASE Ends
  <2> DEFINE e == Entry("subscribing", DOMAIN serverSubs, 0, <<>>, Unknown, FALSE)
  <2>1. e.reader = 0 /\ (queue' = queue \/ queue' = Append(queue, e))
    BY <1>4, EndFacts DEF Entry
  <2> HIDE DEF e
  <2>2. QED
    BY <1>2, <1>3, <2>1
<1>5. CASE ReportClosed
  <2> DEFINE e == Entry("unsubscribed", leaving, 0, <<>>, Unknown, FALSE)
  <2>1. e.reader = 0 /\ queue' = Append(queue, e)
    BY <1>5, EntryPlain DEF ReportClosed, Entry
  <2> HIDE DEF e
  <2>2. QED
    BY <1>3, <2>1
<1>6. CASE Runs
  <2>1. queue # <<>>
    BY <1>6, RunFrame
  <2>2. /\ Tail(queue) \in Seq(SideEvents) /\ Len(queue) \in Nat \ {0}
        /\ \A i \in 1..Len(Tail(queue)) : i + 1 \in 1..Len(queue)
               /\ Tail(queue)[i] = queue[i + 1]
    BY <2>1, FirstEvent
  <2>3. CASE queue' = Tail(queue)
    BY <1>1, <2>2, <2>3 DEF EventsRan
  <2>4. CASE RunRecovered /\ queue' # Tail(queue)
    <3>1. PICK r \in SideEvents : queue' = <<r>> \o Tail(queue) /\ r.reader = queue[1].reader
      BY <2>4, RecoveredFacts
    <3>2. \A i \in 1..Len(queue') :
             IF i = 1 THEN queue'[i] = r
             ELSE i - 1 \in 1..Len(Tail(queue)) /\ queue'[i] = Tail(queue)[i - 1]
      BY <2>2, <3>1
    <3>3. \A i \in 1..Len(queue') : queue'[i] = r
              \/ \E k \in 1..Len(queue) : queue'[i] = queue[k]
      BY <2>2, <3>2
    <3>4. QED
      BY <1>1, <2>2, <3>1, <3>3 DEF EventsRan
  <2>5. QED
    BY <1>6, <2>3, <2>4 DEF Runs, RunNotice, RunSubscribed, RunPublication
<1>7. QED
  BY <1>2, <1>4, <1>5, <1>6

\* A reader takes a message when the events of the last one have run.
LEMMA HeldFreshStep ==
  ASSUME SideTypes, SideReader, HeldFresh, [Next]_vars
  PROVE  HeldFresh'
<1>1. \A h \in held : h \in Helds /\ h.connection # 0 /\ (~h.started => EventsRan(h.connection))
  BY HeldFields DEF SideTypes, WireTypes, HeldFresh
<1>2. ASSUME held' = held, Ends \/ ReportClosed \/ Runs \/ queue' = queue
      PROVE  HeldFresh'
  <2>1. \A n : n # 0 /\ EventsRan(n) => EventsRan(n)'
    BY <1>2, RanByOthers
  <2>2. QED
    BY <1>1, <1>2, <2>1 DEF HeldFresh
<1>3. CASE Take
  <2>1. PICK g \in Helds : held' = held \cup {g} /\ g.connection = connectAttempt
    BY <1>3, TakeFacts
  <2>2. EventsRan(connectAttempt) /\ queue' = queue
    BY <1>3, TakeFacts DEF ReaderFree
  <2>3. \A n : n # 0 /\ EventsRan(n) => EventsRan(n)'
    BY <2>2, RanByOthers
  <2>4. g.connection # 0
    BY HeldFields
  <2>5. QED
    BY <1>1, <2>1, <2>2, <2>3, <2>4 DEF HeldFresh
<1>4. ASSUME NEW h \in held, Handles(h) PROVE HeldFresh'
  <2>1. held' = held \ {h} \/ \E g : held' = (held \ {h}) \cup {g} /\ g.started = TRUE
    BY <1>4, HandledHeld
  <2>2. \A k \in held' : k.started \/ (k \in held /\ k # h)
    BY <2>1
  <2>3. \A k \in held : k # h => k.connection # h.connection
    BY DEF SideReader
  <2>4. \A n : n # h.connection /\ EventsRan(n) => EventsRan(n)'
    BY <1>4, RanByReader
  <2>5. QED
    BY <1>1, <2>2, <2>3, <2>4 DEF HeldFresh
<1>5. CASE Idles \/ Runs \/ Open \/ Ends \/ \E c \in Channels : Publishes(c)
  <2>1. held' = held /\ (Ends \/ Runs \/ queue' = queue)
    BY <1>5, RunFrame, OpenFacts, PushedFacts, EndFacts DEF Idles, SideSame
  <2>2. QED
    BY <1>2, <2>1
<1>6. CASE Connect \/ Close \/ Invalidated \/ ReportClosed \/ (\E c \in Channels : Reset(c))
           \/ \E n \in Nat : InvalidateConnectionState(n)
  <2>1. held' = held /\ (ReportClosed \/ queue' = queue)
    BY <1>6
       DEF Connect, Close, Invalidated, ReportClosed, Reset, InvalidateConnectionState
  <2>2. QED
    BY <1>2, <2>1
<1>7. QED
  BY <1>3, <1>4, <1>5, <1>6, SideCases

\* A close that is reported stays the last thing of its connection.
LEMMA ClosedLastStep ==
  ASSUME SideTypes, SideReader, SideOrder, [Next]_vars
  PROVE  ClosedLast'
<1>1. /\ connectAttempt \in Nat /\ \A x \in closes : x[1] \in Nat /\ x[1] <= connectAttempt
      /\ Linked => connectAttempt # 0
  BY DEF SideTypes, SessionTypes, WireTypes
<1>2. ASSUME closes' \subseteq closes, UNCHANGED <<state, connectAttempt, held>>,
             serverUp' => serverUp,
             ~serverUp => wire' = wire, Runs \/ queue' = queue
      PROVE  ClosedLast'
  <2>1. Linked' <=> Linked
    BY <1>2 DEF Linked
  <2>2. ASSUME NEW x \in closes, x[1] = connectAttempt, Linked
        PROVE  state = "connected" /\ wire' = <<>> /\ ~serverUp' /\ ReaderFree(connectAttempt)'
    <3>1. state = "connected" /\ wire = <<>> /\ ~serverUp /\ ReaderFree(connectAttempt)
      BY <2>2 DEF SideOrder, ClosedLast
    <3>2. EventsRan(connectAttempt)'
      <4>1. PICK n : n = connectAttempt
        OBVIOUS
      <4>2. EventsRan(n)'
        BY <1>1, <1>2, <2>2, <3>1, <4>1, RanByOthers DEF ReaderFree
      <4>3. QED
        BY <1>2, <4>1, <4>2 DEF EventsRan
    <3>3. QED
      BY <1>2, <3>1, <3>2 DEF ReaderFree
  <2>3. QED
    BY <1>2, <2>1, <2>2 DEF ClosedLast
<1>3. ASSUME ~Linked' PROVE ClosedLast'
  BY <1>3 DEF ClosedLast
<1>4. CASE Open
  <2>1. connectAttempt' = connectAttempt + 1 /\ closes' = closes
    BY <1>4, OpenFacts
  <2>2. QED
    BY <1>1, <2>1 DEF ClosedLast
<1>5. CASE Take
  <2>1. wire # <<>> /\ Linked /\ UNCHANGED <<closes, connectAttempt>>
    BY <1>5, TakeFacts
  <2>2. \A x \in closes : x[1] # connectAttempt
    BY <2>1 DEF SideOrder, ClosedLast
  <2>3. QED
    BY <2>1, <2>2 DEF ClosedLast
<1>6. ASSUME NEW h \in held, Handles(h) PROVE ClosedLast'
  <2>1. /\ UNCHANGED <<serverUp, connectAttempt, wire, closes>> /\ h \in Helds
        /\ state' = state \/ HandleConnect(h)
    BY <1>6, HandledFrame DEF SideTypes, WireTypes
  <2>2. ASSUME NEW x \in closes, x[1] = connectAttempt, Linked'
        PROVE  state' = "connected" /\ wire = <<>> /\ ~serverUp /\ ReaderFree(connectAttempt)'
    <3>1. Linked
      BY <2>1, <2>2, ConnectFacts DEF Linked
    <3>2. state = "connected" /\ wire = <<>> /\ ~serverUp /\ ReaderFree(connectAttempt)
      BY <2>2, <3>1 DEF SideOrder, ClosedLast
    <3>3. state' = state
      BY <2>1, <3>2, ConnectFacts
    <3>4. h.connection # connectAttempt
      BY <3>2 DEF ReaderFree
    <3>5. EventsRan(connectAttempt)'
      <4>1. PICK n : n = connectAttempt
        OBVIOUS
      <4>2. EventsRan(n)'
        BY <1>6, <3>2, <3>4, <4>1, RanByReader DEF ReaderFree
      <4>3. QED
        BY <2>1, <4>1, <4>2 DEF EventsRan
    <3>6. \A k \in held' : k.connection # connectAttempt
      <4>1. held' = held \ {h} \/ \E g : held' = (held \ {h}) \cup {g}
                /\ g.connection = h.connection
        BY <1>6, HandledHeld
      <4>2. QED
        BY <3>2, <3>4, <4>1 DEF ReaderFree
    <3>7. QED
      BY <2>1, <3>2, <3>3, <3>5, <3>6 DEF ReaderFree
  <2>3. QED
    BY <2>1, <2>2 DEF ClosedLast
<1>7. CASE Invalidated
  <2>1. /\ state = "connected" /\ wire = <<>> /\ ReaderFree(connectAttempt)
        /\ UNCHANGED <<state, connectAttempt, wire, held, queue>>
    BY <1>7 DEF Invalidated, connection
  <2>2. ~serverUp'
    BY <1>7, Zenon DEF Invalidated
  <2>3. ReaderFree(connectAttempt)'
    BY <2>1 DEF ReaderFree, EventsRan
  <2>4. QED
    BY <2>1, <2>2, <2>3 DEF ClosedLast
<1>8. ASSUME NEW n \in Nat, InvalidateConnectionState(n) PROVE ClosedLast'
  <2>1. /\ <<n, "invalidate">> \in closes
        /\ closes' = (closes \ {<<n, "invalidate">>}) \cup {<<n, "move">>}
        /\ UNCHANGED <<serverUp, state, connectAttempt, wire, held, queue>>
    BY <1>8 DEF InvalidateConnectionState, connection
  <2>2. \A x \in closes' : \E y \in closes : x[1] = y[1]
    <3>1. <<n, "invalidate">>[1] = n /\ <<n, "move">>[1] = n
      OBVIOUS
    <3>2. QED
      BY <2>1, <3>1
  <2>3. ReaderFree(connectAttempt)' <=> ReaderFree(connectAttempt)
    BY <2>1 DEF ReaderFree, EventsRan
  <2>4. (Linked' <=> Linked)
    BY <2>1 DEF Linked
  <2>5. QED
    BY <2>1, <2>2, <2>3, <2>4 DEF ClosedLast, SideOrder
<1>9. CASE Runs \/ Idles
  BY <1>2, <1>9, RunFrame DEF Idles, SideSame
<1>10. ASSUME NEW c \in Channels, Publishes(c) \/ Reset(c) PROVE ClosedLast'
  <2>1. CASE Publishes(c)
    <3>1. /\ UNCHANGED <<closes, state, connectAttempt, held, serverUp, queue>>
          /\ ~serverUp => wire' = wire
      BY <2>1, PushedFacts
    <3>2. QED
      BY <1>2, <3>1
  <2>2. CASE Reset(c)
    <3>1. /\ UNCHANGED <<closes, state, connectAttempt, held, wire, queue>>
          /\ serverUp' => serverUp
      BY <2>2 DEF Reset, connection
    <3>2. QED
      BY <1>2, <3>1
  <2>3. QED
    BY <1>10, <2>1, <2>2
<1>11. CASE Connect \/ Ends \/ Close
  BY <1>3, <1>11, EndFacts DEF Connect, Close, Linked
<1>12. CASE ReportClosed
  <2>1. state' = state /\ leaving # {}
    BY <1>12 DEF ReportClosed, connection
  <2>2. state = "closed"
    BY <2>1 DEF SideTypes, SubTypes
  <2>3. QED
    BY <1>3, <2>1, <2>2 DEF Linked
<1>13. QED
  BY <1>4, <1>5, <1>6, <1>7, <1>8, <1>9, <1>10, <1>11, <1>12, SideCases

\* A reader of a former connection does nothing, unless a push strays.
LEMMA OldHandled ==
  ASSUME SideTypes, NEW h \in held, Handles(h), h.connection # connectAttempt, ~strayed'
  PROVE  UNCHANGED <<state, queue, serverSubs>>
<1>1. h \in Helds /\ queue \in Seq(SideEvents) /\ Stale(h) /\ ~IsConnectedAttempt(h.connection)
  BY DEF SideTypes, WireTypes, SideQueueTypes, Stale, IsConnectedAttempt
<1>2. CASE HandleConnect(h)
  BY <1>1, <1>2, ConnectFacts
<1>3. CASE \E c \in h.todo : StoreSub(h, c)
  BY <1>1, <1>3, StoreFacts
<1>4. CASE RemoveAbsent(h)
  BY <1>1, <1>4, RemoveFacts
<1>5. CASE HandlePush(h)
  BY <1>1, <1>5, PushFacts
<1>6. QED
  BY <1>2, <1>3, <1>4, <1>5 DEF Handles

\* The reader of the current connection has waited for its events, and of two new entries
\* only the last delivers publications.
LEMMA CurrentQueued ==
  ASSUME SideTypes, HeldFresh, NEW h \in held, Handles(h)
  PROVE  /\ EventsRan(h.connection)
         /\ \/ queue' = queue
            \/ \E e \in SideEvents : queue' = Append(queue, e)
            \/ \E e, f \in SideEvents : e.kind # "publications"
                   /\ queue' = Append(Append(queue, e), f)
<1>1. h \in Helds /\ queue \in Seq(SideEvents)
  BY DEF SideTypes, WireTypes, SideQueueTypes
<1>2. CASE \E c \in h.todo : StoreSub(h, c)
  <2>1. PICK c \in h.todo : StoreSub(h, c)
    BY <1>2
  <2> DEFINE sub == h.msg.subs[c]
             e == Entry(sub.kind, {c}, h.connection, <<>>, <<sub.epoch, sub.offset>>, FALSE)
             f == Entry("publications", {c}, h.connection, sub.pubs, Unknown, FALSE)
  <2>2. /\ e \in SideEvents /\ f \in SideEvents /\ sub \in SubReplies
        /\ queue' = queue \/ queue' = Append(queue, e) \/ queue' = Append(Append(queue, e), f)
    BY <1>1, <2>1, StoreStep, StoreFacts
  <2>3. e.kind = sub.kind /\ sub.kind \in SubKinds
    BY <2>2, SubReplyFields DEF Entry
  <2> HIDE DEF e, f, sub
  <2>4. e.kind # "publications"
    BY <2>3 DEF SubKinds
  <2>5. EventsRan(h.connection)
    BY <2>1 DEF StoreSub
  <2>6. QED
    BY <2>2, <2>4, <2>5
<1>3. CASE HandleConnect(h) \/ RemoveAbsent(h) \/ HandlePush(h)
  <2>1. EventsRan(h.connection)
    <3>1. CASE RemoveAbsent(h)
      BY <3>1 DEF RemoveAbsent
    <3>2. CASE HandleConnect(h)
      BY <3>2 DEF HandleConnect, HeldFresh
    <3>3. CASE HandlePush(h)
      <4>1. ~h.started
        BY <3>3, PushFacts DEF SideTypes, WireTypes
      <4>2. QED
        BY <4>1 DEF HeldFresh
    <3>4. QED
      BY <1>3, <3>1, <3>2, <3>3
  <2>2. \E e : queue' \in {queue, Append(queue, e)}
    BY <1>1, <1>3, ConnectFacts, RemoveFacts, PushFacts
  <2>3. Queues(h)
    BY HandledQueue
  <2>4. QED
    <3>1. ASSUME NEW e, NEW f, NEW g, Append(queue, e) = Append(Append(queue, f), g)
          PROVE  FALSE
      BY <1>1, <3>1
    <3>2. ASSUME NEW f, NEW g, queue = Append(Append(queue, f), g)
          PROVE  FALSE
      BY <1>1, <3>2
    <3>3. QED
      BY <2>1, <2>2, <2>3, <3>1, <3>2 DEF Queues
<1>4. QED
  BY <1>2, <1>3 DEF Handles

\* The entry that delivers recovered publications stays the last one.
LEMMA CurrentLastStep ==
  ASSUME SideTypes, SideReader, SideOpen, SideOrder, [Next]_vars
  PROVE  CurrentLast'
<1>1. SUFFICES ASSUME ~strayed' PROVE OneCurrent'
  BY DEF CurrentLast
<1>2. /\ queue \in Seq(SideEvents) /\ Len(queue) \in Nat
      /\ \A i \in 1..Len(queue) : Current(queue[i]) => i = Len(queue)
  BY <1>1, StraysForever DEF SideTypes, SideQueueTypes, SideOrder, CurrentLast, OneCurrent
<1>3. ASSUME state' # "connected" PROVE OneCurrent'
  BY <1>3 DEF Current, OneCurrent
<1>4. ASSUME UNCHANGED <<queue, state, connectAttempt>> PROVE OneCurrent'
  BY <1>2, <1>4 DEF Current, OneCurrent
<1>5. ASSUME NEW h \in held, Handles(h) PROVE OneCurrent'
  <2>1. connectAttempt' = connectAttempt /\ h \in Helds
    BY <1>5, HandledFrame DEF SideTypes, WireTypes
  <2>2. CASE h.connection # connectAttempt
    BY <1>1, <1>4, <1>5, <2>1, <2>2, OldHandled
  <2>3. CASE h.connection = connectAttempt
    <3>1. \A i \in 1..Len(queue) : queue[i].reader # connectAttempt
      BY <1>5, <2>3, CurrentQueued DEF SideOrder, EventsRan
    <3>2. CASE queue' = queue
      BY <2>1, <3>1, <3>2 DEF Current, OneCurrent
    <3>3. ASSUME NEW e \in SideEvents, queue' = Append(queue, e) PROVE OneCurrent'
      <4>1. \A i \in 1..Len(queue') : i = Len(queue') \/ (i \in 1..Len(queue)
                /\ queue'[i] = queue[i])
        BY <1>2, <3>3
      <4>2. QED
        BY <2>1, <3>1, <4>1 DEF Current, OneCurrent
    <3>4. ASSUME NEW e \in SideEvents, NEW f \in SideEvents, e.kind # "publications",
                 queue' = Append(Append(queue, e), f)
          PROVE  OneCurrent'
      <4>1. \A i \in 1..Len(queue') : i = Len(queue') \/ queue'[i] = e
                                      \/ (i \in 1..Len(queue) /\ queue'[i] = queue[i])
        BY <1>2, <3>4
      <4>2. QED
        BY <2>1, <3>1, <3>4, <4>1 DEF Current, OneCurrent
    <3>5. QED
      BY <1>5, <3>2, <3>3, <3>4, CurrentQueued DEF SideOrder
  <2>4. QED
    BY <2>2, <2>3
<1>6. CASE Runs
  <2>1. queue # <<>> /\ UNCHANGED <<state, connectAttempt>>
    BY <1>6, RunFrame
  <2>2. /\ Tail(queue) \in Seq(SideEvents) /\ Len(queue) \in Nat \ {0}
               /\ Len(Tail(queue)) = Len(queue) - 1
        /\ \A i \in 1..Len(Tail(queue)) : i + 1 \in 1..Len(queue)
               /\ Tail(queue)[i] = queue[i + 1]
    BY <2>1, FirstEvent
  <2>3. CASE queue' = Tail(queue)
    <3>1. ASSUME NEW i \in 1..Len(queue'), Current(queue[i])' PROVE i = Len(queue')
      <4>1. i + 1 \in 1..Len(queue) /\ queue'[i] = queue[i + 1] /\ Len(queue') = Len(queue) - 1
        BY <2>2, <2>3
      <4>2. Current(queue[i + 1])
        BY <2>1, <3>1, <4>1 DEF Current
      <4>3. QED
        BY <1>2, <4>1, <4>2
    <3>2. QED
      BY <3>1 DEF OneCurrent
  <2>4. CASE RunRecovered /\ queue' # Tail(queue)
    <3>1. PICK r \in SideEvents : queue' = <<r>> \o Tail(queue) /\ r.reader = queue[1].reader
      BY <2>4, RecoveredFacts
    <3>2. queue[1].kind = "publications"
      BY <2>4, RecoveredFacts
    <3>3. /\ Len(queue') = Len(queue) /\ 1 \in 1..Len(queue)
          /\ \A i \in 1..Len(queue') :
               IF i = 1 THEN queue'[i] = r
               ELSE i - 1 \in 1..Len(Tail(queue)) /\ queue'[i] = Tail(queue)[i - 1]
      BY <2>2, <3>1
    <3>4. \A i \in 1..Len(queue') : i # 1 => i \in 1..Len(queue) /\ queue'[i] = queue[i]
      BY <2>2, <3>3
    <3>5. ASSUME NEW i \in 1..Len(queue'), Current(queue[i])' PROVE i = Len(queue')
      <4>1. queue'[i].kind = "publications" /\ queue'[i].reader = connectAttempt
                /\ state = "connected"
        BY <2>1, <3>5 DEF Current, OneCurrent
      <4>2. CASE i = 1
        <5>1. Current(queue[1])
          BY <3>1, <3>2, <3>3, <4>1, <4>2 DEF Current
        <5>2. QED
          BY <1>2, <3>3, <4>2, <5>1
      <4>3. CASE i # 1
        BY <1>2, <3>3, <3>4, <4>1, <4>3 DEF Current
      <4>4. QED
        BY <4>2, <4>3
    <3>6. QED
      BY <3>5 DEF OneCurrent
  <2>5. QED
    BY <1>6, <2>3, <2>4 DEF Runs, RunNotice, RunSubscribed, RunPublication
<1>7. CASE Connect \/ Ends \/ Close \/ Open
  BY <1>3, <1>7, EndFacts, OpenFacts DEF Connect, Close
<1>8. CASE ReportClosed
  <2>1. state' = state /\ leaving # {}
    BY <1>8 DEF ReportClosed, connection
  <2>2. state = "closed"
    BY <2>1 DEF SideTypes, SubTypes
  <2>3. QED
    BY <1>3, <2>1, <2>2
<1>9. CASE Idles \/ Take \/ \E c \in Channels : Publishes(c)
  BY <1>4, <1>9, TakeFacts, PushedFacts DEF Idles, SideSame
<1>10. CASE Invalidated \/ (\E n \in Nat : InvalidateConnectionState(n))
           \/ \E c \in Channels : Reset(c)
  BY <1>4, <1>10 DEF Invalidated, InvalidateConnectionState, Reset, connection
<1>11. QED
  BY <1>5, <1>6, <1>7, <1>8, <1>9, <1>10, SideCases

\* A step keeps the order.
LEMMA SideOrderStep ==
  ASSUME SideTypes, SideReader, SideOpen, SideOrder, [Next]_vars
  PROVE  SideOrder'
BY HeldFreshStep, ClosedLastStep, CurrentLastStep DEF SideOrder

------------------------------------------------------------------------------
(* The positions the application has *)

\* What an entry makes of the position the application has: a publication follows it.
SeenMove(c, e, a, b) ==
  IF c \notin e.channels THEN b = a
  ELSE IF e.kind \in {"unrecovered", "noPosition"} THEN b = e.position
  ELSE IF e.kind = "publication"
       THEN ~e.stale /\ b = e.pubs[1] /\ (a = Unknown \/ b = Following(a))
  ELSE b = a

\* ... as a relation, for paths.
SeenMoves(c) == {t \in SideEvents \X Places \X Places : SeenMove(c, t[1], t[2], t[3])}

\* The entry has publications of the channel to deliver.
Live(e, c) == c \in e.channels /\ Current(e)

\* A position the server can recover from is the application's.
PosRight(c, v) ==
  c \in DOMAIN serverSubs =>
    /\ serverSubs[c][1] = ServerEpoch(c) => v \in {Unknown, serverSubs[c]}
    /\ serverSubs[c][1] = NoEpoch => v = Unknown

\* A connect reply that recovers the channel recovers from there.
RecoversFrom(c, m, v) ==
  m.type = "connect" /\ c \in DOMAIN m.subs /\ m.subs[c].kind = "recovered" =>
    /\ c \in DOMAIN serverSubs /\ serverSubs[c][2] = m.subs[c].offset
    /\ v \in {Unknown, <<m.subs[c].epoch, m.subs[c].offset>>}

\* All connect replies recover from there.
RepliesRight(c, v) ==
  /\ \A h \in HeldFor(c) : RecoversFrom(c, h.msg, v)
  /\ \A i \in 1..Len(wire) : RecoversFrom(c, wire[i], v)

\* The publications q lead from there to the client's view.
DeliversTo(c, q, s, v) ==
  /\ c \in DOMAIN serverSubs /\ ~Pending(c) /\ s = LastPub(q)
  /\ v = Unknown \/ q[1] = Following(v)
  /\ \A k \in 1..Len(q) : q[k][1] = serverSubs[c][1]

\* Every entry with publications to deliver leads there.
LivesRight(c, s, v) == \A i \in 1..Len(queue) : Live(queue[i], c)
    => DeliversTo(c, queue[i].pubs, s, v)

\* No entry has publications of the channel to deliver.
NoLive(c) == \A i \in 1..Len(queue) : ~Live(queue[i], c)

\* When there are none, the application is where the client's view is.
NextRight(c, s, v) ==
  state = "connected" /\ c \in DOMAIN serverSubs /\ ~Pending(c) /\ NoLive(c)
      => v \in {Unknown, s}

\* A subscription is not of an epoch after the client's view.
EpochRight(c, s) == c \in DOMAIN serverSubs => serverSubs[c][1] <= s[1]

\* What holds of the position of a channel while there is a connection.
LinkRight(c, s, v) == EpochRight(c, s) /\ RepliesRight(c, v) /\ LivesRight(c, s, v)
    /\ NextRight(c, s, v)

\* What the queue leads to: a position the server can recover from, and the client's view
\* once all recovered publications are delivered.
SeenEnd(c, s, v) == PosRight(c, v) /\ (Linked => LinkRight(c, s, v))

\* The queue leads from what the application has seen of the channel to v.
SeenThrough(c, s, v) ==
  FlowAt(c, s) /\ Path(seen[c], v, queue, Places, SeenMoves(c)) /\ SeenEnd(c, s, v)

\* The client's view s and the position v of a channel exist.
SeenAt(c) == \E s \in View, v \in Places : SeenThrough(c, s, v)

\* ... for every recoverable channel, until a push or an invalidation hits a newer
\* connection.
SideSeen == ~strayed /\ ~late => \A c \in Recoverable \cap Channels : SeenAt(c)

\* The relation, spelled out.
LEMMA SeenMovesFacts ==
  ASSUME NEW c, NEW e, NEW a, NEW b
  PROVE  <<e, a, b>> \in SeenMoves(c) <=>
           e \in SideEvents /\ a \in Places /\ b \in Places /\ SeenMove(c, e, a, b)
BY DEF SeenMoves

\* An entry that is added extends the path.
LEMMA SeenAppends ==
  ASSUME NEW c, NEW a, NEW v \in Places, NEW b \in Places, NEW q \in Seq(SideEvents),
         NEW e \in SideEvents, Path(a, v, q, Places, SeenMoves(c)), SeenMove(c, e, v, b)
  PROVE  Path(a, b, Append(q, e), Places, SeenMoves(c)) /\ Append(q, e) \in Seq(SideEvents)
<1>1. <<e, v, b>> \in SeenMoves(c)
  BY SeenMovesFacts
<1>2. QED
  BY <1>1, PathAppend

\* A position stays right while the subscription is the same.
LEMMA PosKept ==
  ASSUME SideTypes, SideSent, [Next]_vars, NEW c \in Channels, NEW v, PosRight(c, v), SubSame(c)
  PROVE  PosRight(c, v)'
<1>1. SUFFICES ASSUME c \in DOMAIN serverSubs
               PROVE  /\ serverSubs[c][1] = ServerEpoch(c)' => v \in {Unknown, serverSubs[c]}
                      /\ serverSubs[c][1] = NoEpoch => v = Unknown
  BY DEF PosRight, SubSame
<1>2. /\ serverSubs[c][1] = ServerEpoch(c) => v \in {Unknown, serverSubs[c]}
      /\ serverSubs[c][1] = NoEpoch => v = Unknown
  BY <1>1 DEF PosRight
<1>3. serverSubs[c][1] \in Int /\ serverSubs[c][1] <= Len(tops[c])
  BY <1>1 DEF SideSent, SubsRight, SideTypes, SubTypes
<1>4. Len(tops[c]) \in Nat /\ Len(tops'[c]) \in Nat /\ Len(tops[c]) <= Len(tops'[c])
  BY TopsGrow
<1>5. ServerEpoch(c)' = Len(tops'[c]) /\ ServerEpoch(c) = Len(tops[c])
  BY DEF ServerEpoch
<1>6. QED
  BY <1>2, <1>3, <1>4, <1>5

\* The connect replies on their way were on their way before.
RepliesKept(c) ==
  /\ \A g \in HeldFor(c)' : \/ \E h \in HeldFor(c) : g.msg = h.msg
                            \/ \E i \in 1..Len(wire) : g.msg = wire[i]
  /\ \A i \in 1..Len(wire') : wire'[i].type # "connect"
         \/ \E k \in 1..Len(wire) : wire'[i] = wire[k]

\* The publications to deliver stay the same.
LivesKept(c) ==
  /\ \A i \in 1..Len(queue') : Live(queue[i], c)' =>
       \E k \in 1..Len(queue) : Live(queue[k], c) /\ queue'[i].pubs = queue[k].pubs
  /\ NoLive(c)' => NoLive(c)

\* The end of the path stays right while the subscription is the same and nothing is added
\* to recover or deliver.
LEMMA EndKept ==
  ASSUME SideTypes, SideSent, [Next]_vars, NEW c \in Channels, NEW s,
         NEW v, SeenEnd(c, s, v), SubSame(c),
         Linked' => /\ Linked /\ (Pending(c)' <=> Pending(c))
                    /\ RepliesKept(c) /\ LivesKept(c)
                    /\ state' = state \/ Pending(c)
  PROVE  SeenEnd(c, s, v)'
<1>1. PosRight(c, v)'
  BY PosKept DEF SeenEnd
<1>2. ASSUME Linked' PROVE LinkRight(c, s, v)'
  <2>1. LinkRight(c, s, v)
    BY <1>2 DEF SeenEnd
  <2>2. EpochRight(c, s)'
    BY <2>1 DEF LinkRight, EpochRight, SubSame
  <2>3. \A m : RecoversFrom(c, m, v) => RecoversFrom(c, m, v)'
    BY DEF RecoversFrom, SubSame
  <2>4. RepliesRight(c, v)'
    <3>1. \A h \in HeldFor(c)' : \E m : m = h.msg /\ RecoversFrom(c, m, v)'
      <4>1. ASSUME NEW h \in HeldFor(c)' PROVE \E m : m = h.msg /\ RecoversFrom(c, m, v)'
        <5>1. PICK m : m = h.msg
          OBVIOUS
        <5>2. CASE \E g \in HeldFor(c) : m = g.msg
          BY <2>1, <2>3, <5>1, <5>2 DEF LinkRight, RepliesRight
        <5>3. CASE \E k \in 1..Len(wire) : m = wire[k]
          BY <2>1, <2>3, <5>1, <5>3 DEF LinkRight, RepliesRight
        <5>4. QED
          BY <1>2, <5>1, <5>2, <5>3 DEF RepliesKept
      <4>2. QED
        BY <4>1
    <3>2. \A i \in 1..Len(wire') : \E m : m = wire'[i] /\ RecoversFrom(c, m, v)'
      <4>1. ASSUME NEW i \in 1..Len(wire')
            PROVE  \E m : m = wire'[i] /\ RecoversFrom(c, m, v)'
        <5>1. PICK m : m = wire'[i]
          OBVIOUS
        <5>2. CASE m.type # "connect"
          BY <5>1, <5>2 DEF RecoversFrom
        <5>3. CASE \E k \in 1..Len(wire) : wire'[i] = wire[k]
          BY <2>1, <2>3, <5>1, <5>3 DEF LinkRight, RepliesRight
        <5>4. QED
          BY <1>2, <5>1, <5>2, <5>3 DEF RepliesKept
      <4>2. QED
        BY <4>1
    <3>3. QED
      BY <3>1, <3>2 DEF RepliesRight
  <2>5. LivesRight(c, s, v)'
    <3>1. \A q : DeliversTo(c, q, s, v) => DeliversTo(c, q, s, v)'
      BY <1>2 DEF DeliversTo, SubSame
    <3>2. ASSUME NEW i \in 1..Len(queue'), Live(queue[i], c)'
          PROVE  DeliversTo(c, queue[i].pubs, s, v)'
      <4>1. PICK k \in 1..Len(queue) : Live(queue[k], c) /\ queue'[i].pubs = queue[k].pubs
        BY <1>2, <3>2 DEF LivesKept
      <4>2. PICK q : q = queue[k].pubs
        OBVIOUS
      <4>3. DeliversTo(c, q, s, v)'
        BY <2>1, <3>1, <4>1, <4>2 DEF LinkRight, LivesRight
      <4>4. QED
        BY <4>1, <4>2, <4>3 DEF DeliversTo
    <3>3. QED
      BY <3>2 DEF LivesRight
  <2>6. NextRight(c, s, v)'
    BY <1>2, <2>1 DEF LinkRight, NextRight, LivesKept, SubSame
  <2>7. QED
    BY <2>2, <2>4, <2>5, <2>6 DEF LinkRight
<1>3. QED
  BY <1>1, <1>2 DEF SeenEnd

\* ... and the application's position with it.
LEMMA SeenKept ==
  ASSUME SideTypes, SideSent, [Next]_vars, NEW c \in Channels, NEW s \in View, NEW v \in Places,
         SeenEnd(c, s, v), FlowAt(c, s)', SubSame(c),
         Path(seen'[c], v, queue', Places, SeenMoves(c)),
         Linked' => /\ Linked /\ (Pending(c)' <=> Pending(c))
                    /\ RepliesKept(c) /\ LivesKept(c)
                    /\ state' = state \/ Pending(c)
  PROVE  SeenAt(c)'
<1>1. SeenEnd(c, s, v)'
  BY EndKept
<1>2. SeenThrough(c, s, v)'
  BY <1>1 DEF SeenThrough
<1>3. QED
  BY <1>2 DEF SeenAt

\* An entry that says nothing of the position.
Plain(e, c) == c \notin e.channels \/ e.kind \notin {"unrecovered", "noPosition", "publication"}

\* Entries that move no position leave the path as it is.
LEMMA PlainPath ==
  ASSUME SideTypes, NEW c, NEW a, NEW v \in Places, Path(a, v, queue, Places, SeenMoves(c)),
         \/ queue' = queue
         \/ \E e \in SideEvents : Plain(e, c) /\ queue' = Append(queue, e)
         \/ \E e, f \in SideEvents : Plain(e, c) /\ Plain(f, c)
                /\ queue' = Append(Append(queue, e), f)
  PROVE  Path(a, v, queue', Places, SeenMoves(c))
<1>1. \A e : Plain(e, c) => SeenMove(c, e, v, v)
  BY DEF Plain, SeenMove
<1>2. queue \in Seq(SideEvents)
  BY DEF SideTypes, SideQueueTypes
<1>3. ASSUME NEW e \in SideEvents, Plain(e, c), queue' = Append(queue, e)
      PROVE  Path(a, v, queue', Places, SeenMoves(c))
  BY <1>1, <1>2, <1>3, SeenAppends
<1>4. ASSUME NEW e \in SideEvents, NEW f \in SideEvents, Plain(e, c), Plain(f, c),
             queue' = Append(Append(queue, e), f)
      PROVE  Path(a, v, queue', Places, SeenMoves(c))
  <2>1. Path(a, v, Append(queue, e), Places, SeenMoves(c))
            /\ Append(queue, e) \in Seq(SideEvents)
    BY <1>1, <1>2, <1>4, SeenAppends
  <2>2. QED
    BY <1>1, <1>4, <2>1, SeenAppends
<1>5. QED
  BY <1>3, <1>4

\* Steps that start or end a connection.
LEMMA SeenUnlinked ==
  ASSUME SideTypes, SideSent, [Next]_vars, Connect \/ Ends \/ Close \/ ReportClosed,
         NEW c \in Channels, SeenAt(c)
  PROVE  SeenAt(c)'
<1>1. PICK s \in View, v \in Places : SeenThrough(c, s, v)
  BY DEF SeenAt
<1>2. ~Linked' /\ UNCHANGED <<seen, serverSubs>>
  <2>1. CASE Connect \/ Ends \/ Close
    BY <2>1, EndFacts DEF Connect, Close, Linked, application
  <2>2. CASE ReportClosed
    <3>1. state' = state /\ leaving # {} /\ UNCHANGED <<seen, serverSubs>>
      BY <2>2 DEF ReportClosed, connection, application
    <3>2. state = "closed"
      BY <3>1 DEF SideTypes, SubTypes
    <3>3. QED
      BY <3>1, <3>2 DEF Linked
  <2>3. QED
    BY <2>1, <2>2
<1>3. queue' = queue \/ \E e \in SideEvents : Plain(e, c) /\ queue' = Append(queue, e)
  <2>1. DOMAIN serverSubs \in SUBSET Channels /\ leaving \in SUBSET Channels /\ 0 \in Nat
            /\ 0 <= 0
    BY DEF SideTypes, SubTypes
  <2>2. CASE Ends
    <3> DEFINE e == Entry("subscribing", DOMAIN serverSubs, 0, <<>>, Unknown, FALSE)
    <3>1. e \in SideEvents
      BY <2>1, NoticeTypes
    <3>2. e.kind = "subscribing" /\ (queue' = queue \/ queue' = Append(queue, e))
      BY <2>2, EndFacts DEF Entry
    <3> HIDE DEF e
    <3>3. QED
      BY <3>1, <3>2 DEF Plain
  <2>3. CASE ReportClosed
    <3> DEFINE e == Entry("unsubscribed", leaving, 0, <<>>, Unknown, FALSE)
    <3>1. e \in SideEvents
      BY <2>1, NoticeTypes
    <3>2. e.kind = "unsubscribed" /\ queue' = Append(queue, e)
      BY <2>3, EntryPlain DEF ReportClosed, Entry
    <3> HIDE DEF e
    <3>3. QED
      BY <3>1, <3>2 DEF Plain
  <2>4. CASE Connect \/ Close
    BY <2>4 DEF Connect, Close
  <2>5. QED
    BY <2>2, <2>3, <2>4
<1>4. Path(seen[c], v, queue', Places, SeenMoves(c))
  BY <1>1, <1>3, PlainPath DEF SeenThrough
<1>5. FlowAt(c, s)' /\ SubSame(c)
  BY <1>2 DEF FlowAt, SubSame
<1>6. QED
  BY <1>1, <1>2, <1>4, <1>5, SeenKept DEF SeenThrough

\* A step that adds nothing for the channel leaves what is to be delivered.
LEMMA LivesQuiet ==
  ASSUME SideTypes, NEW c, QueueQuiet(c), connectAttempt' = connectAttempt,
         state' = state \/ (state = "opening" /\ EventsRan(connectAttempt))
  PROVE  LivesKept(c)
<1>1. queue \in Seq(SideEvents)
  BY DEF SideTypes, SideQueueTypes
<1>2. /\ \A i \in 1..Len(queue) : i \in 1..Len(queue') /\ queue'[i] = queue[i]
      /\ \A i \in 1..Len(queue') : (i \in 1..Len(queue)
             /\ queue'[i] = queue[i]) \/ c \notin queue'[i].channels
  <2>1. CASE queue' = queue
    BY <2>1
  <2>2. ASSUME NEW e \in SideEvents, c \notin e.channels, queue' = Append(queue, e)
        PROVE  <1>2!:
    <3>1. /\ \A i \in 1..Len(queue) : i \in 1..Len(queue') /\ queue'[i] = queue[i]
          /\ \A i \in 1..Len(queue') : (i \in 1..Len(queue)
                 /\ queue'[i] = queue[i]) \/ queue'[i] = e
      BY <1>1, <2>2
    <3>2. QED
      BY <2>2, <3>1
  <2>3. ASSUME NEW e \in SideEvents,
               NEW f \in SideEvents, c \notin e.channels, c \notin f.channels,
               queue' = Append(Append(queue, e), f)
        PROVE  <1>2!:
    <3>1. /\ \A i \in 1..Len(queue) : i \in 1..Len(queue') /\ queue'[i] = queue[i]
          /\ \A i \in 1..Len(queue') : (i \in 1..Len(queue)
                 /\ queue'[i] = queue[i]) \/ queue'[i] \in {e, f}
      BY <1>1, <2>3
    <3>2. QED
      BY <2>3, <3>1
  <2>4. QED
    BY <2>1, <2>2, <2>3 DEF QueueQuiet
<1>3. CASE state' = state
  <2>1. \A e : (c \in e.channels /\ e.kind = "publications" /\ e.reader = connectAttempt'
            /\ state' = "connected")
               <=> Live(e, c)
    BY <1>3 DEF Live, Current
  <2>2. \A i \in 1..Len(queue') : Live(queue[i], c)' <=> Live(queue'[i], c)
    BY <2>1 DEF Live, Current
  <2>3. \A i \in 1..Len(queue') : Live(queue'[i], c)
            => i \in 1..Len(queue) /\ queue'[i] = queue[i]
    BY <1>2 DEF Live
  <2>4. QED
    BY <1>2, <2>2, <2>3 DEF LivesKept, NoLive
<1>4. CASE state = "opening" /\ EventsRan(connectAttempt)
  <2>1. NoLive(c)
    BY <1>4 DEF NoLive, Live, Current
  <2>2. \A i \in 1..Len(queue') : ~Live(queue[i], c)'
    BY <1>2, <1>4 DEF Live, Current, EventsRan
  <2>3. QED
    BY <2>1, <2>2 DEF LivesKept
<1>5. QED
  BY <1>3, <1>4

\* A reader takes a message.
LEMMA SeenTake ==
  ASSUME SideTypes, SideSent, SideOpen, Take, [Next]_vars, NEW c \in Channels, SeenAt(c)
  PROVE  SeenAt(c)'
<1>1. PICK s \in View, v \in Places : SeenThrough(c, s, v)
  BY DEF SeenAt
<1>2. FlowAt(c, s)' /\ SubSame(c)
  BY <1>1, FlowTake DEF SeenThrough
<1>3. /\ wire # <<>> /\ wire \in Seq(SideMessages) /\ wire' = Tail(wire) /\ Linked
      /\ UNCHANGED <<state, connectAttempt, queue, seen>> /\ Idle(held, connectAttempt)
  BY TakeFacts DEF ReaderFree, Idle
<1>4. PICK h \in Helds : held' = held \cup {h} /\ h.connection = connectAttempt
          /\ h.msg = wire[1]
                         /\ h.started = FALSE
  BY TakeFacts
<1>5. HeldFor(c) = {} /\ HeldFor(c)' = {h} /\ 1 \in 1..Len(wire)
  BY <1>3, <1>4 DEF HeldFor, Handled, Idle
<1>6. Pending(c)' <=> Pending(c)
  <2>1. wire[1].type = "connect" => state = "opening"
    BY <1>3, <1>5 DEF SideOpen, OpensFirst
  <2>2. QED
    BY <1>3, <1>4, <1>5, <2>1 DEF Pending
<1>7. RepliesKept(c)
  <2>1. \A i \in 1..Len(wire') : i + 1 \in 1..Len(wire) /\ wire'[i] = wire[i + 1]
    BY <1>3, SeqFacts
  <2>2. \A g \in HeldFor(c)' : g.msg = wire[1]
    BY <1>4, <1>5
  <2>3. QED
    BY <1>5, <2>1, <2>2 DEF RepliesKept
<1>8. LivesKept(c)
  BY <1>3, LivesQuiet DEF QueueQuiet
<1>9. QED
  BY <1>1, <1>2, <1>3, <1>6, <1>7, <1>8, SeenKept DEF SeenThrough

\* The server publishes, or another step changes neither queue nor subscriptions.
LEMMA SeenSends ==
  ASSUME SideTypes, SideSent, SideOpen, [Next]_vars, NEW c \in Channels, SeenAt(c),
         Invalidated \/ Idles \/ \E d \in Channels : Publishes(d) \/ Reset(d)
  PROVE  SeenAt(c)'
<1>1. PICK s \in View, v \in Places : SeenThrough(c, s, v)
  BY DEF SeenAt
<1>2. UNCHANGED <<state, connectAttempt, held, serverSubs, queue, seen>>
  <2>1. CASE Invalidated \/ Idles \/ \E d \in Channels : Reset(d)
    BY <2>1 DEF Invalidated, Idles, SideSame, Reset, connection, application
  <2>2. CASE \E d \in Channels : Publishes(d)
    BY <2>2, PushedFacts
  <2>3. QED
    BY <2>1, <2>2
<1>3. \A i \in 1..Len(wire') : wire'[i].type # "connect"
          \/ \E k \in 1..Len(wire) : wire'[i] = wire[k]
  <2>1. CASE Invalidated \/ Idles \/ \E d \in Channels : Reset(d)
    BY <2>1 DEF Invalidated, Idles, SideSame, Reset
  <2>2. ASSUME NEW d \in Channels, Publishes(d)
        PROVE  \A i \in 1..Len(wire') : wire'[i].type # "connect"
                   \/ \E k \in 1..Len(wire) : wire'[i] = wire[k]
    <3>1. \/ wire' = wire
          \/ \E t \in {"pub", "subscribe", "unsubscribe"} : \E p \in Places :
               wire' = Append(wire, [type |-> t, channel |-> d, position |-> p])
      BY <2>2, PushedFacts
    <3>2. wire \in Seq(SideMessages)
      BY DEF SideTypes, WireTypes
    <3>3. ASSUME NEW x, x.type # "connect", wire' = Append(wire, x)
          PROVE  \A i \in 1..Len(wire') : wire'[i].type # "connect"
                     \/ \E k \in 1..Len(wire) : wire'[i] = wire[k]
      <4>1. \A i \in 1..Len(wire') : wire'[i] = x \/ (i \in 1..Len(wire) /\ wire'[i] = wire[i])
        BY <3>2, <3>3
      <4>2. QED
        BY <3>3, <4>1
    <3>4. CASE wire' = wire
      BY <3>4
    <3>5. ASSUME NEW t \in {"pub", "subscribe", "unsubscribe"}, NEW p \in Places,
                 wire' = Append(wire, [type |-> t, channel |-> d, position |-> p])
          PROVE  \A i \in 1..Len(wire') : wire'[i].type # "connect"
                     \/ \E k \in 1..Len(wire) : wire'[i] = wire[k]
      <4>1. [type |-> t, channel |-> d, position |-> p].type # "connect"
        OBVIOUS
      <4>2. QED
        BY <3>3, <3>5, <4>1
    <3>6. QED
      BY <3>1, <3>4, <3>5
  <2>3. QED
    BY <2>1, <2>2
<1>4. HeldFor(c)' = HeldFor(c)
  BY <1>2 DEF HeldFor, Handled
<1>5. (Linked' <=> Linked) /\ (Pending(c)' <=> Pending(c)) /\ SubSame(c) /\ RepliesKept(c)
  BY <1>2, <1>3, <1>4 DEF Linked, Pending, SubSame, RepliesKept
<1>6. LivesKept(c)
  BY <1>2, LivesQuiet DEF QueueQuiet
<1>7. FlowAt(c, s)'
  <2>1. CASE \E d \in Channels : Publishes(d) \/ Reset(d)
    BY <1>1, <2>1, FlowSends, FlowReset DEF SeenThrough
  <2>2. CASE Invalidated
    <3>1. ~serverUp'
      BY <2>2, Zenon DEF Invalidated
    <3>2. UNCHANGED <<wire, tops, serverSide>>
      BY <2>2 DEF Invalidated, server
    <3>3. QED
      BY <1>1, <1>2, <3>1, <3>2, FlowSame DEF SeenThrough
  <2>3. CASE Idles
    BY <1>1, <1>2, <2>3, FlowSame DEF Idles, SideSame, SeenThrough
  <2>4. QED
    BY <2>1, <2>2, <2>3
<1>8. QED
  BY <1>1, <1>2, <1>5, <1>6, <1>7, SeenKept DEF SeenThrough

\* A reader handles a message that has nothing for the channel.
LEMMA SeenQuiet ==
  ASSUME SideTypes, SideSent, HeldFresh, [Next]_vars, NEW h \in held, Handles(h),
         NEW c \in Channels,
         Quiet(c), SeenAt(c)
  PROVE  SeenAt(c)'
<1>1. PICK s \in View, v \in Places : SeenThrough(c, s, v)
  BY DEF SeenAt
<1>2. FlowAt(c, s)' /\ SubSame(c) /\ QueueQuiet(c) /\ HandQuiet(c)
  BY <1>1, FlowQuiet DEF SeenThrough, Quiet
<1>3. UNCHANGED <<connectAttempt, wire, seen>> /\ h \in Helds
  BY HandledFrame DEF SideTypes, WireTypes
<1>4. state' = state \/ (state = "opening" /\ EventsRan(connectAttempt))
  <2>1. CASE ~HandleConnect(h)
    BY <2>1, HandledFrame
  <2>2. CASE HandleConnect(h)
    BY <1>3, <2>2, ConnectFacts, CurrentQueued
  <2>3. QED
    BY <2>1, <2>2
<1>5. LivesKept(c)
  BY <1>2, <1>3, <1>4, LivesQuiet
<1>6. Linked' => /\ Linked /\ (Pending(c)' <=> Pending(c))
                 /\ RepliesKept(c) /\ (state' = state \/ Pending(c))
  BY <1>2, <1>3, <1>4 DEF Linked, HandQuiet, RepliesKept, Pending
<1>7. Path(seen'[c], v, queue', Places, SeenMoves(c))
  BY <1>1, <1>2, <1>3, PlainPath DEF SeenThrough, QueueQuiet, Plain
<1>8. QED
  BY <1>1, <1>2, <1>5, <1>6, <1>7, SeenKept DEF SeenThrough

\* A sequence with one more element in front.
LEMMA ConsFacts ==
  ASSUME NEW S, NEW q \in Seq(S), NEW r \in S, NEW p, p = <<r>> \o q
  PROVE  /\ Len(p) = Len(q) + 1
         /\ \A i \in 1..Len(p) : IF i = 1 THEN p[i] = r ELSE i - 1 \in 1..Len(q)
                /\ p[i] = q[i - 1]
OBVIOUS

\* The first entry of the queue has run, and moved the application along the path.
LEMMA SeenRan ==
  ASSUME SideTypes, SideSent, [Next]_vars, Runs, NEW c \in Channels, NEW s \in View,
         NEW v \in Places,
         SeenThrough(c, s, v), SubSame(c), ~Live(queue[1], c),
         \/ queue' = Tail(queue)
         \/ \E r \in SideEvents : /\ c \notin r.channels /\ c \notin queue[1].channels
                                  /\ queue' = <<r>> \o Tail(queue),
         \A b : SeenMove(c, queue[1], seen[c], b) => seen'[c] = b
  PROVE  SeenAt(c)'
<1>1. /\ queue # <<>> /\ UNCHANGED <<tops, serverSide, serverUp, state, connectAttempt,
         wire, held>>
      /\ queue \in Seq(SideEvents) /\ queue[1] \in SideEvents /\ Tail(queue) \in Seq(SideEvents)
      /\ Len(queue) \in Nat \ {0} /\ Len(Tail(queue)) = Len(queue) - 1
      /\ \A i \in 1..Len(Tail(queue)) : i + 1 \in 1..Len(queue) /\ Tail(queue)[i] = queue[i + 1]
  BY RunFrame, FirstEvent
<1>2. PICK b \in Places : <<queue[1], seen[c], b>> \in SeenMoves(c)
          /\ Path(b, v, Tail(queue), Places, SeenMoves(c))
  BY <1>1, PathTail DEF SeenThrough
<1>3. seen'[c] = b
  BY <1>2, SeenMovesFacts
<1>4. Path(seen'[c], v, queue', Places, SeenMoves(c))
  <2>1. CASE queue' = Tail(queue)
    BY <1>2, <1>3, <2>1
  <2>2. ASSUME NEW r \in SideEvents, c \notin r.channels, queue' = <<r>> \o Tail(queue)
        PROVE  Path(seen'[c], v, queue', Places, SeenMoves(c))
    <3>1. SeenMove(c, r, b, b)
      BY <2>2 DEF SeenMove
    <3>2. <<r, b, b>> \in SeenMoves(c)
      BY <3>1, SeenMovesFacts
    <3>3. QED
      BY <1>1, <1>2, <1>3, <2>2, <3>2, PathCons
  <2>3. QED
    BY <2>1, <2>2
<1>5. FlowAt(c, s)'
  BY <1>1, FlowSame DEF SeenThrough, SubSame
<1>6. HeldFor(c)' = HeldFor(c)
  BY <1>1 DEF HeldFor, Handled
<1>7. (Linked' <=> Linked) /\ (Pending(c)' <=> Pending(c)) /\ RepliesKept(c)
  BY <1>1, <1>6 DEF Linked, Pending, RepliesKept
<1>8. \A i \in 1..Len(queue') : Live(queue[i], c)' <=> Live(queue'[i], c)
  BY <1>1 DEF Live, Current
<1>9. LivesKept(c)
  <2>1. CASE queue' = Tail(queue)
    <3>1. \A i \in 1..Len(queue') : i + 1 \in 1..Len(queue) /\ queue'[i] = queue[i + 1]
      BY <1>1, <2>1
    <3>2. \A i \in 1..Len(queue) : Live(queue[i], c)
              => i # 1 /\ i - 1 \in 1..Len(queue') /\ queue'[i - 1] = queue[i]
      <4>1. \A i \in 1..Len(queue) : i # 1 => i - 1 \in 1..Len(queue') /\ (i - 1) + 1 = i
        BY <1>1, <2>1
      <4>2. QED
        BY <3>1, <4>1
    <3>3. QED
      BY <1>8, <3>1, <3>2 DEF LivesKept, NoLive
  <2>2. ASSUME NEW r \in SideEvents, c \notin r.channels, queue' = <<r>> \o Tail(queue)
        PROVE  LivesKept(c)
    <3>1. /\ Len(queue') = Len(queue)
          /\ \A i \in 1..Len(queue') :
               IF i = 1 THEN queue'[i] = r
               ELSE i - 1 \in 1..Len(Tail(queue)) /\ queue'[i] = Tail(queue)[i - 1]
      <4>1. /\ Len(queue') = Len(Tail(queue)) + 1
            /\ \A i \in 1..Len(queue') :
                 IF i = 1 THEN queue'[i] = r
                 ELSE i - 1 \in 1..Len(Tail(queue)) /\ queue'[i] = Tail(queue)[i - 1]
        <5> DEFINE p == queue'
                   q == Tail(queue)
        <5>1. q \in Seq(SideEvents) /\ p = <<r>> \o q
          BY <1>1, <2>2
        <5> HIDE DEF p, q
        <5>2. /\ Len(p) = Len(q) + 1
              /\ \A i \in 1..Len(p) : IF i = 1 THEN p[i] = r ELSE i - 1 \in 1..Len(q)
                     /\ p[i] = q[i - 1]
          BY <2>2, <5>1, ConsFacts
        <5>3. QED
          BY <5>2 DEF p, q
      <4>2. Len(Tail(queue)) + 1 = Len(queue)
        BY <1>1
      <4>3. QED
        BY <4>1, <4>2, Zenon
    <3>2. \A i \in 1..Len(queue') : i # 1 => i \in 1..Len(queue) /\ queue'[i] = queue[i]
      BY <1>1, <3>1
    <3>3. \A i \in 1..Len(queue') : i = 1 => ~Live(queue'[i], c)
      BY <2>2, <3>1 DEF Live
    <3>4. QED
      BY <1>8, <3>1, <3>2, <3>3 DEF LivesKept, NoLive
  <2>3. QED
    BY <2>1, <2>2
<1>10. SeenEnd(c, s, v)
  BY DEF SeenThrough
<1>11. QED
  BY <1>1, <1>4, <1>5, <1>7, <1>9, <1>10, SeenKept

\* The queue runs an entry that delivers no recovered publication of the channel.
LEMMA SeenRuns ==
  ASSUME SideTypes, SideSent, [Next]_vars, Runs, NEW c \in Channels, SeenAt(c),
         RunRecovered /\ MayDeliver(c, queue[1].reader) => c \notin queue[1].channels
  PROVE  SeenAt(c)'
<1>1. PICK s \in View, v \in Places : SeenThrough(c, s, v)
  BY DEF SeenAt
<1>2. /\ queue # <<>> /\ Head(queue) = queue[1] /\ queue[1] \in SideEvents
      /\ Shaped(queue[1], connectAttempt) /\ seen \in [Channels -> Places]
  BY RunFrame, FirstEvent DEF SideTypes, ToldTypes
<1>3. CASE ~RunRecovered
  <2>1. SubSame(c)
    BY <1>3, RunFrame DEF SubSame
  <2>2. queue' = Tail(queue) /\ ~Live(queue[1], c)
    BY <1>2, <1>3 DEF Runs, RunNotice, RunSubscribed, RunPublication, Live, Current
  <2>3. ASSUME NEW b, SeenMove(c, queue[1], seen[c], b) PROVE seen'[c] = b
    <3>1. CASE RunNotice
      <4>1. queue[1].kind \in {"connected", "subscribing", "unsubscribed"} /\ seen' = seen
        BY <1>2, <3>1 DEF RunNotice
      <4>2. QED
        BY <2>3, <4>1 DEF SeenMove
    <3>2. CASE RunSubscribed
      <4>1. queue[1].kind \in {"recovered", "unrecovered", "noPosition"}
        BY <1>2, <3>2 DEF RunSubscribed
      <4>2. PICK d \in queue[1].channels :
              IF queue[1].kind = "recovered" THEN seen' = seen
                  ELSE seen' = [seen EXCEPT ![d] = queue[1].position]
        BY <1>2, <3>2 DEF RunSubscribed
      <4>3. queue[1].channels = {d}
        BY <1>2, <4>1, <4>2 DEF Shaped, SubKinds
      <4>4. QED
        BY <1>2, <2>3, <4>1, <4>2, <4>3 DEF SeenMove
    <3>3. CASE RunPublication
      <4>1. queue[1].kind = "publication"
        BY <1>2, <3>3 DEF RunPublication
      <4>2. PICK d \in queue[1].channels :
              seen' = [seen EXCEPT ![d] = IF queue[1].stale THEN Unknown ELSE queue[1].pubs[1]]
        BY <1>2, <3>3 DEF RunPublication
      <4>3. queue[1].channels = {d}
        BY <1>2, <4>1, <4>2 DEF Shaped
      <4>4. QED
        BY <1>2, <2>3, <4>1, <4>2, <4>3 DEF SeenMove
    <3>4. QED
      BY <1>3, <3>1, <3>2, <3>3 DEF Runs
  <2>4. QED
    BY <1>1, <2>1, <2>2, <2>3, SeenRan
<1>4. CASE RunRecovered
  <2>1. queue[1].kind = "publications"
    BY <1>4, RecoveredFacts
  <2>2. PICK d \in Channels :
          /\ queue[1].channels = {d}
          /\ \/ /\ MayDeliver(d, queue[1].reader)
                /\ serverSubs' = With(d, Adopted(d, queue[1].pubs[1]))
                /\ seen' = [seen EXCEPT ![d] = queue[1].pubs[1]]
                /\ \/ queue' = Tail(queue)
                   \/ \E r \in SideEvents : queue' = <<r>> \o Tail(queue) /\ r.channels = {d}
             \/ /\ ~MayDeliver(d, queue[1].reader)
                /\ UNCHANGED <<serverSubs, seen>> /\ queue' = Tail(queue)
    BY <1>4, RecoveredFacts
  <2>3. \A b : SeenMove(c, queue[1], seen[c], b) => b = seen[c]
    BY <2>1 DEF SeenMove
  <2>4. CASE MayDeliver(d, queue[1].reader)
    <3>1. d # c
      BY <1>4, <2>2, <2>4
    <3>2. ~Live(queue[1], c)
      BY <2>2, <3>1 DEF Live
    <3>3. SubSame(c)
      BY <2>2, <2>4, <3>1 DEF SubSame, With
    <3>4. seen'[c] = seen[c]
      BY <1>2, <2>2, <2>4, <3>1
    <3>5. QED
      BY <1>1, <2>2, <2>3, <2>4, <3>1, <3>2, <3>3, <3>4, SeenRan
  <2>5. CASE ~MayDeliver(d, queue[1].reader)
    <3>1. ~Live(queue[1], c)
      <4>1. SUFFICES ASSUME Live(queue[1], c) PROVE FALSE
        OBVIOUS
      <4>2. d = c /\ state = "connected" /\ queue[1].reader = connectAttempt
        BY <2>2, <4>1 DEF Live, Current
      <4>3. 1 \in 1..Len(queue)
        BY <1>2, FirstEvent
      <4>4. DeliversTo(c, queue[1].pubs, s, v)
        BY <1>1, <4>1, <4>2, <4>3 DEF SeenThrough, SeenEnd, Linked, LinkRight, LivesRight
      <4>5. QED
        BY <2>5, <4>2, <4>4 DEF DeliversTo, MayDeliver, IsConnectedAttempt
    <3>2. SubSame(c) /\ seen'[c] = seen[c] /\ queue' = Tail(queue)
      BY <2>2, <2>5 DEF SubSame
    <3>3. QED
      BY <1>1, <2>3, <3>1, <3>2, SeenRan
  <2>6. QED
    BY <2>4, <2>5
<1>5. QED
  BY <1>3, <1>4

\* Nothing is on its way that recovers the channel once the reply has said what becomes of it.
LEMMA NoReplies ==
  ASSUME SideTypes, SideOpen, state = "connected", NEW c, ~Pending(c), NEW v
  PROVE  RepliesRight(c, v)
<1>1. \A h \in HeldFor(c) : h.msg.type # "connect"
  BY DEF Pending
<1>2. \A i \in 1..Len(wire) : wire[i].type # "connect"
  BY DEF SideOpen, OpensFirst, Linked
<1>3. QED
  BY <1>1, <1>2 DEF RepliesRight, RecoversFrom

\* An empty sequence.
LEMMA NoneLeft ==
  ASSUME NEW S, NEW t \in Seq(S), Len(t) = 0
  PROVE  t = <<>>
OBVIOUS

\* Nothing follows the only element.
LEMMA TailOfOne ==
  ASSUME NEW S, NEW s \in Seq(S), Len(s) = 1
  PROVE  Tail(s) = <<>>
<1>1. s # <<>>
  OBVIOUS
<1>2. Tail(s) \in Seq(S) /\ Len(Tail(s)) = Len(s) - 1
  BY <1>1, SeqFacts
<1>3. Len(Tail(s)) = 0
  BY <1>2
<1>4. QED
  BY <1>2, <1>3, NoneLeft

\* The elements after the first of several.
LEMMA TailOfMore ==
  ASSUME NEW S, NEW s \in Seq(S), s # <<>>, Len(s) # 1
  PROVE  /\ Tail(s) # <<>> /\ Len(Tail(s)) = Len(s) - 1 /\ Len(Tail(s)) \in Nat \ {0}
         /\ \A k \in 1..Len(Tail(s)) : k + 1 \in 1..Len(s) /\ Tail(s)[k] = s[k + 1]
<1>1. Len(s) \in Nat /\ Len(s) # 0 /\ Len(Tail(s)) = Len(s) - 1 /\ Tail(s) \in Seq(S)
  BY SeqFacts
<1>2. \A k \in 1..Len(Tail(s)) : Tail(s)[k] = s[k + 1]
  BY SeqFacts
<1>3. Tail(s) # <<>>
  <2>1. PICK t : t = Tail(s)
    OBVIOUS
  <2>2. t \in Seq(S) /\ Len(t) # 0
    BY <1>1, <2>1
  <2>3. t # <<>>
    BY <2>2
  <2>4. QED
    BY <2>1, <2>3
<1>4. \A k \in 1..Len(Tail(s)) : k + 1 \in 1..Len(s)
  BY <1>1
<1>5. QED
  BY <1>1, <1>2, <1>3, <1>4

\* The first of the recovered publications q is delivered: the entry is the last one, and
\* the publication follows what the application has.
Delivers(c, q, a, s, v) ==
  /\ q = queue[1].pubs /\ a = q[1]
  /\ state = "connected" /\ connectAttempt = queue[1].reader /\ c \in DOMAIN serverSubs
         /\ Linked
  /\ queue \in Seq(SideEvents) /\ Tail(queue) \in Seq(SideEvents)
  /\ Tail(queue) = <<>> /\ v = seen[c] /\ DeliversTo(c, q, s, v)
  /\ q \in Seq(Places) /\ q # <<>> /\ Len(q) \in Nat \ {0} /\ a \in Places
  /\ Chained(q) /\ Issued(c, a) /\ 1 \in 1..Len(q)
  /\ serverSubs' = With(c, Adopted(c, a)) /\ seen' = [seen EXCEPT ![c] = a]
         /\ reloads' = reloads
  /\ \/ Len(q) = 1 /\ queue' = Tail(queue)
     \/ \E r \in SideEvents : /\ Len(q) # 1 /\ queue' = <<r>> \o Tail(queue)
                              /\ r.pubs = Tail(q) /\ r.kind = "publications"
                              /\ r.channels = {c} /\ r.reader = queue[1].reader

\* When a recovered publication is delivered, it is the first of what leads to the
\* client's view.
LEMMA DeliveredFacts ==
  ASSUME SideTypes, SideSent, SideOrder, RunRecovered, ~strayed, NEW c \in Channels,
         NEW s, NEW v, SeenThrough(c, s, v),
         MayDeliver(c, queue[1].reader), c \in queue[1].channels
  PROVE  \E q, a : Delivers(c, q, a, s, v)
<1>1. /\ reloads' = reloads
      /\ queue # <<>> /\ queue \in Seq(SideEvents) /\ queue[1] \in SideEvents
      /\ Tail(queue) \in Seq(SideEvents) /\ Len(queue) \in Nat \ {0}
             /\ Len(Tail(queue)) = Len(queue) - 1
      /\ queue[1].kind = "publications" /\ queue[1].pubs # <<>>
  BY RecoveredFacts, RunFrame, FirstEvent DEF Runs
<1>2. state = "connected" /\ connectAttempt = queue[1].reader /\ c \in DOMAIN serverSubs
          /\ Linked
  BY DEF MayDeliver, IsConnectedAttempt, Linked
<1>3. Live(queue[1], c)
  BY <1>1, <1>2 DEF Live, Current
<1>4. Tail(queue) = <<>>
  <2>1. 1 \in 1..Len(queue)
    BY <1>1
  <2>2. \A i \in 1..Len(queue) : Current(queue[i]) => i = Len(queue)
    BY DEF SideOrder, CurrentLast, OneCurrent
  <2>3. Current(queue[1])
    BY <1>3 DEF Live
  <2>4. 1 = Len(queue)
    BY <2>1, <2>2, <2>3
  <2>5. QED
    BY <1>1, <2>4, TailOfOne
<1>5. v = seen[c]
  <2>1. PICK b \in Places : <<queue[1], seen[c], b>> \in SeenMoves(c)
            /\ Path(b, v, Tail(queue), Places, SeenMoves(c))
    BY <1>1, PathTail DEF SeenThrough
  <2>2. b = seen[c]
    BY <1>1, <2>1, SeenMovesFacts DEF SeenMove
  <2>3. Path(b, v, <<>>, Places, SeenMoves(c))
    BY <1>4, <2>1
  <2>4. QED
    BY <2>2, <2>3, PathEmpty
<1>6. PICK q, a : q = queue[1].pubs /\ a = q[1]
  OBVIOUS
<1>7. q \in Seq(Places) /\ q # <<>> /\ Len(q) \in Nat \ {0} /\ a \in Places
  BY <1>6, <1>1, SideEventFields, SeqFacts
<1>8. DeliversTo(c, q, s, v)
  <2>1. 1 \in 1..Len(queue)
    BY <1>1
  <2>2. QED
    BY <1>6, <1>2, <1>3, <2>1 DEF SeenThrough, SeenEnd, LinkRight, LivesRight
<1>9. Chained(q) /\ \A i \in 1..Len(q) : Issued(c, q[i])
  <2>1. 1 \in 1..Len(queue)
    BY <1>1
  <2>2. EntryRight(queue[1])
    BY <2>1 DEF SideSent, QueueRight
  <2>3. QED
    BY <1>6, <1>1, <2>2 DEF EntryRight
<1>10. 1 \in 1..Len(q)
  BY <1>7
<1>11. /\ serverSubs' = With(c, Adopted(c, a)) /\ seen' = [seen EXCEPT ![c] = a]
       /\ \/ Len(q) = 1 /\ queue' = Tail(queue)
          \/ \E r \in SideEvents : /\ Len(q) # 1 /\ queue' = <<r>> \o Tail(queue)
                                   /\ r.pubs = Tail(q) /\ r.kind = "publications"
                                   /\ r.channels = {c} /\ r.reader = queue[1].reader
  <2>1. PICK d \in Channels :
          /\ queue[1].channels = {d}
          /\ \/ /\ MayDeliver(d, queue[1].reader)
                /\ serverSubs' = With(d, Adopted(d, a))
                /\ seen' = [seen EXCEPT ![d] = a]
                /\ \/ Len(q) = 1 /\ queue' = Tail(queue)
                   \/ \E r \in SideEvents : /\ Len(q) # 1 /\ queue' = <<r>> \o Tail(queue)
                                            /\ r.pubs = Tail(q) /\ r.kind = "publications"
                                            /\ r.channels = {d} /\ r.reader = queue[1].reader
             \/ ~MayDeliver(d, queue[1].reader)
    BY <1>6, RecoveredFacts
  <2>2. d = c
    BY <2>1
  <2>3. QED
    BY <2>1, <2>2
<1>12. QED
  BY <1>6, <1>1, <1>2, <1>4, <1>5, <1>7, <1>8, <1>9, <1>10, <1>11 DEF Delivers

\* A recovered publication is delivered: the subscription's position moves with it.
LEMMA SeenDelivers ==
  ASSUME SideTypes, SideSent, SideOpen, SideOrder, [Next]_vars, RunRecovered, ~strayed,
         NEW c \in Channels, SeenAt(c), MayDeliver(c, queue[1].reader), c \in queue[1].channels
  PROVE  SeenAt(c)'
<1>1. PICK s \in View, v \in Places : SeenThrough(c, s, v)
  BY DEF SeenAt
<1>2. UNCHANGED <<tops, serverSide, serverUp, state, connectAttempt, wire, held>>
  BY RunFrame DEF Runs
<1>3. PICK q, a : Delivers(c, q, a, s, v)
  BY <1>1, DeliveredFacts
<1>4. /\ q = queue[1].pubs /\ a = q[1]
      /\ state = "connected" /\ connectAttempt = queue[1].reader
             /\ c \in DOMAIN serverSubs /\ Linked
      /\ queue \in Seq(SideEvents) /\ Tail(queue) \in Seq(SideEvents)
      /\ Tail(queue) = <<>> /\ v = seen[c] /\ DeliversTo(c, q, s, v)
      /\ q \in Seq(Places) /\ q # <<>> /\ Len(q) \in Nat \ {0} /\ a \in Places
      /\ Chained(q) /\ Issued(c, a) /\ 1 \in 1..Len(q)
      /\ serverSubs' = With(c, Adopted(c, a)) /\ seen' = [seen EXCEPT ![c] = a]
             /\ reloads' = reloads
      /\ \/ Len(q) = 1 /\ queue' = Tail(queue)
         \/ \E r \in SideEvents : /\ Len(q) # 1 /\ queue' = <<r>> \o Tail(queue)
                                  /\ r.pubs = Tail(q) /\ r.kind = "publications"
                                  /\ r.channels = {c} /\ r.reader = queue[1].reader
  BY <1>3 DEF Delivers
<1>5. SeenEnd(c, s, v) /\ LinkRight(c, s, v) /\ FlowAt(c, s)
  BY <1>1, <1>4 DEF SeenThrough, SeenEnd
<1>6. serverSubs[c][1] = a[1] /\ a[1] # 0 /\ a = <<a[1], a[2]>>
  <2>1. Issued(c, a) /\ serverSubs[c][1] = a[1]
    BY <1>4, <1>5, <1>4 DEF DeliversTo
  <2>2. QED
    BY <1>4, <2>1, PlacesFacts DEF Issued
<1>7. Adopted(c, a) = a
  BY <1>6 DEF Adopted
<1>8. DOMAIN serverSubs' = DOMAIN serverSubs /\ serverSubs'[c] = a /\ seen'[c] = a
  BY <1>4, <1>7 DEF With, SideTypes, ToldTypes
<1>9. FlowAt(c, s)'
  BY <1>4, <1>2, <1>5, <1>8, FlowSame
<1>10. PosRight(c, a)'
  BY <1>6, <1>8 DEF PosRight, NoEpoch
<1>11. ~Pending(c) /\ ~Pending(c)' /\ state' = "connected" /\ connectAttempt' = connectAttempt
  <2>1. HeldFor(c)' = HeldFor(c)
    BY <1>2 DEF HeldFor, Handled
  <2>2. QED
    BY <1>2, <1>4, <1>5, <2>1 DEF Pending, DeliversTo
<1>12. EpochRight(c, s)'
  BY <1>4, <1>5, <1>6, <1>8 DEF LinkRight, EpochRight
<1>13. RepliesRight(c, a)'
  <2>1. RepliesRight(c, a)
    BY <1>4, <1>11, NoReplies
  <2>2. (\A h \in HeldFor(c)' : h.msg.type # "connect")
            /\ \A i \in 1..Len(wire') : wire'[i].type # "connect"
    <3>1. \A i \in 1..Len(wire) : wire[i].type # "connect"
      BY <1>4 DEF SideOpen, OpensFirst, Linked
    <3>2. QED
      BY <1>2, <1>11, <3>1 DEF Pending
  <2>3. QED
    BY <2>2 DEF RepliesRight, RecoversFrom
<1>14. a \in Places /\ Path(a, a, Tail(queue), Places, SeenMoves(c))
  <2>1. a \in Places /\ Tail(queue) = <<>>
    BY <1>4
  <2>2. Path(a, a, <<>>, Places, SeenMoves(c))
    BY <2>1, PathEmpty
  <2>3. QED
    BY <2>1, <2>2
<1>15. CASE Len(q) = 1
  <2>1. queue' = <<>> /\ Path(a, a, queue', Places, SeenMoves(c))
    BY <1>4, <1>14, <1>15
  <2>2. LivesRight(c, s, a)'
    BY <2>1 DEF LivesRight
  <2>3. s = a
    BY <1>4, <1>5, <1>15, <1>4 DEF DeliversTo, LastPub
  <2>4. NextRight(c, s, a)'
    BY <2>3 DEF NextRight
  <2>5. SeenThrough(c, s, a)'
    BY <1>8, <1>9, <1>10, <1>12, <1>13, <2>1, <2>2, <2>4
       DEF SeenThrough, SeenEnd, LinkRight
  <2>6. QED
    BY <1>14, <2>5 DEF SeenAt
<1>16. CASE Len(q) # 1
  <2>1. PICK r \in SideEvents : /\ queue' = <<r>> \o Tail(queue) /\ r.pubs = Tail(q)
            /\ r.kind = "publications"
                                /\ r.channels = {c} /\ r.reader = connectAttempt
    BY <1>4, <1>16
  <2>2. Path(a, a, queue', Places, SeenMoves(c))
    <3>1. SeenMove(c, r, a, a)
      BY <2>1 DEF SeenMove
    <3>2. <<r, a, a>> \in SeenMoves(c)
      BY <1>14, <3>1, SeenMovesFacts
    <3>3. Tail(queue) \in Seq(SideEvents)
      BY <1>4
    <3>4. QED
      BY <1>14, <2>1, <3>2, <3>3, PathCons
  <2>3. Len(queue') = 1 /\ queue'[1] = r
    <3>1. queue' = <<r>> \o <<>>
      BY <1>4, <2>1
    <3>2. QED
      BY <3>1
  <2>4. /\ Tail(q) # <<>> /\ Len(Tail(q)) = Len(q) - 1 /\ Len(Tail(q)) \in Nat \ {0}
        /\ \A k \in 1..Len(Tail(q)) : k + 1 \in 1..Len(q) /\ Tail(q)[k] = q[k + 1]
    BY <1>4, <1>16, TailOfMore
  <2>5. LastPub(Tail(q)) = LastPub(q)
    <3>1. Len(Tail(q)) \in 1..Len(Tail(q)) /\ Len(Tail(q)) + 1 = Len(q)
      BY <1>4, <2>4
    <3>2. QED
      BY <2>4, <3>1 DEF LastPub
  <2>6. Tail(q)[1] = Following(a)
    <3>1. 1 \in 1..Len(Tail(q)) /\ 1 \in 1..Len(q) /\ 2 \in 1..Len(q) /\ 2 = 1 + 1
      BY <1>4, <1>16, <2>4
    <3>2. Tail(q)[1] = q[2]
      BY <2>4, <3>1
    <3>3. q[2] = Following(q[1])
      BY <1>4, <3>1 DEF Chained
    <3>4. QED
      BY <1>4, <3>2, <3>3
  <2>7. \A k \in 1..Len(Tail(q)) : Tail(q)[k][1] = a[1]
    BY <1>4, <1>5, <1>6, <2>4 DEF DeliversTo
  <2>8. LivesRight(c, s, a)'
    <3>1. PICK w : w = Tail(q)
      OBVIOUS
    <3>2. DeliversTo(c, w, s, a)'
      BY <1>4, <1>5, <1>8, <1>11, <2>5, <2>6, <2>7, <3>1 DEF DeliversTo
    <3>3. \A i \in 1..Len(queue') : queue'[i].pubs = w
      BY <2>1, <2>3, <3>1
    <3>4. QED
      BY <3>2, <3>3 DEF LivesRight, DeliversTo
  <2>9. NextRight(c, s, a)'
    <3>1. 1 \in 1..Len(queue') /\ Live(queue[1], c)'
      BY <1>11, <2>1, <2>3 DEF Live, Current
    <3>2. QED
      BY <3>1 DEF NextRight, NoLive
  <2>10. SeenThrough(c, s, a)'
    BY <1>8, <1>9, <1>10, <1>12, <1>13, <2>2, <2>8, <2>9
       DEF SeenThrough, SeenEnd, LinkRight
  <2>11. QED
    BY <1>14, <2>10 DEF SeenAt
<1>17. QED
  BY <1>15, <1>16

\* The positions of a connection are invalidated, and not those of a newer one.
LEMMA SeenInvalidated ==
  ASSUME SideTypes, SideSent, SideOrder, [Next]_vars,
         NEW n \in Nat, InvalidateConnectionState(n), ~late',
         NEW c \in Channels, SeenAt(c)
  PROVE  SeenAt(c)'
<1>1. PICK s \in View, v \in Places : SeenThrough(c, s, v)
  BY DEF SeenAt
<1>2. /\ UNCHANGED <<tops, serverSide, serverUp, state, connectAttempt, wire, held, queue,
         seen>>
      /\ <<n, "invalidate">> \in closes /\ late' = (late \/ (n # connectAttempt /\ Linked))
      /\ serverSubs' = [d \in DOMAIN serverSubs |-> <<InvalidatedEpoch, 0>>]
  BY DEF InvalidateConnectionState, server, connection, application, Linked
<1>3. DOMAIN serverSubs' = DOMAIN serverSubs /\ (c \in DOMAIN serverSubs
          => serverSubs'[c][1] = -1)
  BY <1>2 DEF InvalidatedEpoch
<1>4. PosRight(c, v)'
  <2>1. ServerEpoch(c)' \in Nat
    BY <1>2, StreamFacts DEF ServerEpoch, SideTypes
  <2>2. QED
    BY <1>3, <2>1 DEF PosRight, NoEpoch
<1>5. FlowAt(c, s)'
  BY <1>1, <1>2, <1>3, FlowSame DEF SeenThrough
<1>6. ASSUME Linked' PROVE LinkRight(c, s, v)'
  <2>1. Linked /\ LinkRight(c, s, v)
    BY <1>1, <1>2, <1>6 DEF Linked, SeenThrough, SeenEnd
  <2>2. n = connectAttempt
    BY <1>2, <2>1
  <2>3. state = "connected" /\ wire = <<>> /\ ReaderFree(connectAttempt)
    <3>1. PICK x \in closes : x = <<n, "invalidate">>
      BY <1>2
    <3>2. x[1] = connectAttempt
      BY <2>2, <3>1
    <3>3. QED
      BY <2>1, <3>2 DEF SideOrder, ClosedLast
  <2>4. EventsRan(connectAttempt) /\ HeldFor(c) = {} /\ HeldFor(c)' = {}
    BY <1>2, <2>3 DEF ReaderFree, HeldFor
  <2>5. EpochRight(c, s)'
    <3>1. s[1] \in Int /\ -1 <= s[1]
      BY ViewFacts DEF Gone
    <3>2. QED
      BY <1>3, <3>1 DEF EpochRight
  <2>6. RepliesRight(c, v)'
    BY <1>2, <2>3, <2>4 DEF RepliesRight
  <2>7. \A i \in 1..Len(queue) : ~Live(queue[i], c) /\ ~Live(queue[i], c)'
    BY <1>2, <2>4 DEF Live, Current, EventsRan
  <2>8. LivesRight(c, s, v)'
    BY <1>2, <2>7 DEF LivesRight
  <2>9. NextRight(c, s, v)'
    <3>1. ~Pending(c)
      BY <2>3, <2>4 DEF Pending
    <3>2. c \in DOMAIN serverSubs => v \in {Unknown, s}
      BY <2>1, <2>3, <2>7, <3>1 DEF LinkRight, NextRight, NoLive
    <3>3. QED
      BY <1>3, <3>2 DEF NextRight
  <2>10. QED
    BY <2>5, <2>6, <2>8, <2>9 DEF LinkRight
<1>7. SeenThrough(c, s, v)'
  BY <1>1, <1>2, <1>4, <1>5, <1>6 DEF SeenThrough, SeenEnd
<1>8. QED
  BY <1>7 DEF SeenAt

\* A connection is opened: the connect command has the positions of the subscriptions.
LEMMA SeenOpen ==
  ASSUME SideTypes, SideSent, [Next]_vars, Open, NEW c \in Channels, SeenAt(c)
  PROVE  SeenAt(c)'
<1>1. PICK s \in View, v \in Places : SeenThrough(c, s, v)
  BY DEF SeenAt
<1>2. /\ state' = "opening" /\ connectAttempt' = connectAttempt + 1
      /\ UNCHANGED <<tops, floor, serverSide, held, serverSubs, queue, seen>>
  BY OpenFacts
<1>3. PICK m \in SideMessages : /\ wire' = <<m>> /\ DOMAIN m.subs = serverSide
                                /\ \A d \in serverSide : m.subs[d] \in {NoPosition,
                                   Unrecovered(d)}
                                                         \/ (CanRecover(d) /\ m.subs[d] = Recovered(d))
  BY OpenFacts
<1>4. ServerEpoch(c) \in Nat /\ ServerEpoch(c) = Len(tops[c])
  BY StreamFacts DEF SideTypes, ServerEpoch
<1>5. c \in DOMAIN serverSubs => /\ serverSubs[c] \in Int \X Nat /\ serverSubs[c][1] \in Int
                                 /\ serverSubs[c][1] <= ServerEpoch(c)
                                 /\ serverSubs[c] = <<serverSubs[c][1], serverSubs[c][2]>>
  BY <1>4 DEF SideTypes, SubTypes, SideSent, SubsRight
<1>6. PICK x \in 0..ServerEpoch(c) : c \in DOMAIN serverSubs => serverSubs[c][1] <= x
  <2>1. ServerEpoch(c) \in 0..ServerEpoch(c)
    BY <1>4
  <2>2. QED
    BY <1>5, <2>1
<1>7. FlowAt(c, <<x, 0>>)'
  BY FlowOpen
<1>8. PICK y \in View : y = <<x, 0>>
  <2>1. x \in Nat
    BY <1>4, <1>6
  <2>2. QED
    BY <2>1, ViewFacts
<1>9. FlowAt(c, y)' /\ y[1] = x
  BY <1>7, <1>8 DEF FlowAt
<1>10. SubSame(c) /\ PosRight(c, v)
  BY <1>1, <1>2 DEF SubSame, SeenThrough, SeenEnd
<1>11. PosRight(c, v)'
  BY <1>10, PosKept
<1>12. EpochRight(c, y)'
  BY <1>2, <1>6, <1>9 DEF EpochRight
<1>13. RecoversFrom(c, m, v)'
  <2>1. SUFFICES ASSUME c \in serverSide, m.subs[c].kind = "recovered"
                 PROVE  /\ c \in DOMAIN serverSubs /\ serverSubs[c][2] = m.subs[c].offset
                        /\ v \in {Unknown, <<m.subs[c].epoch, m.subs[c].offset>>}
    BY <1>2, <1>3 DEF RecoversFrom
  <2>2. CanRecover(c) /\ m.subs[c] = Recovered(c)
    BY <1>3, <2>1, OtherReplyTypes
  <2>3. /\ c \in DOMAIN serverSubs /\ m.subs[c].offset = serverSubs[c][2]
        /\ m.subs[c].epoch = ServerEpoch(c) /\ serverSubs[c][1] \in {NoEpoch, ServerEpoch(c)}
    BY <2>2, RecoveredTypes DEF CanRecover
  <2>4. QED
    BY <1>5, <1>10, <2>3 DEF PosRight
<1>14. HeldFor(c)' = {}
  <2>1. connectAttempt \in Nat /\ \A h \in held : h.connection \in Nat
            /\ h.connection <= connectAttempt
    BY HeldFields DEF SideTypes, SessionTypes, WireTypes
  <2>2. \A h \in held : h.connection # connectAttempt + 1
    BY <2>1
  <2>3. QED
    BY <1>2, <2>2 DEF HeldFor
<1>15. RepliesRight(c, v)'
  <2>1. Len(wire') = 1 /\ wire'[1] = m
    BY <1>3
  <2>2. \A i \in 1..Len(wire') : wire'[i] = m
    BY <2>1
  <2>3. QED
    BY <1>13, <1>14, <2>2 DEF RepliesRight, RecoversFrom
<1>16. LivesRight(c, y, v)' /\ NextRight(c, y, v)'
  BY <1>2 DEF LivesRight, NextRight, Live, Current
<1>17. SeenThrough(c, y, v)'
  BY <1>1, <1>2, <1>9, <1>11, <1>12, <1>15, <1>16 DEF SeenThrough, SeenEnd, LinkRight
<1>18. QED
  BY <1>17 DEF SeenAt

\* What is left when a reader of the connection has handled its message for the channel.
LEMMA ConsumedFrame ==
  ASSUME SideTypes, SideOpen, HeldFresh, NEW h \in held, Handles(h), NEW c, Consumes(h, c)
  PROVE  /\ UNCHANGED <<tops, connectAttempt, wire, seen, state>>
         /\ state = "connected" /\ Linked /\ h.connection = connectAttempt
         /\ ~Pending(c)' /\ (Pending(c) <=> h.msg.type = "connect")
         /\ NoLive(c) /\ EventsRan(connectAttempt)
         /\ \A w : RepliesRight(c, w)'
<1>1. /\ UNCHANGED <<tops, connectAttempt, wire, seen, state>>
      /\ state = "connected" /\ Linked /\ h.connection = connectAttempt
      /\ HeldFor(c) = {h} /\ HeldFor(c)' = {}
  BY HandledFrame DEF Consumes
<1>2. ~Pending(c)' /\ (Pending(c) <=> h.msg.type = "connect")
  BY <1>1 DEF Pending
<1>3. EventsRan(connectAttempt)
  BY <1>1, CurrentQueued
<1>4. NoLive(c)
  BY <1>3 DEF NoLive, Live, Current, EventsRan
<1>5. \A i \in 1..Len(wire) : wire[i].type # "connect"
  BY <1>1 DEF SideOpen, OpensFirst
<1>6. \A w : RepliesRight(c, w)'
  BY <1>1, <1>5 DEF RepliesRight, RecoversFrom
<1>7. QED
  BY <1>1, <1>2, <1>3, <1>4, <1>6

\* The entries added have nothing to deliver: the application is where it has to be.
LEMMA SeenSettled ==
  ASSUME SideTypes, SideOpen, HeldFresh, NEW h \in held, Handles(h), NEW c, Consumes(h, c),
         NEW m \in View, NEW w \in Places, FlowAt(c, m)',
         Path(seen[c], w, queue', Places, SeenMoves(c)),
         PosRight(c, w)', EpochRight(c, m)', c \in DOMAIN serverSubs' => w \in {Unknown, m},
         \/ QueueQuiet(c)
         \/ \E e \in SideEvents : e.kind # "publications" /\ queue' = Append(queue, e)
  PROVE  SeenAt(c)'
<1>1. /\ UNCHANGED <<connectAttempt, seen, state>> /\ EventsRan(connectAttempt)
      /\ \A x : RepliesRight(c, x)'
  BY ConsumedFrame
<1>2. queue \in Seq(SideEvents)
  BY DEF SideTypes, SideQueueTypes
<1>3. \A i \in 1..Len(queue) : queue[i].reader # connectAttempt
  BY <1>1 DEF EventsRan
<1>4. \A i \in 1..Len(queue') : \/ queue'[i].reader # connectAttempt
          \/ c \notin queue'[i].channels
                                \/ queue'[i].kind # "publications"
  <2>1. CASE queue' = queue
    BY <1>3, <2>1
  <2>2. ASSUME NEW e \in SideEvents, e.kind # "publications"
                   \/ c \notin e.channels, queue' = Append(queue, e)
        PROVE  \A i \in 1..Len(queue') : \/ queue'[i].reader # connectAttempt
                   \/ c \notin queue'[i].channels
                                         \/ queue'[i].kind # "publications"
    <3>1. \A i \in 1..Len(queue') : queue'[i] = e \/ (i \in 1..Len(queue)
              /\ queue'[i] = queue[i])
      BY <1>2, <2>2
    <3>2. QED
      BY <1>3, <2>2, <3>1
  <2>3. ASSUME NEW e \in SideEvents,
               NEW f \in SideEvents, c \notin e.channels, c \notin f.channels,
               queue' = Append(Append(queue, e), f)
        PROVE  \A i \in 1..Len(queue') : \/ queue'[i].reader # connectAttempt
                   \/ c \notin queue'[i].channels
                                         \/ queue'[i].kind # "publications"
    <3>1. \A i \in 1..Len(queue') : queue'[i] \in {e, f} \/ (i \in 1..Len(queue)
              /\ queue'[i] = queue[i])
      BY <1>2, <2>3
    <3>2. QED
      BY <1>3, <2>3, <3>1
  <2>4. QED
    BY <2>1, <2>2, <2>3 DEF QueueQuiet
<1>5. \A i \in 1..Len(queue') : ~Live(queue[i], c)'
  BY <1>1, <1>4 DEF Live, Current
<1>6. LivesRight(c, m, w)' /\ NextRight(c, m, w)' /\ RepliesRight(c, w)'
  BY <1>1, <1>5 DEF LivesRight, NextRight
<1>7. SeenThrough(c, m, w)'
  BY <1>1, <1>6 DEF SeenThrough, SeenEnd, LinkRight
<1>8. QED
  BY <1>7 DEF SeenAt

\* A reader handles a message that unsubscribes, or leaves the channel out.
LEMMA SeenOthers ==
  ASSUME SideTypes, SideSent, SideOpen, HeldFresh, [Next]_vars, NEW h \in held, Handles(h),
         NEW c \in Channels, Consumes(h, c), SeenAt(c), Others(h, c) \/ Removes(h, c)
  PROVE  SeenAt(c)'
<1>1. PICK s \in View, v \in Places : SeenThrough(c, s, v)
  BY DEF SeenAt
<1>2. PICK m \in View : FlowMove(c, h.msg, s, m) /\ FlowAt(c, m)'
  BY <1>1, FlowConsumes DEF SeenThrough
<1>3. /\ state = "connected" /\ Linked /\ (Pending(c) <=> h.msg.type = "connect") /\ NoLive(c)
  BY ConsumedFrame
<1>4. PosRight(c, v) /\ LinkRight(c, s, v) /\ Path(seen[c], v, queue, Places, SeenMoves(c))
  BY <1>1, <1>3 DEF SeenThrough, SeenEnd
<1>5. CASE Others(h, c)
  <2>1. h.msg.type # "connect" /\ m = s /\ SubSame(c) /\ QueueQuiet(c)
    BY <1>2, <1>5 DEF Others, FlowMove
  <2>2. PosRight(c, v)'
    BY <1>4, <2>1, PosKept
  <2>3. EpochRight(c, m)'
    BY <1>4, <2>1 DEF LinkRight, EpochRight, SubSame
  <2>4. c \in DOMAIN serverSubs' => v \in {Unknown, m}
    BY <1>3, <1>4, <2>1 DEF LinkRight, NextRight, SubSame
  <2>5. Path(seen[c], v, queue', Places, SeenMoves(c))
    BY <1>4, <2>1, PlainPath DEF QueueQuiet, Plain
  <2>6. QED
    BY <1>2, <2>1, <2>2, <2>3, <2>4, <2>5, SeenSettled
<1>6. CASE Removes(h, c)
  <2>1. c \notin DOMAIN serverSubs'
    BY <1>6 DEF Removes
  <2>2. QueueQuiet(c) \/ \E e \in SideEvents : e.kind = "unsubscribed"
            /\ queue' = Append(queue, e)
    BY <1>6 DEF Removes
  <2>3. Path(seen[c], v, queue', Places, SeenMoves(c))
    BY <1>4, <2>2, PlainPath DEF QueueQuiet, Plain
  <2>4. PosRight(c, v)' /\ EpochRight(c, m)'
    BY <2>1 DEF PosRight, EpochRight
  <2>5. QED
    BY <1>2, <2>1, <2>2, <2>3, <2>4, SeenSettled
<1>7. QED
  BY <1>5, <1>6

\* A reader handles a publication, a subscribe or the connect reply of a channel.
LEMMA SeenPushes ==
  ASSUME SideTypes, SideSent, SideOpen, HeldFresh, [Next]_vars, NEW h \in held, Handles(h),
         NEW c \in Recoverable \cap Channels, Consumes(h, c), SeenAt(c), Pushes(h, c)
  PROVE  SeenAt(c)'
<1>1. PICK s \in View, v \in Places : SeenThrough(c, s, v)
  BY DEF SeenAt
<1>2. PICK m \in View : FlowMove(c, h.msg, s, m) /\ FlowAt(c, m)'
  BY <1>1, FlowConsumes DEF SeenThrough
<1>3. /\ h.msg.type \in {"pub", "subscribe", "unsubscribe"} /\ h.msg.channel = c
      /\ state = "connected" /\ Linked /\ ~Pending(c) /\ NoLive(c) /\ tops' = tops
      /\ h.connection = connectAttempt
  BY ConsumedFrame DEF Pushes
<1>4. PosRight(c, v) /\ LinkRight(c, s, v)
          /\ Path(seen[c], v, queue, Places, SeenMoves(c)) /\ ClientAt(c, s)
  BY <1>1, <1>3 DEF SeenThrough, SeenEnd, FlowAt, FlowThrough
<1>5. s # Gone <=> c \in DOMAIN serverSubs
  BY <1>3, <1>4 DEF ClientAt
<1>6. c \in DOMAIN serverSubs => v \in {Unknown, s} /\ serverSubs[c][1] <= s[1]
  BY <1>3, <1>4 DEF LinkRight, NextRight, EpochRight
<1>7. h \in Helds /\ h.msg \in SideMessages /\ h.connection \in Nat /\ MsgRight(h.msg)
  BY HeldFields DEF SideTypes, WireTypes, SideSent, HeldRight
<1>8. PICK p \in Places : p = h.msg.position
  BY <1>3, <1>7, SideMessageFields
<1>9. /\ p[1] \in Nat /\ p[2] \in Nat /\ p = <<p[1], p[2]>> /\ Unknown \in Places
      /\ queue \in Seq(SideEvents)
      /\ (h.msg.type = "pub" => Issued(c, p))
      /\ (h.msg.type = "subscribe" => p[1] # 0)
  BY <1>3, <1>7, <1>8, PlacesFacts DEF MsgRight, SideTypes, SideQueueTypes
<1>10. /\ h.msg.type = "subscribe" => s = Gone /\ m = p
       /\ h.msg.type = "unsubscribe" => s # Gone /\ m = Gone
       /\ h.msg.type = "pub" => s # Gone /\ s[1] <= p[1] /\ m = p
              /\ (s[2] = -1 \/ p = Following(s))
  BY <1>2, <1>3, <1>8 DEF FlowMove
<1>11. CASE h.msg.type = "pub"
  <2>1. c \in DOMAIN serverSubs /\ serverSubs' = With(c, Adopted(c, p))
    BY <1>5, <1>8, <1>10, <1>11 DEF Pushes
  <2>2. queue' = Append(queue, Entry("publication", {c}, h.connection, <<p>>, Unknown, FALSE))
    BY <1>5, <1>8, <1>10, <1>11 DEF Pushes
  <2>3. PICK e \in SideEvents : /\ queue' = Append(queue, e) /\ e.kind = "publication"
                                /\ e.pubs = <<p>> /\ e.stale = FALSE /\ e.channels = {c}
    <3>1. Entry("publication", {c}, h.connection, <<p>>, Unknown, FALSE) \in SideEvents
      <4>1. FALSE \in BOOLEAN /\ {c} \in SUBSET Channels /\ "publication" \in SideKinds
        BY DEF SideKinds
      <4>2. <<p>> \in Seq(Places) /\ Unknown \in Places
        BY PlacesFacts
      <4>3. QED
        BY <1>7, <4>1, <4>2, EntryTypes
    <3>2. QED
      BY <2>2, <3>1 DEF Entry
  <2>4. v = Unknown \/ p = Following(v)
    <3>1. v # Unknown => v = s /\ s[2] # -1
      BY <1>6, <2>1, PlacesFacts
    <3>2. QED
      BY <1>10, <1>11, <3>1
  <2>5. SeenMove(c, e, v, p)
    <3>1. ~e.stale
      BY <2>3, Zenon
    <3>2. QED
      BY <2>3, <2>4, <3>1 DEF SeenMove
  <2>6. Path(seen[c], p, queue', Places, SeenMoves(c))
    BY <1>4, <1>9, <2>3, <2>5, SeenAppends
  <2>7. /\ serverSubs' = With(c, Adopted(c, p)) /\ c \in DOMAIN serverSubs'
        /\ serverSubs'[c] = <<IF serverSubs[c][1] = 0 THEN p[1] ELSE serverSubs[c][1], p[2]>>
    BY <2>1 DEF With, Adopted, NoEpoch
  <2>8. serverSubs[c][1] \in Int /\ serverSubs[c][1] <= p[1] /\ p[1] # 0 /\ p[1] <= Len(tops[c])
    <3>1. serverSubs[c][1] \in Int
      BY <2>1 DEF SideTypes, SubTypes
    <3>2. s[1] \in Int
      BY ViewFacts DEF Gone
    <3>3. p[1] # 0 /\ p[1] <= Len(tops[c])
      BY <1>9, <1>11 DEF Issued
    <3>4. QED
      BY <1>6, <1>9, <1>10, <1>11, <2>1, <3>1, <3>2, <3>3
  <2>9. Len(tops[c]) \in Nat /\ ServerEpoch(c)' = Len(tops[c])
    BY <1>3, StreamFacts DEF SideTypes, ServerEpoch
  <2>10. PosRight(c, p)'
    BY <1>9, <2>7, <2>8, <2>9 DEF PosRight, NoEpoch
  <2>11. EpochRight(c, p)'
    BY <1>9, <2>7, <2>8 DEF EpochRight
  <2>12. QED
    BY <1>2, <1>10, <1>11, <2>3, <2>6, <2>10, <2>11, SeenSettled
<1>12. CASE h.msg.type = "subscribe"
  <2>1. serverSubs' = With(c, p)
    BY <1>5, <1>8, <1>10, <1>12 DEF Pushes
  <2>2. queue' = Append(queue, Entry("unrecovered", {c}, h.connection, <<>>, p, FALSE))
    BY <1>5, <1>8, <1>10, <1>12 DEF Pushes
  <2>3. PICK e \in SideEvents : /\ queue' = Append(queue, e) /\ e.kind = "unrecovered"
                                /\ e.position = p /\ e.channels = {c}
    <3>1. Entry("unrecovered", {c}, h.connection, <<>>, p, FALSE) \in SideEvents
      <4>1. FALSE \in BOOLEAN /\ {c} \in SUBSET Channels /\ "unrecovered" \in SideKinds
        BY DEF SideKinds, SubKinds
      <4>2. QED
        BY <1>7, <4>1, PlacesFacts, EntryTypes
    <3>2. QED
      BY <2>2, <3>1 DEF Entry
  <2>4. SeenMove(c, e, v, p)
    BY <2>3 DEF SeenMove
  <2>5. Path(seen[c], p, queue', Places, SeenMoves(c))
    BY <1>4, <1>9, <2>3, <2>4, SeenAppends
  <2>6. serverSubs'[c] = p
    BY <2>1 DEF With
  <2>7. PosRight(c, p)' /\ EpochRight(c, p)'
    BY <1>9, <1>12, <2>6 DEF PosRight, EpochRight, NoEpoch
  <2>8. QED
    BY <1>2, <1>10, <1>12, <2>3, <2>5, <2>7, SeenSettled
<1>13. CASE h.msg.type = "unsubscribe"
  <2>1. serverSubs' = Without({c})
    BY <1>5, <1>10, <1>13 DEF Pushes
  <2>2. c \notin DOMAIN serverSubs'
    BY <2>1 DEF Without
  <2>3. queue' = Append(queue, Entry("unsubscribed", {c}, h.connection, <<>>, Unknown, FALSE))
    BY <1>5, <1>10, <1>13 DEF Pushes
  <2>4. PICK e \in SideEvents : queue' = Append(queue, e) /\ e.kind = "unsubscribed"
    <3>1. {c} \in SUBSET Channels /\ h.connection <= h.connection
      BY <1>7
    <3>2. Entry("unsubscribed", {c}, h.connection, <<>>, Unknown, FALSE) \in SideEvents
      BY <1>7, <3>1, NoticeTypes
    <3>3. QED
      BY <2>3, <3>2 DEF Entry
  <2>5. SeenMove(c, e, v, v)
    BY <2>4 DEF SeenMove
  <2>6. Path(seen[c], v, queue', Places, SeenMoves(c))
    BY <1>4, <1>9, <2>4, <2>5, SeenAppends
  <2>7. PosRight(c, v)' /\ EpochRight(c, m)'
    BY <2>2 DEF PosRight, EpochRight
  <2>8. QED
    BY <1>2, <2>2, <2>4, <2>6, <2>7, SeenSettled
<1>14. QED
  BY <1>3, <1>11, <1>12, <1>13

\* The connect reply's subscription is stored: what the application has is what it says, or
\* what it had when the reply recovers from there.
LEMMA SeenStores ==
  ASSUME SideTypes, SideSent, SideOpen, HeldFresh, [Next]_vars, NEW h \in held, Handles(h),
         NEW c \in Recoverable \cap Channels, Consumes(h, c), SeenAt(c), Stores(h, c)
  PROVE  SeenAt(c)'
<1>1. PICK s \in View, v \in Places : SeenThrough(c, s, v)
  BY DEF SeenAt
<1>2. PICK m \in View : FlowMove(c, h.msg, s, m) /\ FlowAt(c, m)'
  BY <1>1, FlowConsumes DEF SeenThrough
<1>3. /\ h.msg.type = "connect" /\ c \in DOMAIN h.msg.subs
      /\ state = "connected" /\ Linked /\ Pending(c) /\ ~Pending(c)' /\ tops' = tops
      /\ EventsRan(connectAttempt) /\ UNCHANGED <<connectAttempt, seen, state>>
      /\ h.connection = connectAttempt /\ \A w : RepliesRight(c, w)'
  BY ConsumedFrame DEF Stores
<1>4. /\ PosRight(c, v) /\ LinkRight(c, s, v)
             /\ Path(seen[c], v, queue, Places, SeenMoves(c)) /\ ClientAt(c, s)
  BY <1>1, <1>3 DEF SeenThrough, SeenEnd, FlowAt, FlowThrough
<1>5. h \in Helds /\ h.connection \in Nat
  BY HeldFields DEF SideTypes, WireTypes
<1>6. PICK sub : sub = h.msg.subs[c]
  OBVIOUS
<1>7. SubRight(c, sub) /\ sub \in SubReplies
  BY <1>3, <1>6, SubRightOf
<1>8. sub.kind \in SubKinds /\ sub.epoch \in Nat /\ sub.offset \in Nat
          /\ sub.pubs \in Seq(Places)
  BY <1>7, SubReplyFields
<1>9. /\ serverSubs' = With(c, Stored(c, sub)) /\ c \in DOMAIN serverSubs'
             /\ serverSubs'[c] = Stored(c, sub)
      /\ LET e == Entry(sub.kind, {c}, h.connection, <<>>, <<sub.epoch, sub.offset>>, FALSE)
             f == Entry("publications", {c}, h.connection, sub.pubs, Unknown, FALSE)
         IN queue' = IF sub.pubs = <<>> THEN Append(queue, e) ELSE Append(Append(queue, e), f)
  BY <1>6 DEF Stores, With
<1>10. PICK e \in SideEvents :
         /\ e.kind = sub.kind /\ e.channels = {c} /\ e.position = <<sub.epoch, sub.offset>>
         /\ IF sub.pubs = <<>> THEN queue' = Append(queue, e)
            ELSE \E f \in SideEvents :
                   /\ queue' = Append(Append(queue, e), f) /\ f.kind = "publications"
                          /\ f.channels = {c}
                   /\ f.reader = h.connection /\ f.pubs = sub.pubs
  <2>1. FALSE \in BOOLEAN /\ {c} \in SUBSET Channels /\ "publications" \in SideKinds
            /\ sub.kind \in SideKinds
    BY <1>8 DEF SideKinds
  <2>2. <<sub.epoch, sub.offset>> \in Places
    BY <1>8, PlacesFacts
  <2>3. Entry(sub.kind, {c}, h.connection, <<>>, <<sub.epoch, sub.offset>>,
        FALSE) \in SideEvents
    BY <1>5, <2>1, <2>2, PlacesFacts, EntryTypes
  <2>4. Entry("publications", {c}, h.connection, sub.pubs, Unknown, FALSE) \in SideEvents
    BY <1>5, <1>8, <2>1, PlacesFacts, EntryTypes
  <2> DEFINE e == Entry(sub.kind, {c}, h.connection, <<>>, <<sub.epoch, sub.offset>>, FALSE)
             f == Entry("publications", {c}, h.connection, sub.pubs, Unknown, FALSE)
  <2>5. /\ e.kind = sub.kind /\ e.channels = {c} /\ e.position = <<sub.epoch, sub.offset>>
        /\ f.kind = "publications" /\ f.channels = {c} /\ f.reader = h.connection
               /\ f.pubs = sub.pubs
        /\ queue' = IF sub.pubs = <<>> THEN Append(queue, e) ELSE Append(Append(queue, e), f)
        /\ e \in SideEvents /\ f \in SideEvents
    BY <1>9, <2>3, <2>4 DEF Entry
  <2> HIDE DEF e, f
  <2>6. QED
    BY <2>5
<1>11. s # Gone /\ (sub.kind = "noPosition"
           => m = <<s[1], -1>>) /\ (sub.kind # "noPosition" => m = After(sub))
  BY <1>2, <1>3, <1>4, <1>6 DEF FlowMove, ClientAt
<1>12. queue \in Seq(SideEvents) /\ Unknown \in Places
  BY PlacesFacts DEF SideTypes, SideQueueTypes
<1>13. CASE sub.kind = "noPosition"
  <2>1. sub.epoch = 0 /\ sub.offset = 0 /\ sub.pubs = <<>>
    BY <1>7, <1>13 DEF SubRight
  <2>2. e.position = Unknown /\ e.kind = "noPosition" /\ queue' = Append(queue, e)
    BY <1>10, <1>13, <2>1 DEF Unknown
  <2>3. SeenMove(c, e, v, Unknown)
    BY <1>10, <2>2 DEF SeenMove
  <2>4. Path(seen[c], Unknown, queue', Places, SeenMoves(c))
    BY <1>4, <1>12, <2>2, <2>3, SeenAppends
  <2>5. PosRight(c, Unknown)'
    BY DEF PosRight, Unknown
  <2>6. EpochRight(c, m)'
    <3>1. m[1] = s[1] /\ s[1] \in Nat
      BY <1>11, <1>13, ViewFacts
    <3>2. Stored(c, sub)[1] = 0 \/ (c \in DOMAIN serverSubs /\ Stored(c, sub) = serverSubs[c])
      BY <2>1 DEF Stored, TakesPosition, NoEpoch
    <3>3. c \in DOMAIN serverSubs => serverSubs[c][1] <= s[1]
      BY <1>4 DEF LinkRight, EpochRight
    <3>4. Stored(c, sub)[1] <= m[1]
      BY <3>1, <3>2, <3>3
    <3>5. QED
      BY <1>9, <3>4 DEF EpochRight
  <2>7. QED
    BY <1>2, <1>12, <2>2, <2>4, <2>5, <2>6, SeenSettled
<1>14. CASE sub.kind = "unrecovered"
  <2>1. sub.epoch # 0 /\ sub.pubs = <<>>
    BY <1>7, <1>14 DEF SubRight
  <2>2. PICK p \in Places : p = <<sub.epoch, sub.offset>>
    BY <1>8, PlacesFacts
  <2>3. m = p /\ p[1] = sub.epoch
    BY <1>11, <1>14, <2>1, <2>2 DEF After
  <2>4. serverSubs'[c] = p
    BY <1>9, <2>1, <2>2 DEF Stored, TakesPosition, NoEpoch
  <2>5. e.position = p /\ e.kind = "unrecovered" /\ queue' = Append(queue, e)
    BY <1>10, <1>14, <2>1, <2>2
  <2>6. SeenMove(c, e, v, p)
    BY <1>10, <2>5 DEF SeenMove
  <2>7. Path(seen[c], p, queue', Places, SeenMoves(c))
    BY <1>4, <1>12, <2>5, <2>6, SeenAppends
  <2>8. PosRight(c, p)' /\ EpochRight(c, p)'
    BY <1>8, <2>1, <2>3, <2>4 DEF PosRight, EpochRight, NoEpoch
  <2>9. QED
    BY <1>2, <2>3, <2>5, <2>7, <2>8, SeenSettled
<1>15. CASE sub.kind = "recovered"
  <2>1. sub.epoch # 0
    BY <1>7, <1>15 DEF SubRight
  <2>2. PICK p \in Places : p = <<sub.epoch, sub.offset>>
    BY <1>8, PlacesFacts
  <2>3. c \in DOMAIN serverSubs /\ serverSubs[c][2] = sub.offset /\ v \in {Unknown, p}
    <3>1. h \in HeldFor(c)
      BY DEF Consumes
    <3>2. RecoversFrom(c, h.msg, v)
      BY <1>4, <3>1 DEF LinkRight, RepliesRight
    <3>3. QED
      BY <1>3, <1>6, <1>15, <2>2, <3>2 DEF RecoversFrom
  <2>4. serverSubs'[c] = p /\ p[1] = sub.epoch
    BY <1>9, <2>1, <2>2, <2>3 DEF Stored, TakesPosition, NoEpoch
  <2>5. PosRight(c, v)'
    BY <2>1, <2>3, <2>4 DEF PosRight, NoEpoch
  <2>6. SeenMove(c, e, v, v)
    BY <1>10, <1>15 DEF SeenMove
  <2>7. Path(seen[c], v, Append(queue, e), Places, SeenMoves(c))
            /\ Append(queue, e) \in Seq(SideEvents)
    BY <1>4, <1>12, <2>6, SeenAppends
  <2>8. CASE sub.pubs = <<>>
    <3>1. m = p /\ queue' = Append(queue, e)
      BY <1>10, <1>11, <1>15, <2>2, <2>8 DEF After
    <3>2. EpochRight(c, m)'
      BY <1>8, <2>4, <3>1 DEF EpochRight
    <3>3. QED
      BY <1>2, <1>10, <1>15, <2>3, <2>5, <2>7, <3>1, <3>2, SeenSettled
  <2>9. CASE sub.pubs # <<>>
    <3>1. PICK f \in SideEvents :
            /\ queue' = Append(Append(queue, e), f) /\ f.kind = "publications"
                   /\ f.channels = {c}
            /\ f.reader = connectAttempt /\ f.pubs = sub.pubs
      BY <1>3, <1>10, <2>9
    <3>2. SeenMove(c, f, v, v)
      BY <3>1 DEF SeenMove
    <3>3. Path(seen[c], v, queue', Places, SeenMoves(c))
      BY <2>7, <3>1, <3>2, SeenAppends
    <3>4. m = LastPub(sub.pubs)
      BY <1>11, <1>15, <2>9 DEF After
    <3>5. \A k \in 1..Len(sub.pubs) : sub.pubs[k][1] = sub.epoch
      BY <1>7 DEF SubRight
    <3>6. Len(sub.pubs) \in 1..Len(sub.pubs)
      BY <1>8, <2>9, SeqFacts
    <3>7. m[1] = sub.epoch
      BY <3>4, <3>5, <3>6 DEF LastPub
    <3>8. EpochRight(c, m)'
      BY <1>8, <2>4, <3>7 DEF EpochRight
    <3>9. sub.pubs[1] = Following(p)
      BY <1>7, <1>15, <2>2, <2>9 DEF SubRight
    <3>10. DeliversTo(c, sub.pubs, m, v)'
      BY <1>3, <1>9, <2>3, <2>4, <3>4, <3>5, <3>9 DEF DeliversTo
    <3>11. /\ Len(queue') \in 1..Len(queue') /\ queue'[Len(queue')] = f
           /\ \A i \in 1..Len(queue') : queue'[i] \in {e, f} \/ (i \in 1..Len(queue)
                  /\ queue'[i] = queue[i])
      <4>1. queue' = Append(Append(queue, e), f)
        BY <3>1
      <4>2. QED
        BY <1>12, <4>1
    <3>12. \A i \in 1..Len(queue') : Live(queue[i], c)' => queue'[i].pubs = sub.pubs
      <4>1. \A i \in 1..Len(queue') : queue'[i] = e => queue'[i].kind = "recovered"
        BY <1>10, <1>15
      <4>2. \A i \in 1..Len(queue) : queue[i].reader # connectAttempt
        BY <1>3 DEF EventsRan
      <4>3. QED
        BY <1>3, <3>1, <3>11, <4>1, <4>2 DEF Live, Current
    <3>13. LivesRight(c, m, v)'
      BY <3>10, <3>12 DEF LivesRight, DeliversTo
    <3>14. Live(queue[Len(queue)], c)'
      BY <1>3, <3>1, <3>11 DEF Live, Current
    <3>15. NextRight(c, m, v)'
      BY <3>11, <3>14 DEF NextRight, NoLive
    <3>16. SeenThrough(c, m, v)'
      BY <1>2, <1>3, <2>5, <3>3, <3>8, <3>13, <3>15 DEF SeenThrough, SeenEnd, LinkRight
    <3>17. QED
      BY <3>16 DEF SeenAt
  <2>10. QED
    BY <2>8, <2>9
<1>16. QED
  BY <1>8, <1>13, <1>14, <1>15 DEF SubKinds

\* An invalidation that hit a newer connection is not undone.
LEMMA LateForever ==
  ASSUME [Next]_vars, late
  PROVE  late'
<1>1. CASE \E h \in held : Handles(h)
  BY <1>1, HandledFrame
<1>2. CASE Connect \/ Ends \/ Close \/ ReportClosed \/ Open \/ Take \/ Invalidated
  BY <1>2, EndFacts DEF Connect, Close, ReportClosed, Open, Take, Invalidated
<1>3. CASE Runs \/ Idles \/ \E n \in Nat : InvalidateConnectionState(n)
  BY <1>3, RunFrame DEF Idles, SideSame, InvalidateConnectionState
<1>4. CASE \E c \in Channels : Publishes(c) \/ Reset(c)
  BY <1>4 DEF Publishes, Publish, ServerSubscribes, ServerUnsubscribes, Reset
<1>5. QED
  BY <1>1, <1>2, <1>3, <1>4, SideCases

\* A step keeps where the queue leads the application.
LEMMA SideSeenStep ==
  ASSUME SideTypes, SideReader, SideOpen, SideSent, SideOrder, SideSeen, [Next]_vars
  PROVE  SideSeen'
<1>1. SUFFICES ASSUME ~strayed', ~late', NEW c \in Recoverable \cap Channels
               PROVE  SeenAt(c)'
  BY DEF SideSeen
<1>2. ~strayed /\ ~late /\ SeenAt(c) /\ c \in Channels
  BY <1>1, StraysForever, LateForever DEF SideSeen
<1>3. CASE Connect \/ Ends \/ Close \/ ReportClosed
  BY <1>2, <1>3, SeenUnlinked
<1>4. CASE Open
  BY <1>2, <1>4, SeenOpen
<1>5. CASE Take
  BY <1>2, <1>5, SeenTake
<1>6. ASSUME NEW h \in held, Handles(h) PROVE SeenAt(c)'
  <2>1. HeldFresh
    BY DEF SideOrder
  <2>2. Quiet(c) \/ Consumes(h, c)
    BY <1>1, <1>2, <1>6, HandleCases
  <2>3. CASE Quiet(c)
    BY <1>2, <1>6, <2>1, <2>3, SeenQuiet
  <2>4. CASE Consumes(h, c)
    <3>1. CASE Stores(h, c)
      BY <1>2, <1>6, <2>1, <2>4, <3>1, SeenStores
    <3>2. CASE Pushes(h, c)
      BY <1>2, <1>6, <2>1, <2>4, <3>2, SeenPushes
    <3>3. CASE Others(h, c) \/ Removes(h, c)
      BY <1>2, <1>6, <2>1, <2>4, <3>3, SeenOthers
    <3>4. QED
      BY <2>4, <3>1, <3>2, <3>3 DEF Consumes
  <2>5. QED
    BY <2>2, <2>3, <2>4
<1>7. CASE Invalidated \/ Idles \/ \E d \in Channels : Publishes(d) \/ Reset(d)
  BY <1>2, <1>7, SeenSends
<1>8. ASSUME NEW n \in Nat, InvalidateConnectionState(n) PROVE SeenAt(c)'
  BY <1>1, <1>2, <1>8, SeenInvalidated
<1>9. CASE Runs
  <2>1. CASE RunRecovered /\ MayDeliver(c, queue[1].reader) /\ c \in queue[1].channels
    BY <1>2, <2>1, SeenDelivers
  <2>2. CASE ~(RunRecovered /\ MayDeliver(c, queue[1].reader) /\ c \in queue[1].channels)
    BY <1>2, <1>9, <2>2, SeenRuns
  <2>3. QED
    BY <2>1, <2>2
<1>10. QED
  BY <1>3, <1>4, <1>5, <1>6, <1>7, <1>8, <1>9, SideCases

\* When all entries have run, the position the server recovers from is the application's.
LEMMA SeenRecovers ==
  ASSUME SideTypes, SideSeen
  PROVE  RecoversFromWhatWasSeen
<1>1. SUFFICES ASSUME Settled, ~strayed, ~late, NEW c \in Recoverable \cap DOMAIN serverSubs,
                      seen[c] # Unknown, serverSubs[c][1] = ServerEpoch(c)
               PROVE  seen[c] = serverSubs[c]
  BY DEF RecoversFromWhatWasSeen, PositionsAreSeen
<1>2. c \in Recoverable \cap Channels
  BY DEF SideTypes, SubTypes
<1>3. PICK s \in View, v \in Places : SeenThrough(c, s, v)
  BY <1>1, <1>2 DEF SideSeen, SeenAt
<1>4. Path(seen[c], v, <<>>, Places, SeenMoves(c)) /\ PosRight(c, v)
  BY <1>1, <1>3 DEF SeenThrough, SeenEnd, Settled
<1>5. seen[c] = v
  BY <1>4, PathEmpty
<1>6. QED
  BY <1>1, <1>4, <1>5 DEF PosRight

\* Nothing is on its way at first.
LEMMA SeenInit ==
  ASSUME Init
  PROVE  SideSent /\ SideOrder /\ SideSeen
<1>1. /\ wire = <<>> /\ held = {} /\ queue = <<>> /\ closes = {} /\ serverSubs = <<>>
      /\ seen = [c \in Channels |-> Unknown] /\ ~Linked
  BY DEF Init, Linked
<1>2. DOMAIN serverSubs = {}
  BY <1>1
<1>3. SideSent
  BY <1>1, <1>2 DEF SideSent, WireRight, HeldRight, QueueRight, SubsRight
<1>4. SideOrder
  BY <1>1 DEF SideOrder, HeldFresh, ClosedLast, CurrentLast, OneCurrent
<1>5. ASSUME NEW c \in Recoverable \cap Channels PROVE SeenAt(c)
  <2>1. Path(Unknown, Unknown, <<>>, Places, SeenMoves(c)) /\ Unknown \in Places
    BY PlacesFacts, PathEmpty
  <2>2. seen[c] = Unknown
    BY <1>1
  <2>3. FlowAt(c, Gone) /\ SeenEnd(c, Gone, Unknown)
    BY <1>1, <1>2 DEF FlowAt, SeenEnd, PosRight
  <2>4. SeenThrough(c, Gone, Unknown)
    BY <1>1, <2>1, <2>2, <2>3 DEF SeenThrough
  <2>5. QED
    BY <2>1, <2>4, ViewFacts DEF SeenAt
<1>6. QED
  BY <1>3, <1>4, <1>5 DEF SideSeen

------------------------------------------------------------------------------
(* The stream of each channel *)

\* The publications of a channel.
IssuedOf(c) == {p \in (1..ServerEpoch(c)) \X (1..MaxPublished) : p[2] <= tops[c][p[1]]}

\* What is published is in the set the stream has.
LEMMA IssuedFacts ==
  ASSUME SideTypes, NEW c \in Channels, NEW p \in Places, Issued(c, p)
  PROVE  p \in IssuedOf(c)
<1>1. p[1] \in Nat /\ p[2] \in Nat /\ p = <<p[1], p[2]>>
  BY PlacesFacts
<1>2. p[1] \in 1..Len(tops[c]) /\ p[2] \in 1..tops[c][p[1]] /\ ServerEpoch(c) = Len(tops[c])
  BY DEF Issued, ServerEpoch
<1>3. tops[c][p[1]] \in 0..MaxPublished /\ MaxPublished \in Nat
  BY <1>2, StreamFacts DEF SideTypes
<1>4. p[2] \in 1..MaxPublished /\ p[2] <= tops[c][p[1]]
  BY <1>1, <1>2, <1>3
<1>5. p \in (1..ServerEpoch(c)) \X (1..MaxPublished)
  BY <1>1, <1>2, <1>4
<1>6. QED
  BY <1>4, <1>5 DEF IssuedOf

\* Only Publish and Reset change what is published, and nothing of the application.
LEMMA TopsCases ==
  ASSUME [Next]_vars
  PROVE  \/ tops' = tops
         \/ UNCHANGED <<seen, reloads>> /\ \E d \in Channels : Publish(d) \/ Reset(d)
<1>1. CASE Ends \/ Open \/ Take \/ Runs \/ Idles
  BY <1>1, EndFacts, RunFrame DEF Idles, SideSame, Open, Take, server
<1>2. CASE \E h \in held : Handles(h)
  BY <1>2, HandledFrame
<1>3. CASE Connect \/ Close \/ ReportClosed \/ Invalidated
          \/ \E n \in Nat : InvalidateConnectionState(n)
  BY <1>3 DEF Connect, Close, ReportClosed, Invalidated, InvalidateConnectionState, server
<1>4. CASE \E d \in Channels : Publishes(d) \/ Reset(d)
  BY <1>4 DEF Publishes, Publish, ServerSubscribes, ServerUnsubscribes, Reset, application
<1>5. QED
  BY <1>1, <1>2, <1>3, <1>4, SideCases

\* At most one publication is published in a step, and none is taken back.
LEMMA IssuedChanges ==
  ASSUME SideTypes, [Next]_vars, NEW c \in Channels
  PROVE  \/ IssuedOf(c)' = IssuedOf(c)
         \/ /\ UNCHANGED <<seen, reloads>>
            /\ \E p \in IssuedOf(c)' \ IssuedOf(c) : IssuedOf(c)' = IssuedOf(c) \cup {p}
<1> DEFINE t == tops[c]
           u == tops'[c]
           E(w) == {p \in (1..Len(w)) \X (1..MaxPublished) : p[2] <= w[p[1]]}
<1>1. /\ tops \in [Channels -> Seq(0..MaxPublished)] /\ MaxPublished \in Nat
             /\ 0 \in 0..MaxPublished
      /\ t \in Seq(0..MaxPublished) /\ Len(t) \in Nat \ {0}
             /\ \A i \in 1..Len(t) : t[i] \in 0..MaxPublished
      /\ ServerEpoch(c) = Len(t) /\ Top(c) = t[Len(t)] /\ Top(c) \in Nat
  BY StreamFacts DEF SideTypes, StreamTypes, ServerEpoch, Top
<1>2. IssuedOf(c) = E(t) /\ IssuedOf(c)' = E(u)
  BY DEF IssuedOf, ServerEpoch
<1>3. CASE u = t
  BY <1>2, <1>3
<1>4. CASE Publish(c)
  <2> DEFINE n == Len(t)
             k == Top(c)
             id == <<n, k + 1>>
  <2>1. k < MaxPublished /\ UNCHANGED <<seen, reloads>> /\ u = [t EXCEPT ![n] = k + 1]
    BY <1>1, <1>4 DEF Publish, application
  <2>2. n \in Nat \ {0} /\ k \in Nat /\ k < MaxPublished
    BY <1>1, <2>1
  <2>3. t[n] = k
    BY <1>1
  <2> HIDE DEF n, k, t, u
  <2>4. Len(t) = n /\ t \in Seq(0..MaxPublished)
    BY <1>1 DEF n
  <2>5. Len(u) = n /\ u[n] = k + 1 /\ \A e \in 1..n : e # n => u[e] = t[e]
    BY <2>1, <2>2, <2>4
  <2>6. id \in E(u) /\ id \notin E(t)
    BY <1>1, <2>2, <2>3, <2>4, <2>5
  <2>7. ASSUME NEW p \in (1..n) \X (1..MaxPublished)
        PROVE  p[2] <= u[p[1]] <=> p[2] <= t[p[1]] \/ p = id
    <3>1. CASE p[1] = n
      BY <2>2, <2>3, <2>5, <2>7, <3>1
    <3>2. CASE p[1] # n
      BY <2>2, <2>5, <2>7, <3>2
    <3>3. QED
      BY <3>1, <3>2
  <2>8. E(u) = E(t) \cup {id}
    <3> HIDE DEF id
    <3>1. id \in (1..n) \X (1..MaxPublished)
      BY <1>1, <2>2 DEF id
    <3>2. QED
      BY <2>4, <2>5, <2>7, <3>1
  <2> HIDE DEF id, E
  <2>9. QED
    BY <1>2, <2>1, <2>6, <2>8
<1>5. CASE Reset(c)
  <2>1. u = Append(t, 0)
    BY <1>1, <1>5 DEF Reset
  <2> HIDE DEF t, u
  <2> DEFINE n == Len(t)
             z == 0
  <2>2. t \in Seq(0..MaxPublished) /\ z \in 0..MaxPublished /\ u = Append(t, z)
    BY <1>1, <2>1
  <2> HIDE DEF z
  <2>3. Len(u) = n + 1 /\ u[n + 1] = z /\ n \in Nat /\ \A e \in 1..n : u[e] = t[e]
    BY <2>2, AppendFacts
  <2> HIDE DEF n
  <2>4. \A p \in (1..n + 1) \X (1..MaxPublished) :
          p[2] <= u[p[1]] <=> p \in (1..n) \X (1..MaxPublished) /\ p[2] <= t[p[1]]
    BY <1>1, <2>3 DEF z
  <2>5. (1..n) \X (1..MaxPublished) \subseteq (1..n + 1) \X (1..MaxPublished)
    BY <2>3
  <2>6. E(u) = E(t)
    BY <2>3, <2>4, <2>5 DEF n
  <2> HIDE DEF E
  <2>7. QED
    BY <1>2, <2>6
<1>6. CASE \E d \in Channels : d # c /\ (Publish(d) \/ Reset(d))
  <2>1. u = t
    BY <1>1, <1>6 DEF Publish, Reset
  <2>2. QED
    BY <1>3, <2>1
<1>7. CASE tops' = tops
  BY <1>3, <1>7
<1>8. QED
  BY <1>4, <1>5, <1>6, <1>7, TopsCases

\* The application is handed the publication after the last it has, or told to reload.
LEMMA SideApplication ==
  ASSUME SideTypes, SideSent, SideOrder, [Next]_vars, ~strayed, NEW c \in Channels, SeenAt(c)
  PROVE  \/ seen'[c] = seen[c] /\ reloads'[c] = reloads[c]
         \/ /\ tops' = tops
            /\ \/ reloads'[c] = reloads[c] + 1 /\ seen'[c] \in Nat \X Nat
               \/ /\ reloads'[c] = reloads[c]
                  /\ \E p \in IssuedOf(c) : (seen[c] = Unknown \/ p = Following(seen[c]))
                         /\ seen'[c] = p
<1>1. PICK s \in View, v \in Places : SeenThrough(c, s, v)
  BY DEF SeenAt
<1>2. CASE ~Runs
  <2>1. UNCHANGED <<seen, reloads>>
    <3>1. CASE \E h \in held : Handles(h)
      BY <3>1, HandledFrame
    <3>2. CASE Connect \/ Ends \/ Close \/ ReportClosed \/ Open \/ Take \/ Invalidated
      BY <3>2, EndFacts
         DEF Connect, Close, ReportClosed, Open, Take, Invalidated, application
    <3>3. CASE Idles \/ \E n \in Nat : InvalidateConnectionState(n)
      BY <3>3 DEF Idles, SideSame, InvalidateConnectionState, application
    <3>4. CASE \E d \in Channels : Publishes(d) \/ Reset(d)
      BY <3>4
         DEF Publishes, Publish, ServerSubscribes, ServerUnsubscribes, Reset, application
    <3>5. QED
      BY <1>2, <3>1, <3>2, <3>3, <3>4, SideCases
  <2>2. QED
    BY <2>1
<1>3. CASE Runs
  <2>1. /\ queue # <<>> /\ Head(queue) = queue[1] /\ queue[1] \in SideEvents
               /\ 1 \in 1..Len(queue)
        /\ Shaped(queue[1], connectAttempt) /\ queue \in Seq(SideEvents) /\ tops' = tops
        /\ seen \in [Channels -> Places] /\ reloads \in [Channels -> Nat]
    BY <1>3, RunFrame, FirstEvent DEF SideTypes, ToldTypes
  <2>2. PICK b \in Places : SeenMove(c, queue[1], seen[c], b)
    <3>1. PICK b \in Places : <<queue[1], seen[c], b>> \in SeenMoves(c)
      BY <1>1, <2>1, PathTail DEF SeenThrough
    <3>2. QED
      BY <3>1, SeenMovesFacts
  <2>3. CASE RunNotice
    BY <2>3 DEF RunNotice
  <2>4. CASE RunSubscribed
    <3>1. PICK d \in queue[1].channels :
            IF queue[1].kind = "recovered" THEN UNCHANGED <<seen, reloads>>
            ELSE /\ seen' = [seen EXCEPT ![d] = queue[1].position]
                 /\ reloads' = [reloads EXCEPT ![d] = @ + 1]
      BY <2>1, <2>4 DEF RunSubscribed
    <3>2. queue[1].position \in Nat \X Nat
      BY <2>1, SideEventFields, PlacesFacts
    <3>3. QED
      BY <2>1, <3>1, <3>2
  <2>5. CASE RunPublication
    <3>1. queue[1].kind = "publication"
      BY <2>1, <2>5 DEF RunPublication
    <3>2. PICK d \in queue[1].channels :
            /\ seen' = [seen EXCEPT ![d] = IF queue[1].stale THEN Unknown ELSE queue[1].pubs[1]]
            /\ reloads' = IF queue[1].stale THEN [reloads EXCEPT ![d] = @ + 1] ELSE reloads
      BY <2>1, <2>5 DEF RunPublication
    <3>3. CASE d # c
      BY <2>1, <3>2, <3>3
    <3>4. CASE d = c
      <4>1. /\ ~queue[1].stale /\ b = queue[1].pubs[1]
            /\ seen[c] = Unknown \/ b = Following(seen[c])
        BY <2>2, <3>1, <3>2, <3>4 DEF SeenMove
      <4>2. seen'[c] = b /\ reloads' = reloads
        BY <2>1, <3>2, <3>4, <4>1
      <4>3. Issued(c, b)
        <5>1. EntryRight(queue[1]) /\ Len(queue[1].pubs) = 1
          BY <2>1, <3>1 DEF SideSent, QueueRight, Shaped
        <5>2. 1 \in 1..Len(queue[1].pubs)
          BY <5>1
        <5>3. QED
          BY <3>1, <3>2, <3>4, <4>1, <5>1, <5>2 DEF EntryRight
      <4>4. b \in IssuedOf(c)
        BY <4>3, IssuedFacts
      <4>5. QED
        BY <2>1, <4>1, <4>2, <4>4
    <3>5. QED
      BY <3>3, <3>4
  <2>6. CASE RunRecovered
    <3>1. CASE MayDeliver(c, queue[1].reader) /\ c \in queue[1].channels
      <4>1. PICK q, a : Delivers(c, q, a, s, v)
        BY <1>1, <2>6, <3>1, DeliveredFacts
      <4>2. /\ v = seen[c] /\ DeliversTo(c, q, s, v) /\ a = q[1] /\ a \in Places /\ Issued(c, a)
            /\ seen' = [seen EXCEPT ![c] = a] /\ reloads' = reloads
        BY <4>1 DEF Delivers
      <4>3. a \in IssuedOf(c) /\ (seen[c] = Unknown \/ a = Following(seen[c])) /\ seen'[c] = a
        BY <2>1, <4>2, IssuedFacts DEF DeliversTo
      <4>4. QED
        BY <2>1, <4>2, <4>3
    <3>2. CASE ~(MayDeliver(c, queue[1].reader) /\ c \in queue[1].channels)
      <4>1. PICK d \in Channels :
              /\ queue[1].channels = {d} /\ reloads' = reloads
              /\ \/ MayDeliver(d, queue[1].reader)
                        /\ seen' = [seen EXCEPT ![d] = queue[1].pubs[1]]
                 \/ seen' = seen
        BY <2>6, RecoveredFacts
      <4>2. QED
        BY <2>1, <3>2, <4>1
    <3>3. QED
      BY <3>1, <3>2
  <2>7. QED
    BY <1>3, <2>3, <2>4, <2>5, <2>6 DEF Runs
<1>4. QED
  BY <1>2, <1>3

\* Every step is a step of the channel's stream, or changes nothing of it.
LEMMA SideStreamStep ==
  ASSUME SideTypes, SideSent, SideOrder, [Next]_vars, ~strayed, NEW c \in Channels, SeenAt(c)
  PROVE  [Promise(c)!Next]_(Promise(c)!vars)
<1> DEFINE P == {p \in (1..ServerEpoch(c)) \X (1..MaxPublished) : p[2] <= tops[c][p[1]]}
<1>1. P = IssuedOf(c) /\ P' = IssuedOf(c)'
  BY DEF IssuedOf
<1>2. tops' = tops => P' = P
  BY DEF ServerEpoch
<1> HIDE DEF P
<1>3. CASE seen'[c] = seen[c] /\ reloads'[c] = reloads[c]
  <2>1. P' = P \/ \E p \in P' \ P : P' = P \cup {p}
    BY <1>1, IssuedChanges
  <2>2. CASE P' = P
    BY <1>3, <2>2 DEF Promise!vars, P
  <2>3. CASE \E p \in P' \ P : P' = P \cup {p}
    BY <1>3, <2>3 DEF Promise!Next, Promise!Publish, P
  <2>4. QED
    BY <2>1, <2>2, <2>3
<1>4. CASE tops' = tops /\ reloads'[c] = reloads[c] + 1 /\ seen'[c] \in Nat \X Nat
  BY <1>2, <1>4 DEF Promise!Next, Promise!Reload, P
<1>5. CASE /\ tops' = tops /\ reloads'[c] = reloads[c]
           /\ \E p \in IssuedOf(c) : (seen[c] = Unknown \/ p = Following(seen[c]))
                  /\ seen'[c] = p
  <2>1. PICK p \in P : (seen[c] = Unknown \/ p = Following(seen[c])) /\ seen'[c] = p
    BY <1>1, <1>5
  <2>2. Promise(c)!Deliver(p)
    BY <1>2, <1>5, <2>1
       DEF Promise!Deliver, Promise!Unknown, Promise!Following, Unknown, Following, P
  <2>3. QED
    BY <2>1, <2>2 DEF Promise!Next, P
<1>6. QED
  BY <1>3, <1>4, <1>5, SideApplication

\* At first nothing is published and nothing seen.
LEMMA SideStreamInit ==
  ASSUME Init, NEW c \in Channels
  PROVE  Promise(c)!Init
<1>1. tops[c] = <<0>> /\ seen[c] = Unknown /\ reloads[c] = 0
  BY DEF Init
<1>2. ServerEpoch(c) = 1 /\ \A e \in 1..1 : tops[c][e] = 0
  BY <1>1 DEF ServerEpoch
<1>3. {p \in (1..ServerEpoch(c)) \X (1..MaxPublished) : p[2] <= tops[c][p[1]]} = {}
  BY <1>2
<1>4. QED
  BY <1>1, <1>3 DEF Promise!Init, Promise!Unknown, Unknown

------------------------------------------------------------------------------
(* The inductive invariant *)

\* The inductive invariant.
SideInv ==
  /\ SideTypes /\ SideReader /\ SideOpen /\ SideFlow /\ SideTold
  /\ SideSent /\ SideOrder /\ SideSeen

\* The initial states satisfy SideInv.
LEMMA SideInit ==
  ASSUME MaxPublished \in Nat, Init
  PROVE  SideInv
<1>1. SideTypes
  <2>1. StreamTypes
    <3>1. tops = [c \in Channels |-> <<0>>] /\ floor = [c \in Channels |-> 0]
              /\ serverSide = Channels
      BY DEF Init
    <3> DEFINE z == <<0>>
    <3>2. z \in Seq(0..MaxPublished) /\ z # <<>>
      OBVIOUS
    <3> HIDE DEF z
    <3>3. tops = [c \in Channels |-> z]
      BY <3>1 DEF z
    <3>4. QED
      BY <3>1, <3>2, <3>3 DEF StreamTypes
  <2>2. SessionTypes /\ WireTypes
    <3>1. SessionTypes
      <4>1. serverUp \in BOOLEAN /\ ~serverUp
        BY Zenon DEF Init
      <4>2. QED
        BY <4>1 DEF Init, SessionTypes, Linked
    <3>2. WireTypes
      BY DEF Init, WireTypes, Linked
    <3>3. QED
      BY <3>1, <3>2
  <2>3. SubTypes
    <3>1. serverSubs = <<>> /\ leaving = {}
      BY DEF Init
    <3>2. DOMAIN <<>> = {}
      OBVIOUS
    <3>3. QED
      BY <3>1, <3>2 DEF SubTypes
  <2>4. SideQueueTypes
    BY DEF Init, SideQueueTypes
  <2>5. ToldTypes /\ PastTypes
    <3>1. ToldTypes
      BY PlacesFacts DEF Init, ToldTypes, Notices
    <3>2. PastTypes
      BY Zenon DEF Init, PastTypes
    <3>3. QED
      BY <3>1, <3>2
  <2>6. QED
    BY <2>1, <2>2, <2>3, <2>4, <2>5 DEF SideTypes
<1>2. SideReader /\ SideOpen
  BY DEF Init, SideReader, SideOpen, Linked
<1>3. SideFlow
  BY ViewFacts DEF Init, SideFlow, FlowAt, Linked
<1>4. SideTold
  <2>1. ASSUME NEW c \in Channels PROVE ToldAt(c)
    <3>1. told[c] = "unsubscribed" /\ queue = <<>> /\ state = "disconnected"
      BY DEF Init
    <3>2. "unsubscribed" \in Notices /\ ToldEnd(c, "unsubscribed")
      BY <3>1 DEF Notices, ToldEnd
    <3>3. Path("unsubscribed", "unsubscribed", <<>>, Notices, ToldMoves(c))
      BY <3>2, PathEmpty
    <3>4. ToldThrough(c, "unsubscribed")
      BY <3>1, <3>2, <3>3 DEF ToldThrough
    <3>5. QED
      BY <3>2, <3>4 DEF ToldAt
  <2>2. QED
    BY <2>1 DEF SideTold
<1>5. SideSent /\ SideOrder /\ SideSeen
  BY SeenInit
<1>6. QED
  BY <1>1, <1>2, <1>3, <1>4, <1>5 DEF SideInv

\* Every step keeps SideInv.
LEMMA SideStep ==
  ASSUME SideInv, [Next]_vars
  PROVE  SideInv'
BY SideTypesStep, SideReaderStep, SideOpenStep, SideFlowStep, SideToldStep, SideSentStep,
   SideOrderStep, SideSeenStep
   DEF SideInv

\* SideInv holds in every reachable state.
THEOREM ServerSubsInvariant ==
  ASSUME MaxPublished \in Nat PROVE Spec => []SideInv
<1>1. Init => SideInv
  BY SideInit
<1>2. SideInv /\ [Next]_vars => SideInv'
  BY SideStep
<1>3. QED
  BY <1>1, <1>2, PTL DEF Spec

\* When everything that was received has been handled and everything sent was received, the
\* client has the subscriptions the server has (storeServerSubs and the pushes in client.go).
THEOREM ClientAgrees ==
  ASSUME MaxPublished \in Nat PROVE Spec => []AgreesWithServer
<1>1. SideInv => AgreesWithServer
  BY FlowAgrees DEF SideInv
<1>2. Spec => []SideInv
  BY ServerSubsInvariant
<1>3. QED
  BY <1>1, <1>2, PTL

\* Once every event has run, the application was last told subscribed of exactly the
\* subscriptions of a connected client (the server-side handlers in client.go).
THEOREM ApplicationAgrees ==
  ASSUME MaxPublished \in Nat PROVE Spec => []ToldWhatIs
<1>1. SideInv => ToldWhatIs
  BY ToldAgrees DEF SideInv
<1>2. Spec => []SideInv
  BY ServerSubsInvariant
<1>3. QED
  BY <1>1, <1>2, PTL

\* Once every event has run, a position the server recovers from is where the application
\* is: publications recovered and not delivered are recovered again (the positions a
\* connect command of client.go has).
THEOREM RecoversFromTheSeen ==
  ASSUME MaxPublished \in Nat PROVE Spec => []RecoversFromWhatWasSeen
<1>1. SideInv => RecoversFromWhatWasSeen
  BY SeenRecovers DEF SideInv
<1>2. Spec => []SideInv
  BY ServerSubsInvariant
<1>3. QED
  BY <1>1, <1>2, PTL

\* Server-side subscriptions implement the stream of every channel: publications come in
\* the order of the server, none twice and none left out, unless the application was told
\* (the publication handlers of server-side subscriptions in client.go).
THEOREM FollowsStreams ==
  ASSUME MaxPublished \in Nat, Recoverable \subseteq Channels PROVE Spec => StreamSpec
<1>1. Init => \A c \in Recoverable : Promise(c)!Init
  BY SideStreamInit
<1>2. SideInv /\ [Next]_vars =>
        [strayed' \/ late \/ \A c \in Recoverable : [Promise(c)!Next]_(Promise(c)!vars)]_vars
  <2>1. SUFFICES ASSUME SideInv, [Next]_vars, ~strayed', ~late, NEW c \in Recoverable
                 PROVE  [Promise(c)!Next]_(Promise(c)!vars)
    OBVIOUS
  <2>2. SideTypes /\ SideSent /\ SideOrder /\ SideSeen /\ c \in Channels
    BY <2>1 DEF SideInv
  <2>3. ~strayed
    BY <2>1, <2>2, StraysForever
  <2>4. SeenAt(c)
    BY <2>1, <2>2, <2>3 DEF SideSeen
  <2>5. QED
    BY <2>1, <2>2, <2>3, <2>4, SideStreamStep
<1>3. Spec => []SideInv
  BY ServerSubsInvariant
<1>4. QED
  BY <1>1, <1>2, <1>3, PTL DEF Spec, StreamSpec
==============================================================================
