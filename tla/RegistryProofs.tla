--------------------------- MODULE RegistryProofs ---------------------------
(***************************************************************************)
(* Proofs about Registry, for any sets of channels, subscriptions and ids  *)
(* and any bounds: no push gets to the subscription of another channel,    *)
(* the id of a subscribed channel leads to its subscription, and an active *)
(* subscription is the registered one.                                     *)
(*                                                                         *)
(* What the client knows lags behind what the server knows by the messages *)
(* in between, so the invariant reads the current session as one stream:   *)
(* position -1 is what subscriptions have registered or are about to       *)
(* (Owns), 0 the message a reader holds, 1 and up the wire.  A position    *)
(* grants an id to a subscription (a reply not superseded), uses the id of *)
(* a channel (a push), or withdraws it (an unsubscribe push).  Log says    *)
(* that grants agree with what the server has (GrantsHold), and that two   *)
(* channels use one id only with a withdrawal in between (IdsDisjoint).    *)
(* A push at position 0 has nothing before it but what is registered, so   *)
(* its lookup finds the right subscription (TargetRight), and a push       *)
(* cannot overtake the one that withdraws its id.                          *)
(*                                                                         *)
(* Log holds only within a session: clearConnectedState forgets the ids,   *)
(* and the sweep leaves no subscription subscribed (SweptInv), so that a   *)
(* new session starts with an empty stream (LogBegins).  The lemmas        *)
(* LogShrinks to LogGetsGrant are about changes of the stream alone; one   *)
(* lemma per action of the model reduces it to one of them.                *)
(***************************************************************************)
EXTENDS Registry, Integers, TLAPS

\* Ids in messages; 0 stands for a push that carries the channel itself.
PushIds == Ids \cup {0}

\* Messages: replies to subscribe commands, publications, unsubscribe pushes.
Reply == [type : {"reply"}, sub : Subs, id : PushIds, attempt : Nat, generation : Nat]
Pub == [type : {"pub"}, channel : Channels, id : PushIds]
UnsubscribePush ==
  [type : {"unsubscribe"}, channel : Channels, id : PushIds, invalidated : BOOLEAN]
Message == Reply \cup Pub \cup UnsubscribePush

\* A message a reader took, the connection it came on, and what its lookup found.
HeldMessage == [connection : Nat, msg : Message, found : Subs \cup {"no", "current"}]

\* The type invariant, with the types of the messages.
Types == TypeOK /\ held \subseteq HeldMessage /\ wire \in Seq(Message)

\* The fields that messages of each type have.
LEMMA MessageShape ==
  ASSUME NEW m \in Message
  PROVE  /\ m.type \in {"reply", "pub", "unsubscribe"} /\ m.id \in PushIds
         /\ m.type = "reply" => m.sub \in Subs /\ m.attempt \in Nat /\ m.generation \in Nat
         /\ m.type # "reply" => m.channel \in Channels
         /\ m.type = "unsubscribe" => m.invalidated \in BOOLEAN
BY DEF Message, Reply, Pub, UnsubscribePush

\* What comes on the connection is a message.
LEMMA WireShape ==
  ASSUME Types, NEW n \in 1..Len(wire)
  PROVE  /\ wire[n] \in Message
         /\ wire[n].type \in {"reply", "pub", "unsubscribe"} /\ wire[n].id \in PushIds
         /\ wire[n].type = "reply" => wire[n].sub \in Subs /\ wire[n].attempt \in Nat
         /\ wire[n].type # "reply" => wire[n].channel \in Channels
<1>1. wire[n] \in Message
  BY DEF Types
<1>2. QED
  BY <1>1, MessageShape

\* A held message after its lookup, or after its reply was taken as current.
Found(h, f) == [h EXCEPT !.found = f]

\* What does not change then.
FoundShape(h, f) ==
  /\ Found(h, f) \in HeldMessage
  /\ Found(h, f).connection = h.connection
  /\ Found(h, f).msg = h.msg
  /\ Found(h, f).found = f

\* What a reader holds is a message, and stays one when its lookup is done.
LEMMA HeldShape ==
  ASSUME NEW h \in HeldMessage, NEW f \in Subs \cup {"no", "current"}
  PROVE  /\ h.connection \in Nat /\ h.msg \in Message /\ h.found \in Subs \cup {"no", "current"}
         /\ FoundShape(h, f)
BY DEF HeldMessage, Found, FoundShape

\* What ApplyReply does.
ApplyReplyEffect(h) ==
  /\ FoundShape(h, "current")
  /\ h.msg.type = "reply" /\ h.found = "no" /\ h.msg.sub \in Subs
  /\ h.msg.sub \notin applying
  /\ h.msg.generation = connGeneration => inflight' = [inflight EXCEPT ![h.msg.sub] = FALSE]
  /\ h.msg.generation # connGeneration => inflight' = inflight
  /\ CurrentReply(h.msg.sub, h.msg) =>
       /\ state' = [state EXCEPT ![h.msg.sub] = "subscribed"]
       /\ applying' = applying \cup {h.msg.sub}
       /\ held' = (held \ {h}) \cup {Found(h, "current")}
  /\ ~CurrentReply(h.msg.sub, h.msg) => held' = held \ {h} /\ UNCHANGED <<state, applying>>
  /\ UNCHANGED <<phase, connGeneration, subs, subsByID, created, subscribeAttempt, pushID,
                 checked, serverIDs, wire, misrouted, raced>>

\* moveToSubscribed changes inflight, state and s.mu as ApplyReplyEffect says.
LEMMA ApplyReplyStep ==
  ASSUME Types, NEW h \in held, ApplyReply(h)
  PROVE  ApplyReplyEffect(h)
<1>1. /\ h.msg.type = "reply" /\ h.found = "no" /\ h.msg.sub \notin applying
      /\ h.msg.generation = connGeneration => inflight' = [inflight EXCEPT ![h.msg.sub] = FALSE]
      /\ h.msg.generation # connGeneration => inflight' = inflight
  BY DEF ApplyReply, LockFree
<1>2. CurrentReply(h.msg.sub, h.msg) =>
         /\ state' = [state EXCEPT ![h.msg.sub] = "subscribed"]
         /\ applying' = applying \cup {h.msg.sub}
         /\ held' = (held \ {h}) \cup {Found(h, "current")}
  BY DEF ApplyReply, Found
<1>3. ~CurrentReply(h.msg.sub, h.msg) => held' = held \ {h} /\ UNCHANGED <<state, applying>>
  BY DEF ApplyReply
<1>4. UNCHANGED <<phase, connGeneration, subs, subsByID, created, subscribeAttempt, pushID,
                  checked, serverIDs, wire, misrouted, raced>>
  BY DEF ApplyReply, registries, serverVars, history
<1>5. h.msg.sub \in Subs
  BY <1>1, HeldShape, MessageShape DEF Types
<1>6. FoundShape(h, "current")
  BY HeldShape DEF Types
<1>7. QED
  BY <1>6, <1>1, <1>2, <1>3, <1>4, <1>5 DEF ApplyReplyEffect

\* What Lookup finds.
Target(m) == IF m.id # 0 THEN subsByID[m.id] ELSE subs[m.channel]

\* What Lookup does.
LookupEffect(h) ==
  /\ Target(h.msg) # NoSub => FoundShape(h, Target(h.msg))
  /\ h.msg.type # "reply" /\ h.found = "no"
  /\ h.msg.id \in PushIds /\ h.msg.channel \in Channels
  /\ Target(h.msg) \in Subs \cup {NoSub}
  /\ Target(h.msg) = NoSub => held' = held \ {h}
  /\ Target(h.msg) # NoSub => held' = (held \ {h}) \cup {Found(h, Target(h.msg))}
  /\ UNCHANGED <<phase, connGeneration, subs, subsByID, created, state, subscribeAttempt,
                 inflight, pushID, applying, checked, serverIDs, wire, misrouted, raced>>

\* handlePush's lookup, by id or by channel, has the effect LookupEffect.
LEMMA LookupStep ==
  ASSUME Types, NEW h \in held, Lookup(h)
  PROVE  LookupEffect(h)
<1>1. h.msg.type # "reply" /\ h.found = "no"
  BY DEF Lookup
<1>2. h.msg.id \in PushIds /\ h.msg.channel \in Channels
  BY <1>1, HeldShape, MessageShape DEF Types
<1>3. Target(h.msg) \in Subs \cup {NoSub}
  BY <1>2 DEF Target, Types, TypeOK, PushIds
<1>4. held' = (held \ {h}) \cup IF Target(h.msg) = NoSub THEN {} ELSE {Found(h, Target(h.msg))}
  BY DEF Lookup, Target, Found
<1>5. UNCHANGED <<phase, connGeneration, subs, subsByID, created, state, subscribeAttempt,
                  inflight, pushID, applying, checked, serverIDs, wire, misrouted, raced>>
  BY DEF Lookup, subscription, registries, serverVars, history
<1>6. Target(h.msg) # NoSub => FoundShape(h, Target(h.msg))
  BY <1>3, HeldShape DEF Types
<1>7. QED
  BY <1>6, <1>1, <1>2, <1>3, <1>4, <1>5 DEF LookupEffect

\* What HandlePush does.
HandlePushEffect(h) ==
  /\ h.found \in Subs /\ h.found \notin applying
  /\ held' = held \ {h}
  /\ h.msg.type = "unsubscribe" /\ state[h.found] # "unsubscribed"
       => state' = [state EXCEPT ![h.found] = "subscribing"]
  /\ ~(h.msg.type = "unsubscribe" /\ state[h.found] # "unsubscribed") => state' = state
  /\ \/ UNCHANGED <<subsByID, pushID>>
     \/ /\ h.msg.type = "unsubscribe" /\ state[h.found] # "unsubscribed"
        /\ subsByID' = UpdatePushID(h.found, pushID[h.found], 0)
        /\ pushID' = [pushID EXCEPT ![h.found] = 0]
  /\ UNCHANGED <<phase, connGeneration, subs, created, subscribeAttempt, inflight, applying,
                 checked, serverIDs, wire, raced>>

\* Handling a push in the subscription found, and an unsubscribe push with invalidation in
\* particular, has the effect HandlePushEffect.
LEMMA HandlePushStep ==
  ASSUME Types, NEW h \in held, HandlePush(h)
  PROVE  HandlePushEffect(h)
<1>1. /\ h.found \in Subs /\ h.found \notin applying /\ held' = held \ {h}
      /\ UNCHANGED <<phase, connGeneration, subs, created, subscribeAttempt, inflight, applying,
                     checked, serverIDs, wire, raced>>
  BY DEF HandlePush, LockFree, serverVars
<1>2. CASE ~(h.msg.type = "unsubscribe" /\ state[h.found] # "unsubscribed")
  BY <1>1, <1>2 DEF HandlePush, HandlePushEffect
<1>3. CASE h.msg.type = "unsubscribe" /\ state[h.found] # "unsubscribed" /\ h.msg.invalidated
  <2>1. /\ state' = [state EXCEPT ![h.found] = "subscribing"]
        /\ subsByID' = UpdatePushID(h.found, pushID[h.found], 0)
        /\ pushID' = [pushID EXCEPT ![h.found] = 0]
    BY <1>3 DEF HandlePush
  <2>2. QED
    BY <1>1, <1>3, <2>1 DEF HandlePushEffect
<1>4. CASE h.msg.type = "unsubscribe" /\ state[h.found] # "unsubscribed" /\ ~h.msg.invalidated
  <2>1. state' = [state EXCEPT ![h.found] = "subscribing"] /\ UNCHANGED <<subsByID, pushID>>
    BY <1>4 DEF HandlePush
  <2>2. QED
    BY <1>1, <1>4, <2>1 DEF HandlePushEffect
<1>5. QED
  BY <1>2, <1>3, <1>4

\* Messages that were looked up stay well formed.
LEMMA HeldTypes ==
  ASSUME held \subseteq HeldMessage, connGeneration \in Nat \ {0},
         \A k \in held : k.connection \in 1..connGeneration,
         NEW h \in held, NEW f \in Subs \cup {"no", "current"},
         held' \subseteq held \cup {Found(h, f)}
  PROVE  /\ held' \subseteq HeldMessage
         /\ \A k \in held' : /\ k.connection \in 1..connGeneration
                            /\ k.found \in Subs \cup {"no", "current"}
<1> DEFINE g == Found(h, f)
<1>1. /\ g \in HeldMessage /\ g.connection = h.connection /\ g.found = f
  BY HeldShape DEF FoundShape
<1>2. \A k \in held : k.found \in Subs \cup {"no", "current"}
  BY HeldShape
<1> HIDE DEF g
<1>3. held' \subseteq held \cup {g}
  BY DEF g
<1>4. QED
  BY <1>1, <1>2, <1>3

\* Every step keeps the types.
LEMMA TypeStep == ASSUME Types, [Next]_vars PROVE Types'
<1> USE RegistryBounds, RegistrySubs, RegistryIds DEF Types, TypeOK, PushIds
<1>1. ASSUME NEW s \in Subs, NewSubscription(s) PROVE Types'
  BY <1>1
     DEF NewSubscription, ApplicationCalls, NoFault, subscription, serverVars, registries,
         history, budget
<1>2. ASSUME NEW s \in Subs, RemoveSubscription(s) PROVE Types'
  <2>1. checked' \subseteq checked /\ raced' \subseteq raced \cup {s}
    BY <1>2 DEF RemoveSubscription
  <2>2. QED
  BY <1>2, <2>1
     DEF RemoveSubscription, ApplicationCalls, NoFault, subscription, serverVars,
         registries, history, budget
<1>3. ASSUME NEW s \in Subs, CheckRemove(s) \/ CheckSubscribe(s) PROVE  Types'
  <2>1. checked' \subseteq {"remove", "subscribe"} \X Subs
    BY <1>3 DEF CheckRemove, CheckSubscribe
  <2>2. QED
    BY <1>3, <2>1
       DEF CheckRemove, CheckSubscribe, ApplicationCalls, subscription, serverVars,
           registries, history, budget
<1>4. ASSUME NEW s \in Subs, Subscribe(s) \/ Sweep(s) PROVE Types'
  BY <1>4
     DEF Subscribe, Sweep, NoFault, subscription, serverVars, registries, history, budget
<1>5. ASSUME NEW s \in Subs, Unsubscribe(s) PROVE Types'
  BY <1>5
     DEF Unsubscribe, MoveToUnsubscribed, UpdatePushID, Forget, ApplicationCalls, history,
         budget
<1>6. ASSUME NEW s \in Subs, Resubscribe(s) PROVE Types'
  BY <1>6 DEF Resubscribe, Message, Reply, NoFault, registries, history, budget
<1>7. ASSUME NEW c \in Channels, ServerPublishes(c) PROVE Types'
  BY <1>7 DEF ServerPublishes, Message, Pub, subscription, registries, history, budget
<1>8. ASSUME NEW c \in Channels, ServerUnsubscribes(c) PROVE Types'
  BY <1>8
     DEF ServerUnsubscribes, Message, UnsubscribePush, Forget, Fault, subscription,
         registries, history, budget
<1>9. ASSUME Take PROVE Types'
  BY <1>9 DEF Take, HeldMessage, NoFault, subscription, registries, history, budget
<1>10. ASSUME NEW h \in held, ApplyReply(h) PROVE Types'
  <2>1. ApplyReplyEffect(h)
    BY <1>10, ApplyReplyStep DEF Types
  <2>2. h.msg.sub \in Subs /\ held' \subseteq held \cup {Found(h, "current")}
    BY <2>1 DEF ApplyReplyEffect
  <2>3. /\ held' \subseteq HeldMessage
        /\ \A k \in held' : /\ k.connection \in 1..connGeneration
                           /\ k.found \in Subs \cup {"no", "current"}
    BY <2>2, HeldTypes
  <2>4. /\ state' \in [Subs -> {"unsubscribed", "subscribing", "subscribed"}]
        /\ inflight' \in [Subs -> BOOLEAN] /\ applying' \subseteq Subs
    BY <2>1, <2>2 DEF ApplyReplyEffect
  <2>5. QED
    BY <1>10, <2>3, <2>4 DEF ApplyReply, NoFault, serverVars, registries, history, budget
<1>11. ASSUME NEW h \in held, RegisterPushID(h) PROVE Types'
  BY <1>11
     DEF RegisterPushID, UpdatePushID, HeldMessage, Message, Reply, Pub, UnsubscribePush,
         NoFault, serverVars, history, budget
<1>12. ASSUME NEW h \in held, Lookup(h) PROVE Types'
  <2>1. LookupEffect(h)
    BY <1>12, LookupStep DEF Types
  <2>2. PICK f \in Subs \cup {"no"} : held' \subseteq held \cup {Found(h, f)}
    BY <2>1 DEF LookupEffect
  <2>3. /\ held' \subseteq HeldMessage
        /\ \A k \in held' : /\ k.connection \in 1..connGeneration
                           /\ k.found \in Subs \cup {"no", "current"}
    BY <2>2, HeldTypes
  <2>4. QED
    BY <1>12, <2>3
       DEF Lookup, NoFault, subscription, serverVars, registries, history, budget
<1>13. ASSUME NEW h \in held, HandlePush(h) PROVE Types'
  <2>1. HandlePushEffect(h)
    BY <1>13, HandlePushStep DEF Types
  <2>2. /\ state' \in [Subs -> {"unsubscribed", "subscribing", "subscribed"}]
        /\ subsByID' \in [Ids -> Subs \cup {NoSub}]
        /\ pushID' \in [Subs -> PushIds]
    <3>1. state' \in [Subs -> {"unsubscribed", "subscribing", "subscribed"}]
      BY <2>1 DEF HandlePushEffect
    <3>2. UpdatePushID(h.found, pushID[h.found], 0) \in [Ids -> Subs \cup {NoSub}]
      BY <2>1 DEF HandlePushEffect, UpdatePushID
    <3>3. QED
      BY <2>1, <3>1, <3>2 DEF HandlePushEffect
  <2>3. held' \subseteq held /\ misrouted' \in BOOLEAN
    BY <1>13, <2>1 DEF HandlePush, HandlePushEffect
  <2>4. QED
    BY <1>13, <2>2, <2>3 DEF HandlePush, NoFault, serverVars, history, budget
<1>14. ASSUME ConnectionEnds PROVE Types'
  BY <1>14 DEF ConnectionEnds, Phases, Fault, registries, history, budget
<1>15. ASSUME DropRegistry \/ EndSweep \/ Reconnect PROVE Types'
  BY <1>15
     DEF DropRegistry, AfterDrop, EndSweep, Reconnect, Phases, NoFault, subscription,
         serverVars, registries, history, budget
<1>16. CASE UNCHANGED vars
  BY <1>16 DEF vars, subscription, serverVars, registries, history, budget
<1>17. QED
  BY <1>1, <1>3, <1>2, <1>4, <1>5, <1>6, <1>7, <1>8, <1>9, <1>10, <1>11, <1>12, <1>13,
     <1>14, <1>15, <1>16 DEF Next

\* A message that the reader of the current connection holds.
IsHead(h) == h.connection = connGeneration

\* Replies belong to the attempt and connection they answer and not to later ones, and
\* each reader handles one message at a time.
MsgInv ==
  /\ \A h \in held :
       /\ h.found = "current" => h.msg.type = "reply"
       /\ h.found \in Subs => h.msg.type # "reply"
       /\ h.connection <= connGeneration
       /\ h.msg.type = "reply" => h.msg.generation = h.connection
       /\ h.msg.type = "reply" => h.msg.attempt <= subscribeAttempt[h.msg.sub]
  /\ \A h, k \in held : h.connection = k.connection => h = k
  /\ \A n \in 1..Len(wire) : wire[n].type = "reply" =>
       /\ wire[n].generation = connGeneration
       /\ wire[n].attempt <= subscribeAttempt[wire[n].sub]

\* Between connections nothing of the current one is under way: clearConnectedState bumped
\* the generation, and the server forgot the session.
QuietInv ==
  phase # "connected" =>
    /\ wire = <<>> /\ \A h \in held : ~IsHead(h)
    /\ \A s \in Subs : ~inflight[s]
    /\ \A c \in Channels : serverIDs[c] = NotSubscribed

\* At most one reply is on its way to a subscription, as resubscribe sends no second
\* command while inflight is set.
InflightInv ==
  /\ \A n \in 1..Len(wire) : wire[n].type = "reply" =>
       /\ inflight[wire[n].sub]
       /\ \A k \in 1..Len(wire) : k # n /\ wire[k].type = "reply" => wire[n].sub # wire[k].sub
       /\ \A h \in held : IsHead(h) /\ h.msg.type = "reply" /\ h.found = "no"
              => h.msg.sub # wire[n].sub
  /\ \A h \in held : IsHead(h) /\ h.msg.type = "reply" /\ h.found = "no" => inflight[h.msg.sub]

\* moveToSubscribed holds s.mu from the check of a reply until the id is registered.
ApplyingInv ==
  /\ \A h \in held :
       h.found = "current" => h.msg.sub \in applying /\ h.msg.generation <= connGeneration
  /\ \A s \in applying :
       state[s] = "subscribed" /\ \E h \in held : h.found = "current" /\ h.msg.sub = s
  /\ \A h, k \in held :
       h.found = "current" /\ k.found = "current" /\ h.msg.sub = k.msg.sub => h = k

\* An entry of the registry by id that leads to a subscription has its pushID.
IdsInv ==
  \A s \in Subs, i \in Ids : subsByID[i] = s => pushID[s] = i

\* The server gives an id to one channel at a time.
UniqueIds ==
  \A c, d \in Channels : serverIDs[c] \in Ids /\ serverIDs[c] = serverIDs[d] => c = d

\* An active subscription is the registered one of its channel, unless it was removed in
\* the middle of Subscribe.
Registration ==
  /\ \A c \in Channels : subs[c] \in Subs => ChannelOf[subs[c]] = c
  /\ ActiveIsRegistered
  /\ \A s \in Subs \ raced : <<"subscribe", s>> \in checked => subs[ChannelOf[s]] = s

\* The teardown moved every subscription out of subscribed, and waits for s.mu of those
\* that apply a reply.
SweptInv ==
  raced = {} =>
    /\ phase = "connecting" => applying = {} /\ \A s \in Subs : state[s] # "subscribed"
    /\ phase = "connected" => \A h \in held : h.found = "current" => IsHead(h)

\* The subscription has the id registered, or is about to register it.
Owns(s, i) ==
  /\ state[s] = "subscribed"
  /\ IF s \in applying
     THEN \E h \in held : h.found = "current" /\ h.msg.sub = s /\ h.msg.id = i
     ELSE pushID[s] = i

\* The message at a position of the stream.
Arriving(n) ==
  IF n = 0 THEN {h.msg : h \in {x \in held : IsHead(x) /\ x.found # "current"}}
  ELSE IF n \in 1..Len(wire) THEN {wire[n]} ELSE {}

\* What a position grants, uses and withdraws.
Granted(n, s, i) ==
  \/ n = -1 /\ Owns(s, i)
  \/ \E m \in Arriving(n) :
       m.type = "reply" /\ m.sub = s /\ m.id = i /\ m.attempt = subscribeAttempt[s]
Used(n, c, i) == \E m \in Arriving(n) : m.type # "reply" /\ m.channel = c /\ m.id = i
Withdrawn(n, c, i) == \E m \in Arriving(n) : m.type = "unsubscribe" /\ m.channel = c /\ m.id = i

\* A withdrawal of the channel's id strictly between two positions.
Between(n, k, c) == \E l \in Int, j \in PushIds : n < l /\ l < k /\ Withdrawn(l, c, j)

\* A grant is the only one of its subscription, and the server has the same id for the
\* channel or a withdrawal is on its way.
GrantHolds(n, s, i) ==
  /\ \/ serverIDs[ChannelOf[s]] = i
     \/ /\ serverIDs[ChannelOf[s]] = NotSubscribed
        /\ \E k \in Int, j \in PushIds : n < k /\ Withdrawn(k, ChannelOf[s], j)
  /\ n # -1 => state[s] = "subscribing"
  /\ \A k \in Int, j \in PushIds :
       /\ Granted(k, s, j) => k = n /\ i = j
       /\ n < k /\ Withdrawn(k, ChannelOf[s], j) => j = i

\* Every grant of the stream agrees with the server.
GrantsHold == \A n \in Int, s \in Subs, i \in PushIds : Granted(n, s, i) => GrantHolds(n, s, i)

\* A later use or grant of an id for another channel comes after the withdrawal of the
\* earlier grant.
IdsDisjoint ==
  \A n, k \in Int, s \in Subs, i \in Ids : Granted(n, s, i) =>
    /\ \A c \in Channels :
         n < k /\ Used(k, c, i) /\ c # ChannelOf[s] => Between(n, k, ChannelOf[s])
    /\ \A t \in Subs :
         t # s /\ n <= k /\ Granted(k, t, i) => n < k /\ Between(n, k, ChannelOf[s])

\* The registered id of a subscribed channel leads to its subscription.
Routed ==
  \A s \in Subs, i \in Ids :
     state[s] = "subscribed" /\ s \notin applying /\ pushID[s] = i => subsByID[i] = s

\* A lookup found a subscription of the channel, or one that will ignore the push; an
\* unsubscribe push found the one that is subscribed.
FoundRight(m, f) ==
  /\ ChannelOf[f] # m.channel => state[f] # "subscribed"
  /\ m.type = "unsubscribe" =>
       \A s \in Subs : state[s] = "subscribed" /\ ChannelOf[s] = m.channel => f = s

\* What readers found is right until they hand it over.
FoundInv == \A h \in held : IsHead(h) /\ h.found \in Subs => FoundRight(h.msg, h.found)

\* The invariant of a session.
Log == GrantsHold /\ IdsDisjoint

\* Within a session, Log holds and so do the registry by id and the lookups.
LogInv == raced = {} /\ phase = "connected" => Log /\ Routed /\ FoundInv

\* Every step keeps MsgInv: attempts and generations only grow.
LEMMA MsgStep == ASSUME Types, MsgInv, [Next]_vars PROVE MsgInv'
<1> USE DEF MsgInv
<1>1. ASSUME NEW s \in Subs, Unsubscribe(s) PROVE MsgInv'
  BY <1>1, HeldShape, MessageShape DEF Unsubscribe, MoveToUnsubscribed, Types, TypeOK
<1>2. ASSUME NEW s \in Subs, Resubscribe(s) PROVE MsgInv'
  BY <1>2 DEF Resubscribe, Types, TypeOK
<1>3. ASSUME NEW c \in Channels, ServerPublishes(c) PROVE MsgInv'
  BY <1>3 DEF ServerPublishes, Types, subscription
<1>4. ASSUME NEW c \in Channels, ServerUnsubscribes(c) PROVE MsgInv'
  BY <1>4 DEF ServerUnsubscribes, Types, subscription
<1>5. ASSUME Take PROVE MsgInv'
  BY <1>5, RegistrySubs DEF Take, Types, TypeOK, subscription
<1>6. ASSUME NEW h \in held, ApplyReply(h) PROVE MsgInv'
  <2>1. ApplyReplyEffect(h)
    BY <1>6, ApplyReplyStep
  <2>2. QED
    BY <2>1, RegistrySubs DEF ApplyReplyEffect, FoundShape, Types, TypeOK
<1>7. ASSUME NEW h \in held, RegisterPushID(h) \/ HandlePush(h) PROVE MsgInv'
  BY <1>7 DEF RegisterPushID, HandlePush, serverVars
<1>8. ASSUME NEW h \in held, Lookup(h) PROVE MsgInv'
  <2>1. LookupEffect(h)
    BY <1>8, LookupStep
  <2>2. QED
    BY <2>1, RegistrySubs DEF LookupEffect, FoundShape, Types, TypeOK
<1>9. ASSUME ConnectionEnds PROVE MsgInv'
  BY <1>9 DEF ConnectionEnds, Types, TypeOK
<1>10. CASE UNCHANGED <<held, wire, connGeneration, subscribeAttempt>>
  BY <1>10
<1>11. QED
  BY <1>1, <1>2, <1>3, <1>4, <1>5, <1>6, <1>7, <1>8, <1>9, <1>10
     DEF Next, NewSubscription, CheckRemove, RemoveSubscription, CheckSubscribe,
         Subscribe, Sweep, DropRegistry, EndSweep, Reconnect, vars, serverVars,
         subscription

\* Every step keeps QuietInv: commands and pushes go to a connected client only.
LEMMA QuietStep == ASSUME Types, MsgInv, QuietInv, [Next]_vars PROVE QuietInv'
<1> USE DEF QuietInv
<1>1. ASSUME Types, NEW h \in held, ApplyReply(h) PROVE QuietInv'
  <2>1. ApplyReplyEffect(h)
    BY <1>1, ApplyReplyStep
  <2>2. QED
    <3>1. \A k \in held' : \E g \in held : k.connection = g.connection
      BY <2>1 DEF ApplyReplyEffect, FoundShape
    <3>2. \A s \in Subs : ~inflight[s] => ~inflight'[s]
      BY <2>1 DEF ApplyReplyEffect, Types, TypeOK
    <3>3. QED
      BY <2>1, <3>1, <3>2 DEF ApplyReplyEffect, IsHead
<1>2. ASSUME NEW h \in held, Lookup(h) PROVE QuietInv'
  <2>1. LookupEffect(h)
    BY <1>2, LookupStep
  <2>2. QED
    BY <2>1 DEF LookupEffect, FoundShape, IsHead
<1>3. ASSUME NEW h \in held, RegisterPushID(h) \/ HandlePush(h) PROVE QuietInv'
  BY <1>3 DEF RegisterPushID, HandlePush, serverVars, IsHead
<1>4. ASSUME NEW s \in Subs, Resubscribe(s) PROVE QuietInv'
  BY <1>4 DEF Resubscribe
<1>5. ASSUME NEW c \in Channels, ServerPublishes(c) \/ ServerUnsubscribes(c)
      PROVE  QuietInv'
  BY <1>5 DEF ServerPublishes, ServerUnsubscribes
<1>6. ASSUME Take PROVE QuietInv'
  BY <1>6 DEF Take
<1>7. ASSUME ConnectionEnds PROVE QuietInv'
  BY <1>7 DEF ConnectionEnds, MsgInv, IsHead, Types, TypeOK
<1>8. ASSUME NEW s \in Subs, Unsubscribe(s) PROVE QuietInv'
  BY <1>8 DEF Unsubscribe, Forget, Types, TypeOK, IsHead
<1>9. ASSUME DropRegistry \/ EndSweep \/ Reconnect PROVE QuietInv'
  BY <1>9 DEF DropRegistry, EndSweep, Reconnect, serverVars, subscription, IsHead
<1>10. CASE UNCHANGED <<phase, wire, held, connGeneration, inflight, serverIDs>>
  BY <1>10 DEF IsHead
<1>11. QED
  BY <1>1, <1>2, <1>3, <1>4, <1>5, <1>6, <1>7, <1>9, <1>10, <1>8
     DEF Next, NewSubscription, CheckRemove, RemoveSubscription, CheckSubscribe,
         Subscribe, Sweep, vars, serverVars, subscription

\* Every step keeps InflightInv.
LEMMA InflightStep ==
  ASSUME Types, MsgInv, QuietInv, InflightInv, [Next]_vars
  PROVE  InflightInv'
<1> USE DEF InflightInv
<1>1. ASSUME Types, NEW h \in held, ApplyReply(h) PROVE InflightInv'
  <2>1. ApplyReplyEffect(h)
    BY <1>1, ApplyReplyStep
  <2>2. \A k \in held' : k.found = "no" => k \in held /\ k # h
    BY <2>1, RegistrySubs DEF ApplyReplyEffect, FoundShape
  <2>3. CASE h.connection = connGeneration
    <3>1. inflight' = [inflight EXCEPT ![h.msg.sub] = FALSE] /\ wire' = wire
              /\ connGeneration' = connGeneration
      BY <2>1, <2>3 DEF ApplyReplyEffect, MsgInv
    <3>2. \A k \in held' : ~(IsHead(k)' /\ k.found = "no")
      BY <2>2, <2>3, <3>1 DEF MsgInv, IsHead
    <3>3. \A n \in 1..Len(wire) : wire[n].type = "reply" => wire[n].sub # h.msg.sub
      BY <2>1, <2>3 DEF IsHead, ApplyReplyEffect
    <3>4. QED
      BY <3>1, <3>2, <3>3, <2>2, WireShape DEF Types, TypeOK, IsHead
  <2>4. CASE h.connection # connGeneration
    BY <2>1, <2>2, <2>4 DEF ApplyReplyEffect, MsgInv, IsHead
  <2>5. QED
    BY <2>3, <2>4
<1>2. ASSUME NEW h \in held, Lookup(h) PROVE InflightInv'
  <2>1. LookupEffect(h)
    BY <1>2, LookupStep
  <2>2. \A k \in held' : k.found = "no" => k \in held
    BY <2>1, RegistrySubs DEF LookupEffect, FoundShape
  <2>3. QED
    BY <2>1, <2>2 DEF LookupEffect, IsHead
<1>3. ASSUME NEW h \in held, RegisterPushID(h) \/ HandlePush(h) PROVE InflightInv'
  BY <1>3 DEF RegisterPushID, HandlePush, serverVars, IsHead
<1>4. ASSUME NEW s \in Subs, Resubscribe(s) PROVE InflightInv'
  BY <1>4, WireShape DEF Resubscribe, IsHead, Types, TypeOK
<1>5. ASSUME NEW c \in Channels, ServerPublishes(c) PROVE InflightInv'
  BY <1>5 DEF ServerPublishes, IsHead, subscription, Types, TypeOK
<1>6. ASSUME NEW c \in Channels, ServerUnsubscribes(c) PROVE InflightInv'
  BY <1>6 DEF ServerUnsubscribes, IsHead, subscription, Types, TypeOK
<1>7. ASSUME Take PROVE InflightInv'
  BY <1>7 DEF Take, IsHead, subscription, Types, TypeOK
<1>8. ASSUME ConnectionEnds PROVE InflightInv'
  BY <1>8 DEF ConnectionEnds, MsgInv, IsHead, Types, TypeOK
<1>9. CASE UNCHANGED <<wire, held, connGeneration, inflight>>
  BY <1>9 DEF IsHead
<1>10. QED
  BY <1>1, <1>2, <1>3, <1>4, <1>5, <1>6, <1>7, <1>8, <1>9
     DEF Next, NewSubscription, CheckRemove, RemoveSubscription, CheckSubscribe,
         Subscribe, Unsubscribe, Sweep, DropRegistry, EndSweep, Reconnect, vars,
         serverVars, subscription

\* Every step keeps ApplyingInv: what is done under s.mu excludes the other holders.
LEMMA ApplyingStep ==
  ASSUME Types, MsgInv, ApplyingInv, [Next]_vars
  PROVE  ApplyingInv'
<1> USE DEF ApplyingInv
<1>1. ASSUME Types, NEW h \in held, ApplyReply(h) PROVE ApplyingInv'
  <2>1. ApplyReplyEffect(h)
    BY <1>1, ApplyReplyStep
  <2>2. CASE CurrentReply(h.msg.sub, h.msg)
    BY <2>1, <2>2 DEF ApplyReplyEffect, FoundShape, CurrentReply, Types, TypeOK
  <2>3. CASE ~CurrentReply(h.msg.sub, h.msg)
    BY <2>1, <2>3 DEF ApplyReplyEffect
  <2>4. QED
    BY <2>2, <2>3
<1>2. ASSUME NEW h \in held, Lookup(h) PROVE ApplyingInv'
  <2>1. LookupEffect(h)
    BY <1>2, LookupStep
  <2>2. \A k \in held' : k.found = "current" => k \in held
    BY <2>1, RegistrySubs DEF LookupEffect, FoundShape
  <2>3. QED
    BY <2>1, <2>2 DEF LookupEffect
<1>3. ASSUME NEW h \in held, RegisterPushID(h) PROVE ApplyingInv'
  BY <1>3 DEF RegisterPushID
<1>4. ASSUME NEW h \in held, HandlePush(h) PROVE ApplyingInv'
  <2>1. HandlePushEffect(h)
    BY <1>4, HandlePushStep
  <2>2. QED
    BY <2>1, RegistrySubs DEF HandlePushEffect, Types, TypeOK
<1>5. ASSUME NEW s \in Subs, Subscribe(s) \/ Unsubscribe(s) \/ Sweep(s) PROVE ApplyingInv'
  BY <1>5 DEF Subscribe, Unsubscribe, MoveToUnsubscribed, Sweep, LockFree, Types, TypeOK
<1>6. ASSUME Take PROVE ApplyingInv'
  BY <1>6 DEF Take, subscription
<1>7. ASSUME ConnectionEnds PROVE ApplyingInv'
  BY <1>7, HeldShape, MessageShape DEF ConnectionEnds, MsgInv, Types, TypeOK
<1>8. CASE UNCHANGED <<held, connGeneration, applying, state>>
  BY <1>8
<1>9. QED
  BY <1>1, <1>2, <1>3, <1>4, <1>5, <1>6, <1>7, <1>8
     DEF Next, NewSubscription, CheckRemove, RemoveSubscription, CheckSubscribe,
         Resubscribe, ServerPublishes, ServerUnsubscribes, DropRegistry, EndSweep,
         Reconnect, vars, serverVars, subscription

\* What RegisterPushID does.
RegisterPushIDEffect(h) ==
  /\ h.msg.type = "reply" /\ h.found = "current" /\ h.msg.sub \in Subs /\ h.msg.id \in PushIds
  /\ subsByID' = UpdatePushID(h.msg.sub, pushID[h.msg.sub], h.msg.id)
  /\ pushID' = [pushID EXCEPT ![h.msg.sub] = h.msg.id]
  /\ applying' = applying \ {h.msg.sub}
  /\ held' = held \ {h}
  /\ UNCHANGED <<phase, connGeneration, subs, created, state, subscribeAttempt, inflight,
                 checked, serverIDs, wire, misrouted, raced>>

\* moveToSubscribed's registration of the id has the effect RegisterPushIDEffect.
LEMMA RegisterPushIDStep ==
  ASSUME Types, NEW h \in held, RegisterPushID(h)
  PROVE  RegisterPushIDEffect(h)
<1>1. h.msg.sub \in Subs /\ h.msg.id \in PushIds
  BY HeldShape, MessageShape DEF RegisterPushID, Types
<1>2. QED
  BY <1>1 DEF RegisterPushID, RegisterPushIDEffect, serverVars, history

\* updateSubscriptionPushID replaces the entry of the old id with that of the new one.
LEMMA UpdatePushIDKeepsIds ==
  ASSUME TypeOK, IdsInv, NEW s \in Subs, NEW id \in PushIds,
         subsByID' = UpdatePushID(s, pushID[s], id), pushID' = [pushID EXCEPT ![s] = id]
  PROVE  IdsInv'
<1> SUFFICES ASSUME NEW t \in Subs, NEW i \in Ids, subsByID'[i] = t PROVE pushID'[t] = i
  BY DEF IdsInv
<1>1. subsByID'[i] = IF i = id THEN s ELSE IF i = pushID[s]
          /\ subsByID[i] = s THEN NoSub ELSE subsByID[i]
  BY DEF UpdatePushID
<1>2. QED
  BY <1>1, RegistrySubs DEF IdsInv, TypeOK

\* Every step keeps IdsInv.
LEMMA IdsStep == ASSUME Types, IdsInv, [Next]_vars PROVE IdsInv'
<1>1. ASSUME NEW h \in held, RegisterPushID(h) PROVE IdsInv'
  <2>1. RegisterPushIDEffect(h)
    BY <1>1, RegisterPushIDStep
  <2>2. QED
    BY <2>1, UpdatePushIDKeepsIds DEF RegisterPushIDEffect, Types
<1>2. ASSUME NEW h \in held, HandlePush(h) PROVE IdsInv'
  <2>1. HandlePushEffect(h)
    BY <1>2, HandlePushStep
  <2>2. QED
    BY <2>1, UpdatePushIDKeepsIds DEF HandlePushEffect, Types, IdsInv, PushIds
<1>3. ASSUME NEW s \in Subs, Unsubscribe(s) PROVE IdsInv'
  <2>1. MoveToUnsubscribed(s)
    BY <1>3 DEF Unsubscribe
  <2>2. CASE pushID[s] # 0
    BY <2>1, <2>2, UpdatePushIDKeepsIds DEF MoveToUnsubscribed, Types, PushIds
  <2>3. CASE pushID[s] = 0
    BY <2>1, <2>3 DEF MoveToUnsubscribed, Types, TypeOK, IdsInv
  <2>4. QED
    BY <2>2, <2>3
<1>4. ASSUME DropRegistry PROVE IdsInv'
  BY <1>4, RegistrySubs DEF DropRegistry, AfterDrop, subscription, IdsInv
<1>5. CASE UNCHANGED <<subsByID, pushID>>
  BY <1>5 DEF IdsInv
<1>6. QED
  BY <1>1, <1>2, <1>3, <1>4, <1>5
     DEF Next, NewSubscription, CheckRemove, RemoveSubscription, CheckSubscribe,
         Subscribe, Resubscribe, Sweep, ServerPublishes, ServerUnsubscribes, EndSweep,
         Reconnect, Take, ApplyReply, Lookup, ConnectionEnds, vars, registries,
         subscription

\* Every step keeps UniqueIds: the server gives an id only while no channel has it.
LEMMA UniqueStep == ASSUME TypeOK, UniqueIds, [Next]_vars PROVE UniqueIds'
<1> USE DEF UniqueIds
<1>1. ASSUME NEW s \in Subs, Resubscribe(s) PROVE UniqueIds'
  BY <1>1, RegistrySubs, RegistryIds DEF Resubscribe, TypeOK
<1>2. ASSUME NEW s \in Subs, Unsubscribe(s) PROVE UniqueIds'
  BY <1>2, RegistryIds DEF Unsubscribe, Forget, TypeOK
<1>3. ASSUME NEW c \in Channels, ServerUnsubscribes(c) PROVE UniqueIds'
  BY <1>3, RegistryIds DEF ServerUnsubscribes, Forget, TypeOK
<1>4. ASSUME ConnectionEnds PROVE UniqueIds'
  BY <1>4, RegistryIds DEF ConnectionEnds
<1>5. CASE UNCHANGED serverIDs
  BY <1>5
<1>6. QED
  BY <1>1, <1>2, <1>3, <1>4, <1>5
     DEF Next, NewSubscription, CheckRemove, RemoveSubscription, CheckSubscribe,
         Subscribe, Sweep, ServerPublishes, EndSweep, Reconnect, DropRegistry, Take,
         ApplyReply, RegisterPushID, Lookup, HandlePush, vars, serverVars

\* Every step keeps Registration: NewSubscription registers one subscription per channel,
\* and RemoveSubscription takes only an unsubscribed one away.
LEMMA RegistrationStep == ASSUME Types, Registration, [Next]_vars PROVE Registration'
<1> USE RegistrySubs DEF Registration, ActiveIsRegistered
<1>1. ASSUME NEW s \in Subs, NewSubscription(s) PROVE Registration'
  BY <1>1 DEF NewSubscription, subscription, history, Types, TypeOK
<1>2. ASSUME NEW s \in Subs, RemoveSubscription(s) PROVE Registration'
  BY <1>2 DEF RemoveSubscription, Registered, subscription, Types, TypeOK
<1>3. ASSUME NEW s \in Subs, CheckSubscribe(s) \/ CheckRemove(s) PROVE Registration'
  BY <1>3
     DEF CheckSubscribe, CheckRemove, IsRegistered, registries, subscription, history,
         Types, TypeOK
<1>4. ASSUME NEW s \in Subs, Subscribe(s) PROVE Registration'
  BY <1>4 DEF Subscribe, registries, history, Types, TypeOK
<1>5. ASSUME NEW s \in Subs, Unsubscribe(s) \/ Sweep(s) PROVE Registration'
  BY <1>5 DEF Unsubscribe, MoveToUnsubscribed, Sweep, registries, history, Types, TypeOK
<1>6. ASSUME NEW h \in held, ApplyReply(h) PROVE Registration'
  <2>1. ApplyReplyEffect(h)
    BY <1>6, ApplyReplyStep
  <2>2. \A s \in Subs : state'[s] # "unsubscribed" => state[s] # "unsubscribed"
    BY <2>1 DEF ApplyReplyEffect, CurrentReply, Types, TypeOK
  <2>3. QED
    BY <2>1, <2>2 DEF ApplyReplyEffect
<1>7. ASSUME NEW h \in held, HandlePush(h) PROVE Registration'
  <2>1. HandlePushEffect(h)
    BY <1>7, HandlePushStep
  <2>2. \A s \in Subs : state'[s] # "unsubscribed" => state[s] # "unsubscribed"
    BY <2>1 DEF HandlePushEffect, Types, TypeOK
  <2>3. QED
    BY <2>1, <2>2 DEF HandlePushEffect
<1>8. CASE UNCHANGED <<subs, state, checked, raced>>
  BY <1>8
<1>9. QED
  BY <1>1, <1>2, <1>3, <1>4, <1>5, <1>6, <1>7, <1>8
     DEF Next, Resubscribe, ServerPublishes, ServerUnsubscribes, Take, RegisterPushID,
         Lookup, ConnectionEnds, DropRegistry, EndSweep, Reconnect, vars, registries,
         subscription, history

\* Every step keeps SweptInv: a sweep visits every registered subscription.
LEMMA SweptStep ==
  ASSUME Types, MsgInv, QuietInv, ApplyingInv, Registration, SweptInv, [Next]_vars
  PROVE  SweptInv'
<1> USE DEF SweptInv
<1>1. ASSUME NEW h \in held, ApplyReply(h) PROVE SweptInv'
  <2>1. ApplyReplyEffect(h)
    BY <1>1, ApplyReplyStep
  <2>2. CASE CurrentReply(h.msg.sub, h.msg)
    <3>1. IsHead(h)
      BY <2>1, <2>2 DEF ApplyReplyEffect, CurrentReply, MsgInv, IsHead
    <3>2. phase = "connected"
      BY <3>1 DEF QuietInv
    <3>3. QED
      BY <2>1, <2>2, <3>1, <3>2 DEF ApplyReplyEffect, FoundShape, IsHead
  <2>3. CASE ~CurrentReply(h.msg.sub, h.msg)
    BY <2>1, <2>3 DEF ApplyReplyEffect, IsHead
  <2>4. QED
    BY <2>2, <2>3
<1>2. ASSUME NEW h \in held, Lookup(h) PROVE SweptInv'
  <2>1. LookupEffect(h)
    BY <1>2, LookupStep
  <2>2. \A k \in held' : k.found = "current" => k \in held
    BY <2>1, RegistrySubs DEF LookupEffect, FoundShape
  <2>3. QED
    BY <2>1, <2>2 DEF LookupEffect, IsHead
<1>3. ASSUME NEW h \in held, RegisterPushID(h) PROVE SweptInv'
  BY <1>3 DEF RegisterPushID, history, IsHead
<1>4. ASSUME NEW h \in held, HandlePush(h) PROVE SweptInv'
  <2>1. HandlePushEffect(h)
    BY <1>4, HandlePushStep
  <2>2. QED
    BY <2>1 DEF HandlePushEffect, Types, TypeOK, IsHead
<1>5. ASSUME NEW s \in Subs, Subscribe(s) \/ Unsubscribe(s) \/ Sweep(s) PROVE SweptInv'
  BY <1>5
     DEF Subscribe, Unsubscribe, MoveToUnsubscribed, Sweep, history, Types, TypeOK, IsHead
<1>6. ASSUME NEW s \in Subs, RemoveSubscription(s) PROVE SweptInv'
  BY <1>6 DEF RemoveSubscription, subscription, IsHead
<1>7. ASSUME Take PROVE SweptInv'
  BY <1>7 DEF Take, subscription, history, IsHead
<1>8. ASSUME EndSweep PROVE SweptInv'
  BY <1>8
     DEF EndSweep, subscription, registries, history, IsHead, Registration,
         ActiveIsRegistered, ApplyingInv, LockFree, Types, TypeOK
<1>9. ASSUME ConnectionEnds \/ DropRegistry PROVE SweptInv'
  BY <1>9 DEF ConnectionEnds, DropRegistry, history, IsHead
<1>10. ASSUME Reconnect PROVE SweptInv'
  BY <1>10 DEF Reconnect, subscription, history, IsHead, ApplyingInv
<1>11. CASE UNCHANGED <<phase, connGeneration, state, applying, held, raced>>
  BY <1>11 DEF IsHead
<1>12. QED
  BY <1>1, <1>2, <1>3, <1>4, <1>5, <1>6, <1>7, <1>8, <1>9, <1>10, <1>11
     DEF Next, NewSubscription, CheckRemove, CheckSubscribe, Resubscribe, ServerPublishes,
         ServerUnsubscribes, vars, subscription, history

\* Log survives the loss of grants and uses.
LEMMA LogShrinks ==
  ASSUME Log,
         \A n \in Int, s \in Subs, i \in PushIds : Granted(n, s, i)' =>
           /\ Granted(n, s, i)
           /\ serverIDs'[ChannelOf[s]] = serverIDs[ChannelOf[s]]
           /\ n # -1 => state'[s] = "subscribing"
           /\ \A k \in Int, j \in PushIds :
                n < k /\ Withdrawn(k, ChannelOf[s], j) => Withdrawn(k, ChannelOf[s], j)',
         \A n \in Int, c \in Channels, i \in PushIds :
           /\ Used(n, c, i)' => Used(n, c, i)
           /\ Withdrawn(n, c, i)' => Withdrawn(n, c, i)
  PROVE  Log'
<1> USE RegistrySubs DEF Log
<1>1. GrantsHold'
  <2> SUFFICES ASSUME NEW n \in Int, NEW s \in Subs, NEW i \in PushIds, Granted(n, s, i)'
               PROVE  GrantHolds(n, s, i)'
    BY DEF GrantsHold
  <2>1. GrantHolds(n, s, i)
    BY DEF GrantsHold
  <2>2. QED
    BY <2>1 DEF GrantHolds
<1>2. IdsDisjoint'
  <2> SUFFICES ASSUME NEW n \in Int, NEW k \in Int, NEW s \in Subs,
                      NEW i \in Ids, Granted(n, s, i)'
               PROVE  /\ \A c \in Channels :
                           n < k /\ Used(k, c, i)' /\ c # ChannelOf[s]
                               => Between(n, k, ChannelOf[s])'
                      /\ \A t \in Subs :
                           t # s /\ n <= k /\ Granted(k, t, i)'
                               => n < k /\ Between(n, k, ChannelOf[s])'
    BY DEF IdsDisjoint
  <2>1. Granted(n, s, i)
    BY DEF PushIds
  <2>2. Between(n, k, ChannelOf[s]) => Between(n, k, ChannelOf[s])'
    BY DEF Between, PushIds
  <2>3. QED
    BY <2>1, <2>2 DEF IdsDisjoint, PushIds
<1>3. QED
  BY <1>1, <1>2

\* Log survives that the grant of the held reply becomes what its subscription owns.
LEMMA LogMoves ==
  ASSUME Log, NEW t \in Subs, NEW j \in PushIds, Granted(0, t, j),
         \A n \in Int, s \in Subs, i \in PushIds : Granted(n, s, i)' =>
           \/ n = -1 /\ s = t /\ i = j
           \/ Granted(n, s, i) /\ n # 0 /\ (n # -1 => state'[s] = "subscribing"),
         \A n \in Int, s \in Subs, i \in PushIds : Granted(n, s, i) => n >= -1,
         serverIDs' = serverIDs,
         \A n \in Int, c \in Channels, i \in PushIds :
           /\ Used(n, c, i)' <=> Used(n, c, i)
           /\ Withdrawn(n, c, i)' <=> Withdrawn(n, c, i)
           /\ ~Used(0, c, i) /\ ~Withdrawn(0, c, i)
           /\ n < 0 => ~Used(n, c, i) /\ ~Withdrawn(n, c, i)
  PROVE  Log'
<1> USE RegistrySubs DEF Log
<1>1. ASSUME NEW n \in Int, NEW s \in Subs, NEW i \in PushIds, Granted(n, s, i)'
      PROVE  \E m \in Int : /\ m = IF n = -1 /\ s = t /\ i = j THEN 0 ELSE n
                            /\ Granted(m, s, i) /\ GrantHolds(m, s, i)
  BY <1>1 DEF GrantsHold
<1>2. ASSUME NEW i \in Ids, NEW s \in Subs, Granted(-1, s, i), i = j, s # t PROVE FALSE
  <2>1. Between(-1, 0, ChannelOf[s])
    BY <1>2 DEF IdsDisjoint
  <2>2. QED
    BY <2>1 DEF Between
<1>3. GrantsHold'
  <2> SUFFICES ASSUME NEW n \in Int, NEW s \in Subs, NEW i \in PushIds, Granted(n, s, i)'
               PROVE  GrantHolds(n, s, i)'
    BY DEF GrantsHold
  <2>1. PICK m \in Int : /\ m = IF n = -1 /\ s = t /\ i = j THEN 0 ELSE n
                         /\ Granted(m, s, i) /\ GrantHolds(m, s, i)
    BY <1>1
  <2>2. \/ serverIDs'[ChannelOf[s]] = i
        \/ /\ serverIDs'[ChannelOf[s]] = NotSubscribed
           /\ \E k \in Int, q \in PushIds : n < k /\ Withdrawn(k, ChannelOf[s], q)'
    BY <2>1 DEF GrantHolds
  <2>3. n # -1 => state'[s] = "subscribing"
    OBVIOUS
  <2>4. ASSUME NEW k \in Int, NEW q \in PushIds, Granted(k, s, q)' PROVE k = n /\ q = i
    <3>1. PICK l \in Int : /\ l = IF k = -1 /\ s = t /\ q = j THEN 0 ELSE k
                           /\ Granted(l, s, q) /\ GrantHolds(l, s, q)
      BY <1>1, <2>4
    <3>2. l = m /\ q = i
      BY <2>1, <3>1 DEF GrantHolds
    <3>3. QED
      BY <2>1, <3>1, <3>2, <2>4
  <2>5. ASSUME NEW k \in Int, NEW q \in PushIds, n < k, Withdrawn(k, ChannelOf[s], q)'
        PROVE  q = i
    BY <2>1, <2>5 DEF GrantHolds
  <2>6. QED
    BY <2>2, <2>3, <2>4, <2>5 DEF GrantHolds
<1>4. IdsDisjoint'
  <2> SUFFICES ASSUME NEW n \in Int, NEW k \in Int, NEW s \in Subs,
                      NEW i \in Ids, Granted(n, s, i)'
               PROVE  /\ \A c \in Channels :
                           n < k /\ Used(k, c, i)' /\ c # ChannelOf[s]
                               => Between(n, k, ChannelOf[s])'
                      /\ \A r \in Subs :
                           r # s /\ n <= k /\ Granted(k, r, i)'
                               => n < k /\ Between(n, k, ChannelOf[s])'
    BY DEF IdsDisjoint
  <2>1. i \in PushIds
    BY DEF PushIds
  <2>2. PICK m \in Int : /\ m = IF n = -1 /\ s = t /\ i = j THEN 0 ELSE n
                         /\ Granted(m, s, i) /\ GrantHolds(m, s, i)
    BY <1>1, <2>1
  <2>3. \A l \in Int : Between(m, l, ChannelOf[s]) => Between(n, l, ChannelOf[s])'
    BY <2>2 DEF Between
  <2>4. ASSUME NEW c \in Channels, n < k, Used(k, c, i)', c # ChannelOf[s]
        PROVE  Between(n, k, ChannelOf[s])'
    <3>1. Used(k, c, i) /\ k > 0
      BY <2>4, <2>1
    <3>2. QED
      BY <2>2, <2>3, <2>4, <3>1 DEF IdsDisjoint
  <2>5. ASSUME NEW r \in Subs, r # s, n <= k, Granted(k, r, i)'
        PROVE  n < k /\ Between(n, k, ChannelOf[s])'
    <3>1. PICK l \in Int : l = (IF k = -1 /\ r = t /\ i = j THEN 0 ELSE k) /\ Granted(l, r, i)
      BY <1>1, <2>1, <2>5
    <3>2. l = k
      BY <1>2, <2>1, <2>2, <2>5, <3>1
    <3>3. m <= k
      BY <1>2, <2>1, <2>2, <2>5, <3>1, <3>2
    <3>4. m < k /\ Between(m, k, ChannelOf[s])
      BY <2>2, <2>5, <3>1, <3>2, <3>3 DEF IdsDisjoint
    <3>5. QED
      BY <2>2, <2>3, <3>4
  <2>6. QED
    BY <2>4, <2>5
<1>5. QED
  BY <1>3, <1>4

\* Where a message of the next state was before Take.
Before(n) == IF n = -1 THEN -1 ELSE n + 1

\* Log survives that a reader takes the first message of the wire.
LEMMA LogShifts ==
  ASSUME Log,
         \A n \in Int, s \in Subs, i \in PushIds : Granted(n, s, i)' =>
           n >= -1 /\ Granted(Before(n), s, i),
         \A n \in Int, c \in Channels, i \in PushIds :
           /\ Used(n, c, i)' => n >= 0 /\ Used(n + 1, c, i)
           /\ Withdrawn(n, c, i) => n >= 1 /\ Withdrawn(n - 1, c, i)'
           /\ Withdrawn(n, c, i)' => n >= 0 /\ Withdrawn(n + 1, c, i),
         UNCHANGED <<serverIDs, state>>
  PROVE  Log'
<1> USE RegistrySubs DEF Log
<1>1. \A n \in Int : Before(n) \in Int
  BY DEF Before
<1>2. ASSUME NEW n \in Int, NEW k \in Int,
             NEW c \in Channels, n >= -1, k >= -1, Between(Before(n), Before(k), c)
      PROVE  Between(n, k, c)'
  <2>1. PICK l \in Int, q \in PushIds : Before(n) < l /\ l < Before(k) /\ Withdrawn(l, c, q)
    BY <1>2 DEF Between
  <2>2. l >= 1 /\ Withdrawn(l - 1, c, q)'
    BY <2>1
  <2>3. n < l - 1 /\ l - 1 < k
    BY <1>2, <2>1, <2>2 DEF Before
  <2>4. QED
    BY <2>2, <2>3 DEF Between
<1>3. GrantsHold'
  <2> SUFFICES ASSUME NEW n \in Int, NEW s \in Subs, NEW i \in PushIds, Granted(n, s, i)'
               PROVE  GrantHolds(n, s, i)'
    BY DEF GrantsHold
  <2>1. n >= -1 /\ GrantHolds(Before(n), s, i)
    BY <1>1 DEF GrantsHold
  <2>2. ASSUME serverIDs[ChannelOf[s]] # i
        PROVE  /\ serverIDs[ChannelOf[s]] = NotSubscribed
               /\ \E k \in Int, q \in PushIds : n < k /\ Withdrawn(k, ChannelOf[s], q)'
    <3>1. PICK k \in Int, q \in PushIds : Before(n) < k /\ Withdrawn(k, ChannelOf[s], q)
      BY <2>1, <2>2 DEF GrantHolds
    <3>2. k >= 1 /\ Withdrawn(k - 1, ChannelOf[s], q)' /\ n < k - 1
      BY <2>1, <3>1 DEF Before
    <3>3. QED
      BY <2>1, <2>2, <3>2 DEF GrantHolds
  <2>3. n # -1 => state[s] = "subscribing"
    BY <2>1 DEF GrantHolds, Before
  <2>4. ASSUME NEW k \in Int, NEW q \in PushIds, Granted(k, s, q)' PROVE k = n /\ q = i
    <3>1. k >= -1 /\ Before(k) = Before(n) /\ q = i
      BY <1>1, <2>1, <2>4 DEF GrantHolds
    <3>2. QED
      BY <2>1, <3>1 DEF Before
  <2>5. ASSUME NEW k \in Int, NEW q \in PushIds, n < k, Withdrawn(k, ChannelOf[s], q)'
        PROVE  q = i
    <3>1. Withdrawn(k + 1, ChannelOf[s], q) /\ Before(n) < k + 1
      BY <2>1, <2>5 DEF Before
    <3>2. QED
      BY <2>1, <3>1 DEF GrantHolds
  <2>6. QED
    BY <2>2, <2>3, <2>4, <2>5 DEF GrantHolds
<1>4. IdsDisjoint'
  <2> SUFFICES ASSUME NEW n \in Int, NEW k \in Int, NEW s \in Subs,
                      NEW i \in Ids, Granted(n, s, i)'
               PROVE  /\ \A c \in Channels :
                           n < k /\ Used(k, c, i)' /\ c # ChannelOf[s]
                               => Between(n, k, ChannelOf[s])'
                      /\ \A r \in Subs :
                           r # s /\ n <= k /\ Granted(k, r, i)'
                               => n < k /\ Between(n, k, ChannelOf[s])'
    BY DEF IdsDisjoint
  <2>1. i \in PushIds
    BY DEF PushIds
  <2>2. n >= -1 /\ Granted(Before(n), s, i) /\ Before(n) \in Int
    BY <1>1, <2>1
  <2>3. ASSUME NEW c \in Channels, n < k, Used(k, c, i)', c # ChannelOf[s]
        PROVE  Between(n, k, ChannelOf[s])'
    <3>1. k >= 0 /\ Before(k) = k + 1 /\ Used(Before(k), c, i) /\ Before(n) < Before(k)
              /\ Before(k) \in Int
      BY <2>1, <2>2, <2>3 DEF Before
    <3>2. Between(Before(n), Before(k), ChannelOf[s])
      BY <2>2, <2>3, <3>1 DEF IdsDisjoint
    <3>3. QED
      BY <1>2, <2>2, <3>1, <3>2
  <2>4. ASSUME NEW r \in Subs, r # s, n <= k, Granted(k, r, i)'
        PROVE  n < k /\ Between(n, k, ChannelOf[s])'
    <3>1. k >= -1 /\ Granted(Before(k), r, i) /\ Before(n) <= Before(k) /\ Before(k) \in Int
      BY <2>1, <2>2, <2>4 DEF Before
    <3>2. Before(n) < Before(k) /\ Between(Before(n), Before(k), ChannelOf[s])
      BY <2>2, <2>4, <3>1 DEF IdsDisjoint
    <3>3. n < k
      BY <2>2, <2>4, <3>1, <3>2 DEF Before
    <3>4. QED
      BY <1>2, <2>2, <3>1, <3>2, <3>3
  <2>5. QED
    BY <2>3, <2>4
<1>5. QED
  BY <1>3, <1>4

\* Log survives a push at the end of the stream, for the id the server has.
LEMMA LogGetsUse ==
  ASSUME Log, UniqueIds, serverIDs \in [Channels -> PushIds \cup {NotSubscribed}],
         NEW last \in Int, NEW d \in Channels, NEW id \in PushIds, serverIDs[d] = id,
         \A n \in Int, s \in Subs, i \in PushIds :
           /\ Granted(n, s, i) => n < last
           /\ Granted(n, s, i)' => Granted(n, s, i),
         \A n \in Int, c \in Channels, i \in PushIds :
           /\ Used(n, c, i)' => Used(n, c, i) \/ (n = last /\ c = d /\ i = id)
           /\ Withdrawn(n, c, i) => n < last /\ Withdrawn(n, c, i)'
           /\ Withdrawn(n, c, i)' => Withdrawn(n, c, i) \/ (n = last /\ c = d /\ i = id),
         \/ serverIDs' = serverIDs
         \/ /\ serverIDs' = [serverIDs EXCEPT ![d] = NotSubscribed]
            /\ Withdrawn(last, d, id)',
         state' = state
  PROVE  Log'
<1> USE RegistrySubs DEF Log
<1>1. \A n \in Int, k \in Int, c \in Channels : Between(n, k, c) => Between(n, k, c)'
  BY DEF Between
<1>2. GrantsHold'
  <2> SUFFICES ASSUME NEW n \in Int, NEW s \in Subs, NEW i \in PushIds, Granted(n, s, i)'
               PROVE  GrantHolds(n, s, i)'
    BY DEF GrantsHold
  <2>1. GrantHolds(n, s, i) /\ n < last /\ ChannelOf[s] \in Channels
    BY DEF GrantsHold
  <2>2. CASE ChannelOf[s] # d
    <3>1. serverIDs'[ChannelOf[s]] = serverIDs[ChannelOf[s]]
      BY <2>1, <2>2
    <3>2. QED
      BY <2>1, <2>2, <3>1 DEF GrantHolds
  <2>3. CASE ChannelOf[s] = d
    <3>1. id = i
      BY <2>1, <2>3, RegistryIds DEF GrantHolds, PushIds, NotSubscribed
    <3>2. \/ serverIDs'[d] = i
          \/ serverIDs'[d] = NotSubscribed /\ Withdrawn(last, d, i)'
      BY <3>1
    <3>3. QED
      BY <2>1, <2>3, <3>1, <3>2 DEF GrantHolds
  <2>4. QED
    BY <2>2, <2>3
<1>3. IdsDisjoint'
  <2> SUFFICES ASSUME NEW n \in Int, NEW k \in Int, NEW s \in Subs,
                      NEW i \in Ids, Granted(n, s, i)'
               PROVE  /\ \A c \in Channels :
                           n < k /\ Used(k, c, i)' /\ c # ChannelOf[s]
                               => Between(n, k, ChannelOf[s])'
                      /\ \A r \in Subs :
                           r # s /\ n <= k /\ Granted(k, r, i)'
                               => n < k /\ Between(n, k, ChannelOf[s])'
    BY DEF IdsDisjoint
  <2>1. i \in PushIds /\ ChannelOf[s] \in Channels
    BY DEF PushIds
  <2>2. Granted(n, s, i) /\ GrantHolds(n, s, i)
    BY <2>1 DEF GrantsHold
  <2>3. ASSUME NEW c \in Channels, n < k, Used(k, c, i)', c # ChannelOf[s]
        PROVE  Between(n, k, ChannelOf[s])'
    <3>1. CASE Used(k, c, i)
      BY <1>1, <2>1, <2>2, <2>3, <3>1 DEF IdsDisjoint
    <3>2. CASE k = last /\ c = d /\ i = id
      <4>1. serverIDs[ChannelOf[s]] # i
        BY <2>1, <2>3, <3>2 DEF UniqueIds
      <4>2. PICK l \in Int, q \in PushIds : n < l /\ Withdrawn(l, ChannelOf[s], q)
        BY <2>2, <4>1 DEF GrantHolds
      <4>3. Between(n, k, ChannelOf[s])
        BY <2>1, <3>2, <4>2 DEF Between
      <4>4. QED
        BY <1>1, <2>1, <4>3
    <3>3. QED
      BY <2>1, <2>3, <3>1, <3>2
  <2>4. ASSUME NEW r \in Subs, r # s, n <= k, Granted(k, r, i)'
        PROVE  n < k /\ Between(n, k, ChannelOf[s])'
    <3>1. Granted(k, r, i)
      BY <2>1, <2>4
    <3>2. n < k /\ Between(n, k, ChannelOf[s])
      BY <2>2, <2>4, <3>1 DEF IdsDisjoint
    <3>3. QED
      BY <1>1, <2>1, <3>2
  <2>5. QED
    BY <2>3, <2>4
<1>4. QED
  BY <1>2, <1>3

\* Log survives a reply at the end of the stream, with an id no channel has.
LEMMA LogGetsGrant ==
  ASSUME Log, serverIDs \in [Channels -> PushIds \cup {NotSubscribed}],
         NEW last \in Int, NEW t \in Subs, NEW j \in PushIds,
         state[t] = "subscribing", serverIDs[ChannelOf[t]] = NotSubscribed,
         \A c \in Channels : j \in Ids => serverIDs[c] # j,
         \A n \in Int, i \in PushIds : ~Granted(n, t, i),
         \A n \in Int, s \in Subs, i \in PushIds :
           /\ Granted(n, s, i) => n < last /\ ChannelOf[s] # ChannelOf[t]
           /\ Granted(n, s, i)' => Granted(n, s, i) \/ (n = last /\ s = t /\ i = j),
         \A n \in Int, c \in Channels, i \in PushIds :
           /\ Used(n, c, i) => n < last
           /\ Withdrawn(n, c, i) => n < last
           /\ Used(n, c, i)' <=> Used(n, c, i)
           /\ Withdrawn(n, c, i) <=> Withdrawn(n, c, i)',
         serverIDs' = [serverIDs EXCEPT ![ChannelOf[t]] = j],
         state' = state
  PROVE  Log'
<1> USE RegistrySubs DEF Log
<1>1. \A n \in Int, k \in Int, c \in Channels : Between(n, k, c) => Between(n, k, c)'
  BY DEF Between
<1>2. GrantsHold'
  <2> SUFFICES ASSUME NEW n \in Int, NEW s \in Subs, NEW i \in PushIds, Granted(n, s, i)'
               PROVE  GrantHolds(n, s, i)'
    BY DEF GrantsHold
  <2>1. CASE Granted(n, s, i)
    <3>1. GrantHolds(n, s, i) /\ ChannelOf[s] # ChannelOf[t] /\ ChannelOf[s] \in Channels
              /\ s # t
      BY <2>1 DEF GrantsHold
    <3>2. serverIDs'[ChannelOf[s]] = serverIDs[ChannelOf[s]]
      BY <3>1
    <3>3. QED
      BY <3>1, <3>2 DEF GrantHolds
  <2>2. CASE n = last /\ s = t /\ i = j
    <3>1. serverIDs'[ChannelOf[s]] = i
      BY <2>2
    <3>2. \A k \in Int, q \in PushIds : Granted(k, s, q)' => k = n /\ q = i
      BY <2>2
    <3>3. \A k \in Int, q \in PushIds : ~(n < k /\ Withdrawn(k, ChannelOf[s], q)')
      BY <2>2
    <3>4. QED
      BY <2>2, <3>1, <3>2, <3>3 DEF GrantHolds
  <2>3. QED
    BY <2>1, <2>2
<1>3. IdsDisjoint'
  <2> SUFFICES ASSUME NEW n \in Int, NEW k \in Int, NEW s \in Subs,
                      NEW i \in Ids, Granted(n, s, i)'
               PROVE  /\ \A c \in Channels :
                           n < k /\ Used(k, c, i)' /\ c # ChannelOf[s]
                               => Between(n, k, ChannelOf[s])'
                      /\ \A r \in Subs :
                           r # s /\ n <= k /\ Granted(k, r, i)'
                               => n < k /\ Between(n, k, ChannelOf[s])'
    BY DEF IdsDisjoint
  <2>1. i \in PushIds /\ ChannelOf[s] \in Channels
    BY DEF PushIds
  <2>2. CASE Granted(n, s, i)
    <3>1. GrantHolds(n, s, i) /\ n < last
      BY <2>1, <2>2 DEF GrantsHold
    <3>2. ASSUME NEW c \in Channels, n < k, Used(k, c, i)', c # ChannelOf[s]
          PROVE  Between(n, k, ChannelOf[s])'
      BY <1>1, <2>1, <2>2, <3>2 DEF IdsDisjoint
    <3>3. ASSUME NEW r \in Subs, r # s, n <= k, Granted(k, r, i)'
          PROVE  n < k /\ Between(n, k, ChannelOf[s])'
      <4>1. CASE Granted(k, r, i)
        BY <1>1, <2>1, <2>2, <3>3, <4>1 DEF IdsDisjoint
      <4>2. CASE k = last /\ r = t /\ i = j
        <5>1. serverIDs[ChannelOf[s]] # i
          BY <2>1, <4>2
        <5>2. PICK l \in Int, q \in PushIds : n < l /\ Withdrawn(l, ChannelOf[s], q)
          BY <3>1, <5>1 DEF GrantHolds
        <5>3. Between(n, k, ChannelOf[s])
          BY <2>1, <4>2, <5>2 DEF Between
        <5>4. QED
          BY <1>1, <2>1, <3>1, <4>2, <5>3
      <4>3. QED
        BY <2>1, <3>3, <4>1, <4>2
    <3>4. QED
      BY <3>2, <3>3
  <2>3. CASE n = last /\ s = t /\ i = j
    BY <2>1, <2>3
  <2>4. QED
    BY <2>1, <2>2, <2>3
<1>4. QED
  BY <1>2, <1>3

\* What holds throughout, in and between sessions.
Context ==
  /\ Types /\ MsgInv /\ QuietInv /\ InflightInv /\ ApplyingInv /\ IdsInv /\ UniqueIds
  /\ Registration /\ SweptInv

\* A session, with no subscription removed in the middle of Subscribe.
Session == raced = {} /\ phase = "connected"

\* The inductive invariant.
RegistryInv == Context /\ LogInv

\* The stream lies between position -1 and the end of the wire.
LEMMA LogBounds ==
  ASSUME Types, NEW n \in Int
  PROVE  /\ \A s \in Subs, i \in PushIds : Granted(n, s, i) => -1 <= n /\ n <= Len(wire)
         /\ \A c \in Channels, i \in PushIds : Used(n, c, i) => 0 <= n /\ n <= Len(wire)
         /\ \A c \in Channels, i \in PushIds : Withdrawn(n, c, i) => Used(n, c, i)
<1>1. Len(wire) \in Nat
  BY DEF Types
<1>2. Arriving(n) # {} => 0 <= n /\ n <= Len(wire)
  BY <1>1 DEF Arriving
<1>3. QED
  BY <1>1, <1>2 DEF Granted, Used, Withdrawn

\* A grant that counts is of a subscription that is not unsubscribed.
LEMMA GrantActive ==
  ASSUME TypeOK, Registration, GrantsHold, raced = {},
         NEW n \in Int, NEW s \in Subs, NEW i \in PushIds, Granted(n, s, i)
  PROVE  state[s] # "unsubscribed" /\ subs[ChannelOf[s]] = s
<1>1. state[s] # "unsubscribed"
  <2>1. CASE n = -1
    BY <2>1 DEF Granted, Owns, Arriving
  <2>2. CASE n # -1
    BY <2>2 DEF GrantsHold, GrantHolds
  <2>3. QED
    BY <2>1, <2>2
<1>2. QED
  BY <1>1 DEF Registration, ActiveIsRegistered

\* In a session the reply that is being applied is the head.
LEMMA HeadAlone ==
  ASSUME Types, MsgInv, SweptInv, ApplyingInv, Session, NEW h \in held, IsHead(h)
  PROVE  /\ \A k \in held : IsHead(k) => k = h
         /\ \A s \in applying : h.found = "current" /\ h.msg.sub = s
         /\ h.found # "current" => Arriving(0) = {h.msg}
BY DEF MsgInv, IsHead, SweptInv, ApplyingInv, Session, Arriving

\* A message the server sends is the last of the stream.
LEMMA Appends ==
  ASSUME Types, NEW m \in Message, wire' = Append(wire, m), UNCHANGED <<held, connGeneration>>,
         NEW n \in Int
  PROVE  Arriving(n)' = IF n = Len(wire) + 1 THEN {m} ELSE Arriving(n)
<1>1. Len(wire) \in Nat /\ Len(wire') = Len(wire) + 1
  BY DEF Types
<1>2. CASE n = 0
  BY <1>1, <1>2 DEF Arriving, IsHead
<1>3. CASE n = Len(wire) + 1
  BY <1>1, <1>3 DEF Arriving, Types
<1>4. CASE n # 0 /\ n # Len(wire) + 1
  <2>1. n \in 1..Len(wire') <=> n \in 1..Len(wire)
    BY <1>1, <1>4
  <2>2. n \in 1..Len(wire) => wire'[n] = wire[n]
    BY DEF Types
  <2>3. QED
    BY <1>4, <2>1, <2>2 DEF Arriving
<1>5. QED
  BY <1>2, <1>3, <1>4

\* A reader that takes a message moves the stream by one position.
LEMMA Takes ==
  ASSUME Types, Take, NEW n \in Int
  PROVE  /\ Arriving(0) = {}
         /\ Arriving(n)' = IF n >= 0 THEN Arriving(n + 1) ELSE {}
<1>1. /\ Len(wire) \in Nat /\ Len(wire) > 0 /\ Len(wire') = Len(wire) - 1
      /\ \A k \in 1..Len(wire') : wire'[k] = wire[k + 1]
      /\ Head(wire) = wire[1]
  BY DEF Types, Take
<1>2. Arriving(0) = {}
  BY DEF Arriving, Take, IsHead
<1>3. CASE n = 0
  <2>1. Arriving(1) = {wire[1]}
    BY <1>1 DEF Arriving
  <2> DEFINE h == [connection |-> connGeneration, msg |-> Head(wire), found |-> "no"]
  <2>2. /\ held' = held \cup {h} /\ connGeneration' = connGeneration
        /\ \A k \in held : ~IsHead(k)
    BY DEF Take, IsHead
  <2>3. h.connection = connGeneration /\ h.msg = wire[1] /\ h.found # "current"
    BY <1>1
  <2> HIDE DEF h
  <2>4. Arriving(0)' = {h.msg}
    BY <2>2, <2>3 DEF Arriving, IsHead
  <2>5. QED
    BY <1>2, <1>3, <2>1, <2>3, <2>4
<1>4. CASE n > 0
  <2>1. n \in 1..Len(wire') <=> n + 1 \in 1..Len(wire)
    BY <1>1, <1>4
  <2>2. Arriving(n)' = Arriving(n + 1)
    <3>1. Arriving(n)' = IF n \in 1..Len(wire') THEN {wire'[n]} ELSE {}
      BY <1>4 DEF Arriving
    <3>2. Arriving(n + 1) = IF n + 1 \in 1..Len(wire) THEN {wire[n + 1]} ELSE {}
      BY <1>4 DEF Arriving
    <3>3. n \in 1..Len(wire') => wire'[n] = wire[n + 1]
      BY <1>1
    <3>4. QED
      BY <2>1, <3>1, <3>2, <3>3
  <2>3. QED
    BY <1>2, <1>4, <2>2
<1>5. CASE n < 0
  <2>1. Arriving(n)' = {}
    BY <1>1, <1>5 DEF Arriving
  <2>2. QED
    BY <1>2, <1>5, <2>1
<1>6. QED
  BY <1>3, <1>4, <1>5

\* The server publishes to a channel or unsubscribes it.
LEMMA LogPush ==
  ASSUME Context, Log, Session, NEW c \in Channels, ServerPublishes(c) \/ ServerUnsubscribes(c)
  PROVE  Log'
<1>1. Types /\ TypeOK /\ UniqueIds /\ Len(wire) \in Nat
  BY DEF Context, Types
<1>2. serverIDs \in [Channels -> PushIds \cup {NotSubscribed}] /\ serverIDs[c] \in PushIds
  BY <1>1 DEF TypeOK, PushIds, ServerPublishes, ServerUnsubscribes
<1>3. /\ UNCHANGED <<held, connGeneration, state, applying, pushID, subscribeAttempt>>
  BY DEF ServerPublishes, ServerUnsubscribes, subscription
<1>4. PICK last \in Int : last = Len(wire) + 1
  BY <1>1
<1>5. PICK id \in PushIds : id = serverIDs[c]
  BY <1>2
<1>6. PICK m \in Message :
        /\ wire' = Append(wire, m) /\ m.channel = c /\ m.id = serverIDs[c]
        /\ \/ m.type = "pub" /\ serverIDs' = serverIDs
           \/ m.type = "unsubscribe" /\ serverIDs' = [serverIDs EXCEPT ![c] = NotSubscribed]
  <2>1. CASE ServerPublishes(c)
    <3> DEFINE m == [type |-> "pub", channel |-> c, id |-> serverIDs[c]]
    <3>1. m \in Message
      BY <1>2 DEF Message, Pub
    <3>2. QED
      BY <2>1, <3>1 DEF ServerPublishes
  <2>2. CASE ServerUnsubscribes(c)
    <3>1. PICK invalidated \in BOOLEAN :
            wire' = Append(wire, [type |-> "unsubscribe", channel |-> c, id |-> serverIDs[c],
                                  invalidated |-> invalidated])
      BY <2>2 DEF ServerUnsubscribes
    <3> DEFINE m == [type |-> "unsubscribe", channel |-> c, id |-> serverIDs[c],
        invalidated |-> invalidated]
    <3>2. m \in Message
      BY <1>2 DEF Message, UnsubscribePush
    <3>3. QED
      BY <2>2, <3>1, <3>2 DEF ServerUnsubscribes, Forget
  <2>3. QED
    BY <2>1, <2>2
<1>7. \A n \in Int : Arriving(n)' = IF n = last THEN {m} ELSE Arriving(n)
  BY <1>1, <1>3, <1>4, <1>6, Appends
<1>8. \A s, i : Owns(s, i)' <=> Owns(s, i)
  BY <1>3 DEF Owns
<1>9. \A n \in Int, s \in Subs, i \in PushIds :
        (Granted(n, s, i) => n < last) /\ (Granted(n, s, i)' => Granted(n, s, i))
  BY <1>1, <1>3, <1>6, <1>7, <1>8, <1>4, LogBounds DEF Granted
<1>10. \A n \in Int, d \in Channels, i \in PushIds :
         /\ Used(n, d, i)' => Used(n, d, i) \/ (n = last /\ d = c /\ i = id)
         /\ Withdrawn(n, d, i) => n < last
         /\ Withdrawn(n, d, i)' => Withdrawn(n, d, i) \/ (n = last /\ d = c /\ i = id)
  BY <1>1, <1>6, <1>7, <1>4, <1>5, LogBounds DEF Used, Withdrawn
<1>11. \A n \in Int, d \in Channels, i \in PushIds : Withdrawn(n, d, i) => Withdrawn(n, d, i)'
  BY <1>7, <1>10 DEF Withdrawn
<1>12. \/ serverIDs' = serverIDs
       \/ serverIDs' = [serverIDs EXCEPT ![c] = NotSubscribed] /\ Withdrawn(last, c, id)'
  BY <1>6, <1>7, <1>5 DEF Withdrawn
<1>13. QED
  BY <1>1, <1>2, <1>3, <1>5, <1>9, <1>10, <1>11, <1>12, LogGetsUse

\* resubscribe sends a command and the server grants an id.
LEMMA LogResubscribe ==
  ASSUME Context, Log, Session, NEW t \in Subs, Resubscribe(t)
  PROVE  Log'
<1>1. Types /\ TypeOK /\ Registration /\ Len(wire) \in Nat
  BY DEF Context, Types
<1>2. serverIDs \in [Channels -> PushIds \cup {NotSubscribed}]
  BY <1>1 DEF TypeOK, PushIds
<1>3. UNCHANGED <<held, connGeneration, state, applying, pushID, subscribeAttempt>>
  BY DEF Resubscribe
<1>4. PICK last \in Int : last = Len(wire) + 1
  BY <1>1
<1>5. PICK id \in PushIds :
        /\ id \in Ids => \A d \in Channels : serverIDs[d] # id
        /\ serverIDs' = [serverIDs EXCEPT ![ChannelOf[t]] = id]
        /\ wire' = Append(wire, [type |-> "reply", sub |-> t, id |-> id,
                                attempt |-> subscribeAttempt[t], generation |-> connGeneration])
  BY RegistryIds DEF Resubscribe, PushIds
<1> DEFINE m0 == [type |-> "reply", sub |-> t, id |-> id,
                 attempt |-> subscribeAttempt[t], generation |-> connGeneration]
<1>6. m0 \in Message
  BY <1>1 DEF Message, Reply, TypeOK
<1>7. PICK m \in Message : /\ m = m0 /\ wire' = Append(wire, m)
                           /\ m.type = "reply" /\ m.sub = t /\ m.id = id
  BY <1>5, <1>6
<1> HIDE DEF m0
<1>8. \A n \in Int : Arriving(n)' = IF n = last THEN {m} ELSE Arriving(n)
  BY <1>1, <1>3, <1>4, <1>7, Appends
<1>9. \A s, i : Owns(s, i)' <=> Owns(s, i)
  BY <1>3 DEF Owns
<1>10. \A n \in Int, i \in PushIds : ~Granted(n, t, i)
  <2> SUFFICES ASSUME NEW n \in Int, NEW i \in PushIds, Granted(n, t, i) PROVE FALSE
    OBVIOUS
  <2>1. state[t] = "subscribing" /\ ~inflight[t]
    BY DEF Resubscribe
  <2>2. PICK r \in Arriving(n) : r.type = "reply" /\ r.sub = t
    BY <2>1 DEF Granted, Owns
  <2>3. CASE n = 0
    <3>1. PICK h \in held : IsHead(h) /\ h.found # "current" /\ h.msg = r
      BY <2>2, <2>3 DEF Arriving
    <3>2. h.found = "no"
      BY <1>1, <2>2, <3>1, HeldShape DEF Context, MsgInv, Types
    <3>3. QED
      BY <2>1, <2>2, <3>1, <3>2 DEF Context, InflightInv
  <2>4. CASE n # 0
    BY <2>1, <2>2, <2>4 DEF Arriving, Context, InflightInv
  <2>5. QED
    BY <2>3, <2>4
<1>11. \A n \in Int, s \in Subs, i \in PushIds :
         Granted(n, s, i)' => Granted(n, s, i) \/ (n = last /\ s = t /\ i = id)
  BY <1>3, <1>7, <1>8, <1>9, <1>4, <1>1 DEF Granted
<1>12. ASSUME NEW n \in Int, NEW s \in Subs, NEW i \in PushIds, Granted(n, s, i)
       PROVE  n < last /\ ChannelOf[s] # ChannelOf[t]
  <2>1. n < last
    BY <1>1, <1>4, <1>12, LogBounds
  <2>2. s # t
    BY <1>10, <1>12
  <2>3. subs[ChannelOf[s]] = s
    BY <1>1, <1>12, GrantActive DEF Session, Log
  <2>4. subs[ChannelOf[t]] = t
    BY <1>1 DEF Resubscribe, Registration, ActiveIsRegistered, Session
  <2>5. QED
    BY <2>1, <2>2, <2>3, <2>4
<1>13. \A n \in Int, c \in Channels, i \in PushIds :
         /\ Used(n, c, i) => n < last
         /\ Withdrawn(n, c, i) => n < last
         /\ Used(n, c, i)' <=> Used(n, c, i)
         /\ Withdrawn(n, c, i) <=> Withdrawn(n, c, i)'
  <2>1. \A n \in Int, c \in Channels, i \in PushIds :
          /\ Used(n, c, i) => n < last
          /\ Withdrawn(n, c, i) => n < last
    BY <1>1, <1>4, LogBounds
  <2>2. QED
    BY <1>7, <1>8, <2>1 DEF Used, Withdrawn
<1>14. state[t] = "subscribing" /\ serverIDs[ChannelOf[t]] = NotSubscribed /\ state' = state
  BY DEF Resubscribe
<1>15. QED
  BY <1>2, <1>5, <1>10, <1>11, <1>12, <1>13, <1>14, LogGetsGrant

\* The reader takes a message of the current connection, or of an older one.
LEMMA LogTake ==
  ASSUME Context, Log, Session, Take
  PROVE  Log'
<1>1. Types /\ Len(wire) \in Nat
  BY DEF Context, Types
<1>2. \A n \in Int : /\ Arriving(0) = {}
                     /\ Arriving(n)' = IF n >= 0 THEN Arriving(n + 1) ELSE {}
  BY <1>1, Takes
<1>3. \A s, i : Owns(s, i)' <=> Owns(s, i)
  BY DEF Take, subscription, Owns
<1>4. ASSUME NEW n \in Int, NEW s \in Subs, NEW i \in PushIds, Granted(n, s, i)'
      PROVE  n >= -1 /\ Granted(Before(n), s, i)
  <2>1. subscribeAttempt' = subscribeAttempt
    BY DEF Take, subscription
  <2>2. CASE n = -1
    BY <1>2, <1>3, <1>4, <2>2 DEF Granted, Before
  <2>3. CASE n # -1
    BY <1>2, <1>4, <2>1, <2>3 DEF Granted, Before
  <2>4. QED
    BY <2>2, <2>3
<1>5. ASSUME NEW n \in Int, NEW c \in Channels, NEW i \in PushIds
      PROVE  /\ Used(n, c, i)' => n >= 0 /\ Used(n + 1, c, i)
             /\ Withdrawn(n, c, i) => n >= 1 /\ Withdrawn(n - 1, c, i)'
             /\ Withdrawn(n, c, i)' => n >= 0 /\ Withdrawn(n + 1, c, i)
  <2>1. Withdrawn(n, c, i) => n >= 1
    BY <1>1, <1>2, LogBounds DEF Withdrawn
  <2>2. n >= 1 => Arriving(n - 1)' = Arriving(n)
    <3>1. n >= 1 => \E k \in Int : k = n - 1 /\ k >= 0 /\ k + 1 = n
              /\ Arriving(k)' = Arriving(k + 1)
      BY <1>2
    <3>2. QED
      BY <3>1
  <2>3. Withdrawn(n, c, i) => Withdrawn(n - 1, c, i)'
    BY <2>1, <2>2 DEF Withdrawn
  <2>4. QED
    BY <1>2, <2>1, <2>3 DEF Used, Withdrawn
<1>6. UNCHANGED <<serverIDs, state>>
  BY DEF Take, subscription
<1>7. QED
  BY <1>4, <1>5, <1>6, LogShifts

\* moveToSubscribed accepts the reply of the current attempt, or drops it.
LEMMA LogApply ==
  ASSUME Context, Log, Session, NEW h \in held, ApplyReply(h)
  PROVE  Log'
<1>1. Types /\ TypeOK /\ MsgInv /\ SweptInv /\ ApplyingInv
  BY DEF Context, Types
<1>2. ApplyReplyEffect(h)
  BY <1>1, ApplyReplyStep
<1>3. h.msg \in Message /\ h.msg.id \in PushIds /\ h.msg.sub \in Subs
  BY <1>1, HeldShape, MessageShape, <1>2 DEF Types, ApplyReplyEffect
<1>4. UNCHANGED <<wire, connGeneration, subscribeAttempt, pushID, serverIDs>>
  BY <1>2 DEF ApplyReplyEffect
<1>5. \A n \in Int : n # 0 => Arriving(n)' = Arriving(n)
  BY <1>4 DEF Arriving
<1>6. CASE CurrentReply(h.msg.sub, h.msg)
  <2>1. IsHead(h)
    BY <1>1, <1>2, <1>6 DEF ApplyReplyEffect, CurrentReply, MsgInv, IsHead
  <2>2. /\ Arriving(0) = {h.msg} /\ h.msg.type = "reply" /\ h.found = "no"
        /\ \A k \in held : IsHead(k) => k = h
    BY <1>1, <1>2, <2>1, HeadAlone DEF ApplyReplyEffect
  <2>3. PICK t \in Subs, j \in PushIds : t = h.msg.sub /\ j = h.msg.id
    BY <1>3
  <2>4. Granted(0, t, j)
    BY <1>6, <2>2, <2>3 DEF Granted, CurrentReply
  <2>5. PICK g : /\ held' = (held \ {h}) \cup {g} /\ g.found = "current" /\ g.msg = h.msg
                 /\ g.connection = h.connection
    BY <1>2, <1>6 DEF ApplyReplyEffect, FoundShape
  <2>6. /\ state' = [state EXCEPT ![t] = "subscribed"] /\ applying' = applying \cup {t}
               /\ t \notin applying
    BY <1>2, <1>6, <2>3 DEF ApplyReplyEffect
  <2>7. Arriving(0)' = {}
    BY <1>4, <2>2, <2>5 DEF Arriving, IsHead
  <2>8. ASSUME NEW s \in Subs, NEW i \in PushIds, Owns(s, i)'
        PROVE  (s = t /\ i = j) \/ (s # t /\ Owns(s, i))
    <3>1. CASE s = t
      <4>1. PICK k \in held' : k.found = "current" /\ k.msg.sub = t /\ k.msg.id = i
        BY <2>6, <2>8, <3>1 DEF Owns
      <4>2. k = g
        BY <1>1, <2>5, <2>6, <4>1 DEF ApplyingInv
      <4>3. QED
        BY <2>3, <2>5, <3>1, <4>1, <4>2
    <3>2. CASE s # t
      <4>1. state[s] = "subscribed" /\ (s \in applying' <=> s \in applying)
        BY <1>1, <2>6, <2>8, <3>2 DEF Owns, TypeOK
      <4>2. CASE s \in applying
        <5>1. PICK k \in held' : k.found = "current" /\ k.msg.sub = s /\ k.msg.id = i
          BY <2>8, <4>1, <4>2 DEF Owns
        <5>2. k \in held
          BY <2>3, <2>5, <3>2, <5>1
        <5>3. QED
          BY <3>2, <4>1, <4>2, <5>1, <5>2 DEF Owns
      <4>3. CASE s \notin applying
        BY <1>4, <2>8, <3>2, <4>1, <4>3 DEF Owns
      <4>4. QED
        BY <4>2, <4>3
    <3>3. QED
      BY <3>1, <3>2
  <2>9. \A n \in Int, s \in Subs, i \in PushIds : Granted(n, s, i) => n >= -1
    BY <1>1, LogBounds
  <2>10. ASSUME NEW n \in Int, NEW s \in Subs, NEW i \in PushIds, Granted(n, s, i)'
         PROVE  \/ n = -1 /\ s = t /\ i = j
                \/ Granted(n, s, i) /\ n # 0 /\ (n # -1 => state'[s] = "subscribing")
    <3>1. CASE n = -1
      <4>1. Arriving(n)' = {}
        BY <1>1, <3>1 DEF Arriving, Types
      <4>2. Owns(s, i)'
        BY <2>10, <4>1, <3>1 DEF Granted
      <4>3. QED
        BY <2>8, <3>1, <4>2 DEF Granted
    <3>2. CASE n # -1
      <4>1. n # 0 /\ Granted(n, s, i)
        BY <1>4, <1>5, <2>7, <2>10, <3>2 DEF Granted
      <4>2. s # t /\ state[s] = "subscribing"
        BY <2>4, <3>2, <4>1 DEF Log, GrantsHold, GrantHolds
      <4>3. QED
        BY <1>1, <2>6, <3>2, <4>1, <4>2 DEF TypeOK
    <3>3. QED
      BY <3>1, <3>2
  <2>11. ASSUME NEW n \in Int, NEW c \in Channels, NEW i \in PushIds
         PROVE  /\ Used(n, c, i)' <=> Used(n, c, i)
                /\ Withdrawn(n, c, i)' <=> Withdrawn(n, c, i)
                /\ ~Used(0, c, i) /\ ~Withdrawn(0, c, i)
                /\ n < 0 => ~Used(n, c, i) /\ ~Withdrawn(n, c, i)
    <3>1. ~Used(0, c, i) /\ ~Withdrawn(0, c, i)
      BY <2>2 DEF Used, Withdrawn
    <3>2. n < 0 => ~Used(n, c, i) /\ ~Withdrawn(n, c, i)
      BY <1>1, LogBounds
    <3>3. QED
      BY <1>5, <2>7, <3>1, <3>2 DEF Used, Withdrawn
  <2>12. QED
    BY <1>4, <2>4, <2>9, <2>10, <2>11, LogMoves
<1>7. CASE ~CurrentReply(h.msg.sub, h.msg)
  <2>1. held' = held \ {h} /\ UNCHANGED <<state, applying>> /\ h.found = "no"
            /\ h.msg.type = "reply"
    BY <1>2, <1>7 DEF ApplyReplyEffect
  <2>2. \A s, i : Owns(s, i)' <=> Owns(s, i)
    BY <1>4, <2>1 DEF Owns
  <2>3. \A m : m \in Arriving(0)' => m \in Arriving(0)
    BY <1>4, <2>1 DEF Arriving, IsHead
  <2>4. \A m : m \in Arriving(0) /\ m.type # "reply" => m \in Arriving(0)'
    BY <1>4, <2>1 DEF Arriving, IsHead
  <2>5. \A n \in Int : \A m : m \in Arriving(n)' => m \in Arriving(n)
    BY <1>5, <2>3
  <2>6. \A n \in Int : \A m : m \in Arriving(n) /\ m.type # "reply" => m \in Arriving(n)'
    BY <1>5, <2>4
  <2>7. \A n \in Int, s \in Subs, i \in PushIds : Granted(n, s, i)' => Granted(n, s, i)
    BY <1>4, <2>2, <2>5 DEF Granted
  <2>8. \A n \in Int, c \in Channels, i \in PushIds :
          (Used(n, c, i)' => Used(n, c, i)) /\ (Withdrawn(n, c, i)' <=> Withdrawn(n, c, i))
    BY <2>5, <2>6 DEF Used, Withdrawn
  <2>9. \A n \in Int, s \in Subs, i \in PushIds : Granted(n, s, i)' /\ n # -1
            => state'[s] = "subscribing"
    BY <2>1, <2>7 DEF Log, GrantsHold, GrantHolds
  <2>10. QED
    BY <1>4, <2>7, <2>8, <2>9, LogShrinks, RegistrySubs
<1>8. QED
  BY <1>6, <1>7

\* A subscription that does not hold s.mu owns the id it has registered.
LEMMA OwnsWhenFree ==
  ASSUME NEW s \in Subs, NEW i, state[s] = "subscribed", s \notin applying, pushID[s] = i
  PROVE  Granted(-1, s, i)
BY DEF Granted, Owns

\* The lookup of a push of the current connection finds the right subscription.
LEMMA TargetRight ==
  ASSUME Context, Log, Routed, Session, NEW h \in held, IsHead(h), h.found = "no",
         h.msg.type # "reply"
  PROVE  /\ Target(h.msg) \in Subs => FoundRight(h.msg, Target(h.msg))
         /\ h.msg.type = "unsubscribe" =>
              \A s \in Subs : state[s] = "subscribed" /\ ChannelOf[s] = h.msg.channel
                               => Target(h.msg) = s
<1>1. Types /\ TypeOK /\ MsgInv /\ SweptInv /\ ApplyingInv /\ IdsInv /\ Registration
  BY DEF Context, Types
<1>2. PICK m \in Message : /\ m = h.msg /\ m.id \in PushIds /\ m.channel \in Channels
                           /\ m.type # "reply"
  BY <1>1, HeldShape, MessageShape DEF Types
<1>3. Arriving(0) = {m} /\ applying = {}
  BY <1>1, <1>2, HeadAlone DEF TypeOK
<1>4. Used(0, m.channel, m.id) /\ (m.type = "unsubscribe" => Withdrawn(0, m.channel, m.id))
  BY <1>2, <1>3 DEF Used, Withdrawn
<1>5. ASSUME m.type = "unsubscribe",
             NEW s \in Subs, state[s] = "subscribed", ChannelOf[s] = m.channel
      PROVE  Target(m) = s
  <2>1. pushID[s] \in PushIds /\ Granted(-1, s, pushID[s])
    BY <1>1, <1>3, <1>5, OwnsWhenFree DEF TypeOK, PushIds
  <2>2. GrantHolds(-1, s, pushID[s])
    BY <2>1 DEF Log, GrantsHold
  <2>3. m.id = pushID[s]
    BY <1>2, <1>4, <1>5, <2>2 DEF GrantHolds
  <2>4. CASE m.id # 0
    BY <1>2, <1>3, <1>5, <2>3, <2>4 DEF Routed, Target, PushIds
  <2>5. CASE m.id = 0
    BY <1>1, <1>5, <2>5 DEF Target, Registration, ActiveIsRegistered, Session
  <2>6. QED
    BY <2>4, <2>5
<1>6. ASSUME NEW f \in Subs, f = Target(m), ChannelOf[f] # m.channel
      PROVE  state[f] # "subscribed"
  <2>1. SUFFICES ASSUME state[f] = "subscribed" PROVE FALSE
    OBVIOUS
  <2>2. m.id # 0
    BY <1>1, <1>2, <1>6 DEF Target, Registration
  <2>3. m.id \in Ids /\ subsByID[m.id] = f /\ pushID[f] = m.id
    BY <1>1, <1>2, <1>6, <2>2 DEF Target, IdsInv, PushIds
  <2>4. Granted(-1, f, m.id)
    BY <1>3, <2>1, <2>3, OwnsWhenFree
  <2>5. Between(-1, 0, ChannelOf[f])
    BY <1>2, <1>4, <1>6, <2>3, <2>4 DEF Log, IdsDisjoint
  <2>6. QED
    BY <2>5 DEF Between
<1>7. QED
  BY <1>2, <1>5, <1>6 DEF FoundRight

\* A reader looks the subscription of a push up.
LEMMA LogLookup ==
  ASSUME Context, Log, Routed, Session, NEW h \in held, Lookup(h)
  PROVE  Log'
<1>1. Types /\ TypeOK /\ MsgInv /\ SweptInv /\ ApplyingInv
  BY DEF Context, Types
<1>2. LookupEffect(h)
  BY <1>1, LookupStep
<1>3. UNCHANGED <<wire, connGeneration, subscribeAttempt, pushID, serverIDs, state, applying>>
  BY <1>2 DEF LookupEffect
<1>4. \A n \in Int : n # 0 => Arriving(n)' = Arriving(n)
  BY <1>3 DEF Arriving
<1>5. \A s, i : Owns(s, i)' => Owns(s, i)
  <2>1. \A k \in held' : k.found = "current" => k \in held
    BY <1>2, RegistrySubs DEF LookupEffect, FoundShape
  <2>2. QED
    BY <1>3, <2>1 DEF Owns
<1>6. \A m : m \in Arriving(0)' => m \in Arriving(0)
  <2>1. \A k \in held' : \E g \in held : /\ k.connection = g.connection /\ k.msg = g.msg
                                         /\ k.found # "current" => g.found # "current"
    BY <1>2, RegistrySubs DEF LookupEffect, FoundShape
  <2>2. QED
    BY <1>3, <2>1 DEF Arriving, IsHead
<1>7. \A m : m \in Arriving(0) /\ (m # h.msg \/ Target(h.msg) # NoSub \/ ~IsHead(h))
          => m \in Arriving(0)'
  <2>1. \A k \in held : k # h => k \in held'
    BY <1>2 DEF LookupEffect
  <2>2. Target(h.msg) # NoSub
            => \E g \in held' : /\ g.connection = h.connection /\ g.msg = h.msg
                                                 /\ g.found # "current"
    BY <1>2, RegistrySubs DEF LookupEffect, FoundShape
  <2>3. QED
    BY <1>3, <2>1, <2>2 DEF Arriving, IsHead
<1>8. \A n \in Int, s \in Subs, i \in PushIds : Granted(n, s, i)' => Granted(n, s, i)
  BY <1>3, <1>4, <1>5, <1>6 DEF Granted
<1>9. \A n \in Int, c \in Channels, i \in PushIds :
        (Used(n, c, i)' => Used(n, c, i)) /\ (Withdrawn(n, c, i)' => Withdrawn(n, c, i))
  BY <1>4, <1>6 DEF Used, Withdrawn
<1>10. ASSUME NEW n \in Int, NEW s \in Subs, NEW i \in PushIds, Granted(n, s, i)',
              NEW k \in Int, NEW j \in PushIds, n < k, Withdrawn(k, ChannelOf[s], j)
       PROVE  Withdrawn(k, ChannelOf[s], j)'
  <2>1. PICK m \in Arriving(k) : m.type = "unsubscribe" /\ m.channel = ChannelOf[s] /\ m.id = j
    BY <1>10 DEF Withdrawn
  <2>2. CASE k # 0
    BY <1>4, <2>1, <2>2 DEF Withdrawn
  <2>3. CASE k = 0
    <3>1. n = -1 /\ state[s] = "subscribed"
      BY <1>8, <1>1, <1>10, <2>3, LogBounds DEF Granted, Owns, Arriving
    <3>2. m = h.msg /\ IsHead(h) => Target(h.msg) = s
      BY <1>2, <2>1, <3>1, TargetRight DEF LookupEffect
    <3>3. m \in Arriving(0)'
      BY <1>7, <2>1, <2>3, <3>2, RegistrySubs
    <3>4. QED
      BY <2>1, <2>3, <3>3 DEF Withdrawn
  <2>4. QED
    BY <2>2, <2>3
<1>11. \A n \in Int, s \in Subs, i \in PushIds : Granted(n, s, i)' /\ n # -1
           => state'[s] = "subscribing"
  BY <1>3, <1>8 DEF Log, GrantsHold, GrantHolds
<1>12. QED
  BY <1>3, <1>8, <1>9, <1>10, <1>11, LogShrinks

\* A push is handled; an unsubscribe push with invalidation gives the id up.
LEMMA LogHandle ==
  ASSUME Context, Log, FoundInv, Session, NEW h \in held, HandlePush(h)
  PROVE  Log'
<1>1. Types /\ TypeOK /\ MsgInv /\ SweptInv /\ ApplyingInv
  BY DEF Context, Types
<1>2. HandlePushEffect(h)
  BY <1>1, HandlePushStep
<1>3. /\ UNCHANGED <<wire, connGeneration, subscribeAttempt, serverIDs, applying>>
      /\ held' = held \ {h} /\ h.found \in Subs /\ h.msg.type # "reply"
  BY <1>2, <1>1 DEF HandlePushEffect, MsgInv
<1>4. \A n \in Int : n # 0 => Arriving(n)' = Arriving(n)
  BY <1>3 DEF Arriving
<1>5. ASSUME NEW s \in Subs, NEW i \in PushIds, Owns(s, i)'
      PROVE  Owns(s, i) /\ state'[s] = state[s] 
  <2>1. /\ state'[s] = "subscribed" => state[s] = "subscribed"
        /\ state'[s] = "subscribed" => pushID'[s] = pushID[s]
    BY <1>2, <1>1 DEF HandlePushEffect, TypeOK
  <2>2. QED
    BY <1>3, <1>5, <2>1 DEF Owns
<1>6. \A m : m \in Arriving(0)' => m \in Arriving(0)
  BY <1>3 DEF Arriving, IsHead
<1>7. \A m : m \in Arriving(0) /\ ~(m = h.msg /\ IsHead(h)) => m \in Arriving(0)'
  BY <1>3 DEF Arriving, IsHead
<1>8. \A n \in Int, s \in Subs, i \in PushIds : Granted(n, s, i)' => Granted(n, s, i)
  BY <1>3, <1>4, <1>5, <1>6 DEF Granted
<1>9. \A n \in Int, c \in Channels, i \in PushIds :
        (Used(n, c, i)' => Used(n, c, i)) /\ (Withdrawn(n, c, i)' => Withdrawn(n, c, i))
  BY <1>4, <1>6 DEF Used, Withdrawn
<1>10. ASSUME NEW n \in Int, NEW s \in Subs, NEW i \in PushIds, Granted(n, s, i)',
              NEW k \in Int, NEW j \in PushIds, n < k, Withdrawn(k, ChannelOf[s], j)
       PROVE  Withdrawn(k, ChannelOf[s], j)'
  <2>1. PICK m \in Arriving(k) : m.type = "unsubscribe" /\ m.channel = ChannelOf[s] /\ m.id = j
    BY <1>10 DEF Withdrawn
  <2>2. CASE k # 0
    BY <1>4, <2>1, <2>2 DEF Withdrawn
  <2>3. CASE k = 0
    <3>1. n = -1 /\ Owns(s, i)'
      BY <1>8, <1>1, <1>10, <2>3, LogBounds DEF Granted, Arriving
    <3>2. state[s] = "subscribed" /\ state'[s] = "subscribed"
      BY <3>1, <1>5 DEF Owns
    <3>3. ~(m = h.msg /\ IsHead(h))
      <4>1. SUFFICES ASSUME m = h.msg, IsHead(h) PROVE FALSE
        OBVIOUS
      <4>2. h.found = s
        BY <1>3, <2>1, <3>2, <4>1 DEF FoundInv, FoundRight
      <4>3. state'[s] = "subscribing"
        BY <1>2, <1>1, <2>1, <3>2, <4>1, <4>2 DEF HandlePushEffect, TypeOK
      <4>4. QED
        BY <3>2, <4>3
    <3>4. m \in Arriving(0)'
      BY <1>7, <2>1, <2>3, <3>3
    <3>5. QED
      BY <2>1, <2>3, <3>4 DEF Withdrawn
  <2>4. QED
    BY <2>2, <2>3
<1>11. ASSUME NEW n \in Int, NEW s \in Subs, NEW i \in PushIds, Granted(n, s, i)', n # -1
       PROVE  state'[s] = "subscribing"
  <2>1. state[s] = "subscribing"
    BY <1>8, <1>11 DEF Log, GrantsHold, GrantHolds
  <2>2. QED
    BY <1>2, <1>1, <2>1 DEF HandlePushEffect, TypeOK
<1>12. QED
  BY <1>3, <1>8, <1>9, <1>10, <1>11, LogShrinks

\* A step that leaves the stream alone and adds no grant.
LEMMA LogStays ==
  ASSUME Log, UNCHANGED wire, UNCHANGED <<held, connGeneration>>
             \/ \A n \in Int : Arriving(n)' = Arriving(n),
         \A n \in Int, s \in Subs, i \in PushIds : Granted(n, s, i)' =>
           /\ Granted(n, s, i)
           /\ serverIDs'[ChannelOf[s]] = serverIDs[ChannelOf[s]]
           /\ n # -1 => state'[s] = state[s]
  PROVE  Log'
<1>1. \A n \in Int : Arriving(n)' = Arriving(n)
  BY DEF Arriving, IsHead
<1>2. \A n \in Int, c \in Channels, i \in PushIds :
        (Used(n, c, i)' <=> Used(n, c, i)) /\ (Withdrawn(n, c, i)' <=> Withdrawn(n, c, i))
  BY <1>1 DEF Used, Withdrawn
<1>3. \A n \in Int, s \in Subs, i \in PushIds : Granted(n, s, i)' /\ n # -1
          => state'[s] = "subscribing"
  BY DEF Log, GrantsHold, GrantHolds
<1>4. QED
  BY <1>2, <1>3, LogShrinks, RegistrySubs

\* moveToSubscribed registers the id and unlocks.
LEMMA LogRegister ==
  ASSUME Context, Log, Session, NEW h \in held, RegisterPushID(h)
  PROVE  Log'
<1>1. Types /\ TypeOK /\ MsgInv /\ SweptInv /\ ApplyingInv
  BY DEF Context, Types
<1>2. RegisterPushIDEffect(h)
  BY <1>1, RegisterPushIDStep
<1>3. /\ UNCHANGED <<wire, connGeneration, state, subscribeAttempt, serverIDs>>
      /\ held' = held \ {h} /\ h.found = "current"
  BY <1>2 DEF RegisterPushIDEffect
<1>4. \A n \in Int : Arriving(n)' = Arriving(n)
  BY <1>3 DEF Arriving, IsHead
<1>5. ASSUME NEW s \in Subs, NEW i \in PushIds, Owns(s, i)' PROVE Owns(s, i)
  <2>1. CASE s = h.msg.sub
    BY <1>2, <1>3, <1>5, <1>1, <2>1 DEF RegisterPushIDEffect, Owns, ApplyingInv, TypeOK
  <2>2. CASE s # h.msg.sub
    BY <1>2, <1>3, <1>5, <1>1, <2>2 DEF RegisterPushIDEffect, Owns, TypeOK
  <2>3. QED
    BY <2>1, <2>2
<1>6. \A n \in Int, s \in Subs, i \in PushIds : Granted(n, s, i)' => Granted(n, s, i)
  BY <1>3, <1>4, <1>5 DEF Granted
<1>7. QED
  BY <1>3, <1>4, <1>6, LogStays

\* Unsubscribe supersedes the attempt, gives the id up and tells the server.
LEMMA LogUnsubscribe ==
  ASSUME Context, Log, Session, NEW t \in Subs, Unsubscribe(t)
  PROVE  Log'
<1>1. Types /\ TypeOK /\ MsgInv /\ Registration
  BY DEF Context, Types
<1>2. /\ UNCHANGED <<wire, held, connGeneration, applying>> /\ state[t] # "unsubscribed"
      /\ state' = [state EXCEPT ![t] = "unsubscribed"]
      /\ subscribeAttempt' = [subscribeAttempt EXCEPT ![t] = @ + 1]
      /\ pushID' = [pushID EXCEPT ![t] = 0]
      /\ serverIDs' = [serverIDs EXCEPT ![ChannelOf[t]] = NotSubscribed]
  BY DEF Unsubscribe, MoveToUnsubscribed, Forget, Session
<1>3. \A n \in Int : Arriving(n)' = Arriving(n)
  BY <1>2 DEF Arriving, IsHead
<1>4. ASSUME NEW n \in Int, NEW m \in Arriving(n), m.type = "reply"
      PROVE  m.sub \in Subs /\ m.attempt \in Nat /\ m.attempt <= subscribeAttempt[m.sub]
  <2>1. CASE n = 0
    BY <1>1, <1>4, <2>1, HeldShape, MessageShape DEF Arriving, MsgInv, Types
  <2>2. CASE n # 0
    BY <1>1, <1>4, <2>2, WireShape DEF Arriving, MsgInv
  <2>3. QED
    BY <2>1, <2>2
<1>5. ASSUME NEW s \in Subs, NEW i \in PushIds, Owns(s, i)' PROVE Owns(s, i) /\ s # t
  BY <1>2, <1>5, <1>1 DEF Owns, TypeOK
<1>6. ASSUME NEW n \in Int, NEW s \in Subs, NEW i \in PushIds, Granted(n, s, i)'
      PROVE  Granted(n, s, i) /\ s # t
  <2>1. CASE n = -1 /\ Owns(s, i)'
    BY <1>5, <2>1 DEF Granted
  <2>2. CASE ~(n = -1 /\ Owns(s, i)')
    <3>1. PICK m \in Arriving(n) : /\ m.type = "reply" /\ m.sub = s /\ m.id = i
                                   /\ m.attempt = subscribeAttempt'[s]
      BY <1>3, <1>6, <2>2 DEF Granted
    <3>2. s # t
      BY <1>2, <1>4, <1>1, <3>1 DEF TypeOK
    <3>3. QED
      BY <1>2, <1>1, <3>1, <3>2 DEF Granted, TypeOK
  <2>3. QED
    BY <2>1, <2>2
<1>7. ASSUME NEW n \in Int, NEW s \in Subs, NEW i \in PushIds, Granted(n, s, i)'
      PROVE  serverIDs'[ChannelOf[s]] = serverIDs[ChannelOf[s]] /\ state'[s] = state[s]
  <2>1. Granted(n, s, i) /\ s # t
    BY <1>6, <1>7
  <2>2. subs[ChannelOf[s]] = s
    BY <1>1, <2>1, GrantActive DEF Session, Log
  <2>3. subs[ChannelOf[t]] = t
    BY <1>1, <1>2 DEF Registration, ActiveIsRegistered, Session
  <2>4. QED
    BY <1>2, <1>1, <2>1, <2>2, <2>3, RegistrySubs DEF TypeOK
<1>8. QED
  BY <1>2, <1>3, <1>6, <1>7, LogStays

\* Subscribe starts an attempt.
LEMMA LogSubscribe ==
  ASSUME Context, Log, Session, NEW t \in Subs, Subscribe(t)
  PROVE  Log'
<1>1. Types /\ TypeOK /\ MsgInv /\ Registration
  BY DEF Context, Types
<1>2. /\ UNCHANGED <<wire, held, connGeneration, applying, subscribeAttempt, pushID, serverIDs>>
      /\ \A s \in Subs : state'[s] # state[s]
             => state[s] = "unsubscribed" /\ state'[s] = "subscribing"
  BY <1>1 DEF Subscribe, serverVars, TypeOK
<1>3. \A n \in Int : Arriving(n)' = Arriving(n)
  BY <1>2 DEF Arriving, IsHead
<1>4. \A s \in Subs, i \in PushIds : Owns(s, i)' => Owns(s, i)
  BY <1>2 DEF Owns
<1>5. \A n \in Int, s \in Subs, i \in PushIds : Granted(n, s, i)' => Granted(n, s, i)
  BY <1>2, <1>3, <1>4 DEF Granted
<1>6. \A n \in Int, s \in Subs, i \in PushIds : Granted(n, s, i)' => state'[s] = state[s]
  BY <1>1, <1>2, <1>5, GrantActive DEF Session, Log
<1>7. QED
  BY <1>2, <1>3, <1>5, <1>6, LogStays

\* The other steps do not touch the stream.
LEMMA LogElsewhere ==
  ASSUME Log, UNCHANGED <<wire, held, connGeneration, applying, state, subscribeAttempt,
         pushID, serverIDs>>
  PROVE  Log'
<1>1. \A n \in Int : Arriving(n)' = Arriving(n)
  BY DEF Arriving, IsHead
<1>2. \A s \in Subs, i \in PushIds : Owns(s, i)' => Owns(s, i)
  BY DEF Owns
<1>3. \A n \in Int, s \in Subs, i \in PushIds : Granted(n, s, i)' => Granted(n, s, i)
  BY <1>1, <1>2 DEF Granted
<1>4. QED
  BY <1>1, <1>3, LogStays

\* A session begins with no subscription subscribed and nothing in the stream.
LEMMA LogBegins ==
  ASSUME Context, raced = {}, Reconnect
  PROVE  Log' /\ Routed' /\ FoundInv'
<1>1. Types /\ TypeOK /\ QuietInv /\ SweptInv
  BY DEF Context, Types
<1>2. /\ wire' = <<>> /\ \A h \in held' : ~IsHead(h)'
      /\ \A s \in Subs : state'[s] # "subscribed"
  BY <1>1 DEF Reconnect, QuietInv, SweptInv, serverVars, subscription, IsHead
<1>3. \A n \in Int : Arriving(n)' = {}
  BY <1>2 DEF Arriving
<1>4. \A n \in Int, s \in Subs, i \in PushIds : ~Granted(n, s, i)'
  BY <1>2, <1>3 DEF Granted, Owns
<1>5. Log'
  BY <1>4 DEF Log, GrantsHold, IdsDisjoint, PushIds
<1>6. QED
  BY <1>2, <1>5 DEF Routed, FoundInv

\* Giving an id up takes no entry of another subscription.
LEMMA GiveUpKeepsRouted ==
  ASSUME TypeOK, Routed, NEW t \in Subs, state'[t] # "subscribed",
         \A s \in Subs : s # t => state'[s] = state[s],
         subsByID' = UpdatePushID(t, pushID[t], 0), pushID' = [pushID EXCEPT ![t] = 0],
         applying' = applying
  PROVE  Routed'
<1> SUFFICES ASSUME NEW s \in Subs, NEW i \in Ids,
                    state'[s] = "subscribed", s \notin applying', pushID'[s] = i
             PROVE  subsByID'[i] = s
  BY DEF Routed
<1>1. s # t /\ state[s] = "subscribed" /\ pushID[s] = i
  BY DEF TypeOK
<1>2. subsByID[i] = s
  BY <1>1 DEF Routed
<1>3. i # 0
  BY RegistryIds
<1>4. QED
  BY <1>1, <1>2, <1>3 DEF UpdatePushID

\* Routed survives that subscriptions leave subscribed.
LEMMA RoutedStays ==
  ASSUME Routed, UNCHANGED <<subsByID, pushID, applying>>,
         \A s \in Subs : state'[s] = "subscribed" => state[s] = "subscribed"
  PROVE  Routed'
BY DEF Routed

\* Every step within a session keeps Routed: an id is registered before s.mu is free, and
\* given up only by the subscription that has it.
LEMMA RoutedStep ==
  ASSUME Context, Log, Routed, Session, [Next]_vars, Session'
  PROVE  Routed'
<1>1. Types /\ TypeOK /\ MsgInv /\ SweptInv /\ ApplyingInv
  BY DEF Context, Types
<1>2. ASSUME NEW h \in held, ApplyReply(h) PROVE Routed'
  <2>1. ApplyReplyEffect(h)
    BY <1>2, <1>1, ApplyReplyStep
  <2>2. CASE CurrentReply(h.msg.sub, h.msg)
    BY <1>1, <2>1, <2>2 DEF ApplyReplyEffect, Routed, TypeOK
  <2>3. CASE ~CurrentReply(h.msg.sub, h.msg)
    BY <2>1, <2>3, RoutedStays DEF ApplyReplyEffect
  <2>4. QED
    BY <2>2, <2>3
<1>3. ASSUME NEW h \in held, RegisterPushID(h) PROVE Routed'
  <2>1. RegisterPushIDEffect(h)
    BY <1>3, <1>1, RegisterPushIDStep
  <2>2. PICK t \in Subs, j \in PushIds : t = h.msg.sub /\ j = h.msg.id
    BY <2>1 DEF RegisterPushIDEffect
  <2>3. t \in applying /\ state[t] = "subscribed" /\ Granted(-1, t, j)
    BY <1>1, <2>1, <2>2 DEF RegisterPushIDEffect, ApplyingInv, Granted, Owns
  <2>4. applying = {t}
    <3>1. IsHead(h)
      BY <1>1, <2>1 DEF RegisterPushIDEffect, SweptInv, Session
    <3>2. QED
      BY <1>1, <2>2, <2>3, <3>1, HeadAlone
  <2>5. SUFFICES ASSUME NEW s \in Subs, NEW i \in Ids,
                        state'[s] = "subscribed", s \notin applying', pushID'[s] = i
                 PROVE  subsByID'[i] = s
    BY DEF Routed
  <2>6. subsByID'[i] = IF i = j THEN t ELSE IF i = pushID[t]
            /\ subsByID[i] = t THEN NoSub ELSE subsByID[i]
    BY <2>1, <2>2 DEF RegisterPushIDEffect, UpdatePushID
  <2>7. CASE s = t
    BY <1>1, <2>1, <2>2, <2>5, <2>6, <2>7 DEF RegisterPushIDEffect, TypeOK
  <2>8. CASE s # t
    <3>1. state[s] = "subscribed" /\ s \notin applying /\ pushID[s] = i
      BY <1>1, <2>1, <2>2, <2>4, <2>5, <2>8 DEF RegisterPushIDEffect, TypeOK
    <3>2. subsByID[i] = s
      BY <3>1 DEF Routed
    <3>3. i # j
      <4>1. SUFFICES ASSUME i = j PROVE FALSE
        OBVIOUS
      <4>2. Granted(-1, s, i)
        BY <3>1, OwnsWhenFree
      <4>3. -1 < -1
        BY <2>3, <2>8, <4>1, <4>2 DEF Log, IdsDisjoint
      <4>4. QED
        BY <4>3
    <3>4. QED
      BY <2>6, <2>8, <3>2, <3>3
  <2>9. QED
    BY <2>7, <2>8
<1>4. ASSUME NEW h \in held, HandlePush(h) PROVE Routed'
  <2>1. HandlePushEffect(h)
    BY <1>4, <1>1, HandlePushStep
  <2>2. /\ \A s \in Subs : state'[s] = "subscribed" => state[s] = "subscribed"
        /\ applying' = applying /\ h.found \in Subs
        /\ \A s \in Subs : s # h.found => state'[s] = state[s]
    BY <1>1, <2>1 DEF HandlePushEffect, TypeOK
  <2>3. CASE UNCHANGED <<subsByID, pushID>>
    BY <2>2, <2>3, RoutedStays
  <2>4. CASE /\ h.msg.type = "unsubscribe" /\ state[h.found] # "unsubscribed"
             /\ subsByID' = UpdatePushID(h.found, pushID[h.found], 0)
             /\ pushID' = [pushID EXCEPT ![h.found] = 0]
    <3>1. state'[h.found] # "subscribed"
      BY <1>1, <2>1, <2>4 DEF HandlePushEffect, TypeOK
    <3>2. QED
      BY <1>1, <2>2, <2>4, <3>1, GiveUpKeepsRouted
  <2>5. QED
    BY <2>1, <2>3, <2>4 DEF HandlePushEffect
<1>5. ASSUME NEW t \in Subs, Unsubscribe(t) PROVE Routed'
  <2>1. MoveToUnsubscribed(t) /\ applying' = applying
    BY <1>5 DEF Unsubscribe
  <2>2. /\ state'[t] # "subscribed"
        /\ \A s \in Subs : s # t => state'[s] = state[s]
    BY <1>1, <2>1 DEF MoveToUnsubscribed, TypeOK
  <2>3. CASE pushID[t] # 0
    BY <1>1, <2>1, <2>2, <2>3, GiveUpKeepsRouted DEF MoveToUnsubscribed
  <2>4. CASE pushID[t] = 0
    BY <1>1, <2>1, <2>2, <2>4, RoutedStays DEF MoveToUnsubscribed, TypeOK
  <2>5. QED
    BY <2>3, <2>4
<1>6. ASSUME NEW t \in Subs, Subscribe(t) PROVE Routed'
  BY <1>6, <1>1, RoutedStays DEF Subscribe, registries, TypeOK
<1>7. CASE UNCHANGED <<subsByID, pushID, applying, state>>
  BY <1>7, RoutedStays
<1>8. QED
  BY <1>2, <1>3, <1>4, <1>5, <1>6, <1>7
     DEF Next, Session, NewSubscription, CheckRemove, RemoveSubscription, CheckSubscribe,
         Resubscribe, Sweep, ServerPublishes, ServerUnsubscribes, Take, Lookup,
         ConnectionEnds, DropRegistry, EndSweep, Reconnect, registries, subscription, vars

\* FoundInv survives that pushes are handled and that subscriptions leave subscribed.
LEMMA FoundStays ==
  ASSUME FoundInv, UNCHANGED connGeneration,
         \A k \in held' : IsHead(k) /\ k.found \in Subs => k \in held,
         \A s \in Subs : state'[s] = "subscribed" => state[s] = "subscribed"
  PROVE  FoundInv'
BY DEF FoundInv, FoundRight, IsHead

\* Every step within a session keeps FoundInv.
LEMMA FoundStep ==
  ASSUME Context, Log, Routed, FoundInv, Session, [Next]_vars, Session'
  PROVE  FoundInv'
<1>1. Types /\ TypeOK /\ MsgInv /\ SweptInv /\ ApplyingInv
  BY DEF Context, Types
<1>2. ASSUME NEW h \in held, ApplyReply(h) PROVE FoundInv'
  <2>1. ApplyReplyEffect(h)
    BY <1>2, <1>1, ApplyReplyStep
  <2>2. CASE CurrentReply(h.msg.sub, h.msg)
    <3>1. IsHead(h)
      BY <1>1, <2>1, <2>2 DEF ApplyReplyEffect, CurrentReply, MsgInv, IsHead
    <3>2. \A k \in held' : IsHead(k) => k.found = "current"
      BY <1>1, <2>1, <2>2, <3>1, HeadAlone DEF ApplyReplyEffect, FoundShape
    <3>3. QED
      BY <2>1, <3>2, RegistrySubs DEF ApplyReplyEffect, FoundInv, IsHead
  <2>3. CASE ~CurrentReply(h.msg.sub, h.msg)
    BY <2>1, <2>3, FoundStays DEF ApplyReplyEffect
  <2>4. QED
    BY <2>2, <2>3
<1>3. ASSUME NEW h \in held, RegisterPushID(h) PROVE FoundInv'
  BY <1>3, FoundStays DEF RegisterPushID
<1>4. ASSUME NEW h \in held, HandlePush(h) PROVE FoundInv'
  <2>1. HandlePushEffect(h)
    BY <1>4, <1>1, HandlePushStep
  <2>2. /\ \A s \in Subs : state'[s] = "subscribed" => state[s] = "subscribed"
        /\ held' \subseteq held /\ connGeneration' = connGeneration
    BY <1>1, <2>1 DEF HandlePushEffect, TypeOK
  <2>3. QED
    BY <2>2, FoundStays
<1>5. ASSUME NEW h \in held, Lookup(h) PROVE FoundInv'
  <2>1. LookupEffect(h)
    BY <1>5, <1>1, LookupStep
  <2>2. SUFFICES ASSUME NEW k \in held', IsHead(k)', k.found \in Subs
                 PROVE  FoundRight(k.msg, k.found)'
    BY DEF FoundInv
  <2>3. UNCHANGED <<state, connGeneration>>
    BY <2>1 DEF LookupEffect
  <2>4. CASE k \in held
    BY <2>2, <2>3, <2>4 DEF FoundInv, FoundRight, IsHead
  <2>5. CASE k \notin held
    <3>1. Target(h.msg) \in Subs /\ k.found = Target(h.msg) /\ k.msg = h.msg
              /\ k.connection = h.connection
      BY <2>1, <2>5 DEF LookupEffect, FoundShape
    <3>2. IsHead(h)
      BY <2>2, <2>3, <3>1 DEF IsHead
    <3>3. FoundRight(h.msg, Target(h.msg))
      BY <2>1, <3>1, <3>2, TargetRight DEF LookupEffect
    <3>4. QED
      BY <2>3, <3>1, <3>3 DEF FoundRight
  <2>6. QED
    BY <2>4, <2>5
<1>6. ASSUME NEW t \in Subs, Unsubscribe(t) \/ Subscribe(t) PROVE FoundInv'
  BY <1>6, <1>1, FoundStays DEF Unsubscribe, MoveToUnsubscribed, Subscribe, TypeOK
<1>7. ASSUME Take PROVE FoundInv'
  BY <1>7, RegistrySubs, FoundStays DEF Take, subscription
<1>8. CASE UNCHANGED <<held, connGeneration, state>>
  BY <1>8, FoundStays
<1>9. QED
  BY <1>2, <1>3, <1>4, <1>5, <1>6, <1>7, <1>8
     DEF Next, Session, NewSubscription, CheckRemove, RemoveSubscription, CheckSubscribe,
         Resubscribe, Sweep, ServerPublishes, ServerUnsubscribes, ConnectionEnds,
         DropRegistry, EndSweep, Reconnect, subscription, vars

\* Every step within a session keeps Log.
LEMMA LogStep ==
  ASSUME Context, Log, Routed, FoundInv, Session, [Next]_vars, Session'
  PROVE  Log'
<1>1. ASSUME NEW s \in Subs,
         NewSubscription(s) \/ CheckRemove(s) \/ RemoveSubscription(s) \/ CheckSubscribe(s)
      PROVE  Log'
  BY <1>1, LogElsewhere
     DEF NewSubscription, CheckRemove, RemoveSubscription, CheckSubscribe, subscription,
         serverVars
<1>2. CASE UNCHANGED vars
  BY <1>2, LogElsewhere DEF vars, subscription, serverVars
<1>3. QED
  BY <1>1, <1>2, LogSubscribe, LogUnsubscribe, LogResubscribe, LogPush, LogTake, LogApply,
     LogRegister, LogLookup, LogHandle
     DEF Next, Session, Sweep, ConnectionEnds, DropRegistry, EndSweep, Reconnect

\* The client starts with empty registries.
LEMMA RegistryInit == Init => RegistryInv
<1> SUFFICES ASSUME Init PROVE RegistryInv
  OBVIOUS
<1> USE RegistrySubs, RegistryIds DEF Init
<1>1. Types
  <2>1. subs \in [Channels -> Subs \cup {NoSub}] /\ subsByID \in [Ids -> Subs \cup {NoSub}]
    OBVIOUS
  <2>2. wire \in Seq(Message)
    OBVIOUS
  <2>3. TypeOK
    <3>1. serverIDs \in [Channels -> Ids \cup {0, NotSubscribed}]
      OBVIOUS
    <3>2. pushID \in [Subs -> Ids \cup {0}] /\ inflight \in [Subs -> BOOLEAN]
      OBVIOUS
    <3>3. /\ state \in [Subs -> {"unsubscribed", "subscribing", "subscribed"}]
          /\ subscribeAttempt \in [Subs -> Nat]
      OBVIOUS
    <3>4. phase \in Phases /\ connGeneration \in Nat \ {0}
      BY DEF Phases
    <3>5. misrouted \in BOOLEAN
      OBVIOUS
    <3>6. /\ created \subseteq Subs /\ applying \subseteq Subs /\ raced \subseteq Subs
          /\ checked \subseteq {"remove", "subscribe"} \X Subs /\ held = {}
      OBVIOUS
    <3>7. QED
      BY <2>1, <3>1, <3>2, <3>3, <3>4, <3>6, <3>5 DEF TypeOK, Phases
  <2>4. QED
    BY <2>3 DEF Types
<1>2. MsgInv /\ QuietInv /\ InflightInv /\ ApplyingInv /\ IdsInv /\ UniqueIds
  <2>1. Len(wire) = 0
    OBVIOUS
  <2>2. MsgInv
    BY <2>1 DEF MsgInv
  <2>3. QuietInv
    BY <2>1 DEF QuietInv
  <2>4. InflightInv
    BY <2>1 DEF InflightInv
  <2>5. ApplyingInv
    BY DEF ApplyingInv
  <2>6. IdsInv
    BY DEF IdsInv
  <2>7. UniqueIds
    BY DEF UniqueIds, NotSubscribed, PushIds
  <2>8. QED
    BY <2>2, <2>3, <2>4, <2>5, <2>6, <2>7
<1>3. Registration /\ SweptInv
  BY DEF Registration, ActiveIsRegistered, SweptInv
<1>4. \A n \in Int : Arriving(n) = {}
  BY DEF Arriving
<1>5. \A n \in Int, s \in Subs, i \in PushIds : ~Granted(n, s, i)
  BY <1>4 DEF Granted, Owns
<1>6. LogInv
  BY <1>5 DEF LogInv, Log, GrantsHold, IdsDisjoint, Routed, FoundInv, PushIds
<1>7. QED
  BY <1>1, <1>2, <1>3, <1>6 DEF RegistryInv, Context

\* Every step keeps the invariant; only Reconnect begins a session.
LEMMA RegistryStep == RegistryInv /\ [Next]_vars => RegistryInv'
<1> SUFFICES ASSUME RegistryInv, [Next]_vars PROVE RegistryInv'
  OBVIOUS
<1>1. Context'
  BY TypeStep, MsgStep, QuietStep, InflightStep, ApplyingStep, IdsStep, UniqueStep,
     RegistrationStep, SweptStep
     DEF RegistryInv, Context, Types
<1>2. ASSUME Session' PROVE Log' /\ Routed' /\ FoundInv'
  <2>1. raced = {}
    BY <1>2
       DEF Session, Next, NewSubscription, CheckRemove, RemoveSubscription,
           CheckSubscribe, Subscribe, Unsubscribe, Resubscribe, Sweep, ServerPublishes,
           ServerUnsubscribes, Take, ApplyReply, RegisterPushID, Lookup, HandlePush,
           ConnectionEnds, DropRegistry, EndSweep, Reconnect, history, vars
  <2>2. CASE phase = "connected"
    BY <1>2, <2>1, <2>2, LogStep, RoutedStep, FoundStep DEF RegistryInv, LogInv, Session
  <2>3. CASE phase # "connected"
    <3>1. Reconnect
      BY <1>2, <2>3
         DEF Session, Next, NewSubscription, CheckRemove, RemoveSubscription,
             CheckSubscribe, Subscribe, Unsubscribe, Resubscribe, Sweep, ServerPublishes,
             ServerUnsubscribes, Take, ApplyReply, RegisterPushID, Lookup, HandlePush,
             ConnectionEnds, DropRegistry, EndSweep, vars
    <3>2. QED
      BY <2>1, <3>1, LogBegins DEF RegistryInv
  <2>4. QED
    BY <2>2, <2>3
<1>3. QED
  BY <1>1, <1>2 DEF RegistryInv, LogInv, Session

\* The registries and the stream of messages agree, in every state.
THEOREM RegistryInvariant == Spec => []RegistryInv
BY RegistryInit, RegistryStep, PTL DEF Spec

\* A subscription that is not unsubscribed is the registered one of its channel, so that a
\* teardown and the pushes by channel find it.
THEOREM ActiveSubscriptionsRegistered == Spec => []ActiveIsRegistered
<1>1. RegistryInv => ActiveIsRegistered
  BY DEF RegistryInv, Context, Registration
<1>2. QED
  BY <1>1, RegistryInvariant, PTL

\* updateSubscriptionPushID and clearConnectedState leave the id of a subscribed channel
\* leading to its subscription, whichever ids the server reuses.
THEOREM SubscribedRouted == Spec => []SubscribedIsRouted
<1>1. RegistryInv => SubscribedIsRouted
  BY DEF RegistryInv, Context, Types, TypeOK, LogInv, Routed, SubscribedIsRouted, LockFree
<1>2. QED
  BY <1>1, RegistryInvariant, PTL

\* A push that handlePush hands over gets to a subscription of the push's channel.
LEMMA RoutingStep == RegistryInv /\ RightSubscription /\ [Next]_vars => RightSubscription'
<1> SUFFICES ASSUME RegistryInv, RightSubscription, [Next]_vars, raced' = {}, misrouted'
             PROVE  FALSE
  BY DEF RightSubscription
<1>1. PICK h \in held : HandlePush(h)
  BY DEF RightSubscription, Next, NewSubscription, CheckRemove, RemoveSubscription,
         CheckSubscribe, Subscribe, Unsubscribe, Resubscribe, Sweep, ServerPublishes,
         ServerUnsubscribes, Take, ApplyReply, RegisterPushID, Lookup, ConnectionEnds,
         DropRegistry, EndSweep, Reconnect, history, vars
<1>2. raced = {} /\ ~misrouted
  BY <1>1 DEF HandlePush, RightSubscription
<1>3. /\ h.found \in Subs /\ state[h.found] = "subscribed" /\ IsHead(h)
      /\ ChannelOf[h.found] # h.msg.channel
  BY <1>1, <1>2 DEF HandlePush, IsHead
<1>4. phase = "connected"
  BY <1>3 DEF RegistryInv, Context, QuietInv
<1>5. QED
  BY <1>2, <1>3, <1>4 DEF RegistryInv, LogInv, FoundInv, FoundRight

\* No push gets to the subscription of another channel, for any number of channels, ids
\* and reconnects.
THEOREM PushesReachTheirSubscription == Spec => []RightSubscription
<1>1. Init => RightSubscription
  BY DEF Init, RightSubscription
<1>2. QED
  BY <1>1, RoutingStep, RegistryInvariant, PTL DEF Spec
=============================================================================
