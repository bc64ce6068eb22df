------------------------------ MODULE Registry ------------------------------
(***************************************************************************)
(* Which subscription a push reaches (client.go, subscription.go): the     *)
(* registry of subscriptions by channel, changed by NewSubscription and    *)
(* RemoveSubscription, and the registry by numeric id that the server      *)
(* assigns per connection (channel compaction), changed when a subscription*)
(* subscribes or unsubscribes and dropped when a connection ends.          *)
(*                                                                         *)
(* The registry by id has a lock of its own, taken while s.mu or c.mu is   *)
(* held, so a step here is one access to it, one hold of s.mu or one hold  *)
(* of c.mu; what is done under a lock in several steps excludes the other  *)
(* holders of that lock.  Commands reach the server at once and in order.  *)
(***************************************************************************)
EXTENDS Naturals, Sequences

CONSTANTS
  Channels,
  Subs,         \* Subscription values the application may get
  ChannelOf,    \* the channel of each
  Ids,          \* ids the server assigns; 0 is not negotiated
  NoSub,
  MaxCalls,     \* bound: calls of the application
  MaxPushes,    \* bound: publications
  MaxFaults     \* bound: lost connections and unsubscribe pushes

ASSUME RegistryBounds == MaxCalls \in Nat /\ MaxPushes \in Nat /\ MaxFaults \in Nat
ASSUME RegistrySubs ==
  ChannelOf \in [Subs -> Channels] /\ {NoSub, "no", "current"} \cap Subs = {}

VARIABLES
  phase,          \* of the connection and its teardown, see Phases
  connGeneration, \* also names the connections
  subs, subsByID,
  created,        \* subscriptions that exist
  state, subscribeAttempt, inflight, pushID,
  applying,       \* subscriptions whose lock moveToSubscribed holds
  checked,        \* calls between the check and the effect of Subscribe, RemoveSubscription
  serverIDs,      \* the server's subscriptions of the connection, with their ids
  wire,           \* messages of the connection
  held,           \* messages taken by readers and not handled, with what they found
  misrouted,      \* history: a push got to the subscription of another channel
  raced,          \* history: subscriptions removed between check and effect of Subscribe
  calls, pushes, faults

registries == <<subs, subsByID, created>>
subscription == <<state, subscribeAttempt, inflight, pushID, applying>>
serverVars == <<serverIDs, wire>>
history == <<misrouted, raced>>
budget == <<calls, pushes, faults>>
vars == <<phase, connGeneration, registries, subscription, checked, serverVars, held, history,
          budget>>

NotSubscribed == 1000
ASSUME RegistryIds == Ids \subseteq Nat \ {0, NotSubscribed}

Phases == {"connected", "bumped", "sweeping", "connecting"}

\* A teardown holds c.mu throughout.
MuFree == phase \in {"connected", "connecting"}

Init ==
  /\ phase = "connected" /\ connGeneration = 1
  /\ subs = [c \in Channels |-> NoSub] /\ subsByID = [i \in Ids |-> NoSub] /\ created = {}
  /\ state = [s \in Subs |-> "unsubscribed"] /\ subscribeAttempt = [s \in Subs |-> 0]
  /\ inflight = [s \in Subs |-> FALSE] /\ pushID = [s \in Subs |-> 0] /\ applying = {}
  /\ checked = {}
  /\ serverIDs = [c \in Channels |-> NotSubscribed] /\ wire = <<>> /\ held = {}
  /\ misrouted = FALSE /\ raced = {}
  /\ calls = 0 /\ pushes = 0 /\ faults = 0

ApplicationCalls == calls < MaxCalls /\ calls' = calls + 1 /\ UNCHANGED <<pushes, faults>>
Fault == faults < MaxFaults /\ faults' = faults + 1 /\ UNCHANGED <<calls, pushes>>
NoFault == UNCHANGED budget

------------------------------------------------------------------------------
(* Variants of the definitions below with a bug planted; used to check that *)
(* the properties notice it.                                                *)

FaultyUpdatePushID(s, old, new) ==
  [i \in Ids |-> IF i = new THEN s ELSE IF i = old THEN NoSub ELSE subsByID[i]]
FaultyRegistered(s) == TRUE
FaultyCurrentReply(s, msg) ==
  /\ state[s] = "subscribing"
  /\ subscribeAttempt[s] = msg.attempt

------------------------------------------------------------------------------
(* Parts of several actions                                                 *)

\* updateSubscriptionPushID
UpdatePushID(s, old, new) ==
  [i \in Ids |-> IF i = new THEN s
                 ELSE IF i = old /\ subsByID[i] = s THEN NoSub ELSE subsByID[i]]

\* Subscribe looks at the registry before it takes s.mu.
IsRegistered(s) == subs[ChannelOf[s]] = s

\* RemoveSubscription removes the subscription only if it is the registered one.
Registered(s) == subs[ChannelOf[s]] = s

\* clearConnectedState drops the registry by id.
AfterDrop == [i \in Ids |-> NoSub]

\* moveToSubscribed applies a reply of the current attempt and connection.
CurrentReply(s, msg) ==
  /\ state[s] = "subscribing"
  /\ subscribeAttempt[s] = msg.attempt
  /\ connGeneration = msg.generation

LockFree(s) == s \notin applying

Forget(c) == serverIDs' = [serverIDs EXCEPT ![c] = NotSubscribed]

------------------------------------------------------------------------------
(* Calls of the application                                                 *)

NewSubscription(s) ==
  /\ ApplicationCalls
  /\ MuFree /\ s \notin created /\ subs[ChannelOf[s]] = NoSub
  /\ created' = created \cup {s}
  /\ subs' = [subs EXCEPT ![ChannelOf[s]] = s]
  /\ UNCHANGED <<phase, connGeneration, subsByID, subscription, checked, serverVars, held,
                 history>>

\* RemoveSubscription reads the state ...
CheckRemove(s) ==
  /\ ApplicationCalls
  /\ s \in created /\ LockFree(s) /\ state[s] = "unsubscribed"
  /\ checked' = checked \cup {<<"remove", s>>}
  /\ UNCHANGED <<phase, connGeneration, registries, subscription, serverVars, held, history>>

\* ... and removes the subscription later.
RemoveSubscription(s) ==
  /\ MuFree /\ <<"remove", s>> \in checked
  /\ checked' = checked \ {<<"remove", s>>}
  /\ subs' = IF Registered(s) THEN [subs EXCEPT ![ChannelOf[s]] = NoSub] ELSE subs
  /\ raced' = IF state[s] # "unsubscribed" \/ <<"subscribe", s>> \in checked
              THEN raced \cup {s} ELSE raced
  /\ NoFault
  /\ UNCHANGED <<phase, connGeneration, subsByID, created, subscription, serverVars, held,
                 misrouted>>

\* Subscribe asks whether the subscription is registered ...
CheckSubscribe(s) ==
  /\ ApplicationCalls
  /\ MuFree /\ s \in created
  /\ IsRegistered(s)
  /\ checked' = checked \cup {<<"subscribe", s>>}
  /\ UNCHANGED <<phase, connGeneration, registries, subscription, serverVars, held, history>>

\* ... and changes the state later.
Subscribe(s) ==
  /\ <<"subscribe", s>> \in checked /\ LockFree(s)
  /\ checked' = checked \ {<<"subscribe", s>>}
  /\ state' = [state EXCEPT ![s] = IF @ = "unsubscribed" THEN "subscribing" ELSE @]
  /\ NoFault
  /\ UNCHANGED <<phase, connGeneration, registries, subscribeAttempt, inflight, pushID,
                 applying, serverVars, held, history>>

MoveToUnsubscribed(s) ==
  /\ state' = [state EXCEPT ![s] = "unsubscribed"]
  /\ subscribeAttempt' = [subscribeAttempt EXCEPT ![s] = @ + 1]
  /\ subsByID' = IF pushID[s] # 0 THEN UpdatePushID(s, pushID[s], 0) ELSE subsByID
  /\ pushID' = [pushID EXCEPT ![s] = 0]

\* The unsubscribe is sent in the same hold of s.mu.
Unsubscribe(s) ==
  /\ ApplicationCalls
  /\ LockFree(s) /\ state[s] # "unsubscribed"
  /\ MoveToUnsubscribed(s)
  /\ IF phase = "connected" THEN Forget(ChannelOf[s]) ELSE UNCHANGED serverIDs
  /\ UNCHANGED <<phase, connGeneration, subs, created, inflight, applying, checked, wire,
                 held, history>>

------------------------------------------------------------------------------
(* Subscribing                                                              *)

\* A subscribe is sent; the server answers with an id that no other channel of the
\* connection has, or without one.
Resubscribe(s) ==
  /\ phase = "connected" /\ LockFree(s)
  /\ state[s] = "subscribing" /\ ~inflight[s]
  /\ serverIDs[ChannelOf[s]] = NotSubscribed
  /\ inflight' = [inflight EXCEPT ![s] = TRUE]
  /\ \E id \in (Ids \ {serverIDs[c] : c \in Channels}) \cup {0} :
       /\ serverIDs' = [serverIDs EXCEPT ![ChannelOf[s]] = id]
       /\ wire' = Append(wire, [type |-> "reply", sub |-> s, id |-> id,
                                attempt |-> subscribeAttempt[s],
                                generation |-> connGeneration])
  /\ NoFault
  /\ UNCHANGED <<phase, connGeneration, registries, state, subscribeAttempt, pushID, applying,
                 checked, held, history>>

\* moveToSubscribed checks the reply and changes the state ...
ApplyReply(h) ==
  /\ h.msg.type = "reply" /\ h.found = "no"
  /\ LET s == h.msg.sub IN
     /\ LockFree(s)
     /\ inflight' = IF h.msg.generation = connGeneration
                    THEN [inflight EXCEPT ![s] = FALSE] ELSE inflight
     /\ IF CurrentReply(s, h.msg)
        THEN /\ state' = [state EXCEPT ![s] = "subscribed"]
             /\ applying' = applying \cup {s}
             /\ held' = (held \ {h}) \cup {[h EXCEPT !.found = "current"]}
        ELSE held' = held \ {h} /\ UNCHANGED <<state, applying>>
  /\ NoFault
  /\ UNCHANGED <<phase, connGeneration, registries, subscribeAttempt, pushID, checked,
                 serverVars, history>>

\* ... and registers the id before it releases s.mu; a teardown may have dropped the
\* registry in between.
RegisterPushID(h) ==
  /\ h.msg.type = "reply" /\ h.found = "current"
  /\ LET s == h.msg.sub IN
     /\ subsByID' = UpdatePushID(s, pushID[s], h.msg.id)
     /\ pushID' = [pushID EXCEPT ![s] = h.msg.id]
     /\ applying' = applying \ {s}
  /\ held' = held \ {h}
  /\ NoFault
  /\ UNCHANGED <<phase, connGeneration, subs, created, state, subscribeAttempt, inflight,
                 checked, serverVars, history>>

------------------------------------------------------------------------------
(* Pushes                                                                   *)

\* The server pushes a publication with the id, or with the name of the channel.
ServerPublishes(c) ==
  /\ pushes < MaxPushes /\ pushes' = pushes + 1 /\ UNCHANGED <<calls, faults>>
  /\ serverIDs[c] # NotSubscribed
  /\ wire' = Append(wire, [type |-> "pub", channel |-> c, id |-> serverIDs[c]])
  /\ UNCHANGED <<phase, connGeneration, registries, subscription, checked, serverIDs, held,
                 history>>

\* The server unsubscribes, to have the client resubscribe; with state invalidated.
ServerUnsubscribes(c) ==
  /\ Fault
  /\ serverIDs[c] # NotSubscribed /\ Forget(c)
  /\ \E invalidated \in BOOLEAN :
       wire' = Append(wire, [type |-> "unsubscribe", channel |-> c, id |-> serverIDs[c],
                             invalidated |-> invalidated])
  /\ UNCHANGED <<phase, connGeneration, registries, subscription, checked, held, history>>

\* The reader takes a message: its transport is current.
Take ==
  /\ phase = "connected" /\ wire # <<>>
  /\ \A h \in held : h.connection # connGeneration
  /\ held' = held \cup {[connection |-> connGeneration, msg |-> Head(wire), found |-> "no"]}
  /\ wire' = Tail(wire)
  /\ NoFault
  /\ UNCHANGED <<phase, connGeneration, registries, subscription, checked, serverIDs, history>>

\* handlePush looks the subscription up, by id or by name ...
Lookup(h) ==
  /\ h.msg.type \in {"pub", "unsubscribe"} /\ h.found = "no"
  /\ h.msg.id = 0 => MuFree
  /\ LET s == IF h.msg.id # 0 THEN subsByID[h.msg.id] ELSE subs[h.msg.channel]
     IN  held' = (held \ {h}) \cup IF s = NoSub THEN {} ELSE {[h EXCEPT !.found = s]}
  /\ NoFault
  /\ UNCHANGED <<phase, connGeneration, registries, subscription, checked, serverVars,
                 history>>

\* ... and hands the push to it, whatever has become of the connection.
HandlePush(h) ==
  /\ h.found \in Subs /\ LockFree(h.found)
  /\ LET s == h.found
     IN  /\ IF h.msg.type = "unsubscribe" /\ state[s] # "unsubscribed"
            THEN /\ state' = [state EXCEPT ![s] = "subscribing"]
                 /\ IF h.msg.invalidated
                    THEN /\ subsByID' = UpdatePushID(s, pushID[s], 0)
                         /\ pushID' = [pushID EXCEPT ![s] = 0]
                    ELSE UNCHANGED <<subsByID, pushID>>
            ELSE UNCHANGED <<state, subsByID, pushID>>
         /\ misrouted' = (misrouted \/ (/\ state[s] = "subscribed"
                                          /\ h.connection = connGeneration
                                          /\ ChannelOf[s] # h.msg.channel))
  /\ held' = held \ {h}
  /\ NoFault
  /\ UNCHANGED <<phase, connGeneration, subs, created, subscribeAttempt, inflight, applying,
                 checked, serverVars, raced>>

------------------------------------------------------------------------------
(* The connection                                                           *)

\* A teardown bumps the generation ...
ConnectionEnds ==
  /\ Fault
  /\ phase = "connected" /\ phase' = "bumped"
  /\ connGeneration' = connGeneration + 1
  /\ serverIDs' = [c \in Channels |-> NotSubscribed] /\ wire' = <<>>
  /\ inflight' = [s \in Subs |-> FALSE]
  /\ UNCHANGED <<registries, state, subscribeAttempt, pushID, applying, checked, held, history>>

\* ... then drops the registry by id ...
DropRegistry ==
  /\ phase = "bumped" /\ phase' = "sweeping"
  /\ subsByID' = AfterDrop
  /\ NoFault
  /\ UNCHANGED <<connGeneration, subs, created, subscription, checked, serverVars, held,
                 history>>

\* ... then moves the registered subscriptions to subscribing, one after the other.
Sweep(s) ==
  /\ phase = "sweeping" /\ subs[ChannelOf[s]] = s
  /\ LockFree(s) /\ state[s] = "subscribed"
  /\ state' = [state EXCEPT ![s] = "subscribing"]
  /\ NoFault
  /\ UNCHANGED <<phase, connGeneration, registries, subscribeAttempt, inflight, pushID,
                 applying, checked, serverVars, held, history>>

EndSweep ==
  /\ phase = "sweeping" /\ phase' = "connecting"
  /\ \A s \in Subs : subs[ChannelOf[s]] = s => state[s] # "subscribed" /\ LockFree(s)
  /\ NoFault
  /\ UNCHANGED <<connGeneration, registries, subscription, checked, serverVars, held, history>>

Reconnect ==
  /\ phase = "connecting" /\ phase' = "connected"
  /\ NoFault
  /\ UNCHANGED <<connGeneration, registries, subscription, checked, serverVars, held, history>>

------------------------------------------------------------------------------
Next ==
  \/ \E s \in Subs :
       \/ NewSubscription(s) \/ CheckRemove(s) \/ RemoveSubscription(s)
       \/ CheckSubscribe(s) \/ Subscribe(s) \/ Unsubscribe(s) \/ Resubscribe(s) \/ Sweep(s)
  \/ \E c \in Channels : ServerPublishes(c) \/ ServerUnsubscribes(c)
  \/ Take
  \/ \E h \in held : ApplyReply(h) \/ RegisterPushID(h) \/ Lookup(h) \/ HandlePush(h)
  \/ ConnectionEnds \/ DropRegistry \/ EndSweep \/ Reconnect

Spec == Init /\ [][Next]_vars

------------------------------------------------------------------------------
(* Properties *)

TypeOK ==
  /\ phase \in Phases /\ connGeneration \in Nat \ {0}
  /\ subs \in [Channels -> Subs \cup {NoSub}] /\ subsByID \in [Ids -> Subs \cup {NoSub}]
  /\ created \subseteq Subs
  /\ state \in [Subs -> {"unsubscribed", "subscribing", "subscribed"}]
  /\ subscribeAttempt \in [Subs -> Nat] /\ inflight \in [Subs -> BOOLEAN]
  /\ pushID \in [Subs -> Ids \cup {0}] /\ applying \subseteq Subs
  /\ checked \subseteq {"remove", "subscribe"} \X Subs
  /\ serverIDs \in [Channels -> Ids \cup {0, NotSubscribed}]
  /\ \A h \in held : h.connection \in 1..connGeneration /\ h.found \in Subs \cup {"no", "current"}
  /\ misrouted \in BOOLEAN /\ raced \subseteq Subs

\* The server reuses ids, on the next connection and after an unsubscribe ("Channel
\* compaction IDs are scoped to a server session", clearConnectedState): no push gets
\* to the subscription of another channel, whichever entries the races of
\* subscribing, unsubscribing and teardown leave behind.  (A subscription removed in
\* the middle of Subscribe is not swept by a teardown, and may register the id of its
\* old session on the next connection: RemovedStaysUnsubscribed is about those.)
RightSubscription == raced = {} => ~misrouted

\* The id of a subscribed channel leads to its subscription: entries of former
\* sessions are replaced, and another subscription that gives its id up does not take
\* this one away.  Otherwise its pushes would be dropped as unknown.
SubscribedIsRouted ==
  \A s \in Subs :
    (/\ state[s] = "subscribed" /\ LockFree(s) /\ phase = "connected" /\ raced = {}
     /\ serverIDs[ChannelOf[s]] = pushID[s] /\ pushID[s] # 0)
    => subsByID[pushID[s]] = s

\* "Pushes and resubscribes reach a Subscription through the client's registry"
\* (Subscribe): a subscription that is not unsubscribed is the registered one of its
\* channel, unless it was removed in the middle of Subscribe.
ActiveIsRegistered ==
  \A s \in Subs \ raced : state[s] # "unsubscribed" => subs[ChannelOf[s]] = s

\* "A removed one would report subscribed and receive nothing" (Subscribe), and
\* "subscription must be unsubscribed to be removed" (RemoveSubscription): said of
\* every subscription.
RemovedStaysUnsubscribed ==
  \A s \in created : state[s] # "unsubscribed" => subs[ChannelOf[s]] = s

\* "Channel compaction IDs are scoped to a server session" (clearConnectedState): a
\* push is looked up only with the ids of the session it was sent in.
IdsOfItsOwnSession ==
  [][\A h \in held :
       (h.msg.type = "pub" /\ h.msg.id # 0 /\ h.found = "no" /\ h \notin held')
         => \/ subsByID[h.msg.id] = NoSub
            \/ ChannelOf[subsByID[h.msg.id]] = h.msg.channel]_vars
==============================================================================
