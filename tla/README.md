# Verification of centrifuge-go

TLA+ models of the Centrifuge client for Go, checked with TLC, with proofs checked by
TLAPS of the safety properties of all components but the locks. Paths below are
relative to the repository; `PROJECT.json` holds the run list, the map from definitions to
source lines, the hazards, the findings and the theorems.

## The system

A `Client` keeps one websocket connection to a server, reconnects it, and offers
subscriptions to channels and calls on top of it. Handlers of the application run
on one dispatcher goroutine. Nothing is persisted; what is hard is concurrency:
application calls from any goroutine (handlers included), timers, a reader per
transport, callbacks of requests, and goroutines that report disconnects all act on
the same state, each taking `c.mu` or `s.mu` for a short while and acting on what it
read in an earlier lock hold.

| Component | State | Operations | Interacts with | Must hold |
|---|---|---|---|---|
| Callback queue (`queue.go`) | linked list, `notify`, `closed`, `closeCh` | push, close, dispatch | every event of the client and of subscriptions | handlers run once, in order; no lost wakeup; close drains |
| Connection (`client.go`) | `state`, `connectAttempt`, `transport`, timer, token, `refreshRequired` | Connect, Disconnect, Close, SetToken, connect attempt, teardown, disconnect report | transport, GetToken, queue, subscriptions | superseded attempts and transports do no harm; never stranded in connecting; no leaked connection; closed is final |
| Subscription (`subscription.go`) | `state`, `subscribeAttempt`, `invalidations`, `inflight`, timer, token, position | Subscribe, Unsubscribe, subscribe flow, replies, pushes, invalidation | sessions of the connection, GetToken, GetState, server | client and server agree; never stranded in subscribing; nothing stale sent |
| Requests and calls (`client.go`) | `requests`, futures, command id | sendAsync, popRequest, timeout, RPC, Publish, History, ... | connection, subscription | each callback exactly once |
| Token refresh (`client.go`, `subscription.go`) | refresh timers, `connGeneration`, `subscribedSession` | sendRefresh, scheduleSubRefresh | GetToken, server | a refresh ends with its session |
| Server-side subscriptions (`client.go`) | `serverSubs` | connect reply, pushes | connection | events match the server's view |
| Channel compaction (`client.go`) | `subsByID`, `pushID` | register, drop | subscription, pushes | an ID routes to its own session's subscription |
| Recovery and delta (`subscription.go`) | offset, epoch, `prevData` | publications, recovered publications | queue | no publication lost, repeated or decoded on a wrong base |
| Registry (`client.go`) | `subs` | NewSubscription, RemoveSubscription | subscription | a removed subscription stays out |
| Websocket transport (`transport_websocket.go`) | `replyCh`, `closeCh`, `disconnect` | reader, Read, Write, Close | gorilla/websocket | close ends both goroutines |
| Ping supervision (`client.go`) | `delayPing` | ping branch of `handle`, waitServerPing | connection, handlers | a dead connection is noticed, a live one kept |
| Locks and waiting (all) | `c.mu`, `s.mu`, the queue, `reader` | every operation | handlers of the application | no circle of waiting, nobody waits for a handler with a lock held |

Logging, filter builders, codecs, event registries, error types and the backoff
library hold no state of the protocol and are not modelled.

## Modules

| Module | Models | Notes |
|---|---|---|
| `EventFifo` | what the application is promised about handlers | abstract specification |
| `CbQueue` | `queue.go` and its uses in `client.go` | implements `EventFifo` by the mapping `Fifo` |
| `Connection`, `MCConnection` | connection lifecycle | |
| `ConnectionProofs` | | proofs |
| `Subscription`, `MCSubscription` | one subscription, its flow, and the server's view of it | |
| `SubscriptionProofs` | | proofs |
| `Calls`, `MCCalls` | requests, futures and the calls of the application | |
| `CallsProofs` | | proofs |
| `ConnRefresh`, `SubRefresh` | refresh of the connection's and of a subscription's token | |
| `MCRefresh` | | instances of both |
| `RefreshProofs` | | proofs about both |
| `Stream` | what the application is promised about publications | abstract specification |
| `Recovery`, `MCRecovery` | position, recovery and deltas of a subscription, with the callback queue | implements `Stream` by the mapping `Promise` |
| `ServerSubs` | server-side subscriptions, with the callback queue | implements `Stream` for each channel |
| `MCDelivery` | | instances of `Recovery`, with and without GetState, and of `ServerSubs` |
| `ServerSubsProofs` | | proofs about `ServerSubs` |
| `DeliveryProofs` | | proofs about `Recovery`, and about the instances of `MCDelivery` |
| `Registry`, `MCRegistry` | the registries of subscriptions by channel and by id | |
| `RegistryProofs` | | proofs |
| `WebsocketTransport` | the two goroutines of a transport | |
| `Ping` | supervision of pings | discrete time |
| `MCTransport` | | instances of `WebsocketTransport`, `Ping` and `CbQueue` |
| `TransportProofs` | | proofs about these three |
| `LockOrder`, `MCLockOrder` | who waits for whom, over all components | |

Each module keeps the whole control of its component and takes from the others what
it can observe of them: `Calls`, `ConnRefresh`, `Recovery` and the modules after them
see the connection as a state and a number (attempt, generation, transport), whose
behaviour `Connection` shows, and `Recovery` sees `Subscription` the same way. Where
two components meet in one lock hold (a teardown fails requests, moves subscriptions
and drops ids), each module models the part of the hold that is its own, with the
same guards. `LockOrder` composes all of them, reduced to what they lock, queue and
wait for.

`MCRefresh`, `MCDelivery` and `MCTransport` check several components in one run. Their parts share no variable: a behaviour picks a part (`part`) in its
initial state and the others rest, so a run checks each part as if it were alone. The
properties joined there (`BothHaveOneRefresh` is OneRefresh of `ConnRefresh` and of
`SubRefresh`) hold in a part that rests because its initial state satisfies them. The
proofs are about the parts themselves, any two behaviours of which may run side by side.

Definitions named `Faulty...` are variants of the definition they are named after
with one plausible bug (a dropped guard, a missing reset). No specification uses
them; replacing the original by one shows that a property would notice.

### CbQueue

Entries are numbered by the order of the pushes; `cbs` holds all entries ever pushed
with their `next` pointers, so the list surgery of `pushOrClose` and `dispatch` is
modelled as it is. A step is one hold of `q.mu`, one channel operation or the end of
a callback. `RunAsync`, `RunWait` and `Close` may be called by any goroutine, the
dispatcher included (a callback that uses the queue). `inDispatch` compares goroutine
ids parsed from the stack; the model takes the comparison to be exact. The time an
entry waited is left out.

### Connection

A step is one hold of `c.mu`. A run of `startReconnectingIf` is named by the
`connectAttempt` it holds, its transport and reader too, so all superseded runs stay
in the model until they end: `pc`, `res`, `conn`, `reader` and `sentToken` are
functions of the attempt. Calls of `handleTransportDisconnect` are the records in
`reports`, with the stages between its lock holds. `timer` is the armed timer, `fired`
the timer functions that wait for the lock after the timer can no longer be stopped.
Tokens are abstract; `rejected` remembers which ones the client was told are expired.

Left out of these lock holds: futures of calls, server-side subscriptions, the
subscriptions (their side is in `Subscription`), events (their order is `CbQueue`'s
subject; a handler may call anything while one is waited for), and the refresh timer.
The only requests in flight are the connect and one unsubscribe, which stands for the
reports that are tied to no transport. GetToken never returns a rejected token, and
the application does not set one.

### Subscription

A step is one hold of `s.mu`, or a step of the client, the network or the server.
Of the client only the session is left: `up`, then `dropped` (transport reset),
`torn` (connected and `connGeneration` changed, requests failed) and `down` (the
subscription was told). `down` stands for both connecting and disconnected. `flow` is
the one subscribe flow `inflight` stands for; everything that will take `s.mu` later
is a record in `tasks`: calls that passed their first check, replies whose callback
started, pushes that passed the transport check. Messages are queues per direction;
what the server did not read is lost with the session. Replies to requests that timed
out are marked `orphan`. The server is external: it keeps one bit, answers 105 to a
subscribe for a subscription it has, and may reject, fail an unsubscribe, or push.

Tokens and positions are represented by the number of invalidations before they were
asked for, which is all `NothingStaleSent` needs. Publications, refresh, futures and
compaction IDs are left out. A failed write of an unsubscribe behaves as a lost
connection. Unsubscribe takes its `isClosed` check and its lock hold in one step.

### Calls

A call goes through `stage`: the check of the state, a future, the context check, a
request added, written, and waiting; a `Send` ends with the write. A hold of `c.mu` in
which others can get at the requests or the transport is split, with `mu` naming the
holder: the connect command is written before the transport is published, and a
teardown bumps, closes `closeCh` and takes the requests one after the other. `watches`
are the goroutines of sendAsyncOn with the `closeCh` each has read. `MaxCmdID` is
2^32 - 1 in the code; the instances let the ids wrap after three commands. A malformed
reply, a reply lost with its transport, a write that fails, and a context that ends are
separate actions. It is assumed (`Unused`), not shown, that a command id is reused only
when nothing is left of the old command: 2^32 commands are not sent within a read timeout.

### ConnRefresh and SubRefresh

A goroutine that runs `sendRefresh` (`refresh`) is a `flow` with its phase, the session
it was armed for, and what it has read; several may exist because a timer that fired
cannot be stopped. Tokens are named by the number of invalidations before they were
asked for, and by who produced them. The server answers with or without an expiry, or
with a temporary or a permanent error. A refresh whose send fails ends there, as in the
code: `sendAsyncOn` takes the callback back and nobody looks at its error; the failed
write has reported a disconnect, which ends the session.

In `ConnRefresh` a connect attempt goes through the lock holds of the code: it reads the
token and `refreshRequired`, calls GetToken, stores what it returned, dials, resets
`refreshRequired` and sends the token as it is by then, and handles the reply or the
refusal, while reports of other transports, SetToken and teardowns come in between. Only
the current attempt has state: one that is not current any more changes nothing
(`Connection` keeps them). In `SubRefresh` the subscribe is one step; its flow is the
subject of `Subscription`.

### Recovery and Stream

`Stream` says that publications come one after the other, none twice and none left
out, unless the application is told to load its state again (a subscribed event with
Recovered = false, or GetState). `Recovery` has the server's stream (epochs, a history
that may be lost, a replica that knows no position), the client's position and delta
base, and the queue between moving the position and running the handler. A delta is
represented by the publication it was made from, so that a wrong base is visible.
Publications that a former connection's reader applies late are marked `stale`: the
promise makes no statement about them, `recovery_stalepub` shows what they do.
Only recoverable subscriptions are modelled; without recovery nothing is promised.

### ServerSubs

`serverSubs` maps channels to positions. The connect reply is handled in the code's
steps: connected, one lock hold per subscription with a wait for its handlers, removal
of the absent ones. A connection is its attempt; `closes` are the reports of state
invalidation between their lock holds. The server keeps the set of channels it
subscribes the client to, and the streams.

### Registry

The registry by id has a lock of its own inside `s.mu` or `c.mu`, so `moveToSubscribed`
is two steps (`applying` holds `s.mu` in between), and a teardown is `bumped`,
`sweeping`, `connecting`. `RemoveSubscription` and `Subscribe` are a check and an effect
each. The server assigns any id no other channel of the connection has.

### WebsocketTransport

One action per step of the transport's goroutine: read a frame, decode, hand a reply
over (`HandOver` is the rendezvous with the client's `Read`), close. `t.mu` is `holder`,
kept by a write while the peer does not read. A close frame has a code, and a text that
either is JSON, which then gives code and reconnect itself (`null` or `{}`: code 0, no
reconnect), or is not, when the code decides; the instances have the codes at both sides
of every boundary.

### Ping

Time passes in ticks; what needs no time (a ping in the channel, a timer that is due,
the end of a reader) happens before the next tick. In the configuration of the run the
channel holds 2 pings instead of 32, an interval is 2 ticks and the delay 1; the proofs
are for any capacity but 0, any interval and any delay.

### LockOrder

A goroutine runs a path, a sequence of `lock`, `unlock`, `push`, `wait`, ... in the order
of the code; paths of functions are composed as the functions call each other, and the
application's handlers may call anything. Every outcome of a check is possible, so the
model has more behaviours than the code and an absence of deadlock carries over. Read
locks are taken as locks. Left out: locks held around one map, pointer or write (they
are never held while taking another), and waits with a deadline (writes, the close of a
transport, the timeouts of calls). A background goroutine starts at any time instead
of with the `go` that starts it.

## Runs

| Run | Instance | Distinct states | Shows |
|---|---|---|---|
| `connection_races` | GetToken, 2 calls, 2 failures | 1.4 M | superseded attempts, transports and reports do no harm; never stranded; closed is final |
| `connection_live` | no GetToken, 3 calls, 1 failure | 158 000 | SetToken against error 109; connecting ends, Close returns |
| `subscription` | GetState, GetToken, 3 calls, 1 failure | 174 000 | agreement with the server, no 105, nothing stale sent, never stuck |
| `calls` | 1 client call, 1 subscription call, 1 Send, 3 calls of Connect etc., 1 failure, ids wrap after 3 | 565 000 | one result per call, and one for every call |
| `refresh` | connection and subscription; 2 goroutines that refresh, 3 calls, 2 failures, at most 4 of both | 340 000 | one refresh per session, none outlives it, refreshes go on; no token from before an invalidation is used |
| `delivery` | subscription with and without GetState, and 1 server-side channel (the proofs are for any number); 2 publications per epoch, 2 failures, 3 calls (for the channel 2 calls, 2 changes by the server, 2 failures, at most 3 of the latter two) | 1.0 M | refinement of `Stream`, delta bases, positions, server-side events, catching up |
| `registry` | 2 channels, 3 subscriptions, 2 ids, 6 calls, 1 push, 1 failure | 2.6 M | pushes reach the right subscription, active subscriptions are registered |
| `transport` | 8 close codes, JSON texts with 2 codes, 2 frames, 1 writer; pings of 2 sessions; callback queue with 2 callers, 4 pushes | 111 000 | order and reason of the end, no false alarm unless a ping is stolen, both ends are noticed; no lost signal, refinement of `EventFifo` (order, close drains), every push runs, every call returns |
| `locks` | 2 calls, 1 message or background goroutine | 1.6 M | no deadlock, what is waited for comes |
| `connection_untied`, `recovery_stalepub`, `refresh_late` | | | findings, below |

Bounds. `MaxCalls` and `MaxFaults` bound what the application and the environment do;
what the client does by itself is not bounded. The races are between two or three
parties (an old attempt or session, a new one, a call), for which two or three calls
and one or two failures suffice: every `Faulty...` variant is found within them. Each
attempt, session or retry costs a call or a failure, so `MaxAttempts` is never
reached: raising it adds no state. `Subscription` passes with two calls and two failures
as well, but only a third call brings out that a reply of an old attempt must be
refused. Two epochs or sessions, and histories of two publications, are enough to tell
an old one from the current one and a gap from a repetition. `LockOrder` has one
goroutine besides the callers, the dispatcher and the reader; a message and a background
goroutine next to two calls exceed 10 million states, so `MaxOthers` allows either.
Two sessions of `Ping` are needed for an old waiter and a new one.
`CHECK_DEADLOCK` is off because a client whose application stops calling may rest;
circles of waiting are what `NoDeadlock` is about.

Fairness. The Go scheduler runs every goroutine that can run; dials, GetToken,
GetState and handlers return, armed timers fire, and every request has a timeout.
Application calls and failures are never forced. `subscription` assumes that the
client gets connected again after each teardown, which is `ConnectingEnds` plus, after
a disconnect, an application that calls Connect, and that the server answers.
`calls` does not assume that the server answers, contexts end or connections come:
the timeouts are enough. In `refresh` GetToken and handlers return. `CatchesUp` of
`delivery` assumes in addition that a lost connection is replaced and that the server
sends what it has. In `transport` handlers need not return and the peer need not read;
writes have a deadline (`Client.Config.WriteTimeout` is never 0), and a lock that is
released again and again is granted (strong fairness of the deferred Close); for pings
only time and the waiters go on. `locks` has no fairness: a goroutine that waits for ever
waits for one that waits (`NoDeadlock`) or for what will never come (`AwaitedComes`).

### Exceptions in properties

`ServerAgrees` and `NeverAlreadySubscribed` do not hold after two races, which the
variable `history` records: a push applied after its session ended (`stalePush`), and
`inflight` read between its reset by a subscribe callback and the lock hold that
applies the outcome (`outcomePending`). In all other behaviours the properties hold.
The other modules record such races in the same way:
* `Recovery`: a publication applied after its connection ended (`stale`, `tainted`);
* `Registry`: a subscription removed in the middle of Subscribe (`raced`);
* `ServerSubs`: a push applied after its connection ended (`strayed`: a subscribe push
  brings back the position of the old subscription), an invalidation that hit a newer
  connection (`late`);
* `ConnRefresh`: an invalidation for an ended connection that hit a later attempt after
  it had read its token (`strayed`, until an attempt calls GetToken again);
* `SubRefresh`: an invalidation for an ended connection that hit a session of the next
  one (`strayed`): a refresh under way then gives up without arming the timer;
* `Ping`: a ping taken by another session's waiter (`stolen`).

The property without the exception is defined in the module where a comment of the code
states it. Added to the cfg of the run named, each is violated:

| Definition | Module, run | What happens |
|---|---|---|
| `ConnectCarriesToken` | `Connection`, `connection_races` with 3 calls | `invalidateConnectionState` runs after the transport check without the lock and clears the token of an attempt that has read it already: its connect carries no token although GetToken is set (the race of `refresh_late`) |
| `NothingUntracked` | `Subscription`, `subscription` | a resubscribe between the reset of `inflight` and the handling of a permanent error sends a second subscribe; the client ends unsubscribed, the server subscribed |
| `StalePushHarmless` | `Subscription`, `subscription` with 2 failures | an unsubscribe push checked before a reconnect and applied after it unsubscribes the subscription of the new session |
| `RemovedStaysUnsubscribed` | `Registry`, `registry` | RemoveSubscription between the check and the effect of Subscribe leaves a removed subscription that subscribes and gets nothing |
| `IdsOfItsOwnSession` | `Registry`, `registry` | a subscribe reply whose generation was checked before a teardown registers its id after the registry was dropped; the subscription the old entry leads to is not subscribed, so no publication gets to a wrong handler (`RightSubscription` holds) |
| `KeepsPositions` | `ServerSubs`, `delivery` | an invalidation that hits a newer connection between connect command and reply leaves a position with the right epoch and offset 0, and publications are delivered twice if the connection ends before they were handled |
| `NoFalseAlarm` | `Ping`, `transport` | the waiter of an ended session, alive because its reader waits for a handler, takes pings of the next session, which is then ended without need |

### Findings

* `connection_untied`: a failed unsubscribe or a subscribe timeout calls
  `handleDisconnect`, which is tied to no transport; delayed past Disconnect() and
  Connect() it tears down the newer connection.
* `recovery_stalepub`: a publication push checked before a reconnect and applied after it
  is delivered a second time and moves the position of the new session back.
* `refresh_late`: a report of code 3014 whose transport was checked before Disconnect()
  and Connect() invalidates the state when the next attempt has read its token already;
  the attempt resets `refreshRequired` and connects with no token, although GetToken is
  configured (or, if it waits for GetToken, with a token asked for before the invalidation).

Each of these needs a goroutine to be delayed between two lock holds (`NoFalseAlarm`: a
slow handler); `PROJECT.json` quotes the comments and tests the three findings contradict.

## Proofs

The theorems hold for every value of the constants: any callers, calls, channels,
subscriptions, ids, tokens and close codes, and any number of attempts, sessions,
messages and failures (the bounds are any natural numbers). Every inductive invariant
was an invariant of the run of its component before it was proved. A proof module has
one lemma per part of its invariant, or per action, and a theorem for each property.

| Module | Properties proved | Inductive invariant |
|---|---|---|
| `ConnectionProofs` | ConnectingHasWork, TransportIsLatest, OpenIsOwned, DownIsQuiet, NeverResendRejected, NoSpuriousTeardown, ClosedIsFinal | `ConnInv` |
| `SubscriptionProofs` | SubscribingHasWork, ServerAgrees, NeverAlreadySubscribed, NothingStaleSent, SubscribedHasSession | `SubInv` |
| `CallsProofs` | ResultOnce, WaitsOnlyWhileComing, ServerAccepts, NoCallForgotten | `CallsInv` |
| `RefreshProofs` | BothHaveOneRefresh, BothEndedChangeNothing, BothUseFreshTokens, BothHaveWork | `ConnInv`, `SubscriptionInv` |
| `RegistryProofs` | RightSubscription, SubscribedIsRouted, ActiveIsRegistered | `RegistryInv` |
| `TransportProofs` | EndIsInOrder, EndedForSilence; of `CbQueue` NoLostSignal, ImplementsFifo, RunInPushOrder, CloseDrains | `TransportInv`, `SupervisionInv`, `QueueInv` |
| `ServerSubsProofs` | AgreesWithServer, ToldWhatIs, RecoversFromWhatWasSeen, StreamSpec | `SideInv` |
| `DeliveryProofs` | DeltasFitTheirBase, ServerSubsAgree, BothRecoverFromWhatWasSeen, BothFollowStream | `RInv`; `SideInv` |

Type correctness is part of each invariant and, but for one number in `Subscription` and
the bounds of epochs and offsets in `ServerSubs`, the `TypeOK` of the module follows from it.

`ConnectionProofs`. `ConnInv` joins TypeOK with
* `Shape`: TransportIsLatest, OpenIsOwned and DownIsQuiet need each other, and that
  attempts beyond `connectAttempt` are untouched, that an attempt has no transport
  before its dial, and that the current attempt owns the transport while its connect
  is pending;
* `ConnectingHasWork`, inductive once Shape is known;
* `TokenInv`: a rejected token is still stored only while `refreshRequired` is set, and
  the current attempt dials, and has sent its connect, with a token not rejected.

The action properties follow from the same invariant. Assumptions: tokens are positive
numbers, the bounds are natural numbers.

`SubscriptionProofs`. That client and server agree when all is settled says nothing of the
states in between, where commands, replies, pushes and tasks are under way. `WillInv`
does: `Will` is what the server will have once it has taken every command of the session,
`Expected` that the client is subscribed or a flow or task will make it so; the first
implies the second unless the session is `Doomed`, that is, its end is reported or about
to be. The other direction follows the reply of the last subscribe from `toClient`
(`RepliedInv`) to a task (`OkInv`) to the state subscribed (`SubscribedInv`). Both need the
order of the streams (`LastInv`, `LiveInv`, `OrphanInv`, `PairsInv`), one outcome per
session at a time (`OutcomeInv`), and that the reader applies a reply before it takes the
next push (`ReaderInv`). `FreshInv` says that what a flow holds is the newest or the flow
is overtaken by the number of invalidations. The exceptions in the two properties
(`history`) are needed: without them the properties are violated (Exceptions in properties).

`CallsProofs`. A call is finished by whoever takes it out of the table or of a map of
futures, so the invariant says where each call is: a call in the table is there once,
under its own id and without a result (`TableInv`), the maps hold exactly the calls that
wait in them (`FutureInv`), and whoever is in neither and not done has no result
(`ResultInv`). A failed send deletes the entry of its id, which is therefore its own or
nobody's; ids wrap, so this needs that none is reused while something is left of its old
command. `LinkInv`: the transport is absent during a teardown and before the connect
command is written. Assumptions: the kinds of calls are
disjoint, and the ids of a behaviour start within their range.

`RefreshProofs`. The timer and every goroutine carry the number of the session they are of,
and no number is above the current one; so a new session starts without a refresh, and
then each step hands the one refresh on or ends it; one whose write failed leaves the
report that ends the session behind. Tokens: one that was fetched is as recent as the
invalidations when it was asked for; the connection marks an older one with
`refreshRequired`, a subscription refuses to store it. `FreshInv` follows a connect
attempt: one that finds the mark asks for a fresh token, one that finds none has a fresh
token stored, and a report of its own session cannot reach it, so only an invalidation of
an earlier connection spoils what it sends (`strayed`). Assumptions: finitely many
goroutines (OneRefresh counts them), and bounds that are natural numbers.

`RegistryProofs`. What the client knows lags behind what the server knows by the messages in
between. `RegistryInv` reads the session as one stream of positions: what subscriptions have
registered or are about to (-1), the message a reader holds (0), the wire (1 and up). A
position grants an id, uses it or withdraws it; grants agree with what the server has
(`GrantsHold`), and two channels use one id only with a withdrawal in between
(`IdsDisjoint`). A push at position 0 has only what is registered before it, so its lookup
finds the right subscription; a teardown empties the stream. Assumptions: every
subscription has a channel, and ids are positive numbers other than the client's mark
for "not subscribed" (`RegistrySubs`, `RegistryIds`; 0 in a push means that it names its
channel).

`TransportProofs`. `StreamInv`: what the client got, the rest of the frame being decoded, and
the frames on the wire, each at its place, are what the peer sent. `EndInv`: a goroutine
that stopped at a close frame has read and decoded every frame before it, at a broken
connection has no reason, and at a reply that cannot be decoded stands before it; unless the
transport was closed on this side. For the pings `PatienceInv`: as long as no other waiter
took a ping, the time left to the current waiter and the time since the last ping add up to
at least what is allowed, and a ping just read is in the channel or was taken by it.
For the queue RunInPushOrder is not inductive: it says nothing of the list. `QueueInv` adds
that the number of taken entries determines `head` and `tail`, that untaken entries are
linked in a row (`ListInv`), and where the stop entry may be (`StopInv`); all pushes share
`PushKeepsInv`, and the refinement of `EventFifo` follows step by step.
Assumptions: the codes of close frames and of their texts are numbers, nobody is no writer, the channel holds at least one ping,
the dispatcher is not a caller.

`DeliveryProofs`. Deltas are decoded when messages arrive, handlers run later, and the
position is moved at either time, so the invariant of `Recovery` has two halves. `ChainInv`
is about what arrives: in `Ahead`, the messages the client has yet to handle with the
publication the server would send next, each publication is made against the one before it
and follows its position; `FirstInv` ties the first of them to `prevData`. That no reply
stands in the middle of a live stream needs that at most one subscribe is under way
(`AskInv`). `WalkInv` is about what is queued: the entries of the queue lead the application
from `seen` to a position v, one `Moves` per entry, and v is what the recorded position, a
subscribe on its way and a recovered reply stand for. Recovered publications move the
position when they are delivered; `LiveInv` says that theirs is then the last entry that
is not stale, and `EpochInv` that no publication to come is of an older epoch, so the
position never falls behind. DeltasFitTheirBase, RecoversFromWhatWasSeen and the refinement
of `Stream` follow step by step. The lemmas hold with GetState and without (`StepOf`), so
the invariant is that of both instances of the run (`PartsInvariant`). Assumptions: the
bounds are natural numbers and GetState is set or not.

`ServerSubsProofs`. The client's map is changed by connect replies, pushes, teardowns and
invalidations of several goroutines, and each change is told to the application later.
`SideFlow` reads the messages of a connection as moves of a view of each channel: from the
client's view the message in the reader's hands and then the wire lead to the server's view
(`FlowMove`: a subscribe finds the channel gone, an unsubscribe and a publication find it
there, a publication follows the position before it). That the views start together on
every connection needs that the connect reply is handled first and once (`SideOpen`) and a
reader holds one message (`SideReader`). `SideTold` reads the callback queue the same way,
from what the application was told to what the client has. For each channel a reader's step
either does nothing or does what it holds (`HandleCases`), which keeps the steps apart that
store the subscriptions of one reply one by one. Both parts end with `strayed`, as the
properties do.

For the positions and the refinement of `Stream` the queue is read a third time:
`SideSeen` says that its entries lead the application from `seen` to a position v, and that
v is what a subscription that the server can recover has recorded (`PosRight`), what a
connect reply under way recovers from (`RepliesRight`), and what the recovered publications
still to be delivered follow, up to the client's view (`LivesRight`). Delivering one of
those writes the position of the subscription from the queue, behind whatever the reader
could have stored meanwhile; `SideOrder` says that it cannot have: the entry is the last of
the queue while its connection is current, because the reader waits for it, a message is
taken only when the events of the one before have run, and a close is reported with its
invalidation after all that the connection carried. `SideSent` says that what is sent,
held, queued and stored are publications of the server, in a row, so a delivery is one of
`Stream`. `SideSeen` ends with `strayed` or `late`, as the two properties do.
Assumptions: MaxPublished is a natural number and recoverable channels are channels.

`MCDelivery` names the state of `ServerSubs` its own way, so `DeliveryProofs` shows that the
instance of `ServerSubsProofs` takes the steps of the one that is model-checked and makes
the same promise (`PushedNext`, `PushedPromise`), and joins its theorems with those of
`Recovery`.

### Only model-checked

* Liveness (EveryPushRuns, CallsReturn, ConnectingEnds, CloseEnds, SubscribingEnds,
  EveryCallAnswered, BothGoOn, CatchesUp, EndsAreNoticed, SilenceIsNoticed): fairness and
  ENABLED are out of the prover's reach.
* `LockOrder` (NoDeadlock, AwaitedComes): its paths are folds over the set of
  subscriptions, and what a fold computes needs an induction over data.
* That `unsubs` of `Subscription` never gets below 0 (a part of its TypeOK): a count of the
  unsubscribes in two sequences.

## Not modelled

* Reconnect and resubscribe delays: they come from a backoff library, and a timer may
  fire at any time in the models.
* Codecs, event structures, error types, filter builders and logging: conversions
  without state.
* Join and leave pushes: they change nothing and queue an event like a publication
  (their locks are in `LockOrder`).
* The proxy and TLS options of the dialer.
* Publications of wildcard and keyed channels, whose epoch is not adopted.
* Subscribe() that passes its check before Close(): the subscription stays subscribing
  on a closed client; nothing in the repository says what should hold.
