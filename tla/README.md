# A TLA+ verification project for pusher2

pusher2 is a Pusher-compatible WebSocket server in Go. This directory models
the parts of it in which goroutines, timers and nodes meet, checks them with
TLC on small instances and proves, with TLAPS and for all instances, every
safety property it checks. Line numbers refer to `src/internal/`.

## 1. The system

| Part | State it keeps | Operations | What makes it correct |
|---|---|---|---|
| `Namespace` (namespace.go) | per app: `Channels` (lists of socket IDs), `Sockets`, `Users` | add/remove socket, channel, user; compaction; reads | no empty list has an entry; a removed socket is nowhere |
| `LocalAdapter` (adaptersLocal.go) | namespaces under one mutex, metric gauges | the same per app, broadcast, terminate, clear | the same under concurrent callers; gauges follow |
| `WebSocket`, `Channel`, serve.go | conn, `closed`, `SubscribedChannels`, `PresenceData`, user, one mutex each | Listen, subscribe, unsubscribe, sign in, client event, close, clean up | maps of socket and adapter agree; presence announcements match; close always completes |
| Webhook queue (queues/) | flap detector's pending events and timers, a bounded Go channel | Send, CheckForFlapping, monitorQueue, Shutdown | the receiver ends up with the truth; nothing is stuck |
| `HorizontalAdapter`, `RedisAdapter` | open requests with two Go channels each, a subscriber goroutine | ask all nodes, answer, collect, time out, terminate | answers are neither short nor inflated; every call returns |
| `RedisQueue`, webhook senders | a Redis list and a working list, shared by the nodes | push, move, send, remove, Shutdown | jobs leave in order and once; what a crash leaves behind is accounted for |
| Authorization watch | a timer and a Go channel per socket | wait, signal, close | an authorized socket is not closed; the channel is closed once; no goroutine is left over |
| Event broadcast (apiEvents.go, `Send` of the adapters, `onMessage`) | what Redis has delivered and the node has not read | events and batch_events requests, client events | every subscriber gets an event once, in its node's order |
| Cache (cache/) | last event per cache channel with expiry | SetEx, Get, cleanup | a new subscriber gets the last event |
| Admission (serve.go) and shutdown (server.go) | `server.Closing`, the HTTP listener, the tasks of the shutdown | serveWs, CloseAllLocalSockets, attemptGracefulShutdown | the connection limit; an orderly exit leaves nobody and nothing behind; it ends |
| other HTTP API, metrics, configuration, payloads | none of their own | reads, formatting | not modelled, see section 7 |

How they interact: each connection has a listener goroutine (`Listen`) that
runs the handlers and calls the adapter (`l.mutex`), its own socket
(`w.mutex`) and the queue. Other goroutines close sockets: the authorization
timer, `TerminateUserConnections`, shutdown. With Redis the adapter's reads
become requests to all nodes. Webhook events go through the flap detector's
timers into a bounded channel and from there to HTTP.

What is hard: two mutexes taken in both orders; several critical sections per
request, with other requests in between; a close that races with the handler
of the same socket; timers whose callback has started when they are stopped; a
Go channel that one goroutine closes while another sends; requests whose
answer is late or never comes; membership that changes during a request. The
full list is `hazards` in PROJECT.json, each entry with its line and the
properties that watch it.

## 2. Modules

| Module | Models | Notes |
|---|---|---|
| `Namespace` | namespace.go | constant operators from old maps to new maps, used by the two modules below. A list of IDs is the number of times each ID occurs, because `AddToChannel` appends without looking; a channel without entry is outside the domain |
| `LocalAdapter` | adaptersLocal.go | any number of callers. `updateChannelMetrics` gives the mutex up, so a mutating call is three steps: change, recount, report |
| `Subscription` | websocket.go, channels.go, serve.go | per connection a listener and possibly a closer, one step per critical section of `l.mutex` or `w.mutex`. The mutexes are variables only where a second one is taken under them: `GetChannelMembers` and `closeConnection` |
| `Webhooks` | flapDetector.go, queueAbstract.go, queueSync.go, webhooks/, the shutdown order of server.go | timer callbacks are cut after the ctx check, after the dispatch and before the delete; a send may fail, with or without having told the receiver, or never return |
| `Horizontal` | adaptersHorizontal.go, adaptersRedis.go | caller, waiter and subscriber goroutines of every node; Redis publish/subscribe is external: in order, to the subscribers of the moment. On the nodes of `Flaky` a publish may be lost and `getNumSub` may fail |
| `JobQueue` | | the abstract queue: jobs leave in order, each is handed out once, only what was handed out is settled |
| `RedisQueue` | queueRedis.go, webhooks/ | nodes that crash, exit and restart at any step; a job is its text, the working list a count per text, because LREM removes by value. A command may fail, executed or not (`ReplyLost`, `RemoveFails`). Implements `JobQueue` |
| `Events` | apiEvents.go, `Send` in adaptersHorizontal.go and adaptersLocal.go, `onMessage` in adaptersRedis.go, handleClientEvent and sendCacheIfNeeded in websocket.go, cache/ | a source publishes, sends on its own node and stores, one step each; a subscriber is added and later reads the cache. One app, one cache channel, either cache driver; on the nodes of `Flaky` publishes, SETs and GETs of Redis may fail |
| `AuthWatch` | WatchForAuthentication, signalAuthenticated, closeConnection, Cleanup in websocket.go, initializeWebSocketConnection | one connection, five goroutines; `field` and `chan` are the field userAuthChannel and the channel it points to |
| `Connection` | serveWs and its checks, CloseAllLocalSockets, attemptGracefulShutdown, SyncQueue.Shutdown | handlers, closers and shutdown tasks of one node; the sweep over the sockets follows Go's rules for iterating over a map that changes |
| `MC...` | | constants for TLC |
| `LocalAdapterProofs`, `SubscriptionProofs`, `HorizontalProofs`, `WebhooksProofs`, `RedisQueueProofs`, `EventsProofs`, `AuthWatchProofs`, `ConnectionProofs` | | theorems about the module of that name |

Undefined or fatal behaviour is part of the models: writing to a nil map,
using a nil server after `Cleanup` (`Panic` in `Subscription`), sending on a
closed or nil Go channel (`SendOnClosed`, `SendOnNil` in `Horizontal`), closing
a Go channel twice and the nil fields of a cleaned socket (`crash` in
`AuthWatch`), the nil AbstractQueue at start (`Crash` in `RedisQueue`), a
namespace that is gone between check and use (`lost` in `Connection`), a map
that changes under an iteration (`IterationRaces`).

Correspondence of state, where it is not by name: `life` in `Subscription`
stands for the fields `conn`, `closed` and `server` of a WebSocket; `proc` for
the program counter and locals of its goroutines; `lastEvent` and `debt` are
histories of the announcements made. `phase` in `Webhooks` is the life of one
event, `sending` the event whose send monitorQueue waits for; `calm` and
`failed` (the last send about a key returned an error) are histories. In
`Horizontal`, `resolve` is `requestResolveChan`, `listed` is membership in
`ha.requests`, and `calm`, `stable`, `seen`, `heard`, `closed`, `refused`,
`answered`, `counted` are histories, like the `from` of a response: the code
counts responses and does not look whose they are. `overlapped` and `formerly`
in `LocalAdapter`, `orphan` and `leftover` in `RedisQueue`, `unstored` and
`missed` in `Events` are histories too; those of the other modules are marked
so where they are declared.

How the modules fit together. `Subscription` is `Namespace` under many
connections. `Connection` is the frame around one connection, of which
`Subscription` and `AuthWatch` are the inside: its two steps of a close stand
for theirs, and its queue for `Webhooks`. `Events` runs on the channel lists
that `Subscription` maintains and on the link to Redis that `Horizontal` uses
for requests. `RedisQueue` takes the place of `SyncQueue` behind the flap
detector of `Webhooks`.

Definitions marked "Mutant" are not part of any specification; each is a
plausible bug that a property must detect when it replaces the definition that
follows it.

## 3. Runs

| Run | Instance | Shows |
|---|---|---|
| `local_adapter` | 2 sockets, 2 channels, 2 users, one socket may sign in as either and the other never signs in, 2 callers (symmetric), an ID at most twice in a list | types; no empty entries; removal of a socket clears every channel, also after repeated subscription, and leaves its ID at most with users it was signed in as before; gauges that overlapping calls left wrong are right after the next call alone |
| `redis_queue` | 2 nodes, 2 jobs of three kinds (URL, URL and topic, unparsable), 1 restart | every working entry is in hand or was left by a crash, an exit, a lost reply or a failed LREM, also with equal jobs; a job in hand after Shutdown was moved after its check; a cancelled node moves at most one more job; `JobQueue` is implemented; the list drains unless every node is gone, cancelled or kept by a receiver |
| `events` | 2 nodes, a batch with a bad message, a request, a client event, 1 early and 1 late subscriber, 1 expiry, one node may lose Redis and its commands fail | once and in the node's order; exclusion on the sender's node; no cache that a request stored in holds an event of an earlier one, whichever SETs fail; a subscriber knows the cached event, unless its GET failed or it asked in the gap between send and store; what is published to a subscriber reaches it |
| `auth_watch` | 1 connection, nothing bounded | the auth channel is closed once; a disconnection is counted once unless a write failed; an accepted client is closed by the watch in three named cases only; no goroutine is left over |
| `connection` | 2 attempts, limit 1, shutdown at any time | the limit is exceeded by at most the handlers between check and add, less one; an orderly exit leaves open only connections that were in their handler at the signal; the queue's backlog is taken; the process ends |
| `connection_limit` (violation) | the same | two connections where one is allowed |
| `subscription` | 2 connections of one user, one presence and one plain channel, up to 2 and 1 subscribe requests | no ghost subscribers or members, tracked = subscribed, channel_occupied exactly once per plain channel, no lock cycle, a failed read always ends in removal; no deadlock |
| `eviction` | the same with a closer for one connection, failing sends, oversized frames, member limit 1 | plain channel_occupied still exactly once; whichever goroutine closes first, a closed socket is out of the namespace |
| `eviction_deadlock` (violation) | a closer, no failures | the closer holds `w.mutex` and waits for `l.mutex`, a presence scan holds `l.mutex` and waits for `w.mutex` |
| `presence_occupied` (violation) | two first joins | both count two connections, nobody sends channel_occupied |
| `webhooks` | 3 events, 2 keys, queue of 1, shutdown at any time, sends that fail or hang | the queue keeps its bound; flaps are pairs; waiting events are listed; the receiver's view converges unless the send that should have told it failed; every event settles unless a send hangs |
| `horizontal` | 3 nodes, one starting late, one going deaf, losing what it publishes and failing to ask Redis, 2 sockets of one user on two nodes, 1 call and the TERMINATE a receiver repeats | reading calls: answers contain nobody who was not there and miss nobody who was; every call returns; every node that hears TERMINATE closes the user's sockets in the end, or could not learn the number of subscribers |

Why the bounds are enough. The races need two actors and one shared object
each: two connections on one channel, two tabs of one user, one socket with
two closers, two events of one key. A second channel or key is there to show
that steps on one do not disturb the other. A third webhook event lets a key
flap after it was delivered; a queue of capacity one makes it full with a
single event. A third node makes an answer partial: one response counted, one
missing. Two sockets of one user on two nodes tell sums over sockets, sums
over users and unions apart. Two jobs let two nodes hold equal texts at once
and a third step meet an orphan; one restart brings a node back to a working
list it did not fill. Two attempts for one place are the least that can exceed
a limit. `MaxPushes`, `MaxRestarts`, `MaxExpiries`, `MaxEvents`, `MaxCalls`,
`MaxRequests` and `MaxOccurs` are the bounds; all are guards of the action they
bound. In `horizontal` two requests are under way at once only where a receiver
repeats TERMINATE; that two reading calls do not mix is proved, not checked.

What the runs assume. In `subscription` only a socket's own listener closes
it: that is the normal case of a client that leaves, and the properties that
hold there and not with a second closer are the ones the violation runs and
the hazards name. `WaitingIsListed` and `ViewConverges` are stated for keys
whose events alternated and met no running callback since one last got through
the flap detector alone (`calm`); what happens otherwise is in the model.
`WithinLimit` and `AdmissionInv` are about a node with the local driver: with
the Redis adapter `serve.go:176` asks all nodes, and the answer may be
partial. A Redis command is executed once or not at all, and both are possible
when it returns an error; the retries inside go-redis are not modelled, and
that a command is executed later than its error is reported is not either.
`NothingMissed` is stated for requests during which no node came or went. An
app has one webhook. The 600 ms that `closeConnection` sleeps after
`conn.Close()` are taken to be long enough for a listener blocked in a read to
notice (`Cleanup`).

CHECK_DEADLOCK is off in `eviction`, where the lock cycle is reachable and has
its own run, in `horizontal`, which comes to rest when the bounds on
sockets and requests are reached, and in the runs about ends: of the nodes
(`redis_queue`), the messages (`events`), a connection (`auth_watch`), the
process (`connection`, `connection_limit`).

Steps that are larger than the code's, and why no property sees it. In
`Subscription` a listener whose connection is hung up leaves at the loop top;
the code may read once more and close a second time, which is what `ReadError`
does. The nil member at `websocket.go:453` is an error of the subscribe there,
and the error branch of `conn.Close()` (294), after which the code goes on as
without it, is left out. In `AuthWatch` the close, the 600 ms and `w.closed` are
one step of the closer; a write that fails in between is the failed write of
`Vanish`. A use of `w.server` after `Cleanup` in `Establish` ends the process in
the code; there it leads to no state a property is about. A call of
`Horizontal` counts its own sockets and the subscribers at once; a call
that is answered from local maps changes no state.

Refinement. `ImplementsJobQueue` maps `waiting` to the Redis list and `held`
to the working list without the entries whose send has returned. A crash
changes neither: the job stays held, for ever, which is all `JobQueue`
promises and all the code gives (nothing reads the working list again). A lost
reply is a hand-out to nobody: the job is held for ever in the same way.

## 4. Fairness

Goroutines that can run do run, and timers fire: weak fairness of their steps.
Strong fairness is used twice: for steps that wait for a `sync.Mutex` that
others take in between, because a Go mutex goes into starvation mode and hands
itself to the waiter at the head of its queue; and for sends on a full Go
channel, whose senders are queued in order. Nothing is assumed of clients,
networks, receivers, Redis or operators: subscribing, leaving, failing, going
deaf, answering a webhook and shutting down are never fair, so a send may keep
its goroutine for ever (`http.go:33` sets no timeout), and what `QueueDrains`
and `EveryEventSettles` promise, they promise of nodes where sends return.
`RedisQueue` adds one strong fairness: a BRPOPLPUSH that is repeated every
second while there is a job gets one in the end. Reads of a connection that is
closed, or whose client is gone, return (`AuthWatch`).

## 5. Proofs

Each theorem holds for all values of the constants (any number of nodes,
sockets, channels, jobs, events) and all interleavings. The named ASSUMEs of
the modules are the only assumptions: types of the parameters, finite sets
where something is counted, distinct names for "nobody" and "nothing", at
least one channel (`Subscription`), key (`Webhooks`), node and user
(`Horizontal`), and in `Events` that a message is one event of one source. TLC
evaluates them in every run. Where a theorem needs more, it is a hypothesis in
its statement, and TLC refutes the property without it:

| Theorem | Hypothesis | Without it |
|---|---|---|
| `NoLockCycleHolds` | no goroutine but its listener closes a socket | run `eviction_deadlock` |
| `NoGhostMemberHolds` | the same | the closer copies the socket's channels before the listener has entered the one it joins, and nobody announces member_removed |
| `MapsAgreeHolds` | the same, and every client has a user_id | without a user_id an unsubscribe returns (`websocket.go:926`) before it takes the channel out of `SubscribedChannels` |

**LocalAdapter.** `TypeOKHolds`, `NoEmptyEntriesHolds` (so no `make` in
namespace.go gets a negative capacity), `RemovedFromEveryChannelHolds` and
`RemovedFromOwnUserHolds` (what a step that removes a socket leaves),
`GaugesRecoverHolds`. `TypeOK /\ NoEmptyEntries` is inductive. Types alone do
not suffice, because `AddToChannel` on a missing entry and `DropFromChannels`
on an existing one preserve "no empty list" only for well-typed lists. The
user part needs `ListedUnderOwnUsers` (whoever lists a socket is its user or was:
`formerly`), the gauges need `GaugeInv` (while one call has
`updateChannelMetrics` to itself, the recount it is about to report saw the
channels that exist; when none is in progress and the last had it to itself,
the gauges account for them). The lemmas at the head of the module say what
each map operator does; `SubscriptionProofs` has its own of the operators it
uses.

**Subscription.** `ClosedIsRemovedHolds` without hypothesis: whichever of the
two goroutines closes, a socket that `closeConnection` is done with is out of
the namespace and stays out. Its invariant is `CloseInv`: `LockRule` (who is
past the lock holds the mutex), `Unborn` (a connection that has not begun has
no process), `OutOfAdapter` (past `remove`, the socket is out).
`NoLockCycleHolds` adds `OwnCloseInv`: `ListenerCloses`, `ClosingFlag` and
`Covered` say that a socket is only in channels that its listener will still
leave (`Kept`), `ScanIsFresh` says that a presence scan, which holds
`l.mutex`, looks only at sockets that are in the channel now. `MapsAgreeHolds`
adds `Known`: `Exact` (those channels are exactly the ones whose lists hold
the socket, and each is left once) and `MemberKnown` (its presence data is
there until the leave that deletes it). `Footprint` names what one listener's
step leaves alone and `FrameOwn` carries the rules of all other sockets across
it, so each action is proved for its own socket only.

`PlainOccupiedOnceHolds` is without hypothesis, whoever closes. Its invariant
`OccupiedInv` adds `NoEmptyChannel`, because an entry left without IDs would
make the first to join look like the second. The length of a list is defined
as the number of its places (`Places` in `Namespace`), so that `FirstIsOne`
(the count is 1 exactly when the list was just made) follows from cardinality
and needs no induction. `NoGhostMemberHolds` is the argument about two tabs of
one user that leave at once. `AddedIsHere`: a user last announced as added has
a socket that counts (`Counts`), because it is in the channel with its data or
because its listener, having left, is still to announce it (`Charged`). Each
leaver takes itself out before it looks who stays, and a scan sees only
sockets that are in the channel (`ScanIsFresh`), so a leaver that keeps silent
has seen another that counts. `Settled` ties a listener's place in its request
to the lists and the presence data.

**Horizontal.** `TypeOKHolds`, `NothingInventedHolds`, `NothingMissedHolds`,
without hypothesis and for any number of overlapping requests. The totals of
the code are running sums; the histories `answered` and `counted` say which
nodes and sockets they stand for, so that each total is a cardinality
(`Sum`) and no fold is needed. `HorizontalInv` has five parts beside the types:
`MessagesInv` and `SendingInv` (a response is at the node that asked, for a
request that was published), `TokensInv` (while a request waits no node is
asked twice, has two responses, or has one that was counted: `Once`, `Fresh`,
`AnsweredOnce`), `BooksInv` (the total is the sum over `counted`, the count is
the number of nodes in `answered`), `CalmInv` (while no node comes or goes the
subscribers are those that were expected, so all answers are everybody's) and
`SocketInv` (the histories `stable` and `seen` enclose who is there). Most
steps only take messages away; they are proved once, as `QuietStep`.
`Publish`, `Answer`, `LookUp` and `HandOver`, where a token moves, have a
lemma each.

**Webhooks.** `FlapIsAPairHolds`, `PendingIsRightHolds`, `ViewConvergesHolds`
from one invariant, `IInv`: `Offered` (only offered events are anywhere),
`ListedInFlight` (what is listed under a key is in flight), `Pairs` (swallower
and swallowed are opposites of one key and each is in one pair), and for calm
keys `OneInFlight`, `WaitingIsListed` and `ToldOrUnderWay`: the receiver was
last told the last report, or the send that should have told it failed
(`Heard`), or the event that will tell it is on its way (`Tells`). The
last is what makes `ViewConverges` inductive: the claim at rest says nothing
of the way there.

**RedisQueue.** `AccountedHolds`, `DrainedHoldsOnlyFreshHolds`,
`OneJobAfterCancelHolds`, with `DownIsStopped` and `CancelledStops`. Counting
is by `FiniteSetTheorems`: a step adds one holder of a text, or takes one
away. A lost reply adds an entry and an orphan at once; an LREM that was
executed although it returned an error takes an entry and its holder.
`ImplementsJobQueueHolds` is the refinement: initial states map to initial
states, `Move` and `ReplyLost` to a hand-out, a send that returns to a
settlement, and every other step, crashes and restarts included, to a stutter.

**Events.** All five invariants of the run. `DeliveryInv` says where a message
can be: `Cursor` (a busy source is at one of its messages), `PriorIsAnswered`,
`InboxIsForeign` (Redis holds for a node only what other nodes sent) and
`GotIsFiled`; both bound, through `PassedTo`, how far a source has got. From
it follow `TypeOKHolds`, `ExcludedOnOwnNodeHolds` (the receiver excludes
nobody, and that is harmless on the sender's node because a node's own
messages never come back) and `CacheIsLatestHolds`. `SameNodeInOrderHolds`
adds that Redis keeps an order (`InboxInOrder`) and that what it holds comes
after what the sockets have (`GotBeforeInbox`). `CachedEventIsKnownHolds` adds
`NoneMissed`: for each event stored or about to be stored, a subscriber is
settled or has something outstanding. SETs and GETs that fail are part of
both: a request whose SETs all failed has stored nothing (`unstored`), and of
failed GETs only a subscriber's own excuses it (`missed`). The proof corrected
the property: `CacheIsLatest` used to speak of answered requests, but a batch
may be empty, and such a request stores nothing. It now speaks of requests
that have stored an event (`HasStored`), and no longer waits for quiet.

**AuthWatch.** `ChannelClosedOnceHolds`, `DisconnectedOnceHolds` and the
action property `AcceptedIsKeptHolds`. `ChannelClosedOnce` holds the reason
(the field is set only while the channel is open); `IInv` adds who has got how
far (`Progress`), that before `Cleanup` only the closer with the mutex has
counted (`CountedByOne`), and that a watch that still waits can hear
(`WatchCanHear`).

**Connection.** `AdmissionInvHolds`: the limit is exceeded by at most the
handlers that ever were between the count and the add at once, less one.
`AdmissionInv` is inductive as it stands: a socket in the adapter was added
and is not closing (so adding one raises the count by exactly one), and
without a namespace there is no socket. `LeftOpenWasInFlightHolds` and
`BacklogDrainedHolds` are from `ShutdownInv`: `Phases` (the order of the
tasks), `HandlersPassed`, `NamespaceKept`, `OldAreSwept` (a socket from before
the signal is swept or still to be visited) and `HooksAdvance`.

Only model-checked: liveness (`QueueDrains`, `EveryEventSettles`, `Delivered`,
`RequestResolves`, `TerminateReachesAll`, `ReadErrorRemoves`, `GoroutinesEnd`,
`ShutdownEnds`), because fairness and ENABLED are out of the prover's reach.
`PresenceOccupiedOnce` and `WithinLimit` are violated (section 6); what the code
gives in their place, `PlainOccupiedOnce` and `AdmissionInv`, is proved.
`NoLockCycle`, violated with a closer, is proved without one.

## 6. Findings

Three places where a comment and the code disagree have a run of their own;
PROJECT.json quotes the comments, the runs show the traces.

* `eviction_deadlock`: a close from another goroutine can deadlock with a
  presence scan.
* `presence_occupied`: a presence channel may become occupied without a webhook.
* `connection_limit`: connections that arrive together exceed the limit.

Others limit what a property can say, and are listed under `hazards`:

* a second sign-in as another user leaves the socket in the first user's list
  (namespace.go:160 speaks of "complete cleanup"): `RemovedFromOwnUser` says
  which lists may keep it;
* gauges may be left at an older count when two calls overlap
  (metricPrometheus.go:481: "the total number of channels"): `GaugesRecover`
  says until when;
* an event that meets its opposite's running callback is swallowed although the
  opposite is sent (flapDetector.go:61: "cancel both"): `ViewConverges` says
  until when the receiver is wrong;
* a user with connections to two nodes counts twice (adapter.go:86: "unique
  users"): `NothingInvented` leaves the sums over users out;
* an excluded socket is excluded on the sender's node only; a node that cannot
  ask Redis for the number of subscribers ignores TERMINATE; a webhook whose
  send fails is not sent again; the last webhooks of a shutdown are lost when
  they wait for the flap detector's timer, or cost the whole timeout when they
  are in the queue, whose consumer `cancel()` has stopped.

## 7. Not modelled

* Payloads, signatures, channel-name rules, configuration, metrics other than
  the channel gauges and the connection counts: formatting and lookups without
  state of their own.
* The HTTP API's reads: they call the adapter and the cache once each. The
  middlewares: signature checks, and a rate limiter of a library.
* `LocalAdapter.Send` to a user's own channel, and read deadlines (a read that
  fails is modelled, not when).
* Methods without a caller: Set, Delete, Remember, Has and Update of the
  caches; IsInChannel, GetSockets, GetChannels and GetChannelSockets of the
  horizontal adapter over all nodes.
* `handlePanic`, which calls the shutdown without a web server; it only
  catches panics of the main goroutine, which waits for a signal.
* Redis and SNS themselves: external, by how the code uses them.

## 8. Plan

Done: every module of section 2, and the theorems of section 5.

Every invariant and action property of the passing runs has a theorem; what
is left to TLC is liveness.

Modelling that could follow: events to a user's own channel in `Events`, and a
composition of `RedisQueue` with the flap detector of `Webhooks`.
