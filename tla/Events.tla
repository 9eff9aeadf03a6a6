------------------------------- MODULE Events -------------------------------
(***************************************************************************)
(* How an event reaches the subscribers of a channel on several nodes, and *)
(* how a cache channel hands the last event to a new subscriber: the       *)
(* events API (apiEvents.go), client events (websocket.go), Send of the    *)
(* horizontal and of the local adapter, the pattern subscriber of          *)
(* adaptersRedis.go, and the cache (internal/cache).  One app, and one     *)
(* cache channel.                                                          *)
(*                                                                         *)
(* A source is an HTTP request (one event or a batch) or the listener of a *)
(* socket that sends client events.  It takes its messages one by one:     *)
(* publish to Redis, send to the local sockets, store in the cache.        *)
(* A subscriber is added to the channel, told so, and later given what the *)
(* cache holds.                                                            *)
(*                                                                         *)
(* Redis is external: a publish reaches the node's subscriber in order, or *)
(* is lost; the error is ignored (adaptersRedis.go:70).  So is the error   *)
(* of a SET (redisCache.go:44), and that of a GET makes it a miss (34).    *)
(***************************************************************************)
EXTENDS Integers, Sequences, FiniteSets, SequencesExt

CONSTANTS
    Node,
    Socket,
    Early,          \* the ones that subscribed before anything was sent
    Request,        \* HTTP requests to trigger events
    At,             \* the node of each socket and request
    Message,        \* the messages, one event each
    Batch,          \* the messages of each source, in order
    Valid,          \* messages that checkMessageToBroadcast accepts
    Except,         \* the socket_id of each message, or Nobody
    Nobody,
    Flaky,          \* nodes whose Redis commands and whose subscriber may fail
    MaxExpiries     \* bound: items of a cache that expire

Source == Request \cup Socket

ASSUME EventsAssumption ==
    /\ Request \cap Socket = {}
    /\ Early \subseteq Socket
    /\ At \in [Source -> Node]
    /\ Batch \in [Source -> Seq(Message)]
    /\ Valid \subseteq Message
    /\ Flaky \subseteq Node
    /\ Nobody \notin Socket \cup Message
    /\ MaxExpiries \in Nat
    /\ Except \in [Message -> Socket \cup {Nobody}]
    /\ \A s \in Socket : \A m \in Range(Batch[s]) : Except[m] = s
    \* A message is one event of one source.
    /\ \A p, q \in Source : \A i \in DOMAIN Batch[p], j \in DOMAIN Batch[q] :
        Batch[p][i] = Batch[q][j] => p = q /\ i = j

NoEvent == Nobody

VARIABLES
    driver,     \* CHANNEL_CACHE_DRIVER: one cache in Redis, or one per node
    cache,      \* the event stored for the channel in each node's cache
    expired,    \* local caches whose item is past its expireAt
    expiries,   \* items that have expired so far
    unstored,   \* history: events whose SET was not executed
    pc,         \* where each source is
    next,       \* the message it is at
    inbox,      \* what Redis has delivered to each pattern subscriber
    deaf,       \* nodes whose pattern subscriber has returned
    sub,        \* where each socket's subscription is
    cached,     \* history: what the cache gave it
    got,        \* history: what the adapter wrote to it, by the sender's node
    lost,       \* history: events whose publish failed
    owed,       \* history: events published while the socket was in the channel
                \* and not written to it yet
    prior,      \* history: the sources that were answered when one started
    passing,    \* history: events that had passed the socket's node, and were
                \* not stored yet, when it asked the cache
    missed      \* history: sockets whose GET of the cache failed

vars == <<driver, cache, expired, expiries, unstored, pc, next, inbox, deaf,
          sub, cached, got, lost, owed, prior, passing, missed>>
caches == <<driver, cache, expired, expiries, unstored>>
sockets == <<sub, cached, got, passing, missed>>
past == <<lost, owed, prior>>

MessageOf(p) == Batch[p][next[p]]

\* The source and the position in its batch of each message.
Origin == [m \in Message |-> CHOOSE p \in Source : m \in Range(Batch[p])]
Position == [m \in Message |-> CHOOSE i \in DOMAIN Batch[Origin[m]] : Batch[Origin[m]][i] = m]

Busy == {"publish", "local", "store"}
Answered == {"done", "rejected"}

TypeOK ==
    /\ driver \in {"redis", "local"}
    /\ cache \in [Node -> Message \cup {NoEvent}]
    /\ expired \subseteq Node
    /\ expiries \in 0..MaxExpiries
    /\ unstored \subseteq Message
    /\ pc \in [Source -> {"idle"} \cup Busy \cup Answered]
    /\ next \in [Source -> Nat]
    /\ \A p \in Source : pc[p] \in Busy => MessageOf(p) \in Valid
    /\ inbox \in [Node -> Seq(Message)]
    /\ deaf \subseteq Node
    /\ sub \in [Socket -> {"out", "added", "done"}]
    /\ cached \in [Socket -> Message \cup {NoEvent}]
    /\ got \in [Socket -> [Node -> Seq(Message)]]
    /\ lost \subseteq Message
    /\ owed \in [Socket -> SUBSET Message]
    /\ prior \in [Source -> SUBSET Source]
    /\ passing \in [Socket -> SUBSET Message]
    /\ missed \subseteq Socket

Init ==
    /\ driver \in {"redis", "local"}
    /\ cache = [n \in Node |-> NoEvent]
    /\ expired = {}
    /\ expiries = 0
    /\ unstored = {}
    /\ pc = [p \in Source |-> "idle"]
    /\ next = [p \in Source |-> 1]
    /\ inbox = [n \in Node |-> <<>>]
    /\ deaf = {}
    /\ sub = [s \in Socket |-> IF s \in Early THEN "done" ELSE "out"]
    /\ cached = [s \in Socket |-> NoEvent]
    /\ got = [s \in Socket |-> [n \in Node |-> <<>>]]
    /\ lost = {}
    /\ owed = [s \in Socket |-> {}]
    /\ prior = [p \in Source |-> {}]
    /\ passing = [s \in Socket |-> {}]
    /\ missed = {}

-----------------------------------------------------------------------------
(* The adapter.                                                            *)

\* The socket is in the channel's list of the local adapter.
InChannel(s) == sub[s] # "out"

\* Mutant: LocalAdapter.Send without its test of exceptIDs.
RecipientsAll(n, except) == {s \in Socket : At[s] = n /\ InChannel(s)}

\* LocalAdapter.Send: the channel's sockets, without the excluded one.
Recipients(n, except) == {s \in Socket : At[s] = n /\ InChannel(s) /\ s # except}

\* All of them are written to under l.mutex.
SendLocally(n, m, except) ==
    LET to == Recipients(n, except)
    IN  /\ got' = [s \in Socket |->
                    IF s \in to THEN [got[s] EXCEPT ![At[Origin[m]]] = Append(@, m)] ELSE got[s]]
        /\ owed' = [s \in Socket |-> IF s \in to THEN owed[s] \ {m} ELSE owed[s]]

\* Whose subscriber has to do with a message: the sender's own gets it too
\* and drops it by its uuid.
Addressees(p) == Node \ (deaf \cup {At[p]})

\* HorizontalAdapter.Send, first half: Redis passes the message on to every
\* pattern subscriber.
Publish(p) ==
    /\ pc[p] = "publish"
    /\ pc' = [pc EXCEPT ![p] = "local"]
    /\ \/ /\ inbox' = [n \in Node |->
                        IF n \in Addressees(p) THEN Append(inbox[n], MessageOf(p)) ELSE inbox[n]]
          /\ UNCHANGED lost
       \/ /\ At[p] \in Flaky
          /\ lost' = lost \cup {MessageOf(p)}
          /\ UNCHANGED inbox
    /\ owed' = [s \in Socket |-> IF InChannel(s) THEN owed[s] \cup {MessageOf(p)} ELSE owed[s]]
    /\ UNCHANGED <<caches, next, deaf, sockets, prior>>

\* Mutant: the error of checkMessageToBroadcast is ignored.
TakeUnchecked(p, i) ==
    /\ pc' = [pc EXCEPT ![p] = IF i > Len(Batch[p]) THEN "done" ELSE "publish"]
    /\ next' = [next EXCEPT ![p] = i]

\* checkMessageToBroadcast of message i, or the end of the batch.  A batch is
\* left at its first bad message; the ones before it have been sent.
Take(p, i) ==
    /\ pc' = [pc EXCEPT ![p] =
                CASE i > Len(Batch[p]) -> "done"
                  [] i <= Len(Batch[p]) /\ Batch[p][i] \in Valid -> "publish"
                  [] OTHER -> "rejected"]
    /\ next' = [next EXCEPT ![p] = i]

\* HorizontalAdapter.Send, second half.  broadcastMessage then stores the
\* event, handleClientEvent does not.
SendOnOwnNode(p) ==
    /\ pc[p] = "local"
    /\ SendLocally(At[p], MessageOf(p), Except[MessageOf(p)])
    /\ \/ /\ p \in Request
          /\ pc' = [pc EXCEPT ![p] = "store"]
          /\ UNCHANGED next
       \/ /\ p \in Socket
          /\ Take(p, next[p] + 1)
    /\ UNCHANGED <<caches, inbox, deaf, sub, cached, lost, prior, passing, missed>>

\* Mutant: a goroutine per message.
OnMessageAnyOrder(n) ==
    \E i \in 1..Len(inbox[n]) :
        /\ n \notin deaf
        /\ inbox' = [inbox EXCEPT ![n] = RemoveAt(@, i)]
        /\ SendLocally(n, inbox[n][i], Nobody)
        /\ UNCHANGED <<caches, pc, next, deaf, sub, cached, lost, prior, passing, missed>>

\* Mutant: psubscribe's loop ends when a message was written to a socket.
OnMessageOnce(n) ==
    /\ n \notin deaf /\ inbox[n] # <<>>
    /\ \A s \in Socket : At[s] = n => got[s][At[Origin[Head(inbox[n])]]] = <<>>
    /\ inbox' = [inbox EXCEPT ![n] = Tail(@)]
    /\ SendLocally(n, Head(inbox[n]), Nobody)
    /\ UNCHANGED <<caches, pc, next, deaf, sub, cached, lost, prior, passing, missed>>

\* onMessage: the sender writes ExceptingId, the receiver reads ExceptingIds,
\* so nobody is excluded.  Requests and responses match the pattern too; they
\* have no Channel and are dropped.
OnMessage(n) ==
    /\ n \notin deaf /\ inbox[n] # <<>>
    /\ inbox' = [inbox EXCEPT ![n] = Tail(@)]
    /\ SendLocally(n, Head(inbox[n]), Nobody)
    /\ UNCHANGED <<caches, pc, next, deaf, sub, cached, lost, prior, passing, missed>>

\* Receive fails and the goroutine returns, for good.
PsubscribeEnds(n) ==
    /\ n \in Flaky \ deaf
    /\ deaf' = deaf \cup {n}
    /\ inbox' = [inbox EXCEPT ![n] = <<>>]
    /\ UNCHANGED <<caches, pc, next, sockets, past>>

-----------------------------------------------------------------------------
(* Sources.                                                                *)

\* EventTrigger or BatchEventTrigger has found the app and parsed the form.
Trigger(p) ==
    /\ p \in Request /\ pc[p] = "idle"
    /\ Take(p, 1)
    /\ prior' = [prior EXCEPT ![p] = {q \in Source : pc[q] \in Answered}]
    /\ UNCHANGED <<caches, inbox, deaf, sockets, lost, owed>>

\* validateClientEvent, and the test that the sender is in the channel.
ValidClientEvent(p) == sub[p] = "done" /\ MessageOf(p) \in Valid

\* handleClientEvent.
ClientEvent(p) ==
    /\ p \in Socket /\ pc[p] = "idle"
    /\ Batch[p] # <<>> /\ ValidClientEvent(p)
    /\ pc' = [pc EXCEPT ![p] = "publish"]
    /\ prior' = [prior EXCEPT ![p] = {q \in Source : pc[q] \in Answered}]
    /\ UNCHANGED <<caches, next, inbox, deaf, sockets, lost, owed>>

\* The caches in which node n finds and leaves events.
Reach(n) == IF driver = "redis" THEN Node ELSE {n}

\* Mutant: the item is stored only where there is none.
StoreIfAbsent(p) ==
    /\ pc[p] = "store"
    /\ cache' = [n \in Node |->
                    IF n \in Reach(At[p]) /\ cache[n] = NoEvent THEN MessageOf(p) ELSE cache[n]]
    /\ expired' = expired \ Reach(At[p])
    /\ Take(p, next[p] + 1)
    /\ UNCHANGED <<driver, expiries, unstored, inbox, deaf, sockets, past>>

\* CacheManager.SetEx.  RedisCache does not look at the error of its SET: the
\* request goes on whether Redis has executed it or not.
Store(p) ==
    /\ pc[p] = "store"
    /\ \/ /\ cache' = [n \in Node |-> IF n \in Reach(At[p]) THEN MessageOf(p) ELSE cache[n]]
          /\ expired' = expired \ Reach(At[p])
          /\ UNCHANGED unstored
       \/ /\ driver = "redis" /\ At[p] \in Flaky
          /\ unstored' = unstored \cup {MessageOf(p)}
          /\ UNCHANGED <<cache, expired>>
    /\ Take(p, next[p] + 1)
    /\ UNCHANGED <<driver, expiries, inbox, deaf, sockets, past>>

\* Thirty minutes after a SetEx.  Redis forgets the key; a local cache keeps
\* the item and does not return it.
Expire(n) ==
    /\ cache[n] # NoEvent /\ n \notin expired
    /\ expiries < MaxExpiries
    /\ expiries' = expiries + 1
    /\ \/ /\ driver = "redis"
          /\ cache' = [k \in Node |-> NoEvent]
          /\ UNCHANGED expired
       \/ /\ driver = "local"
          /\ expired' = expired \cup {n}
          /\ UNCHANGED cache
    /\ UNCHANGED <<driver, unstored, pc, next, inbox, deaf, sockets, past>>

\* LocalCache.cleanupJob.
Cleanup(n) ==
    /\ n \in expired
    /\ cache' = [cache EXCEPT ![n] = NoEvent]
    /\ expired' = expired \ {n}
    /\ UNCHANGED <<driver, expiries, unstored, pc, next, inbox, deaf, sockets, past>>

-----------------------------------------------------------------------------
(* Subscribers.                                                            *)

\* Mutant: a branch of subscribe that ends without sendCacheIfNeeded.
JoinWithoutCache(s) ==
    /\ sub[s] = "out"
    /\ sub' = [sub EXCEPT ![s] = "done"]
    /\ UNCHANGED <<caches, pc, next, inbox, deaf, cached, got, past, passing, missed>>

\* AddToChannel and subscription_succeeded.
Join(s) ==
    /\ sub[s] = "out"
    /\ sub' = [sub EXCEPT ![s] = "added"]
    /\ UNCHANGED <<caches, pc, next, inbox, deaf, cached, got, past, passing, missed>>

\* What CacheManager.Get finds, unless its Redis command fails.
CacheGet(n) == IF n \in expired THEN NoEvent ELSE cache[n]

\* Event m was sent to the channel's sockets on node n, and broadcastMessage
\* has not stored it yet.
BetweenSendAndStore(m, n) ==
    LET p == Origin[m]
    IN  /\ p \in Request /\ pc[p] \in {"local", "store"}
        /\ MessageOf(p) = m
        /\ IF n = At[p] THEN pc[p] = "store" ELSE m \notin Range(inbox[n])

\* sendCacheIfNeeded: what the cache holds, or cache_miss for the client and
\* for the webhook queue.  Between Get and Send the adapter may write a newer
\* event to the client; the history does not keep that order.  A Redis GET
\* that fails is a miss as well.
SendCacheIfNeeded(s) ==
    /\ sub[s] = "added"
    /\ sub' = [sub EXCEPT ![s] = "done"]
    /\ \/ /\ cached' = [cached EXCEPT ![s] = CacheGet(At[s])]
          /\ UNCHANGED missed
       \/ /\ driver = "redis" /\ At[s] \in Flaky
          /\ cached' = [cached EXCEPT ![s] = NoEvent]
          /\ missed' = missed \cup {s}
    /\ passing' = [passing EXCEPT ![s] = {m \in Message : BetweenSendAndStore(m, At[s])}]
    /\ UNCHANGED <<caches, pc, next, inbox, deaf, got, past>>

SourceStep(p) ==
    Trigger(p) \/ ClientEvent(p) \/ Publish(p) \/ SendOnOwnNode(p) \/ Store(p)

Next ==
    \/ \E p \in Source : SourceStep(p)
    \/ \E n \in Node : OnMessage(n) \/ PsubscribeEnds(n) \/ Expire(n) \/ Cleanup(n)
    \/ \E s \in Socket : Join(s) \/ SendCacheIfNeeded(s)

Spec == Init /\ [][Next]_vars

\* A handler that has started runs on, and the subscriber goroutine reads.
\* Nobody has to send a request or to subscribe.
FairSpec ==
    /\ Spec
    /\ \A p \in Source : WF_vars(Publish(p) \/ SendOnOwnNode(p) \/ Store(p))
    /\ \A n \in Node : WF_vars(OnMessage(n))
    /\ \A s \in Socket : WF_vars(SendCacheIfNeeded(s))

-----------------------------------------------------------------------------
Written(s, m) == m \in Range(got[s][At[Origin[m]]])
Received(s, m) == Written(s, m) \/ cached[s] = m
Excluded(s, m) == Except[m] = s

\* A client never gets its own client event back (websocket.go:401), and a
\* socket_id is respected on the node that has the request: there, and only
\* there, LocalAdapter.Send is given the exclusion (adaptersLocal.go:197).
ExcludedOnOwnNode ==
    \A s \in Socket, m \in Message :
        Excluded(s, m) /\ At[Origin[m]] = At[s] => ~Written(s, m)

\* Events of one node reach every subscriber at most once, although its node
\* writes them itself and gets them back from Redis (adaptersRedis.go:108),
\* and in the order in which their requests were answered, or in which they
\* stand in the batch.  (Two nodes give no such
\* order: an event waits in Redis while a later one is written locally.)
SameNodeInOrder ==
    \A s \in Socket, n \in Node :
        \A i, j \in 1..Len(got[s][n]) :
            LET a == got[s][n][i]
                b == got[s][n][j]
            IN  i < j => /\ Origin[b] \notin prior[Origin[a]]
                         /\ Origin[a] = Origin[b] => Position[a] < Position[b]

Quiet ==
    /\ \A p \in Source : pc[p] \notin Busy
    /\ \A n \in Node : inbox[n] = <<>>
    /\ \A s \in Socket : sub[s] \in {"out", "done"}

\* Request q has an event in the cache: it has gone on to the next one, and
\* its SET did not fail.
HasStored(q) == \E i \in 1..(next[q] - 1) : Batch[q][i] \notin unstored

\* Once a request has stored an event, no cache that it writes to holds an
\* event of a request that was answered before it came (apiEvents.go:78),
\* whatever SETs of others fail before and after.
CacheIsLatest ==
    \A q \in Request : \A n \in Reach(At[q]) :
        HasStored(q) /\ cache[n] # NoEvent => Origin[cache[n]] \notin prior[q]

\* What a cache channel is for: a subscriber has the event that the cache
\* holds, from the adapter or from the cache.  When no publish of it failed, it
\* may lack it for two reasons only: it was added after the event had passed
\* its node and asked the cache before the event was stored
\* (apiEvents.go:74-78), or its own GET failed (redisCache.go:34).
CachedEventIsKnown ==
    Quiet /\ deaf = {} => \A s \in Socket :
        LET m == CacheGet(At[s])
        IN  \/ sub[s] = "out" \/ m = NoEvent \/ m \in lost \/ Excluded(s, m)
            \/ Received(s, m)
            \/ m \in passing[s]
            \/ s \in missed

\* A subscriber that is in the channel when an event is published is sent it,
\* on whatever node it is, unless it is excluded there, the publish failed or
\* the node's pattern subscriber has ended (adaptersRedis.go:150).
Delivered ==
    []<>\A s \in Socket : \A m \in owed[s] :
            Excluded(s, m) \/ m \in lost \/ At[s] \in deaf
=============================================================================
