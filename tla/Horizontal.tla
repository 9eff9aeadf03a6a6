------------------------------ MODULE Horizontal ------------------------------
(***************************************************************************)
(* Several nodes over Redis publish/subscribe: the requests of             *)
(* internal/adaptersHorizontal.go and the goroutine of adaptersRedis.go    *)
(* that receives requests and responses, for one app and one channel.      *)
(*                                                                         *)
(* A call for all nodes registers a request, publishes it and waits for    *)
(* numSub - 1 responses or a timeout.  Three goroutines meet in it: the    *)
(* caller (sendRequest), its waiter (waitForResponse), which owns the      *)
(* requestResolveChan, and the node's only subscriber, which looks the     *)
(* request up under ha.mutex but sends on the channel without it.          *)
(*                                                                         *)
(* Redis is external: a publish reaches every subscriber connected at that *)
(* moment, in the order of publishing, or nobody; its error is ignored     *)
(* (adaptersRedis.go:70).  A response is put into the inbox of the node    *)
(* that asked only: the others look its ID up and drop it, and so does     *)
(* everybody with the answer to TERMINATE, which carries no ID.            *)
(***************************************************************************)
EXTENDS Integers, Sequences, FiniteSets

CONSTANTS
    Node,
    Socket, Home,       \* Home \in [Socket -> Node]
    User, UserOf,       \* UserOf \in [Socket -> User]
    FirstNodes,         \* the nodes that are up from the start
    Fragile,            \* nodes whose subscriber may stop on a receive error
    Flaky,              \* nodes whose Redis commands may fail
    Calls,              \* the calls that are made: pairs of a node and a kind
    MaxCalls,           \* bound: calls, of the requests in a behaviour
    MaxRequests         \* bound: requests, with the ones TERMINATE repeats

Request == 1..MaxRequests
Kind == {"socketsCount", "membersCount", "members", "terminate"}

\* socketsCount stands for all sums over sockets, membersCount for all sums
\* over users, members for the union of the nodes' member maps.
ASSUME HorizontalAssumption ==
    /\ Home \in [Socket -> Node]
    /\ UserOf \in [Socket -> User]
    /\ FirstNodes \subseteq Node
    /\ Fragile \subseteq Node
    /\ Flaky \subseteq Node
    /\ Calls \subseteq Node \X Kind
    /\ MaxCalls \in Nat /\ MaxRequests \in Nat
    /\ IsFiniteSet(Node) /\ IsFiniteSet(Socket)
    /\ Node # {} /\ User # {}

VARIABLES
    node,       \* "down", "up", "deaf" (the subscriber returned), "crashed"
    sock,       \* "new", "in" the channel, "gone"
    inbox,      \* what Redis has delivered to each subscriber
    sub,        \* the subscriber goroutine of each node
    req         \* the requests

vars == <<node, sock, inbox, sub, req>>

\* val is what a response reports, and nothing in a request.  That a response
\* carries its sender is history: the waiter only counts responses.
Msg == [type : {"request", "response"}, id : Request, from : Node, val : SUBSET Socket]

\* "sending": in onResponse, past the lookup; "calling": in the request that
\* TERMINATE makes again; "hung": sending on a nil channel.
Subscriber == [at : {"idle", "sending", "calling", "hung"},
               id : Request \cup {0},
               from : Node,
               val : SUBSET Socket]

RequestState ==
    [phase   : {"none", "publish", "waiting", "resolved"},
     origin  : Node,
     kind    : Kind,
     user    : User,                        \* whom to terminate
     parent  : Request \cup {0},            \* the request that made this one
     numSub  : Nat,
     count   : Nat,                         \* countOfMessages
     total   : Nat,                         \* finalResponse.TotalCount
     members : SUBSET User,                 \* finalResponse.Members
     resolve : {"open", "closed", "nil"},   \* requestResolveChan
     listed  : BOOLEAN,                     \* in ha.requests
     all     : BOOLEAN,                     \* resolved by the last response
     calm    : BOOLEAN,                     \* history: no node came or went
     stable  : SUBSET Socket,               \* history: in the channel throughout
     seen    : SUBSET Socket,               \* history: in the channel at some time
     answered: SUBSET Node,                 \* history: whose responses were counted
     counted : SUBSET Socket,               \* history: what was added up so far
     heard   : SUBSET Node,                 \* history: subscribed at the publish
     closed  : SUBSET Node,                 \* history: closed the user's sockets
     refused : SUBSET Node]                 \* history: gave up for want of numSub

TypeOK ==
    /\ node \in [Node -> {"down", "up", "deaf", "crashed"}]
    /\ sock \in [Socket -> {"new", "in", "gone"}]
    /\ inbox \in [Node -> Seq(Msg)]
    /\ sub \in [Node -> Subscriber]
    /\ req \in [Request -> RequestState]
    /\ \A r \in Request : req[r].numSub > 0 => req[r].count < req[r].numSub

Idle(n) == [at |-> "idle", id |-> 0, from |-> n, val |-> {}]

Unused == [phase |-> "none", origin |-> CHOOSE n \in Node : TRUE, kind |-> "members",
           user |-> CHOOSE u \in User : TRUE, parent |-> 0, numSub |-> 0, count |-> 0,
           total |-> 0, members |-> {}, resolve |-> "open", listed |-> FALSE,
           all |-> FALSE, calm |-> TRUE, stable |-> {}, seen |-> {}, answered |-> {},
           counted |-> {}, heard |-> {}, closed |-> {}, refused |-> {}]

Init ==
    /\ node = [n \in Node |-> IF n \in FirstNodes THEN "up" ELSE "down"]
    /\ sock = [s \in Socket |-> "new"]
    /\ inbox = [n \in Node |-> <<>>]
    /\ sub = [n \in Node |-> Idle(n)]
    /\ req = [r \in Request |-> Unused]

-----------------------------------------------------------------------------
In == {s \in Socket : sock[s] = "in"}
Local(n) == {s \in In : Home[s] = n}
Users(ss) == {UserOf[s] : s \in ss}

Up == {n \in Node : node[n] = "up"}
Alive(n) == node[n] \in {"up", "deaf"}

Active(r) == req[r].phase \in {"publish", "waiting"}

\* The requests that the history of sockets and nodes is kept for.
Reading(r) == Active(r) /\ req[r].kind # "terminate"

\* Every such request remembers that the set of subscribers changed.
NotCalm(rs) == [r \in Request |-> [rs[r] EXCEPT !.calm = @ /\ ~Reading(r)]]

-----------------------------------------------------------------------------
(***************************************************************************)
(* Sockets come and go, nodes start, and a subscriber whose Receive fails  *)
(* returns for good.                                                       *)
(***************************************************************************)
SocketJoins(s) ==
    /\ sock[s] = "new"
    /\ Alive(Home[s])
    /\ sock' = [sock EXCEPT ![s] = "in"]
    /\ req' = [r \in Request |->
                  [req[r] EXCEPT !.seen = IF Reading(r) THEN @ \cup {s} ELSE @]]
    /\ UNCHANGED <<node, inbox, sub>>

\* What becomes of the requests when the sockets ss leave.
Without(rs, ss) ==
    [r \in Request |-> [rs[r] EXCEPT !.stable = IF Reading(r) THEN @ \ ss ELSE @]]

SocketLeaves(s) ==
    /\ sock[s] = "in"
    /\ sock' = [sock EXCEPT ![s] = "gone"]
    /\ req' = Without(req, {s})
    /\ UNCHANGED <<node, inbox, sub>>

NodeStarts(n) ==
    /\ node[n] = "down"
    /\ node' = [node EXCEPT ![n] = "up"]
    /\ req' = NotCalm(req)
    /\ UNCHANGED <<sock, inbox, sub>>

ReceiveFails(n) ==
    /\ n \in Fragile
    /\ node[n] = "up"
    /\ sub[n].at = "idle"
    /\ node' = [node EXCEPT ![n] = "deaf"]
    /\ inbox' = [inbox EXCEPT ![n] = <<>>]
    /\ req' = NotCalm(req)
    /\ UNCHANGED <<sock, sub>>

-----------------------------------------------------------------------------
(***************************************************************************)
(* sendRequest.  A deaf node may still be counted by PUBSUB NUMSUB.        *)
(***************************************************************************)
NumSub == {k + Cardinality(Up) : k \in 0..Cardinality({n \in Node : node[n] = "deaf"})}

\* What the sockets ss of one node add to TotalCount.
Share(k, ss) ==
    CASE k = "socketsCount" -> Cardinality(ss)
      [] k = "membersCount" -> Cardinality(Users(ss))
      [] OTHER -> 0

NewRequest(n, k, u, parent, num) ==
    [Unused EXCEPT !.phase = "publish", !.origin = n, !.kind = k, !.user = u,
                   !.parent = parent, !.numSub = num, !.listed = TRUE,
                   !.total = Share(k, Local(n)),
                   !.members = IF k = "members" THEN Users(Local(n)) ELSE {},
                   !.calm = \A q \in Node : node[q] # "deaf",
                   !.stable = IF k = "terminate" THEN {} ELSE In,
                   !.seen = IF k = "terminate" THEN {} ELSE In,
                   !.counted = IF k = "terminate" THEN {} ELSE Local(n)]

\* Whom a publish by node n reaches.
Reached(n) == {Up} \cup {nobody \in {{}} : n \in Flaky}

\* A reading call on a node that is alone, or whose getNumSub fails, answers
\* from its own maps; a terminating call whose getNumSub fails does nothing.
\* Neither makes a request, and no state changes.
Call(n, k, u, r) ==
    /\ <<n, k>> \in Calls /\ r <= MaxCalls
    /\ Alive(n)
    /\ req[r].phase = "none"
    /\ \A q \in 1..(r - 1) : req[q].phase # "none"
    /\ \E num \in NumSub :
        /\ k # "terminate" => num > 1
        /\ req' = [req EXCEPT ![r] = NewRequest(n, k, u, 0, num)]
    /\ UNCHANGED <<node, sock, inbox, sub>>

RequestMsg(r) == [type |-> "request", id |-> r, from |-> req[r].origin, val |-> {}]

Publish(r) ==
    /\ req[r].phase = "publish"
    /\ Alive(req[r].origin)
    /\ \E to \in Reached(req[r].origin) :
        /\ inbox' = [n \in Node |->
                        IF n \in to
                        THEN Append(inbox[n], RequestMsg(r))
                        ELSE inbox[n]]
        /\ req' = [req EXCEPT ![r].phase = "waiting", ![r].heard = to]
    /\ UNCHANGED <<node, sock, sub>>

\* The caller has its answer and deletes the request from ha.requests.
Unlist(r) ==
    /\ req[r].phase = "resolved"
    /\ req[r].listed
    /\ Alive(req[r].origin)
    /\ req' = [req EXCEPT ![r].listed = FALSE]
    /\ UNCHANGED <<node, sock, inbox, sub>>

\* Mutant: a timeout that ends the waiter without an answer.
TimeoutSilently(r) ==
    /\ req[r].phase = "waiting"
    /\ Alive(req[r].origin)
    /\ req[r].resolve = "open"
    /\ req' = [req EXCEPT ![r].resolve = "closed"]
    /\ UNCHANGED <<node, sock, inbox, sub>>

(***************************************************************************)
(* waitForResponse: the timeout hands the caller what there is so far;     *)
(* after the hand-over the deferred function closes the channel and then   *)
(* sets it to nil.                                                         *)
(***************************************************************************)
Timeout(r) ==
    /\ req[r].phase = "waiting"
    /\ Alive(req[r].origin)
    /\ req' = [req EXCEPT ![r].phase = "resolved"]
    /\ UNCHANGED <<node, sock, inbox, sub>>

CloseResolveChan(r) ==
    /\ req[r].phase = "resolved"
    /\ req[r].resolve # "nil"
    /\ Alive(req[r].origin)
    /\ req' = [req EXCEPT ![r].resolve = IF @ = "open" THEN "closed" ELSE "nil"]
    /\ UNCHANGED <<node, sock, inbox, sub>>

-----------------------------------------------------------------------------
(***************************************************************************)
(* The subscriber: processMessage with onRequest and onResponse.           *)
(***************************************************************************)
Receives(n, type) ==
    /\ node[n] = "up"
    /\ sub[n].at = "idle"
    /\ inbox[n] # <<>>
    /\ Head(inbox[n]).type = type

\* A node does not answer a request it finds among its own.
OwnRequest(n) ==
    LET m == Head(inbox[n]) IN
    /\ Receives(n, "request")
    /\ m.from = n /\ req[m.id].listed
    /\ inbox' = [inbox EXCEPT ![n] = Tail(@)]
    /\ UNCHANGED <<node, sock, sub, req>>

\* Mutant: a node answers every request it receives.
AnswerAny(n) ==
    LET m == Head(inbox[n])
        reply == [type |-> "response", id |-> m.id, from |-> n, val |-> Local(n)]
    IN  /\ Receives(n, "request")
        /\ req[m.id].kind # "terminate"
        /\ inbox' = [q \in Node |->
                        LET rest == IF q = n THEN Tail(inbox[q]) ELSE inbox[q]
                        IN  IF q = m.from /\ q \in Up THEN Append(rest, reply) ELSE rest]
        /\ UNCHANGED <<node, sock, sub, req>>

Answer(n) ==
    LET m == Head(inbox[n])
        reply == [type |-> "response", id |-> m.id, from |-> n, val |-> Local(n)]
    IN  /\ Receives(n, "request")
        /\ ~(m.from = n /\ req[m.id].listed)
        /\ req[m.id].kind # "terminate"
        /\ \E to \in Reached(n) : inbox' = [q \in Node |->
                LET rest == IF q = n THEN Tail(inbox[q]) ELSE inbox[q]
                IN  IF q = m.from /\ q \in to THEN Append(rest, reply) ELSE rest]
        /\ UNCHANGED <<node, sock, sub, req>>

(***************************************************************************)
(* TERMINATE calls TerminateUserConnections for all nodes once more, from  *)
(* the subscriber goroutine itself.  At the bound on requests the repeated *)
(* request is left out.                                                    *)
(***************************************************************************)
Spare == {r \in Request : req[r].phase = "none" /\ \A q \in 1..(r - 1) : req[q].phase # "none"}

CloseSockets(n, u, rs) ==
    LET ss == {s \in Local(n) : UserOf[s] = u}
    IN  /\ sock' = [s \in Socket |-> IF s \in ss THEN "gone" ELSE sock[s]]
        /\ req' = Without(rs, ss)

\* Mutant: the option is looked up under another name than it was sent.
TerminateIgnored(n) ==
    LET m == Head(inbox[n]) IN
    /\ Receives(n, "request")
    /\ ~(m.from = n /\ req[m.id].listed)
    /\ req[m.id].kind = "terminate"
    /\ inbox' = [inbox EXCEPT ![n] = Tail(@)]
    /\ UNCHANGED <<node, sock, sub, req>>

Terminate(n) ==
    LET m == Head(inbox[n]) IN
    /\ Receives(n, "request")
    /\ ~(m.from = n /\ req[m.id].listed)
    /\ req[m.id].kind = "terminate"
    /\ inbox' = [inbox EXCEPT ![n] = Tail(@)]
    /\ IF Spare = {}
       THEN /\ CloseSockets(n, req[m.id].user, [req EXCEPT ![m.id].closed = @ \cup {n}])
            /\ UNCHANGED <<node, sub>>
       ELSE \E r \in Spare, num \in NumSub :
            /\ req' = [req EXCEPT ![r] =
                          NewRequest(n, "terminate", req[m.id].user, m.id, num)]
            /\ sub' = [sub EXCEPT ![n] = [Idle(n) EXCEPT !.at = "calling", !.id = r]]
            /\ UNCHANGED <<node, sock>>

\* The same when getNumSub fails: TerminateUserConnections returns without a
\* request, and without closing the node's own connections.
TerminateFails(n) ==
    LET m == Head(inbox[n]) IN
    /\ n \in Flaky
    /\ Receives(n, "request")
    /\ ~(m.from = n /\ req[m.id].listed)
    /\ req[m.id].kind = "terminate"
    /\ inbox' = [inbox EXCEPT ![n] = Tail(@)]
    /\ req' = [req EXCEPT ![m.id].refused = @ \cup {n}]
    /\ UNCHANGED <<node, sock, sub>>

\* The second half of TerminateUserConnections, for a caller or a subscriber.
TerminateLocally(r) ==
    LET n == req[r].origin
        p == req[r].parent
    IN  /\ req[r].kind = "terminate"
        /\ req[r].phase = "resolved" /\ ~req[r].listed
        /\ n \notin req[r].closed
        /\ Alive(n)
        /\ CloseSockets(n, req[r].user,
               [q \in Request |-> IF q \in {r, p} THEN [req[q] EXCEPT !.closed = @ \cup {n}]
                                  ELSE req[q]])
        /\ sub' = [sub EXCEPT ![n] = IF @.at = "calling" /\ @.id = r THEN Idle(n) ELSE @]
        /\ UNCHANGED <<node, inbox>>

\* onResponse looks the request up ...
LookUp(n) ==
    LET m == Head(inbox[n])
        known == req[m.id].listed /\ req[m.id].resolve # "nil"
    IN  /\ Receives(n, "response")
        /\ inbox' = [inbox EXCEPT ![n] = Tail(@)]
        /\ sub' = [sub EXCEPT ![n] = IF known
                                     THEN [at |-> "sending", id |-> m.id,
                                           from |-> m.from, val |-> m.val]
                                     ELSE @]
        /\ UNCHANGED <<node, sock, req>>

\* What the waiter makes of a response of node f with the sockets val.
Collect(q, f, val, last) ==
    [q EXCEPT !.count = @ + 1,
              !.total = @ + Share(q.kind, val),
              !.members = @ \cup IF q.kind = "members" THEN Users(val) ELSE {},
              !.phase = IF last THEN "resolved" ELSE @,
              !.all = last,
              !.answered = @ \cup {f},
              !.counted = @ \cup val]

\* Mutant: the answer is complete one response too early.
HandOverEarly(n) ==
    LET r == sub[n].id
        val == sub[n].val
        got == req[r].count + 1
        last == got = req[r].numSub - 2
    IN  /\ node[n] = "up" /\ sub[n].at = "sending"
        /\ req[r].phase = "waiting"
        /\ req' = [req EXCEPT ![r] = Collect(@, sub[n].from, val, last)]
        /\ sub' = [sub EXCEPT ![n] = Idle(n)]
        /\ UNCHANGED <<node, sock, inbox>>

\* Mutant: the waiter waits for a response of its own node, too.
HandOverLate(n) ==
    LET r == sub[n].id
        val == sub[n].val
        got == req[r].count + 1
        last == got = req[r].numSub
    IN  /\ node[n] = "up" /\ sub[n].at = "sending"
        /\ req[r].phase = "waiting"
        /\ req' = [req EXCEPT ![r] = Collect(@, sub[n].from, val, last)]
        /\ sub' = [sub EXCEPT ![n] = Idle(n)]
        /\ UNCHANGED <<node, sock, inbox>>

\* ... and hands the response to the waiter, which adds it up.
HandOver(n) ==
    LET r == sub[n].id
        val == sub[n].val
        got == req[r].count + 1
        last == got = req[r].numSub - 1
    IN  /\ node[n] = "up" /\ sub[n].at = "sending"
        /\ req[r].phase = "waiting"
        /\ req' = [req EXCEPT ![r] = Collect(@, sub[n].from, val, last)]
        /\ sub' = [sub EXCEPT ![n] = Idle(n)]
        /\ UNCHANGED <<node, sock, inbox>>

\* Sending on the channel the waiter has closed panics: the node is gone.
SendOnClosed(n) ==
    /\ node[n] = "up" /\ sub[n].at = "sending"
    /\ req[sub[n].id].resolve = "closed"
    /\ node' = [node EXCEPT ![n] = "crashed"]
    /\ sock' = [s \in Socket |-> IF Home[s] = n THEN "gone" ELSE sock[s]]
    /\ inbox' = [inbox EXCEPT ![n] = <<>>]
    /\ req' = NotCalm(Without(req, Local(n)))
    /\ UNCHANGED sub

\* The channel became nil before the test for nil, or after it.
SendOnNil(n) ==
    /\ node[n] = "up" /\ sub[n].at = "sending"
    /\ req[sub[n].id].resolve = "nil"
    /\ \E next \in {Idle(n), [sub[n] EXCEPT !.at = "hung"]} : sub' = [sub EXCEPT ![n] = next]
    /\ UNCHANGED <<node, sock, inbox, req>>

-----------------------------------------------------------------------------
Subscribing(n) ==
    \/ OwnRequest(n) \/ Answer(n) \/ Terminate(n) \/ TerminateFails(n) \/ LookUp(n)
    \/ HandOver(n) \/ SendOnClosed(n) \/ SendOnNil(n)

Calling(r) ==
    Publish(r) \/ Unlist(r) \/ Timeout(r) \/ CloseResolveChan(r) \/ TerminateLocally(r)

Next ==
    \/ \E s \in Socket : SocketJoins(s) \/ SocketLeaves(s)
    \/ \E n \in Node :
        \/ NodeStarts(n)
        \/ ReceiveFails(n)
        \/ Subscribing(n)
        \/ \E k \in Kind, u \in User, r \in Request : Call(n, k, u, r)
    \/ \E r \in Request : Calling(r)

Spec == Init /\ [][Next]_vars

(***************************************************************************)
(* The subscriber of each node and the caller and the waiter of each       *)
(* request are scheduled, and timers fire; nothing is assumed of the       *)
(* sockets, of the nodes that come and go, or of Redis.                    *)
(***************************************************************************)
FairSpec ==
    /\ Spec
    /\ \A n \in Node : WF_vars(Subscribing(n))
    /\ \A r \in Request :
        /\ WF_vars(Publish(r) \/ Unlist(r) \/ TerminateLocally(r))
        /\ WF_vars(Timeout(r) \/ CloseResolveChan(r))

-----------------------------------------------------------------------------
Resolved(r, k) == req[r].phase = "resolved" /\ req[r].kind = k

(***************************************************************************)
(* Nobody is counted who was not there, and no node twice: whatever times  *)
(* out, arrives late or changes meanwhile, an answer contains only sockets *)
(* that were in the channel during the request (onRequest's test for its   *)
(* own requests, adaptersHorizontal.go:511-516, and the sums at 839-850).  *)
(* Nothing is claimed of the sums over users: a user with connections to   *)
(* two nodes counts twice (845).                                           *)
(***************************************************************************)
NothingInvented ==
    \A r \in Request :
        /\ Resolved(r, "socketsCount") => req[r].total <= Cardinality(req[r].seen)
        /\ Resolved(r, "members") => req[r].members \subseteq Users(req[r].seen)

(***************************************************************************)
(* "all messages received" (adaptersHorizontal.go:877): an answer that was *)
(* completed by the last expected response, while no node came or went,    *)
(* misses no socket that was in the channel throughout.                    *)
(***************************************************************************)
NothingMissed ==
    \A r \in Request : req[r].all /\ req[r].calm =>
        /\ Resolved(r, "socketsCount") => req[r].total >= Cardinality(req[r].stable)
        /\ Resolved(r, "membersCount") => req[r].total >= Cardinality(Users(req[r].stable))
        /\ Resolved(r, "members") => Users(req[r].stable) \subseteq req[r].members

(***************************************************************************)
(* "after the timeout, we will return any/all data we've collected so far" *)
(* (adaptersHorizontal.go:784): every call returns, also when the other    *)
(* nodes are deaf or busy and when its own node's subscriber is the caller.*)
(***************************************************************************)
RequestResolves ==
    []<>\A r \in Request :
        req[r].phase \in {"none", "resolved"} \/ node[req[r].origin] = "crashed"

(***************************************************************************)
(* TerminateUserConnections reaches every node that hears of it, although  *)
(* each of them repeats the request and waits for it in the goroutine that *)
(* would receive the responses (adaptersHorizontal.go:628-633), unless the *)
(* node's getNumSub fails: then it returns at 177 and closes nothing.      *)
(***************************************************************************)
TerminateReachesAll ==
    []<>\A r \in Request, n \in Node :
        req[r].kind = "terminate" /\ n \in req[r].heard =>
            n \in req[r].closed \cup req[r].refused \/ node[n] # "up" \/ sub[n].at = "hung"
==============================================================================
