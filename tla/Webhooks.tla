------------------------------ MODULE Webhooks ------------------------------
(***************************************************************************)
(* The webhook pipeline of one node: AbstractQueue.Send, the FlapDetector  *)
(* that holds connect and disconnect events back for three seconds, and    *)
(* the SyncQueue, a bounded Go channel drained by one goroutine            *)
(* (internal/queues).                                                      *)
(*                                                                         *)
(* Events are numbered in the order they are offered.  A key stands for a  *)
(* channel (occupied, vacated) or a member of one (added, removed); Direct *)
(* events, such as cache_miss and client events, pass flap detection by.   *)
(* Timers run callbacks in goroutines of their own, so a callback is cut   *)
(* where it can be overtaken: after the ctx check, after the dispatch, and *)
(* before it takes fd.mu to delete its entry.                              *)
(***************************************************************************)
EXTENDS Integers, Sequences, FiniteSets

CONSTANTS
    Key,            \* flap-detection keys
    MaxEvents,      \* bound: events offered in a behaviour
    QueueCap        \* capacity of incomingMessages (100 in the code)

ASSUME WebhooksAssumption ==
    /\ Key # {}
    /\ MaxEvents \in Nat
    /\ QueueCap \in Nat \ {0}

VARIABLES
    n,          \* events offered so far
    key, type,  \* of each event
    phase,      \* of each event
    pending,    \* fd.pending: the event listed under each key, 0 if none
    partner,    \* the pending event that swallowed an event, 0 if none
    up,         \* what the source last reported for each key
    calm,       \* history: no event of the key repeated its predecessor's
                \* type or came while a callback of the key was running,
                \* since one was last dispatched alone
    queue,      \* incomingMessages
    sending,    \* the event whose send monitorQueue waits for, 0 if none
    view,       \* what the receiver was last told of each key
    failed,     \* history: the last send about the key returned an error
    monitor,    \* monitorQueue is running
    shutdown    \* "no", "cancelled", "waiting", "graceful", "timedout"

sender == <<sending, view, failed>>
vars == <<n, key, type, phase, pending, partner, up, calm, queue, sender, monitor, shutdown>>

Event == 1..MaxEvents
Type == {"connect", "disconnect", "direct"}
Phase == {"none", "armed", "dispatching", "queued", "done", "cancelled", "swallowed"}

TypeOK ==
    /\ n \in 0..MaxEvents
    /\ key \in [Event -> Key]
    /\ type \in [Event -> Type]
    /\ phase \in [Event -> Phase]
    /\ pending \in [Key -> Event \cup {0}]
    /\ partner \in [Event -> Event \cup {0}]
    /\ up \in [Key -> BOOLEAN]
    /\ calm \in [Key -> BOOLEAN]
    /\ queue \in Seq(Event)
    /\ Len(queue) <= QueueCap
    /\ sending \in Event \cup {0}
    /\ view \in [Key -> BOOLEAN]
    /\ failed \in [Key -> BOOLEAN]
    /\ monitor \in BOOLEAN
    /\ shutdown \in {"no", "cancelled", "waiting", "graceful", "timedout"}

Init ==
    /\ n = 0
    /\ key = [i \in Event |-> CHOOSE k \in Key : TRUE]
    /\ type = [i \in Event |-> "direct"]
    /\ phase = [i \in Event |-> "none"]
    /\ pending = [k \in Key |-> 0]
    /\ partner = [i \in Event |-> 0]
    /\ up = [k \in Key |-> FALSE]
    /\ calm = [k \in Key |-> TRUE]
    /\ queue = <<>>
    /\ sending = 0
    /\ view = [k \in Key |-> FALSE]
    /\ failed = [k \in Key |-> FALSE]
    /\ monitor = TRUE
    /\ shutdown = "no"

Running == shutdown \notin {"graceful", "timedout"}

Opposite(t) == IF t = "disconnect" THEN "connect" ELSE "disconnect"

\* The callback of some event of k is past its ctx check and not finished.
InCallback(k) ==
    \E i \in 1..n : key[i] = k /\ type[i] # "direct" /\ phase[i] \in {"dispatching", "queued"}

-----------------------------------------------------------------------------
\* Mutant: the flap branch without its delete.
OfferKeepsEntry(k, t) ==
    LET i == n + 1
        e == pending[k]
        flap == e # 0 /\ type[e] = Opposite(t)
    IN  /\ Running
        /\ n < MaxEvents
        /\ n' = i
        /\ key' = [key EXCEPT ![i] = k]
        /\ type' = [type EXCEPT ![i] = t]
        /\ up' = [up EXCEPT ![k] = (t = "connect")]
        /\ calm' = [calm EXCEPT ![k] = @ /\ up[k] # (t = "connect") /\ ~InCallback(k)]
        /\ partner' = [partner EXCEPT ![i] = IF flap THEN e ELSE 0]
        /\ pending' = [pending EXCEPT ![k] = IF flap THEN @ ELSE i]
        /\ phase' = [j \in Event |->
                        CASE j = i -> IF flap THEN "swallowed" ELSE "armed"
                          [] flap /\ j = e /\ phase[j] = "armed" -> "cancelled"
                          [] OTHER -> phase[j]]
        /\ UNCHANGED <<queue, sender, monitor, shutdown>>

\* Mutant: the event is never stored in fd.pending.
OfferUnlisted(k, t) ==
    LET i == n + 1
        e == pending[k]
        flap == e # 0 /\ type[e] = Opposite(t)
    IN  /\ Running
        /\ n < MaxEvents
        /\ n' = i
        /\ key' = [key EXCEPT ![i] = k]
        /\ type' = [type EXCEPT ![i] = t]
        /\ up' = [up EXCEPT ![k] = (t = "connect")]
        /\ calm' = [calm EXCEPT ![k] = @ /\ up[k] # (t = "connect") /\ ~InCallback(k)]
        /\ partner' = [partner EXCEPT ![i] = IF flap THEN e ELSE 0]
        /\ pending' = [pending EXCEPT ![k] = 0]
        /\ phase' = [j \in Event |->
                        CASE j = i -> IF flap THEN "swallowed" ELSE "armed"
                          [] flap /\ j = e /\ phase[j] = "armed" -> "cancelled"
                          [] OTHER -> phase[j]]
        /\ UNCHANGED <<queue, sender, monitor, shutdown>>

(***************************************************************************)
(* CheckForFlapping, under fd.mu.  An event whose opposite is listed takes *)
(* it off the list and is swallowed; cancel() and Stop() only help if that *)
(* event's callback has not passed its ctx check.  Otherwise the event is  *)
(* listed, over any entry of the same type, and a timer is armed.          *)
(***************************************************************************)
Offer(k, t) ==
    LET i == n + 1
        e == pending[k]
        flap == e # 0 /\ type[e] = Opposite(t)
    IN  /\ Running
        /\ n < MaxEvents
        /\ n' = i
        /\ key' = [key EXCEPT ![i] = k]
        /\ type' = [type EXCEPT ![i] = t]
        /\ up' = [up EXCEPT ![k] = (t = "connect")]
        /\ calm' = [calm EXCEPT ![k] = @ /\ up[k] # (t = "connect") /\ ~InCallback(k)]
        /\ partner' = [partner EXCEPT ![i] = IF flap THEN e ELSE 0]
        /\ pending' = [pending EXCEPT ![k] = IF flap THEN 0 ELSE i]
        /\ phase' = [j \in Event |->
                        CASE j = i -> IF flap THEN "swallowed" ELSE "armed"
                          [] flap /\ j = e /\ phase[j] = "armed" -> "cancelled"
                          [] OTHER -> phase[j]]
        /\ UNCHANGED <<queue, sender, monitor, shutdown>>

\* An event without flap detection goes to the queue in its caller's goroutine.
OfferDirect(k) ==
    /\ Running
    /\ n < MaxEvents
    /\ n' = n + 1
    /\ key' = [key EXCEPT ![n + 1] = k]
    /\ type' = [type EXCEPT ![n + 1] = "direct"]
    /\ phase' = [phase EXCEPT ![n + 1] = "dispatching"]
    /\ UNCHANGED <<pending, partner, up, calm, queue, sender, monitor, shutdown>>

\* The timer fires and the callback finds ctx not done.
Fire(i) ==
    /\ Running
    /\ phase[i] = "armed"
    /\ phase' = [phase EXCEPT ![i] = "dispatching"]
    /\ UNCHANGED <<n, key, type, pending, partner, up, calm, queue, sender, monitor, shutdown>>

\* The event says what its source last reported, and no other of its key is
\* in the flap detector.
Alone(i) ==
    /\ type[i] # "direct" /\ up[key[i]] = (type[i] = "connect")
    /\ \A j \in 1..n \ {i} :
            key[j] = key[i] /\ type[j] # "direct" => phase[j] \notin {"armed", "dispatching", "queued"}

\* prepareQueuedMessages and addToQueue, which blocks while the channel is full.
Dispatch(i) ==
    /\ Running
    /\ phase[i] = "dispatching"
    /\ Len(queue) < QueueCap
    /\ queue' = Append(queue, i)
    /\ phase' = [phase EXCEPT ![i] = IF type[i] = "direct" THEN "done" ELSE "queued"]
    /\ calm' = [calm EXCEPT ![key[i]] = @ \/ Alone(i)]
    /\ UNCHANGED <<n, key, type, pending, partner, up, sender, monitor, shutdown>>

\* Mutant: the callback leaves its entry behind.
UnlistForgotten(i) ==
    /\ Running
    /\ phase[i] = "queued"
    /\ phase' = [phase EXCEPT ![i] = "done"]
    /\ UNCHANGED <<n, key, type, pending, partner, up, calm, queue, sender, monitor, shutdown>>

\* The end of the callback deletes whatever the key lists by now.
Unlist(i) ==
    /\ Running
    /\ phase[i] = "queued"
    /\ phase' = [phase EXCEPT ![i] = "done"]
    /\ pending' = [pending EXCEPT ![key[i]] = 0]
    /\ UNCHANGED <<n, key, type, partner, up, calm, queue, sender, monitor, shutdown>>

-----------------------------------------------------------------------------
(***************************************************************************)
(* monitorQueue takes one event at a time and sends it itself.  Once ctx   *)
(* is cancelled the select may take either case.                           *)
(***************************************************************************)
MonitorTakes ==
    /\ Running
    /\ monitor /\ sending = 0
    /\ queue # <<>>
    /\ queue' = Tail(queue)
    /\ sending' = Head(queue)
    /\ UNCHANGED <<n, key, type, phase, pending, partner, up, calm, view, failed, monitor, shutdown>>

\* Mutant: monitorQueue without its loop.
SendReturnsOnce(ok) ==
    /\ Running
    /\ sending # 0
    /\ sending' = 0
    /\ monitor' = FALSE
    /\ UNCHANGED <<n, key, type, phase, pending, partner, up, calm, queue, view, failed, shutdown>>

(***************************************************************************)
(* HttpSender.Send and SNSSender.Send return.  Their error is dropped and  *)
(* does not tell whether the receiver got the event; there is no retry.    *)
(***************************************************************************)
SendReturns(ok) ==
    LET k == key[sending] IN
    /\ Running
    /\ sending # 0
    /\ sending' = 0
    /\ IF type[sending] = "direct" THEN UNCHANGED <<view, failed>>
       ELSE /\ failed' = [failed EXCEPT ![k] = ~ok]
            /\ \/ view' = [view EXCEPT ![k] = (type[sending] = "connect")]
               \/ ~ok /\ UNCHANGED view
    /\ UNCHANGED <<n, key, type, phase, pending, partner, up, calm, queue, monitor, shutdown>>

StopMonitor ==
    /\ Running
    /\ monitor /\ sending = 0
    /\ shutdown # "no"
    /\ monitor' = FALSE
    /\ UNCHANGED <<n, key, type, phase, pending, partner, up, calm, queue, sender, shutdown>>

(***************************************************************************)
(* attemptGracefulShutdown: cancel() at once, QueueManager.Shutdown when   *)
(* the sockets are closed.  It waits for the channel to be empty or for a  *)
(* timeout; then the process exits.                                        *)
(***************************************************************************)
CancelContext ==
    /\ shutdown = "no"
    /\ shutdown' = "cancelled"
    /\ UNCHANGED <<n, key, type, phase, pending, partner, up, calm, queue, sender, monitor>>

BeginShutdown ==
    /\ shutdown = "cancelled"
    /\ shutdown' = "waiting"
    /\ UNCHANGED <<n, key, type, phase, pending, partner, up, calm, queue, sender, monitor>>

EndShutdown ==
    /\ shutdown = "waiting"
    /\ shutdown' \in (IF queue = <<>> THEN {"graceful"} ELSE {}) \cup {"timedout"}
    /\ UNCHANGED <<n, key, type, phase, pending, partner, up, calm, queue, sender, monitor>>

\* The process has exited.
Exited == ~Running /\ UNCHANGED vars

Callback(i) == Fire(i) \/ Dispatch(i) \/ Unlist(i)

Next ==
    \/ \E k \in Key : OfferDirect(k) \/ \E t \in {"connect", "disconnect"} : Offer(k, t)
    \/ \E i \in Event : Callback(i)
    \/ MonitorTakes \/ (\E ok \in BOOLEAN : SendReturns(ok)) \/ StopMonitor
    \/ CancelContext \/ BeginShutdown \/ EndShutdown \/ Exited

Spec == Init /\ [][Next]_vars

(***************************************************************************)
(* Timers fire and their goroutines run; of several that wait for room in  *)
(* a Go channel each is served in turn (its waiters queue up), hence SF.   *)
(* A send need not return: http.Client has no timeout.                     *)
(***************************************************************************)
FairSpec ==
    /\ Spec
    /\ WF_vars(MonitorTakes)
    /\ \A i \in Event : WF_vars(Fire(i)) /\ SF_vars(Dispatch(i)) /\ WF_vars(Unlist(i))

-----------------------------------------------------------------------------
(***************************************************************************)
(* A flap is a pair: whatever races with the timers, no two events are     *)
(* swallowed by the same one, and none by one that was swallowed itself or *)
(* is of its own type (flapDetector.go:60-65, 84).                         *)
(***************************************************************************)
FlapIsAPair ==
    \A i \in 1..n : phase[i] = "swallowed" =>
        /\ type[partner[i]] = Opposite(type[i]) /\ key[partner[i]] = key[i]
        /\ phase[partner[i]] # "swallowed"
        /\ \A j \in 1..n : phase[j] = "swallowed" /\ partner[j] = partner[i] => j = i

(***************************************************************************)
(* As long as the events of a key alternate and none meets a callback that *)
(* is running, the event whose timer runs is the one listed under the key, *)
(* so its opposite finds it (flapDetector.go:60, 80, 84).                  *)
(***************************************************************************)
WaitingIsListed ==
    \A i \in 1..n : phase[i] = "armed" /\ calm[key[i]] => pending[key[i]] = i

(***************************************************************************)
(* fd.pending and the queue have their types, the queue its bound          *)
(* (queueSync.go:34), and fd.pending lists the events that wait.           *)
(***************************************************************************)
PendingIsRight == TypeOK /\ WaitingIsListed

Settled(k) ==
    /\ \A i \in 1..n : key[i] = k => phase[i] \in {"done", "cancelled", "swallowed"}
    /\ \A j \in 1..Len(queue) : key[queue[j]] # k
    /\ sending # 0 => key[sending] # k

(***************************************************************************)
(* When nothing is on its way for a key, the receiver was last told what   *)
(* the source last reported, however often the key flapped, unless the     *)
(* send that should have told it failed (flapDetector.go:46-89,            *)
(* queueSync.go:70-83, webhooks.go:55).  An event that repeats its         *)
(* predecessor or meets a running callback may be lost; the next one that  *)
(* gets through the flap detector alone makes up for it (calm).            *)
(***************************************************************************)
ViewConverges == \A k \in Key : calm[k] /\ Settled(k) => failed[k] \/ view[k] = up[k]

(***************************************************************************)
(* On a server that stays up and whose receivers answer, if only with an   *)
(* error, every event that was not swallowed on arrival is sent or         *)
(* cancelled, also when the channel fills up (queueSync.go:67) and when    *)
(* timers of the same key overwrite each other's entries                   *)
(* (flapDetector.go:80, 84).  One send that never returns (http.go:33)     *)
(* stops them all.                                                         *)
(***************************************************************************)
EveryEventSettles ==
    []<>(sending = 0) =>
        \A i \in Event :
            phase[i] \in {"armed", "dispatching", "queued"}
                ~> \/ /\ phase[i] = "done" /\ sending # i
                      /\ \A j \in 1..Len(queue) : queue[j] # i
                   \/ phase[i] = "cancelled"
                   \/ shutdown # "no"
==============================================================================
