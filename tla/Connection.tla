----------------------------- MODULE Connection -----------------------------
(***************************************************************************)
(* How connections to one app of one node begin (serve.go, serveWs) and    *)
(* how a shutdown ends them (server.go, attemptGracefulShutdown): HTTP     *)
(* handlers that check, count and add in separate steps, against the       *)
(* goroutines of the shutdown, which sweep the sockets, drain the webhook  *)
(* queue (SyncQueue), stop the HTTP server and wait for each other.        *)
(*                                                                         *)
(* closeConnection is two steps here: the socket leaves the adapter and    *)
(* its channel, in which it was alone; the connection is closed.           *)
(* Subscription and AuthWatch have the rest of it.  The map of sockets is  *)
(* read without a lock (namespace.go:34): the sweep is Go's iteration over *)
(* a live map.                                                             *)
(***************************************************************************)
EXTENDS Integers, FiniteSets

CONSTANTS
    Socket,          \* connection attempts
    MaxConnections   \* of the app; -1: no limit

ASSUME ConnectionAssumption ==
    /\ IsFiniteSet(Socket)
    /\ MaxConnections \in Int /\ MaxConnections >= -1

VARIABLES
    stage,      \* of each attempt
    sockets,    \* the sockets of the app's namespace
    ns,         \* the namespace exists
    hook,       \* the webhook event of each socket's channel: vacated
    monitor,    \* monitorQueue: "run", "stopped"
    closing,    \* server.Closing
    http,       \* webServer: "up", "stopping" (no new connections), "down"
    sweep,      \* CloseAllLocalSockets: "no", "started", "iterating",
                \* "waiting", "clear", "done"
    due,        \* the sockets that were there when the iteration began
    task,       \* the sweep's goroutine for each socket: "none", "run", "done"
    drain,      \* QueueManager.Shutdown: "no", "done"
    cancelled,  \* cancel() was called
    exit,       \* "no", "orderly", "timeout", "fatal"
    peak,       \* history: most handlers ever between count and add
    inflight,   \* history: handlers between the checks and the adapter when
                \* the signal came
    backlog     \* history: events in the queue when the sockets were closed

vars == <<stage, sockets, ns, hook, monitor, closing, http, sweep, due, task, drain,
          cancelled, exit, peak, inflight, backlog>>
shutdown == <<closing, http, sweep, due, task, drain, cancelled, exit, inflight, backlog>>
queue == <<hook, monitor>>

Stage == {"idle", "routed", "serving", "hijacked", "upgraded", "counting", "counted", "added", "open",
          "leaving", "closed", "refused", "lost"}

TypeOK ==
    /\ stage \in [Socket -> Stage]
    /\ sockets \subseteq {s \in Socket : stage[s] \in {"added", "open"}}
    /\ ns \in BOOLEAN /\ (sockets # {} => ns)
    /\ hook \in [Socket -> {"none", "armed", "queued", "sending", "sent"}]
    /\ monitor \in {"run", "stopped"}
    /\ {closing, cancelled} \subseteq BOOLEAN
    /\ http \in {"up", "stopping", "down"}
    /\ sweep \in {"no", "started", "iterating", "waiting", "clear", "done"}
    /\ task \in [Socket -> {"none", "run", "done"}]
    /\ drain \in {"no", "done"}
    /\ exit \in {"no", "orderly", "timeout", "fatal"}
    /\ peak \in 0..Cardinality(Socket)
    /\ {due, inflight, backlog} \subseteq SUBSET Socket

Init ==
    /\ stage = [s \in Socket |-> "idle"]
    /\ sockets = {} /\ ns = FALSE
    /\ hook = [s \in Socket |-> "none"] /\ monitor = "run"
    /\ closing = FALSE /\ http = "up" /\ sweep = "no" /\ due = {}
    /\ task = [s \in Socket |-> "none"]
    /\ drain = "no" /\ cancelled = FALSE /\ exit = "no"
    /\ peak = 0 /\ inflight = {} /\ backlog = {}

In(st) == {s \in Socket : stage[s] \in st}
Larger(a, b) == IF a > b THEN a ELSE b

\* The connection is at stage b now.
To(s, b) == stage' = [stage EXCEPT ![s] = b]

-----------------------------------------------------------------------------
(* The handler of GET /app/:key.                                           *)

\* The route looks at server.Closing ...
Route(s) ==
    /\ stage[s] = "idle" /\ http = "up"
    /\ To(s, IF closing THEN "refused" ELSE "routed")
    /\ UNCHANGED <<sockets, ns, queue, shutdown, peak>>

\* ... and serveWs again.
ServeWs(s) ==
    /\ stage[s] = "routed"
    /\ To(s, IF closing THEN "refused" ELSE "serving")
    /\ UNCHANGED <<sockets, ns, queue, shutdown, peak>>

\* The connection is taken from the HTTP server, or the upgrade fails.
Upgrade(s) ==
    /\ stage[s] = "serving"
    /\ \E b \in {"hijacked", "refused"} : To(s, b)
    /\ UNCHANGED <<sockets, ns, queue, shutdown, peak>>

\* The protocol is supported, the app is found and enabled, or
\* closeConnectionWithError.
ValidateApp(s) ==
    /\ stage[s] = "hijacked"
    /\ \E b \in {"upgraded", "refused"} : To(s, b)
    /\ UNCHANGED <<sockets, ns, queue, shutdown, peak>>

\* Mutant: the limit compared without the connection that asks.
AdmitOffByOne(n) == MaxConnections > -1 => n <= MaxConnections

\* The condition of validateConnectionLimits.
Admit(n) == MaxConnections > -1 => n + 1 <= MaxConnections

Counted(s, n) ==
    /\ To(s, IF Admit(n) THEN "counted" ELSE "refused")
    /\ peak' = IF Admit(n) THEN Larger(peak, Cardinality(In({"counted"})) + 1) ELSE peak
    /\ UNCHANGED <<sockets, ns, queue, shutdown>>

\* GetSocketsCount looks for the namespace under l.mutex ...
GetNamespace(s) ==
    /\ stage[s] = "upgraded"
    /\ \/ ~ns /\ Counted(s, 0)
       \/ ns /\ To(s, "counting") /\ UNCHANGED <<sockets, ns, queue, shutdown, peak>>

\* ... and counts without it.  If ClearNamespaces came in between it calls a
\* method of nil: gin recovers the handler, the connection is nobody's.
CountSockets(s) ==
    /\ stage[s] = "counting"
    /\ \/ ns /\ Counted(s, Cardinality(sockets))
       \/ ~ns /\ To(s, "lost") /\ UNCHANGED <<sockets, ns, queue, shutdown, peak>>

\* addSocketToAdapter; AddSocket makes the namespace if there is none.
AddSocket(s) ==
    /\ stage[s] = "counted"
    /\ To(s, "added")
    /\ sockets' = sockets \cup {s} /\ ns' = TRUE
    /\ UNCHANGED <<queue, shutdown, peak>>

\* initializeWebSocketConnection: go Listen.
Initialize(s) ==
    /\ stage[s] = "added"
    /\ To(s, "open")
    /\ UNCHANGED <<sockets, ns, queue, shutdown, peak>>

Handler(s) ==
    \/ ServeWs(s) \/ Upgrade(s) \/ ValidateApp(s) \/ GetNamespace(s) \/ CountSockets(s)
    \/ AddSocket(s) \/ Initialize(s)

-----------------------------------------------------------------------------
(* closeConnection, and the webhooks.                                      *)

\* The socket leaves its channel, whose event waits for the flap detector's
\* timer, and the adapter.
Leave(s) ==
    /\ To(s, "leaving")
    /\ sockets' = sockets \ {s}
    /\ hook' = [hook EXCEPT ![s] = "armed"]
    /\ UNCHANGED <<ns, monitor, shutdown, peak>>

\* The listener's read fails.
ListenerCloses(s) == stage[s] = "open" /\ Leave(s)

\* The goroutine that the sweep started; another closer may have been first.
SweepCloses(s) == task[s] = "run" /\ stage[s] \in {"added", "open"} /\ Leave(s)

HangUp(s) ==
    /\ stage[s] = "leaving"
    /\ To(s, "closed")
    /\ UNCHANGED <<sockets, ns, queue, shutdown, peak>>

FlapTimer(s) ==
    /\ hook[s] = "armed"
    /\ hook' = [hook EXCEPT ![s] = "queued"]
    /\ UNCHANGED <<stage, sockets, ns, monitor, shutdown, peak>>

\* monitorQueue takes an event, sends it, or sees that ctx is cancelled.
MonitorTakes(s) ==
    /\ monitor = "run" /\ hook[s] = "queued"
    /\ \A t \in Socket : hook[t] # "sending"
    /\ hook' = [hook EXCEPT ![s] = "sending"]
    /\ UNCHANGED <<stage, sockets, ns, monitor, shutdown, peak>>

MonitorSends(s) ==
    /\ hook[s] = "sending"
    /\ hook' = [hook EXCEPT ![s] = "sent"]
    /\ UNCHANGED <<stage, sockets, ns, monitor, shutdown, peak>>

MonitorStops ==
    /\ monitor = "run" /\ cancelled
    /\ \A t \in Socket : hook[t] # "sending"
    /\ monitor' = "stopped"
    /\ UNCHANGED <<stage, sockets, ns, hook, shutdown, peak>>

-----------------------------------------------------------------------------
(* attemptGracefulShutdown.                                                *)

conns == <<stage, sockets, ns, queue, peak>>

\* The signal: server.Closing, and the goroutines are started.
Signal ==
    /\ ~closing
    /\ closing' = TRUE
    /\ sweep' = "started"
    /\ inflight' = In({"serving", "hijacked", "upgraded", "counting", "counted"})
    /\ UNCHANGED <<conns, http, due, task, drain, cancelled, exit, backlog>>

\* webServer.Shutdown closes the listening socket and waits for the handlers
\* whose connections it still has.
HttpStops ==
    /\ closing /\ http = "up"
    /\ http' = "stopping"
    /\ UNCHANGED <<conns, closing, sweep, due, task, drain, cancelled, exit, inflight, backlog>>

HttpDown ==
    /\ http = "stopping" /\ In({"routed", "serving"}) = {}
    /\ http' = "down"
    /\ UNCHANGED <<conns, closing, sweep, due, task, drain, cancelled, exit, inflight, backlog>>

\* GetNamespaces: without a namespace there is nothing to do or to clear.
SweepStarts ==
    /\ sweep = "started"
    /\ \/ ns /\ sweep' = "iterating" /\ due' = sockets /\ UNCHANGED backlog
       \/ ~ns /\ sweep' = "done" /\ backlog' = {s \in Socket : hook[s] = "queued"} /\ UNCHANGED due
    /\ UNCHANGED <<conns, closing, http, task, drain, cancelled, exit, inflight>>

\* The iteration meets a socket: one of those due, or one added since.
SweepVisits(s) ==
    /\ sweep = "iterating" /\ s \in sockets /\ task[s] = "none"
    /\ task' = [task EXCEPT ![s] = "run"]
    /\ UNCHANGED <<conns, closing, http, sweep, due, drain, cancelled, exit, inflight, backlog>>

\* Mutant: the iteration stops at the first socket.
IterationStops ==
    /\ sweep = "iterating"
    /\ sockets # {} => \E s \in Socket : task[s] # "none"
    /\ sweep' = "waiting"
    /\ UNCHANGED <<conns, closing, http, due, task, drain, cancelled, exit, inflight, backlog>>

IterationEnds ==
    /\ sweep = "iterating"
    /\ \A s \in due \cap sockets : task[s] # "none"
    /\ sweep' = "waiting"
    /\ UNCHANGED <<conns, closing, http, due, task, drain, cancelled, exit, inflight, backlog>>

\* A socket is added to the map or removed while the iteration runs: the Go
\* runtime may notice, and ends the process.
IterationRaces ==
    /\ sweep = "iterating"
    /\ \E s \in Socket : stage[s] \in {"counted", "open"} \/ (stage[s] = "added" /\ task[s] = "run")
    /\ exit' = "fatal"
    /\ UNCHANGED <<conns, closing, http, sweep, due, task, drain, cancelled, inflight, backlog>>

TaskDone(s) ==
    /\ task[s] = "run" /\ stage[s] = "closed"
    /\ task' = [task EXCEPT ![s] = "done"]
    /\ UNCHANGED <<conns, closing, http, sweep, due, drain, cancelled, exit, inflight, backlog>>

SweepWaited ==
    /\ sweep = "waiting" /\ \A s \in Socket : task[s] # "run"
    /\ sweep' = "clear"
    /\ UNCHANGED <<conns, closing, http, due, task, drain, cancelled, exit, inflight, backlog>>

\* ClearNamespaces, and socketsClosed is closed.
ClearNamespaces ==
    /\ sweep = "clear"
    /\ sweep' = "done"
    /\ sockets' = {} /\ ns' = FALSE
    /\ backlog' = {s \in Socket : hook[s] = "queued"}
    /\ UNCHANGED <<stage, queue, peak, closing, http, due, task, drain, cancelled, exit, inflight>>

\* Mutant: QueueManager.Shutdown does not wait for the queue.
DrainAtOnce ==
    /\ sweep = "done" /\ drain = "no"
    /\ drain' = "done"
    /\ UNCHANGED <<conns, closing, http, sweep, due, task, cancelled, exit, inflight, backlog>>

\* After socketsClosed, QueueManager.Shutdown polls until it finds the queue
\* empty.  Its own limit is 30 s, behind the 10 s of ExitTimeout.
Drain ==
    /\ sweep = "done" /\ drain = "no"
    /\ \A s \in Socket : hook[s] # "queued"
    /\ drain' = "done"
    /\ UNCHANGED <<conns, closing, http, sweep, due, task, cancelled, exit, inflight, backlog>>

Cancel ==
    /\ closing /\ ~cancelled
    /\ cancelled' = TRUE
    /\ UNCHANGED <<conns, closing, http, sweep, due, task, drain, exit, inflight, backlog>>

AllDone == http = "down" /\ sweep = "done" /\ drain = "done"

ExitOrderly ==
    /\ cancelled /\ AllDone
    /\ exit' = "orderly"
    /\ UNCHANGED <<conns, closing, http, sweep, due, task, drain, cancelled, inflight, backlog>>

\* Mutant: no case for serverShutdownContext in the select.
ExitOnlyIfDone ==
    /\ cancelled /\ AllDone
    /\ exit' = "timeout"
    /\ UNCHANGED <<conns, closing, http, sweep, due, task, drain, cancelled, inflight, backlog>>

\* The 10 s of serverShutdownContext are over.
ExitTimeout ==
    /\ cancelled
    /\ exit' = "timeout"
    /\ UNCHANGED <<conns, closing, http, sweep, due, task, drain, cancelled, inflight, backlog>>

-----------------------------------------------------------------------------
Step ==
    \/ \E s \in Socket :
        \/ Route(s) \/ Handler(s)
        \/ ListenerCloses(s) \/ SweepCloses(s) \/ HangUp(s)
        \/ FlapTimer(s) \/ MonitorTakes(s) \/ MonitorSends(s)
        \/ SweepVisits(s) \/ TaskDone(s)
    \/ MonitorStops
    \/ Signal \/ HttpStops \/ HttpDown
    \/ SweepStarts \/ IterationEnds \/ IterationRaces \/ SweepWaited \/ ClearNamespaces
    \/ Drain \/ Cancel \/ ExitOrderly \/ ExitTimeout

Next == exit = "no" /\ Step

Spec == Init /\ [][Next]_vars

\* A goroutine that can go on does, and the timer fires; nobody has to
\* connect, to disconnect or to stop the server.
FairSpec ==
    /\ Spec
    /\ \A s \in Socket :
        /\ WF_vars(exit = "no" /\ Handler(s))
        /\ WF_vars(exit = "no" /\ (SweepCloses(s) \/ HangUp(s) \/ TaskDone(s) \/ SweepVisits(s)))
    /\ WF_vars(exit = "no" /\ (HttpStops \/ HttpDown))
    /\ WF_vars(exit = "no" /\ (SweepStarts \/ IterationEnds \/ SweepWaited \/ ClearNamespaces \/ Drain))
    /\ WF_vars(exit = "no" /\ Cancel)
    /\ WF_vars(exit = "no" /\ (ExitOrderly \/ ExitTimeout))

-----------------------------------------------------------------------------
(***************************************************************************)
(* "MaxConnections is the maximum number of concurrent connections this    *)
(* app is allowed to have" (apps/app.go:32).                               *)
(***************************************************************************)
WithinLimit == MaxConnections > -1 => Cardinality(sockets) <= MaxConnections

(***************************************************************************)
(* WithinLimit is violated, because the limit is checked before the socket *)
(* is counted (serve.go:140-151).  This is what the check does give:       *)
(* connections that arrive together exceed the limit by no more than the   *)
(* handlers that ever were between the two at once, less one, so if they   *)
(* come one after the other the limit holds.                               *)
(***************************************************************************)
LimitOvershoot ==
    MaxConnections > -1 =>
        Cardinality(sockets) + Cardinality(In({"counted"}))
            <= MaxConnections + (IF peak = 0 THEN 0 ELSE peak - 1)

(***************************************************************************)
(* The same with the types: the adapter holds sockets that were added and  *)
(* whose closing has not begun (serve.go:218, websocket.go:278), and no    *)
(* more of them than LimitOvershoot allows.                                *)
(***************************************************************************)
AdmissionInv == TypeOK /\ LimitOvershoot

(***************************************************************************)
(* After an orderly exit (server.go:440) every connection was closed by a  *)
(* goroutine that told its client, except those whose handlers had passed  *)
(* the check of server.Closing (serve.go:109) when the signal came and had *)
(* not added their socket yet.                                             *)
(***************************************************************************)
LeftOpenWasInFlight ==
    exit = "orderly" =>
        In({"routed", "serving", "hijacked", "upgraded", "counting", "counted", "added",
            "open", "lost"}) \subseteq inflight

(***************************************************************************)
(* The webhooks that were in the queue when the sockets were closed are    *)
(* taken from it before an orderly exit (queueSync.go:39-56), although     *)
(* cancel() stops its consumer long before: the exit is late instead.      *)
(***************************************************************************)
BacklogDrained == exit = "orderly" => \A s \in backlog : hook[s] \in {"sending", "sent"}

(***************************************************************************)
(* A signal ends the process (server.go:360-448): the tasks may wait for   *)
(* handlers, for each other and for a queue whose consumer has stopped,    *)
(* but not for ever.                                                       *)
(***************************************************************************)
ShutdownEnds == closing ~> exit # "no"
=============================================================================
