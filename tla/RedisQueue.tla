----------------------------- MODULE RedisQueue -----------------------------
(***************************************************************************)
(* The webhook queue that the nodes of a deployment share in Redis         *)
(* (internal/queues/queueRedis.go): a list of jobs, pushed at one end and  *)
(* moved from the other into a working list by BRPOPLPUSH, and one         *)
(* monitorQueue goroutine per node that sends a job and then removes it    *)
(* from the working list by value.                                         *)
(*                                                                         *)
(* A job is its text: two jobs with equal text cannot be told apart, so    *)
(* the working list is a count per text.  Http and Sns say which receivers *)
(* the webhook of a job names; a Malformed text was put into the list by   *)
(* another program and does not parse.  Receivers answer when they like:   *)
(* http.Client is created without a timeout, and the result of a send is   *)
(* ignored.                                                                *)
(*                                                                         *)
(* Processes crash at any step, exit in the middle of one at the end of a  *)
(* graceful shutdown, and are restarted.  Redis keeps both lists.  A       *)
(* command that returns an error was not executed, or was executed and its *)
(* reply lost; the code cannot tell which.                                 *)
(***************************************************************************)
EXTENDS Integers, Sequences, FiniteSets

CONSTANTS
    Node,           \* server processes
    Job,            \* texts of jobs
    NoJob,          \* no text
    Malformed,      \* the ones json.Unmarshal rejects
    Http, Sns,      \* the ones whose webhook has a URL, a topic
    MaxPushes,      \* bound: jobs pushed in a behaviour
    MaxRestarts     \* bound: restarts in a behaviour

ASSUME RedisQueueAssumption ==
    /\ IsFiniteSet(Node)
    /\ NoJob \notin Job
    /\ Malformed \subseteq Job /\ Http \subseteq Job /\ Sns \subseteq Job
    /\ MaxPushes \in Nat /\ MaxRestarts \in Nat

VARIABLES
    queue,      \* the list webhook_queue, next job to be moved first
    working,    \* the list webhook_queue_working: copies of each text
    up,         \* the process is running
    linked,     \* NewRedisQueue has stored the AbstractQueue in r
    mon,        \* where monitorQueue is
    hold,       \* the job monitorQueue has in hand
    cancelled,  \* the server's ctx is cancelled
    shut,       \* Shutdown: "no", "polling", "drained"
    pushes, restarts,
    orphan,     \* history: working copies abandoned before they were settled
    leftover,   \* history: working copies that stay although they are settled
    settled,    \* history: jobs whose send returned, or which do not parse
    extra,      \* history: jobs moved by a node after its ctx was cancelled
    fresh       \* history: the job in hand was moved after Shutdown returned

vars == <<queue, working, up, linked, mon, hold, cancelled, shut, pushes, restarts,
          orphan, leftover, settled, extra, fresh>>
redis == <<queue, working>>
history == <<orphan, leftover, settled>>
control == <<up, linked, cancelled, shut, pushes, restarts>>

InHand == {"process", "http", "sns"}
Mon == {"poll", "blocked", "remove", "stopped"} \cup InHand

TypeOK ==
    /\ queue \in Seq(Job)
    /\ working \in [Job -> Nat]
    /\ up \in [Node -> BOOLEAN] /\ linked \in [Node -> BOOLEAN]
    /\ mon \in [Node -> Mon]
    /\ hold \in [Node -> Job \cup {NoJob}]
    /\ \A n \in Node : (hold[n] = NoJob) = (mon[n] \in {"poll", "blocked", "stopped"})
    /\ cancelled \in [Node -> BOOLEAN]
    /\ shut \in [Node -> {"no", "polling", "drained"}]
    /\ pushes \in 0..MaxPushes /\ restarts \in 0..MaxRestarts
    /\ orphan \in [Job -> Nat] /\ leftover \in [Job -> Nat] /\ settled \in [Job -> Nat]
    /\ extra \in [Node -> Nat] /\ fresh \in [Node -> BOOLEAN]

Init ==
    /\ queue = <<>>
    /\ working = [j \in Job |-> 0]
    /\ up = [n \in Node |-> TRUE]
    /\ linked = [n \in Node |-> FALSE]
    /\ mon = [n \in Node |-> "poll"]
    /\ hold = [n \in Node |-> NoJob]
    /\ cancelled = [n \in Node |-> FALSE]
    /\ shut = [n \in Node |-> "no"]
    /\ pushes = 0 /\ restarts = 0
    /\ orphan = [j \in Job |-> 0]
    /\ leftover = [j \in Job |-> 0]
    /\ settled = [j \in Job |-> 0]
    /\ extra = [n \in Node |-> 0]
    /\ fresh = [n \in Node |-> FALSE]

-----------------------------------------------------------------------------
\* NewRedisQueue: NewAbstractQueue has started monitorQueue, and only now is
\* the AbstractQueue stored where monitorQueue looks for it.
Link(n) ==
    /\ up[n] /\ ~linked[n]
    /\ linked' = [linked EXCEPT ![n] = TRUE]
    /\ UNCHANGED <<redis, history, up, mon, hold, cancelled, shut, pushes, restarts, extra, fresh>>

\* addToQueue on a running node, or an LPUSH by another program.  An LPUSH
\* that fails is logged and the job forgotten: nothing changes.
Push(j) ==
    /\ j \in Malformed \/ \E n \in Node : up[n] /\ linked[n]
    /\ pushes < MaxPushes
    /\ pushes' = pushes + 1
    /\ queue' = Append(queue, j)
    /\ UNCHANGED <<working, history, up, linked, mon, hold, cancelled, shut, restarts, extra, fresh>>

\* Mutant: the loop does not look at ctx.
PollForever(n) ==
    /\ up[n] /\ mon[n] = "poll"
    /\ mon' = [mon EXCEPT ![n] = "blocked"]
    /\ UNCHANGED <<redis, history, control, hold, extra, fresh>>

\* The head of monitorQueue's loop: stop, or ask Redis.  The command has a
\* context of its own, so once sent it is not withdrawn by cancel().
Poll(n) ==
    /\ up[n] /\ mon[n] = "poll"
    /\ mon' = [mon EXCEPT ![n] = IF cancelled[n] THEN "stopped" ELSE "blocked"]
    /\ UNCHANGED <<redis, history, control, hold, extra, fresh>>

\* Mutant: a poll that times out ends the loop.
PollEndsLoop(n) ==
    /\ up[n] /\ mon[n] = "blocked"
    /\ mon' = [mon EXCEPT ![n] = "stopped"]
    /\ UNCHANGED <<redis, history, control, hold, extra, fresh>>

\* BRPOPLPUSH gives nothing: one second without a job, or an error before
\* Redis has executed it.
PollEmpty(n) ==
    /\ up[n] /\ mon[n] = "blocked"
    /\ mon' = [mon EXCEPT ![n] = "poll"]
    /\ UNCHANGED <<redis, history, control, hold, extra, fresh>>

\* Mutant: the job is taken from the end at which jobs are pushed.
MoveNewest(n) ==
    LET j == queue[Len(queue)]
    IN  /\ up[n] /\ mon[n] = "blocked" /\ queue # <<>>
        /\ queue' = SubSeq(queue, 1, Len(queue) - 1)
        /\ working' = [working EXCEPT ![j] = @ + 1]
        /\ hold' = [hold EXCEPT ![n] = j]
        /\ mon' = [mon EXCEPT ![n] = "process"]
        /\ extra' = [extra EXCEPT ![n] = IF cancelled[n] THEN @ + 1 ELSE @]
        /\ fresh' = [fresh EXCEPT ![n] = shut[n] = "drained"]
        /\ UNCHANGED <<history, control>>

\* BRPOPLPUSH moves the oldest job into the working list.
Move(n) ==
    LET j == Head(queue)
    IN  /\ up[n] /\ mon[n] = "blocked" /\ queue # <<>>
        /\ queue' = Tail(queue)
        /\ working' = [working EXCEPT ![j] = @ + 1]
        /\ hold' = [hold EXCEPT ![n] = j]
        /\ mon' = [mon EXCEPT ![n] = "process"]
        /\ extra' = [extra EXCEPT ![n] = IF cancelled[n] THEN @ + 1 ELSE @]
        /\ fresh' = [fresh EXCEPT ![n] = shut[n] = "drained"]
        /\ UNCHANGED <<history, control>>

\* BRPOPLPUSH moves a job and the reply is lost.  The loop sees an error, waits
\* and goes on: the job stays in the working list and nobody has it in hand.
ReplyLost(n) ==
    LET j == Head(queue)
    IN  /\ up[n] /\ mon[n] = "blocked" /\ queue # <<>>
        /\ queue' = Tail(queue)
        /\ working' = [working EXCEPT ![j] = @ + 1]
        /\ orphan' = [orphan EXCEPT ![j] = @ + 1]
        /\ mon' = [mon EXCEPT ![n] = "poll"]
        /\ extra' = [extra EXCEPT ![n] = IF cancelled[n] THEN @ + 1 ELSE @]
        /\ UNCHANGED <<leftover, settled, control, hold, fresh>>

\* The next thing to do with job j after step `after`: WebhookSender.Send
\* tries the URL, then the topic; then the job is removed.
Stage(j, after) ==
    CASE after = "process" /\ j \notin Malformed /\ j \in Http -> "http"
      [] after # "sns" /\ j \notin Malformed /\ j \in Sns -> "sns"
      [] OTHER -> "remove"

Advance(n) ==
    LET s == Stage(hold[n], mon[n])
    IN  /\ mon' = [mon EXCEPT ![n] = s]
        /\ settled' = [settled EXCEPT ![hold[n]] = IF s = "remove" THEN @ + 1 ELSE @]
        /\ UNCHANGED <<redis, orphan, leftover, control, hold, extra, fresh>>

\* processEvent parses the text.  A job that parses needs the AbstractQueue.
Process(n) ==
    /\ up[n] /\ mon[n] = "process"
    /\ linked[n] \/ hold[n] \in Malformed
    /\ Advance(n)

\* The receiver answers, well or badly, or the connection breaks.
PostReturns(n) ==
    /\ up[n] /\ mon[n] = "http"
    /\ Advance(n)

\* SNS takes the message, or refuses it.
PublishReturns(n) ==
    /\ up[n] /\ mon[n] = "sns"
    /\ Advance(n)

\* Mutant: LREM with count 0, which removes every equal entry.
RemoveAll(n) ==
    /\ up[n] /\ mon[n] = "remove"
    /\ working' = [working EXCEPT ![hold[n]] = 0]
    /\ mon' = [mon EXCEPT ![n] = "poll"]
    /\ fresh' = [fresh EXCEPT ![n] = FALSE]
    /\ hold' = [hold EXCEPT ![n] = NoJob]
    /\ UNCHANGED <<queue, history, control, extra>>

\* removeEventFromQueue: LREM of one entry with this text, if there is one,
\* whoever put it.
Remove(n) ==
    /\ up[n] /\ mon[n] = "remove"
    /\ working' = [working EXCEPT ![hold[n]] = IF @ > 0 THEN @ - 1 ELSE 0]
    /\ mon' = [mon EXCEPT ![n] = "poll"]
    /\ fresh' = [fresh EXCEPT ![n] = FALSE]
    /\ hold' = [hold EXCEPT ![n] = NoJob]
    /\ UNCHANGED <<queue, history, control, extra>>

\* LREM fails and the error is logged.  The entry stays, or is gone if only
\* the reply was lost.
RemoveFails(n) ==
    /\ up[n] /\ mon[n] = "remove"
    /\ \/ /\ leftover' = [leftover EXCEPT ![hold[n]] = @ + 1]
          /\ UNCHANGED working
       \/ /\ working' = [working EXCEPT ![hold[n]] = IF @ > 0 THEN @ - 1 ELSE 0]
          /\ UNCHANGED leftover
    /\ mon' = [mon EXCEPT ![n] = "poll"]
    /\ fresh' = [fresh EXCEPT ![n] = FALSE]
    /\ hold' = [hold EXCEPT ![n] = NoJob]
    /\ UNCHANGED <<queue, orphan, settled, control, extra>>

-----------------------------------------------------------------------------
\* attemptGracefulShutdown runs cancel() and QueueManager.Shutdown in
\* different goroutines.
Cancel(n) ==
    /\ up[n] /\ ~cancelled[n]
    /\ cancelled' = [cancelled EXCEPT ![n] = TRUE]
    /\ UNCHANGED <<redis, history, up, linked, mon, hold, shut, pushes, restarts, extra, fresh>>

ShutdownStart(n) ==
    /\ up[n] /\ shut[n] = "no"
    /\ shut' = [shut EXCEPT ![n] = "polling"]
    /\ UNCHANGED <<redis, history, up, linked, mon, hold, cancelled, pushes, restarts, extra, fresh>>

\* Mutant: LLEN of the wrong list.
DrainedByQueue(n) ==
    /\ up[n] /\ shut[n] = "polling"
    /\ queue = <<>>
    /\ shut' = [shut EXCEPT ![n] = "drained"]
    /\ UNCHANGED <<redis, history, up, linked, mon, hold, cancelled, pushes, restarts, extra, fresh>>

\* Shutdown's ticker finds the working list of all nodes empty.
Drained(n) ==
    /\ up[n] /\ shut[n] = "polling"
    /\ \A j \in Job : working[j] = 0
    /\ shut' = [shut EXCEPT ![n] = "drained"]
    /\ UNCHANGED <<redis, history, up, linked, mon, hold, cancelled, pushes, restarts, extra, fresh>>

\* The process ends wherever its monitor goroutine is.
Gone(n) ==
    /\ up' = [up EXCEPT ![n] = FALSE]
    /\ orphan' = [j \in Job |-> orphan[j] + IF hold[n] = j /\ mon[n] \in InHand THEN 1 ELSE 0]
    /\ leftover' = [j \in Job |-> leftover[j] + IF hold[n] = j /\ mon[n] = "remove" THEN 1 ELSE 0]
    /\ linked' = [linked EXCEPT ![n] = FALSE]
    /\ mon' = [mon EXCEPT ![n] = "stopped"]
    /\ hold' = [hold EXCEPT ![n] = NoJob]
    /\ cancelled' = [cancelled EXCEPT ![n] = FALSE]
    /\ shut' = [shut EXCEPT ![n] = "no"]
    /\ extra' = [extra EXCEPT ![n] = 0]
    /\ fresh' = [fresh EXCEPT ![n] = FALSE]
    /\ UNCHANGED <<redis, settled, pushes, restarts>>

\* os.Exit at the end of attemptGracefulShutdown: its tasks are done, or its
\* ten seconds are over.  The thirty seconds of Shutdown's own context start
\* later and never end first.
Exit(n) ==
    /\ up[n] /\ cancelled[n]
    /\ Gone(n)

\* The process is killed; or monitorQueue calls sendWebhook on the nil
\* AbstractQueue and the panic ends the process.
Crash(n) ==
    /\ up[n]
    /\ Gone(n)

\* A new process.  Nothing reads the working list that it finds.
Restart(n) ==
    /\ ~up[n] /\ restarts < MaxRestarts
    /\ restarts' = restarts + 1
    /\ up' = [up EXCEPT ![n] = TRUE]
    /\ mon' = [mon EXCEPT ![n] = "poll"]
    /\ UNCHANGED <<redis, history, linked, hold, cancelled, shut, pushes, extra, fresh>>

Step(n) ==
    \/ Link(n) \/ Poll(n) \/ PollEmpty(n) \/ Move(n) \/ ReplyLost(n) \/ Process(n)
    \/ PostReturns(n) \/ PublishReturns(n)
    \/ Remove(n) \/ RemoveFails(n)
    \/ Cancel(n) \/ ShutdownStart(n) \/ Drained(n) \/ Exit(n) \/ Crash(n) \/ Restart(n)

Next == (\E j \in Job : Push(j)) \/ \E n \in Node : Step(n)

Spec == Init /\ [][Next]_vars

\* Goroutines run, and Redis answers sooner or later: a poll that is repeated
\* while there is a job gets one in the end.  Receivers owe nothing, and
\* neither do signals, crashes or restarts.
FairSpec ==
    /\ Spec
    /\ \A n \in Node :
        /\ WF_vars(Link(n)) /\ WF_vars(Poll(n)) /\ WF_vars(PollEmpty(n)) /\ SF_vars(Move(n))
        /\ WF_vars(Process(n)) /\ WF_vars(Remove(n) \/ RemoveFails(n))

-----------------------------------------------------------------------------
Holds(n, j) == up[n] /\ hold[n] = j /\ mon[n] \in InHand \cup {"remove"}

\* Every entry of the working list is the job of one running monitorQueue, or
\* was left there by a crash, an exit, a BRPOPLPUSH whose reply was lost (104)
\* or a failed LREM; the removal by value (156) never takes away an entry that another node still works on.
WorkingIsHeld ==
    \A j \in Job :
        working[j] = Cardinality({n \in Node : Holds(n, j)}) + orphan[j] + leftover[j]

\* Types and the account of the working list together.
Accounted == TypeOK /\ WorkingIsHeld

\* What is safe about "working queue is empty" (64): a job that a node has in
\* hand after its Shutdown returned was moved later, by a BRPOPLPUSH that the
\* check of the working list could not see.
DrainedHoldsOnlyFresh ==
    \A n \in Node, j \in Job : shut[n] = "drained" /\ Holds(n, j) => fresh[n]

\* After cancel() a node moves at most one more job, the one its blocked
\* BRPOPLPUSH gets (102): at most one per node is lost to a shutdown.
OneJobAfterCancel == \A n \in Node : extra[n] <= 1

\* The promise of the queue.  A job is settled when its send has returned,
\* before its working entry is removed; what is held is the rest of the
\* working list.
Abstract ==
    INSTANCE JobQueue WITH
        waiting <- queue,
        held <- [j \in Job |->
                    working[j] - leftover[j]
                      - Cardinality({n \in Node : up[n] /\ mon[n] = "remove" /\ hold[n] = j})]

\* RedisQueue implements JobQueue through crashes, exits, lost replies and
\* failed removals.
ImplementsJobQueue == Abstract!Spec

\* No job waits for ever while some node could take it: in the end the list is
\* empty, or every node is gone, told to stop, or kept by a receiver that
\* does not answer (http.go:33 has no timeout).
QueueDrains ==
    \/ <>[](queue = <<>>)
    \/ <>[](\A n \in Node : ~up[n] \/ cancelled[n] \/ mon[n] \in {"http", "sns"})
=============================================================================
