-------------------------- MODULE RedisQueueProofs ---------------------------
(***************************************************************************)
(* The shared queue, for any number of nodes and jobs, through crashes,    *)
(* exits, restarts, lost replies and failed removals: every entry of the   *)
(* working list is accounted for, a shutdown takes at most one job more,   *)
(* and the whole implements JobQueue.                                      *)
(***************************************************************************)
EXTENDS RedisQueue, FiniteSetTheorems, TLAPS

\* The nodes whose monitorQueue has a job with this text in hand, and those of
\* them that have sent it and are about to remove it.
HeldBy(j) == {n \in Node : Holds(n, j)}
Removing(j) == {n \in Node : up[n] /\ mon[n] = "remove" /\ hold[n] = j}

\* A process that is gone has no job in hand.
DownIsStopped == \A n \in Node : ~up[n] => mon[n] = "stopped"

\* A node that moved a job after cancel() is not asking for another one.
CancelledStops ==
    \A n \in Node :
        /\ extra[n] > 0 => cancelled[n] /\ mon[n] # "blocked"
        /\ extra[n] <= 1

\* The inductive invariant.
IInv == Accounted /\ DownIsStopped /\ CancelledStops /\ DrainedHoldsOnlyFresh

-----------------------------------------------------------------------------
(* Counting.                                                               *)

\* The sets that are counted are finite.
LEMMA HoldersAreFinite ==
    ASSUME NEW j
    PROVE  /\ IsFiniteSet(HeldBy(j)) /\ Cardinality(HeldBy(j)) \in Nat
           /\ IsFiniteSet(Removing(j)) /\ Cardinality(Removing(j)) \in Nat
  <1>1. HeldBy(j) \subseteq Node /\ Removing(j) \subseteq Node /\ IsFiniteSet(Node)
    BY RedisQueueAssumption DEF HeldBy, Removing
  <1> QED
    BY <1>1, FS_Subset, FS_CardinalityType

\* A step that changes nothing about the working list or who holds what.
LEMMA AccountKept ==
    ASSUME WorkingIsHeld, UNCHANGED <<working, orphan, leftover>>,
           \A n \in Node, j \in Job : Holds(n, j)' <=> Holds(n, j)
    PROVE  WorkingIsHeld'
  <1>1. ASSUME NEW j \in Job
        PROVE  {n \in Node : Holds(n, j)}' = {n \in Node : Holds(n, j)}
    OBVIOUS
  <1> QED
    BY <1>1 DEF WorkingIsHeld

\* Node n takes hold of a job.
LEMMA AccountGains ==
    ASSUME TypeOK, WorkingIsHeld, NEW n \in Node, NEW h \in Job, UNCHANGED <<orphan, leftover>>,
           working' = [working EXCEPT ![h] = @ + 1],
           \A j \in Job : ~Holds(n, j),
           \A m \in Node, j \in Job : Holds(m, j)' <=> Holds(m, j) \/ (m = n /\ j = h)
    PROVE  WorkingIsHeld'
  <1> SUFFICES ASSUME NEW j \in Job
               PROVE  working'[j] = Cardinality(HeldBy(j))' + orphan[j] + leftover[j]
    BY DEF WorkingIsHeld, HeldBy
  <1>1. working[j] = Cardinality(HeldBy(j)) + orphan[j] + leftover[j]
    BY DEF WorkingIsHeld, HeldBy
  <1>2. /\ working \in [Job -> Nat] /\ orphan[j] \in Nat /\ leftover[j] \in Nat
        /\ IsFiniteSet(HeldBy(j)) /\ Cardinality(HeldBy(j)) \in Nat
    BY HoldersAreFinite DEF TypeOK
  <1>3. CASE j = h
    <2>1. HeldBy(j)' = HeldBy(j) \cup {n} /\ n \notin HeldBy(j)
      BY <1>3 DEF HeldBy
    <2>2. Cardinality(HeldBy(j)') = Cardinality(HeldBy(j)) + 1
      BY <1>2, <2>1, FS_AddElement
    <2> QED
      BY <1>1, <1>2, <1>3, <2>2
  <1>4. CASE j # h
    <2>1. HeldBy(j)' = HeldBy(j)
      BY <1>4 DEF HeldBy
    <2> QED
      BY <1>1, <1>2, <1>4, <2>1
  <1> QED
    BY <1>3, <1>4

\* Node n lets go of its job: either an entry leaves the working list or one
\* more is known to be abandoned or left over.
LEMMA AccountLoses ==
    ASSUME TypeOK, WorkingIsHeld, NEW n \in Node, NEW h \in Job, Holds(n, h),
           \A m \in Node, j \in Job : Holds(m, j)' <=> Holds(m, j) /\ m # n,
           \A j \in Job \ {h} :
              working'[j] = working[j] /\ orphan'[j] = orphan[j] /\ leftover'[j] = leftover[j],
           \/ /\ working'[h] = working[h] - 1
              /\ orphan'[h] = orphan[h] /\ leftover'[h] = leftover[h]
           \/ /\ working'[h] = working[h]
              /\ \/ orphan'[h] = orphan[h] + 1 /\ leftover'[h] = leftover[h]
                 \/ orphan'[h] = orphan[h] /\ leftover'[h] = leftover[h] + 1
    PROVE  WorkingIsHeld'
  <1> SUFFICES ASSUME NEW j \in Job
               PROVE  working'[j] = Cardinality(HeldBy(j))' + orphan'[j] + leftover'[j]
    BY DEF WorkingIsHeld, HeldBy
  <1>1. working[j] = Cardinality(HeldBy(j)) + orphan[j] + leftover[j]
    BY DEF WorkingIsHeld, HeldBy
  <1>2. /\ working[j] \in Nat /\ orphan[j] \in Nat /\ leftover[j] \in Nat
        /\ IsFiniteSet(HeldBy(j)) /\ Cardinality(HeldBy(j)) \in Nat
    BY HoldersAreFinite DEF TypeOK
  <1>3. CASE j = h
    <2>1. HeldBy(j)' = HeldBy(j) \ {n} /\ n \in HeldBy(j)
      BY <1>3 DEF HeldBy
    <2>2. Cardinality(HeldBy(j)') = Cardinality(HeldBy(j)) - 1
      BY <1>2, <2>1, FS_RemoveElement
    <2>3. CASE working'[j] = working[j] - 1 /\ orphan'[j] = orphan[j] /\ leftover'[j] = leftover[j]
      BY <1>1, <1>2, <2>2, <2>3
    <2>4. CASE working'[j] = working[j] /\ orphan'[j] = orphan[j] + 1 /\ leftover'[j] = leftover[j]
      BY <1>1, <1>2, <2>2, <2>4
    <2>5. CASE working'[j] = working[j] /\ orphan'[j] = orphan[j] /\ leftover'[j] = leftover[j] + 1
      BY <1>1, <1>2, <2>2, <2>5
    <2> QED
      BY <1>3, <2>3, <2>4, <2>5
  <1>4. CASE j # h
    <2>1. HeldBy(j)' = HeldBy(j)
      BY <1>4 DEF HeldBy, Holds
    <2> QED
      BY <1>1, <1>2, <1>4, <2>1
  <1> QED
    BY <1>3, <1>4

\* A job that a node holds has an entry in the working list.
LEMMA HeldIsThere ==
    ASSUME TypeOK, WorkingIsHeld, NEW n \in Node, NEW j \in Job, Holds(n, j)
    PROVE  working[j] > 0
  <1>1. n \in HeldBy(j)
    BY DEF HeldBy
  <1>2. Cardinality(HeldBy(j)) \in Nat \ {0}
    BY <1>1, HoldersAreFinite, FS_EmptySet
  <1>3. working[j] = Cardinality(HeldBy(j)) + orphan[j] + leftover[j]
    BY DEF WorkingIsHeld, HeldBy
  <1> QED
    BY <1>2, <1>3 DEF TypeOK

-----------------------------------------------------------------------------
(* The inductive step, part by part.                                       *)

\* What the three steps of a send have in common.
LEMMA AdvanceCases ==
    ASSUME TypeOK, NEW n \in Node, Process(n) \/ PostReturns(n) \/ PublishReturns(n)
    PROVE  /\ up[n] /\ mon[n] \in InHand /\ hold[n] \in Job
           /\ Advance(n)
           /\ Stage(hold[n], mon[n]) \in {"http", "sns", "remove"}
  BY DEF TypeOK, Process, PostReturns, PublishReturns, InHand, Mon, Stage

\* The variables keep their types, and a process that is gone holds nothing.
LEMMA TypeStep ==
    ASSUME TypeOK, DownIsStopped, [Next]_vars
    PROVE  TypeOK' /\ DownIsStopped'
  <1> USE RedisQueueAssumption DEF TypeOK, DownIsStopped, Mon, InHand
  <1>1. ASSUME NEW j \in Job, Push(j)
        PROVE  TypeOK' /\ DownIsStopped'
    BY <1>1 DEF Push, history
  <1>2. ASSUME NEW n \in Node, Link(n)
        PROVE  TypeOK' /\ DownIsStopped'
    BY <1>2 DEF Link, redis, history, control
  <1>3. ASSUME NEW n \in Node, Poll(n)
        PROVE  TypeOK' /\ DownIsStopped'
    BY <1>3 DEF Poll, redis, history, control
  <1>4. ASSUME NEW n \in Node, PollEmpty(n)
        PROVE  TypeOK' /\ DownIsStopped'
    BY <1>4 DEF PollEmpty, redis, history, control
  <1>5. ASSUME NEW n \in Node, Move(n)
        PROVE  TypeOK' /\ DownIsStopped'
    <2>1. queue \in Seq(Job) /\ queue # <<>>
      BY <1>5 DEF Move
    <2>2. Head(queue) \in Job /\ Tail(queue) \in Seq(Job)
      BY <2>1
    <2>3. working' \in [Job -> Nat] /\ queue' \in Seq(Job)
      BY <1>5, <2>2, SMTT(20) DEF Move
    <2>4. hold' \in [Node -> Job \cup {NoJob}] /\ mon' \in [Node -> Mon]
      BY <1>5, <2>2 DEF Move
    <2>5. extra' \in [Node -> Nat] /\ fresh' \in [Node -> BOOLEAN]
      BY <1>5 DEF Move
    <2>6. \A m \in Node : (hold'[m] = NoJob) = (mon'[m] \in {"poll", "blocked", "stopped"})
      BY <1>5, <2>2 DEF Move
    <2>7. UNCHANGED <<history, control>>
      BY <1>5 DEF Move
    <2>8. TypeOK'
      BY <2>3, <2>4, <2>5, <2>6, <2>7 DEF history, control
    <2> QED
      BY <1>5, <2>8 DEF Move, control
  <1>6. ASSUME NEW n \in Node, Remove(n)
        PROVE  TypeOK' /\ DownIsStopped'
    <2>1. hold[n] \in Job
      BY <1>6, ZenonT(40) DEF Remove
    <2>2. working' \in [Job -> Nat]
      BY <1>6, <2>1 DEF Remove
    <2>3. /\ hold' \in [Node -> Job \cup {NoJob}] /\ mon' \in [Node -> Mon]
          /\ fresh' \in [Node -> BOOLEAN]
      BY <1>6 DEF Remove
    <2>4. \A m \in Node : (hold'[m] = NoJob) = (mon'[m] \in {"poll", "blocked", "stopped"})
      BY <1>6 DEF Remove
    <2> QED
      BY <1>6, <2>2, <2>3, <2>4 DEF Remove, redis, history, control
  <1>7. ASSUME NEW n \in Node, RemoveFails(n)
        PROVE  TypeOK' /\ DownIsStopped'
    <2>1. hold[n] \in Job
      BY <1>7, ZenonT(40) DEF RemoveFails
    <2>2. leftover' \in [Job -> Nat] /\ working' \in [Job -> Nat]
      BY <1>7, <2>1 DEF RemoveFails
    <2>3. /\ hold' \in [Node -> Job \cup {NoJob}] /\ mon' \in [Node -> Mon]
          /\ fresh' \in [Node -> BOOLEAN]
      BY <1>7 DEF RemoveFails
    <2>4. \A m \in Node : (hold'[m] = NoJob) = (mon'[m] \in {"poll", "blocked", "stopped"})
      BY <1>7 DEF RemoveFails
    <2> QED
      BY <1>7, <2>2, <2>3, <2>4 DEF RemoveFails, redis, history, control
  <1>16. ASSUME NEW n \in Node, ReplyLost(n)
        PROVE  TypeOK' /\ DownIsStopped'
    <2>1. queue \in Seq(Job) /\ queue # <<>>
      BY <1>16 DEF ReplyLost
    <2>2. Head(queue) \in Job /\ Tail(queue) \in Seq(Job)
      BY <2>1
    <2>3. working' \in [Job -> Nat] /\ orphan' \in [Job -> Nat] /\ queue' \in Seq(Job)
      BY <1>16, <2>2, SMTT(20) DEF ReplyLost
    <2>4. mon' \in [Node -> Mon] /\ extra' \in [Node -> Nat]
      BY <1>16 DEF ReplyLost
    <2>5. \A m \in Node : (hold'[m] = NoJob) = (mon'[m] \in {"poll", "blocked", "stopped"})
      BY <1>16 DEF ReplyLost
    <2>6. UNCHANGED <<leftover, settled, control, hold, fresh>>
      BY <1>16 DEF ReplyLost
    <2>7. TypeOK'
      BY <2>3, <2>4, <2>5, <2>6 DEF control
    <2> QED
      BY <1>16, <2>7 DEF ReplyLost, control
  <1>8. ASSUME NEW n \in Node, Cancel(n)
        PROVE  TypeOK' /\ DownIsStopped'
    BY <1>8 DEF Cancel, redis, history, control
  <1>9. ASSUME NEW n \in Node, ShutdownStart(n)
        PROVE  TypeOK' /\ DownIsStopped'
    BY <1>9 DEF ShutdownStart, redis, history, control
  <1>10. ASSUME NEW n \in Node, Drained(n)
        PROVE  TypeOK' /\ DownIsStopped'
    BY <1>10 DEF Drained, redis, history, control
  <1>11. ASSUME NEW n \in Node, Exit(n)
        PROVE  TypeOK' /\ DownIsStopped'
    BY <1>11 DEF Exit, redis, history, control, Gone
  <1>12. ASSUME NEW n \in Node, Crash(n)
        PROVE  TypeOK' /\ DownIsStopped'
    BY <1>12 DEF Crash, redis, history, control, Gone
  <1>13. ASSUME NEW n \in Node, Restart(n)
        PROVE  TypeOK' /\ DownIsStopped'
    BY <1>13 DEF Restart, redis, history, control
  <1>14. ASSUME NEW n \in Node, Process(n) \/ PostReturns(n) \/ PublishReturns(n)
        PROVE  TypeOK' /\ DownIsStopped'
    <2>1. /\ up[n] /\ mon[n] \in InHand /\ hold[n] \in Job
          /\ Advance(n)
          /\ Stage(hold[n], mon[n]) \in {"http", "sns", "remove"}
      BY <1>14, AdvanceCases
    <2>2. settled' \in [Job -> Nat] /\ mon' \in [Node -> Mon]
      BY <2>1 DEF Advance
    <2>3. \A m \in Node : (hold'[m] = NoJob) = (mon'[m] \in {"poll", "blocked", "stopped"})
      BY <2>1 DEF Advance
    <2> QED
      BY <2>1, <2>2, <2>3 DEF Advance, redis, control
  <1>15. CASE UNCHANGED vars
    BY <1>15 DEF vars
  <1> QED
    BY <1>1, <1>2, <1>3, <1>4, <1>5, <1>6, <1>7, <1>8, <1>9, <1>10, <1>11,
       <1>12, <1>13, <1>14, <1>15, <1>16 DEF Next, Step

\* The process of n ends: its job, if it had one, is abandoned or left over.
LEMMA GoneKeepsAccount ==
    ASSUME TypeOK, WorkingIsHeld, NEW n \in Node, up[n], Gone(n)
    PROVE  WorkingIsHeld'
  <1>1. \A m \in Node, j \in Job : Holds(m, j)' <=> Holds(m, j) /\ m # n
    BY DEF TypeOK, Gone, Holds, InHand
  <1>2. CASE hold[n] = NoJob
    <2>1. \A j \in Job : ~Holds(n, j)
      BY <1>2, RedisQueueAssumption DEF Holds
    <2>2. UNCHANGED <<working, orphan, leftover>>
      BY <1>2, RedisQueueAssumption DEF TypeOK, Gone, redis
    <2> QED
      BY <1>1, <2>1, <2>2, AccountKept
  <1>3. CASE hold[n] # NoJob
    <2>1. hold[n] \in Job /\ mon[n] \in InHand \cup {"remove"}
      BY <1>3 DEF TypeOK, Mon, InHand
    <2>2. Holds(n, hold[n])
      BY <2>1 DEF Holds
    <2>3. \A j \in Job \ {hold[n]} :
             working'[j] = working[j] /\ orphan'[j] = orphan[j] /\ leftover'[j] = leftover[j]
      BY DEF TypeOK, Gone, redis
    <2>4. /\ working'[hold[n]] = working[hold[n]]
          /\ \/ /\ orphan'[hold[n]] = orphan[hold[n]] + 1
                /\ leftover'[hold[n]] = leftover[hold[n]]
             \/ /\ orphan'[hold[n]] = orphan[hold[n]]
                /\ leftover'[hold[n]] = leftover[hold[n]] + 1
      <3>1. orphan[hold[n]] \in Nat /\ leftover[hold[n]] \in Nat
        BY <2>1 DEF TypeOK
      <3>2. CASE mon[n] \in InHand
        BY <2>1, <3>1, <3>2 DEF Gone, redis, InHand
      <3>3. CASE mon[n] = "remove"
        BY <2>1, <3>1, <3>3 DEF Gone, redis, InHand
      <3> QED
        BY <2>1, <3>2, <3>3
    <2> QED
      BY <1>1, <2>1, <2>2, <2>3, <2>4, AccountLoses
  <1> QED
    BY <1>2, <1>3

\* Every step keeps the account of the working list.
LEMMA AccountStep ==
    ASSUME TypeOK, DownIsStopped, WorkingIsHeld, [Next]_vars
    PROVE  WorkingIsHeld'
  <1> DEFINE Same == /\ UNCHANGED <<working, orphan, leftover>>
                     /\ \A m \in Node, j \in Job : Holds(m, j)' <=> Holds(m, j)
  <1>0. mon \in [Node -> Mon] /\ hold \in [Node -> Job \cup {NoJob}] /\ up \in [Node -> BOOLEAN]
    BY DEF TypeOK
  <1>1. ASSUME NEW j \in Job, Push(j)
        PROVE  Same
    BY <1>1 DEF Push, history, Holds
  <1>2. ASSUME NEW n \in Node,
               Link(n) \/ Cancel(n) \/ ShutdownStart(n) \/ Drained(n)
        PROVE  Same
    BY <1>2 DEF Link, Cancel, ShutdownStart, Drained, redis, history, Holds
  <1>3. ASSUME NEW n \in Node, Poll(n) \/ PollEmpty(n)
        PROVE  Same
    BY <1>0, <1>3 DEF Poll, PollEmpty, redis, history, control, Holds, InHand
  <1>4. ASSUME NEW n \in Node, Restart(n)
        PROVE  Same
    BY <1>0, <1>4 DEF Restart, redis, history, Holds, InHand, DownIsStopped
  <1>5. ASSUME NEW n \in Node, Process(n) \/ PostReturns(n) \/ PublishReturns(n)
        PROVE  Same
    <2>1. /\ up[n] /\ mon[n] \in InHand
          /\ Advance(n)
          /\ Stage(hold[n], mon[n]) \in {"http", "sns", "remove"}
      BY <1>5, AdvanceCases
    <2> QED
      BY <1>0, <2>1 DEF Advance, redis, control, Holds, InHand
  <1>6. ASSUME NEW n \in Node, Move(n)
        PROVE  WorkingIsHeld'
    <2>1. queue \in Seq(Job) /\ queue # <<>>
      BY <1>6 DEF Move, TypeOK
    <2>2. Head(queue) \in Job
      BY <2>1
    <2>3. \A j \in Job : ~Holds(n, j)
      BY <1>6 DEF Move, Holds, InHand
    <2>4. \A m \in Node, j \in Job : Holds(m, j)' <=> Holds(m, j) \/ (m = n /\ j = Head(queue))
      BY <1>0, <1>6 DEF Move, Holds, InHand, control
    <2>5. working' = [working EXCEPT ![Head(queue)] = @ + 1] /\ UNCHANGED <<orphan, leftover>>
      BY <1>6 DEF Move, history
    <2> QED
      BY <2>2, <2>3, <2>4, <2>5, AccountGains
  <1>7. ASSUME NEW n \in Node, Remove(n) \/ RemoveFails(n)
        PROVE  WorkingIsHeld'
    <2>1. up[n] /\ mon[n] = "remove" /\ hold[n] \in Job
      BY <1>7 DEF TypeOK, Remove, RemoveFails
    <2>2. Holds(n, hold[n])
      BY <2>1 DEF Holds
    <2>3. working[hold[n]] \in Nat /\ working[hold[n]] > 0 /\ leftover[hold[n]] \in Nat
      BY <2>1, <2>2, HeldIsThere DEF TypeOK
    <2>4. \A m \in Node, j \in Job : Holds(m, j)' <=> Holds(m, j) /\ m # n
      BY <1>0, <1>7, RedisQueueAssumption DEF Remove, RemoveFails, control, Holds, InHand
    <2>5. \A j \in Job \ {hold[n]} :
             working'[j] = working[j] /\ orphan'[j] = orphan[j] /\ leftover'[j] = leftover[j]
      BY <1>7 DEF TypeOK, Remove, RemoveFails, redis, history
    <2>6. \/ /\ working'[hold[n]] = working[hold[n]] - 1
             /\ orphan'[hold[n]] = orphan[hold[n]] /\ leftover'[hold[n]] = leftover[hold[n]]
          \/ /\ working'[hold[n]] = working[hold[n]]
             /\ orphan'[hold[n]] = orphan[hold[n]] /\ leftover'[hold[n]] = leftover[hold[n]] + 1
      BY <1>7, <2>1, <2>3 DEF TypeOK, Remove, RemoveFails, redis, history
    <2> QED
      BY <2>1, <2>2, <2>4, <2>5, <2>6, AccountLoses
  <1>8. ASSUME NEW n \in Node, Exit(n) \/ Crash(n)
        PROVE  WorkingIsHeld'
    BY <1>8, GoneKeepsAccount DEF Exit, Crash
  <1>9. CASE UNCHANGED vars
    BY <1>9, AccountKept DEF vars, Holds
  <1>10. ASSUME NEW n \in Node, ReplyLost(n)
        PROVE  WorkingIsHeld'
    <2>1. \A m \in Node, j \in Job : Holds(m, j)' <=> Holds(m, j)
      BY <1>0, <1>10 DEF ReplyLost, Holds, InHand, control
    <2>2. ASSUME NEW j \in Job
          PROVE  working'[j] = Cardinality(HeldBy(j))' + orphan'[j] + leftover'[j]
      <3>1. HeldBy(j)' = HeldBy(j)
        BY <2>1 DEF HeldBy
      <3>2. working[j] = Cardinality(HeldBy(j)) + orphan[j] + leftover[j]
        BY DEF WorkingIsHeld, HeldBy
      <3>3. /\ working \in [Job -> Nat] /\ orphan \in [Job -> Nat]
            /\ leftover[j] \in Nat /\ Cardinality(HeldBy(j)) \in Nat
        BY HoldersAreFinite DEF TypeOK
      <3>4. /\ working' = [working EXCEPT ![Head(queue)] = @ + 1]
            /\ orphan' = [orphan EXCEPT ![Head(queue)] = @ + 1]
            /\ leftover' = leftover
        BY <1>10 DEF ReplyLost
      <3> QED
        BY <3>1, <3>2, <3>3, <3>4
    <2> QED
      BY <2>2 DEF WorkingIsHeld, HeldBy
  <1> QED
    BY <1>1, <1>2, <1>3, <1>4, <1>5, <1>6, <1>7, <1>8, <1>9, <1>10, AccountKept DEF Next, Step

\* After cancel() only the poll that is under way can give a job.
LEMMA CancelStep ==
    ASSUME TypeOK, DownIsStopped, CancelledStops, [Next]_vars
    PROVE  CancelledStops'
  <1> USE DEF CancelledStops
  <1>0. /\ mon \in [Node -> Mon] /\ extra \in [Node -> Nat]
        /\ cancelled \in [Node -> BOOLEAN]
    BY DEF TypeOK
  <1>1. ASSUME NEW j \in Job, Push(j)
        PROVE  CancelledStops'
    BY <1>1 DEF Push
  <1>2. ASSUME NEW n \in Node,
               Link(n) \/ Cancel(n) \/ ShutdownStart(n) \/ Drained(n) \/ Poll(n) \/ PollEmpty(n)
        PROVE  CancelledStops'
    BY <1>0, <1>2 DEF Link, Cancel, ShutdownStart, Drained, Poll, PollEmpty, control
  <1>3. ASSUME NEW n \in Node, Move(n) \/ ReplyLost(n)
        PROVE  CancelledStops'
    <2>1. mon[n] = "blocked" /\ extra[n] = 0
      BY <1>0, <1>3 DEF Move, ReplyLost
    <2>2. /\ extra' = [extra EXCEPT ![n] = IF cancelled[n] THEN @ + 1 ELSE @]
          /\ cancelled' = cancelled
      BY <1>3 DEF Move, ReplyLost, control
    <2>3. /\ mon'[n] # "blocked"
          /\ \A m \in Node \ {n} : mon'[m] = mon[m]
      BY <1>0, <1>3 DEF Move, ReplyLost
    <2> QED
      BY <1>0, <2>1, <2>2, <2>3
  <1>4. ASSUME NEW n \in Node, Process(n) \/ PostReturns(n) \/ PublishReturns(n)
        PROVE  CancelledStops'
    BY <1>0, <1>4, AdvanceCases DEF Advance, control
  <1>5. ASSUME NEW n \in Node, Remove(n) \/ RemoveFails(n) \/ Restart(n)
        PROVE  CancelledStops'
    BY <1>0, <1>5 DEF Remove, RemoveFails, Restart, control
  <1>6. ASSUME NEW n \in Node, Exit(n) \/ Crash(n)
        PROVE  CancelledStops'
    BY <1>0, <1>6 DEF Exit, Crash, Gone
  <1>7. CASE UNCHANGED vars
    BY <1>7 DEF vars
  <1> QED
    BY <1>1, <1>2, <1>3, <1>4, <1>5, <1>6, <1>7 DEF Next, Step

\* Shutdown returns when nobody holds a job: WorkingIsHeld says that an empty
\* working list means just that.
LEMMA DrainStep ==
    ASSUME TypeOK, DownIsStopped, WorkingIsHeld, DrainedHoldsOnlyFresh, [Next]_vars
    PROVE  DrainedHoldsOnlyFresh'
  <1> USE DEF DrainedHoldsOnlyFresh, Holds, InHand
  <1>0. /\ mon \in [Node -> Mon] /\ hold \in [Node -> Job \cup {NoJob}] /\ up \in [Node -> BOOLEAN]
        /\ fresh \in [Node -> BOOLEAN] /\ shut \in [Node -> {"no", "polling", "drained"}]
    BY DEF TypeOK
  <1>1. ASSUME NEW j \in Job, Push(j)
        PROVE  DrainedHoldsOnlyFresh'
    BY <1>1 DEF Push
  <1>2. ASSUME NEW n \in Node, Link(n) \/ Cancel(n) \/ ShutdownStart(n) \/ Poll(n) \/ PollEmpty(n)
        PROVE  DrainedHoldsOnlyFresh'
    BY <1>0, <1>2 DEF Link, Cancel, ShutdownStart, Poll, PollEmpty, control
  <1>3. ASSUME NEW n \in Node, Drained(n)
        PROVE  DrainedHoldsOnlyFresh'
    <2>1. \A j \in Job : working[j] = 0
      BY <1>3 DEF Drained
    <2>2. \A m \in Node, j \in Job : ~Holds(m, j)
      BY <2>1, HeldIsThere
    <2> QED
      BY <1>0, <1>3, <2>2 DEF Drained
  <1>4. ASSUME NEW n \in Node, Move(n) \/ ReplyLost(n)
        PROVE  DrainedHoldsOnlyFresh'
    BY <1>0, <1>4 DEF Move, ReplyLost, control
  <1>5. ASSUME NEW n \in Node, Process(n) \/ PostReturns(n) \/ PublishReturns(n)
        PROVE  DrainedHoldsOnlyFresh'
    BY <1>0, <1>5, AdvanceCases DEF Advance, control
  <1>6. ASSUME NEW n \in Node, Remove(n) \/ RemoveFails(n) \/ Restart(n)
        PROVE  DrainedHoldsOnlyFresh'
    BY <1>0, <1>6 DEF Remove, RemoveFails, Restart, control
  <1>7. ASSUME NEW n \in Node, Exit(n) \/ Crash(n)
        PROVE  DrainedHoldsOnlyFresh'
    BY <1>0, <1>7 DEF Exit, Crash, Gone
  <1>8. CASE UNCHANGED vars
    BY <1>8 DEF vars
  <1> QED
    BY <1>1, <1>2, <1>3, <1>4, <1>5, <1>6, <1>7, <1>8 DEF Next, Step

\* The invariant holds in the beginning and is kept.
LEMMA IInvHolds == Spec => []IInv
  <1>1. Init => IInv
    <2> SUFFICES ASSUME Init PROVE IInv
      OBVIOUS
    <2>1. TypeOK
      BY RedisQueueAssumption DEF Init, TypeOK, Mon
    <2>2. WorkingIsHeld
      <3> SUFFICES ASSUME NEW j \in Job
                   PROVE  working[j] = Cardinality(HeldBy(j)) + orphan[j] + leftover[j]
        BY DEF WorkingIsHeld, HeldBy
      <3>1. HeldBy(j) = {}
        BY DEF Init, HeldBy, Holds, InHand
      <3> QED
        BY <3>1, FS_EmptySet DEF Init
    <2>3. DownIsStopped /\ CancelledStops /\ DrainedHoldsOnlyFresh
      BY DEF Init, DownIsStopped, CancelledStops, DrainedHoldsOnlyFresh
    <2> QED
      BY <2>1, <2>2, <2>3 DEF IInv, Accounted
  <1>2. IInv /\ [Next]_vars => IInv'
    BY TypeStep, AccountStep, CancelStep, DrainStep DEF IInv, Accounted
  <1> QED
    BY <1>1, <1>2, PTL DEF Spec

-----------------------------------------------------------------------------
\* Every entry of the working list belongs to one running monitorQueue or was
\* left there by a crash, an exit, a lost reply to BRPOPLPUSH or a failed LREM,
\* although removal is by value (queueRedis.go:156): for any nodes, jobs and
\* interleaving.
THEOREM AccountedHolds == Spec => []Accounted
  <1>1. IInv => Accounted
    BY DEF IInv
  <1> QED
    BY <1>1, IInvHolds, PTL

\* Shutdown's "working queue is empty" (queueRedis.go:64) is right about every
\* job that was moved before it looked.
THEOREM DrainedHoldsOnlyFreshHolds == Spec => []DrainedHoldsOnlyFresh
  <1>1. IInv => DrainedHoldsOnlyFresh
    BY DEF IInv
  <1> QED
    BY <1>1, IInvHolds, PTL

\* After cancel() a node moves at most one more job (queueRedis.go:89-102).
THEOREM OneJobAfterCancelHolds == Spec => []OneJobAfterCancel
  <1>1. IInv => OneJobAfterCancel
    BY DEF IInv, CancelledStops, OneJobAfterCancel
  <1> QED
    BY <1>1, IInvHolds, PTL

-----------------------------------------------------------------------------
(* The refinement.                                                         *)

\* What JobQueue's variable `held` stands for.
Held == [j \in Job |-> working[j] - leftover[j] - Cardinality(Removing(j))]

\* A step that takes away n's part in Removing, and the entry or one of the
\* settled ones with it, is not seen in Held; nor is one that leaves all alone.
LEMMA HeldKept ==
    ASSUME TypeOK,
           \/ /\ UNCHANGED <<working, leftover>>
              /\ \A m \in Node, j \in Job : m \in Removing(j)' <=> m \in Removing(j)
           \/ \E n \in Node, h \in Job :
                /\ n \in Removing(h)
                /\ \A m \in Node, j \in Job : m \in Removing(j)' <=> m \in Removing(j) /\ m # n
                /\ \A j \in Job \ {h} : working'[j] = working[j] /\ leftover'[j] = leftover[j]
                /\ \/ working'[h] = working[h] - 1 /\ leftover'[h] = leftover[h]
                   \/ working'[h] = working[h] /\ leftover'[h] = leftover[h] + 1
    PROVE  Held' = Held
  <1> SUFFICES ASSUME NEW j \in Job
               PROVE  working'[j] - leftover'[j] - Cardinality(Removing(j))'
                        = working[j] - leftover[j] - Cardinality(Removing(j))
    BY DEF Held
  <1>a. Removing(j) \subseteq Node /\ Removing(j)' \subseteq Node
    BY DEF Removing
  <1>0. /\ working[j] \in Nat /\ leftover[j] \in Nat
        /\ IsFiniteSet(Removing(j)) /\ Cardinality(Removing(j)) \in Nat
        /\ Removing(j) \subseteq Node /\ Removing(j)' \subseteq Node
    BY <1>a, HoldersAreFinite DEF TypeOK
  <1>1. CASE /\ UNCHANGED <<working, leftover>>
             /\ \A m \in Node, k \in Job : m \in Removing(k)' <=> m \in Removing(k)
    <2>1. Removing(j)' = Removing(j)
      BY <1>0, <1>1
    <2> QED
      BY <1>1, <2>1
  <1>2. ASSUME NEW n \in Node, NEW h \in Job, n \in Removing(h),
               \A m \in Node, k \in Job : m \in Removing(k)' <=> m \in Removing(k) /\ m # n,
               \A k \in Job \ {h} : working'[k] = working[k] /\ leftover'[k] = leftover[k],
               \/ working'[h] = working[h] - 1 /\ leftover'[h] = leftover[h]
               \/ working'[h] = working[h] /\ leftover'[h] = leftover[h] + 1
        PROVE  working'[j] - leftover'[j] - Cardinality(Removing(j))'
                 = working[j] - leftover[j] - Cardinality(Removing(j))
    <2>1. Removing(j)' = Removing(j) \ {n}
      BY <1>0, <1>2
    <2>2. CASE j = h
      <3>1. Cardinality(Removing(j)') = Cardinality(Removing(j)) - 1
        BY <1>0, <1>2, <2>1, <2>2, FS_RemoveElement
      <3>2. CASE working'[j] = working[j] - 1 /\ leftover'[j] = leftover[j]
        BY <1>0, <3>1, <3>2
      <3>3. CASE working'[j] = working[j] /\ leftover'[j] = leftover[j] + 1
        BY <1>0, <3>1, <3>3
      <3> QED
        BY <1>2, <2>2, <3>2, <3>3
    <2>3. CASE j # h
      <3>1. n \notin Removing(j)
        BY <1>2, <2>3 DEF Removing
      <3>2. Removing(j)' = Removing(j)
        BY <2>1, <3>1
      <3> QED
        BY <1>2, <2>3, <3>2
    <2> QED
      BY <2>2, <2>3
  <1> QED
    BY <1>1, <1>2

\* A job in hand is held, in the sense of JobQueue, until it is settled.
LEMMA InHandIsHeld ==
    ASSUME TypeOK, WorkingIsHeld, NEW n \in Node, NEW h \in Job, Holds(n, h), mon[n] \in InHand
    PROVE  Held[h] > 0
  <1>1. Removing(h) \subseteq HeldBy(h) \ {n}
    BY DEF Removing, HeldBy, Holds, InHand
  <1>2. n \in HeldBy(h)
    BY DEF HeldBy
  <1>3. Cardinality(Removing(h)) <= Cardinality(HeldBy(h)) - 1
    BY <1>1, <1>2, HoldersAreFinite, FS_Subset, FS_RemoveElement
  <1>4. working[h] = Cardinality(HeldBy(h)) + orphan[h] + leftover[h]
    BY DEF WorkingIsHeld, HeldBy
  <1>5. /\ working[h] \in Nat /\ orphan[h] \in Nat /\ leftover[h] \in Nat
        /\ Cardinality(HeldBy(h)) \in Nat /\ Cardinality(Removing(h)) \in Nat
    BY HoldersAreFinite DEF TypeOK
  <1> QED
    BY <1>3, <1>4, <1>5 DEF Held

\* Every step is one of JobQueue or changes nothing there: BRPOPLPUSH takes a
\* job, the end of its send settles it, and removals, crashes and the rest are
\* not seen.
LEMMA RefinementStep ==
    ASSUME IInv, [Next]_vars
    PROVE  [Abstract!Next]_(Abstract!vars)
  <1> DEFINE Unseen == UNCHANGED <<queue, Held, settled>>
  <1>0. /\ TypeOK /\ WorkingIsHeld /\ DownIsStopped
        /\ mon \in [Node -> Mon] /\ hold \in [Node -> Job \cup {NoJob}] /\ up \in [Node -> BOOLEAN]
    BY DEF IInv, Accounted, TypeOK
  <1>1. ASSUME NEW j \in Job, Push(j)
        PROVE  Abstract!Put(j)
    <2>1. Held' = Held
      BY <1>0, <1>1, HeldKept DEF Push, history, Removing
    <2> QED
      BY <1>1, <2>1 DEF Push, history, Abstract!Put, Held, Removing
  <1>2. ASSUME NEW n \in Node, Link(n) \/ Cancel(n) \/ ShutdownStart(n) \/ Drained(n)
        PROVE  Unseen
    <2>1. UNCHANGED <<queue, working, leftover, settled, up, mon, hold>>
      BY <1>2 DEF Link, Cancel, ShutdownStart, Drained, redis, history
    <2> QED
      BY <1>0, <2>1, HeldKept DEF Removing
  <1>3. ASSUME NEW n \in Node, Poll(n) \/ PollEmpty(n) \/ Restart(n)
        PROVE  Unseen
    <2>1. UNCHANGED <<queue, working, leftover, settled>>
      BY <1>3 DEF Poll, PollEmpty, Restart, redis, history
    <2>2. \A m \in Node, j \in Job : m \in Removing(j)' <=> m \in Removing(j)
      BY <1>0, <1>3 DEF Poll, PollEmpty, Restart, control, Removing, DownIsStopped
    <2> QED
      BY <1>0, <2>1, <2>2, HeldKept
  <1>4. ASSUME NEW n \in Node, Remove(n) \/ RemoveFails(n)
        PROVE  Unseen
    <2>1. n \in Removing(hold[n]) /\ hold[n] \in Job
      BY <1>0, <1>4 DEF Remove, RemoveFails, Removing, TypeOK
    <2>2. \A m \in Node, j \in Job : m \in Removing(j)' <=> m \in Removing(j) /\ m # n
      BY <1>0, <1>4 DEF Remove, RemoveFails, control, Removing
    <2>3. working[hold[n]] \in Nat /\ working[hold[n]] > 0
      BY <1>0, <2>1, HeldIsThere DEF Removing, Holds, TypeOK
    <2>4. /\ \A j \in Job \ {hold[n]} : working'[j] = working[j] /\ leftover'[j] = leftover[j]
          /\ \/ working'[hold[n]] = working[hold[n]] - 1 /\ leftover'[hold[n]] = leftover[hold[n]]
             \/ working'[hold[n]] = working[hold[n]] /\ leftover'[hold[n]] = leftover[hold[n]] + 1
      BY <1>0, <1>4, <2>1, <2>3 DEF TypeOK, Remove, RemoveFails, redis, history
    <2>5. Held' = Held
      BY <1>0, <2>1, <2>2, <2>4, HeldKept
    <2> QED
      BY <1>4, <2>5 DEF Remove, RemoveFails, redis, history
  <1>5. ASSUME NEW n \in Node, Exit(n) \/ Crash(n)
        PROVE  Unseen
    <2>1. up[n] /\ Gone(n)
      BY <1>5 DEF Exit, Crash
    <2>2. \A m \in Node, j \in Job : m \in Removing(j)' <=> m \in Removing(j) /\ m # n
      BY <1>0, <2>1 DEF Gone, Removing
    <2>3. CASE mon[n] = "remove"
      <3>1. n \in Removing(hold[n]) /\ hold[n] \in Job
        BY <1>0, <2>1, <2>3 DEF Removing, TypeOK
      <3>2. /\ \A j \in Job \ {hold[n]} : working'[j] = working[j] /\ leftover'[j] = leftover[j]
            /\ working'[hold[n]] = working[hold[n]] /\ leftover'[hold[n]] = leftover[hold[n]] + 1
        BY <1>0, <2>1, <2>3, <3>1 DEF TypeOK, Gone, redis
      <3> QED
        BY <1>0, <2>1, <2>2, <3>1, <3>2, HeldKept DEF Gone, redis
    <2>4. CASE mon[n] # "remove"
      <3>1. UNCHANGED <<working, leftover>>
        BY <1>0, <2>1, <2>4 DEF TypeOK, Gone, redis
      <3>2. \A m \in Node, j \in Job : m \in Removing(j)' <=> m \in Removing(j)
        BY <2>2, <2>4 DEF Removing
      <3> QED
        BY <1>0, <2>1, <3>1, <3>2, HeldKept DEF Gone, redis
    <2> QED
      BY <2>3, <2>4
  <1>6. ASSUME NEW n \in Node, Move(n) \/ ReplyLost(n)
        PROVE  Abstract!Take
    <2>1. queue \in Seq(Job) /\ queue # <<>>
      BY <1>0, <1>6 DEF Move, ReplyLost, TypeOK
    <2>2. Head(queue) \in Job
      BY <2>1
    <2>3. \A j \in Job : Removing(j)' = Removing(j)
      BY <1>0, <1>6 DEF Move, ReplyLost, control, Removing
    <2>4. Held' = [Held EXCEPT ![Head(queue)] = @ + 1]
      <3>1. \A j \in Job : Held'[j] = IF j = Head(queue) THEN Held[j] + 1 ELSE Held[j]
        <4> TAKE j \in Job
        <4>1. /\ working[j] \in Nat /\ leftover[j] \in Nat /\ Cardinality(Removing(j)) \in Nat
              /\ leftover'[j] = leftover[j]
              /\ working'[j] = IF j = Head(queue) THEN working[j] + 1 ELSE working[j]
          <5>1. /\ working' = [working EXCEPT ![Head(queue)] = @ + 1]
                /\ leftover' = leftover
            BY <1>6 DEF Move, ReplyLost, history
          <5> QED
            BY <1>0, <5>1, HoldersAreFinite DEF TypeOK
        <4> QED
          BY <2>3, <4>1 DEF Held
      <3> QED
        BY <2>2, <3>1 DEF Held
    <2> QED
      BY <1>6, <2>1, <2>4 DEF Move, ReplyLost, history, Abstract!Take, Held, Removing
  <1>7. ASSUME NEW n \in Node, Process(n) \/ PostReturns(n) \/ PublishReturns(n)
        PROVE  Unseen \/ \E j \in Job : Abstract!Settle(j)
    <2>1. /\ up[n] /\ mon[n] \in InHand /\ hold[n] \in Job
          /\ Advance(n)
          /\ Stage(hold[n], mon[n]) \in {"http", "sns", "remove"}
      BY <1>0, <1>7, AdvanceCases
    <2>2. UNCHANGED <<queue, working, leftover, up, hold>> /\ settled \in [Job -> Nat]
      BY <1>0, <2>1 DEF Advance, redis, control, TypeOK
    <2>3. CASE Stage(hold[n], mon[n]) # "remove"
      <3>1. settled' = settled
        BY <2>1, <2>2, <2>3 DEF Advance
      <3>2. \A m \in Node, j \in Job : m \in Removing(j)' <=> m \in Removing(j)
        BY <1>0, <2>1, <2>2, <2>3 DEF Advance, Removing, InHand
      <3> QED
        BY <1>0, <2>2, <3>1, <3>2, HeldKept
    <2>4. CASE Stage(hold[n], mon[n]) = "remove"
      <3>0. PICK h \in Job : h = hold[n]
        BY <2>1
      <3>1. settled' = [settled EXCEPT ![h] = @ + 1]
        BY <2>1, <2>2, <2>4, <3>0 DEF Advance
      <3>2. /\ \A j \in Job \ {h} : Removing(j)' = Removing(j)
            /\ Removing(h)' = Removing(h) \cup {n} /\ n \notin Removing(h)
        BY <1>0, <2>1, <2>2, <2>4, <3>0 DEF Advance, Removing, InHand
      <3>3. \A j \in Job : Held'[j] = IF j = h THEN Held[j] - 1 ELSE Held[j]
        <4> TAKE j \in Job
        <4>1. /\ working[j] \in Nat /\ leftover[j] \in Nat /\ IsFiniteSet(Removing(j))
              /\ Cardinality(Removing(j)) \in Nat
          BY <1>0, HoldersAreFinite DEF TypeOK
        <4>2. CASE j = h
          <5>1. Cardinality(Removing(j)') = Cardinality(Removing(j)) + 1
            BY <3>2, <4>1, <4>2, FS_AddElement
          <5> QED
            BY <2>2, <4>1, <4>2, <5>1 DEF Held
        <4>3. CASE j # h
          BY <2>2, <3>2, <4>3 DEF Held
        <4> QED
          BY <4>2, <4>3
      <3>4. Held' = [Held EXCEPT ![h] = @ - 1]
        BY <2>1, <3>3 DEF Held
      <3>5. Held[h] > 0
        BY <1>0, <2>1, <3>0, InHandIsHeld DEF Holds
      <3>6. Abstract!Settle(h)
        BY <2>2, <3>1, <3>4, <3>5 DEF Abstract!Settle, Held, Removing
      <3>7. \E j \in Job : Abstract!Settle(j)
        BY <3>6
      <3> QED
        BY <3>7
    <2> QED
      BY <2>3, <2>4
  <1>8. CASE UNCHANGED vars
    <2>1. UNCHANGED <<queue, working, leftover, settled, up, mon, hold>>
      BY <1>8 DEF vars
    <2>2. Unseen
      BY <1>0, <2>1, HeldKept DEF Removing
    <2> QED
      BY <2>2 DEF Abstract!vars, Held, Removing
  <1>9. Unseen => UNCHANGED Abstract!vars
    BY DEF Abstract!vars, Held, Removing
  <1> QED
    BY <1>1, <1>2, <1>3, <1>4, <1>5, <1>6, <1>7, <1>8, <1>9 DEF Next, Step, Abstract!Next

\* RedisQueue implements JobQueue: jobs are handed out in order, once each, and
\* none is settled that was not, through crashes, exits, lost replies and failed
\* removals.
THEOREM ImplementsJobQueueHolds == Spec => ImplementsJobQueue
  <1>1. Init => Abstract!Init
    <2> SUFFICES ASSUME Init PROVE Abstract!Init
      OBVIOUS
    <2>1. \A j \in Job : Held[j] = 0
      <3> TAKE j \in Job
      <3>1. Removing(j) = {}
        BY DEF Init, Removing
      <3>2. Cardinality(Removing(j)) = 0
        BY <3>1, FS_EmptySet
      <3>3. working[j] = 0 /\ leftover[j] = 0
        BY DEF Init
      <3> QED
        BY <3>2, <3>3 DEF Held
    <2>2. Held = [j \in Job |-> 0]
      BY <2>1 DEF Held
    <2> QED
      BY <2>2 DEF Init, Abstract!Init, Held, Removing
  <1> QED
    BY <1>1, RefinementStep, IInvHolds, PTL DEF Spec, ImplementsJobQueue, Abstract!Spec
=============================================================================
