-------------------------- MODULE ConnectionProofs --------------------------
(***************************************************************************)
(* For any number of connection attempts and any limit:                    *)
(*                                                                         *)
(* - AdmissionInv: the connection limit of an app is exceeded by at most   *)
(*   the handlers that were between the check and the add at once, less    *)
(*   one;                                                                  *)
(* - LeftOpenWasInFlight and BacklogDrained: what an orderly exit leaves   *)
(*   open, and which webhooks it does not wait for.                        *)
(***************************************************************************)
EXTENDS Connection, FiniteSetTheorems, TLAPS

\* Handlers between validateConnectionLimits and addSocketToAdapter.
Between == In({"counted"})

\* The sets that LimitOvershoot counts are finite.
LEMMA CardsAreNat ==
    ASSUME TypeOK
    PROVE  /\ IsFiniteSet(sockets) /\ Cardinality(sockets) \in Nat
           /\ IsFiniteSet(Between) /\ Cardinality(Between) \in Nat
           /\ IsFiniteSet(Socket) /\ Cardinality(Socket) \in Nat
  <1>1. IsFiniteSet(Socket)
    BY ConnectionAssumption
  <1>2. sockets \subseteq Socket /\ Between \subseteq Socket
    BY DEF TypeOK, Between, In
  <1> QED
    BY <1>1, <1>2, FS_Subset, FS_CardinalityType

\* A step that adds no socket and lets no handler past the check keeps the
\* bound.
LEMMA NoneAdmitted ==
    ASSUME TypeOK, LimitOvershoot,
           sockets' \subseteq sockets, Between' \subseteq Between, peak' = peak
    PROVE  LimitOvershoot'
  <1>1. /\ IsFiniteSet(sockets) /\ Cardinality(sockets) \in Nat
        /\ IsFiniteSet(Between) /\ Cardinality(Between) \in Nat
    BY CardsAreNat
  <1>2. /\ Cardinality(sockets') \in Nat /\ Cardinality(sockets') <= Cardinality(sockets)
        /\ Cardinality(Between') \in Nat /\ Cardinality(Between') <= Cardinality(Between)
    BY <1>1, FS_Subset, FS_CardinalityType
  <1>3. MaxConnections \in Int /\ peak \in Nat
    BY CardsAreNat, ConnectionAssumption DEF TypeOK
  <1> QED
    BY <1>1, <1>2, <1>3 DEF LimitOvershoot, Between

\* The step in which a handler is let past the check.
LEMMA CountedKeeps ==
    ASSUME TypeOK, LimitOvershoot, NEW s \in Socket, NEW n,
           stage[s] \in {"upgraded", "counting"}, n = Cardinality(sockets), Counted(s, n)
    PROVE  LimitOvershoot' /\ peak' \in 0..Cardinality(Socket)
  <1>1. /\ IsFiniteSet(sockets) /\ Cardinality(sockets) \in Nat
        /\ IsFiniteSet(Between) /\ Cardinality(Between) \in Nat
        /\ IsFiniteSet(Socket) /\ Cardinality(Socket) \in Nat
    BY CardsAreNat
  <1>2. MaxConnections \in Int /\ peak \in 0..Cardinality(Socket) /\ stage \in [Socket -> Stage]
    BY ConnectionAssumption DEF TypeOK
  <1>3. sockets' = sockets
    BY DEF Counted
  <1>4. s \notin Between
    BY DEF Between, In
  <1>5. CASE ~Admit(n)
    <2>1. Between' = Between
      BY <1>2, <1>5 DEF Between, In, Counted, To
    <2>2. peak' = peak
      BY <1>5 DEF Counted
    <2> QED
      BY <1>2, <1>3, <2>1, <2>2, NoneAdmitted
  <1>6. CASE Admit(n)
    <2>1. Between' = Between \cup {s}
      BY <1>2, <1>6 DEF Between, In, Counted, To
    <2>2. Cardinality(Between \cup {s}) = Cardinality(Between) + 1
      BY <1>1, <1>4, FS_AddElement
    <2>3. Between \cup {s} \subseteq Socket
      BY DEF Between, In
    <2>4. Cardinality(Between \cup {s}) <= Cardinality(Socket)
      BY <1>1, <2>3, FS_Subset
    <2>5. peak' = Larger(peak, Cardinality(Between) + 1)
      BY <1>6 DEF Counted, Between
    <2>6. peak' \in 0..Cardinality(Socket) /\ peak' >= Cardinality(Between) + 1
      BY <1>1, <1>2, <2>2, <2>4, <2>5 DEF Larger
    <2>7. MaxConnections > -1 => Cardinality(sockets) + 1 <= MaxConnections
      BY <1>6 DEF Admit
    <2>8. Cardinality(Between') = Cardinality(Between) + 1
      BY <2>1, <2>2
    <2> QED
      BY <1>1, <1>2, <1>3, <2>6, <2>7, <2>8 DEF LimitOvershoot, Between
  <1> QED
    BY <1>5, <1>6

\* The step in which its socket is added.
LEMMA AddSocketKeeps ==
    ASSUME TypeOK, LimitOvershoot, NEW s \in Socket, AddSocket(s)
    PROVE  LimitOvershoot'
  <1>1. /\ IsFiniteSet(sockets) /\ Cardinality(sockets) \in Nat
        /\ IsFiniteSet(Between) /\ Cardinality(Between) \in Nat
    BY CardsAreNat
  <1>2. stage \in [Socket -> Stage] /\ s \notin sockets /\ s \in Between
    BY DEF TypeOK, AddSocket, Between, In
  <1>3. Between' = Between \ {s} /\ sockets' = sockets \cup {s} /\ peak' = peak
    BY <1>2 DEF AddSocket, Between, In, To
  <1>4. Cardinality(sockets') = Cardinality(sockets) + 1
    BY <1>1, <1>2, <1>3, FS_AddElement
  <1>5. Cardinality(Between') = Cardinality(Between) - 1
    BY <1>1, <1>2, <1>3, FS_RemoveElement
  <1> QED
    BY <1>1, <1>3, <1>4, <1>5 DEF LimitOvershoot, Between

\* Only the conjuncts of TypeOK that an action can disturb are in question:
\* the rest are about variables it leaves alone.
LEMMA TypeStep ==
    ASSUME TypeOK, LimitOvershoot, [Next]_vars
    PROVE  TypeOK'
  <1> USE DEF TypeOK, Stage
  <1>1. ASSUME NEW s \in Socket,
               Route(s) \/ ServeWs(s) \/ Upgrade(s) \/ ValidateApp(s) \/ Initialize(s) \/ HangUp(s)
        PROVE  TypeOK'
    <2>1. CASE Route(s)
      BY <2>1 DEF Route, To, queue, shutdown
    <2>2. CASE ServeWs(s)
      BY <2>2 DEF ServeWs, To, queue, shutdown
    <2>3. CASE Upgrade(s) \/ ValidateApp(s)
      BY <2>3 DEF Upgrade, To, queue, shutdown, ValidateApp
    <2>4. CASE Initialize(s)
      BY <2>4 DEF Initialize, To, queue, shutdown
    <2>5. CASE HangUp(s)
      BY <2>5 DEF HangUp, To, queue, shutdown
    <2> QED
      BY <1>1, <2>1, <2>2, <2>3, <2>4, <2>5
  <1>2. ASSUME NEW s \in Socket, GetNamespace(s) \/ CountSockets(s)
        PROVE  TypeOK'
    <2>1. CASE \E n : /\ stage[s] \in {"upgraded", "counting"}
                     /\ n = Cardinality(sockets) /\ Counted(s, n)
      <3>1. peak' \in 0..Cardinality(Socket)
        BY <2>1, CountedKeeps
      <3> QED
        BY <2>1, <3>1 DEF Counted, To, queue, shutdown
    <2>2. CASE /\ stage[s] \in {"upgraded", "counting"}
               /\ To(s, "counting") \/ To(s, "lost")
               /\ UNCHANGED <<sockets, ns, queue, shutdown, peak>>
      BY <2>2 DEF To, queue, shutdown
    <2> QED
      BY <1>2, <2>1, <2>2, FS_EmptySet DEF GetNamespace, CountSockets
  <1>3. ASSUME NEW s \in Socket, AddSocket(s)
        PROVE  TypeOK'
    BY <1>3 DEF AddSocket, To, queue, shutdown
  <1>4. ASSUME NEW s \in Socket, ListenerCloses(s) \/ SweepCloses(s)
        PROVE  TypeOK'
    BY <1>4 DEF ListenerCloses, SweepCloses, Leave, To, shutdown
  <1>5. ASSUME NEW s \in Socket, FlapTimer(s) \/ MonitorTakes(s) \/ MonitorSends(s)
        PROVE  TypeOK'
    BY <1>5 DEF FlapTimer, MonitorTakes, MonitorSends, shutdown
  <1>6. ASSUME NEW s \in Socket, SweepVisits(s) \/ TaskDone(s)
        PROVE  TypeOK'
    BY <1>6 DEF SweepVisits, TaskDone, conns, queue
  <1>7. CASE MonitorStops
    BY <1>7 DEF MonitorStops, shutdown
  <1>8. CASE Signal
    BY <1>8 DEF Signal, conns, queue, In
  <1>9. CASE HttpStops \/ HttpDown
    BY <1>9 DEF HttpStops, HttpDown, conns, queue
  <1>10. CASE SweepStarts
    BY <1>10 DEF SweepStarts, conns, queue
  <1>11. CASE IterationEnds \/ IterationRaces \/ SweepWaited
    BY <1>11 DEF IterationEnds, IterationRaces, SweepWaited, conns, queue
  <1>12. CASE ClearNamespaces
    BY <1>12 DEF ClearNamespaces, queue
  <1>13. CASE Drain \/ Cancel
    BY <1>13 DEF Drain, Cancel, conns, queue
  <1>14. CASE ExitOrderly \/ ExitTimeout
    BY <1>14 DEF ExitOrderly, ExitTimeout, conns, queue
  <1>15. CASE UNCHANGED vars
    BY <1>15 DEF vars
  <1> QED
    BY <1>1, <1>2, <1>3, <1>4, <1>5, <1>6, <1>7, <1>8, <1>9, <1>10, <1>11, <1>12,
       <1>13, <1>14, <1>15
    DEF Next, Step, Handler

\* One case for the steps of a connection that can raise the two counts, one
\* for each way not to.
LEMMA OvershootStep ==
    ASSUME TypeOK, LimitOvershoot, [Next]_vars
    PROVE  LimitOvershoot'
  <1> DEFINE Quiet == /\ sockets' \subseteq sockets
                      /\ Between' \subseteq Between
                      /\ peak' = peak
  <1>0. stage \in [Socket -> Stage]
    BY DEF TypeOK
  <1>1. ASSUME NEW s \in Socket,
               \/ Route(s) \/ ServeWs(s) \/ Upgrade(s) \/ ValidateApp(s) \/ Initialize(s) \/ HangUp(s)
               \/ ListenerCloses(s) \/ SweepCloses(s)
        PROVE  Quiet
    BY <1>0, <1>1 DEF Route, ServeWs, Upgrade, ValidateApp, Initialize, HangUp, ListenerCloses,
       SweepCloses, Leave, To, Between, In
  <1>2. ASSUME NEW s \in Socket, GetNamespace(s) \/ CountSockets(s)
        PROVE  LimitOvershoot'
    <2>1. CASE \E n : /\ stage[s] \in {"upgraded", "counting"}
                     /\ n = Cardinality(sockets) /\ Counted(s, n)
      BY <2>1, CountedKeeps
    <2>2. CASE /\ To(s, "counting") \/ To(s, "lost")
               /\ UNCHANGED <<sockets, ns, queue, shutdown, peak>>
      BY <1>0, <2>2, NoneAdmitted DEF To, Between, In
    <2>3. ns \in BOOLEAN /\ (sockets # {} => ns)
      BY DEF TypeOK
    <2> QED
      BY <1>2, <2>1, <2>2, <2>3, FS_EmptySet DEF GetNamespace, CountSockets
  <1>3. ASSUME NEW s \in Socket, AddSocket(s)
        PROVE  LimitOvershoot'
    BY <1>3, AddSocketKeeps
  <1>4. ASSUME NEW s \in Socket,
               FlapTimer(s) \/ MonitorTakes(s) \/ MonitorSends(s) \/ SweepVisits(s) \/ TaskDone(s)
        PROVE  Quiet
    BY <1>4 DEF FlapTimer, MonitorTakes, MonitorSends, SweepVisits, TaskDone, conns, Between, In
  <1>5. CASE MonitorStops
    BY <1>5, NoneAdmitted DEF MonitorStops, Between, In
  <1>6. CASE \/ Signal \/ HttpStops \/ HttpDown \/ SweepStarts \/ IterationEnds
             \/ IterationRaces \/ SweepWaited \/ Drain \/ Cancel \/ ExitOrderly \/ ExitTimeout
    <2>1. UNCHANGED conns
      BY <1>6 DEF Signal, HttpStops, HttpDown, SweepStarts, IterationEnds, IterationRaces,
         SweepWaited, Drain, Cancel, ExitOrderly, ExitTimeout
    <2> QED
      BY <2>1, NoneAdmitted DEF conns, Between, In
  <1>7. CASE ClearNamespaces
    BY <1>7, NoneAdmitted DEF ClearNamespaces, Between, In
  <1>8. CASE UNCHANGED vars
    BY <1>8, NoneAdmitted DEF vars, Between, In
  <1> QED
    BY <1>1, <1>2, <1>3, <1>4, <1>5, <1>6, <1>7, <1>8, NoneAdmitted DEF Next, Step, Handler

\* AdmissionInv for every set of connection attempts and every limit: the
\* adapter holds only sockets that were added and whose closing has not begun,
\* and the limit of serve.go:140 is exceeded by no more than the handlers that
\* ever were between the count and the add at once, less one.
THEOREM AdmissionInvHolds == Spec => []AdmissionInv
  <1>1. Init => AdmissionInv
    <2> SUFFICES ASSUME Init PROVE AdmissionInv
      OBVIOUS
    <2>1. Cardinality({}) = 0 /\ Cardinality(Socket) \in Nat
      BY ConnectionAssumption, FS_EmptySet, FS_CardinalityType
    <2>2. TypeOK
      <3>1. peak \in 0..Cardinality(Socket)
        BY <2>1 DEF Init
      <3>2. ns \in BOOLEAN /\ {closing, cancelled} \subseteq BOOLEAN
        BY Zenon DEF Init
      <3>3. /\ stage \in [Socket -> Stage]
            /\ hook \in [Socket -> {"none", "armed", "queued", "sending", "sent"}]
            /\ task \in [Socket -> {"none", "run", "done"}]
        BY DEF Init, Stage
      <3>4. {due, inflight, backlog} \subseteq SUBSET Socket
        BY DEF Init
      <3> QED
        BY <3>1, <3>2, <3>3, <3>4 DEF Init, TypeOK
    <2>3. Between = {} /\ sockets = {} /\ peak = 0
      BY DEF Init, Between, In
    <2>4. LimitOvershoot
      BY <2>1, <2>3, ConnectionAssumption DEF LimitOvershoot, Between
    <2> QED
      BY <2>2, <2>4 DEF AdmissionInv
  <1>2. AdmissionInv /\ [Next]_vars => AdmissionInv'
    BY TypeStep, OvershootStep DEF AdmissionInv
  <1> QED
    BY <1>1, <1>2, PTL DEF Spec
-----------------------------------------------------------------------------
(* The shutdown.                                                           *)

\* In which order the parts of attemptGracefulShutdown come.
Phases ==
    /\ (sweep = "no") <=> ~closing
    /\ http # "up" => closing
    /\ drain = "done" => sweep = "done"
    /\ exit = "orderly" => AllDone

\* Handlers that are past the check of server.Closing when it is set were so
\* when the signal came; once the HTTP server is down none is before it.
HandlersPassed ==
    /\ closing => In({"serving", "hijacked", "upgraded", "counting", "counted", "lost"}) \subseteq inflight
    /\ ~closing => In({"lost"}) = {}
    /\ http = "down" => In({"routed", "serving"}) = {}

\* Until ClearNamespaces, a handler that has found the namespace still has it,
\* and a connection that was added is in the adapter unless it is being closed.
NamespaceKept ==
    sweep # "done" => /\ In({"counting"}) # {} => ns
                      /\ In({"added", "open"}) \subseteq sockets

\* Connections that were in the adapter when the signal came.
Old == In({"added", "open"}) \ inflight

\* The sweep misses none of them.
OldAreSwept ==
    /\ \A s \in Socket : task[s] = "done" => stage[s] = "closed"
    /\ sweep = "iterating" => Old \subseteq due
    /\ sweep = "waiting" => \A s \in Old : task[s] # "none"
    /\ sweep \in {"clear", "done"} => Old = {}

\* A socket has an event when it has left, and only then; events of the
\* backlog do not go back.
HooksAdvance ==
    /\ \A s \in Socket : hook[s] # "none" => stage[s] \in {"leaving", "closed"}
    /\ \A s \in backlog : hook[s] \in {"queued", "sending", "sent"}
    /\ drain = "done" => \A s \in backlog : hook[s] \in {"sending", "sent"}

\* The inductive invariant of the shutdown.
ShutdownInv == Phases /\ HandlersPassed /\ NamespaceKept /\ OldAreSwept /\ HooksAdvance

\* The order is kept: no part of the shutdown is undone.
LEMMA PhasesStep ==
    ASSUME TypeOK, ShutdownInv, [Next]_vars
    PROVE  Phases'
  <1> USE DEF Phases, AllDone
  <1>0. Phases /\ exit \in {"no", "orderly", "timeout", "fatal"}
    BY DEF TypeOK, ShutdownInv
  <1>1. ASSUME NEW s \in Socket,
               Route(s) \/ ServeWs(s) \/ Upgrade(s) \/ ValidateApp(s) \/ Initialize(s) \/ HangUp(s)
        PROVE  Phases'
    BY <1>0, <1>1 DEF Route, ServeWs, Upgrade, ValidateApp, Initialize, HangUp, To, In, queue,
       shutdown
  <1>2. ASSUME NEW s \in Socket, GetNamespace(s) \/ CountSockets(s)
        PROVE  Phases'
    BY <1>0, <1>2 DEF GetNamespace, CountSockets, Counted, To, In, queue, shutdown
  <1>3. ASSUME NEW s \in Socket, AddSocket(s)
        PROVE  Phases'
    BY <1>0, <1>3 DEF AddSocket, To, In, queue, shutdown
  <1>4. ASSUME NEW s \in Socket, ListenerCloses(s) \/ SweepCloses(s)
        PROVE  Phases'
    BY <1>0, <1>4 DEF ListenerCloses, SweepCloses, Leave, To, In, shutdown
  <1>5. ASSUME NEW s \in Socket, FlapTimer(s) \/ MonitorTakes(s) \/ MonitorSends(s)
        PROVE  Phases'
    BY <1>0, <1>5 DEF FlapTimer, MonitorTakes, MonitorSends, In, shutdown
  <1>6. ASSUME NEW s \in Socket, SweepVisits(s) \/ TaskDone(s)
        PROVE  Phases'
    BY <1>0, <1>6 DEF SweepVisits, TaskDone, conns, In, queue
  <1>7. CASE MonitorStops
    BY <1>0, <1>7 DEF MonitorStops, In, shutdown
  <1>8. CASE Signal
    BY <1>0, <1>8 DEF Signal, conns, In, queue
  <1>9. CASE HttpStops \/ HttpDown
    BY <1>0, <1>9 DEF HttpStops, HttpDown, conns, In, queue
  <1>10. CASE SweepStarts
    BY <1>0, <1>10 DEF SweepStarts, conns, In, queue
  <1>11. CASE IterationEnds \/ IterationRaces
    BY <1>0, <1>11 DEF IterationEnds, IterationRaces, conns, In, queue
  <1>12. CASE SweepWaited \/ ClearNamespaces
    BY <1>0, <1>12 DEF SweepWaited, ClearNamespaces, conns, In, queue
  <1>13. CASE Drain \/ Cancel
    BY <1>0, <1>13 DEF Drain, Cancel, conns, In, queue
  <1>14. CASE ExitOrderly \/ ExitTimeout
    BY <1>0, <1>14 DEF ExitOrderly, ExitTimeout, conns, In, queue
  <1>15. CASE UNCHANGED vars
    BY <1>0, <1>15 DEF vars, In
  <1> QED
    BY <1>1, <1>2, <1>3, <1>4, <1>5, <1>6, <1>7, <1>8, <1>9, <1>10, <1>11, <1>12,
       <1>13, <1>14, <1>15
    DEF Next, Step, Handler

\* A handler that finds server.Closing set goes no further.
LEMMA HandlersStep ==
    ASSUME TypeOK, ShutdownInv, [Next]_vars
    PROVE  HandlersPassed'
  <1> USE DEF HandlersPassed
  <1>0. HandlersPassed /\ Phases /\ NamespaceKept /\ stage \in [Socket -> Stage]
    BY DEF TypeOK, ShutdownInv
  <1>1. ASSUME NEW s \in Socket,
               Route(s) \/ ServeWs(s) \/ Upgrade(s) \/ ValidateApp(s) \/ Initialize(s) \/ HangUp(s)
        PROVE  HandlersPassed'
    BY <1>0, <1>1 DEF Route, ServeWs, Upgrade, ValidateApp, Initialize, HangUp, To, In, queue,
       shutdown
  <1>2. ASSUME NEW s \in Socket, GetNamespace(s) \/ CountSockets(s)
        PROVE  HandlersPassed'
    BY <1>0, <1>2 DEF GetNamespace, CountSockets, Counted, To, In, queue, shutdown,
       Phases, NamespaceKept
  <1>3. ASSUME NEW s \in Socket, AddSocket(s)
        PROVE  HandlersPassed'
    BY <1>0, <1>3 DEF AddSocket, To, In, queue, shutdown
  <1>4. ASSUME NEW s \in Socket, ListenerCloses(s) \/ SweepCloses(s)
        PROVE  HandlersPassed'
    BY <1>0, <1>4 DEF ListenerCloses, SweepCloses, Leave, To, In, shutdown
  <1>5. ASSUME NEW s \in Socket, FlapTimer(s) \/ MonitorTakes(s) \/ MonitorSends(s)
        PROVE  HandlersPassed'
    BY <1>0, <1>5 DEF FlapTimer, MonitorTakes, MonitorSends, In, shutdown
  <1>6. ASSUME NEW s \in Socket, SweepVisits(s) \/ TaskDone(s)
        PROVE  HandlersPassed'
    BY <1>0, <1>6 DEF SweepVisits, TaskDone, conns, In, queue
  <1>7. CASE MonitorStops
    BY <1>0, <1>7 DEF MonitorStops, In, shutdown
  <1>8. CASE Signal
    BY <1>0, <1>8 DEF Signal, conns, In, queue
  <1>9. CASE HttpStops \/ HttpDown
    BY <1>0, <1>9 DEF HttpStops, HttpDown, conns, In, queue
  <1>10. CASE SweepStarts
    BY <1>0, <1>10 DEF SweepStarts, conns, In, queue
  <1>11. CASE IterationEnds \/ IterationRaces
    BY <1>0, <1>11 DEF IterationEnds, IterationRaces, conns, In, queue
  <1>12. CASE SweepWaited \/ ClearNamespaces
    BY <1>0, <1>12 DEF SweepWaited, ClearNamespaces, conns, In, queue
  <1>13. CASE Drain \/ Cancel
    BY <1>0, <1>13 DEF Drain, Cancel, conns, In, queue
  <1>14. CASE ExitOrderly \/ ExitTimeout
    BY <1>0, <1>14 DEF ExitOrderly, ExitTimeout, conns, In, queue
  <1>15. CASE UNCHANGED vars
    BY <1>0, <1>15 DEF vars, In
  <1> QED
    BY <1>1, <1>2, <1>3, <1>4, <1>5, <1>6, <1>7, <1>8, <1>9, <1>10, <1>11, <1>12,
       <1>13, <1>14, <1>15
    DEF Next, Step, Handler

\* Nothing but ClearNamespaces takes the namespace away.
LEMMA NamespaceStep ==
    ASSUME TypeOK, ShutdownInv, [Next]_vars
    PROVE  NamespaceKept'
  <1> USE DEF NamespaceKept
  <1>0. NamespaceKept /\ Phases /\ stage \in [Socket -> Stage] /\ sockets \subseteq Socket
    BY DEF TypeOK, ShutdownInv
  <1>1. ASSUME NEW s \in Socket,
               Route(s) \/ ServeWs(s) \/ Upgrade(s) \/ ValidateApp(s) \/ Initialize(s) \/ HangUp(s)
        PROVE  NamespaceKept'
    BY <1>0, <1>1 DEF Route, ServeWs, Upgrade, ValidateApp, Initialize, HangUp, To, In, queue,
       shutdown
  <1>2. ASSUME NEW s \in Socket, GetNamespace(s) \/ CountSockets(s)
        PROVE  NamespaceKept'
    BY <1>0, <1>2 DEF GetNamespace, CountSockets, Counted, To, In, queue, shutdown
  <1>3. ASSUME NEW s \in Socket, AddSocket(s)
        PROVE  NamespaceKept'
    BY <1>0, <1>3 DEF AddSocket, To, In, queue, shutdown
  <1>4. ASSUME NEW s \in Socket, ListenerCloses(s) \/ SweepCloses(s)
        PROVE  NamespaceKept'
    BY <1>0, <1>4 DEF ListenerCloses, SweepCloses, Leave, To, In, shutdown
  <1>5. ASSUME NEW s \in Socket, FlapTimer(s) \/ MonitorTakes(s) \/ MonitorSends(s)
        PROVE  NamespaceKept'
    BY <1>0, <1>5 DEF FlapTimer, MonitorTakes, MonitorSends, In, shutdown
  <1>6. ASSUME NEW s \in Socket, SweepVisits(s) \/ TaskDone(s)
        PROVE  NamespaceKept'
    BY <1>0, <1>6 DEF SweepVisits, TaskDone, conns, In, queue
  <1>7. CASE MonitorStops
    BY <1>0, <1>7 DEF MonitorStops, In, shutdown
  <1>8. CASE Signal
    BY <1>0, <1>8 DEF Signal, conns, In, queue, Phases
  <1>9. CASE HttpStops \/ HttpDown
    BY <1>0, <1>9 DEF HttpStops, HttpDown, conns, In, queue
  <1>10. CASE SweepStarts
    BY <1>0, <1>10 DEF SweepStarts, conns, In, queue
  <1>11. CASE IterationEnds \/ IterationRaces
    BY <1>0, <1>11 DEF IterationEnds, IterationRaces, conns, In, queue
  <1>12. CASE SweepWaited \/ ClearNamespaces
    BY <1>0, <1>12 DEF SweepWaited, ClearNamespaces, conns, In, queue
  <1>13. CASE Drain \/ Cancel
    BY <1>0, <1>13 DEF Drain, Cancel, conns, In, queue
  <1>14. CASE ExitOrderly \/ ExitTimeout
    BY <1>0, <1>14 DEF ExitOrderly, ExitTimeout, conns, In, queue
  <1>15. CASE UNCHANGED vars
    BY <1>0, <1>15 DEF vars, In
  <1> QED
    BY <1>1, <1>2, <1>3, <1>4, <1>5, <1>6, <1>7, <1>8, <1>9, <1>10, <1>11, <1>12,
       <1>13, <1>14, <1>15
    DEF Next, Step, Handler

\* A connection that was there when the signal came is met by the iteration,
\* waited for, or closed by another goroutine.
LEMMA SweptStep ==
    ASSUME TypeOK, ShutdownInv, [Next]_vars
    PROVE  OldAreSwept'
  <1> USE DEF OldAreSwept, Old
  <1>0. /\ OldAreSwept /\ Phases /\ HandlersPassed /\ NamespaceKept
        /\ stage \in [Socket -> Stage] /\ task \in [Socket -> {"none", "run", "done"}]
        /\ sockets \subseteq Socket /\ (sockets # {} => ns)
    BY DEF TypeOK, ShutdownInv
  <1>1. ASSUME NEW s \in Socket,
               Route(s) \/ ServeWs(s) \/ Upgrade(s) \/ ValidateApp(s) \/ Initialize(s) \/ HangUp(s)
        PROVE  OldAreSwept'
    BY <1>0, <1>1 DEF Route, ServeWs, Upgrade, ValidateApp, Initialize, HangUp, To, In, queue,
       shutdown
  <1>2. ASSUME NEW s \in Socket, GetNamespace(s) \/ CountSockets(s)
        PROVE  OldAreSwept'
    BY <1>0, <1>2 DEF GetNamespace, CountSockets, Counted, To, In, queue, shutdown
  <1>3. ASSUME NEW s \in Socket, AddSocket(s)
        PROVE  OldAreSwept'
    BY <1>0, <1>3 DEF AddSocket, To, In, queue, shutdown, HandlersPassed, Phases
  <1>4. ASSUME NEW s \in Socket, ListenerCloses(s) \/ SweepCloses(s)
        PROVE  OldAreSwept'
    BY <1>0, <1>4 DEF ListenerCloses, SweepCloses, Leave, To, In, shutdown
  <1>5. ASSUME NEW s \in Socket, FlapTimer(s) \/ MonitorTakes(s) \/ MonitorSends(s)
        PROVE  OldAreSwept'
    BY <1>0, <1>5 DEF FlapTimer, MonitorTakes, MonitorSends, In, shutdown
  <1>6. ASSUME NEW s \in Socket, SweepVisits(s) \/ TaskDone(s)
        PROVE  OldAreSwept'
    BY <1>0, <1>6 DEF SweepVisits, TaskDone, conns, In, queue
  <1>7. CASE MonitorStops
    BY <1>0, <1>7 DEF MonitorStops, In, shutdown
  <1>8. CASE Signal
    BY <1>0, <1>8 DEF Signal, conns, In, queue
  <1>9. CASE HttpStops \/ HttpDown
    BY <1>0, <1>9 DEF HttpStops, HttpDown, conns, In, queue
  <1>10. CASE SweepStarts
    BY <1>0, <1>10 DEF SweepStarts, conns, In, queue, NamespaceKept
  <1>11. CASE IterationEnds \/ IterationRaces
    BY <1>0, <1>11 DEF IterationEnds, IterationRaces, conns, In, queue, NamespaceKept
  <1>12. CASE SweepWaited \/ ClearNamespaces
    BY <1>0, <1>12 DEF SweepWaited, ClearNamespaces, conns, In, queue
  <1>13. CASE Drain \/ Cancel
    BY <1>0, <1>13 DEF Drain, Cancel, conns, In, queue
  <1>14. CASE ExitOrderly \/ ExitTimeout
    BY <1>0, <1>14 DEF ExitOrderly, ExitTimeout, conns, In, queue
  <1>15. CASE UNCHANGED vars
    BY <1>0, <1>15 DEF vars, In
  <1> QED
    BY <1>1, <1>2, <1>3, <1>4, <1>5, <1>6, <1>7, <1>8, <1>9, <1>10, <1>11, <1>12,
       <1>13, <1>14, <1>15
    DEF Next, Step, Handler

\* An event moves towards the receiver only.
LEMMA HooksStep ==
    ASSUME TypeOK, ShutdownInv, [Next]_vars
    PROVE  HooksAdvance'
  <1> USE DEF HooksAdvance
  <1>0. /\ HooksAdvance /\ Phases /\ stage \in [Socket -> Stage] /\ backlog \subseteq Socket
        /\ hook \in [Socket -> {"none", "armed", "queued", "sending", "sent"}]
    BY DEF TypeOK, ShutdownInv
  <1>1. ASSUME NEW s \in Socket,
               Route(s) \/ ServeWs(s) \/ Upgrade(s) \/ ValidateApp(s) \/ Initialize(s) \/ HangUp(s)
        PROVE  HooksAdvance'
    BY <1>0, <1>1 DEF Route, ServeWs, Upgrade, ValidateApp, Initialize, HangUp, To, In, queue,
       shutdown
  <1>2. ASSUME NEW s \in Socket, GetNamespace(s) \/ CountSockets(s)
        PROVE  HooksAdvance'
    BY <1>0, <1>2 DEF GetNamespace, CountSockets, Counted, To, In, queue, shutdown
  <1>3. ASSUME NEW s \in Socket, AddSocket(s)
        PROVE  HooksAdvance'
    BY <1>0, <1>3 DEF AddSocket, To, In, queue, shutdown
  <1>4. ASSUME NEW s \in Socket, ListenerCloses(s) \/ SweepCloses(s)
        PROVE  HooksAdvance'
    BY <1>0, <1>4 DEF ListenerCloses, SweepCloses, Leave, To, In, shutdown
  <1>5. ASSUME NEW s \in Socket, FlapTimer(s) \/ MonitorTakes(s) \/ MonitorSends(s)
        PROVE  HooksAdvance'
    BY <1>0, <1>5 DEF FlapTimer, MonitorTakes, MonitorSends, In, shutdown
  <1>6. ASSUME NEW s \in Socket, SweepVisits(s) \/ TaskDone(s)
        PROVE  HooksAdvance'
    BY <1>0, <1>6 DEF SweepVisits, TaskDone, conns, In, queue
  <1>7. CASE MonitorStops
    BY <1>0, <1>7 DEF MonitorStops, In, shutdown
  <1>8. CASE Signal
    BY <1>0, <1>8 DEF Signal, conns, In, queue
  <1>9. CASE HttpStops \/ HttpDown
    BY <1>0, <1>9 DEF HttpStops, HttpDown, conns, In, queue
  <1>10. CASE SweepStarts
    BY <1>0, <1>10 DEF SweepStarts, conns, In, queue, Phases
  <1>11. CASE IterationEnds \/ IterationRaces
    BY <1>0, <1>11 DEF IterationEnds, IterationRaces, conns, In, queue
  <1>12. CASE SweepWaited \/ ClearNamespaces
    BY <1>0, <1>12 DEF SweepWaited, ClearNamespaces, conns, In, queue, Phases
  <1>13. CASE Drain \/ Cancel
    BY <1>0, <1>13 DEF Drain, Cancel, conns, In, queue
  <1>14. CASE ExitOrderly \/ ExitTimeout
    BY <1>0, <1>14 DEF ExitOrderly, ExitTimeout, conns, In, queue
  <1>15. CASE UNCHANGED vars
    BY <1>0, <1>15 DEF vars, In
  <1> QED
    BY <1>1, <1>2, <1>3, <1>4, <1>5, <1>6, <1>7, <1>8, <1>9, <1>10, <1>11, <1>12,
       <1>13, <1>14, <1>15
    DEF Next, Step, Handler

\* It holds at the start and is kept, together with the types.
LEMMA ShutdownInvHolds == Spec => [](TypeOK /\ ShutdownInv)
  <1>1. Init => ShutdownInv
    <2> SUFFICES ASSUME Init PROVE ShutdownInv
      OBVIOUS
    <2>1. Phases
      BY DEF Init, Phases
    <2>2. HandlersPassed /\ NamespaceKept
      BY DEF Init, HandlersPassed, NamespaceKept, In
    <2>3. OldAreSwept
      BY DEF Init, OldAreSwept, Old, In
    <2>4. HooksAdvance
      BY DEF Init, HooksAdvance
    <2> QED
      BY <2>1, <2>2, <2>3, <2>4 DEF ShutdownInv
  <1>2. TypeOK /\ ShutdownInv /\ [Next]_vars => ShutdownInv'
    BY PhasesStep, HandlersStep, NamespaceStep, SweptStep, HooksStep DEF ShutdownInv
  <1>3. Spec => []TypeOK
    <2>1. AdmissionInv => TypeOK
      BY DEF AdmissionInv
    <2> QED
      BY <2>1, AdmissionInvHolds, PTL
  <1> QED
    BY <1>1, <1>2, <1>3, PTL DEF Spec

(***************************************************************************)
(* An orderly exit leaves no connection open that was in the adapter when  *)
(* the signal came, nor one whose handler came to the check later: for any *)
(* number of connections, wherever their handlers and listeners are when   *)
(* the sweep runs (server.go:360-448).                                     *)
(***************************************************************************)
THEOREM LeftOpenWasInFlightHolds == Spec => []LeftOpenWasInFlight
  <1>1. TypeOK /\ ShutdownInv => LeftOpenWasInFlight
    <2> SUFFICES ASSUME ShutdownInv, exit = "orderly"
                 PROVE  In({"routed", "serving", "hijacked", "upgraded", "counting", "counted", "added",
                            "open", "lost"}) \subseteq inflight
      BY DEF LeftOpenWasInFlight
    <2>1. http = "down" /\ sweep = "done" /\ closing
      BY DEF ShutdownInv, Phases, AllDone
    <2>2. In({"routed"}) = {}
      BY <2>1 DEF ShutdownInv, HandlersPassed, In
    <2>3. In({"serving", "hijacked", "upgraded", "counting", "counted", "lost"}) \subseteq inflight
      BY <2>1 DEF ShutdownInv, HandlersPassed
    <2>4. In({"added", "open"}) \subseteq inflight
      BY <2>1 DEF ShutdownInv, OldAreSwept, Old
    <2> QED
      BY <2>2, <2>3, <2>4 DEF In
  <1> QED
    BY <1>1, ShutdownInvHolds, PTL

(***************************************************************************)
(* QueueManager.Shutdown, and with it an orderly exit, waits for every     *)
(* webhook that was in the queue when the sockets were closed.             *)
(***************************************************************************)
THEOREM BacklogDrainedHolds == Spec => []BacklogDrained
  <1>1. TypeOK /\ ShutdownInv => BacklogDrained
    BY DEF ShutdownInv, HooksAdvance, Phases, AllDone, BacklogDrained
  <1> QED
    BY <1>1, ShutdownInvHolds, PTL
=============================================================================
