--------------------------- MODULE AuthWatchProofs ---------------------------
(***************************************************************************)
(* The authorization watch, for every interleaving of the five goroutines: *)
(* userAuthChannel is closed once, a connection is counted as disconnected *)
(* once, and the timer spares a client that was accepted in time.          *)
(***************************************************************************)
EXTENDS AuthWatch, TLAPS

\* 1 once c has passed the marks of closeConnection.
Begun(c) == IF closer[c] \in {"in", "done"} THEN 1 ELSE 0

\* Who has got how far: every goroutine runs closeConnection at most once, the
\* watch exists from the handler's third step on, and each mark is counted in
\* the step that makes it.
Progress ==
    /\ listener = "run" => closer["listener"] = "no"
    /\ watch \in {"none", "starting", "armed", "waiting", "deaf"} => closer["watch"] = "no"
    /\ watch = "none" <=> handler \in {"establish", "watch"}
    /\ connects = (IF handler = "done" THEN 1 ELSE 0)
    /\ disconnects <= Begun("listener") + Begun("watch") + Begun("server")

\* As long as no write has failed, only Cleanup closes the socket, and before
\* it only the closer that holds w.mutex has counted the disconnection.
CountedByOne ==
    ~broken =>
        /\ closed => cleaned
        /\ ~cleaned /\ lock = None => disconnects = 0
        /\ disconnects <= 1

\* A watch that still waits can hear: its channel is there, and holds the
\* signal of every client that was accepted after the watch was set up.
WatchCanHear ==
    /\ watch = "none" => ~authorized /\ (accepted => early)
    /\ watch \in {"starting", "armed", "waiting", "deaf"} /\ ~closed
        => field /\ ~authorized /\ (accepted /\ ~early => chan = "full")

\* The inductive invariant.
IInv == ChannelClosedOnce /\ Progress /\ CountedByOne /\ WatchCanHear

\* It holds when the connection is opened,
LEMMA InitIInv == Init => IInv
  <1> SUFFICES ASSUME Init PROVE IInv
    OBVIOUS
  <1>1. /\ field \in BOOLEAN
        /\ {authorized, gone, closed, hungup, cleaned, accepted, early, broken} \subseteq BOOLEAN
    BY Zenon DEF Init
  <1>2. ChannelClosedOnce
    BY <1>1 DEF Init, ChannelClosedOnce, TypeOK, Closer
  <1>3. Progress
    BY DEF Init, Progress, Begun, Closer
  <1>4. CountedByOne
    BY DEF Init, CountedByOne
  <1>5. WatchCanHear
    BY DEF Init, WatchCanHear
  <1> QED
    BY <1>2, <1>3, <1>4, <1>5 DEF IInv

\* every step of the five goroutines keeps it,
LEMMA NextIInv ==
    ASSUME IInv, [Next]_vars
    PROVE  IInv'
  <1> USE DEF IInv, ChannelClosedOnce, TypeOK, Progress, Begun, CountedByOne, WatchCanHear, Closer
  <1>1. CASE Establish
    <2>1. CASE ~closed /\ gone /\ closed' = TRUE /\ broken' = TRUE
      BY <1>1, <2>1 DEF Establish, auth, history, marks
    <2>2. CASE UNCHANGED <<closed, broken>>
      BY <1>1, <2>2 DEF Establish, auth, history, marks
    <2> QED
      BY <1>1, <2>1, <2>2 DEF Establish, Write
  <1>2. CASE SetUpWatch
    BY <1>2 DEF SetUpWatch, Unlocked, auth, socket, history, marks
  <1>3. CASE MarkNewConnection
    BY <1>3 DEF MarkNewConnection, auth, socket, history, marks
  <1>4. CASE Accept
    BY <1>4, ZenonT(40) DEF Accept, Unlocked, auth, socket, history, marks
  <1>5. CASE ListenerCloses
    BY <1>5 DEF ListenerCloses, auth, socket, history, marks
  <1>6. CASE ReadsAfterCleanup
    BY <1>6 DEF ReadsAfterCleanup, auth, socket, history, marks
  <1>7. CASE ListenerReturns
    BY <1>7 DEF ListenerReturns, auth, socket, history, marks
  <1>8. CASE Vanish
    BY <1>8 DEF Vanish, auth, socket, history, marks
  <1>9. CASE SendFails
    BY <1>9 DEF SendFails, auth, socket, history, marks
  <1>10. CASE StartTimer
    BY <1>10 DEF StartTimer, auth, socket, history, marks
  <1>11. CASE EnterSelect
    BY <1>11 DEF EnterSelect, auth, socket, history, marks
  <1>12. CASE Hear
    BY <1>12 DEF Hear, auth, socket, history, marks
  <1>13. CASE SetAuthorized
    BY <1>13 DEF SetAuthorized, Unlocked, auth, socket, history, marks
  <1>14. CASE DropChannel
    <2>1. CASE field /\ chan' = "closed" /\ UNCHANGED crash
      BY <1>14, <2>1 DEF DropChannel, Unlocked, socket, history, marks
    <2>2. CASE ~field /\ UNCHANGED <<chan, crash>>
      BY <1>14, <2>2, ZenonT(40) DEF DropChannel, Unlocked, socket, history, marks
    <2> QED
      BY <1>14, <2>1, <2>2 DEF DropChannel, CloseChan
  <1>15. CASE TimerFires
    BY <1>15 DEF TimerFires, auth, socket, history, marks
  <1>16. CASE ServerCloses
    BY <1>16 DEF ServerCloses, auth, socket, history, marks
  <1>17. ASSUME NEW c \in Closer, CloseBegins(c)
         PROVE  IInv'
    BY <1>17, AuthWatchAssumption DEF CloseBegins, Return, Unlocked, CloseChan, auth, socket,
       history, marks
  <1>18. ASSUME NEW c \in Closer, CloseWithoutCleanup(c)
         PROVE  IInv'
    BY <1>18, AuthWatchAssumption DEF CloseWithoutCleanup, Return, Unlocked, CloseChan, auth,
       socket, history, marks
  <1>19. ASSUME NEW c \in Closer, CloseWithCleanup(c)
         PROVE  IInv'
    <2>1. crash' = crash /\ field' = FALSE /\ chan' \in {chan, "closed"}
      BY <1>19 DEF CloseWithCleanup, CloseChan
    <2>2. ChannelClosedOnce'
      BY <1>19, <2>1 DEF CloseWithCleanup, Return, history, marks
    <2>3. Progress'
      BY <1>19 DEF CloseWithCleanup, Return, marks
    <2>4. CountedByOne' /\ WatchCanHear'
      BY <1>19 DEF CloseWithCleanup, Return, history, marks
    <2> QED
      BY <2>2, <2>3, <2>4
  <1>20. CASE UNCHANGED vars
    BY <1>20 DEF vars
  <1> QED
    BY <1>1, <1>2, <1>3, <1>4, <1>5, <1>6, <1>7, <1>8, <1>9, <1>10, <1>11, <1>12,
       <1>13, <1>14, <1>15, <1>16, <1>17, <1>18, <1>19, <1>20 DEF Next, Step

\* and so it always holds.
LEMMA IInvHolds == Spec => []IInv
  BY InitIInv, NextIInv, PTL DEF Spec

\* Three goroutines close, fill and forget userAuthChannel (websocket.go:234,
\* 246): in no interleaving is it closed twice, which would be a panic.
THEOREM ChannelClosedOnceHolds == Spec => []ChannelClosedOnce
  <1>1. IInv => ChannelClosedOnce
    BY DEF IInv
  <1> QED
    BY <1>1, IInvHolds, PTL

\* closeConnection by up to three goroutines (websocket.go:276-303) counts the
\* connection as disconnected once, unless a write to the client has failed.
THEOREM DisconnectedOnceHolds == Spec => []DisconnectedOnce
  <1>1. IInv => DisconnectedOnce
    BY DEF IInv, CountedByOne, DisconnectedOnce
  <1> QED
    BY <1>1, IInvHolds, PTL

\* The timer of the watch (websocket.go:199) ends an accepted connection only
\* if the signal came before the watch was there, lies unread in the channel,
\* or the connection had ended anyway.
THEOREM AcceptedIsKeptHolds == Spec => AcceptedIsKept
  <1> DEFINE Kept == watch # "timedout" /\ watch' = "timedout" /\ accepted
                        => early \/ chan = "full" \/ closed
  <1>1. ASSUME IInv, [Next]_vars
        PROVE  [Kept]_vars
    <2> SUFFICES ASSUME watch # "timedout", watch' = "timedout"
                 PROVE  Kept
      OBVIOUS
    <2>1. watch \in {"waiting", "deaf"}
      BY <1>1 DEF Next, Step, vars, Establish, SetUpWatch, MarkNewConnection, Accept,
         ListenerCloses, ReadsAfterCleanup, ListenerReturns, Vanish, SendFails, StartTimer,
         EnterSelect, Hear, SetAuthorized, DropChannel, TimerFires, ServerCloses, CloseBegins,
         CloseWithoutCleanup, CloseWithCleanup, Return
    <2> QED
      BY <1>1, <2>1 DEF IInv, WatchCanHear
  <1> QED
    BY <1>1, IInvHolds, PTL DEF Spec, AcceptedIsKept
=============================================================================
