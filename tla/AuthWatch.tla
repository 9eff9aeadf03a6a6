----------------------------- MODULE AuthWatch ------------------------------
(***************************************************************************)
(* One connection of an app that requires authorization, from the moment   *)
(* it is in the adapter (serve.go, initializeWebSocketConnection) to its   *)
(* end.  Five goroutines meet on it: the HTTP handler, which starts the    *)
(* listener before it sets up the watch; the listener; the watch that      *)
(* WatchForAuthentication starts, with its timer; and whoever closes the   *)
(* socket from outside (shutdown, TerminateUserConnections).  Three of     *)
(* them can run closeConnection.                                           *)
(*                                                                         *)
(* userAuthChannel is a field and a channel: `field` is set while the      *)
(* field is not nil, `chan` is the state of the channel.  w.mutex guards   *)
(* the field; the watch reads it once without the mutex.                   *)
(***************************************************************************)
EXTENDS Integers

Closer == {"listener", "watch", "server"}

CONSTANT None

ASSUME AuthWatchAssumption == None \notin Closer

VARIABLES
    handler,    \* "established" is next, then "watch", "mark", "done"
    listener,   \* "run", "closing", "ended"
    watch,      \* "none", "starting", "armed", "waiting", "deaf" (waits on a
                \* nil channel), "heard", "cleaning", "timedout", "ended"
    closer,     \* closeConnection by each closer: "no", "want", "in", "done"
    lock,       \* the closer that holds w.mutex
    field, chan,
    authorized, \* userHasAuthorized
    gone,       \* the client is gone: reads fail, writes may fail
    closed,     \* w.closed
    hungup,     \* the TCP connection is closed
    cleaned,    \* Cleanup has run: server, app and conn are nil
    crash,      \* "no", or the panic that ended the process
    accepted,   \* history: an authorized subscription or signin succeeded
    early,      \* history: the first one came before the watch was set up
    broken,     \* history: a write to the client failed
    connects, disconnects   \* MarkNewConnection, MarkDisconnection

vars == <<handler, listener, watch, closer, lock, field, chan, authorized, gone, closed,
          hungup, cleaned, crash, accepted, early, broken, connects, disconnects>>
auth == <<field, chan, authorized>>
socket == <<closed, hungup, cleaned, broken>>
history == <<accepted, early>>
marks == <<connects, disconnects>>

TypeOK ==
    /\ handler \in {"establish", "watch", "mark", "done"}
    /\ listener \in {"run", "closing", "ended"}
    /\ watch \in {"none", "starting", "armed", "waiting", "deaf", "heard", "cleaning", "timedout", "ended"}
    /\ closer \in [Closer -> {"no", "want", "in", "done"}]
    /\ lock \in Closer \cup {None}
    /\ field \in BOOLEAN /\ chan \in {"none", "empty", "full", "closed"}
    /\ {authorized, gone, closed, hungup, cleaned, accepted, early, broken} \subseteq BOOLEAN
    /\ crash \in {"no", "nil", "channel"}
    /\ connects \in 0..1 /\ disconnects \in 0..3

Init ==
    /\ handler = "establish" /\ listener = "run" /\ watch = "none"
    /\ closer = [c \in Closer |-> "no"]
    /\ lock = None
    /\ field = FALSE /\ chan = "none" /\ authorized = FALSE
    /\ gone = FALSE /\ closed = FALSE /\ hungup = FALSE /\ cleaned = FALSE
    /\ crash = "no"
    /\ accepted = FALSE /\ early = FALSE /\ broken = FALSE
    /\ connects = 0 /\ disconnects = 0

Unlocked == lock = None

\* close(userAuthChannel): a second close panics.
CloseChan ==
    \/ /\ chan # "closed"
       /\ chan' = "closed"
       /\ UNCHANGED crash
    \/ /\ chan = "closed"
       /\ crash' = "channel"
       /\ UNCHANGED chan

\* What a write does to w.closed: nothing once it is set.
Write ==
    \/ /\ ~closed /\ gone
       /\ closed' = TRUE /\ broken' = TRUE
    \/ UNCHANGED <<closed, broken>>

-----------------------------------------------------------------------------
(* The handler: go Listen, then these steps.                               *)

Establish ==
    /\ handler = "establish"
    /\ handler' = "watch"
    /\ Write
    /\ UNCHANGED <<listener, watch, closer, lock, auth, gone, hungup, cleaned, crash, history, marks>>

\* WatchForAuthentication up to `go func`.
SetUpWatch ==
    /\ handler = "watch" /\ Unlocked
    /\ handler' = "mark"
    /\ field' = TRUE /\ chan' = "empty"
    /\ watch' = "starting"
    /\ UNCHANGED <<listener, closer, lock, authorized, gone, socket, crash, history, marks>>

MarkNewConnection ==
    /\ handler = "mark"
    /\ handler' = "done"
    /\ connects' = connects + 1
    /\ UNCHANGED <<listener, watch, closer, lock, auth, gone, socket, crash, history, disconnects>>

-----------------------------------------------------------------------------
(* The listener.                                                           *)

\* Mutant: userAuthChannel without its buffer.
AcceptUnbuffered ==
    /\ listener = "run" /\ ~closed /\ ~cleaned /\ Unlocked
    /\ accepted' = TRUE
    /\ early' = (early \/ (~accepted /\ handler \in {"establish", "watch"}))
    /\ chan' = IF field /\ ~authorized /\ chan = "empty" /\ watch = "waiting" THEN "full" ELSE chan
    /\ UNCHANGED <<handler, listener, watch, closer, lock, field, authorized, gone, socket, crash, marks>>

\* A subscription to a channel that requires authorization, or a signin,
\* succeeds and calls signalAuthenticated.
Accept ==
    /\ listener = "run" /\ ~closed /\ ~cleaned /\ Unlocked
    /\ accepted' = TRUE
    /\ early' = (early \/ (~accepted /\ handler \in {"establish", "watch"}))
    /\ chan' = IF field /\ ~authorized /\ chan = "empty" THEN "full" ELSE chan
    /\ UNCHANGED <<handler, listener, watch, closer, lock, field, authorized, gone, socket, crash, marks>>

\* A read fails, or a signin has a bad token: closeConnection.
ListenerCloses ==
    /\ listener = "run" /\ ~cleaned
    /\ listener' = "closing"
    /\ closer' = [closer EXCEPT !["listener"] = "want"]
    /\ UNCHANGED <<handler, watch, lock, auth, gone, socket, crash, history, marks>>

\* handleReadMessageError after Cleanup: w.server is nil.
ReadsAfterCleanup ==
    /\ listener = "run" /\ cleaned
    /\ crash' = "nil"
    /\ UNCHANGED <<handler, listener, watch, closer, lock, auth, gone, socket, history, marks>>

\* The top of Listen's loop sees w.closed; or a frame is too large.
ListenerReturns ==
    /\ listener = "run"
    /\ listener' = "ended"
    /\ UNCHANGED <<handler, watch, closer, lock, auth, gone, socket, crash, history, marks>>

\* The client disappears.
Vanish ==
    /\ ~gone
    /\ gone' = TRUE
    /\ UNCHANGED <<handler, listener, watch, closer, lock, auth, socket, crash, history, marks>>

\* An event is written to a client that is gone.
SendFails ==
    /\ gone /\ ~closed
    /\ closed' = TRUE /\ broken' = TRUE
    /\ UNCHANGED <<handler, listener, watch, closer, lock, auth, gone, hungup, cleaned, crash, history, marks>>

-----------------------------------------------------------------------------
(* The watch.                                                              *)

\* The goroutine makes its timer from w.app.
StartTimer ==
    /\ watch = "starting"
    /\ \/ /\ ~cleaned
          /\ watch' = "armed"
          /\ UNCHANGED crash
       \/ /\ cleaned
          /\ crash' = "nil"
          /\ UNCHANGED watch
    /\ UNCHANGED <<handler, listener, closer, lock, auth, gone, socket, history, marks>>

\* The select reads the field once.
EnterSelect ==
    /\ watch = "armed"
    /\ watch' = IF field THEN "waiting" ELSE "deaf"
    /\ UNCHANGED <<handler, listener, closer, lock, auth, gone, socket, crash, history, marks>>

Hear ==
    /\ watch = "waiting" /\ chan \in {"full", "closed"}
    /\ watch' = IF chan = "full" THEN "heard" ELSE "cleaning"
    /\ chan' = IF chan = "full" THEN "empty" ELSE chan
    /\ UNCHANGED <<handler, listener, closer, lock, field, authorized, gone, socket, crash, history, marks>>

SetAuthorized ==
    /\ watch = "heard" /\ Unlocked
    /\ watch' = "cleaning"
    /\ authorized' = TRUE
    /\ UNCHANGED <<handler, listener, closer, lock, field, chan, gone, socket, crash, history, marks>>

\* Mutant: the watch closes the channel without looking at the field.
DropChannelBlindly ==
    /\ watch = "cleaning" /\ Unlocked
    /\ watch' = "ended"
    /\ CloseChan
    /\ field' = FALSE
    /\ UNCHANGED <<handler, listener, closer, lock, authorized, gone, socket, history, marks>>

DropChannel ==
    /\ watch = "cleaning" /\ Unlocked
    /\ watch' = "ended"
    /\ \/ field /\ CloseChan
       \/ ~field /\ UNCHANGED <<chan, crash>>
    /\ field' = FALSE
    /\ UNCHANGED <<handler, listener, closer, lock, authorized, gone, socket, history, marks>>

\* Mutant: the timer is of no use once the field is nil.
TimerFiresForField ==
    /\ watch \in {"waiting", "deaf"} /\ field
    /\ watch' = "timedout"
    /\ closer' = [closer EXCEPT !["watch"] = "want"]
    /\ UNCHANGED <<handler, listener, lock, auth, gone, socket, crash, history, marks>>

\* The timer fires; Go picks either case when the channel is ready as well.
TimerFires ==
    /\ watch \in {"waiting", "deaf"}
    /\ watch' = "timedout"
    /\ closer' = [closer EXCEPT !["watch"] = "want"]
    /\ UNCHANGED <<handler, listener, lock, auth, gone, socket, crash, history, marks>>

-----------------------------------------------------------------------------
(* closeConnection.                                                        *)

\* Shutdown and TerminateUserConnections close sockets they found in the
\* adapter.
ServerCloses ==
    /\ closer["server"] = "no"
    /\ \A c \in Closer : closer[c] \notin {"in", "done"}
    /\ closer' = [closer EXCEPT !["server"] = "want"]
    /\ UNCHANGED <<handler, listener, watch, lock, auth, gone, socket, crash, history, marks>>

\* w.mutex is taken, the socket leaves the adapter, which is counted.
CloseBegins(c) ==
    /\ closer[c] = "want" /\ Unlocked
    /\ closer' = [closer EXCEPT ![c] = "in"]
    /\ lock' = c
    /\ disconnects' = IF cleaned THEN disconnects ELSE disconnects + 1
    /\ UNCHANGED <<handler, listener, watch, auth, gone, socket, crash, history, connects>>

\* The goroutine that called returns: the listener from Listen, the watch.
Return(c) ==
    /\ closer' = [closer EXCEPT ![c] = "done"]
    /\ lock' = None
    /\ listener' = IF c = "listener" THEN "ended" ELSE listener
    /\ watch' = IF c = "watch" THEN "ended" ELSE watch

\* The client is told, the connection closed; w.closed was set already, by a
\* failed write or another closer: no Cleanup.
CloseWithoutCleanup(c) ==
    /\ closer[c] = "in"
    /\ closed \/ gone
    /\ closed' = TRUE
    /\ broken' = (broken \/ ~closed)
    /\ hungup' = TRUE
    /\ Return(c)
    /\ UNCHANGED <<handler, auth, gone, cleaned, crash, history, marks>>

\* Mutant: Cleanup leaves app and server in place.
CloseKeepsApp(c) ==
    /\ closer[c] = "in" /\ ~closed
    /\ closed' = TRUE
    /\ hungup' = TRUE
    /\ \/ field /\ CloseChan
       \/ ~field /\ UNCHANGED <<chan, crash>>
    /\ field' = FALSE
    /\ authorized' = FALSE
    /\ Return(c)
    /\ UNCHANGED <<handler, gone, cleaned, broken, history, marks>>

\* The same with the message written: Cleanup, and all is nil.
CloseWithCleanup(c) ==
    /\ closer[c] = "in" /\ ~closed
    /\ closed' = TRUE
    /\ hungup' = TRUE
    /\ \/ field /\ CloseChan
       \/ ~field /\ UNCHANGED <<chan, crash>>
    /\ field' = FALSE
    /\ cleaned' = TRUE
    /\ authorized' = FALSE
    /\ Return(c)
    /\ UNCHANGED <<handler, gone, broken, history, marks>>

-----------------------------------------------------------------------------
Step ==
    \/ Establish \/ SetUpWatch \/ MarkNewConnection
    \/ Accept \/ ListenerCloses \/ ReadsAfterCleanup \/ ListenerReturns
    \/ Vanish \/ SendFails
    \/ StartTimer \/ EnterSelect \/ Hear \/ SetAuthorized \/ DropChannel \/ TimerFires
    \/ ServerCloses
    \/ \E c \in Closer : CloseBegins(c) \/ CloseWithoutCleanup(c) \/ CloseWithCleanup(c)

\* A panic ends the process.
Next == crash = "no" /\ Step

Spec == Init /\ [][Next]_vars

\* Goroutines run on, the timer fires, and a read on a connection that is
\* closed or whose client is gone returns.
FairSpec ==
    /\ Spec
    /\ WF_vars(crash = "no" /\ (Establish \/ SetUpWatch \/ MarkNewConnection))
    /\ WF_vars(crash = "no" /\ (hungup \/ gone) /\ (ListenerCloses \/ ListenerReturns))
    /\ WF_vars(crash = "no" /\ (StartTimer \/ EnterSelect \/ SetAuthorized \/ DropChannel))
    /\ WF_vars(crash = "no" /\ (Hear \/ TimerFires))
    /\ \A c \in Closer :
        /\ SF_vars(crash = "no" /\ CloseBegins(c))
        /\ WF_vars(crash = "no" /\ (CloseWithoutCleanup(c) \/ CloseWithCleanup(c)))

-----------------------------------------------------------------------------
\* The watch closes "any conns that don't subscribe to a private/presence
\* within x seconds" (serve.go:235).  One that did is closed by it only if the
\* signal came before the watch existed (594, 842: the field is nil), or lies
\* in the channel when the timer fires and the select takes the timer, or the
\* connection had ended anyway.
AcceptedIsKept ==
    [][watch # "timedout" /\ watch' = "timedout" /\ accepted
        => early \/ chan = "full" \/ closed]_vars

\* Three goroutines close, fill and forget userAuthChannel; none closes it a
\* second time, which would end the process (234-239, 246-249).
ChannelClosedOnce ==
    /\ TypeOK
    /\ crash # "channel"
    /\ field => chan \in {"empty", "full"}

\* A connection is counted as disconnected once, however many goroutines
\* close it (276-283), unless a write to the client has failed: then Cleanup
\* is left out (303) and the next closer counts it again.
DisconnectedOnce == ~broken => disconnects <= 1

\* No goroutine outlives its connection: once the TCP connection is closed the
\* handler, the listener and the watch end, unless the process panics.
GoroutinesEnd ==
    hungup ~> \/ crash # "no"
              \/ handler = "done" /\ listener = "ended" /\ watch = "ended"
=============================================================================
