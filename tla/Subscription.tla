---------------------------- MODULE Subscription ----------------------------
(***************************************************************************)
(* WebSocket connections on one node: subscribing to and leaving channels, *)
(* presence membership and closing (internal/websocket.go, channels.go),   *)
(* over the maps of Namespace.                                             *)
(*                                                                         *)
(* Each connection has a listener, the goroutine that runs Listen and its  *)
(* handlers, and may have a closer: another goroutine that calls           *)
(* closeConnection on it (authorization timeout, TerminateUserConnections, *)
(* server shutdown).  A handler is cut at the mutexes: one step per        *)
(* critical section of l.mutex (the adapter) or w.mutex (the socket).      *)
(* Only two pieces of code take a second mutex while they hold one, and    *)
(* only for those the mutexes are variables: GetChannelMembers holds       *)
(* l.mutex and takes the w.mutex of each subscriber in turn;               *)
(* closeConnection holds w.mutex and takes l.mutex in RemoveSocket.        *)
(*                                                                         *)
(* Left to other modules: the Users map (LocalAdapter), the authorization  *)
(* timer, client events, cache channels.                                   *)
(***************************************************************************)
EXTENDS Namespace

CONSTANTS
    BlankID,            \* w.ID = "": what Cleanup leaves in a closed socket
    PresenceChannel,    \* the channels with a presence- name
    Member,             \* [Conn -> UserID \cup {NoUser}]: user_id of channel_data
    MaxMembers,         \* app.MaxPresenceMembersPerChannel, 0 for no limit
    Evicted,            \* connections that a closer may close
    Unreliable,         \* connections on which a Send may fail or a frame be too large
    MaxRequests,        \* [Conn -> Nat], bound: subscribe requests per client
    NoProc              \* an unlocked mutex

Conn == SocketID \ {BlankID}

Proc == {"listener", "closer"} \X Conn
Sock(p) == p[2]

ASSUME SubscriptionAssumption ==
    /\ BlankID \in SocketID
    /\ ChannelName # {}
    /\ PresenceChannel \subseteq ChannelName
    /\ Member \in [Conn -> UserID \cup {NoUser}]
    /\ MaxMembers \in Nat
    /\ MaxRequests \in [Conn -> Nat]
    /\ NoProc \notin Proc

VARIABLES
    Channels, Sockets,  \* the namespace
    life,               \* of the WebSocket: its conn, closed and server fields
    tracked,            \* the keys of w.SubscribedChannels
    hasMap,             \* w.SubscribedChannels # nil
    presence,           \* w.PresenceData
    requests,           \* subscribe requests handled so far
    lockL,              \* the holder of l.mutex
    lockW,              \* the holders of the w.mutexes
    proc,               \* the goroutines
    lastEvent,          \* the last member event announced for each user
    debt,               \* channels that became occupied minus occupied webhooks
    crashed             \* a goroutine panicked: the process is gone

ns == <<Channels, Sockets>>
sock == <<life, tracked, hasMap, presence, requests>>
locks == <<lockL, lockW>>
log == <<lastEvent, debt>>
vars == <<ns, sock, locks, proc, log, crashed>>

(***************************************************************************)
(* "new" no socket yet; "open"; "failed" a Send has set w.closed; "hungup" *)
(* conn.Close() was called; "shut" closeConnection returned without        *)
(* Cleanup because w.closed was set; "cleaned" Cleanup ran: server, app,   *)
(* ID and the maps are nil.                                                *)
(***************************************************************************)
Life == {"new", "open", "failed", "hungup", "hungupFailed", "shut", "cleaned"}

PC == {"none", "top", "read", "count", "counting", "join", "recount", "track",
       "notify", "members", "scan", "setdata", "announce",
       "leave", "remaining", "member", "forget", "stayers", "lscan", "depart",
       "vacate", "untrack",
       "copy", "unsubscribe", "lock", "remove", "hangup", "cleanup", "exited"}

Local == [pc      : PC,
          chan    : ChannelName,              \* the channel of the request
          scan    : SUBSET Conn,              \* subscribers still to be read
          found   : SUBSET UserID,            \* GetChannelMembers so far
          mem     : UserID \cup {NoUser},     \* leaveResponse.Member
          edge    : BOOLEAN,                  \* count is 1 (join) or 0 (leave)
          closing : BOOLEAN,                  \* in unsubscribeFromAllChannels
          todo    : SUBSET ChannelName]       \* its copy of the channels

TypeOK ==
    /\ ChannelsType(Channels)
    /\ Sockets \subseteq Conn
    /\ life \in [Conn -> Life]
    /\ tracked \in [Conn -> SUBSET ChannelName]
    /\ hasMap \in [Conn -> BOOLEAN]
    /\ presence \in [Conn -> [ChannelName -> UserID \cup {NoUser}]]
    /\ requests \in [Conn -> Nat]
    /\ lockL \in Proc \cup {NoProc}
    /\ lockW \in [Conn -> Proc \cup {NoProc}]
    /\ proc \in [Proc -> Local]
    /\ lastEvent \in [ChannelName -> [UserID -> {"none", "added", "removed"}]]
    /\ debt \in [ChannelName -> Int]
    /\ crashed \in BOOLEAN

Resting == [pc |-> "none", chan |-> CHOOSE c \in ChannelName : TRUE, scan |-> {},
            found |-> {}, mem |-> NoUser, edge |-> FALSE, closing |-> FALSE,
            todo |-> {}]

Init ==
    /\ Channels = NoChannels
    /\ Sockets = {}
    /\ life = [s \in Conn |-> "new"]
    /\ tracked = [s \in Conn |-> {}]
    /\ hasMap = [s \in Conn |-> TRUE]
    /\ presence = [s \in Conn |-> [c \in ChannelName |-> NoUser]]
    /\ requests = [s \in Conn |-> 0]
    /\ lockL = NoProc
    /\ lockW = [s \in Conn |-> NoProc]
    /\ proc = [p \in Proc |-> Resting]
    /\ lastEvent = [c \in ChannelName |-> [u \in UserID |-> "none"]]
    /\ debt = [c \in ChannelName |-> 0]
    /\ crashed = FALSE

-----------------------------------------------------------------------------
At(p, l) == ~crashed /\ proc[p].pc = l
Goto(p, l) == proc' = [proc EXCEPT ![p].pc = l]

\* Reset the locals a finished request leaves behind and go to l.
Finish(p, l) == proc' = [proc EXCEPT ![p] = [Resting EXCEPT !.pc = l]]

FreeL == lockL = NoProc
FreeW(s) == lockW[s] = NoProc

Panic ==
    /\ crashed' = TRUE
    /\ UNCHANGED <<ns, sock, locks, proc, log>>

\* w.server and w.app are nil: using them panics.
NilServer(p) == life[Sock(p)] = "cleaned"

Subscribers(c) == GetChannelSockets(Channels, Sockets, c)

Listener(s) == <<"listener", s>>
Closer(s) == <<"closer", s>>

-----------------------------------------------------------------------------
(***************************************************************************)
(* Listen.  serveWs adds the socket and starts its listener.  At the top   *)
(* of the loop the listener returns if the socket is closed, without       *)
(* closeConnection; so it does for a frame that is too large.              *)
(***************************************************************************)
Connect(s) ==
    /\ ~crashed
    /\ life[s] = "new"
    /\ FreeL
    /\ life' = [life EXCEPT ![s] = "open"]
    /\ Sockets' = Sockets \cup {s}
    /\ Goto(Listener(s), "top")
    /\ UNCHANGED <<Channels, tracked, hasMap, presence, requests, locks, log, crashed>>

LoopTop(s) ==
    /\ At(Listener(s), "top")
    /\ Goto(Listener(s), IF life[s] = "open" THEN "read" ELSE "exited")
    /\ UNCHANGED <<ns, sock, locks, log, crashed>>

FrameTooLarge(s) ==
    /\ At(Listener(s), "read")
    /\ life[s] \in {"open", "failed"}
    /\ s \in Unreliable
    /\ Goto(Listener(s), "exited")
    /\ UNCHANGED <<ns, sock, locks, log, crashed>>

\* A Send to s, by any goroutine, fails to write: only w.closed is set.
SendFails(s) ==
    /\ ~crashed
    /\ life[s] = "open"
    /\ s \in Unreliable
    /\ life' = [life EXCEPT ![s] = "failed"]
    /\ UNCHANGED <<ns, tracked, hasMap, presence, requests, locks, proc, log, crashed>>

-----------------------------------------------------------------------------
(***************************************************************************)
(* handleSubscribeRequest.  GetChannelMembersCount reads the subscribers   *)
(* without l.mutex.                                                        *)
(***************************************************************************)
SubscribeRequest(s, c) ==
    LET p == Listener(s) IN
    /\ At(p, "read")
    /\ life[s] \in {"open", "failed"}
    /\ requests[s] < MaxRequests[s]
    /\ requests' = [requests EXCEPT ![s] = @ + 1]
    /\ proc' = [proc EXCEPT ![p].chan = c,
                            ![p].pc = IF c \in PresenceChannel /\ MaxMembers > 0
                                      THEN "count" ELSE "join"]
    /\ UNCHANGED <<ns, life, tracked, hasMap, presence, locks, log, crashed>>

CountMembers(p) ==
    /\ At(p, "count")
    /\ FreeL
    /\ proc' = [proc EXCEPT ![p].pc = "counting", ![p].found = {},
                            ![p].scan = Subscribers(proc[p].chan)]
    /\ UNCHANGED <<ns, sock, locks, log, crashed>>

\* One subscriber's presence data, under its w.mutex unless there is none.
ReadMember(p, t) ==
    /\ life[t] = "cleaned" \/ FreeW(t)
    /\ proc' = [proc EXCEPT ![p].scan = @ \ {t},
                            ![p].found = @ \cup ({presence[t][proc[p].chan]} \ {NoUser})]
    /\ UNCHANGED <<ns, sock, locks, log, crashed>>

CountOne(p) ==
    /\ At(p, "counting")
    /\ \E t \in proc[p].scan : ReadMember(p, t)

LimitReached(p) ==
    /\ At(p, "counting")
    /\ proc[p].scan = {}
    /\ Cardinality(proc[p].found) + 1 > MaxMembers
    /\ Finish(p, "top")
    /\ UNCHANGED <<ns, sock, locks, log, crashed>>

BelowLimit(p) ==
    /\ At(p, "counting")
    /\ proc[p].scan = {}
    /\ Cardinality(proc[p].found) + 1 <= MaxMembers
    /\ Goto(p, "join")
    /\ UNCHANGED <<ns, sock, locks, log, crashed>>

\* Mutant: the count of a second call stands in for the one AddToChannel returns.
JoinThenRecount(p) ==
    LET c  == proc[p].chan
        id == IF NilServer(p) THEN BlankID ELSE Sock(p)
    IN  /\ At(p, "join")
        /\ FreeL
        /\ Channels' = AddToChannel(Channels, id, c)
        /\ debt' = [debt EXCEPT ![c] = IF c \in DOMAIN Channels THEN @ ELSE @ + 1]
        /\ Goto(p, "recount")
        /\ UNCHANGED <<Sockets, sock, locks, lastEvent, crashed>>

\* adapter.AddToChannel: ws.ID is read here, after a Cleanup it is blank.
Join(p) ==
    LET c  == proc[p].chan
        id == IF NilServer(p) THEN BlankID ELSE Sock(p)
    IN  /\ At(p, "join")
        /\ FreeL
        /\ Channels' = AddToChannel(Channels, id, c)
        /\ debt' = [debt EXCEPT ![c] = IF c \in DOMAIN Channels THEN @ ELSE @ + 1]
        /\ proc' = [proc EXCEPT ![p].pc = IF c \in PresenceChannel THEN "recount" ELSE "track",
                                ![p].edge = AddToChannelCount(Channels, id, c) = 1]
        /\ UNCHANGED <<Sockets, sock, locks, lastEvent, crashed>>

\* joinPresenceChannel asks for the number of sockets in a second call.
Recount(p) ==
    /\ At(p, "recount")
    /\ FreeL
    /\ proc' = [proc EXCEPT ![p].pc = "track",
                            ![p].edge = Cardinality(Subscribers(proc[p].chan)) = 1]
    /\ UNCHANGED <<ns, sock, locks, log, crashed>>

\* Writing to the nil map that unsubscribeFromAllChannels leaves panics.
Track(p) ==
    /\ At(p, "track")
    /\ FreeW(Sock(p))
    /\ IF ~hasMap[Sock(p)] THEN Panic
       ELSE /\ tracked' = [tracked EXCEPT ![Sock(p)] = @ \cup {proc[p].chan}]
            /\ Goto(p, "notify")
            /\ UNCHANGED <<ns, life, hasMap, presence, requests, locks, log, crashed>>

Notify(p) ==
    LET c == proc[p].chan IN
    /\ At(p, "notify")
    /\ IF proc[p].edge /\ NilServer(p) THEN Panic
       ELSE /\ debt' = [debt EXCEPT ![c] = IF proc[p].edge THEN @ - 1 ELSE @]
            /\ IF c \in PresenceChannel /\ Member[Sock(p)] # NoUser
               THEN Goto(p, "members") ELSE Finish(p, "top")
            /\ UNCHANGED <<ns, sock, locks, lastEvent, crashed>>

-----------------------------------------------------------------------------
(***************************************************************************)
(* GetChannelMembers, on joining ("members", "scan") and on leaving        *)
(* ("stayers", "lscan"): l.mutex is held until the last subscriber is read.*)
(***************************************************************************)
BeginScan(p, from, to) ==
    /\ At(p, from)
    /\ IF NilServer(p) THEN Panic
       ELSE /\ FreeL
            /\ lockL' = p
            /\ proc' = [proc EXCEPT ![p].pc = to, ![p].found = {},
                                    ![p].scan = Subscribers(proc[p].chan)]
            /\ UNCHANGED <<ns, sock, lockW, log, crashed>>

ScanOne(p) ==
    /\ At(p, "scan") \/ At(p, "lscan")
    /\ \E t \in proc[p].scan : ReadMember(p, t)

\* Mutant: a missing unlock.
EndScanLocked(p, from, to) ==
    /\ At(p, from)
    /\ proc[p].scan = {}
    /\ Goto(p, to)
    /\ UNCHANGED <<ns, sock, locks, log, crashed>>

EndScan(p, from, to) ==
    /\ At(p, from)
    /\ proc[p].scan = {}
    /\ lockL' = NoProc
    /\ Goto(p, to)
    /\ UNCHANGED <<ns, sock, lockW, log, crashed>>

\* handlePresenceChannelSubscription, after the members are known.
SetPresenceData(p) ==
    LET s == Sock(p) IN
    /\ At(p, "setdata")
    /\ FreeW(s)
    /\ IF life[s] = "cleaned" THEN Panic
       ELSE /\ presence' = [presence EXCEPT ![s][proc[p].chan] = Member[s]]
            /\ Goto(p, "announce")
            /\ UNCHANGED <<ns, life, tracked, hasMap, requests, locks, log, crashed>>

\* handleMemberAddedEvent: the webhook and the broadcast, unless u was found.
AnnounceAdded(p) ==
    LET u == Member[Sock(p)]
        added == u \notin proc[p].found
    IN  /\ At(p, "announce")
        /\ FreeW(Sock(p))
        /\ added => FreeL
        /\ IF added /\ NilServer(p) THEN Panic
           ELSE /\ lastEvent' = [lastEvent EXCEPT ![proc[p].chan][u] =
                                    IF added THEN "added" ELSE @]
                /\ Finish(p, "top")
                /\ UNCHANGED <<ns, sock, locks, debt, crashed>>

-----------------------------------------------------------------------------
(***************************************************************************)
(* handleUnsubscribeRequest and unsubscribeFromChannel.                    *)
(***************************************************************************)
UnsubscribeRequest(s, c) ==
    LET p == Listener(s) IN
    /\ At(p, "read")
    /\ life[s] \in {"open", "failed"}
    /\ FreeW(s)
    /\ c \in tracked[s]
    /\ proc' = [proc EXCEPT ![p].chan = c, ![p].pc = "leave"]
    /\ UNCHANGED <<ns, sock, locks, log, crashed>>

Leave(p) ==
    /\ At(p, "leave")
    /\ IF NilServer(p) THEN Panic
       ELSE /\ FreeL
            /\ Channels' = RemoveFromChannel(Channels, Sock(p), {proc[p].chan})
            /\ Goto(p, "remaining")
            /\ UNCHANGED <<Sockets, sock, locks, log, crashed>>

Remaining(p) ==
    LET c == proc[p].chan IN
    /\ At(p, "remaining")
    /\ FreeL
    /\ proc' = [proc EXCEPT ![p].edge = Subscribers(c) = {},
                            ![p].pc = IF c \in PresenceChannel THEN "member" ELSE "vacate"]
    /\ UNCHANGED <<ns, sock, locks, log, crashed>>

\* Mutant: the presence data is deleted before it is read.
LeaverMemberTooLate(p) ==
    /\ At(p, "member")
    /\ FreeW(Sock(p))
    /\ proc' = [proc EXCEPT ![p].mem = NoUser, ![p].pc = "forget"]
    /\ UNCHANGED <<ns, sock, locks, log, crashed>>

LeaverMember(p) ==
    LET s == Sock(p) IN
    /\ At(p, "member")
    /\ FreeW(s)
    /\ proc' = [proc EXCEPT ![p].mem = presence[s][proc[p].chan], ![p].pc = "forget"]
    /\ UNCHANGED <<ns, sock, locks, log, crashed>>

ForgetPresenceData(p) ==
    /\ At(p, "forget")
    /\ FreeW(Sock(p))
    /\ presence' = [presence EXCEPT ![Sock(p)][proc[p].chan] = NoUser]
    /\ Goto(p, "stayers")
    /\ UNCHANGED <<ns, life, tracked, hasMap, requests, locks, log, crashed>>

\* Where unsubscribeFromChannel returns to.
Return(p) ==
    IF proc[p].closing
    THEN proc' = [proc EXCEPT ![p].pc = "unsubscribe", ![p].scan = {}, ![p].found = {},
                              ![p].mem = NoUser, ![p].edge = FALSE]
    ELSE Finish(p, "top")

\* A leaver without member data returns early: still tracked, no vacated.
LeaverUnknown(p) ==
    /\ At(p, "depart")
    /\ proc[p].mem = NoUser
    /\ Return(p)
    /\ UNCHANGED <<ns, sock, locks, log, crashed>>

AnnounceRemoved(p) ==
    LET u == proc[p].mem
        removed == u \notin proc[p].found
    IN  /\ At(p, "depart")
        /\ u # NoUser
        /\ removed => FreeL
        /\ IF removed /\ NilServer(p) THEN Panic
           ELSE /\ lastEvent' = [lastEvent EXCEPT ![proc[p].chan][u] =
                                    IF removed THEN "removed" ELSE @]
                /\ Goto(p, "vacate")
                /\ UNCHANGED <<ns, sock, locks, debt, crashed>>

\* The vacated webhook itself carries no state; only w.server is used.
Vacate(p) ==
    /\ At(p, "vacate")
    /\ IF proc[p].edge /\ NilServer(p) THEN Panic
       ELSE /\ Goto(p, "untrack")
            /\ UNCHANGED <<ns, sock, locks, log, crashed>>

Untrack(p) ==
    /\ At(p, "untrack")
    /\ FreeW(Sock(p))
    /\ tracked' = [tracked EXCEPT ![Sock(p)] = @ \ {proc[p].chan}]
    /\ Return(p)
    /\ UNCHANGED <<ns, life, hasMap, presence, requests, locks, log, crashed>>

-----------------------------------------------------------------------------
(***************************************************************************)
(* closeConnection.  The listener calls it when its read fails: the client *)
(* left, the read timed out, or another goroutine closed the conn.         *)
(***************************************************************************)
ReadError(s) ==
    /\ At(Listener(s), "read")
    /\ IF life[s] = "cleaned" THEN Panic
       ELSE /\ Goto(Listener(s), "copy")
            /\ UNCHANGED <<ns, sock, locks, log, crashed>>

CloserStarts(s) ==
    /\ At(Closer(s), "none")
    /\ s \in Evicted
    /\ life[s] # "new"
    /\ Goto(Closer(s), "copy")
    /\ UNCHANGED <<ns, sock, locks, log, crashed>>

\* Mutant: closeConnection leaves the channels to RemoveSocket.
CopyNothing(p) ==
    /\ At(p, "copy")
    /\ FreeW(Sock(p))
    /\ proc' = [proc EXCEPT ![p].closing = TRUE, ![p].pc = "unsubscribe"]
    /\ UNCHANGED <<ns, sock, locks, log, crashed>>

\* unsubscribeFromAllChannels copies the channels under w.mutex ...
CopyChannels(p) ==
    /\ At(p, "copy")
    /\ FreeW(Sock(p))
    /\ proc' = [proc EXCEPT ![p].todo = tracked[Sock(p)], ![p].closing = TRUE,
                            ![p].pc = "unsubscribe"]
    /\ UNCHANGED <<ns, sock, locks, log, crashed>>

UnsubscribeOne(p, c) ==
    /\ At(p, "unsubscribe")
    /\ c \in proc[p].todo
    /\ proc' = [proc EXCEPT ![p].todo = @ \ {c}, ![p].chan = c, ![p].pc = "leave"]
    /\ UNCHANGED <<ns, sock, locks, log, crashed>>

\* ... and drops the map without it.
DropMap(p) ==
    LET s == Sock(p) IN
    /\ At(p, "unsubscribe")
    /\ proc[p].todo = {}
    /\ tracked' = [tracked EXCEPT ![s] = {}]
    /\ hasMap' = [hasMap EXCEPT ![s] = FALSE]
    /\ Finish(p, "lock")
    /\ UNCHANGED <<ns, life, presence, requests, locks, log, crashed>>

LockSocket(p) ==
    /\ At(p, "lock")
    /\ FreeW(Sock(p))
    /\ lockW' = [lockW EXCEPT ![Sock(p)] = p]
    /\ Goto(p, "remove")
    /\ UNCHANGED <<ns, sock, lockL, log, crashed>>

\* Mutant: the condition tests w.closed instead of the nil fields.
RemoveSocketIfOpen(p) ==
    LET s == Sock(p) IN
    /\ At(p, "remove")
    /\ Goto(p, "hangup")
    /\ IF life[s] # "open" THEN UNCHANGED ns
       ELSE /\ FreeL
            /\ Channels' = RemoveSocketChannels(Channels, Sockets, s)
            /\ Sockets' = Sockets \ {s}
    /\ UNCHANGED <<sock, locks, log, crashed>>

\* Skipped when Cleanup has been here before.
RemoveSocket(p) ==
    LET s == Sock(p) IN
    /\ At(p, "remove")
    /\ Goto(p, "hangup")
    /\ IF NilServer(p) THEN UNCHANGED ns
       ELSE /\ FreeL
            /\ Channels' = RemoveSocketChannels(Channels, Sockets, s)
            /\ Sockets' = Sockets \ {s}
    /\ UNCHANGED <<sock, locks, log, crashed>>

\* The error message may fail to be sent; conn is nil after an earlier close.
HangUp(p) ==
    LET s == Sock(p) IN
    /\ At(p, "hangup")
    /\ Goto(p, "cleanup")
    /\ \/ /\ life[s] \in {"open", "failed"}
          /\ \E ok \in IF s \in Unreliable THEN BOOLEAN ELSE {TRUE} :
                life' = [life EXCEPT ![s] = IF @ = "open" /\ ok THEN "hungup"
                                            ELSE "hungupFailed"]
       \/ /\ life[s] \in {"shut", "cleaned"}
          /\ UNCHANGED life
    /\ UNCHANGED <<ns, tracked, hasMap, presence, requests, locks, log, crashed>>

(***************************************************************************)
(* Between conn.Close() and Cleanup closeConnection sleeps 600ms: long     *)
(* enough for a listener blocked in NextFrame to see the closed conn.      *)
(* Cleanup is skipped when w.closed is already set.                        *)
(***************************************************************************)
Cleanup(p) ==
    LET s == Sock(p) IN
    /\ At(p, "cleanup")
    /\ proc[Listener(s)].pc # "read"
    /\ life' = [life EXCEPT ![s] = CASE @ = "hungup" -> "cleaned"
                                     [] @ = "hungupFailed" -> "shut"
                                     [] OTHER -> @]
    /\ presence' = [presence EXCEPT ![s] =
                        IF life[s] = "hungup" THEN [c \in ChannelName |-> NoUser] ELSE @]
    /\ hasMap' = [hasMap EXCEPT ![s] = @ /\ life[s] # "hungup"]
    /\ tracked' = [tracked EXCEPT ![s] = IF life[s] = "hungup" THEN {} ELSE @]
    /\ lockW' = [lockW EXCEPT ![s] = NoProc]
    /\ Finish(p, "exited")
    /\ UNCHANGED <<ns, requests, lockL, log, crashed>>

-----------------------------------------------------------------------------
Subscribing(p) ==
    \/ CountMembers(p) \/ CountOne(p) \/ LimitReached(p) \/ BelowLimit(p)
    \/ Join(p) \/ Recount(p) \/ Track(p) \/ Notify(p)
    \/ BeginScan(p, "members", "scan")
    \/ ScanOne(p)
    \/ EndScan(p, "scan", "setdata")
    \/ SetPresenceData(p) \/ AnnounceAdded(p)

Leaving(p) ==
    \/ Leave(p) \/ Remaining(p) \/ LeaverMember(p) \/ ForgetPresenceData(p)
    \/ BeginScan(p, "stayers", "lscan")
    \/ EndScan(p, "lscan", "depart")
    \/ LeaverUnknown(p) \/ AnnounceRemoved(p) \/ Vacate(p) \/ Untrack(p)

Closing(p) ==
    \/ CopyChannels(p)
    \/ \E c \in ChannelName : UnsubscribeOne(p, c)
    \/ DropMap(p) \/ LockSocket(p) \/ RemoveSocket(p) \/ HangUp(p) \/ Cleanup(p)

\* The steps a goroutine takes by itself once a request has reached it.
Progress(p) == Subscribing(p) \/ Leaving(p) \/ Closing(p)

\* What clients, the network and other parts of the server do.
Environment(s) ==
    \/ Connect(s)
    \/ FrameTooLarge(s)
    \/ SendFails(s)
    \/ \E c \in ChannelName : SubscribeRequest(s, c) \/ UnsubscribeRequest(s, c)
    \/ ReadError(s)
    \/ CloserStarts(s)

\* Every connection has come and gone, or the process has.
Done ==
    /\ crashed \/ \A s \in Conn : proc[Listener(s)].pc = "exited"
    /\ UNCHANGED vars

Next ==
    \/ \E p \in Proc : Progress(p)
    \/ \E s \in Conn : LoopTop(s) \/ Environment(s)
    \/ Done

Spec == Init /\ [][Next]_vars

(***************************************************************************)
(* Goroutines are scheduled and a sync.Mutex that waits too long goes into *)
(* starvation mode, so a step that keeps becoming possible is taken, also  *)
(* when other goroutines take the mutex in between.                        *)
(***************************************************************************)
FairSpec ==
    /\ Spec
    /\ \A p \in Proc : SF_vars(Progress(p))
    /\ \A s \in Conn : WF_vars(LoopTop(s))

-----------------------------------------------------------------------------
(***************************************************************************)
(* An ID in a channel's list belongs to a socket of the namespace:         *)
(* closeConnection "unsubscribes from all channels and removes socket from *)
(* adapter" (websocket.go:270), and nothing puts the ID back.  Otherwise   *)
(* the channel stays occupied for ever.                                    *)
(***************************************************************************)
NoGhostSubscriber ==
    \A c \in DOMAIN Channels : \A t \in SocketID :
        Occurs(t, Channels[c]) => t \in Sockets

(***************************************************************************)
(* Between two requests of its client a socket's own SubscribedChannels    *)
(* and the adapter's lists agree, however often the client repeated a      *)
(* subscription (websocket.go:585-590, 951-953; namespace.go:227-284).     *)
(***************************************************************************)
TrackedIsSubscribed ==
    \A s \in Sockets :
        proc[Listener(s)].pc \in {"top", "read"} =>
            tracked[s] = {c \in ChannelName : IsInChannel(Channels, s, c)}

(***************************************************************************)
(* The maps of the sockets and of the namespace have their types and agree *)
(* with each other, in both directions (websocket.go:270, 585-590;         *)
(* namespace.go:162-284).                                                  *)
(***************************************************************************)
MapsAgree == TypeOK /\ NoGhostSubscriber /\ TrackedIsSubscribed

Quiet == \A p \in Proc : proc[p].pc \in {"none", "top", "read", "exited"}

Present(c, u) == \E t \in Subscribers(c) : presence[t][c] = u

(***************************************************************************)
(* When nothing is in progress, a user whose last announcement was         *)
(* member_added is still in the channel: the last socket of a user to      *)
(* leave always announces member_removed, in every interleaving of joins   *)
(* and leaves of the user's sockets (websocket.go:911-946).                *)
(***************************************************************************)
NoGhostMember ==
    Quiet => \A c \in PresenceChannel, u \in UserID :
        lastEvent[c][u] = "added" => Present(c, u)

(***************************************************************************)
(* "Notify when this is the first connection to a channel"                 *)
(* (websocket.go:608): every time a channel's list comes into being one    *)
(* subscriber sends channel_occupied, or is about to.                      *)
(***************************************************************************)
OccupiedOnce(c) ==
    crashed \/ debt[c] = Cardinality({p \in Proc :
        /\ proc[p].pc \in {"track", "notify"}
        /\ proc[p].chan = c
        /\ proc[p].edge})

\* Non-presence channels use the count that AddToChannel itself returns.
PlainOccupiedOnce == \A c \in ChannelName \ PresenceChannel : OccupiedOnce(c)

\* Presence channels ask again (channels.go:183), after others may have joined.
PresenceOccupiedOnce == Quiet => \A c \in PresenceChannel : OccupiedOnce(c)

(***************************************************************************)
(* A socket that closeConnection is done with is out of the namespace and  *)
(* stays out, whichever of the goroutines that closed it came first        *)
(* (websocket.go:271-308).                                                 *)
(***************************************************************************)
ClosedIsRemoved ==
    \A s \in Conn : life[s] \in {"shut", "cleaned"} => s \notin Sockets

(***************************************************************************)
(* unsubscribeFromAllChannels "safely gathers channels before              *)
(* unsubscribing to avoid deadlocks" (websocket.go:889): no goroutine      *)
(* closing a socket waits, holding its w.mutex, for the l.mutex of one     *)
(* that is about to read that socket's presence data.                      *)
(***************************************************************************)
NoLockCycle ==
    \A p \in Proc :
        (lockL # NoProc /\ lockW[Sock(p)] = p /\ proc[p].pc = "remove")
            => Sock(p) \notin proc[lockL].scan

(***************************************************************************)
(* A connection whose read failed is taken out of the namespace, whatever  *)
(* the other connections do meanwhile (websocket.go:504-529, 271-308).     *)
(***************************************************************************)
ReadErrorRemoves ==
    \A s \in Conn : (proc[Listener(s)].pc = "copy") ~> (s \notin Sockets)
==============================================================================
