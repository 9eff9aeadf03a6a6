---------------------------- MODULE LocalAdapter ----------------------------
(***************************************************************************)
(* The LocalAdapter (internal/adaptersLocal.go) of one node, for one app,  *)
(* under arbitrary interleavings of the goroutines that call it: socket    *)
(* listeners, closers, API handlers.                                       *)
(*                                                                         *)
(* Every method runs under l.mutex, but updateChannelMetrics gives the     *)
(* mutex up in the middle: a call that changes the maps is three steps,    *)
(* the change, the recount and the write of the gauges.                    *)
(***************************************************************************)
EXTENDS Namespace

CONSTANTS
    Caller,         \* the goroutines that call the adapter
    Identity,       \* [SocketID -> SUBSET UserID]: whom each client signs in as
    MaxOccurs       \* bound: how often one ID is appended to one list

ASSUME CallerAssumption ==
    /\ Identity \in [SocketID -> SUBSET UserID]
    /\ MaxOccurs \in Nat

VARIABLES
    hasNamespace,   \* l.Namespaces[appID] exists
    Channels, Sockets, Users,
    userID,         \* WebSocket.userID of each socket
    created,        \* sockets that serveWs has added: callers hold a pointer
    phase,          \* where each caller is in its call
    counted,        \* what each caller's recount saw
    gauge,          \* the channels the metrics gauges account for
    overlapped,     \* history: the call that began last met another in progress
    formerly        \* history: whom each socket was signed in as before

maps == <<hasNamespace, Channels, Sockets, Users>>
metrics == <<phase, counted, gauge, overlapped>>
vars == <<maps, userID, created, metrics, formerly>>

Phase == {"idle", "recount", "report"}

TypeOK ==
    /\ hasNamespace \in BOOLEAN
    /\ ChannelsType(Channels)
    /\ Sockets \subseteq SocketID
    /\ UsersType(Users)
    /\ userID \in [SocketID -> UserID \cup {NoUser}]
    /\ created \subseteq SocketID
    /\ phase \in [Caller -> Phase]
    /\ counted \in [Caller -> SUBSET ChannelName]
    /\ gauge \subseteq ChannelName
    /\ overlapped \in BOOLEAN
    /\ formerly \in [SocketID -> SUBSET UserID]

Init ==
    /\ hasNamespace = FALSE
    /\ Channels = NoChannels
    /\ Sockets = {}
    /\ Users = NoUsers
    /\ userID = [s \in SocketID |-> NoUser]
    /\ created = {}
    /\ phase = [g \in Caller |-> "idle"]
    /\ counted = [g \in Caller |-> {}]
    /\ gauge = {}
    /\ overlapped = FALSE
    /\ formerly = [s \in SocketID |-> {}]

-----------------------------------------------------------------------------
(***************************************************************************)
(* The three steps of updateChannelMetrics.  All four gauges are functions *)
(* of the set of channels the recount saw.                                 *)
(***************************************************************************)
BeginMetrics(g) ==
    /\ phase' = [phase EXCEPT ![g] = "recount"]
    /\ overlapped' = (\E h \in Caller : phase[h] # "idle")
    /\ UNCHANGED <<counted, gauge>>

Recount(g) ==
    /\ phase[g] = "recount"
    /\ counted' = [counted EXCEPT ![g] = DOMAIN Channels]
    /\ phase' = [phase EXCEPT ![g] = "report"]
    /\ UNCHANGED <<maps, userID, created, gauge, overlapped, formerly>>

ReportGauges(g) ==
    /\ phase[g] = "report"
    /\ gauge' = counted[g]
    /\ phase' = [phase EXCEPT ![g] = "idle"]
    /\ counted' = [counted EXCEPT ![g] = {}]
    /\ UNCHANGED <<maps, userID, created, overlapped, formerly>>

-----------------------------------------------------------------------------
(***************************************************************************)
(* The adapter's methods.  A call that ends without updateChannelMetrics   *)
(* leaves its caller idle.  Duplicate IDs ("socket already exists") and    *)
(* calls for an app without a namespace change nothing.                    *)
(***************************************************************************)
AddSocketToAdapter(g, s) ==
    /\ phase[g] = "idle"
    /\ s \notin created
    /\ created' = created \cup {s}
    /\ hasNamespace' = TRUE
    /\ Sockets' = Sockets \cup {s}
    /\ BeginMetrics(g)
    /\ UNCHANGED <<Channels, Users, userID, formerly>>

RemoveSocketFromAdapter(g, s) ==
    /\ phase[g] = "idle"
    /\ s \in created
    /\ hasNamespace
    /\ Channels' = RemoveSocketChannels(Channels, Sockets, s)
    /\ Users' = RemoveSocketUsers(Users, Sockets, s, userID[s])
    /\ Sockets' = Sockets \ {s}
    /\ BeginMetrics(g)
    /\ UNCHANGED <<hasNamespace, userID, created, formerly>>

Subscribe(g, s, c) ==
    /\ phase[g] = "idle"
    /\ s \in created
    /\ hasNamespace
    /\ ChannelList(Channels, c)[s] < MaxOccurs
    /\ Channels' = AddToChannel(Channels, s, c)
    /\ BeginMetrics(g)
    /\ UNCHANGED <<hasNamespace, Sockets, Users, userID, created, formerly>>

\* Mutant: a method that forgets its trailing updateChannelMetrics.
UnsubscribeNoMetrics(g, s, cs) ==
    /\ phase[g] = "idle"
    /\ s \in created
    /\ hasNamespace
    /\ Channels' = RemoveFromChannel(Channels, s, cs)
    /\ UNCHANGED <<hasNamespace, Sockets, Users, userID, created, metrics, formerly>>

Unsubscribe(g, s, cs) ==
    /\ phase[g] = "idle"
    /\ s \in created
    /\ hasNamespace
    /\ Channels' = RemoveFromChannel(Channels, s, cs)
    /\ BeginMetrics(g)
    /\ UNCHANGED <<hasNamespace, Sockets, Users, userID, created, formerly>>

\* handleUserSignin sets the field first and calls the adapter afterwards.
SetUserID(s, u) ==
    /\ s \in created
    /\ u \in Identity[s]
    /\ userID' = [userID EXCEPT ![s] = u]
    /\ formerly' = [formerly EXCEPT ![s] = @ \cup ({userID[s]} \ {NoUser})]
    /\ UNCHANGED <<maps, created, metrics>>

AddUserToAdapter(g, s) ==
    /\ phase[g] = "idle"
    /\ s \in created
    /\ hasNamespace
    /\ Users' = AddUser(Users, s, userID[s])
    /\ UNCHANGED <<hasNamespace, Channels, Sockets, userID, created, metrics, formerly>>

RemoveUserFromAdapter(g, s) ==
    /\ phase[g] = "idle"
    /\ s \in created
    /\ hasNamespace
    /\ Users' = RemoveUser(Users, s, userID[s])
    /\ UNCHANGED <<hasNamespace, Channels, Sockets, userID, created, metrics, formerly>>

\* Cleanup forgets the user of a socket that closeConnection has removed.
ForgetUser(s) ==
    /\ s \in created \ Sockets
    /\ userID' = [userID EXCEPT ![s] = NoUser]
    /\ UNCHANGED <<maps, created, metrics, formerly>>

\* The background goroutine of createBlankNamespace, every five minutes.
CompactMaps ==
    /\ hasNamespace
    /\ Channels' = CompactChannels(Channels)
    /\ Users' = CompactUsers(Users)
    /\ UNCHANGED <<hasNamespace, Sockets, userID, created, metrics, formerly>>

\* The app keeps a namespace, a blank one; the gauges are not touched.
ClearNamespace(g) ==
    /\ phase[g] = "idle"
    /\ hasNamespace
    /\ Channels' = NoChannels
    /\ Sockets' = {}
    /\ Users' = NoUsers
    /\ UNCHANGED <<hasNamespace, userID, created, metrics, formerly>>

ClearNamespaces(g) ==
    /\ phase[g] = "idle"
    /\ hasNamespace' = FALSE
    /\ Channels' = NoChannels
    /\ Sockets' = {}
    /\ Users' = NoUsers
    /\ UNCHANGED <<userID, created, metrics, formerly>>

Next ==
    \/ \E g \in Caller :
        \/ Recount(g)
        \/ ReportGauges(g)
        \/ ClearNamespace(g)
        \/ ClearNamespaces(g)
        \/ \E s \in SocketID :
            \/ AddSocketToAdapter(g, s)
            \/ RemoveSocketFromAdapter(g, s)
            \/ AddUserToAdapter(g, s)
            \/ RemoveUserFromAdapter(g, s)
            \/ \E c \in ChannelName : Subscribe(g, s, c)
            \/ \E cs \in SUBSET ChannelName : Unsubscribe(g, s, cs)
    \/ \E s \in SocketID :
        \/ ForgetUser(s)
        \/ \E u \in UserID : SetUserID(s, u)
    \/ CompactMaps

Spec == Init /\ [][Next]_vars

-----------------------------------------------------------------------------
(***************************************************************************)
(* No list of the namespace is ever empty while it has a map entry, in any *)
(* interleaving of the adapter's callers, so the make([]SocketID, 0,       *)
(* len(list)-1) of RemoveSocket, RemoveFromChannel and RemoveUser never    *)
(* gets a negative capacity (namespace.go:181, 203, 248, 409) and          *)
(* CompactMaps never drops an entry a reader could see.                    *)
(***************************************************************************)
NoEmptyEntries == NoEmptyChannel(Channels) /\ NoEmptyUser(Users)

(***************************************************************************)
(* The step that takes a socket out of n.Sockets takes every occurrence of *)
(* its ID out of every channel, however often the client subscribed        *)
(* (RemoveSocket, namespace.go:198-220): no later broadcast finds it.      *)
(***************************************************************************)
RemovedFromEveryChannel ==
    [][\A s \in Sockets \ Sockets' : \A c \in ChannelName :
            ~IsInChannel(Channels', s, c)]_vars

(***************************************************************************)
(* What RemoveSocket cleans up of the users (namespace.go:176-190),        *)
(* whatever sign-ins and removals other callers have in between: the       *)
(* socket is out of the list of its user and of everybody it never was.    *)
(* It is not the "complete cleanup" of the comment at 160: under users it  *)
(* was signed in as before (websocket.go:680) it stays listed.             *)
(***************************************************************************)
RemovedFromOwnUser ==
    [][\A s \in Sockets \ Sockets' : \A u \in DOMAIN Users' :
            s \in Users'[u] => u \in formerly[s] \ {userID[s]}]_vars

\* No call is between its change of the maps and its report.
Quiet == \A g \in Caller : phase[g] = "idle"

(***************************************************************************)
(* Calls that overlap may report out of order (adaptersLocal.go:72-74) and *)
(* leave an older count in the gauges.  It does not last: on a node with   *)
(* sockets the next call that has updateChannelMetrics to itself puts the  *)
(* gauges right, and they stay right until calls overlap again.            *)
(***************************************************************************)
GaugesRecover ==
    (Sockets # {} /\ Quiet /\ ~overlapped) => gauge = DOMAIN Channels
==============================================================================
