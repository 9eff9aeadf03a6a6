------------------------- MODULE LocalAdapterProofs -------------------------
(***************************************************************************)
(* The theorems about the LocalAdapter, for any sets of sockets, channels, *)
(* users and callers.                                                      *)
(***************************************************************************)
EXTENDS LocalAdapter, TLAPS

-----------------------------------------------------------------------------
(* What the operators of Namespace do to its maps.                         *)

(***************************************************************************)
(* Appending an ID to a channel keeps the map well formed and adds no      *)
(* empty list.                                                             *)
(***************************************************************************)
LEMMA AddToChannelLemma ==
    ASSUME NEW chs, ChannelsType(chs), NEW s \in SocketID, NEW c \in ChannelName
    PROVE  /\ ChannelsType(AddToChannel(chs, s, c))
           /\ NoEmptyChannel(chs) => NoEmptyChannel(AddToChannel(chs, s, c))
<1> DEFINE new == AddToChannel(chs, s, c)
<1>1. DOMAIN new = DOMAIN chs \cup {c}
  BY DEF AddToChannel
<1>2. ChannelList(chs, c) \in [SocketID -> Nat]
  BY DEF ChannelList, ChannelsType, EmptyList
<1>3. /\ new[c] \in [SocketID -> Nat]
      /\ new[c][s] > 0
  BY <1>2 DEF AddToChannel, Append1
<1>4. \A d \in DOMAIN chs \ {c} : new[d] = chs[d]
  BY DEF AddToChannel
<1>5. ChannelsType(new)
  <2>1. new = [d \in DOMAIN new |-> new[d]]
    BY DEF AddToChannel
  <2> QED
    BY <1>1, <1>3, <1>4, <2>1 DEF ChannelsType
<1>6. NoEmptyChannel(chs) => NoEmptyChannel(new)
  BY <1>1, <1>3, <1>4 DEF NoEmptyChannel, ListIsEmpty, Occurs
<1> QED
  BY <1>5, <1>6

(***************************************************************************)
(* Dropping an ID from some channels keeps the map well formed, leaves no  *)
(* list empty and leaves the ID in none of those channels.                 *)
(***************************************************************************)
LEMMA DropFromChannelsLemma ==
    ASSUME NEW chs, ChannelsType(chs), NEW s \in SocketID, NEW cs
    PROVE  LET new == DropFromChannels(chs, s, cs)
           IN  /\ ChannelsType(new)
               /\ NoEmptyChannel(chs) => NoEmptyChannel(new)
               /\ \A c \in cs : ~IsInChannel(new, s, c)
<1> DEFINE new == DropFromChannels(chs, s, cs)
<1>1. DOMAIN new = {d \in DOMAIN chs : d \in cs => ~ListIsEmpty(Without(chs[d], s))}
  BY DEF DropFromChannels
<1>2. \A c \in DOMAIN new : new[c] = IF c \in cs THEN Without(chs[c], s) ELSE chs[c]
  BY DEF DropFromChannels
<1>3. \A c \in DOMAIN chs : /\ Without(chs[c], s) \in [SocketID -> Nat]
                            /\ ~Occurs(s, Without(chs[c], s))
  BY DEF ChannelsType, Without, Occurs
<1>4. ChannelsType(new)
  <2>1. new = [d \in DOMAIN new |-> new[d]]
    BY DEF DropFromChannels
  <2> QED
    BY <1>1, <1>2, <1>3, <2>1 DEF ChannelsType
<1>5. NoEmptyChannel(chs) => NoEmptyChannel(new)
  BY <1>1, <1>2 DEF NoEmptyChannel
<1>6. \A c \in cs : ~IsInChannel(new, s, c)
  BY <1>1, <1>2, <1>3 DEF IsInChannel
<1> QED
  BY <1>4, <1>5, <1>6

(***************************************************************************)
(* AddUser and RemoveUser keep the user map well formed and without empty  *)
(* lists; RemoveUser leaves the ID out of the user's list.                 *)
(***************************************************************************)
LEMMA UserMapLemma ==
    ASSUME NEW users, UsersType(users), NEW s \in SocketID,
           NEW u \in UserID \cup {NoUser}
    PROVE  /\ UsersType(AddUser(users, s, u))
           /\ UsersType(RemoveUser(users, s, u))
           /\ NoEmptyUser(users) => NoEmptyUser(AddUser(users, s, u))
           /\ NoEmptyUser(users) => NoEmptyUser(RemoveUser(users, s, u))
<1>1. UsersType(AddUser(users, s, u))
  BY DEF UsersType, AddUser
<1>2. UsersType(RemoveUser(users, s, u))
  BY DEF UsersType, RemoveUser
<1>3. NoEmptyUser(users) => NoEmptyUser(AddUser(users, s, u))
  BY DEF NoEmptyUser, AddUser
<1>4. NoEmptyUser(users) => NoEmptyUser(RemoveUser(users, s, u))
  BY DEF NoEmptyUser, RemoveUser
<1> QED
  BY <1>1, <1>2, <1>3, <1>4

(***************************************************************************)
(* CompactMaps keeps both maps well formed and never leaves an empty list. *)
(***************************************************************************)
LEMMA CompactLemma ==
    ASSUME NEW chs, ChannelsType(chs), NEW users, UsersType(users)
    PROVE  /\ ChannelsType(CompactChannels(chs))
           /\ NoEmptyChannel(CompactChannels(chs))
           /\ UsersType(CompactUsers(users))
           /\ NoEmptyUser(CompactUsers(users))
<1>1. ChannelsType(CompactChannels(chs)) /\ NoEmptyChannel(CompactChannels(chs))
  BY DEF ChannelsType, CompactChannels, NoEmptyChannel
<1>2. UsersType(CompactUsers(users)) /\ NoEmptyUser(CompactUsers(users))
  BY DEF UsersType, CompactUsers, NoEmptyUser
<1> QED
  BY <1>1, <1>2

\* A fresh namespace has well-formed maps and no list at all.
LEMMA BlankLemma ==
    /\ ChannelsType(NoChannels) /\ NoEmptyChannel(NoChannels)
    /\ UsersType(NoUsers) /\ NoEmptyUser(NoUsers)
BY DEF ChannelsType, NoChannels, NoEmptyChannel, UsersType, NoUsers, NoEmptyUser

-----------------------------------------------------------------------------
(***************************************************************************)
(* The two maps together: what one step of the adapter does to them.  The  *)
(* maps change only through the operators of Namespace.                    *)
(***************************************************************************)
MapsInv ==
    /\ ChannelsType(Channels)
    /\ UsersType(Users)
    /\ NoEmptyEntries

\* Every step of the adapter keeps the maps well formed and without empty lists.
LEMMA MapsStep ==
    ASSUME TypeOK, NoEmptyEntries, [Next]_vars
    PROVE  MapsInv'
<1> USE DEF NoEmptyEntries
<1>1. MapsInv
  BY DEF MapsInv, TypeOK
<1>2. \A s \in SocketID : userID[s] \in UserID \cup {NoUser}
  BY DEF TypeOK
<1>3. CASE UNCHANGED <<Channels, Users>>
  BY <1>1, <1>3 DEF MapsInv, NoEmptyChannel, NoEmptyUser, ChannelsType, UsersType
<1>4. ASSUME NEW g \in Caller, NEW s \in SocketID, RemoveSocketFromAdapter(g, s)
      PROVE  MapsInv'
  <2>1. /\ Channels' = Channels \/ Channels' = DropFromChannels(Channels, s, DOMAIN Channels)
        /\ Users' = Users \/ Users' = RemoveUser(Users, s, userID[s])
    BY <1>4 DEF RemoveSocketFromAdapter, RemoveSocketChannels, RemoveSocketUsers
  <2>2. ChannelsType(Channels') /\ NoEmptyChannel(Channels')
    BY <1>1, <2>1, DropFromChannelsLemma DEF MapsInv
  <2>3. UsersType(Users') /\ NoEmptyUser(Users')
    BY <1>1, <1>2, <2>1, UserMapLemma DEF MapsInv
  <2> QED
    BY <2>2, <2>3 DEF MapsInv
<1>5. ASSUME NEW g \in Caller, NEW s \in SocketID,
             AddUserToAdapter(g, s) \/ RemoveUserFromAdapter(g, s)
      PROVE  MapsInv'
  BY <1>1, <1>2, <1>5, UserMapLemma
  DEF MapsInv, AddUserToAdapter, RemoveUserFromAdapter
<1>6. ASSUME NEW g \in Caller, NEW s \in SocketID, NEW c \in ChannelName, Subscribe(g, s, c)
      PROVE  MapsInv'
  BY <1>1, <1>6, AddToChannelLemma DEF MapsInv, Subscribe
<1>7. ASSUME NEW g \in Caller, NEW s \in SocketID, NEW cs \in SUBSET ChannelName,
             Unsubscribe(g, s, cs)
      PROVE  MapsInv'
  BY <1>1, <1>7, DropFromChannelsLemma DEF MapsInv, Unsubscribe, RemoveFromChannel
<1>8. CASE CompactMaps
  BY <1>1, <1>8, CompactLemma DEF MapsInv, CompactMaps
<1>9. ASSUME NEW g \in Caller, ClearNamespace(g) \/ ClearNamespaces(g)
      PROVE  MapsInv'
  BY <1>9, BlankLemma DEF MapsInv, ClearNamespace, ClearNamespaces
<1> QED
  BY <1>3, <1>4, <1>5, <1>6, <1>7, <1>8, <1>9
  DEF Next, vars, maps, metrics, Recount, ReportGauges, AddSocketToAdapter, ForgetUser, SetUserID

\* The types of the variables other than the two maps.
LEMMA OtherTypesStep ==
    ASSUME TypeOK, [Next]_vars
    PROVE  /\ hasNamespace' \in BOOLEAN
           /\ Sockets' \subseteq SocketID
           /\ userID' \in [SocketID -> UserID \cup {NoUser}]
           /\ created' \subseteq SocketID
           /\ phase' \in [Caller -> Phase]
           /\ counted' \in [Caller -> SUBSET ChannelName]
           /\ gauge' \subseteq ChannelName
           /\ overlapped' \in BOOLEAN
           /\ formerly' \in [SocketID -> SUBSET UserID]
<1> USE DEF TypeOK, Phase, metrics
<1>1. CASE UNCHANGED vars
  BY <1>1 DEF vars, maps, metrics
<1>2. ASSUME NEW g \in Caller, Recount(g) \/ ReportGauges(g)
      PROVE  /\ phase' \in [Caller -> Phase]
             /\ counted' \in [Caller -> SUBSET ChannelName]
             /\ gauge' \subseteq ChannelName
  BY <1>2 DEF Recount, ReportGauges, ChannelsType
<1>3. CASE \E g \in Caller : Recount(g) \/ ReportGauges(g)
  BY <1>2, <1>3 DEF Recount, ReportGauges, maps
<1>4. CASE \E g \in Caller : ClearNamespace(g) \/ ClearNamespaces(g)
  BY <1>4 DEF ClearNamespace, ClearNamespaces
<1>5. CASE \E g \in Caller, s \in SocketID :
             \/ AddSocketToAdapter(g, s)
             \/ RemoveSocketFromAdapter(g, s)
             \/ AddUserToAdapter(g, s)
             \/ RemoveUserFromAdapter(g, s)
             \/ \E c \in ChannelName : Subscribe(g, s, c)
             \/ \E cs \in SUBSET ChannelName : Unsubscribe(g, s, cs)
  BY <1>5 DEF AddSocketToAdapter, RemoveSocketFromAdapter, AddUserToAdapter,
              RemoveUserFromAdapter, Subscribe, Unsubscribe, BeginMetrics
<1>6. CASE \E s \in SocketID : ForgetUser(s) \/ \E u \in UserID : SetUserID(s, u)
  BY <1>6 DEF ForgetUser, SetUserID, maps
<1>7. CASE CompactMaps
  BY <1>7 DEF CompactMaps
<1> QED
  BY <1>1, <1>3, <1>4, <1>5, <1>6, <1>7 DEF Next

-----------------------------------------------------------------------------
\* The inductive invariant of the maps.
Inv == TypeOK /\ NoEmptyEntries

(***************************************************************************)
(* In every interleaving of the callers the variables keep their types and *)
(* no map entry ever holds an empty list.                                  *)
(***************************************************************************)
THEOREM InvHolds == Spec => []Inv
<1>1. Init => Inv
  BY BlankLemma DEF Init, Inv, TypeOK, NoEmptyEntries, Phase
<1>2. Inv /\ [Next]_vars => Inv'
  <2> SUFFICES ASSUME TypeOK, NoEmptyEntries, [Next]_vars
               PROVE  TypeOK' /\ NoEmptyEntries'
    BY DEF Inv
  <2>1. MapsInv'
    BY MapsStep
  <2> QED
    BY <2>1, OtherTypesStep DEF MapsInv, TypeOK
<1> QED
  BY <1>1, <1>2, PTL DEF Spec

(***************************************************************************)
(* The types alone: no list of the namespace ever holds a foreign ID or a  *)
(* negative count, and no list exists for the empty user ID                *)
(* (namespace.go:377-393).                                                 *)
(***************************************************************************)
THEOREM TypeOKHolds == Spec => []TypeOK
BY InvHolds, PTL DEF Inv

(***************************************************************************)
(* RemoveSocket, RemoveFromChannel and RemoveUser never meet an empty list *)
(* (namespace.go:181, 203, 248, 409).                                      *)
(***************************************************************************)
THEOREM NoEmptyEntriesHolds == Spec => []NoEmptyEntries
BY InvHolds, PTL DEF Inv

(***************************************************************************)
(* A socket that leaves n.Sockets leaves every channel in the same step    *)
(* (namespace.go:198-220), for any number of repeated subscriptions.       *)
(***************************************************************************)
THEOREM RemovedFromEveryChannelHolds == Spec => RemovedFromEveryChannel
<1> DEFINE Gone == \A s \in Sockets \ Sockets' : \A c \in ChannelName :
                        ~IsInChannel(Channels', s, c)
<1>1. Inv /\ [Next]_vars => [Gone]_vars
  <2> SUFFICES ASSUME TypeOK, [Next]_vars,
                      NEW s \in Sockets \ Sockets', NEW c \in ChannelName
               PROVE  ~IsInChannel(Channels', s, c)
    BY DEF Inv
  <2>1. s \in SocketID
    BY DEF TypeOK
  <2>2. ASSUME NEW g \in Caller, NEW t \in SocketID, RemoveSocketFromAdapter(g, t)
        PROVE  ~IsInChannel(Channels', s, c)
    <3>1. t = s
      BY <2>2 DEF RemoveSocketFromAdapter
    <3>2. Channels' = DropFromChannels(Channels, s, DOMAIN Channels)
      BY <2>2, <3>1 DEF RemoveSocketFromAdapter, RemoveSocketChannels
    <3>3. \A d \in DOMAIN Channels : ~IsInChannel(Channels', s, d)
      BY <2>1, <3>2, DropFromChannelsLemma DEF TypeOK
    <3>4. DOMAIN Channels' \subseteq DOMAIN Channels
      BY <3>2 DEF DropFromChannels
    <3> QED
      BY <3>3, <3>4 DEF IsInChannel
  <2>3. ASSUME NEW g \in Caller, ClearNamespace(g) \/ ClearNamespaces(g)
        PROVE  ~IsInChannel(Channels', s, c)
    BY <2>3 DEF ClearNamespace, ClearNamespaces, NoChannels, IsInChannel
  <2> QED
    BY <2>2, <2>3 DEF Next, vars, maps, metrics, Recount, ReportGauges, AddSocketToAdapter,
       AddUserToAdapter, RemoveUserFromAdapter, Subscribe, Unsubscribe, ForgetUser,
       SetUserID, CompactMaps
<1> QED
  BY <1>1, InvHolds, PTL DEF Spec, RemovedFromEveryChannel

-----------------------------------------------------------------------------
(***************************************************************************)
(* A socket is listed under its user or under one it was signed in as      *)
(* before: sign-in writes the field first and the adapter is called for    *)
(* whatever the field holds by then.                                       *)
(***************************************************************************)
ListedUnderOwnUsers ==
    /\ \A s \in Sockets : \A u \in DOMAIN Users :
            s \in Users[u] => u \in formerly[s] \cup {userID[s]}
    /\ \A u \in DOMAIN Users : Users[u] \subseteq created
    /\ Sockets \subseteq created

\* Every step keeps it.
LEMMA ListedStep ==
    ASSUME Inv, ListedUnderOwnUsers, [Next]_vars
    PROVE  ListedUnderOwnUsers'
<1>0. /\ Users = [u \in DOMAIN Users |-> Users[u]] /\ DOMAIN Users \subseteq UserID
      /\ userID \in [SocketID -> UserID \cup {NoUser}] /\ Sockets \subseteq SocketID
      /\ formerly \in [SocketID -> SUBSET UserID] /\ NoUser \notin UserID
  BY NoUserAssumption DEF Inv, TypeOK, UsersType
<1> USE DEF ListedUnderOwnUsers
<1>1. ASSUME NEW g \in Caller, Recount(g) \/ ReportGauges(g)
      PROVE  ListedUnderOwnUsers'
  BY <1>1 DEF Recount, ReportGauges, maps
<1>2. ASSUME NEW g \in Caller, ClearNamespace(g) \/ ClearNamespaces(g)
      PROVE  ListedUnderOwnUsers'
  BY <1>2 DEF ClearNamespace, ClearNamespaces, NoUsers
<1>3. ASSUME NEW g \in Caller, NEW s \in SocketID, AddSocketToAdapter(g, s)
      PROVE  ListedUnderOwnUsers'
  BY <1>3 DEF AddSocketToAdapter
<1>4. ASSUME NEW g \in Caller, NEW s \in SocketID,
             RemoveSocketFromAdapter(g, s) \/ RemoveUserFromAdapter(g, s)
      PROVE  ListedUnderOwnUsers'
  <2>1. \A u \in DOMAIN Users' : u \in DOMAIN Users /\ Users'[u] \subseteq Users[u]
    BY <1>4 DEF RemoveSocketFromAdapter, RemoveUserFromAdapter, RemoveSocketUsers, RemoveUser
  <2>2. /\ Sockets' \subseteq Sockets /\ userID' = userID /\ created' = created
        /\ formerly' = formerly
    BY <1>4 DEF RemoveSocketFromAdapter, RemoveUserFromAdapter
  <2> QED
    BY <2>1, <2>2
<1>5. ASSUME NEW g \in Caller, NEW s \in SocketID, AddUserToAdapter(g, s)
      PROVE  ListedUnderOwnUsers'
  <2>1. /\ Sockets' = Sockets /\ userID' = userID /\ created' = created /\ s \in created
        /\ formerly' = formerly
    BY <1>5 DEF AddUserToAdapter
  <2>2. \A u \in DOMAIN Users' : \A t \in Users'[u] :
            \/ t = s /\ u = userID[s]
            \/ u \in DOMAIN Users /\ t \in Users[u]
    BY <1>5 DEF AddUserToAdapter, AddUser
  <2> QED
    BY <2>1, <2>2
<1>6. ASSUME NEW g \in Caller, NEW s \in SocketID,
             \/ \E c \in ChannelName : Subscribe(g, s, c)
             \/ \E cs \in SUBSET ChannelName : Unsubscribe(g, s, cs)
      PROVE  ListedUnderOwnUsers'
  BY <1>6 DEF Subscribe, Unsubscribe
<1>7. ASSUME NEW s \in SocketID, ForgetUser(s)
      PROVE  ListedUnderOwnUsers'
  BY <1>0, <1>7 DEF ForgetUser, maps
<1>8. ASSUME NEW s \in SocketID, NEW u \in UserID, SetUserID(s, u)
      PROVE  ListedUnderOwnUsers'
  <2>1. /\ Sockets' = Sockets /\ Users' = Users /\ created' = created
        /\ formerly'[s] = formerly[s] \cup ({userID[s]} \ {NoUser})
        /\ \A t \in SocketID \ {s} : userID'[t] = userID[t] /\ formerly'[t] = formerly[t]
    BY <1>0, <1>8 DEF SetUserID, maps
  <2>2. \A v \in DOMAIN Users : s \in Sockets /\ s \in Users[v] => v \in formerly'[s]
    BY <1>0, <2>1
  <2> QED
    BY <1>0, <2>1, <2>2
<1>9. CASE CompactMaps
  BY <1>9 DEF CompactMaps, CompactUsers
<1>10. CASE UNCHANGED vars
  BY <1>10 DEF vars, maps
<1> QED
  BY <1>1, <1>2, <1>3, <1>4, <1>5, <1>6, <1>7, <1>8, <1>9, <1>10 DEF Next

(***************************************************************************)
(* The step that takes a socket out of n.Sockets takes it out of the list  *)
(* of its user; its ID stays at most under users it was signed in as       *)
(* before, for any number of sign-ins and callers (namespace.go:176-190).  *)
(***************************************************************************)
THEOREM RemovedFromOwnUserHolds == Spec => RemovedFromOwnUser
<1> DEFINE Gone == \A s \in Sockets \ Sockets' : \A u \in DOMAIN Users' :
                        s \in Users'[u] => u \in formerly[s] \ {userID[s]}
<1>1. Init => ListedUnderOwnUsers
  BY DEF Init, ListedUnderOwnUsers, NoUsers
<1>2. Inv /\ ListedUnderOwnUsers /\ [Next]_vars => ListedUnderOwnUsers'
  BY ListedStep
<1>3. Inv /\ ListedUnderOwnUsers /\ [Next]_vars => [Gone]_vars
  <2> SUFFICES ASSUME Inv, ListedUnderOwnUsers, [Next]_vars,
                      NEW s \in Sockets \ Sockets', NEW u \in DOMAIN Users', s \in Users'[u]
               PROVE  u \in formerly[s] \ {userID[s]}
    OBVIOUS
  <2>1. ASSUME NEW g \in Caller, NEW t \in SocketID, RemoveSocketFromAdapter(g, t)
        PROVE  u \in formerly[s] \ {userID[s]}
    <3>1. t = s /\ Users' = RemoveUser(Users, s, userID[s])
      BY <2>1 DEF RemoveSocketFromAdapter, RemoveSocketUsers
    <3>2. u \in DOMAIN Users /\ Users'[u] = IF u = userID[s] THEN Users[u] \ {s} ELSE Users[u]
      BY <3>1 DEF RemoveUser
    <3> QED
      BY <3>2 DEF ListedUnderOwnUsers
  <2>2. ASSUME NEW g \in Caller, ClearNamespace(g) \/ ClearNamespaces(g)
        PROVE  u \in formerly[s] \ {userID[s]}
    BY <2>2 DEF ClearNamespace, ClearNamespaces, NoUsers
  <2> QED
    BY <2>1, <2>2 DEF Next, vars, maps, metrics, Recount, ReportGauges, AddSocketToAdapter,
       AddUserToAdapter, RemoveUserFromAdapter, Subscribe, Unsubscribe, ForgetUser,
       SetUserID, CompactMaps
<1> QED
  BY <1>1, <1>2, <1>3, InvHolds, PTL DEF Spec, RemovedFromOwnUser

-----------------------------------------------------------------------------
(***************************************************************************)
(* While the call that began last is alone, it is the only one in          *)
(* progress, and a recount it is about to report saw the channels that     *)
(* exist.                                                                  *)
(***************************************************************************)
GaugeInv ==
    ~overlapped =>
        /\ \A g, h \in Caller : phase[g] # "idle" /\ phase[h] # "idle" => g = h
        /\ (Sockets # {} /\ Quiet) => gauge = DOMAIN Channels
        /\ \A g \in Caller :
                (Sockets # {} /\ phase[g] = "report") => counted[g] = DOMAIN Channels

\* Every step keeps it; compaction finds nothing to drop.
LEMMA GaugeStep ==
    ASSUME Inv, GaugeInv, [Next]_vars
    PROVE  GaugeInv'
<1>0. phase \in [Caller -> Phase] /\ counted \in [Caller -> SUBSET ChannelName]
  BY DEF Inv, TypeOK
<1> USE DEF GaugeInv, Quiet
<1>1. ASSUME NEW g \in Caller, Recount(g)
      PROVE  GaugeInv'
  BY <1>0, <1>1 DEF Recount, maps
<1>2. ASSUME NEW g \in Caller, ReportGauges(g)
      PROVE  GaugeInv'
  BY <1>0, <1>2 DEF ReportGauges, maps
<1>3. ASSUME NEW g \in Caller, ClearNamespace(g) \/ ClearNamespaces(g)
      PROVE  GaugeInv'
  BY <1>0, <1>3 DEF ClearNamespace, ClearNamespaces, metrics
<1>4. ASSUME NEW g \in Caller, phase[g] = "idle", BeginMetrics(g)
      PROVE  GaugeInv'
  BY <1>0, <1>4 DEF BeginMetrics
<1>5. CASE UNCHANGED <<Channels, Sockets, metrics>>
  BY <1>5 DEF metrics
<1>6. CASE CompactMaps
  <2>1. DOMAIN CompactChannels(Channels) = DOMAIN Channels
    BY DEF CompactChannels, Inv, NoEmptyEntries, NoEmptyChannel
  <2> QED
    BY <1>6, <2>1 DEF CompactMaps, metrics
<1> QED
  BY <1>1, <1>2, <1>3, <1>4, <1>5, <1>6
  DEF Next, vars, maps, AddSocketToAdapter, RemoveSocketFromAdapter, AddUserToAdapter,
      RemoveUserFromAdapter, Subscribe, Unsubscribe, ForgetUser, SetUserID

(***************************************************************************)
(* For any number of callers: once a call has had updateChannelMetrics to  *)
(* itself, the gauges account for exactly the channels that exist,         *)
(* whatever overlapping calls reported before (adaptersLocal.go:67-97).    *)
(***************************************************************************)
THEOREM GaugesRecoverHolds == Spec => []GaugesRecover
<1>1. Init => GaugeInv
  BY DEF Init, GaugeInv
<1>2. Inv /\ GaugeInv /\ [Next]_vars => GaugeInv'
  BY GaugeStep
<1>3. GaugeInv => GaugesRecover
  BY DEF GaugeInv, GaugesRecover
<1> QED
  BY <1>1, <1>2, <1>3, InvHolds, PTL DEF Spec
==============================================================================
