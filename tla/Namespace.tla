------------------------------ MODULE Namespace ------------------------------
(***************************************************************************)
(* The maps of one app's Namespace (internal/namespace.go) and what its    *)
(* methods do to them.  Every method runs under n.mutex, so each is one    *)
(* operator from old map to new map; the modules that own the maps call    *)
(* them in one step.                                                       *)
(*                                                                         *)
(*   Channels  channel -> list of socket IDs.  No code depends on the      *)
(*             order of a list but appends may repeat an ID, so a list is  *)
(*             the number of times each ID occurs in it.  A channel        *)
(*             without a map entry is outside DOMAIN Channels: an entry    *)
(*             with an empty list is a different state.                    *)
(*   Users     user -> list of socket IDs; AddUser never repeats an ID,    *)
(*             so a list is a set.                                         *)
(*   Sockets   the IDs with an entry in n.Sockets.                         *)
(***************************************************************************)
EXTENDS Integers, FiniteSets

CONSTANTS
    SocketID,       \* the IDs sockets are given
    ChannelName,    \* the channel names clients use
    UserID,         \* the user IDs clients sign in or join with
    NoUser          \* WebSocket.userID = ""

ASSUME NoUserAssumption == NoUser \notin UserID

ASSUME FiniteAssumption == IsFiniteSet(SocketID)

(***************************************************************************)
(* Lists of socket IDs.                                                    *)
(***************************************************************************)
EmptyList == [s \in SocketID |-> 0]

Occurs(s, list) == list[s] > 0

ListIsEmpty(list) == \A s \in SocketID : ~Occurs(s, list)

\* A place for every occurrence of every ID.
Places(list) == UNION {{s} \X (1..list[s]) : s \in SocketID}

ListLen(list) == Cardinality(Places(list))

Append1(list, s) == [list EXCEPT ![s] = @ + 1]

\* Mutant: an in-place removal that stops at the first match.
WithoutFirst(list, s) == [list EXCEPT ![s] = IF @ > 0 THEN @ - 1 ELSE 0]

\* The copy loops "if id != wsID" drop every occurrence of the ID.
Without(list, s) == [list EXCEPT ![s] = 0]

(***************************************************************************)
(* The types of the three maps.                                            *)
(***************************************************************************)
ChannelsType(chs) ==
    /\ DOMAIN chs \subseteq ChannelName
    /\ chs = [c \in DOMAIN chs |-> chs[c]]
    /\ \A c \in DOMAIN chs : chs[c] \in [SocketID -> Nat]

UsersType(users) ==
    /\ DOMAIN users \subseteq UserID
    /\ users = [u \in DOMAIN users |-> users[u]]
    /\ \A u \in DOMAIN users : users[u] \subseteq SocketID

NoChannels == [c \in {} |-> EmptyList]
NoUsers == [u \in {} |-> {}]

(***************************************************************************)
(* Reading the maps.                                                       *)
(***************************************************************************)
ChannelList(chs, c) == IF c \in DOMAIN chs THEN chs[c] ELSE EmptyList

\* GetChannelSockets: the subscribers that still have a socket.
GetChannelSockets(chs, socks, c) ==
    {s \in socks : c \in DOMAIN chs /\ Occurs(s, chs[c])}

IsInChannel(chs, s, c) == c \in DOMAIN chs /\ Occurs(s, chs[c])

GetUserSockets(users, socks, u) ==
    {s \in socks : u \in DOMAIN users /\ s \in users[u]}

GetChannelsWithSocketsCount(chs) == [c \in DOMAIN chs |-> ListLen(chs[c])]

(***************************************************************************)
(* Changing the maps.                                                      *)
(***************************************************************************)
AddToChannel(chs, s, c) ==
    [d \in DOMAIN chs \cup {c} |->
        IF d = c THEN Append1(ChannelList(chs, c), s) ELSE chs[d]]

\* The number AddToChannel returns: the length of the list it appended to.
AddToChannelCount(chs, s, c) == ListLen(AddToChannel(chs, s, c)[c])

\* Mutant: the emptied list keeps its map entry.
DropKeepingEmpty(chs, s, cs) ==
    [c \in DOMAIN chs |-> IF c \in cs THEN Without(chs[c], s) ELSE chs[c]]

\* Mutant: a list that would become empty is skipped.
DropUnlessLast(chs, s, cs) ==
    [c \in DOMAIN chs |->
        IF c \in cs /\ ~ListIsEmpty(Without(chs[c], s)) THEN Without(chs[c], s) ELSE chs[c]]

\* Drop s from the lists of the channels cs and delete the lists that empties.
DropFromChannels(chs, s, cs) ==
    LET survives(c) == c \in cs => ~ListIsEmpty(Without(chs[c], s))
    IN  [c \in {d \in DOMAIN chs : survives(d)} |->
            IF c \in cs THEN Without(chs[c], s) ELSE chs[c]]

RemoveFromChannel(chs, s, cs) == DropFromChannels(chs, s, cs)

\* What RemoveFromChannel returns: a count for a single channel only.
RemoveFromChannelCount(chs, s, cs) ==
    IF Cardinality(cs) # 1 THEN 0
    ELSE LET c == CHOOSE c \in cs : TRUE
         IN  ListLen(ChannelList(RemoveFromChannel(chs, s, cs), c))

\* Mutant: the early return for a socket without a user is missing.
AddUserUnchecked(users, s, u) ==
    [v \in DOMAIN users \cup {u} |->
        IF v # u THEN users[v]
        ELSE (IF u \in DOMAIN users THEN users[u] ELSE {}) \cup {s}]

AddUser(users, s, u) ==
    IF u = NoUser THEN users
    ELSE [v \in DOMAIN users \cup {u} |->
            IF v # u THEN users[v]
            ELSE (IF u \in DOMAIN users THEN users[u] ELSE {}) \cup {s}]

\* A NoUser is in no map, so the test for "" needs no case of its own.
RemoveUser(users, s, u) ==
    [v \in {w \in DOMAIN users : w = u => users[w] \ {s} # {}} |->
        IF v = u THEN users[v] \ {s} ELSE users[v]]

(***************************************************************************)
(* RemoveSocket returns early when the socket has no entry.  It takes the  *)
(* ID out of the list of the user the socket has now, u, and out of every  *)
(* channel.                                                                *)
(***************************************************************************)
RemoveSocketChannels(chs, socks, s) ==
    IF s \notin socks THEN chs ELSE DropFromChannels(chs, s, DOMAIN chs)

\* Mutant: the user's list is left to a RemoveUser that may come or not.
RemoveSocketUsersLater(users, socks, s, u) == users

RemoveSocketUsers(users, socks, s, u) ==
    IF s \notin socks THEN users ELSE RemoveUser(users, s, u)

\* CompactMaps copies the non-empty lists into fresh maps.
CompactChannels(chs) ==
    [c \in {d \in DOMAIN chs : ~ListIsEmpty(chs[d])} |-> chs[c]]

CompactUsers(users) == [u \in {v \in DOMAIN users : users[v] # {}} |-> users[u]]

(***************************************************************************)
(* No map entry holds an empty list.  RemoveSocket, RemoveFromChannel and  *)
(* RemoveUser allocate make([]SocketID, 0, len(list)-1) for each list they *)
(* visit, which panics for an empty one; RemoveSocket visits every channel *)
(* of the app.                                                             *)
(***************************************************************************)
NoEmptyChannel(chs) == \A c \in DOMAIN chs : ~ListIsEmpty(chs[c])
NoEmptyUser(users) == \A u \in DOMAIN users : users[u] # {}
==============================================================================
