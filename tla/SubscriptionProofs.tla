------------------------- MODULE SubscriptionProofs --------------------------
(***************************************************************************)
(* Subscribing, leaving and closing for any number of connections,         *)
(* channels and requests.  Without further assumptions: a closed socket is *)
(* out of the namespace, and a plain channel is announced as occupied once *)
(* each time it is.  For sockets that no goroutine but their listener      *)
(* closes: the maps agree, no two goroutines wait for each other, and no   *)
(* user stays announced in a presence channel that all its sockets left.   *)
(***************************************************************************)
EXTENDS Subscription, FiniteSetTheorems, TLAPS

-----------------------------------------------------------------------------
(* Whatever closes a socket: who holds which mutex, and what is removed.   *)

\* A mutex is held between its Lock and its Unlock, by one goroutine.
LockRule ==
    \A p \in Proc :
        /\ lockW[Sock(p)] = p <=> proc[p].pc \in {"remove", "hangup", "cleanup"}
        /\ lockL = p <=> proc[p].pc \in {"scan", "lscan"}

\* No goroutine works for a socket that has not connected.
Unborn ==
    \A s \in Conn : life[s] = "new" =>
        s \notin Sockets /\ proc[Listener(s)].pc = "none" /\ proc[Closer(s)].pc = "none"

\* A closer that is past RemoveSocket, and the state it leaves, come with the
\* socket out of the namespace.
OutOfAdapter ==
    /\ \A p \in Proc : proc[p].pc \in {"hangup", "cleanup"} => Sock(p) \notin Sockets
    /\ \A s \in Conn : life[s] \in {"hungup", "hungupFailed", "shut", "cleaned"} => s \notin Sockets

\* The inductive invariant of every configuration.
CloseInv == TypeOK /\ LockRule /\ Unborn /\ OutOfAdapter

-----------------------------------------------------------------------------
(* Sockets that only their own listeners close.                            *)

\* Where a listener is between two requests or in a subscribe, ...
Serving == {"top", "read", "count", "counting", "join", "notify", "members", "scan", "setdata",
            "announce", "copy"}

\* ... in a subscribe between AddToChannel and the entry in SubscribedChannels,
Joined == {"recount", "track"}

\* ... and in an unsubscribe past RemoveFromChannel.
Left == {"remaining", "member", "forget", "stayers", "lscan", "depart", "vacate", "untrack"}

\* No other goroutine closes a socket, and the listener that does so works on
\* while its fields are there.
ListenerCloses(s) ==
    LET q == proc[Listener(s)]
    IN  /\ proc[Closer(s)].pc = "none"
        /\ life[s] \in {"hungup", "hungupFailed"} => q.pc = "cleanup"
        /\ life[s] \in {"shut", "cleaned"} => q.pc = "exited"
        /\ q.pc \notin {"none", "hangup", "cleanup", "exited"} => s \in Sockets

\* closing is set from the copy of the channels to the end of the loop.
ClosingFlag(s) ==
    LET q == proc[Listener(s)]
    IN  /\ q.pc = "unsubscribe" => q.closing
        /\ q.pc \notin Left \cup {"unsubscribe", "leave"} => ~q.closing

\* The channels that a listener with locals q and the map tr will take its
\* socket out of.
KeptOf(q, tr) ==
    CASE q.pc \in Joined -> tr \cup {q.chan}
      [] q.pc = "leave" -> IF q.closing THEN q.todo \cup {q.chan} ELSE tr
      [] q.pc \in Left -> IF q.closing THEN q.todo ELSE tr \ {q.chan}
      [] q.pc = "unsubscribe" -> q.todo
      [] q.pc \in {"lock", "remove", "hangup", "cleanup"} -> {}
      [] OTHER -> tr

Kept(s) == KeptOf(proc[Listener(s)], tracked[s])

\* They include all that the socket is in.
Covered(s) == \A c \in ChannelName : IsInChannel(Channels, s, c) => c \in Kept(s)

\* A scan, which holds l.mutex, is over sockets that are in the channel.
ScanIsFresh ==
    \A p \in Proc : proc[p].pc \in {"scan", "lscan"} =>
        \A t \in proc[p].scan : IsInChannel(Channels, t, proc[p].chan)

\* A listener and its socket.
Own(s) == ListenerCloses(s) /\ ClosingFlag(s) /\ Covered(s)

\* The inductive invariant of sockets that only their listeners close.
OwnCloseInv == CloseInv /\ (\A s \in Conn : Own(s)) /\ NoGhostSubscriber /\ ScanIsFresh

-----------------------------------------------------------------------------
(* ... and whose clients have a user_id in their channel_data.             *)

\* The channels a listener will take its socket out of are those it is in; it
\* leaves each once, and the map is gone before it takes w.mutex.
Exact(s) ==
    LET q == proc[Listener(s)]
    IN  /\ \A c \in ChannelName : c \in Kept(s) => IsInChannel(Channels, s, c)
        /\ q.pc = "leave" /\ q.closing => q.chan \notin q.todo
        /\ q.pc \in {"lock", "remove", "hangup", "cleanup"} => tracked[s] = {}

\* Between requests a socket has presence data for the presence channels it
\* is in; a listener that leaves one has read it before it deletes it.
MemberKnown(s) ==
    LET q == proc[Listener(s)]
    IN  /\ /\ q.pc \in Serving \cup Joined \cup Left \cup {"leave"}
           /\ q.pc # "copy" /\ ~q.closing
           => \A c \in tracked[s] \cap PresenceChannel :
                \/ presence[s][c] = Member[s]
                \/ /\ c = q.chan
                   /\ q.pc \in {"notify", "members", "scan", "setdata", "stayers", "lscan",
                                "depart", "vacate", "untrack"}
        /\ q.pc \in {"leave", "remaining", "member"} /\ ~q.closing => q.chan \in tracked[s]
        /\ q.pc \in {"members", "scan", "setdata", "member", "forget", "stayers", "lscan", "depart"}
           => q.chan \in PresenceChannel
        /\ q.pc \in {"forget", "stayers", "lscan", "depart"} /\ ~q.closing => q.mem = Member[s]

\* A socket with a user_id, whose maps agree.
Known(s) == Member[s] # NoUser /\ Exact(s) /\ MemberKnown(s)

\* The inductive invariant of the agreement of the maps.
AgreeInv == OwnCloseInv /\ \A s \in Conn : Known(s)

-----------------------------------------------------------------------------
(* What the operators of Namespace do to its lists.                         *)

(***************************************************************************)
(* Appending an ID to a channel keeps the map well formed and adds no      *)
(* empty list.                                                             *)
(***************************************************************************)
LEMMA AddToChannelLemma ==
    ASSUME NEW chs, ChannelsType(chs), NEW s \in SocketID, NEW c \in ChannelName
    PROVE  /\ ChannelsType(AddToChannel(chs, s, c))
           /\ NoEmptyChannel(chs) => NoEmptyChannel(AddToChannel(chs, s, c))
<1> DEFINE new == AddToChannel(chs, s, c)
<1>1. DOMAIN new = DOMAIN chs \cup {c}
  BY DEF AddToChannel
<1>2. ChannelList(chs, c) \in [SocketID -> Nat]
  BY DEF ChannelList, ChannelsType, EmptyList
<1>3. /\ new[c] \in [SocketID -> Nat]
      /\ new[c][s] > 0
  BY <1>2 DEF AddToChannel, Append1
<1>4. \A d \in DOMAIN chs \ {c} : new[d] = chs[d]
  BY DEF AddToChannel
<1>5. ChannelsType(new)
  <2>1. new = [d \in DOMAIN new |-> new[d]]
    BY DEF AddToChannel
  <2> QED
    BY <1>1, <1>3, <1>4, <2>1 DEF ChannelsType
<1>6. NoEmptyChannel(chs) => NoEmptyChannel(new)
  BY <1>1, <1>3, <1>4 DEF NoEmptyChannel, ListIsEmpty, Occurs
<1> QED
  BY <1>5, <1>6

(***************************************************************************)
(* Dropping an ID from some channels keeps the map well formed, leaves no  *)
(* list empty and leaves the ID in none of those channels.                 *)
(***************************************************************************)
LEMMA DropFromChannelsLemma ==
    ASSUME NEW chs, ChannelsType(chs), NEW s \in SocketID, NEW cs
    PROVE  LET new == DropFromChannels(chs, s, cs)
           IN  /\ ChannelsType(new)
               /\ NoEmptyChannel(chs) => NoEmptyChannel(new)
               /\ \A c \in cs : ~IsInChannel(new, s, c)
<1> DEFINE new == DropFromChannels(chs, s, cs)
<1>1. DOMAIN new = {d \in DOMAIN chs : d \in cs => ~ListIsEmpty(Without(chs[d], s))}
  BY DEF DropFromChannels
<1>2. \A c \in DOMAIN new : new[c] = IF c \in cs THEN Without(chs[c], s) ELSE chs[c]
  BY DEF DropFromChannels
<1>3. \A c \in DOMAIN chs : /\ Without(chs[c], s) \in [SocketID -> Nat]
                            /\ ~Occurs(s, Without(chs[c], s))
  BY DEF ChannelsType, Without, Occurs
<1>4. ChannelsType(new)
  <2>1. new = [d \in DOMAIN new |-> new[d]]
    BY DEF DropFromChannels
  <2> QED
    BY <1>1, <1>2, <1>3, <2>1 DEF ChannelsType
<1>5. NoEmptyChannel(chs) => NoEmptyChannel(new)
  BY <1>1, <1>2 DEF NoEmptyChannel
<1>6. \A c \in cs : ~IsInChannel(new, s, c)
  BY <1>1, <1>2, <1>3 DEF IsInChannel
<1> QED
  BY <1>4, <1>5, <1>6

\* A fresh namespace has a well-formed map and no list at all.
LEMMA BlankLemma == ChannelsType(NoChannels) /\ NoEmptyChannel(NoChannels)
BY DEF ChannelsType, NoChannels, NoEmptyChannel

(***************************************************************************)
(* AddToChannel puts one ID into one channel.                              *)
(***************************************************************************)
LEMMA AddedIsMember ==
    ASSUME NEW chs, ChannelsType(chs), NEW s \in SocketID, NEW c \in ChannelName,
           NEW t \in SocketID, NEW d \in ChannelName
    PROVE  IsInChannel(AddToChannel(chs, s, c), t, d) <=>
                IsInChannel(chs, t, d) \/ (t = s /\ d = c)
<1> DEFINE new == AddToChannel(chs, s, c)
<1>1. DOMAIN new = DOMAIN chs \cup {c}
  BY DEF AddToChannel
<1>2. CASE d # c
  <2>1. d \in DOMAIN chs => new[d] = chs[d]
    BY <1>2 DEF AddToChannel
  <2> QED
    BY <1>1, <1>2, <2>1 DEF IsInChannel
<1>3. CASE d = c
  <2>1. ChannelList(chs, c) \in [SocketID -> Nat]
    BY DEF ChannelList, ChannelsType, EmptyList
  <2>2. new[c] = [ChannelList(chs, c) EXCEPT ![s] = @ + 1]
    BY DEF AddToChannel, Append1
  <2>3. new[c][t] = IF t = s THEN ChannelList(chs, c)[s] + 1 ELSE ChannelList(chs, c)[t]
    BY <2>1, <2>2
  <2>4. c \notin DOMAIN chs => ChannelList(chs, c)[t] = 0
    BY DEF ChannelList, EmptyList
  <2>5. c \in DOMAIN chs => ChannelList(chs, c) = chs[c]
    BY DEF ChannelList
  <2> QED
    BY <1>1, <1>3, <2>1, <2>3, <2>4, <2>5 DEF IsInChannel, Occurs
<1> QED
  BY <1>2, <1>3

(***************************************************************************)
(* RemoveFromChannel and RemoveSocket take one ID out of the channels they *)
(* are given, all occurrences of it and nothing else.                      *)
(***************************************************************************)
LEMMA DroppedIsNoMember ==
    ASSUME NEW chs, ChannelsType(chs), NEW s \in SocketID, NEW cs,
           NEW t \in SocketID, NEW d \in ChannelName
    PROVE  IsInChannel(DropFromChannels(chs, s, cs), t, d) <=>
                IsInChannel(chs, t, d) /\ ~(t = s /\ d \in cs)
<1> DEFINE new == DropFromChannels(chs, s, cs)
<1>1. DOMAIN new = {e \in DOMAIN chs : e \in cs => ~ListIsEmpty(Without(chs[e], s))}
  BY DEF DropFromChannels
<1>2. \A e \in DOMAIN new : new[e] = IF e \in cs THEN Without(chs[e], s) ELSE chs[e]
  BY DEF DropFromChannels
<1>3. d \in DOMAIN chs => Without(chs[d], s)[t] = IF t = s THEN 0 ELSE chs[d][t]
  BY DEF ChannelsType, Without
<1>4. CASE d \in DOMAIN new
  BY <1>1, <1>2, <1>3, <1>4 DEF IsInChannel, Occurs
<1>5. CASE d \notin DOMAIN new
  <2>1. d \in DOMAIN chs => d \in cs /\ ~Occurs(t, Without(chs[d], s))
    BY <1>1, <1>5 DEF ListIsEmpty
  <2> QED
    BY <1>3, <1>5, <2>1 DEF IsInChannel, Occurs
<1> QED
  BY <1>4, <1>5

-----------------------------------------------------------------------------
(* The types.                                                              *)

\* The locals of a goroutine that rests.
LEMMA RestingType == \A l \in PC : [Resting EXCEPT !.pc = l] \in Local
  <1>1. (CHOOSE c \in ChannelName : TRUE) \in ChannelName
    BY SubscriptionAssumption
  <1> QED
    BY <1>1 DEF Resting, Local


\* A jump,
LEMMA GotoType ==
    ASSUME proc \in [Proc -> Local], NEW p \in Proc, NEW l \in PC, Goto(p, l)
    PROVE  proc' \in [Proc -> Local]
  BY DEF Goto, Local

\* the end of a request,
LEMMA FinishType ==
    ASSUME proc \in [Proc -> Local], NEW p \in Proc, NEW l \in PC, Finish(p, l)
    PROVE  proc' \in [Proc -> Local]
  BY RestingType DEF Finish

\* the return from unsubscribeFromChannel,
LEMMA ReturnType ==
    ASSUME proc \in [Proc -> Local], NEW p \in Proc, Return(p)
    PROVE  proc' \in [Proc -> Local]
  <1>1. "unsubscribe" \in PC /\ "top" \in PC /\ proc[p] \in Local
    BY DEF PC
  <1>2. CASE proc[p].closing
    <2>1. proc' = [proc EXCEPT ![p] = [proc[p] EXCEPT !.pc = "unsubscribe", !.scan = {},
                                            !.found = {}, !.mem = NoUser, !.edge = FALSE]]
      BY <1>2 DEF Return
    <2> QED
      BY <1>1, <2>1 DEF Local
  <1>3. CASE ~proc[p].closing
    BY <1>1, <1>3, FinishType DEF Return
  <1> QED
    BY <1>2, <1>3

\* the start of a scan,
LEMMA ScanType ==
    ASSUME TypeOK, NEW p \in Proc, NEW l \in PC,
           proc' = [proc EXCEPT ![p].pc = l, ![p].found = {},
                                ![p].scan = Subscribers(proc[p].chan)]
    PROVE  proc' \in [Proc -> Local]
  <1>1. PICK x \in SUBSET Conn : x = Subscribers(proc[p].chan)
    BY DEF Subscribers, GetChannelSockets, TypeOK
  <1>2. proc' = [proc EXCEPT ![p] = [proc[p] EXCEPT !.pc = l, !.found = {}, !.scan = x]]
    BY <1>1
  <1>3. proc \in [Proc -> Local] /\ proc[p] \in Local
    BY DEF TypeOK
  <1> QED
    BY <1>1, <1>2, <1>3 DEF Local

\* and one step of it keep the types of the locals.
LEMMA ReadMemberType ==
    ASSUME TypeOK, NEW p \in Proc, NEW t \in proc[p].scan, ReadMember(p, t)
    PROVE  proc' \in [Proc -> Local]
  <1>0. /\ proc \in [Proc -> Local] /\ proc[p].scan \in SUBSET Conn
        /\ proc[p].found \in SUBSET UserID /\ proc[p].chan \in ChannelName
    BY DEF TypeOK, Local
  <1>1. presence[t][proc[p].chan] \in UserID \cup {NoUser}
    <2>1. presence[t] \in [ChannelName -> UserID \cup {NoUser}]
      BY <1>0 DEF TypeOK
    <2> QED
      BY <1>0, <2>1
  <1>2. PICK x \in SUBSET Conn, y \in SUBSET UserID :
            proc' = [proc EXCEPT ![p].scan = x, ![p].found = y]
    BY <1>0, <1>1 DEF ReadMember
  <1> QED
    BY <1>0, <1>2, ZenonT(40) DEF Local

\* So do the steps of a subscribe,
LEMMA SubscribingType ==
    ASSUME TypeOK, NEW p \in Proc, Subscribing(p)
    PROVE  proc' \in [Proc -> Local]
  <1>0. proc \in [Proc -> Local] /\ proc[p] \in Local
    BY DEF TypeOK
  <1>1. {"counting", "join", "top", "recount", "track", "notify", "members", "scan", "setdata",
         "announce"} \subseteq PC
    BY DEF PC
  <1>2. CASE CountMembers(p)
    BY <1>1, <1>2, ScanType DEF CountMembers
  <1>3. CASE CountOne(p) \/ ScanOne(p)
    BY <1>3, ReadMemberType DEF CountOne, ScanOne
  <1>4. CASE LimitReached(p)
    BY <1>0, <1>1, <1>4, FinishType DEF LimitReached
  <1>5. CASE BelowLimit(p)
    BY <1>0, <1>1, <1>5, GotoType DEF BelowLimit
  <1>6. CASE Join(p) \/ Recount(p)
    <2>1. PICK l \in PC, b \in BOOLEAN : proc' = [proc EXCEPT ![p].pc = l, ![p].edge = b]
      BY <1>1, <1>6 DEF Join, Recount
    <2> QED
      BY <1>0, <2>1 DEF Local
  <1>7. CASE Track(p)
    BY <1>0, <1>1, <1>7, GotoType DEF Track, Panic
  <1>8. CASE Notify(p)
    BY <1>0, <1>1, <1>8, GotoType, FinishType DEF Notify, Panic
  <1>9. CASE BeginScan(p, "members", "scan")
    BY <1>0, <1>1, <1>9, ScanType DEF BeginScan, Panic
  <1>10. CASE EndScan(p, "scan", "setdata")
    BY <1>0, <1>1, <1>10, GotoType DEF EndScan
  <1>11. CASE SetPresenceData(p)
    BY <1>0, <1>1, <1>11, GotoType DEF SetPresenceData, Panic
  <1>12. CASE AnnounceAdded(p)
    BY <1>0, <1>1, <1>12, FinishType DEF AnnounceAdded, Panic
  <1> QED
    BY <1>2, <1>3, <1>4, <1>5, <1>6, <1>7, <1>8, <1>9, <1>10, <1>11, <1>12 DEF Subscribing

\* of an unsubscribe
LEMMA LeavingType ==
    ASSUME TypeOK, NEW p \in Proc, Leaving(p)
    PROVE  proc' \in [Proc -> Local]
  <1>0. proc \in [Proc -> Local] /\ proc[p] \in Local
    BY DEF TypeOK
  <1>1. {"remaining", "member", "forget", "stayers", "lscan", "depart", "vacate", "untrack"}
            \subseteq PC
    BY DEF PC
  <1>2. CASE Leave(p)
    BY <1>0, <1>1, <1>2, GotoType DEF Leave, Panic
  <1>3. CASE Remaining(p)
    <2>1. PICK l \in PC, b \in BOOLEAN : proc' = [proc EXCEPT ![p].edge = b, ![p].pc = l]
      BY <1>1, <1>3 DEF Remaining
    <2> QED
      BY <1>0, <2>1 DEF Local
  <1>4. CASE LeaverMember(p)
    <2>1. Sock(p) \in Conn /\ proc[p].chan \in ChannelName
      BY <1>0 DEF Proc, Sock, Local
    <2>2. presence[Sock(p)][proc[p].chan] \in UserID \cup {NoUser}
      <3>1. presence[Sock(p)] \in [ChannelName -> UserID \cup {NoUser}]
        BY <2>1 DEF TypeOK
      <3> QED
        BY <2>1, <3>1
    <2>3. PICK u \in UserID \cup {NoUser} : proc' = [proc EXCEPT ![p].mem = u, ![p].pc = "forget"]
      BY <1>4, <2>2 DEF LeaverMember
    <2>4. proc' = [proc EXCEPT ![p] = [proc[p] EXCEPT !.mem = u, !.pc = "forget"]]
      BY <2>3
    <2> QED
      BY <1>0, <1>1, <2>4 DEF Local
  <1>5. CASE ForgetPresenceData(p)
    BY <1>0, <1>1, <1>5, GotoType DEF ForgetPresenceData
  <1>6. CASE BeginScan(p, "stayers", "lscan")
    BY <1>0, <1>1, <1>6, ScanType DEF BeginScan, Panic
  <1>7. CASE EndScan(p, "lscan", "depart")
    BY <1>0, <1>1, <1>7, GotoType DEF EndScan
  <1>8. CASE LeaverUnknown(p) \/ Untrack(p)
    BY <1>0, <1>8, ReturnType DEF LeaverUnknown, Untrack
  <1>9. CASE AnnounceRemoved(p) \/ Vacate(p)
    BY <1>0, <1>1, <1>9, GotoType DEF AnnounceRemoved, Vacate, Panic
  <1> QED
    BY <1>2, <1>3, <1>4, <1>5, <1>6, <1>7, <1>8, <1>9 DEF Leaving

\* and of a close,
LEMMA ClosingType ==
    ASSUME TypeOK, NEW p \in Proc, Closing(p)
    PROVE  proc' \in [Proc -> Local]
  <1>0. proc \in [Proc -> Local] /\ proc[p] \in Local
    BY DEF TypeOK
  <1>1. {"unsubscribe", "leave", "lock", "remove", "hangup", "cleanup", "exited"} \subseteq PC
    BY DEF PC
  <1>2. CASE CopyChannels(p)
    <2>1. PICK x \in SUBSET ChannelName : x = tracked[Sock(p)]
      BY DEF TypeOK, Proc, Sock
    <2>2. proc' = [proc EXCEPT ![p] = [proc[p] EXCEPT !.todo = x, !.closing = TRUE,
                                                      !.pc = "unsubscribe"]]
      BY <1>2, <2>1 DEF CopyChannels
    <2> QED
      BY <1>0, <1>1, <2>2 DEF Local
  <1>3. ASSUME NEW c \in ChannelName, UnsubscribeOne(p, c)
        PROVE  proc' \in [Proc -> Local]
    <2>1. PICK x \in SUBSET ChannelName : x = proc[p].todo \ {c}
      BY <1>0 DEF Local
    <2>2. proc' = [proc EXCEPT ![p] = [proc[p] EXCEPT !.todo = x, !.chan = c, !.pc = "leave"]]
      BY <1>3, <2>1 DEF UnsubscribeOne
    <2> QED
      BY <1>0, <1>1, <2>2 DEF Local
  <1>4. CASE DropMap(p)
    BY <1>0, <1>1, <1>4, FinishType DEF DropMap
  <1>5. CASE LockSocket(p)
    BY <1>0, <1>1, <1>5, GotoType DEF LockSocket
  <1>6. CASE RemoveSocket(p)
    BY <1>0, <1>1, <1>6, GotoType DEF RemoveSocket
  <1>7. CASE HangUp(p)
    BY <1>0, <1>1, <1>7, GotoType DEF HangUp
  <1>8. CASE Cleanup(p)
    BY <1>0, <1>1, <1>8, FinishType DEF Cleanup
  <1> QED
    BY <1>2, <1>3, <1>4, <1>5, <1>6, <1>7, <1>8 DEF Closing

\* and what clients and the network do.
LEMMA EnvironmentType ==
    ASSUME TypeOK, NEW s \in Conn, LoopTop(s) \/ Environment(s)
    PROVE  proc' \in [Proc -> Local]
  <1>0. /\ proc \in [Proc -> Local] /\ Listener(s) \in Proc /\ Closer(s) \in Proc
        /\ proc[Listener(s)] \in Local
    BY DEF TypeOK, Listener, Closer, Proc
  <1>1. {"top", "read", "exited", "count", "join", "leave", "copy"} \subseteq PC
    BY DEF PC
  <1>2. CASE LoopTop(s) \/ Connect(s) \/ FrameTooLarge(s)
    BY <1>0, <1>1, <1>2, GotoType DEF LoopTop, Connect, FrameTooLarge
  <1>3. CASE SendFails(s)
    BY <1>0, <1>3 DEF SendFails
  <1>4. ASSUME NEW c \in ChannelName, SubscribeRequest(s, c) \/ UnsubscribeRequest(s, c)
        PROVE  proc' \in [Proc -> Local]
    <2>1. PICK l \in PC : proc' = [proc EXCEPT ![Listener(s)].chan = c, ![Listener(s)].pc = l]
      BY <1>1, <1>4 DEF SubscribeRequest, UnsubscribeRequest
    <2>2. PICK p \in Proc : p = Listener(s)
      BY <1>0
    <2>3. proc' = [proc EXCEPT ![p].chan = c, ![p].pc = l]
      BY <2>1, <2>2
    <2> QED
      BY <1>0, <2>3 DEF Local
  <1>5. CASE ReadError(s)
    BY <1>0, <1>1, <1>5, GotoType DEF ReadError, Panic
  <1>6. CASE CloserStarts(s)
    BY <1>0, <1>1, <1>6, GotoType DEF CloserStarts
  <1> QED
    BY <1>2, <1>3, <1>4, <1>5, <1>6 DEF Environment

\* The types of the other variables.
OtherTypes ==
    /\ ChannelsType(Channels)
    /\ Sockets \subseteq Conn
    /\ life \in [Conn -> Life]
    /\ tracked \in [Conn -> SUBSET ChannelName]
    /\ hasMap \in [Conn -> BOOLEAN]
    /\ presence \in [Conn -> [ChannelName -> UserID \cup {NoUser}]]
    /\ requests \in [Conn -> Nat]
    /\ lockL \in Proc \cup {NoProc}
    /\ lockW \in [Conn -> Proc \cup {NoProc}]
    /\ lastEvent \in [ChannelName -> [UserID -> {"none", "added", "removed"}]]
    /\ debt \in [ChannelName -> Int]
    /\ crashed \in BOOLEAN

\* A panic ends the process and changes nothing else.
LEMMA PanicTypes == OtherTypes /\ Panic => OtherTypes'
  BY DEF OtherTypes, Panic, ns, sock, locks, log, ChannelsType

\* An announcement is logged for its channel and user; one without a user is not.
LEMMA LastEventType ==
    ASSUME OtherTypes, NEW c \in ChannelName, NEW u, NEW x,
           x \in {"added", "removed", lastEvent[c][u]},
           lastEvent' = [lastEvent EXCEPT ![c] = [lastEvent[c] EXCEPT ![u] = x]]
    PROVE  lastEvent' \in [ChannelName -> [UserID -> {"none", "added", "removed"}]]
  <1>1. lastEvent[c] \in [UserID -> {"none", "added", "removed"}]
    BY DEF OtherTypes
  <1>2. [lastEvent[c] EXCEPT ![u] = x] \in [UserID -> {"none", "added", "removed"}]
    BY <1>1
  <1> QED
    BY <1>2 DEF OtherTypes

\* Subscribing keeps them,
LEMMA SubscribingTypes ==
    ASSUME TypeOK, NEW p \in Proc, Subscribing(p)
    PROVE  OtherTypes'
  <1>0. /\ OtherTypes /\ Sock(p) \in Conn /\ proc[p].chan \in ChannelName
        /\ Sock(p) \in SocketID /\ BlankID \in SocketID
    BY SubscriptionAssumption DEF TypeOK, OtherTypes, Proc, Sock, Local, Conn
  <1>1. CASE \/ CountMembers(p) \/ CountOne(p) \/ LimitReached(p) \/ BelowLimit(p)
             \/ Recount(p) \/ ScanOne(p)
    BY <1>0, <1>1 DEF OtherTypes, CountMembers, CountOne, ReadMember, LimitReached, BelowLimit,
       Recount, ScanOne, ns, sock, locks, log
  <1>2. CASE Join(p)
    <2>1. ChannelsType(Channels')
      BY <1>0, <1>2, AddToChannelLemma DEF Join, OtherTypes
    <2>2. debt' \in [ChannelName -> Int]
      BY <1>0, <1>2 DEF Join, OtherTypes
    <2> QED
      BY <1>0, <1>2, <2>1, <2>2 DEF OtherTypes, Join, sock, locks
  <1>3. CASE Track(p)
    <2>1. CASE Panic
      BY <1>0, <2>1, PanicTypes
    <2>2. CASE ~Panic
      BY <1>0, <1>3, <2>2, SMTT(20) DEF Track, OtherTypes, ns, locks, log
    <2> QED
      BY <2>1, <2>2
  <1>4. CASE Notify(p)
    <2>1. CASE Panic
      BY <1>0, <2>1, PanicTypes
    <2>2. CASE ~Panic
      BY <1>0, <1>4, <2>2 DEF Notify, OtherTypes, ns, sock, locks
    <2> QED
      BY <2>1, <2>2
  <1>5. CASE BeginScan(p, "members", "scan")
    <2>1. CASE Panic
      BY <1>0, <2>1, PanicTypes
    <2>2. CASE ~Panic
      BY <1>0, <1>5, <2>2 DEF BeginScan, OtherTypes, ns, sock, log
    <2> QED
      BY <2>1, <2>2
  <1>6. CASE EndScan(p, "scan", "setdata")
    BY <1>0, <1>6 DEF OtherTypes, EndScan, ns, sock, log
  <1>7. CASE SetPresenceData(p)
    <2>1. CASE Panic
      BY <1>0, <2>1, PanicTypes
    <2>2. CASE ~Panic
      <3>1. Member[Sock(p)] \in UserID \cup {NoUser}
        BY <1>0, SubscriptionAssumption
      <3>2. PICK s \in Conn : s = Sock(p)
        BY <1>0
      <3>3. presence' = [presence EXCEPT ![s] = [presence[s] EXCEPT ![proc[p].chan] = Member[s]]]
        BY <1>7, <2>2, <3>2 DEF SetPresenceData
      <3>4. [presence[s] EXCEPT ![proc[p].chan] = Member[s]] \in [ChannelName -> UserID \cup {NoUser}]
        BY <1>0, <3>1, <3>2 DEF OtherTypes
      <3>5. presence' \in [Conn -> [ChannelName -> UserID \cup {NoUser}]]
        BY <1>0, <3>3, <3>4 DEF OtherTypes
      <3> QED
        BY <1>0, <1>7, <2>2, <3>5 DEF SetPresenceData, OtherTypes, ns, locks, log
    <2> QED
      BY <2>1, <2>2
  <1>8. CASE AnnounceAdded(p)
    <2>1. CASE Panic
      BY <1>0, <2>1, PanicTypes
    <2>2. CASE ~Panic
      <3>0. PICK c \in ChannelName : c = proc[p].chan
        BY <1>0
      <3>1. PICK u : u = Member[Sock(p)]
        OBVIOUS
      <3>2. PICK x : /\ lastEvent' = [lastEvent EXCEPT ![c] = [lastEvent[c] EXCEPT ![u] = x]]
                     /\ x \in {"added", lastEvent[c][u]}
        BY <1>8, <2>2, <3>0, <3>1 DEF AnnounceAdded
      <3>3. lastEvent' \in [ChannelName -> [UserID -> {"none", "added", "removed"}]]
        BY <1>0, <3>2, LastEventType
      <3> QED
        BY <1>0, <1>8, <2>2, <3>3 DEF AnnounceAdded, OtherTypes, ns, sock, locks
    <2> QED
      BY <2>1, <2>2
  <1> QED
    BY <1>1, <1>2, <1>3, <1>4, <1>5, <1>6, <1>7, <1>8 DEF Subscribing

\* so does leaving,
LEMMA LeavingTypes ==
    ASSUME TypeOK, NEW p \in Proc, Leaving(p)
    PROVE  OtherTypes'
  <1>0. /\ OtherTypes /\ Sock(p) \in Conn /\ proc[p].chan \in ChannelName
        /\ Sock(p) \in SocketID
    BY SubscriptionAssumption DEF TypeOK, OtherTypes, Proc, Sock, Local, Conn
  <1>1. CASE Panic
    BY <1>0, <1>1, PanicTypes
  <1>2. CASE Leave(p) /\ ~Panic
    <2>1. ChannelsType(Channels')
      BY <1>0, <1>2, DropFromChannelsLemma DEF Leave, RemoveFromChannel, OtherTypes
    <2> QED
      BY <1>0, <1>2, <2>1 DEF OtherTypes, Leave, sock, locks, log
  <1>3. CASE Remaining(p) \/ LeaverMember(p) \/ LeaverUnknown(p)
    BY <1>0, <1>3 DEF OtherTypes, Remaining, LeaverMember, LeaverUnknown, ns, sock, locks, log
  <1>4. CASE ForgetPresenceData(p)
    <2>1. PICK s \in Conn : s = Sock(p)
      BY <1>0
    <2>2. presence' = [presence EXCEPT ![s] = [presence[s] EXCEPT ![proc[p].chan] = NoUser]]
      BY <1>4, <2>1 DEF ForgetPresenceData
    <2>3. [presence[s] EXCEPT ![proc[p].chan] = NoUser] \in [ChannelName -> UserID \cup {NoUser}]
      BY <1>0, <2>1 DEF OtherTypes
    <2>4. presence' \in [Conn -> [ChannelName -> UserID \cup {NoUser}]]
      BY <1>0, <2>2, <2>3 DEF OtherTypes
    <2> QED
      BY <1>0, <1>4, <2>4 DEF ForgetPresenceData, OtherTypes, ns, locks, log
  <1>5. CASE BeginScan(p, "stayers", "lscan") /\ ~Panic
    BY <1>0, <1>5 DEF BeginScan, OtherTypes, ns, sock, log
  <1>6. CASE EndScan(p, "lscan", "depart")
    BY <1>0, <1>6 DEF OtherTypes, EndScan, ns, sock, log
  <1>7. CASE AnnounceRemoved(p) /\ ~Panic
    <2>0. PICK c \in ChannelName : c = proc[p].chan
      BY <1>0
    <2>1. PICK u : u = proc[p].mem
      OBVIOUS
    <2>2. PICK x : /\ lastEvent' = [lastEvent EXCEPT ![c] = [lastEvent[c] EXCEPT ![u] = x]]
                   /\ x \in {"removed", lastEvent[c][u]}
      BY <1>7, <2>0, <2>1 DEF AnnounceRemoved
    <2>3. lastEvent' \in [ChannelName -> [UserID -> {"none", "added", "removed"}]]
      BY <1>0, <2>2, LastEventType
    <2> QED
      BY <1>0, <1>7, <2>3 DEF AnnounceRemoved, OtherTypes, ns, sock, locks
  <1>8. CASE Vacate(p) /\ ~Panic
    BY <1>0, <1>8 DEF Vacate, OtherTypes, ns, sock, locks, log
  <1>9. CASE Untrack(p)
    BY <1>0, <1>9 DEF Untrack, OtherTypes, ns, locks, log
  <1> QED
    BY <1>1, <1>2, <1>3, <1>4, <1>5, <1>6, <1>7, <1>8, <1>9 DEF Leaving

\* closing,
LEMMA ClosingTypes ==
    ASSUME TypeOK, NEW p \in Proc, Closing(p)
    PROVE  OtherTypes'
  <1>0. OtherTypes /\ Sock(p) \in Conn /\ Sock(p) \in SocketID
    BY SubscriptionAssumption DEF TypeOK, OtherTypes, Proc, Sock, Local, Conn
  <1>1. CASE CopyChannels(p) \/ \E c \in ChannelName : UnsubscribeOne(p, c)
    BY <1>0, <1>1 DEF OtherTypes, CopyChannels, UnsubscribeOne, ns, sock, locks, log
  <1>2. CASE DropMap(p)
    BY <1>0, <1>2 DEF OtherTypes, DropMap, ns, locks, log
  <1>3. CASE LockSocket(p)
    BY <1>0, <1>3 DEF OtherTypes, LockSocket, ns, sock, log
  <1>4. CASE RemoveSocket(p)
    <2>1. ChannelsType(Channels')
      BY <1>0, <1>4, DropFromChannelsLemma DEF RemoveSocket, RemoveSocketChannels, OtherTypes, ns
    <2>2. Sockets' \subseteq Sockets
      BY <1>4 DEF RemoveSocket, ns
    <2> QED
      BY <1>0, <1>4, <2>1, <2>2 DEF OtherTypes, RemoveSocket, sock, locks, log
  <1>5. CASE HangUp(p)
    <2>1. life' \in [Conn -> Life]
      BY <1>0, <1>5 DEF HangUp, OtherTypes, Life
    <2> QED
      BY <1>0, <1>5, <2>1 DEF OtherTypes, HangUp, ns, locks, log
  <1>6. CASE Cleanup(p)
    <2>1. life' \in [Conn -> Life]
      BY <1>0, <1>6 DEF Cleanup, OtherTypes, Life
    <2>2. presence' \in [Conn -> [ChannelName -> UserID \cup {NoUser}]]
      BY <1>0, <1>6 DEF Cleanup, OtherTypes
    <2>3. hasMap' \in [Conn -> BOOLEAN] /\ tracked' \in [Conn -> SUBSET ChannelName]
      BY <1>0, <1>6 DEF Cleanup, OtherTypes
    <2> QED
      BY <1>0, <1>6, <2>1, <2>2, <2>3 DEF OtherTypes, Cleanup, ns, log
  <1> QED
    BY <1>1, <1>2, <1>3, <1>4, <1>5, <1>6 DEF Closing

\* and what clients and the network do.
LEMMA EnvironmentTypes ==
    ASSUME TypeOK, NEW s \in Conn, LoopTop(s) \/ Environment(s)
    PROVE  OtherTypes'
  <1>0. OtherTypes
    BY DEF TypeOK, OtherTypes
  <1>1. CASE LoopTop(s) \/ FrameTooLarge(s) \/ CloserStarts(s)
    BY <1>0, <1>1 DEF OtherTypes, LoopTop, FrameTooLarge, CloserStarts, ns, sock, locks, log
  <1>2. CASE Connect(s) \/ SendFails(s)
    <2>1. life' \in [Conn -> Life]
      BY <1>0, <1>2 DEF Connect, SendFails, OtherTypes, Life
    <2> QED
      BY <1>0, <1>2, <2>1 DEF OtherTypes, Connect, SendFails, ns, locks, log
  <1>3. ASSUME NEW c \in ChannelName, SubscribeRequest(s, c) \/ UnsubscribeRequest(s, c)
        PROVE  OtherTypes'
    <2>2. CASE SubscribeRequest(s, c)
      <3>1. requests' \in [Conn -> Nat]
        BY <1>0, <2>2 DEF OtherTypes, SubscribeRequest
      <3> QED
        BY <1>0, <2>2, <3>1 DEF OtherTypes, SubscribeRequest, ns, locks, log
    <2>3. CASE UnsubscribeRequest(s, c)
      BY <1>0, <2>3 DEF OtherTypes, UnsubscribeRequest, ns, sock, locks, log
    <2> QED
      BY <1>3, <2>2, <2>3
  <1>4. CASE ReadError(s)
    <2>1. CASE Panic
      BY <1>0, <2>1, PanicTypes
    <2>2. CASE ~Panic
      BY <1>0, <1>4, <2>2 DEF ReadError, OtherTypes, ns, sock, locks, log
    <2> QED
      BY <2>1, <2>2
  <1> QED
    BY <1>1, <1>2, <1>3, <1>4 DEF Environment

\* The variables keep their types.
LEMMA TypeStep == TypeOK /\ [Next]_vars => TypeOK'
  <1> SUFFICES ASSUME TypeOK, [Next]_vars PROVE TypeOK'
    OBVIOUS
  <1>1. ASSUME NEW p \in Proc, Progress(p)
        PROVE  proc' \in [Proc -> Local] /\ OtherTypes'
    BY <1>1, SubscribingType, LeavingType, ClosingType, SubscribingTypes, LeavingTypes,
       ClosingTypes DEF Progress
  <1>2. ASSUME NEW s \in Conn, LoopTop(s) \/ Environment(s)
        PROVE  proc' \in [Proc -> Local] /\ OtherTypes'
    BY <1>2, EnvironmentType, EnvironmentTypes
  <1>3. CASE UNCHANGED vars
    BY <1>3 DEF TypeOK, vars, ns, sock, locks, log, ChannelsType
  <1> QED
    BY <1>1, <1>2, <1>3 DEF Next, Done, TypeOK, OtherTypes

-----------------------------------------------------------------------------
(* A closed socket is out of the namespace.                                *)

\* The program counters of a goroutine that holds a mutex or is about to
\* hang up.
Special == {"scan", "lscan", "remove", "hangup", "cleanup"}

\* A step of p that neither takes nor frees a mutex, for a socket that exists.
Plain(p) ==
    /\ \A r \in Proc \ {p} : proc'[r] = proc[r]
    /\ \/ proc'[p].pc = proc[p].pc
       \/ proc[p].pc \notin Special /\ proc'[p].pc \notin Special
    /\ life[Sock(p)] # "new"
    /\ UNCHANGED <<lockL, lockW, life, Sockets>>

\* The goroutines of a socket.
LEMMA ProcFacts ==
    /\ \A s \in Conn : /\ Listener(s) \in Proc /\ Closer(s) \in Proc
                       /\ Sock(Listener(s)) = s /\ Sock(Closer(s)) = s
                       /\ Listener(s) # Closer(s)
    /\ \A p \in Proc : /\ Sock(p) \in Conn
                       /\ p = Listener(Sock(p)) \/ p = Closer(Sock(p))
  BY DEF Listener, Closer, Proc, Sock

\* A goroutine that does something has a socket.
LEMMA Born ==
    ASSUME Unborn, NEW p \in Proc, proc[p].pc # "none"
    PROVE  life[Sock(p)] # "new"
  BY ProcFacts DEF Unborn

\* Such a step keeps the rules of closing.
LEMMA PlainStep ==
    ASSUME CloseInv, NEW p \in Proc, Plain(p)
    PROVE  LockRule' /\ Unborn' /\ OutOfAdapter'
  <1>1. \A r \in Proc : \/ proc'[r].pc = proc[r].pc
                        \/ proc[r].pc \notin Special /\ proc'[r].pc \notin Special
    BY DEF Plain
  <1>2. LockRule'
    BY <1>1 DEF CloseInv, Plain, LockRule, Special
  <1>3. Unborn'
    BY ProcFacts DEF CloseInv, Plain, Unborn
  <1>4. OutOfAdapter'
    BY <1>1 DEF CloseInv, Plain, OutOfAdapter, Special
  <1> QED
    BY <1>2, <1>3, <1>4

\* So does one that changes none of this.
LEMMA IdleStep ==
    ASSUME CloseInv, UNCHANGED <<lockL, lockW, life, Sockets, proc>>
    PROVE  LockRule' /\ Unborn' /\ OutOfAdapter'
  BY DEF CloseInv, LockRule, Unborn, OutOfAdapter

\* BeginScan takes l.mutex ...
LEMMA BeginScanStep ==
    ASSUME CloseInv, NEW p \in Proc, NEW from \in PC \ Special, from # "none",
           NEW to \in {"scan", "lscan"}, BeginScan(p, from, to)
    PROVE  LockRule' /\ Unborn' /\ OutOfAdapter'
  <1>0. CASE Panic
    BY <1>0, IdleStep DEF Panic, locks, sock, ns
  <1>1. CASE ~Panic
    <2>1. /\ \A r \in Proc \ {p} : proc'[r] = proc[r]
          /\ proc'[p].pc = to /\ proc[p].pc = from
          /\ lockL = NoProc /\ lockL' = p /\ UNCHANGED <<lockW, life, Sockets>>
      BY <1>1 DEF BeginScan, CloseInv, TypeOK, Local, FreeL, At, sock, ns
    <2>2. LockRule'
      BY <2>1, SubscriptionAssumption DEF LockRule, CloseInv, Special
    <2>3. Unborn'
      BY <2>1, ProcFacts DEF Unborn, CloseInv
    <2>4. OutOfAdapter'
      BY <2>1 DEF OutOfAdapter, CloseInv
    <2> QED
      BY <2>2, <2>3, <2>4
  <1> QED
    BY <1>0, <1>1

\* ... which EndScan gives back.
LEMMA EndScanStep ==
    ASSUME CloseInv, NEW p \in Proc, NEW from \in {"scan", "lscan"},
           NEW to \in PC \ Special, EndScan(p, from, to)
    PROVE  LockRule' /\ Unborn' /\ OutOfAdapter'
  <1>1. /\ \A r \in Proc \ {p} : proc'[r] = proc[r]
        /\ proc'[p].pc = to /\ proc[p].pc = from
        /\ lockL' = NoProc /\ UNCHANGED <<lockW, life, Sockets>>
    BY DEF EndScan, Goto, CloseInv, TypeOK, Local, At, sock, ns
  <1>2. lockL = p
    BY <1>1 DEF LockRule, CloseInv
  <1>3. LockRule'
    BY <1>1, <1>2, SubscriptionAssumption DEF LockRule, CloseInv, Special
  <1>4. Unborn'
    BY <1>1, ProcFacts DEF Unborn, CloseInv
  <1>5. OutOfAdapter'
    BY <1>1 DEF OutOfAdapter, CloseInv, Special
  <1> QED
    BY <1>3, <1>4, <1>5

\* The steps of a subscribe,
LEMMA SubscribingClose ==
    ASSUME CloseInv, NEW p \in Proc, Subscribing(p)
    PROVE  LockRule' /\ Unborn' /\ OutOfAdapter'
  <1>0. TypeOK /\ Unborn /\ proc \in [Proc -> Local] /\ proc[p] \in Local
    BY DEF CloseInv, TypeOK
  <1>1. CASE Panic
    BY <1>1, IdleStep DEF Panic, locks, sock, ns
  <1>2. CASE BeginScan(p, "members", "scan")
    BY <1>2, BeginScanStep DEF PC, Special
  <1>3. CASE EndScan(p, "scan", "setdata")
    BY <1>3, EndScanStep DEF PC, Special
  <1>4. CASE ScanOne(p) \/ CountOne(p)
    <2>1. proc[p].pc # "none" /\ UNCHANGED <<lockL, lockW, life, Sockets>>
      BY <1>4 DEF ScanOne, CountOne, ReadMember, At, locks, sock, ns
    <2>2. \A r \in Proc \ {p} : proc'[r] = proc[r]
      BY <1>0, <1>4 DEF ScanOne, CountOne, ReadMember
    <2>3. proc'[p].pc = proc[p].pc
      BY <1>0, <1>4 DEF ScanOne, CountOne, ReadMember, Local
    <2> QED
      BY <1>0, <2>1, <2>2, <2>3, Born, PlainStep DEF Plain
  <1>5. CASE ~Panic /\ (\/ CountMembers(p) \/ LimitReached(p) \/ BelowLimit(p) \/ Join(p)
                        \/ Recount(p) \/ Track(p) \/ Notify(p) \/ SetPresenceData(p)
                        \/ AnnounceAdded(p))
    <2>1. proc[p].pc \in {"count", "counting", "join", "recount", "track", "notify", "setdata",
                          "announce"}
      BY <1>5 DEF CountMembers, LimitReached, BelowLimit, Join, Recount, Track, Notify,
         SetPresenceData, AnnounceAdded, At
    <2>2. UNCHANGED <<lockL, lockW, life, Sockets>>
      BY <1>5 DEF CountMembers, LimitReached, BelowLimit, Join, Recount, Track, Notify,
         SetPresenceData, AnnounceAdded, locks, sock, ns
    <2>3. \A r \in Proc \ {p} : proc'[r] = proc[r]
      BY <1>0, <1>5 DEF CountMembers, LimitReached, BelowLimit, Join, Recount, Track, Notify,
         SetPresenceData, AnnounceAdded, Goto, Finish
    <2>4. proc'[p].pc \in {"counting", "top", "join", "recount", "track", "notify", "members",
                           "announce"}
      BY <1>0, <1>5 DEF CountMembers, LimitReached, BelowLimit, Join, Recount, Track, Notify,
         SetPresenceData, AnnounceAdded, Goto, Finish, Local, Resting
    <2> QED
      BY <1>0, <2>1, <2>2, <2>3, <2>4, Born, PlainStep DEF Plain, Special
  <1> QED
    BY <1>1, <1>2, <1>3, <1>4, <1>5 DEF Subscribing

\* of an unsubscribe
LEMMA LeavingClose ==
    ASSUME CloseInv, NEW p \in Proc, Leaving(p)
    PROVE  LockRule' /\ Unborn' /\ OutOfAdapter'
  <1>0. TypeOK /\ Unborn /\ proc \in [Proc -> Local] /\ proc[p] \in Local
    BY DEF CloseInv, TypeOK
  <1>1. CASE Panic
    BY <1>1, IdleStep DEF Panic, locks, sock, ns
  <1>2. CASE BeginScan(p, "stayers", "lscan")
    BY <1>2, BeginScanStep DEF PC, Special
  <1>3. CASE EndScan(p, "lscan", "depart")
    BY <1>3, EndScanStep DEF PC, Special
  <1>4. CASE ~Panic /\ (\/ Leave(p) \/ Remaining(p) \/ LeaverMember(p) \/ ForgetPresenceData(p)
                        \/ LeaverUnknown(p) \/ AnnounceRemoved(p) \/ Vacate(p) \/ Untrack(p))
    <2>1. proc[p].pc \in {"leave", "remaining", "member", "forget", "depart", "vacate", "untrack"}
      BY <1>4 DEF Leave, Remaining, LeaverMember, ForgetPresenceData, LeaverUnknown,
         AnnounceRemoved, Vacate, Untrack, At
    <2>2. UNCHANGED <<lockL, lockW, life, Sockets>>
      BY <1>4 DEF Leave, Remaining, LeaverMember, ForgetPresenceData, LeaverUnknown,
         AnnounceRemoved, Vacate, Untrack, locks, sock, ns
    <2>3. \A r \in Proc \ {p} : proc'[r] = proc[r]
      BY <1>0, <1>4 DEF Leave, Remaining, LeaverMember, ForgetPresenceData, LeaverUnknown,
         AnnounceRemoved, Vacate, Untrack, Goto, Finish, Return
    <2>4. proc'[p].pc \in {"remaining", "member", "forget", "stayers", "vacate", "untrack",
                           "unsubscribe", "top"}
      BY <1>0, <1>4 DEF Leave, Remaining, LeaverMember, ForgetPresenceData, LeaverUnknown,
         AnnounceRemoved, Vacate, Untrack, Goto, Finish, Return, Local, Resting
    <2> QED
      BY <1>0, <2>1, <2>2, <2>3, <2>4, Born, PlainStep DEF Plain, Special
  <1> QED
    BY <1>1, <1>2, <1>3, <1>4 DEF Leaving

\* The last steps of closeConnection, from Lock to Unlock.
LEMMA UnderLockClose ==
    ASSUME CloseInv, NEW p \in Proc,
           LockSocket(p) \/ RemoveSocket(p) \/ HangUp(p) \/ Cleanup(p)
    PROVE  LockRule' /\ Unborn' /\ OutOfAdapter'
  <1>0. /\ proc \in [Proc -> Local] /\ proc[p] \in Local /\ LockRule /\ Unborn /\ OutOfAdapter
        /\ life \in [Conn -> Life] /\ lockW \in [Conn -> Proc \cup {NoProc}] /\ Sock(p) \in Conn
    BY ProcFacts DEF CloseInv, TypeOK
  <1>1. PICK s \in Conn : s = Sock(p)
    BY <1>0
  <1>2. life[s] # "new"
    BY <1>0, <1>1, Born DEF LockSocket, RemoveSocket, HangUp, Cleanup, At
  <1>3. CASE LockSocket(p)
    <2>1. /\ \A r \in Proc \ {p} : proc'[r] = proc[r]
          /\ proc[p].pc = "lock" /\ proc'[p].pc = "remove"
          /\ UNCHANGED <<lockL, life, Sockets>>
      BY <1>0, <1>3 DEF LockSocket, Goto, Local, At, sock, ns
    <2>2. lockW[s] = NoProc /\ \A t \in Conn : lockW'[t] = IF t = s THEN p ELSE lockW[t]
      BY <1>0, <1>1, <1>3 DEF LockSocket, FreeW
    <2>3. LockRule'
      BY <1>0, <1>1, <2>1, <2>2, SubscriptionAssumption, ProcFacts DEF LockRule
    <2>4. Unborn'
      BY <1>0, <1>1, <1>2, <2>1, ProcFacts DEF Unborn
    <2>5. OutOfAdapter'
      BY <1>0, <2>1 DEF OutOfAdapter
    <2> QED
      BY <2>3, <2>4, <2>5
  <1>4. CASE RemoveSocket(p)
    <2>1. /\ \A r \in Proc \ {p} : proc'[r] = proc[r]
          /\ proc[p].pc = "remove" /\ proc'[p].pc = "hangup"
          /\ UNCHANGED <<lockL, lockW, life>>
      BY <1>0, <1>4 DEF RemoveSocket, Goto, Local, At, sock, locks
    <2>2. Sockets' \subseteq Sockets /\ s \notin Sockets'
      BY <1>0, <1>1, <1>4 DEF RemoveSocket, NilServer, OutOfAdapter, ns
    <2>3. LockRule'
      BY <1>0, <1>1, <2>1 DEF LockRule
    <2>4. Unborn'
      BY <1>0, <1>1, <1>2, <2>1, <2>2, ProcFacts DEF Unborn
    <2>5. OutOfAdapter'
      BY <1>0, <1>1, <2>1, <2>2 DEF OutOfAdapter
    <2> QED
      BY <2>3, <2>4, <2>5
  <1>5. CASE HangUp(p)
    <2>1. /\ \A r \in Proc \ {p} : proc'[r] = proc[r]
          /\ proc[p].pc = "hangup" /\ proc'[p].pc = "cleanup"
          /\ UNCHANGED <<lockL, lockW, Sockets>>
      BY <1>0, <1>5 DEF HangUp, Goto, Local, At, ns, locks
    <2>2. life'[s] # "new" /\ \A t \in Conn \ {s} : life'[t] = life[t]
      BY <1>0, <1>1, <1>2, <1>5 DEF HangUp
    <2>3. LockRule'
      BY <1>0, <1>1, <2>1 DEF LockRule
    <2>4. Unborn'
      BY <1>0, <1>1, <2>1, <2>2, ProcFacts DEF Unborn
    <2>5. OutOfAdapter'
      BY <1>0, <1>1, <2>1, <2>2 DEF OutOfAdapter
    <2> QED
      BY <2>3, <2>4, <2>5
  <1>6. CASE Cleanup(p)
    <2>1. /\ \A r \in Proc \ {p} : proc'[r] = proc[r]
          /\ proc[p].pc = "cleanup" /\ proc'[p].pc = "exited"
          /\ UNCHANGED <<lockL, Sockets>>
      BY <1>0, <1>6 DEF Cleanup, Finish, Resting, Local, At, ns
    <2>2. life'[s] # "new" /\ \A t \in Conn \ {s} : life'[t] = life[t]
      BY <1>0, <1>1, <1>2, <1>6 DEF Cleanup
    <2>3. \A t \in Conn : lockW'[t] = IF t = s THEN NoProc ELSE lockW[t]
      BY <1>0, <1>1, <1>6 DEF Cleanup
    <2>4. lockW[s] = p
      BY <1>0, <1>1, <2>1 DEF LockRule
    <2>5. LockRule'
      BY <1>0, <1>1, <2>1, <2>3, <2>4, SubscriptionAssumption, ProcFacts DEF LockRule
    <2>6. Unborn'
      BY <1>0, <1>1, <2>1, <2>2, ProcFacts DEF Unborn
    <2>7. OutOfAdapter'
      BY <1>0, <1>1, <2>1, <2>2 DEF OutOfAdapter
    <2> QED
      BY <2>5, <2>6, <2>7
  <1> QED
    BY <1>3, <1>4, <1>5, <1>6

\* of a close,
LEMMA ClosingClose ==
    ASSUME CloseInv, NEW p \in Proc, Closing(p)
    PROVE  LockRule' /\ Unborn' /\ OutOfAdapter'
  <1>0. TypeOK /\ Unborn /\ proc \in [Proc -> Local] /\ proc[p] \in Local
    BY DEF CloseInv, TypeOK
  <1>1. CASE CopyChannels(p) \/ DropMap(p) \/ \E c \in ChannelName : UnsubscribeOne(p, c)
    <2>1. proc[p].pc \in {"copy", "unsubscribe"}
      BY <1>1 DEF CopyChannels, UnsubscribeOne, DropMap, At
    <2>2. UNCHANGED <<lockL, lockW, life, Sockets>>
      BY <1>1 DEF CopyChannels, UnsubscribeOne, DropMap, locks, sock, ns
    <2>3. \A r \in Proc \ {p} : proc'[r] = proc[r]
      BY <1>0, <1>1 DEF CopyChannels, UnsubscribeOne, DropMap, Finish
    <2>4. proc'[p].pc \in {"unsubscribe", "leave", "lock"}
      <3>1. CASE CopyChannels(p)
        BY <1>0, <3>1 DEF CopyChannels, Local
      <3>2. CASE DropMap(p)
        BY <1>0, <3>2 DEF DropMap, Finish, Resting, Local
      <3>3. CASE \E c \in ChannelName : UnsubscribeOne(p, c)
        BY <1>0, <3>3 DEF UnsubscribeOne, Local
      <3> QED
        BY <1>1, <3>1, <3>2, <3>3
    <2> QED
      BY <1>0, <2>1, <2>2, <2>3, <2>4, Born, PlainStep DEF Plain, Special
  <1>2. CASE LockSocket(p) \/ RemoveSocket(p) \/ HangUp(p) \/ Cleanup(p)
    BY <1>2, UnderLockClose
  <1> QED
    BY <1>1, <1>2 DEF Closing

\* and what clients and the network do, keep the rules.
LEMMA EnvironmentClose ==
    ASSUME CloseInv, NEW s \in Conn, LoopTop(s) \/ Environment(s)
    PROVE  LockRule' /\ Unborn' /\ OutOfAdapter'
  <1>0. /\ TypeOK /\ LockRule /\ Unborn /\ OutOfAdapter /\ proc \in [Proc -> Local]
        /\ life \in [Conn -> Life] /\ Listener(s) \in Proc /\ Closer(s) \in Proc
        /\ Sock(Listener(s)) = s /\ Sock(Closer(s)) = s
    BY ProcFacts DEF CloseInv, TypeOK
  <1>1. CASE Panic
    BY <1>1, IdleStep DEF Panic, locks, sock, ns
  <1>2. CASE Connect(s)
    <2>1. /\ \A r \in Proc \ {Listener(s)} : proc'[r] = proc[r]
          /\ proc[Listener(s)].pc = "none" /\ proc'[Listener(s)].pc = "top"
          /\ UNCHANGED <<lockL, lockW>> /\ Sockets' = Sockets \cup {s}
      BY <1>0, <1>2 DEF Connect, Goto, Local, locks, Unborn
    <2>2. life[s] = "new" /\ life'[s] = "open" /\ \A t \in Conn \ {s} : life'[t] = life[t]
      BY <1>0, <1>2 DEF Connect
    <2>3. LockRule'
      BY <1>0, <2>1 DEF LockRule
    <2>4. Unborn'
      BY <1>0, <2>1, <2>2, ProcFacts DEF Unborn
    <2>5. proc[Closer(s)].pc = "none"
      BY <1>0, <2>2 DEF Unborn
    <2>6. OutOfAdapter'
      BY <1>0, <2>1, <2>2, <2>5, ProcFacts DEF OutOfAdapter
    <2> QED
      BY <2>3, <2>4, <2>6
  <1>3. CASE SendFails(s)
    <2>1. UNCHANGED <<lockL, lockW, Sockets, proc>>
      BY <1>3 DEF SendFails, locks, ns
    <2>2. life[s] = "open" /\ life'[s] = "failed" /\ \A t \in Conn \ {s} : life'[t] = life[t]
      BY <1>0, <1>3 DEF SendFails
    <2> QED
      BY <1>0, <2>1, <2>2 DEF LockRule, Unborn, OutOfAdapter
  <1>4. CASE ~Panic /\ (\/ LoopTop(s) \/ FrameTooLarge(s) \/ ReadError(s)
                        \/ \E c \in ChannelName : SubscribeRequest(s, c) \/ UnsubscribeRequest(s, c))
    <2>1. proc[Listener(s)].pc \in {"top", "read"}
      BY <1>4 DEF LoopTop, FrameTooLarge, ReadError, SubscribeRequest, UnsubscribeRequest, At
    <2>2. UNCHANGED <<lockL, lockW, life, Sockets>>
      BY <1>4 DEF LoopTop, FrameTooLarge, ReadError, SubscribeRequest, UnsubscribeRequest, locks,
         sock, ns
    <2>3. \A r \in Proc \ {Listener(s)} : proc'[r] = proc[r]
      BY <1>0, <1>4 DEF LoopTop, FrameTooLarge, ReadError, SubscribeRequest, UnsubscribeRequest,
         Goto
    <2>4. proc'[Listener(s)].pc \in {"read", "exited", "copy", "count", "join", "leave"}
      <3>1. PICK p \in Proc : p = Listener(s)
        BY <1>0
      <3>2. PICK l \in {"read", "exited", "copy", "count", "join", "leave"} :
                \/ proc' = [proc EXCEPT ![p].pc = l]
                \/ \E c \in ChannelName : proc' = [proc EXCEPT ![p].chan = c, ![p].pc = l]
        BY <1>4, <3>1, SMTT(20) DEF LoopTop, FrameTooLarge, ReadError, SubscribeRequest,
           UnsubscribeRequest, Goto
      <3> QED
        BY <1>0, <3>1, <3>2 DEF Local
    <2> QED
      BY <1>0, <2>1, <2>2, <2>3, <2>4, Born, PlainStep DEF Plain, Special
  <1>5. CASE CloserStarts(s)
    <2>1. /\ \A r \in Proc \ {Closer(s)} : proc'[r] = proc[r]
          /\ proc[Closer(s)].pc = "none" /\ proc'[Closer(s)].pc = "copy"
          /\ life[s] # "new" /\ UNCHANGED <<lockL, lockW, life, Sockets>>
      BY <1>0, <1>5 DEF CloserStarts, Goto, Local, At, locks, sock, ns
    <2> QED
      BY <1>0, <2>1, PlainStep DEF Plain, Special
  <1> QED
    BY <1>1, <1>2, <1>3, <1>4, <1>5 DEF Environment

\* The rules hold at first,
LEMMA InitClose == Init => CloseInv
  <1> SUFFICES ASSUME Init PROVE CloseInv
    OBVIOUS
  <1>1. "none" \in PC /\ Resting \in Local
    <2>1. "none" \in PC
      BY DEF PC
    <2>2. [Resting EXCEPT !.pc = "none"] = Resting
      BY DEF Resting
    <2> QED
      BY <2>1, <2>2, RestingType
  <1>2. TypeOK
    <2>1. \A c \in ChannelName : [u \in UserID |-> "none"] \in [UserID -> {"none", "added", "removed"}]
      OBVIOUS
    <2>2. lastEvent \in [ChannelName -> [UserID -> {"none", "added", "removed"}]]
      BY <2>1 DEF Init
    <2>3. presence \in [Conn -> [ChannelName -> UserID \cup {NoUser}]]
      BY DEF Init
    <2>4. /\ life \in [Conn -> Life] /\ hasMap \in [Conn -> BOOLEAN] /\ crashed \in BOOLEAN
          /\ tracked \in [Conn -> SUBSET ChannelName] /\ proc \in [Proc -> Local]
      BY <1>1 DEF Init, Life
    <2>5. /\ ChannelsType(Channels) /\ Sockets \subseteq Conn /\ requests \in [Conn -> Nat]
          /\ lockL \in Proc \cup {NoProc} /\ lockW \in [Conn -> Proc \cup {NoProc}]
          /\ debt \in [ChannelName -> Int]
      BY BlankLemma DEF Init
    <2> QED
      BY <2>2, <2>3, <2>4, <2>5 DEF TypeOK
  <1>3. LockRule /\ Unborn /\ OutOfAdapter
    BY SubscriptionAssumption, ProcFacts DEF Init, LockRule, Unborn, OutOfAdapter, Resting
  <1> QED
    BY <1>2, <1>3 DEF CloseInv

\* and every step keeps them.
LEMMA NextClose == CloseInv /\ [Next]_vars => CloseInv'
  <1> SUFFICES ASSUME CloseInv, [Next]_vars PROVE CloseInv'
    OBVIOUS
  <1>1. TypeOK'
    BY TypeStep DEF CloseInv
  <1>2. ASSUME NEW p \in Proc, Progress(p)
        PROVE  LockRule' /\ Unborn' /\ OutOfAdapter'
    BY <1>2, SubscribingClose, LeavingClose, ClosingClose DEF Progress
  <1>3. ASSUME NEW s \in Conn, LoopTop(s) \/ Environment(s)
        PROVE  LockRule' /\ Unborn' /\ OutOfAdapter'
    BY <1>3, EnvironmentClose
  <1>4. CASE UNCHANGED vars
    <2>1. UNCHANGED <<lockL, lockW, life, Sockets, proc>>
      BY <1>4 DEF vars, ns, sock, locks
    <2> QED
      BY <1>1, <2>1, IdleStep DEF CloseInv
  <1> QED
    BY <1>1, <1>2, <1>3, <1>4 DEF Next, Done, CloseInv

\* The variables of connections, channels and goroutines have their types, and
\* a mutex is held by the goroutine that is between its Lock and its Unlock.
THEOREM CloseInvHolds == Spec => []CloseInv
  <1> QED
    BY InitClose, NextClose, PTL DEF Spec

(***************************************************************************)
(* A socket that closeConnection is done with is out of the namespace and  *)
(* stays out, however many goroutines close it and whatever the listener   *)
(* is in the middle of (websocket.go:271-308).                             *)
(***************************************************************************)
THEOREM ClosedIsRemovedHolds == Spec => []ClosedIsRemoved
  <1>1. CloseInv => ClosedIsRemoved
    BY DEF CloseInv, OutOfAdapter, ClosedIsRemoved
  <1> QED
    BY <1>1, CloseInvHolds, PTL

-----------------------------------------------------------------------------
(* Sockets that only their listeners close.                                *)

\* The channels that a listener will leave, by where it is.
LEMMA KeptCases ==
    \A q, tr :
        /\ q.pc \in Serving \cup {"none", "exited"} => KeptOf(q, tr) = tr
        /\ q.pc \in Joined => KeptOf(q, tr) = tr \cup {q.chan}
        /\ q.pc = "leave" /\ q.closing => KeptOf(q, tr) = q.todo \cup {q.chan}
        /\ q.pc = "leave" /\ ~q.closing => KeptOf(q, tr) = tr
        /\ q.pc \in Left /\ q.closing => KeptOf(q, tr) = q.todo
        /\ q.pc \in Left /\ ~q.closing => KeptOf(q, tr) = tr \ {q.chan}
        /\ q.pc = "unsubscribe" => KeptOf(q, tr) = q.todo
        /\ q.pc \in {"lock", "remove", "hangup", "cleanup"} => KeptOf(q, tr) = {}
  BY DEF KeptOf, Serving, Joined, Left

\* What a step of the listener of s, or of its client, leaves alone.
Footprint(s) ==
    /\ \A r \in Proc \ {Listener(s)} : proc'[r] = proc[r]
    /\ \A t \in Conn \ {s} : /\ tracked'[t] = tracked[t] /\ life'[t] = life[t]
                             /\ presence'[t] = presence[t]
                             /\ t \in Sockets' <=> t \in Sockets
    /\ \A t \in SocketID \ {s}, c \in ChannelName :
            IsInChannel(Channels', t, c) <=> IsInChannel(Channels, t, c)

\* Such a step keeps the rules of the other sockets.
LEMMA FrameOwn ==
    ASSUME NEW s \in Conn, NEW t \in Conn, t # s, Footprint(s)
    PROVE  /\ Own(t) => Own(t)'
           /\ Known(t) => Known(t)'
  <1>1. /\ Listener(t) \in Proc \ {Listener(s)} /\ Closer(t) \in Proc \ {Listener(s)}
        /\ t \in SocketID
    BY DEF Listener, Closer, Proc, Conn
  <1>2. /\ proc'[Listener(t)] = proc[Listener(t)] /\ proc'[Closer(t)] = proc[Closer(t)]
        /\ tracked'[t] = tracked[t] /\ life'[t] = life[t] /\ presence'[t] = presence[t]
        /\ t \in Sockets' <=> t \in Sockets
        /\ \A c \in ChannelName : IsInChannel(Channels', t, c) <=> IsInChannel(Channels, t, c)
    BY <1>1 DEF Footprint
  <1>3. Kept(t)' = Kept(t)
    BY <1>2 DEF Kept
  <1>4. ListenerCloses(t) => ListenerCloses(t)'
    BY <1>2 DEF ListenerCloses
  <1>5. ClosingFlag(t) => ClosingFlag(t)'
    BY <1>2 DEF ClosingFlag
  <1>6. Covered(t) => Covered(t)'
    BY <1>2, <1>3 DEF Covered
  <1>7. MemberKnown(t) => MemberKnown(t)'
    BY <1>2 DEF MemberKnown
  <1>8. Exact(t) => Exact(t)'
    BY <1>2, <1>3 DEF Exact
  <1> QED
    BY <1>4, <1>5, <1>6, <1>7, <1>8 DEF Own, Known

\* What a step does to the socket and the listener it is about.
SameSocket(s) ==
    /\ UNCHANGED <<Channels, Sockets>>
    /\ tracked'[s] = tracked[s]
    /\ life'[s] = life[s]
    /\ proc'[Closer(s)] = proc[Closer(s)]

\* Within a subscribe, and out of it,
LEMMA ServingOwn ==
    ASSUME NEW s \in Conn, Own(s), SameSocket(s), proc[Listener(s)].pc \in Serving,
           proc'[Listener(s)].pc \in Serving \cup {"exited"}, ~proc'[Listener(s)].closing
    PROVE  Own(s)' /\ (Exact(s) => Exact(s)')
  <1>1. ListenerCloses(s)'
    BY DEF Own, ListenerCloses, SameSocket, Serving
  <1>2. ClosingFlag(s)'
    BY DEF ClosingFlag, Serving, Left
  <1>3. KeptOf(proc'[Listener(s)], tracked'[s]) = KeptOf(proc[Listener(s)], tracked[s])
    BY KeptCases DEF SameSocket
  <1>4. Covered(s)'
    BY <1>3 DEF Own, Covered, Kept, SameSocket
  <1>5. Exact(s) => Exact(s)'
    BY <1>3 DEF Exact, Kept, SameSocket, Serving
  <1> QED
    BY <1>1, <1>2, <1>4, <1>5 DEF Own

\* and within an unsubscribe, the rules of the socket are kept.
LEMMA LeavingOwn ==
    ASSUME NEW s \in Conn, Own(s), SameSocket(s), proc[Listener(s)].pc \in Left,
           proc'[Listener(s)].pc \in Left,
           proc'[Listener(s)].chan = proc[Listener(s)].chan,
           proc'[Listener(s)].todo = proc[Listener(s)].todo,
           proc'[Listener(s)].closing = proc[Listener(s)].closing
    PROVE  Own(s)' /\ (Exact(s) => Exact(s)')
  <1>1. ListenerCloses(s)'
    BY DEF Own, ListenerCloses, SameSocket, Left
  <1>2. ClosingFlag(s)'
    BY DEF ClosingFlag, Left
  <1>3. KeptOf(proc'[Listener(s)], tracked'[s]) = KeptOf(proc[Listener(s)], tracked[s])
    <2>1. CASE proc[Listener(s)].closing
      <3>1. proc'[Listener(s)].closing
        BY <2>1
      <3> QED
        BY <2>1, <3>1, KeptCases DEF SameSocket
    <2>2. CASE ~proc[Listener(s)].closing
      BY <2>2, KeptCases DEF SameSocket
    <2> QED
      BY <2>1, <2>2
  <1>4. Covered(s)'
    BY <1>3 DEF Own, Covered, Kept, SameSocket
  <1>5. Exact(s) => Exact(s)'
    BY <1>3 DEF Exact, Kept, SameSocket, Left
  <1> QED
    BY <1>1, <1>2, <1>4, <1>5 DEF Own

\* Where a subscriber's own presence data may still be missing.
Waiting == {"notify", "members", "scan", "setdata"}

\* Within a subscribe a listener keeps the presence data of the other channels.
LEMMA ServingKnown ==
    ASSUME NEW s \in Conn, MemberKnown(s), proc[Listener(s)].pc \in Serving \ {"copy"},
           ~proc[Listener(s)].closing, proc'[Listener(s)].pc \in Serving \cup {"exited"},
           tracked'[s] = tracked[s], presence'[s] = presence[s],
           proc[Listener(s)].pc \in Waiting =>
              \/ proc[Listener(s)].chan \notin PresenceChannel
              \/ /\ proc'[Listener(s)].pc \in Waiting
                 /\ proc'[Listener(s)].chan = proc[Listener(s)].chan,
           proc'[Listener(s)].pc \in {"members", "scan", "setdata"} =>
              proc'[Listener(s)].chan \in PresenceChannel
    PROVE  MemberKnown(s)'
  <1>1. \A c \in tracked[s] \cap PresenceChannel :
            \/ presence[s][c] = Member[s]
            \/ c = proc[Listener(s)].chan /\ proc[Listener(s)].pc \in Waiting
    BY DEF MemberKnown, Serving, Waiting
  <1>2. \A c \in tracked'[s] \cap PresenceChannel :
            \/ presence'[s][c] = Member[s]
            \/ c = proc'[Listener(s)].chan /\ proc'[Listener(s)].pc \in Waiting
    BY <1>1
  <1> QED
    BY <1>2 DEF MemberKnown, Serving, Waiting

\* NoGhostSubscriber, as a fact about members.
LEMMA GhostFree ==
    ChannelsType(Channels) =>
        (NoGhostSubscriber <=>
            \A t \in SocketID, c \in ChannelName : IsInChannel(Channels, t, c) => t \in Sockets)
  BY DEF NoGhostSubscriber, IsInChannel, ChannelsType

\* The steps of a subscribe,
LEMMA SubscribingOwn ==
    ASSUME OwnCloseInv, NEW s \in Conn, NEW p \in Proc, p = Listener(s), ~Panic, Subscribing(p)
    PROVE  Footprint(s) /\ Own(s)' /\ (Known(s) => Known(s)')
  <1>0. /\ proc \in [Proc -> Local] /\ proc[p] \in Local /\ Own(s) /\ s = Sock(p) /\ s \in SocketID
        /\ Closer(s) \in Proc \ {p} /\ ChannelsType(Channels)
        /\ tracked \in [Conn -> SUBSET ChannelName]
        /\ presence \in [Conn -> [ChannelName -> UserID \cup {NoUser}]]
    BY ProcFacts DEF OwnCloseInv, CloseInv, TypeOK, Conn
  <1>1. CASE \/ CountMembers(p) \/ CountOne(p) \/ LimitReached(p) \/ BelowLimit(p) \/ Notify(p)
             \/ BeginScan(p, "members", "scan") \/ EndScan(p, "scan", "setdata")
             \/ (At(p, "scan") /\ ScanOne(p)) \/ AnnounceAdded(p) \/ SetPresenceData(p)
    <2>1. proc[p].pc \in Serving
      BY <1>1 DEF CountMembers, CountOne, LimitReached, BelowLimit, Notify, BeginScan, EndScan,
         AnnounceAdded, SetPresenceData, At, Serving
    <2>2. UNCHANGED <<Channels, Sockets, tracked, life>>
      BY <1>1 DEF CountMembers, CountOne, LimitReached, BelowLimit, Notify, BeginScan, EndScan,
         ScanOne, AnnounceAdded, SetPresenceData, ReadMember, ns, sock
    <2>3. \A t \in Conn \ {s} : presence'[t] = presence[t]
      BY <1>0, <1>1 DEF CountMembers, CountOne, LimitReached, BelowLimit, Notify, BeginScan,
         EndScan, ScanOne, AnnounceAdded, SetPresenceData, ReadMember, sock
    <2>4. \A r \in Proc \ {p} : proc'[r] = proc[r]
      BY <1>0, <1>1 DEF CountMembers, CountOne, LimitReached, BelowLimit, Notify, BeginScan,
         EndScan, ScanOne, AnnounceAdded, SetPresenceData, ReadMember, Goto, Finish
    <2>5. ~proc[p].closing
      BY <1>0, <2>1 DEF Own, ClosingFlag, Serving, Left
    <2>6. CASE CountOne(p) \/ (At(p, "scan") /\ ScanOne(p))
      <3>0. PICK t \in proc[p].scan : ReadMember(p, t)
        BY <2>6 DEF CountOne, ScanOne
      <3>1. /\ proc'[p].pc = proc[p].pc /\ proc'[p].closing = proc[p].closing
            /\ proc'[p].chan = proc[p].chan
        BY <1>0, <3>0 DEF ReadMember, Local
      <3>2. Own(s)' /\ (Exact(s) => Exact(s)')
        BY <1>0, <2>1, <2>2, <2>4, <2>5, <3>1, ServingOwn DEF SameSocket
      <3>3. UNCHANGED presence /\ proc[p].pc # "copy"
        BY <2>6, <3>0 DEF ReadMember, CountOne, ScanOne, At, sock
      <3>4. MemberKnown(s) => MemberKnown(s)'
        BY <2>1, <2>2, <2>5, <3>1, <3>3, ServingKnown DEF MemberKnown
      <3> QED
        BY <2>2, <2>3, <2>4, <3>2, <3>4 DEF Footprint, Known
    <2>7. CASE \/ LimitReached(p) \/ AnnounceAdded(p) \/ Notify(p) \/ BelowLimit(p)
               \/ EndScan(p, "scan", "setdata") \/ SetPresenceData(p) \/ CountMembers(p)
               \/ BeginScan(p, "members", "scan")
      <3>1. PICK l \in Serving : \/ proc'[p] = [Resting EXCEPT !.pc = l]
                                 \/ proc'[p].pc = l /\ proc'[p].closing = proc[p].closing
        <4>1. {"counting", "join", "members", "scan", "setdata", "announce", "top"} \subseteq Serving
          BY DEF Serving
        <4>2. CASE LimitReached(p) \/ AnnounceAdded(p) \/ Notify(p)
          BY <1>0, <4>1, <4>2 DEF LimitReached, AnnounceAdded, Notify, Goto, Finish, Local
        <4>3. CASE BelowLimit(p) \/ EndScan(p, "scan", "setdata") \/ SetPresenceData(p)
          BY <1>0, <4>1, <4>3 DEF BelowLimit, EndScan, SetPresenceData, Goto, Local
        <4>4. CASE CountMembers(p) \/ BeginScan(p, "members", "scan")
          BY <1>0, <4>1, <4>4 DEF CountMembers, BeginScan, Local
        <4> QED
          BY <2>7, <4>2, <4>3, <4>4
      <3>2. proc'[p].pc \in Serving /\ ~proc'[p].closing
        BY <2>5, <3>1 DEF Resting
      <3>3. Own(s)' /\ (Exact(s) => Exact(s)')
        BY <1>0, <2>1, <2>2, <2>4, <3>2, ServingOwn DEF SameSocket
      <3>4. CASE SetPresenceData(p)
        <4>1. PICK c \in ChannelName : c = proc[p].chan
          BY <1>0 DEF Local
        <4>2. presence' = [presence EXCEPT ![s] = [presence[s] EXCEPT ![c] = Member[s]]]
          BY <1>0, <3>4, <4>1 DEF SetPresenceData
        <4>3. \A d \in ChannelName : presence'[s][d] = IF d = c THEN Member[s] ELSE presence[s][d]
          BY <1>0, <4>2
        <4>4. /\ proc[p].pc = "setdata" /\ proc'[p].pc = "announce" /\ proc'[p].chan = c
          <5>1. proc' = [proc EXCEPT ![p] = [proc[p] EXCEPT !.pc = "announce"]]
            BY <3>4 DEF SetPresenceData, Goto
          <5>2. proc[p].pc = "setdata"
            BY <3>4 DEF SetPresenceData, At
          <5> QED
            BY <1>0, <4>1, <5>1, <5>2 DEF Local
        <4>5. MemberKnown(s) => MemberKnown(s)'
          <5> SUFFICES ASSUME MemberKnown(s) PROVE MemberKnown(s)'
            OBVIOUS
          <5>1. \A d \in tracked[s] \cap PresenceChannel : presence[s][d] = Member[s] \/ d = c
            BY <2>1, <2>5, <4>1, <4>4 DEF MemberKnown
          <5>2. \A d \in tracked'[s] \cap PresenceChannel : presence'[s][d] = Member[s]
            BY <1>0, <2>2, <4>3, <5>1
          <5> QED
            BY <4>4, <5>2 DEF MemberKnown
        <4> QED
          BY <2>2, <2>3, <2>4, <3>3, <4>5 DEF Footprint, Known
      <3>5. CASE ~SetPresenceData(p)
        <4>1. UNCHANGED presence /\ proc[p].pc # "copy"
          BY <2>7, <3>5 DEF LimitReached, AnnounceAdded, Notify, BelowLimit, EndScan, CountMembers,
             BeginScan, At, sock
        <4>2. CASE BeginScan(p, "members", "scan") \/ EndScan(p, "scan", "setdata")
          <5>1. proc[p].pc \in {"members", "scan"} /\ proc'[p].pc \in {"scan", "setdata"}
            BY <1>0, <4>2 DEF BeginScan, EndScan, At, Goto, Local
          <5>2. proc'[p].chan = proc[p].chan
            BY <1>0, <4>2 DEF BeginScan, EndScan, Goto, Local
          <5>3. MemberKnown(s) => proc[p].chan \in PresenceChannel
            BY <5>1 DEF MemberKnown
          <5>4. MemberKnown(s) => MemberKnown(s)'
            BY <2>1, <2>2, <2>5, <3>2, <4>1, <5>1, <5>2, <5>3, ServingKnown DEF Waiting
          <5> QED
            BY <2>2, <2>3, <2>4, <3>3, <5>4 DEF Footprint, Known
        <4>3. CASE Notify(p) /\ Member[s] # NoUser
          <5>1. proc[p].pc = "notify"
            BY <4>3 DEF Notify, At
          <5>2. \/ /\ proc[p].chan \in PresenceChannel
                   /\ proc'[p].pc = "members" /\ proc'[p].chan = proc[p].chan
                \/ proc[p].chan \notin PresenceChannel /\ proc'[p].pc = "top"
            BY <1>0, <4>3 DEF Notify, Goto, Finish, Local, Resting
          <5>3. MemberKnown(s) => MemberKnown(s)'
            BY <2>1, <2>2, <2>5, <3>2, <4>1, <5>1, <5>2, ServingKnown DEF Waiting
          <5> QED
            BY <2>2, <2>3, <2>4, <3>3, <5>3 DEF Footprint, Known
        <4>4. CASE LimitReached(p) \/ AnnounceAdded(p) \/ BelowLimit(p) \/ CountMembers(p)
          <5>1. proc[p].pc \notin Waiting
            BY <4>4 DEF LimitReached, AnnounceAdded, BelowLimit, CountMembers, At, Waiting
          <5>2. proc'[p].pc \in {"top", "join", "counting"}
            BY <1>0, <4>4 DEF LimitReached, AnnounceAdded, BelowLimit, CountMembers, Goto, Finish,
               Local, Resting
          <5>3. MemberKnown(s) => MemberKnown(s)'
            BY <2>1, <2>2, <2>5, <3>2, <4>1, <5>1, <5>2, ServingKnown
          <5> QED
            BY <2>2, <2>3, <2>4, <3>3, <5>3 DEF Footprint, Known
        <4> QED
          BY <2>2, <2>3, <2>4, <2>7, <3>3, <3>5, <4>2, <4>3, <4>4 DEF Footprint, Known
      <3> QED
        BY <3>4, <3>5
    <2> QED
      BY <1>1, <2>6, <2>7
  <1>2. CASE Join(p)
    <2>1. PICK c \in ChannelName : c = proc[p].chan
      BY <1>0 DEF Local
    <2>2. proc[p].pc = "join" /\ UNCHANGED <<Sockets, tracked, life, presence>>
      BY <1>2 DEF Join, At, sock
    <2>3. life[s] # "cleaned" /\ ~proc[p].closing /\ s \in Sockets
      BY <1>0, <2>2 DEF Own, ListenerCloses, ClosingFlag, Left
    <2>4. Channels' = AddToChannel(Channels, s, c)
      BY <1>0, <1>2, <2>1, <2>3 DEF Join, NilServer
    <2>5. \A r \in Proc \ {p} : proc'[r] = proc[r]
      BY <1>0, <1>2 DEF Join
    <2>6. proc'[p].pc \in Joined /\ proc'[p].chan = c /\ ~proc'[p].closing
      BY <1>0, <1>2, <2>1, <2>3 DEF Join, Joined, Local
    <2>7. \A t \in SocketID, d \in ChannelName :
            IsInChannel(Channels', t, d) <=> IsInChannel(Channels, t, d) \/ (t = s /\ d = c)
      BY <1>0, <2>4, AddedIsMember
    <2>8. Covered(s)'
      BY <1>0, <2>2, <2>6, <2>7, KeptCases DEF Own, Covered, Kept, Serving
    <2>9. ListenerCloses(s)' /\ ClosingFlag(s)'
      BY <1>0, <2>2, <2>3, <2>5, <2>6 DEF Own, ListenerCloses, ClosingFlag, Joined, Left
    <2>10. Exact(s) => Exact(s)'
      BY <1>0, <2>2, <2>6, <2>7, KeptCases DEF Exact, Kept, Serving, Joined
    <2>11. MemberKnown(s) => MemberKnown(s)'
      BY <1>0, <2>2, <2>3, <2>6 DEF MemberKnown, Serving, Joined
    <2> QED
      BY <2>2, <2>5, <2>7, <2>8, <2>9, <2>10, <2>11 DEF Footprint, Own, Known
  <1>3. CASE Recount(p)
    <2>1. proc[p].pc = "recount" /\ UNCHANGED <<Channels, Sockets, tracked, life, presence>>
      BY <1>3 DEF Recount, At, sock, ns
    <2>2. \A r \in Proc \ {p} : proc'[r] = proc[r]
      BY <1>0, <1>3 DEF Recount
    <2>3. /\ proc'[p].pc = "track" /\ proc'[p].chan = proc[p].chan
          /\ proc'[p].closing = proc[p].closing
      BY <1>0, <1>3 DEF Recount, Local
    <2>4. Covered(s)'
      BY <1>0, <2>1, <2>3, KeptCases DEF Own, Covered, Kept, Joined
    <2>5. ListenerCloses(s)' /\ ClosingFlag(s)'
      BY <1>0, <2>1, <2>2, <2>3 DEF Own, ListenerCloses, ClosingFlag, Left
    <2>6. Exact(s) => Exact(s)'
      BY <1>0, <2>1, <2>3, KeptCases DEF Exact, Kept, Joined
    <2>7. MemberKnown(s) => MemberKnown(s)'
      BY <1>0, <2>1, <2>3 DEF MemberKnown, Joined
    <2> QED
      BY <2>1, <2>2, <2>4, <2>5, <2>6, <2>7 DEF Footprint, Own, Known
  <1>4. CASE Track(p)
    <2>1. proc[p].pc = "track" /\ UNCHANGED <<Channels, Sockets, life, presence>>
      BY <1>4 DEF Track, At, ns
    <2>2. \A t \in Conn : tracked'[t] = IF t = s THEN tracked[s] \cup {proc[p].chan} ELSE tracked[t]
      BY <1>0, <1>4 DEF Track
    <2>3. \A r \in Proc \ {p} : proc'[r] = proc[r]
      BY <1>0, <1>4 DEF Track, Goto
    <2>4. /\ proc'[p].pc = "notify" /\ proc'[p].closing = proc[p].closing
          /\ proc'[p].chan = proc[p].chan
      BY <1>0, <1>4 DEF Track, Goto, Local
    <2>5. Covered(s)'
      BY <1>0, <2>1, <2>2, <2>4, KeptCases DEF Own, Covered, Kept, Joined, Serving
    <2>6. ListenerCloses(s)' /\ ClosingFlag(s)'
      BY <1>0, <2>1, <2>3, <2>4 DEF Own, ListenerCloses, ClosingFlag, Left
    <2>7. Exact(s) => Exact(s)'
      BY <1>0, <2>1, <2>2, <2>4, KeptCases DEF Exact, Kept, Joined, Serving
    <2>8. MemberKnown(s) => MemberKnown(s)'
      <3> SUFFICES ASSUME MemberKnown(s) PROVE MemberKnown(s)'
        OBVIOUS
      <3>1. ~proc[p].closing
        BY <1>0, <2>1 DEF Own, ClosingFlag, Left
      <3>2. \A d \in tracked[s] \cap PresenceChannel : presence[s][d] = Member[s]
        BY <2>1, <3>1 DEF MemberKnown, Joined
      <3>3. \A d \in tracked'[s] \cap PresenceChannel :
                presence'[s][d] = Member[s] \/ d = proc'[p].chan
        BY <2>1, <2>2, <2>4, <3>2
      <3> QED
        BY <2>4, <3>3 DEF MemberKnown
    <2> QED
      BY <2>1, <2>2, <2>3, <2>5, <2>6, <2>7, <2>8 DEF Footprint, Own, Known
  <1>5. CASE At(p, "lscan") /\ ScanOne(p)
    <2>1. proc[p].pc = "lscan" /\ UNCHANGED <<Channels, Sockets, tracked, life, presence>>
      BY <1>5 DEF ScanOne, ReadMember, At, ns, sock
    <2>2. \A r \in Proc \ {p} : proc'[r] = proc[r]
      BY <1>0, <1>5 DEF ScanOne, ReadMember
    <2>3. /\ proc'[p].pc = proc[p].pc /\ proc'[p].closing = proc[p].closing
          /\ proc'[p].chan = proc[p].chan /\ proc'[p].todo = proc[p].todo
          /\ proc'[p].mem = proc[p].mem
      BY <1>0, <1>5 DEF ScanOne, ReadMember, Local
    <2>4. "lscan" \in Left
      BY DEF Left
    <2>5. Own(s)' /\ (Exact(s) => Exact(s)')
      BY <1>0, <2>1, <2>2, <2>3, <2>4, LeavingOwn DEF SameSocket
    <2>6. MemberKnown(s) => MemberKnown(s)'
      BY <2>1, <2>3 DEF MemberKnown
    <2> QED
      BY <2>1, <2>2, <2>5, <2>6 DEF Footprint, Known
  <1> QED
    BY <1>1, <1>2, <1>3, <1>4, <1>5 DEF Subscribing, ScanOne

\* of an unsubscribe
LEMMA LeavingStepOwn ==
    ASSUME OwnCloseInv, NEW s \in Conn, NEW p \in Proc, p = Listener(s), ~Panic, Leaving(p)
    PROVE  Footprint(s) /\ Own(s)' /\ (Known(s) => Known(s)')
  <1>0. /\ proc \in [Proc -> Local] /\ proc[p] \in Local /\ Own(s) /\ s = Sock(p) /\ s \in SocketID
        /\ Closer(s) \in Proc \ {p} /\ ChannelsType(Channels)
        /\ tracked \in [Conn -> SUBSET ChannelName]
        /\ presence \in [Conn -> [ChannelName -> UserID \cup {NoUser}]]
    BY ProcFacts DEF OwnCloseInv, CloseInv, TypeOK, Conn
  <1>1. CASE \/ Remaining(p) \/ LeaverMember(p) \/ ForgetPresenceData(p) \/ AnnounceRemoved(p)
             \/ BeginScan(p, "stayers", "lscan") \/ EndScan(p, "lscan", "depart") \/ Vacate(p)
    <2>1. proc[p].pc \in Left
      BY <1>1 DEF Remaining, LeaverMember, ForgetPresenceData, AnnounceRemoved, BeginScan, EndScan,
         Vacate, At, Left
    <2>2. UNCHANGED <<Channels, Sockets, tracked, life>>
      BY <1>1 DEF Remaining, LeaverMember, ForgetPresenceData, AnnounceRemoved, BeginScan, EndScan,
         Vacate, ns, sock
    <2>3. \A t \in Conn \ {s} : presence'[t] = presence[t]
      BY <1>0, <1>1 DEF Remaining, LeaverMember, ForgetPresenceData, AnnounceRemoved, BeginScan,
         EndScan, Vacate, sock
    <2>4. \A r \in Proc \ {p} : proc'[r] = proc[r]
      BY <1>0, <1>1 DEF Remaining, LeaverMember, ForgetPresenceData, AnnounceRemoved, BeginScan,
         EndScan, Vacate, Goto
    <2>5. /\ proc'[p].pc \in Left /\ proc'[p].closing = proc[p].closing
          /\ proc'[p].chan = proc[p].chan /\ proc'[p].todo = proc[p].todo
      <3>1. {"member", "vacate", "forget", "stayers", "lscan", "depart", "untrack"} \subseteq Left
        BY DEF Left
      <3>2. CASE Remaining(p) \/ LeaverMember(p)
        BY <1>0, <3>1, <3>2 DEF Remaining, LeaverMember, Local
      <3>3. CASE \/ ForgetPresenceData(p) \/ AnnounceRemoved(p) \/ EndScan(p, "lscan", "depart")
                 \/ Vacate(p)
        BY <1>0, <3>1, <3>3 DEF ForgetPresenceData, AnnounceRemoved, EndScan, Vacate, Goto, Local
      <3>4. CASE BeginScan(p, "stayers", "lscan")
        BY <1>0, <3>1, <3>4 DEF BeginScan, Local
      <3> QED
        BY <1>1, <3>2, <3>3, <3>4
    <2>6. Own(s)' /\ (Exact(s) => Exact(s)')
      BY <1>0, <2>1, <2>2, <2>4, <2>5, LeavingOwn DEF SameSocket
    <2>7. ASSUME MemberKnown(s) PROVE MemberKnown(s)'
      <3>1. PICK c \in ChannelName : c = proc[p].chan
        BY <1>0 DEF Local
      <3>2. CASE Remaining(p)
        <4>1. /\ proc[p].pc = "remaining" /\ UNCHANGED presence
              /\ proc'[p].pc = IF c \in PresenceChannel THEN "member" ELSE "vacate"
          BY <1>0, <3>1, <3>2 DEF Remaining, At, Local, sock
        <4> QED
          BY <2>2, <2>5, <2>7, <3>1, <4>1 DEF MemberKnown, Left
      <3>3. CASE LeaverMember(p)
        <4>1. /\ proc[p].pc = "member" /\ UNCHANGED presence
              /\ proc'[p].pc = "forget" /\ proc'[p].mem = presence[s][c]
          BY <1>0, <3>1, <3>3 DEF LeaverMember, At, Local, sock
        <4>2. ~proc[p].closing => presence[s][c] = Member[s]
          BY <2>7, <3>1, <4>1 DEF MemberKnown, Left
        <4> QED
          BY <2>2, <2>5, <2>7, <3>1, <4>1, <4>2 DEF MemberKnown, Left
      <3>4. CASE ForgetPresenceData(p)
        <4>1. /\ proc[p].pc = "forget" /\ proc'[p].pc = "stayers" /\ proc'[p].mem = proc[p].mem
          BY <1>0, <3>4 DEF ForgetPresenceData, At, Goto, Local
        <4>2. presence' = [presence EXCEPT ![s] = [presence[s] EXCEPT ![c] = NoUser]]
          BY <1>0, <3>1, <3>4 DEF ForgetPresenceData
        <4>3. \A d \in ChannelName \ {c} : presence'[s][d] = presence[s][d]
          BY <1>0, <4>2
        <4>4. ~proc[p].closing =>
                \A d \in tracked'[s] \cap PresenceChannel : presence'[s][d] = Member[s] \/ d = c
          BY <1>0, <2>2, <2>7, <4>1, <4>3 DEF MemberKnown, Left
        <4> QED
          BY <2>5, <2>7, <3>1, <4>1, <4>4 DEF MemberKnown, Left
      <3>5. CASE BeginScan(p, "stayers", "lscan") \/ EndScan(p, "lscan", "depart")
        <4>1. /\ proc[p].pc \in {"stayers", "lscan"} /\ UNCHANGED presence
              /\ proc'[p].pc \in {"lscan", "depart"} /\ proc'[p].mem = proc[p].mem
          BY <1>0, <3>5 DEF BeginScan, EndScan, At, Goto, Local, sock
        <4> QED
          BY <2>2, <2>5, <2>7, <4>1 DEF MemberKnown, Left
      <3>6. CASE AnnounceRemoved(p) \/ Vacate(p)
        <4>1. /\ proc[p].pc \in {"depart", "vacate"} /\ UNCHANGED presence
              /\ proc'[p].pc \in {"vacate", "untrack"}
          BY <1>0, <3>6 DEF AnnounceRemoved, Vacate, At, Goto, Local, sock
        <4> QED
          BY <2>2, <2>5, <2>7, <4>1 DEF MemberKnown, Left
      <3> QED
        BY <1>1, <3>2, <3>3, <3>4, <3>5, <3>6
    <2> QED
      BY <2>2, <2>3, <2>4, <2>6, <2>7 DEF Footprint, Known
  <1>2. CASE Leave(p)
    <2>1. PICK c \in ChannelName : c = proc[p].chan
      BY <1>0 DEF Local
    <2>2. proc[p].pc = "leave" /\ UNCHANGED <<Sockets, tracked, life, presence>>
      BY <1>2 DEF Leave, At, sock
    <2>3. s \in Sockets
      BY <1>0, <2>2 DEF Own, ListenerCloses
    <2>4. Channels' = DropFromChannels(Channels, s, {c})
      BY <1>0, <1>2, <2>1 DEF Leave, RemoveFromChannel
    <2>5. \A r \in Proc \ {p} : proc'[r] = proc[r]
      BY <1>0, <1>2 DEF Leave, Goto
    <2>6. /\ proc'[p].pc = "remaining" /\ proc'[p].chan = c
          /\ proc'[p].closing = proc[p].closing /\ proc'[p].todo = proc[p].todo
      <3>1. proc' = [proc EXCEPT ![p] = [proc[p] EXCEPT !.pc = "remaining"]]
        BY <1>2 DEF Leave, Goto
      <3> QED
        BY <1>0, <2>1, <3>1 DEF Local
    <2>7. \A t \in SocketID, d \in ChannelName :
            IsInChannel(Channels', t, d) <=> IsInChannel(Channels, t, d) /\ ~(t = s /\ d = c)
      BY <1>0, <2>4, DroppedIsNoMember
    <2>8. Covered(s)'
      <3>0. "remaining" \in Left
        BY DEF Left
      <3>1. CASE proc[p].closing
        <4>0. proc'[p].closing
          BY <2>6, <3>1
        <4>1. /\ KeptOf(proc[p], tracked[s]) = proc[p].todo \cup {c}
              /\ KeptOf(proc'[p], tracked'[s]) = proc[p].todo
          BY <2>1, <2>2, <2>6, <3>0, <3>1, <4>0, KeptCases
        <4> QED
          BY <1>0, <2>7, <4>1 DEF Own, Covered, Kept
      <3>2. CASE ~proc[p].closing
        <4>1. /\ KeptOf(proc[p], tracked[s]) = tracked[s]
              /\ KeptOf(proc'[p], tracked'[s]) = tracked[s] \ {c}
          BY <2>1, <2>2, <2>6, <3>0, <3>2, KeptCases
        <4> QED
          BY <1>0, <2>7, <4>1 DEF Own, Covered, Kept
      <3> QED
        BY <3>1, <3>2
    <2>9. ListenerCloses(s)' /\ ClosingFlag(s)'
      BY <1>0, <2>2, <2>3, <2>5, <2>6 DEF Own, ListenerCloses, ClosingFlag, Left
    <2>10. Exact(s) => Exact(s)'
      <3>0. "remaining" \in Left
        BY DEF Left
      <3>1. CASE proc[p].closing
        <4>0. proc'[p].closing
          BY <2>6, <3>1
        <4>1. /\ KeptOf(proc[p], tracked[s]) = proc[p].todo \cup {c}
              /\ KeptOf(proc'[p], tracked'[s]) = proc[p].todo
          BY <2>1, <2>2, <2>6, <3>0, <3>1, <4>0, KeptCases
        <4> QED
          BY <1>0, <2>1, <2>2, <2>6, <2>7, <3>1, <4>1 DEF Exact, Kept
      <3>2. CASE ~proc[p].closing
        <4>1. /\ KeptOf(proc[p], tracked[s]) = tracked[s]
              /\ KeptOf(proc'[p], tracked'[s]) = tracked[s] \ {c}
          BY <2>1, <2>2, <2>6, <3>0, <3>2, KeptCases
        <4> QED
          BY <1>0, <2>1, <2>2, <2>6, <2>7, <4>1 DEF Exact, Kept
      <3> QED
        BY <3>1, <3>2
    <2>11. MemberKnown(s) => MemberKnown(s)'
      BY <2>1, <2>2, <2>6 DEF MemberKnown, Left
    <2> QED
      BY <2>2, <2>5, <2>7, <2>8, <2>9, <2>10, <2>11 DEF Footprint, Own, Known
  <1>3. CASE LeaverUnknown(p) \/ Untrack(p)
    <2>1. /\ proc[p].pc \in Left \ {"lscan"} /\ UNCHANGED <<Channels, Sockets, life, presence>>
      BY <1>3 DEF LeaverUnknown, Untrack, At, Left, ns, sock
    <2>2. /\ \A t \in Conn \ {s} : tracked'[t] = tracked[t]
          /\ tracked'[s] \in {tracked[s], tracked[s] \ {proc[p].chan}}
      BY <1>0, <1>3 DEF LeaverUnknown, Untrack, sock
    <2>3. \A r \in Proc \ {p} : proc'[r] = proc[r]
      BY <1>0, <1>3 DEF LeaverUnknown, Untrack, Return, Finish
    <2>4. CASE proc[p].closing
      <3>1. proc'[p].pc = "unsubscribe" /\ proc'[p].closing /\ proc'[p].todo = proc[p].todo
        <4>1. proc' = [proc EXCEPT ![p] = [proc[p] EXCEPT !.pc = "unsubscribe", !.scan = {},
                                            !.found = {}, !.mem = NoUser, !.edge = FALSE]]
          BY <1>3, <2>4 DEF LeaverUnknown, Untrack, Return
        <4> QED
          BY <1>0, <2>4, <4>1 DEF Local
      <3>2. Covered(s)'
        BY <1>0, <2>1, <2>4, <3>1, KeptCases DEF Own, Covered, Kept
      <3>3. ListenerCloses(s)' /\ ClosingFlag(s)'
        BY <1>0, <2>1, <2>3, <3>1 DEF Own, ListenerCloses, ClosingFlag, Left
      <3>4. Exact(s) => Exact(s)'
        BY <1>0, <2>1, <2>4, <3>1, KeptCases DEF Exact, Kept
      <3>5. MemberKnown(s)'
        BY <3>1 DEF MemberKnown, Serving, Joined, Left
      <3> QED
        BY <2>1, <2>2, <2>3, <3>2, <3>3, <3>4, <3>5 DEF Footprint, Own, Known
    <2>5. CASE ~proc[p].closing
      <3>1. proc'[p].pc = "top" /\ ~proc'[p].closing
        <4>1. proc' = [proc EXCEPT ![p] = [Resting EXCEPT !.pc = "top"]]
          BY <1>3, <2>5 DEF LeaverUnknown, Untrack, Return, Finish
        <4> QED
          BY <1>0, <4>1 DEF Resting
      <3>2. Covered(s)'
        <4>1. "top" \in Serving
          BY DEF Serving
        <4> QED
          BY <1>0, <2>1, <2>2, <2>5, <3>1, <4>1, KeptCases DEF Own, Covered, Kept
      <3>3. ListenerCloses(s)' /\ ClosingFlag(s)'
        BY <1>0, <2>1, <2>3, <3>1 DEF Own, ListenerCloses, ClosingFlag, Left
      <3>4. ASSUME Known(s) PROVE Known(s)'
        <4>1. PICK c \in ChannelName : c = proc[p].chan
          BY <1>0 DEF Local
        <4>2. Untrack(p)
          BY <1>3, <2>5, <3>4 DEF LeaverUnknown, At, Known, MemberKnown
        <4>3. tracked'[s] = tracked[s] \ {c}
          BY <1>0, <4>1, <4>2 DEF Untrack
        <4>4. /\ KeptOf(proc[p], tracked[s]) = tracked[s] \ {c}
              /\ KeptOf(proc'[p], tracked'[s]) = tracked[s] \ {c}
          BY <2>1, <2>5, <3>1, <4>1, <4>3, KeptCases DEF Serving
        <4>5. Exact(s)'
          BY <2>1, <3>1, <3>4, <4>4 DEF Known, Exact, Kept
        <4>6. \A d \in tracked'[s] \cap PresenceChannel : presence'[s][d] = Member[s]
          BY <2>1, <2>5, <3>4, <4>1, <4>3 DEF Known, MemberKnown, Left
        <4>7. MemberKnown(s)'
          BY <3>1, <4>6 DEF MemberKnown
        <4> QED
          BY <3>4, <4>5, <4>7 DEF Known
      <3> QED
        BY <2>1, <2>2, <2>3, <3>2, <3>3, <3>4 DEF Footprint, Own
    <2> QED
      BY <2>4, <2>5
  <1> QED
    BY <1>1, <1>2, <1>3 DEF Leaving

\* of a close,
LEMMA ClosingOwn ==
    ASSUME OwnCloseInv, NEW s \in Conn, NEW p \in Proc, p = Listener(s), Closing(p)
    PROVE  Footprint(s) /\ Own(s)' /\ (Known(s) => Known(s)')
  <1>0. /\ proc \in [Proc -> Local] /\ proc[p] \in Local /\ Own(s) /\ s = Sock(p) /\ s \in SocketID
        /\ Closer(s) \in Proc \ {p} /\ ChannelsType(Channels) /\ life \in [Conn -> Life]
        /\ tracked \in [Conn -> SUBSET ChannelName]
        /\ presence \in [Conn -> [ChannelName -> UserID \cup {NoUser}]]
    BY ProcFacts DEF OwnCloseInv, CloseInv, TypeOK, Conn
  <1>1. CASE CopyChannels(p)
    <2>1. proc[p].pc = "copy" /\ UNCHANGED <<Channels, Sockets, tracked, life, presence>>
      BY <1>1 DEF CopyChannels, At, ns, sock
    <2>2. \A r \in Proc \ {p} : proc'[r] = proc[r]
      BY <1>0, <1>1 DEF CopyChannels
    <2>3. proc'[p].pc = "unsubscribe" /\ proc'[p].closing /\ proc'[p].todo = tracked[s]
      BY <1>0, <1>1 DEF CopyChannels, Local
    <2>4. Covered(s)'
      BY <1>0, <2>1, <2>3, KeptCases DEF Own, Covered, Kept, Serving
    <2>5. ListenerCloses(s)' /\ ClosingFlag(s)'
      BY <1>0, <2>1, <2>2, <2>3 DEF Own, ListenerCloses, ClosingFlag, Left
    <2>6. Exact(s) => Exact(s)'
      BY <1>0, <2>1, <2>3, KeptCases DEF Exact, Kept, Serving
    <2>7. MemberKnown(s)'
      BY <2>3 DEF MemberKnown, Serving, Joined, Left
    <2> QED
      BY <2>1, <2>2, <2>4, <2>5, <2>6, <2>7 DEF Footprint, Own, Known
  <1>2. ASSUME NEW c \in ChannelName, UnsubscribeOne(p, c)
        PROVE  Footprint(s) /\ Own(s)' /\ (Known(s) => Known(s)')
    <2>1. /\ proc[p].pc = "unsubscribe" /\ c \in proc[p].todo
          /\ UNCHANGED <<Channels, Sockets, tracked, life, presence>>
      BY <1>2 DEF UnsubscribeOne, At, ns, sock
    <2>2. \A r \in Proc \ {p} : proc'[r] = proc[r]
      BY <1>0, <1>2 DEF UnsubscribeOne
    <2>3. /\ proc'[p].pc = "leave" /\ proc'[p].closing = proc[p].closing
          /\ proc'[p].todo = proc[p].todo \ {c} /\ proc'[p].chan = c
      BY <1>0, <1>2 DEF UnsubscribeOne, Local
    <2>4. proc[p].closing /\ proc'[p].closing
      BY <1>0, <2>1, <2>3 DEF Own, ClosingFlag
    <2>5. Covered(s)'
      BY <1>0, <2>1, <2>3, <2>4, KeptCases DEF Own, Covered, Kept
    <2>6. ListenerCloses(s)' /\ ClosingFlag(s)'
      BY <1>0, <2>1, <2>2, <2>3 DEF Own, ListenerCloses, ClosingFlag, Left
    <2>7. Exact(s) => Exact(s)'
      BY <1>0, <2>1, <2>3, <2>4, KeptCases DEF Exact, Kept
    <2>8. MemberKnown(s)'
      BY <2>3, <2>4 DEF MemberKnown, Serving, Joined, Left
    <2> QED
      BY <2>1, <2>2, <2>5, <2>6, <2>7, <2>8 DEF Footprint, Own, Known
  <1>3. CASE DropMap(p)
    <2>1. /\ proc[p].pc = "unsubscribe" /\ proc[p].todo = {}
          /\ UNCHANGED <<Channels, Sockets, life, presence>>
      BY <1>3 DEF DropMap, At, ns
    <2>2. \A r \in Proc \ {p} : proc'[r] = proc[r]
      BY <1>0, <1>3 DEF DropMap, Finish
    <2>3. proc'[p].pc = "lock" /\ ~proc'[p].closing
      BY <1>0, <1>3 DEF DropMap, Finish, Resting
    <2>4. tracked'[s] = {} /\ \A t \in Conn \ {s} : tracked'[t] = tracked[t]
      BY <1>0, <1>3 DEF DropMap
    <2>5. Covered(s)'
      BY <1>0, <2>1, <2>3, KeptCases DEF Own, Covered, Kept
    <2>6. ListenerCloses(s)' /\ ClosingFlag(s)'
      BY <1>0, <2>1, <2>2, <2>3 DEF Own, ListenerCloses, ClosingFlag, Left
    <2>7. Exact(s)'
      BY <2>3, <2>4, KeptCases DEF Exact, Kept
    <2>8. MemberKnown(s)'
      BY <2>3 DEF MemberKnown, Serving, Joined, Left
    <2> QED
      BY <2>1, <2>2, <2>4, <2>5, <2>6, <2>7, <2>8 DEF Footprint, Own, Known
  <1>4. CASE LockSocket(p)
    <2>1. proc[p].pc = "lock" /\ UNCHANGED <<Channels, Sockets, tracked, life, presence>>
      BY <1>4 DEF LockSocket, At, ns, sock
    <2>2. \A r \in Proc \ {p} : proc'[r] = proc[r]
      BY <1>0, <1>4 DEF LockSocket, Goto
    <2>3. proc'[p].pc = "remove" /\ proc'[p].closing = proc[p].closing
      BY <1>0, <1>4 DEF LockSocket, Goto, Local
    <2>4. Covered(s)'
      BY <1>0, <2>1, <2>3, KeptCases DEF Own, Covered, Kept
    <2>5. ListenerCloses(s)' /\ ClosingFlag(s)'
      BY <1>0, <2>1, <2>2, <2>3 DEF Own, ListenerCloses, ClosingFlag, Left
    <2>6. Exact(s) => Exact(s)'
      BY <2>1, <2>3, KeptCases DEF Exact, Kept
    <2>7. MemberKnown(s)'
      BY <2>3 DEF MemberKnown, Serving, Joined, Left
    <2> QED
      BY <2>1, <2>2, <2>4, <2>5, <2>6, <2>7 DEF Footprint, Own, Known
  <1>5. CASE RemoveSocket(p)
    <2>1. proc[p].pc = "remove" /\ UNCHANGED <<tracked, life, presence>>
      BY <1>5 DEF RemoveSocket, At, sock
    <2>2. life[s] # "cleaned" /\ s \in Sockets
      BY <1>0, <2>1 DEF Own, ListenerCloses
    <2>3. Channels' = DropFromChannels(Channels, s, DOMAIN Channels) /\ Sockets' = Sockets \ {s}
      BY <1>0, <1>5, <2>2 DEF RemoveSocket, RemoveSocketChannels, NilServer
    <2>4. \A r \in Proc \ {p} : proc'[r] = proc[r]
      BY <1>0, <1>5 DEF RemoveSocket, Goto
    <2>5. proc'[p].pc = "hangup" /\ proc'[p].closing = proc[p].closing
      BY <1>0, <1>5 DEF RemoveSocket, Goto, Local
    <2>6. \A t \in SocketID, d \in ChannelName :
            IsInChannel(Channels', t, d) <=>
                IsInChannel(Channels, t, d) /\ ~(t = s /\ d \in DOMAIN Channels)
      BY <1>0, <2>3, DroppedIsNoMember
    <2>7. Covered(s)'
      BY <1>0, <2>6 DEF Covered, IsInChannel
    <2>8. ListenerCloses(s)' /\ ClosingFlag(s)'
      BY <1>0, <2>1, <2>3, <2>4, <2>5 DEF Own, ListenerCloses, ClosingFlag, Left
    <2>9. Exact(s) => Exact(s)'
      BY <2>1, <2>5, KeptCases DEF Exact, Kept
    <2>10. MemberKnown(s)'
      BY <2>5 DEF MemberKnown, Serving, Joined, Left
    <2> QED
      BY <2>1, <2>3, <2>4, <2>6, <2>7, <2>8, <2>9, <2>10 DEF Footprint, Own, Known
  <1>6. CASE HangUp(p)
    <2>1. proc[p].pc = "hangup" /\ UNCHANGED <<Channels, Sockets, tracked, presence>>
      BY <1>6 DEF HangUp, At, ns
    <2>2. life[s] \notin {"shut", "cleaned"}
      BY <1>0, <2>1 DEF Own, ListenerCloses
    <2>3. life'[s] \in {"hungup", "hungupFailed"} /\ \A t \in Conn \ {s} : life'[t] = life[t]
      BY <1>0, <1>6, <2>2 DEF HangUp
    <2>4. \A r \in Proc \ {p} : proc'[r] = proc[r]
      BY <1>0, <1>6 DEF HangUp, Goto
    <2>5. proc'[p].pc = "cleanup" /\ proc'[p].closing = proc[p].closing
      BY <1>0, <1>6 DEF HangUp, Goto, Local
    <2>6. Covered(s)'
      BY <1>0, <2>1, <2>5, KeptCases DEF Own, Covered, Kept
    <2>7. ListenerCloses(s)' /\ ClosingFlag(s)'
      BY <1>0, <2>1, <2>3, <2>4, <2>5 DEF Own, ListenerCloses, ClosingFlag, Left
    <2>8. Exact(s) => Exact(s)'
      BY <2>1, <2>5, KeptCases DEF Exact, Kept
    <2>9. MemberKnown(s)'
      BY <2>5 DEF MemberKnown, Serving, Joined, Left
    <2> QED
      BY <2>1, <2>3, <2>4, <2>6, <2>7, <2>8, <2>9 DEF Footprint, Own, Known
  <1>7. CASE Cleanup(p)
    <2>1. proc[p].pc = "cleanup" /\ UNCHANGED <<Channels, Sockets>>
      BY <1>7 DEF Cleanup, At, ns
    <2>2. life'[s] \notin {"hungup", "hungupFailed"}
      BY <1>0, <1>7 DEF Cleanup
    <2>3. \A t \in Conn \ {s} : /\ life'[t] = life[t] /\ tracked'[t] = tracked[t]
                                /\ presence'[t] = presence[t]
      BY <1>0, <1>7 DEF Cleanup
    <2>4. \A r \in Proc \ {p} : proc'[r] = proc[r]
      BY <1>0, <1>7 DEF Cleanup, Finish
    <2>5. proc'[p].pc = "exited" /\ ~proc'[p].closing
      BY <1>0, <1>7 DEF Cleanup, Finish, Resting
    <2>6. Covered(s)'
      BY <1>0, <2>1, KeptCases DEF Own, Covered, Kept
    <2>7. ListenerCloses(s)' /\ ClosingFlag(s)'
      BY <1>0, <2>1, <2>2, <2>4, <2>5 DEF Own, ListenerCloses, ClosingFlag, Left
    <2>8. tracked'[s] \in {tracked[s], {}}
      BY <1>0, <1>7 DEF Cleanup
    <2>9. Exact(s) => Exact(s)'
      BY <2>1, <2>5, <2>8, KeptCases DEF Exact, Kept
    <2>10. MemberKnown(s)'
      BY <2>5 DEF MemberKnown, Serving, Joined, Left
    <2> QED
      BY <2>1, <2>3, <2>4, <2>6, <2>7, <2>9, <2>10 DEF Footprint, Own, Known
  <1> QED
    BY <1>1, <1>2, <1>3, <1>4, <1>5, <1>6, <1>7 DEF Closing

\* and what clients and the network do.
LEMMA EnvironmentOwn ==
    ASSUME OwnCloseInv, NEW s \in Conn, ~Panic, LoopTop(s) \/ Environment(s), Evicted = {}
    PROVE  Footprint(s) /\ Own(s)' /\ (Known(s) => Known(s)')
  <1>0. /\ proc \in [Proc -> Local] /\ Own(s) /\ s \in SocketID /\ life \in [Conn -> Life]
        /\ Unborn /\ Listener(s) \in Proc /\ Closer(s) \in Proc \ {Listener(s)}
        /\ tracked \in [Conn -> SUBSET ChannelName]
        /\ \A t \in SocketID, c \in ChannelName : IsInChannel(Channels, t, c) => t \in Sockets
    BY ProcFacts, GhostFree DEF OwnCloseInv, CloseInv, TypeOK, Conn
  <1>1. PICK p \in Proc : p = Listener(s)
    BY <1>0
  <1>2. CASE \/ LoopTop(s) \/ FrameTooLarge(s) \/ ReadError(s)
             \/ \E c \in ChannelName : SubscribeRequest(s, c)
    <2>1. proc[p].pc \in {"top", "read"} /\ UNCHANGED <<Channels, Sockets, tracked, life, presence>>
      BY <1>1, <1>2 DEF LoopTop, FrameTooLarge, ReadError, SubscribeRequest, At, ns, sock
    <2>2. PICK l \in {"read", "exited", "copy", "count", "join"} :
                \/ proc' = [proc EXCEPT ![p].pc = l]
                \/ \E c \in ChannelName : proc' = [proc EXCEPT ![p].chan = c, ![p].pc = l]
      BY <1>1, <1>2 DEF LoopTop, FrameTooLarge, ReadError, SubscribeRequest, Goto
    <2>3. /\ \A r \in Proc \ {p} : proc'[r] = proc[r]
          /\ proc'[p].pc = l /\ proc'[p].closing = proc[p].closing
      BY <1>0, <2>2 DEF Local
    <2>4. ~proc[p].closing
      BY <1>0, <1>1, <2>1 DEF Own, ClosingFlag, Left
    <2>5. proc[p].pc \in Serving /\ l \in Serving \cup {"exited"}
      BY <2>1, <2>2 DEF Serving
    <2>6. Own(s)' /\ (Exact(s) => Exact(s)')
      BY <1>0, <1>1, <2>1, <2>3, <2>4, <2>5, ServingOwn DEF SameSocket
    <2>7. MemberKnown(s) => MemberKnown(s)'
      BY <1>1, <2>1, <2>2, <2>3, <2>4, <2>5, ServingKnown DEF Waiting
    <2> QED
      BY <1>1, <2>1, <2>3, <2>6, <2>7 DEF Footprint, Known
  <1>3. ASSUME NEW c \in ChannelName, UnsubscribeRequest(s, c)
        PROVE  Footprint(s) /\ Own(s)' /\ (Known(s) => Known(s)')
    <2>1. proc[p].pc = "read" /\ UNCHANGED <<Channels, Sockets, tracked, life, presence>>
      BY <1>1, <1>3 DEF UnsubscribeRequest, At, ns, sock
    <2>2. proc' = [proc EXCEPT ![p].chan = c, ![p].pc = "leave"]
      BY <1>1, <1>3 DEF UnsubscribeRequest
    <2>3. /\ \A r \in Proc \ {p} : proc'[r] = proc[r]
          /\ proc'[p].pc = "leave" /\ proc'[p].chan = c /\ proc'[p].closing = proc[p].closing
      BY <1>0, <2>2 DEF Local
    <2>4. ~proc[p].closing
      BY <1>0, <1>1, <2>1 DEF Own, ClosingFlag, Left
    <2>5. Covered(s)'
      BY <1>0, <1>1, <2>1, <2>3, <2>4, KeptCases DEF Own, Covered, Kept, Serving
    <2>6. ListenerCloses(s)' /\ ClosingFlag(s)'
      BY <1>0, <1>1, <2>1, <2>3 DEF Own, ListenerCloses, ClosingFlag, Left
    <2>7. Exact(s) => Exact(s)'
      BY <1>1, <2>1, <2>3, <2>4, KeptCases DEF Exact, Kept, Serving
    <2>8. c \in tracked[s]
      BY <1>3 DEF UnsubscribeRequest
    <2>9. MemberKnown(s) => MemberKnown(s)'
      BY <1>1, <2>1, <2>3, <2>4, <2>8 DEF MemberKnown, Serving
    <2> QED
      BY <1>1, <2>1, <2>3, <2>5, <2>6, <2>7, <2>9 DEF Footprint, Own, Known
  <1>4. CASE Connect(s)
    <2>1. /\ proc[p].pc = "none" /\ UNCHANGED <<Channels, tracked, presence>>
          /\ Sockets' = Sockets \cup {s}
      BY <1>0, <1>1, <1>4 DEF Connect, Unborn
    <2>2. life'[s] = "open" /\ \A t \in Conn \ {s} : life'[t] = life[t]
      BY <1>0, <1>4 DEF Connect
    <2>3. /\ \A r \in Proc \ {p} : proc'[r] = proc[r]
          /\ proc'[p].pc = "top" /\ proc'[p].closing = proc[p].closing
      BY <1>0, <1>1, <1>4 DEF Connect, Goto, Local
    <2>4. Covered(s)'
      BY <1>0, <1>1, <2>1, <2>3, KeptCases DEF Own, Covered, Kept, Serving
    <2>5. ListenerCloses(s)' /\ ClosingFlag(s)'
      BY <1>0, <1>1, <2>1, <2>2, <2>3 DEF Own, ListenerCloses, ClosingFlag, Left
    <2>6. Exact(s) => Exact(s)'
      BY <1>1, <2>1, <2>3, KeptCases DEF Exact, Kept, Serving
    <2>7. ASSUME Exact(s) PROVE MemberKnown(s)'
      <3>1. \A c \in tracked[s] : IsInChannel(Channels, s, c)
        BY <1>0, <1>1, <2>1, <2>7, KeptCases DEF Exact, Kept
      <3>2. s \notin Sockets
        BY <1>0, <1>4 DEF Connect, Unborn
      <3>3. tracked'[s] = {}
        BY <1>0, <2>1, <3>1, <3>2
      <3> QED
        BY <1>1, <2>3, <3>3 DEF MemberKnown
    <2> QED
      BY <1>1, <2>1, <2>2, <2>3, <2>4, <2>5, <2>6, <2>7 DEF Footprint, Own, Known
  <1>5. CASE SendFails(s)
    <2>1. UNCHANGED <<Channels, Sockets, tracked, presence, proc>>
      BY <1>5 DEF SendFails, ns
    <2>2. life'[s] = "failed" /\ \A t \in Conn \ {s} : life'[t] = life[t]
      BY <1>0, <1>5 DEF SendFails
    <2>3. Covered(s)'
      BY <1>0, <2>1 DEF Own, Covered, Kept
    <2>4. ListenerCloses(s)' /\ ClosingFlag(s)'
      BY <1>0, <2>1, <2>2 DEF Own, ListenerCloses, ClosingFlag
    <2>5. Known(s) => Known(s)'
      BY <2>1 DEF Known, Exact, MemberKnown, Kept
    <2> QED
      BY <2>1, <2>2, <2>3, <2>4, <2>5 DEF Footprint, Own
  <1> QED
    BY <1>2, <1>3, <1>4, <1>5 DEF Environment, CloserStarts

\* Only the listener of a socket moves.
LEMMA ListenerMoves ==
    ASSUME OwnCloseInv, NEW p \in Proc, Progress(p)
    PROVE  p = Listener(Sock(p))
  <1>1. proc[p].pc # "none"
    <2>1. CASE Subscribing(p)
      BY <2>1 DEF Subscribing, CountMembers, CountOne, LimitReached, BelowLimit, Join, Recount,
         Track, Notify, BeginScan, ScanOne, EndScan, SetPresenceData, AnnounceAdded, At
    <2>2. CASE Leaving(p)
      BY <2>2 DEF Leaving, Leave, Remaining, LeaverMember, ForgetPresenceData, BeginScan, EndScan,
         LeaverUnknown, AnnounceRemoved, Vacate, Untrack, At
    <2>3. CASE Closing(p)
      BY <2>3 DEF Closing, CopyChannels, UnsubscribeOne, DropMap, LockSocket, RemoveSocket, HangUp,
         Cleanup, At
    <2> QED
      BY <2>1, <2>2, <2>3 DEF Progress
  <1> QED
    BY <1>1, ProcFacts DEF OwnCloseInv, Own, ListenerCloses

\* The steps that leave the namespace and l.mutex alone.
LEMMA OtherSteps ==
    ASSUME NEW p \in Proc, Progress(p), ~Panic, ~Join(p), ~Leave(p), ~RemoveSocket(p), ~ScanOne(p),
           ~BeginScan(p, "members", "scan"), ~BeginScan(p, "stayers", "lscan"),
           ~EndScan(p, "scan", "setdata"), ~EndScan(p, "lscan", "depart")
    PROVE  UNCHANGED <<Channels, Sockets, lockL>> /\ proc[p].pc \notin {"scan", "lscan"}
  <1>1. CASE Subscribing(p)
    BY <1>1 DEF Subscribing, CountMembers, CountOne, ReadMember, LimitReached, BelowLimit, Recount,
       Track, Notify, SetPresenceData, AnnounceAdded, At, ns, locks
  <1>2. CASE Leaving(p)
    BY <1>2 DEF Leaving, Remaining, LeaverMember, ForgetPresenceData, LeaverUnknown,
       AnnounceRemoved, Vacate, Untrack, At, ns, locks
  <1>3. CASE Closing(p)
    BY <1>3 DEF Closing, CopyChannels, UnsubscribeOne, DropMap, LockSocket, HangUp, Cleanup, At,
       ns, locks
  <1> QED
    BY <1>1, <1>2, <1>3 DEF Progress

\* The same of the next state.
LEMMA GhostFreeNext ==
    ChannelsType(Channels') =>
        (NoGhostSubscriber' <=>
            \A t \in SocketID, c \in ChannelName : IsInChannel(Channels', t, c) => t \in Sockets')
  BY DEF NoGhostSubscriber, IsInChannel, ChannelsType

\* A goroutine whose step changes the namespace holds l.mutex for no scan.
LEMMA NoScanIsFresh ==
    ASSUME CloseInv', lockL' = NoProc
    PROVE  ScanIsFresh'
  <1>1. \A r \in Proc : proc'[r].pc \notin {"scan", "lscan"}
    BY SubscriptionAssumption DEF CloseInv, LockRule
  <1> QED
    BY <1>1 DEF ScanIsFresh

\* A listener's step brings no ID without a socket into a channel's list, and
\* takes none of the sockets that are being scanned out of it.
LEMMA NamespaceStep ==
    ASSUME OwnCloseInv, CloseInv', NEW s \in Conn, NEW p \in Proc, p = Listener(s), ~Panic,
           Progress(p), \A r \in Proc \ {p} : proc'[r] = proc[r]
    PROVE  NoGhostSubscriber' /\ ScanIsFresh'
  <1>0. /\ proc \in [Proc -> Local] /\ proc[p] \in Local /\ Own(s) /\ s = Sock(p) /\ s \in SocketID
        /\ ChannelsType(Channels) /\ ChannelsType(Channels') /\ LockRule /\ ScanIsFresh
        /\ LockRule' /\ Sockets \subseteq SocketID
        /\ \A t \in SocketID, c \in ChannelName : IsInChannel(Channels, t, c) => t \in Sockets
    BY ProcFacts, GhostFree DEF OwnCloseInv, CloseInv, TypeOK, Conn
  <1>1. CASE Join(p)
    <2>1. PICK c \in ChannelName : c = proc[p].chan
      BY <1>0 DEF Local
    <2>2. proc[p].pc = "join" /\ Sockets' = Sockets /\ lockL' = NoProc
      BY <1>1 DEF Join, At, FreeL, locks
    <2>3. life[s] # "cleaned" /\ s \in Sockets
      BY <1>0, <2>2 DEF Own, ListenerCloses
    <2>4. Channels' = AddToChannel(Channels, s, c)
      BY <1>0, <1>1, <2>1, <2>3 DEF Join, NilServer
    <2>5. \A t \in SocketID, d \in ChannelName : IsInChannel(Channels', t, d) => t \in Sockets'
      BY <1>0, <2>2, <2>3, <2>4, AddedIsMember
    <2> QED
      BY <1>0, <2>2, <2>5, GhostFreeNext, NoScanIsFresh
  <1>2. CASE Leave(p)
    <2>1. Sockets' = Sockets /\ lockL' = NoProc
      BY <1>2 DEF Leave, FreeL, locks
    <2>2. Channels' = DropFromChannels(Channels, s, {proc[p].chan})
      BY <1>0, <1>2 DEF Leave, RemoveFromChannel
    <2>3. \A t \in SocketID, d \in ChannelName : IsInChannel(Channels', t, d) => t \in Sockets'
      BY <1>0, <2>1, <2>2, DroppedIsNoMember
    <2> QED
      BY <1>0, <2>1, <2>3, GhostFreeNext, NoScanIsFresh
  <1>3. CASE RemoveSocket(p)
    <2>1. life[s] # "cleaned" /\ s \in Sockets
      BY <1>0, <1>3 DEF Own, ListenerCloses, RemoveSocket, At
    <2>2. /\ Channels' = DropFromChannels(Channels, s, DOMAIN Channels)
          /\ Sockets' = Sockets \ {s} /\ lockL' = NoProc
      BY <1>0, <1>3, <2>1 DEF RemoveSocket, RemoveSocketChannels, NilServer, FreeL, locks
    <2>3. \A t \in SocketID, d \in ChannelName :
            IsInChannel(Channels', t, d) =>
                IsInChannel(Channels, t, d) /\ ~(t = s /\ d \in DOMAIN Channels)
      BY <1>0, <2>2, DroppedIsNoMember
    <2>4. \A t \in SocketID, d \in ChannelName : IsInChannel(Channels', t, d) => t \in Sockets'
      BY <1>0, <2>2, <2>3 DEF IsInChannel
    <2> QED
      BY <1>0, <2>2, <2>4, GhostFreeNext, NoScanIsFresh
  <1>4. CASE EndScan(p, "scan", "setdata") \/ EndScan(p, "lscan", "depart")
    <2>1. UNCHANGED <<Channels, Sockets>> /\ lockL' = NoProc
      BY <1>4 DEF EndScan, ns
    <2> QED
      BY <1>0, <2>1, GhostFreeNext, NoScanIsFresh
  <1>5. CASE BeginScan(p, "members", "scan") \/ BeginScan(p, "stayers", "lscan")
    <2>1. UNCHANGED <<Channels, Sockets>> /\ lockL' = p
      BY <1>5 DEF BeginScan, ns
    <2>2. \A r \in Proc \ {p} : proc'[r].pc \notin {"scan", "lscan"}
      BY <1>0, <2>1 DEF LockRule
    <2>3. proc'[p].chan = proc[p].chan /\ proc'[p].scan = Subscribers(proc[p].chan)
      BY <1>0, <1>5 DEF BeginScan, Local
    <2>4. \A t \in proc'[p].scan : IsInChannel(Channels', t, proc'[p].chan)
      BY <2>1, <2>3 DEF Subscribers, GetChannelSockets, IsInChannel
    <2>5. ScanIsFresh'
      BY <2>2, <2>4 DEF ScanIsFresh
    <2> QED
      BY <1>0, <2>1, <2>5, GhostFreeNext
  <1>6. CASE ScanOne(p)
    <2>1. PICK t \in proc[p].scan : ReadMember(p, t)
      BY <1>6 DEF ScanOne
    <2>2. UNCHANGED <<Channels, Sockets>> /\ proc[p].pc \in {"scan", "lscan"}
      BY <1>6, <2>1 DEF ScanOne, ReadMember, At, ns
    <2>3. proc'[p].chan = proc[p].chan /\ proc'[p].scan \subseteq proc[p].scan
      BY <1>0, <2>1 DEF ReadMember, Local
    <2>4. ScanIsFresh'
      BY <1>0, <2>2, <2>3 DEF ScanIsFresh
    <2> QED
      BY <1>0, <2>2, <2>4, GhostFreeNext
  <1>7. CASE UNCHANGED <<Channels, Sockets, lockL>> /\ proc[p].pc \notin {"scan", "lscan"}
    <2>1. proc'[p].pc \notin {"scan", "lscan"}
      BY <1>0, <1>7 DEF LockRule
    <2>2. ScanIsFresh'
      BY <1>0, <1>7, <2>1 DEF ScanIsFresh
    <2> QED
      BY <1>0, <1>7, <2>2, GhostFreeNext
  <1> QED
    BY <1>1, <1>2, <1>3, <1>4, <1>5, <1>6, <1>7, OtherSteps

\* Nor does a step of a client or of the network.
LEMMA NamespaceStill ==
    ASSUME OwnCloseInv, CloseInv', NEW s \in Conn, LoopTop(s) \/ Environment(s), Evicted = {},
           ~Panic, \A r \in Proc \ {Listener(s)} : proc'[r] = proc[r]
    PROVE  NoGhostSubscriber' /\ ScanIsFresh'
  <1>0. /\ ChannelsType(Channels) /\ ChannelsType(Channels') /\ LockRule /\ LockRule' /\ ScanIsFresh
        /\ \A t \in SocketID, c \in ChannelName : IsInChannel(Channels, t, c) => t \in Sockets
        /\ Listener(s) \in Proc /\ Unborn
    BY ProcFacts, GhostFree DEF OwnCloseInv, CloseInv, TypeOK, Conn
  <1>1. Channels' = Channels /\ Sockets \subseteq Sockets' /\ lockL' = lockL
    BY DEF LoopTop, Environment, Connect, FrameTooLarge, SendFails, SubscribeRequest,
       UnsubscribeRequest, ReadError, CloserStarts, ns, locks
  <1>2. CASE SendFails(s)
    <2>1. proc' = proc
      BY <1>2 DEF SendFails
    <2>2. ScanIsFresh'
      BY <1>0, <1>1, <2>1 DEF ScanIsFresh
    <2> QED
      BY <1>0, <1>1, <2>2, GhostFreeNext
  <1>3. CASE ~SendFails(s)
    <2>1. proc[Listener(s)].pc \in {"none", "top", "read"}
      BY <1>0, <1>3 DEF LoopTop, Environment, Connect, FrameTooLarge, SubscribeRequest,
         UnsubscribeRequest, ReadError, CloserStarts, At, Unborn
    <2>2. proc'[Listener(s)].pc \notin {"scan", "lscan"}
      BY <1>0, <1>1, <2>1 DEF LockRule
    <2>3. ScanIsFresh'
      BY <1>0, <1>1, <2>2 DEF ScanIsFresh
    <2> QED
      BY <1>0, <1>1, <2>3, GhostFreeNext
  <1> QED
    BY <1>2, <1>3

\* The rules hold at first,
LEMMA InitOwn == Init => OwnCloseInv
  <1> SUFFICES ASSUME Init PROVE OwnCloseInv
    OBVIOUS
  <1>1. \A s \in Conn : ListenerCloses(s) /\ ClosingFlag(s)
    BY ProcFacts DEF Init, ListenerCloses, ClosingFlag, Resting, Left
  <1>2. \A s \in Conn : Covered(s)
    BY DEF Init, Covered, IsInChannel, NoChannels
  <1>3. NoGhostSubscriber /\ ScanIsFresh
    BY DEF Init, NoGhostSubscriber, NoChannels, ScanIsFresh, Resting
  <1> QED
    BY <1>1, <1>2, <1>3, InitClose DEF OwnCloseInv, Own

\* and a step keeps them when no goroutine but the listener closes a socket.
LEMMA NextOwn ==
    ASSUME Evicted = {}, OwnCloseInv, [Next]_vars
    PROVE  OwnCloseInv'
  <1>1. CloseInv'
    BY NextClose DEF OwnCloseInv
  <1>2. CASE UNCHANGED <<Channels, Sockets, tracked, life, proc>>
    <2>1. \A t \in Conn : Own(t)'
      BY <1>2 DEF OwnCloseInv, Own, ListenerCloses, ClosingFlag, Covered, Kept
    <2>2. NoGhostSubscriber' /\ ScanIsFresh'
      BY <1>2 DEF OwnCloseInv, NoGhostSubscriber, ScanIsFresh
    <2> QED
      BY <1>1, <2>1, <2>2 DEF OwnCloseInv
  <1>3. CASE Panic \/ UNCHANGED vars
    BY <1>2, <1>3 DEF Panic, vars, ns, sock
  <1>4. ASSUME NEW p \in Proc, Progress(p), ~Panic
        PROVE  OwnCloseInv'
    <2>1. PICK s \in Conn : s = Sock(p) /\ p = Listener(s)
      BY <1>4, ListenerMoves, ProcFacts
    <2>2. Footprint(s) /\ Own(s)'
      BY <1>4, <2>1, SubscribingOwn, LeavingStepOwn, ClosingOwn DEF Progress
    <2>3. NoGhostSubscriber' /\ ScanIsFresh'
      BY <1>1, <1>4, <2>1, <2>2, NamespaceStep DEF Footprint
    <2>4. \A t \in Conn : Own(t)'
      BY <2>2, FrameOwn DEF OwnCloseInv
    <2> QED
      BY <1>1, <2>3, <2>4 DEF OwnCloseInv
  <1>5. ASSUME NEW s \in Conn, LoopTop(s) \/ Environment(s), ~Panic
        PROVE  OwnCloseInv'
    <2>1. Footprint(s) /\ Own(s)'
      BY <1>5, EnvironmentOwn
    <2>2. NoGhostSubscriber' /\ ScanIsFresh'
      BY <1>1, <1>5, <2>1, NamespaceStill DEF Footprint
    <2>3. \A t \in Conn : Own(t)'
      BY <2>1, FrameOwn DEF OwnCloseInv
    <2> QED
      BY <1>1, <2>2, <2>3 DEF OwnCloseInv
  <1> QED
    BY <1>3, <1>4, <1>5 DEF Next, Done

\* When only listeners close their sockets, a socket is in no channel that its
\* listener will not leave, and a scan sees only sockets that are in the channel.
THEOREM OwnCloseInvHolds ==
    ASSUME Evicted = {}
    PROVE  Spec => []OwnCloseInv
  <1>1. OwnCloseInv /\ [Next]_vars => OwnCloseInv'
    BY NextOwn
  <1> QED
    BY <1>1, InitOwn, PTL DEF Spec

(***************************************************************************)
(* unsubscribeFromAllChannels "safely gathers channels before              *)
(* unsubscribing to avoid deadlocks" (websocket.go:889), and it does: when *)
(* only listeners close their sockets, one that waits for l.mutex with its *)
(* w.mutex held is in no channel, so no scan waits for that w.mutex.       *)
(***************************************************************************)
THEOREM NoLockCycleHolds ==
    ASSUME Evicted = {}
    PROVE  Spec => []NoLockCycle
  <1>1. OwnCloseInv => NoLockCycle
    <2> SUFFICES ASSUME OwnCloseInv, NEW p \in Proc, lockL # NoProc, proc[p].pc = "remove",
                        Sock(p) \in proc[lockL].scan
                 PROVE  FALSE
      BY DEF NoLockCycle
    <2>1. PICK r \in Proc : r = lockL
      BY DEF OwnCloseInv, CloseInv, TypeOK
    <2>2. proc[r].pc \in {"scan", "lscan"} /\ proc[r].chan \in ChannelName
      BY <2>1 DEF OwnCloseInv, CloseInv, LockRule, TypeOK, Local
    <2>3. IsInChannel(Channels, Sock(p), proc[r].chan)
      BY <2>1, <2>2 DEF OwnCloseInv, ScanIsFresh
    <2>4. p = Listener(Sock(p)) /\ Sock(p) \in Conn /\ Own(Sock(p))
      BY ProcFacts DEF OwnCloseInv, Own, ListenerCloses
    <2>5. Kept(Sock(p)) = {}
      BY <2>4, KeptCases DEF Kept
    <2> QED
      BY <2>2, <2>3, <2>4, <2>5 DEF Own, Covered
  <1> QED
    BY <1>1, OwnCloseInvHolds, PTL

-----------------------------------------------------------------------------
(* The maps agree.                                                         *)

\* At first the maps are empty,
LEMMA InitAgree ==
    ASSUME \A s \in Conn : Member[s] # NoUser, Init
    PROVE  AgreeInv
  <1>1. \A s \in Conn : tracked[s] = {} /\ proc[Listener(s)].pc = "none"
    BY ProcFacts DEF Init, Resting
  <1>2. \A s \in Conn : Exact(s) /\ MemberKnown(s)
    BY <1>1, KeptCases DEF Exact, Kept, MemberKnown, Serving, Joined, Left
  <1> QED
    BY <1>2, InitOwn DEF AgreeInv, Known

\* and every step keeps what a socket's listener knows of it.
LEMMA NextAgree ==
    ASSUME Evicted = {}, AgreeInv, [Next]_vars
    PROVE  AgreeInv'
  <1>0. OwnCloseInv /\ OwnCloseInv'
    BY NextOwn DEF AgreeInv
  <1>1. CASE UNCHANGED <<Channels, Sockets, tracked, presence, proc>>
    <2>1. \A t \in Conn : Known(t)'
      BY <1>1 DEF AgreeInv, Known, Exact, MemberKnown, Kept
    <2> QED
      BY <1>0, <2>1 DEF AgreeInv
  <1>2. CASE Panic \/ UNCHANGED vars
    BY <1>1, <1>2 DEF Panic, vars, ns, sock
  <1>3. ASSUME NEW p \in Proc, Progress(p), ~Panic
        PROVE  AgreeInv'
    <2>1. PICK s \in Conn : s = Sock(p) /\ p = Listener(s)
      BY <1>0, <1>3, ListenerMoves, ProcFacts
    <2>2. Footprint(s) /\ (Known(s) => Known(s)')
      BY <1>0, <1>3, <2>1, SubscribingOwn, LeavingStepOwn, ClosingOwn DEF Progress
    <2>3. \A t \in Conn : Known(t)'
      BY <2>2, FrameOwn DEF AgreeInv
    <2> QED
      BY <1>0, <2>3 DEF AgreeInv
  <1>4. ASSUME NEW s \in Conn, LoopTop(s) \/ Environment(s), ~Panic
        PROVE  AgreeInv'
    <2>1. Footprint(s) /\ (Known(s) => Known(s)')
      BY <1>0, <1>4, EnvironmentOwn
    <2>2. \A t \in Conn : Known(t)'
      BY <2>1, FrameOwn DEF AgreeInv
    <2> QED
      BY <1>0, <2>2 DEF AgreeInv
  <1> QED
    BY <1>2, <1>3, <1>4 DEF Next, Done

(***************************************************************************)
(* Between two requests of its client a socket's SubscribedChannels are    *)
(* exactly the channels whose lists hold its ID, and every ID in a list is *)
(* that of a socket of the namespace, for any number of clients that       *)
(* subscribe, repeat, leave and disconnect in any order (websocket.go:270, *)
(* 585-590, 951-953; namespace.go:162-284).  The two hypotheses are        *)
(* needed: a closer that is not the listener may come between AddToChannel *)
(* and the entry in SubscribedChannels, and a client without a user_id     *)
(* that leaves a presence channel stays in its own map (websocket.go:926). *)
(***************************************************************************)
THEOREM MapsAgreeHolds ==
    ASSUME Evicted = {}, \A s \in Conn : Member[s] # NoUser
    PROVE  Spec => []MapsAgree
  <1>1. Init => AgreeInv
    BY InitAgree
  <1>2. AgreeInv /\ [Next]_vars => AgreeInv'
    BY NextAgree
  <1>3. AgreeInv => MapsAgree
    <2> SUFFICES ASSUME AgreeInv PROVE MapsAgree
      OBVIOUS
    <2>1. TypeOK /\ NoGhostSubscriber
      BY DEF AgreeInv, OwnCloseInv, CloseInv
    <2>2. ASSUME NEW s \in Sockets, proc[Listener(s)].pc \in {"top", "read"}
          PROVE  tracked[s] = {c \in ChannelName : IsInChannel(Channels, s, c)}
      <3>1. s \in Conn /\ tracked[s] \subseteq ChannelName
        BY <2>1 DEF TypeOK
      <3>2. Kept(s) = tracked[s]
        BY <2>2, KeptCases DEF Kept, Serving
      <3>3. \A c \in ChannelName : IsInChannel(Channels, s, c) <=> c \in tracked[s]
        BY <3>1, <3>2 DEF AgreeInv, OwnCloseInv, Own, Covered, Known, Exact
      <3> QED
        BY <3>1, <3>3
    <2> QED
      BY <2>1, <2>2 DEF MapsAgree, TrackedIsSubscribed
  <1> QED
    BY <1>1, <1>2, <1>3, PTL DEF Spec

-----------------------------------------------------------------------------
(* Whatever closes a socket: channel_occupied of the plain channels.       *)

\* The goroutines that have seen the channel come into being and have not
\* sent channel_occupied yet.
Due(c) ==
    {p \in Proc : /\ proc[p].pc \in {"track", "notify"}
                  /\ proc[p].chan = c
                  /\ proc[p].edge}

\* A second count is for presence channels only.
RecountIsPresence ==
    \A p \in Proc : proc[p].pc = "recount" => proc[p].chan \in PresenceChannel

\* The inductive invariant: an entry without IDs would make the first to join
\* a channel look like the second.
OccupiedInv == CloseInv /\ NoEmptyChannel(Channels) /\ RecountIsPresence /\ PlainOccupiedOnce

\* There are finitely many goroutines,
LEMMA ProcFinite == IsFiniteSet(Proc)
  <1>1. IsFiniteSet(Conn)
    BY FiniteAssumption, FS_Subset DEF Conn
  <1>2. IsFiniteSet({"listener", "closer"})
    <2>1. IsFiniteSet({"listener"} \cup {"closer"})
      BY FS_Singleton, FS_AddElement
    <2>2. {"listener"} \cup {"closer"} = {"listener", "closer"}
      OBVIOUS
    <2> QED
      BY <2>1, <2>2
  <1> QED
    BY <1>1, <1>2, FS_Product DEF Proc

\* and finitely many places in a list.
LEMMA PlacesFinite ==
    ASSUME NEW list \in [SocketID -> Nat]
    PROVE  IsFiniteSet(Places(list))
  <1> DEFINE f == [s \in SocketID |-> {s} \X (1..list[s])]
             T == {{s} \X (1..list[s]) : s \in SocketID}
  <1>1. f \in Surjection(SocketID, T)
    BY DEF Surjection
  <1>2. IsFiniteSet(T)
    BY <1>1, FiniteAssumption, FS_Surjection
  <1>3. \A s \in SocketID : IsFiniteSet({s} \X (1..list[s]))
    <2> TAKE s \in SocketID
    <2>1. IsFiniteSet({s})
      BY FS_Singleton
    <2>2. list[s] \in Int /\ 1 \in Int
      OBVIOUS
    <2>3. IsFiniteSet(1..list[s])
      BY <2>2, FS_Interval
    <2> QED
      BY <2>1, <2>3, FS_Product
  <1>4. \A x \in T : IsFiniteSet(x)
    BY <1>3
  <1> QED
    BY <1>2, <1>4, FS_UNION DEF Places

\* The count that AddToChannel returns is 1 exactly when it made the list.
LEMMA FirstIsOne ==
    ASSUME NEW chs, ChannelsType(chs), NoEmptyChannel(chs), NEW s \in SocketID,
           NEW c \in ChannelName
    PROVE  (AddToChannelCount(chs, s, c) = 1) <=> (c \notin DOMAIN chs)
  <1> DEFINE old == ChannelList(chs, c)
             list == AddToChannel(chs, s, c)[c]
  <1>1. old \in [SocketID -> Nat]
    BY DEF ChannelList, ChannelsType, EmptyList
  <1>2. list = [old EXCEPT ![s] = @ + 1]
    BY DEF AddToChannel, Append1
  <1>3. list \in [SocketID -> Nat] /\ list[s] = old[s] + 1
    BY <1>1, <1>2
  <1>4. \A t \in SocketID \ {s} : list[t] = old[t]
    BY <1>1, <1>2
  <1>5. IsFiniteSet(Places(list))
    BY <1>3, PlacesFinite
  <1>6. AddToChannelCount(chs, s, c) = Cardinality(Places(list))
    BY DEF AddToChannelCount, ListLen
  <1> HIDE DEF old, list
  <1>7. ASSUME c \notin DOMAIN chs PROVE Cardinality(Places(list)) = 1
    <2>1. \A t \in SocketID : old[t] = 0
      BY <1>7 DEF old, ChannelList, EmptyList
    <2>2. list[s] = 1 /\ \A t \in SocketID \ {s} : list[t] = 0
      BY <1>3, <1>4, <2>1
    <2>3. \A t \in SocketID : {t} \X (1..list[t]) = IF t = s THEN {<<s, 1>>} ELSE {}
      <3> TAKE t \in SocketID
      <3>1. 1..1 = {1} /\ 1..0 = {}
        OBVIOUS
      <3> QED
        BY <2>2, <3>1
    <2>4. Places(list) = {<<s, 1>>}
      BY <2>3 DEF Places
    <2> QED
      BY <2>4, FS_Singleton
  <1>8. ASSUME c \in DOMAIN chs PROVE Cardinality(Places(list)) # 1
    <2>1. PICK t \in SocketID : old[t] > 0
      BY <1>8 DEF old, ChannelList, NoEmptyChannel, ListIsEmpty, Occurs
    <2>2. <<s, 1>> \in Places(list)
      <3>1. 1 \in 1..list[s]
        BY <1>1, <1>3
      <3> QED
        BY <3>1 DEF Places
    <2>3. \E x \in Places(list) : x # <<s, 1>>
      <3>1. CASE t = s
        <4>1. 2 \in 1..list[s]
          BY <1>1, <1>3, <2>1, <3>1
        <4>2. <<s, 2>> \in Places(list)
          BY <4>1 DEF Places
        <4> QED
          BY <4>2
      <3>2. CASE t # s
        <4>1. 1 \in 1..list[t]
          BY <1>1, <1>4, <2>1, <3>2
        <4>2. <<t, 1>> \in Places(list)
          BY <4>1 DEF Places
        <4> QED
          BY <3>2, <4>2
      <3> QED
        BY <3>1, <3>2
    <2> QED
      BY <1>5, <2>2, <2>3, FS_Singleton
  <1> QED
    BY <1>6, <1>7, <1>8

\* A step of p that is none of a subscribe's from AddToChannel to the webhook.
Aside(p) ==
    /\ \A r \in Proc \ {p} : proc'[r] = proc[r]
    /\ proc'[p] # proc[p] =>
            /\ proc[p].pc \notin {"track", "notify"}
            /\ proc'[p].pc \notin {"recount", "track", "notify"}
    /\ debt' = debt /\ crashed' = crashed

\* Such a step leaves what is owed alone.
LEMMA AsideKeeps ==
    ASSUME RecountIsPresence, PlainOccupiedOnce, NEW p \in Proc, Aside(p)
    PROVE  RecountIsPresence' /\ PlainOccupiedOnce'
  <1>1. RecountIsPresence'
    BY DEF RecountIsPresence, Aside
  <1>2. \A c \in ChannelName : Due(c)' = Due(c)
    BY DEF Due, Aside
  <1>3. PlainOccupiedOnce'
    BY <1>2 DEF PlainOccupiedOnce, OccupiedOnce, Due, Aside
  <1> QED
    BY <1>1, <1>3

\* The other steps of a subscribe,
LEMMA SubscribingAside ==
    ASSUME TypeOK, NEW p \in Proc, Subscribing(p), ~Panic, ~Join(p), ~Recount(p), ~Track(p),
           ~Notify(p)
    PROVE  Aside(p) /\ Channels' = Channels
  <1>0. proc \in [Proc -> Local] /\ proc[p] \in Local
    BY DEF TypeOK
  <1>1. CASE CountOne(p) \/ ScanOne(p)
    <2>1. PICK t \in proc[p].scan : ReadMember(p, t)
      BY <1>1 DEF CountOne, ScanOne
    <2>2. proc[p].pc \in {"counting", "scan", "lscan"}
      BY <1>1 DEF CountOne, ScanOne, At
    <2>3. proc'[p].pc = proc[p].pc /\ \A r \in Proc \ {p} : proc'[r] = proc[r]
      BY <1>0, <2>1 DEF ReadMember, Local
    <2>4. UNCHANGED <<Channels, debt, crashed>>
      BY <2>1 DEF ReadMember, ns, log
    <2> QED
      BY <2>2, <2>3, <2>4 DEF Aside
  <1>2. CASE CountMembers(p) \/ BeginScan(p, "members", "scan")
    <2>1. proc[p].pc \in {"count", "members"} /\ UNCHANGED <<Channels, debt, crashed>>
      BY <1>2 DEF CountMembers, BeginScan, At, ns, log
    <2>2. proc'[p].pc \in {"counting", "scan"} /\ \A r \in Proc \ {p} : proc'[r] = proc[r]
      BY <1>0, <1>2 DEF CountMembers, BeginScan, Local
    <2> QED
      BY <2>1, <2>2 DEF Aside
  <1>3. CASE \/ LimitReached(p) \/ BelowLimit(p) \/ EndScan(p, "scan", "setdata")
             \/ SetPresenceData(p) \/ AnnounceAdded(p)
    <2>1. /\ proc[p].pc \in {"counting", "scan", "setdata", "announce"}
          /\ UNCHANGED <<Channels, debt, crashed>>
      BY <1>3 DEF LimitReached, BelowLimit, EndScan, SetPresenceData, AnnounceAdded, At, ns, log
    <2>2. /\ proc'[p].pc \in {"top", "join", "setdata", "announce"}
          /\ \A r \in Proc \ {p} : proc'[r] = proc[r]
      BY <1>0, <1>3 DEF LimitReached, BelowLimit, EndScan, SetPresenceData, AnnounceAdded, Goto,
         Finish, Local, Resting
    <2> QED
      BY <2>1, <2>2 DEF Aside
  <1> QED
    BY <1>1, <1>2, <1>3 DEF Subscribing

\* those of an unsubscribe
LEMMA LeavingAside ==
    ASSUME TypeOK, NEW p \in Proc, Leaving(p), ~Panic
    PROVE  Aside(p) /\ (Channels' = Channels \/ Leave(p))
  <1>0. proc \in [Proc -> Local] /\ proc[p] \in Local
    BY DEF TypeOK
  <1>1. /\ proc[p].pc \in Left \cup {"leave"} /\ UNCHANGED <<debt, crashed>>
        /\ Channels' = Channels \/ Leave(p)
    BY DEF Leaving, Leave, Remaining, LeaverMember, ForgetPresenceData, BeginScan, EndScan,
       LeaverUnknown, AnnounceRemoved, Vacate, Untrack, At, ns, log, Left
  <1>2. CASE LeaverUnknown(p) \/ Untrack(p)
    <2>1. Return(p)
      BY <1>2 DEF LeaverUnknown, Untrack
    <2>2. proc'[p].pc \in {"unsubscribe", "top"} /\ \A r \in Proc \ {p} : proc'[r] = proc[r]
      BY <1>0, <2>1 DEF Return, Finish, Local, Resting
    <2> QED
      BY <1>1, <2>2 DEF Aside, Left
  <1>3. CASE ~LeaverUnknown(p) /\ ~Untrack(p)
    <2>1. \A r \in Proc \ {p} : proc'[r] = proc[r]
      BY <1>0, <1>3 DEF Leaving, Leave, Remaining, LeaverMember, ForgetPresenceData, BeginScan,
         EndScan, AnnounceRemoved, Vacate, Goto
    <2>2. proc'[p].pc \in Left
      BY <1>0, <1>3 DEF Leaving, Leave, Remaining, LeaverMember, ForgetPresenceData, BeginScan,
         EndScan, AnnounceRemoved, Vacate, Goto, Local, Left
    <2> QED
      BY <1>1, <2>1, <2>2 DEF Aside, Left
  <1> QED
    BY <1>2, <1>3

\* and of a close,
LEMMA ClosingAside ==
    ASSUME TypeOK, NEW p \in Proc, Closing(p)
    PROVE  Aside(p) /\ (Channels' = Channels \/ RemoveSocket(p))
  <1>0. proc \in [Proc -> Local] /\ proc[p] \in Local
    BY DEF TypeOK
  <1>1. /\ proc[p].pc \in {"copy", "unsubscribe", "lock", "remove", "hangup", "cleanup"}
        /\ UNCHANGED <<debt, crashed>>
        /\ Channels' = Channels \/ RemoveSocket(p)
    BY DEF Closing, CopyChannels, UnsubscribeOne, DropMap, LockSocket, RemoveSocket, HangUp,
       Cleanup, At, ns, log
  <1>2. \A r \in Proc \ {p} : proc'[r] = proc[r]
    BY <1>0 DEF Closing, CopyChannels, UnsubscribeOne, DropMap, LockSocket, RemoveSocket, HangUp,
       Cleanup, Goto, Finish
  <1>3. proc'[p].pc \in {"unsubscribe", "leave", "lock", "remove", "hangup", "cleanup", "exited"}
    <2>1. CASE LockSocket(p) \/ RemoveSocket(p) \/ HangUp(p)
      <3>1. PICK l \in {"remove", "hangup", "cleanup"} : Goto(p, l)
        BY <2>1 DEF LockSocket, RemoveSocket, HangUp
      <3> QED
        BY <1>0, <3>1 DEF Goto, Local
    <2>2. CASE DropMap(p) \/ Cleanup(p)
      BY <1>0, <2>2 DEF DropMap, Cleanup, Finish, Resting
    <2>3. CASE CopyChannels(p)
      BY <1>0, <2>3 DEF CopyChannels, Local
    <2>4. ASSUME NEW c \in ChannelName, UnsubscribeOne(p, c)
          PROVE  proc'[p].pc = "leave"
      BY <1>0, <2>4 DEF UnsubscribeOne, Local
    <2> QED
      BY <2>1, <2>2, <2>3, <2>4 DEF Closing
  <1> QED
    BY <1>1, <1>2, <1>3 DEF Aside

\* and what clients and the network do, are such steps.
LEMMA EnvironmentAside ==
    ASSUME CloseInv, NEW s \in Conn, LoopTop(s) \/ Environment(s), ~Panic
    PROVE  (Aside(Listener(s)) \/ Aside(Closer(s))) /\ Channels' = Channels
  <1>0. /\ proc \in [Proc -> Local] /\ Listener(s) \in Proc /\ Closer(s) \in Proc
        /\ Listener(s) # Closer(s) /\ Unborn
        /\ proc[Listener(s)] \in Local /\ proc[Closer(s)] \in Local
    BY ProcFacts DEF CloseInv, TypeOK
  <1>1. UNCHANGED <<Channels, debt, crashed>>
    BY DEF LoopTop, Environment, Connect, FrameTooLarge, SendFails, SubscribeRequest,
       UnsubscribeRequest, ReadError, CloserStarts, ns, log
  <1>2. CASE SendFails(s)
    BY <1>1, <1>2 DEF SendFails, Aside
  <1>3. CASE CloserStarts(s)
    <2>1. /\ proc[Closer(s)].pc = "none" /\ proc'[Closer(s)].pc = "copy"
          /\ \A r \in Proc \ {Closer(s)} : proc'[r] = proc[r]
      BY <1>0, <1>3 DEF CloserStarts, At, Goto, Local
    <2> QED
      BY <1>1, <2>1 DEF Aside
  <1>4. CASE LoopTop(s) \/ Connect(s) \/ FrameTooLarge(s) \/ ReadError(s)
    <2>1. /\ proc[Listener(s)].pc \in {"none", "top", "read"}
          /\ proc'[Listener(s)].pc \in {"top", "read", "exited", "copy"}
          /\ \A r \in Proc \ {Listener(s)} : proc'[r] = proc[r]
      BY <1>0, <1>4 DEF LoopTop, Connect, FrameTooLarge, ReadError, At, Goto, Local, Unborn
    <2> QED
      BY <1>1, <2>1 DEF Aside
  <1>5. ASSUME NEW c \in ChannelName, SubscribeRequest(s, c) \/ UnsubscribeRequest(s, c)
        PROVE  Aside(Listener(s))
    <2>1. PICK l \in {"count", "join", "leave"} :
                proc' = [proc EXCEPT ![Listener(s)].chan = c, ![Listener(s)].pc = l]
      BY <1>5 DEF SubscribeRequest, UnsubscribeRequest
    <2>2. /\ proc[Listener(s)].pc = "read" /\ proc'[Listener(s)].pc = l
          /\ \A r \in Proc \ {Listener(s)} : proc'[r] = proc[r]
      BY <1>0, <1>5, <2>1 DEF SubscribeRequest, UnsubscribeRequest, At, Local
    <2> QED
      BY <1>1, <2>2 DEF Aside
  <1> QED
    BY <1>1, <1>2, <1>3, <1>4, <1>5 DEF Environment

\* AddToChannel makes the list or returns more than 1.
LEMMA JoinOccupied ==
    ASSUME OccupiedInv, NEW p \in Proc, Join(p)
    PROVE  NoEmptyChannel(Channels)' /\ RecountIsPresence' /\ PlainOccupiedOnce'
  <1>0. /\ proc \in [Proc -> Local] /\ proc[p] \in Local /\ ChannelsType(Channels)
        /\ NoEmptyChannel(Channels) /\ debt \in [ChannelName -> Int] /\ RecountIsPresence
        /\ PlainOccupiedOnce
    BY DEF OccupiedInv, CloseInv, TypeOK
  <1>1. PICK c \in ChannelName, id \in SocketID :
            /\ c = proc[p].chan
            /\ id = IF NilServer(p) THEN BlankID ELSE Sock(p)
    BY <1>0, ProcFacts, SubscriptionAssumption DEF Local, Conn
  <1>2. /\ Channels' = AddToChannel(Channels, id, c) /\ ~crashed /\ crashed' = crashed
        /\ proc[p].pc = "join"
        /\ debt' = [debt EXCEPT ![c] = IF c \in DOMAIN Channels THEN @ ELSE @ + 1]
    BY <1>1 DEF Join, At
  <1>3. PICK b \in BOOLEAN : b = (AddToChannelCount(Channels, id, c) = 1)
    OBVIOUS
  <1>4. proc' = [proc EXCEPT ![p].pc = IF c \in PresenceChannel THEN "recount" ELSE "track",
                             ![p].edge = b]
    BY <1>1, <1>3 DEF Join
  <1>5. /\ \A r \in Proc \ {p} : proc'[r] = proc[r]
        /\ proc'[p].pc = IF c \in PresenceChannel THEN "recount" ELSE "track"
        /\ proc'[p].chan = c /\ proc'[p].edge = b
    BY <1>0, <1>1, <1>4 DEF Local
  <1>6. b <=> c \notin DOMAIN Channels
    BY <1>0, <1>3, FirstIsOne
  <1>7. NoEmptyChannel(Channels)'
    BY <1>0, <1>2, AddToChannelLemma
  <1>8. RecountIsPresence'
    BY <1>0, <1>5 DEF RecountIsPresence
  <1>9. ASSUME NEW d \in ChannelName \ PresenceChannel
        PROVE  debt'[d] = Cardinality(Due(d)')
    <2>1. debt[d] = Cardinality(Due(d))
      BY <1>0, <1>2 DEF PlainOccupiedOnce, OccupiedOnce, Due
    <2>2. IsFiniteSet(Due(d))
      BY ProcFinite, FS_Subset DEF Due
    <2>3. p \notin Due(d)
      BY <1>2 DEF Due
    <2>4. CASE d = c /\ b
      <3>1. Due(d)' = Due(d) \cup {p}
        BY <1>5, <2>4 DEF Due
      <3>2. debt'[d] = debt[d] + 1
        BY <1>0, <1>2, <1>6, <2>4
      <3> QED
        BY <2>1, <2>2, <2>3, <3>1, <3>2, FS_AddElement
    <2>5. CASE ~(d = c /\ b)
      <3>1. Due(d)' = Due(d)
        BY <1>5, <2>3, <2>5 DEF Due
      <3>2. debt'[d] = debt[d]
        BY <1>0, <1>2, <1>6, <2>5
      <3> QED
        BY <2>1, <3>1, <3>2
    <2> QED
      BY <2>4, <2>5
  <1>10. PlainOccupiedOnce'
    BY <1>9 DEF PlainOccupiedOnce, OccupiedOnce, Due
  <1> QED
    BY <1>7, <1>8, <1>10

\* The webhook is sent by the goroutine that owes it.
LEMMA NotifyOccupied ==
    ASSUME OccupiedInv, NEW p \in Proc, Notify(p), ~Panic
    PROVE  RecountIsPresence' /\ PlainOccupiedOnce'
  <1>0. /\ proc \in [Proc -> Local] /\ proc[p] \in Local /\ debt \in [ChannelName -> Int]
        /\ RecountIsPresence /\ PlainOccupiedOnce
    BY DEF OccupiedInv, CloseInv, TypeOK
  <1>1. PICK c \in ChannelName, b \in BOOLEAN : c = proc[p].chan /\ b = proc[p].edge
    BY <1>0 DEF Local
  <1>2. /\ ~crashed /\ crashed' = crashed /\ proc[p].pc = "notify"
        /\ debt' = [debt EXCEPT ![c] = IF b THEN @ - 1 ELSE @]
    BY <1>1 DEF Notify, At
  <1>3. proc'[p].pc \in {"members", "top"} /\ \A r \in Proc \ {p} : proc'[r] = proc[r]
    BY <1>0 DEF Notify, Goto, Finish, Local, Resting
  <1>4. RecountIsPresence'
    BY <1>0, <1>3 DEF RecountIsPresence
  <1>5. ASSUME NEW d \in ChannelName \ PresenceChannel
        PROVE  debt'[d] = Cardinality(Due(d)')
    <2>1. debt[d] = Cardinality(Due(d))
      BY <1>0, <1>2 DEF PlainOccupiedOnce, OccupiedOnce, Due
    <2>2. IsFiniteSet(Due(d))
      BY ProcFinite, FS_Subset DEF Due
    <2>3. Due(d)' = Due(d) \ {p}
      BY <1>3 DEF Due
    <2>4. p \in Due(d) <=> d = c /\ b
      BY <1>1, <1>2 DEF Due
    <2>5. Cardinality(Due(d)') = IF d = c /\ b THEN Cardinality(Due(d)) - 1 ELSE Cardinality(Due(d))
      BY <2>2, <2>3, <2>4, FS_RemoveElement
    <2>6. debt'[d] = IF d = c /\ b THEN debt[d] - 1 ELSE debt[d]
      BY <1>0, <1>2
    <2> QED
      BY <2>1, <2>5, <2>6
  <1>6. PlainOccupiedOnce'
    BY <1>5 DEF PlainOccupiedOnce, OccupiedOnce, Due
  <1> QED
    BY <1>4, <1>6

\* In between it stays the same goroutine that owes it.
LEMMA TrackOccupied ==
    ASSUME OccupiedInv, NEW p \in Proc, Recount(p) \/ Track(p), ~Panic
    PROVE  RecountIsPresence' /\ PlainOccupiedOnce'
  <1>0. /\ proc \in [Proc -> Local] /\ proc[p] \in Local /\ RecountIsPresence /\ PlainOccupiedOnce
    BY DEF OccupiedInv, CloseInv, TypeOK
  <1>1. /\ UNCHANGED <<debt, crashed>> /\ proc'[p].chan = proc[p].chan
        /\ proc'[p].pc \in {"track", "notify"} /\ \A r \in Proc \ {p} : proc'[r] = proc[r]
    BY <1>0 DEF Recount, Track, Goto, Local, log
  <1>2. \/ proc[p].pc = "recount"
        \/ proc[p].pc = "track" /\ proc'[p].edge = proc[p].edge
    BY <1>0 DEF Recount, Track, At, Goto, Local
  <1>3. RecountIsPresence'
    BY <1>0, <1>1 DEF RecountIsPresence
  <1>4. \A d \in ChannelName \ PresenceChannel : Due(d)' = Due(d)
    BY <1>0, <1>1, <1>2 DEF Due, RecountIsPresence
  <1>5. PlainOccupiedOnce'
    BY <1>0, <1>1, <1>4 DEF PlainOccupiedOnce, OccupiedOnce, Due
  <1> QED
    BY <1>3, <1>5

\* Every step keeps the invariant.
LEMMA NextOccupied == OccupiedInv /\ [Next]_vars => OccupiedInv'
  <1> SUFFICES ASSUME OccupiedInv, [Next]_vars PROVE OccupiedInv'
    OBVIOUS
  <1>0. /\ CloseInv /\ CloseInv' /\ TypeOK /\ ChannelsType(Channels) /\ NoEmptyChannel(Channels)
        /\ RecountIsPresence /\ PlainOccupiedOnce
    BY NextClose DEF OccupiedInv, CloseInv, TypeOK
  <1>1. CASE Panic
    <2>1. NoEmptyChannel(Channels)' /\ RecountIsPresence' /\ crashed'
      BY <1>0, <1>1 DEF Panic, ns, RecountIsPresence, NoEmptyChannel
    <2> QED
      BY <1>0, <2>1 DEF OccupiedInv, PlainOccupiedOnce, OccupiedOnce
  <1>2. CASE UNCHANGED vars
    <2>1. UNCHANGED <<Channels, proc, debt, crashed>>
      BY <1>2 DEF vars, ns, log
    <2> QED
      BY <1>0, <2>1 DEF OccupiedInv, PlainOccupiedOnce, OccupiedOnce, RecountIsPresence,
         NoEmptyChannel
  <1>3. ASSUME NEW p \in Proc, Aside(p), Channels' = Channels
        PROVE  OccupiedInv'
    BY <1>0, <1>3, AsideKeeps DEF OccupiedInv, NoEmptyChannel
  <1>4. ASSUME NEW p \in Proc, Progress(p), ~Panic
        PROVE  OccupiedInv'
    <2>0. Sock(p) \in SocketID
      BY ProcFacts DEF Conn
    <2>1. CASE Join(p)
      BY <1>0, <2>1, JoinOccupied DEF OccupiedInv
    <2>2. CASE Notify(p)
      <3>1. Channels' = Channels
        BY <1>4, <2>2 DEF Notify, ns
      <3> QED
        BY <1>0, <1>4, <2>2, <3>1, NotifyOccupied DEF OccupiedInv, NoEmptyChannel
    <2>3. CASE Recount(p) \/ Track(p)
      <3>1. Channels' = Channels
        BY <1>4, <2>3 DEF Recount, Track, ns
      <3> QED
        BY <1>0, <1>4, <2>3, <3>1, TrackOccupied DEF OccupiedInv, NoEmptyChannel
    <2>4. CASE Subscribing(p) /\ ~Join(p) /\ ~Recount(p) /\ ~Track(p) /\ ~Notify(p)
      BY <1>0, <1>3, <1>4, <2>4, SubscribingAside
    <2>5. CASE Leaving(p)
      <3>1. CASE Leave(p)
        <4>1. Channels' = DropFromChannels(Channels, Sock(p), {proc[p].chan})
          BY <1>4, <3>1 DEF Leave, RemoveFromChannel
        <4>2. NoEmptyChannel(Channels)'
          BY <1>0, <2>0, <4>1, DropFromChannelsLemma
        <4> QED
          BY <1>0, <1>4, <2>5, <4>2, LeavingAside, AsideKeeps DEF OccupiedInv
      <3> QED
        BY <1>0, <1>3, <1>4, <2>5, <3>1, LeavingAside
    <2>6. CASE Closing(p)
      <3>1. CASE RemoveSocket(p)
        <4>1. \/ Channels' = Channels
              \/ Channels' = DropFromChannels(Channels, Sock(p), DOMAIN Channels)
          BY <3>1 DEF RemoveSocket, RemoveSocketChannels, ns
        <4>2. NoEmptyChannel(Channels)'
          BY <1>0, <2>0, <4>1, DropFromChannelsLemma DEF NoEmptyChannel
        <4> QED
          BY <1>0, <2>6, <4>2, ClosingAside, AsideKeeps DEF OccupiedInv
      <3> QED
        BY <1>0, <1>3, <2>6, <3>1, ClosingAside
    <2> QED
      BY <1>4, <2>1, <2>2, <2>3, <2>4, <2>5, <2>6 DEF Progress
  <1>5. ASSUME NEW s \in Conn, LoopTop(s) \/ Environment(s), ~Panic
        PROVE  OccupiedInv'
    BY <1>0, <1>3, <1>5, EnvironmentAside, ProcFacts
  <1> QED
    BY <1>1, <1>2, <1>4, <1>5 DEF Next, Done

(***************************************************************************)
(* "Notify when this is the first connection to a channel"                 *)
(* (websocket.go:608): every time the list of a channel that is no         *)
(* presence channel comes into being, exactly one subscriber sends         *)
(* channel_occupied or is about to, for any number of clients that         *)
(* subscribe, leave and are closed by any goroutine, unless a panic ends   *)
(* the process.                                                            *)
(***************************************************************************)
THEOREM PlainOccupiedOnceHolds == Spec => []PlainOccupiedOnce
  <1>1. Init => OccupiedInv
    <2> SUFFICES ASSUME Init PROVE OccupiedInv
      OBVIOUS
    <2>1. NoEmptyChannel(Channels) /\ RecountIsPresence
      BY BlankLemma DEF Init, RecountIsPresence, Resting
    <2>2. \A c \in ChannelName : Due(c) = {} /\ debt[c] = 0
      BY DEF Init, Due, Resting
    <2>3. PlainOccupiedOnce
      BY <2>2, FS_EmptySet DEF PlainOccupiedOnce, OccupiedOnce, Due
    <2> QED
      BY <2>1, <2>3, InitClose DEF OccupiedInv
  <1>2. OccupiedInv => PlainOccupiedOnce
    BY DEF OccupiedInv
  <1> QED
    BY <1>1, <1>2, NextOccupied, PTL DEF Spec

-----------------------------------------------------------------------------
(* Sockets that only their listeners close: the last member_added.         *)

\* In a subscribe past AddToChannel.
InJoin == {"recount", "track", "notify", "members", "scan", "setdata", "announce"}

\* A socket is in the channel that its listener has joined it to and out of
\* the one it has left; it has no presence data but its own, and has it before
\* its listener announces it.
Settled(s) ==
    LET q == proc[Listener(s)]
    IN  /\ \A c \in ChannelName : presence[s][c] \in {NoUser, Member[s]}
        /\ q.pc \in InJoin => IsInChannel(Channels, s, q.chan)
        /\ q.pc \in Left => ~IsInChannel(Channels, s, q.chan)
        /\ q.pc = "announce" => presence[s][q.chan] = Member[s]

\* Where a listener that leaves a channel may still have to announce it.
Owing == {"remaining", "member", "forget", "stayers", "lscan", "depart"}

\* A listener that has left c for the user u and, as far as it knows, is the
\* one to announce member_removed.
Charged(p, c, u) ==
    LET q == proc[p]
    IN  /\ q.chan = c
        /\ \/ q.pc \in {"remaining", "member"} /\ presence[Sock(p)][c] = u
           \/ q.pc \in {"forget", "stayers"} /\ q.mem = u
           \/ q.pc \in {"lscan", "depart"} /\ q.mem = u /\ u \notin q.found

\* The socket s or its listener accounts for u in c, ...
Counts(s, c, u) ==
    \/ s \in Subscribers(c) /\ presence[s][c] = u
    \/ Charged(Listener(s), c, u)

\* ... or some socket does.
Here(c, u) == \E s \in Conn : Counts(s, c, u)

\* Whoever was announced last as added is in the channel or will be announced
\* as removed.
AddedIsHere ==
    \A c \in PresenceChannel, u \in UserID : lastEvent[c][u] = "added" => Here(c, u)

\* The inductive invariant.
MemberInv == OwnCloseInv /\ (\A s \in Conn : Settled(s)) /\ AddedIsHere

\* What a step of s's listener may do to what is said of u in c: it announces
\* no one who is not there, and hands over only to someone who is.
Accounts(s, c, u) ==
    lastEvent'[c][u] = "added" =>
        /\ lastEvent[c][u] = "added" \/ Counts(s, c, u)'
        /\ Counts(s, c, u) => Counts(s, c, u)' \/ Present(c, u)'

\* A step of another socket's listener or client changes nothing of this.
LEMMA FrameSettled ==
    ASSUME TypeOK, NEW s \in Conn, NEW t \in Conn, t # s, Footprint(s)
    PROVE  /\ Settled(t) => Settled(t)'
           /\ \A c \in ChannelName, u \in UserID : Counts(t, c, u) => Counts(t, c, u)'
  <1>1. Listener(t) \in Proc \ {Listener(s)} /\ t \in SocketID /\ Sock(Listener(t)) = t
    BY DEF Listener, Proc, Conn, Sock
  <1>2. /\ proc'[Listener(t)] = proc[Listener(t)] /\ presence'[t] = presence[t]
        /\ t \in Sockets' <=> t \in Sockets
        /\ \A c \in ChannelName : IsInChannel(Channels', t, c) <=> IsInChannel(Channels, t, c)
    BY <1>1 DEF Footprint
  <1>3. Settled(t) => Settled(t)'
    <2>1. proc[Listener(t)].chan \in ChannelName
      BY <1>1 DEF TypeOK, Local
    <2> QED
      BY <1>2, <2>1 DEF Settled
  <1>4. ASSUME NEW c \in ChannelName, NEW u \in UserID, Counts(t, c, u)
        PROVE  Counts(t, c, u)'
    <2>1. CASE t \in Subscribers(c) /\ presence[t][c] = u
      BY <1>2, <2>1 DEF Counts, Subscribers, GetChannelSockets, IsInChannel
    <2>2. CASE Charged(Listener(t), c, u)
      BY <1>1, <1>2, <2>2 DEF Counts, Charged
    <2> QED
      BY <1>4, <2>1, <2>2 DEF Counts
  <1> QED
    BY <1>3, <1>4

\* So a step that accounts for everyone keeps the invariant.
LEMMA AccountedFor ==
    ASSUME MemberInv, NEW s \in Conn, Footprint(s), OwnCloseInv', Settled(s)',
           \A c \in PresenceChannel, u \in UserID : Accounts(s, c, u)
    PROVE  MemberInv'
  <1>0. TypeOK
    BY DEF MemberInv, OwnCloseInv, CloseInv
  <1>1. \A t \in Conn : Settled(t)'
    BY <1>0, FrameSettled DEF MemberInv
  <1>2. ASSUME NEW c \in PresenceChannel, NEW u \in UserID, lastEvent'[c][u] = "added"
        PROVE  Here(c, u)'
    <2>0. c \in ChannelName /\ Accounts(s, c, u)
      BY SubscriptionAssumption
    <2>1. CASE Counts(s, c, u)'
      BY <2>1 DEF Here
    <2>2. CASE Present(c, u)'
      <3>1. PICK t \in Subscribers(c)' : presence'[t][c] = u
        BY <2>2 DEF Present
      <3>2. t \in Conn
        BY <3>1 DEF OwnCloseInv, CloseInv, TypeOK, Subscribers, GetChannelSockets
      <3> QED
        BY <3>1, <3>2 DEF Here, Counts
    <2>3. CASE lastEvent[c][u] = "added"
      <3>1. PICK t \in Conn : Counts(t, c, u)
        BY <2>3 DEF MemberInv, AddedIsHere, Here
      <3>2. CASE t = s
        BY <1>2, <2>0, <2>1, <2>2, <3>1, <3>2 DEF Accounts
      <3>3. CASE t # s
        BY <1>0, <2>0, <3>1, <3>3, FrameSettled DEF Here
      <3> QED
        BY <3>2, <3>3
    <2> QED
      BY <1>2, <2>0, <2>1, <2>3 DEF Accounts
  <1> QED
    BY <1>1, <1>2 DEF MemberInv, AddedIsHere

\* A step in which neither the socket nor what it owes is changed.
LEMMA UnchangedAccounts ==
    ASSUME NEW s \in Conn, NEW c \in PresenceChannel, NEW u \in UserID,
           UNCHANGED <<Channels, Sockets, presence, lastEvent>>, proc[Listener(s)].pc \notin Owing
    PROVE  Accounts(s, c, u)
  <1>1. ~Charged(Listener(s), c, u)
    BY DEF Charged, Owing
  <1>2. Counts(s, c, u) => Counts(s, c, u)'
    BY <1>1 DEF Counts, Subscribers, GetChannelSockets
  <1> QED
    BY <1>2 DEF Accounts

\* A listener that stays in its request, or is done with it, stays settled.
LEMMA StaysSettled ==
    ASSUME NEW s \in Conn, Settled(s), presence'[s] = presence[s], Channels' = Channels,
           \/ proc'[Listener(s)].pc \notin InJoin \cup Left
           \/ /\ proc'[Listener(s)].chan = proc[Listener(s)].chan
              /\ proc'[Listener(s)].pc \in InJoin => proc[Listener(s)].pc \in InJoin
              /\ proc'[Listener(s)].pc \in Left => proc[Listener(s)].pc \in Left
              /\ proc'[Listener(s)].pc = "announce" => proc[Listener(s)].pc = "announce"
    PROVE  Settled(s)'
  <1>1. "announce" \in InJoin
    BY DEF InJoin
  <1> QED
    BY <1>1 DEF Settled

\* What the steps below need to know.
LEMMA MemberFacts ==
    ASSUME MemberInv, NEW s \in Conn, NEW p \in Proc, p = Listener(s)
    PROVE  /\ proc \in [Proc -> Local] /\ proc[p] \in Local /\ Own(s) /\ Settled(s)
           /\ s = Sock(p) /\ s \in SocketID
           /\ ChannelsType(Channels)
           /\ presence \in [Conn -> [ChannelName -> UserID \cup {NoUser}]]
           /\ lastEvent \in [ChannelName -> [UserID -> {"none", "added", "removed"}]]
           /\ PresenceChannel \subseteq ChannelName
           /\ proc[p].chan \in ChannelName
  BY ProcFacts, SubscriptionAssumption
     DEF MemberInv, OwnCloseInv, CloseInv, TypeOK, Conn, Local

\* Announcing a member changes one entry.
LEMMA LastEventIs ==
    ASSUME lastEvent \in [ChannelName -> [UserID -> {"none", "added", "removed"}]],
           NEW c \in ChannelName, NEW m, NEW x,
           lastEvent' = [lastEvent EXCEPT ![c][m] = x],
           NEW d \in ChannelName, NEW u \in UserID
    PROVE  lastEvent'[d][u] = IF d = c /\ u = m THEN x ELSE lastEvent[d][u]
  OBVIOUS

\* The steps of a subscribe,
LEMMA SubscribingMember ==
    ASSUME MemberInv, NEW s \in Conn, NEW p \in Proc, p = Listener(s), ~Panic, Subscribing(p)
    PROVE  Settled(s)' /\ \A c \in PresenceChannel, u \in UserID : Accounts(s, c, u)
  <1>0. /\ proc \in [Proc -> Local] /\ proc[p] \in Local /\ Own(s) /\ Settled(s)
        /\ s = Sock(p) /\ s \in SocketID
        /\ ChannelsType(Channels)
        /\ presence \in [Conn -> [ChannelName -> UserID \cup {NoUser}]]
        /\ lastEvent \in [ChannelName -> [UserID -> {"none", "added", "removed"}]]
        /\ PresenceChannel \subseteq ChannelName
        /\ proc[p].chan \in ChannelName
    BY MemberFacts
  <1>1. CASE CountMembers(p) \/ CountOne(p) \/ LimitReached(p) \/ BelowLimit(p)
    <2>1. /\ UNCHANGED <<Channels, Sockets, presence, lastEvent>>
          /\ proc[p].pc \in {"count", "counting"}
      BY <1>1 DEF CountMembers, CountOne, ReadMember, LimitReached, BelowLimit, At, ns, sock, log
    <2>2. proc'[p].pc \in {"counting", "top", "join"}
      <3>1. CASE CountOne(p)
        BY <1>0, <3>1 DEF CountOne, ReadMember, At, Local
      <3>2. CASE CountMembers(p)
        BY <1>0, <3>2 DEF CountMembers, Local
      <3>3. CASE LimitReached(p) \/ BelowLimit(p)
        BY <1>0, <3>3 DEF LimitReached, BelowLimit, Goto, Finish, Local, Resting
      <3> QED
        BY <1>1, <3>1, <3>2, <3>3
    <2>3. Settled(s)'
      BY <1>0, <2>1, <2>2, StaysSettled DEF InJoin, Left
    <2> QED
      BY <2>1, <2>3, UnchangedAccounts DEF Owing
  <1>2. CASE \/ Recount(p) \/ Track(p) \/ Notify(p) \/ BeginScan(p, "members", "scan")
             \/ EndScan(p, "scan", "setdata") \/ (At(p, "scan") /\ ScanOne(p))
    <2>1. /\ UNCHANGED <<Channels, Sockets, presence, lastEvent>>
          /\ proc[p].pc \in InJoin \ {"announce"}
      BY <1>2 DEF Recount, Track, Notify, BeginScan, EndScan, ScanOne, ReadMember, At, ns, sock,
         log, InJoin
    <2>2. \/ proc'[p].pc \in InJoin \ {"announce"} /\ proc'[p].chan = proc[p].chan
          \/ proc'[p].pc = "top"
      <3>1. CASE Recount(p)
        BY <1>0, <3>1 DEF Recount, Local, InJoin
      <3>2. CASE Track(p) \/ Notify(p) \/ EndScan(p, "scan", "setdata")
        BY <1>0, <3>2 DEF Track, Notify, EndScan, Goto, Finish, Local, Resting, InJoin
      <3>3. CASE BeginScan(p, "members", "scan")
        BY <1>0, <3>3 DEF BeginScan, Local, InJoin
      <3>4. CASE At(p, "scan") /\ ScanOne(p)
        BY <1>0, <3>4 DEF ScanOne, ReadMember, At, Local, InJoin
      <3> QED
        BY <1>2, <3>1, <3>2, <3>3, <3>4
    <2>3. Settled(s)'
      BY <1>0, <2>1, <2>2, StaysSettled DEF InJoin, Left
    <2> QED
      BY <2>1, <2>3, UnchangedAccounts DEF InJoin, Owing
  <1>3. CASE Join(p)
    <2>1. PICK c \in ChannelName : c = proc[p].chan
      BY <1>0
    <2>2. proc[p].pc = "join" /\ UNCHANGED <<Sockets, presence, lastEvent>>
      BY <1>3 DEF Join, At, sock
    <2>3. life[s] # "cleaned"
      BY <1>0, <2>2 DEF Own, ListenerCloses
    <2>4. Channels' = AddToChannel(Channels, s, c)
      BY <1>0, <1>3, <2>1, <2>3 DEF Join, NilServer
    <2>5. proc'[p].pc \in {"recount", "track"} /\ proc'[p].chan = c
      BY <1>0, <1>3, <2>1 DEF Join, Local
    <2>6. \A d \in ChannelName :
            IsInChannel(Channels', s, d) <=> IsInChannel(Channels, s, d) \/ d = c
      BY <1>0, <2>4, AddedIsMember
    <2>7. Settled(s)'
      BY <1>0, <2>2, <2>5, <2>6 DEF Settled, InJoin, Left
    <2>8. ASSUME NEW d \in PresenceChannel, NEW u \in UserID
          PROVE  Accounts(s, d, u)
      <3>1. ~Charged(Listener(s), d, u)
        BY <2>2 DEF Charged
      <3>2. s \in Subscribers(d) => s \in Subscribers(d)'
        BY <1>0, <2>2, <2>6 DEF Subscribers, GetChannelSockets, IsInChannel
      <3> QED
        BY <2>2, <3>1, <3>2 DEF Accounts, Counts
    <2> QED
      BY <2>7, <2>8
  <1>4. CASE SetPresenceData(p)
    <2>1. PICK c \in ChannelName : c = proc[p].chan
      BY <1>0
    <2>2. proc[p].pc = "setdata" /\ UNCHANGED <<Channels, Sockets, lastEvent>>
      BY <1>4 DEF SetPresenceData, At, ns, log
    <2>3. presence' = [presence EXCEPT ![s] = [presence[s] EXCEPT ![c] = Member[s]]]
      BY <1>0, <1>4, <2>1 DEF SetPresenceData
    <2>4. \A d \in ChannelName : presence'[s][d] = IF d = c THEN Member[s] ELSE presence[s][d]
      BY <1>0, <2>3
    <2>5. proc'[p].pc = "announce" /\ proc'[p].chan = c
      <3>1. proc' = [proc EXCEPT ![p].pc = "announce"]
        BY <1>4 DEF SetPresenceData, Goto
      <3> QED
        BY <1>0, <2>1, <3>1 DEF Local
    <2>6. Settled(s)'
      BY <1>0, <2>1, <2>2, <2>4, <2>5 DEF Settled, InJoin, Left
    <2>7. ASSUME NEW d \in PresenceChannel, NEW u \in UserID
          PROVE  Accounts(s, d, u)
      <3>1. ~Charged(Listener(s), d, u)
        BY <2>2 DEF Charged
      <3>2. presence[s][d] = u => presence'[s][d] = u
        BY <1>0, <2>4, NoUserAssumption DEF Settled
      <3>3. Subscribers(d)' = Subscribers(d)
        BY <2>2 DEF Subscribers, GetChannelSockets
      <3> QED
        BY <2>2, <3>1, <3>2, <3>3 DEF Accounts, Counts
    <2> QED
      BY <2>6, <2>7
  <1>5. CASE AnnounceAdded(p)
    <2>1. PICK c \in ChannelName : c = proc[p].chan
      BY <1>0
    <2>2. proc[p].pc = "announce" /\ UNCHANGED <<Channels, Sockets, presence>>
      BY <1>5 DEF AnnounceAdded, At, ns, sock
    <2>3. proc'[p].pc = "top"
      BY <1>0, <1>5 DEF AnnounceAdded, Finish, Resting
    <2>4. Settled(s)'
      BY <1>0, <2>2, <2>3, StaysSettled DEF InJoin, Left
    <2>5. s \in Subscribers(c) /\ presence[s][c] = Member[s]
      <3>1. s \in Sockets
        BY <1>0, <2>2 DEF Own, ListenerCloses
      <3> QED
        BY <1>0, <2>1, <2>2, <3>1 DEF Settled, InJoin, Subscribers, GetChannelSockets, IsInChannel
    <2>6. PICK x : lastEvent' = [lastEvent EXCEPT ![c][Member[s]] = x]
      BY <1>0, <1>5, <2>1 DEF AnnounceAdded
    <2>7. ASSUME NEW d \in PresenceChannel, NEW u \in UserID
          PROVE  Accounts(s, d, u)
      <3>1. ~Charged(Listener(s), d, u)
        BY <2>2 DEF Charged
      <3>2. Counts(s, d, u) => Counts(s, d, u)'
        BY <2>2, <3>1 DEF Counts, Subscribers, GetChannelSockets
      <3>3. lastEvent'[d][u] = lastEvent[d][u] \/ (d = c /\ u = Member[s])
        BY <1>0, <2>6, LastEventIs
      <3>4. d = c /\ u = Member[s] => Counts(s, d, u)
        BY <2>5 DEF Counts
      <3> QED
        BY <3>2, <3>3, <3>4 DEF Accounts
    <2> QED
      BY <2>4, <2>7
  <1>6. CASE At(p, "lscan") /\ ScanOne(p)
    <2>1. PICK t \in proc[p].scan : ReadMember(p, t)
      BY <1>6 DEF ScanOne
    <2>2. proc[p].pc = "lscan" /\ UNCHANGED <<Channels, Sockets, presence, lastEvent>>
      BY <1>6, <2>1 DEF ReadMember, At, ns, sock, log
    <2>3. /\ proc'[p].pc = "lscan" /\ proc'[p].chan = proc[p].chan /\ proc'[p].mem = proc[p].mem
          /\ proc'[p].found \subseteq proc[p].found \cup {presence[t][proc[p].chan]}
      BY <1>0, <2>1, <2>2 DEF ReadMember, Local
    <2>4. Settled(s)'
      BY <1>0, <2>2, <2>3, StaysSettled DEF InJoin, Left
    <2>5. t \in Subscribers(proc[p].chan)
      <3>1. t \in Conn /\ t \in SocketID
        BY <1>0 DEF Local, Conn
      <3>2. IsInChannel(Channels, t, proc[p].chan)
        BY <2>2 DEF MemberInv, OwnCloseInv, ScanIsFresh
      <3>3. t \in Sockets
        BY <3>1, <3>2 DEF MemberInv, OwnCloseInv, NoGhostSubscriber, IsInChannel
      <3> QED
        BY <3>2, <3>3 DEF Subscribers, GetChannelSockets, IsInChannel
    <2>6. ASSUME NEW d \in PresenceChannel, NEW u \in UserID
          PROVE  Accounts(s, d, u)
      <3>1. Subscribers(d)' = Subscribers(d)
        BY <2>2 DEF Subscribers, GetChannelSockets
      <3>2. CASE Charged(Listener(s), d, u) /\ u \in proc'[p].found
        <4>1. d = proc[p].chan /\ u \notin proc[p].found
          BY <2>2, <3>2 DEF Charged
        <4>2. presence[t][d] = u
          BY <2>3, <3>2, <4>1
        <4>3. Present(d, u)'
          BY <2>2, <2>5, <3>1, <4>1, <4>2 DEF Present
        <4> QED
          BY <2>2, <4>3 DEF Accounts
      <3>3. CASE Charged(Listener(s), d, u) /\ u \notin proc'[p].found
        <4>1. Charged(Listener(s), d, u)'
          BY <2>2, <2>3, <3>3 DEF Charged
        <4> QED
          BY <2>2, <4>1 DEF Accounts, Counts
      <3>4. CASE ~Charged(Listener(s), d, u)
        BY <2>2, <3>1, <3>4 DEF Accounts, Counts
      <3> QED
        BY <3>2, <3>3, <3>4
    <2> QED
      BY <2>4, <2>6
  <1> QED
    BY <1>1, <1>2, <1>3, <1>4, <1>5, <1>6 DEF Subscribing, ScanOne

\* of an unsubscribe
LEMMA LeavingMember ==
    ASSUME MemberInv, NEW s \in Conn, NEW p \in Proc, p = Listener(s), ~Panic, Leaving(p)
    PROVE  Settled(s)' /\ \A c \in PresenceChannel, u \in UserID : Accounts(s, c, u)
  <1>0. /\ proc \in [Proc -> Local] /\ proc[p] \in Local /\ Own(s) /\ Settled(s)
        /\ s = Sock(p) /\ s \in SocketID
        /\ ChannelsType(Channels)
        /\ presence \in [Conn -> [ChannelName -> UserID \cup {NoUser}]]
        /\ lastEvent \in [ChannelName -> [UserID -> {"none", "added", "removed"}]]
        /\ PresenceChannel \subseteq ChannelName
        /\ proc[p].chan \in ChannelName
    BY MemberFacts
  <1>c. PICK c \in ChannelName : c = proc[p].chan
    BY <1>0
  <1>1. CASE Leave(p)
    <2>1. proc[p].pc = "leave" /\ UNCHANGED <<Sockets, presence, lastEvent>>
      BY <1>1 DEF Leave, At, sock, log
    <2>2. Channels' = DropFromChannels(Channels, s, {c})
      BY <1>0, <1>1, <1>c DEF Leave, RemoveFromChannel
    <2>3. proc'[p].pc = "remaining" /\ proc'[p].chan = c
      BY <1>0, <1>1, <1>c DEF Leave, Goto, Local
    <2>4. \A d \in ChannelName :
            IsInChannel(Channels', s, d) <=> IsInChannel(Channels, s, d) /\ d # c
      BY <1>0, <2>2, DroppedIsNoMember
    <2>5. Settled(s)'
      BY <1>0, <2>1, <2>3, <2>4 DEF Settled, InJoin, Left
    <2>6. ASSUME NEW d \in PresenceChannel, NEW u \in UserID
          PROVE  Accounts(s, d, u)
      <3>1. ~Charged(Listener(s), d, u)
        BY <2>1 DEF Charged
      <3>2. CASE d = c /\ presence[s][d] = u
        <4>1. Charged(Listener(s), d, u)'
          BY <1>0, <2>1, <2>3, <3>2 DEF Charged
        <4> QED
          BY <2>1, <4>1 DEF Accounts, Counts
      <3>3. CASE d # c
        <4>1. s \in Subscribers(d) => s \in Subscribers(d)'
          BY <1>0, <2>1, <2>4, <3>3 DEF Subscribers, GetChannelSockets, IsInChannel
        <4> QED
          BY <2>1, <3>1, <4>1 DEF Accounts, Counts
      <3> QED
        BY <2>1, <3>1, <3>2, <3>3 DEF Accounts, Counts
    <2> QED
      BY <2>5, <2>6
  <1>2. CASE Remaining(p) \/ LeaverMember(p) \/ BeginScan(p, "stayers", "lscan")
             \/ EndScan(p, "lscan", "depart")
    <2>1. /\ UNCHANGED <<Channels, Sockets, presence, lastEvent>>
          /\ proc[p].pc \in {"remaining", "member", "stayers", "lscan"}
      BY <1>2 DEF Remaining, LeaverMember, BeginScan, EndScan, At, ns, sock, log
    <2>2. proc'[p].chan = c
      <3>1. CASE Remaining(p)
        <4>1. PICK l, b : proc' = [proc EXCEPT ![p].edge = b, ![p].pc = l]
          BY <3>1 DEF Remaining
        <4> QED
          BY <1>0, <1>c, <4>1 DEF Local
      <3>2. CASE LeaverMember(p)
        <4>1. PICK u : proc' = [proc EXCEPT ![p].mem = u, ![p].pc = "forget"]
          BY <3>2 DEF LeaverMember
        <4> QED
          BY <1>0, <1>c, <4>1 DEF Local
      <3>3. CASE BeginScan(p, "stayers", "lscan")
        <4>1. PICK x : proc' = [proc EXCEPT ![p].pc = "lscan", ![p].found = {}, ![p].scan = x]
          BY <3>3 DEF BeginScan
        <4> QED
          BY <1>0, <1>c, <4>1 DEF Local
      <3>4. CASE EndScan(p, "lscan", "depart")
        BY <1>0, <1>c, <3>4 DEF EndScan, Goto, Local
      <3> QED
        BY <1>2, <3>1, <3>2, <3>3, <3>4
    <2>3. /\ Remaining(p) /\ c \in PresenceChannel
            => proc[p].pc = "remaining" /\ proc'[p].pc = "member"
          /\ LeaverMember(p)
            => /\ proc[p].pc = "member" /\ proc'[p].pc = "forget"
               /\ proc'[p].mem = presence[s][c]
          /\ BeginScan(p, "stayers", "lscan")
            => /\ proc[p].pc = "stayers" /\ proc'[p].pc = "lscan" /\ proc'[p].mem = proc[p].mem
               /\ proc'[p].found = {}
          /\ EndScan(p, "lscan", "depart")
            => /\ proc[p].pc = "lscan" /\ proc'[p].pc = "depart" /\ proc'[p].mem = proc[p].mem
               /\ proc'[p].found = proc[p].found
      <3>1. CASE Remaining(p)
        BY <1>0, <1>c, <3>1 DEF Remaining, LeaverMember, BeginScan, EndScan, At, Local
      <3>2. CASE LeaverMember(p)
        BY <1>0, <1>c, <3>2 DEF Remaining, LeaverMember, BeginScan, EndScan, At, Local
      <3>3. CASE BeginScan(p, "stayers", "lscan")
        BY <1>0, <1>c, <3>3 DEF Remaining, LeaverMember, BeginScan, EndScan, At, Local
      <3>4. CASE EndScan(p, "lscan", "depart")
        BY <1>0, <1>c, <3>4 DEF Remaining, LeaverMember, BeginScan, EndScan, At, Goto, Local
      <3> QED
        BY <1>2, <3>1, <3>2, <3>3, <3>4
    <2>4. proc'[p].pc \in {"member", "vacate", "forget", "lscan", "depart"}
      BY <1>0, <1>2 DEF Remaining, LeaverMember, BeginScan, EndScan, Goto, Local
    <2>5. Settled(s)'
      BY <1>0, <1>c, <2>1, <2>2, <2>4, StaysSettled DEF InJoin, Left
    <2>6. ASSUME NEW d \in PresenceChannel, NEW u \in UserID
          PROVE  Accounts(s, d, u)
      <3>1. Charged(Listener(s), d, u) => Charged(Listener(s), d, u)'
        BY <1>0, <1>2, <1>c, <2>1, <2>2, <2>3 DEF Charged
      <3>2. Counts(s, d, u) => Counts(s, d, u)'
        BY <2>1, <3>1 DEF Counts, Subscribers, GetChannelSockets
      <3> QED
        BY <2>1, <3>2 DEF Accounts
    <2> QED
      BY <2>5, <2>6
  <1>3. CASE ForgetPresenceData(p)
    <2>1. proc[p].pc = "forget" /\ UNCHANGED <<Channels, Sockets, lastEvent>>
      BY <1>3 DEF ForgetPresenceData, At, ns, log
    <2>2. presence' = [presence EXCEPT ![s] = [presence[s] EXCEPT ![c] = NoUser]]
      BY <1>0, <1>3, <1>c DEF ForgetPresenceData
    <2>3. \A d \in ChannelName : presence'[s][d] = IF d = c THEN NoUser ELSE presence[s][d]
      BY <1>0, <2>2
    <2>4. proc'[p].pc = "stayers" /\ proc'[p].chan = c /\ proc'[p].mem = proc[p].mem
      BY <1>0, <1>3, <1>c DEF ForgetPresenceData, Goto, Local
    <2>5. Settled(s)'
      BY <1>0, <1>c, <2>1, <2>3, <2>4 DEF Settled, InJoin, Left
    <2>6. ASSUME NEW d \in PresenceChannel, NEW u \in UserID
          PROVE  Accounts(s, d, u)
      <3>1. Charged(Listener(s), d, u) => Charged(Listener(s), d, u)'
        BY <1>c, <2>1, <2>4 DEF Charged
      <3>2. s \notin Subscribers(c)
        BY <1>0, <1>c, <2>1 DEF Settled, Left, Subscribers, GetChannelSockets, IsInChannel
      <3>3. Subscribers(d)' = Subscribers(d)
        BY <2>1 DEF Subscribers, GetChannelSockets
      <3>4. d # c => presence'[s][d] = presence[s][d]
        BY <1>0, <2>3
      <3>5. Counts(s, d, u) => Counts(s, d, u)'
        BY <3>1, <3>2, <3>3, <3>4 DEF Counts
      <3> QED
        BY <2>1, <3>5 DEF Accounts
    <2> QED
      BY <2>5, <2>6
  <1>4. CASE AnnounceRemoved(p)
    <2>1. proc[p].pc = "depart" /\ UNCHANGED <<Channels, Sockets, presence>>
      BY <1>4 DEF AnnounceRemoved, At, ns, sock
    <2>2. proc'[p].pc = "vacate" /\ proc'[p].chan = c
      <3>1. proc' = [proc EXCEPT ![p].pc = "vacate"]
        BY <1>4 DEF AnnounceRemoved, Goto
      <3> QED
        BY <1>0, <1>c, <3>1 DEF Local
    <2>3. PICK m, x : /\ m = proc[p].mem
                      /\ x = IF m \notin proc[p].found THEN "removed" ELSE lastEvent[c][m]
                      /\ lastEvent' = [lastEvent EXCEPT ![c][m] = x]
      <3>1. lastEvent' = [lastEvent EXCEPT ![c][proc[p].mem] =
                            IF proc[p].mem \notin proc[p].found THEN "removed"
                            ELSE lastEvent[c][proc[p].mem]]
        BY <1>4, <1>c DEF AnnounceRemoved
      <3> QED
        BY <3>1
    <2>4. Settled(s)'
      BY <1>0, <1>c, <2>1, <2>2, StaysSettled DEF InJoin, Left
    <2>5. ASSUME NEW d \in PresenceChannel, NEW u \in UserID
          PROVE  Accounts(s, d, u)
      <3>1. d \in ChannelName
        BY <1>0
      <3>2. lastEvent'[d][u] = IF d = c /\ u = m THEN x ELSE lastEvent[d][u]
        BY <1>0, <2>3, <3>1, LastEventIs
      <3>3. CASE Charged(Listener(s), d, u)
        <4>1. d = c /\ u = m /\ m \notin proc[p].found
          BY <1>c, <2>1, <2>3, <3>3 DEF Charged
        <4> QED
          BY <2>3, <3>2, <4>1 DEF Accounts
      <3>4. CASE ~Charged(Listener(s), d, u)
        <4>1. Counts(s, d, u) => Counts(s, d, u)'
          BY <2>1, <3>4 DEF Counts, Subscribers, GetChannelSockets
        <4>2. lastEvent'[d][u] = "added" => lastEvent[d][u] = "added"
          BY <2>3, <3>2
        <4> QED
          BY <4>1, <4>2 DEF Accounts
      <3> QED
        BY <3>3, <3>4
    <2> QED
      BY <2>4, <2>5
  <1>5. CASE LeaverUnknown(p) \/ Vacate(p) \/ Untrack(p)
    <2>1. /\ UNCHANGED <<Channels, Sockets, presence, lastEvent>>
          /\ proc[p].pc \in {"depart", "vacate", "untrack"}
          /\ proc[p].pc = "depart" => proc[p].mem = NoUser
      BY <1>5 DEF LeaverUnknown, Vacate, Untrack, At, ns, sock, log
    <2>2. \/ proc'[p].pc \in {"unsubscribe", "top"}
          \/ proc'[p].pc = "untrack" /\ proc'[p].chan = c /\ proc[p].pc = "vacate"
      <3>1. CASE LeaverUnknown(p) \/ Untrack(p)
        <4>1. Return(p)
          BY <3>1 DEF LeaverUnknown, Untrack
        <4> QED
          BY <1>0, <4>1 DEF Return, Finish, Local, Resting
      <3>2. CASE Vacate(p)
        <4>1. proc' = [proc EXCEPT ![p].pc = "untrack"] /\ proc[p].pc = "vacate"
          BY <3>2 DEF Vacate, At, Goto
        <4> QED
          BY <1>0, <1>c, <4>1 DEF Local
      <3> QED
        BY <1>5, <3>1, <3>2
    <2>3. Settled(s)'
      BY <1>0, <1>c, <2>1, <2>2, StaysSettled DEF InJoin, Left
    <2>4. ASSUME NEW d \in PresenceChannel, NEW u \in UserID
          PROVE  Accounts(s, d, u)
      <3>1. ~Charged(Listener(s), d, u)
        BY <2>1, NoUserAssumption DEF Charged
      <3>2. Counts(s, d, u) => Counts(s, d, u)'
        BY <2>1, <3>1 DEF Counts, Subscribers, GetChannelSockets
      <3> QED
        BY <2>1, <3>2 DEF Accounts
    <2> QED
      BY <2>3, <2>4
  <1> QED
    BY <1>1, <1>2, <1>3, <1>4, <1>5 DEF Leaving

\* and of a close account for everyone,
LEMMA ClosingMember ==
    ASSUME MemberInv, NEW s \in Conn, NEW p \in Proc, p = Listener(s), Closing(p)
    PROVE  Settled(s)' /\ \A c \in PresenceChannel, u \in UserID : Accounts(s, c, u)
  <1>0. /\ proc \in [Proc -> Local] /\ proc[p] \in Local /\ Own(s) /\ Settled(s)
        /\ s = Sock(p) /\ s \in SocketID
        /\ ChannelsType(Channels)
        /\ presence \in [Conn -> [ChannelName -> UserID \cup {NoUser}]]
        /\ PresenceChannel \subseteq ChannelName
    BY MemberFacts
  <1>1. /\ proc[p].pc \in {"copy", "unsubscribe", "lock", "remove", "hangup", "cleanup"}
        /\ lastEvent' = lastEvent
    BY DEF Closing, CopyChannels, UnsubscribeOne, DropMap, LockSocket, RemoveSocket, HangUp,
       Cleanup, At, log
  <1>2. proc'[p].pc \in {"unsubscribe", "leave", "lock", "remove", "hangup", "cleanup", "exited"}
    <2>1. CASE LockSocket(p) \/ RemoveSocket(p) \/ HangUp(p)
      <3>1. PICK l \in {"remove", "hangup", "cleanup"} : Goto(p, l)
        BY <2>1 DEF LockSocket, RemoveSocket, HangUp
      <3> QED
        BY <1>0, <3>1 DEF Goto, Local
    <2>2. CASE DropMap(p) \/ Cleanup(p)
      BY <1>0, <2>2 DEF DropMap, Cleanup, Finish, Resting
    <2>3. CASE CopyChannels(p)
      BY <1>0, <2>3 DEF CopyChannels, Local
    <2>4. ASSUME NEW c \in ChannelName, UnsubscribeOne(p, c)
          PROVE  proc'[p].pc = "leave"
      BY <1>0, <2>4 DEF UnsubscribeOne, Local
    <2> QED
      BY <2>1, <2>2, <2>3, <2>4 DEF Closing
  <1>3. CASE UNCHANGED <<Channels, Sockets, presence>>
    <2>1. Settled(s)'
      BY <1>0, <1>2, <1>3, StaysSettled DEF InJoin, Left
    <2> QED
      BY <1>1, <1>3, <2>1, UnchangedAccounts DEF Owing
  <1>4. ASSUME \A d \in ChannelName : presence'[s][d] \in {NoUser, Member[s]},
               \A d \in ChannelName : s \notin Subscribers(d)
        PROVE  Settled(s)' /\ \A d \in PresenceChannel, u \in UserID : Accounts(s, d, u)
    <2>1. Settled(s)'
      BY <1>2, <1>4 DEF Settled, InJoin, Left
    <2>2. \A d \in PresenceChannel, u \in UserID : ~Counts(s, d, u)
      BY <1>0, <1>1, <1>4 DEF Counts, Charged
    <2> QED
      BY <1>1, <2>1, <2>2 DEF Accounts
  <1>5. CASE RemoveSocket(p)
    <2>1. proc[p].pc = "remove" /\ presence' = presence
      BY <1>5 DEF RemoveSocket, At, sock
    <2>2. Kept(s) = {}
      BY <2>1, KeptCases DEF Kept
    <2>3. \A d \in ChannelName : s \notin Subscribers(d)
      BY <1>0, <2>2 DEF Own, Covered, Subscribers, GetChannelSockets, IsInChannel
    <2>4. \A d \in ChannelName : presence'[s][d] \in {NoUser, Member[s]}
      BY <1>0, <2>1 DEF Settled
    <2> QED
      BY <1>4, <2>3, <2>4
  <1>6. CASE Cleanup(p)
    <2>1. s \notin Sockets
      BY <1>0, <1>6 DEF MemberInv, OwnCloseInv, CloseInv, OutOfAdapter, Cleanup, At
    <2>2. \A d \in ChannelName : s \notin Subscribers(d)
      BY <2>1 DEF Subscribers, GetChannelSockets
    <2>3. presence'[s] = presence[s] \/ presence'[s] = [d \in ChannelName |-> NoUser]
      BY <1>0, <1>6 DEF Cleanup
    <2>4. \A d \in ChannelName : presence'[s][d] \in {NoUser, Member[s]}
      BY <1>0, <2>3 DEF Settled
    <2> QED
      BY <1>4, <2>2, <2>4
  <1> QED
    BY <1>3, <1>5, <1>6 DEF Closing, CopyChannels, UnsubscribeOne, DropMap, LockSocket, HangUp,
       ns, sock

\* and so does what clients and the network do.
LEMMA EnvironmentMember ==
    ASSUME MemberInv, NEW s \in Conn, Evicted = {}, LoopTop(s) \/ Environment(s), ~Panic
    PROVE  Settled(s)' /\ \A c \in PresenceChannel, u \in UserID : Accounts(s, c, u)
  <1>p. PICK p \in Proc : p = Listener(s)
    BY ProcFacts
  <1>0. /\ proc \in [Proc -> Local] /\ proc[p] \in Local /\ Own(s) /\ Settled(s) /\ Unborn
    BY <1>p, MemberFacts DEF MemberInv, OwnCloseInv, CloseInv
  <1>1. UNCHANGED <<Channels, presence, lastEvent>> /\ Sockets \subseteq Sockets'
    BY DEF LoopTop, Environment, Connect, FrameTooLarge, SendFails, SubscribeRequest,
       UnsubscribeRequest, ReadError, CloserStarts, ns, sock, log
  <1>2. CASE SendFails(s)
    <2>1. proc' = proc /\ Sockets' = Sockets
      BY <1>2 DEF SendFails, ns
    <2>2. Settled(s)'
      BY <1>0, <1>1, <2>1 DEF Settled
    <2>3. \A c \in PresenceChannel, u \in UserID : Counts(s, c, u) => Counts(s, c, u)'
      BY <1>1, <2>1 DEF Counts, Charged, Subscribers, GetChannelSockets
    <2> QED
      BY <1>1, <2>2, <2>3 DEF Accounts
  <1>3. CASE ~SendFails(s)
    <2>1. proc[p].pc \in {"none", "top", "read"}
      BY <1>0, <1>3, <1>p DEF LoopTop, Environment, Connect, FrameTooLarge, SubscribeRequest,
         UnsubscribeRequest, ReadError, CloserStarts, At, Unborn
    <2>2. proc'[p].pc \in {"top", "read", "exited", "copy", "count", "join", "leave"}
      <3>1. CASE LoopTop(s) \/ Connect(s) \/ FrameTooLarge(s) \/ ReadError(s)
        BY <1>0, <1>p, <3>1 DEF LoopTop, Connect, FrameTooLarge, ReadError, Goto, Local
      <3>2. ASSUME NEW c \in ChannelName, SubscribeRequest(s, c) \/ UnsubscribeRequest(s, c)
            PROVE  proc'[p].pc \in {"count", "join", "leave"}
        BY <1>0, <1>p, <3>2 DEF SubscribeRequest, UnsubscribeRequest, Local
      <3>3. ~CloserStarts(s)
        BY DEF CloserStarts
      <3> QED
        BY <1>3, <3>1, <3>2, <3>3 DEF Environment
    <2>3. Settled(s)'
      BY <1>0, <1>1, <1>p, <2>2, StaysSettled DEF InJoin, Left
    <2>4. \A c \in PresenceChannel, u \in UserID : Counts(s, c, u) => Counts(s, c, u)'
      BY <1>1, <1>p, <2>1 DEF Counts, Charged, Subscribers, GetChannelSockets
    <2> QED
      BY <1>1, <2>3, <2>4 DEF Accounts
  <1> QED
    BY <1>2, <1>3

\* At first no one was announced,
LEMMA InitMember == Init => MemberInv
  <1> SUFFICES ASSUME Init PROVE MemberInv
    OBVIOUS
  <1>1. \A s \in Conn : Settled(s)
    BY ProcFacts DEF Init, Settled, Resting, InJoin, Left
  <1>2. \A c \in PresenceChannel, u \in UserID : lastEvent[c][u] = "none"
    BY SubscriptionAssumption DEF Init
  <1> QED
    BY <1>1, <1>2, InitOwn DEF MemberInv, AddedIsHere

\* and every step keeps track of whoever was.
LEMMA NextMember ==
    ASSUME Evicted = {}, MemberInv, [Next]_vars
    PROVE  MemberInv'
  <1>0. OwnCloseInv /\ OwnCloseInv'
    BY NextOwn DEF MemberInv
  <1>1. CASE UNCHANGED <<Channels, Sockets, presence, proc, lastEvent>>
    <2>1. \A t \in Conn : Settled(t)'
      BY <1>1 DEF MemberInv, Settled
    <2>2. \A t \in Conn, c \in PresenceChannel, u \in UserID : Counts(t, c, u) => Counts(t, c, u)'
      BY <1>1 DEF Counts, Charged, Subscribers, GetChannelSockets
    <2>3. AddedIsHere'
      BY <1>1, <2>2 DEF MemberInv, AddedIsHere, Here
    <2> QED
      BY <1>0, <2>1, <2>3 DEF MemberInv
  <1>2. CASE Panic \/ UNCHANGED vars
    BY <1>1, <1>2 DEF Panic, vars, ns, sock, log
  <1>3. ASSUME NEW p \in Proc, Progress(p), ~Panic
        PROVE  MemberInv'
    <2>1. PICK s \in Conn : s = Sock(p) /\ p = Listener(s)
      BY <1>0, <1>3, ListenerMoves, ProcFacts
    <2>2. Footprint(s)
      BY <1>0, <1>3, <2>1, SubscribingOwn, LeavingStepOwn, ClosingOwn DEF Progress
    <2>3. Settled(s)' /\ \A c \in PresenceChannel, u \in UserID : Accounts(s, c, u)
      BY <1>3, <2>1, SubscribingMember, LeavingMember, ClosingMember DEF Progress
    <2> QED
      BY <1>0, <2>2, <2>3, AccountedFor
  <1>4. ASSUME NEW s \in Conn, LoopTop(s) \/ Environment(s), ~Panic
        PROVE  MemberInv'
    <2>1. Footprint(s)
      BY <1>0, <1>4, EnvironmentOwn
    <2>2. Settled(s)' /\ \A c \in PresenceChannel, u \in UserID : Accounts(s, c, u)
      BY <1>4, EnvironmentMember
    <2> QED
      BY <1>0, <2>1, <2>2, AccountedFor
  <1> QED
    BY <1>2, <1>3, <1>4 DEF Next, Done

(***************************************************************************)
(* When nothing is in progress, a user whose last announcement was         *)
(* member_added is still in the channel, for any number of clients and     *)
(* users that join and leave presence channels in any order: of a user's   *)
(* sockets the last to leave announces member_removed, because each leaver *)
(* takes itself out before it looks who stays (websocket.go:911-946).  The *)
(* hypothesis is needed: a closer that is not the listener may copy the    *)
(* socket's channels before the listener has entered the one it joins, and *)
(* then no one announces member_removed.                                   *)
(***************************************************************************)
THEOREM NoGhostMemberHolds ==
    ASSUME Evicted = {}
    PROVE  Spec => []NoGhostMember
  <1>1. MemberInv /\ [Next]_vars => MemberInv'
    BY NextMember
  <1>2. MemberInv => NoGhostMember
    <2> SUFFICES ASSUME MemberInv, Quiet, NEW c \in PresenceChannel, NEW u \in UserID,
                        lastEvent[c][u] = "added"
                 PROVE  Present(c, u)
      BY DEF NoGhostMember
    <2>1. PICK s \in Conn : Counts(s, c, u)
      BY DEF MemberInv, AddedIsHere, Here
    <2>2. ~Charged(Listener(s), c, u)
      BY ProcFacts DEF Quiet, Charged
    <2> QED
      BY <2>1, <2>2 DEF Counts, Present
  <1> QED
    BY <1>1, <1>2, InitMember, PTL DEF Spec
=============================================================================
