-------------------------- MODULE HorizontalProofs --------------------------
(***************************************************************************)
(* Requests over any number of nodes, sockets, users and calls: what a     *)
(* request has added up is what the nodes that it counted had in the       *)
(* channel, each node once.                                                *)
(***************************************************************************)
EXTENDS Horizontal, FiniteSetTheorems, TLAPS

\* A request that reads and whose waiter still takes responses.
Waiting(r) == req[r].phase = "waiting" /\ req[r].kind # "terminate"

Published(r) == req[r].phase \in {"waiting", "resolved"}

\* Node f holds the request r and has not come to it.
Asked(f, r) ==
    \E i \in DOMAIN inbox[f] : inbox[f][i].type = "request" /\ inbox[f][i].id = r

(***************************************************************************)
(* What is known of a response of node f to the request r, on its way or   *)
(* with the subscriber: f neither is the node that asked nor counted yet   *)
(* nor will it answer again, and the response has the sockets that f had   *)
(* in the channel.                                                         *)
(***************************************************************************)
Fresh(r, f, val) ==
    /\ f # req[r].origin
    /\ f \notin req[r].answered
    /\ ~Asked(f, r)
    /\ val \subseteq req[r].seen
    /\ \A s \in val : Home[s] = f
    /\ \A s \in req[r].stable : Home[s] = f => s \in val
    /\ req[r].calm => f \in Up

\* Message m, with node n, is about a request that was published; a response
\* is with the node that asked.
MessageOK(n, m) ==
    /\ Published(m.id)
    /\ m.type = "request" => m.from = req[m.id].origin
    /\ m.type = "response" => n = req[m.id].origin /\ req[m.id].kind # "terminate"

MessagesInv == \A n \in Node : \A i \in DOMAIN inbox[n] : MessageOK(n, inbox[n][i])

SendingInv ==
    \A n \in Node : sub[n].at = "sending" =>
        /\ sub[n].id \in Request
        /\ Published(sub[n].id)
        /\ req[sub[n].id].origin = n
        /\ req[sub[n].id].kind # "terminate"

\* No node is asked twice, and none has two responses in an inbox.
Once(r) ==
    \A n \in Node : \A i, j \in DOMAIN inbox[n] :
        /\ inbox[n][i].id = r /\ inbox[n][j].id = r
        /\ inbox[n][i].type = inbox[n][j].type
        /\ inbox[n][i].from = inbox[n][j].from
        => i = j

FreshInInbox(r) ==
    \A n \in Node : \A i \in DOMAIN inbox[n] :
        inbox[n][i].type = "response" /\ inbox[n][i].id = r
            => Fresh(r, inbox[n][i].from, inbox[n][i].val)

FreshInHand(r) ==
    \A n \in Node : sub[n].at = "sending" /\ sub[n].id = r =>
        /\ Fresh(r, sub[n].from, sub[n].val)
        /\ \A i \in DOMAIN inbox[n] :
            inbox[n][i].type = "response" /\ inbox[n][i].id = r => inbox[n][i].from # sub[n].from

AnsweredOnce(r) == \A f \in req[r].answered : ~Asked(f, r)

Tokens(r) ==
    Waiting(r) => Once(r) /\ FreshInInbox(r) /\ FreshInHand(r) /\ AnsweredOnce(r)

TokensInv == \A r \in Request : Tokens(r)

(***************************************************************************)
(* What a reading request has added up: the sockets of its own node and of *)
(* the nodes whose responses it has counted, each of them once.            *)
(***************************************************************************)
Pairs(ss) == {<<Home[s], UserOf[s]>> : s \in ss}

Sum(k, ss) ==
    CASE k = "socketsCount" -> Cardinality(ss)
      [] k = "membersCount" -> Cardinality(Pairs(ss))
      [] OTHER -> 0

Added(q) ==
    /\ q.numSub > 1
    /\ q.count = Cardinality(q.answered)
    /\ q.count < q.numSub
    /\ q.phase # "resolved" => q.count < q.numSub - 1 /\ ~q.all /\ q.listed
    /\ q.phase = "publish" => q.answered = {}
    /\ q.origin \notin q.answered
    /\ q.total = Sum(q.kind, q.counted)
    /\ q.members = IF q.kind = "members" THEN Users(q.counted) ELSE {}
    /\ q.counted \subseteq q.seen
    /\ \A s \in q.counted : Home[s] \in q.answered \cup {q.origin}
    /\ \A s \in q.stable : Home[s] \in q.answered \cup {q.origin} => s \in q.counted
    /\ q.phase = "resolved" /\ q.all /\ q.calm => q.stable \subseteq q.counted

Books(q) ==
    /\ q.phase # "none" /\ q.kind # "terminate" => Added(q)
    /\ q.phase = "none" \/ q.kind = "terminate" => q.count = 0
    /\ q.phase = "none" => q.numSub = 0

BooksInv == \A r \in Request : Books(req[r])

\* While no node comes or goes, all subscribers are there and only they answer.
Calm(r) ==
    Reading(r) /\ req[r].calm =>
        /\ \A n \in Node : node[n] # "deaf"
        /\ req[r].numSub = Cardinality(Up)
        /\ req[r].origin \in Up
        /\ req[r].answered \subseteq Up

CalmInv == \A r \in Request : Calm(r)

\* The histories follow the sockets, which are with nodes that are alive.
SocketInv ==
    /\ \A s \in Socket : sock[s] = "in" => Alive(Home[s])
    /\ \A r \in Request : Reading(r) => req[r].stable \subseteq In /\ In \subseteq req[r].seen

Types ==
    /\ node \in [Node -> {"down", "up", "deaf", "crashed"}]
    /\ sock \in [Socket -> {"new", "in", "gone"}]
    /\ inbox \in [Node -> Seq(Msg)]
    /\ sub \in [Node -> Subscriber]
    /\ req \in [Request -> RequestState]

HorizontalInv ==
    /\ Types
    /\ MessagesInv
    /\ SendingInv
    /\ TokensInv
    /\ BooksInv
    /\ CalmInv
    /\ SocketInv

-----------------------------------------------------------------------------
(***************************************************************************)
(* The constants, sums and inboxes.                                        *)
(***************************************************************************)
LEMMA RequestLemma ==
    ASSUME NEW r \in Request
    PROVE  r \in Nat /\ r # 0
BY HorizontalAssumption DEF HorizontalAssumption, Request

\* A request that was not made has the type of a request.
LEMMA UnusedLemma == Unused \in RequestState
<1>1. /\ (CHOOSE n \in Node : TRUE) \in Node
      /\ (CHOOSE u \in User : TRUE) \in User
    BY HorizontalAssumption DEF HorizontalAssumption
<1> QED
    BY <1>1 DEF Unused, RequestState, Kind

\* The messages of an inbox, with the types of their fields.
LEMMA InboxType ==
    ASSUME NEW s \in Seq(Msg), NEW i \in DOMAIN s
    PROVE  /\ i \in Nat /\ i \in 1..Len(s) /\ Len(s) \in Nat
           /\ s[i] \in Msg
           /\ s[i].id \in Request /\ s[i].from \in Node /\ s[i].val \in SUBSET Socket
           /\ s[i].type \in {"request", "response"}
<1>1. i \in 1..Len(s) /\ Len(s) \in Nat /\ s[i] \in Msg
    OBVIOUS
<1> QED
    BY <1>1 DEF Msg

\* Sockets, their users and the pairs of node and user are finite in number.
LEMMA SocketsLemma ==
    ASSUME NEW ss \in SUBSET Socket
    PROVE  /\ IsFiniteSet(ss) /\ Cardinality(ss) \in Nat
           /\ IsFiniteSet(Users(ss)) /\ Cardinality(Users(ss)) \in Nat
           /\ IsFiniteSet(Pairs(ss)) /\ Cardinality(Pairs(ss)) \in Nat
           /\ Users(ss) \subseteq User
<1>1. IsFiniteSet(ss)
    BY HorizontalAssumption, FS_Subset DEF HorizontalAssumption
<1>2. IsFiniteSet(Users(ss))
  <2>1. [s \in ss |-> UserOf[s]] \in Surjection(ss, Users(ss))
    BY DEF Surjection, Users
  <2> QED
    BY <1>1, <2>1, FS_Surjection
<1>3. IsFiniteSet(Pairs(ss))
  <2>1. [s \in ss |-> <<Home[s], UserOf[s]>>] \in Surjection(ss, Pairs(ss))
    BY DEF Surjection, Pairs
  <2> QED
    BY <1>1, <2>1, FS_Surjection
<1>4. Users(ss) \subseteq User
    BY HorizontalAssumption DEF HorizontalAssumption, Users
<1> QED
    BY <1>1, <1>2, <1>3, <1>4, FS_CardinalityType

\* What one node contributes to an answer is a natural number.
LEMMA ShareLemma ==
    ASSUME NEW k \in Kind, NEW ss \in SUBSET Socket
    PROVE  Share(k, ss) \in Nat
BY SocketsLemma DEF Share, Kind

\* Sets of nodes are finite.
LEMMA NodesLemma ==
    ASSUME NEW ns \in SUBSET Node
    PROVE  IsFiniteSet(ns) /\ Cardinality(ns) \in Nat
BY HorizontalAssumption, FS_Subset, FS_CardinalityType DEF HorizontalAssumption

\* What disjoint sets of sockets, of different nodes, add up to.
LEMMA SumLemma ==
    ASSUME NEW k \in Kind, NEW f \in Node, NEW cs \in SUBSET Socket, NEW val \in SUBSET Socket,
           \A s \in cs : Home[s] # f, \A s \in val : Home[s] = f
    PROVE  Sum(k, cs \cup val) = Sum(k, cs) + Share(k, val)
<1>1. cs \cap val = {} /\ Pairs(cs) \cap Pairs(val) = {}
    BY DEF Pairs
<1>2. Pairs(cs \cup val) = Pairs(cs) \cup Pairs(val)
    BY DEF Pairs
<1>3. Pairs(val) = {f} \X Users(val)
    BY DEF Pairs, Users
<1>4. /\ IsFiniteSet(cs) /\ Cardinality(cs) \in Nat /\ IsFiniteSet(val) /\ Cardinality(val) \in Nat
      /\ IsFiniteSet(Pairs(cs)) /\ Cardinality(Pairs(cs)) \in Nat
      /\ IsFiniteSet(Pairs(val)) /\ Cardinality(Pairs(val)) \in Nat
      /\ IsFiniteSet(Users(val)) /\ Cardinality(Users(val)) \in Nat
    BY SocketsLemma
<1>5. IsFiniteSet({f}) /\ Cardinality({f}) = 1 /\ Cardinality({}) = 0
    BY FS_Singleton, FS_EmptySet
<1>6. Cardinality(Pairs(val)) = Cardinality({f}) * Cardinality(Users(val))
    BY <1>3, <1>4, <1>5, FS_Product
<1>7. Cardinality(cs \cup val) = Cardinality(cs) + Cardinality(val) - Cardinality(cs \cap val)
    BY <1>4, FS_Union
<1>8. Cardinality(Pairs(cs) \cup Pairs(val))
        = Cardinality(Pairs(cs)) + Cardinality(Pairs(val)) - Cardinality(Pairs(cs) \cap Pairs(val))
    BY <1>4, FS_Union
<1>9. Cardinality(cs \cup val) = Cardinality(cs) + Cardinality(val)
  <2>1. Cardinality(cs \cap val) = 0
    BY <1>1, <1>5
  <2> QED
    BY <2>1, <1>4, <1>7
<1>10. Cardinality(Pairs(cs \cup val)) = Cardinality(Pairs(cs)) + Cardinality(Users(val))
  <2>1. Cardinality(Pairs(cs) \cap Pairs(val)) = 0
    BY <1>1, <1>5
  <2>2. Cardinality(Pairs(val)) = Cardinality(Users(val))
    BY <1>4, <1>5, <1>6
  <2>3. Cardinality(Pairs(cs \cup val)) = Cardinality(Pairs(cs) \cup Pairs(val))
    BY <1>2
  <2> QED
    BY <2>1, <2>2, <2>3, <1>4, <1>8
<1> QED
    BY <1>9, <1>10 DEF Sum, Share, Kind

\* The sums are monotone.
LEMMA SubsetLemma ==
    ASSUME NEW cs \in SUBSET Socket, NEW ss \in SUBSET cs
    PROVE  /\ Cardinality(ss) <= Cardinality(cs)
           /\ Cardinality(Users(ss)) <= Cardinality(Pairs(cs))
           /\ Cardinality(Pairs(ss)) <= Cardinality(Pairs(cs))
           /\ Users(ss) \subseteq Users(cs)
<1>1. /\ IsFiniteSet(cs) /\ IsFiniteSet(Pairs(cs)) /\ IsFiniteSet(Pairs(ss))
      /\ Cardinality(Pairs(cs)) \in Nat /\ Cardinality(Pairs(ss)) \in Nat
      /\ Cardinality(Users(ss)) \in Nat
    BY SocketsLemma
<1>2. Pairs(ss) \subseteq Pairs(cs) /\ Users(ss) \subseteq Users(cs)
    BY DEF Pairs, Users
<1>3. Cardinality(Pairs(ss)) <= Cardinality(Pairs(cs))
    BY <1>1, <1>2, FS_Subset
<1>4. [p \in Pairs(ss) |-> p[2]] \in Surjection(Pairs(ss), Users(ss))
  <2>1. ASSUME NEW p \in Pairs(ss)
        PROVE  p[2] \in Users(ss)
    BY DEF Pairs, Users
  <2>2. ASSUME NEW u \in Users(ss)
        PROVE  \E p \in Pairs(ss) : p[2] = u
    <3>1. PICK s \in ss : u = UserOf[s]
      BY DEF Users
    <3>2. <<Home[s], UserOf[s]>> \in Pairs(ss) /\ <<Home[s], UserOf[s]>>[2] = u
      BY <3>1 DEF Pairs
    <3> QED
      BY <3>2
  <2> QED
    BY <2>1, <2>2 DEF Surjection
<1>5. Cardinality(Users(ss)) <= Cardinality(Pairs(ss))
    BY <1>1, <1>4, FS_Surjection
<1>6. Cardinality(ss) <= Cardinality(cs)
    BY <1>1, FS_Subset
<1> QED
    BY <1>1, <1>2, <1>3, <1>5, <1>6

\* What the books say of a request that is resolved.
LEMMA BooksLemma ==
    ASSUME Types, BooksInv
    PROVE  TypeOK /\ NothingInvented /\ NothingMissed
<1>1. ASSUME NEW r \in Request
      PROVE  req[r].numSub > 0 => req[r].count < req[r].numSub
  <2>1. req[r] \in RequestState /\ Books(req[r])
    BY DEF Types, BooksInv
  <2> QED
    BY <2>1 DEF Books, Added, RequestState
<1>2. ASSUME NEW r \in Request, req[r].phase = "resolved", req[r].kind # "terminate"
      PROVE  /\ req[r].counted \subseteq req[r].seen
             /\ req[r].seen \in SUBSET Socket
             /\ req[r].counted \in SUBSET Socket
             /\ req[r].stable \in SUBSET Socket
             /\ req[r].total = Sum(req[r].kind, req[r].counted)
             /\ req[r].kind = "members" => req[r].members = Users(req[r].counted)
             /\ req[r].all /\ req[r].calm => req[r].stable \subseteq req[r].counted
  <2>1. req[r] \in RequestState /\ Books(req[r])
    BY DEF Types, BooksInv
  <2> QED
    BY <2>1, <1>2 DEF Books, Added, RequestState
<1>3. NothingInvented
  <2> SUFFICES ASSUME NEW r \in Request, req[r].phase = "resolved"
      PROVE  /\ req[r].kind = "socketsCount" => req[r].total <= Cardinality(req[r].seen)
             /\ req[r].kind = "members" => req[r].members \subseteq Users(req[r].seen)
    BY DEF NothingInvented, Resolved
  <2> DEFINE cs == req[r].counted
             ss == req[r].seen
  <2>1. ASSUME req[r].kind # "terminate"
        PROVE  /\ Cardinality(cs) <= Cardinality(ss)
               /\ Users(cs) \subseteq Users(ss)
    <3>1. ss \in SUBSET Socket /\ cs \in SUBSET ss
      BY <1>2, <2>1
    <3> QED
      BY <3>1, SubsetLemma
  <2> QED
    BY <1>2, <2>1 DEF Sum
<1>4. NothingMissed
  <2> SUFFICES ASSUME NEW r \in Request, req[r].phase = "resolved", req[r].all, req[r].calm
      PROVE  /\ req[r].kind = "socketsCount" => req[r].total >= Cardinality(req[r].stable)
             /\ req[r].kind = "membersCount" => req[r].total >= Cardinality(Users(req[r].stable))
             /\ req[r].kind = "members" => Users(req[r].stable) \subseteq req[r].members
    BY DEF NothingMissed, Resolved
  <2> DEFINE cs == req[r].counted
             ss == req[r].stable
  <2>1. ASSUME req[r].kind # "terminate"
        PROVE  /\ Cardinality(ss) <= Cardinality(cs)
               /\ Cardinality(Users(ss)) <= Cardinality(Pairs(cs))
               /\ Users(ss) \subseteq Users(cs)
               /\ Cardinality(cs) \in Nat /\ Cardinality(ss) \in Nat
               /\ Cardinality(Pairs(cs)) \in Nat /\ Cardinality(Users(ss)) \in Nat
    <3>1. cs \in SUBSET Socket /\ ss \in SUBSET cs
      BY <1>2, <2>1
    <3> QED
      BY <3>1, SubsetLemma, SocketsLemma
  <2> QED
    BY <1>2, <2>1 DEF Sum
<1> QED
    BY <1>1, <1>3, <1>4 DEF Types, TypeOK

-----------------------------------------------------------------------------
(***************************************************************************)
(* Most steps leave a request what it is, or end its wait.  For the tokens *)
(* of one request a step is quiet if, of that request, messages only       *)
(* disappear and the subscribers only stop sending.                        *)
(***************************************************************************)
Kept(q, p) ==
    /\ p.origin = q.origin /\ p.kind = q.kind
    /\ p.numSub = q.numSub /\ p.count = q.count
    /\ p.total = q.total /\ p.members = q.members /\ p.all = q.all
    /\ p.answered = q.answered /\ p.counted = q.counted
    /\ p.phase = q.phase \/ (q.phase = "waiting" /\ p.phase = "resolved")
    /\ p.phase # "resolved" => p.listed = q.listed
    /\ q.seen \subseteq p.seen
    /\ p.stable \subseteq q.stable
    /\ p.calm => q.calm

\* Of the messages about r, s has lost the first or all, or none.
Shrunk(t, s, r) ==
    \E d \in 0..1 : \A i \in DOMAIN s :
        s[i].id = r => i + d \in DOMAIN t /\ s[i] = t[i + d]

\* The subscribers are the same as long as the request counts as calm.
CalmStep(r) == Reading(r)' /\ req'[r].calm => Up' = Up /\ \A n \in Node : node'[n] = node[n]

Fading(r) ==
    /\ Kept(req[r], req'[r])
    /\ \A n \in Node : Shrunk(inbox[n], inbox'[n], r)
    /\ CalmStep(r)

Quiet(r) ==
    /\ Fading(r)
    /\ \A n \in Node : sub'[n].at = "sending" /\ sub'[n].id = r => sub'[n] = sub[n]

\* The books still balance when only the histories move.
LEMMA KeptBooks ==
    ASSUME NEW q \in RequestState, NEW p \in RequestState, Kept(q, p), Books(q)
    PROVE  Books(p)
BY DEF Kept, Books, Added, RequestState

\* A step that keeps a request leaves Calm alone.
LEMMA QuietCalm ==
    ASSUME NEW r \in Request, Kept(req[r], req'[r]), CalmStep(r), Calm(r)
    PROVE  Calm(r)'
BY DEF Kept, CalmStep, Calm, Reading, Active

\* An inbox that only shrinks asks nobody anew.
LEMMA QuietAsked ==
    ASSUME NEW r \in Request, NEW f \in Node, Shrunk(inbox[f], inbox'[f], r), Asked(f, r)'
    PROVE  Asked(f, r)
BY DEF Shrunk, Asked

\* A response stays fresh while messages only disappear.
LEMMA FadingFresh ==
    ASSUME Types, NEW r \in Request, NEW f \in Node, NEW val,
           Fading(r), Fresh(r, f, val), Waiting(r)'
    PROVE  Fresh(r, f, val)'
<1>1. ~Asked(f, r)'
    BY QuietAsked DEF Fading, Fresh
<1>2. req'[r].calm => f \in Up'
    BY DEF Fresh, Fading, CalmStep, Kept, Reading, Active, Waiting
<1> QED
    BY <1>1, <1>2 DEF Fresh, Fading, Kept

\* No message is duplicated while messages only disappear.
LEMMA FadingTokens ==
    ASSUME Types, Types', NEW r \in Request, Fading(r), Tokens(r), Waiting(r)'
    PROVE  Waiting(r) /\ (Once(r) /\ FreshInInbox(r) /\ AnsweredOnce(r))'
<1>1. Waiting(r)
    BY DEF Fading, Kept, Waiting
<1>2. Once(r) /\ FreshInInbox(r) /\ AnsweredOnce(r)
    BY <1>1 DEF Tokens
<1>3. ASSUME NEW n \in Node
      PROVE  \E d \in 0..1 : \A i \in DOMAIN inbox'[n] :
                inbox'[n][i].id = r => i + d \in DOMAIN inbox[n] /\ inbox'[n][i] = inbox[n][i + d]
    BY DEF Fading, Shrunk
<1>4. ASSUME NEW n \in Node, NEW i \in DOMAIN inbox'[n]
      PROVE  i \in Nat /\ inbox'[n][i].from \in Node
    BY InboxType DEF Types
<1>5. Once(r)'
  <2> SUFFICES ASSUME NEW n \in Node, NEW i \in DOMAIN inbox'[n], NEW j \in DOMAIN inbox'[n],
                      inbox'[n][i].id = r, inbox'[n][j].id = r,
                      inbox'[n][i].type = inbox'[n][j].type,
                      inbox'[n][i].from = inbox'[n][j].from
               PROVE  i = j
    BY DEF Once
  <2>1. PICK d \in 0..1 :
            /\ i + d \in DOMAIN inbox[n] /\ inbox'[n][i] = inbox[n][i + d]
            /\ j + d \in DOMAIN inbox[n] /\ inbox'[n][j] = inbox[n][j + d]
    BY <1>3
  <2>2. i + d = j + d
    BY <1>2, <2>1 DEF Once
  <2>3. i \in Nat /\ j \in Nat
    BY <1>4
  <2> QED
    BY <2>2, <2>3
<1>6. FreshInInbox(r)'
  <2> SUFFICES ASSUME NEW n \in Node, NEW i \in DOMAIN inbox'[n],
                      inbox'[n][i].type = "response", inbox'[n][i].id = r
               PROVE  Fresh(r, inbox[n][i].from, inbox[n][i].val)'
    BY DEF FreshInInbox
  <2>1. PICK j \in DOMAIN inbox[n] : inbox'[n][i] = inbox[n][j]
    BY <1>3
  <2>2. Fresh(r, inbox[n][j].from, inbox[n][j].val)
    BY <1>2, <2>1 DEF FreshInInbox
  <2>3. ASSUME NEW f \in Node, NEW val, inbox'[n][i].from = f, inbox'[n][i].val = val
        PROVE  Fresh(r, f, val)'
    BY <2>1, <2>2, <2>3, FadingFresh
  <2> QED
    BY <1>4, <2>3 DEF Fresh
<1>7. AnsweredOnce(r)'
  <2>1. req'[r].answered = req[r].answered
    BY DEF Fading, Kept
  <2>2. req[r].answered \subseteq Node
    BY DEF Types, RequestState
  <2> QED
    BY <1>2, <2>1, <2>2, QuietAsked DEF AnsweredOnce, Fading
<1> QED
    BY <1>1, <1>5, <1>6, <1>7

\* The same with the response that a subscriber holds.
LEMMA QuietTokens ==
    ASSUME Types, Types', NEW r \in Request, Quiet(r), Tokens(r)
    PROVE  Tokens(r)'
<1> SUFFICES ASSUME Waiting(r)'
             PROVE  (Once(r) /\ FreshInInbox(r) /\ FreshInHand(r) /\ AnsweredOnce(r))'
    BY DEF Tokens
<1>1. Fading(r)
    BY DEF Quiet
<1>2. Waiting(r) /\ (Once(r) /\ FreshInInbox(r) /\ AnsweredOnce(r))'
    BY <1>1, FadingTokens
<1>3. FreshInHand(r)
    BY <1>2 DEF Tokens
<1>4. FreshInHand(r)'
  <2> SUFFICES ASSUME NEW n \in Node, sub'[n].at = "sending", sub'[n].id = r
               PROVE  /\ Fresh(r, sub[n].from, sub[n].val)'
                      /\ \A i \in DOMAIN inbox'[n] :
                          inbox'[n][i].type = "response" /\ inbox'[n][i].id = r
                              => inbox'[n][i].from # sub'[n].from
    BY DEF FreshInHand
  <2>1. sub'[n] = sub[n] /\ sub[n].from \in Node
    BY DEF Quiet, Types, Subscriber
  <2>2. Fresh(r, sub[n].from, sub[n].val)
    BY <1>3, <2>1 DEF FreshInHand
  <2>3. ASSUME NEW f \in Node, NEW val, sub[n].from = f, sub[n].val = val
        PROVE  Fresh(r, f, val)'
    BY <1>1, <2>2, <2>3, FadingFresh
  <2>4. Fresh(r, sub[n].from, sub[n].val)'
    BY <2>1, <2>3 DEF Fresh
  <2>5. \E d \in 0..1 : \A i \in DOMAIN inbox'[n] :
            inbox'[n][i].id = r => i + d \in DOMAIN inbox[n] /\ inbox'[n][i] = inbox[n][i + d]
    BY <1>1 DEF Fading, Shrunk
  <2> QED
    BY <1>3, <2>1, <2>4, <2>5 DEF FreshInHand
<1> QED
    BY <1>2, <1>4

\* What the subscriber leaves when it takes the first message.
LEMMA TailLemma ==
    ASSUME NEW s \in Seq(Msg), s # <<>>
    PROVE  /\ Tail(s) \in Seq(Msg) /\ Len(s) \in Nat \ {0}
           /\ 1 \in DOMAIN s /\ Head(s) = s[1] /\ Head(s) \in Msg
           /\ Len(Tail(s)) = Len(s) - 1 /\ DOMAIN Tail(s) = 1..(Len(s) - 1)
           /\ \A i \in DOMAIN Tail(s) : i + 1 \in DOMAIN s /\ Tail(s)[i] = s[i + 1]
OBVIOUS

\* A step that takes messages away, lets subscribers stop and keeps requests.
QuietStep ==
    /\ \A r \in Request : Kept(req[r], req'[r]) /\ CalmStep(r)
    /\ \A n \in Node :
        \/ inbox'[n] = inbox[n]
        \/ inbox'[n] = <<>>
        \/ inbox[n] # <<>> /\ inbox'[n] = Tail(inbox[n])
    /\ \A n \in Node : sub'[n] = sub[n] \/ sub'[n].at # "sending"

\* An inbox that is kept, emptied or cut at its head holds old messages only.
LEMMA QuietKeepsMessages ==
    ASSUME Types, NEW n \in Node,
           \/ inbox'[n] = inbox[n]
           \/ inbox'[n] = <<>>
           \/ inbox[n] # <<>> /\ inbox'[n] = Tail(inbox[n])
    PROVE  /\ \E d \in 0..1 : \A i \in DOMAIN inbox'[n] :
                i + d \in DOMAIN inbox[n] /\ inbox'[n][i] = inbox[n][i + d]
           /\ \A r \in Request : Shrunk(inbox[n], inbox'[n], r)
<1>1. inbox[n] \in Seq(Msg)
    BY DEF Types
<1>2. \E d \in 0..1 : \A i \in DOMAIN inbox'[n] :
                i + d \in DOMAIN inbox[n] /\ inbox'[n][i] = inbox[n][i + d]
  <2>1. CASE inbox'[n] = inbox[n]
    <3>1. \A i \in DOMAIN inbox'[n] :
                i + 0 \in DOMAIN inbox[n] /\ inbox'[n][i] = inbox[n][i + 0]
      BY <1>1, <2>1
    <3> QED
      BY <3>1
  <2>2. CASE inbox'[n] = <<>>
    BY <2>2
  <2>3. CASE inbox[n] # <<>> /\ inbox'[n] = Tail(inbox[n])
    <3>1. \A i \in DOMAIN inbox'[n] :
                i + 1 \in DOMAIN inbox[n] /\ inbox'[n][i] = inbox[n][i + 1]
      BY <1>1, <2>3, TailLemma
    <3> QED
      BY <3>1
  <2> QED
    BY <2>1, <2>2, <2>3
<1> QED
    BY <1>2 DEF Shrunk

\* Such a step preserves the invariant.
LEMMA QuietInv ==
    ASSUME HorizontalInv, QuietStep, Types', SocketInv'
    PROVE  HorizontalInv'
<1> USE DEF HorizontalInv
<1>1. ASSUME NEW r \in Request
      PROVE  Quiet(r)
    BY QuietKeepsMessages DEF QuietStep, Quiet, Fading
<1>2. TokensInv'
    BY <1>1, QuietTokens DEF TokensInv
<1>3. BooksInv'
    BY KeptBooks DEF BooksInv, QuietStep, Types
<1>4. CalmInv'
    BY QuietCalm DEF CalmInv, QuietStep
<1>5. ASSUME NEW r \in Request, Published(r)
      PROVE  Published(r)' /\ req'[r].origin = req[r].origin /\ req'[r].kind = req[r].kind
    BY <1>5 DEF QuietStep, Kept, Published
<1>6. MessagesInv'
  <2> SUFFICES ASSUME NEW n \in Node, NEW i \in DOMAIN inbox'[n]
               PROVE  MessageOK(n, inbox[n][i])'
    BY DEF MessagesInv
  <2>1. PICK j \in DOMAIN inbox[n] : inbox'[n][i] = inbox[n][j]
    BY QuietKeepsMessages DEF QuietStep
  <2>2. MessageOK(n, inbox[n][j])
    BY DEF MessagesInv
  <2>3. inbox[n][j].id \in Request
    BY InboxType DEF Types
  <2> QED
    BY <1>5, <2>1, <2>2, <2>3 DEF MessageOK, Published
<1>7. SendingInv'
  <2> SUFFICES ASSUME NEW n \in Node, sub'[n].at = "sending"
               PROVE  /\ sub'[n].id \in Request
                      /\ Published(sub[n].id)'
                      /\ req'[sub'[n].id].origin = n
                      /\ req'[sub'[n].id].kind # "terminate"
    BY DEF SendingInv
  <2>1. sub'[n] = sub[n]
    BY DEF QuietStep
  <2> QED
    BY <1>5, <2>1 DEF SendingInv, Published
<1> QED
    BY <1>2, <1>3, <1>4, <1>6, <1>7

-----------------------------------------------------------------------------
(***************************************************************************)
(* The quiet steps.                                                        *)
(***************************************************************************)
LEMMA SameNodes ==
    ASSUME node' = node, NEW r \in Request
    PROVE  CalmStep(r) /\ \A n \in Node : Alive(n)' = Alive(n)
BY DEF CalmStep, Up, Alive

\* A request that does not change is kept.
LEMMA KeptItself ==
    ASSUME NEW q \in RequestState
    PROVE  Kept(q, q)
BY DEF Kept

\* The fields of a request that quiet steps change.
LEMMA SeenUpdate ==
    ASSUME NEW q \in RequestState, NEW v \in SUBSET Socket, q.seen \subseteq v,
           NEW p, p = [q EXCEPT !.seen = v]
    PROVE  /\ p \in RequestState /\ Kept(q, p)
           /\ p.phase = q.phase /\ p.seen = v /\ p.stable = q.stable
BY DEF RequestState, Kept

\* The same for stable, which only loses sockets,
LEMMA StableUpdate ==
    ASSUME NEW q \in RequestState, NEW v \in SUBSET Socket, v \subseteq q.stable,
           NEW p, p = [q EXCEPT !.stable = v]
    PROVE  /\ p \in RequestState /\ Kept(q, p)
           /\ p.phase = q.phase /\ p.seen = q.seen /\ p.stable = v
BY DEF RequestState, Kept

\* and for calm, which only becomes false.
LEMMA CalmUpdate ==
    ASSUME NEW q \in RequestState, NEW v \in BOOLEAN, v => q.calm,
           NEW p, p = [q EXCEPT !.calm = v]
    PROVE  /\ p \in RequestState /\ Kept(q, p)
           /\ p.phase = q.phase /\ p.seen = q.seen /\ p.stable = q.stable /\ p.calm = v
BY DEF RequestState, Kept

\* A socket that joins adds itself to seen and to nothing else.
LEMMA SocketJoinsQuiet ==
    ASSUME Types, SocketInv, NEW s \in Socket, SocketJoins(s)
    PROVE  Types' /\ SocketInv' /\ QuietStep
<1> USE DEF SocketJoins
<1>1. ASSUME NEW r \in Request
      PROVE  /\ req'[r] \in RequestState
             /\ Kept(req[r], req'[r])
             /\ Reading(r)' <=> Reading(r)
             /\ req'[r].stable = req[r].stable
             /\ req'[r].seen = IF Reading(r) THEN req[r].seen \cup {s} ELSE req[r].seen
  <2>1. req[r] \in RequestState /\ req[r].seen \in SUBSET Socket
    BY DEF Types, RequestState
  <2> DEFINE v == IF Reading(r) THEN req[r].seen \cup {s} ELSE req[r].seen
  <2>2. v \in SUBSET Socket /\ req[r].seen \subseteq v /\ req'[r] = [req[r] EXCEPT !.seen = v]
    BY <2>1
  <2> HIDE DEF v, SocketJoins
  <2>3. /\ req'[r] \in RequestState /\ Kept(req[r], req'[r])
        /\ req'[r].phase = req[r].phase /\ req'[r].seen = v /\ req'[r].stable = req[r].stable
    BY <2>1, <2>2, SeenUpdate
  <2> QED
    BY <2>3 DEF v, Kept, Reading, Active
<1>2. In' = In \cup {s}
    BY DEF In, Types
<1>3. Types'
    BY <1>1 DEF Types
<1>4. ASSUME NEW t \in Socket, sock'[t] = "in"
      PROVE  Alive(Home[t])'
    BY <1>4 DEF Types, SocketInv, Alive
<1>5. ASSUME NEW r \in Request, Reading(r)'
      PROVE  req'[r].stable \subseteq In' /\ In' \subseteq req'[r].seen
  <2> HIDE DEF SocketJoins
  <2> QED
    BY <1>1, <1>2, <1>5 DEF SocketInv
<1>6. SocketInv'
    BY <1>4, <1>5 DEF SocketInv
<1> QED
    BY <1>1, <1>3, <1>6, SameNodes DEF QuietStep

\* Sockets that leave are taken out of stable.
LEMMA WithoutLemma ==
    ASSUME NEW rs \in [Request -> RequestState], NEW ss \in SUBSET Socket
    PROVE  /\ Without(rs, ss) \in [Request -> RequestState]
           /\ \A r \in Request :
                /\ Kept(rs[r], Without(rs, ss)[r])
                /\ Without(rs, ss)[r].phase = rs[r].phase
                /\ Without(rs, ss)[r].seen = rs[r].seen
                /\ Without(rs, ss)[r].stable = IF Reading(r) THEN rs[r].stable \ ss ELSE rs[r].stable
<1>1. ASSUME NEW r \in Request
      PROVE  /\ Without(rs, ss)[r] \in RequestState
             /\ Kept(rs[r], Without(rs, ss)[r])
             /\ Without(rs, ss)[r].phase = rs[r].phase
             /\ Without(rs, ss)[r].seen = rs[r].seen
             /\ Without(rs, ss)[r].stable = IF Reading(r) THEN rs[r].stable \ ss ELSE rs[r].stable
  <2> DEFINE v == IF Reading(r) THEN rs[r].stable \ ss ELSE rs[r].stable
  <2>1. rs[r] \in RequestState /\ rs[r].stable \in SUBSET Socket
    BY DEF RequestState
  <2>2. /\ v \in SUBSET Socket /\ v \subseteq rs[r].stable
        /\ Without(rs, ss)[r] = [rs[r] EXCEPT !.stable = v]
    BY <2>1 DEF Without
  <2> HIDE DEF v
  <2>3. /\ Without(rs, ss)[r] \in RequestState /\ Kept(rs[r], Without(rs, ss)[r])
        /\ Without(rs, ss)[r].phase = rs[r].phase /\ Without(rs, ss)[r].seen = rs[r].seen
        /\ Without(rs, ss)[r].stable = v
    BY <2>1, <2>2, StableUpdate
  <2> QED
    BY <2>3 DEF v
<1>2. Without(rs, ss) = [r \in Request |-> Without(rs, ss)[r]]
    BY DEF Without
<1> QED
    BY <1>1, <1>2

\* The sockets ss leave the channel and the requests rs, which are kept, take note.
LEMMA SocketsLeave ==
    ASSUME Types, SocketInv, NEW ss \in SUBSET Socket,
           sock' \in [Socket -> {"new", "in", "gone"}], In' = In \ ss,
           NEW rs \in [Request -> RequestState],
           \A r \in Request : /\ Kept(req[r], rs[r])
                              /\ rs[r].phase = req[r].phase
                              /\ rs[r].seen = req[r].seen /\ rs[r].stable = req[r].stable,
           req' = Without(rs, ss)
    PROVE  /\ req' \in [Request -> RequestState]
           /\ \A r \in Request :
                /\ Kept(req[r], req'[r])
                /\ Reading(r)' => req'[r].stable \subseteq In' /\ In' \subseteq req'[r].seen
<1>1. ASSUME NEW r \in Request
      PROVE  Kept(req[r], req'[r]) /\ (Reading(r)' <=> Reading(r))
  <2>1. Kept(req[r], rs[r]) /\ Kept(rs[r], req'[r]) /\ req'[r].phase = req[r].phase
    BY WithoutLemma
  <2> QED
    BY <2>1 DEF Kept, Reading, Active
<1>2. ASSUME NEW r \in Request, Reading(r)'
      PROVE  req'[r].stable \subseteq In' /\ In' \subseteq req'[r].seen
  <2>1. Reading(r) /\ rs[r].stable = req[r].stable /\ rs[r].seen = req[r].seen
    BY <1>1, <1>2
  <2>2. req'[r].stable = rs[r].stable \ ss /\ req'[r].seen = rs[r].seen
    BY <2>1, WithoutLemma
  <2> QED
    BY <2>1, <2>2 DEF SocketInv
<1>3. req' \in [Request -> RequestState]
    BY WithoutLemma
<1> QED
    BY <1>1, <1>2, <1>3

\* A socket that leaves is quiet.
LEMMA SocketLeavesQuiet ==
    ASSUME Types, SocketInv, NEW s \in Socket, SocketLeaves(s)
    PROVE  Types' /\ SocketInv' /\ QuietStep
<1> USE DEF SocketLeaves
<1>1. In' = In \ {s} /\ sock' \in [Socket -> {"new", "in", "gone"}]
    BY DEF In, Types
<1>2. /\ req' \in [Request -> RequestState]
      /\ \A r \in Request :
                /\ Kept(req[r], req'[r])
                /\ Reading(r)' => req'[r].stable \subseteq In' /\ In' \subseteq req'[r].seen
  <2>1. req \in [Request -> RequestState] /\ \A r \in Request : Kept(req[r], req[r])
    BY KeptItself DEF Types
  <2> QED
    BY <1>1, <2>1, SocketsLeave
<1>3. Types'
    BY <1>1, <1>2 DEF Types
<1>4. \A t \in Socket : sock'[t] = "in" => sock[t] = "in"
    BY DEF Types
<1>5. SocketInv'
    BY <1>2, <1>4 DEF SocketInv, Alive
<1> QED
    BY <1>2, <1>3, <1>5, SameNodes DEF QuietStep

\* The request of a change of nodes forgets its calm.
LEMMA NotCalmLemma ==
    ASSUME NEW rs \in [Request -> RequestState]
    PROVE  /\ NotCalm(rs) \in [Request -> RequestState]
           /\ \A r \in Request :
                /\ Kept(rs[r], NotCalm(rs)[r])
                /\ NotCalm(rs)[r].phase = rs[r].phase
                /\ NotCalm(rs)[r].seen = rs[r].seen /\ NotCalm(rs)[r].stable = rs[r].stable
                /\ Reading(r) => ~NotCalm(rs)[r].calm
<1>1. ASSUME NEW r \in Request
      PROVE  (rs[r].calm /\ ~Reading(r)) \in BOOLEAN
    BY DEF Reading
<1>2. ASSUME NEW r \in Request, NEW b \in BOOLEAN, b = (rs[r].calm /\ ~Reading(r))
      PROVE  /\ [rs[r] EXCEPT !.calm = b] \in RequestState
             /\ Kept(rs[r], [rs[r] EXCEPT !.calm = b])
             /\ [rs[r] EXCEPT !.calm = b].phase = rs[r].phase
             /\ [rs[r] EXCEPT !.calm = b].seen = rs[r].seen
             /\ [rs[r] EXCEPT !.calm = b].stable = rs[r].stable
             /\ [rs[r] EXCEPT !.calm = b].calm = b
  <2>1. rs[r] \in RequestState /\ (b => rs[r].calm)
    BY <1>2
  <2> QED
    BY <2>1, CalmUpdate
<1>3. ASSUME NEW r \in Request
      PROVE  NotCalm(rs)[r] = [rs[r] EXCEPT !.calm = rs[r].calm /\ ~Reading(r)]
    BY DEF NotCalm
<1>4. NotCalm(rs) = [r \in Request |-> NotCalm(rs)[r]]
    BY DEF NotCalm
<1> QED
    BY <1>1, <1>2, <1>3, <1>4, ZenonT(40)

\* A node that starts only ends the calm of the open requests,
LEMMA NodeStartsQuiet ==
    ASSUME Types, SocketInv, NEW n \in Node, NodeStarts(n)
    PROVE  Types' /\ SocketInv' /\ QuietStep
<1> USE DEF NodeStarts
<1>1. /\ req' \in [Request -> RequestState]
      /\ \A r \in Request :
            /\ Kept(req[r], req'[r])
            /\ Reading(r)' <=> Reading(r)
            /\ req'[r].seen = req[r].seen /\ req'[r].stable = req[r].stable
            /\ Reading(r) => ~req'[r].calm
    BY NotCalmLemma DEF Types, Reading, Active, Kept
<1>2. Types'
    BY <1>1 DEF Types
<1>3. \A q \in Node : Alive(q) => Alive(q)'
    BY DEF Alive, Types
<1>4. In' = In
    BY DEF In
<1>5. SocketInv'
    BY <1>1, <1>3, <1>4, HorizontalAssumption DEF SocketInv, HorizontalAssumption
<1> QED
    BY <1>1, <1>2, <1>5 DEF QuietStep, CalmStep

\* and so does a node whose subscriber fails.
LEMMA ReceiveFailsQuiet ==
    ASSUME Types, SocketInv, NEW n \in Node, ReceiveFails(n)
    PROVE  Types' /\ SocketInv' /\ QuietStep
<1> USE DEF ReceiveFails
<1>1. /\ req' \in [Request -> RequestState]
      /\ \A r \in Request :
            /\ Kept(req[r], req'[r])
            /\ Reading(r)' <=> Reading(r)
            /\ req'[r].seen = req[r].seen /\ req'[r].stable = req[r].stable
            /\ Reading(r) => ~req'[r].calm
    BY NotCalmLemma, SMTT(20) DEF Types, Reading, Active, Kept
<1>2. Types'
    BY <1>1 DEF Types
<1>3. \A q \in Node : Alive(q) => Alive(q)'
    BY DEF Alive, Types
<1>4. In' = In
    BY DEF In
<1>5. SocketInv'
    BY <1>1, <1>3, <1>4, HorizontalAssumption DEF SocketInv, HorizontalAssumption
<1>6. \A q \in Node : inbox'[q] = inbox[q] \/ inbox'[q] = <<>>
    BY DEF Types
<1> QED
    BY <1>1, <1>2, <1>5, <1>6 DEF QuietStep, CalmStep

\* One request changes, in nothing that the invariant speaks of but its phase.
LEMMA OneRequestKept ==
    ASSUME Types, SocketInv, NEW r \in Request, NEW p \in RequestState,
           Kept(req[r], p), p.seen = req[r].seen, p.stable = req[r].stable,
           req' = [req EXCEPT ![r] = p], UNCHANGED <<node, sock>>
    PROVE  /\ req' \in [Request -> RequestState]
           /\ SocketInv'
           /\ \A q \in Request : Kept(req[q], req'[q]) /\ CalmStep(q)
<1>1. req' \in [Request -> RequestState]
    BY DEF Types
<1>2. ASSUME NEW q \in Request
      PROVE  /\ Kept(req[q], req'[q])
             /\ req'[q].seen = req[q].seen /\ req'[q].stable = req[q].stable
  <2>1. CASE q = r
    BY <2>1 DEF Types
  <2>2. CASE q # r
    <3>1. req'[q] = req[q] /\ req[q] \in RequestState
      BY <2>2 DEF Types
    <3> QED
      BY <3>1, KeptItself
  <2> QED
    BY <2>1, <2>2
<1>3. ASSUME NEW q \in Request, Reading(q)'
      PROVE  Reading(q)
    BY <1>2, <1>3 DEF Kept, Reading, Active
<1>4. In' = In /\ \A n \in Node : Alive(n)' = Alive(n)
    BY DEF In, Alive
<1>5. ASSUME NEW t \in Socket, sock'[t] = "in"
      PROVE  Alive(Home[t])'
    BY <1>5 DEF SocketInv, Alive
<1>6. ASSUME NEW q \in Request, Reading(q)'
      PROVE  req'[q].stable \subseteq In' /\ In' \subseteq req'[q].seen
    BY <1>2, <1>3, <1>4, <1>6 DEF SocketInv
<1>7. SocketInv'
    BY <1>5, <1>6 DEF SocketInv
<1> QED
    BY <1>1, <1>2, <1>7, SameNodes

\* The caller's and the waiter's steps other than counting are quiet.
LEMMA CallerQuiet ==
    ASSUME Types, SocketInv, NEW r \in Request, Unlist(r) \/ Timeout(r) \/ CloseResolveChan(r)
    PROVE  Types' /\ SocketInv' /\ QuietStep
<1>1. PICK p \in RequestState :
        /\ Kept(req[r], p) /\ p.seen = req[r].seen /\ p.stable = req[r].stable
        /\ req' = [req EXCEPT ![r] = p] /\ UNCHANGED <<node, sock, inbox, sub>>
  <2> DEFINE q == req[r]
  <2>0. q \in RequestState
    BY DEF Types
  <2>1. CASE Unlist(r)
    <3> DEFINE p == [q EXCEPT !.listed = FALSE]
    <3>1. q.phase = "resolved" /\ req' = [req EXCEPT ![r] = p]
          /\ UNCHANGED <<node, sock, inbox, sub>>
      BY <2>1 DEF Unlist
    <3> HIDE DEF q
    <3>2. p \in RequestState /\ p.seen = q.seen /\ p.stable = q.stable
      BY <2>0 DEF RequestState
    <3>3. Kept(q, p)
      BY <2>0, <3>1 DEF RequestState, Kept
    <3> QED
      BY <3>1, <3>2, <3>3 DEF q
  <2>2. CASE Timeout(r)
    <3> DEFINE p == [q EXCEPT !.phase = "resolved"]
    <3>1. q.phase = "waiting" /\ req' = [req EXCEPT ![r] = p]
          /\ UNCHANGED <<node, sock, inbox, sub>>
      BY <2>2 DEF Timeout
    <3> HIDE DEF q
    <3>2. p \in RequestState /\ p.seen = q.seen /\ p.stable = q.stable
      BY <2>0 DEF RequestState
    <3>3. Kept(q, p)
      BY <2>0, <3>1 DEF RequestState, Kept
    <3> QED
      BY <3>1, <3>2, <3>3 DEF q
  <2>3. CASE CloseResolveChan(r)
    <3> DEFINE v == IF q.resolve = "open" THEN "closed" ELSE "nil"
               p == [q EXCEPT !.resolve = v]
    <3>1. req' = [req EXCEPT ![r] = p] /\ UNCHANGED <<node, sock, inbox, sub>>
      BY <2>3 DEF CloseResolveChan
    <3>2. v \in {"open", "closed", "nil"}
      OBVIOUS
    <3> HIDE DEF q, v
    <3>3. p \in RequestState /\ p.seen = q.seen /\ p.stable = q.stable
      BY <2>0, <3>2 DEF RequestState
    <3>4. Kept(q, p)
      BY <2>0 DEF RequestState, Kept
    <3> QED
      BY <3>1, <3>3, <3>4 DEF q
  <2> QED
    BY <2>1, <2>2, <2>3
<1>2. /\ req' \in [Request -> RequestState] /\ SocketInv'
      /\ \A q \in Request : Kept(req[q], req'[q]) /\ CalmStep(q)
    BY <1>1, OneRequestKept
<1>3. Types'
    BY <1>1, <1>2 DEF Types
<1> QED
    BY <1>1, <1>2, <1>3 DEF QuietStep

\* Nothing happens to the requests and the sockets.
LEMMA NoRequestChanges ==
    ASSUME Types, SocketInv, UNCHANGED <<node, sock, req>>
    PROVE  /\ SocketInv'
           /\ \A q \in Request : Kept(req[q], req'[q]) /\ CalmStep(q)
<1>1. \A q \in Request : Kept(req[q], req'[q])
    BY KeptItself DEF Types
<1>2. SocketInv'
    BY DEF SocketInv, Reading, Active, In, Alive
<1> QED
    BY <1>1, <1>2, SameNodes

\* The subscriber takes the first message from its inbox.
LEMMA TakeLemma ==
    ASSUME Types, NEW n \in Node, inbox[n] # <<>>, inbox' = [inbox EXCEPT ![n] = Tail(@)]
    PROVE  /\ inbox' \in [Node -> Seq(Msg)]
           /\ Head(inbox[n]) \in Msg /\ 1 \in DOMAIN inbox[n] /\ Head(inbox[n]) = inbox[n][1]
           /\ \A q \in Node : \/ inbox'[q] = inbox[q]
                              \/ q = n /\ inbox[q] # <<>> /\ inbox'[q] = Tail(inbox[q])
<1>1. inbox[n] \in Seq(Msg)
    BY DEF Types
<1>2. /\ Tail(inbox[n]) \in Seq(Msg) /\ Head(inbox[n]) \in Msg
      /\ 1 \in DOMAIN inbox[n] /\ Head(inbox[n]) = inbox[n][1]
    BY <1>1, TailLemma
<1>3. inbox' \in [Node -> Seq(Msg)] /\ inbox'[n] = Tail(inbox[n])
    BY <1>2 DEF Types
<1>4. \A q \in Node : q # n => inbox'[q] = inbox[q]
    BY DEF Types
<1> QED
    BY <1>2, <1>3, <1>4

\* A subscriber between two messages.
LEMMA IdleLemma ==
    ASSUME NEW n \in Node
    PROVE  Idle(n) \in Subscriber /\ Idle(n).at = "idle"
BY DEF Idle, Subscriber

\* A subscriber that passes over its own node's request, or sends on a nil
\* channel, is quiet.
LEMMA SubscriberQuiet ==
    ASSUME Types, SocketInv, NEW n \in Node, OwnRequest(n) \/ SendOnNil(n)
    PROVE  Types' /\ SocketInv' /\ QuietStep
<1>1. UNCHANGED <<node, sock, req>>
    BY DEF OwnRequest, SendOnNil
<1>2. SocketInv' /\ \A q \in Request : Kept(req[q], req'[q]) /\ CalmStep(q)
    BY <1>1, NoRequestChanges
<1>3. CASE OwnRequest(n)
  <2>1. inbox[n] # <<>> /\ inbox' = [inbox EXCEPT ![n] = Tail(@)] /\ sub' = sub
    BY <1>3 DEF OwnRequest, Receives
  <2> QED
    BY <1>1, <1>2, <2>1, TakeLemma DEF Types, QuietStep
<1>4. CASE SendOnNil(n)
  <2>1. PICK p \in {Idle(n), [sub[n] EXCEPT !.at = "hung"]} :
            inbox' = inbox /\ sub' = [sub EXCEPT ![n] = p]
    BY <1>4 DEF SendOnNil
  <2>2. p \in Subscriber /\ p.at # "sending"
    <3>1. CASE p = Idle(n)
      BY <3>1, IdleLemma
    <3>2. CASE p = [sub[n] EXCEPT !.at = "hung"]
      <4>1. sub[n] \in Subscriber
        BY DEF Types
      <4> QED
        BY <3>2, <4>1 DEF Subscriber
    <3> QED
      BY <3>1, <3>2
  <2>3. Types'
    BY <1>1, <2>1, <2>2 DEF Types
  <2>4. \A q \in Node : sub'[q] = sub[q] \/ sub'[q].at # "sending"
    BY <2>1, <2>2 DEF Types
  <2> QED
    BY <1>2, <2>1, <2>3, <2>4 DEF QuietStep
<1> QED
    BY <1>3, <1>4

\* Noting the nodes that have closed a user's sockets keeps the request.
LEMMA ClosedUpdate ==
    ASSUME NEW q \in RequestState, NEW v \in SUBSET Node, NEW p, p = [q EXCEPT !.closed = v]
    PROVE  /\ p \in RequestState /\ Kept(q, p)
           /\ p.phase = q.phase /\ p.seen = q.seen /\ p.stable = q.stable
BY DEF RequestState, Kept

\* So does noting a node that gave up; its subscriber goes on to the next
\* message.
LEMMA TerminateFailsQuiet ==
    ASSUME Types, SocketInv, NEW n \in Node, TerminateFails(n)
    PROVE  Types' /\ SocketInv' /\ QuietStep
<1> DEFINE m == Head(inbox[n])
<1>1. /\ inbox[n] # <<>> /\ inbox' = [inbox EXCEPT ![n] = Tail(@)]
      /\ req' = [req EXCEPT ![m.id].refused = @ \cup {n}]
      /\ UNCHANGED <<node, sock, sub>>
    BY DEF TerminateFails, Receives
<1>2. m \in Msg /\ m.id \in Request
    BY <1>1, TakeLemma DEF Msg
<1>3. PICK q, p :
        q \in RequestState /\ q = req[m.id] /\ p = [q EXCEPT !.refused = @ \cup {n}]
        /\ req' = [req EXCEPT ![m.id] = p]
    BY <1>1, <1>2 DEF Types
<1> HIDE DEF m
<1>4. p \in RequestState /\ Kept(q, p) /\ p.seen = q.seen /\ p.stable = q.stable
    BY <1>3 DEF RequestState, Kept
<1>5. /\ req' \in [Request -> RequestState] /\ SocketInv'
      /\ \A x \in Request : Kept(req[x], req'[x]) /\ CalmStep(x)
    BY <1>1, <1>2, <1>3, <1>4, OneRequestKept
<1>6. Types'
    BY <1>1, <1>5, TakeLemma DEF Types
<1> QED
    BY <1>1, <1>5, <1>6, TakeLemma DEF QuietStep

\* Closing a user's sockets on a node, with the requests rs that note it.
LEMMA CloseSocketsLemma ==
    ASSUME Types, SocketInv, NEW n \in Node, NEW u, node' = node,
           NEW rs \in [Request -> RequestState],
           \A r \in Request : /\ Kept(req[r], rs[r])
                              /\ rs[r].phase = req[r].phase
                              /\ rs[r].seen = req[r].seen /\ rs[r].stable = req[r].stable,
           CloseSockets(n, u, rs)
    PROVE  /\ req' \in [Request -> RequestState]
           /\ sock' \in [Socket -> {"new", "in", "gone"}]
           /\ SocketInv'
           /\ \A q \in Request : Kept(req[q], req'[q]) /\ CalmStep(q)
<1> DEFINE ss == {s \in Local(n) : UserOf[s] = u}
<1>1. /\ ss \in SUBSET Socket
      /\ sock' = [s \in Socket |-> IF s \in ss THEN "gone" ELSE sock[s]]
      /\ req' = Without(rs, ss)
    BY DEF CloseSockets, Local, In
<1> HIDE DEF ss
<1>2. sock' \in [Socket -> {"new", "in", "gone"}] /\ In' = In \ ss
    BY <1>1 DEF Types, In
<1>3. /\ req' \in [Request -> RequestState]
      /\ \A r \in Request :
            /\ Kept(req[r], req'[r])
            /\ Reading(r)' => req'[r].stable \subseteq In' /\ In' \subseteq req'[r].seen
    BY <1>1, <1>2, SocketsLeave
<1>4. ASSUME NEW t \in Socket, sock'[t] = "in"
      PROVE  Alive(Home[t])'
    BY <1>1, <1>4 DEF SocketInv, Alive
<1> QED
    BY <1>2, <1>3, <1>4, SameNodes DEF SocketInv

\* Closing a user's sockets on the caller's own node is quiet.
LEMMA TerminateLocallyQuiet ==
    ASSUME Types, SocketInv, NEW r \in Request, TerminateLocally(r)
    PROVE  Types' /\ SocketInv' /\ QuietStep
<1> DEFINE n == req[r].origin
           p == req[r].parent
           rs == [q \in Request |-> IF q \in {r, p} THEN [req[q] EXCEPT !.closed = @ \cup {n}]
                                    ELSE req[q]]
<1>1. /\ CloseSockets(n, req[r].user, rs)
      /\ sub' = [sub EXCEPT ![n] = IF @.at = "calling" /\ @.id = r THEN Idle(n) ELSE @]
      /\ UNCHANGED <<node, inbox>>
    BY DEF TerminateLocally
<1>2. n \in Node
    BY DEF Types, RequestState
<1> HIDE DEF n, p
<1>3. ASSUME NEW q \in Request
      PROVE  /\ rs[q] \in RequestState
             /\ Kept(req[q], rs[q]) /\ rs[q].phase = req[q].phase
             /\ rs[q].seen = req[q].seen /\ rs[q].stable = req[q].stable
  <2>1. req[q] \in RequestState /\ req[q].closed \cup {n} \in SUBSET Node
    BY <1>2 DEF Types, RequestState
  <2>2. CASE q \in {r, p}
    <3>1. rs[q] = [req[q] EXCEPT !.closed = req[q].closed \cup {n}]
      BY <2>2
    <3> HIDE DEF rs
    <3> QED
      BY <2>1, <3>1, ClosedUpdate
  <2>3. CASE q \notin {r, p}
    <3>1. rs[q] = req[q]
      BY <2>3
    <3> HIDE DEF rs
    <3> QED
      BY <2>1, <3>1, KeptItself
  <2> QED
    BY <2>2, <2>3
<1>4. rs \in [Request -> RequestState]
    BY <1>3
<1> HIDE DEF rs
<1>5. /\ req' \in [Request -> RequestState]
      /\ sock' \in [Socket -> {"new", "in", "gone"}]
      /\ SocketInv'
      /\ \A q \in Request : Kept(req[q], req'[q]) /\ CalmStep(q)
    BY <1>1, <1>2, <1>3, <1>4, CloseSocketsLemma
<1>6. \A q \in Node : sub'[q] \in Subscriber /\ (sub'[q] = sub[q] \/ sub'[q].at # "sending")
    BY <1>1, <1>2, IdleLemma DEF Types
<1>7. Types'
    BY <1>1, <1>5, <1>6 DEF Types
<1> QED
    BY <1>1, <1>5, <1>6, <1>7 DEF QuietStep

\* Without a spare request the subscriber closes the sockets itself.
LEMMA TerminateQuiet ==
    ASSUME Types, SocketInv, NEW n \in Node, Terminate(n), Spare = {}
    PROVE  Types' /\ SocketInv' /\ QuietStep
<1> DEFINE m == Head(inbox[n])
           rs == [req EXCEPT ![m.id].closed = @ \cup {n}]
<1>1. /\ inbox[n] # <<>> /\ inbox' = [inbox EXCEPT ![n] = Tail(@)]
      /\ CloseSockets(n, req[m.id].user, rs)
      /\ UNCHANGED <<node, sub>>
    BY DEF Terminate, Receives
<1>2. m \in Msg /\ m.id \in Request
    BY <1>1, TakeLemma DEF Msg
<1> HIDE DEF m
<1>3. ASSUME NEW q \in Request
      PROVE  /\ rs[q] \in RequestState
             /\ Kept(req[q], rs[q]) /\ rs[q].phase = req[q].phase
             /\ rs[q].seen = req[q].seen /\ rs[q].stable = req[q].stable
  <2>1. req[q] \in RequestState /\ req[q].closed \cup {n} \in SUBSET Node
    BY DEF Types, RequestState
  <2>2. CASE q = m.id
    <3>1. rs[q] = [req[q] EXCEPT !.closed = req[q].closed \cup {n}]
      BY <2>2 DEF Types
    <3> HIDE DEF rs
    <3> QED
      BY <2>1, <3>1, ClosedUpdate
  <2>3. CASE q # m.id
    <3>1. rs[q] = req[q]
      BY <2>3 DEF Types
    <3> HIDE DEF rs
    <3> QED
      BY <2>1, <3>1, KeptItself
  <2> QED
    BY <2>2, <2>3
<1>4. rs \in [Request -> RequestState]
  <2>1. rs = [q \in Request |-> rs[q]]
    BY DEF Types
  <2> HIDE DEF rs
  <2> QED
    BY <1>3, <2>1
<1> HIDE DEF rs
<1>5. /\ req' \in [Request -> RequestState]
      /\ sock' \in [Socket -> {"new", "in", "gone"}]
      /\ SocketInv'
      /\ \A q \in Request : Kept(req[q], req'[q]) /\ CalmStep(q)
    BY <1>1, <1>3, <1>4, CloseSocketsLemma
<1>6. Types'
    BY <1>1, <1>5, TakeLemma DEF Types
<1> QED
    BY <1>1, <1>5, <1>6, TakeLemma DEF QuietStep

\* A node that panics takes its sockets with it.
LEMMA SendOnClosedQuiet ==
    ASSUME Types, SocketInv, NEW n \in Node, SendOnClosed(n)
    PROVE  Types' /\ SocketInv' /\ QuietStep
<1> DEFINE rs == Without(req, Local(n))
<1>1. /\ node' = [node EXCEPT ![n] = "crashed"]
      /\ sock' = [s \in Socket |-> IF Home[s] = n THEN "gone" ELSE sock[s]]
      /\ inbox' = [inbox EXCEPT ![n] = <<>>]
      /\ req' = NotCalm(rs) /\ sub' = sub
    BY DEF SendOnClosed
<1>2. Local(n) \in SUBSET Socket /\ In' = In \ Local(n)
    BY <1>1 DEF Local, In, Types
<1>3. /\ rs \in [Request -> RequestState]
      /\ \A r \in Request :
            /\ Kept(req[r], rs[r]) /\ rs[r].phase = req[r].phase /\ rs[r].seen = req[r].seen
            /\ rs[r].stable = IF Reading(r) THEN req[r].stable \ Local(n) ELSE req[r].stable
    BY <1>2, WithoutLemma DEF Types
<1> HIDE DEF rs
<1>4. /\ req' \in [Request -> RequestState]
      /\ \A r \in Request :
            /\ Kept(rs[r], req'[r]) /\ req'[r].phase = rs[r].phase
            /\ req'[r].seen = rs[r].seen /\ req'[r].stable = rs[r].stable
            /\ Reading(r) => ~req'[r].calm
    BY <1>1, <1>3, NotCalmLemma
<1>5. ASSUME NEW r \in Request
      PROVE  Kept(req[r], req'[r]) /\ (Reading(r)' <=> Reading(r))
  <2>1. Kept(req[r], rs[r]) /\ Kept(rs[r], req'[r]) /\ req'[r].phase = req[r].phase
    BY <1>3, <1>4
  <2> QED
    BY <2>1 DEF Kept, Reading, Active
<1>6. ASSUME NEW t \in Socket, sock'[t] = "in"
      PROVE  Alive(Home[t])'
  <2>1. Home[t] # n /\ sock[t] = "in" /\ Home[t] \in Node
    BY <1>1, <1>6, HorizontalAssumption DEF HorizontalAssumption
  <2> QED
    BY <1>1, <2>1 DEF SocketInv, Alive, Types
<1>7. ASSUME NEW r \in Request, Reading(r)'
      PROVE  req'[r].stable \subseteq In' /\ In' \subseteq req'[r].seen
    BY <1>2, <1>3, <1>4, <1>5, <1>7 DEF SocketInv
<1>8. SocketInv'
    BY <1>6, <1>7 DEF SocketInv
<1>9. Types'
    BY <1>1, <1>4 DEF Types
<1>10. \A r \in Request : CalmStep(r)
    BY <1>4, <1>5 DEF CalmStep
<1>11. \A q \in Node : inbox'[q] = inbox[q] \/ inbox'[q] = <<>>
    BY <1>1 DEF Types
<1> QED
    BY <1>1, <1>5, <1>8, <1>9, <1>10, <1>11 DEF QuietStep

-----------------------------------------------------------------------------
(***************************************************************************)
(* A new request: it has counted its own node and has no messages.         *)
(***************************************************************************)
LEMMA NumSubLemma ==
    ASSUME NEW num \in NumSub
    PROVE  /\ num \in Nat
           /\ (\A q \in Node : node[q] # "deaf") => num = Cardinality(Up)
<1> DEFINE deaf == {q \in Node : node[q] = "deaf"}
<1>1. Cardinality(Up) \in Nat /\ Cardinality(deaf) \in Nat
    BY NodesLemma DEF Up
<1>2. PICK k \in 0..Cardinality(deaf) : num = k + Cardinality(Up)
    BY DEF NumSub
<1>3. (\A q \in Node : node[q] # "deaf") => Cardinality(deaf) = 0
  <2>1. (\A q \in Node : node[q] # "deaf") => deaf = {}
    OBVIOUS
  <2> QED
    BY <2>1, FS_EmptySet
<1> HIDE DEF deaf
<1> QED
    BY <1>1, <1>2, <1>3

\* What node n has counted and noted when it makes a call of kind k.
Starts(p, n, k, num) ==
    /\ p.phase = "publish" /\ p.origin = n /\ p.kind = k /\ p.numSub = num
    /\ p.count = 0 /\ p.answered = {} /\ p.listed /\ ~p.all
    /\ p.calm => \A q \in Node : node[q] # "deaf"
    /\ k # "terminate" =>
        /\ p.total = Share(k, Local(n))
        /\ p.members = IF k = "members" THEN Users(Local(n)) ELSE {}
        /\ p.stable = In /\ p.seen = In /\ p.counted = Local(n)

\* A new request starts with what its own node has.
LEMMA NewRequestLemma ==
    ASSUME NEW n \in Node, NEW k \in Kind, NEW u \in User, NEW parent \in Request \cup {0},
           NEW num \in NumSub, NEW p, p = NewRequest(n, k, u, parent, num)
    PROVE  /\ p \in RequestState
           /\ Starts(p, n, k, num)
<1> DEFINE total == Share(k, Local(n))
           members == IF k = "members" THEN Users(Local(n)) ELSE {}
           calm == \A q \in Node : node[q] # "deaf"
           there == IF k = "terminate" THEN {} ELSE In
           counted == IF k = "terminate" THEN {} ELSE Local(n)
<1>1. /\ Local(n) \in SUBSET Socket
      /\ total \in Nat /\ members \in SUBSET User /\ calm \in BOOLEAN
      /\ there \in SUBSET Socket /\ counted \in SUBSET Socket
  <2>1. Local(n) \in SUBSET Socket /\ In \in SUBSET Socket
    BY DEF Local, In
  <2> QED
    BY <2>1, ShareLemma, SocketsLemma
<1>2. num \in Nat
    BY NumSubLemma
<1>3. p = [phase |-> "publish", origin |-> n, kind |-> k, user |-> u, parent |-> parent,
           numSub |-> num, count |-> 0, total |-> total, members |-> members,
           resolve |-> "open", listed |-> TRUE, all |-> FALSE, calm |-> calm,
           stable |-> there, seen |-> there, answered |-> {}, counted |-> counted,
           heard |-> {}, closed |-> {}, refused |-> {}]
    BY DEF NewRequest, Unused
<1> HIDE DEF total, members, calm, there, counted
<1>4. p \in RequestState
    BY <1>1, <1>2, <1>3 DEF RequestState
<1>5. /\ p.phase = "publish" /\ p.origin = n /\ p.kind = k /\ p.numSub = num
      /\ p.count = 0 /\ p.answered = {} /\ p.total = total /\ p.members = members
      /\ p.stable = there /\ p.seen = there /\ p.counted = counted
    BY <1>3
<1>6. p.listed = TRUE /\ p.all = FALSE /\ p.calm = calm
    BY <1>3
<1> QED
    BY <1>4, <1>5, <1>6 DEF Starts, total, members, calm, there, counted

\* The books of a new request balance.
LEMMA NewBooks ==
    ASSUME NEW n \in Node, NEW k \in Kind, NEW p \in RequestState, NEW num \in Nat,
           Starts(p, n, k, num), k # "terminate" => num > 1
    PROVE  Books(p)
<1> USE DEF Starts
<1>1. ASSUME k # "terminate"
      PROVE  Added(p)
  <2>1. /\ Local(n) \in SUBSET Socket /\ Local(n) \subseteq In
        /\ \A s \in In : Home[s] = n <=> s \in Local(n)
    BY DEF Local, In
  <2>2. Sum(k, {} \cup Local(n)) = Sum(k, {}) + Share(k, Local(n))
    BY <2>1, SumLemma
  <2>3. Sum(k, {}) = 0
    <3>1. Pairs({}) = {} /\ Cardinality({}) = 0
      BY FS_EmptySet DEF Pairs
    <3> QED
      BY <3>1 DEF Sum
  <2>4. Share(k, Local(n)) = Sum(k, Local(n))
    <3>1. {} \cup Local(n) = Local(n)
      OBVIOUS
    <3>2. Share(k, Local(n)) \in Nat
      BY <2>1, ShareLemma
    <3> QED
      BY <2>2, <2>3, <3>1, <3>2
  <2>5. Cardinality({}) = 0
    BY FS_EmptySet
  <2> QED
    BY <1>1, <2>1, <2>4, <2>5 DEF Added
<1> QED
    BY <1>1 DEF Books

\* A new request, of a caller or of a subscriber that forwards one.
LEMMA NewRequestInv ==
    ASSUME HorizontalInv, NEW n \in Node, NEW k \in Kind, NEW u \in User,
           NEW parent \in Request \cup {0}, NEW num \in NumSub, NEW r \in Request,
           Alive(n), req[r].phase = "none", k # "terminate" => num > 1,
           req' = [req EXCEPT ![r] = NewRequest(n, k, u, parent, num)],
           UNCHANGED <<node, sock>>,
           inbox' \in [Node -> Seq(Msg)], sub' \in [Node -> Subscriber],
           \A q \in Node : inbox'[q] = inbox[q] \/ (inbox[q] # <<>> /\ inbox'[q] = Tail(inbox[q])),
           \A q \in Node : sub'[q] = sub[q] \/ sub'[q].at # "sending"
    PROVE  HorizontalInv'
<1> USE DEF HorizontalInv
<1> DEFINE p == NewRequest(n, k, u, parent, num)
<1>0. p = NewRequest(n, k, u, parent, num)
    OBVIOUS
<1> HIDE DEF p
<1>1. p \in RequestState /\ Starts(p, n, k, num)
    BY <1>0, NewRequestLemma
<1>2. req'[r] = p /\ \A q \in Request : q # r => req'[q] = req[q]
    BY <1>0 DEF Types
<1>3. Types'
    BY <1>0, <1>1 DEF Types
<1>4. ASSUME NEW q \in Request, q # r
      PROVE  Quiet(q)
  <2>1. Kept(req[q], req'[q])
    BY <1>2, <1>4, KeptItself DEF Types
  <2> QED
    BY <2>1, QuietKeepsMessages, SameNodes DEF Quiet, Fading
<1>5. TokensInv'
  <2>1. ASSUME NEW q \in Request
        PROVE  Tokens(q)'
    <3>1. CASE q = r
      BY <1>1, <1>2, <3>1 DEF Tokens, Waiting, Starts
    <3>2. CASE q # r
      BY <1>3, <1>4, <3>2, QuietTokens DEF TokensInv
    <3> QED
      BY <3>1, <3>2
  <2> QED
    BY <2>1 DEF TokensInv
<1>6. BooksInv'
  <2>1. Books(p)
    BY <1>1, NewBooks, NumSubLemma
  <2>2. ASSUME NEW q \in Request
        PROVE  Books(req'[q])
    BY <1>2, <2>1 DEF BooksInv
  <2> QED
    BY <2>2 DEF BooksInv
<1>7. CalmInv'
  <2>1. ASSUME NEW q \in Request
        PROVE  Calm(q)'
    <3>1. CASE q = r
      <4>1. ASSUME p.calm
            PROVE  n \in Up /\ num = Cardinality(Up)
        BY <1>1, <4>1, NumSubLemma DEF Alive, Up, Starts
      <4> QED
        BY <1>1, <1>2, <3>1, <4>1 DEF Calm, Up, Starts
    <3>2. CASE q # r
      BY <1>4, <3>2, QuietCalm DEF CalmInv, Quiet, Fading
    <3> QED
      BY <3>1, <3>2
  <2> QED
    BY <2>1 DEF CalmInv
<1>8. SocketInv'
  <2>1. In' = In /\ \A s \in Socket : sock'[s] = "in" => Alive(Home[s])'
    BY DEF In, SocketInv, Alive
  <2>2. ASSUME NEW q \in Request, Reading(q)'
        PROVE  req'[q].stable \subseteq In' /\ In' \subseteq req'[q].seen
    BY <1>1, <1>2, <2>1, <2>2 DEF SocketInv, Reading, Active, Starts
  <2> QED
    BY <2>1, <2>2 DEF SocketInv
<1>9. ASSUME NEW q \in Request, Published(q)
      PROVE  Published(q)' /\ req'[q] = req[q]
    BY <1>2, <1>9 DEF Published
<1>10. MessagesInv'
  <2> SUFFICES ASSUME NEW q \in Node, NEW i \in DOMAIN inbox'[q]
               PROVE  MessageOK(q, inbox[q][i])'
    BY DEF MessagesInv
  <2>1. PICK j \in DOMAIN inbox[q] : inbox'[q][i] = inbox[q][j]
    BY QuietKeepsMessages
  <2>2. MessageOK(q, inbox[q][j]) /\ inbox[q][j].id \in Request
    BY InboxType DEF MessagesInv, Types
  <2> QED
    BY <1>9, <2>1, <2>2 DEF MessageOK, Published
<1>11. SendingInv'
    BY <1>9 DEF SendingInv, Published
<1> QED
    BY <1>3, <1>5, <1>6, <1>7, <1>8, <1>10, <1>11

\* A call of the adapter.
LEMMA CallInv ==
    ASSUME HorizontalInv, NEW n \in Node, NEW k \in Kind, NEW u \in User, NEW r \in Request,
           Call(n, k, u, r)
    PROVE  HorizontalInv'
<1>1. PICK num \in NumSub :
        /\ k # "terminate" => num > 1
        /\ req' = [req EXCEPT ![r] = NewRequest(n, k, u, 0, num)]
    BY DEF Call
<1>2. /\ Alive(n) /\ req[r].phase = "none" /\ UNCHANGED <<node, sock, inbox, sub>>
      /\ inbox' \in [Node -> Seq(Msg)] /\ sub' \in [Node -> Subscriber]
    BY DEF Call, HorizontalInv, Types
<1> QED
    BY <1>1, <1>2, NewRequestInv

\* With a spare request the subscriber makes the call that it received.
LEMMA TerminateInv ==
    ASSUME HorizontalInv, NEW n \in Node, Terminate(n), Spare # {}
    PROVE  HorizontalInv'
<1> DEFINE m == Head(inbox[n])
           u == req[m.id].user
<1>1. PICK r \in Spare, num \in NumSub :
        /\ req' = [req EXCEPT ![r] = NewRequest(n, "terminate", u, m.id, num)]
        /\ sub' = [sub EXCEPT ![n] = [Idle(n) EXCEPT !.at = "calling", !.id = r]]
        /\ UNCHANGED <<node, sock>>
    BY DEF Terminate
<1>2. Alive(n) /\ inbox[n] # <<>> /\ inbox' = [inbox EXCEPT ![n] = Tail(@)]
    BY DEF Terminate, Receives, Alive
<1>3. m \in Msg /\ m.id \in Request
    BY <1>2, TakeLemma DEF Msg, HorizontalInv
<1>4. u \in User
    BY <1>3 DEF HorizontalInv, Types, RequestState
<1>5. r \in Request /\ req[r].phase = "none"
    BY DEF Spare
<1>6. [Idle(n) EXCEPT !.at = "calling", !.id = r] \in Subscriber
      /\ [Idle(n) EXCEPT !.at = "calling", !.id = r].at = "calling"
    BY <1>5 DEF Idle, Subscriber
<1>7. /\ sub' \in [Node -> Subscriber]
      /\ \A q \in Node : sub'[q] = sub[q] \/ sub'[q].at # "sending"
    BY <1>1, <1>6 DEF HorizontalInv, Types
<1>8. /\ inbox' \in [Node -> Seq(Msg)]
      /\ \A q \in Node : inbox'[q] = inbox[q] \/ (inbox[q] # <<>> /\ inbox'[q] = Tail(inbox[q]))
    BY <1>2, TakeLemma DEF HorizontalInv
<1> HIDE DEF m, u
<1>9. m.id \in Request \cup {0} /\ "terminate" \in Kind
    BY <1>3 DEF Kind
<1> QED
    BY <1>1, <1>2, <1>4, <1>5, <1>7, <1>8, <1>9, NewRequestInv

-----------------------------------------------------------------------------
(***************************************************************************)
(* Publishing: every subscriber is asked once, nobody has answered.        *)
(***************************************************************************)
LEMMA AppendLemma ==
    ASSUME NEW s \in Seq(Msg), NEW m \in Msg
    PROVE  /\ Append(s, m) \in Seq(Msg)
           /\ \A i \in DOMAIN Append(s, m) :
                \/ i \in DOMAIN s /\ Append(s, m)[i] = s[i] /\ i + 0 = i
                \/ i = Len(s) + 1 /\ Append(s, m)[i] = m
OBVIOUS

\* The request q after it was published.
PublishedAs(q, p) ==
    /\ p.phase = "waiting" /\ p.origin = q.origin /\ p.kind = q.kind
    /\ p.answered = q.answered /\ p.numSub = q.numSub /\ p.calm = q.calm
    /\ p.stable = q.stable /\ p.seen = q.seen
    /\ Books(q) => Books(p)

\* Publishing changes the phase and who hears of it.
LEMMA PhaseUpdate ==
    ASSUME NEW q \in RequestState, NEW h \in SUBSET Node, q.phase = "publish",
           NEW p, p = [q EXCEPT !.phase = "waiting", !.heard = h]
    PROVE  p \in RequestState /\ PublishedAs(q, p)
<1>1. p \in RequestState
    BY DEF RequestState
<1>2. /\ p.phase = "waiting" /\ p.origin = q.origin /\ p.kind = q.kind /\ p.answered = q.answered
      /\ p.numSub = q.numSub /\ p.stable = q.stable /\ p.seen = q.seen /\ p.count = q.count
      /\ p.total = q.total /\ p.members = q.members /\ p.counted = q.counted
    BY DEF RequestState
<1>3. p.calm = q.calm /\ p.all = q.all /\ p.listed = q.listed
    BY DEF RequestState
<1>4. Books(q) => Books(p)
    BY <1>2, <1>3 DEF Books, Added
<1> QED
    BY <1>1, <1>2, <1>3, <1>4 DEF PublishedAs

\* Publishing asks every subscriber once: nobody was asked before.
LEMMA PublishInv ==
    ASSUME HorizontalInv, NEW r \in Request, Publish(r)
    PROVE  HorizontalInv'
<1> USE DEF HorizontalInv
<1>a. PICK to \in SUBSET Node :
        /\ inbox' = [n \in Node |-> IF n \in to THEN Append(inbox[n], RequestMsg(r)) ELSE inbox[n]]
        /\ req' = [req EXCEPT ![r].phase = "waiting", ![r].heard = to]
  <2>1. Reached(req[r].origin) \subseteq SUBSET Node
    BY DEF Reached, Up
  <2> QED
    BY <2>1 DEF Publish
<1> DEFINE m == RequestMsg(r)
           p == [req[r] EXCEPT !.phase = "waiting", !.heard = to]
<1>0. p = [req[r] EXCEPT !.phase = "waiting", !.heard = to]
    OBVIOUS
<1>1. /\ req[r].phase = "publish"
      /\ inbox' = [n \in Node |-> IF n \in to THEN Append(inbox[n], m) ELSE inbox[n]]
      /\ req' = [req EXCEPT ![r] = p]
      /\ UNCHANGED <<node, sock, sub>>
    BY <1>a DEF Publish
<1>2. /\ m \in Msg /\ m.type = "request" /\ m.id = r /\ m.from = req[r].origin
    BY DEF RequestMsg, Msg, Types, RequestState
<1>3. /\ p \in RequestState
      /\ p.phase = "waiting" /\ p.origin = req[r].origin /\ p.kind = req[r].kind
      /\ p.answered = req[r].answered /\ p.numSub = req[r].numSub /\ p.calm = req[r].calm
      /\ p.stable = req[r].stable /\ p.seen = req[r].seen
      /\ Books(req[r]) => Books(p)
  <2> HIDE DEF p
  <2>1. req[r] \in RequestState
    BY DEF Types
  <2>2. p \in RequestState /\ PublishedAs(req[r], p)
    BY <1>0, <1>1, <2>1, PhaseUpdate
  <2> QED
    BY <2>2 DEF PublishedAs
<1> HIDE DEF m, p
<1>4. req'[r] = p /\ \A q \in Request : q # r => req'[q] = req[q]
    BY <1>1 DEF Types
<1>5. ASSUME NEW n \in Node
      PROVE  /\ inbox[n] \in Seq(Msg) /\ inbox'[n] \in Seq(Msg)
             /\ \A i \in DOMAIN inbox'[n] :
                \/ i \in DOMAIN inbox[n] /\ inbox'[n][i] = inbox[n][i] /\ i + 0 = i
                \/ i = Len(inbox[n]) + 1 /\ inbox'[n][i] = m
  <2>1. inbox[n] \in Seq(Msg)
    BY DEF Types
  <2>2. CASE n \in to
    BY <1>1, <1>2, <2>1, <2>2, AppendLemma
  <2>3. CASE n \notin to
    BY <1>1, <2>1, <2>3
  <2> QED
    BY <2>1, <2>2, <2>3
<1>6. Types'
    BY <1>1, <1>3, <1>5 DEF Types
<1>7. ASSUME NEW n \in Node, NEW i \in DOMAIN inbox[n]
      PROVE  inbox[n][i].id # r
    BY <1>1 DEF MessagesInv, MessageOK, Published
<1>8. ASSUME NEW n \in Node, sub[n].at = "sending"
      PROVE  sub[n].id # r
    BY <1>1, <1>8 DEF SendingInv, Published
<1>9. ASSUME NEW q \in Request, q # r
      PROVE  Quiet(q)
  <2>1. Kept(req[q], req'[q])
    BY <1>4, <1>9, KeptItself DEF Types
  <2>2. ASSUME NEW n \in Node
        PROVE  Shrunk(inbox[n], inbox'[n], q)
    <3>1. \A i \in DOMAIN inbox'[n] :
            inbox'[n][i].id = q => i + 0 \in DOMAIN inbox[n] /\ inbox'[n][i] = inbox[n][i + 0]
      BY <1>2, <1>5, <1>9
    <3> QED
      BY <3>1 DEF Shrunk
  <2> QED
    BY <1>1, <2>1, <2>2, SameNodes DEF Quiet, Fading
<1>10. ASSUME Waiting(r)'
       PROVE  (Once(r) /\ FreshInInbox(r) /\ FreshInHand(r) /\ AnsweredOnce(r))'
  <2>1. Once(r)'
    BY <1>5, <1>7 DEF Once
  <2>2. FreshInInbox(r)'
    BY <1>2, <1>5, <1>7 DEF FreshInInbox
  <2>3. FreshInHand(r)'
    BY <1>1, <1>8 DEF FreshInHand
  <2>4. req'[r].answered = {}
    BY <1>1, <1>3, <1>4, <1>10 DEF Waiting, BooksInv, Books, Added
  <2>5. AnsweredOnce(r)'
    BY <2>4 DEF AnsweredOnce
  <2> QED
    BY <2>1, <2>2, <2>3, <2>5
<1>11. TokensInv'
  <2>1. ASSUME NEW q \in Request
        PROVE  Tokens(q)'
    <3>1. CASE q = r
      BY <1>10, <3>1 DEF Tokens
    <3>2. CASE q # r
      BY <1>6, <1>9, <3>2, QuietTokens DEF TokensInv
    <3> QED
      BY <3>1, <3>2
  <2> QED
    BY <2>1 DEF TokensInv
<1>12. BooksInv'
    BY <1>3, <1>4 DEF BooksInv
<1>13. ASSUME NEW q \in Request
       PROVE  /\ Reading(q)' <=> Reading(q)
              /\ req'[q].origin = req[q].origin /\ req'[q].kind = req[q].kind
              /\ req'[q].calm = req[q].calm /\ req'[q].stable = req[q].stable
              /\ req'[q].seen = req[q].seen /\ req'[q].answered = req[q].answered
              /\ req'[q].numSub = req[q].numSub
              /\ Published(q) => Published(q)'
    BY <1>1, <1>3, <1>4 DEF Reading, Active, Published
<1>14. CalmInv'
    BY <1>1, <1>13, ZenonT(40) DEF CalmInv, Calm, Up
<1>15. SocketInv'
    BY <1>1, <1>13 DEF SocketInv, In, Alive
<1>16. MessagesInv'
  <2> SUFFICES ASSUME NEW n \in Node, NEW i \in DOMAIN inbox'[n]
               PROVE  MessageOK(n, inbox[n][i])'
    BY DEF MessagesInv
  <2>1. CASE i \in DOMAIN inbox[n] /\ inbox'[n][i] = inbox[n][i]
    <3>1. MessageOK(n, inbox[n][i]) /\ inbox[n][i].id \in Request
      BY <1>5, <2>1, InboxType DEF MessagesInv
    <3> QED
      BY <1>13, <2>1, <3>1 DEF MessageOK, Published
  <2>2. CASE inbox'[n][i] = m
    BY <1>2, <1>3, <1>4, <2>2 DEF MessageOK, Published
  <2> QED
    BY <1>5, <2>1, <2>2
<1>17. SendingInv'
    BY <1>1, <1>13 DEF SendingInv, Published
<1> QED
    BY <1>6, <1>11, <1>12, <1>14, <1>15, <1>16, <1>17

-----------------------------------------------------------------------------
(***************************************************************************)
(* Handing over a response: its node is counted, with its sockets.         *)
(***************************************************************************)
Collected(q, p, f, val, last) ==
    /\ p.count = q.count + 1 /\ p.total = q.total + Share(q.kind, val)
    /\ p.members = q.members \cup IF q.kind = "members" THEN Users(val) ELSE {}
    /\ p.phase = IF last THEN "resolved" ELSE q.phase
    /\ p.all = last /\ p.answered = q.answered \cup {f} /\ p.counted = q.counted \cup val
    /\ p.origin = q.origin /\ p.kind = q.kind /\ p.numSub = q.numSub
    /\ p.stable = q.stable /\ p.seen = q.seen
    /\ p.calm = q.calm /\ p.listed = q.listed

\* The fields of a request that counts a response.
LEMMA CollectLemma ==
    ASSUME NEW q \in RequestState, NEW f \in Node, NEW val \in SUBSET Socket, NEW last \in BOOLEAN,
           NEW p, p = Collect(q, f, val, last)
    PROVE  /\ p \in RequestState
           /\ Collected(q, p, f, val, last)
<1> DEFINE count == q.count + 1
           total == q.total + Share(q.kind, val)
           members == q.members \cup IF q.kind = "members" THEN Users(val) ELSE {}
           phase == IF last THEN "resolved" ELSE q.phase
           answered == q.answered \cup {f}
           counted == q.counted \cup val
<1>1. /\ count \in Nat /\ total \in Nat /\ members \in SUBSET User
      /\ phase \in {"none", "publish", "waiting", "resolved"}
      /\ answered \in SUBSET Node /\ counted \in SUBSET Socket
  <2>1. /\ q.count \in Nat /\ q.total \in Nat /\ q.members \in SUBSET User /\ q.kind \in Kind
        /\ q.phase \in {"none", "publish", "waiting", "resolved"}
        /\ q.answered \in SUBSET Node /\ q.counted \in SUBSET Socket
    BY DEF RequestState
  <2>2. Share(q.kind, val) \in Nat /\ Users(val) \subseteq User
    BY <2>1, ShareLemma, SocketsLemma
  <2> QED
    BY <2>1, <2>2
<1>2. p = [q EXCEPT !.count = count, !.total = total, !.members = members, !.phase = phase,
                    !.all = last, !.answered = answered, !.counted = counted]
    BY DEF Collect
<1> HIDE DEF count, total, members, phase, answered, counted
<1>3. p \in RequestState
  <2> DEFINE p1 == [q EXCEPT !.count = count, !.total = total]
             p2 == [p1 EXCEPT !.members = members, !.phase = phase]
             p3 == [p2 EXCEPT !.all = last, !.answered = answered]
             p4 == [p3 EXCEPT !.counted = counted]
  <2>1. p = p4
    BY <1>2
  <2>2. p1 \in RequestState
    BY <1>1 DEF RequestState
  <2> HIDE DEF p1
  <2>3. p2 \in RequestState
    BY <1>1, <2>2 DEF RequestState
  <2> HIDE DEF p2
  <2>4. p3 \in RequestState
    BY <1>1, <2>3 DEF RequestState
  <2> HIDE DEF p3
  <2>5. p4 \in RequestState
    BY <1>1, <2>4 DEF RequestState
  <2> QED
    BY <2>1, <2>5
<1>4. /\ p.count = count /\ p.total = total /\ p.members = members /\ p.phase = phase
      /\ p.answered = answered /\ p.counted = counted
      /\ p.origin = q.origin /\ p.kind = q.kind /\ p.numSub = q.numSub
      /\ p.stable = q.stable /\ p.seen = q.seen
    BY <1>2 DEF RequestState
<1>5. p.all = last /\ p.calm = q.calm /\ p.listed = q.listed
    BY <1>2 DEF RequestState
<1> QED
    BY <1>3, <1>4, <1>5 DEF Collected, count, total, members, phase, answered, counted

\* The books stay right when a fresh response is added.
LEMMA CollectBooks ==
    ASSUME NEW q \in RequestState, NEW f \in Node, NEW val \in SUBSET Socket, NEW last \in BOOLEAN,
           NEW p \in RequestState, Collected(q, p, f, val, last),
           q.phase = "waiting", q.kind # "terminate", Added(q),
           last <=> q.count + 1 = q.numSub - 1,
           f # q.origin, f \notin q.answered, val \subseteq q.seen,
           \A s \in val : Home[s] = f,
           \A s \in q.stable : Home[s] = f => s \in val,
           last /\ q.calm => \A s \in q.stable : Home[s] \in q.answered \cup {f, q.origin}
    PROVE  Books(p)
<1>1. /\ p.count = q.count + 1 /\ p.total = q.total + Share(q.kind, val)
      /\ p.members = q.members \cup IF q.kind = "members" THEN Users(val) ELSE {}
      /\ p.phase = IF last THEN "resolved" ELSE q.phase
      /\ p.answered = q.answered \cup {f} /\ p.counted = q.counted \cup val
      /\ p.origin = q.origin /\ p.kind = q.kind /\ p.numSub = q.numSub
      /\ p.stable = q.stable /\ p.seen = q.seen
    BY DEF Collected
<1>2. p.all = last /\ p.calm = q.calm /\ p.listed = q.listed
    BY DEF Collected
<1>3. /\ q.count \in Nat /\ q.numSub \in Nat /\ q.kind \in Kind
      /\ q.answered \in SUBSET Node /\ q.counted \in SUBSET Socket
    BY DEF RequestState
<1>4. p.numSub > 1 /\ p.count < p.numSub /\ (p.phase # "resolved" => p.count < p.numSub - 1)
    BY <1>1, <1>3 DEF Added
<1>5. p.count = Cardinality(p.answered)
  <2>1. IsFiniteSet(q.answered) /\ q.count = Cardinality(q.answered)
    BY <1>3, NodesLemma DEF Added
  <2>2. Cardinality(q.answered \cup {f}) = Cardinality(q.answered) + 1
    BY <2>1, FS_AddElement
  <2> QED
    BY <1>1, <2>1, <2>2
<1>6. p.total = Sum(p.kind, p.counted)
  <2>1. \A s \in q.counted : Home[s] # f
    BY DEF Added
  <2>2. Sum(q.kind, q.counted \cup val) = Sum(q.kind, q.counted) + Share(q.kind, val)
    BY <1>3, <2>1, SumLemma
  <2> QED
    BY <1>1, <2>2 DEF Added
<1>7. p.members = IF p.kind = "members" THEN Users(p.counted) ELSE {}
  <2>1. Users(q.counted \cup val) = Users(q.counted) \cup Users(val)
    BY DEF Users
  <2> QED
    BY <1>1, <2>1 DEF Added
<1>8. /\ p.phase # "publish" /\ p.origin \notin p.answered /\ p.counted \subseteq p.seen
      /\ \A s \in p.counted : Home[s] \in p.answered \cup {p.origin}
      /\ \A s \in p.stable : Home[s] \in p.answered \cup {p.origin} => s \in p.counted
    BY <1>1 DEF Added
<1>9. p.phase # "resolved" => ~p.all /\ p.listed
    BY <1>1, <1>2 DEF Added
<1>10. p.phase = "resolved" /\ p.all /\ p.calm => p.stable \subseteq p.counted
    BY <1>1, <1>2, <1>8
<1>11. Added(p)
    BY <1>4, <1>5, <1>6, <1>7, <1>8, <1>9, <1>10 DEF Added
<1> QED
    BY <1>1, <1>11 DEF Books

\* With the last response everybody has been counted, if nobody came or went.
LEMMA AllCounted ==
    ASSUME Types, NEW r \in Request, NEW f \in Node, Waiting(r), Calm(r), SocketInv,
           Added(req[r]), req[r].calm, f # req[r].origin, f \notin req[r].answered, f \in Up,
           req[r].count + 1 = req[r].numSub - 1
    PROVE  \A s \in req[r].stable : Home[s] \in req[r].answered \cup {f, req[r].origin}
<1> DEFINE q == req[r]
           all == (q.answered \cup {f}) \cup {q.origin}
<1>1. /\ q \in RequestState /\ q.answered \in SUBSET Node
      /\ q.origin \in Node /\ q.stable \in SUBSET Socket
      /\ q.count \in Nat /\ q.numSub \in Nat
    BY DEF Types, RequestState
<1>2. /\ Reading(r) /\ \A n \in Node : node[n] # "deaf"
      /\ q.numSub = Cardinality(Up) /\ q.origin \in Up /\ q.answered \subseteq Up
      /\ q.count = Cardinality(q.answered) /\ q.origin \notin q.answered
    BY DEF Calm, Reading, Active, Waiting, Added
<1> HIDE DEF q
<1>3. Cardinality(all) = Cardinality(Up)
  <2>1. IsFiniteSet(q.answered)
    BY <1>1, NodesLemma
  <2>2. /\ IsFiniteSet(q.answered \cup {f})
        /\ Cardinality(q.answered \cup {f}) = Cardinality(q.answered) + 1
    BY <2>1, FS_AddElement DEF q
  <2>3. Cardinality(all) = Cardinality(q.answered \cup {f}) + 1
    BY <1>2, <2>2, FS_AddElement DEF q
  <2> QED
    BY <1>1, <1>2, <2>2, <2>3 DEF q
<1>4. all = Up
  <2>1. all \in SUBSET Up /\ IsFiniteSet(Up)
    BY <1>2, NodesLemma DEF Up
  <2> HIDE DEF all
  <2> QED
    BY <1>3, <2>1, FS_Subset
<1>5. ASSUME NEW s \in q.stable
      PROVE  Home[s] \in Up
    BY <1>1, <1>2, HorizontalAssumption DEF SocketInv, In, Alive, Up, HorizontalAssumption, q
<1> QED
    BY <1>4, <1>5 DEF q

\* Counting a response: its node is new, so the sums grow by its share.
LEMMA HandOverInv ==
    ASSUME HorizontalInv, NEW n \in Node, HandOver(n)
    PROVE  HorizontalInv'
<1> USE DEF HorizontalInv
<1>1. PICK r \in Request, f \in Node, val \in SUBSET Socket :
        sub[n].id = r /\ sub[n].from = f /\ sub[n].val = val
  <2>1. sub[n].id \in Request /\ sub[n].from \in Node /\ sub[n].val \in SUBSET Socket
    BY DEF HandOver, SendingInv, Types, Subscriber
  <2> QED
    BY <2>1
<1>2. PICK last \in BOOLEAN : last = (req[r].count + 1 = req[r].numSub - 1)
    OBVIOUS
<1>3. /\ sub[n].at = "sending" /\ req[r].phase = "waiting"
      /\ req' = [req EXCEPT ![r] = Collect(req[r], f, val, last)]
      /\ sub' = [sub EXCEPT ![n] = Idle(n)]
      /\ UNCHANGED <<node, sock, inbox>>
    BY <1>1, <1>2 DEF HandOver
<1>4. PICK p : p = Collect(req[r], f, val, last)
    OBVIOUS
<1>5. p \in RequestState /\ Collected(req[r], p, f, val, last)
  <2>1. req[r] \in RequestState
    BY DEF Types
  <2> QED
    BY <1>4, <2>1, CollectLemma
<1>6. req'[r] = p /\ \A q \in Request : q # r => req'[q] = req[q]
    BY <1>3, <1>4 DEF Types
<1>7. Types'
    BY <1>3, <1>4, <1>5, IdleLemma DEF Types
<1>8. req[r].origin = n /\ req[r].kind # "terminate" /\ Waiting(r) /\ Reading(r)
    BY <1>1, <1>3 DEF SendingInv, Waiting, Reading, Active
<1>9. Once(r) /\ FreshInInbox(r) /\ FreshInHand(r) /\ AnsweredOnce(r)
    BY <1>8 DEF TokensInv, Tokens
<1>10. /\ Fresh(r, f, val)
       /\ \A i \in DOMAIN inbox[n] :
            inbox[n][i].type = "response" /\ inbox[n][i].id = r => inbox[n][i].from # f
    BY <1>1, <1>3, <1>9 DEF FreshInHand
<1>11. ASSUME NEW q \in Node
       PROVE  (q # n /\ sub'[q] = sub[q]) \/ (q = n /\ sub'[q].at # "sending")
    BY <1>3, IdleLemma DEF Types
<1>12. ASSUME NEW q \in Request, q # r
       PROVE  Quiet(q)
  <2>1. Kept(req[q], req'[q])
    BY <1>6, <1>12, KeptItself DEF Types
  <2> QED
    BY <1>3, <1>11, <2>1, QuietKeepsMessages, SameNodes DEF Quiet, Fading
<1>13. ASSUME NEW g \in Node, NEW v, Fresh(r, g, v), g # f
       PROVE  Fresh(r, g, v)'
    BY <1>3, <1>5, <1>6, <1>13 DEF Fresh, Collected, Asked, Up
<1>14. ASSUME Waiting(r)'
       PROVE  (Once(r) /\ FreshInInbox(r) /\ FreshInHand(r) /\ AnsweredOnce(r))'
  <2>1. Once(r)'
    BY <1>3, <1>9 DEF Once
  <2>2. FreshInInbox(r)'
    <3> SUFFICES ASSUME NEW q \in Node, NEW i \in DOMAIN inbox'[q],
                        inbox'[q][i].type = "response", inbox'[q][i].id = r
                 PROVE  Fresh(r, inbox[q][i].from, inbox[q][i].val)'
      BY DEF FreshInInbox
    <3>1. inbox'[q] = inbox[q] /\ inbox[q] \in Seq(Msg)
      BY <1>3 DEF Types
    <3>2. q = n
      BY <1>8, <3>1 DEF MessagesInv, MessageOK
    <3>3. Fresh(r, inbox[q][i].from, inbox[q][i].val) /\ inbox[q][i].from # f
      BY <1>9, <1>10, <3>1, <3>2 DEF FreshInInbox
    <3>4. inbox[q][i].from \in Node
      BY <3>1, InboxType
    <3>5. ASSUME NEW g \in Node, NEW v, inbox[q][i].from = g, inbox[q][i].val = v
          PROVE  Fresh(r, g, v)'
      BY <1>13, <3>3, <3>5
    <3> QED
      BY <3>1, <3>4, <3>5 DEF Fresh
  <2>3. ASSUME NEW q \in Node, sub'[q].at = "sending"
        PROVE  sub'[q].id # r
    BY <1>8, <1>11, <2>3 DEF SendingInv
  <2>4. FreshInHand(r)'
    BY <2>3 DEF FreshInHand
  <2>5. AnsweredOnce(r)'
    BY <1>3, <1>5, <1>6, <1>9, <1>10 DEF AnsweredOnce, Fresh, Asked, Collected
  <2> QED
    BY <2>1, <2>2, <2>4, <2>5
<1>15. TokensInv'
  <2>1. ASSUME NEW q \in Request
        PROVE  Tokens(q)'
    <3>1. CASE q = r
      BY <1>14, <3>1 DEF Tokens
    <3>2. CASE q # r
      BY <1>7, <1>12, <3>2, QuietTokens DEF TokensInv
    <3> QED
      BY <3>1, <3>2
  <2> QED
    BY <2>1 DEF TokensInv
<1>16. BooksInv'
  <2>1. Added(req[r]) /\ req[r] \in RequestState /\ Calm(r)
    BY <1>8 DEF BooksInv, Books, Waiting, CalmInv, Types
  <2>2. /\ f # req[r].origin /\ f \notin req[r].answered /\ val \subseteq req[r].seen
        /\ \A s \in val : Home[s] = f
        /\ \A s \in req[r].stable : Home[s] = f => s \in val
        /\ req[r].calm => f \in Up
    BY <1>10 DEF Fresh
  <2>3. last /\ req[r].calm =>
            \A s \in req[r].stable : Home[s] \in req[r].answered \cup {f, req[r].origin}
    BY <1>2, <1>8, <2>1, <2>2, AllCounted
  <2>4. Books(p)
    BY <1>2, <1>3, <1>5, <1>8, <2>1, <2>2, <2>3, CollectBooks
  <2>5. ASSUME NEW q \in Request
        PROVE  Books(req'[q])
    BY <1>6, <2>4 DEF BooksInv
  <2> QED
    BY <2>5 DEF BooksInv
<1>17. CalmInv'
  <2>1. ASSUME NEW q \in Request
        PROVE  Calm(q)'
    <3>1. CASE q = r
      <4>1. Calm(r) /\ (req[r].calm => f \in Up)
        BY <1>10 DEF CalmInv, Fresh
      <4> QED
        BY <1>3, <1>5, <1>6, <1>8, <3>1, <4>1 DEF Calm, Collected, Up
    <3>2. CASE q # r
      BY <1>12, <3>2, QuietCalm DEF CalmInv, Quiet, Fading
    <3> QED
      BY <3>1, <3>2
  <2> QED
    BY <2>1 DEF CalmInv
<1>18. ASSUME NEW q \in Request
       PROVE  /\ Reading(q)' => Reading(q)
              /\ req'[q].origin = req[q].origin /\ req'[q].kind = req[q].kind
              /\ req'[q].stable = req[q].stable /\ req'[q].seen = req[q].seen
              /\ Published(q) => Published(q)'
    BY <1>3, <1>5, <1>6, <1>8 DEF Reading, Active, Published, Collected
<1>19. SocketInv'
    BY <1>3, <1>18 DEF SocketInv, In, Alive
<1>20. MessagesInv'
  <2> SUFFICES ASSUME NEW q \in Node, NEW i \in DOMAIN inbox'[q]
               PROVE  MessageOK(q, inbox[q][i])'
    BY DEF MessagesInv
  <2>1. inbox' = inbox /\ MessageOK(q, inbox[q][i]) /\ inbox[q][i].id \in Request
    BY <1>3, InboxType DEF MessagesInv, Types
  <2> QED
    BY <1>18, <2>1 DEF MessageOK, Published
<1>21. SendingInv'
    BY <1>11, <1>18 DEF SendingInv, Published
<1> QED
    BY <1>7, <1>15, <1>16, <1>17, <1>19, <1>20, <1>21

(***************************************************************************)
(* Looking a response up: it goes from the inbox into the hand.            *)
(***************************************************************************)
LEMMA LookUpInv ==
    ASSUME HorizontalInv, NEW n \in Node, LookUp(n)
    PROVE  HorizontalInv'
<1> USE DEF HorizontalInv
<1>1. PICK m \in Msg : m = inbox[n][1] /\ m = Head(inbox[n]) /\ 1 \in DOMAIN inbox[n]
  <2>1. inbox[n] \in Seq(Msg) /\ inbox[n] # <<>>
    BY DEF LookUp, Receives, Types
  <2> QED
    BY <2>1, TailLemma
<1>2. m.id \in Request /\ m.from \in Node /\ m.val \in SUBSET Socket
    BY DEF Msg
<1>3. PICK next : next = [at |-> "sending", id |-> m.id, from |-> m.from, val |-> m.val]
    OBVIOUS
<1>4. /\ inbox[n] # <<>> /\ m.type = "response" /\ sub[n].at = "idle"
      /\ inbox' = [inbox EXCEPT ![n] = Tail(@)]
      /\ sub' = [sub EXCEPT ![n] = next] \/ sub' = sub
      /\ UNCHANGED <<node, sock, req>>
    BY <1>1, <1>3 DEF LookUp, Receives, Types
<1>5. /\ next \in Subscriber /\ next.at = "sending" /\ next.id = m.id
      /\ next.from = m.from /\ next.val = m.val
    BY <1>2, <1>3 DEF Subscriber
<1>6. /\ inbox' \in [Node -> Seq(Msg)]
      /\ \A q \in Node : inbox'[q] = inbox[q] \/ (inbox[q] # <<>> /\ inbox'[q] = Tail(inbox[q]))
    BY <1>4, TakeLemma
<1>7. Types'
    BY <1>4, <1>5, <1>6 DEF Types
<1>8. /\ SocketInv'
      /\ \A q \in Request : Kept(req[q], req'[q]) /\ CalmStep(q)
    BY <1>4, NoRequestChanges
<1>9. CASE sub' = sub
    BY <1>6, <1>7, <1>8, <1>9, QuietInv DEF QuietStep
<1>10. CASE sub' = [sub EXCEPT ![n] = next]
  <2>1. ASSUME NEW q \in Node
        PROVE  (q # n /\ sub'[q] = sub[q]) \/ (q = n /\ sub'[q] = next)
    BY <1>10 DEF Types
  <2>2. ASSUME NEW q \in Request
        PROVE  Fading(q)
    BY <1>6, <1>8, QuietKeepsMessages DEF Fading
  <2>3. MessageOK(n, m)
    BY <1>1 DEF MessagesInv
  <2>4. Published(m.id) /\ req[m.id].origin = n /\ req[m.id].kind # "terminate"
    BY <1>4, <2>3 DEF MessageOK
  <2>5. ASSUME NEW q \in Request, q # m.id
        PROVE  Quiet(q)
    BY <1>5, <2>1, <2>2, <2>5 DEF Quiet
  <2>6. ASSUME NEW q \in Request, q = m.id
        PROVE  Tokens(q)'
    <3> SUFFICES ASSUME Waiting(q)'
                 PROVE  (Once(q) /\ FreshInInbox(q) /\ FreshInHand(q) /\ AnsweredOnce(q))'
      BY DEF Tokens
    <3>1. Waiting(q) /\ (Once(q) /\ FreshInInbox(q) /\ AnsweredOnce(q))'
      BY <1>7, <2>2, FadingTokens DEF TokensInv
    <3>2. Once(q) /\ FreshInInbox(q)
      BY <3>1 DEF TokensInv, Tokens
    <3>3. Fresh(q, m.from, m.val)
      BY <1>1, <1>4, <2>6, <3>2 DEF FreshInInbox
    <3>4. ASSUME NEW f \in Node, NEW val, m.from = f, m.val = val
          PROVE  Fresh(q, f, val)'
      BY <2>2, <3>3, <3>4, FadingFresh
    <3>5. ASSUME NEW i \in DOMAIN inbox'[n], inbox'[n][i].type = "response", inbox'[n][i].id = q
          PROVE  inbox'[n][i].from # m.from
      <4>1. inbox[n] \in Seq(Msg) /\ inbox'[n] = Tail(inbox[n])
        BY <1>4 DEF Types
      <4>2. i + 1 \in DOMAIN inbox[n] /\ inbox'[n][i] = inbox[n][i + 1] /\ i \in Nat /\ i # 0
        <5>1. /\ DOMAIN Tail(inbox[n]) = 1..(Len(inbox[n]) - 1) /\ Len(inbox[n]) \in Nat
              /\ \A k \in DOMAIN Tail(inbox[n]) :
                    k + 1 \in DOMAIN inbox[n] /\ Tail(inbox[n])[k] = inbox[n][k + 1]
          BY <1>4, <4>1, TailLemma
        <5>2. i \in DOMAIN Tail(inbox[n])
          BY <4>1
        <5> QED
          BY <4>1, <5>1, <5>2
      <4> QED
        BY <1>1, <1>4, <2>6, <3>2, <3>5, <4>2 DEF Once
    <3>6. ASSUME NEW x \in Node, sub'[x].at = "sending", sub'[x].id = q
          PROVE  x = n /\ sub'[x] = next
      BY <2>1, <2>4, <2>6, <3>6 DEF SendingInv
    <3>7. FreshInHand(q)'
      <4> SUFFICES ASSUME NEW x \in Node, sub'[x].at = "sending", sub'[x].id = q
                   PROVE  /\ Fresh(q, sub[x].from, sub[x].val)'
                          /\ \A i \in DOMAIN inbox'[x] :
                              inbox'[x][i].type = "response" /\ inbox'[x][i].id = q
                                  => inbox'[x][i].from # sub'[x].from
        BY DEF FreshInHand
      <4>1. x = n /\ sub'[x].from = m.from /\ sub'[x].val = m.val
        BY <1>5, <3>6
      <4> QED
        BY <1>2, <3>4, <3>5, <4>1 DEF Fresh
    <3> QED
      BY <3>1, <3>7
  <2>7. TokensInv'
    BY <1>7, <2>5, <2>6, QuietTokens DEF TokensInv
  <2>8. BooksInv'
    BY <1>4 DEF BooksInv
  <2>9. CalmInv'
    BY <1>4 DEF CalmInv, Calm, Reading, Active, Up
  <2>10. MessagesInv'
    <3> SUFFICES ASSUME NEW q \in Node, NEW i \in DOMAIN inbox'[q]
                 PROVE  MessageOK(q, inbox[q][i])'
      BY DEF MessagesInv
    <3>1. PICK j \in DOMAIN inbox[q] : inbox'[q][i] = inbox[q][j]
      BY <1>6, QuietKeepsMessages
    <3>2. MessageOK(q, inbox[q][j])
      BY DEF MessagesInv
    <3> QED
      BY <1>4, <3>1, <3>2 DEF MessageOK, Published
  <2>11. SendingInv'
    BY <1>2, <1>4, <1>5, <2>1, <2>4 DEF SendingInv, Published
  <2> QED
    BY <1>7, <1>8, <2>7, <2>8, <2>9, <2>10, <2>11
<1> QED
    BY <1>4, <1>9, <1>10

(***************************************************************************)
(* Answering: the node loses the request and the node that asked gets the  *)
(* only response of this node.                                             *)
(***************************************************************************)
LEMMA AnswerInv ==
    ASSUME HorizontalInv, NEW n \in Node, Answer(n)
    PROVE  HorizontalInv'
<1> USE DEF HorizontalInv
<1>1. PICK m \in Msg : m = inbox[n][1] /\ m = Head(inbox[n]) /\ 1 \in DOMAIN inbox[n]
  <2>1. inbox[n] \in Seq(Msg) /\ inbox[n] # <<>>
    BY DEF Answer, Receives, Types
  <2> QED
    BY <2>1, TailLemma
<1>2. PICK r \in Request, o \in Node : r = m.id /\ o = m.from
    BY DEF Msg
<1>3. PICK reply : reply = [type |-> "response", id |-> r, from |-> n, val |-> Local(n)]
    OBVIOUS
<1>a. PICK to \in Reached(n) :
        inbox' = [q \in Node |->
                      LET rest == IF q = n THEN Tail(inbox[q]) ELSE inbox[q]
                      IN  IF q = o /\ q \in to THEN Append(rest, reply) ELSE rest]
    BY <1>1, <1>2, <1>3 DEF Answer
<1>4. /\ node[n] = "up" /\ inbox[n] # <<>> /\ m.type = "request"
      /\ ~(o = n /\ req[r].listed) /\ req[r].kind # "terminate"
      /\ inbox' = [q \in Node |->
                      LET rest == IF q = n THEN Tail(inbox[q]) ELSE inbox[q]
                      IN  IF q = o /\ q \in to THEN Append(rest, reply) ELSE rest]
      /\ UNCHANGED <<node, sock, sub, req>>
    BY <1>1, <1>2, <1>3, <1>a DEF Answer, Receives
<1>5. /\ reply \in Msg /\ reply.type = "response" /\ reply.id = r
      /\ reply.from = n /\ reply.val = Local(n)
    BY <1>3 DEF Msg, Local, In
<1>6. ASSUME NEW q \in Node
      PROVE  /\ inbox'[q] \in Seq(Msg)
             /\ \A i \in DOMAIN inbox'[q] :
                LET d == IF q = n THEN 1 ELSE 0
                IN  /\ i \in Nat \ {0}
                    /\ \/ i + d \in DOMAIN inbox[q] /\ inbox'[q][i] = inbox[q][i + d]
                       \/ q = o /\ inbox'[q][i] = reply /\ i = Len(inbox[q]) + 1 - d
  <2> DEFINE rest == IF q = n THEN Tail(inbox[q]) ELSE inbox[q]
             d == IF q = n THEN 1 ELSE 0
  <2>1. inbox[q] \in Seq(Msg) /\ Len(inbox[q]) \in Nat
    BY DEF Types
  <2>2. /\ rest \in Seq(Msg) /\ Len(rest) = Len(inbox[q]) - d
        /\ \A i \in DOMAIN rest : /\ i \in Nat \ {0}
                                  /\ i + d \in DOMAIN inbox[q] /\ rest[i] = inbox[q][i + d]
    <3>1. CASE q = n
      BY <1>4, <2>1, <3>1, TailLemma
    <3>2. CASE q # n
      BY <2>1, <3>2
    <3> QED
      BY <3>1, <3>2
  <2>3. inbox'[q] = IF q = o /\ q \in to THEN Append(rest, reply) ELSE rest
    BY <1>4
  <2>4. d \in {0, 1}
    OBVIOUS
  <2> HIDE DEF rest, d
  <2>5. /\ inbox'[q] \in Seq(Msg)
        /\ \A i \in DOMAIN inbox'[q] :
            /\ i \in Nat \ {0}
            /\ \/ i + d \in DOMAIN inbox[q] /\ inbox'[q][i] = inbox[q][i + d]
               \/ q = o /\ inbox'[q][i] = reply /\ i = Len(inbox[q]) + 1 - d
    <3>1. CASE q = o /\ q \in to
      <4>1. inbox'[q] = Append(rest, reply)
        BY <2>3, <3>1
      <4>2. /\ inbox'[q] \in Seq(Msg)
            /\ \A i \in DOMAIN inbox'[q] :
                \/ i \in DOMAIN rest /\ inbox'[q][i] = rest[i]
                \/ i = Len(rest) + 1 /\ inbox'[q][i] = reply
        BY <1>5, <2>2, <4>1, AppendLemma
      <4>3. Len(rest) \in Nat /\ Len(rest) + 1 = Len(inbox[q]) + 1 - d
        BY <2>1, <2>2, <2>4
      <4> QED
        BY <2>2, <3>1, <4>2, <4>3
    <3>2. CASE ~(q = o /\ q \in to)
      <4>1. inbox'[q] = rest
        BY <2>3, <3>2
      <4> QED
        BY <2>2, <4>1
    <3> QED
      BY <3>1, <3>2
  <2> QED
    BY <2>5 DEF d
<1>7. Types'
  <2>1. inbox' = [q \in Node |-> inbox'[q]]
    BY <1>4
  <2> QED
    BY <1>4, <1>6, <2>1 DEF Types
<1>8. SocketInv' /\ \A q \in Request : Kept(req[q], req'[q]) /\ CalmStep(q)
    BY <1>4, NoRequestChanges
<1>9. Published(r) /\ o = req[r].origin
    BY <1>1, <1>2, <1>4 DEF MessagesInv, MessageOK
<1>10. ASSUME NEW q \in Request, q # r
       PROVE  Quiet(q)
  <2>1. ASSUME NEW x \in Node
        PROVE  Shrunk(inbox[x], inbox'[x], q)
    <3> DEFINE d == IF x = n THEN 1 ELSE 0
    <3>1. ASSUME NEW i \in DOMAIN inbox'[x], inbox'[x][i].id = q
          PROVE  i + d \in DOMAIN inbox[x] /\ inbox'[x][i] = inbox[x][i + d]
      <4>1. inbox'[x][i] # reply
        BY <1>5, <1>10, <3>1
      <4> QED
        BY <1>6, <4>1
    <3>2. d \in 0..1
      OBVIOUS
    <3> HIDE DEF d
    <3> QED
      BY <3>1, <3>2 DEF Shrunk
  <2> QED
    BY <1>4, <1>8, <2>1 DEF Quiet, Fading
<1>11. ASSUME NEW x \in Node, Asked(x, r)'
       PROVE  Asked(x, r)
  <2>1. PICK i \in DOMAIN inbox'[x] : inbox'[x][i].type = "request" /\ inbox'[x][i].id = r
    BY <1>11 DEF Asked
  <2>2. \E j \in DOMAIN inbox[x] : inbox'[x][i] = inbox[x][j]
    <3>1. inbox'[x][i] # reply
      BY <1>5, <2>1
    <3> QED
      BY <1>6, <3>1
  <2> QED
    BY <2>1, <2>2 DEF Asked
<1>12. ASSUME NEW g, NEW v, g \in Node, Fresh(r, g, v)
       PROVE  Fresh(r, g, v)'
    BY <1>4, <1>11, <1>12 DEF Fresh, Up
<1>13. Asked(n, r)
    BY <1>1, <1>2, <1>4 DEF Asked
<1>14. ASSUME Waiting(r)'
       PROVE  (Once(r) /\ FreshInInbox(r) /\ FreshInHand(r) /\ AnsweredOnce(r))'
  <2>1. Waiting(r) /\ Reading(r) /\ req[r].listed /\ n # o
    BY <1>4, <1>9, <1>14 DEF Waiting, Reading, Active, BooksInv, Books, Added
  <2>2. Once(r) /\ FreshInInbox(r) /\ FreshInHand(r) /\ AnsweredOnce(r)
    BY <2>1 DEF TokensInv, Tokens
  <2>3. ASSUME NEW x \in Node, NEW i \in DOMAIN inbox[x],
               inbox[x][i].type = "response", inbox[x][i].id = r
        PROVE  inbox[x][i].from # n
    BY <1>13, <2>2, <2>3 DEF FreshInInbox, Fresh
  <2>4. ~Asked(n, r)'
    <3> SUFFICES ASSUME NEW i \in DOMAIN inbox'[n], inbox'[n][i].type = "request", inbox'[n][i].id = r
                 PROVE  FALSE
      BY DEF Asked
    <3>1. i \in Nat \ {0} /\ i + 1 \in DOMAIN inbox[n] /\ inbox'[n][i] = inbox[n][i + 1]
      BY <1>6, <2>1
    <3>2. inbox[n][i + 1].from = o
      BY <1>9, <3>1 DEF MessagesInv, MessageOK
    <3>3. i + 1 = 1
      BY <1>1, <1>2, <1>4, <2>2, <3>1, <3>2 DEF Once
    <3> QED
      BY <3>1, <3>3
  <2>5. Once(r)'
    <3> SUFFICES ASSUME NEW x \in Node, NEW i \in DOMAIN inbox'[x], NEW j \in DOMAIN inbox'[x],
                        inbox'[x][i].id = r, inbox'[x][j].id = r,
                        inbox'[x][i].type = inbox'[x][j].type,
                        inbox'[x][i].from = inbox'[x][j].from
                 PROVE  i = j
      BY DEF Once
    <3> DEFINE d == IF x = n THEN 1 ELSE 0
    <3>1. /\ i \in Nat \ {0} /\ j \in Nat \ {0} /\ d \in {0, 1}
          /\ \/ i + d \in DOMAIN inbox[x] /\ inbox'[x][i] = inbox[x][i + d]
             \/ x = o /\ inbox'[x][i] = reply /\ i = Len(inbox[x]) + 1 - d
          /\ \/ j + d \in DOMAIN inbox[x] /\ inbox'[x][j] = inbox[x][j + d]
             \/ x = o /\ inbox'[x][j] = reply /\ j = Len(inbox[x]) + 1 - d
      BY <1>6
    <3> HIDE DEF d
    <3>2. CASE /\ i + d \in DOMAIN inbox[x] /\ inbox'[x][i] = inbox[x][i + d]
               /\ j + d \in DOMAIN inbox[x] /\ inbox'[x][j] = inbox[x][j + d]
      <4>1. i + d = j + d
        BY <2>2, <3>2 DEF Once
      <4> QED
        BY <3>1, <4>1
    <3>3. CASE /\ i + d \in DOMAIN inbox[x] /\ inbox'[x][i] = inbox[x][i + d]
               /\ inbox'[x][j] = reply
      BY <1>5, <2>3, <3>3
    <3>4. CASE /\ j + d \in DOMAIN inbox[x] /\ inbox'[x][j] = inbox[x][j + d]
               /\ inbox'[x][i] = reply
      BY <1>5, <2>3, <3>4
    <3> QED
      BY <3>1, <3>2, <3>3, <3>4
  <2>6. Fresh(r, n, Local(n))'
    <3>1. n \notin req[r].answered
      BY <1>13, <2>2 DEF AnsweredOnce
    <3>2. req[r].stable \subseteq In /\ In \subseteq req[r].seen
      BY <2>1 DEF SocketInv
    <3>3. Local(n)' = Local(n) /\ n \in Up'
      BY <1>4 DEF Local, In, Up
    <3>4. \A s \in Local(n) : s \in In /\ Home[s] = n
      BY DEF Local
    <3>5. \A s \in In : Home[s] = n => s \in Local(n)
      BY DEF Local
    <3> QED
      BY <1>4, <1>9, <2>1, <2>4, <3>1, <3>2, <3>3, <3>4, <3>5 DEF Fresh
  <2>7. Local(n)' = Local(n)
    BY <1>4 DEF Local, In
  <2>8. FreshInInbox(r)'
    <3> SUFFICES ASSUME NEW x \in Node, NEW i \in DOMAIN inbox'[x],
                        inbox'[x][i].type = "response", inbox'[x][i].id = r
                 PROVE  Fresh(r, inbox[x][i].from, inbox[x][i].val)'
      BY DEF FreshInInbox
    <3>1. CASE inbox'[x][i] = reply
      BY <1>5, <2>6, <2>7, <3>1 DEF Fresh
    <3>2. CASE inbox'[x][i] # reply
      <4>1. PICK j \in DOMAIN inbox[x] : inbox'[x][i] = inbox[x][j]
        BY <1>6, <3>2
      <4>2. Fresh(r, inbox[x][j].from, inbox[x][j].val) /\ inbox[x][j].from \in Node
        BY <2>2, <4>1, InboxType DEF FreshInInbox, Types
      <4>3. ASSUME NEW f \in Node, NEW val, inbox[x][j].from = f, inbox[x][j].val = val
            PROVE  Fresh(r, f, val)'
        BY <1>12, <4>2, <4>3
      <4> QED
        BY <4>1, <4>2, <4>3 DEF Fresh
    <3> QED
      BY <3>1, <3>2
  <2>9. FreshInHand(r)'
    <3> SUFFICES ASSUME NEW x \in Node, sub'[x].at = "sending", sub'[x].id = r
                 PROVE  /\ Fresh(r, sub[x].from, sub[x].val)'
                        /\ \A i \in DOMAIN inbox'[x] :
                            inbox'[x][i].type = "response" /\ inbox'[x][i].id = r
                                => inbox'[x][i].from # sub'[x].from
      BY DEF FreshInHand
    <3>1. sub' = sub /\ sub[x].from \in Node
      BY <1>4 DEF Types, Subscriber
    <3>2. /\ Fresh(r, sub[x].from, sub[x].val)
          /\ \A i \in DOMAIN inbox[x] :
                inbox[x][i].type = "response" /\ inbox[x][i].id = r => inbox[x][i].from # sub[x].from
      BY <2>2, <3>1 DEF FreshInHand
    <3>3. sub[x].from # n
      BY <1>13, <3>2 DEF Fresh
    <3>4. ASSUME NEW f \in Node, NEW val, sub[x].from = f, sub[x].val = val
          PROVE  Fresh(r, f, val)'
      BY <1>12, <3>2, <3>4
    <3>5. Fresh(r, sub[x].from, sub[x].val)'
      BY <3>1, <3>4 DEF Fresh
    <3>6. ASSUME NEW i \in DOMAIN inbox'[x], inbox'[x][i].type = "response", inbox'[x][i].id = r
          PROVE  inbox'[x][i].from # sub'[x].from
      <4>1. CASE inbox'[x][i] = reply
        BY <1>5, <3>1, <3>3, <4>1
      <4>2. CASE inbox'[x][i] # reply
        <5>1. PICK j \in DOMAIN inbox[x] : inbox'[x][i] = inbox[x][j]
          BY <1>6, <4>2
        <5> QED
          BY <3>1, <3>2, <3>6, <5>1
      <4> QED
        BY <4>1, <4>2
    <3> QED
      BY <3>5, <3>6
  <2>10. AnsweredOnce(r)'
    <3>1. req[r].answered \subseteq Node
      BY DEF Types, RequestState
    <3> QED
      BY <1>4, <1>11, <2>2, <3>1 DEF AnsweredOnce
  <2> QED
    BY <2>5, <2>8, <2>9, <2>10
<1>15. TokensInv'
  <2>1. ASSUME NEW q \in Request
        PROVE  Tokens(q)'
    <3>1. CASE q = r
      BY <1>14, <3>1 DEF Tokens
    <3>2. CASE q # r
      BY <1>7, <1>10, <3>2, QuietTokens DEF TokensInv
    <3> QED
      BY <3>1, <3>2
  <2> QED
    BY <2>1 DEF TokensInv
<1>16. BooksInv'
    BY <1>4 DEF BooksInv
<1>17. CalmInv'
    BY <1>4 DEF CalmInv, Calm, Reading, Active, Up
<1>18. MessagesInv'
  <2> SUFFICES ASSUME NEW x \in Node, NEW i \in DOMAIN inbox'[x]
               PROVE  MessageOK(x, inbox[x][i])'
    BY DEF MessagesInv
  <2>1. CASE x = o /\ inbox'[x][i] = reply
    BY <1>4, <1>5, <1>9, <2>1 DEF MessageOK, Published
  <2>2. CASE ~(x = o /\ inbox'[x][i] = reply)
    <3>1. PICK j \in DOMAIN inbox[x] : inbox'[x][i] = inbox[x][j]
      BY <1>6, <2>2
    <3>2. MessageOK(x, inbox[x][j])
      BY DEF MessagesInv
    <3> QED
      BY <1>4, <3>1, <3>2 DEF MessageOK, Published
  <2> QED
    BY <2>1, <2>2
<1>19. SendingInv'
    BY <1>4 DEF SendingInv, Published
<1> QED
    BY <1>7, <1>8, <1>15, <1>16, <1>17, <1>18, <1>19

-----------------------------------------------------------------------------
\* At the start no request is open.
LEMMA HorizontalInit == Init => HorizontalInv
<1> SUFFICES ASSUME Init
             PROVE  HorizontalInv
    OBVIOUS
<1> USE DEF Init
<1>1. Unused \in RequestState /\ Unused.phase = "none" /\ Unused.count = 0 /\ Unused.numSub = 0
    BY UnusedLemma DEF Unused
<1>2. Types
    BY <1>1, IdleLemma DEF Types
<1>3. ASSUME NEW r \in Request
      PROVE  req[r] = Unused /\ req[r].phase = "none"
    BY <1>1
<1>4. ASSUME NEW n \in Node
      PROVE  inbox[n] = <<>> /\ sub[n].at = "idle"
    BY IdleLemma
<1>5. MessagesInv /\ SendingInv
    BY <1>4 DEF MessagesInv, SendingInv
<1>6. TokensInv
    BY <1>3 DEF TokensInv, Tokens, Waiting
<1>7. BooksInv
    BY <1>1, <1>3 DEF BooksInv, Books
<1>8. CalmInv
    BY <1>3 DEF CalmInv, Calm, Reading, Active
<1>9. SocketInv
    BY <1>3 DEF SocketInv, Reading, Active
<1> QED
    BY <1>2, <1>5, <1>6, <1>7, <1>8, <1>9 DEF HorizontalInv

\* Every step keeps the invariant.
LEMMA HorizontalStep == HorizontalInv /\ [Next]_vars => HorizontalInv'
<1> SUFFICES ASSUME HorizontalInv, [Next]_vars
             PROVE  HorizontalInv'
    OBVIOUS
<1>1. Types /\ SocketInv
    BY DEF HorizontalInv
<1>2. ASSUME NEW s \in Socket, SocketJoins(s) \/ SocketLeaves(s)
      PROVE  HorizontalInv'
    BY <1>1, <1>2, SocketJoinsQuiet, SocketLeavesQuiet, QuietInv
<1>3. ASSUME NEW n \in Node, NodeStarts(n) \/ ReceiveFails(n)
      PROVE  HorizontalInv'
    BY <1>1, <1>3, NodeStartsQuiet, ReceiveFailsQuiet, QuietInv
<1>4. ASSUME NEW n \in Node, Subscribing(n)
      PROVE  HorizontalInv'
  <2>1. CASE OwnRequest(n) \/ SendOnNil(n)
    BY <1>1, <2>1, SubscriberQuiet, QuietInv
  <2>2. CASE Answer(n)
    BY <2>2, AnswerInv
  <2>3. CASE Terminate(n)
    BY <1>1, <2>3, TerminateQuiet, TerminateInv, QuietInv
  <2>7. CASE TerminateFails(n)
    BY <1>1, <2>7, TerminateFailsQuiet, QuietInv
  <2>4. CASE LookUp(n)
    BY <2>4, LookUpInv
  <2>5. CASE HandOver(n)
    BY <2>5, HandOverInv
  <2>6. CASE SendOnClosed(n)
    BY <1>1, <2>6, SendOnClosedQuiet, QuietInv
  <2> QED
    BY <1>4, <2>1, <2>2, <2>3, <2>4, <2>5, <2>6, <2>7 DEF Subscribing
<1>5. ASSUME NEW r \in Request, Calling(r)
      PROVE  HorizontalInv'
  <2>1. CASE Publish(r)
    BY <2>1, PublishInv
  <2>2. CASE Unlist(r) \/ Timeout(r) \/ CloseResolveChan(r)
    BY <1>1, <2>2, CallerQuiet, QuietInv
  <2>3. CASE TerminateLocally(r)
    BY <1>1, <2>3, TerminateLocallyQuiet, QuietInv
  <2> QED
    BY <1>5, <2>1, <2>2, <2>3 DEF Calling
<1>6. CASE UNCHANGED vars
  <2>1. UNCHANGED <<node, sock, inbox, sub, req>>
    BY <1>6 DEF vars
  <2>2. Types'
    BY <1>1, <2>1 DEF Types
  <2>3. SocketInv' /\ QuietStep
    BY <1>1, <2>1, NoRequestChanges DEF QuietStep
  <2> QED
    BY <2>2, <2>3, QuietInv
<1> QED
    BY <1>2, <1>3, <1>4, <1>5, <1>6, CallInv DEF Next

\* The invariant holds throughout.
LEMMA HorizontalInvHolds == Spec => []HorizontalInv
BY HorizontalInit, HorizontalStep, PTL DEF Spec

(***************************************************************************)
(* Types, and no response too many: a waiter never counts more responses   *)
(* than the subscribers it expects (adaptersHorizontal.go:839-850, 876).   *)
(***************************************************************************)
THEOREM TypeOKHolds == Spec => []TypeOK
<1>1. HorizontalInv => TypeOK
    BY BooksLemma DEF HorizontalInv
<1> QED
    BY <1>1, HorizontalInvHolds, PTL

(***************************************************************************)
(* Nobody is counted who was not there, and no node twice: for any number  *)
(* of nodes and overlapping requests, an answer only has sockets that were *)
(* in the channel during the request, whatever times out or arrives late   *)
(* (adaptersHorizontal.go:511-516 and 839-850).                            *)
(***************************************************************************)
THEOREM NothingInventedHolds == Spec => []NothingInvented
<1>1. HorizontalInv => NothingInvented
    BY BooksLemma DEF HorizontalInv
<1> QED
    BY <1>1, HorizontalInvHolds, PTL

(***************************************************************************)
(* An answer completed by the last expected response, while no node came   *)
(* or went, misses no socket that was in the channel throughout            *)
(* (adaptersHorizontal.go:876-877): numSub - 1 different nodes other than  *)
(* the caller are all the others.                                          *)
(***************************************************************************)
THEOREM NothingMissedHolds == Spec => []NothingMissed
<1>1. HorizontalInv => NothingMissed
    BY BooksLemma DEF HorizontalInv
<1> QED
    BY <1>1, HorizontalInvHolds, PTL
=============================================================================
