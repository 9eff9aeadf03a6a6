---------------------------- MODULE EventsProofs ----------------------------
(***************************************************************************)
(* Events on any number of nodes, with any sources, batches, subscribers   *)
(* and failures of Redis: who gets an event, in which order, and what the  *)
(* cache holds.                                                            *)
(***************************************************************************)
EXTENDS Events, TLAPS

\* A source starts with its first message, and is at one of its messages as
\* long as it is busy.
Cursor ==
    \A p \in Source :
        /\ pc[p] = "idle" => next[p] = 1
        /\ pc[p] \in Busy => next[p] \in DOMAIN Batch[p]

\* What is noted as answered is answered.
PriorIsAnswered == \A p, q \in Source : q \in prior[p] => pc[q] \in Answered

\* Message m has been passed on to node n, by Redis or by its source.
PassedTo(m, n) ==
    LET p == Origin[m]
    IN  /\ m \in Message /\ p \in Source /\ Position[m] \in Nat
        /\ pc[p] # "idle"
        /\ pc[p] = "publish" \/ (pc[p] = "local" /\ At[p] = n) => Position[m] < next[p]
        /\ pc[p] = "store" \/ (pc[p] = "local" /\ At[p] # n) => Position[m] <= next[p]

\* Redis holds for a node what sources on other nodes have published.
InboxIsForeign ==
    \A n \in Node : \A m \in Range(inbox[n]) : At[Origin[m]] # n /\ PassedTo(m, n)

\* What was written to a socket is filed under the sender's node.
GotIsFiled ==
    \A s \in Socket, n \in Node : \A m \in Range(got[s][n]) :
        At[Origin[m]] = n /\ PassedTo(m, At[s])

\* Message a may be written before message b.
Before(a, b) ==
    /\ Origin[b] \notin prior[Origin[a]]
    /\ Origin[a] = Origin[b] => Position[a] < Position[b]

\* Redis keeps the order, and what it still holds comes after what it gave.
InboxInOrder ==
    \A n \in Node : \A i, j \in 1..Len(inbox[n]) : i < j => Before(inbox[n][i], inbox[n][j])
GotBeforeInbox ==
    \A s \in Socket, n \in Node : \A a \in Range(got[s][n]), b \in Range(inbox[At[s]]) :
        At[Origin[b]] = n => Before(a, b)

\* Message m is sent and not stored yet.
UnderWay(m) ==
    LET p == Origin[m]
    IN  p \in Request /\ pc[p] \in {"local", "store"} /\ MessageOf(p) = m

\* Socket s needs no more: it has m, or will never get it for a named reason.
Settled(s, m) ==
    \/ sub[s] = "out" \/ m \in lost \/ Excluded(s, m)
    \/ Received(s, m)
    \/ m \in passing[s]
    \/ s \in missed

\* It will still ask the cache, or be written to.
Outstanding(s, m) ==
    \/ sub[s] = "added"
    \/ m \in Range(inbox[At[s]])
    \/ LET p == Origin[m] IN At[p] = At[s] /\ pc[p] = "local" /\ MessageOf(p) = m

\* No event that is or will be in the cache has been missed.
NoneMissed ==
    deaf = {} => \A s \in Socket, m \in Message :
                    UnderWay(m) \/ m = CacheGet(At[s]) => Settled(s, m) \/ Outstanding(s, m)

\* Only requests store, and what a cache holds is theirs.
StoredByRequest ==
    /\ \A p \in Source : pc[p] = "store" => p \in Request
    /\ \A n \in Node : cache[n] # NoEvent => Origin[cache[n]] \in Request

\* The inductive invariants: of the delivery, and with it of the order and of
\* the cache.
DeliveryInv == TypeOK /\ Cursor /\ PriorIsAnswered /\ InboxIsForeign /\ GotIsFiled
OrderInv == DeliveryInv /\ InboxInOrder /\ GotBeforeInbox /\ SameNodeInOrder
CacheInv == DeliveryInv /\ StoredByRequest /\ NoneMissed

-----------------------------------------------------------------------------
(* Messages and their sources.                                             *)

\* A message that stands in a batch has that source and that position.
LEMMA OriginLemma ==
    ASSUME NEW p \in Source, NEW i \in DOMAIN Batch[p]
    PROVE  /\ Batch[p][i] \in Message
           /\ Origin[Batch[p][i]] = p
           /\ Position[Batch[p][i]] = i
           /\ i \in Nat \ {0}
  <1> DEFINE m == Batch[p][i]
  <1>1. Batch[p] \in Seq(Message)
    BY EventsAssumption
  <1>2. m \in Message /\ i \in Nat \ {0}
    BY <1>1
  <1>3. m \in Range(Batch[p])
    BY DEF Range
  <1>4. \A q \in Source : m \in Range(Batch[q]) => q = p
    BY EventsAssumption DEF Range
  <1>5. Origin[m] = p
    BY <1>2, <1>3, <1>4 DEF Origin
  <1>6. \A j \in DOMAIN Batch[p] : Batch[p][j] = m => j = i
    BY EventsAssumption
  <1>7. Position[m] = i
    BY <1>2, <1>5, <1>6 DEF Position
  <1> QED
    BY <1>2, <1>5, <1>7

\* What a busy source is at.
LEMMA MessageOfLemma ==
    ASSUME Cursor, NEW p \in Source, pc[p] \in Busy
    PROVE  /\ MessageOf(p) \in Message
           /\ Origin[MessageOf(p)] = p
           /\ Position[MessageOf(p)] = next[p]
           /\ next[p] \in Nat \ {0}
  BY OriginLemma DEF Cursor, MessageOf

\* Range of a sequence that grows or shrinks.
LEMMA RangeLemma ==
    ASSUME NEW S, NEW q \in Seq(S), NEW m \in S
    PROVE  /\ Append(q, m) \in Seq(S)
           /\ Range(Append(q, m)) = Range(q) \cup {m}
           /\ q # <<>> => /\ Tail(q) \in Seq(S)
                          /\ Head(q) \in Range(q)
                          /\ Range(q) = Range(Tail(q)) \cup {Head(q)}
           /\ Range(q) \subseteq S
  <1>1. Append(q, m) \in Seq(S) /\ Range(q) \subseteq S
    BY DEF Range
  <1>2. Range(Append(q, m)) = Range(q) \cup {m}
    <2>1. Len(Append(q, m)) = Len(q) + 1 /\ Append(q, m)[Len(q) + 1] = m
      OBVIOUS
    <2>2. \A i \in 1..Len(q) : Append(q, m)[i] = q[i]
      OBVIOUS
    <2>3. DOMAIN q = 1..Len(q) /\ DOMAIN Append(q, m) = 1..(Len(q) + 1) /\ Len(q) \in Nat
      BY <1>1, <2>1
    <2> QED
      BY <2>1, <2>2, <2>3 DEF Range
  <1>3. ASSUME q # <<>>
        PROVE  /\ Tail(q) \in Seq(S)
               /\ Head(q) \in Range(q)
               /\ Range(q) = Range(Tail(q)) \cup {Head(q)}
    <2>1. /\ Tail(q) \in Seq(S) /\ Len(Tail(q)) = Len(q) - 1 /\ Len(q) \in Nat \ {0}
          /\ Head(q) = q[1]
          /\ \A i \in 1..(Len(q) - 1) : Tail(q)[i] = q[i + 1]
      BY <1>3
    <2>2. DOMAIN q = 1..Len(q) /\ DOMAIN Tail(q) = 1..(Len(q) - 1)
      BY <2>1
    <2>3. \A i \in 1..Len(q) : i = 1 \/ i - 1 \in 1..(Len(q) - 1)
      BY <2>1
    <2>4. ASSUME NEW x \in Range(q) PROVE x \in Range(Tail(q)) \cup {Head(q)}
      <3>1. PICK i \in 1..Len(q) : x = q[i]
        BY <2>2, <2>4 DEF Range
      <3>2. CASE i = 1
        BY <3>1, <3>2, <2>1
      <3>3. CASE i # 1
        <4>1. i - 1 \in 1..(Len(q) - 1) /\ (i - 1) + 1 = i
          BY <3>1, <3>3, <2>1
        <4>2. Tail(q)[i - 1] = x
          BY <4>1, <3>1, <2>1
        <4> QED
          BY <4>1, <4>2, <2>2 DEF Range
      <3> QED
        BY <3>2, <3>3
    <2>5. Head(q) \in Range(q)
      BY <2>1, <2>2 DEF Range
    <2>6. ASSUME NEW x \in Range(Tail(q)) PROVE x \in Range(q)
      <3>1. PICK i \in 1..(Len(q) - 1) : x = Tail(q)[i]
        BY <2>2, <2>6 DEF Range
      <3>2. i + 1 \in 1..Len(q) /\ x = q[i + 1]
        BY <3>1, <2>1
      <3> QED
        BY <3>2, <2>2 DEF Range
    <2> QED
      BY <2>1, <2>4, <2>5, <2>6
  <1> QED
    BY <1>1, <1>2, <1>3

-----------------------------------------------------------------------------
(* Types, and what the sources do.                                         *)

\* What SendLocally appends, and where.
LEMMA SendLocallyLemma ==
    ASSUME TypeOK, NEW n \in Node, NEW m \in Message, NEW e, Origin[m] \in Source,
           SendLocally(n, m, e)
    PROVE  /\ got' \in [Socket -> [Node -> Seq(Message)]]
           /\ owed' \in [Socket -> SUBSET Message]
           /\ At[Origin[m]] \in Node
           /\ \A s \in Socket, k \in Node :
                got'[s][k] = IF s \in Recipients(n, e) /\ k = At[Origin[m]]
                             THEN Append(got[s][k], m) ELSE got[s][k]
  <1>1. At[Origin[m]] \in Node
    BY EventsAssumption
  <1>2. \A s \in Socket : got[s] \in [Node -> Seq(Message)]
    BY DEF TypeOK
  <1>3. \A s \in Socket, k \in Node : Append(got[s][k], m) \in Seq(Message)
    BY <1>2
  <1>4. ASSUME NEW s \in Socket, NEW k \in Node
        PROVE  got'[s][k] = IF s \in Recipients(n, e) /\ k = At[Origin[m]]
                            THEN Append(got[s][k], m) ELSE got[s][k]
    BY <1>1, <1>2 DEF SendLocally
  <1>5. ASSUME NEW s \in Socket PROVE got'[s] \in [Node -> Seq(Message)]
    <2>1. CASE s \in Recipients(n, e)
      <3>1. got'[s] = [got[s] EXCEPT ![At[Origin[m]]] = Append(got[s][At[Origin[m]]], m)]
        BY <2>1 DEF SendLocally
      <3> QED
        BY <3>1, <1>1, <1>2, <1>3
    <2>2. CASE s \notin Recipients(n, e)
      BY <2>2, <1>2 DEF SendLocally
    <2> QED
      BY <2>1, <2>2
  <1>6. got' \in [Socket -> [Node -> Seq(Message)]]
    BY <1>5 DEF SendLocally
  <1>7. owed' \in [Socket -> SUBSET Message]
    BY DEF SendLocally, TypeOK
  <1> QED
    BY <1>1, <1>4, <1>6, <1>7

\* What a source is at after Take.
LEMMA TakeLemma ==
    ASSUME TypeOK, Cursor, NEW p \in Source, NEW i \in Nat \ {0}, Take(p, i)
    PROVE  /\ pc' \in [Source -> {"idle"} \cup Busy \cup Answered]
           /\ next' \in [Source -> Nat]
           /\ pc'[p] \in {"publish"} \cup Answered
           /\ next'[p] = i
           /\ pc'[p] = "publish" => i \in DOMAIN Batch[p] /\ Batch[p][i] \in Valid
           /\ \A q \in Source : q # p => pc'[q] = pc[q] /\ next'[q] = next[q]
  <1>1. Batch[p] \in Seq(Message)
    BY EventsAssumption
  <1>2. DOMAIN Batch[p] = 1..Len(Batch[p]) /\ Len(Batch[p]) \in Nat
    BY <1>1
  <1>3. pc'[p] \in {"publish"} \cup Answered
    BY DEF Take, TypeOK, Answered
  <1>4. pc'[p] = "publish" => i <= Len(Batch[p]) /\ Batch[p][i] \in Valid
    BY <1>2 DEF Take, TypeOK
  <1>5. next' \in [Source -> Nat] /\ next'[p] = i
    BY DEF Take, TypeOK
  <1>6. pc' \in [Source -> {"idle"} \cup Busy \cup Answered]
    BY <1>3 DEF Take, TypeOK, Busy, Answered
  <1>7. \A q \in Source : q # p => pc'[q] = pc[q] /\ next'[q] = next[q]
    BY DEF Take, TypeOK
  <1> QED
    BY <1>2, <1>3, <1>4, <1>5, <1>6, <1>7

\* How a step moves the sources: one of them begins, publishes, sends or
\* stores, or none moves.
LEMMA SourcesStep ==
    ASSUME DeliveryInv, [Next]_vars
    PROVE  /\ pc' \in [Source -> {"idle"} \cup Busy \cup Answered]
           /\ next' \in [Source -> Nat]
           /\ prior' \in [Source -> SUBSET Source]
           /\ (\A p \in Source : pc[p] \in Busy => MessageOf(p) \in Valid)'
           /\ Cursor'
           /\ PriorIsAnswered'
           /\ \A p \in Source :
                /\ pc[p] \in Answered => pc'[p] = pc[p] /\ next'[p] = next[p]
                /\ pc'[p] = "idle" => pc[p] = "idle"
                /\ pc[p] # "idle" => prior'[p] = prior[p]
                /\ pc[p] = "publish" => pc'[p] \in {"publish", "local"} /\ next'[p] = next[p]
                /\ pc[p] = "local" => \/ pc'[p] \in {"local", "store"} /\ next'[p] = next[p]
                                      \/ pc'[p] \in {"publish"} \cup Answered /\ next'[p] = next[p] + 1
                /\ pc[p] = "store" => \/ pc'[p] = "store" /\ next'[p] = next[p]
                                      \/ pc'[p] \in {"publish"} \cup Answered /\ next'[p] = next[p] + 1
  <1> DEFINE Moves(p) ==
                /\ pc[p] \in Answered => pc'[p] = pc[p] /\ next'[p] = next[p]
                /\ pc'[p] = "idle" => pc[p] = "idle"
                /\ pc[p] # "idle" => prior'[p] = prior[p]
                /\ pc[p] = "publish" => pc'[p] \in {"publish", "local"} /\ next'[p] = next[p]
                /\ pc[p] = "local" => \/ pc'[p] \in {"local", "store"} /\ next'[p] = next[p]
                                      \/ pc'[p] \in {"publish"} \cup Answered /\ next'[p] = next[p] + 1
                /\ pc[p] = "store" => \/ pc'[p] = "store" /\ next'[p] = next[p]
                                      \/ pc'[p] \in {"publish"} \cup Answered /\ next'[p] = next[p] + 1
             Goal ==
                /\ pc' \in [Source -> {"idle"} \cup Busy \cup Answered]
                /\ next' \in [Source -> Nat]
                /\ prior' \in [Source -> SUBSET Source]
                /\ \A p \in Source : pc'[p] \in Busy =>
                        next'[p] \in DOMAIN Batch[p] /\ Batch[p][next'[p]] \in Valid
                /\ \A p \in Source : pc'[p] = "idle" => next'[p] = 1
                /\ PriorIsAnswered'
                /\ \A p \in Source : Moves(p)
  <1>1. TypeOK /\ Cursor /\ PriorIsAnswered
    BY DEF DeliveryInv
  <1>2. /\ pc \in [Source -> {"idle"} \cup Busy \cup Answered]
        /\ next \in [Source -> Nat]
        /\ prior \in [Source -> SUBSET Source]
        /\ \A p \in Source : pc[p] \in Busy =>
                next[p] \in DOMAIN Batch[p] /\ Batch[p][next[p]] \in Valid
        /\ \A p \in Source : pc[p] = "idle" => next[p] = 1
    BY <1>1 DEF TypeOK, Cursor, MessageOf
  <1>3. ASSUME NEW p \in Source, pc[p] = "idle", pc'[p] # "idle",
               pc' \in [Source -> {"idle"} \cup Busy \cup Answered],
               next' \in [Source -> Nat],
               pc'[p] \in Busy => next'[p] \in DOMAIN Batch[p] /\ Batch[p][next'[p]] \in Valid,
               \A q \in Source : q # p => pc'[q] = pc[q] /\ next'[q] = next[q],
               prior' = [prior EXCEPT ![p] = {q \in Source : pc[q] \in Answered}]
        PROVE  Goal
    <2>1. /\ prior' \in [Source -> SUBSET Source]
          /\ prior'[p] = {q \in Source : pc[q] \in Answered}
          /\ \A q \in Source : q # p => prior'[q] = prior[q]
      BY <1>2, <1>3
    <2>2. PriorIsAnswered'
      BY <2>1, <1>1, <1>3 DEF PriorIsAnswered, Answered
    <2>3. \A q \in Source : Moves(q)
      BY <2>1, <1>2, <1>3 DEF Busy, Answered
    <2> QED
      BY <2>1, <2>2, <2>3, <1>2, <1>3
  <1>4. ASSUME NEW p \in Source, pc[p] \in Busy,
               pc' \in [Source -> {"idle"} \cup Busy \cup Answered],
               next' \in [Source -> Nat], pc'[p] # "idle",
               pc'[p] \in Busy => next'[p] \in DOMAIN Batch[p] /\ Batch[p][next'[p]] \in Valid,
               \A q \in Source : q # p => pc'[q] = pc[q] /\ next'[q] = next[q],
               UNCHANGED prior, Moves(p)
        PROVE  Goal
    <2>1. PriorIsAnswered'
      BY <1>1, <1>4 DEF PriorIsAnswered, Answered, Busy
    <2>2. \A q \in Source : Moves(q)
      BY <1>2, <1>4 DEF Busy, Answered
    <2> QED
      BY <2>1, <2>2, <1>2, <1>4
  <1>5. ASSUME UNCHANGED <<pc, next, prior>> PROVE Goal
    <2>1. PriorIsAnswered'
      BY <1>1, <1>5 DEF PriorIsAnswered
    <2>2. \A q \in Source : Moves(q)
      BY <1>2, <1>5 DEF Busy, Answered
    <2> QED
      BY <2>1, <2>2, <1>2, <1>5
  <1>6. Goal
    <2>1. ASSUME NEW p \in Source, Trigger(p) PROVE Goal
      <3>1. Take(p, 1) /\ 1 \in Nat \ {0}
        BY <2>1 DEF Trigger
      <3>2. pc'[p] # "idle"
        BY <3>1, <1>1, TakeLemma DEF Answered
      <3>3. pc'[p] \in Busy => pc'[p] = "publish"
        BY <3>1, <1>1, TakeLemma DEF Answered, Busy
      <3>4. pc[p] = "idle" /\ prior' = [prior EXCEPT ![p] = {q \in Source : pc[q] \in Answered}]
        BY <2>1 DEF Trigger
      <3> QED
        BY <3>1, <3>2, <3>3, <3>4, <1>1, <1>3, TakeLemma
    <2>2. ASSUME NEW p \in Source, ClientEvent(p) PROVE Goal
      <3>1. /\ pc[p] = "idle" /\ pc' = [pc EXCEPT ![p] = "publish"] /\ next' = next
            /\ prior' = [prior EXCEPT ![p] = {q \in Source : pc[q] \in Answered}]
            /\ Batch[p] # <<>> /\ Batch[p][next[p]] \in Valid
        BY <2>2 DEF ClientEvent, ValidClientEvent, MessageOf
      <3>2. Batch[p] \in Seq(Message)
        BY EventsAssumption
      <3>3. next[p] \in DOMAIN Batch[p]
        BY <3>1, <3>2, <1>2
      <3>4. pc' \in [Source -> {"idle"} \cup Busy \cup Answered] /\ pc'[p] # "idle"
        BY <3>1, <1>2 DEF Busy
      <3> QED
        BY <3>1, <3>3, <3>4, <1>2, <1>3
    <2>3. ASSUME NEW p \in Source, Publish(p) PROVE Goal
      <3>1. pc[p] = "publish" /\ pc' = [pc EXCEPT ![p] = "local"] /\ next' = next /\ prior' = prior
        BY <2>3 DEF Publish
      <3>2. /\ pc' \in [Source -> {"idle"} \cup Busy \cup Answered] /\ pc'[p] = "local"
            /\ pc[p] \in Busy
        BY <3>1, <1>2 DEF Busy
      <3>3. Moves(p)
        BY <3>1, <3>2 DEF Answered
      <3> QED
        BY <3>1, <3>2, <3>3, <1>2, <1>4
    <2>4. ASSUME NEW p \in Source, pc[p] \in {"local", "store"}, Take(p, next[p] + 1),
                 UNCHANGED prior
          PROVE  Goal
      <3>1. pc[p] \in Busy /\ next[p] + 1 \in Nat \ {0}
        BY <2>4, <1>2 DEF Busy
      <3>2. /\ pc'[p] \in {"publish"} \cup Answered /\ next'[p] = next[p] + 1
            /\ pc'[p] = "publish" => next'[p] \in DOMAIN Batch[p] /\ Batch[p][next'[p]] \in Valid
            /\ pc' \in [Source -> {"idle"} \cup Busy \cup Answered]
            /\ next' \in [Source -> Nat]
            /\ \A q \in Source : q # p => pc'[q] = pc[q] /\ next'[q] = next[q]
        BY <3>1, <2>4, <1>1, TakeLemma
      <3>3. pc'[p] # "idle" /\ (pc'[p] \in Busy => pc'[p] = "publish")
        BY <3>2 DEF Busy, Answered
      <3>4. Moves(p)
        BY <3>2, <3>3, <2>4 DEF Answered
      <3> QED
        BY <3>1, <3>2, <3>3, <3>4, <2>4, <1>4
    <2>5. ASSUME NEW p \in Source, SendOnOwnNode(p) PROVE Goal
      <3>1. CASE p \in Request /\ pc' = [pc EXCEPT ![p] = "store"] /\ next' = next
        <4>1. pc[p] = "local" /\ prior' = prior
          BY <2>5 DEF SendOnOwnNode
        <4>2. /\ pc' \in [Source -> {"idle"} \cup Busy \cup Answered] /\ pc'[p] = "store"
              /\ pc[p] \in Busy
          BY <3>1, <4>1, <1>2 DEF Busy
        <4>3. Moves(p)
          BY <3>1, <4>1, <4>2 DEF Answered
        <4> QED
          BY <3>1, <4>1, <4>2, <4>3, <1>2, <1>4
      <3>2. CASE p \in Socket /\ Take(p, next[p] + 1)
        BY <3>2, <2>4, <2>5 DEF SendOnOwnNode
      <3> QED
        BY <3>1, <3>2, <2>5 DEF SendOnOwnNode
    <2>6. ASSUME NEW p \in Source, Store(p) PROVE Goal
      BY <2>4, <2>6 DEF Store, past
    <2>7. ASSUME NEW n \in Node, OnMessage(n) \/ PsubscribeEnds(n) \/ Expire(n) \/ Cleanup(n)
          PROVE  Goal
      BY <1>5, <2>7 DEF OnMessage, PsubscribeEnds, Expire, Cleanup, past
    <2>8. ASSUME NEW s \in Socket, Join(s) \/ SendCacheIfNeeded(s) PROVE Goal
      BY <1>5, <2>8 DEF Join, SendCacheIfNeeded, past
    <2>9. CASE UNCHANGED vars
      BY <1>5, <2>9 DEF vars
    <2> QED
      BY <2>1, <2>2, <2>3, <2>5, <2>6, <2>7, <2>8, <2>9 DEF Next, SourceStep
  <1>7. Cursor' /\ (\A p \in Source : pc[p] \in Busy => MessageOf(p) \in Valid)'
    BY <1>6 DEF Cursor, MessageOf
  <1> QED
    BY <1>6, <1>7

-----------------------------------------------------------------------------
(* Who gets a message.                                                     *)

\* A message that was passed on stays so.
LEMMA PassedToKept ==
    ASSUME DeliveryInv, [Next]_vars, NEW m, NEW n, PassedTo(m, n)
    PROVE  PassedTo(m, n)'
  <1> DEFINE p == Origin[m]
  <1>1. p \in Source /\ Position[m] \in Nat /\ pc[p] # "idle" /\ m \in Message
    BY DEF PassedTo
  <1>2. pc[p] \in {"publish", "local", "store", "done", "rejected"} /\ next[p] \in Nat
    BY <1>1 DEF DeliveryInv, TypeOK, Busy, Answered
  <1>3. /\ pc'[p] # "idle"
        /\ pc[p] \in Answered => pc'[p] = pc[p] /\ next'[p] = next[p]
        /\ pc[p] = "publish" => pc'[p] \in {"publish", "local"} /\ next'[p] = next[p]
        /\ pc[p] = "local" => \/ pc'[p] \in {"local", "store"} /\ next'[p] = next[p]
                              \/ pc'[p] \in {"publish"} \cup Answered /\ next'[p] = next[p] + 1
        /\ pc[p] = "store" => \/ pc'[p] = "store" /\ next'[p] = next[p]
                              \/ pc'[p] \in {"publish"} \cup Answered /\ next'[p] = next[p] + 1
    BY <1>1, SourcesStep
  <1> QED
    BY <1>1, <1>2, <1>3 DEF PassedTo, Answered

\* The current message of a source is passed on when it is published or sent.
LEMMA PassesOn ==
    ASSUME DeliveryInv, NEW p \in Source, NEW n, NEW m, pc[p] \in Busy, m = MessageOf(p),
           \/ pc'[p] = "local" /\ next'[p] = next[p] /\ At[p] # n
           \/ pc'[p] = "store" /\ next'[p] = next[p]
           \/ pc'[p] \in {"publish"} \cup Answered /\ next'[p] = next[p] + 1
    PROVE  PassedTo(m, n)'
  <1>1. m \in Message /\ Origin[m] = p /\ Position[m] = next[p] /\ next[p] \in Nat
    BY MessageOfLemma DEF DeliveryInv
  <1> QED
    BY <1>1 DEF PassedTo, Answered

\* What a message brings to a node is the head of what Redis holds for it.
LEMMA OnMessageLemma ==
    ASSUME DeliveryInv, NEW n \in Node, OnMessage(n)
    PROVE  /\ inbox[n] \in Seq(Message) /\ inbox[n] # <<>>
           /\ Head(inbox[n]) \in Message /\ Head(inbox[n]) \in Range(inbox[n])
           /\ Origin[Head(inbox[n])] \in Source /\ At[Origin[Head(inbox[n])]] # n
           /\ inbox' \in [Node -> Seq(Message)]
           /\ inbox'[n] = Tail(inbox[n])
           /\ \A k \in Node : k # n => inbox'[k] = inbox[k]
           /\ \A k \in Node : Range(inbox'[k]) \subseteq Range(inbox[k])
           /\ SendLocally(n, Head(inbox[n]), Nobody)
  <1>1. inbox \in [Node -> Seq(Message)] /\ inbox[n] \in Seq(Message) /\ inbox[n] # <<>>
    BY DEF DeliveryInv, TypeOK, OnMessage
  <1>2. Head(inbox[n]) \in Message
    BY <1>1
  <1>3. /\ Tail(inbox[n]) \in Seq(Message) /\ Head(inbox[n]) \in Range(inbox[n])
        /\ Range(Tail(inbox[n])) \subseteq Range(inbox[n])
    BY <1>1, <1>2, RangeLemma
  <1>4. inbox' = [inbox EXCEPT ![n] = Tail(inbox[n])]
    BY DEF OnMessage
  <1>5. Origin[Head(inbox[n])] \in Source /\ At[Origin[Head(inbox[n])]] # n
    BY <1>3 DEF DeliveryInv, InboxIsForeign, PassedTo
  <1>6. /\ inbox' \in [Node -> Seq(Message)] /\ inbox'[n] = Tail(inbox[n])
        /\ \A k \in Node : k # n => inbox'[k] = inbox[k]
    BY <1>1, <1>3, <1>4
  <1>7. \A k \in Node : Range(inbox'[k]) \subseteq Range(inbox[k])
    BY <1>3, <1>6
  <1> QED
    BY <1>1, <1>2, <1>3, <1>5, <1>6, <1>7 DEF OnMessage

\* What a publish adds.
LEMMA PublishLemma ==
    ASSUME DeliveryInv, NEW p \in Source, Publish(p)
    PROVE  /\ MessageOf(p) \in Message /\ Origin[MessageOf(p)] = p
           /\ inbox' \in [Node -> Seq(Message)]
           /\ \A n \in Node : \/ inbox'[n] = inbox[n]
                              \/ /\ inbox'[n] = Append(inbox[n], MessageOf(p))
                                 /\ n # At[p]
           /\ \A n \in Node : Range(inbox'[n]) \subseteq Range(inbox[n]) \cup {MessageOf(p)}
           /\ pc[p] = "publish" /\ pc'[p] = "local" /\ next'[p] = next[p]
  <1>1. MessageOf(p) \in Message /\ Origin[MessageOf(p)] = p
    BY MessageOfLemma DEF DeliveryInv, Publish, Busy
  <1>2. \A n \in Node : inbox[n] \in Seq(Message)
    BY DEF DeliveryInv, TypeOK
  <1>3. \A n \in Node : \/ inbox'[n] = inbox[n]
                        \/ /\ inbox'[n] = Append(inbox[n], MessageOf(p))
                           /\ n # At[p]
    BY DEF Publish, Addressees
  <1>4. \A n \in Node : inbox'[n] \in Seq(Message)
    BY <1>1, <1>2, <1>3
  <1>5. inbox' \in [Node -> Seq(Message)]
    BY <1>4 DEF Publish, DeliveryInv, TypeOK
  <1>6. \A n \in Node : Range(inbox'[n]) \subseteq Range(inbox[n]) \cup {MessageOf(p)}
    <2>1. ASSUME NEW n \in Node
          PROVE  Range(Append(inbox[n], MessageOf(p))) = Range(inbox[n]) \cup {MessageOf(p)}
      BY <1>1, <1>2, RangeLemma
    <2> QED
      BY <1>3, <2>1
  <1>7. pc[p] = "publish" /\ pc'[p] = "local" /\ next'[p] = next[p]
    BY DEF Publish, DeliveryInv, TypeOK
  <1> QED
    BY <1>1, <1>3, <1>5, <1>6, <1>7

\* What a source sends on its own node.
LEMMA SendOnOwnNodeLemma ==
    ASSUME DeliveryInv, NEW p \in Source, SendOnOwnNode(p)
    PROVE  /\ MessageOf(p) \in Message /\ Origin[MessageOf(p)] = p
           /\ At[p] \in Node
           /\ pc[p] = "local"
           /\ \/ pc'[p] = "store" /\ next'[p] = next[p]
              \/ pc'[p] \in {"publish"} \cup Answered /\ next'[p] = next[p] + 1
           /\ inbox' = inbox
           /\ SendLocally(At[p], MessageOf(p), Except[MessageOf(p)])
  <1>1. pc[p] = "local" /\ pc[p] \in Busy
    BY DEF SendOnOwnNode, Busy
  <1>2. MessageOf(p) \in Message /\ Origin[MessageOf(p)] = p
    BY <1>1, MessageOfLemma DEF DeliveryInv
  <1>3. At[p] \in Node
    BY EventsAssumption
  <1>4. next[p] + 1 \in Nat \ {0} /\ TypeOK /\ Cursor
    BY DEF DeliveryInv, TypeOK
  <1>5. CASE pc' = [pc EXCEPT ![p] = "store"] /\ next' = next
    BY <1>1, <1>2, <1>3, <1>4, <1>5 DEF SendOnOwnNode, TypeOK
  <1>6. CASE Take(p, next[p] + 1)
    BY <1>1, <1>2, <1>3, <1>4, <1>6, TakeLemma DEF SendOnOwnNode
  <1> QED
    BY <1>5, <1>6 DEF SendOnOwnNode

\* The variables keep their types,
LEMMA TypeStep ==
    ASSUME DeliveryInv, [Next]_vars
    PROVE  TypeOK'
  <1> DEFINE CacheTypes ==
                /\ driver \in {"redis", "local"}
                /\ cache \in [Node -> Message \cup {NoEvent}]
                /\ expired \subseteq Node
                /\ expiries \in 0..MaxExpiries
                /\ unstored \subseteq Message
             SocketTypes ==
                /\ sub \in [Socket -> {"out", "added", "done"}]
                /\ cached \in [Socket -> Message \cup {NoEvent}]
                /\ passing \in [Socket -> SUBSET Message]
                /\ missed \subseteq Socket
             LinkTypes ==
                /\ inbox \in [Node -> Seq(Message)]
                /\ deaf \subseteq Node
                /\ lost \subseteq Message
             WriteTypes ==
                /\ got \in [Socket -> [Node -> Seq(Message)]]
                /\ owed \in [Socket -> SUBSET Message]
             Rest == CacheTypes /\ SocketTypes /\ LinkTypes /\ WriteTypes
  <1>0. TypeOK /\ Cursor /\ Rest
    BY DEF DeliveryInv, TypeOK
  <1>1. ASSUME NEW p \in Source, Trigger(p) \/ ClientEvent(p) PROVE Rest'
    BY <1>0, <1>1 DEF Trigger, ClientEvent, caches, sockets
  <1>2. ASSUME NEW p \in Source, Publish(p) PROVE Rest'
    <2>1. CacheTypes' /\ SocketTypes' /\ got' = got /\ deaf' = deaf
      BY <1>0, <1>2 DEF Publish, caches, sockets
    <2>2. inbox' \in [Node -> Seq(Message)] /\ MessageOf(p) \in Message
      BY <1>2, PublishLemma
    <2>3. owed' \in [Socket -> SUBSET Message] /\ lost' \subseteq Message
      BY <1>0, <1>2, <2>2 DEF Publish
    <2> QED
      BY <1>0, <2>1, <2>2, <2>3
  <1>3. ASSUME NEW p \in Source, SendOnOwnNode(p) PROVE Rest'
    <2>1. CacheTypes' /\ SocketTypes' /\ LinkTypes'
      BY <1>0, <1>3 DEF SendOnOwnNode, caches
    <2>2. PICK m \in Message : m = MessageOf(p) /\ Origin[m] \in Source /\ At[p] \in Node
      BY <1>3, SendOnOwnNodeLemma
    <2>3. SendLocally(At[p], m, Except[m])
      BY <1>3, <2>2, SendOnOwnNodeLemma
    <2>4. WriteTypes'
      BY <1>0, <2>2, <2>3, SendLocallyLemma
    <2> QED
      BY <2>1, <2>4
  <1>4. ASSUME NEW p \in Source, Store(p) PROVE Rest'
    <2>1. MessageOf(p) \in Message
      BY <1>0, <1>4, MessageOfLemma DEF Store, Busy
    <2>2. cache' \in [Node -> Message \cup {NoEvent}]
      BY <1>0, <1>4, <2>1 DEF Store
    <2>3. /\ driver' = driver /\ expired' \subseteq Node /\ expiries' = expiries
          /\ unstored' \subseteq Message
      BY <1>0, <1>4, <2>1 DEF Store
    <2>4. SocketTypes' /\ LinkTypes' /\ WriteTypes'
      BY <1>0, <1>4 DEF Store, sockets, past
    <2> QED
      BY <1>0, <2>2, <2>3, <2>4
  <1>5. ASSUME NEW n \in Node, OnMessage(n) PROVE Rest'
    <2>1. CacheTypes' /\ SocketTypes' /\ deaf' = deaf /\ lost' = lost
      BY <1>0, <1>5 DEF OnMessage, caches
    <2>2. inbox' \in [Node -> Seq(Message)]
      BY <1>5, OnMessageLemma
    <2>3. WriteTypes'
      BY <1>0, <1>5, OnMessageLemma, SendLocallyLemma
    <2> QED
      BY <1>0, <2>1, <2>2, <2>3
  <1>6. ASSUME NEW n \in Node, PsubscribeEnds(n) PROVE Rest'
    <2>1. inbox' \in [Node -> Seq(Message)] /\ deaf' \subseteq Node
      BY <1>0, <1>6, EventsAssumption DEF PsubscribeEnds
    <2> QED
      BY <1>0, <1>6, <2>1 DEF PsubscribeEnds, caches, sockets, past
  <1>7. ASSUME NEW n \in Node, Expire(n) PROVE Rest'
    <2>1. CacheTypes'
      BY <1>0, <1>7, EventsAssumption DEF Expire
    <2> QED
      BY <1>0, <1>7, <2>1 DEF Expire, sockets, past
  <1>8. ASSUME NEW n \in Node, Cleanup(n) PROVE Rest'
    BY <1>0, <1>8 DEF Cleanup, sockets, past
  <1>9. ASSUME NEW s \in Socket, Join(s) PROVE Rest'
    BY <1>0, <1>9 DEF Join, caches, past
  <1>10. ASSUME NEW s \in Socket, SendCacheIfNeeded(s) PROVE Rest'
    <2>1. CacheGet(At[s]) \in Message \cup {NoEvent}
      BY <1>0, EventsAssumption DEF CacheGet, Source
    <2>2. SocketTypes'
      BY <1>0, <1>10, <2>1 DEF SendCacheIfNeeded
    <2> QED
      BY <1>0, <1>10, <2>2 DEF SendCacheIfNeeded, caches, past
  <1>11. ASSUME UNCHANGED vars PROVE Rest'
    <2>1. UNCHANGED <<caches, sockets, inbox, deaf, lost, owed>>
      BY <1>11 DEF vars, caches, sockets
    <2> QED
      BY <1>0, <1>11, <2>1 DEF caches, sockets
  <1>12. Rest'
    <2> HIDE DEF Rest
    <2> QED
      BY <1>1, <1>2, <1>3, <1>4, <1>5, <1>6, <1>7, <1>8, <1>9, <1>10, <1>11 DEF Next, SourceStep
  <1> QED
    BY <1>12, SourcesStep DEF TypeOK

\* only sources on other nodes fill what Redis holds for a node,
LEMMA InboxStep ==
    ASSUME DeliveryInv, [Next]_vars
    PROVE  InboxIsForeign'
  <1>1. ASSUME \A n \in Node : Range(inbox'[n]) \subseteq Range(inbox[n])
        PROVE  InboxIsForeign'
    BY <1>1, PassedToKept DEF DeliveryInv, InboxIsForeign
  <1>2. ASSUME NEW p \in Source, Publish(p) PROVE InboxIsForeign'
    <2>1. /\ Origin[MessageOf(p)] = p
          /\ pc[p] \in Busy /\ pc'[p] = "local" /\ next'[p] = next[p]
          /\ \A n \in Node : \/ inbox'[n] = inbox[n]
                             \/ /\ Range(inbox'[n]) \subseteq Range(inbox[n]) \cup {MessageOf(p)}
                                /\ n # At[p]
      BY <1>2, PublishLemma DEF Busy
    <2>2. ASSUME NEW n \in Node, NEW m \in Range(inbox'[n])
          PROVE  At[Origin[m]] # n /\ PassedTo(m, n)'
      <3>1. CASE m \in Range(inbox[n])
        BY <3>1, PassedToKept DEF DeliveryInv, InboxIsForeign
      <3>2. CASE m \notin Range(inbox[n])
        <4>1. m = MessageOf(p) /\ n # At[p]
          BY <2>1, <2>2, <3>2
        <4> QED
          BY <2>1, <4>1, PassesOn
      <3> QED
        BY <3>1, <3>2
    <2> QED
      BY <2>2 DEF InboxIsForeign
  <1>3. ASSUME NEW n \in Node, OnMessage(n) PROVE InboxIsForeign'
    BY <1>1, <1>3, OnMessageLemma
  <1>4. ASSUME NEW n \in Node, PsubscribeEnds(n) PROVE InboxIsForeign'
    <2>1. \A k \in Node : inbox'[k] = IF k = n THEN <<>> ELSE inbox[k]
      BY <1>4 DEF PsubscribeEnds, DeliveryInv, TypeOK
    <2>2. Range(<<>>) = {}
      BY DEF Range
    <2> QED
      BY <1>1, <2>1, <2>2
  <1>5. ASSUME UNCHANGED inbox PROVE InboxIsForeign'
    BY <1>1, <1>5
  <1> QED
    BY <1>2, <1>3, <1>4, <1>5
    DEF Next, SourceStep, Trigger, ClientEvent, SendOnOwnNode, Store, Expire, Cleanup, Join,
        SendCacheIfNeeded, vars

\* What SendLocally leaves written: all that was, and m for the recipients.
LEMMA WrittenLemma ==
    ASSUME TypeOK, NEW n \in Node, NEW m \in Message, NEW e, Origin[m] \in Source,
           SendLocally(n, m, e), NEW s \in Socket, NEW k \in Node
    PROVE  Range(got'[s][k]) = IF s \in Recipients(n, e) /\ k = At[Origin[m]]
                               THEN Range(got[s][k]) \cup {m} ELSE Range(got[s][k])
  <1>1. got[s][k] \in Seq(Message)
    BY DEF TypeOK
  <1>2. Range(Append(got[s][k], m)) = Range(got[s][k]) \cup {m}
    BY <1>1, RangeLemma
  <1>3. got'[s][k] = IF s \in Recipients(n, e) /\ k = At[Origin[m]]
                     THEN Append(got[s][k], m) ELSE got[s][k]
    BY SendLocallyLemma
  <1> QED
    BY <1>2, <1>3

\* and what was written is filed under its sender's node.
LEMMA GotStep ==
    ASSUME DeliveryInv, [Next]_vars
    PROVE  GotIsFiled'
  <1>0. TypeOK /\ GotIsFiled
    BY DEF DeliveryInv
  <1>1. ASSUME NEW n \in Node, NEW m \in Message, NEW e, Origin[m] \in Source,
               SendLocally(n, m, e), PassedTo(m, n)'
        PROVE  GotIsFiled'
    <2> SUFFICES ASSUME NEW s \in Socket, NEW k \in Node, NEW x \in Range(got'[s][k])
                 PROVE  At[Origin[x]] = k /\ PassedTo(x, At[s])'
      BY DEF GotIsFiled
    <2>1. CASE x \in Range(got[s][k])
      BY <1>0, <2>1, PassedToKept DEF GotIsFiled
    <2>2. CASE x \notin Range(got[s][k])
      <3>0. Range(got'[s][k]) = IF s \in Recipients(n, e) /\ k = At[Origin[m]]
                                THEN Range(got[s][k]) \cup {m} ELSE Range(got[s][k])
        BY <1>0, <1>1, WrittenLemma
      <3>1. x = m /\ s \in Recipients(n, e) /\ k = At[Origin[m]]
        BY <2>2, <3>0
      <3>2. At[s] = n
        BY <3>1 DEF Recipients
      <3> QED
        BY <1>1, <3>1, <3>2
    <2> QED
      BY <2>1, <2>2
  <1>2. ASSUME NEW p \in Source, SendOnOwnNode(p) PROVE GotIsFiled'
    <2>1. PICK m \in Message : m = MessageOf(p)
      BY <1>2, SendOnOwnNodeLemma
    <2>2. /\ Origin[m] \in Source /\ At[p] \in Node /\ SendLocally(At[p], m, Except[m])
          /\ pc[p] \in Busy
          /\ \/ pc'[p] = "store" /\ next'[p] = next[p]
             \/ pc'[p] \in {"publish"} \cup Answered /\ next'[p] = next[p] + 1
      BY <1>2, <2>1, SendOnOwnNodeLemma DEF Busy
    <2>3. PassedTo(m, At[p])'
      BY <2>1, <2>2, PassesOn
    <2> QED
      BY <1>1, <2>2, <2>3
  <1>3. ASSUME NEW n \in Node, OnMessage(n) PROVE GotIsFiled'
    <2>1. PICK m \in Message : m = Head(inbox[n])
      BY <1>3, OnMessageLemma
    <2>2. m \in Range(inbox[n]) /\ Origin[m] \in Source /\ SendLocally(n, m, Nobody)
      BY <1>3, <2>1, OnMessageLemma
    <2>3. PassedTo(m, n)'
      BY <2>2, PassedToKept DEF DeliveryInv, InboxIsForeign
    <2> QED
      BY <1>1, <2>2, <2>3
  <1>4. ASSUME UNCHANGED got PROVE GotIsFiled'
    BY <1>0, <1>4, PassedToKept DEF GotIsFiled
  <1> QED
    BY <1>2, <1>3, <1>4
    DEF Next, SourceStep, Trigger, ClientEvent, Publish, Store, PsubscribeEnds, Expire, Cleanup,
        Join, SendCacheIfNeeded, sockets, vars

\* At the start nothing was published or received.
LEMMA InitDelivery == Init => DeliveryInv
  <1> SUFFICES ASSUME Init PROVE DeliveryInv
    OBVIOUS
  <1>1. Range(<<>>) = {}
    BY DEF Range
  <1>2. TypeOK
    <2>1. /\ cache \in [Node -> Message \cup {NoEvent}]
          /\ pc \in [Source -> {"idle"} \cup Busy \cup Answered] /\ next \in [Source -> Nat]
          /\ inbox \in [Node -> Seq(Message)]
          /\ sub \in [Socket -> {"out", "added", "done"}]
          /\ cached \in [Socket -> Message \cup {NoEvent}]
          /\ got \in [Socket -> [Node -> Seq(Message)]]
          /\ owed \in [Socket -> SUBSET Message]
          /\ prior \in [Source -> SUBSET Source]
          /\ passing \in [Socket -> SUBSET Message]
      BY DEF Init
    <2>2. \A p \in Source : pc[p] \in Busy => MessageOf(p) \in Valid
      BY DEF Init, Busy
    <2>3. expiries \in 0..MaxExpiries
      BY EventsAssumption DEF Init
    <2> QED
      BY <2>1, <2>2, <2>3 DEF Init, TypeOK
  <1>3. Cursor /\ PriorIsAnswered
    BY DEF Init, Cursor, PriorIsAnswered, Busy
  <1>4. InboxIsForeign /\ GotIsFiled
    BY <1>1 DEF Init, InboxIsForeign, GotIsFiled
  <1> QED
    BY <1>2, <1>3, <1>4 DEF DeliveryInv

\* Who holds which message, and why, is an invariant of the node's goroutines,
\* Redis and the sources.
THEOREM DeliveryInvHolds == Spec => []DeliveryInv
  <1>1. DeliveryInv /\ [Next]_vars => DeliveryInv'
    BY TypeStep, SourcesStep, InboxStep, GotStep DEF DeliveryInv
  <1> QED
    BY <1>1, InitDelivery, PTL DEF Spec

\* The variables have their types, whatever is sent and fails: a busy source
\* is always at a message that checkMessageToBroadcast has accepted
\* (apiEvents.go:25-58).
THEOREM TypeOKHolds == Spec => []TypeOK
  BY DeliveryInvHolds, PTL DEF DeliveryInv

\* A step writes no event to the socket it excludes, on the source's node.
LEMMA ExcludedStep ==
    ASSUME DeliveryInv, ExcludedOnOwnNode, [Next]_vars
    PROVE  ExcludedOnOwnNode'
  <1>0. TypeOK
    BY DEF DeliveryInv
  <1>1. ASSUME NEW n \in Node, NEW m \in Message, NEW e, Origin[m] \in Source,
               SendLocally(n, m, e), At[Origin[m]] = n => e = Except[m]
        PROVE  ExcludedOnOwnNode'
    <2> SUFFICES ASSUME NEW s \in Socket, NEW x \in Message,
                        Excluded(s, x), At[Origin[x]] = At[s], Written(s, x)'
                 PROVE  FALSE
      BY DEF ExcludedOnOwnNode, Excluded
    <2>1. At[s] \in Node /\ At[Origin[x]] \in Node
      BY EventsAssumption DEF Source
    <2>2. x \in Range(got'[s][At[Origin[x]]]) /\ x \notin Range(got[s][At[Origin[x]]])
      BY DEF Written, ExcludedOnOwnNode, Excluded
    <2>3. x = m /\ s \in Recipients(n, e)
      <3>1. PICK k \in Node : k = At[Origin[x]]
        BY <2>1
      <3>2. Range(got'[s][k]) = IF s \in Recipients(n, e) /\ k = At[Origin[m]]
                                THEN Range(got[s][k]) \cup {m} ELSE Range(got[s][k])
        BY <1>0, <1>1, WrittenLemma
      <3> QED
        BY <2>2, <3>1, <3>2
    <2>4. At[s] = n /\ s # e
      BY <2>3 DEF Recipients
    <2> QED
      BY <1>1, <2>3, <2>4 DEF Excluded
  <1>2. ASSUME NEW p \in Source, SendOnOwnNode(p) PROVE ExcludedOnOwnNode'
    <2>1. PICK m \in Message : m = MessageOf(p)
      BY <1>2, SendOnOwnNodeLemma
    <2>2. Origin[m] \in Source /\ At[p] \in Node /\ SendLocally(At[p], m, Except[m])
      BY <1>2, <2>1, SendOnOwnNodeLemma
    <2> QED
      BY <1>1, <2>2
  <1>3. ASSUME NEW n \in Node, OnMessage(n) PROVE ExcludedOnOwnNode'
    <2>1. PICK m \in Message : m = Head(inbox[n])
      BY <1>3, OnMessageLemma
    <2>2. Origin[m] \in Source /\ At[Origin[m]] # n /\ SendLocally(n, m, Nobody)
      BY <1>3, <2>1, OnMessageLemma
    <2> QED
      BY <1>1, <2>2
  <1>4. ASSUME UNCHANGED got PROVE ExcludedOnOwnNode'
    BY <1>4 DEF ExcludedOnOwnNode, Written, Excluded
  <1> QED
    BY <1>2, <1>3, <1>4
    DEF Next, SourceStep, Trigger, ClientEvent, Publish, Store, PsubscribeEnds, Expire, Cleanup,
        Join, SendCacheIfNeeded, sockets, vars

\* A client never gets its own client event back, nor a socket an event whose
\* request excludes it on the same node, although the receiver of a message
\* from Redis excludes nobody (websocket.go:401, adaptersLocal.go:197):
\* what comes from Redis is never the node's own.
THEOREM ExcludedOnOwnNodeHolds == Spec => []ExcludedOnOwnNode
  <1>1. Init => ExcludedOnOwnNode
    <2> SUFFICES ASSUME Init PROVE ExcludedOnOwnNode
      OBVIOUS
    <2>1. \A s \in Socket : At[s] \in Node
      BY EventsAssumption DEF Source
    <2>2. \A s \in Socket, n \in Node : Range(got[s][n]) = {}
      BY DEF Init, Range
    <2> QED
      BY <2>1, <2>2 DEF ExcludedOnOwnNode, Written
  <1> QED
    BY <1>1, DeliveryInvHolds, ExcludedStep, PTL DEF Spec

-----------------------------------------------------------------------------
(* In which order.                                                         *)

\* Where the elements of a sequence are after Append and Tail.
LEMMA IndexLemma ==
    ASSUME NEW S, NEW q \in Seq(S), NEW m \in S
    PROVE  /\ Len(q) \in Nat /\ Len(Append(q, m)) = Len(q) + 1
           /\ \A i \in 1..Len(q) : Append(q, m)[i] = q[i] /\ q[i] \in Range(q)
           /\ Append(q, m)[Len(q) + 1] = m
           /\ q # <<>> => /\ Head(q) = q[1] /\ 1 \in 1..Len(q) /\ Len(Tail(q)) = Len(q) - 1
                          /\ \A i \in 1..(Len(q) - 1) : Tail(q)[i] = q[i + 1]
                          /\ \A x \in Range(Tail(q)) : \E j \in 1..Len(q) : 1 < j /\ x = q[j]
  <1>1. /\ Len(q) \in Nat /\ Len(Append(q, m)) = Len(q) + 1
        /\ Append(q, m)[Len(q) + 1] = m
        /\ \A i \in 1..Len(q) : Append(q, m)[i] = q[i] /\ q[i] \in Range(q)
    BY DEF Range
  <1>2. ASSUME q # <<>>
        PROVE  /\ Head(q) = q[1] /\ 1 \in 1..Len(q) /\ Len(Tail(q)) = Len(q) - 1
               /\ \A i \in 1..(Len(q) - 1) : Tail(q)[i] = q[i + 1]
               /\ \A x \in Range(Tail(q)) : \E j \in 1..Len(q) : 1 < j /\ x = q[j]
    <2>1. /\ Head(q) = q[1] /\ 1 \in 1..Len(q) /\ Len(Tail(q)) = Len(q) - 1
          /\ Tail(q) \in Seq(S)
          /\ \A i \in 1..(Len(q) - 1) : Tail(q)[i] = q[i + 1]
      BY <1>2
    <2>2. ASSUME NEW x \in Range(Tail(q))
          PROVE  \E j \in 1..Len(q) : 1 < j /\ x = q[j]
      <3>1. PICK i \in 1..(Len(q) - 1) : x = Tail(q)[i]
        BY <2>1, <2>2 DEF Range
      <3>2. i + 1 \in 1..Len(q) /\ 1 < i + 1 /\ x = q[i + 1]
        BY <1>1, <2>1, <3>1
      <3> QED
        BY <3>2
    <2> QED
      BY <2>1, <2>2
  <1> QED
    BY <1>1, <1>2

\* The order of two messages, once the first was passed on, is settled.
LEMMA BeforeKept ==
    ASSUME DeliveryInv, [Next]_vars, NEW a, NEW b, NEW n, PassedTo(a, n), Before(a, b)
    PROVE  Before(a, b)'
  <1>1. Origin[a] \in Source /\ pc[Origin[a]] # "idle"
    BY DEF PassedTo
  <1>2. prior'[Origin[a]] = prior[Origin[a]]
    BY <1>1, SourcesStep
  <1> QED
    BY <1>2 DEF Before

\* The message that a source publishes, or sends on its node, comes after all
\* that were passed on there.
LEMMA NewIsLast ==
    ASSUME DeliveryInv, NEW p \in Source, NEW n, NEW a, NEW m, PassedTo(a, n), m = MessageOf(p),
           pc[p] = "publish" \/ (pc[p] = "local" /\ At[p] = n)
    PROVE  Before(a, m)
  <1>1. pc[p] \in Busy /\ pc[p] \notin Answered
    BY DEF Busy, Answered
  <1>2. Origin[m] = p /\ Position[m] = next[p]
    BY <1>1, MessageOfLemma DEF DeliveryInv
  <1>3. Origin[a] \in Source /\ (Origin[a] = p => Position[a] < next[p])
    BY DEF PassedTo
  <1>4. p \notin prior[Origin[a]]
    BY <1>1, <1>3 DEF DeliveryInv, PriorIsAnswered
  <1> QED
    BY <1>2, <1>3, <1>4 DEF Before

\* Redis gives a node the messages in an order that is right,
LEMMA InboxOrderStep ==
    ASSUME DeliveryInv, InboxInOrder, [Next]_vars
    PROVE  InboxInOrder'
  <1>0. \A n \in Node : inbox[n] \in Seq(Message)
    BY DEF DeliveryInv, TypeOK
  <1>1. ASSUME NEW n \in Node, NEW i \in 1..Len(inbox[n]), NEW j \in 1..Len(inbox[n]), i < j
        PROVE  Before(inbox[n][i], inbox[n][j]) /\ PassedTo(inbox[n][i], n)
    <2>1. inbox[n][i] \in Range(inbox[n])
      BY <1>0 DEF Range
    <2> QED
      BY <1>1, <2>1 DEF InboxInOrder, DeliveryInv, InboxIsForeign
  <1>2. ASSUME NEW n \in Node, inbox'[n] = inbox[n],
               NEW i \in 1..Len(inbox'[n]), NEW j \in 1..Len(inbox'[n]), i < j
        PROVE  Before(inbox[n][i], inbox[n][j])'
    <2>1. PICK a, b : a = inbox[n][i] /\ b = inbox[n][j]
      OBVIOUS
    <2>2. Before(a, b)'
      BY <1>1, <1>2, <2>1, BeforeKept
    <2> QED
      BY <1>2, <2>1, <2>2 DEF Before
  <1>3. ASSUME NEW p \in Source, Publish(p) PROVE InboxInOrder'
    <2> SUFFICES ASSUME NEW n \in Node, NEW i \in 1..Len(inbox'[n]),
                        NEW j \in 1..Len(inbox'[n]), i < j
                 PROVE  Before(inbox[n][i], inbox[n][j])'
      BY DEF InboxInOrder
    <2>1. CASE inbox'[n] = inbox[n]
      BY <1>2, <2>1
    <2>2. CASE inbox'[n] = Append(inbox[n], MessageOf(p))
      <3>1. PICK m \in Message : m = MessageOf(p)
        BY <1>3, PublishLemma
      <3>2. /\ Len(inbox[n]) \in Nat /\ Len(inbox'[n]) = Len(inbox[n]) + 1
            /\ \A h \in 1..Len(inbox[n]) : inbox'[n][h] = inbox[n][h] /\ inbox[n][h] \in Range(inbox[n])
            /\ inbox'[n][Len(inbox[n]) + 1] = m
        BY <1>0, <2>2, <3>1, IndexLemma
      <3>3. i \in 1..Len(inbox[n])
        BY <3>2
      <3>4. PICK a, b : a = inbox'[n][i] /\ b = inbox'[n][j]
        OBVIOUS
      <3>5. a = inbox[n][i] /\ PassedTo(a, n)
        BY <3>2, <3>3, <3>4 DEF DeliveryInv, InboxIsForeign
      <3>6. Before(a, b)
        <4>1. CASE j \in 1..Len(inbox[n])
          BY <1>1, <3>2, <3>3, <3>4, <4>1
        <4>2. CASE j \notin 1..Len(inbox[n])
          <5>1. b = m /\ pc[p] = "publish"
            BY <1>3, <3>2, <3>4, <4>2 DEF Publish
          <5> QED
            BY <3>1, <3>5, <5>1, NewIsLast
        <4> QED
          BY <4>1, <4>2
      <3>7. Before(a, b)'
        BY <3>5, <3>6, BeforeKept
      <3> QED
        BY <3>4, <3>7 DEF Before
    <2> QED
      BY <1>3, <2>1, <2>2, PublishLemma
  <1>4. ASSUME NEW k \in Node, OnMessage(k) PROVE InboxInOrder'
    <2> SUFFICES ASSUME NEW n \in Node, NEW i \in 1..Len(inbox'[n]),
                        NEW j \in 1..Len(inbox'[n]), i < j
                 PROVE  Before(inbox[n][i], inbox[n][j])'
      BY DEF InboxInOrder
    <2>1. CASE n # k
      BY <1>2, <1>4, <2>1, OnMessageLemma
    <2>2. CASE n = k
      <3>1. inbox'[n] = Tail(inbox[n]) /\ inbox[n] # <<>> /\ Head(inbox[n]) \in Message
        BY <1>4, <2>2, OnMessageLemma
      <3>2. /\ Len(inbox'[n]) = Len(inbox[n]) - 1 /\ Len(inbox[n]) \in Nat
            /\ \A h \in 1..(Len(inbox[n]) - 1) : inbox'[n][h] = inbox[n][h + 1]
        BY <1>0, <3>1, IndexLemma
      <3>3. /\ i + 1 \in 1..Len(inbox[n]) /\ j + 1 \in 1..Len(inbox[n]) /\ i + 1 < j + 1
            /\ i \in 1..(Len(inbox[n]) - 1) /\ j \in 1..(Len(inbox[n]) - 1)
        BY <3>2
      <3>4. PICK a, b : a = inbox'[n][i] /\ b = inbox'[n][j]
        OBVIOUS
      <3>5. a = inbox[n][i + 1] /\ b = inbox[n][j + 1]
        BY <3>2, <3>3, <3>4
      <3>6. Before(a, b)'
        BY <1>1, <3>3, <3>5, BeforeKept
      <3> QED
        BY <3>4, <3>6 DEF Before
    <2> QED
      BY <2>1, <2>2
  <1>5. ASSUME NEW k \in Node, PsubscribeEnds(k) PROVE InboxInOrder'
    <2> SUFFICES ASSUME NEW n \in Node, NEW i \in 1..Len(inbox'[n]),
                        NEW j \in 1..Len(inbox'[n]), i < j
                 PROVE  Before(inbox[n][i], inbox[n][j])'
      BY DEF InboxInOrder
    <2>1. inbox'[n] = IF n = k THEN <<>> ELSE inbox[n]
      BY <1>5 DEF PsubscribeEnds, DeliveryInv, TypeOK
    <2>2. n # k
      BY <2>1
    <2> QED
      BY <1>2, <2>1, <2>2
  <1>6. ASSUME UNCHANGED inbox PROVE InboxInOrder'
    BY <1>2, <1>6 DEF InboxInOrder
  <1> QED
    BY <1>3, <1>4, <1>5, <1>6
    DEF Next, SourceStep, Trigger, ClientEvent, SendOnOwnNode, Store, Expire, Cleanup, Join,
        SendCacheIfNeeded, vars

\* what it still holds comes after what the sockets have,
LEMMA GotBeforeInboxStep ==
    ASSUME DeliveryInv, InboxInOrder, GotBeforeInbox, [Next]_vars
    PROVE  GotBeforeInbox'
  <1>0. /\ TypeOK /\ \A s \in Socket : At[s] \in Node
    BY EventsAssumption DEF DeliveryInv, Source
  <1>1. ASSUME NEW s \in Socket, NEW k \in Node, NEW a \in Range(got[s][k]),
               NEW b \in Range(inbox[At[s]]), At[Origin[b]] = k
        PROVE  Before(a, b)'
    <2>1. Before(a, b) /\ PassedTo(a, At[s])
      BY <1>1 DEF GotBeforeInbox, DeliveryInv, GotIsFiled
    <2> QED
      BY <2>1, BeforeKept
  <1>2. ASSUME UNCHANGED got, \A n \in Node : Range(inbox'[n]) \subseteq Range(inbox[n])
        PROVE  GotBeforeInbox'
    <2> SUFFICES ASSUME NEW s \in Socket, NEW k \in Node, NEW a \in Range(got'[s][k]),
                        NEW b \in Range(inbox'[At[s]]), At[Origin[b]] = k
                 PROVE  Before(a, b)'
      BY DEF GotBeforeInbox
    <2>1. a \in Range(got[s][k]) /\ b \in Range(inbox[At[s]])
      BY <1>0, <1>2
    <2> QED
      BY <1>1, <2>1
  <1>3. ASSUME NEW p \in Source, Publish(p) PROVE GotBeforeInbox'
    <2> SUFFICES ASSUME NEW s \in Socket, NEW k \in Node, NEW a \in Range(got'[s][k]),
                        NEW b \in Range(inbox'[At[s]]), At[Origin[b]] = k
                 PROVE  Before(a, b)'
      BY DEF GotBeforeInbox
    <2>1. a \in Range(got[s][k]) /\ pc[p] = "publish"
      BY <1>3 DEF Publish, sockets
    <2>2. PassedTo(a, At[s])
      BY <2>1 DEF DeliveryInv, GotIsFiled
    <2>3. CASE b \in Range(inbox[At[s]])
      BY <1>1, <2>1, <2>3
    <2>4. CASE b = MessageOf(p)
      BY <2>1, <2>2, <2>4, NewIsLast, BeforeKept
    <2>5. \A n \in Node : Range(inbox'[n]) \subseteq Range(inbox[n]) \cup {MessageOf(p)}
      BY <1>3, PublishLemma
    <2> QED
      BY <1>0, <2>3, <2>4, <2>5
  <1>4. ASSUME NEW n \in Node, NEW m \in Message, NEW e, Origin[m] \in Source, SendLocally(n, m, e),
               \A h \in Node : Range(inbox'[h]) \subseteq Range(inbox[h]),
               \A b \in Range(inbox'[n]) : At[Origin[b]] = At[Origin[m]] => Before(m, b)'
        PROVE  GotBeforeInbox'
    <2> SUFFICES ASSUME NEW s \in Socket, NEW k \in Node, NEW a \in Range(got'[s][k]),
                        NEW b \in Range(inbox'[At[s]]), At[Origin[b]] = k
                 PROVE  Before(a, b)'
      BY DEF GotBeforeInbox
    <2>1. b \in Range(inbox[At[s]])
      BY <1>0, <1>4
    <2>2. CASE a \in Range(got[s][k])
      BY <1>1, <2>1, <2>2
    <2>3. CASE a \notin Range(got[s][k])
      <3>1. Range(got'[s][k]) = IF s \in Recipients(n, e) /\ k = At[Origin[m]]
                                THEN Range(got[s][k]) \cup {m} ELSE Range(got[s][k])
        BY <1>0, <1>4, WrittenLemma
      <3>2. a = m /\ s \in Recipients(n, e) /\ k = At[Origin[m]]
        BY <2>3, <3>1
      <3>3. At[s] = n
        BY <3>2 DEF Recipients
      <3> QED
        BY <1>4, <3>2, <3>3
    <2> QED
      BY <2>2, <2>3
  <1>5. ASSUME NEW p \in Source, SendOnOwnNode(p) PROVE GotBeforeInbox'
    <2>1. PICK m \in Message : m = MessageOf(p)
      BY <1>5, SendOnOwnNodeLemma
    <2>2. /\ Origin[m] = p /\ At[p] \in Node /\ SendLocally(At[p], m, Except[m])
          /\ inbox' = inbox
      BY <1>5, <2>1, SendOnOwnNodeLemma
    <2>3. \A b \in Range(inbox[At[p]]) : At[Origin[b]] # At[p]
      BY <2>2 DEF DeliveryInv, InboxIsForeign
    <2> QED
      BY <1>4, <2>2, <2>3
  <1>6. ASSUME NEW n \in Node, OnMessage(n) PROVE GotBeforeInbox'
    <2>1. PICK m \in Message : m = Head(inbox[n])
      BY <1>6, OnMessageLemma
    <2>2. /\ inbox[n] \in Seq(Message) /\ inbox[n] # <<>> /\ m \in Range(inbox[n])
          /\ Origin[m] \in Source /\ SendLocally(n, m, Nobody)
          /\ inbox'[n] = Tail(inbox[n])
          /\ \A h \in Node : Range(inbox'[h]) \subseteq Range(inbox[h])
      BY <1>6, <2>1, OnMessageLemma
    <2>3. PassedTo(m, n)
      BY <2>2 DEF DeliveryInv, InboxIsForeign
    <2>4. ASSUME NEW b \in Range(inbox'[n]) PROVE Before(m, b)'
      <3>1. /\ m = inbox[n][1] /\ 1 \in 1..Len(inbox[n])
            /\ \E j \in 1..Len(inbox[n]) : 1 < j /\ b = inbox[n][j]
        BY <2>1, <2>2, <2>4, IndexLemma
      <3>2. Before(m, b)
        BY <3>1 DEF InboxInOrder
      <3> QED
        BY <2>3, <3>2, BeforeKept
    <2> QED
      BY <1>4, <2>2, <2>4
  <1>7. ASSUME NEW n \in Node, PsubscribeEnds(n) PROVE GotBeforeInbox'
    <2>1. \A k \in Node : inbox'[k] = IF k = n THEN <<>> ELSE inbox[k]
      BY <1>7 DEF PsubscribeEnds, DeliveryInv, TypeOK
    <2>2. Range(<<>>) = {} /\ got' = got
      BY <1>7 DEF Range, PsubscribeEnds, sockets
    <2> QED
      BY <1>2, <2>1, <2>2
  <1>8. ASSUME UNCHANGED <<inbox, got>> PROVE GotBeforeInbox'
    BY <1>2, <1>8
  <1> QED
    BY <1>3, <1>5, <1>6, <1>7, <1>8
    DEF Next, SourceStep, Trigger, ClientEvent, Store, Expire, Cleanup, Join, SendCacheIfNeeded,
        sockets, vars

\* and what is written comes after what was.
LEMMA SameNodeStep ==
    ASSUME DeliveryInv, GotBeforeInbox, SameNodeInOrder, [Next]_vars
    PROVE  SameNodeInOrder'
  <1>0. TypeOK /\ \A s \in Socket, n \in Node : got[s][n] \in Seq(Message)
    BY DEF DeliveryInv, TypeOK
  <1>1. ASSUME NEW s \in Socket, NEW k \in Node, NEW i \in 1..Len(got[s][k]),
               NEW j \in 1..Len(got[s][k]), i < j
        PROVE  Before(got[s][k][i], got[s][k][j])
    BY <1>1 DEF SameNodeInOrder, Before
  <1>2. ASSUME \A s \in Socket, k \in Node : \A i, j \in 1..Len(got'[s][k]) :
                    i < j => Before(got[s][k][i], got[s][k][j])'
        PROVE  SameNodeInOrder'
    BY <1>2 DEF SameNodeInOrder, Before
  <1>3. ASSUME NEW s \in Socket, NEW k \in Node, got'[s][k] = got[s][k],
               NEW i \in 1..Len(got'[s][k]), NEW j \in 1..Len(got'[s][k]), i < j
        PROVE  Before(got[s][k][i], got[s][k][j])'
    <2>1. PICK a, b : a = got[s][k][i] /\ b = got[s][k][j]
      OBVIOUS
    <2>2. a \in Range(got[s][k])
      BY <1>0, <1>3, <2>1 DEF Range
    <2>3. PassedTo(a, At[s])
      BY <2>2 DEF DeliveryInv, GotIsFiled
    <2>4. Before(a, b)'
      BY <1>1, <1>3, <2>1, <2>3, BeforeKept
    <2> QED
      BY <1>3, <2>1, <2>4 DEF Before
  <1>4. ASSUME NEW n \in Node, NEW m \in Message, NEW e, Origin[m] \in Source, SendLocally(n, m, e),
               \A s \in Socket : \A a \in Range(got[s][At[Origin[m]]]) :
                    At[s] = n => Before(a, m)
        PROVE  SameNodeInOrder'
    <2> SUFFICES ASSUME NEW s \in Socket, NEW k \in Node, NEW i \in 1..Len(got'[s][k]),
                        NEW j \in 1..Len(got'[s][k]), i < j
                 PROVE  Before(got[s][k][i], got[s][k][j])'
      BY <1>2
    <2>1. got'[s][k] = IF s \in Recipients(n, e) /\ k = At[Origin[m]]
                       THEN Append(got[s][k], m) ELSE got[s][k]
      BY <1>0, <1>4, SendLocallyLemma
    <2>2. CASE got'[s][k] = got[s][k]
      BY <1>3, <2>2
    <2>3. CASE s \in Recipients(n, e) /\ k = At[Origin[m]]
      <3>1. got'[s][k] = Append(got[s][k], m) /\ At[s] = n
        BY <2>1, <2>3 DEF Recipients
      <3>2. /\ Len(got[s][k]) \in Nat /\ Len(got'[s][k]) = Len(got[s][k]) + 1
            /\ \A h \in 1..Len(got[s][k]) :
                    got'[s][k][h] = got[s][k][h] /\ got[s][k][h] \in Range(got[s][k])
            /\ got'[s][k][Len(got[s][k]) + 1] = m
        BY <1>0, <3>1, IndexLemma
      <3>3. i \in 1..Len(got[s][k])
        BY <3>2
      <3>4. PICK a, b : a = got'[s][k][i] /\ b = got'[s][k][j]
        OBVIOUS
      <3>5. a = got[s][k][i] /\ a \in Range(got[s][k])
        BY <3>2, <3>3, <3>4
      <3>6. PassedTo(a, At[s])
        BY <3>5 DEF DeliveryInv, GotIsFiled
      <3>7. Before(a, b)
        <4>1. CASE j \in 1..Len(got[s][k])
          BY <1>1, <3>2, <3>3, <3>4, <4>1
        <4>2. CASE j \notin 1..Len(got[s][k])
          <5>1. b = m
            BY <3>2, <3>4, <4>2
          <5> QED
            BY <1>4, <2>3, <3>1, <3>5, <5>1
        <4> QED
          BY <4>1, <4>2
      <3>8. Before(a, b)'
        BY <3>6, <3>7, BeforeKept
      <3> QED
        BY <3>4, <3>8 DEF Before
    <2> QED
      BY <2>1, <2>2, <2>3
  <1>5. ASSUME NEW p \in Source, SendOnOwnNode(p) PROVE SameNodeInOrder'
    <2>1. PICK m \in Message : m = MessageOf(p)
      BY <1>5, SendOnOwnNodeLemma
    <2>2. /\ Origin[m] = p /\ At[p] \in Node /\ SendLocally(At[p], m, Except[m])
          /\ pc[p] = "local"
      BY <1>5, <2>1, SendOnOwnNodeLemma
    <2>3. ASSUME NEW s \in Socket, NEW a \in Range(got[s][At[p]]), At[s] = At[p]
          PROVE  Before(a, m)
      <3>1. PassedTo(a, At[p])
        BY <2>2, <2>3 DEF DeliveryInv, GotIsFiled
      <3> QED
        BY <2>1, <2>2, <3>1, NewIsLast
    <2> QED
      BY <1>4, <2>2, <2>3
  <1>6. ASSUME NEW n \in Node, OnMessage(n) PROVE SameNodeInOrder'
    <2>1. PICK m \in Message : m = Head(inbox[n])
      BY <1>6, OnMessageLemma
    <2>2. m \in Range(inbox[n]) /\ Origin[m] \in Source /\ SendLocally(n, m, Nobody)
      BY <1>6, <2>1, OnMessageLemma
    <2>3. At[Origin[m]] \in Node
      BY <2>2, EventsAssumption
    <2>4. ASSUME NEW s \in Socket, NEW a \in Range(got[s][At[Origin[m]]]), At[s] = n
          PROVE  Before(a, m)
      BY <2>2, <2>3, <2>4 DEF GotBeforeInbox
    <2> QED
      BY <1>4, <2>2, <2>4
  <1>7. ASSUME UNCHANGED got PROVE SameNodeInOrder'
    BY <1>2, <1>3, <1>7
  <1> QED
    BY <1>5, <1>6, <1>7
    DEF Next, SourceStep, Trigger, ClientEvent, Publish, Store, PsubscribeEnds, Expire, Cleanup,
        Join, SendCacheIfNeeded, sockets, vars

\* A subscriber gets the events of one node at most once and in the order of
\* the batch and of the answers, whether its node writes them itself or hears
\* them from Redis (adaptersRedis.go:108, adaptersHorizontal.go:148-163).
THEOREM SameNodeInOrderHolds == Spec => []SameNodeInOrder
  <1>1. Init => InboxInOrder /\ GotBeforeInbox /\ SameNodeInOrder
    <2> SUFFICES ASSUME Init PROVE InboxInOrder /\ GotBeforeInbox /\ SameNodeInOrder
      OBVIOUS
    <2>1. /\ \A n \in Node : Len(inbox[n]) = 0
          /\ \A s \in Socket, n \in Node : Len(got[s][n]) = 0 /\ Range(got[s][n]) = {}
      BY DEF Init, Range
    <2> QED
      BY <2>1 DEF InboxInOrder, GotBeforeInbox, SameNodeInOrder
  <1>2. OrderInv /\ [Next]_vars /\ DeliveryInv' => OrderInv'
    BY InboxOrderStep, GotBeforeInboxStep, SameNodeStep DEF OrderInv
  <1> QED
    BY <1>1, <1>2, InitDelivery, DeliveryInvHolds, PTL DEF Spec, OrderInv

-----------------------------------------------------------------------------
(* What the cache holds.                                                   *)

\* What a store changes, where it reaches.
LEMMA StoreLemma ==
    ASSUME DeliveryInv, NEW p \in Source, Store(p)
    PROVE  /\ MessageOf(p) \in Message /\ Origin[MessageOf(p)] = p
           /\ pc[p] = "store" /\ pc[p] \in Busy /\ pc[p] \notin Answered
           /\ \/ /\ \A n \in Node : cache'[n] = IF n \in Reach(At[p]) THEN MessageOf(p) ELSE cache[n]
                 /\ expired' = expired \ Reach(At[p]) /\ unstored' = unstored
              \/ /\ UNCHANGED <<cache, expired>>
                 /\ unstored' = unstored \cup {MessageOf(p)}
           /\ next'[p] = next[p] + 1 /\ next[p] \in Nat
           /\ pc'[p] \in {"publish"} \cup Answered
           /\ \A q \in Source : q # p => pc'[q] = pc[q] /\ next'[q] = next[q]
  <1>1. pc[p] = "store" /\ pc[p] \in Busy /\ pc[p] \notin Answered
    BY DEF Store, Busy, Answered
  <1>2. MessageOf(p) \in Message /\ Origin[MessageOf(p)] = p
    BY <1>1, MessageOfLemma DEF DeliveryInv
  <1>3. \/ /\ \A n \in Node : cache'[n] = IF n \in Reach(At[p]) THEN MessageOf(p) ELSE cache[n]
           /\ expired' = expired \ Reach(At[p]) /\ unstored' = unstored
        \/ /\ UNCHANGED <<cache, expired>>
           /\ unstored' = unstored \cup {MessageOf(p)}
    <2>1. \/ /\ cache' = [n \in Node |-> IF n \in Reach(At[p]) THEN MessageOf(p) ELSE cache[n]]
             /\ expired' = expired \ Reach(At[p]) /\ unstored' = unstored
          \/ /\ UNCHANGED <<cache, expired>>
             /\ unstored' = unstored \cup {MessageOf(p)}
      BY DEF Store
    <2> QED
      BY <2>1
  <1>4. TypeOK /\ Cursor /\ next[p] + 1 \in Nat \ {0} /\ Take(p, next[p] + 1)
    BY DEF DeliveryInv, TypeOK, Store
  <1>5. /\ pc'[p] \in {"publish"} \cup Answered
        /\ \A q \in Source : q # p => pc'[q] = pc[q] /\ next'[q] = next[q]
    BY <1>4, TakeLemma
  <1>6. next'[p] = next[p] + 1 /\ next[p] \in Nat
    BY <1>4 DEF TypeOK, Take
  <1> QED
    BY <1>1, <1>2, <1>3, <1>5, <1>6

\* No step puts or leaves a superseded event in a cache.
LEMMA LatestStep ==
    ASSUME DeliveryInv, CacheIsLatest, [Next]_vars
    PROVE  CacheIsLatest'
  <1>0. /\ TypeOK /\ Request \subseteq Source /\ \A q \in Request : At[q] \in Node
        /\ \A q \in Request : Reach(At[q]) \subseteq Node
    BY EventsAssumption DEF DeliveryInv, Source, Reach
  <1>1. ASSUME UNCHANGED driver,
               \A n \in Node : cache'[n] \in {cache[n], NoEvent},
               \A q \in Request : HasStored(q)' => HasStored(q) /\ prior'[q] = prior[q]
        PROVE  CacheIsLatest'
    BY <1>0, <1>1 DEF CacheIsLatest, Reach
  <1>a. ASSUME NEW q \in Request, next'[q] = next[q], unstored \subseteq unstored'
        PROVE  HasStored(q)' => HasStored(q)
    BY <1>a DEF HasStored
  <1>2. ASSUME NEW p \in Source, Trigger(p) PROVE CacheIsLatest'
    <2>1. next' = [next EXCEPT ![p] = 1] /\ UNCHANGED <<driver, cache, unstored>>
      BY <1>2 DEF Trigger, Take, caches
    <2>2. \A q \in Request : q # p => prior'[q] = prior[q]
      BY <1>0, <1>2 DEF Trigger, TypeOK
    <2>3. \A q \in Request : next'[q] = IF q = p THEN 1 ELSE next[q]
      BY <1>0, <2>1 DEF TypeOK
    <2>4. \A q \in Request : HasStored(q)' => q # p
      BY <2>3 DEF HasStored
    <2>5. \A q \in Request : HasStored(q)' => HasStored(q) /\ prior'[q] = prior[q]
      BY <1>a, <2>1, <2>2, <2>3, <2>4
    <2> QED
      BY <1>1, <2>1, <2>5
  <1>3. ASSUME NEW p \in Source, ClientEvent(p) PROVE CacheIsLatest'
    <2>1. p \notin Request /\ UNCHANGED <<driver, cache, next, unstored>>
      BY <1>3, EventsAssumption DEF ClientEvent, caches
    <2>2. \A q \in Request : prior'[q] = prior[q]
      BY <1>0, <1>3, <2>1 DEF ClientEvent, TypeOK
    <2> QED
      BY <1>1, <1>a, <2>1, <2>2
  <1>4. ASSUME NEW p \in Source, SendOnOwnNode(p) PROVE CacheIsLatest'
    <2>1. UNCHANGED <<driver, cache, prior, unstored>>
      BY <1>4 DEF SendOnOwnNode, caches
    <2>2. \A q \in Request : next'[q] = next[q]
      BY <1>0, <1>4, EventsAssumption DEF SendOnOwnNode, Take, TypeOK
    <2> QED
      BY <1>1, <1>a, <2>1, <2>2
  <1>5. ASSUME NEW p \in Source, Store(p) PROVE CacheIsLatest'
    <2> SUFFICES ASSUME NEW q \in Request, NEW n \in Reach(At[q]), HasStored(q)', cache'[n] # NoEvent
                 PROVE  Origin[cache'[n]] \notin prior[q]
      BY <1>5 DEF CacheIsLatest, Store, Reach, past
    <2>1. n \in Node /\ q \in Source
      BY <1>0
    <2>2. CASE unstored' = unstored /\ n \in Reach(At[p]) /\ cache'[n] = MessageOf(p)
      <3>1. Origin[cache'[n]] = p /\ pc[p] \notin Answered
        BY <1>5, <2>2, StoreLemma
      <3> QED
        BY <2>1, <3>1 DEF DeliveryInv, PriorIsAnswered
    <2>3. CASE unstored' = unstored /\ n \notin Reach(At[p]) /\ cache'[n] = cache[n]
      <3>1. q # p
        BY <2>3
      <3>2. next'[q] = next[q]
        BY <1>5, <2>1, <3>1, StoreLemma
      <3>3. HasStored(q)
        BY <1>a, <2>3, <3>2
      <3> QED
        BY <2>3, <3>3 DEF CacheIsLatest
    <2>4. CASE cache' = cache /\ unstored' = unstored \cup {MessageOf(p)}
      <3>1. CASE q # p
        <4>1. next'[q] = next[q]
          BY <1>5, <2>1, <3>1, StoreLemma
        <4>2. HasStored(q)
          BY <1>a, <2>4, <4>1
        <4> QED
          BY <2>4, <4>2 DEF CacheIsLatest
      <3>2. CASE q = p
        <4>1. next'[q] = next[q] + 1 /\ next[q] \in Nat
          BY <1>5, <3>2, StoreLemma
        <4>2. PICK i \in 1..next[q] : Batch[q][i] \notin unstored'
          BY <4>1 DEF HasStored
        <4>3. Batch[q][i] \notin unstored /\ i # next[q]
          BY <2>4, <3>2, <4>2 DEF MessageOf
        <4>4. HasStored(q)
          BY <4>1, <4>2, <4>3 DEF HasStored
        <4> QED
          BY <2>4, <4>4 DEF CacheIsLatest
      <3> QED
        BY <3>1, <3>2
    <2> QED
      BY <1>5, <2>1, <2>2, <2>3, <2>4, StoreLemma
  <1>6. ASSUME NEW n \in Node, Expire(n) \/ Cleanup(n) PROVE CacheIsLatest'
    <2>1. UNCHANGED <<driver, next, prior, unstored>>
      BY <1>6 DEF Expire, Cleanup, past
    <2>2. \A k \in Node : cache'[k] \in {cache[k], NoEvent}
      BY <1>0, <1>6 DEF Expire, Cleanup, TypeOK
    <2> QED
      BY <1>1, <1>a, <2>1, <2>2
  <1>7. ASSUME UNCHANGED <<driver, cache, next, prior, unstored>> PROVE CacheIsLatest'
    BY <1>1, <1>a, <1>7
  <1> QED
    BY <1>2, <1>3, <1>4, <1>5, <1>6, <1>7
    DEF Next, SourceStep, Publish, OnMessage, PsubscribeEnds, Join, SendCacheIfNeeded, caches, past,
        vars

\* Whatever requests overlap and whatever SETs fail, no cache that a request
\* has stored an event in holds an event of a request that was answered before
\* it came (apiEvents.go:78, redisCache.go:44).
THEOREM CacheIsLatestHolds == Spec => []CacheIsLatest
  <1>1. Init => CacheIsLatest
    <2> SUFFICES ASSUME Init PROVE CacheIsLatest
      OBVIOUS
    <2>1. \A q \in Request : next[q] = 1
      BY DEF Init, Source
    <2> QED
      BY <2>1 DEF CacheIsLatest, HasStored
  <1> QED
    BY <1>1, DeliveryInvHolds, LatestStep, PTL DEF Spec

\* Only requests store.
LEMMA StoredStep ==
    ASSUME DeliveryInv, StoredByRequest, [Next]_vars
    PROVE  StoredByRequest'
  <1>0. TypeOK /\ Cursor
    BY DEF DeliveryInv
  <1>1. ASSUME \A n \in Node : cache'[n] \in {cache[n], NoEvent},
               \A p \in Source : pc'[p] = "store" => pc[p] = "store" \/ p \in Request
        PROVE  StoredByRequest'
    BY <1>1 DEF StoredByRequest
  <1>2. ASSUME NEW p \in Source, Trigger(p) PROVE StoredByRequest'
    <2>1. cache' = cache /\ Take(p, 1) /\ 1 \in Nat \ {0}
      BY <1>2 DEF Trigger, caches
    <2>2. pc'[p] # "store" /\ \A q \in Source : q # p => pc'[q] = pc[q]
      BY <1>0, <2>1, TakeLemma DEF Answered
    <2> QED
      BY <1>1, <2>1, <2>2
  <1>3. ASSUME NEW p \in Source, ClientEvent(p) \/ Publish(p) PROVE StoredByRequest'
    <2>1. cache' = cache /\ \A q \in Source : pc'[q] = "store" => pc[q] = "store"
      BY <1>0, <1>3 DEF ClientEvent, Publish, caches, TypeOK
    <2> QED
      BY <1>1, <2>1
  <1>4. ASSUME NEW p \in Source, SendOnOwnNode(p) PROVE StoredByRequest'
    <2>1. cache' = cache
      BY <1>4 DEF SendOnOwnNode, caches
    <2>2. CASE p \in Request
      <3>1. pc' = [pc EXCEPT ![p] = "store"]
        BY <1>4, <2>2, EventsAssumption DEF SendOnOwnNode
      <3>2. \A q \in Source : pc'[q] = "store" => pc[q] = "store" \/ q \in Request
        BY <1>0, <2>2, <3>1 DEF TypeOK
      <3> QED
        BY <1>1, <2>1, <3>2
    <2>3. CASE p \notin Request
      <3>1. Take(p, next[p] + 1) /\ next[p] + 1 \in Nat \ {0}
        BY <1>0, <1>4, <2>3 DEF SendOnOwnNode, TypeOK
      <3>2. pc'[p] # "store" /\ \A q \in Source : q # p => pc'[q] = pc[q]
        BY <1>0, <3>1, TakeLemma DEF Answered
      <3> QED
        BY <1>1, <2>1, <3>2
    <2> QED
      BY <2>2, <2>3
  <1>5. ASSUME NEW p \in Source, Store(p) PROVE StoredByRequest'
    <2>1. \A q \in Source : pc'[q] = "store" => pc[q] = "store"
      BY <1>5, StoreLemma DEF Answered
    <2>2. p \in Request /\ Origin[MessageOf(p)] = p
      BY <1>5, StoreLemma DEF StoredByRequest
    <2>3. \A n \in Node : cache'[n] # NoEvent => Origin[cache'[n]] \in Request
      BY <1>5, <2>2, StoreLemma DEF StoredByRequest
    <2> QED
      BY <2>1, <2>3 DEF StoredByRequest
  <1>6. ASSUME NEW n \in Node, Expire(n) \/ Cleanup(n) PROVE StoredByRequest'
    <2>1. pc' = pc /\ \A k \in Node : cache'[k] \in {cache[k], NoEvent}
      BY <1>0, <1>6 DEF Expire, Cleanup, TypeOK
    <2> QED
      BY <1>1, <2>1
  <1>7. ASSUME UNCHANGED <<cache, pc>> PROVE StoredByRequest'
    BY <1>1, <1>7
  <1> QED
    BY <1>2, <1>3, <1>4, <1>5, <1>6, <1>7
    DEF Next, SourceStep, OnMessage, PsubscribeEnds, Join, SendCacheIfNeeded, caches, vars

-----------------------------------------------------------------------------
(* No event that is in the cache is missed.                                *)

\* The event that has to do with a socket comes from a request, and its node
\* is known.
LEMMA ConcernLemma ==
    ASSUME DeliveryInv, StoredByRequest, NEW s \in Socket, NEW m \in Message,
           UnderWay(m) \/ m = CacheGet(At[s])
    PROVE  Origin[m] \in Request /\ Origin[m] \in Source /\ At[Origin[m]] \in Node /\ At[s] \in Node
  <1>1. At[s] \in Node /\ m # NoEvent
    BY EventsAssumption DEF Source, NoEvent
  <1>2. Origin[m] \in Request
    BY <1>1 DEF UnderWay, CacheGet, StoredByRequest
  <1> QED
    BY <1>1, <1>2, EventsAssumption DEF Source

\* Where no socket is written to and none asks, it is enough that what is
\* outstanding stays so.
LEMMA QuietStep ==
    ASSUME DeliveryInv, NoneMissed, UNCHANGED <<sub, cached, got, passing, missed>>, deaf = {},
           NEW s \in Socket, NEW m \in Message, UnderWay(m) \/ m = CacheGet(At[s]),
           lost \subseteq lost', Range(inbox[At[s]]) \subseteq Range(inbox'[At[s]]),
           pc[Origin[m]] = "local" => pc'[Origin[m]] = "local" /\ next'[Origin[m]] = next[Origin[m]]
    PROVE  Settled(s, m)' \/ Outstanding(s, m)'
  <1>1. Settled(s, m) \/ Outstanding(s, m)
    BY DEF NoneMissed
  <1>2. Settled(s, m) => Settled(s, m)'
    BY DEF Settled, Received, Written, Excluded
  <1>3. Outstanding(s, m) => Outstanding(s, m)'
    BY DEF Outstanding, MessageOf
  <1> QED
    BY <1>1, <1>2, <1>3

\* A write takes nothing back.
LEMMA WriteKeeps ==
    ASSUME TypeOK, NEW n \in Node, NEW x \in Message, NEW e, Origin[x] \in Source,
           SendLocally(n, x, e), UNCHANGED <<sub, cached, lost, passing, missed>>,
           NEW s \in Socket, NEW m \in Message, At[Origin[m]] \in Node
    PROVE  /\ Settled(s, m) => Settled(s, m)'
           /\ m = x /\ At[s] = n /\ s # e => Settled(s, m)'
  <1>1. PICK k \in Node : k = At[Origin[m]]
    OBVIOUS
  <1>2. Range(got'[s][k]) = IF s \in Recipients(n, e) /\ k = At[Origin[x]]
                            THEN Range(got[s][k]) \cup {x} ELSE Range(got[s][k])
    BY WrittenLemma
  <1>3. Settled(s, m) => Settled(s, m)'
    BY <1>1, <1>2 DEF Settled, Received, Written, Excluded
  <1>4. ASSUME m = x, At[s] = n, s # e PROVE Settled(s, m)'
    <2>1. CASE sub[s] = "out"
      BY <2>1 DEF Settled
    <2>2. CASE sub[s] # "out"
      <3>1. s \in Recipients(n, e)
        BY <1>4, <2>2 DEF Recipients, InChannel
      <3>2. m \in Range(got'[s][k])
        BY <1>1, <1>2, <1>4, <3>1
      <3> QED
        BY <1>1, <3>2 DEF Settled, Received, Written
    <2> QED
      BY <2>1, <2>2
  <1> QED
    BY <1>3, <1>4

\* A source's steps,
LEMMA SourceKeeps ==
    ASSUME CacheInv, [Next]_vars, NEW p \in Source, SourceStep(p), deaf = {},
           NEW s \in Socket, NEW m \in Message, (UnderWay(m) \/ m = CacheGet(At[s]))'
    PROVE  Settled(s, m)' \/ Outstanding(s, m)'
  <1>0. DeliveryInv /\ StoredByRequest /\ NoneMissed /\ TypeOK /\ Cursor
    BY DEF CacheInv, DeliveryInv
  <1>1. ASSUME Trigger(p) \/ ClientEvent(p) PROVE Settled(s, m)' \/ Outstanding(s, m)'
    <2>1. /\ pc[p] = "idle" /\ pc'[p] \notin {"local", "store"}
          /\ \A q \in Source : q # p => pc'[q] = pc[q] /\ next'[q] = next[q]
      <3>1. CASE Trigger(p)
        <4>1. Take(p, 1) /\ 1 \in Nat \ {0} /\ pc[p] = "idle"
          BY <3>1 DEF Trigger
        <4>2. /\ pc'[p] \in {"publish"} \cup Answered
              /\ \A q \in Source : q # p => pc'[q] = pc[q] /\ next'[q] = next[q]
          BY <1>0, <4>1, TakeLemma
        <4> QED
          BY <4>1, <4>2 DEF Answered
      <3>2. CASE ClientEvent(p)
        BY <1>0, <3>2 DEF ClientEvent, TypeOK
      <3> QED
        BY <1>1, <3>1, <3>2
    <2>2. UNCHANGED <<caches, sub, cached, got, passing, missed, lost, inbox>>
      BY <1>1 DEF Trigger, ClientEvent, sockets
    <2>3. UnderWay(m) \/ m = CacheGet(At[s])
      BY <2>1, <2>2 DEF UnderWay, CacheGet, MessageOf, caches, Source
    <2>4. Origin[m] \in Source
      BY <1>0, <2>3, ConcernLemma
    <2>5. pc[Origin[m]] = "local" =>
                pc'[Origin[m]] = "local" /\ next'[Origin[m]] = next[Origin[m]]
      BY <2>1, <2>4
    <2> QED
      BY <1>0, <2>2, <2>3, <2>5, QuietStep
  <1>2. ASSUME Publish(p) PROVE Settled(s, m)' \/ Outstanding(s, m)'
    <2>1. /\ pc[p] = "publish" /\ pc'[p] = "local" /\ next' = next
          /\ \A q \in Source : q # p => pc'[q] = pc[q]
          /\ UNCHANGED <<caches, sub, cached, got, passing, missed>>
      BY <1>0, <1>2 DEF Publish, sockets, TypeOK
    <2>2. At[s] \in Node /\ At[p] \in Node
      BY EventsAssumption DEF Source
    <2>3. /\ lost \subseteq lost'
          /\ Range(inbox[At[s]]) \subseteq Range(inbox'[At[s]])
      <3>1. MessageOf(p) \in Message /\ inbox[At[s]] \in Seq(Message)
        BY <1>0, <1>2, <2>2, PublishLemma DEF TypeOK
      <3>2. Range(Append(inbox[At[s]], MessageOf(p))) = Range(inbox[At[s]]) \cup {MessageOf(p)}
        BY <3>1, RangeLemma
      <3>3. inbox'[At[s]] \in {inbox[At[s]], Append(inbox[At[s]], MessageOf(p))}
        BY <1>0, <1>2, <2>2, PublishLemma
      <3>4. lost \subseteq lost'
        BY <1>2 DEF Publish
      <3> QED
        BY <3>2, <3>3, <3>4
    <2>4. CASE UnderWay(m) \/ m = CacheGet(At[s])
      <3>1. Origin[m] \in Source
        BY <1>0, <2>4, ConcernLemma
      <3>2. pc[Origin[m]] = "local" =>
                pc'[Origin[m]] = "local" /\ next'[Origin[m]] = next[Origin[m]]
        BY <2>1, <3>1
      <3> QED
        BY <1>0, <2>1, <2>3, <2>4, <3>2, QuietStep
    <2>5. CASE ~UnderWay(m) /\ m # CacheGet(At[s])
      <3>1. UnderWay(m)'
        BY <2>1, <2>5 DEF CacheGet, caches
      <3>2. Origin[m] = p /\ MessageOf(p) = m
        BY <2>1, <2>5, <3>1 DEF UnderWay, MessageOf, Source
      <3>3. CASE lost' = lost \cup {MessageOf(p)}
        BY <3>2, <3>3 DEF Settled
      <3>4. CASE inbox' = [n \in Node |-> IF n \in Addressees(p)
                                          THEN Append(inbox[n], MessageOf(p)) ELSE inbox[n]]
        <4>1. CASE At[s] = At[p]
          BY <2>1, <3>2, <4>1 DEF Outstanding, MessageOf
        <4>2. CASE At[s] # At[p]
          <5>1. inbox'[At[s]] = Append(inbox[At[s]], m)
            BY <2>2, <3>2, <3>4, <4>2 DEF Addressees
          <5>2. inbox[At[s]] \in Seq(Message)
            BY <1>0, <2>2 DEF TypeOK
          <5>3. m \in Range(inbox'[At[s]])
            BY <5>1, <5>2, RangeLemma
          <5> QED
            BY <5>3 DEF Outstanding
        <4> QED
          BY <4>1, <4>2
      <3> QED
        BY <1>2, <3>3, <3>4 DEF Publish
    <2> QED
      BY <2>4, <2>5
  <1>3. ASSUME SendOnOwnNode(p) PROVE Settled(s, m)' \/ Outstanding(s, m)'
    <2>1. PICK x \in Message : x = MessageOf(p)
      BY <1>0, <1>3, SendOnOwnNodeLemma
    <2>2. /\ Origin[x] = p /\ Origin[x] \in Source /\ At[p] \in Node /\ pc[p] = "local"
          /\ SendLocally(At[p], x, Except[x])
          /\ \/ pc'[p] = "store" /\ next'[p] = next[p]
             \/ pc'[p] \in {"publish"} \cup Answered /\ next'[p] = next[p] + 1
          /\ inbox' = inbox
      BY <1>0, <1>3, <2>1, SendOnOwnNodeLemma
    <2>3. UNCHANGED <<caches, sub, cached, lost, passing, missed>>
      BY <1>3 DEF SendOnOwnNode
    <2>4. \A q \in Source : q # p => pc'[q] = pc[q] /\ next'[q] = next[q]
      BY <1>0, <1>3 DEF SendOnOwnNode, Take, TypeOK
    <2>5. UnderWay(m) \/ m = CacheGet(At[s])
      BY <2>2, <2>3, <2>4 DEF UnderWay, CacheGet, MessageOf, caches, Source, Answered
    <2>6. Origin[m] \in Source /\ At[Origin[m]] \in Node
      BY <1>0, <2>5, ConcernLemma
    <2>7. CASE Settled(s, m)
      BY <1>0, <2>2, <2>3, <2>6, <2>7, WriteKeeps
    <2>8. CASE ~Settled(s, m)
      <3>1. Outstanding(s, m)
        BY <1>0, <2>5, <2>8 DEF NoneMissed
      <3>2. CASE Origin[m] # p
        BY <2>2, <2>3, <2>4, <2>6, <3>1, <3>2 DEF Outstanding, MessageOf
      <3>3. CASE Origin[m] = p
        <4>1. CASE sub[s] = "added" \/ m \in Range(inbox[At[s]])
          BY <2>2, <2>3, <4>1 DEF Outstanding
        <4>2. CASE At[p] = At[s] /\ MessageOf(p) = m
          <5>1. m = x /\ s # Except[x]
            BY <2>1, <2>8, <4>2 DEF Settled, Excluded
          <5> QED
            BY <1>0, <2>2, <2>3, <2>6, <4>2, <5>1, WriteKeeps
        <4> QED
          BY <3>1, <3>3, <4>1, <4>2 DEF Outstanding
      <3> QED
        BY <3>2, <3>3
    <2> QED
      BY <2>7, <2>8
  <1>4. ASSUME Store(p) PROVE Settled(s, m)' \/ Outstanding(s, m)'
    <2>1. /\ Origin[MessageOf(p)] = p /\ MessageOf(p) \in Message
          /\ pc[p] = "store" /\ pc'[p] \notin {"local", "store"} /\ p \in Request
          /\ \/ /\ \A n \in Node : cache'[n] = IF n \in Reach(At[p]) THEN MessageOf(p) ELSE cache[n]
                /\ expired' = expired \ Reach(At[p])
             \/ UNCHANGED <<cache, expired>>
          /\ \A q \in Source : q # p => pc'[q] = pc[q] /\ next'[q] = next[q]
      BY <1>0, <1>4, StoreLemma DEF Answered, StoredByRequest
    <2>2. At[s] \in Node
      BY EventsAssumption DEF Source
    <2>3. UNCHANGED <<sub, cached, got, passing, missed, lost, inbox>>
      BY <1>4 DEF Store, sockets, past
    <2>4. UnderWay(m)' => UnderWay(m)
      BY <2>1 DEF UnderWay, MessageOf, Source
    <2>5. m = CacheGet(At[s])' => UnderWay(m) \/ m = CacheGet(At[s])
      BY <2>1, <2>2, <2>3 DEF CacheGet, UnderWay
    <2>6. UnderWay(m) \/ m = CacheGet(At[s])
      BY <2>4, <2>5
    <2>7. Origin[m] \in Source
      BY <1>0, <2>6, ConcernLemma
    <2>8. pc[Origin[m]] = "local" =>
                pc'[Origin[m]] = "local" /\ next'[Origin[m]] = next[Origin[m]]
      BY <2>1, <2>7
    <2> QED
      BY <1>0, <2>3, <2>6, <2>8, QuietStep
  <1> QED
    BY <1>1, <1>2, <1>3, <1>4 DEF SourceStep

\* those of a node's subscriber and cache,
LEMMA NodeKeeps ==
    ASSUME CacheInv, NEW n \in Node, OnMessage(n) \/ Expire(n) \/ Cleanup(n), deaf = {},
           NEW s \in Socket, NEW m \in Message, (UnderWay(m) \/ m = CacheGet(At[s]))'
    PROVE  Settled(s, m)' \/ Outstanding(s, m)'
  <1>0. DeliveryInv /\ StoredByRequest /\ NoneMissed /\ TypeOK
    BY DEF CacheInv, DeliveryInv
  <1>1. At[s] \in Node /\ m # NoEvent /\ s # Nobody
    BY EventsAssumption DEF Source, NoEvent
  <1>2. ASSUME OnMessage(n) PROVE Settled(s, m)' \/ Outstanding(s, m)'
    <2>1. PICK x \in Message : x = Head(inbox[n])
      BY <1>0, <1>2, OnMessageLemma
    <2>2. /\ inbox[n] \in Seq(Message) /\ inbox[n] # <<>>
          /\ Origin[x] \in Source /\ SendLocally(n, x, Nobody)
          /\ inbox'[n] = Tail(inbox[n]) /\ \A k \in Node : k # n => inbox'[k] = inbox[k]
      BY <1>0, <1>2, <2>1, OnMessageLemma
    <2>3. UNCHANGED <<caches, pc, next, sub, cached, lost, passing, missed>>
      BY <1>2 DEF OnMessage
    <2>4. UnderWay(m) \/ m = CacheGet(At[s])
      BY <2>3 DEF UnderWay, CacheGet, MessageOf, caches
    <2>5. At[Origin[m]] \in Node
      BY <1>0, <2>4, ConcernLemma
    <2>6. CASE Settled(s, m)
      BY <1>0, <2>2, <2>3, <2>5, <2>6, WriteKeeps
    <2>7. CASE ~Settled(s, m)
      <3>1. Outstanding(s, m)
        BY <1>0, <2>4, <2>7 DEF NoneMissed
      <3>2. CASE m = x /\ At[s] = n
        BY <1>0, <1>1, <2>2, <2>3, <2>5, <3>2, WriteKeeps
      <3>3. CASE ~(m = x /\ At[s] = n)
        <4>1. Range(inbox[n]) = Range(Tail(inbox[n])) \cup {x}
          BY <2>1, <2>2, RangeLemma
        <4>2. m \in Range(inbox[At[s]]) => m \in Range(inbox'[At[s]])
          BY <1>1, <2>2, <3>3, <4>1
        <4> QED
          BY <2>3, <3>1, <4>2 DEF Outstanding, MessageOf
      <3> QED
        BY <3>2, <3>3
    <2> QED
      BY <2>6, <2>7
  <1>3. ASSUME Expire(n) \/ Cleanup(n) PROVE Settled(s, m)' \/ Outstanding(s, m)'
    <2>1. UNCHANGED <<pc, next, inbox, sub, cached, got, passing, missed, lost>>
      BY <1>3 DEF Expire, Cleanup, sockets, past
    <2>2. CacheGet(At[s])' \in {CacheGet(At[s]), NoEvent}
      BY <1>0, <1>1, <1>3 DEF Expire, Cleanup, CacheGet, TypeOK
    <2>3. UnderWay(m) \/ m = CacheGet(At[s])
      BY <1>1, <2>1, <2>2 DEF UnderWay, MessageOf
    <2> QED
      BY <1>0, <2>1, <2>3, QuietStep
  <1> QED
    BY <1>2, <1>3

\* and those of a subscriber leave no event of the cache behind.
LEMMA SubscriberKeeps ==
    ASSUME CacheInv, NEW t \in Socket, Join(t) \/ SendCacheIfNeeded(t), deaf = {},
           NEW s \in Socket, NEW m \in Message, (UnderWay(m) \/ m = CacheGet(At[s]))'
    PROVE  Settled(s, m)' \/ Outstanding(s, m)'
  <1>0. DeliveryInv /\ StoredByRequest /\ NoneMissed /\ TypeOK
    BY DEF CacheInv, DeliveryInv
  <1>1. UNCHANGED <<caches, pc, next, inbox, got, lost>>
    BY DEF Join, SendCacheIfNeeded, past
  <1>2. UnderWay(m) \/ m = CacheGet(At[s])
    BY <1>1 DEF UnderWay, CacheGet, MessageOf, caches
  <1>3. CASE t # s
    <2>1. /\ sub'[s] = sub[s] /\ cached'[s] = cached[s] /\ passing'[s] = passing[s]
          /\ s \in missed => s \in missed'
      BY <1>0, <1>3 DEF Join, SendCacheIfNeeded, TypeOK
    <2>2. Settled(s, m) \/ Outstanding(s, m)
      BY <1>0, <1>2 DEF NoneMissed
    <2>3. Settled(s, m) => Settled(s, m)'
      BY <1>1, <2>1 DEF Settled, Received, Written, Excluded
    <2>4. Outstanding(s, m) => Outstanding(s, m)'
      BY <1>1, <2>1 DEF Outstanding, MessageOf
    <2> QED
      BY <2>2, <2>3, <2>4
  <1>4. CASE t = s /\ Join(s)
    BY <1>0, <1>4 DEF Join, TypeOK, Outstanding
  <1>5. CASE t = s /\ SendCacheIfNeeded(s)
    <2>1. /\ cached'[s] = CacheGet(At[s]) \/ s \in missed'
          /\ passing'[s] = {x \in Message : BetweenSendAndStore(x, At[s])}
      BY <1>0, <1>5 DEF SendCacheIfNeeded, TypeOK
    <2>2. CASE m = CacheGet(At[s])
      BY <2>1, <2>2 DEF Settled, Received
    <2>3. CASE UnderWay(m) /\ BetweenSendAndStore(m, At[s])
      BY <2>1, <2>3 DEF Settled
    <2>4. CASE UnderWay(m) /\ ~BetweenSendAndStore(m, At[s])
      BY <1>1, <2>4 DEF UnderWay, BetweenSendAndStore, Outstanding, MessageOf
    <2> QED
      BY <1>2, <2>2, <2>3, <2>4
  <1> QED
    BY <1>3, <1>4, <1>5

\* A subscriber that was sent all it was owed knows what the cache holds, or
\* asked the cache in the gap between send and store (apiEvents.go:74-78), or
\* by a GET that failed (redisCache.go:34), unless a node's subscriber has
\* ended.
THEOREM CachedEventIsKnownHolds == Spec => []CachedEventIsKnown
  <1>1. Init => CacheInv
    <2> SUFFICES ASSUME Init PROVE CacheInv
      OBVIOUS
    <2>1. DeliveryInv
      BY InitDelivery
    <2>2. StoredByRequest
      BY DEF Init, StoredByRequest
    <2>3. \A s \in Socket : CacheGet(At[s]) \notin Message
      BY EventsAssumption DEF Init, CacheGet, Source, NoEvent
    <2>4. \A m \in Message : ~UnderWay(m)
      BY DEF Init, UnderWay, Source
    <2> QED
      BY <2>1, <2>2, <2>3, <2>4 DEF CacheInv, NoneMissed
  <1>2. ASSUME CacheInv, [Next]_vars PROVE NoneMissed'
    <2> SUFFICES ASSUME deaf' = {}, NEW s \in Socket, NEW m \in Message,
                        (UnderWay(m) \/ m = CacheGet(At[s]))'
                 PROVE  Settled(s, m)' \/ Outstanding(s, m)'
      BY DEF NoneMissed
    <2>1. CASE UNCHANGED vars
      <3>1. UNCHANGED <<caches, sub, cached, got, passing, missed, lost, inbox, pc, next, deaf>>
        BY <2>1 DEF vars, caches
      <3>2. UnderWay(m) \/ m = CacheGet(At[s])
        BY <3>1 DEF UnderWay, CacheGet, MessageOf, caches
      <3> QED
        BY <1>2, <3>1, <3>2, QuietStep DEF CacheInv
    <2>2. ASSUME NEW p \in Source, SourceStep(p) PROVE Settled(s, m)' \/ Outstanding(s, m)'
      <3>1. deaf = {}
        BY <2>2 DEF SourceStep, Trigger, ClientEvent, Publish, SendOnOwnNode, Store
      <3> QED
        BY <1>2, <2>2, <3>1, SourceKeeps
    <2>3. ASSUME NEW n \in Node, OnMessage(n) \/ Expire(n) \/ Cleanup(n)
          PROVE  Settled(s, m)' \/ Outstanding(s, m)'
      <3>1. deaf = {}
        BY <2>3 DEF OnMessage, Expire, Cleanup
      <3> QED
        BY <1>2, <2>3, <3>1, NodeKeeps
    <2>4. ASSUME NEW n \in Node, PsubscribeEnds(n) PROVE FALSE
      BY <2>4 DEF PsubscribeEnds
    <2>5. ASSUME NEW t \in Socket, Join(t) \/ SendCacheIfNeeded(t)
          PROVE  Settled(s, m)' \/ Outstanding(s, m)'
      <3>1. deaf = {}
        BY <2>5 DEF Join, SendCacheIfNeeded
      <3> QED
        BY <1>2, <2>5, <3>1, SubscriberKeeps
    <2> QED
      BY <1>2, <2>1, <2>2, <2>3, <2>4, <2>5 DEF Next
  <1>3. CacheInv /\ [Next]_vars /\ DeliveryInv' => CacheInv'
    BY <1>2, StoredStep DEF CacheInv
  <1>4. CacheInv => CachedEventIsKnown
    <2> SUFFICES ASSUME CacheInv, Quiet, deaf = {}, NEW s \in Socket
                 PROVE  LET m == CacheGet(At[s])
                        IN  \/ sub[s] = "out" \/ m = NoEvent \/ m \in lost \/ Excluded(s, m)
                            \/ Received(s, m)
                            \/ m \in passing[s]
                            \/ s \in missed
      BY DEF CachedEventIsKnown
    <2>1. CASE CacheGet(At[s]) = NoEvent
      BY <2>1
    <2>2. CASE CacheGet(At[s]) # NoEvent
      <3>1. At[s] \in Node /\ \A n \in Node : cache[n] \in Message \cup {NoEvent}
        BY EventsAssumption DEF Source, CacheInv, DeliveryInv, TypeOK
      <3>2. PICK m \in Message : m = CacheGet(At[s])
        BY <2>2, <3>1 DEF CacheGet
      <3>3. Origin[m] \in Source
        BY <3>2, ConcernLemma DEF CacheInv
      <3>4. Range(<<>>) = {}
        BY DEF Range
      <3>5. ~Outstanding(s, m)
        BY <3>1, <3>3, <3>4 DEF Quiet, Busy, Outstanding
      <3>6. Settled(s, m)
        BY <3>2, <3>5 DEF CacheInv, NoneMissed
      <3> QED
        BY <3>2, <3>6 DEF Settled
    <2> QED
      BY <2>1, <2>2
  <1> QED
    BY <1>1, <1>3, <1>4, DeliveryInvHolds, PTL DEF Spec
=============================================================================
