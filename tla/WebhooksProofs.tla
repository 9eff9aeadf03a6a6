--------------------------- MODULE WebhooksProofs ----------------------------
(***************************************************************************)
(* Flap detection, for any number of keys and events, any capacity of the  *)
(* channel, and any order in which timers, callbacks and the monitor run.  *)
(***************************************************************************)
EXTENDS Webhooks, SequenceTheorems, TLAPS

\* Event i says something about key k.
Says(ky, ty, i, k) == ky[i] = k /\ ty[i] # "direct"
About(i, k) == Says(key, type, i, k)

\* The timer of the event is armed or its callback is not finished.
InFlight(i) == type[i] # "direct" /\ phase[i] \in {"armed", "dispatching", "queued"}

\* Once the queue q is sent, a receiver will have been told v of k: that is the
\* last word in q on k, or there is none and it holds (b) of what was sent before.
TellsIn(q, b, ky, ty, k, v) ==
    \/ /\ \A j \in 1..Len(q) : ~Says(ky, ty, q[j], k)
       /\ b
    \/ \E j \in 1..Len(q) :
        /\ Says(ky, ty, q[j], k)
        /\ (ty[q[j]] = "connect") = v
        /\ \A m \in 1..Len(q) : m > j => ~Says(ky, ty, q[m], k)

\* The event being sent says so, or the last one that was sent did or failed.
Heard(k, v) ==
    IF sending # 0 /\ About(sending, k) THEN (type[sending] = "connect") = v
    ELSE failed[k] \/ view[k] = v

Tells(k, v) == TellsIn(queue, Heard(k, v), key, type, k, v)

\* Only events that were offered are anywhere.
Offered ==
    /\ \A i \in Event : phase[i] # "none" => i <= n
    /\ \A i \in Event : phase[i] \in {"armed", "queued"} => type[i] # "direct"
    /\ \A j \in 1..Len(queue) : queue[j] <= n
    /\ sending <= n

\* fd.pending lists events of its key that are in flight.
ListedInFlight ==
    \A k \in Key : pending[k] # 0 =>
        /\ pending[k] <= n /\ key[pending[k]] = k
        /\ InFlight(pending[k])

\* The event that swallows another is of the other type, is not swallowed and
\* is not listed any more.
Pairs ==
    \A i \in Event : phase[i] = "swallowed" =>
        /\ partner[i] \in 1..n /\ key[partner[i]] = key[i]
        /\ type[i] \in {"connect", "disconnect"} /\ type[partner[i]] = Opposite(type[i])
        /\ phase[partner[i]] # "swallowed"
        /\ \A k \in Key : pending[k] # partner[i]
        /\ \A j \in Event : phase[j] = "swallowed" /\ partner[j] = partner[i] => j = i

\* While the events of a key alternate and meet no callback, one of them is in
\* flight at a time,
OneInFlight ==
    \A i, j \in Event : InFlight(i) /\ InFlight(j) /\ key[i] = key[j] /\ calm[key[i]] => i = j

\* and what the receiver will have been told is what the source last reported,
\* or the opposite of it, which the event in flight will put right.
Idle(k) == \A i \in Event : key[i] = k /\ InFlight(i) => phase[i] = "queued"

UnderWay(k) ==
    \E i \in Event :
        /\ About(i, k) /\ phase[i] \in {"armed", "dispatching"}
        /\ up[k] <=> type[i] = "connect"

ToldOrUnderWay ==
    \A k \in Key : calm[k] =>
        \E v \in BOOLEAN :
            /\ Tells(k, v)
            /\ \/ (v <=> up[k]) /\ Idle(k)
               \/ (v <=> ~up[k]) /\ UnderWay(k)

\* The inductive invariant.
IInv ==
    TypeOK /\ Offered /\ ListedInFlight /\ Pairs /\ OneInFlight /\ WaitingIsListed /\ ToldOrUnderWay

-----------------------------------------------------------------------------
(* What the queue will have told.                                          *)

\* Events that are offered do not change what older ones say, and an event that
\* was sent has told no less than it was going to.
LEMMA TellsKept ==
    ASSUME NEW E, NEW q \in Seq(E), NEW b \in BOOLEAN, NEW b2 \in BOOLEAN, b => b2,
           NEW ky, NEW ty, NEW ky2, NEW ty2, NEW k,
           NEW v \in BOOLEAN, TellsIn(q, b, ky, ty, k, v),
           \A j \in 1..Len(q) : ky2[q[j]] = ky[q[j]] /\ ty2[q[j]] = ty[q[j]]
    PROVE  TellsIn(q, b2, ky2, ty2, k, v)
  BY DEF TellsIn, Says

\* An event that is put into the queue is the last word on its key,
LEMMA TellsLast ==
    ASSUME NEW E, NEW q \in Seq(E), NEW b \in BOOLEAN, NEW ky, NEW ty, NEW k, NEW i \in E, Says(ky, ty, i, k)
    PROVE  TellsIn(Append(q, i), b, ky, ty, k, ty[i] = "connect")
  <1> DEFINE r == Append(q, i)
  <1>1. Len(r) = Len(q) + 1 /\ r[Len(q) + 1] = i /\ Len(q) \in Nat
    OBVIOUS
  <1> HIDE DEF r
  <1>2. Len(q) + 1 \in 1..Len(r) /\ \A m \in 1..Len(r) : ~(m > Len(q) + 1)
    BY <1>1
  <1>3. TellsIn(r, b, ky, ty, k, ty[i] = "connect")
    BY <1>1, <1>2 DEF TellsIn
  <1> QED
    BY <1>3 DEF r

\* and no word on any other.
LEMMA TellsOthers ==
    ASSUME NEW E, NEW q \in Seq(E), NEW b \in BOOLEAN, NEW ky, NEW ty, NEW k, NEW i \in E, ~Says(ky, ty, i, k),
           NEW v \in BOOLEAN, TellsIn(q, b, ky, ty, k, v)
    PROVE  TellsIn(Append(q, i), b, ky, ty, k, v)
  <1> DEFINE r == Append(q, i)
  <1>1. /\ Len(r) = Len(q) + 1 /\ r[Len(q) + 1] = i /\ Len(q) \in Nat
        /\ \A j \in 1..Len(q) : r[j] = q[j]
    OBVIOUS
  <1> HIDE DEF r
  <1>2. \A j \in 1..Len(r) : j \in 1..Len(q) \/ r[j] = i
    BY <1>1
  <1>3. 1..Len(q) \subseteq 1..Len(r)
    BY <1>1
  <1>4. TellsIn(r, b, ky, ty, k, v)
    BY <1>1, <1>2, <1>3 DEF TellsIn
  <1> QED
    BY <1>4 DEF r

\* Taking the first event makes its word the one that was sent before.
LEMMA TellsTaken ==
    ASSUME NEW E, NEW q \in Seq(E), q # <<>>, NEW b \in BOOLEAN, NEW b2 \in BOOLEAN,
           NEW ky, NEW ty, NEW k,
           NEW v \in BOOLEAN, TellsIn(q, b, ky, ty, k, v),
           b2 = IF Says(ky, ty, q[1], k) THEN (ty[q[1]] = "connect") = v ELSE b
    PROVE  TellsIn(Tail(q), b2, ky, ty, k, v)
  <1> DEFINE r == Tail(q)
  <1>1. /\ Len(q) \in Nat /\ Len(q) > 0 /\ Len(r) = Len(q) - 1
        /\ \A j \in 1..Len(r) : r[j] = q[j + 1]
    OBVIOUS
  <1> HIDE DEF r
  <1>2. CASE (\A j \in 1..Len(q) : ~Says(ky, ty, q[j], k)) /\ b
    <2>1. \A j \in 1..Len(r) : ~Says(ky, ty, r[j], k)
      BY <1>1, <1>2
    <2>2. b2
      BY <1>1, <1>2
    <2> QED
      BY <2>1, <2>2 DEF TellsIn, r
  <1>3. ASSUME NEW j \in 1..Len(q),
               Says(ky, ty, q[j], k), (ty[q[j]] = "connect") = v,
               \A m \in 1..Len(q) : m > j => ~Says(ky, ty, q[m], k)
        PROVE  TellsIn(r, b2, ky, ty, k, v)
    <2>1. CASE j = 1
      <3>1. \A m \in 1..Len(r) : ~Says(ky, ty, r[m], k)
        BY <1>1, <1>3, <2>1
      <3>2. b2
        BY <1>3, <2>1
      <3> QED
        BY <3>1, <3>2 DEF TellsIn
    <2>2. CASE j # 1
      <3>1. j - 1 \in 1..Len(r) /\ r[j - 1] = q[j]
        BY <1>1, <2>2
      <3>2. \A m \in 1..Len(r) : m > j - 1 => ~Says(ky, ty, r[m], k)
        BY <1>1, <1>3
      <3> QED
        BY <1>3, <3>1, <3>2 DEF TellsIn
    <2> QED
      BY <2>1, <2>2
  <1> QED
    BY <1>2, <1>3 DEF TellsIn, r

-----------------------------------------------------------------------------
(* CheckForFlapping.                                                       *)

\* What both branches do.
LEMMA OfferFacts ==
    ASSUME IInv, NEW k \in Key, NEW t \in {"connect", "disconnect"}, Offer(k, t)
    PROVE  /\ n \in Nat /\ n + 1 \in Event /\ n' = n + 1 /\ phase[n + 1] = "none"
           /\ key'[n + 1] = k /\ type'[n + 1] = t
           /\ \A j \in Event \ {n + 1} :
                key'[j] = key[j] /\ type'[j] = type[j] /\ partner'[j] = partner[j]
           /\ up'[k] = (t = "connect")
           /\ calm'[k] => calm[k] /\ up[k] # (t = "connect") /\ ~InCallback(k)
           /\ \A c \in Key \ {k} : up'[c] = up[c] /\ calm'[c] = calm[c] /\ pending'[c] = pending[c]
           /\ UNCHANGED <<queue, sender>> /\ sending <= n
           /\ \A j \in 1..Len(queue) : queue[j] \in Event \ {n + 1}
  <1>1. n \in Nat /\ n + 1 \in Event /\ n' = n + 1
    BY WebhooksAssumption DEF IInv, TypeOK, Event, Offer
  <1>2. phase[n + 1] = "none"
    BY <1>1 DEF IInv, Offered
  <1>3. \A j \in 1..Len(queue) : queue[j] \in Event \ {n + 1}
    BY <1>1 DEF IInv, TypeOK, Offered
  <1>4. /\ key \in [Event -> Key] /\ type \in [Event -> Type] /\ partner \in [Event -> Event \cup {0}]
        /\ up \in [Key -> BOOLEAN] /\ calm \in [Key -> BOOLEAN] /\ pending \in [Key -> Event \cup {0}]
    BY DEF IInv, TypeOK
  <1>5. /\ key'[n + 1] = k /\ type'[n + 1] = t
        /\ \A j \in Event \ {n + 1} :
                key'[j] = key[j] /\ type'[j] = type[j] /\ partner'[j] = partner[j]
    BY <1>1, <1>4 DEF Offer
  <1>6. /\ up'[k] = (t = "connect")
        /\ calm'[k] => calm[k] /\ up[k] # (t = "connect") /\ ~InCallback(k)
    BY <1>4, Zenon DEF Offer
  <1>7. \A c \in Key \ {k} : up'[c] = up[c] /\ calm'[c] = calm[c] /\ pending'[c] = pending[c]
    BY <1>4 DEF Offer
  <1>8. sending <= n
    BY DEF IInv, Offered
  <1> QED
    BY <1>1, <1>2, <1>3, <1>5, <1>6, <1>7, <1>8 DEF Offer

\* The event finds its opposite listed: e is taken off the list, and cancelled
\* if its callback has not started.
LEMMA OfferFlap ==
    ASSUME IInv, NEW k \in Key, NEW t \in {"connect", "disconnect"}, Offer(k, t),
           pending[k] # 0, type[pending[k]] = Opposite(t)
    PROVE  \E e \in 1..n :
            /\ e = pending[k] /\ key[e] = k /\ type[e] = Opposite(t) /\ InFlight(e)
            /\ pending'[k] = 0 /\ phase'[n + 1] = "swallowed" /\ partner'[n + 1] = e
            /\ phase'[e] = IF phase[e] = "armed" THEN "cancelled" ELSE phase[e]
            /\ \A j \in Event \ {n + 1, e} : phase'[j] = phase[j]
  <1> DEFINE e == pending[k]
  <1>1. e \in 1..n /\ e \in Event /\ key[e] = k /\ InFlight(e)
    BY DEF IInv, ListedInFlight, TypeOK, Event
  <1>2. n \in Nat /\ n + 1 \in Event
    BY OfferFacts
  <1>3. e # n + 1
    BY <1>1, <1>2
  <1>4. pending'[k] = 0 /\ partner'[n + 1] = e
    BY <1>2 DEF Offer, IInv, TypeOK
  <1>5. /\ phase'[n + 1] = "swallowed"
        /\ phase'[e] = IF phase[e] = "armed" THEN "cancelled" ELSE phase[e]
        /\ \A j \in Event \ {n + 1, e} : phase'[j] = phase[j]
    BY <1>1, <1>2, <1>3 DEF Offer
  <1> QED
    BY <1>1, <1>4, <1>5

\* It does not: it is listed and its timer armed.
LEMMA OfferListed ==
    ASSUME IInv, NEW k \in Key, NEW t \in {"connect", "disconnect"}, Offer(k, t),
           ~(pending[k] # 0 /\ type[pending[k]] = Opposite(t))
    PROVE  /\ pending'[k] = n + 1 /\ phase'[n + 1] = "armed"
           /\ \A j \in Event \ {n + 1} : phase'[j] = phase[j]
  <1>1. n + 1 \in Event
    BY OfferFacts
  <1> QED
    BY <1>1 DEF Offer, IInv, TypeOK

\* The variables keep their types.
LEMMA OfferType ==
    ASSUME IInv, NEW k \in Key, NEW t \in {"connect", "disconnect"}, Offer(k, t)
    PROVE  TypeOK'
  <1>1. n + 1 \in Event /\ n \in Nat /\ n' = n + 1
    BY OfferFacts
  <1>2. /\ key' \in [Event -> Key] /\ type' \in [Event -> Type]
        /\ partner' \in [Event -> Event \cup {0}] /\ pending' \in [Key -> Event \cup {0}]
    BY <1>1 DEF Offer, IInv, TypeOK, Type
  <1>3. phase' \in [Event -> Phase]
    BY DEF Offer, IInv, TypeOK, Phase
  <1>4. up' \in [Key -> BOOLEAN] /\ calm' \in [Key -> BOOLEAN]
    BY DEF Offer, IInv, TypeOK
  <1>5. n' \in 0..MaxEvents
    BY <1>1, WebhooksAssumption DEF Event
  <1> QED
    BY <1>2, <1>3, <1>4, <1>5 DEF Offer, sender, IInv, TypeOK

\* What the queue tells of a key does not depend on the new event.
LEMMA OfferTells ==
    ASSUME IInv, NEW k \in Key, NEW t \in {"connect", "disconnect"}, Offer(k, t),
           NEW c \in Key, NEW v \in BOOLEAN, Tells(c, v)
    PROVE  Tells(c, v)'
  <1>1. /\ queue' = queue /\ sender' = sender
        /\ \A j \in 1..Len(queue) : key'[queue[j]] = key[queue[j]] /\ type'[queue[j]] = type[queue[j]]
    BY OfferFacts
  <1>2. queue \in Seq(Event)
    BY DEF IInv, TypeOK
  <1>3. Heard(c, v) = Heard(c, v)'
    <2>1. sending # 0 => sending \in Event \ {n + 1}
      BY OfferFacts DEF IInv, TypeOK, Event
    <2>2. sending # 0 => (About(sending, c)' <=> About(sending, c)) /\ type'[sending] = type[sending]
      BY <2>1, OfferFacts DEF sender, About, Says
    <2> QED
      BY <1>1, <2>2 DEF Heard, sender, About
  <1>4. TellsIn(queue, Heard(c, v)', key', type', c, v)
    <2>1. Heard(c, v) \in BOOLEAN /\ Heard(c, v)' \in BOOLEAN
      BY DEF Heard
    <2> QED
      BY <1>1, <1>2, <1>3, <2>1, TellsKept DEF Tells
  <1> QED
    BY <1>1, <1>4 DEF Tells

\* While the key stays calm, only the opposite of the new event can be in
\* flight: it is listed and its timer has not fired.
LEMMA OfferCalm ==
    ASSUME IInv, NEW k \in Key, NEW t \in {"connect", "disconnect"}, Offer(k, t), calm'[k],
           NEW j \in Event, key[j] = k, InFlight(j)
    PROVE  j = pending[k] /\ phase[j] = "armed" /\ type[j] = Opposite(t)
  <1>1. calm[k] /\ up[k] # (t = "connect") /\ ~InCallback(k)
    BY OfferFacts
  <1>2. j \in 1..n
    BY DEF InFlight, IInv, Offered, TypeOK, Event
  <1>3. phase[j] = "armed"
    BY <1>1, <1>2 DEF InFlight, InCallback
  <1>4. pending[k] = j
    BY <1>1, <1>2, <1>3 DEF IInv, WaitingIsListed
  <1>5. ~Idle(k)
    BY <1>3 DEF Idle
  <1>6. PICK i \in Event : /\ About(i, k) /\ phase[i] \in {"armed", "dispatching"}
                           /\ up[k] <=> type[i] = "connect"
    BY <1>1, <1>5 DEF IInv, ToldOrUnderWay, UnderWay
  <1>7. i = j
    BY <1>1, <1>6 DEF IInv, OneInFlight, InFlight, About, Says
  <1>8. up[k] <=> type[j] = "connect"
    BY <1>6, <1>7
  <1>9. up[k] \in BOOLEAN /\ type[j] \in Type
    BY DEF IInv, TypeOK
  <1>10. type[j] = Opposite(t)
    <2>1. type[j] \in {"connect", "disconnect"}
      BY <1>9 DEF InFlight, Type
    <2>2. (type[j] = "connect") # (t = "connect")
      BY <1>1, <1>8, <1>9, Zenon
    <2> QED
      BY <2>1, <2>2 DEF Opposite
  <1> QED
    BY <1>3, <1>4, <1>10

\* An event that flaps with the one listed.
LEMMA OfferFlapStep ==
    ASSUME IInv, NEW k \in Key, NEW t \in {"connect", "disconnect"}, Offer(k, t),
           pending[k] # 0, type[pending[k]] = Opposite(t)
    PROVE  IInv'
  <1>1. /\ n \in Nat /\ n + 1 \in Event /\ n' = n + 1 /\ phase[n + 1] = "none"
        /\ key'[n + 1] = k /\ type'[n + 1] = t
        /\ \A j \in Event \ {n + 1} :
             key'[j] = key[j] /\ type'[j] = type[j] /\ partner'[j] = partner[j]
        /\ up'[k] = (t = "connect")
        /\ calm'[k] => calm[k] /\ up[k] # (t = "connect") /\ ~InCallback(k)
        /\ \A c \in Key \ {k} : up'[c] = up[c] /\ calm'[c] = calm[c] /\ pending'[c] = pending[c]
        /\ queue' = queue /\ sending' = sending /\ sending <= n
    BY OfferFacts DEF sender
  <1>2. PICK e \in 1..n :
            /\ e = pending[k] /\ key[e] = k /\ type[e] = Opposite(t) /\ InFlight(e)
            /\ pending'[k] = 0 /\ phase'[n + 1] = "swallowed" /\ partner'[n + 1] = e
            /\ phase'[e] = IF phase[e] = "armed" THEN "cancelled" ELSE phase[e]
            /\ \A j \in Event \ {n + 1, e} : phase'[j] = phase[j]
    BY OfferFlap
  <1>3. e \in Event /\ e # n + 1 /\ e # 0 /\ 1..n \subseteq Event /\ n + 1 \notin 1..n
    BY <1>1, WebhooksAssumption DEF Event
  <1>4. /\ key \in [Event -> Key] /\ type \in [Event -> Type] /\ phase \in [Event -> Phase]
        /\ pending \in [Key -> Event \cup {0}] /\ up \in [Key -> BOOLEAN]
        /\ \A j \in 1..Len(queue) : queue[j] \in Event
    BY DEF IInv, TypeOK
  <1>5. TypeOK'
    BY OfferType
  <1>6. Offered'
    <2>1. \A i \in Event : phase'[i] # "none" => i <= n + 1
      BY <1>1, <1>2, <1>3 DEF IInv, Offered, InFlight, Event
    <2>2. \A i \in Event : phase'[i] \in {"armed", "queued"} => type'[i] # "direct"
      BY <1>1, <1>2, <1>3 DEF IInv, Offered
    <2>3. \A j \in 1..Len(queue) : queue[j] <= n + 1
      BY <1>1, <1>4 DEF IInv, Offered, Event
    <2> QED
      BY <1>1, <1>5, <2>1, <2>2, <2>3 DEF Offered, TypeOK, Event
  <1>7. ASSUME NEW j \in Event, InFlight(j)'
        PROVE  j # n + 1 /\ InFlight(j) /\ key'[j] = key[j] /\ type'[j] = type[j]
               /\ (j = e => phase[j] # "armed") /\ phase'[j] = phase[j]
    BY <1>1, <1>2, <1>3, <1>7 DEF InFlight
  <1>8. ListedInFlight'
    <2> SUFFICES ASSUME NEW c \in Key, pending'[c] # 0
                 PROVE  pending'[c] <= n + 1 /\ key'[pending'[c]] = c
                        /\ type'[pending'[c]] # "direct"
                        /\ phase'[pending'[c]] \in {"armed", "dispatching", "queued"}
      BY <1>1 DEF ListedInFlight, InFlight
    <2>1. c # k /\ pending'[c] = pending[c]
      BY <1>1, <1>2
    <2>2. pending[c] <= n /\ key[pending[c]] = c /\ InFlight(pending[c]) /\ pending[c] \in Event
      BY <1>4, <2>1 DEF IInv, ListedInFlight
    <2>3. pending[c] # e /\ pending[c] # n + 1
      BY <1>1, <1>2, <2>1, <2>2 DEF Event
    <2> QED
      BY <1>1, <1>2, <2>1, <2>2, <2>3 DEF InFlight, Event
  <1>9. Pairs'
    <2>0. ASSUME NEW i \in Event, phase[i] = "swallowed"
          PROVE  /\ i # n + 1 /\ i # e /\ partner[i] \in 1..n /\ partner[i] # e
                 /\ partner'[i] = partner[i] /\ phase'[partner[i]] # "swallowed"
      BY <1>1, <1>2, <1>3, <2>0 DEF IInv, Pairs, InFlight
    <2> SUFFICES ASSUME NEW i \in Event, phase'[i] = "swallowed"
                 PROVE  /\ partner'[i] \in 1..n' /\ key'[partner'[i]] = key'[i]
                        /\ type'[i] \in {"connect", "disconnect"}
                        /\ type'[partner'[i]] = Opposite(type'[i])
                        /\ phase'[partner'[i]] # "swallowed"
                        /\ \A c \in Key : pending'[c] # partner'[i]
                        /\ \A j \in Event :
                             phase'[j] = "swallowed" /\ partner'[j] = partner'[i] => j = i
      BY DEF Pairs, Opposite
    <2>1. \A j \in Event : phase'[j] = "swallowed" => j = n + 1 \/ phase[j] = "swallowed"
      BY <1>2, <1>3
    <2>2. CASE i = n + 1
      <3>1. partner'[i] \in 1..n' /\ key'[partner'[i]] = key'[i]
        BY <1>1, <1>2, <1>3, <2>2
      <3>2. type'[i] \in {"connect", "disconnect"} /\ type'[partner'[i]] = Opposite(type'[i])
        BY <1>1, <1>2, <1>3, <2>2
      <3>3. phase'[partner'[i]] # "swallowed"
        BY <1>1, <1>2, <1>3, <2>2 DEF InFlight
      <3>4. \A c \in Key : pending'[c] # partner'[i]
        BY <1>1, <1>2, <1>3, <2>2 DEF IInv, ListedInFlight
      <3>5. \A j \in Event : phase'[j] = "swallowed" /\ partner'[j] = partner'[i] => j = i
        BY <1>2, <2>0, <2>1, <2>2
      <3> QED
        BY <3>1, <3>2, <3>3, <3>4, <3>5
    <2>3. CASE phase[i] = "swallowed"
      <3>1. /\ i # n + 1 /\ partner'[i] = partner[i] /\ partner[i] \in 1..n /\ partner[i] # e
            /\ phase'[partner[i]] # "swallowed" /\ partner[i] \in Event \ {n + 1}
        BY <2>0, <2>3, <1>3
      <3>2. /\ key[partner[i]] = key[i]
            /\ type[i] \in {"connect", "disconnect"} /\ type[partner[i]] = Opposite(type[i])
            /\ \A c \in Key : pending[c] # partner[i]
            /\ \A j \in Event : phase[j] = "swallowed" /\ partner[j] = partner[i] => j = i
        BY <2>3 DEF IInv, Pairs
      <3>3. \A c \in Key : pending'[c] # partner[i]
        BY <1>1, <1>2, <3>1, <3>2
      <3>4. \A j \in Event : phase'[j] = "swallowed" /\ partner'[j] = partner'[i] => j = i
        BY <1>2, <2>0, <2>1, <3>1, <3>2
      <3>5. partner[i] \in 1..n'
        BY <1>1, <3>1
      <3> QED
        BY <1>1, <3>1, <3>2, <3>3, <3>4, <3>5
    <2> QED
      BY <2>1, <2>2, <2>3
  <1>10. \A c \in Key : calm'[c] => calm[c]
    BY <1>1
  <1>11. OneInFlight'
    <2> SUFFICES ASSUME NEW i \in Event, NEW j \in Event, InFlight(i)', InFlight(j)',
                        key'[i] = key'[j], calm'[key'[i]]
                 PROVE  i = j
      BY DEF OneInFlight
    <2>1. InFlight(i) /\ InFlight(j) /\ key[i] = key[j] /\ key'[i] = key[i]
      BY <1>7
    <2> QED
      BY <1>4, <1>10, <2>1 DEF IInv, OneInFlight
  <1>12. WaitingIsListed'
    <2> SUFFICES ASSUME NEW j \in 1..n', phase'[j] = "armed", calm'[key'[j]]
                 PROVE  pending'[key'[j]] = j
      BY DEF WaitingIsListed
    <2>1. j # n + 1 /\ j \in 1..n /\ j \in Event \ {n + 1}
      BY <1>1, <1>2, <1>3
    <2>2. j # e /\ phase[j] = "armed" /\ key'[j] = key[j]
      BY <1>1, <1>2, <2>1
    <2>3. pending[key[j]] = j
      BY <1>4, <1>10, <2>1, <2>2 DEF IInv, WaitingIsListed
    <2> QED
      BY <1>1, <1>2, <1>4, <2>1, <2>2, <2>3
  <1>13. ToldOrUnderWay'
    <2> SUFFICES ASSUME NEW c \in Key, calm'[c]
                 PROVE  \E v \in BOOLEAN :
                            /\ Tells(c, v)'
                            /\ \/ (v <=> up'[c]) /\ Idle(c)'
                               \/ (v <=> ~up'[c]) /\ UnderWay(c)'
      BY DEF ToldOrUnderWay
    <2>1. PICK v \in BOOLEAN :
            /\ Tells(c, v)
            /\ \/ (v <=> up[c]) /\ Idle(c)
               \/ (v <=> ~up[c]) /\ UnderWay(c)
      BY <1>10 DEF IInv, ToldOrUnderWay
    <2>2. Tells(c, v)'
      BY <2>1, OfferTells
    <2>3. CASE c = k
      <3>1. phase[e] = "armed"
        BY <1>2, <1>3, <2>3, OfferCalm
      <3>2. ~Idle(c)
        BY <1>2, <1>3, <2>3, <3>1 DEF Idle
      <3>3. v <=> ~up[c]
        BY <2>1, <3>2
      <3>4. up'[c] <=> ~up[c]
        <4>1. up[k] \in BOOLEAN /\ up'[k] = (t = "connect") /\ up[k] # (t = "connect")
          BY <1>1, <1>4, <2>3
        <4> QED
          BY <2>3, <4>1, Zenon
      <3>5. Idle(c)'
        <4> SUFFICES ASSUME NEW j \in Event, key'[j] = c, InFlight(j)'
                     PROVE  phase'[j] = "queued"
          BY DEF Idle
        <4>1. InFlight(j) /\ key[j] = k /\ j # e
          BY <1>7, <2>3, <3>1
        <4>2. j = pending[k]
          BY <2>3, <4>1, OfferCalm
        <4> QED
          BY <1>2, <4>1, <4>2
      <3> QED
        BY <2>2, <3>3, <3>4, <3>5
    <2>4. CASE c # k
      <3>1. up'[c] = up[c]
        BY <1>1, <2>4
      <3>2. Idle(c) => Idle(c)'
        <4> SUFFICES ASSUME Idle(c), NEW j \in Event, key'[j] = c, InFlight(j)'
                     PROVE  phase'[j] = "queued"
          BY DEF Idle
        <4> QED
          BY <1>7 DEF Idle
      <3>3. UnderWay(c) => UnderWay(c)'
        <4> SUFFICES ASSUME NEW i \in Event, key[i] = c, type[i] # "direct",
                            phase[i] \in {"armed", "dispatching"}, up[c] <=> type[i] = "connect"
                     PROVE  UnderWay(c)'
          BY DEF UnderWay, About, Says
        <4>1. i # e /\ i # n + 1
          BY <1>1, <1>2, <2>4
        <4>2. key'[i] = c /\ type'[i] = type[i] /\ phase'[i] = phase[i]
          BY <1>1, <1>2, <4>1
        <4> QED
          BY <3>1, <4>2 DEF UnderWay, About, Says
      <3> QED
        BY <2>1, <2>2, <3>1, <3>2, <3>3
    <2> QED
      BY <2>3, <2>4
  <1> QED
    BY <1>5, <1>6, <1>8, <1>9, <1>11, <1>12, <1>13 DEF IInv

\* An event that is listed.
LEMMA OfferListedStep ==
    ASSUME IInv, NEW k \in Key, NEW t \in {"connect", "disconnect"}, Offer(k, t),
           ~(pending[k] # 0 /\ type[pending[k]] = Opposite(t))
    PROVE  IInv'
  <1>1. /\ n \in Nat /\ n + 1 \in Event /\ n' = n + 1 /\ phase[n + 1] = "none"
        /\ key'[n + 1] = k /\ type'[n + 1] = t
        /\ \A j \in Event \ {n + 1} :
             key'[j] = key[j] /\ type'[j] = type[j] /\ partner'[j] = partner[j]
        /\ up'[k] = (t = "connect")
        /\ calm'[k] => calm[k] /\ up[k] # (t = "connect") /\ ~InCallback(k)
        /\ \A c \in Key \ {k} : up'[c] = up[c] /\ calm'[c] = calm[c] /\ pending'[c] = pending[c]
        /\ queue' = queue /\ sending' = sending /\ sending <= n
    BY OfferFacts DEF sender
  <1>2. /\ pending'[k] = n + 1 /\ phase'[n + 1] = "armed"
        /\ \A j \in Event \ {n + 1} : phase'[j] = phase[j]
    BY OfferListed
  <1>3. 1..n \subseteq Event /\ n + 1 \notin 1..n /\ 1..n \subseteq 1..(n + 1)
    BY <1>1, WebhooksAssumption DEF Event
  <1>4. /\ key \in [Event -> Key] /\ type \in [Event -> Type] /\ phase \in [Event -> Phase]
        /\ pending \in [Key -> Event \cup {0}] /\ up \in [Key -> BOOLEAN]
        /\ \A j \in 1..Len(queue) : queue[j] \in Event
    BY DEF IInv, TypeOK
  <1>5. TypeOK'
    BY OfferType
  <1>6. Offered'
    <2>1. \A i \in Event : phase'[i] # "none" => i <= n + 1
      BY <1>1, <1>2 DEF IInv, Offered, Event
    <2>2. \A i \in Event : phase'[i] \in {"armed", "queued"} => type'[i] # "direct"
      BY <1>1, <1>2 DEF IInv, Offered
    <2>3. \A j \in 1..Len(queue) : queue[j] <= n + 1
      BY <1>1, <1>4 DEF IInv, Offered, Event
    <2> QED
      BY <1>1, <1>5, <2>1, <2>2, <2>3 DEF Offered, TypeOK, Event
  <1>7. \A c \in Key : calm'[c] => calm[c]
    BY <1>1
  <1>8. ListedInFlight'
    <2> SUFFICES ASSUME NEW c \in Key, pending'[c] # 0
                 PROVE  pending'[c] <= n + 1 /\ key'[pending'[c]] = c
                        /\ type'[pending'[c]] # "direct"
                        /\ phase'[pending'[c]] \in {"armed", "dispatching", "queued"}
      BY <1>1 DEF ListedInFlight, InFlight
    <2>1. CASE c = k
      BY <1>1, <1>2, <2>1
    <2>2. CASE c # k
      <3>1. pending'[c] = pending[c]
        BY <1>1, <2>2
      <3>2. pending[c] <= n /\ key[pending[c]] = c /\ InFlight(pending[c]) /\ pending[c] \in Event
        BY <1>4, <3>1 DEF IInv, ListedInFlight
      <3>3. pending[c] # n + 1
        BY <1>1, <3>2 DEF Event
      <3> QED
        BY <1>1, <1>2, <3>1, <3>2, <3>3 DEF InFlight, Event
    <2> QED
      BY <2>1, <2>2
  <1>9. Pairs'
    <2> SUFFICES ASSUME NEW i \in Event, phase'[i] = "swallowed"
                 PROVE  /\ partner'[i] \in 1..n' /\ key'[partner'[i]] = key'[i]
                        /\ type'[i] \in {"connect", "disconnect"}
                        /\ type'[partner'[i]] = Opposite(type'[i])
                        /\ phase'[partner'[i]] # "swallowed"
                        /\ \A c \in Key : pending'[c] # partner'[i]
                        /\ \A j \in Event :
                             phase'[j] = "swallowed" /\ partner'[j] = partner'[i] => j = i
      BY DEF Pairs, Opposite
    <2>1. \A j \in Event : phase'[j] = "swallowed" =>
            j # n + 1 /\ phase[j] = "swallowed" /\ partner'[j] = partner[j]
      BY <1>1, <1>2
    <2>2. /\ partner[i] \in 1..n /\ key[partner[i]] = key[i]
          /\ type[i] \in {"connect", "disconnect"} /\ type[partner[i]] = Opposite(type[i])
          /\ phase[partner[i]] # "swallowed"
          /\ \A c \in Key : pending[c] # partner[i]
          /\ \A j \in Event : phase[j] = "swallowed" /\ partner[j] = partner[i] => j = i
      BY <2>1 DEF IInv, Pairs
    <2>3. partner'[i] = partner[i] /\ partner[i] \in Event \ {n + 1} /\ partner[i] \in 1..n'
      BY <1>1, <1>3, <2>1, <2>2
    <2>4. \A c \in Key : pending'[c] # partner[i]
      BY <1>1, <1>2, <2>2, <2>3
    <2>5. \A j \in Event : phase'[j] = "swallowed" /\ partner'[j] = partner'[i] => j = i
      BY <2>1, <2>2, <2>3
    <2> QED
      BY <1>1, <1>2, <2>1, <2>2, <2>3, <2>4, <2>5
  <1>10. ASSUME calm'[k], NEW j \in Event, key[j] = k PROVE ~InFlight(j)
    <2> SUFFICES ASSUME InFlight(j) PROVE FALSE
      OBVIOUS
    <2>1. j = pending[k] /\ type[j] = Opposite(t) /\ j # 0
      BY <1>10, OfferCalm DEF Event
    <2> QED
      BY <2>1
  <1>11. ASSUME NEW j \in Event, j # n + 1
         PROVE  (InFlight(j)' <=> InFlight(j)) /\ key'[j] = key[j] /\ phase'[j] = phase[j]
    BY <1>1, <1>2, <1>11 DEF InFlight
  <1>12. OneInFlight'
    <2> SUFFICES ASSUME NEW i \in Event, NEW j \in Event, InFlight(i)', InFlight(j)',
                        key'[i] = key'[j], calm'[key'[i]]
                 PROVE  i = j
      BY DEF OneInFlight
    <2>1. CASE i # n + 1 /\ j # n + 1
      BY <1>4, <1>7, <1>11, <2>1 DEF IInv, OneInFlight
    <2>2. CASE i = n + 1 /\ j # n + 1
      BY <1>1, <1>10, <1>11, <2>2
    <2>3. CASE i # n + 1 /\ j = n + 1
      BY <1>1, <1>10, <1>11, <2>3
    <2> QED
      BY <2>1, <2>2, <2>3
  <1>13. WaitingIsListed'
    <2> SUFFICES ASSUME NEW j \in 1..n', phase'[j] = "armed", calm'[key'[j]]
                 PROVE  pending'[key'[j]] = j
      BY DEF WaitingIsListed
    <2>1. CASE j = n + 1
      BY <1>1, <1>2, <2>1
    <2>2. CASE j # n + 1
      <3>1. j \in 1..n /\ j \in Event
        BY <1>1, <1>3, <2>2
      <3>2. phase[j] = "armed" /\ key'[j] = key[j] /\ type[j] # "direct"
        BY <1>1, <1>2, <2>2, <3>1 DEF IInv, Offered
      <3>3. key[j] # k
        BY <1>10, <3>1, <3>2 DEF InFlight
      <3> QED
        BY <1>1, <1>4, <3>1, <3>2, <3>3 DEF IInv, WaitingIsListed
    <2> QED
      BY <2>1, <2>2
  <1>14. ToldOrUnderWay'
    <2> SUFFICES ASSUME NEW c \in Key, calm'[c]
                 PROVE  \E v \in BOOLEAN :
                            /\ Tells(c, v)'
                            /\ \/ (v <=> up'[c]) /\ Idle(c)'
                               \/ (v <=> ~up'[c]) /\ UnderWay(c)'
      BY DEF ToldOrUnderWay
    <2>1. PICK v \in BOOLEAN :
            /\ Tells(c, v)
            /\ \/ (v <=> up[c]) /\ Idle(c)
               \/ (v <=> ~up[c]) /\ UnderWay(c)
      BY <1>7 DEF IInv, ToldOrUnderWay
    <2>2. Tells(c, v)'
      BY <2>1, OfferTells
    <2>3. CASE c = k
      <3>1. ~UnderWay(c)
        BY <1>10, <2>3 DEF UnderWay, About, Says, InFlight
      <3>2. v <=> up[c]
        BY <2>1, <3>1
      <3>3. up'[c] <=> ~up[c]
        <4>1. up[k] \in BOOLEAN /\ up'[k] = (t = "connect") /\ up[k] # (t = "connect")
          BY <1>1, <1>4, <2>3
        <4> QED
          BY <2>3, <4>1, Zenon
      <3>4. UnderWay(c)'
        <4>1. up'[c] <=> type'[n + 1] = "connect"
          BY <1>1, <2>3
        <4>2. key'[n + 1] = c /\ type'[n + 1] # "direct" /\ phase'[n + 1] \in {"armed", "dispatching"}
          BY <1>1, <1>2, <2>3
        <4> QED
          BY <1>1, <4>1, <4>2 DEF UnderWay, About, Says
      <3> QED
        BY <2>2, <3>2, <3>3, <3>4
    <2>4. CASE c # k
      <3>1. up'[c] = up[c]
        BY <1>1, <2>4
      <3>2. Idle(c) => Idle(c)'
        <4> SUFFICES ASSUME Idle(c), NEW j \in Event, key'[j] = c, InFlight(j)'
                     PROVE  phase'[j] = "queued"
          BY DEF Idle
        <4>1. j # n + 1
          BY <1>1, <2>4
        <4> QED
          BY <1>11, <4>1 DEF Idle
      <3>3. UnderWay(c) => UnderWay(c)'
        <4> SUFFICES ASSUME NEW i \in Event, key[i] = c, type[i] # "direct",
                            phase[i] \in {"armed", "dispatching"}, up[c] <=> type[i] = "connect"
                     PROVE  UnderWay(c)'
          BY DEF UnderWay, About, Says
        <4>1. i # n + 1
          BY <1>1
        <4>2. key'[i] = c /\ type'[i] = type[i] /\ phase'[i] = phase[i]
          BY <1>1, <1>2, <4>1
        <4> QED
          BY <3>1, <4>2 DEF UnderWay, About, Says
      <3> QED
        BY <2>1, <2>2, <3>1, <3>2, <3>3
    <2> QED
      BY <2>3, <2>4
  <1> QED
    BY <1>5, <1>6, <1>8, <1>9, <1>12, <1>13, <1>14 DEF IInv

-----------------------------------------------------------------------------
(* The steps that follow.                                                  *)

\* Steps that leave the events, the list and the queue alone.
LEMMA IdleStep ==
    ASSUME IInv, TypeOK', UNCHANGED <<n, key, type, phase, pending, partner, up, calm, queue, sender>>
    PROVE  IInv'
  BY DEF Heard, sender, IInv, Offered, ListedInFlight, Pairs, OneInFlight, WaitingIsListed, ToldOrUnderWay,
         InFlight, Tells, Idle, UnderWay, About

\* An event that is not held back is none of flap detection's.
LEMMA OfferDirectStep ==
    ASSUME IInv, NEW k \in Key, OfferDirect(k)
    PROVE  IInv'
  <1>1. n \in Nat /\ n + 1 \in Event /\ n' = n + 1 /\ 1..n \subseteq 1..(n + 1) /\ 1..n \subseteq Event
    BY WebhooksAssumption DEF IInv, TypeOK, Event, OfferDirect
  <1>2. /\ key \in [Event -> Key] /\ type \in [Event -> Type] /\ phase \in [Event -> Phase]
        /\ pending \in [Key -> Event \cup {0}] /\ queue \in Seq(Event)
        /\ \A j \in 1..Len(queue) : queue[j] \in Event
    BY DEF IInv, TypeOK
  <1>3. /\ type'[n + 1] = "direct" /\ phase'[n + 1] = "dispatching" /\ phase[n + 1] = "none"
        /\ \A j \in Event \ {n + 1} :
             key'[j] = key[j] /\ type'[j] = type[j] /\ phase'[j] = phase[j]
        /\ UNCHANGED <<pending, partner, up, calm, queue, sender>> /\ sending <= n
    BY <1>1, <1>2 DEF OfferDirect, IInv, Offered
  <1>4. \A j \in Event : InFlight(j)' <=> j # n + 1 /\ InFlight(j)
    BY <1>1, <1>3 DEF InFlight
  <1>5. TypeOK'
    <2>1. n' \in 0..MaxEvents
      BY <1>1 DEF Event
    <2>2. /\ key' \in [Event -> Key] /\ type' \in [Event -> Type] /\ phase' \in [Event -> Phase]
      BY <1>2 DEF OfferDirect, Type, Phase
    <2> QED
      BY <2>1, <2>2 DEF OfferDirect, sender, IInv, TypeOK
  <1>6. Offered'
    <2>1. \A i \in Event : phase'[i] # "none" => i <= n + 1
      BY <1>1, <1>3 DEF IInv, Offered, Event
    <2>2. \A i \in Event : phase'[i] \in {"armed", "queued"} => type'[i] # "direct"
      BY <1>3 DEF IInv, Offered
    <2>3. \A j \in 1..Len(queue) : queue[j] <= n + 1
      BY <1>1, <1>2 DEF IInv, Offered, Event
    <2> QED
      BY <1>1, <1>3, <1>5, <2>1, <2>2, <2>3 DEF Offered, sender, TypeOK, Event
  <1>7. ListedInFlight'
    <2> SUFFICES ASSUME NEW c \in Key, pending[c] # 0
                 PROVE  pending[c] <= n + 1 /\ key'[pending[c]] = c
                        /\ type'[pending[c]] # "direct"
                        /\ phase'[pending[c]] \in {"armed", "dispatching", "queued"}
      BY <1>1, <1>3 DEF ListedInFlight, InFlight
    <2>1. pending[c] <= n /\ key[pending[c]] = c /\ InFlight(pending[c]) /\ pending[c] \in Event
      BY <1>2 DEF IInv, ListedInFlight
    <2>2. pending[c] # n + 1
      BY <1>3, <2>1 DEF InFlight
    <2> QED
      BY <1>1, <1>3, <2>1, <2>2 DEF InFlight, Event
  <1>8. Pairs'
    <2> SUFFICES ASSUME NEW i \in Event, phase'[i] = "swallowed"
                 PROVE  /\ partner[i] \in 1..n' /\ key'[partner[i]] = key'[i]
                        /\ type'[i] \in {"connect", "disconnect"}
                        /\ type'[partner[i]] = Opposite(type'[i])
                        /\ phase'[partner[i]] # "swallowed"
                        /\ \A c \in Key : pending[c] # partner[i]
                        /\ \A j \in Event :
                             phase'[j] = "swallowed" /\ partner[j] = partner[i] => j = i
      BY <1>3 DEF Pairs, Opposite
    <2>1. \A j \in Event : phase'[j] = "swallowed" => j # n + 1 /\ phase[j] = "swallowed"
      BY <1>3
    <2>2. /\ partner[i] \in 1..n /\ key[partner[i]] = key[i]
          /\ type[i] \in {"connect", "disconnect"} /\ type[partner[i]] = Opposite(type[i])
          /\ phase[partner[i]] # "swallowed"
          /\ \A c \in Key : pending[c] # partner[i]
          /\ \A j \in Event : phase[j] = "swallowed" /\ partner[j] = partner[i] => j = i
      BY <2>1 DEF IInv, Pairs
    <2>3. partner[i] \in Event \ {n + 1} /\ partner[i] \in 1..n'
      BY <1>1, <2>2
    <2> QED
      BY <1>3, <2>1, <2>2, <2>3
  <1>9. OneInFlight'
    BY <1>3, <1>4 DEF IInv, OneInFlight
  <1>10. WaitingIsListed'
    <2> SUFFICES ASSUME NEW j \in 1..(n + 1), phase'[j] = "armed", calm[key'[j]]
                 PROVE  pending[key'[j]] = j
      BY <1>1, <1>3 DEF WaitingIsListed
    <2>1. j \in 1..n /\ j \in Event \ {n + 1}
      BY <1>1, <1>3
    <2> QED
      BY <1>3, <2>1 DEF IInv, WaitingIsListed
  <1>11. ToldOrUnderWay'
    <2> SUFFICES ASSUME NEW c \in Key, calm[c]
                 PROVE  \E v \in BOOLEAN :
                            /\ Tells(c, v)'
                            /\ \/ (v <=> up[c]) /\ Idle(c)'
                               \/ (v <=> ~up[c]) /\ UnderWay(c)'
      BY <1>3 DEF ToldOrUnderWay
    <2>1. PICK v \in BOOLEAN :
            /\ Tells(c, v)
            /\ \/ (v <=> up[c]) /\ Idle(c)
               \/ (v <=> ~up[c]) /\ UnderWay(c)
      BY DEF IInv, ToldOrUnderWay
    <2>2. Tells(c, v)'
      <3>1. \A j \in 1..Len(queue) :
                key'[queue[j]] = key[queue[j]] /\ type'[queue[j]] = type[queue[j]]
        <4>1. \A j \in 1..Len(queue) : queue[j] \in Event \ {n + 1}
          BY <1>1, <1>2 DEF IInv, Offered
        <4> QED
          BY <1>3, <4>1
      <3>2. Heard(c, v) = Heard(c, v)'
        <4>1. sending # 0 => sending \in Event \ {n + 1}
          BY <1>1, <1>3 DEF IInv, TypeOK, Event
        <4>2. sending # 0 =>
                (About(sending, c)' <=> About(sending, c)) /\ type'[sending] = type[sending]
          BY <1>3, <4>1 DEF About, Says, sender
        <4> QED
          BY <1>3, <4>2 DEF Heard, sender, About
      <3>3. TellsIn(queue, Heard(c, v)', key', type', c, v)
        <4>1. Heard(c, v) \in BOOLEAN /\ Heard(c, v)' \in BOOLEAN
          BY DEF Heard
        <4> QED
          BY <1>2, <2>1, <3>1, <3>2, <4>1, TellsKept DEF Tells
      <3> QED
        BY <1>3, <3>3 DEF Tells
    <2>3. Idle(c) => Idle(c)'
      BY <1>3, <1>4 DEF Idle
    <2>4. UnderWay(c) => UnderWay(c)'
      <3> SUFFICES ASSUME NEW i \in Event, key[i] = c, type[i] # "direct",
                          phase[i] \in {"armed", "dispatching"}, up[c] <=> type[i] = "connect"
                   PROVE  UnderWay(c)'
        BY DEF UnderWay, About, Says
      <3>1. i # n + 1
        BY <1>3
      <3> QED
        BY <1>3, <3>1 DEF UnderWay, About, Says
    <2> QED
      BY <2>1, <2>2, <2>3, <2>4
  <1> QED
    BY <1>5, <1>6, <1>7, <1>8, <1>9, <1>10, <1>11 DEF IInv

\* A callback moves one event that is in flight on: the list shrinks at most,
\* nothing is armed or swallowed.
LEMMA CallbackParts ==
    ASSUME IInv, NEW i \in Event,
           phase[i] \in {"armed", "dispatching", "queued"},
           phase'[i] \in {"dispatching", "queued", "done"},
           \A j \in Event \ {i} : phase'[j] = phase[j],
           phase'[i] = "done" => type[i] = "direct" \/ pending'[key[i]] = 0,
           \A k \in Key : \/ pending'[k] = pending[k]
                          \/ key[i] = k /\ pending'[k] = 0 /\ phase[i] = "queued",
           \A k \in Key : calm'[k] => \/ calm[k]
                                      \/ \A j \in Event : key[j] = k /\ InFlight(j) => j = i,
           n' = n, key' = key, type' = type, partner' = partner, up' = up
    PROVE  ListedInFlight' /\ Pairs' /\ OneInFlight' /\ WaitingIsListed'
  <1>1. /\ key \in [Event -> Key] /\ pending \in [Key -> Event \cup {0}] /\ 0 \notin Event
    BY DEF IInv, TypeOK, Event
  <1>2. \A j \in Event : InFlight(j)' => InFlight(j)
    BY <1>1 DEF InFlight
  <1>3. ListedInFlight'
    <2> SUFFICES ASSUME NEW k \in Key, pending'[k] # 0
                 PROVE  /\ pending'[k] <= n /\ key[pending'[k]] = k
                        /\ type[pending'[k]] # "direct"
                        /\ phase'[pending'[k]] \in {"armed", "dispatching", "queued"}
      BY DEF ListedInFlight, InFlight
    <2>1. pending'[k] = pending[k]
      OBVIOUS
    <2>2. pending[k] <= n /\ key[pending[k]] = k /\ InFlight(pending[k]) /\ pending[k] \in Event
      BY <1>1, <2>1 DEF IInv, ListedInFlight
    <2>3. CASE pending[k] = i
      BY <1>1, <2>1, <2>2, <2>3 DEF InFlight
    <2>4. CASE pending[k] # i
      BY <1>1, <2>1, <2>2, <2>4 DEF InFlight
    <2> QED
      BY <2>3, <2>4
  <1>4. Pairs'
    <2> SUFFICES ASSUME NEW j \in Event, phase'[j] = "swallowed"
                 PROVE  /\ partner[j] \in 1..n /\ key[partner[j]] = key[j]
                        /\ type[j] \in {"connect", "disconnect"}
                        /\ type[partner[j]] = Opposite(type[j])
                        /\ phase'[partner[j]] # "swallowed"
                        /\ \A k \in Key : pending'[k] # partner[j]
                        /\ \A m \in Event :
                             phase'[m] = "swallowed" /\ partner[m] = partner[j] => m = j
      BY DEF Pairs, Opposite
    <2>1. \A m \in Event : phase'[m] = "swallowed" => phase[m] = "swallowed"
      BY <1>1
    <2>2. /\ partner[j] \in 1..n /\ key[partner[j]] = key[j]
          /\ type[j] \in {"connect", "disconnect"} /\ type[partner[j]] = Opposite(type[j])
          /\ phase[partner[j]] # "swallowed"
          /\ \A k \in Key : pending[k] # partner[j]
          /\ \A m \in Event : phase[m] = "swallowed" /\ partner[m] = partner[j] => m = j
      BY <2>1 DEF IInv, Pairs
    <2>3. partner[j] \in Event /\ partner[j] # 0
      BY <2>2 DEF IInv, TypeOK, Event
    <2>4. \A k \in Key : pending'[k] # partner[j]
      BY <2>2, <2>3
    <2> QED
      BY <2>1, <2>2, <2>3, <2>4
  <1>5. OneInFlight'
    BY <1>1, <1>2 DEF IInv, OneInFlight
  <1>6. WaitingIsListed'
    <2> SUFFICES ASSUME NEW j \in 1..n, phase'[j] = "armed", calm'[key[j]]
                 PROVE  pending'[key[j]] = j
      BY DEF WaitingIsListed
    <2>1. j \in Event
      BY WebhooksAssumption DEF IInv, TypeOK, Event
    <2>2. j # i /\ phase[j] = "armed" /\ type[j] # "direct"
      BY <1>1, <2>1 DEF IInv, Offered
    <2>0. calm[key[j]]
      BY <1>1, <2>1, <2>2 DEF InFlight
    <2>3. pending[key[j]] = j
      BY <2>0, <2>2 DEF IInv, WaitingIsListed
    <2>4. ~(key[i] = key[j] /\ phase[i] = "queued")
      BY <2>0, <2>1, <2>2 DEF IInv, OneInFlight, InFlight, Offered
    <2> QED
      BY <1>1, <2>1, <2>3, <2>4
  <1> QED
    BY <1>3, <1>4, <1>5, <1>6

\* The timer of an event fires.
LEMMA FireStep ==
    ASSUME IInv, NEW i \in Event, Fire(i)
    PROVE  IInv'
  <1>1. /\ phase \in [Event -> Phase] /\ type[i] # "direct"
        /\ phase'[i] = "dispatching" /\ \A j \in Event \ {i} : phase'[j] = phase[j]
    BY DEF Fire, IInv, TypeOK, Offered
  <1>2. ListedInFlight' /\ Pairs' /\ OneInFlight' /\ WaitingIsListed'
    <2>1. /\ phase[i] = "armed"
          /\ \A k \in Key : pending'[k] = pending[k]
          /\ UNCHANGED <<n, key, type, partner, up, calm>>
      BY DEF Fire
    <2> QED
      BY <1>1, <2>1, CallbackParts
  <1>3. TypeOK'
    BY DEF Fire, IInv, TypeOK, Phase, sender
  <1>4. Offered'
    BY <1>1 DEF Fire, IInv, Offered, sender
  <1>5. ToldOrUnderWay'
    <2> SUFFICES ASSUME NEW c \in Key, calm[c]
                 PROVE  \E v \in BOOLEAN :
                            /\ Tells(c, v)
                            /\ \/ (v <=> up[c]) /\ Idle(c)'
                               \/ (v <=> ~up[c]) /\ UnderWay(c)'
      BY DEF ToldOrUnderWay, Fire, Tells, Heard, About, sender
    <2>1. Idle(c) => Idle(c)'
      BY <1>1 DEF Idle, InFlight, Fire
    <2>2. UnderWay(c) => UnderWay(c)'
      BY <1>1 DEF UnderWay, About, Fire
    <2> QED
      BY <2>1, <2>2 DEF IInv, ToldOrUnderWay
  <1> QED
    BY <1>2, <1>3, <1>4, <1>5 DEF IInv

\* A callback, or a caller, puts its event into the channel.
LEMMA DispatchStep ==
    ASSUME IInv, NEW i \in Event, Dispatch(i)
    PROVE  IInv'
  <1>1. PICK p : p = IF type[i] = "direct" THEN "done" ELSE "queued"
    OBVIOUS
  <1>2. /\ phase[i] = "dispatching" /\ phase' = [phase EXCEPT ![i] = p]
        /\ queue' = Append(queue, i) /\ Len(queue) < QueueCap
        /\ calm' = [calm EXCEPT ![key[i]] = @ \/ Alone(i)]
        /\ UNCHANGED <<n, key, type, pending, partner, up, sender, monitor, shutdown>>
    BY <1>1 DEF Dispatch
  <1>3. /\ phase \in [Event -> Phase] /\ queue \in Seq(Event)
        /\ phase'[i] = p /\ \A j \in Event \ {i} : phase'[j] = phase[j]
    BY <1>2 DEF IInv, TypeOK
  <1>9. \A c \in Key : calm'[c] => calm[c] \/ (c = key[i] /\ Alone(i))
    BY <1>2, Zenon DEF IInv, TypeOK
  <1>10. Alone(i) => \A j \in Event : key[j] = key[i] /\ InFlight(j) => j = i
    <2>1. \A j \in Event : InFlight(j) => j \in 1..n
      BY DEF InFlight, IInv, Offered, TypeOK, Event
    <2> QED
      BY <2>1 DEF Alone, InFlight
  <1>4. ListedInFlight' /\ Pairs' /\ OneInFlight' /\ WaitingIsListed'
    <2>0. \A c \in Key : calm'[c] => \/ calm[c]
                                     \/ \A j \in Event : key[j] = c /\ InFlight(j) => j = i
      BY <1>9, <1>10
    <2>1. p \in {"queued", "done"} /\ (p = "done" => type[i] = "direct")
      BY <1>1
    <2>2. /\ \A k \in Key : pending'[k] = pending[k]
          /\ UNCHANGED <<n, key, type, partner, up>>
      BY <1>2
    <2> QED
      BY <1>2, <1>3, <2>0, <2>1, <2>2, CallbackParts
  <1>5. TypeOK'
    <2>1. phase' \in [Event -> Phase]
      BY <1>1, <1>2, <1>3 DEF Phase
    <2>2. queue' \in Seq(Event) /\ Len(queue') <= QueueCap
      BY <1>2, <1>3, WebhooksAssumption
    <2>3. calm' \in [Key -> BOOLEAN]
      BY <1>2, Zenon DEF IInv, TypeOK, Alone
    <2> QED
      BY <1>2, <2>1, <2>2, <2>3 DEF IInv, TypeOK, sender
  <1>6. Offered'
    <2>1. \A j \in Event : phase'[j] # "none" => j <= n
      BY <1>2, <1>3 DEF IInv, Offered
    <2>2. \A j \in Event : phase'[j] \in {"armed", "queued"} => type[j] # "direct"
      BY <1>1, <1>3 DEF IInv, Offered
    <2>3. \A j \in 1..Len(queue') : queue'[j] <= n
      <3>1. i <= n
        BY <1>2 DEF IInv, Offered
      <3>2. \A j \in 1..Len(queue) : queue[j] <= n
        BY DEF IInv, Offered
      <3> QED
        BY <1>2, <1>3, <3>1, <3>2
    <2> QED
      BY <1>2, <2>1, <2>2, <2>3 DEF IInv, Offered, sender
  <1>7. ToldOrUnderWay'
    <2> SUFFICES ASSUME NEW c \in Key, calm'[c]
                 PROVE  \E v \in BOOLEAN :
                            /\ TellsIn(queue', Heard(c, v), key, type, c, v)
                            /\ \/ (v <=> up[c]) /\ Idle(c)'
                               \/ (v <=> ~up[c]) /\ UnderWay(c)'
      BY <1>2 DEF ToldOrUnderWay, Tells, Heard, About, sender
    <2>0. \A v : Heard(c, v) \in BOOLEAN
      BY DEF Heard
    <2>1. CASE About(i, c)
      <3>1. InFlight(i) /\ key[i] = c /\ type[i] # "direct"
        BY <1>2, <2>1 DEF InFlight, About, Says
      <3>2. TellsIn(queue', Heard(c, type[i] = "connect"), key, type, c, type[i] = "connect")
        BY <1>2, <1>3, <2>0, <2>1, TellsLast DEF About
      <3>3. (up[c] <=> type[i] = "connect") /\ \A m \in Event : key[m] = c /\ InFlight(m) => m = i
        <4>1. CASE calm[c]
          <5>1. ~Idle(c)
            BY <1>2, <3>1 DEF Idle
          <5>2. PICK j \in Event : /\ About(j, c) /\ phase[j] \in {"armed", "dispatching"}
                                   /\ up[c] <=> type[j] = "connect"
            BY <4>1, <5>1 DEF IInv, ToldOrUnderWay, UnderWay
          <5>3. j = i
            BY <3>1, <4>1, <5>2 DEF IInv, OneInFlight, InFlight, About, Says
          <5> QED
            BY <3>1, <4>1, <5>2, <5>3 DEF IInv, OneInFlight
        <4>2. CASE Alone(i)
          BY <1>10, <3>1, <4>2 DEF Alone
        <4> QED
          BY <1>9, <4>1, <4>2
      <3>4. Idle(c)'
        <4> SUFFICES ASSUME NEW m \in Event, key[m] = c, InFlight(m)'
                     PROVE  phase'[m] = "queued"
          BY <1>2 DEF Idle
        <4>1. InFlight(m)
          BY <1>2, <1>3, <3>1 DEF InFlight
        <4>2. m = i
          BY <3>3, <4>1
        <4> QED
          BY <1>1, <1>3, <3>1, <4>2
      <3>5. (type[i] = "connect") \in BOOLEAN
        OBVIOUS
      <3> QED
        BY <3>2, <3>3, <3>4, <3>5
    <2>2. CASE ~About(i, c)
      <3>0. calm[c]
        BY <1>9, <2>2 DEF About, Says, Alone
      <3>1. PICK v \in BOOLEAN :
              /\ Tells(c, v)
              /\ \/ (v <=> up[c]) /\ Idle(c)
                 \/ (v <=> ~up[c]) /\ UnderWay(c)
        BY <3>0 DEF IInv, ToldOrUnderWay
      <3>2. TellsIn(queue', Heard(c, v), key, type, c, v)
        BY <1>2, <1>3, <2>0, <2>2, <3>1, TellsOthers DEF About, Tells
      <3>3. Idle(c) => Idle(c)'
        BY <1>1, <1>2, <1>3 DEF Idle, InFlight
      <3>4. UnderWay(c) => UnderWay(c)'
        BY <1>2, <1>3, <2>2 DEF UnderWay, About
      <3> QED
        BY <3>1, <3>2, <3>3, <3>4
    <2> QED
      BY <2>1, <2>2
  <1> QED
    BY <1>4, <1>5, <1>6, <1>7 DEF IInv

\* A callback deletes what its key lists.
LEMMA UnlistStep ==
    ASSUME IInv, NEW i \in Event, Unlist(i)
    PROVE  IInv'
  <1>1. /\ phase \in [Event -> Phase] /\ pending \in [Key -> Event \cup {0}] /\ key[i] \in Key
        /\ phase'[i] = "done" /\ \A j \in Event \ {i} : phase'[j] = phase[j]
    BY DEF Unlist, IInv, TypeOK
  <1>2. ListedInFlight' /\ Pairs' /\ OneInFlight' /\ WaitingIsListed'
    <2>1. /\ pending'[key[i]] = 0
          /\ \A k \in Key : pending'[k] = IF k = key[i] THEN 0 ELSE pending[k]
          /\ UNCHANGED <<n, key, type, partner, up, calm>>
          /\ phase[i] = "queued"
      BY <1>1 DEF Unlist
    <2> QED
      BY <1>1, <2>1, CallbackParts
  <1>3. TypeOK'
    BY DEF Unlist, IInv, TypeOK, Phase, sender
  <1>4. Offered'
    BY <1>1 DEF Unlist, IInv, Offered, sender
  <1>5. ToldOrUnderWay'
    <2> SUFFICES ASSUME NEW c \in Key, calm[c]
                 PROVE  \E v \in BOOLEAN :
                            /\ Tells(c, v)
                            /\ \/ (v <=> up[c]) /\ Idle(c)'
                               \/ (v <=> ~up[c]) /\ UnderWay(c)'
      BY DEF ToldOrUnderWay, Unlist, Tells, Heard, About, sender
    <2>1. Idle(c) => Idle(c)'
      BY <1>1 DEF Idle, InFlight, Unlist
    <2>2. UnderWay(c) => UnderWay(c)'
      BY <1>1 DEF UnderWay, About, Unlist
    <2> QED
      BY <2>1, <2>2 DEF IInv, ToldOrUnderWay
  <1> QED
    BY <1>2, <1>3, <1>4, <1>5 DEF IInv

\* Steps of monitorQueue leave the flap detector alone.
LEMMA MonitorParts ==
    ASSUME IInv, UNCHANGED <<n, key, type, phase, pending, partner, up, calm>>
    PROVE  /\ ListedInFlight' /\ Pairs' /\ OneInFlight' /\ WaitingIsListed'
           /\ (\A c \in Key, v \in BOOLEAN : Tells(c, v) => Tells(c, v)') => ToldOrUnderWay'
  <1>1. ListedInFlight' /\ Pairs' /\ OneInFlight' /\ WaitingIsListed'
    BY DEF IInv, ListedInFlight, Pairs, OneInFlight, WaitingIsListed, InFlight
  <1>2. ASSUME \A c \in Key, v \in BOOLEAN : Tells(c, v) => Tells(c, v)' PROVE ToldOrUnderWay'
    <2> SUFFICES ASSUME NEW c \in Key, calm[c]
                 PROVE  \E v \in BOOLEAN :
                            /\ Tells(c, v)'
                            /\ \/ (v <=> up[c]) /\ Idle(c)
                               \/ (v <=> ~up[c]) /\ UnderWay(c)
      BY DEF ToldOrUnderWay, Idle, UnderWay, About, InFlight
    <2> QED
      BY <1>2 DEF IInv, ToldOrUnderWay
  <1> QED
    BY <1>1, <1>2

\* monitorQueue takes the first event of the channel.
LEMMA MonitorTakesStep ==
    ASSUME IInv, MonitorTakes
    PROVE  IInv'
  <1>1. queue \in Seq(Event) /\ queue # <<>> /\ queue' = Tail(queue)
    BY DEF MonitorTakes, IInv, TypeOK
  <1>2. PICK i : i = queue[1]
    OBVIOUS
  <1>3. /\ i \in Event /\ i # 0 /\ i <= n
        /\ Len(queue') <= Len(queue) /\ Len(queue) \in Nat /\ Len(queue') \in Nat
        /\ queue' \in Seq(Event)
        /\ \A j \in 1..Len(queue') : j + 1 \in 1..Len(queue) /\ queue'[j] = queue[j + 1]
    <2>1. 1 \in 1..Len(queue) /\ i \in Event
      BY <1>1, <1>2
    <2>2. /\ Len(queue') <= Len(queue) /\ Len(queue) \in Nat /\ Len(queue') \in Nat
          /\ queue' \in Seq(Event)
          /\ \A j \in 1..Len(queue') : j + 1 \in 1..Len(queue) /\ queue'[j] = queue[j + 1]
      BY <1>1
    <2>3. i <= n
      BY <1>2, <2>1 DEF IInv, Offered
    <2> QED
      BY <2>1, <2>2, <2>3 DEF Event
  <1>4. /\ sending = 0 /\ sending' = i
        /\ UNCHANGED <<n, key, type, phase, pending, partner, up, calm, view, failed, monitor, shutdown>>
    <2>1. Head(queue) = i
      BY <1>1, <1>2
    <2> QED
      BY <2>1 DEF MonitorTakes
  <1>5. TypeOK'
    <2>1. Len(queue') <= QueueCap
      BY <1>3, WebhooksAssumption DEF IInv, TypeOK
    <2> QED
      BY <1>3, <1>4, <2>1 DEF IInv, TypeOK
  <1>6. Offered'
    BY <1>3, <1>4 DEF IInv, Offered
  <1>7. ASSUME NEW c \in Key, NEW v \in BOOLEAN, Tells(c, v) PROVE Tells(c, v)'
    <2>1. Heard(c, v) \in BOOLEAN /\ Heard(c, v)' \in BOOLEAN
      BY DEF Heard
    <2>2. Heard(c, v)' = IF Says(key, type, queue[1], c) THEN (type[queue[1]] = "connect") = v
                         ELSE Heard(c, v)
      BY <1>2, <1>3, <1>4 DEF Heard, About
    <2>3. TellsIn(queue', Heard(c, v)', key, type, c, v)
      BY <1>1, <1>7, <2>1, <2>2, TellsTaken DEF Tells
    <2> QED
      BY <1>4, <2>3 DEF Tells
  <1> QED
    BY <1>4, <1>5, <1>6, <1>7, MonitorParts DEF IInv

\* The send returns: the receiver has been told, or it failed.
LEMMA SendReturnsStep ==
    ASSUME IInv, NEW ok \in BOOLEAN, SendReturns(ok)
    PROVE  IInv'
  <1>1. /\ sending \in Event /\ sending # 0 /\ sending' = 0 /\ key[sending] \in Key
        /\ UNCHANGED <<n, key, type, phase, pending, partner, up, calm, queue, monitor, shutdown>>
    BY DEF SendReturns, IInv, TypeOK
  <1>2. view \in [Key -> BOOLEAN] /\ failed \in [Key -> BOOLEAN] /\ n \in Nat
    BY DEF IInv, TypeOK
  <1>3. /\ \/ view' = view
           \/ view' = [view EXCEPT ![key[sending]] = (type[sending] = "connect")]
        /\ failed' = failed \/ failed' = [failed EXCEPT ![key[sending]] = ~ok]
    BY DEF SendReturns
  <1>4. view' \in [Key -> BOOLEAN] /\ failed' \in [Key -> BOOLEAN]
    BY <1>2, <1>3, Zenon
  <1>5. TypeOK' /\ Offered'
    BY <1>1, <1>2, <1>4 DEF IInv, TypeOK, Offered
  <1>6. ASSUME NEW c \in Key, NEW v \in BOOLEAN PROVE Heard(c, v) => Heard(c, v)'
    <2>1. CASE About(sending, c)
      <3>1. key[sending] = c /\ type[sending] # "direct"
        BY <2>1 DEF About, Says
      <3>2. /\ failed' = [failed EXCEPT ![c] = ~ok]
            /\ view' = [view EXCEPT ![c] = (type[sending] = "connect")] \/ ~ok
        BY <3>1 DEF SendReturns
      <3>3. failed'[c] = ~ok
        BY <1>2, <3>2
      <3>4. ok => view'[c] = (type[sending] = "connect")
        BY <1>2, <3>2
      <3>5. Heard(c, v) => (type[sending] = "connect") = v
        BY <1>1, <2>1 DEF Heard
      <3>6. failed'[c] \/ view'[c] = v => Heard(c, v)'
        BY <1>1 DEF Heard
      <3> QED
        BY <3>3, <3>4, <3>5, <3>6
    <2>2. CASE ~About(sending, c)
      <3>1. view'[c] = view[c] /\ failed'[c] = failed[c]
        <4>1. CASE type[sending] = "direct"
          BY <4>1 DEF SendReturns
        <4>2. CASE key[sending] # c
          BY <1>2, <1>3, <4>2
        <4> QED
          BY <2>2, <4>1, <4>2 DEF About, Says
      <3> QED
        BY <1>1, <2>2, <3>1 DEF Heard
    <2> QED
      BY <2>1, <2>2
  <1>7. ASSUME NEW c \in Key, NEW v \in BOOLEAN, Tells(c, v) PROVE Tells(c, v)'
    <2>1. Heard(c, v) \in BOOLEAN /\ Heard(c, v)' \in BOOLEAN /\ queue \in Seq(Event)
      BY DEF Heard, IInv, TypeOK
    <2>2. TellsIn(queue, Heard(c, v)', key, type, c, v)
      BY <1>6, <1>7, <2>1, TellsKept DEF Tells
    <2> QED
      BY <1>1, <2>2 DEF Tells
  <1> QED
    BY <1>1, <1>5, <1>7, MonitorParts DEF IInv

-----------------------------------------------------------------------------
\* It holds at the start,
LEMMA InitIInv == Init => IInv
  <1> SUFFICES ASSUME Init PROVE IInv
    OBVIOUS
  <1>1. TypeOK
    <2>1. (CHOOSE k \in Key : TRUE) \in Key
      BY WebhooksAssumption
    <2>2. queue \in Seq(Event) /\ Len(queue) <= QueueCap /\ sending \in Event \cup {0}
      BY WebhooksAssumption DEF Init
    <2>3. n \in 0..MaxEvents
      BY WebhooksAssumption DEF Init
    <2>4. /\ up \in [Key -> BOOLEAN] /\ calm \in [Key -> BOOLEAN] /\ view \in [Key -> BOOLEAN]
          /\ failed \in [Key -> BOOLEAN] /\ monitor \in BOOLEAN
      BY DEF Init
    <2>5. /\ key \in [Event -> Key] /\ type \in [Event -> Type] /\ phase \in [Event -> Phase]
          /\ pending \in [Key -> Event \cup {0}] /\ partner \in [Event -> Event \cup {0}]
      BY <2>1 DEF Init, Type, Phase
    <2> QED
      BY <2>2, <2>3, <2>4, <2>5 DEF Init, TypeOK
  <1>2. (\A i \in Event : phase[i] = "none") /\ (\A k \in Key : pending[k] = 0) /\ Len(queue) = 0
    BY DEF Init
  <1>3. Offered /\ ListedInFlight /\ Pairs /\ OneInFlight /\ WaitingIsListed
    <2>1. n = 0 /\ sending = 0
      BY DEF Init
    <2> QED
      BY <1>2, <2>1 DEF Offered, ListedInFlight, Pairs, OneInFlight, WaitingIsListed, InFlight
  <1>4. ToldOrUnderWay
    <2> SUFFICES ASSUME NEW c \in Key
                 PROVE  Tells(c, FALSE) /\ up[c] = FALSE /\ Idle(c)
      BY DEF ToldOrUnderWay
    <2>1. up[c] = FALSE /\ view[c] = FALSE /\ sending = 0
      BY DEF Init
    <2> QED
      BY <1>2, <2>1 DEF Tells, TellsIn, Heard, Idle, InFlight
  <1> QED
    BY <1>1, <1>3, <1>4 DEF IInv

\* and every step keeps it.
LEMMA NextIInv == IInv /\ [Next]_vars => IInv'
  <1> SUFFICES ASSUME IInv, [Next]_vars PROVE IInv'
    OBVIOUS
  <1>1. ASSUME NEW k \in Key, OfferDirect(k) PROVE IInv'
    BY <1>1, OfferDirectStep
  <1>2. ASSUME NEW k \in Key, NEW t \in {"connect", "disconnect"}, Offer(k, t) PROVE IInv'
    BY <1>2, OfferFlapStep, OfferListedStep
  <1>3. ASSUME NEW i \in Event, Callback(i) PROVE IInv'
    BY <1>3, FireStep, DispatchStep, UnlistStep DEF Callback
  <1>4. CASE MonitorTakes
    BY <1>4, MonitorTakesStep
  <1>10. ASSUME NEW ok \in BOOLEAN, SendReturns(ok) PROVE IInv'
    BY <1>10, SendReturnsStep
  <1>5. CASE StopMonitor
    BY <1>5, IdleStep DEF StopMonitor, sender, IInv, TypeOK
  <1>6. CASE CancelContext
    BY <1>6, IdleStep DEF CancelContext, sender, IInv, TypeOK
  <1>7. CASE BeginShutdown
    BY <1>7, IdleStep DEF BeginShutdown, sender, IInv, TypeOK
  <1>8. CASE EndShutdown
    BY <1>8, IdleStep DEF EndShutdown, sender, IInv, TypeOK
  <1>9. CASE Exited \/ UNCHANGED vars
    BY <1>9, IdleStep DEF Exited, vars, sender, IInv, TypeOK
  <1> QED
    BY <1>1, <1>2, <1>3, <1>4, <1>5, <1>6, <1>7, <1>8, <1>9, <1>10 DEF Next

\* The inductive invariant holds in every reachable state.
LEMMA IInvHolds == Spec => []IInv
  BY InitIInv, NextIInv, PTL DEF Spec

(***************************************************************************)
(* Whatever races with the timers, an event that CheckForFlapping swallows *)
(* has a listed event of the other type for itself.                        *)
(***************************************************************************)
THEOREM FlapIsAPairHolds == Spec => []FlapIsAPair
  <1>1. IInv => FlapIsAPair
    <2> SUFFICES ASSUME IInv, NEW i \in 1..n, phase[i] = "swallowed"
                 PROVE  /\ type[partner[i]] = Opposite(type[i]) /\ key[partner[i]] = key[i]
                        /\ phase[partner[i]] # "swallowed"
                        /\ \A j \in 1..n : phase[j] = "swallowed" /\ partner[j] = partner[i] => j = i
      BY DEF FlapIsAPair
    <2>1. 1..n \subseteq Event
      BY WebhooksAssumption DEF IInv, TypeOK, Event
    <2> QED
      BY <2>1 DEF IInv, Pairs
  <1> QED
    BY <1>1, IInvHolds, PTL

(***************************************************************************)
(* The variables keep their types, the channel its bound, and on a calm    *)
(* key fd.pending lists the event whose timer runs.                        *)
(***************************************************************************)
THEOREM PendingIsRightHolds == Spec => []PendingIsRight
  <1>1. IInv => PendingIsRight
    BY DEF IInv, PendingIsRight
  <1> QED
    BY <1>1, IInvHolds, PTL

(***************************************************************************)
(* The receiver of the webhooks ends up with what the source last          *)
(* reported unless the send that should have told it failed, however the   *)
(* timers, callbacks, sends and errors interleave: an event that flaps     *)
(* with one whose callback runs, or that is overwritten, is made up for by *)
(* the next that gets through alone.                                       *)
(***************************************************************************)
THEOREM ViewConvergesHolds == Spec => []ViewConverges
  <1>1. IInv => ViewConverges
    <2> SUFFICES ASSUME IInv, NEW k \in Key, calm[k], Settled(k), ~failed[k]
                 PROVE  view[k] = up[k]
      BY DEF ViewConverges
    <2>1. \A i \in Event : ~(key[i] = k /\ InFlight(i))
      BY DEF Settled, InFlight, IInv, Offered, TypeOK, Event
    <2>2. ~UnderWay(k)
      BY <2>1 DEF UnderWay, About, Says, InFlight
    <2>3. PICK v \in BOOLEAN : Tells(k, v) /\ (v <=> up[k])
      BY <2>2 DEF IInv, ToldOrUnderWay
    <2>4. view[k] = v
      BY <2>3 DEF Tells, TellsIn, Heard, About, Settled, Says
    <2>5. up[k] \in BOOLEAN
      BY DEF IInv, TypeOK
    <2> QED
      BY <2>3, <2>4, <2>5
  <1> QED
    BY <1>1, IInvHolds, PTL
=============================================================================
