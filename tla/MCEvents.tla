------------------------------ MODULE MCEvents ------------------------------
(***************************************************************************)
(* Two nodes with a socket each.  On the first node a batch of an event    *)
(* that excludes the second node's socket, and a bad one; on the second a  *)
(* request, and a client event of its socket, which is subscribed already. *)
(***************************************************************************)
EXTENDS Events

CONSTANTS n1, n2, s1, s2, batch, single, e1, bad, e2, c1

Home == [p \in Source |-> IF p \in {s1, batch} THEN n1 ELSE n2]

Batches ==
    [p \in Source |->
        CASE p = batch -> <<e1, bad>>
          [] p = single -> <<e2>>
          [] p = s2 -> <<c1>>
          [] OTHER -> <<>>]

SocketIds == [m \in Message |-> IF m \in {e1, c1} THEN s2 ELSE Nobody]
=============================================================================
