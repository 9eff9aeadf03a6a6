--------------------------- MODULE MCSubscription ---------------------------
EXTENDS Subscription

CONSTANTS s1, s2, blank, u1, u2, presence_c, plain_c

\* Two tabs of one user.
SameUser == [s \in Conn |-> u1]

\* s1 subscribes again, to the same channel or another; s2 only once.
TwoAndOne == [s \in Conn |-> IF s = s1 THEN 2 ELSE 1]

OneEach == [s \in Conn |-> 1]
==============================================================================
