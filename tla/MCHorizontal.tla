---------------------------- MODULE MCHorizontal ----------------------------
EXTENDS Horizontal

CONSTANTS n1, n2, n3, s1, s2, u1

\* s1 and s2 are on different nodes.
HomeOf == [s \in Socket |-> CASE s = s1 -> n1 [] s = s2 -> n2 [] OTHER -> n3]

\* One user with a connection to each of two nodes.
OneUser == [s \in Socket |-> u1]

\* Between them the two nodes read in every way; n2 terminates.
ReadAndTerminate ==
    {<<n1, "socketsCount">>, <<n1, "members">>, <<n2, "membersCount">>, <<n2, "terminate">>}
==============================================================================
