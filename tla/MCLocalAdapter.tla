--------------------------- MODULE MCLocalAdapter ---------------------------
EXTENDS LocalAdapter, TLC

CONSTANTS s1, s2, c1, c2, u1, u2

\* The client of s1 may sign in as one user and then as the other, s2 never does.
TwoIdentities == [s \in SocketID |-> IF s = s1 THEN {u1, u2} ELSE {}]

\* The goroutines that call the adapter are alike.
CallerSymmetry == Permutations(Caller)
==============================================================================
