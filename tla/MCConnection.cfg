SPECIFICATION FairSpec
CONSTANTS
    Socket = {s1, s2}
    MaxConnections = 1
INVARIANTS
    AdmissionInv
    LeftOpenWasInFlight
    BacklogDrained
PROPERTY ShutdownEnds
CHECK_DEADLOCK FALSE
