SPECIFICATION Spec
CONSTANTS
    Socket = {s1, s2}
    MaxConnections = 1
INVARIANT
    WithinLimit
CHECK_DEADLOCK FALSE
