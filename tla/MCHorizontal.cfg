SPECIFICATION FairSpec
CONSTANTS
    n1 = n1
    n2 = n2
    n3 = n3
    s1 = s1
    s2 = s2
    u1 = u1
    Node = {n1, n2, n3}
    Socket = {s1, s2}
    Home <- HomeOf
    User = {u1}
    UserOf <- OneUser
    FirstNodes = {n1, n2}
    Fragile = {n2}
    Flaky = {n2}
    Calls <- ReadAndTerminate
    MaxCalls = 1
    MaxRequests = 2
INVARIANTS
    TypeOK
    NothingInvented
    NothingMissed
PROPERTIES
    RequestResolves
    TerminateReachesAll
CHECK_DEADLOCK FALSE
