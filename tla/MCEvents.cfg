SPECIFICATION FairSpec
CONSTANTS
    n1 = n1
    n2 = n2
    s1 = s1
    s2 = s2
    batch = batch
    single = single
    e1 = e1
    e2 = e2
    bad = bad
    c1 = c1
    Nobody = Nobody
    Node = {n1, n2}
    Socket = {s1, s2}
    Early = {s2}
    Request = {batch, single}
    At <- Home
    Message = {e1, bad, e2, c1}
    Batch <- Batches
    Valid = {e1, e2, c1}
    Except <- SocketIds
    Flaky = {n1}
    MaxExpiries = 1
INVARIANTS
    TypeOK
    ExcludedOnOwnNode
    SameNodeInOrder
    CacheIsLatest
    CachedEventIsKnown
PROPERTIES
    Delivered
CHECK_DEADLOCK FALSE
