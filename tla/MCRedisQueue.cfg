CONSTANTS
    NoJob = NoJob
    n1 = n1
    n2 = n2
    post = post
    both = both
    junk = junk
    Node = {n1, n2}
    Job = {post, both, junk}
    Malformed = {junk}
    Http = {post, both}
    Sns = {both}
    MaxPushes = 2
    MaxRestarts = 1
SPECIFICATION FairSpec
CHECK_DEADLOCK FALSE
INVARIANTS
    Accounted
    DrainedHoldsOnlyFresh
    OneJobAfterCancel
PROPERTIES
    ImplementsJobQueue
    QueueDrains
