SPECIFICATION FairSpec
CONSTANTS
    k1 = k1
    k2 = k2
    Key = {k1, k2}
    MaxEvents = 3
    QueueCap = 1
INVARIANTS
    FlapIsAPair
    PendingIsRight
    ViewConverges
PROPERTY
    EveryEventSettles
