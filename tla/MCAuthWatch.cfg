SPECIFICATION FairSpec
CONSTANT None = None
INVARIANTS
    ChannelClosedOnce
    DisconnectedOnce
PROPERTIES
    AcceptedIsKept
    GoroutinesEnd
CHECK_DEADLOCK FALSE
