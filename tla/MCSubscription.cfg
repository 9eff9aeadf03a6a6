SPECIFICATION FairSpec
CONSTANTS
    s1 = s1
    s2 = s2
    blank = blank
    u1 = u1
    u2 = u2
    presence_c = presence_c
    plain_c = plain_c
    NoUser = NoUser
    NoProc = NoProc
    BlankID = blank
    SocketID = {s1, s2, blank}
    ChannelName = {presence_c, plain_c}
    PresenceChannel = {presence_c}
    UserID = {u1, u2}
    Member <- SameUser
    MaxMembers = 0
    Evicted = {}
    Unreliable = {}
    MaxRequests <- TwoAndOne
INVARIANTS
    MapsAgree
    NoGhostMember
    PlainOccupiedOnce
    NoLockCycle
PROPERTY
    ReadErrorRemoves
