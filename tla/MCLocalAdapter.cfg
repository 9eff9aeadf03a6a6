SPECIFICATION Spec
CONSTANTS
    s1 = s1
    s2 = s2
    c1 = c1
    c2 = c2
    u1 = u1
    u2 = u2
    NoUser = NoUser
    SocketID = {s1, s2}
    ChannelName = {c1, c2}
    UserID = {u1, u2}
    Caller = {g1, g2}
    Identity <- TwoIdentities
    MaxOccurs = 2
SYMMETRY CallerSymmetry
INVARIANTS
    TypeOK
    NoEmptyEntries
    GaugesRecover
PROPERTIES
    RemovedFromEveryChannel
    RemovedFromOwnUser
