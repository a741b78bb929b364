SPECIFICATION Spec
CONSTANTS
    k1 = k1
    k2 = k2
    k3 = k3
    Keys <- AllKeys
    TcpKeys <- TcpOnly
    FlagSets <- Flags
    Deltas <- Steps
    MaxTS = 12
    MaxPackets = 5
    IdleTimeout = 4
    MaxLifetime = 7
    SnapshotInterval = 3
    MaxFlows = 2
    GraceWindow = 3
    TickEvery = 4
    TickInterval = 2
SYMMETRY Alike
CHECK_DEADLOCK FALSE
INVARIANTS
    ClosesOnce
    PacketsAccounted
    ExpiryResponsive
    RecordsAreReal
