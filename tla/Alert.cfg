SPECIFICATION FairSpec
CONSTANTS
    k1 = k1
    k2 = k2
    f1 = f1
    f2 = f2
    f3 = f3
    None = None
    InitPolicy <- Loose
    Keys <- TwoKeys
    Flows <- AllFlows
    FlowsOf <- Sweep
    Scores <- OneScore
    Policies <- Swaps
    MaxRecent = 2
    Window = 1
    QueueSize = 1
    MaxFlowIDs = 2
    MaxTime = 3
    MaxObserved = 4
    MaxAdmin = 1
CHECK_DEADLOCK FALSE
INVARIANTS
    ListsAgree
    WindowsAnchored
    CountsAgree
PROPERTIES
    CallsReturn
