SPECIFICATION ScoringSpec
CONSTANTS
    mlp = mlp
    cnn = cnn
    gru = gru
    auto = auto
    primary = primary
    sequence = sequence
    anomaly = anomaly
    p1 = p1
    p2 = p2
    None = None
    Models <- SomeModels
    Roles <- AllRoles
    RoleOf <- Family
    Primary <- primary
    Sequence <- sequence
    Anomaly <- anomaly
    ClassOf <- TopClass
    MaxSwaps = 2
    Shelves <- OnDisk
    AnyTime = FALSE
    Procs <- Pair
    Ops <- AllOps
SYMMETRY Alike
INVARIANTS
    OneActivePerRole
    FileFollowsMemory
    StatusAndTrailAreTrue
    NeverAMix
