SPECIFICATION MCSpec
CONSTANTS
    Captures <- FourSources
    KindOf <- Kinds
    Fds <- Numbers
    Recycled <- Linux
    Kept <- Second
    Frames <- Arrivals
    QueueCap = 1
    BlockCap = 2
    Blocks = 2
    OutCap = 1
    Bad = {2}
    Scripts <- Streams
    PipeCap = 1
    ChanCap = 1
    Forever = TRUE
    Focuses <- Everything
CHECK_DEADLOCK FALSE
INVARIANTS
    FramesAreItsOwn
    CleanEndIsComplete
PROPERTIES
    SourcesLetGo
