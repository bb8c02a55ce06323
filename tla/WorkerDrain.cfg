SPECIFICATION FairSpec
CONSTANTS
    MaxSessions = 2
    MaxWorkIds = 2
    NormalCapacity = 2
    CriticalCapacity = 4
    InFlightCapacity = 2
    CounterMax = 20
    EventCapacity = 4
    ProgressCapacity = 1
    ReentryCapacity = 2
    LifecycleCapacity = 1
    PendingResourceCapacity = 1
    PolicyCapacity = 1
    RasterCapacity = 4
    MaxLiveSurfaces = 2
    RequestHistory = 3
    PageCount = 1
    TileCount = 1
    HostGenerations <- OneGeneration
    Commands <- OnlyShutdown
    MaxCommands = 1
    MaxRestarts = 0
    Faults <- Nothing
PROPERTIES
    DrainEnds
CHECK_DEADLOCK FALSE
