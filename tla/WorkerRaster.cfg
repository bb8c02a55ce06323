SPECIFICATION FairSpec
CONSTANTS
    MaxSessions = 1
    MaxWorkIds = 1
    NormalCapacity = 1
    CriticalCapacity = 4
    InFlightCapacity = 2
    CounterMax = 20
    EventCapacity = 3
    ProgressCapacity = 1
    ReentryCapacity = 2
    LifecycleCapacity = 1
    PendingResourceCapacity = 1
    PolicyCapacity = 1
    RasterCapacity = 2
    MaxLiveSurfaces = 2
    RequestHistory = 3
    PageCount = 2
    TileCount = 1
    HostGenerations <- OneGeneration
    Commands <- Nothing
    MaxCommands = 1
    MaxRestarts = 0
    Faults <- Nothing
PROPERTIES
    GenerationEnds
CHECK_DEADLOCK FALSE
