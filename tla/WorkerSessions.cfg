SPECIFICATION FairSpec
CONSTANTS
    MaxSessions = 2
    MaxWorkIds = 2
    NormalCapacity = 2
    CriticalCapacity = 4
    InFlightCapacity = 2
    CounterMax = 20
    EventCapacity = 7
    ProgressCapacity = 1
    ReentryCapacity = 1
    LifecycleCapacity = 1
    PendingResourceCapacity = 1
    PolicyCapacity = 1
    RasterCapacity = 2
    MaxLiveSurfaces = 3
    RequestHistory = 3
    PageCount = 1
    TileCount = 2
    HostGenerations <- OneGeneration
    Commands <- SharingCommands
    MaxCommands = 1
    MaxRestarts = 0
    Faults <- DataFaults
INVARIANTS
    QueuesFit
PROPERTIES
    AcceptedEnds
    DrainEnds
CHECK_DEADLOCK FALSE
