SPECIFICATION Spec
CONSTANTS
    MaxSessions = 1
    MaxWorkIds = 2
    NormalCapacity = 2
    CriticalCapacity = 4
    InFlightCapacity = 2
    CounterMax = 20
    EventCapacity = 4
    ProgressCapacity = 1
    ReentryCapacity = 2
    LifecycleCapacity = 1
    PendingResourceCapacity = 1
    PolicyCapacity = 1
    RasterCapacity = 4
    MaxLiveSurfaces = 2
    RequestHistory = 3
    PageCount = 2
    TileCount = 1
    HostGenerations <- TwoGenerations
    Commands <- EndingCommands
    MaxCommands = 2
    MaxRestarts = 1
    Faults <- EveryFault
INVARIANTS
    GenerationHasOneOwner
    OpenHasOneOutcome
    LeaseHasOneOwner
    SurfacesAreAccounted
    RegionsAgree
    ClosingWorkIsDiscarded
    NoInternalError
    EndsAreClean
CHECK_DEADLOCK FALSE
