SPECIFICATION FairSpec
CONSTANTS
    SessionIds = {"a"}
    Requests <- LifecycleRequests
    Resources = {"d1", "d2"}
    Deltas = {}
    NormalCapacity = 2
    PerSessionReservation = 1
    PerSessionCapacity = 2
    CriticalCapacity = 2
    InFlightCapacity = 1
    MaxSessions = 1
    MaxWorkIds = 3
    AgingQuantum = 1
    MaxAgingSteps = 1
    FairnessBurst = 1
    CounterMax = 6
INVARIANTS
    QueueIsSound
    DispatchNeverFails
    ResourceOwnership
PROPERTIES
    ImplementsWorkLifecycle
    Progress
CHECK_DEADLOCK FALSE
