SPECIFICATION FSpec
CONSTANTS
    SessionIds = {"a", "b", "c"}
    Requests <- FairnessRequests
    Resources = {}
    Deltas = {4}
    NormalCapacity = 4
    PerSessionReservation = 1
    PerSessionCapacity = 2
    CriticalCapacity = 1
    InFlightCapacity = 6
    MaxSessions = 3
    MaxWorkIds = 12
    AgingQuantum = 1
    MaxAgingSteps = 4
    FairnessBurst = 2
    CounterMax = 6
CONSTRAINT FewCriticalEvents
INVARIANTS
    ReservedAdmission
    BoundedBypass
PROPERTIES
    CappedWorkIsFifo
CHECK_DEADLOCK FALSE
