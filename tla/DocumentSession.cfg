SPECIFICATION FairSpec
CONSTANTS
    Jobs = {"a", "b"}
    Checkpoints = {1, 2}
    Reads <- AllReads
    Supplies <- AllSupplies
    Lengths = {4, 5}
    FirstLength <- Unbound
    Limits = {1, 2}
    OpenRequest <- Opener
    Identities <- Requesters
    OpenReads <- Opens
    ServiceReads <- Serves
    Responses <- HostResponses
    Snapshots <- HostSnapshots
    MaxRequests = 4
INVARIANTS
    NeverFailsClosed
    EveryWaitIsHeld
    PhaseIsTrue
PROPERTIES
    ResumeMakesProgress
    RequestsEnd
CHECK_DEADLOCK FALSE
