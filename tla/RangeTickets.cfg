SPECIFICATION Spec
CONSTANTS
    Threads = {h1}
    Jobs = {j1, j2}
    Checkpoints = {c1, c2}
    Requests <- TicketRequests
    Responses <- TicketReplies
    Snapshots <- TicketSnapshots
    SnapshotLen <- UnknownLen
    Slack = {0}
    MaxInput = 5
    MaxRead = 3
    MaxCached = 4
    MaxResident = 8
    MaxSegments = 2
    MaxTickets = 2
    MaxSubscribers = 2
    MaxSubscriptions = 2
    MaxMissing = 2
    TicketMax = 3
    MaxSlices = 0
INVARIANTS
    StoreIsSound
    ReadyIsReadable
PROPERTIES
    ImplementsTicketStore
SYMMETRY Symmetry
CHECK_DEADLOCK FALSE
