SPECIFICATION FairSpec
CONSTANTS
    Threads = {h1, h2}
    Jobs = {j1}
    Checkpoints = {c1}
    Requests <- ThreadRequests
    Responses <- ThreadReplies
    Snapshots <- OneSnapshot
    SnapshotLen = 3
    Slack = {0, 1}
    MaxInput = 3
    MaxRead = 2
    MaxCached = 3
    MaxResident = 6
    MaxSegments = 2
    MaxTickets = 1
    MaxSubscribers = 1
    MaxSubscriptions = 2
    MaxMissing = 2
    TicketMax = 2
    MaxSlices = 2
INVARIANTS
    ResidentAccounting
    SlicesAgree
PROPERTIES
    NoCommitAfterChange
    ImplementsTicketStore
    ChangeSettles
CHECK_DEADLOCK FALSE
