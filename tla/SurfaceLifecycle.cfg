SPECIFICATION Spec
CONSTANTS
    Sessions = {a, b}
    Generations = {1, 2}
    Plans = {p}
    Layouts <- BoundaryLayouts
    Pixels = {x, y}
    Workers = {w1, w2}
    Epochs = {1, 2, 3}
    Renderers = {r1, r2}
    Ticks = {1, 2}
    MaxSessions = 2
    MaxLiveSurfaces = 2
    MaxHandles = 2
    MaxSurfaceIds = 2
    MaxTotalBytes = 12
    LeaseTicks = 2
    MaxDimension = 2
    MaxStride = 8
    MaxSurfaceBytes = 12
    CounterMax = 5
    Blank = Blank
SYMMETRY Symmetry
CONSTRAINT FewSurfacesAcrossRestarts
INVARIANTS
    HandleOwnership
    LiveIsCurrent
    EveryReleaseIsAnswered
    AcquireIsFaithful
CHECK_DEADLOCK FALSE
