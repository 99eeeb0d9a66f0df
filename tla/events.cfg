SPECIFICATION FairSpec
CONSTANTS
    Client = {c1, c2}
    Dispatch = d
    Sink = {s1}
    Pos = {p1}
    Path = {a}
    None = None
    MaxQueued = 2
    MaxFired = 3
    MaxMoved = 1
    HandlerReleases = FALSE
    JoinTimesOut = FALSE
INVARIANTS
    NoLostWakeup
    NothingVanishes
    DispatchEndsFirst
PROPERTIES
    HeardInOrder
    QueueDrains
    FinalReleaseReturns
