SPECIFICATION Spec
CONSTANTS
    Client = {c1}
    Dispatch = d
    Sink = {s1}
    Pos = {p1}
    Path = {a}
    None = None
    MaxQueued = 1
    MaxFired = 1
    MaxMoved = 0
    HandlerReleases = TRUE
    JoinTimesOut = TRUE
INVARIANTS
    DispatchEndsFirst
