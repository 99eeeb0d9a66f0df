SPECIFICATION Spec
CONSTANTS
    Client = {c1}
    Dispatch = d
    Sink = {s1}
    Pos = {p1}
    Path = {a, b}
    None = None
    MaxQueued = 1
    MaxFired = 1
    MaxMoved = 1
    HandlerReleases = FALSE
    JoinTimesOut = FALSE
INVARIANTS
    StalePathIsEmpty
