SPECIFICATION ComSpec
CONSTANTS
    N = 6
    MaxDepth = 3
INVARIANTS
    ComTypeOK
    PathIsTheStop
PROPERTIES
    WalkIsInOrder
    PushTellsDescent
    LoopEnds
