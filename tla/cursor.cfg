SPECIFICATION Spec
CONSTANTS
    Cursor = {k1, k2}
    Elem = {a, b, c}
    OwnerDepth = 1
    MaxDepth = 2
INVARIANTS
    TypeOK
    DanglingIsNoticed
    ForEachMayDelete
PROPERTIES
    SeekLandsAtItsIndex
    LoopEnds
