SPECIFICATION Spec
CONSTANTS
    Name <- AaB
    BadName <- TooLong
    Scope = {"child"}
    Type = {"int"}
    Data = {0}
    Container = {"list"}
    Pos = {root, x1, x2, x3}
    Root = root
    MaxDepth = 2
    MaxSaved = 0
SYMMETRY PosSymmetry
VIEW TreeOnly
INVARIANTS
    TypeOK
    NamesUnique
    LookupFindsItsNode
PROPERTIES
    HandleNeverFlips
    RefusedOnlyTooDeep
    PathMapSpec
