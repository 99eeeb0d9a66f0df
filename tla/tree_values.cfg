SPECIFICATION Spec
CONSTANTS
    Name <- AB
    BadName <- TooLong
    Scope = {"child", "attr"}
    Type = {"int"}
    Data = {0, 1}
    Container = {}
    Pos = {root, x1, x2}
    Root = root
    MaxDepth = 1
    MaxSaved = 1
SYMMETRY PosSymmetry
VIEW TreeOnly
PROPERTIES
    PathMapSpec
    NoSilentChange
