SPECIFICATION DeepSpec
CONSTANTS
    Cursor = {k1, k2}
    Elem = {a, b}
    OwnerDepth = 1
    MaxDepth = 2
INVARIANTS
    DanglingIsNoticed
