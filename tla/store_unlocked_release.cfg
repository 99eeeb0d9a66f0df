SPECIFICATION Spec
CONSTANTS
    Thread = {t1, t2}
    Node = {n1}
    Cursor = {c1}
    Store = store
    EventSink = {e1}
    PagingSink = {p1}
    Pos = {x1}
    None = None
INVARIANTS
    KernelTouchesSerialised
SYMMETRY ThreadSymmetry
CHECK_DEADLOCK FALSE
