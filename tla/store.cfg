SPECIFICATION FairBracketSpec
CONSTANTS
    Thread = {t1, t2}
    Node = {n1, n2}
    Cursor = {c1}
    Store = store
    EventSink = {e1, e2}
    PagingSink = {p1, p2}
    Pos = {x1}
    None = None
INVARIANTS
    NoUseAfterFree
    RunningSinkIsInstalled
    InstalledSinkIsHooked
PROPERTIES
    EveryCallReturns
    ClosedServesNothing
    QuietBracketHolds
    ContractSpec
CHECK_DEADLOCK FALSE
