SPECIFICATION FairSpec
CONSTANTS
    Thread = {t1, t2}
    Store = {a, b}
    Lib = {l1, l2}
    CallsOut <- OneWay
    None = None
    MaxNest = 3
    a = a
    b = b
INVARIANTS
    LibraryOutlivesItsUsers
    OneLibrary
    SectionsNest
PROPERTIES
    EveryCallReturns
