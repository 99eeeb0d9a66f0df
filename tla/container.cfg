SPECIFICATION ComSpec
CONSTANTS
    Width <- NarrowAndWide
    Half <- Halves
    Natural = 32
    Widest = 64
    MaxText = 1
    MaxCells = 3
VIEW ValuesOnly
INVARIANTS
    ReadsBackAsGiven
    CellsKeepTheirMake
PROPERTIES
    NoSilentChange
    ValuesCrossIntact
    RefusalSaysWhy
