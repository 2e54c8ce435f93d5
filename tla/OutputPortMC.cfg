CONSTANTS
    Values = {0, 1}
    Default = 0
    Publishers = {1}
    MaxEvents = 5
    CountMod = 256
    NoValue = NoValue
    MaxHistory = 2
SPECIFICATION OutputSpec
INVARIANTS
    ReaderCatchesUp
    OpenWritesAreLast
    IteratesOverWrites
PROPERTIES
    UndoTakesWritesBack
