CONSTANTS
    Values = {0, 1}
    Default = 0
    Publishers = {2}
    MaxEvents = 4
    CountMod = 256
    MaxHistory = 2
    MaxReads = 2
SPECIFICATION InputSpec
INVARIANTS
    NeverStranded
    IteratesOverReads
PROPERTIES
    UndoRedoExact
