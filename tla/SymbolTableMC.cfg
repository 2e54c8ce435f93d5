CONSTANTS
    Tables = {os, user, other}
    Empty = Empty
    MaxDefines = 2
SYMMETRY Alike
SPECIFICATION SymSpec
INVARIANTS
    SymTypeOK
    StatesCount
    ImportersFollow
    DuplicateExportsFlagged
