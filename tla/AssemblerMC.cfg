CONSTANTS
    WordMod = 16
    CoreMacros <- SomeMacros
    Names <- SomeNames
    Requests <- SomeRequests
SPECIFICATION FairAsmSpec
INVARIANTS
    StagesInStep
    CircularExactly
    SuccessIsSound
    ImageInPlace
PROPERTIES
    AssemblyEnds
