CONSTANTS
    MaxOffset = 47
    CharIn = 29
    CharOut = 27
    PwrOff = 28
    RomStart = 32
    Loads = {}
    HostWrites = {}
    RegisterWrites = {}
    InputBytes = {1}
    Breakable = {3}
    Limits = {0, 5}
    MaxInput = 2
    MaxCycles = 6
    MaxPending = 12
    Images <- Reading
SPECIFICATION MachineSpec
PROPERTY ResumesWhereItStopped
