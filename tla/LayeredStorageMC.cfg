CONSTANTS
    Values = {v0, v1}
    Zero = v0
    WordMod = 4
    Limit = 2
    Parts <- SomeParts
    Sizes = {2, 3}
    DeviceSizes = {0}
    Fills = {v1}
    Loads <- Wrapping
    MissIgnored = FALSE
    MaxDevices = 2
    MaxChanges = 2
SPECIFICATION StorageSpec
PROPERTIES
    ActsAsOneMemory
    DeltasExact
    SpansNeverLie
