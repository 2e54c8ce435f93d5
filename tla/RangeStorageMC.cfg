CONSTANTS
    Values = {v0, v1}
    Zero = v0
    WordMod = 4
    Limit = 3
    Parts <- OneRange
    Sizes = {3}
    DeviceSizes = {0}
    Fills = {v1}
    Loads <- Wrapping
    MissIgnored = FALSE
    MaxDevices = 1
    MaxChanges = 3
SPECIFICATION StorageSpec
PROPERTIES
    RangeKeepsValues
