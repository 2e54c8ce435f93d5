CONSTANTS
    Values = {0, 1}
    Default = 0
    Publishers = {1, 2}
    MaxEvents = 5
    MaxEndpoints = 2
SPECIFICATION EpSpec
CHECK_DEADLOCK FALSE
INVARIANTS
    ChanTypeOK
    ChainIntact
    ForcedTransitionsEnd
    WalksAgree
    StraysComeBack
PROPERTIES
    DeadStayDead
    ImplementsLog
    NoValueSkipped
    NeverDeliversUndone
