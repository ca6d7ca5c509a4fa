SPECIFICATION FairSpec
CONSTANTS
    Addr = {1, 2}
    MaxNodes = 2
    MaxSpeakers = 0
    JoinRetries = 2
    CtrlRing = 2
    RxRing = 1
    MaxUpsets = 3
    MaxAir = 1
    TickBacklog = 0
INVARIANT OnlyActiveSend
PROPERTIES CoordinatorsMerge JoinEnds
CHECK_DEADLOCK FALSE
