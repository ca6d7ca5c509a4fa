SPECIFICATION Spec
CONSTANTS
    Addr = {1, 2}
    MaxNodes = 2
    MaxSpeakers = 1
    JoinRetries = 1
    CtrlRing = 2
    RxRing = 1
    MaxUpsets = 4
    MaxAir = 1
    TickBacklog = 0
INVARIANT PublishedGrantsAreMembers
CHECK_DEADLOCK FALSE
