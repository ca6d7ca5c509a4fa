SPECIFICATION Spec
CONSTANTS
    Addr = {1, 2, 3}
    MaxNodes = 2
    MaxSpeakers = 1
    JoinRetries = 1
    CtrlRing = 2
    RxRing = 1
    MaxUpsets = 2
    MaxAir = 1
    TickBacklog = 0
INVARIANTS TypeOK PeerTable SlotsDisjoint AssignmentHonoured
CHECK_DEADLOCK FALSE
