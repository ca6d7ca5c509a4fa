SPECIFICATION Spec
CONSTANTS
    Addr = {1, 2, 3}
    MaxNodes = 2
    RxQueue = 1
    MaxUpsets = 4
    MaxAir = 1
INVARIANTS CoordinatorTable TypeOK MembersListed CleanScan
CHECK_DEADLOCK FALSE
