SPECIFICATION FairSpec
CONSTANTS
    Addr = {1, 2}
    MaxNodes = 2
    RxQueue = 1
    MaxUpsets = 2
    MaxAir = 1
PROPERTY MissingCoordinatorLeft
CHECK_DEADLOCK FALSE
