SPECIFICATION FairSpec
CONSTANTS
    Bits = {heard}
    Capacity = 2
    RelayRing = 1
    MaxInputs = 1
INVARIANTS TypeOK QuietWhenIdle NoStaleSchedule StatusKept
PROPERTIES OnlyLeaveWhileStopping StopEnds
