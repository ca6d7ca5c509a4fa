SPECIFICATION Spec
CONSTANTS
    CommandAttempts = 2
    ReconcileAttempts = 2
    GenMod = 16
    CtrlSlots = 3
    MaxPresses = 2
    MaxUpsets = 2
    RestartCost = 2
INVARIANTS TypeOK AckedApplied TonesMatchIntent
