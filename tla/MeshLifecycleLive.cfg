SPECIFICATION LiveSpec
CONSTANTS
    CommandAttempts = 1
    ReconcileAttempts = 2
    GenMod = 16
    CtrlSlots = 3
    MaxPresses = 1
    MaxUpsets = 2
    RestartCost = 2
PROPERTY Converges
