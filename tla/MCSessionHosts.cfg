SPECIFICATION Spec
CONSTANTS
    W = 2
    BlockLen = 1
    PointLen = 1
    ExtOts = 4
    Shown = 3
    Capacity = 20
    MaxRounds = 1
    MaxThrows = 0
    Commands <- MCCommandsTwoMachines
    Machine <- TwoMachines
INVARIANT ListsFindOther
CHECK_DEADLOCK FALSE
