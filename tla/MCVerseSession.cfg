SPECIFICATION FairSpec
CONSTANTS
    W = 2
    BlockLen = 1
    PointLen = 1
    ExtOts = 4
    Shown = 3
    Capacity = 7
    MaxRounds = 2
    MaxThrows = 1
    Commands <- MCCommands
    Machine <- OneMachine
INVARIANTS
    TypeOK
    MessagesWhole
    OneCaseContained
    LogsAgree
    DutiesMet
    NeverStuck
PROPERTY
    BothFinish
CHECK_DEADLOCK FALSE
