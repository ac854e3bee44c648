CONSTANTS
    W <- MCW
    BaseOtSizes <- MCBaseOtSizes
    Sizes <- MCSizes
    Input <- MCInput
    BaseOts <- MCBaseOts
    MaxBaseOts = 1
    StreamLen <- MCStreamLen
    Prg <- MCPrg
    Hash <- MCHash
SPECIFICATION FairSpec
INVARIANTS
    TypeOK
    IInv
    EncodesChosen
    StreamsInStep
    PadsFresh
    NeverStuck
PROPERTIES
    ImplementsRandomNcoOt
    AllCallsReturn
CHECK_DEADLOCK FALSE
