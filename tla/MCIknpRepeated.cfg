CONSTANTS
    W <- MCW
    Params <- RepeatedParams
    BaseOts <- RepeatedBaseOts
    MaxBaseOts = 2
    StreamLen <- MCStreamLen
    Prg <- MCPrg
    Hash <- MCHash
SPECIFICATION Spec
INVARIANTS
    IInv
    StreamsInStep
    ChosenUntilRenewed
    SeedsMatch
    PadsFresh
CHECK_DEADLOCK FALSE
