CONSTANTS
    W <- MCW
    Params <- AgreedParams
    BaseOts <- AgreedBaseOts
    MaxBaseOts = 1
    StreamLen <- MCStreamLen
    Prg <- MCPrg
    Hash <- MCHash
SPECIFICATION FairSpec
INVARIANTS
    TypeOK
    IInv
    ChosenMessages
    RejectedAlike
PROPERTIES
    ImplementsRandomOt
    AllCallsReturn
CHECK_DEADLOCK FALSE
