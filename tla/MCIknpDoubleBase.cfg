CONSTANTS
    W <- MCW
    Params <- DoubleParams
    BaseOts <- DoubleBaseOts
    MaxBaseOts = 1
    StreamLen <- MCStreamLen
    Prg <- MCPrg
    Hash <- MCHash
SPECIFICATION Spec
INVARIANTS
    RejectedAlike
CHECK_DEADLOCK FALSE
