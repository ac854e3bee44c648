CONSTANTS
    W <- MCW
    Params <- SupportedParams
    BaseOts <- BlockSizedBaseOts
    MaxBaseOts = 2
    StreamLen <- MCStreamLen
    Prg <- MCPrg
    Hash <- MCHash
SPECIFICATION RenewedSpec
INVARIANTS
    ChosenMessages
CHECK_DEADLOCK FALSE
