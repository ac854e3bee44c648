CONSTANTS
    W <- MCW
    BaseOtSizes <- OneBlock
    Sizes <- OneBlockSizes
    Input <- MCInput
    BaseOts <- MCBaseOts
    MaxBaseOts = 2
    StreamLen <- MCStreamLen
    Prg <- MCPrg
    Hash <- MCHash
SPECIFICATION RenewedSpec
INVARIANTS
    EncodesChosen
CHECK_DEADLOCK FALSE
