CONSTANTS
    Sizes <- MCSizes
    MaxTransfers <- MCMaxTransfers
    Secret <- MCSecret
    Point <- MCPoint
    Infinity <- MCInfinity
    Generator <- MCGenerator
    Add <- MCAdd
    Invert <- MCInvert
    Times <- MCTimes
    FirstByte <- MCFirstByte
    OtherBytes <- MCOtherBytes
    Hash <- MCHash
SPECIFICATION FairSpec
INVARIANTS
    TypeOK
    ChosenMessages
    MessagesDiffer
    OneInFlight
PROPERTIES
    ImplementsRandomOt
    AllCallsReturn
CHECK_DEADLOCK FALSE
