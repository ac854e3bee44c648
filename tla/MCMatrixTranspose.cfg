CONSTANTS
    Sizes <- MCSizes
    Unit <- MCUnit
SPECIFICATION Spec
INVARIANTS
    TypeOK
    ReturnsTransposed
CHECK_DEADLOCK FALSE
