CONSTANTS
    u1 = u1
    u2 = u2
    u3 = u3
    custom = custom
    Units <- MCUnits
    Customs <- MCCustoms
    MaxCustoms = 2
SPECIFICATION Spec
INVARIANTS
    BuildsLibrary
SYMMETRY Symmetric
CHECK_DEADLOCK FALSE
