SPECIFICATION Spec
CONSTANTS
    Strs <- MCStrs
    Inputs <- MCInputs
    Whole <- MCWhole
INVARIANTS
    TypeOK
    ParsesExactlyOne
    ConstructedIffComplete
    InfohashRightWhenLast
PROPERTIES
    ConstructorEnds
CHECK_DEADLOCK FALSE
