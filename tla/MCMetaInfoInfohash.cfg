SPECIFICATION Spec
CONSTANTS
    Strs <- MCStrs
    Inputs <- MCInputs
    Whole <- MCWhole
INVARIANTS
    InfohashIsOfInfo
CHECK_DEADLOCK FALSE
