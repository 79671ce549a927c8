SPECIFICATION Spec
CONSTANTS
    Inputs <- MCInputs
INVARIANTS
    TypeOK
    Decoded
PROPERTIES
    Progress
    CallbackMade
CHECK_DEADLOCK FALSE
