CONSTANTS
    SetupMayFail = TRUE
    CallsMayFail = TRUE

SPECIFICATION Spec
INVARIANT TypeOK
PROPERTY ProcessExits
