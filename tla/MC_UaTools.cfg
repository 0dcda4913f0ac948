CONSTANTS
    None = None
    IntTexts = {"1", "2"}
    FloatTexts = {}
    NodeIdTexts = {}
    Pieces = {"1", "2", "x"}
    CmdLines <- MCCmdLines
    TimeTexts = {"2024-01-02", "2024-01-03 10:00"}
    CallsMayFail = TRUE

SPECIFICATION Spec
INVARIANT TypeOK
INVARIANT DisconnectBeforeExit
INVARIANT ExitStatusReflectsCalls
