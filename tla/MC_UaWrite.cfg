CONSTANTS
    None = None
    IntTexts <- MCIntTexts
    FloatTexts <- MCFloatTexts
    NodeIdTexts <- MCNodeIdTexts
    Pieces <- MCPieces
    Args <- MCArgs
    NodeOf <- MCNodeOf
    Children <- MCChildren
    SecurityMayFail = TRUE

SPECIFICATION Spec
INVARIANT TypeOK
INVARIANT SentValueFaithful
INVARIANT ExitStatusReflectsWrite
