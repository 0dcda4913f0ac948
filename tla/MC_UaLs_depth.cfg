CONSTANTS
    None = None
    Starts = {"root", "a"}
    Children <- MCChildren
    Variables = {"v1", "v2"}
    Unreadable = {"v2"}
    Depths <- MCNonPositiveDepths
    Formats = {0, 1, 3}
    CallsMayFail = TRUE
    RecursionLimit = 4

SPECIFICATION Spec
INVARIANT ListingEndsCleanly
