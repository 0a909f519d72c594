SPECIFICATION Spec
CONSTANTS
    MaxDials = 2
    Loads <- MCLoads
INVARIANT
    UpdatesAreContiguous
CHECK_DEADLOCK FALSE
