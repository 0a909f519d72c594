SPECIFICATION MCSpec
CONSTANTS
    r1 = r1
    r2 = r2
    k1 = k1
    k2 = k2
    None = None
    NoOne = NoOne
    RootId = "root"
    Child = {"child"}
    Client = {k1, k2}
    MaxFence = 2
    MaxBegun = 2
    Runtime = {r1, r2}
    MaxGeneration = 2
    LateFaults = FALSE
    Budgets <- Scenarios
SYMMETRY Symmetry
INVARIANTS
    OneTerminalPerTurn
    TakeoversAreClean
    DeletionsAreClean
    WaitersAreTold
    HistoriesAreSound
    CallsAreSettled
    TreesStayDeleted
PROPERTIES
    FencedWrites
    FieldsAreKept
    CleanupIsExact
CHECK_DEADLOCK FALSE
