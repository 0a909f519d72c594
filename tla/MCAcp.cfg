SPECIFICATION MCSpec
CONSTANTS
    w1 = w1
    w2 = w2
    c1 = c1
    c2 = c2
    k1 = k1
    k2 = k2
    Elsewhere = Elsewhere
    NoOne = NoOne
    Socket = {k1, k2}
    MaxFrames = 1
SYMMETRY Symmetry
INVARIANTS
    RequestsEndOnce
    TailsShowEverything
    WritersAgree
    WatchersAreCurrent
    ReplaysAgree
    PromptsSettle
    UpdatesAreContiguous
    SocketsEndProperly
CHECK_DEADLOCK FALSE
