SPECIFICATION MCSpec
CONSTANTS
    p1 = p1
    p2 = p2
    s1 = s1
    s2 = s2
    None = None
    NoOne = NoOne
    Reader = {s1, s2}
    PageLimit = 2
    DirectLimit = 3
    Size <- MCSize
    ActorBytes = 3
    MaxSeq = 4
    MaxOpens = 2
SYMMETRY Symmetry
INVARIANTS
    JournalsAreKept
    IndexAgrees
    NothingIsLeftBehind
    PagesAreSound
PROPERTIES
    StreamsAreGapless
CHECK_DEADLOCK FALSE
