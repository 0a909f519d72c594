SPECIFICATION Spec
CONSTANTS
    s1 = s1
    s2 = s2
    None = None
    Reader = {s1, s2}
    PageLimit = 2
    DirectLimit = 3
    Size <- MCSize
    ActorBytes = 3
    MaxSeq = 3
    MaxOpens = 2
SYMMETRY ReaderSymmetry
INVARIANTS
    LoopKeepsTurning
CHECK_DEADLOCK FALSE
