SPECIFICATION MCSpec
CONSTANTS
    i1 = i1
    i2 = i2
    i3 = i3
    r1 = r1
    o1 = o1
    o2 = o2
    a1 = a1
    t1 = t1
    t2 = t2
    t3 = t3
    NoOne = NoOne
    Instance = {i1, i2, i3}
    MaxGeneration = 3
    MaxLog = 2
    Root = {r1}
    Observer = {o1, o2}
    Interests = {a1}
    Everything = Everything
    NoRoot = NoRoot
    NoSnapshot = NoSnapshot
    MaxChanges = 1
    MaxFaults = 1
    NoTree = NoTree
    Tree = {t1, t2, t3}
    Slots = 2
    MaxRequests = 1
SYMMETRY Symmetry
INVARIANTS
    TransactionOwnsRoot
    CommitsAreFenced
    TokensAreExclusive
    HintsArrive
PROPERTIES
    OwnershipMovesForward
    DeletionIsFinal
    ImplementsFencedLog
CHECK_DEADLOCK FALSE
