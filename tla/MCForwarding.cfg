SPECIFICATION MCSpec
CONSTANTS
    i1 = i1
    i2 = i2
    r1 = r1
    r2 = r2
    r3 = r3
    w1 = w1
    w2 = w2
    c1 = c1
    NoOne = NoOne
    Instance = {i1, i2}
    Request = {r1, r2, r3}
    Command = {c1}
    Connection = {w1, w2}
    MaxGeneration = 2
    MaxFaults = 2
INVARIANTS
    CommandsOnce
    RepliesTellTheTruth
    WritersAreFenced
PROPERTIES
    RequestsAreAnswered
CHECK_DEADLOCK FALSE
