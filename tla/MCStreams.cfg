SPECIFICATION FairSpec
CONSTANTS
    s1 = s1
    s2 = s2
    None = None
    Stream = {s1, s2}
    Connected = TRUE
    Cursor = {0}
    MaxSeq = 1
    MaxOpens = 2
PROPERTIES
    StreamsCatchUp
CHECK_DEADLOCK FALSE
