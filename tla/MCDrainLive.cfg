SPECIFICATION FairSpec
CONSTANTS
    u1 = u1
    u2 = u2
    u3 = u3
    e1 = e1
    k1 = k1
    t1 = t1
    t2 = t2
    t3 = t3
    None = None
    UserInput = {u1, u2}
    EventInput = {e1}
    CancelId = {k1}
    Task = {t1, t2, t3}
    Coordination = {TRUE, FALSE}
    MayRaise = FALSE
    RetriedCancels = {FALSE}
    SlowUnwind = FALSE
    MaxCalls = 3
    MaxRestarts = 0
PROPERTIES
    InputsSettle
CHECK_DEADLOCK FALSE
