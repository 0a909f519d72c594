SPECIFICATION MCSpec
CONSTANTS
    u1 = u1
    u2 = u2
    u3 = u3
    e1 = e1
    k1 = k1
    t1 = t1
    t2 = t2
    t3 = t3
    None = None
    UserInput = {u1}
    EventInput = {e1}
    CancelId = {k1}
    Task = {t1, t2, t3}
    Coordination = {TRUE, FALSE}
    MayRaise = TRUE
    RetriedCancels = {TRUE, FALSE}
    SlowUnwind = FALSE
    MaxCalls = 5
    MaxRestarts = 1
SYMMETRY Symmetry
INVARIANTS
    TurnsRunOnce
    StartsInOrder
    CancelledWorkHasEnded
    HeaderAgrees
CHECK_DEADLOCK FALSE
