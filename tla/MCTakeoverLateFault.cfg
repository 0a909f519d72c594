SPECIFICATION TakeoverSpec
CONSTANTS
    NoOne = NoOne
    Runtime = {r1, r2}
    MaxGeneration = 2
    Budgets <- MCBudgets
    LateFaults = TRUE
INVARIANT
    OneTerminalPerTurn
CHECK_DEADLOCK FALSE
