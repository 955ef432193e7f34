SPECIFICATION Spec
CONSTANTS
    Jobs = {j1}
    Callers = {c1, c2, d1}
    Drains = {d1}
    MayRestart = FALSE
    MaxRevision = 3
INVARIANTS PausedIsShut
CHECK_DEADLOCK FALSE
