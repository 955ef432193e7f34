SPECIFICATION PartsSpec
CONSTANTS
    Jobs = {j1}
    c1 = c1
    d1 = d1
    Callers = {c1, d1}
    Drains = {d1}
    MayRestart = FALSE
    MaxRevision = 4
    Admins = {a1, a2, a3}
    Proxies = {p1, p2}
    Attempts = {j1, j2}
    Rotators = {r1, r2}
INVARIANTS GateIsSafe 
PROPERTIES QuiesceEnds
CHECK_DEADLOCK FALSE
