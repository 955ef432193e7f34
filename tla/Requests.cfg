SPECIFICATION PartsSpec
CONSTANTS
    r1 = r1
    r2 = r2
    r3 = r3
    Routes = {r1, r2, r3}
    MaxSends = 3
    MaxChunks = 2
    x1 = x1
    x2 = x2
    Executions = {x1, x2}
    Outcomes = {"ok", "down", "config", "unread"}
    Carries = {{"reach"}, {"cap"}}
    FailThreshold = 2
    OkThreshold = 1
    MaxObservations = 3
    MaxRev = 2
SYMMETRY MCSymmetry
VIEW MCView
INVARIANTS AttemptsBalance ReplayIsAllowed OneAnswer ReachIsEarned
PROPERTIES StickyHeld
CHECK_DEADLOCK FALSE
