SPECIFICATION PartsSpec
CONSTANTS
    r1 = r1
    r2 = r2
    r3 = r3
    Requests = {r1, r2, r3}
    Probes = {q1}
    Stations = {s1}
    q1 = q1
    s1 = s1
    Editors = {e1}
    NoOne = NoOne
    Limit = 1
    FailThreshold = 1
    OKThreshold = 2
    Moves = FALSE
    MaxEdits = 1
    MaxOrders = 2
    MaxPolicy = 1
VIEW MCView
SYMMETRY MCSymmetry
INVARIANTS AdmissionKept 
PROPERTIES DeadNeedsArmed
CHECK_DEADLOCK FALSE
