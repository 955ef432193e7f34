SPECIFICATION Spec
CONSTANTS
    a1 = a1
    a2 = a2
    Attempts <- MCAttempts
    Leases = 2
    Budget = 1
    OwnBudget = 1
    OwnQueue = 1
    PersistQueue = 1
    MaxChunks = 1
INVARIANTS AccountsKept FlushCovers
 
CHECK_DEADLOCK FALSE
