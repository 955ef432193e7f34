SPECIFICATION PartsSpec
CONSTANTS
    Kinds <- MCKinds
    MaxChunks = 2
    Runs = {1, 2}
    Candidates = 2
    MaxEdits = 1
    MaxCrashes = 1
    MaxRevision = 2
INVARIANTS LeaseCoversWire  CalibrationIsHonest
PROPERTIES  PublishedIsProven ProbesEnd
CHECK_DEADLOCK FALSE
