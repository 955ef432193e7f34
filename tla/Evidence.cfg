SPECIFICATION Spec
CONSTANTS
    Routes = {r1}
    Endpoints = {e1, e2}
    Rules = {"a"}
    Limits = {1, 2}
    MaxSets = 1
    MaxVersions = 4
    Bounds <- MCBounds
INVARIANT EvidenceFollowsTransform
CHECK_DEADLOCK FALSE
