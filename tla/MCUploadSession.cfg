CONSTANTS
    Requests = {q1, q2}
    Keys = {k1, k2}
    None = None
    Horizon = 1
    MaxPasses = 3
    MaxPuts = 3
SPECIFICATION Spec
CHECK_DEADLOCK FALSE
INVARIANTS OneAsset
PROPERTY AbandonedIsCleaned
