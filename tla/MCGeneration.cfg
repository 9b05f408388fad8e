CONSTANTS
    Workers = {w1, w2}
    Keys = {k1, k2}
    D1 = d1
    Directions = {d1, d2}
    Routes = {r1, r2}
    Synchronous = {r1}
    Count <- MCCount
    None = None
    MaxAttempts = 2
    MaxReplays = 1
    MaxRights = 2
    MaxFaults = 1
    MaxChanges = 1
SPECIFICATION Spec
SYMMETRY Symmetric
CHECK_DEADLOCK FALSE
INVARIANTS PaidOnce CandidateIsWhole ReadyNotLost
