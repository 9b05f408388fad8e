SPECIFICATION PlanningSpec
CONSTANTS
    Workers = {w1, w2}
    Nobody = Nobody
    MaxOperations = 2
    MaxVersions = 2
    MaxAttempts = 1
    MaxFaults = 1
    MaxIterations = 1
    MaxSetbacks = 1
    MaxGenerations = 2
    MaxRecoveries = 1
    MaxDeliveries = 2
    MaxStepAttempts = 2
    MaxBacklog = 1
SYMMETRY WorkerSymmetry
INVARIANTS
    PlanFollowsBrief
    ExecutedIsApproved
CHECK_DEADLOCK FALSE
