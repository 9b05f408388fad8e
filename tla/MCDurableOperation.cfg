CONSTANTS
    Workers = {w1, w2}
    MaxAttempts = 2
    MaxReconciliations = 2
    MaxEvents = 4
    MaxFaults = 1
SPECIFICATION Spec
SYMMETRY Symmetry
CONSTRAINT LastEvent
CHECK_DEADLOCK FALSE
INVARIANTS NoBlindReexecution ExecutorOwnsRow RowRecoverable FailedHasDeadLetter OneGeneration ReplayBudget
