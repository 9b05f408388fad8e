SPECIFICATION VisionSpec
CONSTANTS
    Workers = {w1, w2}
    Nobody = Nobody
    MaxOperations = 2
    MaxVersions = 2
    MaxAttempts = 2
    MaxFaults = 2
    MaxRepairs = 1
    MaxReplays = 0
SYMMETRY WorkerSymmetry
INVARIANTS
    SubmissionKeepsWorkflow
    LedgerSound
    StatesAgree
PROPERTY NoBlindResubmission
CHECK_DEADLOCK FALSE
