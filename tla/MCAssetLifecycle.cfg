CONSTANTS
    Workers = {w1, w2}
    None = None
    Classes = {"TASK", "FOUNDATION"}
    Stages <- MCStages
    MaxAttempts = 2
    Versions = {v1, v2}
    Offers <- MCOffers
    MaxRecords = 1
    MaxFaults = 1
SPECIFICATION Spec
CHECK_DEADLOCK FALSE
SYMMETRY WorkerSymmetry
CONSTRAINT RightsRunOut
INVARIANTS ValidatedBeforeUse ControlledContentKept DeletedHasNoObjects
