CONSTANTS
    Kinds = {"IMAGE", "PRODUCT_FUSED"}
    Workers = {w1, w2}
    Texts = {t1, t2}
    Image = t1
    None = None
    MaxOps = 2
    MaxGen = 2
    MaxRights = 2
    MaxBriefs = 2
    MaxReplays = 1
    MaxFaults = 1
    MaxChanges = 2
SYMMETRY WorkerSymmetry
SPECIFICATION Spec
CHECK_DEADLOCK FALSE
INVARIANTS IndexedHasVector RemovedStaysHidden DocumentAgrees
