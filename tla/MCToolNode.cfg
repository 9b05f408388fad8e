CONSTANTS
    Workers = {w1, w2}
    None = None
    Slots = {s1, s2, s3}
    MaxAttempts = 2
    Faults = {"crash", "slow", "inbox", "database"}
    MaxFaults = 1
SPECIFICATION FairSpec
CHECK_DEADLOCK FALSE
INVARIANTS OneCall WorkflowFollowsStep
PROPERTY NodeSettles
