SPECIFICATION MCFairSpec
CONSTANTS
    a1 = a1
    a2 = a2
    w1 = w1
    w2 = w2
    Workers <- TwoWorkers
    Limits <- TwoLimits
    CeleryRetries = 1
    MaxRequeues = 1
    FaultPlans <- TaskFaults
CHECK_DEADLOCK FALSE
INVARIANTS VerdictKept ReportedOnce
PROPERTIES CachesConverge
