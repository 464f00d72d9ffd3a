SPECIFICATION MCFairSpec
CONSTANTS
    e1 = e1
    e2 = e2
    e3 = e3
    m1 = m1
    m2 = m2
    m3 = m3
    m4 = m4
    i1 = i1
    i2 = i2
    w1 = w1
    w2 = w2
    Items <- TwoItems
    Workers <- TwoWorkers
    MaxInflight = 1
    MaxRetries = 1
    CeleryRetries = 3
    Batched = FALSE
    FaultPlans <- AnyFault
    Entries <- ThreeEntries
    BatchSize = 2
    Concurrency = 2
    Prefetch = 3
    AckModes = {"completed", "scanned", "accepted"}
    MaxFailures = 1
    MaxCrashes = 1
    Messages <- FourMessages
    MaxBulkFailures = 2
CHECK_DEADLOCK FALSE
INVARIANTS WorkHeld AckedIsDurable StoppedKeepsAcked SlotsBounded CountedOnce
PROPERTIES CompletionsWritten ItemsEnd JobFinishes
