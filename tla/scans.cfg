SPECIFICATION MCFairSpec
CONSTANTS
    i1 = i1
    i2 = i2
    r1 = r1
    w1 = w1
    Items <- TwoItems
    Relays <- OneRelay
    Workers <- OneWorker
    Deferred = TRUE
    Coarse = FALSE
    BatchSize = 2
    MaxActive = 1
    MaxRetry = 1
    MaxRecords = 3
    MaxBusFailures = 0
    MaxScanFailures = 2
    MaxWorkerCrashes = 0
    MaxRelayCrashes = 0
    Cancels = FALSE
    Polls = TRUE
    Kinds <- Listing
    Limits <- LimitsAsked
    Requested = {0, 1, 3}
    DefaultSize = 2
    MaxSize = 2
    Concurrency = 2
    GatherAt = 3
    MaxFaults = 1
    Files = {"a", "b", "c"}
    NameOf <- FileNames
    Malicious = {"a", "b"}
    Plans <- TwoPlans
    MaxMishaps = 2
CHECK_DEADLOCK FALSE
INVARIANTS ActiveWithinCap LeaseHasWorker ScanComplete LimitKept SummaryTrue QuarantineKeeps
PROPERTIES AllEnd
