SPECIFICATION Spec
CONSTANTS
    i1 = i1
    i2 = i2
    r1 = r1
    r2 = r2
    w1 = w1
    w2 = w2
    Items <- OneItem
    Relays <- OneRelay
    Workers <- TwoWorkers
    Deferred = TRUE
    Coarse = FALSE
    BatchSize = 2
    MaxActive = 1
    MaxRetry = 1
    MaxRecords = 2
    MaxBusFailures = 0
    MaxScanFailures = 1
    MaxWorkerCrashes = 1
    MaxRelayCrashes = 0
    Cancels = TRUE
    Polls = TRUE
CHECK_DEADLOCK FALSE
PROPERTIES ScanStageStaysEnded
