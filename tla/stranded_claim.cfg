SPECIFICATION FairSpec
CONSTANTS
    i1 = i1
    i2 = i2
    r1 = r1
    r2 = r2
    w1 = w1
    w2 = w2
    Items <- OneItem
    Relays <- OneRelay
    Workers <- OneWorker
    Deferred = TRUE
    Coarse = FALSE
    BatchSize = 2
    MaxActive = 1
    MaxRetry = 0
    MaxRecords = 2
    MaxBusFailures = 0
    MaxScanFailures = 0
    MaxWorkerCrashes = 0
    MaxRelayCrashes = 1
    Cancels = FALSE
    Polls = FALSE
CHECK_DEADLOCK FALSE
PROPERTIES IntentsPublished
