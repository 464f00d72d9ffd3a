SPECIFICATION Spec
CONSTANTS
    i1 = i1
    i2 = i2
    Items <- OneItem
    Concurrency = 1
    MaxVersion = 3
    Observations <- Observed
    FileTypeActions <- NoExecutables
    VerdictActions <- ReviewUnknown
    MaxFaults = 0
    MaxCrashes = 0
INVARIANTS DeliveredWasAllowed
