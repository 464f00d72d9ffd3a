SPECIFICATION FairSpec
CONSTANTS
    i1 = i1
    i2 = i2
    Items <- TwoItems
    Concurrency = 2
    MaxVersion = 3
    Observations <- Observed
    FileTypeActions <- NoExecutables
    VerdictActions <- ReviewUnknown
    MaxFaults = 2
    MaxCrashes = 2
INVARIANTS DeliveredWasGated CheckpointTrue CleanReport
PROPERTIES TransferCompletes
