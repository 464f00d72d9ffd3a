SPECIFICATION FairSpec
CONSTANTS
    Plans <- OnlyRefused
    MaxActive = 2
    MaxRetry = 1
    MaxRecords = 1
    Limits <- NoLimits
CHECK_DEADLOCK FALSE
PROPERTIES RemediationRequested
