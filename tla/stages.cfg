SPECIFICATION FairSpec
CONSTANTS
    Plans <- BranchingPlans
    MaxActive = 2
    MaxRetry = 1
    MaxRecords = 2
    Limits <- StageLimits
CHECK_DEADLOCK FALSE
INVARIANTS ExclusiveClaim SummaryWaits RequestsAccounted RemediationAccounted
PROPERTIES StagesStayEnded DecisionCarriedOut RequestsRetried
