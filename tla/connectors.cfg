SPECIFICATION MCFairSpec
CONSTANTS
    p1 = p1
    p2 = p2
    c1 = c1
    c2 = c2
    s1 = s1
    s2 = s2
    h1 = h1
    h2 = h2
    i1 = i1
    i2 = i2
    w1 = w1
    w2 = w2
    Processes <- TwoProcesses
    Instances <- TwoInstances
    Writers <- OneWriter
    ScopeIds <- TwoScopes
    Selectors <- Protected
    Resources <- LookedUp
    MaxUpdates = 2
    MaxFaults = 1
    Services = {"onedrive", "sharepoint", "mail"}
    Items <- TwoItems
    Handlers <- TwoHandlers
    MaxChanges = 2
    MaxTroubles = 1
    FaultKinds = {"note", "post", "store", "fetch", "crash", "subscription"}
    Workers <- TwoWorkers
    MaxCalls = 3
    MaxFailed = 2
CHECK_DEADLOCK FALSE
INVARIANTS OneOwner ConfigKept NothingSkipped FileKept SuccessIsReal
PROPERTIES LeasesHeal ChangesCatchUp
