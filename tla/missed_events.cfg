SPECIFICATION FairSpec
CONSTANTS
    Services = {"sharepoint"}
    Items = {i1, i2}
    Handlers = {h1}
    MaxChanges = 2
    FaultKinds = {"note"}
    MaxFaults = 1
CHECK_DEADLOCK FALSE
PROPERTIES MissedEventsRecovered
