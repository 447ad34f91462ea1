\* The directory does not exist yet.
CONSTANTS
    Procs = {p1, p2}
    Keys = {k1}
    NumberedKeys = {k1}
    Ttls = {0}
    ListLimit = 2
    InspectLimit = 2
    RemovalLimit = 1
    Attempts = 2
    MaxClock = 0
    MaxRuns = 1
    MaxCrashes = 0
    DirsAtStart = {FALSE}
    JunkAtStart = FALSE
    MayFail = FALSE
SPECIFICATION Spec
INVARIANT HealthyLookupDescribesNothing
