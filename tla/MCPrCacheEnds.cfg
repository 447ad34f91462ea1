\* Two keys, every failure and a crash, under fairness.
CONSTANTS
    Procs = {p1, p2}
    Keys = {k1, k2}
    NumberedKeys = {k1}
    Ttls = {0}
    ListLimit = 3
    InspectLimit = 3
    RemovalLimit = 1
    Attempts = 2
    MaxClock = 1
    MaxRuns = 2
    MaxCrashes = 1
    DirsAtStart = {TRUE}
    JunkAtStart = FALSE
    MayFail = TRUE
SPECIFICATION FairSpec
PROPERTY EveryProcessEnds
