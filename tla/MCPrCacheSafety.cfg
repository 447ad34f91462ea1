\* One key, every failure, a crash and a file that is not an entry.
CONSTANTS
    Procs = {p1, p2}
    Keys = {k1}
    NumberedKeys = {k1}
    Ttls = {0}
    ListLimit = 2
    InspectLimit = 2
    RemovalLimit = 1
    Attempts = 2
    MaxClock = 1
    MaxRuns = 3
    MaxCrashes = 1
    DirsAtStart = {TRUE, FALSE}
    JunkAtStart = TRUE
    MayFail = TRUE
SPECIFICATION Spec
SYMMETRY Symmetry
INVARIANTS TypeOK LiveTempSurvives
PROPERTIES ImplementsAnswerStore OnlyLeftoversSpoilALookup CallsAreBounded
