\* Any command may fail, and the user makes a change half way through.
CONSTANTS
    Branches = {"main", "topic"}
    Batch = 2
    MaxMoves = 1
    MayFail = TRUE
    Attributes <- SomeAttributes
    Changes <- SomeChanges
    Counts <- SomeCounts
SPECIFICATION Spec
INVARIANTS TypeOK EveryFieldWasTrue StatusRunsOverNoFilter
