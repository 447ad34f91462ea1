\* A quiet repository, and nothing fails.
CONSTANTS
    Branches = {"main", "topic"}
    Batch = 2
    MaxMoves = 0
    MayFail = FALSE
    Attributes <- SomeAttributes
    Changes <- SomeChanges
    Counts <- SomeCounts
SPECIFICATION Spec
INVARIANT FlagsTellStagedFromUnstaged
