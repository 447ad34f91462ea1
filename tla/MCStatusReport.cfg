\* Anything may fail, and one thing changes while the line is put together.
CONSTANTS
    Projects <- SomeProjects
    Branches <- SomeBranches
    Numbers <- SomeNumbers
    Caches <- SomeCaches
    Views <- SomeViews
    Supplied <- SomeSupplied
    Flags <- SomeFlags
    Widths <- SomeWidths
    MaxMoves = 1
SPECIFICATION Spec
INVARIANTS TypeOK PrIsOfTheBranchShown NothingOfALostClient EveryFaultIsMirrored DrawnAsGiven
