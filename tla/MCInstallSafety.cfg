\* Every failure and a kill; the user keeps away from a locked config.
CONSTANTS
    Procs = {p1, p2}
    Variants = {"left", "right"}
    Modes = {"private", "shared"}
    UmaskMode = "shared"
    LockAttempts = 2
    MaxRuns = 3
    MaxCrashes = 1
    MaxEdits = 1
    EditsInside = FALSE
    MayFail = TRUE
    Edits <- SomeEdits
SPECIFICATION Spec
SYMMETRY Symmetry
INVARIANTS TypeOK HolderIsAtWork
PROPERTIES TextIsNeverExposed ImplementsConfigStore
