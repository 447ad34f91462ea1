\* The pid may be taken over between the reap and its record.
CONSTANTS
    Session = Session
    Reader = Reader
    Descendants = {d1}
    Limit = 1
    PipeCapacity = 1
    MaxWritten <- TwoEach
    KillMayFail = FALSE
    WaitMayFail = FALSE
    MayEscape = FALSE
SPECIFICATION Spec
INVARIANT ReaderNeverHitsRecycledPid
