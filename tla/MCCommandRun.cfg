\* Every failure and an escaping descendant, one byte of limit, fair threads.
CONSTANTS
    Session = Session
    Reader = Reader
    Descendants = {d1}
    Limit = 1
    PipeCapacity = 1
    MaxWritten <- ThreeAndTwo
    KillMayFail = TRUE
    WaitMayFail = TRUE
    MayEscape = TRUE
SPECIFICATION UntimedSpec
INVARIANTS TypeOK CaptureIsComplete OverrunIsReported NothingLeftBehind OnlyOthersKeepItWaiting
PROPERTIES ImplementsKillRight RunReturns OverrunReturns
