\* Two directories, two answers on their way, a clock that is set back by a second.
CONSTANTS
    Malformed = Malformed
    DefaultTtl = 1
    Bytes = {"a", "b", "c", "0", "1", "2", ":"}
    Digits = {"0", "1", "2"}
    Colon = ":"
    MaxLen = 2
    Decimal <- SomeDecimals
    Fnv <- Itself
    Dirs <- SomeDirs
    Heads <- SomeHeads
    NoBranch = NoBranch
    Replies <- SomeReplies
    Mocks = {""}
    Numbered <- SomeNumbers
    UserDir = "xdg"
    Stacks <- SomeStacks
    StatusFlags <- OfAStatus
    RefreshFlags <- OfARefresh
    MaxAnswers = 2
    MaxTtl = 1
    MaxLag = 1
    MaxBack = 1
SPECIFICATION Spec
INVARIANTS TypeOK ShownWasAnswered
PROPERTIES ShownUntilExpired SettledAnswerIsShown
