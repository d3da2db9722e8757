SPECIFICATION Spec
CHECK_DEADLOCK FALSE
CONSTANTS
    NaN = NaN
    NoCommand = NoCommand
    Position = {0, 1}
    FeedForward = {0, 3}
    Compensation = {0, 2}
    MaxTauDelta = 1
    TauAbsMax = 2
    StaleAfter = 1
    MaxTime = 2
    MaxMemory = 3
PROPERTY SeedsTargets
