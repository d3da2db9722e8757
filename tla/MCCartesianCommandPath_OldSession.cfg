SPECIFICATION Spec
CONSTANTS
    Origin = origin
    Uninitialised = uninitialised
    none = none
    soft = soft
    Pose = {origin, home}
    Block = {translation}
    Stiffness = {none, soft}
    NoStiffness = none
    InitStiffness <- MCInitStiffness
    StaleAfter = 1
    MaxTime = 2
INVARIANT NothingBeforeActivation
