SPECIFICATION FairSpec
CONSTANTS
    Origin = origin
    Uninitialised = uninitialised
    none = none
    soft = soft
    Pose = {origin}
    Block = {translation, rotation}
    Stiffness = {none, soft}
    NoStiffness = none
    InitStiffness <- MCInitStiffness
    StaleAfter = 0
    MaxTime = 1
PROPERTIES
    StiffnessKeepsReference
    ManagerReturns
    CallbackReturns
    LoopFollowsLast
