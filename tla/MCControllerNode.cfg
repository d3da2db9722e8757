CONSTANTS
    Library = {impedance, other}
    NoLibrary = none
    JointCount = {0, 1, 2}
    DefaultJoints = 2
SPECIFICATION Spec
INVARIANTS
    TypeOK
    NothingLeaks
    PartsAgree
    StepsFit
PROPERTY OnePlugin
