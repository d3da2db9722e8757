CONSTANTS
    NaN = NaN
    Joint = {j1, j2}
    Position <- MCPosition
    Velocity <- MCVelocity
    FrictionParameters <- MCFrictionParameters
    RepulsionParameters <- MCRepulsionParameters
    ImplTorque <- MCImplTorque
    GravityTorque <- MCGravityTorque
    DitherTorque <- MCDitherTorque
    TauAbsMax = 4
    MaxArgument = 2
    Logistic <- MCLogistic
SPECIFICATION Spec
SYMMETRY JointSymmetry
INVARIANTS
    TypeOK
    ConfiguredIsValid
    FrictionLostToFaultsOnly
    FaultWritesZero
    FrictionHelpsMotion
    RepulsionPushesInward
CHECK_DEADLOCK FALSE
