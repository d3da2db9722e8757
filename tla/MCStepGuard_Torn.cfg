SPECIFICATION Spec
CONSTANTS
    NaN = NaN
    Place <- MCPlace
    HalfTurn = 4
    Stiffness = {1, 2}
    Measured <- MCMeasured
    Requests <- MCRequests
    MaxStep = 1
    MaxTurn = 2
PROPERTY ReplacedByAPosition
