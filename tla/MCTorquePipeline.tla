--------------------------- MODULE MCTorquePipeline ---------------------------
EXTENDS TorquePipeline, TLC

JointSymmetry == Permutations(Joint)

MCPosition == {0, 2, 4}
MCVelocity == -1 .. 1
MCImplTorque == {NaN, 3}
MCGravityTorque == {NaN, 1}
MCDitherTorque == {-1}

NoFriction == [requested |-> FALSE, model |-> "hysteresis", scale |-> 1,
               values |-> [phi1 |-> 1, phi2 |-> 1, phi3 |-> 0]]
Sigmoidal(phi1, phi2, phi3) ==
    [requested |-> TRUE, model |-> "sigmoid", scale |-> 1,
     values |-> [phi1 |-> phi1, phi2 |-> phi2, phi3 |-> phi3]]
Hysteretic(hyst, scale, fcp) ==
    [requested |-> TRUE, model |-> "hysteresis", scale |-> scale,
     values |-> [hyst |-> hyst, fvp |-> 0, fcp |-> fcp, fvn |-> 1, fcn |-> 0]]

\* A braking sigmoid and a braking band among them, and three that are refused: a
\* negative band, a negative scale, one that is not finite.
MCFrictionParameters ==
    {NoFriction, Sigmoidal(1, 2, 1), Sigmoidal(-1, 1, 0), Hysteretic(1, 2, 2),
     Hysteretic(0, 1, 2), Hysteretic(1, 0, 2), Hysteretic(1, 1, -2),
     Hysteretic(-1, 1, 2), Hysteretic(1, -1, 2), Hysteretic(1, NaN, 2)}

\* A curve that is flat at both ends; phi2 = 2 at phi3 = 1 reaches past one of them.
MCLogistic == [x \in -2 .. 2 |-> IF x < 0 THEN 0 ELSE IF x = 0 THEN 1 ELSE 2]

Limited(enabled, margin) ==
    [enabled |-> enabled, stiffness |-> 2, damping |-> 1, margin |-> margin,
     lower |-> 0, upper |-> 4, limited |-> TRUE, described |-> TRUE]

\* Three that are refused: overlapping margins, no margin, an unknown joint.
MCRepulsionParameters ==
    {Limited(FALSE, 1), Limited(TRUE, 1), Limited(TRUE, 4), Limited(TRUE, NaN),
     [Limited(TRUE, 1) EXCEPT !.described = FALSE], [Limited(TRUE, 1) EXCEPT !.limited = FALSE]}
=============================================================================
