------------------------- MODULE FrictionCompensation -------------------------
(***************************************************************************)
(* Friction compensation (friction_compensation.cpp): its configuration,   *)
(* its two models, and the flag that one bad cycle clears for good.        *)
(*                                                                         *)
(* All joints have the same coefficients.  A parameter that is missing, or *)
(* a vector of the wrong length, is NaN here, since both are refused.  The *)
(* logistic curve is any function that does not fall.                      *)
(***************************************************************************)
EXTENDS Numbers

CONSTANTS
    MaxArgument,  \* the logistic curve's argument is clamped to this, 60 in the code
    Logistic      \* 1 / (1 + exp(-x)), in units of its own

ASSUME LogisticAssumption ==
    /\ MaxArgument \in Nat
    /\ Logistic \in [-MaxArgument .. MaxArgument -> Int]
    /\ \A x, y \in -MaxArgument .. MaxArgument : x <= y => Logistic[x] <= Logistic[y]

VARIABLES
    friction,         \* the parameters of the last configuration
    friction_enabled  \* enabled_

friction_vars == <<friction, friction_enabled>>

FrictionModel == {"sigmoid", "hysteresis"}

\* What configure asks of the parameters when compensation is requested.
ValidFriction(p) ==
    /\ p.model \in FrictionModel
    /\ Finite(p.scale) /\ p.scale >= 0
    /\ AllFinite(p.values)
    /\ p.model = "hysteresis" => p.values.hyst >= 0

FrictionAccepted(p) == p.requested => ValidFriction(p)

\* FrictionCompensation::configure; it returns FrictionAccepted(p).
ConfigureFriction(p) ==
    /\ friction' = p
    /\ friction_enabled' = (p.requested /\ ValidFriction(p))

\* HysteresisModel::compute for one joint.
Hysteresis(c, velocity) ==
    IF velocity >= c.hyst THEN c.fvp * velocity + c.fcp
    ELSE IF velocity <= -c.hyst THEN c.fvn * velocity - c.fcn
    ELSE 0

Argument(x) == IF x > MaxArgument THEN MaxArgument ELSE IF x < -MaxArgument THEN -MaxArgument ELSE x

\* A slip: the torque of the curve at rest is not taken off.
SigmoidWithOffset(c, velocity) == c.phi1 * Logistic[Argument(c.phi2 * (velocity + c.phi3))]

\* SigmoidModel::compute for one joint.
Sigmoid(c, velocity) ==
    c.phi1 * (Logistic[Argument(c.phi2 * (velocity + c.phi3))] - Logistic[Argument(c.phi2 * c.phi3)])

\* What the configured model answers.
FrictionTorque(velocity) ==
    IF friction.model = "hysteresis"
    THEN Hysteresis(friction.values, velocity)
    ELSE Sigmoid(friction.values, velocity)

FrictionIdle == ~friction_enabled \/ friction.scale = 0

\* FrictionCompensation::add on torques that are not all finite: it returns false.
FrictionFails(torques) ==
    /\ ~FrictionIdle /\ ~AllFinite(torques)
    /\ friction_enabled' = FALSE
    /\ UNCHANGED friction

-----------------------------------------------------------------------------

\* Both forces point the same way, or one of them is none.
Along(x, y) == (x >= 0 /\ y >= 0) \/ (x <= 0 /\ y <= 0)

\* The coefficients of the hysteresis model are those of a force against the motion.
OfFriction(c) == c.fvp >= 0 /\ c.fcp >= 0 /\ c.fvn >= 0 /\ c.fcn >= 0

\* configure looks at no sign of phi1, phi2, fvp, fcp, fvn and fcn.  The sigmoid helps
\* the motion when phi1 and phi2 have the same sign and brakes it when they have not,
\* whatever phi3 is; the hysteresis model helps when its coefficients are not negative.
\* Neither adds anything at rest, unless the hysteresis band is empty.
HelpsMotion(velocities) ==
    friction_enabled =>
        \A velocity \in velocities :
            LET c == friction.values
                torque == friction.scale * FrictionTorque(velocity)
            IN  /\ friction.model = "sigmoid" =>
                       /\ Along(c.phi1, c.phi2) => Along(velocity, torque)
                       /\ Along(c.phi1, -c.phi2) => Along(velocity, -torque)
                /\ friction.model = "hysteresis" /\ OfFriction(c) => Along(velocity, torque)
                /\ velocity = 0 /\ torque # 0 =>
                       friction.model = "hysteresis" /\ c.hyst = 0
=============================================================================
