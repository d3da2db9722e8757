------------------------- MODULE JointLimitRepulsion -------------------------
(***************************************************************************)
(* The spring-damper at the joint limits (joint_limit_repulsion.hpp): its  *)
(* configuration and its torque.  All joints have the same limits and      *)
(* gains; a parameter that is missing or of the wrong length is NaN.       *)
(***************************************************************************)
EXTENDS Numbers

VARIABLES
    repulsion,         \* the parameters and limits of the last configuration
    repulsion_enabled  \* enabled_

repulsion_vars == <<repulsion, repulsion_enabled>>

ValidGains(p) ==
    /\ Finite(p.stiffness) /\ p.stiffness >= 0
    /\ Finite(p.damping) /\ p.damping >= 0
    /\ Finite(p.margin) /\ p.margin > 0

\* A slip: the margins may meet or overlap in the middle of the range.
ValidLimitsAnyMargin(p) ==
    p.limited => Finite(p.lower) /\ Finite(p.upper) /\ p.lower < p.upper

\* A joint without limits is left alone; limits must be a range that leaves room
\* between the two margins.
ValidLimits(p) ==
    p.limited =>
        /\ Finite(p.lower) /\ Finite(p.upper) /\ p.lower < p.upper
        /\ 2 * p.margin < p.upper - p.lower

\* "described": the URDF parses and has the controlled joints.
ValidRepulsion(p) == ValidGains(p) /\ p.described /\ ValidLimits(p)

RepulsionAccepted(p) == p.enabled => ValidRepulsion(p)

\* JointLimitRepulsion::configure; it returns RepulsionAccepted(p).  The flag is
\* set before anything is validated and stays set when that fails.
ConfigureRepulsion(p) ==
    /\ repulsion' = p
    /\ repulsion_enabled' = p.enabled

LowerActivation == repulsion.lower + repulsion.margin
UpperActivation == repulsion.upper - repulsion.margin

\* What addTorque adds for one joint.
Repulsion(position, velocity) ==
    IF ~repulsion_enabled \/ ~repulsion.limited THEN 0
    ELSE IF position < LowerActivation
         THEN repulsion.stiffness * (LowerActivation - position) - repulsion.damping * velocity
    ELSE IF position > UpperActivation
         THEN -repulsion.stiffness * (position - UpperActivation) - repulsion.damping * velocity
    ELSE 0

-----------------------------------------------------------------------------

\* At rest the repulsion pushes toward the middle of the range, never past it and
\* never away from it.
PushesInward(positions) ==
    repulsion_enabled /\ repulsion.limited =>
        \A position \in positions :
            Repulsion(position, 0) * (2 * position - repulsion.lower - repulsion.upper) <= 0
=============================================================================
