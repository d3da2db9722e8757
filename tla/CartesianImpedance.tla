-------------------------- MODULE CartesianImpedance --------------------------
(***************************************************************************)
(* Orientations as the Cartesian code computes with them, and the          *)
(* rotational part of the impedance law (cartesian_impedance_impl.cpp) and *)
(* of the error-biased dither (cartesian_error_biased_dither.cpp).         *)
(*                                                                         *)
(* Orientations turn about one axis: 2 * HalfTurn quaternions on a circle, *)
(* where a quaternion and its opposite are the same orientation.  The      *)
(* quaternion 0 is the identity; k steps on the circle are a rotation by   *)
(* 2 * k, counted so that HalfTurn is a rotation by 180 degrees.           *)
(***************************************************************************)
EXTENDS Integers

CONSTANTS
    HalfTurn,  \* how many quaternions lie between one and its opposite
    Stiffness  \* the rotational stiffnesses a command may carry

ASSUME HalfTurnAssumption == HalfTurn \in Nat \ {0}

ASSUME StiffnessAssumption == Stiffness \subseteq Nat \ {0}

Quaternion == 0 .. 2 * HalfTurn - 1

\* The coefficients times -1.
Opposite(q) == IF q < HalfTurn THEN q + HalfTurn ELSE q - HalfTurn

\* The angle between two quaternions on the circle.
Arc(a, b) ==
    LET d == IF a >= b THEN a - b ELSE b - a
    IN  IF d <= HalfTurn THEN d ELSE 2 * HalfTurn - d

\* The dot product of two quaternions is negative; with the identity it is w.
Opposed(a, b) == 2 * Arc(a, b) > HalfTurn

\* current.inverse() * desired
ErrorQuaternion(current, desired) ==
    IF desired >= current THEN desired - current ELSE desired - current + 2 * HalfTurn

-----------------------------------------------------------------------------
(* Both take an error quaternion apart into acos(w), half the angle, and   *)
(* the axis, the vector part over its length.                              *)

\* Of q and -q the one whose w is not negative.
Shorter(q) == IF Opposed(q, 0) THEN Opposite(q) ELSE q

\* acos(w)
HalfAngle(q) == Arc(q, 0)

\* The vector part over its length, along the one axis; zero where it vanishes.
Axis(q) ==
    CASE q \in {0, HalfTurn}         -> 0
      [] 0 < q /\ q < HalfTurn       -> 1
      [] HalfTurn < q                -> -1

Sign(v) == CASE v > 0 -> 1 [] v = 0 -> 0 [] v < 0 -> -1

-----------------------------------------------------------------------------
(* CartesianImpedanceImpl                                                  *)

\* A slip: the long way when w is negative.
QLogSigned(q) == HalfAngle(q) * Axis(q)

\* q_log: of q and -q the one with the shorter way.
QLog(q) == LET qn == Shorter(q) IN HalfAngle(qn) * Axis(qn)

\* rot_err: the rotation about the axis, seen from the measured orientation, that
\* the law's spring pulls along.
RotationError(current, desired) == 2 * QLog(ErrorQuaternion(current, desired))

\* The torque about the axis: -stiffness * error, and error is -rot_err.
ImpedanceTorque(stiffness, current, desired) ==
    LET error == -RotationError(current, desired) IN -stiffness * error

-----------------------------------------------------------------------------
(* CartesianErrorBiasedDither                                              *)

\* A slip: the error turns from the reference to the measured orientation.
RotationCorrectionBack(current, desired) ==
    LET error == Shorter(ErrorQuaternion(desired, current))
    IN  2 * HalfAngle(error) * Axis(error)

\* rotationCorrectionWorld
RotationCorrection(current, desired) ==
    LET error == Shorter(ErrorQuaternion(current, desired))
    IN  2 * HalfAngle(error) * Axis(error)

\* kBeta * tanh(kAlpha * error_y), of which only the sign matters here; the sine it
\* is added to swings about zero.
Bias(current, desired) == Sign(RotationCorrection(current, desired))
=============================================================================
