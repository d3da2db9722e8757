------------------------------ MODULE StepGuard ------------------------------
(***************************************************************************)
(* The step guard of cartesian_command_callback                            *)
(* (generic_cartesian_controller_wrapper.cpp): a requested pose that is    *)
(* not finite, or too far from the measured one, is replaced by the        *)
(* measured one, and the requested quaternion is turned to the hemisphere  *)
(* of the measured one.                                                    *)
(*                                                                         *)
(* The guard runs on the executor thread and reads state_buffer_ again and *)
(* again, one coordinate after the other, with no lock, while update       *)
(* overwrites it field by field on the real-time thread.  A quaternion is  *)
(* read and written at once.  The controller is active and its measured    *)
(* pose is finite.                                                         *)
(*                                                                         *)
(* Positions have two coordinates; orientations are those of               *)
(* CartesianImpedance, whose law follows the reference the guard hands on. *)
(***************************************************************************)
EXTENDS CartesianImpedance

CONSTANTS
    NaN,       \* a coordinate, or a quaternion, that is not finite
    Place,     \* the values of a coordinate
    Measured,  \* the poses the robot model may report
    Requests,  \* the poses a message may ask for
    MaxStep,   \* max_position_command_step_m_
    MaxTurn    \* max_orientation_command_step_rad_

Pose == [x : Place, y : Place, quat : Quaternion]

RequestKind == [x : Place \union {NaN}, y : Place \union {NaN}, quat : Quaternion \union {NaN}]

ASSUME GuardAssumption ==
    /\ Place \subseteq Int /\ NaN \notin Int
    /\ Measured \subseteq Pose
    /\ Requests \subseteq RequestKind
    /\ MaxStep \in Nat /\ MaxTurn \in Nat

VARIABLES
    max_step_guard_enabled,  \* the parameter of that name
    before, after, pending,  \* state_buffer_: the pose update found, the pose it is
                             \* writing, and the fields it has not yet written
    pc,                      \* where the callback is
    request,                 \* the message's pose
    cmd,                     \* the callback's local command; between callbacks the
                             \* reference the control loop follows
    reading,                 \* the x coordinate read of a measured position
    far,                     \* the parts of the request found too far
    seen                     \* history: the values each field of state_buffer_ has
                             \* had since the callback began

robot_vars    == <<before, after, pending>>
callback_vars == <<pc, request, cmd, reading, far>>
vars == <<max_step_guard_enabled, robot_vars, callback_vars, seen>>

Fields == {"x", "y", "quat"}

\* state_buffer_ as the executor finds it, perhaps half written.
Current == [f \in Fields |-> IF f \in pending THEN before[f] ELSE after[f]]

-----------------------------------------------------------------------------
(* Distances                                                               *)

SquaredStep(p, m) == (p.x - m.x) * (p.x - m.x) + (p.y - m.y) * (p.y - m.y)

\* A slip: without the absolute value opposite quaternions seem far apart.
TurnSigned(a, b) == 2 * Arc(a, b)

\* A slip: the angle on the circle, which is half the rotation.
TurnHalved(a, b) ==
    LET arc == Arc(a, b)
    IN  IF 2 * arc <= HalfTurn THEN arc ELSE HalfTurn - arc

\* orientation_step: twice the arc cosine of the absolute dot product.
Turn(a, b) ==
    LET arc == Arc(a, b)
    IN  2 * (IF 2 * arc <= HalfTurn THEN arc ELSE HalfTurn - arc)

FinitePosition(p) == p.x # NaN /\ p.y # NaN

\* A slip: NaN compares greater than no limit.
FarPositionCompared(p, m) ==
    FinitePosition(p) /\ max_step_guard_enabled /\ SquaredStep(p, m) > MaxStep * MaxStep

FarPosition(p, m) ==
    \/ ~FinitePosition(p)
    \/ max_step_guard_enabled /\ SquaredStep(p, m) > MaxStep * MaxStep

FarOrientation(p, m) ==
    \/ p.quat = NaN
    \/ max_step_guard_enabled /\ Turn(p.quat, m.quat) > MaxTurn

-----------------------------------------------------------------------------
(* The real-time thread: update                                            *)

\* getPose writes the new pose into state_buffer_ ...
UpdatePose(m) ==
    /\ pending = {}
    /\ before' = after
    /\ after' = m
    /\ pending' = Fields
    /\ UNCHANGED <<max_step_guard_enabled, callback_vars, seen>>

\* ... field by field, in whatever order.
WriteField(f) ==
    /\ f \in pending
    /\ pending' = pending \ {f}
    /\ seen' = IF pc = "idle" THEN seen ELSE [seen EXCEPT ![f] = @ \union {after[f]}]
    /\ UNCHANGED <<max_step_guard_enabled, before, after, callback_vars>>

-----------------------------------------------------------------------------
(* The executor's thread: cartesian_command_callback                       *)

Begin(r) ==
    /\ pc = "idle"
    /\ request' = r
    /\ cmd' = r
    /\ seen' = [f \in Fields |-> {Current[f]}]
    /\ pc' = "measure_x"
    /\ UNCHANGED <<max_step_guard_enabled, robot_vars, reading, far>>

\* position_step: the measured position is read coordinate by coordinate.
MeasureX ==
    /\ pc = "measure_x"
    /\ reading' = Current.x
    /\ pc' = "measure_y"
    /\ UNCHANGED <<max_step_guard_enabled, robot_vars, request, cmd, far, seen>>

MeasureY ==
    /\ pc = "measure_y"
    /\ LET measured == [x |-> reading, y |-> Current.y]
       IN  far' = IF FarPosition(cmd, measured) THEN {"position"} ELSE {}
    /\ reading' = NaN
    /\ pc' = "measure_orientation"
    /\ UNCHANGED <<max_step_guard_enabled, robot_vars, request, cmd, seen>>

MeasureOrientation ==
    /\ pc = "measure_orientation"
    /\ far' = far \union (IF FarOrientation(cmd, Current) THEN {"orientation"} ELSE {})
    /\ pc' = "limit_x"
    /\ UNCHANGED <<max_step_guard_enabled, robot_vars, request, cmd, reading, seen>>

\* cmd.position = state_buffer_.position, a coordinate at a time.
LimitX ==
    /\ pc = "limit_x"
    /\ cmd' = IF "position" \in far THEN [cmd EXCEPT !.x = Current.x] ELSE cmd
    /\ pc' = "limit_y"
    /\ UNCHANGED <<max_step_guard_enabled, robot_vars, request, reading, far, seen>>

LimitY ==
    /\ pc = "limit_y"
    /\ cmd' = IF "position" \in far THEN [cmd EXCEPT !.y = Current.y] ELSE cmd
    /\ pc' = "limit_orientation"
    /\ UNCHANGED <<max_step_guard_enabled, robot_vars, request, reading, far, seen>>

LimitOrientation ==
    /\ pc = "limit_orientation"
    /\ cmd' = IF "orientation" \in far THEN [cmd EXCEPT !.quat = Current.quat] ELSE cmd
    /\ pc' = "align"
    /\ UNCHANGED <<max_step_guard_enabled, robot_vars, request, reading, far, seen>>

\* A slip: the quaternion keeps the sign the message gave it.
AlignNothing ==
    /\ pc = "align"
    /\ pc' = "publish"
    /\ UNCHANGED <<max_step_guard_enabled, robot_vars, request, cmd, reading, far, seen>>

Align ==
    /\ pc = "align"
    /\ cmd' = IF Opposed(cmd.quat, Current.quat)
              THEN [cmd EXCEPT !.quat = Opposite(@)]
              ELSE cmd
    /\ pc' = "publish"
    /\ UNCHANGED <<max_step_guard_enabled, robot_vars, request, reading, far, seen>>

Publish ==
    /\ pc = "publish"
    /\ pc' = "idle"
    /\ request' = cmd
    /\ far' = {}
    /\ seen' = [f \in Fields |-> {}]
    /\ UNCHANGED <<max_step_guard_enabled, robot_vars, cmd, reading>>

-----------------------------------------------------------------------------

\* on_activate has seeded the reference with the measured pose.
Init ==
    /\ max_step_guard_enabled \in BOOLEAN
    /\ after \in Measured
    /\ before = after
    /\ pending = {}
    /\ pc = "idle"
    /\ request = after
    /\ cmd = after
    /\ reading = NaN
    /\ far = {}
    /\ seen = [f \in Fields |-> {}]

Next ==
    \/ \E m \in Measured : UpdatePose(m)
    \/ \E f \in Fields : WriteField(f)
    \/ \E r \in Requests : Begin(r)
    \/ MeasureX \/ MeasureY \/ MeasureOrientation
    \/ LimitX \/ LimitY \/ LimitOrientation \/ Align
    \/ Publish

Spec == Init /\ [][Next]_vars

-----------------------------------------------------------------------------
(* Properties                                                              *)

\* Every variable holds a value of its kind, and what the guard hands on is a
\* finite pose, whatever the message asked for and with the guard on or off.
TypeOK ==
    /\ max_step_guard_enabled \in BOOLEAN
    /\ before \in Pose /\ after \in Pose
    /\ pending \subseteq Fields
    /\ pc \in {"idle", "measure_x", "measure_y", "measure_orientation", "limit_x", "limit_y",
               "limit_orientation", "align", "publish"}
    /\ request \in Requests \union Pose
    /\ cmd \in IF pc \in {"idle", "align", "publish"} THEN Pose ELSE RequestKind
    /\ far \subseteq {"position", "orientation"}
    /\ reading \in IF pc = "measure_y" THEN Place ELSE {NaN}
    /\ seen.x \subseteq Place /\ seen.y \subseteq Place /\ seen.quat \subseteq Quaternion

\* The orientations a and b are within the limit of each other: a quaternion of a
\* lies, on some lap of the circle, within half the limit of b.
WithinTurn(a, b) ==
    \E q \in {a, Opposite(a)} :
        \E lap \in {-2 * HalfTurn, 0, 2 * HalfTurn} :
            -MaxTurn <= 2 * (q + lap - b) /\ 2 * (q + lap - b) <= MaxTurn

\* With the guard on, the reference the callback is about to publish is within both
\* limits of where the robot was meanwhile: of a position and an orientation whose
\* fields state_buffer_ had while the callback ran, however far the robot moved
\* between the reads.  With the guard on or off, its quaternion is on the side of one
\* of the measured ones.
NearTheRobot ==
    pc = "publish" =>
        /\ \E q \in seen.quat : ~Opposed(cmd.quat, q)
        /\ max_step_guard_enabled =>
               /\ \E x \in seen.x, y \in seen.y :
                      SquaredStep(cmd, [x |-> x, y |-> y]) <= MaxStep * MaxStep
               /\ \E q \in seen.quat : WithinTurn(cmd.quat, q)

\* The robot stood still while the callback ran.
Still == \A f \in Fields : seen[f] = {after[f]}

\* The guard leaves alone what is near: if the robot is still and the position
\* asked for is within its limit it is published as asked, and so is the
\* orientation, up to the sign of its quaternion.
NearIsKept ==
    pc = "publish" /\ Still =>
        /\ ~FarPosition(request, after) => cmd.x = request.x /\ cmd.y = request.y
        /\ request.quat # NaN /\ WithinTurn(request.quat, after.quat) =>
               cmd.quat \in {request.quat, Opposite(request.quat)}

\* What the guard measured is what the impedance law turns: with the guard on, the
\* first rotation the law pulls along, from where the robot was meanwhile, is within
\* the limit.
FirstTurnIsBounded ==
    pc = "publish" /\ max_step_guard_enabled =>
        \E q \in seen.quat : RotationError(q, cmd.quat) \in -MaxTurn .. MaxTurn

\* Wherever the robot has gone meanwhile, the law turns it to the reference, by
\* half a turn at most and, short of exactly half a turn, the same way whichever
\* of its two quaternions the reference is.
TurnsTheShortWay ==
    pc = "idle" /\ pending = {} =>
        LET turn    == RotationError(after.quat, cmd.quat)
            reached == ErrorQuaternion(cmd.quat, after.quat) + turn \div 2
        IN  /\ reached \in {0, HalfTurn, 2 * HalfTurn}
            /\ turn \in -HalfTurn .. HalfTurn
            /\ turn \notin {-HalfTurn, HalfTurn} =>
                   turn = RotationError(after.quat, Opposite(cmd.quat))

\* The orientation one quaternion further in the direction of way.
Turned(q, way) ==
    CASE q + way = 2 * HalfTurn -> 0
      [] q + way = -1           -> 2 * HalfTurn - 1
      [] OTHER                  -> q + way

\* A torque whose sign is way brings the robot nearer to where it should be, as the
\* guard measures it, and there is none only when it is there.
TurnsToward(way, current, desired) ==
    IF way = 0
    THEN Turn(desired, current) = 0
    ELSE Turn(desired, Turned(current, way)) < Turn(desired, current)

\* "Positive error means that a positive y torque moves toward the target", and so
\* for the negative one: wherever robot and reference are, the bias of the dither
\* turns the robot nearer to the reference, and so does the spring of the impedance
\* law, whatever its stiffness.
TorquesTurnToward ==
    pc = "idle" /\ pending = {} =>
        /\ TurnsToward(Bias(after.quat, cmd.quat), after.quat, cmd.quat)
        /\ \A stiffness \in Stiffness :
               TurnsToward(Sign(ImpedanceTorque(stiffness, after.quat, cmd.quat)),
                           after.quat, cmd.quat)

\* What the log line "using the current end-effector position" claims: a position
\* put in place of the requested one is one the robot model reports.
PositionOf(p) == <<p.x, p.y>>

ReplacedByAPosition ==
    [][pc = "limit_y" /\ pc' # pc /\ "position" \in far =>
           \E m \in Measured : PositionOf(cmd') = PositionOf(m)]_vars
=============================================================================
