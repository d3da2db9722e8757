--------------------------- MODULE JointController ---------------------------
(***************************************************************************)
(* The joint-space controller: the wrapper                                 *)
(* (generic_joint_controller_wrapper.cpp) around one instance of           *)
(* JointImpedanceImpl (joint_impedance_impl.cpp), whose filtered target    *)
(* and torque-rate memory outlive a deactivation.                          *)
(*                                                                         *)
(* The joints do not influence each other, so there is one.  It has unit   *)
(* stiffness and no damping, its Coriolis torque is zero or not finite,    *)
(* friction and repulsion add any of a few torques or fail, and torques    *)
(* and positions are integers; the low-pass filter, whose alpha is clamped *)
(* to [0, 1], may move its target anywhere between the old value and the   *)
(* commanded one.                                                          *)
(***************************************************************************)
EXTENDS Numbers

CONSTANTS
    NoCommand,     \* a default-constructed ControlCommand: empty vectors
    Position,      \* joint positions, measured and commanded
    FeedForward,   \* feedforward torques of a command
    Compensation,  \* what friction compensation and repulsion may add in a cycle
    MaxTauDelta,   \* max_tau_delta_
    TauAbsMax,     \* the limit of sanitizeTorqueOutput, 120 in the code
    StaleAfter,    \* messages older than this are dropped (0.5 s in the code)
    MaxTime,       \* bound on the clock
    MaxMemory      \* bound on tau_last_commanded_

ASSUME JointAssumption ==
    /\ Position \subseteq Int /\ Position # {}
    /\ FeedForward \subseteq Int /\ 0 \in FeedForward
    /\ Compensation \subseteq Int /\ 0 \in Compensation
    /\ MaxTauDelta \in Nat \ {0}
    /\ TauAbsMax \in Nat
    /\ StaleAfter \in Nat
    /\ MaxTime \in Nat \ {0}
    /\ MaxMemory \in Nat

VARIABLES
    lifecycle,     \* the node's primary lifecycle state
    stamped,       \* on_activate has set active_since_ and not yet seeded the buffer
    now,           \* the node's clock
    active_since,  \* active_since_
    q,             \* state_buffer_.q
    newest,        \* RealtimeBuffer: the command last written
    taken,         \* RealtimeBuffer: the command the control loop last took
    accepted,      \* the command joint_command_callback is about to write, or none
    initialized,   \* JointImpedanceImpl: initialized_
    q_d,           \* JointImpedanceImpl: q_d_, the filtered target
    feed_forward,  \* JointImpedanceImpl: feed_forward_q_target_
    tau_last,      \* JointImpedanceImpl: tau_last_commanded_
    hw,            \* the torque last written to the effort interface
    driving,       \* history: the last write in this session was an update's torque
    added,         \* history: what the compensations added to that torque
    overlap        \* history: a callback was under way when the buffer was seeded

impl_vars   == <<initialized, q_d, feed_forward, tau_last>>
buffer_vars == <<newest, taken>>
torque_vars == <<hw, driving, added>>
vars == <<lifecycle, stamped, now, active_since, q, buffer_vars, accepted, impl_vars,
          torque_vars, overlap>>

Time == 0 .. MaxTime

\* "stamp" is a ghost, as in CartesianCommandPath.
Command == [position : Position, torque_ff : FeedForward, stamp : Time]

ASSUME NoCommandAssumption == NoCommand \notin Command

Clamp(x, lo, hi) == IF x < lo THEN lo ELSE IF x > hi THEN hi ELSE x

Abs(x) == IF x < 0 THEN -x ELSE x

\* Where a filter with some alpha in [0, 1] may put the target.
Between(a, b) == {p \in Position : (a <= p /\ p <= b) \/ (b <= p /\ p <= a)}

\* A slip: finite torques pass unlimited.
SanitizeFinite(tau) == IF Finite(tau) THEN tau ELSE 0

\* A slip: a limiter written with comparisons takes what is not finite to a limit.
SanitizeToLimit(tau) == IF Finite(tau) THEN Clamp(tau, -TauAbsMax, TauAbsMax) ELSE TauAbsMax

\* sanitizeTorqueOutput: zero for what is not finite, and the limit.
Sanitize(tau) == IF Finite(tau) THEN Clamp(tau, -TauAbsMax, TauAbsMax) ELSE 0

-----------------------------------------------------------------------------
(* The implementation                                                      *)

\* initializeTargets acts once in the life of an implementation.
StartTarget(cmd)  == IF initialized THEN q_d ELSE cmd.position
StartForward(cmd) == IF initialized THEN feed_forward ELSE cmd.torque_ff
StartTorque       == IF initialized THEN tau_last ELSE 0

\* What getCoriolis puts into coriolis_, zero, infinite in either direction or NaN;
\* nobody checks it.
Coriolis == {"zero", "up", "down", "nan"}

\* The rest of the impedance law, on the targets of the step before.
Desired(cmd, measured) == StartTarget(cmd) - measured + StartForward(cmd)

\* A slip: the rate limit is applied around zero, not around the last torque.
StepTorqueFromZero(cmd, measured, coriolis) ==
    IF ~Finite(StartTorque) \/ coriolis = "nan"
    THEN NaN
    ELSE LET limit == MaxTauDelta + Abs(StartTorque)
         IN  Clamp(Desired(cmd, measured), -limit, limit)

\* saturateTorqueRate: std::clamp takes an infinite difference to a limit, too.
RateLimited(difference, coriolis) ==
    CASE coriolis = "up"   -> MaxTauDelta
      [] coriolis = "down" -> -MaxTauDelta
      [] coriolis = "zero" -> Clamp(difference, -MaxTauDelta, MaxTauDelta)

\* The torque of one step, rate-limited around the last torque.  NaN passes the limit,
\* and so does the memory of every step after it.
StepTorque(cmd, measured, coriolis) ==
    IF ~Finite(StartTorque) \/ coriolis = "nan"
    THEN NaN
    ELSE StartTorque + RateLimited(Desired(cmd, measured) - StartTorque, coriolis)

\* The memory after a step, within its bound.
StepMemory(cmd, measured) ==
    /\ \E coriolis \in Coriolis : tau_last' = StepTorque(cmd, measured, coriolis)
    /\ tau_last' \in -MaxMemory .. MaxMemory \union {NaN}

\* A slip: the target keeps its constructed value until the filter moves it.
StepFromConstructor(cmd, measured) ==
    /\ StepMemory(cmd, measured)
    /\ q_d' \in Between(q_d, cmd.position)
    /\ feed_forward' = cmd.torque_ff
    /\ initialized' = TRUE

\* JointImpedanceImpl::step; the targets are filtered after they were used.
Step(cmd, measured) ==
    /\ StepMemory(cmd, measured)
    /\ q_d' \in Between(StartTarget(cmd), cmd.position)
    /\ feed_forward' = cmd.torque_ff
    /\ initialized' = TRUE

-----------------------------------------------------------------------------
(* The controller manager's thread                                         *)

Tick ==
    /\ now < MaxTime
    /\ now' = now + 1
    /\ UNCHANGED <<lifecycle, stamped, active_since, q, buffer_vars, accepted, impl_vars,
                   torque_vars, overlap>>

\* on_configure loads a new implementation, whose constructor zeroes it, or
\* fails and the inherited on_error finalizes the node.
Configure ==
    /\ lifecycle = "unconfigured"
    /\ \/ /\ lifecycle' = "inactive"
          /\ initialized' = FALSE
          /\ q_d' \in Position
          /\ feed_forward' = 0
          /\ tau_last' = 0
       \/ /\ lifecycle' = "finalized"
          /\ UNCHANGED impl_vars
    /\ UNCHANGED <<stamped, now, active_since, q, buffer_vars, accepted, torque_vars, overlap>>

\* on_activate reads the joint state and the clock ...
ActivateStamp ==
    /\ lifecycle = "inactive" /\ ~stamped
    /\ q' \in Position
    /\ active_since' = now
    /\ stamped' = TRUE
    /\ UNCHANGED <<lifecycle, now, buffer_vars, accepted, impl_vars, torque_vars, overlap>>

SeedCommand == [position |-> q, torque_ff |-> 0, stamp |-> active_since]

\* ... seeds the buffer with the position it read, runs one step of the
\* implementation and writes zeros.  Any failure refuses the activation.
ActivateSeed ==
    /\ stamped
    /\ stamped' = FALSE
    /\ newest' = SeedCommand
    /\ overlap' = (accepted # NoCommand)
    /\ \/ lifecycle' = "active" /\ Step(SeedCommand, q)
       \/ lifecycle' = "finalized" /\ UNCHANGED impl_vars
    /\ hw' = 0
    /\ driving' = FALSE /\ added' = 0
    /\ UNCHANGED <<now, active_since, q, taken, accepted>>

\* A slip: the torque of the last update stays on the interface.
DeactivateKeepsTorque ==
    /\ lifecycle = "active"
    /\ lifecycle' = "inactive"
    /\ driving' = FALSE /\ added' = 0
    /\ UNCHANGED <<stamped, now, active_since, q, buffer_vars, accepted, impl_vars, hw, overlap>>

Deactivate ==
    /\ lifecycle = "active"
    /\ lifecycle' = "inactive"
    /\ hw' = 0
    /\ driving' = FALSE /\ added' = 0
    /\ UNCHANGED <<stamped, now, active_since, q, buffer_vars, accepted, impl_vars, overlap>>

\* on_cleanup is inherited and does nothing.
Cleanup ==
    /\ lifecycle = "inactive" /\ ~stamped
    /\ lifecycle' = "unconfigured"
    /\ UNCHANGED <<stamped, now, active_since, q, buffer_vars, accepted, impl_vars,
                   torque_vars, overlap>>

\* What the control loop takes: the newest command, or, while a callback is
\* writing, perhaps the one it had.
Take ==
    \/ taken' = newest
    \/ accepted # NoCommand /\ taken' = taken

\* A command with empty vectors, a joint state that is not finite, a failing
\* model or a failing getCoriolis: the cycle ends before the implementation acts.
UpdateFails ==
    /\ lifecycle = "active"
    /\ Take
    /\ q' \in Position
    /\ hw' = 0
    /\ driving' = FALSE /\ added' = 0
    /\ UNCHANGED <<lifecycle, stamped, now, active_since, newest, accepted, impl_vars, overlap>>

\* A full cycle, in which friction compensation and repulsion add to the
\* implementation's torque after its rate limit, or one in which either fails after
\* the implementation has stepped: zeros are written although its state advanced.
Update ==
    /\ lifecycle = "active"
    /\ Take
    /\ taken' # NoCommand
    /\ q' \in Position
    /\ Step(taken', q')
    /\ \/ /\ added' \in Compensation
          /\ hw' = Sanitize(Plus(tau_last', added'))
          /\ driving' = TRUE
       \/ hw' = 0 /\ driving' = FALSE /\ added' = 0
    /\ UNCHANGED <<lifecycle, stamped, now, active_since, newest, accepted, overlap>>

-----------------------------------------------------------------------------
(* The executor's thread: joint_command_callback, subscribed in on_init    *)

\* The stamp is compared with active_since_ and with the clock ...
Accept(position, torque_ff, stamp) ==
    /\ accepted = NoCommand
    /\ stamp > 0
    /\ stamp >= active_since
    /\ stamp + StaleAfter >= now
    /\ accepted' = [position |-> position, torque_ff |-> torque_ff, stamp |-> stamp]
    /\ UNCHANGED <<lifecycle, stamped, now, active_since, q, buffer_vars, impl_vars,
                   torque_vars, overlap>>

\* ... and some time later the command is written to the buffer.
Publish ==
    /\ accepted # NoCommand
    /\ newest' = accepted
    /\ accepted' = NoCommand
    /\ overlap' = (overlap /\ accepted.stamp < active_since)
    /\ UNCHANGED <<lifecycle, stamped, now, active_since, q, taken, impl_vars, torque_vars>>

-----------------------------------------------------------------------------

Init ==
    /\ lifecycle = "unconfigured"
    /\ stamped = FALSE
    /\ now = 1
    /\ active_since = 0
    /\ q \in Position
    /\ newest = NoCommand
    /\ taken = NoCommand
    /\ accepted = NoCommand
    /\ initialized = FALSE
    /\ q_d \in Position
    /\ feed_forward = 0
    /\ tau_last = 0
    /\ hw = 0
    /\ driving = FALSE
    /\ added = 0
    /\ overlap = FALSE

Next ==
    \/ Tick \/ Configure \/ ActivateStamp \/ ActivateSeed \/ Deactivate \/ Cleanup
    \/ Update \/ UpdateFails
    \/ \E position \in Position, torque_ff \in FeedForward, stamp \in Time :
           Accept(position, torque_ff, stamp)
    \/ Publish

Spec == Init /\ [][Next]_vars

-----------------------------------------------------------------------------
(* Properties                                                              *)

\* Every variable holds a value of its kind.
TypeOK ==
    /\ lifecycle \in {"unconfigured", "inactive", "active", "finalized"}
    /\ stamped \in BOOLEAN
    /\ now \in Time
    /\ active_since \in Time
    /\ q \in Position
    /\ newest \in Command \union {NoCommand}
    /\ taken \in Command \union {NoCommand}
    /\ accepted \in Command \union {NoCommand}
    /\ initialized \in BOOLEAN
    /\ q_d \in Position
    /\ feed_forward \in FeedForward
    /\ tau_last \in Number
    /\ hw \in -TauAbsMax .. TauAbsMax
    /\ driving \in BOOLEAN
    /\ added \in Compensation
    /\ overlap \in BOOLEAN

\* The torque on the interface is zero whenever the controller is not active.
OnlyActiveDrives == hw # 0 => lifecycle = "active"

\* An active controller's buffer holds a command of its own session, unless a
\* callback that had passed the stamp check before the activation was still under
\* way when the buffer was seeded; the next command of the session mends that.
OnlyThisSession ==
    lifecycle = "active" /\ ~overlap => newest # NoCommand /\ newest.stamp >= active_since

\* Between two cycles that both drive the joint, the torque written changes by no
\* more than max_tau_delta_ and the change of what the compensations add after the
\* rate limit, whatever commands, sensor readings, infinite Coriolis torques and
\* saturation by sanitizeTorqueOutput come in between, unless it becomes zero for
\* being NaN.
DrivesAgain == lifecycle = "active" /\ driving /\ driving' /\ Finite(tau_last')

RateLimitedWhileDriving ==
    [][DrivesAgain => Abs(hw' - hw) <= MaxTauDelta + Abs(added' - added)]_vars

\* The first activation of an implementation instance takes the measured position
\* as its target and asks for no torque of its own: its memory holds what one step
\* makes of the Coriolis torque alone.
Activated == lifecycle = "inactive" /\ lifecycle' = "active"

FirstActivationRests ==
    [][Activated /\ ~initialized =>
           q_d' = q /\ tau_last' \in {0, NaN, MaxTauDelta, -MaxTauDelta}]_vars

\* One Coriolis torque of NaN stays in the implementation's memory: from then on no
\* cycle drives the joint, in this session or a later one, until a configuration
\* makes a new implementation.
FaultRests == [][~Finite(tau_last) => hw' = 0]_vars

\* Architecture.md says of the wrapper that it seeds the initial joint targets on
\* activation: on every activation, not only on the first.
SeedsTargets == [][Activated => q_d' = q]_vars

\* Where the wrapper is in its session, and what the session sees of a command
\* and of a torque.
SessionPhase ==
    IF lifecycle = "active" THEN "active"
    ELSE IF stamped THEN "stamped" ELSE "rest"

TorqueSeen == IF hw = 0 THEN "zero" ELSE "driven"

StampOf(cmd) == IF cmd = NoCommand THEN 0 ELSE cmd.stamp

\* The joint wrapper keeps the promise of a session, as the Cartesian one does
\* with a mutex and two copies.
Session == INSTANCE ControllerSession WITH
               phase     <- SessionPhase,
               since     <- active_since,
               newest    <- StampOf(newest),
               acts      <- StampOf(taken),
               busy      <- accepted # NoCommand,
               disturbed <- overlap,
               torque    <- TorqueSeen

ImplementsSession == Session!Spec
=============================================================================
