---------------------------- MODULE TorquePipeline ----------------------------
(***************************************************************************)
(* What update adds to the torque of the implementation before it writes   *)
(* it, in both wrappers (generic_cartesian_controller_wrapper.cpp,         *)
(* generic_joint_controller_wrapper.cpp):                                  *)
(*                                                                         *)
(*   Cartesian: step, gravity, friction, dither, repulsion, sanitize,      *)
(*              write;                                                     *)
(*   joint:     step, friction, repulsion, sanitize, write.                *)
(*                                                                         *)
(* One thread runs all of it, so a step is one stage.  readControllerState *)
(* and the checks before the implementation guarantee finite positions and *)
(* velocities; its torque is not checked.                                  *)
(***************************************************************************)
EXTENDS FrictionCompensation, JointLimitRepulsion

CONSTANTS
    Joint,
    Position,             \* what the state interfaces may report
    Velocity,
    FrictionParameters,   \* parameters a user may configure, bad ones included
    RepulsionParameters,
    ImplTorque,           \* what step may answer for a joint, NaN included
    GravityTorque,        \* what the robot model may answer, NaN included
    DitherTorque,         \* the dither torques of a joint, all finite
    TauAbsMax             \* kTauAbsMaxWrite

ASSUME PipelineAssumption ==
    /\ Position \subseteq Int
    /\ Velocity \subseteq Int
    /\ ImplTorque \subseteq Number
    /\ GravityTorque \subseteq Number
    /\ DitherTorque \subseteq Int
    /\ TauAbsMax \in Nat

\* The parameters are numbers, of the kind the requested model asks for.
ASSUME ParameterAssumption ==
    /\ \A p \in FrictionParameters : p.requested =>
           /\ p.scale \in Number
           /\ p.model = "sigmoid" => p.values \in [phi1 : Number, phi2 : Number, phi3 : Number]
           /\ p.model = "hysteresis" =>
                  p.values \in [hyst : Number, fvp : Number, fcp : Number, fvn : Number, fcn : Number]
    /\ RepulsionParameters \subseteq
           [enabled : BOOLEAN, stiffness : Number, damping : Number, margin : Number,
            lower : Number, upper : Number, limited : BOOLEAN, described : BOOLEAN]

VARIABLES
    wrapper,    \* which of the two plugins runs
    lifecycle,
    pc,         \* the next stage of update, "idle" between cycles
    position, velocity,   \* state_buffer_.q and dq as the last Step read them
    tau,        \* tau_out_
    hw,         \* the command interfaces
    step_tau,   \* history: the implementation's last answer in a cycle of this session
    faulted     \* history: an answer in a cycle since the configuration was not finite

stage_vars == <<position, velocity, step_tau, faulted>>
vars == <<wrapper, lifecycle, pc, tau, hw, stage_vars, friction_vars, repulsion_vars>>

Wrapper == {"cartesian", "joint"}
Lifecycle == {"unconfigured", "inactive", "active", "finalized"}
Stage == {"idle", "gravity", "friction", "dither", "repulsion", "write"}

Zeros == [j \in Joint |-> 0]

Sum(a, b) == [j \in Joint |-> Plus(a[j], b[j])]

-----------------------------------------------------------------------------
(* Lifecycle, as far as it concerns the stages. *)

Init ==
    /\ wrapper \in Wrapper /\ lifecycle = "unconfigured" /\ pc = "idle"
    /\ position = Zeros /\ velocity = Zeros
    /\ tau = Zeros /\ hw = Zeros
    /\ step_tau = Zeros /\ faulted = FALSE
    /\ friction = [requested |-> FALSE, model |-> "disabled", scale |-> 1,
                   values |-> [phi1 |-> 0, phi2 |-> 0, phi3 |-> 0]]
    /\ friction_enabled = FALSE
    /\ repulsion = [enabled |-> FALSE, stiffness |-> 0, damping |-> 0, margin |-> 0,
                    lower |-> NaN, upper |-> NaN, limited |-> FALSE, described |-> FALSE]
    /\ repulsion_enabled = FALSE

\* A slip: on_configure does not look at what the repulsion's configure returned.
ConfigureWithoutLooking(fp, rp) ==
    /\ lifecycle \in {"unconfigured", "inactive"}
    /\ ConfigureFriction(fp)
    /\ IF FrictionAccepted(fp) THEN ConfigureRepulsion(rp) ELSE UNCHANGED repulsion_vars
    /\ lifecycle' = IF FrictionAccepted(fp) THEN "inactive" ELSE "finalized"
    /\ faulted' = FALSE
    /\ UNCHANGED <<wrapper, pc, position, velocity, tau, hw, step_tau>>

\* on_configure: friction first, repulsion when friction was accepted.  The robot
\* description and the library may also be refused, before and after repulsion.
Configure(fp, rp) ==
    /\ lifecycle \in {"unconfigured", "inactive"}
    /\ ConfigureFriction(fp)
    /\ \/ /\ FrictionAccepted(fp) /\ ConfigureRepulsion(rp)
          /\ lifecycle' \in IF RepulsionAccepted(rp) THEN {"inactive", "finalized"} ELSE {"finalized"}
       \/ UNCHANGED repulsion_vars /\ lifecycle' = "finalized"
    /\ faulted' = FALSE
    /\ UNCHANGED <<wrapper, pc, position, velocity, tau, hw, step_tau>>

\* on_activate asks the implementation for a first answer.  The Cartesian wrapper
\* leaves it in tau_out_, the joint wrapper writes zeros; a refusal ends the node.
Activate ==
    /\ lifecycle = "inactive"
    /\ \/ /\ lifecycle' = "active"
          /\ IF wrapper = "cartesian"
             THEN tau' \in [Joint -> ImplTorque] /\ UNCHANGED hw
             ELSE tau' = Zeros /\ hw' = Zeros
       \/ lifecycle' = "finalized" /\ tau' = Zeros /\ hw' = Zeros
    /\ UNCHANGED <<wrapper, pc, stage_vars, friction_vars, repulsion_vars>>

\* on_deactivate writes zeros, in the joint wrapper also to tau_out_.
Deactivate ==
    /\ lifecycle = "active" /\ pc = "idle"
    /\ lifecycle' = "inactive"
    /\ hw' = Zeros /\ step_tau' = Zeros
    /\ tau' = IF wrapper = "joint" THEN Zeros ELSE tau
    /\ UNCHANGED <<wrapper, pc, position, velocity, faulted, friction_vars, repulsion_vars>>

-----------------------------------------------------------------------------
(* The stages of update. *)

AtStage(stage) == lifecycle = "active" /\ pc = stage

\* Go on with torques t.
GoTo(stage, t) == pc' = stage /\ tau' = t /\ UNCHANGED hw

\* writeZeroTorques and return.
WriteZeros == pc' = "idle" /\ tau' = Zeros /\ hw' = Zeros

\* The state, the command, the robot model or the implementation refuses.
FailedCycle ==
    /\ AtStage("idle")
    /\ pc' = "idle" /\ tau' = Zeros /\ hw' = Zeros
    /\ UNCHANGED <<wrapper, lifecycle, stage_vars, friction_vars, repulsion_vars>>

\* The implementation answers.
Step ==
    /\ AtStage("idle")
    /\ position' \in [Joint -> Position] /\ velocity' \in [Joint -> Velocity]
    /\ step_tau' \in [Joint -> ImplTorque]
    /\ tau' = step_tau'
    /\ faulted' = (faulted \/ ~AllFinite(step_tau'))
    /\ pc' = IF wrapper = "cartesian" THEN "gravity" ELSE "friction"
    /\ UNCHANGED <<wrapper, lifecycle, hw, friction_vars, repulsion_vars>>

\* Gravity is off, or the model has none.
SkipGravity ==
    /\ AtStage("gravity") /\ GoTo("friction", tau)
    /\ UNCHANGED <<wrapper, lifecycle, stage_vars, friction_vars, repulsion_vars>>

\* A slip: gravity is added whatever the model returned.
AddGravityUnchecked ==
    /\ AtStage("gravity")
    /\ \E gravity \in [Joint -> GravityTorque] : GoTo("friction", Sum(tau, gravity))
    /\ UNCHANGED <<wrapper, lifecycle, stage_vars, friction_vars, repulsion_vars>>

\* Torques of the model that are not all finite are skipped.
AddGravity ==
    /\ AtStage("gravity")
    /\ \E gravity \in [Joint -> GravityTorque] :
           GoTo("friction", IF AllFinite(gravity) THEN Sum(tau, gravity) ELSE tau)
    /\ UNCHANGED <<wrapper, lifecycle, stage_vars, friction_vars, repulsion_vars>>

AfterFriction == IF wrapper = "cartesian" THEN "dither" ELSE "repulsion"

SkipFriction ==
    /\ AtStage("friction") /\ FrictionIdle
    /\ GoTo(AfterFriction, tau)
    /\ UNCHANGED <<wrapper, lifecycle, stage_vars, friction_vars, repulsion_vars>>

AddFriction ==
    /\ AtStage("friction") /\ ~FrictionIdle /\ AllFinite(tau)
    /\ GoTo(AfterFriction, [j \in Joint |-> tau[j] + friction.scale * FrictionTorque(velocity[j])])
    /\ UNCHANGED <<wrapper, lifecycle, stage_vars, friction_vars, repulsion_vars>>

\* The Cartesian wrapper drives on without friction compensation, the joint
\* wrapper ends the cycle.
FrictionFault ==
    /\ AtStage("friction") /\ FrictionFails(tau)
    /\ IF wrapper = "cartesian" THEN GoTo(AfterFriction, tau) ELSE WriteZeros
    /\ UNCHANGED <<wrapper, lifecycle, stage_vars, repulsion_vars>>

\* addErrorBiasedDither, skipped when it is off or has no finite torque.
AddDither ==
    /\ AtStage("dither")
    /\ \/ GoTo("repulsion", tau)
       \/ \E dither \in [Joint -> DitherTorque] : GoTo("repulsion", Sum(tau, dither))
    /\ UNCHANGED <<wrapper, lifecycle, stage_vars, friction_vars, repulsion_vars>>

Repelled == Sum(tau, [j \in Joint |-> Repulsion(position[j], velocity[j])])

\* addTorque answers for all joints; when it is disabled it looks at nothing.
AddRepulsion ==
    /\ AtStage("repulsion")
    /\ IF repulsion_enabled /\ ~AllFinite(Repelled) THEN WriteZeros ELSE GoTo("write", Repelled)
    /\ UNCHANGED <<wrapper, lifecycle, stage_vars, friction_vars, repulsion_vars>>

\* A slip: nothing is clamped.
SanitizeWithoutClamp(t) == IF Finite(t) THEN t ELSE 0

\* A slip: the clamp comes before the test for infinity.
SanitizeClampFirst(t) == IF ~Finite(t) \/ t > TauAbsMax THEN TauAbsMax
                         ELSE IF t < -TauAbsMax THEN -TauAbsMax ELSE t

\* sanitizeTorqueOutput for one joint; the deadband of 1e-9 is no integer.
Sanitize(t) == IF ~Finite(t) THEN 0
               ELSE IF t > TauAbsMax THEN TauAbsMax
               ELSE IF t < -TauAbsMax THEN -TauAbsMax ELSE t

\* Sanitize and write.
Write ==
    /\ AtStage("write") /\ pc' = "idle"
    /\ tau' = [j \in Joint |-> Sanitize(tau[j])]
    /\ hw' = tau'
    /\ UNCHANGED <<wrapper, lifecycle, stage_vars, friction_vars, repulsion_vars>>

Next ==
    \/ \E fp \in FrictionParameters, rp \in RepulsionParameters : Configure(fp, rp)
    \/ Activate \/ Deactivate
    \/ FailedCycle \/ Step
    \/ SkipGravity \/ AddGravity
    \/ SkipFriction \/ AddFriction \/ FrictionFault
    \/ AddDither \/ AddRepulsion \/ Write

Spec == Init /\ [][Next]_vars

-----------------------------------------------------------------------------
(* Properties. *)

\* Torques on the interfaces are finite and within the saturation limit.
TypeOK ==
    /\ wrapper \in Wrapper /\ lifecycle \in Lifecycle /\ pc \in Stage
    /\ position \in [Joint -> Int] /\ velocity \in [Joint -> Int]
    /\ tau \in [Joint -> Number] /\ step_tau \in [Joint -> Number]
    /\ hw \in [Joint -> -TauAbsMax .. TauAbsMax]
    /\ faulted \in BOOLEAN /\ friction_enabled \in BOOLEAN /\ repulsion_enabled \in BOOLEAN

\* An active controller never runs compensation that its configuration refused,
\* although JointLimitRepulsion::configure sets enabled_ before it validates.
ConfiguredIsValid ==
    lifecycle = "active" =>
        /\ friction_enabled => ValidFriction(friction)
        /\ repulsion_enabled => ValidRepulsion(repulsion)

\* Friction compensation that was configured is lost exactly when the
\* implementation once answered a torque that is not finite: gravity and dither
\* can not cost it, and no later good cycle brings it back.
FrictionLostToFaultsOnly ==
    lifecycle = "active" /\ pc = "idle" /\ friction.requested =>
        (friction_enabled <=> ~faulted \/ friction.scale = 0)

\* A joint whose torque from the implementation is not finite gets zero, not the
\* limit; with repulsion enabled every joint gets zero.
FaultWritesZero ==
    pc = "idle" /\ ~AllFinite(step_tau) =>
        /\ \A j \in Joint : ~Finite(step_tau[j]) => hw[j] = 0
        /\ repulsion_enabled /\ lifecycle = "active" => hw = Zeros

\* The active controller's friction compensation helps the motion as far as its
\* coefficients make it, and never pushes a joint at rest out of it: configure lets no
\* band and no scale through that would turn it round.
FrictionHelpsMotion == lifecycle = "active" => HelpsMotion(Velocity)

\* What the active controller adds at the limits of a joint points to the middle:
\* configure lets no margins through that meet.
RepulsionPushesInward ==
    lifecycle = "active" => PushesInward(repulsion.lower .. repulsion.upper)
=============================================================================
