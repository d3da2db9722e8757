---------------------------- MODULE ControllerNode ----------------------------
(***************************************************************************)
(* Both wrappers as the parts they are assembled from: on_configure takes  *)
(* the joints from the parameters and sizes by them the friction           *)
(* compensation, the robot model, the repulsion and the implementation     *)
(* (ImplementationLoader); on_activate sizes the buffers; update runs all  *)
(* of them on vectors whose sizes nobody checks but validStepInput.        *)
(*                                                                         *)
(* The command callbacks of both wrappers size a command by num_joints_    *)
(* and run also while on_configure changes it; the joint wrapper has       *)
(* subscribed in on_init and reads num_joints_ several times.  Values do   *)
(* not matter here, only sizes and whether all numbers are finite.         *)
(***************************************************************************)
EXTENDS ImplementationLoader

CONSTANT DefaultJoints   \* what num_joints_ is before any configuration, 7

ASSUME DefaultAssumption == DefaultJoints \in JointCount

VARIABLES
    wrapper,      \* which of the two plugins this is
    lifecycle,    \* the node's primary lifecycle state
    stage,        \* where the manager's thread is inside on_configure or update
    joint_names,  \* how many names joint_names_ holds
    num_joints,   \* num_joints_
    sized,        \* the joints each part was last configured for
    interfaces,   \* joints whose interfaces the manager has claimed for the node
    buffers,      \* size of the vectors of state_buffer_ and of tau_out_
    newest,       \* RealtimeBuffer: the command last written
    taken,        \* RealtimeBuffer: the command the control loop last took
    exec_pc,      \* where the executor thread is inside a command callback
    exec_cmd      \* cmd, the callback's local

node_vars     == <<wrapper, lifecycle, stage, joint_names, num_joints, sized>>
active_vars   == <<interfaces, buffers, taken>>
callback_vars == <<newest, exec_pc, exec_cmd>>
vars == <<node_vars, active_vars, callback_vars, loader_vars>>

\* The parts that on_configure configures for a number of joints.
Part == {"friction", "model", "repulsion"}

\* What a command carries: "motion" is positions, velocities, wrench and gains, of
\* the joints or of the tool, "rest" the tool's orientation, the null-space vectors and
\* the feedforward torques.
Content == {"motion", "rest"}

\* A command: the size of joint_position, that of the four other joint vectors,
\* and which of its content is finite.
Command == [position : JointCount, others : JointCount, finite : SUBSET Content]

AllOf(n) == [position |-> n, others |-> n, finite |-> Content]

Init ==
    /\ wrapper \in {"cartesian", "joint"}
    /\ lifecycle = "unconfigured" /\ stage = "idle"
    /\ joint_names = 0 /\ num_joints = DefaultJoints
    /\ sized = [p \in Part |-> 0]
    /\ interfaces = 0 /\ buffers = 0
    /\ newest = AllOf(0) /\ taken = AllOf(0)
    /\ exec_pc = "idle" /\ exec_cmd = AllOf(0)
    /\ LoaderInit

-----------------------------------------------------------------------------
(* on_configure                                                            *)

\* The rest of on_configure after a step at stage s.
Following(s) ==
    CASE s = "joints" -> IF wrapper = "joint" THEN "gains" ELSE "friction"
      [] s = "gains" -> "friction"
      [] s = "friction" -> "model"
      [] s = "model" -> "repulsion"
      [] s = "repulsion" -> "load"

\* The callback returns ERROR; the inherited on_error does not recover the node.
Refuse == stage' = "idle" /\ lifecycle' = "finalized"

GoOn == stage' = Following(stage) /\ UNCHANGED lifecycle

\* The names are stored before they are looked at; no names are refused.
ConfigureJoints(n) ==
    /\ lifecycle = "unconfigured" /\ stage = "idle"
    /\ joint_names' = n
    /\ IF n = 0 THEN Refuse /\ UNCHANGED num_joints
       ELSE num_joints' = n /\ stage' = Following("joints") /\ UNCHANGED lifecycle
    /\ UNCHANGED <<wrapper, sized, active_vars, callback_vars, loader_vars>>

\* The joint wrapper refuses a filter_alpha or a max_tau_delta out of range.
CheckGains ==
    /\ stage = "gains"
    /\ GoOn \/ Refuse
    /\ UNCHANGED <<wrapper, joint_names, num_joints, sized, active_vars, callback_vars,
                   loader_vars>>

\* Friction compensation, the robot model (once the description is loaded) and
\* the repulsion are configured for the joints, or refuse.
ConfigurePart(part) ==
    /\ stage = part
    /\ \/ GoOn /\ sized' = [sized EXCEPT ![part] = num_joints]
       \/ Refuse /\ UNCHANGED sized
    /\ UNCHANGED <<wrapper, joint_names, num_joints, active_vars, callback_vars, loader_vars>>

\* instantiateImplementation, step by step.
Load ==
    /\ stage = "load"
    /\ \/ \E library \in MaybeLibrary : BeginInstantiate(library)
       \/ DestroyOld \/ CloseOld \/ Open \/ FindSymbols \/ Create(num_joints) \/ Adopt
    /\ UNCHANGED <<node_vars, active_vars, callback_vars>>

LoadFailed ==
    /\ stage = "load" /\ loading = "failed"
    /\ loading' = "no"
    /\ Refuse
    /\ UNCHANGED <<wrapper, joint_names, num_joints, sized, active_vars, callback_vars,
                   impl_library, member_vars, lib, linker_vars>>

\* The new implementation gets its parameters, which were checked before.
SetParameters ==
    /\ stage = "load" /\ loading = "done"
    /\ loading' = "no"
    /\ impl' = [impl EXCEPT !.tuned = TRUE]
    /\ stage' = "idle" /\ lifecycle' = "inactive"
    /\ UNCHANGED <<wrapper, joint_names, num_joints, sized, active_vars, callback_vars,
                   impl_library, impl_handle, destroy_fn, lib, linker_vars>>

Configure ==
    \/ \E n \in JointCount : ConfigureJoints(n)
    \/ CheckGains
    \/ \E part \in Part : ConfigurePart(part)
    \/ Load \/ LoadFailed \/ SetParameters

-----------------------------------------------------------------------------
(* The other transitions                                                   *)

\* The interfaces the node asks for: one to write and three to read for each name.
Claimed == joint_names

\* The manager claims the interfaces; on_activate sizes the buffers
\* and seeds the command, and the node is refused for a reading that is not
\* finite, a failing model or a failing first step.
Activate ==
    /\ lifecycle = "inactive" /\ stage = "idle"
    /\ interfaces' = Claimed
    /\ buffers' = num_joints
    /\ newest' = AllOf(num_joints)
    /\ \/ impl # NoImplementation /\ lifecycle' = "active"
       \/ lifecycle' = "finalized"
    /\ UNCHANGED <<wrapper, stage, joint_names, num_joints, sized, taken, exec_pc, exec_cmd,
                   loader_vars>>

Deactivate ==
    /\ lifecycle = "active" /\ stage = "idle"
    /\ lifecycle' = "inactive"
    /\ interfaces' = 0
    /\ UNCHANGED <<wrapper, stage, joint_names, num_joints, sized, buffers, taken,
                   callback_vars, loader_vars>>

\* on_cleanup is inherited: everything that was configured stays.
Cleanup ==
    /\ lifecycle = "inactive" /\ stage = "idle"
    /\ lifecycle' = "unconfigured"
    /\ UNCHANGED <<wrapper, stage, joint_names, num_joints, sized, active_vars, callback_vars,
                   loader_vars>>

-----------------------------------------------------------------------------
(* update                                                                  *)

\* A slip: only the position of a joint command is looked at.
ValidPositionOnly(cmd) ==
    buffers = num_joints /\ cmd.position = num_joints /\ cmd.finite = Content

\* validStepInput of the joint wrapper: every size and every number.
ValidJointInput(cmd) == buffers = num_joints /\ cmd = AllOf(num_joints)

\* validStepInput of the Cartesian wrapper looks at the joint state, the position, the
\* velocity, the wrench and the gains, and at nothing else of the command.
ValidCartesianInput(cmd) == buffers = num_joints /\ "motion" \in cmd.finite

ValidStepInput(cmd) ==
    IF wrapper = "joint" THEN ValidJointInput(cmd) ELSE ValidCartesianInput(cmd)

\* What the control loop takes; a callback that is writing keeps it from the new.
Take == taken' = newest \/ (exec_pc = "publish" /\ taken' = taken)

\* The cycle ends with zero torques when the command or the joint state is not
\* valid, or when the robot model fails.
UpdateRead ==
    /\ lifecycle = "active" /\ stage = "idle"
    /\ Take
    /\ \/ ValidStepInput(taken') /\ stage' = "step"
       \/ stage' = "idle"
    /\ UNCHANGED <<wrapper, lifecycle, joint_names, num_joints, sized, interfaces, buffers,
                   callback_vars, loader_vars>>

\* The implementation steps and the other parts add their torques.
UpdateStep ==
    /\ stage = "step"
    /\ stage' = "idle"
    /\ UNCHANGED <<wrapper, lifecycle, joint_names, num_joints, sized, active_vars,
                   callback_vars, loader_vars>>

-----------------------------------------------------------------------------
(* cartesian_command_callback and joint_command_callback                   *)

\* The joint wrapper subscribes in on_init, the Cartesian one first thing in
\* on_configure; a refused node keeps its subscription.
Subscribed == wrapper = "joint" \/ joint_names # 0 \/ lifecycle = "finalized"

\* A joint message has as many elements as there are joints now; no message is
\* searched for numbers that are not finite.
ReceiveCommand ==
    /\ exec_pc = "idle"
    /\ Subscribed
    /\ exec_pc' = "construct"
    /\ exec_cmd' \in [position : {0}, others : {0}, finite : SUBSET Content]
    /\ UNCHANGED <<node_vars, active_vars, newest, loader_vars>>

\* The command is made with as many joints as there are when its turn comes ...
ConstructCommand ==
    /\ exec_pc = "construct"
    /\ exec_cmd' = [exec_cmd EXCEPT !.position = num_joints, !.others = num_joints]
    /\ exec_pc' = IF wrapper = "joint" THEN "fill" ELSE "publish"
    /\ UNCHANGED <<node_vars, active_vars, newest, loader_vars>>

\* ... and the joint wrapper copies each vector with as many as there are then; when
\* they have grown meanwhile, some numbers are not the message's.
FillCommand ==
    /\ exec_pc = "fill"
    /\ exec_cmd' = [exec_cmd EXCEPT !.others = num_joints]
    /\ exec_pc' = "publish"
    /\ UNCHANGED <<node_vars, active_vars, newest, loader_vars>>

PublishCommand ==
    /\ exec_pc = "publish"
    /\ newest' = exec_cmd
    /\ exec_pc' = "idle"
    /\ exec_cmd' = AllOf(0)
    /\ UNCHANGED <<node_vars, active_vars, loader_vars>>

Callback == ReceiveCommand \/ ConstructCommand \/ FillCommand \/ PublishCommand

Next ==
    \/ Configure \/ Activate \/ Deactivate \/ Cleanup
    \/ UpdateRead \/ UpdateStep
    \/ Callback

Spec == Init /\ [][Next]_vars

-----------------------------------------------------------------------------
(* Properties                                                              *)

\* Every variable holds a value of its kind; the dynamic linker's counts do not
\* go below zero.
TypeOK ==
    /\ wrapper \in {"cartesian", "joint"}
    /\ lifecycle \in {"unconfigured", "inactive", "active", "finalized"}
    /\ stage \in Part \union {"idle", "gains", "load", "step"}
    /\ joint_names \in JointCount /\ num_joints \in JointCount
    /\ sized \in [Part -> JointCount]
    /\ interfaces \in JointCount /\ buffers \in JointCount
    /\ newest \in Command /\ taken \in Command /\ exec_cmd \in Command
    /\ exec_pc \in {"idle", "construct", "fill", "publish"}
    /\ LoaderTypeOK

\* An active controller's parts all belong to one configuration: the last one, for
\* the same joints, with an implementation that has its robot model and its
\* parameters.  A reconfiguration that fails half way never becomes active.
PartsAgree ==
    lifecycle = "active" =>
        /\ impl.joints = num_joints /\ impl.model /\ impl.tuned
        /\ impl.library = impl_library
        /\ \A p \in Part : sized[p] = num_joints
        /\ interfaces = num_joints /\ buffers = num_joints

\* The implementation is stepped only with vectors of the size it was made for, with a
\* position, a velocity, a wrench and gains that are finite and, in the joint wrapper,
\* with nothing that is not, although a callback may have put the command together
\* while num_joints_ changed and looks at none of its numbers.  A Cartesian command's
\* orientation, null-space vectors and feedforward torques may be anything.
StepsFit ==
    stage = "step" =>
        /\ impl.joints = buffers
        /\ "motion" \in taken.finite
        /\ wrapper = "joint" => taken = AllOf(impl.joints)
=============================================================================
