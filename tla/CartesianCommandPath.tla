------------------------ MODULE CartesianCommandPath ------------------------
(***************************************************************************)
(* How a Cartesian command travels from a ROS message to the control loop  *)
(* (generic_cartesian_controller_wrapper.cpp).                             *)
(*                                                                         *)
(* Two threads share the controller.  The controller manager's real-time   *)
(* thread runs on_configure, on_activate, update and on_deactivate, one    *)
(* after the other; the executor thread runs the three subscription        *)
(* callbacks, one at a time (they share the node's default callback        *)
(* group).  They meet in last_command_ (guarded by command_mutex_), in the *)
(* realtime_tools::RealtimeBuffer the control loop reads, and in           *)
(* active_since_ and state_buffer_, which nothing guards.                  *)
(*                                                                         *)
(* A pose is one value here and the step guard may leave any pose; the     *)
(* module StepGuard looks inside both.                                     *)
(***************************************************************************)
EXTENDS Naturals

CONSTANTS
    Pose,           \* end-effector poses a measurement or a message may hold
    Origin,         \* the pose of a default-constructed ControlCommand
    Uninitialised,  \* the pose fields of a fresh ControllerState: never written
    Block,          \* the stiffness blocks: translation and rotation
    Stiffness,      \* the values a stiffness block may take
    NoStiffness,    \* the zero block
    InitStiffness,  \* the parameters init_k_pos and init_k_ori
    StaleAfter,     \* messages older than this are dropped (0.5 s in the code)
    MaxTime         \* bound on the clock

ASSUME CommandAssumption ==
    /\ Origin \in Pose
    /\ Uninitialised \notin Pose
    /\ NoStiffness \in Stiffness
    /\ InitStiffness \in [Block -> Stiffness]
    /\ StaleAfter \in Nat
    /\ MaxTime \in Nat \ {0}

VARIABLES
    lifecycle,          \* the node's primary lifecycle state
    subscribed,         \* the three subscriptions exist
    mgr_pc,             \* where the manager thread is inside a transition or update
    now,                \* the node's clock
    active_since,       \* active_since_
    pose,               \* position and orientation in state_buffer_
    newest,             \* RealtimeBuffer: the value last written
    taken,              \* RealtimeBuffer: the value the control loop last took
    last_command,       \* last_command_
    have_last_command,  \* have_last_command_
    command_mutex,      \* command_mutex_: who holds it
    exec_pc,            \* where the executor thread is inside a callback
    exec_cmd,           \* cmd, the local of cartesian_command_callback
    hw,                 \* what the effort command interfaces were last given
    overlap             \* history: a callback overlapped the seeding by on_activate

manager_vars  == <<lifecycle, subscribed, mgr_pc, active_since, pose, hw>>
buffer_vars   == <<newest, taken>>
shared_vars   == <<last_command, have_last_command, command_mutex>>
executor_vars == <<exec_pc, exec_cmd>>
vars == <<manager_vars, now, buffer_vars, shared_vars, executor_vars, overlap>>

Time == 0 .. MaxTime

\* The part of a ControlCommand the properties tell apart.  "stamp" is a ghost:
\* the header stamp of the message the command came from, or the time of the
\* activation that seeded it.
Command == [ref : Pose \union {Uninitialised}, stiffness : [Block -> Stiffness], stamp : Time]

\* What ControlCommand's constructors leave.
DefaultCommand == [ref |-> Origin, stiffness |-> [b \in Block |-> NoStiffness], stamp |-> 0]

\* init_cmd of on_activate: hold the pose the state buffer holds.
SeedCommand == [ref |-> pose, stiffness |-> InitStiffness, stamp |-> active_since]

\* on_activate has written the buffer but not yet last_command_.
Seeding == mgr_pc = "seeded"

Activating == mgr_pc \in {"get_pose", "stamp", "seed", "seeded", "first_step"}

InCallback == exec_pc # "idle"

-----------------------------------------------------------------------------
(* The clock                                                               *)

Tick ==
    /\ now < MaxTime
    /\ now' = now + 1
    /\ UNCHANGED <<manager_vars, buffer_vars, shared_vars, executor_vars, overlap>>

-----------------------------------------------------------------------------
(* The controller manager's thread: lifecycle transitions                  *)

\* The subscriptions are made first, so callbacks run during the rest of
\* on_configure and in every later state but never before it.
ConfigureSubscribe ==
    /\ lifecycle = "unconfigured" /\ mgr_pc = "idle"
    /\ subscribed' = TRUE
    /\ mgr_pc' = "configure"
    /\ UNCHANGED <<lifecycle, now, active_since, pose, buffer_vars, shared_vars,
                   executor_vars, hw, overlap>>

\* Parameters, robot model and implementation load, or one of them fails; the
\* inherited on_error then finalizes the node.
ConfigureFinish ==
    /\ mgr_pc = "configure"
    /\ lifecycle' \in {"inactive", "finalized"}
    /\ mgr_pc' = "idle"
    /\ UNCHANGED <<subscribed, now, active_since, pose, buffer_vars, shared_vars,
                   executor_vars, hw, overlap>>

\* on_activate starts from a fresh ControllerState, whose pose is uninitialised.
ActivateReset ==
    /\ lifecycle = "inactive" /\ mgr_pc = "idle"
    /\ pose' = Uninitialised
    /\ mgr_pc' = "get_pose"
    /\ UNCHANGED <<lifecycle, subscribed, now, active_since, buffer_vars, shared_vars,
                   executor_vars, hw, overlap>>

\* A failing getPose only logs: the pose stays as it is.
ActivateGetPose ==
    /\ mgr_pc = "get_pose"
    /\ pose' \in Pose \union {pose}
    /\ mgr_pc' = "stamp"
    /\ UNCHANGED <<lifecycle, subscribed, now, active_since, buffer_vars, shared_vars,
                   executor_vars, hw, overlap>>

ActivateStamp ==
    /\ mgr_pc = "stamp"
    /\ active_since' = now
    /\ mgr_pc' = "seed"
    /\ UNCHANGED <<lifecycle, subscribed, now, pose, buffer_vars, shared_vars,
                   executor_vars, hw, overlap>>

\* The buffer is written outside command_mutex_ ...
ActivateSeedBuffer ==
    /\ mgr_pc = "seed"
    /\ newest' = SeedCommand
    /\ overlap' = InCallback
    /\ mgr_pc' = "seeded"
    /\ UNCHANGED <<lifecycle, subscribed, now, active_since, pose, taken, shared_vars,
                   executor_vars, hw>>

\* A slip: on_activate seeds the buffer and forgets last_command_.
SeedFlagOnly ==
    /\ mgr_pc = "seeded"
    /\ command_mutex = "free"
    /\ have_last_command' = TRUE
    /\ mgr_pc' = "first_step"
    /\ UNCHANGED <<lifecycle, subscribed, now, active_since, pose, buffer_vars,
                   last_command, command_mutex, executor_vars, hw, overlap>>

\* ... and last_command_ a moment later inside it.
ActivateSeedLast ==
    /\ mgr_pc = "seeded"
    /\ command_mutex = "free"
    /\ last_command' = SeedCommand
    /\ have_last_command' = TRUE
    /\ mgr_pc' = "first_step"
    /\ UNCHANGED <<lifecycle, subscribed, now, active_since, pose, buffer_vars,
                   command_mutex, executor_vars, hw, overlap>>

\* A first step of the implementation on the seeded command; when it fails (or
\* its input is not finite) on_activate returns ERROR and the node is finalized.
ActivateFirstStep ==
    /\ mgr_pc = "first_step"
    /\ \/ lifecycle' = "active" /\ hw' = hw
       \/ lifecycle' = "finalized" /\ hw' = "zero"
    /\ mgr_pc' = "idle"
    /\ UNCHANGED <<subscribed, now, active_since, pose, buffer_vars, shared_vars,
                   executor_vars, overlap>>

\* on_deactivate zeroes the interfaces; the command, have_last_command_ and the
\* subscriptions survive it.
Deactivate ==
    /\ lifecycle = "active" /\ mgr_pc = "idle"
    /\ lifecycle' = "inactive"
    /\ hw' = "zero"
    /\ UNCHANGED <<subscribed, mgr_pc, now, active_since, pose, buffer_vars, shared_vars,
                   executor_vars, overlap>>

\* on_cleanup is inherited and does nothing.
Cleanup ==
    /\ lifecycle = "inactive" /\ mgr_pc = "idle"
    /\ lifecycle' = "unconfigured"
    /\ UNCHANGED <<subscribed, mgr_pc, now, active_since, pose, buffer_vars, shared_vars,
                   executor_vars, hw, overlap>>

-----------------------------------------------------------------------------
(* The controller manager's thread: update                                 *)

\* readFromRT only tries the buffer's own lock: while the executor is writing
\* it may come back with the value taken before.  Invalid input (a joint state
\* or a command that is not finite) zeroes the torques.
UpdateRead ==
    /\ lifecycle = "active" /\ mgr_pc = "idle"
    /\ \/ taken' = newest
       \/ command_mutex = "executor" /\ taken' = taken
    /\ \/ mgr_pc' = "model" /\ hw' = hw
       \/ mgr_pc' = "idle" /\ hw' = "zero"
    /\ UNCHANGED <<lifecycle, subscribed, now, active_since, pose, newest, shared_vars,
                   executor_vars, overlap>>

\* The robot model runs on the new joint state.  A failing model zeroes the
\* torques for this cycle; a failing getPose keeps the previous pose.
UpdateModel ==
    /\ mgr_pc = "model"
    /\ \/ mgr_pc' = "step" /\ hw' = hw /\ pose' \in Pose \union {pose}
       \/ mgr_pc' = "idle" /\ hw' = "zero" /\ pose' = pose
    /\ UNCHANGED <<lifecycle, subscribed, now, active_since, buffer_vars, shared_vars,
                   executor_vars, overlap>>

\* The implementation computes torques from the command taken, or a failure on
\* the way writes zeros.
UpdateStep ==
    /\ mgr_pc = "step"
    /\ hw' \in {"driven", "zero"}
    /\ mgr_pc' = "idle"
    /\ UNCHANGED <<lifecycle, subscribed, now, active_since, pose, buffer_vars, shared_vars,
                   executor_vars, overlap>>

-----------------------------------------------------------------------------
(* The executor's thread: the three callbacks                              *)

\* A slip: the stamp is compared with the staleness window only.
BeginCommandUnchecked(ref, stiffness, stamp) ==
    /\ subscribed /\ exec_pc = "idle"
    /\ stamp > 0
    /\ stamp + StaleAfter >= now
    /\ exec_pc' = "build"
    /\ exec_cmd' = [ref |-> ref, stiffness |-> stiffness, stamp |-> stamp]
    /\ overlap' = (overlap \/ Seeding)
    /\ UNCHANGED <<manager_vars, now, buffer_vars, shared_vars>>

\* cartesian_command_callback drops a message with no stamp, one stamped before
\* the activation, a stale one and one for another frame.
BeginCommand(ref, stiffness, stamp) ==
    /\ subscribed /\ exec_pc = "idle"
    /\ stamp > 0
    /\ stamp >= active_since
    /\ stamp + StaleAfter >= now
    /\ exec_pc' = "build"
    /\ exec_cmd' = [ref |-> ref, stiffness |-> stiffness, stamp |-> stamp]
    /\ overlap' = (overlap \/ Seeding)
    /\ UNCHANGED <<manager_vars, now, buffer_vars, shared_vars>>

\* The step guard leaves the requested pose, the one it reads from the state
\* buffer, or a mixture of the two, which may be any pose.
BuildCommand ==
    /\ exec_pc = "build"
    /\ exec_cmd' \in {[exec_cmd EXCEPT !.ref = p] : p \in Pose \union {pose}}
    /\ exec_pc' = "lock"
    /\ UNCHANGED <<manager_vars, now, buffer_vars, shared_vars, overlap>>

LockCommand ==
    /\ exec_pc = "lock"
    /\ command_mutex = "free"
    /\ command_mutex' = "executor"
    /\ last_command' = exec_cmd
    /\ have_last_command' = TRUE
    /\ exec_pc' = "publish_command"
    /\ UNCHANGED <<manager_vars, now, buffer_vars, exec_cmd, overlap>>

\* A slip: the stiffness callback returns early and keeps the mutex.
LockStiffnessLeaks(block, value) ==
    /\ subscribed /\ exec_pc = "idle"
    /\ command_mutex = "free"
    /\ command_mutex' = "executor"
    /\ IF have_last_command
       THEN /\ last_command' = [last_command EXCEPT !.stiffness[block] = value]
            /\ exec_pc' = "publish_stiffness"
       ELSE UNCHANGED <<last_command, exec_pc>>
    /\ overlap' = (overlap \/ Seeding)
    /\ UNCHANGED <<manager_vars, now, buffer_vars, have_last_command, exec_cmd>>

\* A slip: the callback writes its value to every block.
LockEveryBlock(block, value) ==
    /\ subscribed /\ exec_pc = "idle"
    /\ command_mutex = "free"
    /\ have_last_command
    /\ command_mutex' = "executor"
    /\ last_command' = [last_command EXCEPT !.stiffness = [b \in Block |-> value]]
    /\ exec_pc' = "publish_stiffness"
    /\ overlap' = (overlap \/ Seeding)
    /\ UNCHANGED <<manager_vars, now, buffer_vars, have_last_command, exec_cmd>>

\* position_stiffness_callback and orientation_stiffness_callback validate the
\* message alone, then, under the mutex, replace their block of last_command_.
\* Without a last command the message is ignored.
LockStiffness(block, value) ==
    /\ subscribed /\ exec_pc = "idle"
    /\ command_mutex = "free"
    /\ have_last_command
    /\ command_mutex' = "executor"
    /\ last_command' = [last_command EXCEPT !.stiffness[block] = value]
    /\ exec_pc' = "publish_stiffness"
    /\ overlap' = (overlap \/ Seeding)
    /\ UNCHANGED <<manager_vars, now, buffer_vars, have_last_command, exec_cmd>>

\* A command accepted in this session repairs an overlapped activation: from
\* here on the buffer and last_command_ agree again.
Repaired == exec_pc = "publish_command" /\ ~Seeding /\ last_command.stamp >= active_since

\* A slip: a stiffness callback only records its block and the buffer is left
\* to the next Cartesian command.
PublishCommandOnly ==
    /\ exec_pc \in {"publish_command", "publish_stiffness"}
    /\ newest' = IF exec_pc = "publish_command" THEN last_command ELSE newest
    /\ command_mutex' = "free"
    /\ exec_pc' = "idle"
    /\ exec_cmd' = DefaultCommand
    /\ overlap' = (overlap /\ ~Repaired)
    /\ UNCHANGED <<manager_vars, now, taken, last_command, have_last_command>>

\* Still under the mutex, all three callbacks write last_command_ to the buffer.
Publish ==
    /\ exec_pc \in {"publish_command", "publish_stiffness"}
    /\ newest' = last_command
    /\ command_mutex' = "free"
    /\ exec_pc' = "idle"
    /\ exec_cmd' = DefaultCommand
    /\ overlap' = (overlap /\ ~Repaired)
    /\ UNCHANGED <<manager_vars, now, taken, last_command, have_last_command>>

-----------------------------------------------------------------------------

Init ==
    /\ lifecycle = "unconfigured"
    /\ subscribed = FALSE
    /\ mgr_pc = "idle"
    /\ now = 1
    /\ active_since = 0
    /\ pose = Uninitialised
    /\ newest = DefaultCommand
    /\ taken = DefaultCommand
    /\ last_command = DefaultCommand
    /\ have_last_command = FALSE
    /\ command_mutex = "free"
    /\ exec_pc = "idle"
    /\ exec_cmd = DefaultCommand
    /\ hw = "zero"
    /\ overlap = FALSE

Activate ==
    \/ ActivateReset \/ ActivateGetPose \/ ActivateStamp
    \/ ActivateSeedBuffer \/ ActivateSeedLast \/ ActivateFirstStep

Update == UpdateRead \/ UpdateModel \/ UpdateStep

Manager == ConfigureSubscribe \/ ConfigureFinish \/ Activate \/ Update \/ Deactivate \/ Cleanup

Executor ==
    \/ \E ref \in Pose, stiffness \in [Block -> Stiffness], stamp \in Time :
           BeginCommand(ref, stiffness, stamp)
    \/ \E block \in Block, value \in Stiffness : LockStiffness(block, value)
    \/ BuildCommand
    \/ LockCommand
    \/ Publish

Next == Tick \/ Manager \/ Executor

\* A thread that is inside a transition, an update or a callback goes on.  The
\* mutex is not fair, hence strong fairness for the step that waits for it while
\* the other thread comes and goes.  The controller manager updates an active
\* controller in every cycle.
Fairness ==
    /\ WF_vars(UpdateRead)
    /\ WF_vars(ConfigureFinish \/ ActivateGetPose \/ ActivateStamp \/ ActivateSeedBuffer)
    /\ SF_vars(ActivateSeedLast)
    /\ WF_vars(ActivateFirstStep \/ UpdateModel \/ UpdateStep)
    /\ WF_vars(BuildCommand \/ LockCommand \/ Publish)

Spec == Init /\ [][Next]_vars

FairSpec == Spec /\ Fairness

-----------------------------------------------------------------------------
(* Properties                                                              *)

\* Every variable holds a value of its kind, and the mutex is held exactly
\* while a callback is between its last_command_ and its buffer write.
TypeOK ==
    /\ lifecycle \in {"unconfigured", "inactive", "active", "finalized"}
    /\ subscribed \in BOOLEAN
    /\ mgr_pc \in {"idle", "configure", "get_pose", "stamp", "seed", "seeded", "first_step",
                   "model", "step"}
    /\ now \in Time
    /\ active_since \in Time
    /\ pose \in Pose \union {Uninitialised}
    /\ newest \in Command
    /\ taken \in Command
    /\ last_command \in Command
    /\ have_last_command \in BOOLEAN
    /\ command_mutex = IF exec_pc \in {"publish_command", "publish_stiffness"}
                       THEN "executor" ELSE "free"
    /\ exec_pc \in {"idle", "build", "lock", "publish_command", "publish_stiffness"}
    /\ exec_cmd \in Command
    /\ hw \in {"zero", "driven"}
    /\ overlap \in BOOLEAN

\* The buffer and last_command_ are two copies of one command.  Outside a
\* callback's critical section they agree, unless a callback overlapped the
\* seeding by on_activate; then the next command accepted in the session makes
\* them agree again.
CommandsAgree ==
    command_mutex = "free" /\ ~Seeding /\ ~overlap => newest = last_command

\* While the controller is active, neither copy holds a command from before the
\* activation: on_activate replaces what the last session left and the stamp
\* check of cartesian_command_callback keeps late messages out.  The exception
\* is again a callback that overlapped the seeding.
OnlyThisSession ==
    lifecycle = "active" /\ ~overlap =>
        newest.stamp >= active_since /\ last_command.stamp >= active_since

\* A stiffness callback changes its own block and nothing else of the command
\* the control loop follows, as its log line promises, unless a callback
\* overlapped the seeding.
StiffnessPublished == exec_pc = "publish_stiffness" /\ exec_pc' = "idle"

OneBlockChanged ==
    /\ newest'.ref = newest.ref
    /\ \A b, c \in Block :
           newest'.stiffness[b] # newest.stiffness[b]
           /\ newest'.stiffness[c] # newest.stiffness[c] => b = c

StiffnessKeepsReference ==
    [][StiffnessPublished /\ ~Seeding /\ ~overlap => OneBlockChanged]_vars

\* Torques other than zero stand on the interfaces only while the node is
\* active: deactivation and every refused activation leave zeros behind.
OnlyActiveDrives == hw = "driven" => lifecycle = "active"

\* A transition or update the manager has begun ends, although on_activate waits
\* for command_mutex_; and so does every callback.
ManagerReturns == mgr_pc # "idle" ~> mgr_pc = "idle"
CallbackReturns == InCallback ~> ~InCallback

\* When the messages cease while the controller is active, the control loop ends
\* up following what the last callback, or on_activate, recorded, although any of
\* its reads may have missed the buffer's lock; an activation that a callback
\* overlapped is again the exception.
Quiet == lifecycle = "active" /\ ~InCallback /\ ~overlap

LoopFollowsLast == <>[]Quiet => <>[](taken = last_command)

\* What the log line "updated without changing the Cartesian reference" claims
\* of every update, from the moment on_activate has seeded the reference on.
StiffnessAlwaysKeepsReference ==
    [][StiffnessPublished /\ (lifecycle = "active" \/ Seeding) => newest'.ref = newest.ref]_vars

\* What the log line "keeping previous EE state" claims: a failing getPose leaves
\* the pose the controller had, never one that was not written.
SeedIsAPose == lifecycle = "active" => newest.ref \in Pose

\* What the log line "Dropping CartesianCommand stamped before controller
\* activation" claims: the buffer of an active controller holds no such command.
NothingBeforeActivation == lifecycle = "active" => newest.stamp >= active_since

\* Where the wrapper is in its session.
SessionPhase ==
    IF lifecycle = "active" THEN "active"
    ELSE CASE mgr_pc = "seed"                     -> "stamped"
           [] mgr_pc \in {"seeded", "first_step"} -> "seeded"
           [] OTHER                               -> "rest"

\* The wrapper, its two copies of the command and its three callbacks keep the
\* promise of a session.
Session == INSTANCE ControllerSession WITH
               phase     <- SessionPhase,
               since     <- active_since,
               newest    <- newest.stamp,
               acts      <- taken.stamp,
               busy      <- InCallback,
               disturbed <- overlap,
               torque    <- hw

ImplementsSession == Session!Spec
=============================================================================
