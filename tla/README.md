# Verification of compliant_controllers in TLA+

TLA+ models of the controllers in this repository, TLC configurations that
check them on small instances, and TLAPS proofs of the results that matter for
every value of the constants.  Paths are relative to the repository; line
numbers are those of the commit the models were written from.

## 1. The system

Two `ros2_control` plugins, a Cartesian and a joint-space wrapper, load a
control law from a shared library and run it at about 1 kHz.  Four kinds of
threads meet in one wrapper:

- the **real-time thread** of the controller manager: `on_configure`,
  `on_activate`, `update`, `on_deactivate`, never two at once;
- the **executor thread**: the subscription callbacks, one at a time, since all
  of them are in the node's default callback group;
- the **writer thread** of the diagnostic logger, one per activation;
- the clock, which may advance between any two steps.

| Component | State | Operations | Meets others through |
|---|---|---|---|
| Cartesian wrapper (`src/generic_cartesian_controller_wrapper.cpp`) | `state_buffer_`, `active_since_`, `last_command_`, `have_last_command_`, the realtime buffer, subscriptions | lifecycle callbacks, `update`, `cartesian_command_callback`, two stiffness callbacks | `command_mutex_`; the buffer's own lock; unguarded reads of `active_since_` and `state_buffer_` |
| Joint wrapper (`src/generic_joint_controller_wrapper.cpp`) | `state_buffer_`, `active_since_`, `num_joints_`, the realtime buffer | lifecycle callbacks, `update`, `joint_command_callback` | the buffer's own lock only |
| Common base (`src/generic_controller_wrapper.cpp`) | `impl_`, `impl_handle_`, `destroy_fn_`, `joint_names_`, `num_joints_`, `tau_out_` | load and destroy the implementation, claim interfaces, read state, sanitise, write torques | called by both wrappers; the dynamic linker |
| Joint impedance law (`src/joint_impedance_impl.cpp`) | filtered targets, `tau_last_commanded_`, `initialized_` | `step`, `setParameter` | called by the joint wrapper |
| Cartesian impedance law (`src/cartesian_impedance_impl.cpp`) | scratch matrices only | `step`, `q_log` | called by the Cartesian wrapper |
| Diagnostic logger (`src/async_diagnostic_logger.cpp`) | `queue_`, `running_`, `stop_requested_`, the thread | `configure`, `start`, `record`, `stop`, `writerLoop` | mutex and condition variable |
| Friction compensation (`src/friction_compensation.cpp`) | `enabled_` (a latch), model, scale | `configure`, `add` | called by both updates |
| Joint limit repulsion (`include/.../joint_limit_repulsion.hpp`) | `enabled_`, limits, margins | `configure`, `addTorque` | called by both updates |
| Error-biased dither (`src/cartesian_error_biased_dither.cpp`) | phase | `reset`, `compute` | called by the Cartesian update |

External, modelled from their use: the robot model (may fail, may keep the old
pose), `realtime_tools::RealtimeBuffer`, the ROS clock, the lifecycle of
`ros2_control` (an `ERROR` in a transition finalizes the node because
`on_error` is not overridden; `on_cleanup` is inherited and does nothing).

What is hard here, and what each component should guarantee:

- **Command path.** The seed of `on_activate` and the callbacks write two
  copies of one command in different orders; the stamp is checked long before
  the command is published; subscriptions live through every state.  Correct
  means: the copies agree, an active controller follows only commands of its
  session, a stiffness message changes one block only.
- **Step guard and impedance law.** Unlocked reads, one after the other, of a pose
  that `update` rewrites; NaN compares false; a quaternion has two signs, which
  the guard, the law and the dither each treat with a formula of their own.
  Correct means: the reference is finite and near where the robot was while the
  callback ran, and law and dither both turn the robot nearer to it.
- **Assembling a controller.** `on_configure` sets the joints, configures three
  parts for them and loads a shared library, and may stop after each of these;
  the command callbacks run meanwhile and size their commands by what is half
  set.  Correct means: an active controller is of one configuration, the
  implementation is stepped with vectors of its own size only, no library or
  object is leaked, used after it is closed, or destroyed twice.
- **Logger.** Lost wake-ups, a full queue, a stop that races the last samples,
  a file that does not open.  Correct means: bounded, in order, drained,
  and `stop` returns.
- **Joint controller.** Memory of the implementation that outlives a session;
  zero cycles and saturation between it and the interface.  Correct means: zero
  torque unless active; torque steps bounded by `max_tau_delta_` and by what
  friction and repulsion add after it; after a NaN, rest.
- **Compensation stages.** Latches set by one bad cycle; configuration that
  fails half way; answers that are not finite.  Correct means: only accepted
  parameters run, friction compensation is lost to faults of the implementation
  only, a fault ends as zero torque, friction torques have the direction their
  coefficients ask for.

`PROJECT.json` lists every hazard at its line with the properties that cover
it, or why none does yet.

## 2. Modules

| Module | Models | Checked by | Proved in |
|---|---|---|---|
| `ControllerSession` | what both wrappers promise of a session, from an activation to the deactivation that ends it | as `ImplementsSession` | itself |
| `CartesianCommandPath` | lifecycle, phases of `on_activate` and `update`, the three callbacks, mutex, realtime buffer | `MCCartesianCommandPath` | `CartesianCommandPathProofs` |
| `CartesianImpedance` | orientations as the Cartesian code computes with them; the rotational part of the impedance law and of the dither | with `StepGuard` | with `StepGuard` |
| `StepGuard` | the guard inside `cartesian_command_callback` against the pose writes of `update` | `MCStepGuard` | `StepGuardProofs` |
| `PluginLifetime` | what loading promises: a slot for one plugin | as `OnePlugin` | itself |
| `ImplementationLoader` | loading, replacing and giving up an implementation, one action per call into the dynamic linker or the library | with `ControllerNode` | with `ControllerNode` |
| `ControllerNode` | either wrapper as the parts it is assembled from, and their sizes, composed with the loader | `MCControllerNode` | `ControllerNodeProofs` |
| `DiagnosticLog` | what the logger promises: a bounded, lossy, ordered log | as `ImplementsLog` | - |
| `AsyncDiagnosticLogger` | the queue, the writer thread, the condition variable | `MCAsyncDiagnosticLogger` | `AsyncDiagnosticLoggerProofs` |
| `JointController` | joint wrapper around `JointImpedanceImpl` | `MCJointController` | `JointControllerProofs` |
| `Numbers` | doubles: integers and one value that is not finite | with `TorquePipeline` | - |
| `FrictionCompensation` | its configuration, its two models, its latch | with `TorquePipeline` | with `TorquePipeline` |
| `JointLimitRepulsion` | its configuration and its spring-damper | with `TorquePipeline` | with `TorquePipeline` |
| `TorquePipeline` | the stages of both `update` functions, composed from the two | `MCTorquePipeline` | `TorquePipelineProofs` |

Some actions have a neighbour whose comment begins "A slip": the same
operation with a plausible mistake.  No specification uses it; each is there to
show that the property named beside it in `PROJECT.json` would notice.

### ControllerSession

The abstract specification that both wrappers implement.  A command is the time
it was stamped with; `newest` is what the buffer holds, `acts` what the control
loop acts on.  `Begin`, `Seed`, `Activate`, `Refuse` and `Deactivate` are the
lifecycle, `Cycle` one update, `Enter` and `Leave` a callback.  The
specification allows what the code does and no more: a read of the buffer may
miss (`Cycle`), and a callback that was under way while the buffer was seeded,
or entered before the seeding was complete, makes the session `disturbed`, in
which an old command may come back.  `SessionPhase` in each detailed module says
where its wrapper is.  The Cartesian wrapper seeds in two writes (`"seeded"` is
the time between the first and the end of `on_activate`), the joint wrapper
seeds and becomes active in one step.  Both keep what the abstract session
lacks: the second copy of the command, the mutex, the implementation's memory.

### CartesianCommandPath

One action per step at which another thread may come in between.  `mgr_pc` and
`exec_pc` say where the two threads are.  `on_activate` is
`ActivateReset`, `ActivateGetPose`, `ActivateStamp`, `ActivateSeedBuffer` (the
buffer, outside the mutex), `ActivateSeedLast` (`last_command_`, inside it) and
`ActivateFirstStep`.  `update` is `UpdateRead`, `UpdateModel`, `UpdateStep`.  A
Cartesian message is `BeginCommand` (the stamp and frame checks), `BuildCommand`
(the step guard), `LockCommand`, `Publish`; a stiffness message is
`LockStiffness`, `Publish`.  Dropped messages change nothing and have no action.

A command keeps its reference pose, its stiffness blocks and a ghost `stamp`.
`readFromRT` takes the newest command or, while a callback is in its critical
section, possibly the one taken before, since it only tries the buffer's lock.

`overlap` is a history variable: a callback was in progress between the two
seeding writes (or straddled them).  The code is not safe there, which the three
violation runs show; everywhere else the invariants hold, and the next
accepted command of the session ends the exception.

### StepGuard

`state_buffer_` is half written while `pending` is not empty: a reader finds
the fields of `before` or `after`.  Positions have two coordinates with the
Euclidean distance, and the guard reads and copies them one after the other
(`MeasureX`, `MeasureY`; `LimitX`, `LimitY`); a quaternion is read and written at
once.  Orientations turn about one axis, quaternions being the points of a circle
on which opposite points are one orientation.  NaN is a value of its own.
The history variable `seen` collects the values each field has had since the
callback began: `NearTheRobot` and `FirstTurnIsBounded` are about those, so they
say something also of a robot that moves between the reads.  The zero quaternion, which Eigen leaves zero, is not among
the requests.

`CartesianImpedance` has those quaternions (`2 * HalfTurn` of them) and what the
code computes with them: `QLog`, `RotationError` and `ImpedanceTorque` of the
impedance law, `RotationCorrection` and `Bias` of the dither.  Law and dither take
an error quaternion apart into `HalfAngle` and `Axis`; the law's error is negated
and negated again by `-stiffness * error`.  The guard measures a rotation by an
absolute dot product (`Turn`).  The properties of `StepGuard` relate the three:
`TorquesTurnToward` says that the robot, one quaternion further in the direction
of either torque, is nearer to its reference as the guard measures it.
At exactly half a turn both ways are equally short, and the law's
choice depends on the sign of the reference's quaternion: `TurnsTheShortWay`
leaves that one case open.

### ControllerNode, ImplementationLoader, PluginLifetime

`stage` is where the manager's thread is inside `on_configure` (the joints, the
joint wrapper's gains, friction, robot model, repulsion, the load) or inside
`update`.  A part remembers only for how many joints it was last configured
(`sized`), a command only its sizes and which of its content is finite: "motion"
is what both versions of `validStepInput` look at, "rest" (orientation, null-space
vectors, feedforward torques) what the joint wrapper's version refuses and the
Cartesian one lets through to the implementation.  Each step of
`on_configure` may be refused, which finalizes the node; a configuration that
succeeded survives `on_cleanup`, which is inherited, and the next one replaces
it part by part.  The command callbacks read `num_joints_` where the code does:
`ConstructCommand` when the command is made, `FillCommand` when the joint wrapper
copies the arrays.

`ImplementationLoader` is `instantiateImplementation`: `BeginInstantiate`,
`DestroyOld`, `CloseOld` for the implementation that is there, then `Open`,
`FindSymbols`, `Create`, `Adopt`, each of which but the last may give up.  The
variables `opened` and `live` count, in the linker, how often a library is open
and, in the library, the objects it made and did not destroy.  The refinement
to `PluginLifetime` sees a library as closed, mapped or alive.  The destructor of
the wrapper destroys nothing: the implementation of the last configuration
lives until the process ends, which is why `NothingLeaks` speaks of what the
members know and not of the end of the node.

### AsyncDiagnosticLogger and DiagnosticLog

`record` tests `enabled_` and `running_` without the mutex; both are written by
the calling thread only, so `Record` is one action.  `stop` is `StopRequest`
(flag under the mutex), `StopNotify`, `StopJoin`.  The writer is `Open`, `Check`
(the wait's predicate, the exit test and the pop, all under the mutex), `Write`
and `SpuriousWakeup`.  A sample is the number of its `record` call.
`opened` remembers whether the writer could open its file in this session:
`DrainedOnStop` asks for an empty queue if it could, and for an empty file if not.
`DiagnosticLog` has `Begin`, `Submit`, `Write`, `Close`.  The refinement maps a
sample in the writer's hand to a written one, so `Check` is the abstract write
and the file write a stutter.

A lost wake-up would show in a state, not only in an infinite behaviour:
`NoLostWakeup` says that a writer that sleeps has nothing to do or is about to
be notified.  `WorkLeft` measures what the writer has still to do, and
`WriterWorksOff` says that, while there is something to do, each of its steps
lowers the measure.  Together they are the safety core of `StopReturns` and
`SampleLeavesQueue`.

### JointController

The joints do not interact, so there is one.  Unit stiffness and no damping leave
the impedance law as target minus position plus feedforward plus Coriolis torque.
The latter is zero, infinite or NaN, since `getCoriolis` is asked for success
only.  `std::clamp` takes an infinite difference to one step of `max_tau_delta_`
(`RateLimited`), so the joint is driven and the memory stays finite; NaN passes it
and stays in `tau_last`, which no deactivation clears.  A finite memory is bounded
by `MaxMemory`.  The low-pass filter may put the target anywhere between old and
commanded value, which covers every `filter_alpha` in [0, 1].  `Update` adds what
friction and repulsion contribute after the rate limit, any of `Compensation`,
which the history variable `added` keeps, before it sanitises and writes; it also
covers the cycle in which one of the two fails after `step` ran: zeros are
written although the implementation's memory advanced.

### TorquePipeline, FrictionCompensation, JointLimitRepulsion

`update` runs on one thread, so an action is one stage: `Step`, `AddGravity`,
`AddFriction`, `AddDither`, `AddRepulsion`, `Write`, with `SkipGravity`,
`SkipFriction`, `FrictionFault` and `FailedCycle` for the other ways out.  The
Cartesian wrapper runs all of them, the joint wrapper those of its own `update`;
`wrapper` says which one runs.  Integers and one NaN, which absorbs
everything it is added to, stand for doubles: an infinite torque of the
implementation or of the model is this NaN too, which `sanitizeTorqueOutput` and
the tests for finite numbers do not tell from it, and finite sums do not overflow.

`FrictionCompensation` and `JointLimitRepulsion` hold the variables of their
classes and `configure` as an action; `Configure` calls them in the order of
`on_configure`, where a refusal finalizes the node.  All joints share their
coefficients.  `Sigmoid` is the formula of the code on `Logistic`, any function that does not
fall on the range its argument is clamped to (60 in the code), since exponentials
are out of TLC's reach.  `configure` looks at no sign of the coefficients `fvp`,
`fcp`, `fvn`, `fcn`, `phi1` and `phi2`; `FrictionHelpsMotion` therefore says for
which signs the torque helps the motion and for which it brakes it.

## 3. Runs

| Run | Expect | Shows |
|---|---|---|
| `command_path` | pass | `CommandsAgree`, `OnlyThisSession`, and the refinement of `ControllerSession`, for every order of transitions, cycles and callbacks |
| `command_path_two_blocks` | pass | with two stiffness blocks: the other block is left alone; under fairness `ManagerReturns`, `CallbackReturns`, and `LoopFollowsLast`: when callbacks and transitions cease, the loop comes to follow the last command although it only tries the buffer's lock |
| `stiffness_update_at_activation` | violation | a stiffness message between the two seeding writes publishes over the seeded pose the reference `last_command_` still holds; in the trace that of a command published just before the buffer was seeded |
| `failed_pose_at_activation` | violation | a failing `getPose` seeds an unwritten pose |
| `command_of_the_last_session` | violation | a message checked before and published after the activation survives the seed |
| `step_guard` | pass | finite result, near where the robot was meanwhile, near requests kept; `FirstTurnIsBounded`, `TurnsTheShortWay`, `TorquesTurnToward`: what the law and the dither do with it |
| `step_guard_torn_read` | violation | the replacement position may be one the robot never had |
| `controller_node` | pass | `PartsAgree`, `StepsFit`, `NothingLeaks`, refinement of `PluginLifetime` through configurations that succeed or fail half way, for either wrapper, with callbacks in between |
| `diagnostic_logger` | pass | bound, order, nothing lost, drained on stop, no lost wake-up, each step leaves less work, `stop` returns, refinement of `DiagnosticLog` |
| `joint_controller` | pass | refinement of `ControllerSession` (zero unless active, commands of the session), rate limit of the torque written, rest at the first activation, rest after a NaN |
| `joint_reactivation` | violation | a second activation keeps the targets of the session before |
| `torque_pipeline` | pass | what runs was accepted, which faults cost what, friction helps or brakes as the signs of its coefficients say and adds nothing at rest outside an empty band, limits push inward |

The findings quote the log line, script or document each violation contradicts.

### Bounds

- `command_path`: two poses tell an old reference from a new one; one block and
  two stiffness values suffice for everything but the independence of blocks,
  for which `command_path_two_blocks` has two.  A clock of 0..2 with a
  staleness of 1 gives stamps before, at and after an activation, and stale
  ones; the number of sessions and messages is not bounded.
- `step_guard`: positions 0..2 in x and 0..1 in y with limit 1 are at, below and
  above the limit; eight quaternions give both signs of four orientations, the
  dot product zero included; NaN in x, in the quaternion, in both.  The guard
  is on or off.  Eight quaternions are also turns of none, a quarter, a half and
  three quarters, so that the law has a way to choose, and the case in which
  both are as short.  Stiffness 1 and 2.
- `controller_node`: two libraries, so that one can replace the other; no joints,
  one and two, with two before any configuration (the code's 7), so that a
  command can be too short, too long or of mixed sizes; any number of
  configurations, sessions and messages.
- `diagnostic_logger`: a queue of 2 with 5 samples per session overflows, drains
  and refills; the number of sessions is not bounded.
- `joint_controller`: a feedforward of 3 exceeds both the rate limit of 1 and the
  saturation of 2, so saturation, rate limit and memory disagree; compensations of
  0 and 2 reach the saturation after the rate limit; a memory of up to 3 is beyond
  the saturation.
- `torque_pipeline`: two joints, so that one may fault while the other drives;
  positions below, between and above the activation bounds; ten friction and six
  repulsion parameter sets, valid ones of each model, a braking sigmoid and a
  braking band among them, and one for each kind of refusal; a logistic curve of
  five points, flat at both ends; a saturation of 4 that implementation and gravity together
  reach.  Joints are symmetric.

`MCJointController` and `MCTorquePipeline` do not check deadlock: a finalized
node has nothing left to do there.  All other passing runs check it.

### Fairness

Inside a call a thread goes on (weak fairness), and the controller manager calls
`update` of an active controller for ever (weak fairness of `UpdateRead`, on
which `LoopFollowsLast` rests); nothing obliges the manager to begin a
transition or a peer to send a message.  `std::mutex` is not fair, but
each critical section ends and a preemptive scheduler lets a waiting thread
run between them sooner or later: hence strong fairness for the one step that waits while
others come and go, `ActivateSeedLast`.  No fairness is given to
`SpuriousWakeup`, so no liveness result rests on it.

## 4. Proofs

For every value of the constants under the named assumptions
(`CommandAssumption`, `LoggerAssumption`, `JointAssumption`,
`NoCommandAssumption`, `NaNAssumption`, `PipelineAssumption`,
`ParameterAssumption`, `LogisticAssumption`, `HalfTurnAssumption`,
`StiffnessAssumption`, `GuardAssumption`, `LoaderAssumption`, `DefaultAssumption`):

- `CartesianCommandPathProofs`: `TypeOK`, `OnlyActiveDrives`, `CommandsAgree`,
  `OnlyThisSession`, `StiffnessKeepsReference`.  `CommandsAgree` is not
  inductive: a callback that already passed the stamp check may be about to
  lock.  `IInv` adds where the threads can be (`Phases`), that a seeding no
  callback overlaps stays undisturbed (`SeedUndisturbed`), what the critical
  section of a stiffness callback is about to publish (`StiffnessPending`) and
  that copies outside overlaps carry stamps of the session (`FreshCopies`).

  `ImplementsSessionHolds` maps each step of the wrapper to one of the session
  or a stutter; beside `IInv` it needs that no stamp is from the future (`Past`).
  `ControllerSession` holds the proofs of what the abstract session guarantees,
  and `NeverFallsBackHolds` takes one of them over through the refinement: a
  loop that acts on a command of its session never goes back to an earlier one,
  although `readFromRT` may miss.

  Three claims of the code are violated (the `violation` runs).  Two theorems say
  when they do hold.  `ClaimsHoldUndisturbed`: if no callback overlaps a
  seeding, nothing from before the activation is followed and no stiffness
  message, also between the two seeding writes, moves the reference.  `SeedIsAPoseWhenKnown`: the reference is a pose
  if `getPose` answers during activation and no step guard reads the state buffer
  before it has; TLC finds a counterexample when either hypothesis is dropped.
- `AsyncDiagnosticLoggerProofs`: `TypeOK`, `QueueBounded`, `DrainedOnStop`,
  `NothingLost`, `ImplementsLog`.  The inductive core is `Handshake`, which ties `running`, the
  writer's place and the owner's place in `stop`: a thread exists exactly while
  `running`, one that opened its file left the loop with an empty queue, one that
  did not wrote nothing, and only `stop` lets it leave.  `NothingLost` adds that what was dropped
  had been recorded (`Placed`), and rests on what appending to an increasing
  sequence and removing one element from it do to its elements.
  `NoLostWakeup` is inductive with `Handshake` and `Stopping` (from the notification to
  the join the stop has been requested); `WriterWorksOffHolds` and
  `WorkBoundedHolds` bound the steps a `stop` waits for by `2 * MaxQueue + 2`.
- `JointControllerProofs`: `TypeOK`, `OnlyActiveDrives`, `OnlyThisSession`,
  `RateLimitedWhileDriving`, `FirstActivationRests`, `FaultRests`,
  `ImplementsSession` and, through it, `NeverFallsBack`.  The rate limit
  and `FaultRests` rest on the invariant (`TorqueInv`) that while driving the
  torque written is the sanitised sum of the implementation's memory and what was
  added to it, the rate limit also on the lemma that clamping never widens a
  difference.  Infinite Coriolis torques are within the rate limit, NaN is not.
- `TorquePipelineProofs`: `TypeOK`, `ConfiguredIsValid`,
  `FrictionLostToFaultsOnly`, `FaultWritesZero`, `FrictionHelpsMotion`,
  `RepulsionPushesInward`, for any number of joints, any parameters and any
  answers.  `IInv` adds what enabled compensation was configured with
  (`Parameters`), what the latch owes while a torque is between implementation
  and friction stage (`FrictionLatch`), and that no stage makes a torque finite
  that was not (`Carried`).

  `FrictionHelpsMotion` has no hypothesis on the coefficients; all it needs of the
  exponentials is that `Logistic` does not fall.
- `ControllerNodeProofs`: `TypeOK`, `NothingLeaks`, `PartsAgree`, `StepsFit`,
  `OnePlugin`, for any libraries and numbers of joints.  `LoaderInv` says what the
  linker holds at each point of `instantiateImplementation`, `StageInv` which
  parts `on_configure` has already configured, `AssembledInv` what a successful
  configuration leaves until the next one begins.  `OnePlugin` maps each call
  into the linker or the library to one move of the slot.  What `PluginLifetime`
  proves of the slot (`OneAtATimeHolds`, `CodeOutlivesObjectHolds`) is taken over:
  at no moment of a reload, a failing one included, are two libraries mapped,
  and none is closed under its implementation.
- `StepGuardProofs`: `TypeOK`, `NearTheRobot`, `NearIsKept`,
  `FirstTurnIsBounded`, `TurnsTheShortWay`, `TorquesTurnToward`, for circles of any
  number of quaternions, any limits and any stiffness.  The invariant follows the
  request through the reads: each value the guard read is one of those `seen`
  since the callback began (`SeenInv`), and each decision it took was right for
  one of them (`FollowInv`).  The last three rest on lemmas about the circle alone.
  `ReplacedUnderALock` is what is left of the violated `ReplacedByAPosition`: the
  replacement is a position of the robot if update writes no coordinate while the
  guard copies them and the copy does not begin half written.

Only model-checked: the liveness properties `ManagerReturns`, `CallbackReturns`,
`LoopFollowsLast`, `StopReturns` and `SampleLeavesQueue`, since fairness and
`ENABLED` are beyond the prover.  What they need of the states and steps is
proved where it is not plain: `NoLostWakeup` and `WriterWorksOff` for the
logger, and for `LoopFollowsLast` that while no callback runs a cycle takes
the last command and keeps it (`QuietReadsFollowHolds`).  The properties of the
`violation` runs are false, and have conditional theorems instead, but for
`SeedsTargets`, whose true part is `FirstActivationRests`.

`OnlyActiveDrives` and the joint controller's `OnlyThisSession` are proved and
not listed in a run: `ImplementsSession` has the same content there.

## 5. Not modelled

Of the Cartesian impedance law the translation, the damping, the null space and
the Jacobians, of the dither the phase and the size of the wrench: real-valued
formulas without state but for the phase, which only feeds a sine.  The
parameter forwarding header (no caller), launch files, scripts and timing tests.
Times that run backwards and process termination by an uncaught exception are
not modelled either; the hazards list says so at their lines.  Reads past the
end of a message, when `num_joints_` has grown while the joint callback runs, are
numbers of unknown value here (`FillCommand`); a build may do anything.

## 6. Plan

What is left of the plan: that a critical section of `command_mutex_` is a
bounded number of steps (the safety core of `ManagerReturns` and
`CallbackReturns`), and a bound, for any number of cycles written as zeros, on
the torque step of the joint controller's next driven cycle.
