--------------------- MODULE CartesianCommandPathProofs ---------------------
(***************************************************************************)
(* What the command path guarantees for every set of poses, blocks and     *)
(* stiffness values, every staleness window and every length of time.      *)
(***************************************************************************)
EXTENDS CartesianCommandPath, TLAPS

-----------------------------------------------------------------------------
(* Types                                                                   *)

\* The command the constructor leaves is a command ...
LEMMA DefaultIsCommand == DefaultCommand \in Command
BY CommandAssumption DEF DefaultCommand, Command, Time

\* ... and so is the one on_activate builds from the state buffer.
LEMMA SeedIsCommand == TypeOK => SeedCommand \in Command
BY CommandAssumption DEF TypeOK, SeedCommand, Command

\* No step of either thread takes a variable out of its type, and
\* command_mutex_ is held exactly inside the callbacks' critical sections.
LEMMA TypeStep == TypeOK /\ [Next]_vars => TypeOK'
<1> SUFFICES ASSUME TypeOK, [Next]_vars PROVE TypeOK'
    OBVIOUS
<1> USE CommandAssumption
<1>1. CASE Tick
    BY <1>1 DEF TypeOK, Tick, Time, manager_vars, buffer_vars, shared_vars, executor_vars
<1>2. CASE ConfigureSubscribe \/ ConfigureFinish \/ Deactivate \/ Cleanup
    BY <1>2 DEF TypeOK, ConfigureSubscribe, ConfigureFinish, Deactivate, Cleanup,
                buffer_vars, shared_vars, executor_vars
<1>3. CASE Activate
  <2>1. SeedCommand \in Command
      BY SeedIsCommand
  <2>2. CASE ActivateReset \/ ActivateGetPose \/ ActivateStamp \/ ActivateFirstStep
      BY <2>2 DEF TypeOK, ActivateReset, ActivateGetPose, ActivateStamp, ActivateFirstStep,
                  buffer_vars, shared_vars, executor_vars
  <2>3. CASE ActivateSeedBuffer
      BY <2>1, <2>3 DEF TypeOK, ActivateSeedBuffer, InCallback, shared_vars, executor_vars
  <2>4. CASE ActivateSeedLast
      BY <2>1, <2>4 DEF TypeOK, ActivateSeedLast, buffer_vars, executor_vars
  <2> QED BY <1>3, <2>2, <2>3, <2>4 DEF Activate
<1>4. CASE Update
    BY <1>4 DEF TypeOK, Update, UpdateRead, UpdateModel, UpdateStep,
                buffer_vars, shared_vars, executor_vars
<1>5. CASE Executor
  <2>1. ASSUME NEW ref \in Pose, NEW stiffness \in [Block -> Stiffness], NEW stamp \in Time,
               BeginCommand(ref, stiffness, stamp)
        PROVE  TypeOK'
      BY <2>1 DEF TypeOK, BeginCommand, Command, manager_vars, buffer_vars, shared_vars
  <2>2. ASSUME NEW block \in Block, NEW value \in Stiffness, LockStiffness(block, value)
        PROVE  TypeOK'
      BY <2>2 DEF TypeOK, LockStiffness, Command, manager_vars, buffer_vars
  <2>3. CASE BuildCommand
      BY <2>3 DEF TypeOK, BuildCommand, Command, manager_vars, buffer_vars, shared_vars
  <2>4. CASE LockCommand
      BY <2>4 DEF TypeOK, LockCommand, manager_vars, buffer_vars
  <2>5. CASE Publish
      BY <2>5, DefaultIsCommand DEF TypeOK, Publish, manager_vars
  <2> QED BY <1>5, <2>1, <2>2, <2>3, <2>4, <2>5 DEF Executor
<1>6. CASE UNCHANGED vars
    BY <1>6 DEF TypeOK, vars, manager_vars, buffer_vars, shared_vars, executor_vars
<1> QED
    BY <1>1, <1>2, <1>3, <1>4, <1>5, <1>6 DEF Next, Manager

\* Initially every variable has its type.
LEMMA TypeInit == Init => TypeOK
<1> SUFFICES ASSUME Init PROVE TypeOK
    OBVIOUS
<1>1. now \in Time /\ active_since \in Time
    BY CommandAssumption DEF Init, Time
<1>2. subscribed \in BOOLEAN /\ have_last_command \in BOOLEAN /\ overlap \in BOOLEAN
    BY Zenon DEF Init
<1>3. newest \in Command /\ taken \in Command /\ last_command \in Command /\ exec_cmd \in Command
    BY DefaultIsCommand DEF Init
<1> QED
    BY <1>1, <1>2, <1>3 DEF Init, TypeOK

\* Type correctness of the command path.
THEOREM TypeCorrect == Spec => []TypeOK
BY TypeInit, TypeStep, PTL DEF Spec

-----------------------------------------------------------------------------
(* The manager's program counter and the lifecycle                         *)

\* Each phase of a transition runs in its lifecycle state, and only an active
\* controller drives the joints.
Phases ==
    /\ mgr_pc = "configure" => lifecycle = "unconfigured"
    /\ Activating => lifecycle = "inactive"
    /\ mgr_pc \in {"model", "step"} => lifecycle = "active"
    /\ OnlyActiveDrives

\* Phases is preserved by every step.
LEMMA PhasesStep == Phases /\ [Next]_vars => Phases'
<1> SUFFICES ASSUME Phases, [Next]_vars PROVE Phases'
    OBVIOUS
<1> USE DEF Phases, Activating, OnlyActiveDrives
<1>1. CASE Tick \/ Executor
  <2>1. UNCHANGED manager_vars
      BY <1>1 DEF Tick, Executor, BeginCommand, LockStiffness, BuildCommand, LockCommand, Publish
  <2> QED BY <2>1 DEF manager_vars
<1>2. CASE ConfigureSubscribe \/ ConfigureFinish \/ Deactivate \/ Cleanup
    BY <1>2 DEF ConfigureSubscribe, ConfigureFinish, Deactivate, Cleanup
<1>3. CASE Activate
    BY <1>3 DEF Activate, ActivateReset, ActivateGetPose, ActivateStamp, ActivateSeedBuffer,
                ActivateSeedLast, ActivateFirstStep
<1>4. CASE Update
    BY <1>4 DEF Update, UpdateRead, UpdateModel, UpdateStep
<1>5. CASE UNCHANGED vars
    BY <1>5 DEF vars, manager_vars
<1> QED
    BY <1>1, <1>2, <1>3, <1>4, <1>5 DEF Next, Manager

\* Torques other than zero stand on the interfaces only while the node is active.
THEOREM OnlyActiveDrivesHolds == Spec => []OnlyActiveDrives
<1>1. Init => Phases
    BY DEF Init, Phases, Activating, OnlyActiveDrives
<1>2. Phases => OnlyActiveDrives
    BY DEF Phases
<1> QED
    BY <1>1, <1>2, PhasesStep, PTL DEF Spec

-----------------------------------------------------------------------------
(* The two copies of the command                                           *)

\* on_activate has seeded last_command_ and has not been undone since.
Seeded == lifecycle = "active" \/ mgr_pc = "first_step"

\* The buffer and last_command_ differ in one stiffness block at most.
OneBlockApart ==
    /\ newest.ref = last_command.ref
    /\ \A b, c \in Block :
           newest.stiffness[b] # last_command.stiffness[b]
           /\ newest.stiffness[c] # last_command.stiffness[c] => b = c

\* Between the two halves of the seeding no callback runs and the buffer holds
\* the seed, or overlap records the fact.
SeedUndisturbed == Seeding /\ ~overlap => ~InCallback /\ newest = SeedCommand

\* Inside a stiffness callback the copies differ in the block it sets.
StiffnessPending ==
    exec_pc = "publish_stiffness" /\ ~Seeding /\ ~overlap => OneBlockApart

\* After the seeding the copies, and a command under construction, are from this
\* session.
FreshCopies ==
    Seeded /\ ~overlap =>
        /\ newest.stamp >= active_since
        /\ last_command.stamp >= active_since
        /\ exec_pc \in {"build", "lock"} => exec_cmd.stamp >= active_since

\* CommandsAgree alone is not inductive: a stiffness callback breaks it on
\* purpose between its two writes, and on_activate between its own two.
IInv ==
    /\ TypeOK
    /\ Phases
    /\ SeedUndisturbed
    /\ CommandsAgree
    /\ StiffnessPending
    /\ FreshCopies

\* A step of the manager that writes neither copy, neither enters nor leaves the
\* seeding and does not put a session in place of another keeps the copies' invariants.
LEMMA CopiesUntouched ==
    ASSUME IInv, TypeOK', Phases',
           UNCHANGED <<newest, shared_vars, executor_vars, overlap, active_since>>,
           ~Seeding, ~Seeding', Seeded' => Seeded
    PROVE  IInv'
BY DEF IInv, SeedUndisturbed, CommandsAgree, StiffnessPending, FreshCopies, OneBlockApart,
       Seeding, InCallback, shared_vars, executor_vars

\* Every step keeps the copies in agreement and fresh.
LEMMA CopiesStep == IInv /\ [Next]_vars => IInv'
<1> SUFFICES ASSUME IInv, [Next]_vars PROVE IInv'
    OBVIOUS
<1>0. TypeOK' /\ Phases'
    BY TypeStep, PhasesStep DEF IInv
<1>1. CASE Tick
    BY <1>0, <1>1 DEF IInv, Tick, SeedUndisturbed, CommandsAgree, StiffnessPending, FreshCopies,
           OneBlockApart, Seeded, Seeding, InCallback, SeedCommand,
           manager_vars, buffer_vars, shared_vars, executor_vars
<1>2. CASE ConfigureSubscribe \/ ConfigureFinish \/ Deactivate \/ Cleanup \/ Update
  <2>1. /\ UNCHANGED <<newest, shared_vars, executor_vars, overlap, active_since>>
        /\ ~Seeding /\ ~Seeding'
        /\ Seeded' => Seeded
      BY <1>2 DEF IInv, Phases, ConfigureSubscribe, ConfigureFinish, Deactivate, Cleanup,
                  Update, UpdateRead, UpdateModel, UpdateStep, Seeding, Seeded, buffer_vars
  <2> QED BY <1>0, <2>1, CopiesUntouched
<1>3. CASE ActivateReset \/ ActivateGetPose \/ ActivateFirstStep
  <2>1. /\ UNCHANGED <<newest, shared_vars, executor_vars, overlap, active_since>>
        /\ ~Seeding /\ ~Seeding'
        /\ Seeded' => Seeded
      BY <1>3 DEF IInv, Phases, Activating, ActivateReset, ActivateGetPose, ActivateFirstStep,
                  Seeding, Seeded, buffer_vars
  <2> QED BY <1>0, <2>1, CopiesUntouched
<1>4. CASE ActivateStamp
  <2>1. ~Seeded'
      BY <1>4 DEF IInv, Phases, Activating, ActivateStamp, Seeded
  <2> QED
      BY <1>0, <1>4, <2>1 DEF IInv, ActivateStamp, SeedUndisturbed, CommandsAgree,
             StiffnessPending, FreshCopies, OneBlockApart, Seeding,
             buffer_vars, shared_vars, executor_vars
<1>5. CASE ActivateSeedBuffer
  <2>1. ~Seeded' /\ Seeding'
      BY <1>5 DEF IInv, Phases, Activating, ActivateSeedBuffer, Seeded, Seeding
  <2>2. SeedUndisturbed'
      BY <1>5 DEF ActivateSeedBuffer, SeedUndisturbed, InCallback, SeedCommand, executor_vars
  <2> QED
      BY <1>0, <2>1, <2>2 DEF IInv, CommandsAgree, StiffnessPending, FreshCopies
<1>6. CASE ActivateSeedLast
  <2>1. ~Seeding'
      BY <1>6 DEF ActivateSeedLast, Seeding
  <2>2. ASSUME ~overlap' PROVE newest' = last_command' /\ exec_pc' = "idle"
      BY <1>6, <2>2 DEF IInv, ActivateSeedLast, SeedUndisturbed, Seeding, InCallback,
                        buffer_vars, executor_vars
  <2>3. last_command'.stamp = active_since'
      BY <1>6 DEF ActivateSeedLast, SeedCommand
  <2>4. active_since' \in Nat
      BY <1>0 DEF TypeOK, Time
  <2> QED
      BY <1>0, <2>1, <2>2, <2>3, <2>4 DEF IInv, SeedUndisturbed, CommandsAgree,
             StiffnessPending, FreshCopies
<1>7. ASSUME NEW ref \in Pose, NEW stiffness \in [Block -> Stiffness], NEW stamp \in Time,
             BeginCommand(ref, stiffness, stamp)
      PROVE  IInv'
    BY <1>0, <1>7 DEF IInv, BeginCommand, SeedUndisturbed, CommandsAgree, StiffnessPending,
           FreshCopies, Seeded, Seeding, manager_vars, buffer_vars, shared_vars
<1>8. ASSUME NEW block \in Block, NEW value \in Stiffness, LockStiffness(block, value)
      PROVE  IInv'
  <2>1. /\ UNCHANGED <<manager_vars, newest>>
        /\ exec_pc' = "publish_stiffness" /\ command_mutex' = "executor"
        /\ ~overlap' => ~Seeding /\ ~overlap
      BY <1>8 DEF LockStiffness, buffer_vars
  <2>2. /\ last_command'.ref = last_command.ref
        /\ last_command'.stamp = last_command.stamp
        /\ \A b \in Block \ {block} : last_command'.stiffness[b] = last_command.stiffness[b]
      BY <1>8 DEF IInv, TypeOK, Command, LockStiffness
  <2>3. ASSUME ~overlap' PROVE newest = last_command
      BY <1>8, <2>1, <2>3 DEF IInv, CommandsAgree, LockStiffness
  <2>4. StiffnessPending'
      BY <2>1, <2>2, <2>3 DEF StiffnessPending, OneBlockApart
  <2>5. FreshCopies'
      BY <2>1, <2>2 DEF IInv, FreshCopies, Seeded, manager_vars
  <2> QED
      BY <1>0, <2>1, <2>4, <2>5 DEF IInv, SeedUndisturbed, CommandsAgree, Seeding, manager_vars
<1>9. CASE BuildCommand
  <2>1. exec_cmd'.stamp = exec_cmd.stamp
      BY <1>9 DEF IInv, TypeOK, Command, BuildCommand
  <2> QED
      BY <1>0, <1>9, <2>1 DEF IInv, BuildCommand, SeedUndisturbed, CommandsAgree,
             StiffnessPending, FreshCopies, Seeded, Seeding, InCallback,
             manager_vars, buffer_vars, shared_vars
<1>10. CASE LockCommand
    BY <1>0, <1>10 DEF IInv, LockCommand, SeedUndisturbed, CommandsAgree, StiffnessPending,
           FreshCopies, Seeded, Seeding, InCallback, manager_vars, buffer_vars
<1>11. CASE Publish
    BY <1>0, <1>11 DEF IInv, Publish, Repaired, SeedUndisturbed, CommandsAgree,
           StiffnessPending, FreshCopies, Seeded, Seeding, InCallback, manager_vars
<1>12. CASE UNCHANGED vars
    BY <1>0, <1>12 DEF IInv, SeedUndisturbed, CommandsAgree, StiffnessPending, FreshCopies,
           OneBlockApart, Seeded, Seeding, InCallback, SeedCommand,
           vars, manager_vars, buffer_vars, shared_vars, executor_vars
<1> QED
    BY <1>1, <1>2, <1>3, <1>4, <1>5, <1>6, <1>7, <1>8, <1>9, <1>10, <1>11, <1>12
    DEF Next, Manager, Activate, Executor

\* The invariant holds initially.
LEMMA CopiesInit == Init => IInv
BY TypeInit DEF Init, IInv, Phases, Activating, OnlyActiveDrives, SeedUndisturbed,
   CommandsAgree, StiffnessPending, FreshCopies, Seeded, Seeding

\* The invariant holds throughout.
LEMMA CopiesInvariant == Spec => []IInv
BY CopiesInit, CopiesStep, PTL DEF Spec

\* Outside a callback's critical section the buffer and last_command_ agree,
\* unless a callback overlapped the seeding of this activation.
THEOREM CommandsAgreeHolds == Spec => []CommandsAgree
<1>1. IInv => CommandsAgree
    BY DEF IInv
<1> QED
    BY <1>1, CopiesInvariant, PTL

\* An active controller holds no command from before its activation, unless a
\* callback overlapped the seeding.
THEOREM OnlyThisSessionHolds == Spec => []OnlyThisSession
<1>1. IInv => OnlyThisSession
    BY DEF IInv, FreshCopies, OnlyThisSession, Seeded
<1> QED
    BY <1>1, CopiesInvariant, PTL

\* A stiffness callback changes its block of the published command and nothing
\* else, unless a callback overlapped the seeding.
THEOREM StiffnessKeepsReferenceHolds == Spec => StiffnessKeepsReference
<1>1. ASSUME IInv, [Next]_vars
      PROVE  [StiffnessPublished /\ ~Seeding /\ ~overlap => OneBlockChanged]_vars
  <2> SUFFICES ASSUME Next, StiffnessPublished, ~Seeding, ~overlap
               PROVE  OneBlockChanged
      BY <1>1
  <2>1. Publish
      BY DEF Next, Manager, Activate, Update, Executor, StiffnessPublished, Tick,
             ConfigureSubscribe, ConfigureFinish, ActivateReset, ActivateGetPose, ActivateStamp,
             ActivateSeedBuffer, ActivateSeedLast, ActivateFirstStep, Deactivate, Cleanup,
             UpdateRead, UpdateModel, UpdateStep, BeginCommand, LockStiffness, BuildCommand,
             LockCommand, executor_vars
  <2>2. newest' = last_command /\ OneBlockApart
      BY <1>1, <2>1 DEF IInv, StiffnessPending, StiffnessPublished, Publish
  <2> QED
      BY <2>2 DEF OneBlockApart, OneBlockChanged
<1> QED
    BY <1>1, CopiesInvariant, PTL DEF Spec, StiffnessKeepsReference

\* Where no callback ever overlaps a seeding, the two claims that an overlap
\* refutes are true: no command from before the activation is in the buffer, and
\* no stiffness update changes the reference.
THEOREM ClaimsHoldUndisturbed ==
    Spec /\ []~overlap => []NothingBeforeActivation /\ StiffnessAlwaysKeepsReference
<1>1. OnlyThisSession /\ ~overlap => NothingBeforeActivation
    BY DEF OnlyThisSession, NothingBeforeActivation
<1>2. ASSUME IInv, ~overlap, [StiffnessPublished /\ ~Seeding /\ ~overlap => OneBlockChanged]_vars
      PROVE  [StiffnessPublished /\ (lifecycle = "active" \/ Seeding) =>
                  newest'.ref = newest.ref]_vars
  <2>1. StiffnessPublished => ~Seeding
      BY <1>2 DEF IInv, SeedUndisturbed, InCallback, StiffnessPublished
  <2> QED BY <1>2, <2>1 DEF OneBlockChanged
<1> QED
    BY <1>1, <1>2, OnlyThisSessionHolds, StiffnessKeepsReferenceHolds, CopiesInvariant, PTL
    DEF StiffnessKeepsReference, StiffnessAlwaysKeepsReference

-----------------------------------------------------------------------------
(* A pose nothing has written                                              *)

\* getPose answers whenever on_activate asks, and the step guard never finds the
\* state buffer as on_activate's reset leaves it.
PoseKnown ==
    /\ ActivateGetPose => pose' \in Pose
    /\ BuildCommand => pose \in Pose

\* Every reference is a pose that was measured or asked for.
WrittenRefs ==
    /\ exec_cmd.ref \in Pose /\ last_command.ref \in Pose /\ newest.ref \in Pose
    /\ mgr_pc \in {"stamp", "seed", "seeded", "first_step"} => pose \in Pose

\* Under PoseKnown no step puts an unwritten pose into a reference.
LEMMA WrittenStep == TypeOK /\ WrittenRefs /\ [Next]_vars /\ [PoseKnown]_vars => WrittenRefs'
<1> SUFFICES ASSUME TypeOK, WrittenRefs, [Next]_vars, [PoseKnown]_vars PROVE WrittenRefs'
    OBVIOUS
<1> USE DEF WrittenRefs
<1>1. CASE UNCHANGED <<mgr_pc, pose, newest, last_command, exec_cmd>>
    BY <1>1
<1>2. CASE ActivateReset \/ ActivateStamp \/ ActivateFirstStep
    BY <1>2 DEF ActivateReset, ActivateStamp, ActivateFirstStep,
           buffer_vars, shared_vars, executor_vars
<1>3. CASE ActivateGetPose
    BY <1>3 DEF ActivateGetPose, PoseKnown, vars, manager_vars,
           buffer_vars, shared_vars, executor_vars
<1>4. CASE ActivateSeedBuffer \/ ActivateSeedLast
    BY <1>4 DEF ActivateSeedBuffer, ActivateSeedLast, SeedCommand,
           buffer_vars, shared_vars, executor_vars
<1>5. CASE ConfigureSubscribe \/ ConfigureFinish \/ Update
    BY <1>5 DEF ConfigureSubscribe, ConfigureFinish, Update, UpdateRead, UpdateModel, UpdateStep,
           buffer_vars, shared_vars, executor_vars
<1>6. ASSUME NEW ref \in Pose, NEW stiffness \in [Block -> Stiffness], NEW stamp \in Time,
             BeginCommand(ref, stiffness, stamp)
      PROVE  WrittenRefs'
    BY <1>6 DEF BeginCommand, manager_vars, buffer_vars, shared_vars
<1>7. ASSUME NEW block \in Block, NEW value \in Stiffness, LockStiffness(block, value)
      PROVE  WrittenRefs'
  <2>1. last_command'.ref = last_command.ref
      BY <1>7 DEF LockStiffness, TypeOK, Command
  <2> QED BY <1>7, <2>1 DEF LockStiffness, manager_vars, buffer_vars
<1>8. CASE BuildCommand
  <2>1. pose \in Pose
      BY <1>8 DEF PoseKnown, BuildCommand, vars, executor_vars
  <2>2. exec_cmd'.ref \in Pose
      BY <1>8, <2>1 DEF BuildCommand, TypeOK, Command
  <2> QED BY <1>8, <2>2 DEF BuildCommand, manager_vars, buffer_vars, shared_vars
<1>9. CASE LockCommand
    BY <1>9 DEF LockCommand, manager_vars, buffer_vars
<1>10. CASE Publish
  <2>1. exec_cmd'.ref \in Pose
      BY <1>10, CommandAssumption DEF Publish, DefaultCommand
  <2> QED BY <1>10, <2>1 DEF Publish, manager_vars
<1>11. CASE Tick \/ Deactivate \/ Cleanup \/ UNCHANGED vars
    BY <1>1, <1>11 DEF Tick, Deactivate, Cleanup, vars, manager_vars, buffer_vars, shared_vars,
           executor_vars
<1> QED
    BY <1>2, <1>3, <1>4, <1>5, <1>6, <1>7, <1>8, <1>9, <1>10, <1>11
    DEF Next, Manager, Activate, Executor

\* The reference is an unwritten pose for two reasons only: getPose failed in
\* on_activate, or a callback read the state buffer between its reset there (or
\* its construction) and the getPose that fills it.
THEOREM SeedIsAPoseWhenKnown == Spec /\ [][PoseKnown]_vars => []SeedIsAPose
<1>1. Init => WrittenRefs
    BY CommandAssumption DEF Init, WrittenRefs, DefaultCommand
<1>2. WrittenRefs => SeedIsAPose
    BY DEF WrittenRefs, SeedIsAPose
<1> QED
    BY <1>1, <1>2, WrittenStep, TypeCorrect, PTL DEF Spec

-----------------------------------------------------------------------------
(* What the control loop takes                                             *)

\* Without callbacks every read of the buffer succeeds and brings last_command_,
\* and what has been taken stays taken: LoopFollowsLast needs one more read only.
QuietReadsFollow ==
    [][Quiet /\ Quiet' =>
           /\ UpdateRead => taken' = last_command'
           /\ taken = last_command => taken' = last_command']_vars

\* The safety half of LoopFollowsLast.
THEOREM QuietReadsFollowHolds == Spec => QuietReadsFollow
<1>1. ASSUME IInv, [Next]_vars
      PROVE  [Quiet /\ Quiet' =>
                  /\ UpdateRead => taken' = last_command'
                  /\ taken = last_command => taken' = last_command']_vars
  <2> SUFFICES ASSUME Next, Quiet, Quiet'
               PROVE  /\ UpdateRead => taken' = last_command'
                      /\ taken = last_command => taken' = last_command'
      BY <1>1
  <2>1. command_mutex = "free" /\ newest = last_command
      BY <1>1 DEF IInv, TypeOK, CommandsAgree, Quiet, InCallback, Phases, Activating, Seeding
  <2>2. ~Executor /\ ~Activate
      BY <1>1 DEF Quiet, InCallback, Executor, BeginCommand, LockStiffness, BuildCommand,
             LockCommand, Publish, IInv, Phases, Activating, Activate, ActivateReset,
             ActivateGetPose, ActivateStamp, ActivateSeedBuffer, ActivateSeedLast,
             ActivateFirstStep
  <2>3. UNCHANGED <<newest, last_command>> /\ (taken' = taken \/ UpdateRead)
      BY <2>2 DEF Next, Manager, Tick, ConfigureSubscribe, ConfigureFinish, Deactivate, Cleanup,
             Update, UpdateRead, UpdateModel, UpdateStep, buffer_vars, shared_vars
  <2>4. UpdateRead => taken' = newest
      BY <2>1 DEF UpdateRead
  <2> QED BY <2>1, <2>3, <2>4
<1> QED
    BY <1>1, CopiesInvariant, PTL DEF Spec, QuietReadsFollow

-----------------------------------------------------------------------------
(* Refinement                                                              *)

\* The activation lies in the past.
Past == active_since <= now

\* The clock only moves forward, and an activation takes its time from it.
LEMMA PastStep == TypeOK /\ Past /\ [Next]_vars => Past'
<1> SUFFICES ASSUME TypeOK, Past, [Next]_vars PROVE Past'
    OBVIOUS
<1>1. now \in Nat /\ active_since \in Nat
    BY DEF TypeOK, Time
<1>2. CASE ActivateStamp
    BY <1>1, <1>2 DEF ActivateStamp, Past
<1>3. CASE Tick
    BY <1>1, <1>3 DEF Tick, Past, manager_vars
<1>4. CASE ~ActivateStamp /\ ~Tick
  <2>1. UNCHANGED <<now, active_since>>
    <3>1. CASE Manager
        BY <1>4, <3>1 DEF Manager, Activate, Update, ConfigureSubscribe, ConfigureFinish,
               ActivateReset, ActivateGetPose, ActivateSeedBuffer, ActivateSeedLast,
               ActivateFirstStep, Deactivate, Cleanup, UpdateRead, UpdateModel, UpdateStep
    <3>2. CASE Executor
        BY <3>2 DEF Executor, BeginCommand, LockStiffness, BuildCommand, LockCommand, Publish,
               manager_vars
    <3> QED BY <1>4, <3>1, <3>2 DEF Next, vars, manager_vars
  <2> QED BY <2>1 DEF Past
<1> QED BY <1>2, <1>3, <1>4

\* The activation always lies in the past.
LEMMA PastInvariant == Spec => []Past
<1>1. Init => Past
    BY DEF Init, Past
<1> QED BY <1>1, PastStep, TypeCorrect, PTL DEF Spec

\* The five places of the manager that a session tells apart.
LEMMA PhaseValues ==
    /\ lifecycle = "active" => SessionPhase = "active"
    /\ lifecycle # "active" /\ mgr_pc = "seed" => SessionPhase = "stamped"
    /\ lifecycle # "active" /\ mgr_pc \in {"seeded", "first_step"} => SessionPhase = "seeded"
    /\ lifecycle # "active" /\ mgr_pc \notin {"seed", "seeded", "first_step"}
           => SessionPhase = "rest"
BY DEF SessionPhase

\* The same after a step.
LEMMA PhaseValuesNext ==
    /\ lifecycle' = "active" => SessionPhase' = "active"
    /\ lifecycle' # "active" /\ mgr_pc' = "seed" => SessionPhase' = "stamped"
    /\ lifecycle' # "active" /\ mgr_pc' \in {"seeded", "first_step"} => SessionPhase' = "seeded"
    /\ lifecycle' # "active" /\ mgr_pc' \notin {"seed", "seeded", "first_step"}
           => SessionPhase' = "rest"
BY DEF SessionPhase

\* Each step of an activation is the session's or hidden from it.
LEMMA ActivateSession ==
    ASSUME IInv, Past, Activate
    PROVE  Session!Next \/ UNCHANGED Session!sessionVars
<1> USE PhaseValues, PhaseValuesNext
<1>0. TypeOK /\ Phases
    BY DEF IInv
<1>1. CASE ActivateReset \/ ActivateGetPose \/ ActivateSeedLast
    BY <1>0, <1>1 DEF Phases, Activating, ActivateReset, ActivateGetPose, ActivateSeedLast,
           Session!sessionVars, InCallback, buffer_vars, executor_vars
<1>2. CASE ActivateStamp
  <2>1. Session!Begin
      BY <1>0, <1>2 DEF Phases, Activating, ActivateStamp, Session!Begin, Past, TypeOK, Time,
             InCallback, buffer_vars, executor_vars
  <2> QED BY <2>1 DEF Session!Next
<1>3. CASE ActivateSeedBuffer
  <2>1. Session!Seed
      BY <1>0, <1>3 DEF Phases, Activating, ActivateSeedBuffer, Session!Seed, SeedCommand,
             InCallback, executor_vars
  <2> QED BY <2>1 DEF Session!Next
<1>4. CASE ActivateFirstStep
  <2>1. hw = "zero"
      BY <1>0, <1>4 DEF Phases, Activating, OnlyActiveDrives, TypeOK, ActivateFirstStep
  <2>2. Session!Activate \/ Session!Refuse
      BY <1>0, <1>4, <2>1 DEF Phases, Activating, ActivateFirstStep, Session!Activate,
             Session!Refuse, InCallback, buffer_vars, executor_vars
  <2> QED BY <2>2 DEF Session!Next
<1> QED BY <1>1, <1>2, <1>3, <1>4 DEF Activate

\* The other steps of the manager: a cycle, the deactivation, or nothing.
LEMMA ManagerSession ==
    ASSUME IInv, ConfigureSubscribe \/ ConfigureFinish \/ Cleanup \/ Deactivate \/ Update
    PROVE  Session!Next \/ UNCHANGED Session!sessionVars
<1> USE PhaseValues, PhaseValuesNext
<1>0. TypeOK /\ Phases
    BY DEF IInv
<1>1. CASE ConfigureSubscribe \/ ConfigureFinish \/ Cleanup
    BY <1>0, <1>1 DEF Phases, ConfigureSubscribe, ConfigureFinish, Cleanup,
           Session!sessionVars, InCallback, buffer_vars, executor_vars
<1>2. CASE Deactivate
  <2>1. Session!Deactivate
      BY <1>2 DEF Deactivate, Session!Deactivate, InCallback, buffer_vars, executor_vars
  <2> QED BY <2>1 DEF Session!Next
<1>3. CASE Update
  <2>1. lifecycle = "active" /\ lifecycle' = "active"
      BY <1>0, <1>3 DEF Phases, Update, UpdateRead, UpdateModel, UpdateStep
  <2>2. /\ UNCHANGED <<active_since, newest, executor_vars, overlap>>
        /\ taken' \in {taken, newest}
        /\ hw' \in {"zero", "driven"}
      BY <1>0, <1>3 DEF TypeOK, Update, UpdateRead, UpdateModel, UpdateStep, buffer_vars
  <2>3. Session!Cycle
      BY <2>1, <2>2 DEF Session!Cycle, InCallback, executor_vars
  <2> QED BY <2>3 DEF Session!Next
<1> QED BY <1>1, <1>2, <1>3

\* The executor enters a callback, leaves it, or moves inside it.
LEMMA ExecutorSession ==
    ASSUME IInv, Executor
    PROVE  Session!Next \/ UNCHANGED Session!sessionVars
<1>0. TypeOK
    BY DEF IInv
<1>1. UNCHANGED <<SessionPhase, active_since, taken, hw>>
    BY DEF Executor, BeginCommand, LockStiffness, BuildCommand, LockCommand, Publish,
           SessionPhase, manager_vars, buffer_vars
<1>2. Seeding => SessionPhase = "seeded"
    BY PhaseValues DEF IInv, Phases, Activating, Seeding
<1>3. CASE exec_pc = "idle"
  <2>1. UNCHANGED newest /\ exec_pc' # "idle" /\ overlap' = (overlap \/ Seeding)
      BY <1>3 DEF Executor, BeginCommand, LockStiffness, BuildCommand, LockCommand, Publish,
             buffer_vars
  <2>2. ~InCallback /\ InCallback' = TRUE
      BY <1>3, <2>1 DEF InCallback
  <2>3. overlap' = overlap \/ (overlap' = TRUE /\ SessionPhase = "seeded")
      BY <1>0, <1>2, <2>1 DEF TypeOK
  <2>4. Session!Enter
      BY <1>1, <2>1, <2>2, <2>3 DEF Session!Enter
  <2> QED BY <2>4 DEF Session!Next
<1>4. CASE BuildCommand \/ LockCommand
    BY <1>1, <1>4 DEF BuildCommand, LockCommand, Session!sessionVars, InCallback, buffer_vars
<1>5. CASE Publish
  <2>1. newest' = last_command /\ InCallback /\ InCallback' = FALSE
      BY <1>5 DEF Publish, InCallback
  <2>2. newest'.stamp \in Nat
      BY <1>0, <2>1 DEF TypeOK, Command, Time
  <2>3. ASSUME SessionPhase \in {"seeded", "active"}, ~overlap
        PROVE  newest'.stamp >= active_since
    <3>1. Seeded
        BY <2>1, <2>3 DEF IInv, SeedUndisturbed, Seeding, Seeded, SessionPhase
    <3> QED BY <2>1, <2>3, <3>1 DEF IInv, FreshCopies
  <2>4. overlap' = overlap \/ (overlap' = FALSE /\ newest'.stamp >= active_since)
      BY <1>0, <1>5, <2>1 DEF TypeOK, Publish, Repaired
  <2>5. Session!Leave
      BY <1>1, <2>1, <2>2, <2>3, <2>4 DEF Session!Leave
  <2> QED BY <2>5 DEF Session!Next
<1> QED
    BY <1>3, <1>4, <1>5 DEF Executor, BeginCommand, LockStiffness

\* The Cartesian wrapper keeps the promise of a session.
THEOREM ImplementsSessionHolds == Spec => ImplementsSession
<1>1. Init => Session!Init
    BY PhaseValues DEF Init, Session!Init, DefaultCommand, InCallback
<1>2. IInv /\ Past /\ [Next]_vars => [Session!Next]_(Session!sessionVars)
  <2> SUFFICES ASSUME IInv, Past, [Next]_vars
               PROVE  Session!Next \/ UNCHANGED Session!sessionVars
      OBVIOUS
  <2>1. CASE Tick
      BY <2>1 DEF Tick, Session!sessionVars, SessionPhase, InCallback,
             manager_vars, buffer_vars, executor_vars
  <2>2. CASE UNCHANGED vars
      BY <2>2 DEF vars, Session!sessionVars, SessionPhase, InCallback,
             manager_vars, buffer_vars, executor_vars
  <2> QED
      BY <2>1, <2>2, ActivateSession, ManagerSession, ExecutorSession DEF Next, Manager
<1> QED
    BY <1>1, <1>2, CopiesInvariant, PastInvariant, PTL DEF Spec, ImplementsSession, Session!Spec

\* So what the promise implies holds of the Cartesian wrapper: undisturbed, its
\* control loop never falls back from a command of the session to an earlier one.
THEOREM NeverFallsBackHolds == Spec => Session!NeverFallsBack
BY ImplementsSessionHolds, Session!NeverFallsBackHolds, PTL DEF ImplementsSession
=============================================================================
