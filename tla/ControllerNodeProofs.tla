------------------------- MODULE ControllerNodeProofs -------------------------
(***************************************************************************)
(* The implementation loader and the assembly of a controller for all      *)
(* libraries and numbers of joints.                                        *)
(***************************************************************************)
EXTENDS ControllerNode, TLAPS

-----------------------------------------------------------------------------
(* The inductive invariant                                                 *)

\* The dynamic linker holds library h once, with n objects, and no other library.
Holds(h, n) ==
    /\ opened = [l \in Library |-> IF l = h THEN 1 ELSE 0]
    /\ live = [l \in Library |-> IF l = h THEN n ELSE 0]

\* What the loader has at each point of instantiateImplementation.
LoaderInv ==
    /\ impl_handle = impl.library /\ destroy_fn = impl.library
    /\ loading \in {"no", "destroy", "done"} => Holds(impl_handle, 1)
    /\ loading \in {"destroy", "close", "done"} => impl \in Implementation
    /\ loading = "close" => Holds(impl_handle, 0)
    /\ loading \in {"open", "failed", "symbols", "create", "adopt"} => impl = NoImplementation
    /\ loading \in {"open", "failed"} => Holds(NoLibrary, 0)
    /\ loading \in {"symbols", "create", "adopt"} => lib.handle \in Library /\ lib.handle = impl_library
    /\ loading \in {"symbols", "create"} => Holds(lib.handle, 0)
    /\ loading = "adopt" =>
           /\ lib.impl \in Implementation /\ lib.impl.library = lib.handle
           /\ lib.impl.joints = num_joints
           /\ Holds(lib.handle, 1)
    /\ loading = "done" => impl.library = impl_library /\ impl.joints = num_joints /\ impl.model

\* The parts on_configure has configured before it reaches a stage.
ConfiguredBefore(s) == CASE s = "model" -> {"friction"}
                         [] s = "repulsion" -> {"friction", "model"}
                         [] s = "load" -> Part
                         [] OTHER -> {}

Configuring == stage \in Part \union {"gains", "load"}

\* The manager's thread is where the lifecycle state allows it, and what it has
\* configured so far it has configured for num_joints_.
StageInv ==
    /\ loading # "no" => stage = "load"
    /\ Configuring => lifecycle = "unconfigured" /\ joint_names = num_joints
    /\ \A p \in ConfiguredBefore(stage) : sized[p] = num_joints
    /\ stage = "step" =>
           /\ lifecycle = "active" /\ "motion" \in taken.finite
           /\ wrapper = "joint" => taken = AllOf(num_joints)

\* What a configuration that succeeded leaves, until the next one begins.
AssembledInv ==
    /\ lifecycle \in {"inactive", "active"} =>
           /\ joint_names = num_joints
           /\ impl.joints = num_joints /\ impl.model /\ impl.tuned
           /\ impl.library = impl_library
           /\ \A p \in Part : sized[p] = num_joints
    /\ lifecycle = "active" => interfaces = num_joints /\ buffers = num_joints

Inv == TypeOK /\ LoaderInv /\ StageInv /\ AssembledInv

-----------------------------------------------------------------------------
(* Steps of the loader                                                     *)

\* Opening and closing a library, creating and destroying an object.
LEMMA LinkerSteps ==
    ASSUME NEW h \in Library
    PROVE  /\ Holds(NoLibrary, 0) /\ Opened(h) /\ UNCHANGED live => Holds(h, 0)'
           /\ Holds(h, 0) /\ Closed(h) /\ UNCHANGED live => Holds(NoLibrary, 0)'
           /\ Holds(h, 0) /\ live' = [live EXCEPT ![h] = @ + 1] /\ UNCHANGED opened => Holds(h, 1)'
           /\ Holds(h, 1) /\ live' = [live EXCEPT ![h] = @ - 1] /\ UNCHANGED opened => Holds(h, 0)'
BY LoaderAssumption DEF Holds, Opened, Closed

\* Without a library there is no object.
LEMMA NothingHeld == Holds(NoLibrary, 1) <=> Holds(NoLibrary, 0)
BY LoaderAssumption DEF Holds

\* The counts of the linker are numbers.
LEMMA HoldsType ==
    ASSUME NEW h, NEW n \in Nat, Holds(h, n)
    PROVE  opened \in [Library -> Nat] /\ live \in [Library -> Nat]
BY DEF Holds

\* No implementation is none.
LEMMA NoImplementationIsNone ==
    /\ NoImplementation \notin Implementation
    /\ NoImplementation.library = NoLibrary
BY LoaderAssumption DEF NoImplementation, Implementation

\* The loader's actions, the joints being those of the node.
LoaderStep ==
    \/ \E library \in MaybeLibrary : BeginInstantiate(library)
    \/ DestroyOld \/ CloseOld \/ Open \/ FindSymbols \/ Create(num_joints) \/ Adopt

\* Every step of the loader keeps what it has.
LEMMA LoaderKeepsInv ==
    ASSUME TypeOK, LoaderInv, LoaderStep, UNCHANGED num_joints
    PROVE  LoaderTypeOK' /\ LoaderInv'
<1> USE LoaderAssumption, NoImplementationIsNone
<1>1. ASSUME NEW library \in MaybeLibrary, BeginInstantiate(library)
      PROVE  LoaderTypeOK' /\ LoaderInv'
  <2>1. CASE impl = NoImplementation
    <3>1. Holds(NoLibrary, 0)'
        BY <1>1, <2>1, NothingHeld DEF LoaderInv, BeginInstantiate, Holds, linker_vars, member_vars
    <3> QED BY <1>1, <2>1, <3>1
            DEF TypeOK, LoaderTypeOK, LoaderInv, BeginInstantiate, linker_vars, member_vars
  <2>2. CASE impl # NoImplementation
    <3>1. impl \in Implementation
        BY <2>2 DEF TypeOK, LoaderTypeOK
    <3>2. Holds(impl_handle, 1)'
        BY <1>1 DEF LoaderInv, BeginInstantiate, Holds, linker_vars, member_vars
    <3> QED BY <1>1, <2>2, <3>1, <3>2
            DEF TypeOK, LoaderTypeOK, LoaderInv, BeginInstantiate, linker_vars, member_vars
  <2> QED BY <2>1, <2>2
<1>2. CASE DestroyOld
  <2>1. impl \in Implementation /\ impl_handle \in Library /\ Holds(impl_handle, 1)
        /\ destroy_fn = impl_handle
      BY <1>2 DEF DestroyOld, LoaderInv, Implementation
  <2>2. Holds(impl_handle, 0)'
    <3>1. ASSUME NEW h \in Library, h = impl_handle, Holds(h, 1) PROVE Holds(h, 0)'
        BY <1>2, <2>1, <3>1, LinkerSteps DEF DestroyOld
    <3> QED BY <1>2, <2>1, <3>1 DEF DestroyOld, member_vars, Holds
  <2>3. (opened \in [Library -> Nat] /\ live \in [Library -> Nat])'
      BY <2>2 DEF Holds
  <2> QED BY <1>2, <2>1, <2>2, <2>3
          DEF TypeOK, LoaderTypeOK, LoaderInv, DestroyOld, member_vars
<1>3. CASE CloseOld
  <2>1. impl_handle \in Library /\ Holds(impl_handle, 0)
      BY <1>3 DEF CloseOld, LoaderInv, Implementation
  <2>2. Holds(NoLibrary, 0)'
      BY <1>3, <2>1, LinkerSteps DEF CloseOld
  <2>3. (opened \in [Library -> Nat] /\ live \in [Library -> Nat])'
      BY <2>2 DEF Holds
  <2> QED BY <1>3, <2>2, <2>3 DEF TypeOK, LoaderTypeOK, LoaderInv, CloseOld, MaybeLibrary
<1>4. CASE Open
  <2>1. impl = NoImplementation /\ Holds(NoLibrary, 0)
      BY <1>4 DEF Open, LoaderInv
  <2>2. CASE impl_library # NoLibrary /\ Opened(impl_library)
             /\ lib' = [NothingLoaded EXCEPT !.handle = impl_library] /\ loading' = "symbols"
    <3>1. impl_library \in Library
        BY <2>2 DEF TypeOK, LoaderTypeOK, MaybeLibrary
    <3>2. Holds(impl_library, 0)'
      <4>1. ASSUME NEW h \in Library, h = impl_library PROVE Holds(h, 0)'
          BY <1>4, <2>1, <2>2, <4>1, LinkerSteps DEF Open
      <4> QED BY <1>4, <3>1, <4>1 DEF Open, Holds
    <3>3. (opened \in [Library -> Nat] /\ live \in [Library -> Nat])'
        BY <3>2 DEF Holds
    <3>4. lib' = [handle |-> impl_library, impl |-> NoImplementation]
        BY <2>2 DEF NothingLoaded
    <3>5. UNCHANGED <<impl_library, member_vars>> /\ Holds(lib.handle, 0)'
        BY <1>4, <3>2, <3>4 DEF Open, Holds
    <3>6. lib'.handle = impl_library /\ lib'.impl = NoImplementation /\ loading' = "symbols"
        BY <2>2, <3>4
    <3>7. LoaderTypeOK'
      <4>1. lib' \in [handle : MaybeLibrary, impl : Implementation \union {NoImplementation}]
          BY <3>1, <3>4 DEF MaybeLibrary
      <4> QED BY <3>3, <3>5, <3>6, <4>1 DEF TypeOK, LoaderTypeOK, member_vars
    <3>8. LoaderInv'
        BY <2>1, <3>1, <3>5, <3>6 DEF LoaderInv, member_vars
    <3> QED BY <3>7, <3>8
  <2>3. CASE loading' = "failed" /\ lib' = NothingLoaded /\ UNCHANGED opened
      BY <1>4, <2>1, <2>3
         DEF TypeOK, LoaderTypeOK, LoaderInv, Open, member_vars, Holds, MaybeLibrary, NothingLoaded
  <2> QED BY <1>4, <2>2, <2>3 DEF Open
<1>5. ASSUME loading \in {"symbols", "create"}, GiveUp, UNCHANGED <<impl_library, member_vars>>
      PROVE  LoaderTypeOK' /\ LoaderInv'
  <2>1. lib.handle \in Library /\ Holds(lib.handle, 0) /\ impl = NoImplementation
      BY <1>5 DEF LoaderInv
  <2>2. Holds(NoLibrary, 0)'
      BY <1>5, <2>1, LinkerSteps DEF GiveUp
  <2>3. (opened \in [Library -> Nat] /\ live \in [Library -> Nat])'
      BY <2>2 DEF Holds
  <2> QED BY <1>5, <2>1, <2>2, <2>3
          DEF TypeOK, LoaderTypeOK, LoaderInv, GiveUp, member_vars, MaybeLibrary, NothingLoaded
<1>6. CASE FindSymbols
  <2>1. CASE loading' = "create" /\ UNCHANGED <<lib, linker_vars>>
      BY <1>6, <2>1 DEF TypeOK, LoaderTypeOK, LoaderInv, FindSymbols, member_vars, linker_vars, Holds
  <2> QED BY <1>5, <1>6, <2>1 DEF FindSymbols
<1>7. CASE Create(num_joints)
  <2>1. lib.handle \in Library /\ Holds(lib.handle, 0) /\ impl = NoImplementation
        /\ lib.handle = impl_library
      BY <1>7 DEF LoaderInv, Create
  <2> DEFINE made == [library |-> lib.handle, joints |-> num_joints, model |-> FALSE, tuned |-> FALSE]
  <2>2. CASE /\ live' = [live EXCEPT ![lib.handle] = @ + 1]
             /\ lib' = [lib EXCEPT !.impl = made]
             /\ loading' = "adopt"
             /\ UNCHANGED opened
    <3>1. lib' = [handle |-> lib.handle, impl |-> made]
        BY <2>2 DEF TypeOK, LoaderTypeOK
    <3>2. made \in Implementation /\ made.library = lib.handle /\ made.joints = num_joints
        BY <2>1 DEF TypeOK, Implementation
    <3>3. Holds(lib.handle, 1)'
      <4>1. ASSUME NEW h \in Library, h = lib.handle PROVE Holds(h, 1)'
          BY <2>1, <2>2, <4>1, LinkerSteps
      <4> QED BY <2>1, <3>1, <4>1 DEF Holds
    <3>4. (opened \in [Library -> Nat] /\ live \in [Library -> Nat])'
        BY <3>3 DEF Holds
    <3> HIDE DEF made
    <3> QED BY <1>7, <2>1, <2>2, <3>1, <3>2, <3>3, <3>4
            DEF TypeOK, LoaderTypeOK, LoaderInv, Create, member_vars, MaybeLibrary
  <2> QED BY <1>5, <1>7, <2>2 DEF Create
<1>8. CASE Adopt
  <2>1. lib.handle \in Library /\ lib.impl \in Implementation /\ lib.impl.library = lib.handle
        /\ lib.impl.joints = num_joints /\ lib.handle = impl_library /\ Holds(lib.handle, 1)
      BY <1>8 DEF LoaderInv, Adopt
  <2>2. impl' \in Implementation /\ impl'.library = lib.handle /\ impl'.joints = num_joints
        /\ impl'.model
      BY <1>8, <2>1 DEF Adopt, Implementation
  <2>3. Holds(impl_handle, 1)'
      BY <1>8, <2>1 DEF Adopt, linker_vars, Holds
  <2> QED BY <1>8, <2>1, <2>2, <2>3
          DEF TypeOK, LoaderTypeOK, LoaderInv, Adopt, linker_vars, MaybeLibrary, NothingLoaded
<1> QED BY <1>1, <1>2, <1>3, <1>4, <1>6, <1>7, <1>8 DEF LoaderStep

-----------------------------------------------------------------------------
(* Steps of the node                                                       *)

\* What the control loop takes is a command.
LEMMA TakeType == TypeOK /\ Take => taken' \in Command
BY DEF TypeOK, Take

\* A command all of whose vectors are of one size is a command.
LEMMA AllOfType == \A n \in JointCount : AllOf(n) \in Command
BY DEF AllOf, Command

\* The loader's variables stay what they are when nothing loads.
LEMMA LoaderIdle ==
    ASSUME TypeOK, LoaderInv, UNCHANGED loader_vars,
           UNCHANGED num_joints \/ loading = "no"
    PROVE  LoaderTypeOK' /\ LoaderInv'
BY DEF TypeOK, LoaderTypeOK, LoaderInv, Holds, loader_vars, member_vars, linker_vars

\* A step of on_configure outside the loader.
LEMMA ConfigureKeepsInv ==
    ASSUME Inv,
           \/ \E n \in JointCount : ConfigureJoints(n)
           \/ CheckGains
           \/ \E part \in Part : ConfigurePart(part)
    PROVE  Inv'
<1> USE DEF Inv
<1>1. ASSUME NEW n \in JointCount, ConfigureJoints(n) PROVE Inv'
  <2>1. loading = "no" /\ lifecycle = "unconfigured"
      BY <1>1 DEF StageInv, ConfigureJoints
  <2>2. LoaderTypeOK' /\ LoaderInv'
      BY <1>1, <2>1, LoaderIdle DEF ConfigureJoints
  <2>3. stage' \in {"idle", "gains", "friction"} /\ lifecycle' \in {"unconfigured", "finalized"}
        /\ (stage' # "idle" => lifecycle' = "unconfigured" /\ num_joints' = n)
        /\ num_joints' \in JointCount
      BY <1>1, <2>1 DEF ConfigureJoints, Following, Refuse, TypeOK
  <2>4. TypeOK'
      BY <1>1, <2>2, <2>3
         DEF TypeOK, ConfigureJoints, Part, active_vars, callback_vars
  <2>5. StageInv' /\ AssembledInv'
      BY <1>1, <2>1, <2>3
         DEF StageInv, AssembledInv, ConfigureJoints, ConfiguredBefore, Configuring, Part, loader_vars
  <2> QED BY <2>2, <2>4, <2>5
<1>2. CASE CheckGains
  <2>1. LoaderTypeOK' /\ LoaderInv'
      BY <1>2, LoaderIdle DEF CheckGains
  <2>2. /\ loading = "no" /\ lifecycle = "unconfigured" /\ joint_names = num_joints
        /\ stage' \in {"idle", "friction"} /\ lifecycle' \in {"unconfigured", "finalized"}
        /\ (stage' # "idle" => lifecycle' = "unconfigured")
      BY <1>2 DEF StageInv, Configuring, CheckGains, GoOn, Refuse, Following
  <2>3. TypeOK'
      BY <1>2, <2>1, <2>2 DEF TypeOK, CheckGains, Part, active_vars, callback_vars
  <2>4. StageInv' /\ AssembledInv'
      BY <1>2, <2>2
         DEF StageInv, AssembledInv, CheckGains, ConfiguredBefore, Configuring, Part, loader_vars
  <2> QED BY <2>1, <2>3, <2>4
<1>3. ASSUME NEW part \in Part, ConfigurePart(part) PROVE Inv'
  <2>1. LoaderTypeOK' /\ LoaderInv'
      BY <1>3, LoaderIdle DEF ConfigurePart
  <2>2. /\ loading = "no" /\ lifecycle = "unconfigured" /\ joint_names = num_joints
        /\ stage' \in {"idle", "model", "repulsion", "load"}
        /\ lifecycle' \in {"unconfigured", "finalized"}
        /\ (stage' # "idle" => lifecycle' = "unconfigured" /\ sized' = [sized EXCEPT ![part] = num_joints])
        /\ sized' \in [Part -> JointCount]
      BY <1>3 DEF StageInv, Configuring, ConfigurePart, GoOn, Refuse, Following, Part, TypeOK
  <2>3. TypeOK'
      BY <1>3, <2>1, <2>2 DEF TypeOK, ConfigurePart, Part, active_vars, callback_vars
  <2>4. \A p \in ConfiguredBefore(stage') : sized'[p] = num_joints
    <3>1. CASE stage' = "idle"
        BY <3>1 DEF ConfiguredBefore
    <3>2. CASE stage' # "idle"
      <4>1. stage' = Following(part) /\ stage = part
          BY <1>3, <3>2 DEF ConfigurePart, GoOn, Refuse
      <4>2. ConfiguredBefore(stage') = ConfiguredBefore(stage) \union {part}
          BY <4>1 DEF ConfiguredBefore, Following, Part
      <4>3. ConfiguredBefore(stage) \subseteq Part
          BY DEF ConfiguredBefore, Part
      <4> QED BY <2>2, <3>2, <4>2, <4>3 DEF StageInv, TypeOK
    <3> QED BY <3>1, <3>2
  <2>5. StageInv' /\ AssembledInv'
      BY <1>3, <2>2, <2>4
         DEF StageInv, AssembledInv, ConfigurePart, Configuring, Part, loader_vars
  <2> QED BY <2>1, <2>3, <2>5
<1> QED BY <1>1, <1>2, <1>3

\* A step of the loader, and how on_configure ends after it.
LEMMA LoadKeepsInv ==
    ASSUME Inv, Load \/ LoadFailed \/ SetParameters
    PROVE  Inv'
<1> USE LoaderAssumption DEF Inv
<1>1. CASE Load
  <2>1. LoaderStep /\ UNCHANGED <<node_vars, active_vars, callback_vars>> /\ stage = "load"
      BY <1>1 DEF Load, LoaderStep
  <2>2. LoaderTypeOK' /\ LoaderInv'
      BY <2>1, LoaderKeepsInv DEF node_vars
  <2>3. TypeOK'
      BY <2>1, <2>2 DEF TypeOK, node_vars, active_vars, callback_vars
  <2>4. StageInv' /\ AssembledInv'
      BY <2>1 DEF StageInv, AssembledInv, Configuring, node_vars, active_vars, callback_vars
  <2> QED BY <2>2, <2>3, <2>4
<1>2. CASE LoadFailed
  <2>1. Holds(impl_handle, 1)'
      BY <1>2, NothingHeld DEF LoadFailed, LoaderInv, NoImplementation, Holds, member_vars, linker_vars
  <2>2. LoaderTypeOK' /\ LoaderInv'
      BY <1>2, <2>1 DEF LoadFailed, TypeOK, LoaderTypeOK, LoaderInv, member_vars, linker_vars
  <2>3. TypeOK'
      BY <1>2, <2>2 DEF TypeOK, LoadFailed, Refuse, active_vars, callback_vars
  <2>4. StageInv' /\ AssembledInv'
      BY <1>2 DEF StageInv, AssembledInv, LoadFailed, Refuse, Configuring, ConfiguredBefore, Part
  <2> QED BY <2>2, <2>3, <2>4
<1>3. CASE SetParameters
  <2>1. /\ impl' \in Implementation /\ impl'.library = impl.library
        /\ impl'.joints = num_joints /\ impl'.model /\ impl'.tuned
        /\ impl.library = impl_library
      BY <1>3 DEF SetParameters, LoaderInv, Implementation
  <2>2. Holds(impl_handle, 1)'
      BY <1>3 DEF SetParameters, LoaderInv, Holds, linker_vars
  <2>3. LoaderTypeOK' /\ LoaderInv'
      BY <1>3, <2>1, <2>2 DEF SetParameters, TypeOK, LoaderTypeOK, LoaderInv, linker_vars
  <2>4. TypeOK'
      BY <1>3, <2>3 DEF TypeOK, SetParameters, active_vars, callback_vars
  <2>5. joint_names = num_joints /\ \A p \in Part : sized[p] = num_joints
      BY <1>3 DEF SetParameters, StageInv, Configuring, ConfiguredBefore
  <2>6. StageInv' /\ AssembledInv'
      BY <1>3, <2>1, <2>5
         DEF StageInv, AssembledInv, SetParameters, Configuring, ConfiguredBefore, Part
  <2> QED BY <2>3, <2>4, <2>6
<1> QED BY <1>1, <1>2, <1>3

\* Every other step leaves the loader, the parts and the joints as they are.
LEMMA RunKeepsInv ==
    ASSUME Inv,
           Activate \/ Deactivate \/ Cleanup \/ UpdateRead \/ UpdateStep \/ Callback
    PROVE  Inv'
<1> USE DEF Inv
<1>1. UNCHANGED loader_vars /\ UNCHANGED <<wrapper, joint_names, num_joints, sized>>
    BY DEF Activate, Claimed, Deactivate, Cleanup, UpdateRead, UpdateStep, Callback, ReceiveCommand,
           ConstructCommand, FillCommand, PublishCommand, node_vars
<1>2. LoaderTypeOK' /\ LoaderInv'
    BY <1>1, LoaderIdle
<1>3. loading' = loading /\ impl' = impl /\ impl_library' = impl_library
    BY <1>1 DEF loader_vars, member_vars
<1>4. AllOf(0) \in Command /\ AllOf(num_joints) \in Command /\ 0 \in JointCount
    BY LoaderAssumption, AllOfType DEF TypeOK
<1>5. CASE Activate
  <2>1. TypeOK'
      BY <1>1, <1>2, <1>4, <1>5 DEF TypeOK, Activate, Claimed
  <2>2. loading = "no" /\ StageInv' /\ AssembledInv'
      BY <1>1, <1>3, <1>5 DEF StageInv, AssembledInv, Activate, Claimed, Configuring, ConfiguredBefore, Part
  <2> QED BY <1>2, <2>1, <2>2
<1>6. CASE Deactivate \/ Cleanup
  <2>1. TypeOK'
      BY <1>1, <1>2, <1>4, <1>6 DEF TypeOK, Deactivate, Cleanup, callback_vars, active_vars
  <2>2. StageInv' /\ AssembledInv'
      BY <1>1, <1>3, <1>6
         DEF StageInv, AssembledInv, Deactivate, Cleanup, Configuring, ConfiguredBefore, Part, active_vars
  <2> QED BY <1>2, <2>1, <2>2
<1>7. CASE UpdateRead
  <2>1. taken' \in Command
      BY <1>7, TakeType DEF UpdateRead
  <2>2. TypeOK'
      BY <1>1, <1>2, <1>7, <2>1 DEF TypeOK, UpdateRead, callback_vars
  <2>3. StageInv' /\ AssembledInv'
      BY <1>1, <1>3, <1>7
         DEF StageInv, AssembledInv, UpdateRead, ValidStepInput, ValidJointInput,
             ValidCartesianInput, AllOf, Content, Configuring, ConfiguredBefore, Part
  <2> QED BY <1>2, <2>2, <2>3
<1>8. CASE UpdateStep
  <2>1. TypeOK'
      BY <1>1, <1>2, <1>8 DEF TypeOK, UpdateStep, callback_vars, active_vars
  <2>2. StageInv' /\ AssembledInv'
      BY <1>1, <1>3, <1>8
         DEF StageInv, AssembledInv, UpdateStep, Configuring, ConfiguredBefore, Part, active_vars
  <2> QED BY <1>2, <2>1, <2>2
<1>9. CASE Callback
  <2>1. UNCHANGED <<node_vars, active_vars>>
      BY <1>9 DEF Callback, ReceiveCommand, ConstructCommand, FillCommand, PublishCommand
  <2>2. newest' \in Command /\ exec_cmd' \in Command /\ exec_pc' \in {"idle", "construct", "fill", "publish"}
      BY <1>4, <1>9 DEF TypeOK, Callback, ReceiveCommand, ConstructCommand, FillCommand,
                        PublishCommand, Command
  <2>3. TypeOK'
      BY <1>2, <2>1, <2>2 DEF TypeOK, node_vars, active_vars
  <2>4. StageInv' /\ AssembledInv'
      BY <1>3, <2>1 DEF StageInv, AssembledInv, Configuring, node_vars, active_vars
  <2> QED BY <1>2, <2>3, <2>4
<1> QED BY <1>5, <1>6, <1>7, <1>8, <1>9

\* A node just constructed satisfies the invariant.
LEMMA InitInv == Init => Inv
<1> SUFFICES ASSUME Init PROVE Inv
    OBVIOUS
<1> USE LoaderAssumption, DefaultAssumption DEF Init, LoaderInit
<1>1. Holds(impl_handle, 1)
    BY DEF Holds
<1>2. LoaderTypeOK /\ LoaderInv
    BY <1>1 DEF LoaderTypeOK, LoaderInv, MaybeLibrary, NothingLoaded, NoImplementation
<1>3. TypeOK
    BY <1>2, AllOfType DEF TypeOK
<1>4. StageInv /\ AssembledInv
    BY DEF StageInv, AssembledInv, Configuring, ConfiguredBefore, Part
<1> QED BY <1>2, <1>3, <1>4 DEF Inv

\* Every step keeps the invariant.
LEMMA StepInv == Inv /\ [Next]_vars => Inv'
<1> SUFFICES ASSUME Inv, [Next]_vars PROVE Inv'
    OBVIOUS
<1>1. CASE Next
    BY <1>1, ConfigureKeepsInv, LoadKeepsInv, RunKeepsInv DEF Next, Configure
<1>2. CASE UNCHANGED vars
  <2>1. LoaderTypeOK' /\ LoaderInv'
      BY <1>2, LoaderIdle DEF Inv, vars, node_vars
  <2> QED BY <1>2, <2>1
          DEF Inv, TypeOK, StageInv, AssembledInv, Configuring, vars, node_vars, active_vars,
              callback_vars, loader_vars, member_vars
<1> QED BY <1>1, <1>2

\* The invariant always holds.
THEOREM Invariant == Spec => []Inv
<1>1. Inv /\ [Next]_vars => Inv'
    BY StepInv
<1> QED BY InitInv, <1>1, PTL DEF Spec

-----------------------------------------------------------------------------
(* What follows from it                                                    *)

\* Every variable of the node and of the loader keeps its kind.
THEOREM TypeCorrect == Spec => []TypeOK
<1>1. Inv => TypeOK
    BY DEF Inv
<1> QED BY Invariant, <1>1, PTL

\* Outside instantiateImplementation, after a failed load too, exactly the library
\* and the object the members know exist.
THEOREM NothingLeaksHolds == Spec => []NothingLeaks
<1>1. Inv => NothingLeaks
    BY DEF Inv, LoaderInv, NothingLeaks, Holds
<1> QED BY Invariant, <1>1, PTL

\* An active controller's parts belong to one configuration.
THEOREM PartsAgreeHolds == Spec => []PartsAgree
<1>1. Inv => PartsAgree
    BY DEF Inv, AssembledInv, PartsAgree
<1> QED BY Invariant, <1>1, PTL

\* The implementation is stepped with vectors of its own size only, and with numbers
\* that are finite as far as each wrapper looks at them.
THEOREM StepsFitHolds == Spec => []StepsFit
<1>1. Inv => StepsFit
    BY DEF Inv, StageInv, AssembledInv, StepsFit
<1> QED BY Invariant, <1>1, PTL

-----------------------------------------------------------------------------
(* The loader implements a slot for one plugin                             *)

\* What the slot sees when one library is held.
LEMMA PhaseOfHeld ==
    ASSUME NEW h, NEW n \in {0, 1}, Holds(h, n)
    PROVE  Phases = [l \in Library |-> IF l # h THEN "closed"
                                       ELSE IF n = 0 THEN "mapped" ELSE "alive"]
<1>1. ASSUME NEW l \in Library
      PROVE  PhaseOf(l) = IF l # h THEN "closed" ELSE IF n = 0 THEN "mapped" ELSE "alive"
    BY DEF Holds, PhaseOf
<1> QED BY <1>1 DEF Phases

\* And what it will see when one is held after a step.
LEMMA PhaseOfHeldNext ==
    ASSUME NEW h, NEW n \in {0, 1}, Holds(h, n)'
    PROVE  Phases' = [l \in Library |-> IF l # h THEN "closed"
                                        ELSE IF n = 0 THEN "mapped" ELSE "alive"]
<1>1. ASSUME NEW l \in Library
      PROVE  PhaseOf(l)' = IF l # h THEN "closed" ELSE IF n = 0 THEN "mapped" ELSE "alive"
    BY DEF Holds, PhaseOf
<1> QED BY <1>1 DEF Phases

\* While the linker's counts stay the slot does not move.
LEMMA PhasesStay == UNCHANGED linker_vars => UNCHANGED Phases
BY DEF linker_vars, Phases, PhaseOf

\* One call into the linker or the library is one move of the slot.
LEMMA LinkerMoves ==
    ASSUME NEW h \in Library
    PROVE  /\ Holds(NoLibrary, 0) /\ Holds(h, 0)' => Plugin!Map(h)
           /\ Holds(h, 0) /\ Holds(NoLibrary, 0)' => Plugin!Unmap(h)
           /\ Holds(h, 0) /\ Holds(h, 1)' => Plugin!Create(h)
           /\ Holds(h, 1) /\ Holds(h, 0)' => Plugin!Destroy(h)
<1> USE LoaderAssumption
<1> DEFINE none     == [l \in Library |-> "closed"]
           at(p)    == [l \in Library |-> IF l # h THEN "closed" ELSE p]
<1>1. Holds(NoLibrary, 0) => Phases = none
    BY PhaseOfHeld
<1>2. Holds(h, 0) => Phases = at("mapped")
    BY PhaseOfHeld
<1>3. Holds(h, 1) => Phases = at("alive")
    BY PhaseOfHeld
<1>4. Holds(NoLibrary, 0)' => Phases' = none
    BY PhaseOfHeldNext
<1>5. Holds(h, 0)' => Phases' = at("mapped")
    BY PhaseOfHeldNext
<1>6. Holds(h, 1)' => Phases' = at("alive")
    BY PhaseOfHeldNext
<1>7. Holds(NoLibrary, 0) /\ Holds(h, 0)' => Plugin!Map(h)
    BY <1>1, <1>5 DEF Plugin!Map
<1>8. Holds(h, 0) /\ Holds(NoLibrary, 0)' => Plugin!Unmap(h)
    BY <1>2, <1>4 DEF Plugin!Unmap
<1>9. Holds(h, 0) /\ Holds(h, 1)' => Plugin!Create(h)
    BY <1>2, <1>6 DEF Plugin!Create
<1>10. Holds(h, 1) /\ Holds(h, 0)' => Plugin!Destroy(h)
    BY <1>3, <1>5 DEF Plugin!Destroy
<1> QED BY <1>7, <1>8, <1>9, <1>10

\* A step of the loader is a move of the slot or leaves it alone.
LEMMA LoaderMoves ==
    ASSUME Inv, LoaderStep
    PROVE  [Plugin!Next]_Phases
<1> USE DEF Inv
<1>1. CASE UNCHANGED linker_vars
    BY <1>1, PhasesStay
<1>2. CASE DestroyOld
  <2>1. /\ impl_handle \in Library /\ destroy_fn = impl_handle /\ Holds(impl_handle, 1)
        /\ live' = [live EXCEPT ![destroy_fn] = @ - 1] /\ UNCHANGED opened
      BY <1>2 DEF DestroyOld, LoaderInv, Implementation
  <2> QED BY <2>1, LinkerSteps, LinkerMoves DEF Plugin!Next
<1>3. CASE CloseOld
  <2>1. impl_handle \in Library /\ Holds(impl_handle, 0) /\ Closed(impl_handle) /\ UNCHANGED live
      BY <1>3 DEF CloseOld, LoaderInv, Implementation
  <2> QED BY <2>1, LinkerSteps, LinkerMoves DEF Plugin!Next
<1>4. CASE Open /\ ~UNCHANGED linker_vars
  <2>1. /\ impl_library \in Library /\ Holds(NoLibrary, 0)
        /\ Opened(impl_library) /\ UNCHANGED live
      BY <1>4 DEF Open, LoaderInv, TypeOK, LoaderTypeOK, MaybeLibrary, linker_vars
  <2> QED BY <2>1, LinkerSteps, LinkerMoves DEF Plugin!Next
<1>5. ASSUME loading \in {"symbols", "create"}, GiveUp
      PROVE  [Plugin!Next]_Phases
  <2>1. /\ lib.handle \in Library /\ Holds(lib.handle, 0)
        /\ Closed(lib.handle) /\ UNCHANGED live
      BY <1>5 DEF GiveUp, LoaderInv
  <2> QED BY <2>1, LinkerSteps, LinkerMoves DEF Plugin!Next
<1>6. CASE FindSymbols /\ ~UNCHANGED linker_vars
    BY <1>5, <1>6 DEF FindSymbols
<1>7. CASE Create(num_joints)
  <2>1. lib.handle \in Library /\ Holds(lib.handle, 0)
      BY <1>7 DEF Create, LoaderInv
  <2>2. CASE live' = [live EXCEPT ![lib.handle] = @ + 1] /\ UNCHANGED opened
      BY <2>1, <2>2, LinkerSteps, LinkerMoves DEF Plugin!Next
  <2> QED BY <1>5, <1>7, <2>2 DEF Create
<1>8. CASE (\E library \in MaybeLibrary : BeginInstantiate(library)) \/ Adopt
    BY <1>1, <1>8 DEF BeginInstantiate, Adopt
<1> QED BY <1>1, <1>2, <1>3, <1>4, <1>6, <1>7, <1>8 DEF LoaderStep

\* Every step of a node is a move of the slot or leaves it alone.
LEMMA NodeMoves == Inv /\ [Next]_vars => [Plugin!Next]_Phases
<1> SUFFICES ASSUME Inv, [Next]_vars PROVE [Plugin!Next]_Phases
    OBVIOUS
<1>1. CASE Load
    BY <1>1, LoaderMoves DEF Load, LoaderStep
<1>2. CASE UNCHANGED linker_vars
    BY <1>2, PhasesStay
<1>3. ~Load => UNCHANGED linker_vars
    BY DEF Next, Configure, ConfigureJoints, CheckGains, ConfigurePart, LoadFailed, SetParameters,
           Activate, Claimed, Deactivate, Cleanup, UpdateRead, UpdateStep, Callback, ReceiveCommand,
           ConstructCommand, FillCommand, PublishCommand, vars, loader_vars
<1> QED BY <1>1, <1>2, <1>3

\* Libraries are loaded and unloaded as a slot for one plugin would: none beside
\* another, none closed before its object is destroyed, no object destroyed twice.
THEOREM OnePluginHolds == Spec => OnePlugin
<1>1. Init => Plugin!Init
  <2>1. Init => Holds(NoLibrary, 0)
      BY LoaderAssumption DEF Init, LoaderInit, Holds
  <2> QED BY <2>1, LoaderAssumption, PhaseOfHeld DEF Plugin!Init
<1>2. Inv /\ [Next]_vars => [Plugin!Next]_Phases
    BY NodeMoves
<1> QED BY <1>1, <1>2, Invariant, PTL DEF Spec, OnePlugin, Plugin!Spec

\* At no moment, in the midst of replacing one implementation by another either,
\* are two controller libraries mapped: the slot's promise, taken over.
THEOREM OneLibraryAtATime == Spec => []Plugin!OneAtATime
BY OnePluginHolds, Plugin!OneAtATimeHolds, PTL DEF OnePlugin

\* No library is closed while an object it made is alive: destroyImplementation
\* comes before unloadControllerLibrary wherever both are due.
THEOREM CodeOutlivesObjectHolds == Spec => Plugin!CodeOutlivesObject
BY OnePluginHolds, Plugin!CodeOutlivesObjectHolds, PTL DEF OnePlugin
=============================================================================
