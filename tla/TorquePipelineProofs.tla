------------------------- MODULE TorquePipelineProofs -------------------------
(***************************************************************************)
(* What the torque stages guarantee for every parameter set, every answer  *)
(* of the implementation and of the robot model, and any number of joints. *)
(***************************************************************************)
EXTENDS TorquePipeline, TLAPS

-----------------------------------------------------------------------------
(* Numbers and stages                                                      *)

\* The sum of two numbers is a number, finite exactly when both are.
LEMMA PlusFinite ==
    ASSUME NEW x \in Number, NEW y \in Number
    PROVE  Plus(x, y) \in Number /\ (Finite(Plus(x, y)) <=> Finite(x) /\ Finite(y))
BY NaNAssumption DEF Plus, Number, Finite

\* Adding vectors keeps every torque that is not finite; adding a finite vector
\* makes no other.
LEMMA SumFinite ==
    ASSUME NEW a \in [Joint -> Number], NEW b \in [Joint -> Number]
    PROVE  /\ Sum(a, b) \in [Joint -> Number]
           /\ \A j \in Joint : ~Finite(a[j]) => ~Finite(Sum(a, b)[j])
           /\ AllFinite(b) => (AllFinite(Sum(a, b)) <=> AllFinite(a))
<1>1. \A j \in Joint : Sum(a, b)[j] = Plus(a[j], b[j]) /\ a[j] \in Number /\ b[j] \in Number
    BY DEF Sum
<1>2. DOMAIN Sum(a, b) = Joint /\ DOMAIN a = Joint /\ DOMAIN b = Joint
    BY DEF Sum
<1>3. \A j \in Joint : /\ Sum(a, b)[j] \in Number
                       /\ Finite(Sum(a, b)[j]) <=> Finite(a[j]) /\ Finite(b[j])
    BY <1>1, PlusFinite
<1>4. Sum(a, b) \in [Joint -> Number]
    BY <1>3 DEF Sum
<1> QED BY <1>2, <1>3, <1>4 DEF AllFinite

\* A vector of integers is finite.
LEMMA IntegersFinite ==
    ASSUME NEW a \in [Joint -> Int]
    PROVE  a \in [Joint -> Number] /\ AllFinite(a)
BY NaNAssumption DEF Number, AllFinite, Finite

\* Zeros are integers.
LEMMA ZerosType == Zeros \in [Joint -> Int]
BY DEF Zeros

\* Sanitizing gives an integer within the limit, zero for what is not finite.
LEMMA SanitizeBounds ==
    ASSUME NEW t \in Number
    PROVE  Sanitize(t) \in -TauAbsMax .. TauAbsMax /\ (~Finite(t) => Sanitize(t) = 0)
BY NaNAssumption, PipelineAssumption DEF Sanitize, Number, Finite

\* Zero is within the limit.
LEMMA ZerosWithinLimit == Zeros \in [Joint -> -TauAbsMax .. TauAbsMax]
BY PipelineAssumption DEF Zeros

-----------------------------------------------------------------------------
(* The inductive invariant                                                 *)

\* Compensation that is enabled was asked for with valid parameters; a repulsion
\* with bad ones belongs to a finalized node.
Parameters ==
    /\ friction_enabled =>
           friction \in FrictionParameters /\ friction.requested /\ ValidFriction(friction)
    /\ repulsion_enabled /\ lifecycle # "finalized" =>
           repulsion \in RepulsionParameters /\ ValidRepulsion(repulsion)

\* Cycles run in active controllers, and what a cycle left is gone when they stop.
Places ==
    /\ pc # "idle" => lifecycle = "active"
    /\ lifecycle \in {"unconfigured", "inactive"} => step_tau = Zeros

\* While a torque is on its way to the friction stage it tells whether the latch
\* will fall; before and after, faulted does.
FrictionLatch ==
    lifecycle \in {"inactive", "active"} /\ friction.requested =>
        IF pc \in {"gravity", "friction"}
        THEN IF friction_enabled
             THEN friction.scale = 0 \/ (faulted <=> ~AllFinite(tau))
             ELSE faulted /\ friction.scale # 0
        ELSE friction_enabled <=> ~faulted \/ friction.scale = 0

\* No stage makes a torque finite that was not.
Carried ==
    pc # "idle" =>
        /\ \A j \in Joint : ~Finite(step_tau[j]) => ~Finite(tau[j])
        /\ pc = "write" /\ repulsion_enabled => AllFinite(tau)

IInv == /\ TypeOK /\ Parameters /\ Places /\ FrictionLatch /\ Carried
        /\ FaultWritesZero

\* Before the first configuration the invariant holds.
THEOREM IInvInit == Init => IInv
<1> SUFFICES ASSUME Init PROVE IInv
    OBVIOUS
<1>1. TypeOK
    BY ZerosType, ZerosWithinLimit, IntegersFinite DEF Init, TypeOK, Lifecycle, Stage
<1>2. FaultWritesZero
    BY ZerosType, IntegersFinite DEF Init, FaultWritesZero
<1> QED BY <1>1, <1>2
        DEF Init, IInv, Parameters, Places, FrictionLatch, Carried

-----------------------------------------------------------------------------
(* What the two models and the repulsion answer                            *)

\* An argument of the logistic curve lies in its domain, and the curve there is an
\* integer that does not fall.
LEMMA LogisticCurve ==
    ASSUME NEW x \in Int, NEW y \in Int
    PROVE  /\ Logistic[Argument(x)] \in Int
           /\ x <= y => Logistic[Argument(x)] <= Logistic[Argument(y)]
<1>1. MaxArgument \in Nat
    BY LogisticAssumption
<1>2. /\ Argument(x) \in -MaxArgument .. MaxArgument
      /\ Argument(y) \in -MaxArgument .. MaxArgument
      /\ x <= y => Argument(x) <= Argument(y)
    BY <1>1 DEF Argument
<1> HIDE DEF Argument
<1> QED BY <1>2, LogisticAssumption

\* Accepted coefficients of the sigmoid are integers.
LEMMA SigmoidCoefficients ==
    ASSUME friction \in FrictionParameters, friction.requested, ValidFriction(friction),
           friction.model = "sigmoid"
    PROVE  friction.values.phi1 \in Int /\ friction.values.phi2 \in Int /\ friction.values.phi3 \in Int
<1>1. friction.values \in [phi1 : Number, phi2 : Number, phi3 : Number]
    BY ParameterAssumption
<1>2. AllFinite(friction.values)
    BY DEF ValidFriction
<1>3. Finite(friction.values.phi1) /\ Finite(friction.values.phi2) /\ Finite(friction.values.phi3)
    BY <1>1, <1>2 DEF AllFinite
<1> QED BY <1>1, <1>3 DEF Number, Finite

\* Accepted coefficients of the hysteresis model are integers, its band not negative.
LEMMA HysteresisCoefficients ==
    ASSUME friction \in FrictionParameters, friction.requested, ValidFriction(friction),
           friction.model = "hysteresis"
    PROVE  /\ friction.values.hyst \in Int /\ friction.values.hyst >= 0
           /\ friction.values.fvp \in Int /\ friction.values.fcp \in Int
           /\ friction.values.fvn \in Int /\ friction.values.fcn \in Int
<1> DEFINE c == friction.values
<1>1. c \in [hyst : Number, fvp : Number, fcp : Number, fvn : Number, fcn : Number]
    BY ParameterAssumption
<1>2. AllFinite(c)
    BY DEF ValidFriction
<1>3. Finite(c.hyst) /\ Finite(c.fvp) /\ Finite(c.fcp) /\ Finite(c.fvn) /\ Finite(c.fcn)
    BY <1>1, <1>2 DEF AllFinite
<1>4. c.hyst >= 0
    BY DEF ValidFriction
<1> QED BY <1>1, <1>3, <1>4 DEF Number, Finite

\* Valid parameters give integer friction torques.
LEMMA FrictionInt ==
    ASSUME Parameters, friction_enabled, NEW v \in Int
    PROVE  friction.scale \in Int /\ FrictionTorque(v) \in Int
<1>1. friction \in FrictionParameters /\ friction.requested /\ ValidFriction(friction)
    BY DEF Parameters
<1>2. friction.scale \in Int
    BY <1>1, ParameterAssumption, NaNAssumption DEF ValidFriction, Number, Finite
<1> DEFINE c == friction.values
<1>3. CASE friction.model = "hysteresis"
  <2>1. c.hyst \in Int /\ c.fvp \in Int /\ c.fcp \in Int /\ c.fvn \in Int /\ c.fcn \in Int
      BY <1>1, <1>3, HysteresisCoefficients
  <2>2. Hysteresis(c, v) \in Int
    <3> HIDE DEF c
    <3> QED BY <2>1 DEF Hysteresis
  <2> QED BY <1>2, <1>3, <2>2 DEF FrictionTorque
<1>4. CASE friction.model # "hysteresis"
  <2>1. friction.model = "sigmoid"
      BY <1>1, <1>4 DEF ValidFriction, FrictionModel
  <2>2. c.phi1 \in Int /\ c.phi2 \in Int /\ c.phi3 \in Int
      BY <1>1, <2>1, SigmoidCoefficients
  <2>3. Sigmoid(c, v) \in Int
    <3> HIDE DEF c
    <3>1. c.phi2 * (v + c.phi3) \in Int /\ c.phi2 * c.phi3 \in Int
        BY <2>2
    <3>2. /\ Logistic[Argument(c.phi2 * (v + c.phi3))] \in Int
          /\ Logistic[Argument(c.phi2 * c.phi3)] \in Int
        BY <3>1, LogisticCurve
    <3> QED BY <2>2, <3>2 DEF Sigmoid
  <2> QED BY <1>2, <1>4, <2>3 DEF FrictionTorque
<1> QED BY <1>3, <1>4

\* Valid parameters give integer repulsion torques.
LEMMA RepulsionInt ==
    ASSUME Parameters, lifecycle # "finalized", NEW q \in Int, NEW v \in Int
    PROVE  Repulsion(q, v) \in Int
<1>1. CASE ~repulsion_enabled \/ ~repulsion.limited
    BY <1>1 DEF Repulsion
<1>2. CASE repulsion_enabled /\ repulsion.limited
  <2>1. repulsion \in RepulsionParameters /\ ValidRepulsion(repulsion)
      BY <1>2 DEF Parameters
  <2>2. /\ repulsion.stiffness \in Number /\ repulsion.damping \in Number
        /\ repulsion.margin \in Number /\ repulsion.lower \in Number /\ repulsion.upper \in Number
      BY <2>1, ParameterAssumption
  <2>3. /\ repulsion.stiffness \in Int /\ repulsion.damping \in Int
        /\ repulsion.margin \in Int /\ repulsion.lower \in Int /\ repulsion.upper \in Int
      BY <1>2, <2>1, <2>2 DEF ValidRepulsion, ValidGains, ValidLimits, Number, Finite
  <2> QED BY <2>3 DEF Repulsion, LowerActivation, UpperActivation
<1> QED BY <1>1, <1>2

-----------------------------------------------------------------------------
(* Every step keeps the invariant                                          *)

\* Every stage keeps the torques numbers.
LEMMA StepKeepsType ==
    ASSUME IInv, [Next]_vars
    PROVE  TypeOK'
<1> USE DEF IInv
<1>1. ASSUME NEW fp \in FrictionParameters, NEW rp \in RepulsionParameters, Configure(fp, rp)
      PROVE  TypeOK'
  <2>1. rp.enabled \in BOOLEAN
      BY ParameterAssumption
  <2> QED BY <1>1, <2>1
          DEF Configure, ConfigureFriction, ConfigureRepulsion, repulsion_vars, TypeOK, Lifecycle
<1>2. CASE Activate
    BY <1>2, PipelineAssumption, ZerosType, ZerosWithinLimit, IntegersFinite
    DEF Activate, stage_vars, friction_vars, repulsion_vars, TypeOK, Lifecycle
<1>3. CASE Deactivate
    BY <1>3, ZerosType, ZerosWithinLimit, IntegersFinite
    DEF Deactivate, friction_vars, repulsion_vars, TypeOK, Lifecycle
<1>4. CASE FailedCycle
    BY <1>4, ZerosType, ZerosWithinLimit, IntegersFinite
    DEF FailedCycle, stage_vars, friction_vars, repulsion_vars, TypeOK, Stage
<1>5. CASE Step
  <2>1. position' \in [Joint -> Int] /\ velocity' \in [Joint -> Int] /\ step_tau' \in [Joint -> Number]
      BY <1>5, PipelineAssumption DEF Step
  <2>2. pc' \in Stage
      BY <1>5 DEF Step, Stage
  <2> QED BY <1>5, <2>1, <2>2 DEF Step, friction_vars, repulsion_vars, TypeOK
<1>6. CASE SkipGravity
    BY <1>6 DEF SkipGravity, GoTo, stage_vars, friction_vars, repulsion_vars, TypeOK, Stage
<1>7. CASE AddGravity
  <2>1. PICK gravity \in [Joint -> GravityTorque] :
            GoTo("friction", IF AllFinite(gravity) THEN Sum(tau, gravity) ELSE tau)
      BY <1>7 DEF AddGravity
  <2>2. gravity \in [Joint -> Number]
      BY PipelineAssumption
  <2>3. tau' \in [Joint -> Number]
      BY <2>1, <2>2, SumFinite DEF GoTo, TypeOK
  <2> QED BY <1>7, <2>1, <2>3
          DEF AddGravity, GoTo, stage_vars, friction_vars, repulsion_vars, TypeOK, Stage
<1>8. CASE SkipFriction
    BY <1>8 DEF SkipFriction, AfterFriction, GoTo, stage_vars, friction_vars, repulsion_vars, TypeOK, Stage
<1>9. CASE AddFriction
  <2>1. GoTo(AfterFriction, [j \in Joint |-> tau[j] + friction.scale * FrictionTorque(velocity[j])])
      BY <1>9 DEF AddFriction
  <2>2. AllFinite(tau) /\ friction_enabled
      BY <1>9 DEF AddFriction, FrictionIdle
  <2>3. \A j \in Joint : tau[j] \in Int
      BY <2>2 DEF AllFinite, Finite, Number, TypeOK
  <2>4. \A j \in Joint : FrictionTorque(velocity[j]) \in Int /\ friction.scale \in Int
      BY <2>2, FrictionInt DEF TypeOK
  <2>5. \A j \in Joint : tau[j] + friction.scale * FrictionTorque(velocity[j]) \in Int
      BY <2>3, <2>4
  <2>6. tau' \in [Joint -> Number]
      BY <2>1, <2>5 DEF GoTo, Number
  <2> QED BY <1>9, <2>1, <2>6
          DEF AddFriction, AfterFriction, GoTo, stage_vars, friction_vars, repulsion_vars, TypeOK, Stage
<1>10. CASE FrictionFault
    BY <1>10, ZerosType, ZerosWithinLimit, IntegersFinite
    DEF FrictionFault, FrictionFails, AfterFriction, GoTo, WriteZeros, stage_vars, repulsion_vars, TypeOK, Stage
<1>11. CASE AddDither
  <2>1. CASE GoTo("repulsion", tau)
      BY <1>11, <2>1 DEF AddDither, GoTo, stage_vars, friction_vars, repulsion_vars, TypeOK, Stage
  <2>2. ASSUME NEW dither \in [Joint -> DitherTorque], GoTo("repulsion", Sum(tau, dither))
        PROVE  TypeOK'
    <3>1. dither \in [Joint -> Int]
        BY PipelineAssumption
    <3>2. tau' \in [Joint -> Number]
        BY <2>2, <3>1, IntegersFinite, SumFinite DEF GoTo, TypeOK
    <3> QED BY <1>11, <2>2, <3>2
            DEF AddDither, GoTo, stage_vars, friction_vars, repulsion_vars, TypeOK, Stage
  <2> QED BY <1>11, <2>1, <2>2 DEF AddDither
<1>12. CASE AddRepulsion
  <2>1. [j \in Joint |-> Repulsion(position[j], velocity[j])] \in [Joint -> Int]
      BY <1>12, RepulsionInt DEF AddRepulsion, AtStage, TypeOK
  <2>2. Repelled \in [Joint -> Number]
      BY <2>1, IntegersFinite, SumFinite DEF Repelled, TypeOK
  <2> QED BY <1>12, <2>2, ZerosType, ZerosWithinLimit, IntegersFinite
          DEF AddRepulsion, WriteZeros, GoTo, stage_vars, friction_vars, repulsion_vars, TypeOK, Stage
<1>13. CASE Write
  <2>1. tau' \in [Joint -> -TauAbsMax .. TauAbsMax]
      BY <1>13, SanitizeBounds DEF Write, TypeOK
  <2>2. tau' \in [Joint -> Int]
      BY <2>1, PipelineAssumption
  <2> QED BY <1>13, <2>1, <2>2, IntegersFinite
          DEF Write, stage_vars, friction_vars, repulsion_vars, TypeOK, Stage
<1>14. CASE UNCHANGED vars
    BY <1>14 DEF vars, stage_vars, friction_vars, repulsion_vars, TypeOK
<1> QED BY <1>1, <1>2, <1>3, <1>4, <1>5, <1>6, <1>7, <1>8, <1>9, <1>10, <1>11, <1>12, <1>13, <1>14
        DEF Next

\* Only on_configure changes parameters, and what it leaves enabled is valid or
\* belongs to a node it finalizes.
LEMMA StepKeepsParameters ==
    ASSUME IInv, [Next]_vars
    PROVE  Parameters'
<1> USE DEF IInv
<1>1. ASSUME NEW fp \in FrictionParameters, NEW rp \in RepulsionParameters, Configure(fp, rp)
      PROVE  Parameters'
  <2>1. (friction_enabled =>
             friction \in FrictionParameters /\ friction.requested /\ ValidFriction(friction))'
      BY <1>1 DEF Configure, ConfigureFriction
  <2>2. CASE ConfigureRepulsion(rp) /\ lifecycle' # "finalized"
    <3>1. RepulsionAccepted(rp)
        BY <1>1, <2>2 DEF Configure
    <3> QED BY <2>1, <2>2, <3>1 DEF ConfigureRepulsion, RepulsionAccepted, Parameters
  <2>3. CASE lifecycle' = "finalized"
      BY <2>1, <2>3 DEF Parameters
  <2> QED BY <1>1, <2>2, <2>3 DEF Configure
<1>2. CASE FrictionFault
    BY <1>2 DEF FrictionFault, FrictionFails, repulsion_vars, Parameters
<1>3. CASE UNCHANGED <<friction_vars, repulsion_vars>> /\ (lifecycle = "finalized" => lifecycle' = "finalized")
    BY <1>3 DEF friction_vars, repulsion_vars, Parameters
<1>4. CASE Activate \/ Deactivate \/ FailedCycle \/ Step \/ SkipGravity \/ AddGravity \/ UNCHANGED vars
    BY <1>3, <1>4
    DEF Activate, Deactivate, FailedCycle, Step, SkipGravity, AddGravity, vars
<1>5. CASE SkipFriction \/ AddFriction \/ AddDither \/ AddRepulsion \/ Write
    BY <1>3, <1>5 DEF SkipFriction, AddFriction, AddDither, AddRepulsion, Write
<1> QED BY <1>1, <1>2, <1>4, <1>5 DEF Next

\* A cycle runs in an active controller and ends at "idle".
LEMMA StepKeepsPlaces ==
    ASSUME IInv, [Next]_vars
    PROVE  Places'
<1> USE DEF IInv, Places
<1>1. ASSUME NEW fp \in FrictionParameters, NEW rp \in RepulsionParameters, Configure(fp, rp)
      PROVE  Places'
    BY <1>1 DEF Configure
<1>2. CASE Activate \/ Deactivate \/ FailedCycle \/ Step \/ UNCHANGED vars
    BY <1>2 DEF Activate, Deactivate, FailedCycle, Step, AtStage, stage_vars, vars
<1>3. CASE SkipGravity \/ AddGravity
    BY <1>3 DEF SkipGravity, AddGravity, AtStage, GoTo, stage_vars
<1>4. CASE SkipFriction \/ AddFriction \/ FrictionFault
    BY <1>4 DEF SkipFriction, AddFriction, FrictionFault, AtStage, GoTo, WriteZeros, stage_vars
<1>5. CASE AddDither \/ AddRepulsion \/ Write
    BY <1>5 DEF AddDither, AddRepulsion, Write, AtStage, GoTo, WriteZeros, stage_vars
<1> QED BY <1>1, <1>2, <1>3, <1>4, <1>5 DEF Next

\* The latch falls exactly in the cycle of the first fault.
LEMMA StepKeepsLatch ==
    ASSUME IInv, [Next]_vars
    PROVE  FrictionLatch'
<1> USE DEF IInv, FrictionLatch
<1>1. ASSUME NEW fp \in FrictionParameters, NEW rp \in RepulsionParameters, Configure(fp, rp)
      PROVE  FrictionLatch'
  <2>1. pc = "idle" /\ pc' = "idle" /\ ~faulted'
      BY <1>1 DEF Configure, Places
  <2>2. lifecycle' = "inactive" => FrictionAccepted(fp)
      BY <1>1 DEF Configure
  <2>3. lifecycle' # "active"
      BY <1>1 DEF Configure
  <2> QED BY <1>1, <2>1, <2>2, <2>3 DEF Configure, ConfigureFriction, FrictionAccepted
<1>2. CASE Activate
    BY <1>2 DEF Activate, stage_vars, friction_vars, Places
<1>3. CASE Deactivate \/ FailedCycle
    BY <1>3 DEF Deactivate, FailedCycle, AtStage, stage_vars, friction_vars
<1>4. CASE Step
  <2>1. AllFinite(tau') <=> AllFinite(step_tau')
      BY <1>4 DEF Step
  <2> QED BY <1>4, <2>1 DEF Step, AtStage, friction_vars, TypeOK
<1>5. CASE SkipGravity
    BY <1>5 DEF SkipGravity, AtStage, GoTo, stage_vars, friction_vars
<1>6. CASE AddGravity
  <2>1. PICK gravity \in [Joint -> GravityTorque] :
            GoTo("friction", IF AllFinite(gravity) THEN Sum(tau, gravity) ELSE tau)
      BY <1>6 DEF AddGravity
  <2>2. gravity \in [Joint -> Number]
      BY PipelineAssumption
  <2>3. AllFinite(tau') <=> AllFinite(tau)
      BY <2>1, <2>2, SumFinite DEF GoTo, TypeOK
  <2> QED BY <1>6, <2>1, <2>3 DEF AddGravity, AtStage, GoTo, stage_vars, friction_vars
<1>7. CASE SkipFriction
    BY <1>7 DEF SkipFriction, FrictionIdle, AfterFriction, AtStage, GoTo, stage_vars, friction_vars, TypeOK
<1>8. CASE AddFriction
    BY <1>8 DEF AddFriction, FrictionIdle, AfterFriction, AtStage, GoTo, stage_vars, friction_vars, TypeOK
<1>9. CASE FrictionFault
    BY <1>9 DEF FrictionFault, FrictionFails, FrictionIdle, AfterFriction, AtStage, GoTo, WriteZeros,
                stage_vars, TypeOK
<1>10. CASE AddDither \/ AddRepulsion \/ Write
    BY <1>10 DEF AddDither, AddRepulsion, Write, AtStage, GoTo, WriteZeros, stage_vars, friction_vars
<1>11. CASE UNCHANGED vars
    BY <1>11 DEF vars, stage_vars, friction_vars
<1> QED BY <1>1, <1>2, <1>3, <1>4, <1>5, <1>6, <1>7, <1>8, <1>9, <1>10, <1>11 DEF Next

\* A torque that is not finite stays so until it is sanitized.
LEMMA StepKeepsCarried ==
    ASSUME IInv, [Next]_vars
    PROVE  Carried'
<1> USE DEF IInv, Carried
<1>1. ASSUME NEW fp \in FrictionParameters, NEW rp \in RepulsionParameters, Configure(fp, rp)
      PROVE  Carried'
    BY <1>1 DEF Configure, Places
<1>2. CASE Activate \/ Deactivate \/ FailedCycle
    BY <1>2 DEF Activate, Deactivate, FailedCycle, Places
<1>3. CASE Step
    BY <1>3 DEF Step
<1>4. CASE SkipGravity \/ SkipFriction
    BY <1>4 DEF SkipGravity, SkipFriction, AtStage, AfterFriction, GoTo, stage_vars
<1>5. CASE AddGravity
  <2>1. PICK gravity \in [Joint -> GravityTorque] :
            GoTo("friction", IF AllFinite(gravity) THEN Sum(tau, gravity) ELSE tau)
      BY <1>5 DEF AddGravity
  <2>2. gravity \in [Joint -> Number]
      BY PipelineAssumption
  <2>3. \A j \in Joint : ~Finite(tau[j]) => ~Finite(tau'[j])
      BY <2>1, <2>2, SumFinite DEF GoTo, TypeOK
  <2> QED BY <1>5, <2>1, <2>3 DEF AddGravity, AtStage, GoTo, stage_vars
<1>6. CASE AddFriction
  <2>1. \A j \in Joint : Finite(step_tau[j])
      BY <1>6 DEF AddFriction, AtStage, AllFinite, TypeOK
  <2> QED BY <1>6, <2>1 DEF AddFriction, AfterFriction, GoTo, stage_vars
<1>7. CASE FrictionFault
    BY <1>7 DEF FrictionFault, AtStage, AfterFriction, GoTo, WriteZeros, stage_vars
<1>8. CASE AddDither
  <2>1. CASE GoTo("repulsion", tau)
      BY <1>8, <2>1 DEF AddDither, AtStage, GoTo, stage_vars
  <2>2. ASSUME NEW dither \in [Joint -> DitherTorque], GoTo("repulsion", Sum(tau, dither))
        PROVE  Carried'
    <3>1. dither \in [Joint -> Number]
        BY PipelineAssumption, IntegersFinite
    <3>2. \A j \in Joint : ~Finite(tau[j]) => ~Finite(tau'[j])
        BY <2>2, <3>1, SumFinite DEF GoTo, TypeOK
    <3> QED BY <1>8, <2>2, <3>2 DEF AddDither, AtStage, GoTo, stage_vars
  <2> QED BY <1>8, <2>1, <2>2 DEF AddDither
<1>9. CASE AddRepulsion
  <2>1. [j \in Joint |-> Repulsion(position[j], velocity[j])] \in [Joint -> Number]
      BY <1>9, RepulsionInt, IntegersFinite DEF AddRepulsion, AtStage, TypeOK
  <2>2. \A j \in Joint : ~Finite(tau[j]) => ~Finite(Repelled[j])
      BY <2>1, SumFinite DEF Repelled, TypeOK
  <2> QED BY <1>9, <2>2 DEF AddRepulsion, AtStage, GoTo, WriteZeros, stage_vars, repulsion_vars
<1>10. CASE Write
    BY <1>10 DEF Write
<1>11. CASE UNCHANGED vars
    BY <1>11 DEF vars, stage_vars, repulsion_vars
<1> QED BY <1>1, <1>2, <1>3, <1>4, <1>5, <1>6, <1>7, <1>8, <1>9, <1>10, <1>11 DEF Next

\* Zeros are written to every joint whose torque was not finite, by Write through
\* Sanitize and by every other end of a cycle.
LEMMA StepKeepsFaultWritesZero ==
    ASSUME IInv, [Next]_vars
    PROVE  FaultWritesZero'
<1> USE DEF IInv, FaultWritesZero
<1>1. \A j \in Joint : Zeros[j] = 0
    BY DEF Zeros
<1>2. AllFinite(Zeros)
    BY ZerosType, IntegersFinite
<1>3. ASSUME NEW fp \in FrictionParameters, NEW rp \in RepulsionParameters, Configure(fp, rp)
      PROVE  FaultWritesZero'
    BY <1>2, <1>3 DEF Configure, Places
<1>4. CASE Activate
    BY <1>2, <1>4 DEF Activate, Places, stage_vars
<1>5. CASE Deactivate
    BY <1>2, <1>5 DEF Deactivate
<1>6. CASE FailedCycle
    BY <1>1, <1>6 DEF FailedCycle, stage_vars
<1>7. CASE Step \/ SkipGravity \/ AddGravity
    BY <1>7 DEF Step, SkipGravity, AddGravity, GoTo
<1>8. CASE SkipFriction \/ AddFriction \/ AddDither
    BY <1>8 DEF SkipFriction, AddFriction, AfterFriction, AddDither, GoTo
<1>9. CASE FrictionFault \/ AddRepulsion
    BY <1>1, <1>9 DEF FrictionFault, AddRepulsion, AfterFriction, GoTo, WriteZeros, stage_vars
<1>10. CASE Write
  <2>1. \A j \in Joint : ~Finite(step_tau[j]) => hw'[j] = 0
      BY <1>10, SanitizeBounds DEF Write, AtStage, Carried, TypeOK
  <2>2. repulsion_enabled => AllFinite(step_tau)
    <3>1. repulsion_enabled => \A j \in Joint : Finite(tau[j])
        BY <1>10 DEF Write, AtStage, Carried, AllFinite, TypeOK
    <3> QED BY <1>10, <3>1 DEF Write, AtStage, Carried, AllFinite, TypeOK
  <2> QED BY <1>10, <2>1, <2>2 DEF Write, stage_vars, repulsion_vars
<1>11. CASE UNCHANGED vars
    BY <1>11 DEF vars, stage_vars, repulsion_vars
<1> QED BY <1>3, <1>4, <1>5, <1>6, <1>7, <1>8, <1>9, <1>10, <1>11 DEF Next

-----------------------------------------------------------------------------
(* Theorems                                                                *)

\* The invariant is inductive.
THEOREM Invariance == Spec => []IInv
<1>1. IInv /\ [Next]_vars => IInv'
    BY StepKeepsType, StepKeepsParameters, StepKeepsPlaces, StepKeepsLatch, StepKeepsCarried,
       StepKeepsFaultWritesZero DEF IInv
<1> QED BY IInvInit, <1>1, PTL DEF Spec

\* The torques on the interfaces are finite and within the saturation limit,
\* whatever the implementation and the robot model answer.
THEOREM TypeCorrect == Spec => []TypeOK
<1>1. IInv => TypeOK
    BY DEF IInv
<1> QED BY Invariance, <1>1, PTL

\* An active controller runs only compensation that its configuration accepted.
THEOREM ConfiguredIsValidHolds == Spec => []ConfiguredIsValid
<1>1. IInv => ConfiguredIsValid
    BY DEF IInv, Parameters, ConfiguredIsValid
<1> QED BY Invariance, <1>1, PTL

\* Only a fault of the implementation costs friction compensation, and always does.
THEOREM FrictionLostToFaultsOnlyHolds == Spec => []FrictionLostToFaultsOnly
<1>1. IInv => FrictionLostToFaultsOnly
    BY DEF IInv, FrictionLatch, FrictionLostToFaultsOnly
<1> QED BY Invariance, <1>1, PTL

\* A torque that is not finite becomes zero on the interface.
THEOREM FaultWritesZeroHolds == Spec => []FaultWritesZero
<1>1. IInv => FaultWritesZero
    BY DEF IInv
<1> QED BY Invariance, <1>1, PTL

\* Numbers of opposite sign have no positive product.
LEMMA OppositeSigns ==
    ASSUME NEW x \in Int, NEW y \in Int, (x >= 0 /\ y <= 0) \/ (x <= 0 /\ y >= 0)
    PROVE  x * y <= 0
OBVIOUS

\* Numbers that are not negative have no negative product.
LEMMA SameSigns ==
    ASSUME NEW x \in Int, NEW y \in Int, x >= 0, y >= 0
    PROVE  x * y >= 0
OBVIOUS

\* At the limits of a joint the active controller adds torque toward the middle of
\* the range only: valid margins do not meet, so a joint in one of them is on that
\* side of the middle.
THEOREM RepulsionPushesInwardHolds == Spec => []RepulsionPushesInward
<1>1. IInv => RepulsionPushesInward
  <2> SUFFICES ASSUME IInv, lifecycle = "active", repulsion_enabled, repulsion.limited,
                      NEW q \in repulsion.lower .. repulsion.upper
               PROVE  Repulsion(q, 0) * (2 * q - repulsion.lower - repulsion.upper) <= 0
      BY DEF RepulsionPushesInward, PushesInward
  <2> DEFINE r == repulsion
             below == r.lower + r.margin - q
             above == q - (r.upper - r.margin)
             side  == 2 * q - r.lower - r.upper
  <2>1. repulsion \in RepulsionParameters /\ ValidRepulsion(repulsion)
      BY DEF IInv, Parameters
  <2>2. /\ r.stiffness \in Number /\ r.damping \in Number
        /\ r.margin \in Number /\ r.lower \in Number /\ r.upper \in Number
      BY <2>1, ParameterAssumption
  <2>3. /\ r.stiffness \in Int /\ r.damping \in Int /\ r.margin \in Int
        /\ r.lower \in Int /\ r.upper \in Int /\ r.stiffness >= 0
        /\ 2 * r.margin < r.upper - r.lower
      BY <2>1, <2>2 DEF ValidRepulsion, ValidGains, ValidLimits, Number, Finite
  <2>4. q \in Int /\ below \in Int /\ above \in Int /\ side \in Int
      BY <2>3
  <2>5. CASE below > 0
    <3>1. side <= 0
        BY <2>3, <2>4, <2>5
    <3>2. Repulsion(q, 0) = r.stiffness * below
        BY <2>3, <2>4, <2>5 DEF Repulsion, LowerActivation, UpperActivation
    <3> HIDE DEF below, side
    <3>3. r.stiffness * below >= 0 /\ r.stiffness * below \in Int
        BY <2>3, <2>4, <2>5, SameSigns
    <3> QED BY <2>4, <3>1, <3>2, <3>3, OppositeSigns DEF side
  <2>6. CASE below <= 0 /\ above > 0
    <3>1. side >= 0
        BY <2>3, <2>4, <2>6
    <3>2. Repulsion(q, 0) = -r.stiffness * above
        BY <2>3, <2>4, <2>6 DEF Repulsion, LowerActivation, UpperActivation
    <3> HIDE DEF above, side
    <3>3. -r.stiffness * above <= 0 /\ -r.stiffness * above \in Int
        BY <2>3, <2>4, <2>6, OppositeSigns
    <3> QED BY <2>4, <3>1, <3>2, <3>3, OppositeSigns DEF side
  <2>7. CASE below <= 0 /\ above <= 0
    <3>1. Repulsion(q, 0) = 0
        BY <2>3, <2>4, <2>7 DEF Repulsion, LowerActivation, UpperActivation
    <3> QED BY <2>4, <3>1
  <2> QED BY <2>4, <2>5, <2>6, <2>7
<1> QED BY Invariance, <1>1, PTL

\* The hysteresis model's torque has the sign of the velocity.
LEMMA HysteresisHelps ==
    ASSUME NEW c, NEW v \in Int, c.hyst \in Int, c.hyst >= 0,
           c.fvp \in Int, c.fcp \in Int, c.fvn \in Int, c.fcn \in Int
    PROVE  /\ OfFriction(c) => Along(v, Hysteresis(c, v))
           /\ v = 0 /\ Hysteresis(c, v) # 0 => c.hyst = 0
<1>1. CASE v >= c.hyst
  <2>1. OfFriction(c) => c.fvp * v >= 0
      BY <1>1, SameSigns DEF OfFriction
  <2>2. Hysteresis(c, v) = c.fvp * v + c.fcp /\ c.fvp * v \in Int
      BY <1>1 DEF Hysteresis
  <2> QED BY <1>1, <2>1, <2>2 DEF OfFriction, Along
<1>2. CASE ~(v >= c.hyst) /\ v <= -c.hyst
  <2>1. OfFriction(c) => c.fvn * v <= 0
      BY <1>2, OppositeSigns DEF OfFriction
  <2>2. Hysteresis(c, v) = c.fvn * v - c.fcn /\ c.fvn * v \in Int
      BY <1>2 DEF Hysteresis
  <2> QED BY <1>2, <2>1, <2>2 DEF OfFriction, Along
<1>3. CASE ~(v >= c.hyst) /\ ~(v <= -c.hyst)
    BY <1>3 DEF Hysteresis, Along
<1> QED BY <1>1, <1>2, <1>3

\* The product with a number that is not negative keeps a sign, with one that is not
\* positive it turns it.
LEMMA AlongProduct ==
    ASSUME NEW v \in Int, NEW s \in Int, NEW t \in Int, Along(v, t)
    PROVE  /\ s >= 0 => Along(v, s * t)
           /\ s <= 0 => Along(v, -(s * t))
<1>1. s * t \in Int
    OBVIOUS
<1>2. s >= 0 /\ t >= 0 => s * t >= 0
    BY SameSigns
<1>3. (s >= 0 /\ t <= 0) \/ (s <= 0 /\ t >= 0) => s * t <= 0
    BY OppositeSigns
<1>4. s <= 0 /\ t <= 0 => s * t >= 0
  <2>1. ASSUME s <= 0, t <= 0 PROVE (-s) * (-t) >= 0
      BY <2>1, SameSigns
  <2>2. (-s) * (-t) = s * t
      OBVIOUS
  <2> QED BY <2>1, <2>2
<1> DEFINE p == s * t
<1> HIDE DEF p
<1>5. /\ p \in Int
      /\ s >= 0 /\ t >= 0 => p >= 0
      /\ (s >= 0 /\ t <= 0) \/ (s <= 0 /\ t >= 0) => p <= 0
      /\ s <= 0 /\ t <= 0 => p >= 0
    BY <1>1, <1>2, <1>3, <1>4 DEF p
<1>6. (s >= 0 => Along(v, p)) /\ (s <= 0 => Along(v, -p))
    BY <1>5 DEF Along
<1> QED BY <1>6 DEF p

\* The sigmoid's torque has the velocity's sign, its opposite or is zero, as the signs
\* of phi1 and phi2 say: the curve does not fall, so what it adds between rest and the
\* velocity has the sign of phi2 * velocity.
LEMMA SigmoidHelps ==
    ASSUME NEW c, NEW v \in Int, c.phi1 \in Int, c.phi2 \in Int, c.phi3 \in Int
    PROVE  /\ Along(c.phi1, c.phi2) => Along(v, Sigmoid(c, v))
           /\ Along(c.phi1, -c.phi2) => Along(v, -Sigmoid(c, v))
           /\ v = 0 => Sigmoid(c, v) = 0
<1> DEFINE moving == c.phi2 * (v + c.phi3)
           rest   == c.phi2 * c.phi3
           rise   == Logistic[Argument(moving)] - Logistic[Argument(rest)]
<1>1. moving \in Int /\ rest \in Int /\ moving - rest = c.phi2 * v
    OBVIOUS
<1>2. /\ Logistic[Argument(moving)] \in Int /\ Logistic[Argument(rest)] \in Int
      /\ moving <= rest => Logistic[Argument(moving)] <= Logistic[Argument(rest)]
      /\ rest <= moving => Logistic[Argument(rest)] <= Logistic[Argument(moving)]
    <2> HIDE DEF moving, rest
    <2> QED BY <1>1, LogisticCurve
<1>3. rise \in Int /\ (moving <= rest => rise <= 0) /\ (rest <= moving => rise >= 0)
    <2> HIDE DEF moving, rest
    <2> QED BY <1>2
<1>4. Sigmoid(c, v) = c.phi1 * rise
    BY DEF Sigmoid
<1> HIDE DEF moving, rest, rise
<1>5. (c.phi2 >= 0 => Along(v, rise)) /\ (c.phi2 <= 0 => Along(v, -rise))
  <2>1. Along(v, v)
      BY DEF Along
  <2>2. (c.phi2 >= 0 => Along(v, c.phi2 * v)) /\ (c.phi2 <= 0 => Along(v, -(c.phi2 * v)))
      BY <2>1, AlongProduct
  <2>3. (c.phi2 >= 0 => Along(v, moving - rest)) /\ (c.phi2 <= 0 => Along(v, -(moving - rest)))
      BY <1>1, <2>2
  <2>4. v = 0 => rise = 0
    <3>1. v = 0 => c.phi2 * v = 0
        OBVIOUS
    <3> QED BY <1>1, <1>3, <3>1
  <2>5. v > 0 /\ c.phi2 >= 0 => moving >= rest
      BY <1>1, <2>3 DEF Along
  <2>6. v < 0 /\ c.phi2 >= 0 => moving <= rest
      BY <1>1, <2>3 DEF Along
  <2>7. v > 0 /\ c.phi2 <= 0 => moving <= rest
      BY <1>1, <2>3 DEF Along
  <2>8. v < 0 /\ c.phi2 <= 0 => moving >= rest
      BY <1>1, <2>3 DEF Along
  <2> QED BY <1>1, <1>3, <2>4, <2>5, <2>6, <2>7, <2>8 DEF Along
<1>6. v = 0 => Sigmoid(c, v) = 0
  <2>1. v = 0 => rise = 0
    <3>1. v = 0 => moving = rest
        BY <1>1
    <3> QED BY <1>1, <1>3, <3>1
  <2>2. rise = 0 => c.phi1 * rise = 0
      BY <1>3
  <2> QED BY <1>4, <2>1, <2>2
<1>7. c.phi2 >= 0 =>
          /\ c.phi1 >= 0 => Along(v, c.phi1 * rise)
          /\ c.phi1 <= 0 => Along(v, -(c.phi1 * rise))
    BY <1>3, <1>5, AlongProduct
<1>8. c.phi2 <= 0 =>
          /\ c.phi1 >= 0 => Along(v, c.phi1 * (-rise))
          /\ c.phi1 <= 0 => Along(v, -(c.phi1 * (-rise)))
  <2>1. -rise \in Int
      BY <1>3
  <2>2. ASSUME c.phi2 <= 0
        PROVE  /\ c.phi1 >= 0 => Along(v, c.phi1 * (-rise))
               /\ c.phi1 <= 0 => Along(v, -(c.phi1 * (-rise)))
    <3>1. Along(v, -rise)
        BY <1>5, <2>2
    <3> QED BY <2>1, <3>1, AlongProduct
  <2> QED BY <2>2
<1>9. c.phi1 * (-rise) = -(c.phi1 * rise) /\ c.phi1 * rise \in Int
    BY <1>3
<1> DEFINE p == c.phi1 * rise
<1>10. /\ p \in Int
       /\ c.phi2 >= 0 => (c.phi1 >= 0 => Along(v, p)) /\ (c.phi1 <= 0 => Along(v, -p))
       /\ c.phi2 <= 0 => (c.phi1 >= 0 => Along(v, -p)) /\ (c.phi1 <= 0 => Along(v, p))
  <2>1. -(-(c.phi1 * rise)) = c.phi1 * rise
      BY <1>9
  <2> QED BY <1>7, <1>8, <1>9, <2>1
<1> HIDE DEF p
<1>11. (Along(c.phi1, c.phi2) => Along(v, p)) /\ (Along(c.phi1, -c.phi2) => Along(v, -p))
    BY <1>10 DEF Along
<1> QED BY <1>4, <1>6, <1>11 DEF p

\* Friction compensation helps the motion as far as its coefficients make it, and adds
\* nothing at rest: for every curve that does not fall, every accepted coefficient.
THEOREM FrictionHelpsMotionHolds == Spec => []FrictionHelpsMotion
<1>1. IInv => FrictionHelpsMotion
  <2> DEFINE c == friction.values
  <2> SUFFICES ASSUME IInv, friction_enabled, NEW v \in Velocity, NEW torque,
                      torque = friction.scale * FrictionTorque(v)
               PROVE  /\ friction.model = "sigmoid" =>
                             /\ Along(c.phi1, c.phi2) => Along(v, torque)
                             /\ Along(c.phi1, -c.phi2) => Along(v, -torque)
                      /\ friction.model = "hysteresis" /\ OfFriction(c) => Along(v, torque)
                      /\ v = 0 /\ torque # 0 => friction.model = "hysteresis" /\ c.hyst = 0
      BY DEF FrictionHelpsMotion, HelpsMotion
  <2>1. friction \in FrictionParameters /\ friction.requested /\ ValidFriction(friction)
      BY DEF IInv, Parameters
  <2>2. v \in Int
      BY PipelineAssumption
  <2>3. friction.scale \in Int /\ friction.scale >= 0 /\ FrictionTorque(v) \in Int
      BY <2>1, <2>2, FrictionInt DEF ValidFriction, IInv
  <2>4. FrictionTorque(v) = 0 => torque = 0
      BY <2>3
  <2>5. CASE friction.model = "hysteresis"
    <3>1. /\ c.hyst \in Int /\ c.hyst >= 0
          /\ c.fvp \in Int /\ c.fcp \in Int /\ c.fvn \in Int /\ c.fcn \in Int
        BY <2>1, <2>5, HysteresisCoefficients
    <3>2. FrictionTorque(v) = Hysteresis(c, v)
        BY <2>5 DEF FrictionTorque
    <3> HIDE DEF c
    <3>3. /\ OfFriction(c) => Along(v, FrictionTorque(v))
          /\ v = 0 /\ FrictionTorque(v) # 0 => c.hyst = 0
        BY <2>2, <3>1, <3>2, HysteresisHelps
    <3>4. OfFriction(c) => Along(v, torque)
        BY <2>2, <2>3, <3>3, AlongProduct
    <3> QED BY <2>4, <2>5, <3>3, <3>4
  <2>6. CASE friction.model = "sigmoid"
    <3>1. c.phi1 \in Int /\ c.phi2 \in Int /\ c.phi3 \in Int
        BY <2>1, <2>6, SigmoidCoefficients
    <3>2. FrictionTorque(v) = Sigmoid(c, v)
        BY <2>6 DEF FrictionTorque
    <3> HIDE DEF c
    <3> DEFINE t == FrictionTorque(v)
    <3>3. /\ Along(c.phi1, c.phi2) => Along(v, t)
          /\ Along(c.phi1, -c.phi2) => Along(v, -t)
          /\ v = 0 => t = 0
        BY <2>2, <3>1, <3>2, SigmoidHelps
    <3>4. t \in Int /\ -t \in Int
        BY <2>3
    <3> HIDE DEF t
    <3>5. Along(c.phi1, c.phi2) => Along(v, friction.scale * t)
        BY <2>2, <2>3, <3>3, <3>4, AlongProduct
    <3>6. Along(c.phi1, -c.phi2) => Along(v, friction.scale * (-t))
        BY <2>2, <2>3, <3>3, <3>4, AlongProduct
    <3>7. friction.scale * (-t) = -(friction.scale * t)
        BY <2>3, <3>4
    <3> QED BY <2>4, <2>6, <3>3, <3>5, <3>6, <3>7 DEF t
  <2> QED BY <2>1, <2>5, <2>6 DEF ValidFriction, FrictionModel
<1> QED BY Invariance, <1>1, PTL
=============================================================================
