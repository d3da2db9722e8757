------------------------ MODULE JointControllerProofs ------------------------
(***************************************************************************)
(* What the joint controller guarantees for all positions, feedforward     *)
(* torques, limits and lengths of time.                                    *)
(***************************************************************************)
EXTENDS JointController, TLAPS

-----------------------------------------------------------------------------
(* Arithmetic                                                              *)

\* Clamping to an interval stays inside it and keeps integers integers.
LEMMA ClampBounds ==
    ASSUME NEW x \in Int, NEW lo \in Int, NEW hi \in Int, lo <= hi
    PROVE  Clamp(x, lo, hi) \in Int /\ lo <= Clamp(x, lo, hi) /\ Clamp(x, lo, hi) <= hi
BY DEF Clamp

\* Integers are finite, and a number that is finite is an integer.
LEMMA IntsAreFinite ==
    /\ \A x \in Int : Finite(x)
    /\ \A x \in Number : Finite(x) => x \in Int
BY NaNAssumption DEF Finite, Number

\* Clamping does not move two torques apart.
LEMMA SanitizeContracts ==
    ASSUME NEW a \in Int, NEW b \in Int
    PROVE  Abs(Sanitize(a) - Sanitize(b)) <= Abs(a - b)
BY JointAssumption, IntsAreFinite DEF Sanitize, Clamp, Abs

\* The absolute value of an integer is an integer.
LEMMA AbsInt == ASSUME NEW x \in Int PROVE Abs(x) \in Int
BY DEF Abs

\* A torque after sanitizing is an integer within the limit.
LEMMA SanitizeBounds ==
    ASSUME NEW a \in Number
    PROVE  Sanitize(a) \in -TauAbsMax .. TauAbsMax
<1>1. CASE Finite(a)
  <2>1. a \in Int
      BY <1>1, IntsAreFinite
  <2> QED BY <1>1, <2>1, JointAssumption DEF Sanitize, Clamp
<1>2. CASE ~Finite(a)
  <2>1. Sanitize(a) = 0
      BY <1>2 DEF Sanitize
  <2> QED BY <2>1, JointAssumption
<1> QED BY <1>1, <1>2

\* The torque of one step is a number; when it is finite the last one was too, and
\* they are within max_tau_delta_ of each other.
LEMMA StepTorqueResult ==
    ASSUME TypeOK, NEW cmd \in Command, NEW measured \in Position, NEW coriolis \in Coriolis,
           NEW tau, tau = StepTorque(cmd, measured, coriolis)
    PROVE  /\ tau \in Number
           /\ Finite(tau) => /\ Finite(StartTorque) /\ StartTorque \in Int /\ tau \in Int
                             /\ Abs(tau - StartTorque) <= MaxTauDelta
<1> DEFINE difference == Desired(cmd, measured) - StartTorque
           change == RateLimited(difference, coriolis)
<1>1. StartTorque \in Number
    BY DEF TypeOK, StartTorque, Number
<1>2. CASE Finite(StartTorque) /\ coriolis # "nan"
  <2>1. cmd.position \in Int /\ cmd.torque_ff \in Int /\ measured \in Int
      BY JointAssumption DEF Command
  <2>2. StartTarget(cmd) \in Int /\ StartForward(cmd) \in Int
      BY <2>1, JointAssumption DEF TypeOK, StartTarget, StartForward
  <2>3. StartTorque \in Int
      BY <1>1, <1>2, IntsAreFinite
  <2>4. difference \in Int
      BY <2>1, <2>2, <2>3 DEF Desired
  <2>5. MaxTauDelta \in Int /\ -MaxTauDelta \in Int /\ -MaxTauDelta <= MaxTauDelta
      BY JointAssumption
  <2> HIDE DEF difference
  <2>6. change \in Int /\ -MaxTauDelta <= change /\ change <= MaxTauDelta
    <3>1. CASE coriolis = "zero"
        BY <2>4, <2>5, <3>1, ClampBounds DEF RateLimited
    <3>2. CASE coriolis = "up"
        BY <2>5, <3>2 DEF RateLimited
    <3>3. CASE coriolis = "down"
        BY <2>5, <3>3 DEF RateLimited
    <3> QED BY <1>2, <3>1, <3>2, <3>3 DEF Coriolis
  <2>7. tau = StartTorque + change
      BY <1>2 DEF StepTorque, difference
  <2> HIDE DEF change
  <2>8. tau \in Int /\ Abs(tau - StartTorque) <= MaxTauDelta
      BY <2>3, <2>5, <2>6, <2>7 DEF Abs
  <2> QED BY <1>2, <2>3, <2>8 DEF Number
<1>3. CASE ~(Finite(StartTorque) /\ coriolis # "nan")
  <2>1. tau = NaN
      BY <1>3, Zenon DEF StepTorque
  <2> QED BY <2>1 DEF Number, Finite
<1> QED BY <1>2, <1>3

\* One step of the implementation, and where it puts the target.
LEMMA StepResult ==
    ASSUME TypeOK, NEW cmd \in Command, NEW measured \in Position, Step(cmd, measured)
    PROVE  /\ tau_last' \in Number
           /\ Finite(tau_last') => /\ Finite(StartTorque) /\ StartTorque \in Int
                                   /\ tau_last' \in Int
                                   /\ Abs(tau_last' - StartTorque) <= MaxTauDelta
           /\ q_d' \in Position
           /\ feed_forward' \in FeedForward
           /\ initialized'
<1>1. PICK coriolis \in Coriolis : tau_last' = StepTorque(cmd, measured, coriolis)
    BY DEF Step, StepMemory
<1>2. q_d' \in Position /\ feed_forward' \in FeedForward /\ initialized'
    BY DEF Step, Between, Command
<1> QED BY <1>1, <1>2, StepTorqueResult

-----------------------------------------------------------------------------
(* Types                                                                   *)

\* What the control loop takes is what the buffer holds or held.
LEMMA TakeType == TypeOK /\ Take => taken' \in Command \union {NoCommand}
BY DEF TypeOK, Take

\* The command on_activate builds is a command.
LEMMA SeedIsCommand == TypeOK => SeedCommand \in Command
BY JointAssumption DEF TypeOK, SeedCommand, Command

\* No step takes a variable out of its type.
LEMMA TypeStep == TypeOK /\ [Next]_vars => TypeOK'
<1> SUFFICES ASSUME TypeOK, [Next]_vars PROVE TypeOK'
    OBVIOUS
<1> USE JointAssumption
<1>0. 0 \in -TauAbsMax .. TauAbsMax
    OBVIOUS
<1>1. CASE Tick \/ Configure \/ ActivateStamp \/ Deactivate \/ Cleanup
  <2>1. CASE Tick
      BY <2>1 DEF TypeOK, Tick, Time, buffer_vars, impl_vars, torque_vars
  <2>2. CASE Configure
    <3>1. 0 \in Number
        BY DEF Number
    <3> QED BY <2>2, <3>1 DEF TypeOK, Configure, buffer_vars, impl_vars, torque_vars
  <2>3. CASE ActivateStamp
      BY <2>3 DEF TypeOK, ActivateStamp, buffer_vars, impl_vars, torque_vars
  <2>4. CASE Deactivate
      BY <1>0, <2>4 DEF TypeOK, Deactivate, buffer_vars, impl_vars, torque_vars
  <2>5. CASE Cleanup
      BY <2>5 DEF TypeOK, Cleanup, buffer_vars, impl_vars, torque_vars
  <2> QED BY <1>1, <2>1, <2>2, <2>3, <2>4, <2>5
<1>2. CASE ActivateSeed
  <2>1. SeedCommand \in Command /\ q \in Position
      BY SeedIsCommand DEF TypeOK
  <2>2. ASSUME Step(SeedCommand, q)
        PROVE  initialized' \in BOOLEAN /\ q_d' \in Position /\ feed_forward' \in FeedForward
               /\ tau_last' \in Number
      BY <2>1, <2>2, StepResult
  <2>3. CASE Step(SeedCommand, q) /\ lifecycle' = "active"
      BY <1>0, <1>2, <2>1, <2>2, <2>3 DEF TypeOK, ActivateSeed
  <2>4. CASE UNCHANGED impl_vars /\ lifecycle' = "finalized"
      BY <1>0, <1>2, <2>1, <2>4 DEF TypeOK, ActivateSeed, impl_vars, torque_vars
  <2> QED BY <1>2, <2>3, <2>4 DEF ActivateSeed
<1>3. CASE UpdateFails
    BY <1>0, <1>3, TakeType DEF TypeOK, UpdateFails, impl_vars, torque_vars
<1>4. CASE Update
  <2>1. taken' \in Command /\ q' \in Position /\ Step(taken', q')
      BY <1>4, TakeType DEF Update
  <2>2. initialized' \in BOOLEAN /\ q_d' \in Position /\ feed_forward' \in FeedForward
        /\ tau_last' \in Number
      BY <2>1, StepResult
  <2>3. hw' \in -TauAbsMax .. TauAbsMax /\ added' \in Compensation
    <3>1. CASE added' \in Compensation /\ hw' = Sanitize(Plus(tau_last', added'))
      <4>1. Plus(tau_last', added') \in Number
          BY <2>2, <3>1, IntsAreFinite, NaNAssumption DEF Plus, Number, Finite
      <4> QED BY <3>1, <4>1, SanitizeBounds
    <3>2. CASE hw' = 0 /\ added' = 0
        BY <1>0, <3>2
    <3> QED BY <1>4, <3>1, <3>2 DEF Update
  <2> QED BY <1>4, <2>1, <2>2, <2>3 DEF TypeOK, Update
<1>5. ASSUME NEW position \in Position, NEW torque_ff \in FeedForward, NEW stamp \in Time,
             Accept(position, torque_ff, stamp)
      PROVE  TypeOK'
    BY <1>5 DEF TypeOK, Accept, Command, buffer_vars, impl_vars, torque_vars
<1>6. CASE Publish
    BY <1>6 DEF TypeOK, Publish, impl_vars, torque_vars
<1>7. CASE UNCHANGED vars
    BY <1>7 DEF TypeOK, vars, buffer_vars, impl_vars, torque_vars
<1> QED
    BY <1>1, <1>2, <1>3, <1>4, <1>5, <1>6, <1>7 DEF Next

\* Initially every variable has its type.
LEMMA TypeInit == Init => TypeOK
<1> SUFFICES ASSUME Init PROVE TypeOK
    OBVIOUS
<1>1. /\ stamped \in BOOLEAN /\ initialized \in BOOLEAN
      /\ driving \in BOOLEAN /\ overlap \in BOOLEAN
    BY Zenon DEF Init
<1>2. now \in Time /\ active_since \in Time /\ feed_forward \in FeedForward
      /\ tau_last \in Number /\ hw \in -TauAbsMax .. TauAbsMax /\ added \in Compensation
    BY JointAssumption DEF Init, Time, Number
<1> QED BY <1>1, <1>2 DEF Init, TypeOK

\* Type correctness of the joint controller.
THEOREM TypeCorrect == Spec => []TypeOK
BY TypeInit, TypeStep, PTL DEF Spec

-----------------------------------------------------------------------------
(* Torques                                                                 *)

\* While an update's torque stands on the interface, it is the sanitized sum of what
\* the implementation remembers having commanded and what was added to that; nothing
\* stands there unless the controller is active.
TorqueInv ==
    /\ stamped => lifecycle = "inactive"
    /\ driving => lifecycle = "active" /\ hw = Sanitize(Plus(tau_last, added))
    /\ lifecycle = "active" => initialized
    /\ ~driving => hw = 0
    /\ ~Finite(tau_last) => initialized
    /\ OnlyActiveDrives

\* Every step keeps TorqueInv.
LEMMA TorqueStep == TorqueInv /\ [Next]_vars => TorqueInv'
<1> SUFFICES ASSUME TorqueInv, [Next]_vars PROVE TorqueInv'
    OBVIOUS
<1> USE NaNAssumption DEF TorqueInv, OnlyActiveDrives, Finite
<1>1. CASE Tick \/ ActivateStamp \/ Cleanup
    BY <1>1 DEF Tick, ActivateStamp, Cleanup, impl_vars, torque_vars
<1>2. CASE Configure
  <2>1. ~driving /\ lifecycle' # "active" /\ UNCHANGED <<stamped, hw, driving>> /\ ~stamped /\ hw = 0
      BY <1>2 DEF Configure, torque_vars
  <2>2. tau_last' = 0 \/ UNCHANGED <<tau_last, initialized>>
      BY <1>2 DEF Configure, impl_vars, torque_vars
  <2> QED BY <2>1, <2>2
<1>3. CASE Deactivate
    BY <1>3 DEF Deactivate, impl_vars, torque_vars
<1>4. CASE ActivateSeed
    BY <1>4 DEF ActivateSeed, Step, impl_vars, torque_vars
<1>5. CASE Update \/ UpdateFails
    BY <1>5 DEF Update, UpdateFails, Step, impl_vars, torque_vars
<1>6. ASSUME NEW position \in Position, NEW torque_ff \in FeedForward, NEW stamp \in Time,
             Accept(position, torque_ff, stamp)
      PROVE  TorqueInv'
    BY <1>6 DEF Accept, impl_vars, torque_vars
<1>7. CASE Publish
    BY <1>7 DEF Publish, impl_vars, torque_vars
<1>8. CASE UNCHANGED vars
    BY <1>8 DEF vars, impl_vars, torque_vars
<1> QED
    BY <1>1, <1>2, <1>3, <1>4, <1>5, <1>6, <1>7, <1>8 DEF Next

\* TorqueInv holds throughout.
LEMMA TorqueInvariant == Spec => []TorqueInv
<1>1. Init => TorqueInv
    BY NaNAssumption DEF Init, TorqueInv, OnlyActiveDrives, Finite
<1> QED
    BY <1>1, TorqueStep, PTL DEF Spec

\* The torque on the interface is zero whenever the controller is not active.
THEOREM OnlyActiveDrivesHolds == Spec => []OnlyActiveDrives
<1>1. TorqueInv => OnlyActiveDrives
    BY DEF TorqueInv
<1> QED
    BY <1>1, TorqueInvariant, PTL

\* Between two cycles that both drive the joint the torque written changes by at
\* most max_tau_delta_ and the change of what the compensations add to it.
\* sanitizeTorqueOutput sits between that sum and the interface, and clamping never
\* widens a difference.
THEOREM RateLimitedHolds == Spec => RateLimitedWhileDriving
<1>1. ASSUME TypeOK, TypeOK', TorqueInv, [Next]_vars
      PROVE  [DrivesAgain => Abs(hw' - hw) <= MaxTauDelta + Abs(added' - added)]_vars
  <2> SUFFICES ASSUME Next, DrivesAgain
               PROVE  Abs(hw' - hw) <= MaxTauDelta + Abs(added' - added)
      BY <1>1
  <2>0. added \in Int /\ added' \in Int /\ Abs(added' - added) \in Nat
    <3>1. added \in Int /\ added' \in Int
        BY <1>1, JointAssumption DEF TypeOK
    <3>2. added' - added \in Int
        BY <3>1
    <3>3. Abs(added' - added) \in Nat
        BY <3>2 DEF Abs
    <3> QED BY <3>1, <3>3
  <2>1. CASE hw' = hw
    <3>1. hw \in Int
        BY <1>1, JointAssumption DEF TypeOK
    <3>2. Abs(hw' - hw) = 0
        BY <2>1, <3>1 DEF Abs
    <3> QED BY <2>0, <3>2, JointAssumption
  <2>2. CASE Update
    <3>1. /\ taken' \in Command /\ q' \in Position /\ Step(taken', q')
          /\ hw' = Sanitize(Plus(tau_last', added'))
        BY <1>1, <2>2, TakeType DEF Update, DrivesAgain, TorqueInv
    <3>2. hw = Sanitize(Plus(tau_last, added)) /\ StartTorque = tau_last
        BY <1>1 DEF TorqueInv, DrivesAgain, StartTorque
    <3>3. tau_last \in Int /\ tau_last' \in Int /\ Abs(tau_last' - tau_last) <= MaxTauDelta
        BY <1>1, <3>1, <3>2, StepResult DEF DrivesAgain
    <3>4. /\ hw = Sanitize(tau_last + added) /\ hw' = Sanitize(tau_last' + added')
          /\ tau_last + added \in Int /\ tau_last' + added' \in Int
        BY <2>0, <3>1, <3>2, <3>3, IntsAreFinite DEF Plus
    <3>5. Abs(hw' - hw) <= Abs((tau_last' + added') - (tau_last + added))
        BY <3>4, SanitizeContracts
    <3>6. Abs((tau_last' + added') - (tau_last + added))
              <= Abs(tau_last' - tau_last) + Abs(added' - added)
      <4> DEFINE a == tau_last' - tau_last
                 b == added' - added
      <4>1. a \in Int /\ b \in Int /\ (tau_last' + added') - (tau_last + added) = a + b
          BY <2>0, <3>3
      <4> HIDE DEF a, b
      <4>2. Abs(a + b) <= Abs(a) + Abs(b)
          BY <4>1 DEF Abs
      <4> QED BY <4>1, <4>2 DEF a, b
    <3>7. hw \in Int /\ hw' \in Int
        BY <1>1, JointAssumption DEF TypeOK
    <3>8. /\ Abs(hw' - hw) \in Int /\ Abs(tau_last' - tau_last) \in Int
          /\ Abs((tau_last' + added') - (tau_last + added)) \in Int
      <4>1. /\ hw' - hw \in Int /\ tau_last' - tau_last \in Int
            /\ (tau_last' + added') - (tau_last + added) \in Int
          BY <3>3, <3>4, <3>7
      <4> QED BY <4>1, AbsInt
    <3>9. Abs(tau_last' - tau_last) <= MaxTauDelta
        BY <3>3
    <3> QED BY <2>0, <3>5, <3>6, <3>8, <3>9, JointAssumption
  <2>3. hw' = hw \/ Update
      BY <1>1 DEF Next, DrivesAgain, TorqueInv, Tick, Configure, ActivateStamp, ActivateSeed,
                  Deactivate, Cleanup, UpdateFails, Accept, Publish, torque_vars
  <2> QED BY <2>1, <2>2, <2>3
<1> QED
    BY <1>1, TypeCorrect, TorqueInvariant, PTL DEF Spec, RateLimitedWhileDriving

\* Once the memory of the implementation is NaN the joint rests until a new one is
\* configured: sanitizeTorqueOutput turns what is there to zero and every later step
\* hands it on.
THEOREM FaultRestsHolds == Spec => FaultRests
<1>1. ASSUME TypeOK, TypeOK', TorqueInv, TorqueInv', [Next]_vars
      PROVE  [~Finite(tau_last) => hw' = 0]_vars
  <2> SUFFICES ASSUME Next, ~Finite(tau_last)
               PROVE  hw' = 0
      BY <1>1
  <2>1. hw = 0
      BY <1>1 DEF TorqueInv, Sanitize, Plus, Finite
  <2>2. CASE Update
    <3>1. taken' \in Command /\ q' \in Position /\ Step(taken', q')
        BY <1>1, <2>2, TakeType DEF Update
    <3>2. StartTorque = tau_last
        BY <1>1 DEF TorqueInv, StartTorque
    <3>3. ~Finite(tau_last')
        BY <1>1, <3>1, <3>2, StepResult
    <3> QED BY <1>1, <3>3 DEF TorqueInv, Sanitize, Plus, Finite
  <2>3. hw' = hw \/ hw' = 0 \/ Update
      BY DEF Next, Tick, Configure, ActivateStamp, ActivateSeed, Deactivate, Cleanup,
             UpdateFails, Accept, Publish, torque_vars
  <2> QED BY <2>1, <2>2, <2>3
<1> QED
    BY <1>1, TypeCorrect, TorqueInvariant, PTL DEF Spec, FaultRests

-----------------------------------------------------------------------------
(* Commands                                                                *)

\* OnlyThisSession is not inductive by itself: the command a callback is about to
\* write must be of this session too.
SessionInv ==
    /\ stamped => lifecycle = "inactive"
    /\ OnlyThisSession
    /\ lifecycle = "active" /\ ~overlap /\ accepted # NoCommand =>
           accepted.stamp >= active_since

\* Every step keeps SessionInv.
LEMMA SessionStep == TypeOK /\ SessionInv /\ [Next]_vars => SessionInv'
<1> SUFFICES ASSUME TypeOK, SessionInv, [Next]_vars PROVE SessionInv'
    OBVIOUS
<1> USE DEF SessionInv, OnlyThisSession
<1>1. CASE Tick \/ Update \/ UpdateFails
    BY <1>1 DEF Tick, Update, UpdateFails, buffer_vars
<1>2. CASE Configure \/ ActivateStamp \/ Deactivate \/ Cleanup
  <2>1. lifecycle' # "active"
      BY <1>2 DEF Configure, ActivateStamp, Deactivate, Cleanup
  <2>2. stamped' => lifecycle' = "inactive"
      BY <1>2 DEF Configure, ActivateStamp, Deactivate, Cleanup
  <2> QED BY <2>1, <2>2
<1>3. CASE ActivateSeed
  <2>1. SeedCommand # NoCommand
      BY SeedIsCommand, NoCommandAssumption
  <2>2. SeedCommand.stamp >= active_since
      BY DEF SeedCommand, TypeOK, Time
  <2> QED BY <1>3, <2>1, <2>2 DEF ActivateSeed
<1>4. ASSUME NEW position \in Position, NEW torque_ff \in FeedForward, NEW stamp \in Time,
             Accept(position, torque_ff, stamp)
      PROVE  SessionInv'
    BY <1>4 DEF Accept, buffer_vars
<1>5. CASE Publish
  <2>1. CASE overlap'
      BY <1>5, <2>1 DEF Publish
  <2>2. CASE ~overlap'
    <3>1. accepted \in Command /\ active_since \in Int
        BY <1>5, NoCommandAssumption DEF Publish, TypeOK, Time
    <3>2. accepted.stamp \in Int
        BY <3>1 DEF Command, Time
    <3>3. ~(overlap /\ accepted.stamp < active_since)
        BY <1>5, <2>2, Zenon DEF Publish
    <3>4. ~overlap \/ accepted.stamp >= active_since
        BY <3>1, <3>2, <3>3
    <3> QED BY <1>5, <2>2, <3>4 DEF Publish
  <2> QED BY <2>1, <2>2
<1>6. CASE UNCHANGED vars
    BY <1>6 DEF vars, buffer_vars
<1> QED
    BY <1>1, <1>2, <1>3, <1>4, <1>5, <1>6 DEF Next

\* SessionInv holds throughout.
LEMMA SessionInvariant == Spec => []SessionInv
<1>1. Init => SessionInv
    BY DEF Init, SessionInv, OnlyThisSession
<1> QED BY <1>1, SessionStep, TypeCorrect, PTL DEF Spec

\* The buffer of an active controller holds a command of its session, unless a
\* callback straddled the seeding.
THEOREM OnlyThisSessionHolds == Spec => []OnlyThisSession
<1>1. SessionInv => OnlyThisSession
    BY DEF SessionInv
<1> QED
    BY <1>1, SessionInvariant, PTL

\* The first activation of an implementation instance targets the measured position
\* and remembers only what its one step makes of the Coriolis torque.
THEOREM FirstActivationRestsHolds == Spec => FirstActivationRests
<1>1. ASSUME TypeOK, [Next]_vars
      PROVE  [Activated /\ ~initialized =>
                  q_d' = q /\ tau_last' \in {0, NaN, MaxTauDelta, -MaxTauDelta}]_vars
  <2> SUFFICES ASSUME Next, Activated, ~initialized
               PROVE  q_d' = q /\ tau_last' \in {0, NaN, MaxTauDelta, -MaxTauDelta}
      BY <1>1
  <2>1. Step(SeedCommand, q)
      BY DEF Next, Activated, Tick, Configure, ActivateStamp, ActivateSeed, Deactivate, Cleanup,
             Update, UpdateFails, Accept, Publish
  <2>2. q \in Int
      BY <1>1, JointAssumption DEF TypeOK
  <2>3. q_d' \in Between(q, q)
      BY <2>1 DEF Step, StartTarget, SeedCommand
  <2>4. q_d' = q
    <3>1. q_d' \in Int /\ q <= q_d' /\ q_d' <= q
        BY <2>2, <2>3, JointAssumption DEF Between
    <3> QED BY <2>2, <3>1
  <2>5. tau_last' \in {0, NaN, MaxTauDelta, -MaxTauDelta}
    <3>1. PICK coriolis \in Coriolis : tau_last' = StepTorque(SeedCommand, q, coriolis)
        BY <2>1 DEF Step, StepMemory
    <3>2. StartTorque = 0 /\ Desired(SeedCommand, q) - StartTorque = 0
        BY <2>2 DEF StartTorque, StartTarget, StartForward, SeedCommand, Desired
    <3>3. CASE coriolis = "nan"
        BY <3>1, <3>3, Zenon DEF StepTorque
    <3>4. CASE coriolis # "nan"
      <4>1. tau_last' = 0 + RateLimited(0, coriolis)
        <5>1. Finite(0)
            BY IntsAreFinite
        <5> QED BY <3>1, <3>2, <3>4, <5>1 DEF StepTorque
      <4>2. RateLimited(0, coriolis) \in {0, MaxTauDelta, -MaxTauDelta}
          BY <3>4, JointAssumption DEF RateLimited, Clamp, Coriolis
      <4>3. RateLimited(0, coriolis) \in Int
          BY <4>2, JointAssumption
      <4> QED BY <4>1, <4>2, <4>3
    <3> QED BY <3>3, <3>4
  <2> QED BY <2>4, <2>5
<1> QED
    BY <1>1, TypeCorrect, PTL DEF Spec, FirstActivationRests

-----------------------------------------------------------------------------
(* Refinement                                                              *)

\* The activation lies in the past.
Past == active_since <= now

\* Every step keeps Past.
LEMMA PastStep == TypeOK /\ Past /\ [Next]_vars => Past'
<1> SUFFICES ASSUME TypeOK, Past, [Next]_vars PROVE Past'
    OBVIOUS
<1>1. now \in Nat /\ active_since \in Nat
    BY DEF TypeOK, Time
<1>2. CASE ActivateStamp
    BY <1>1, <1>2 DEF ActivateStamp, Past
<1>3. CASE Tick
    BY <1>1, <1>3 DEF Tick, Past
<1>4. CASE ~ActivateStamp /\ ~Tick
  <2>1. UNCHANGED <<now, active_since>>
      BY <1>4 DEF Next, Configure, ActivateSeed, Deactivate, Cleanup, Update, UpdateFails,
             Accept, Publish, vars
  <2> QED BY <2>1 DEF Past
<1> QED BY <1>2, <1>3, <1>4

\* The activation always lies in the past.
LEMMA PastInvariant == Spec => []Past
<1>1. Init => Past
    BY DEF Init, Past
<1> QED BY <1>1, PastStep, TypeCorrect, PTL DEF Spec

\* Every step is the session's or hidden from it.
LEMMA StepSession ==
    ASSUME TypeOK, TorqueInv, SessionInv, Past, Next
    PROVE  Session!Next \/ UNCHANGED Session!sessionVars
<1> USE DEF TorqueInv, OnlyActiveDrives, buffer_vars, torque_vars, SessionPhase, TorqueSeen
<1>1. CASE Tick \/ Configure \/ Cleanup
  <2>1. /\ UNCHANGED <<stamped, active_since, newest, taken, accepted, overlap, hw>>
        /\ (lifecycle' = "active") <=> (lifecycle = "active")
      BY <1>1 DEF Tick, Configure, Cleanup
  <2>2. SessionPhase' = SessionPhase
      BY <2>1
  <2> QED BY <2>1, <2>2 DEF Session!sessionVars, StampOf
<1>2. CASE ActivateStamp
  <2>1. Session!Begin
      BY <1>2 DEF ActivateStamp, Session!Begin, Past, TypeOK, Time, StampOf
  <2> QED BY <2>1 DEF Session!Next
<1>3. CASE ActivateSeed
  <2>1. SeedCommand # NoCommand
      BY SeedIsCommand, NoCommandAssumption
  <2>2. hw = 0
      BY <1>3 DEF ActivateSeed
  <2>3. Session!Seed
      BY <1>3, <2>1, <2>2 DEF ActivateSeed, Session!Seed, StampOf, SeedCommand
  <2> QED BY <2>3 DEF Session!Next
<1>4. CASE Deactivate
  <2>1. Session!Deactivate
      BY <1>4 DEF Deactivate, Session!Deactivate, StampOf
  <2> QED BY <2>1 DEF Session!Next
<1>5. CASE Update \/ UpdateFails
  <2>1. /\ lifecycle = "active"
        /\ UNCHANGED <<lifecycle, stamped, active_since, newest, accepted, overlap>>
        /\ taken' \in {taken, newest}
      BY <1>5 DEF Update, UpdateFails, Take
  <2>2. Session!Cycle
      BY <2>1 DEF Session!Cycle, StampOf
  <2> QED BY <2>2 DEF Session!Next
<1>6. ASSUME NEW position \in Position, NEW torque_ff \in FeedForward, NEW stamp \in Time,
             Accept(position, torque_ff, stamp)
      PROVE  Session!Next
  <2>1. [position |-> position, torque_ff |-> torque_ff, stamp |-> stamp] \in Command
      BY DEF Command
  <2>2. accepted = NoCommand /\ accepted' # NoCommand
      BY <1>6, <2>1, NoCommandAssumption DEF Accept
  <2>3. Session!Enter
      BY <1>6, <2>2 DEF Accept, Session!Enter, StampOf
  <2> QED BY <2>3 DEF Session!Next
<1>7. CASE Publish
  <2>1. accepted \in Command /\ newest' = accepted /\ newest' # NoCommand /\ accepted' = NoCommand
      BY <1>7, NoCommandAssumption DEF Publish, TypeOK
  <2>2. StampOf(newest)' = accepted.stamp /\ accepted.stamp \in Nat /\ active_since \in Nat
      BY <2>1 DEF StampOf, Command, Time, TypeOK
  <2>3. overlap' = overlap \/ (overlap' = FALSE /\ accepted.stamp >= active_since)
      BY <1>7, <2>2 DEF Publish, TypeOK
  <2>4. SessionPhase # "seeded" /\ (SessionPhase = "active" => lifecycle = "active")
      OBVIOUS
  <2>5. Session!Leave
      BY <1>7, <2>1, <2>2, <2>3, <2>4 DEF Publish, Session!Leave, SessionInv, StampOf
  <2> QED BY <2>5 DEF Session!Next
<1> QED BY <1>1, <1>2, <1>3, <1>4, <1>5, <1>6, <1>7 DEF Next

\* The joint wrapper keeps the promise of a session.
THEOREM ImplementsSessionHolds == Spec => ImplementsSession
<1>1. Init => Session!Init
    BY DEF Init, Session!Init, StampOf, SessionPhase, TorqueSeen
<1>2. TypeOK /\ TorqueInv /\ SessionInv /\ Past /\ [Next]_vars
          => [Session!Next]_(Session!sessionVars)
  <2> SUFFICES ASSUME TypeOK, TorqueInv, SessionInv, Past, [Next]_vars
               PROVE  Session!Next \/ UNCHANGED Session!sessionVars
      OBVIOUS
  <2>1. CASE UNCHANGED vars
      BY <2>1 DEF vars, buffer_vars, torque_vars, Session!sessionVars, StampOf, SessionPhase, TorqueSeen
  <2> QED BY <2>1, StepSession
<1> QED
    BY <1>1, <1>2, TypeCorrect, TorqueInvariant, SessionInvariant, PastInvariant, PTL
    DEF Spec, ImplementsSession, Session!Spec

\* Undisturbed, the joint controller never falls back from a command of the session
\* to an earlier one.
THEOREM NeverFallsBackHolds == Spec => Session!NeverFallsBack
BY ImplementsSessionHolds, Session!NeverFallsBackHolds, PTL DEF ImplementsSession
=============================================================================
