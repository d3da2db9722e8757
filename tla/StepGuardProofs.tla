--------------------------- MODULE StepGuardProofs ---------------------------
(***************************************************************************)
(* Proofs about StepGuard and the orientation error of CartesianImpedance, *)
(* for every number of quaternions, every set of poses and requests and    *)
(* every limit.                                                            *)
(*                                                                         *)
(* The inductive invariant follows the callback from read to read: what    *)
(* was measured, what is put in place and what the quaternion is aligned   *)
(* with are all values that the fields of state_buffer_ had meanwhile, and *)
(* those only grow in number until the reference is published.             *)
(***************************************************************************)
EXTENDS StepGuard, TLAPS

-----------------------------------------------------------------------------
(* Quaternions on the circle                                               *)

\* The opposite of a quaternion is a quaternion, and the opposite of that the first.
LEMMA OppositeIsQuaternion ==
    ASSUME NEW q \in Quaternion
    PROVE  Opposite(q) \in Quaternion /\ Opposite(Opposite(q)) = q
BY HalfTurnAssumption DEF Quaternion, Opposite

\* Two quaternions are at most a half turn apart.
LEMMA ArcRange ==
    ASSUME NEW a \in Quaternion, NEW b \in Quaternion
    PROVE  Arc(a, b) \in 0 .. HalfTurn /\ Arc(a, a) = 0
BY HalfTurnAssumption DEF Quaternion, Arc

\* One of a quaternion and its opposite is on the side of another.
LEMMA AlignedIsNear ==
    ASSUME NEW a \in Quaternion, NEW b \in Quaternion, Opposed(a, b)
    PROVE  ~Opposed(Opposite(a), b)
BY HalfTurnAssumption DEF Quaternion, Arc, Opposite, Opposed

\* A quaternion is on its own side.
LEMMA NotOpposedToItself ==
    ASSUME NEW a \in Quaternion
    PROVE  ~Opposed(a, a)
BY HalfTurnAssumption DEF Quaternion, Arc, Opposed

\* The guard's measure of a rotation is the reference definition's.
LEMMA TurnIsWithinTurn ==
    ASSUME NEW a \in Quaternion, NEW b \in Quaternion
    PROVE  Turn(a, b) <= MaxTurn <=> WithinTurn(a, b)
<1> DEFINE Reaches(q, lap) == -MaxTurn <= 2 * (q + lap - b) /\ 2 * (q + lap - b) <= MaxTurn
<1>1. WithinTurn(a, b) <=>
          \/ Reaches(a, -2 * HalfTurn) \/ Reaches(a, 0) \/ Reaches(a, 2 * HalfTurn)
          \/ Reaches(Opposite(a), -2 * HalfTurn) \/ Reaches(Opposite(a), 0)
          \/ Reaches(Opposite(a), 2 * HalfTurn)
  BY DEF WithinTurn
<1>2. QED
  BY <1>1, HalfTurnAssumption, GuardAssumption DEF Turn, Arc, Opposite, Quaternion

\* Nor does the guard's measure depend on the sign of a quaternion.
LEMMA TurnOfOpposite ==
    ASSUME NEW a \in Quaternion, NEW b \in Quaternion
    PROVE  Turn(Opposite(a), b) = Turn(a, b) /\ Turn(a, a) = 0
BY HalfTurnAssumption DEF Turn, Arc, Opposite, Quaternion

\* The law's error is a whole number of steps on the circle, times two.
LEMMA QLogIsSigned ==
    ASSUME NEW e \in Quaternion
    PROVE  QLog(e) = LET q == Shorter(e) IN IF q <= HalfTurn THEN q ELSE q - 2 * HalfTurn
<1> DEFINE q == Shorter(e)
<1>1. q \in Quaternion /\ q # HalfTurn
  BY HalfTurnAssumption DEF Shorter, Opposed, Arc, Opposite, Quaternion
<1> HIDE DEF q
<1>2. CASE q = 0
  BY <1>1, <1>2, HalfTurnAssumption DEF QLog, q, HalfAngle, Axis, Arc
<1>3. CASE 0 < q /\ q < HalfTurn
  <2>1. Axis(q) = 1 /\ HalfAngle(q) = q
    BY <1>1, <1>3, HalfTurnAssumption DEF HalfAngle, Axis, Arc, Quaternion
  <2> QED
    BY <1>1, <1>3, <2>1, HalfTurnAssumption DEF QLog, q, Quaternion
<1>4. CASE HalfTurn < q
  <2>1. Axis(q) = -1 /\ HalfAngle(q) = 2 * HalfTurn - q
    BY <1>1, <1>4, HalfTurnAssumption DEF HalfAngle, Axis, Arc, Quaternion
  <2> QED
    BY <1>1, <1>4, <2>1, HalfTurnAssumption DEF QLog, q, Quaternion
<1> QED
  BY <1>1, <1>2, <1>3, <1>4, HalfTurnAssumption DEF QLog, q, Quaternion, HalfAngle, Axis, Arc

\* The error quaternion and the one with the shorter way are quaternions.
LEMMA ErrorIsQuaternion ==
    ASSUME NEW a \in Quaternion, NEW b \in Quaternion
    PROVE  ErrorQuaternion(a, b) \in Quaternion
BY HalfTurnAssumption DEF ErrorQuaternion, Quaternion

\* The law turns by what the guard measures, the sign aside.
LEMMA LawTurnsWhatIsMeasured ==
    ASSUME NEW a \in Quaternion, NEW b \in Quaternion
    PROVE  /\ RotationError(a, b) \in Int
           /\ RotationError(a, b) = Turn(b, a) \/ RotationError(a, b) = -Turn(b, a)
BY HalfTurnAssumption, ErrorIsQuaternion, QLogIsSigned
   DEF RotationError, Shorter, ErrorQuaternion, Opposed, Turn, Arc, Opposite, Quaternion

\* The law turns any orientation to any other, the short way, and, short of half a
\* turn, the same way for both quaternions of the other.
LEMMA LawTurnsTheShortWay ==
    ASSUME NEW a \in Quaternion, NEW b \in Quaternion
    PROVE  LET turn    == RotationError(a, b)
               reached == ErrorQuaternion(b, a) + turn \div 2
           IN  /\ reached \in {0, HalfTurn, 2 * HalfTurn}
               /\ turn \in -HalfTurn .. HalfTurn
               /\ turn \notin {-HalfTurn, HalfTurn} => turn = RotationError(a, Opposite(b))
<1> DEFINE short == QLog(ErrorQuaternion(a, b))
           turn == RotationError(a, b)
<1>1. short \in Int /\ turn = 2 * short /\ turn \div 2 = short
  <2>1. short \in Int
    BY HalfTurnAssumption, ErrorIsQuaternion, QLogIsSigned
       DEF Shorter, ErrorQuaternion, Opposed, Arc, Opposite, Quaternion
  <2> HIDE DEF short
  <2>2. turn = 2 * short
    BY DEF RotationError, short
  <2> QED
    BY <2>1, <2>2
<1>2. ErrorQuaternion(b, a) + short \in {0, HalfTurn, 2 * HalfTurn}
  BY HalfTurnAssumption, ErrorIsQuaternion, QLogIsSigned
     DEF Shorter, ErrorQuaternion, Opposed, Arc, Opposite, Quaternion
<1>3. turn \in -HalfTurn .. HalfTurn
  BY HalfTurnAssumption, ErrorIsQuaternion, QLogIsSigned
     DEF RotationError, Shorter, ErrorQuaternion, Opposed, Arc, Opposite, Quaternion
<1>4. turn \notin {-HalfTurn, HalfTurn} => turn = RotationError(a, Opposite(b))
  BY HalfTurnAssumption, ErrorIsQuaternion, QLogIsSigned
     DEF RotationError, Shorter, ErrorQuaternion, Opposed, Arc, Opposite, Quaternion
<1> QED
  BY <1>1, <1>2, <1>3, <1>4

\* A step on the circle along the law's error leads nearer to the reference.
LEMMA ErrorTurnsToward ==
    ASSUME NEW a \in Quaternion, NEW b \in Quaternion
    PROVE  TurnsToward(Sign(RotationError(a, b)), a, b)
<1> DEFINE e == RotationError(a, b)
<1>1. CASE e = 0
  <2>1. Turn(b, a) = 0
    BY <1>1, LawTurnsWhatIsMeasured, HalfTurnAssumption DEF Turn, Arc, Quaternion
  <2> QED
    BY <1>1, <2>1 DEF Sign, TurnsToward
<1>2. CASE e > 0
  <2>1. Turn(b, Turned(a, 1)) < Turn(b, a)
    <3>1. 2 * e \in Int /\ Turn(b, a) = e
      BY <1>2, LawTurnsWhatIsMeasured, HalfTurnAssumption DEF Turn, Arc, Quaternion
    <3>2. PICK k \in 1 .. HalfTurn :
              e = 2 * k /\ 2 * k <= HalfTurn
                /\ \E lap \in {-2, -1, 0, 1, 2} : b = a + k + lap * HalfTurn
      <4> DEFINE k == QLog(ErrorQuaternion(a, b))
      <4>1. k \in Int /\ k <= HalfTurn /\ 2 * k <= HalfTurn /\ e = 2 * k
        BY HalfTurnAssumption, ErrorIsQuaternion, QLogIsSigned
           DEF RotationError, Shorter, ErrorQuaternion, Opposed, Arc, Opposite, Quaternion
      <4>2. \E lap \in {-2, -1, 0, 1, 2} : b = a + k + lap * HalfTurn
        BY HalfTurnAssumption, ErrorIsQuaternion, QLogIsSigned
           DEF Shorter, ErrorQuaternion, Opposed, Arc, Opposite, Quaternion
      <4> HIDE DEF k
      <4>3. k > 0
        BY <1>2, <4>1
      <4> QED
        BY <4>1, <4>2, <4>3, HalfTurnAssumption
    <3>3. Turn(b, Turned(a, 1)) = 2 * (k - 1)
      <4>1. \/ a # 2 * HalfTurn - 1 /\ Turned(a, 1) = a + 1
            \/ a = 2 * HalfTurn - 1 /\ Turned(a, 1) = 0
        BY HalfTurnAssumption DEF Turned, Quaternion
      <4>2. CASE a # 2 * HalfTurn - 1 /\ Turned(a, 1) = a + 1
        BY <3>2, <4>2, HalfTurnAssumption DEF Turn, Arc, Quaternion
      <4>3. CASE a = 2 * HalfTurn - 1 /\ Turned(a, 1) = 0
        BY <3>2, <4>3, HalfTurnAssumption DEF Turn, Arc, Quaternion
      <4> QED
        BY <4>1, <4>2, <4>3
    <3> QED
      BY <3>1, <3>2, <3>3
  <2>2. Sign(e) = 1
    BY <1>2, LawTurnsWhatIsMeasured DEF Sign
  <2> QED
    BY <2>1, <2>2 DEF TurnsToward
<1>3. CASE e < 0
  <2>1. Turn(b, Turned(a, -1)) < Turn(b, a)
    <3>1. Turn(b, a) = -e
      BY <1>3, LawTurnsWhatIsMeasured, HalfTurnAssumption DEF Turn, Arc, Quaternion
    <3>2. PICK k \in 1 .. HalfTurn :
              e = -2 * k /\ 2 * k <= HalfTurn
                /\ \E lap \in {-2, -1, 0, 1, 2} : b = a - k + lap * HalfTurn
      <4> DEFINE j == QLog(ErrorQuaternion(a, b))
                 k == -j
      <4>1. j \in Int /\ -j <= HalfTurn /\ 2 * (-j) <= HalfTurn /\ e = 2 * j
        BY HalfTurnAssumption, ErrorIsQuaternion, QLogIsSigned
           DEF RotationError, Shorter, ErrorQuaternion, Opposed, Arc, Opposite, Quaternion
      <4>2. \E lap \in {-2, -1, 0, 1, 2} : b = a + j + lap * HalfTurn
        BY HalfTurnAssumption, ErrorIsQuaternion, QLogIsSigned
           DEF Shorter, ErrorQuaternion, Opposed, Arc, Opposite, Quaternion
      <4> HIDE DEF j
      <4>3. k \in 1 .. HalfTurn /\ e = -2 * k /\ 2 * k <= HalfTurn
        BY <1>3, <4>1, HalfTurnAssumption
      <4>4. \E lap \in {-2, -1, 0, 1, 2} : b = a - k + lap * HalfTurn
        BY <4>1, <4>2, HalfTurnAssumption DEF Quaternion
      <4> HIDE DEF k
      <4> QED
        BY <4>3, <4>4
    <3>3. Turn(b, Turned(a, -1)) = 2 * (k - 1)
      BY <3>2, HalfTurnAssumption DEF Turn, Turned, Arc, Quaternion
    <3> QED
      BY <3>1, <3>2, <3>3
  <2>2. Sign(e) = -1
    BY <1>3, LawTurnsWhatIsMeasured DEF Sign
  <2> QED
    BY <2>1, <2>2 DEF TurnsToward
<1> QED
  BY <1>1, <1>2, <1>3, LawTurnsWhatIsMeasured

\* The dither's correction and the law's error have one sign, and a stiffness
\* leaves it what it is.
LEMMA SameSign ==
    ASSUME NEW a \in Quaternion, NEW b \in Quaternion
    PROVE  /\ Bias(a, b) = Sign(RotationError(a, b))
           /\ \A stiffness \in Stiffness :
                  Sign(ImpedanceTorque(stiffness, a, b)) = Sign(RotationError(a, b))
<1> DEFINE e == RotationError(a, b)
<1>1. e \in Int
  BY LawTurnsWhatIsMeasured
<1>2. Bias(a, b) = Sign(e)
  <2> DEFINE q == Shorter(ErrorQuaternion(a, b))
  <2>1. HalfAngle(q) \in Int /\ Axis(q) \in Int
    BY HalfTurnAssumption DEF Shorter, HalfAngle, Axis, ErrorQuaternion, Opposed, Arc, Opposite, Quaternion
  <2> HIDE DEF q
  <2>2. 2 * HalfAngle(q) * Axis(q) = 2 * (HalfAngle(q) * Axis(q))
    BY <2>1
  <2> QED
    BY <2>2 DEF Bias, RotationCorrection, RotationError, QLog, q
<1> HIDE DEF e
<1>3. ASSUME NEW stiffness \in Stiffness
      PROVE  Sign(ImpedanceTorque(stiffness, a, b)) = Sign(e)
  <2>1. stiffness \in Nat /\ stiffness > 0
    BY StiffnessAssumption
  <2>2. -stiffness * (-e) = stiffness * e
    BY <1>1, <2>1
  <2>3. /\ e > 0 => stiffness * e > 0
        /\ e = 0 => stiffness * e = 0
        /\ e < 0 => stiffness * e < 0
    BY <1>1, <2>1
  <2>4. Sign(stiffness * e) = Sign(e)
    BY <1>1, <2>1, <2>3 DEF Sign
  <2> QED
    BY <2>2, <2>4 DEF ImpedanceTorque, e
<1> QED
  BY <1>2, <1>3 DEF e

-----------------------------------------------------------------------------
(* The inductive invariant                                                 *)

\* Every variable holds a value of its kind; of cmd only that it is a pose, finite or
\* not.
KindInv ==
    /\ max_step_guard_enabled \in BOOLEAN
    /\ before \in Measured /\ after \in Measured
    /\ pending \subseteq Fields
    /\ pc \in {"idle", "measure_x", "measure_y", "measure_orientation", "limit_x", "limit_y",
               "limit_orientation", "align", "publish"}
    /\ request \in Requests \union Pose
    /\ cmd \in RequestKind
    /\ far \subseteq {"position", "orientation"}
    /\ reading \in IF pc = "measure_y" THEN Place ELSE {NaN}
    /\ seen = [f \in Fields |-> seen[f]]
    /\ seen.x \subseteq Place /\ seen.y \subseteq Place /\ seen.quat \subseteq Quaternion

\* What is not finite is in `far' before it is replaced.
FiniteInv ==
    /\ pc = "measure_orientation" => far \subseteq {"position"}
    /\ pc \in {"measure_orientation", "limit_x", "limit_y"} =>
           "position" \in far \/ cmd.y # NaN
    /\ pc \in {"measure_orientation", "limit_x"} => "position" \in far \/ cmd.x # NaN
    /\ pc \in {"limit_x", "limit_y", "limit_orientation"} =>
           "orientation" \in far \/ cmd.quat # NaN
    /\ pc = "limit_y" => cmd.x # NaN
    /\ pc = "limit_orientation" => FinitePosition(cmd)
    /\ pc \in {"idle", "align", "publish"} => cmd \in Pose

\* What a read returns now has been seen, and what was read of a position.
SeenInv ==
    /\ pc # "idle" => \A f \in Fields : Current[f] \in seen[f]
    /\ pc = "measure_y" => reading \in seen.x

\* The request was near, or far from, a position or an orientation that was seen.
SeenNear(p) == \E x \in seen.x, y \in seen.y : ~FarPosition(p, [x |-> x, y |-> y])
SeenFar(p)  == \E x \in seen.x, y \in seen.y : FarPosition(p, [x |-> x, y |-> y])
SeenAlong(p)  == \E q \in seen.quat : ~FarOrientation(p, [quat |-> q])
SeenAcross(p) == \E q \in seen.quat : FarOrientation(p, [quat |-> q])

\* What the callback has made of the request's position, and of its quaternion.
PositionFollows ==
    \/ cmd.x = request.x /\ cmd.y = request.y /\ SeenNear(request)
    \/ cmd.x \in seen.x /\ cmd.y \in seen.y /\ SeenFar(request)

QuaternionFollows(q) ==
    \/ q = request.quat /\ SeenAlong(request)
    \/ q \in seen.quat /\ SeenAcross(request)

FollowInv ==
    /\ pc \in {"measure_x", "measure_y", "measure_orientation", "limit_x"} => cmd = request
    /\ pc \in {"measure_orientation", "limit_x", "limit_y"} =>
           IF "position" \in far THEN SeenFar(request) ELSE SeenNear(request)
    /\ pc = "limit_y" =>
           /\ cmd.y = request.y
           /\ IF "position" \in far THEN cmd.x \in seen.x ELSE cmd.x = request.x
    /\ pc \in {"limit_x", "limit_y", "limit_orientation"} =>
           /\ IF "orientation" \in far THEN SeenAcross(request) ELSE SeenAlong(request)
           /\ cmd.quat = request.quat
    /\ pc \in {"limit_orientation", "align", "publish"} => PositionFollows
    /\ pc = "align" => QuaternionFollows(cmd.quat)
    /\ pc = "publish" =>
           /\ \E q \in seen.quat : ~Opposed(cmd.quat, q)
           /\ \E q \in Quaternion :
                  QuaternionFollows(q) /\ cmd.quat \in {q, Opposite(q)}

Inv == KindInv /\ FiniteInv /\ SeenInv /\ FollowInv

\* The message's pose and the measured one are of the callback's kind.
LEMMA RequestsAreRequestKind ==
    Pose \subseteq RequestKind /\ Requests \subseteq RequestKind /\ Measured \subseteq Pose
BY GuardAssumption DEF Pose, RequestKind

\* What the callback reads is a pose.
LEMMA CurrentIsAPose ==
    ASSUME KindInv
    PROVE  Current.x \in Place /\ Current.y \in Place /\ Current.quat \in Quaternion
BY RequestsAreRequestKind DEF KindInv, Current, Fields, Pose

\* The guard decides alike on two poses that agree in the fields it looks at.
LEMMA SameDecision ==
    ASSUME NEW p, NEW m, NEW n
    PROVE  /\ m.x = n.x /\ m.y = n.y => (FarPosition(p, m) <=> FarPosition(p, n))
           /\ m.quat = n.quat => (FarOrientation(p, m) <=> FarOrientation(p, n))
BY DEF FarPosition, FarOrientation, SquaredStep

\* No coordinate and no quaternion is NaN.
LEMMA FiniteValues ==
    /\ \A v \in Place : v # NaN
    /\ \A q \in Quaternion : q # NaN
BY GuardAssumption DEF Quaternion

\* The squared distance of two positions is an integer.
LEMMA SquaredStepIsInt ==
    ASSUME NEW p, NEW m, p.x \in Place, p.y \in Place, m.x \in Place, m.y \in Place
    PROVE  SquaredStep(p, m) \in Int
<1> DEFINE dx == p.x - m.x
           dy == p.y - m.y
<1>1. dx \in Int /\ dy \in Int
  <2>1. p.x \in Int /\ p.y \in Int /\ m.x \in Int /\ m.y \in Int
    BY GuardAssumption
  <2> QED
    BY <2>1
<1> HIDE DEF dx, dy
<1>2. dx * dx \in Int /\ dy * dy \in Int
  BY <1>1
<1>3. dx * dx + dy * dy \in Int
  BY <1>2
<1> QED
  BY <1>3 DEF SquaredStep, dx, dy

\* What was seen stays seen, as long as the callback has not published: the parts
\* of the invariant that are about it hold of more values, too.
LEMMA SeenOnlyGrows ==
    ASSUME UNCHANGED <<max_step_guard_enabled, request>>,
           \A f \in Fields : seen[f] \subseteq seen'[f]
    PROVE  /\ SeenNear(request) => SeenNear(request)'
           /\ SeenFar(request) => SeenFar(request)'
           /\ SeenAlong(request) => SeenAlong(request)'
           /\ SeenAcross(request) => SeenAcross(request)'
           /\ \A q : QuaternionFollows(q) => QuaternionFollows(q)'
<1>1. seen.x \subseteq seen'.x /\ seen.y \subseteq seen'.y /\ seen.quat \subseteq seen'.quat
  BY DEF Fields
<1>2. \A m : /\ FarPosition(request, m)' <=> FarPosition(request, m)
             /\ FarOrientation(request, m)' <=> FarOrientation(request, m)
  BY DEF FarPosition, FarOrientation, FinitePosition
<1>3. \A x, y : FarPosition(request, [x |-> x, y |-> y])' <=> FarPosition(request, [x |-> x, y |-> y])
  BY DEF FarPosition, FinitePosition
<1>4. \A q : FarOrientation(request, [quat |-> q])' <=> FarOrientation(request, [quat |-> q])
  BY DEF FarOrientation
<1>5. /\ SeenNear(request) => SeenNear(request)'
      /\ SeenFar(request) => SeenFar(request)'
  BY <1>1, <1>3 DEF SeenNear, SeenFar
<1>6. /\ SeenAlong(request) => SeenAlong(request)'
      /\ SeenAcross(request) => SeenAcross(request)'
  BY <1>1, <1>4 DEF SeenAlong, SeenAcross
<1> QED
  BY <1>1, <1>5, <1>6 DEF QuaternionFollows

\* The seeded reference satisfies the invariant.
LEMMA InitInv ==
    ASSUME Init
    PROVE  Inv
BY RequestsAreRequestKind
   DEF Init, Inv, KindInv, FiniteInv, SeenInv, FollowInv, Fields

\* A step of update preserves the invariant: what it overwrites has been seen.
LEMMA UpdateStep ==
    ASSUME Inv, (\E m \in Measured : UpdatePose(m)) \/ (\E f \in Fields : WriteField(f))
    PROVE  Inv'
<1>1. ASSUME NEW m \in Measured, UpdatePose(m)
      PROVE  Inv'
  <2>1. /\ pending = {} /\ pending' = Fields /\ before' = after /\ after' = m
        /\ UNCHANGED <<max_step_guard_enabled, pc, request, cmd, reading, far, seen>>
    BY <1>1 DEF UpdatePose, callback_vars
  <2>2. KindInv' /\ FiniteInv'
    BY <2>1 DEF Inv, KindInv, FiniteInv, FinitePosition
  <2>3. \A f \in Fields : Current'[f] = Current[f]
    BY <2>1 DEF Current
  <2>4. SeenInv'
    BY <2>1, <2>3 DEF Inv, SeenInv
  <2>5. FollowInv'
    BY <2>1 DEF Inv, FollowInv, PositionFollows, QuaternionFollows, SeenNear, SeenFar,
                SeenAlong, SeenAcross, FarPosition, FarOrientation, FinitePosition
  <2> QED
    BY <2>2, <2>4, <2>5 DEF Inv
<1>2. ASSUME NEW f \in Fields, WriteField(f)
      PROVE  Inv'
  <2>1. /\ f \in pending /\ pending' = pending \ {f}
        /\ seen' = IF pc = "idle" THEN seen ELSE [seen EXCEPT ![f] = @ \union {after[f]}]
        /\ UNCHANGED <<max_step_guard_enabled, before, after, pc, request, cmd, reading, far>>
    BY <1>2 DEF WriteField, callback_vars
  <2>2. \A g \in Fields : /\ seen[g] \subseteq seen'[g]
                          /\ seen'[g] \subseteq seen[g] \union {after[g]}
                          /\ pc # "idle" => after[f] \in seen'[f]
    BY <2>1 DEF Inv, KindInv
  <2>3. seen' = [g \in Fields |-> seen'[g]]
    BY <2>1 DEF Inv, KindInv
  <2>4. after.x \in Place /\ after.y \in Place /\ after.quat \in Quaternion
    BY RequestsAreRequestKind DEF Inv, KindInv, Pose
  <2>5. KindInv' /\ FiniteInv'
    BY <2>1, <2>2, <2>3, <2>4 DEF Inv, KindInv, FiniteInv, FinitePosition, Fields
  <2>6. SeenInv'
    <3>1. \A g \in Fields : g # f => Current'[g] = Current[g]
      BY <2>1 DEF Current
    <3>2. Current'[f] = after[f]
      BY <2>1 DEF Current
    <3>3. \A g \in Fields : pc # "idle" => Current'[g] \in seen'[g]
      BY <2>2, <3>1, <3>2 DEF Inv, SeenInv
    <3>4. pc = "measure_y" => reading \in seen'.x
      BY <2>2 DEF Inv, SeenInv, Fields
    <3> QED
      BY <2>1, <3>3, <3>4 DEF SeenInv
  <2>7. FollowInv'
    <3>1. /\ SeenNear(request) => SeenNear(request)'
          /\ SeenFar(request) => SeenFar(request)'
          /\ SeenAlong(request) => SeenAlong(request)'
          /\ SeenAcross(request) => SeenAcross(request)'
          /\ \A q : QuaternionFollows(q) => QuaternionFollows(q)'
      BY <2>1, <2>2, SeenOnlyGrows
    <3>2. seen.x \subseteq seen'.x /\ seen.y \subseteq seen'.y /\ seen.quat \subseteq seen'.quat
      BY <2>2 DEF Fields
    <3>3. PositionFollows => PositionFollows'
      BY <2>1, <3>1, <3>2 DEF PositionFollows
    <3>4. QuaternionFollows(cmd.quat) => QuaternionFollows(cmd.quat)'
      BY <2>1, <3>1, <3>2 DEF QuaternionFollows
    <3> QED
      BY <2>1, <3>1, <3>2, <3>3, <3>4 DEF Inv, FollowInv
  <2> QED
    BY <2>5, <2>6, <2>7 DEF Inv
<1> QED
  BY <1>1, <1>2

\* Each step of the callback preserves the invariant.
LEMMA CallbackStep ==
    ASSUME Inv,
           (\E r \in Requests : Begin(r)) \/ MeasureX \/ MeasureY \/ MeasureOrientation
             \/ LimitX \/ LimitY \/ LimitOrientation \/ Align \/ Publish
    PROVE  Inv'
<1> DEFINE now == Current
<1>1. now.x \in Place /\ now.y \in Place /\ now.quat \in Quaternion
  BY CurrentIsAPose DEF Inv
<1>2. pc # "idle" => now.x \in seen.x /\ now.y \in seen.y /\ now.quat \in seen.quat
  BY DEF Inv, SeenInv, Fields
<1>4. ASSUME UNCHANGED <<max_step_guard_enabled, request, seen>>
      PROVE  /\ SeenNear(request)' <=> SeenNear(request)
             /\ SeenFar(request)' <=> SeenFar(request)
             /\ SeenAlong(request)' <=> SeenAlong(request)
             /\ SeenAcross(request)' <=> SeenAcross(request)
             /\ \A q : QuaternionFollows(q)' <=> QuaternionFollows(q)
  BY <1>4 DEF SeenNear, SeenFar, SeenAlong, SeenAcross, QuaternionFollows, FarPosition,
              FarOrientation, FinitePosition
<1> HIDE DEF now
<1>5. ASSUME NEW r \in Requests, Begin(r)
      PROVE  Inv'
  <2>1. /\ pc = "idle" /\ pc' = "measure_x" /\ request' = r /\ cmd' = r
        /\ seen' = [f \in Fields |-> {now[f]}]
        /\ UNCHANGED <<max_step_guard_enabled, before, after, pending, reading, far>>
    BY <1>5 DEF Begin, robot_vars, now
  <2>2. r \in RequestKind
    BY RequestsAreRequestKind
  <2>3. KindInv' /\ FiniteInv'
    BY <1>1, <2>1, <2>2 DEF Inv, KindInv, FiniteInv, Fields
  <2>4. SeenInv'
    BY <2>1 DEF SeenInv, Current, now
  <2> QED
    BY <2>1, <2>3, <2>4 DEF Inv, FollowInv
<1>6. ASSUME MeasureX
      PROVE  Inv'
  <2>1. /\ pc = "measure_x" /\ pc' = "measure_y" /\ reading' = now.x
        /\ UNCHANGED <<max_step_guard_enabled, before, after, pending, request, cmd, far, seen>>
    BY <1>6 DEF MeasureX, robot_vars, now
  <2>2. KindInv' /\ FiniteInv'
    BY <1>1, <2>1 DEF Inv, KindInv, FiniteInv
  <2>3. SeenInv'
    BY <1>2, <2>1 DEF Inv, SeenInv, Current
  <2>4. FollowInv'
    BY <2>1 DEF Inv, FollowInv
  <2> QED
    BY <2>2, <2>3, <2>4 DEF Inv
<1>7. ASSUME MeasureY
      PROVE  Inv'
  <2> DEFINE measured == [x |-> reading, y |-> now.y]
  <2>1. /\ pc = "measure_y" /\ pc' = "measure_orientation" /\ reading' = NaN
        /\ far' = (IF FarPosition(cmd, measured) THEN {"position"} ELSE {})
        /\ UNCHANGED <<max_step_guard_enabled, before, after, pending, request, cmd, seen>>
    BY <1>7 DEF MeasureY, robot_vars, now
  <2>2. KindInv'
    BY <2>1 DEF Inv, KindInv
  <2>3. FiniteInv'
    BY <2>1 DEF FiniteInv, FarPosition, FinitePosition
  <2>4. SeenInv'
    BY <2>1 DEF Inv, SeenInv, Current
  <2>5. reading \in seen.x /\ now.y \in seen.y /\ cmd = request
    BY <1>2, <2>1 DEF Inv, SeenInv, FollowInv
  <2>6. IF FarPosition(request, measured) THEN SeenFar(request) ELSE SeenNear(request)
    BY <2>5 DEF SeenFar, SeenNear
  <2> HIDE DEF measured
  <2>7. IF "position" \in far' THEN SeenFar(request) ELSE SeenNear(request)
    BY <2>1, <2>5, <2>6
  <2>8. FollowInv'
    BY <1>4, <2>1, <2>5, <2>7 DEF FollowInv
  <2> QED
    BY <2>2, <2>3, <2>4, <2>8 DEF Inv
<1>8. ASSUME MeasureOrientation
      PROVE  Inv'
  <2>1. /\ pc = "measure_orientation" /\ pc' = "limit_x"
        /\ far' = far \union (IF FarOrientation(cmd, now) THEN {"orientation"} ELSE {})
        /\ UNCHANGED <<max_step_guard_enabled, before, after, pending, request, cmd, reading, seen>>
    BY <1>8 DEF MeasureOrientation, robot_vars, now
  <2>2. KindInv' /\ SeenInv'
    BY <2>1 DEF Inv, KindInv, SeenInv, Current
  <2>3. FiniteInv'
    BY <2>1 DEF Inv, FiniteInv, FarOrientation
  <2>4. cmd = request /\ far \subseteq {"position"} /\ now.quat \in seen.quat
        /\ IF "position" \in far THEN SeenFar(request) ELSE SeenNear(request)
    BY <1>2, <2>1 DEF Inv, FiniteInv, FollowInv
  <2>5. IF FarOrientation(request, now) THEN SeenAcross(request) ELSE SeenAlong(request)
    <3>1. FarOrientation(request, now) <=> FarOrientation(request, [quat |-> now.quat])
      BY SameDecision
    <3> QED
      BY <2>4, <3>1 DEF SeenAcross, SeenAlong
  <2>6. /\ "orientation" \in far' <=> FarOrientation(request, now)
        /\ "position" \in far' <=> "position" \in far
    BY <2>1, <2>4
  <2>7. FollowInv'
    BY <1>4, <2>1, <2>4, <2>5, <2>6 DEF FollowInv
  <2> QED
    BY <2>2, <2>3, <2>7 DEF Inv
<1>9. ASSUME LimitX
      PROVE  Inv'
  <2>1. /\ pc = "limit_x" /\ pc' = "limit_y"
        /\ cmd' = IF "position" \in far THEN [cmd EXCEPT !.x = now.x] ELSE cmd
        /\ UNCHANGED <<max_step_guard_enabled, before, after, pending, request, reading, far, seen>>
    BY <1>9 DEF LimitX, robot_vars, now
  <2>2. /\ cmd \in RequestKind /\ cmd' \in RequestKind /\ cmd'.quat = cmd.quat
        /\ cmd'.y = cmd.y
        /\ cmd'.x = IF "position" \in far THEN now.x ELSE cmd.x
    BY <1>1, <2>1 DEF Inv, KindInv, RequestKind
  <2>3. KindInv' /\ SeenInv'
    BY <2>1, <2>2 DEF Inv, KindInv, SeenInv, Current
  <2>4. FiniteInv'
    BY <1>1, <2>1, <2>2, FiniteValues DEF Inv, FiniteInv
  <2>5. FollowInv'
    BY <1>2, <1>4, <2>1, <2>2 DEF Inv, FollowInv
  <2> QED
    BY <2>3, <2>4, <2>5 DEF Inv
<1>10. ASSUME LimitY
       PROVE  Inv'
  <2>1. /\ pc = "limit_y" /\ pc' = "limit_orientation"
        /\ cmd' = IF "position" \in far THEN [cmd EXCEPT !.y = now.y] ELSE cmd
        /\ UNCHANGED <<max_step_guard_enabled, before, after, pending, request, reading, far, seen>>
    BY <1>10 DEF LimitY, robot_vars, now
  <2>2. /\ cmd \in RequestKind /\ cmd' \in RequestKind /\ cmd'.quat = cmd.quat
        /\ cmd'.x = cmd.x
        /\ cmd'.y = IF "position" \in far THEN now.y ELSE cmd.y
    BY <1>1, <2>1 DEF Inv, KindInv, RequestKind
  <2>3. KindInv' /\ SeenInv'
    BY <2>1, <2>2 DEF Inv, KindInv, SeenInv, Current
  <2>4. FiniteInv'
    BY <1>1, <2>1, <2>2, FiniteValues DEF Inv, FiniteInv, FinitePosition
  <2>5. PositionFollows'
    BY <1>2, <1>4, <2>1, <2>2 DEF Inv, FollowInv, PositionFollows
  <2>6. FollowInv'
    BY <1>4, <2>1, <2>2, <2>5 DEF Inv, FollowInv
  <2> QED
    BY <2>3, <2>4, <2>6 DEF Inv
<1>11. ASSUME LimitOrientation
       PROVE  Inv'
  <2>1. /\ pc = "limit_orientation" /\ pc' = "align"
        /\ cmd' = IF "orientation" \in far THEN [cmd EXCEPT !.quat = now.quat] ELSE cmd
        /\ UNCHANGED <<max_step_guard_enabled, before, after, pending, request, reading, far, seen>>
    BY <1>11 DEF LimitOrientation, robot_vars, now
  <2>2. /\ cmd \in RequestKind /\ cmd'.x = cmd.x /\ cmd'.y = cmd.y
        /\ cmd'.quat = IF "orientation" \in far THEN now.quat ELSE cmd.quat
        /\ cmd' \in RequestKind /\ cmd' \in Pose
    BY <1>1, <2>1, FiniteValues
       DEF Inv, KindInv, FiniteInv, FinitePosition, RequestKind, Pose
  <2>3. KindInv' /\ SeenInv' /\ FiniteInv'
    BY <2>1, <2>2 DEF Inv, KindInv, SeenInv, FiniteInv, Current
  <2>4. PositionFollows'
    BY <1>4, <2>1, <2>2 DEF Inv, FollowInv, PositionFollows
  <2>5. QuaternionFollows(cmd'.quat)
    BY <1>2, <2>1, <2>2 DEF Inv, FollowInv, QuaternionFollows
  <2>6. FollowInv'
    BY <1>4, <2>1, <2>4, <2>5 DEF FollowInv
  <2> QED
    BY <2>3, <2>6 DEF Inv
<1>12. ASSUME Align
       PROVE  Inv'
  <2>1. /\ pc = "align" /\ pc' = "publish"
        /\ cmd' = IF Opposed(cmd.quat, now.quat)
                  THEN [cmd EXCEPT !.quat = Opposite(cmd.quat)] ELSE cmd
        /\ UNCHANGED <<max_step_guard_enabled, before, after, pending, request, reading, far, seen>>
    BY <1>12 DEF Align, robot_vars, now
  <2>2. cmd \in Pose /\ cmd.quat \in Quaternion /\ Opposite(cmd.quat) \in Quaternion
    BY <2>1, OppositeIsQuaternion DEF Inv, FiniteInv, Pose
  <2>3. /\ cmd' \in Pose /\ cmd'.x = cmd.x /\ cmd'.y = cmd.y
        /\ cmd'.quat \in {cmd.quat, Opposite(cmd.quat)}
        /\ ~Opposed(cmd'.quat, now.quat)
    BY <1>1, <2>1, <2>2, AlignedIsNear DEF Pose
  <2>4. KindInv' /\ SeenInv' /\ FiniteInv'
    BY <2>1, <2>3, RequestsAreRequestKind DEF Inv, KindInv, SeenInv, FiniteInv, Current
  <2>5. PositionFollows'
    BY <1>4, <2>1, <2>3 DEF Inv, FollowInv, PositionFollows
  <2>6. QuaternionFollows(cmd.quat)
    BY <2>1 DEF Inv, FollowInv
  <2>7. \E q \in seen.quat : ~Opposed(cmd'.quat, q)
    BY <1>2, <2>1, <2>3
  <2>8. \E q \in Quaternion : QuaternionFollows(q)' /\ cmd'.quat \in {q, Opposite(q)}
    BY <1>4, <2>1, <2>2, <2>3, <2>6
  <2>9. FollowInv'
    BY <2>1, <2>5, <2>7, <2>8 DEF FollowInv
  <2> QED
    BY <2>4, <2>9 DEF Inv
<1>13. ASSUME Publish
       PROVE  Inv'
  <2>1. /\ pc = "publish" /\ pc' = "idle" /\ request' = cmd /\ far' = {}
        /\ seen' = [f \in Fields |-> {}]
        /\ UNCHANGED <<max_step_guard_enabled, before, after, pending, cmd, reading>>
    BY <1>13 DEF Publish, robot_vars
  <2>2. cmd \in Pose
    BY <2>1 DEF Inv, FiniteInv
  <2> QED
    BY <2>1, <2>2 DEF Inv, KindInv, FiniteInv, SeenInv, FollowInv, Fields
<1> QED
  BY <1>5, <1>6, <1>7, <1>8, <1>9, <1>10, <1>11, <1>12, <1>13

\* The invariant holds of every reachable state.
THEOREM Invariant == Spec => []Inv
<1>1. Init => Inv
  BY InitInv
<1>2. Inv /\ [Next]_vars => Inv'
  <2> SUFFICES ASSUME Inv, [Next]_vars
               PROVE  Inv'
    OBVIOUS
  <2>1. CASE Next
    BY <2>1, UpdateStep, CallbackStep DEF Next
  <2>2. CASE UNCHANGED vars
    <3>1. UNCHANGED <<max_step_guard_enabled, before, after, pending, pc, request, cmd,
                      reading, far, seen>>
      BY <2>2 DEF vars, robot_vars, callback_vars
    <3>2. KindInv' /\ FiniteInv' /\ SeenInv'
      BY <3>1 DEF Inv, KindInv, FiniteInv, SeenInv, Current, FinitePosition
    <3>3. FollowInv'
      BY <3>1 DEF Inv, FollowInv, PositionFollows, QuaternionFollows, SeenNear, SeenFar,
                  SeenAlong, SeenAcross, FarPosition, FarOrientation, FinitePosition
    <3> QED
      BY <3>2, <3>3 DEF Inv
  <2> QED
    BY <2>1, <2>2
<1> QED
  BY <1>1, <1>2, PTL DEF Spec

-----------------------------------------------------------------------------
(* The theorems                                                            *)

\* What the guard hands on is a finite pose, whatever the message asked for, and
\* every variable holds a value of its kind.
THEOREM TypeCorrect == Spec => []TypeOK
<1>1. Inv => TypeOK
  BY RequestsAreRequestKind DEF Inv, KindInv, FiniteInv, TypeOK
<1> QED
  BY <1>1, Invariant, PTL

\* The reference published is within both limits of where the robot was while the
\* callback ran, and on its quaternion's side, however the robot moved meanwhile.
THEOREM NearTheRobotHolds == Spec => []NearTheRobot
<1>1. ASSUME Inv, pc = "publish", max_step_guard_enabled
      PROVE  \E x \in seen.x, y \in seen.y :
                 SquaredStep(cmd, [x |-> x, y |-> y]) <= MaxStep * MaxStep
  <2>0. /\ seen.x \subseteq Place /\ seen.y \subseteq Place /\ cmd \in Pose
        /\ cmd.x \in Place /\ cmd.y \in Place
    BY <1>1 DEF Inv, KindInv, FiniteInv, Pose
  <2>1. CASE cmd.x = request.x /\ cmd.y = request.y /\ SeenNear(request)
    <3>1. PICK x \in seen.x, y \in seen.y : ~FarPosition(request, [x |-> x, y |-> y])
      BY <2>1 DEF SeenNear
    <3> DEFINE m == [x |-> x, y |-> y]
    <3>2. SquaredStep(request, m) = SquaredStep(cmd, m)
      BY <2>1 DEF SquaredStep
    <3>3. ~(SquaredStep(cmd, m) > MaxStep * MaxStep)
      BY <1>1, <3>1, <3>2 DEF FarPosition
    <3>4. SquaredStep(cmd, m) \in Int /\ MaxStep * MaxStep \in Int
      <4>1. m.x \in Place /\ m.y \in Place
        BY <2>0
      <4>2. MaxStep * MaxStep \in Int
        BY GuardAssumption
      <4> HIDE DEF m
      <4> QED
        BY <2>0, <4>1, <4>2, SquaredStepIsInt
    <3>5. SquaredStep(cmd, m) <= MaxStep * MaxStep
      BY <3>3, <3>4
    <3> QED
      BY <3>5
  <2>2. CASE cmd.x \in seen.x /\ cmd.y \in seen.y
    <3> DEFINE m == [x |-> cmd.x, y |-> cmd.y]
    <3>1. SquaredStep(cmd, m) = 0
      <4>1. cmd.x \in Int /\ cmd.y \in Int
        BY <2>0, GuardAssumption
      <4>2. cmd.x - cmd.x = 0 /\ cmd.y - cmd.y = 0
        BY <4>1
      <4> QED
        BY <4>2 DEF SquaredStep
    <3>2. MaxStep * MaxStep >= 0
      BY GuardAssumption
    <3>3. SquaredStep(cmd, m) <= MaxStep * MaxStep
      BY <3>1, <3>2
    <3> QED
      BY <2>2, <3>3
  <2> QED
    BY <1>1, <2>1, <2>2 DEF Inv, FollowInv, PositionFollows
<1>2. ASSUME Inv, pc = "publish", max_step_guard_enabled
      PROVE  \E q \in seen.quat : WithinTurn(cmd.quat, q)
  <2>1. seen.quat \subseteq Quaternion /\ cmd.quat \in Quaternion
    BY <1>2 DEF Inv, KindInv, FiniteInv, Pose
  <2>2. PICK q \in Quaternion : QuaternionFollows(q) /\ cmd.quat \in {q, Opposite(q)}
    BY <1>2 DEF Inv, FollowInv
  <2>3. \E m \in seen.quat : Turn(q, m) <= MaxTurn
    <3>1. CASE q = request.quat /\ SeenAlong(request)
      <4>1. PICK m \in seen.quat : ~FarOrientation(request, [quat |-> m])
        BY <3>1 DEF SeenAlong
      <4>2. ~(Turn(q, m) > MaxTurn)
        BY <1>2, <3>1, <4>1 DEF FarOrientation
      <4>3. Turn(q, m) \in Int
        BY <2>1, <2>2, HalfTurnAssumption DEF Turn, Arc, Quaternion
      <4>4. Turn(q, m) <= MaxTurn
        BY <4>2, <4>3, GuardAssumption
      <4> QED
        BY <4>4
    <3>2. CASE q \in seen.quat
      BY <2>1, <3>2, TurnOfOpposite, GuardAssumption
    <3> QED
      BY <2>2, <3>1, <3>2 DEF QuaternionFollows
  <2>4. PICK m \in seen.quat : Turn(q, m) <= MaxTurn
    BY <2>3
  <2>5. Turn(cmd.quat, m) <= MaxTurn
    BY <2>1, <2>2, <2>4, TurnOfOpposite
  <2> QED
    BY <2>1, <2>5, TurnIsWithinTurn
<1>3. Inv => NearTheRobot
  BY <1>1, <1>2 DEF NearTheRobot, Inv, FollowInv
<1> QED
  BY <1>3, Invariant, PTL

\* The guard leaves alone what is near, of a robot that stands still.
THEOREM NearIsKeptHolds == Spec => []NearIsKept
<1>1. ASSUME Inv, pc = "publish", Still
      PROVE  /\ SeenNear(request) => ~FarPosition(request, after)
             /\ SeenFar(request) => FarPosition(request, after)
             /\ SeenAcross(request) => FarOrientation(request, after)
  <2>1. seen.x = {after.x} /\ seen.y = {after.y} /\ seen.quat = {after.quat}
    BY <1>1 DEF Still, Fields
  <2>2. /\ FarPosition(request, [x |-> after.x, y |-> after.y]) <=> FarPosition(request, after)
        /\ FarOrientation(request, [quat |-> after.quat]) <=> FarOrientation(request, after)
    BY SameDecision
  <2> QED
    BY <2>1, <2>2 DEF SeenNear, SeenFar, SeenAcross
<1>2. ASSUME Inv, pc = "publish", Still, request.quat # NaN,
             WithinTurn(request.quat, after.quat)
      PROVE  cmd.quat \in {request.quat, Opposite(request.quat)}
  <2>1. request.quat \in Quaternion /\ after.quat \in Quaternion
    BY <1>2, RequestsAreRequestKind DEF Inv, KindInv, RequestKind, Pose
  <2>2. Turn(request.quat, after.quat) <= MaxTurn
    BY <2>1, <1>2, TurnIsWithinTurn
  <2>3. Turn(request.quat, after.quat) \in Int
    BY <2>1, HalfTurnAssumption DEF Turn, Arc, Quaternion
  <2>4. ~FarOrientation(request, after)
    BY <1>2, <2>2, <2>3, GuardAssumption DEF FarOrientation
  <2> QED
    BY <1>1, <1>2, <2>4 DEF Inv, FollowInv, QuaternionFollows
<1>3. ASSUME Inv, pc = "publish", Still, ~FarPosition(request, after)
      PROVE  cmd.x = request.x /\ cmd.y = request.y
  BY <1>1, <1>3 DEF Inv, FollowInv, PositionFollows
<1>4. Inv => NearIsKept
  BY <1>2, <1>3 DEF NearIsKept
<1> QED
  BY <1>4, Invariant, PTL

\* The first rotation the law pulls along is within the guard's limit.
THEOREM FirstTurnIsBoundedHolds == Spec => []FirstTurnIsBounded
<1>1. ASSUME Inv, NearTheRobot, pc = "publish", max_step_guard_enabled
      PROVE  \E q \in seen.quat : RotationError(q, cmd.quat) \in -MaxTurn .. MaxTurn
  <2>1. seen.quat \subseteq Quaternion /\ cmd.quat \in Quaternion
    BY <1>1 DEF Inv, KindInv, FiniteInv, Pose
  <2>2. PICK q \in seen.quat : Turn(cmd.quat, q) <= MaxTurn
    BY <1>1, <2>1, TurnIsWithinTurn DEF NearTheRobot
  <2>3. Turn(cmd.quat, q) \in Nat
    BY <2>1, HalfTurnAssumption DEF Turn, Arc, Quaternion
  <2>4. RotationError(q, cmd.quat) \in -MaxTurn .. MaxTurn
    BY <2>1, <2>2, <2>3, LawTurnsWhatIsMeasured, GuardAssumption
  <2> QED
    BY <2>4
<1>2. Inv /\ NearTheRobot => FirstTurnIsBounded
  BY <1>1 DEF FirstTurnIsBounded
<1> QED
  BY <1>2, Invariant, NearTheRobotHolds, PTL

\* The law turns the robot to the reference the short way, wherever both are.
THEOREM TurnsTheShortWayHolds == Spec => []TurnsTheShortWay
<1>1. Inv => TurnsTheShortWay
  <2> SUFFICES ASSUME Inv, pc = "idle", pending = {}
               PROVE  TurnsTheShortWay
    BY DEF TurnsTheShortWay
  <2>1. after.quat \in Quaternion /\ cmd.quat \in Quaternion
    BY RequestsAreRequestKind DEF Inv, KindInv, FiniteInv, Pose
  <2> QED
    BY <2>1, LawTurnsTheShortWay DEF TurnsTheShortWay
<1> QED
  BY <1>1, Invariant, PTL

\* The dither's bias and the law's spring bring the robot nearer to the reference.
THEOREM TorquesTurnTowardHolds == Spec => []TorquesTurnToward
<1>1. Inv => TorquesTurnToward
  <2> SUFFICES ASSUME Inv, pc = "idle", pending = {}
               PROVE  TorquesTurnToward
    BY DEF TorquesTurnToward
  <2>1. after.quat \in Quaternion /\ cmd.quat \in Quaternion
    BY RequestsAreRequestKind DEF Inv, KindInv, FiniteInv, Pose
  <2> QED
    BY <2>1, SameSign, ErrorTurnsToward DEF TorquesTurnToward
<1> QED
  BY <1>1, Invariant, PTL

-----------------------------------------------------------------------------
(* What a lock would give                                                  *)

\* The guard copies the measured position as if a lock kept update from writing
\* state_buffer_ meanwhile: it begins with both coordinates of one pose, and update
\* writes nothing before the second one is copied.
CopiesUndisturbed ==
    /\ pc = "limit_x" /\ pc' # pc => ("x" \in pending <=> "y" \in pending)
    /\ pc = "limit_y" => UNCHANGED robot_vars

\* The first coordinate put in place is the one update would still find there.
HalfCopied ==
    pc = "limit_y" /\ "position" \in far =>
        cmd.x = Current.x /\ ("x" \in pending <=> "y" \in pending)

\* What is left of the log line "using the current end-effector position" (see
\* ReplacedByAPosition, which is false): the position put in place of a far one is
\* one the robot model reports if the two coordinates are copied undisturbed.
THEOREM ReplacedUnderALock ==
    Spec /\ [][CopiesUndisturbed]_vars => ReplacedByAPosition
<1>1. Init => HalfCopied
  BY DEF Init, HalfCopied
<1>2. Inv /\ HalfCopied /\ [Next /\ CopiesUndisturbed]_vars => HalfCopied'
  <2> SUFFICES ASSUME Inv, HalfCopied, [Next /\ CopiesUndisturbed]_vars,
                      pc' = "limit_y", "position" \in far'
               PROVE  (cmd.x = Current.x /\ ("x" \in pending <=> "y" \in pending))'
    BY DEF HalfCopied
  <2>1. CASE LimitX /\ CopiesUndisturbed
    <3>1. /\ cmd' = [cmd EXCEPT !.x = Current.x] /\ cmd \in RequestKind
          /\ Current' = Current /\ pending' = pending
          /\ "x" \in pending <=> "y" \in pending
      BY <2>1 DEF LimitX, CopiesUndisturbed, robot_vars, Current, Inv, KindInv
    <3> QED
      BY <3>1 DEF RequestKind
  <2>2. CASE pc = "limit_y" /\ UNCHANGED <<before, after, pending, cmd, far>>
    BY <2>2 DEF HalfCopied, Current
  <2>3. \/ LimitX /\ CopiesUndisturbed
        \/ pc = "limit_y" /\ UNCHANGED <<before, after, pending, cmd, far>>
    BY DEF Next, CopiesUndisturbed, UpdatePose, WriteField, Begin, MeasureX, MeasureY,
           MeasureOrientation, LimitX, LimitY, LimitOrientation, Align, Publish, vars,
           robot_vars, callback_vars
  <2> QED
    BY <2>1, <2>2, <2>3
<1>3. Inv /\ HalfCopied /\ [Next]_vars =>
          [pc = "limit_y" /\ pc' # pc /\ "position" \in far =>
               \E m \in Measured : PositionOf(cmd') = PositionOf(m)]_vars
  <2> SUFFICES ASSUME Inv, HalfCopied, [Next]_vars, pc = "limit_y", pc' # pc,
                      "position" \in far
               PROVE  \E m \in Measured : PositionOf(cmd') = PositionOf(m)
    OBVIOUS
  <2>1. LimitY
    BY DEF Next, UpdatePose, WriteField, Begin, MeasureX, MeasureY, MeasureOrientation,
           LimitX, LimitOrientation, Align, Publish, vars, callback_vars
  <2>2. cmd' = [cmd EXCEPT !.y = Current.y] /\ cmd \in RequestKind
    BY <2>1 DEF LimitY, Inv, KindInv
  <2>3. cmd'.x = Current.x /\ cmd'.y = Current.y
    BY <2>2 DEF HalfCopied, RequestKind
  <2>4. \/ Current.x = before.x /\ Current.y = before.y
        \/ Current.x = after.x /\ Current.y = after.y
    BY DEF HalfCopied, Current, Fields
  <2> QED
    BY <2>3, <2>4 DEF PositionOf, Inv, KindInv
<1> QED
  BY <1>1, <1>2, <1>3, Invariant, PTL DEF Spec, ReplacedByAPosition
=============================================================================
