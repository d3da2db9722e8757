---------------------------- MODULE PluginLifetime ----------------------------
(***************************************************************************)
(* What the wrapper promises about the shared libraries it loads           *)
(* controllers from: one library at a time, and the object it made lives   *)
(* only while its code is mapped.                                          *)
(***************************************************************************)
EXTENDS TLAPS

CONSTANT Library

VARIABLE phase   \* "closed", "mapped", or "alive": mapped, and its object exists

Init == phase = [l \in Library |-> "closed"]

Map(l) ==
    /\ \A k \in Library : phase[k] = "closed"
    /\ phase' = [phase EXCEPT ![l] = "mapped"]

Create(l) == phase[l] = "mapped" /\ phase' = [phase EXCEPT ![l] = "alive"]

Destroy(l) == phase[l] = "alive" /\ phase' = [phase EXCEPT ![l] = "mapped"]

Unmap(l) == phase[l] = "mapped" /\ phase' = [phase EXCEPT ![l] = "closed"]

Next == \E l \in Library : Map(l) \/ Create(l) \/ Destroy(l) \/ Unmap(l)

Spec == Init /\ [][Next]_phase

-----------------------------------------------------------------------------

PhaseOK == phase \in [Library -> {"closed", "mapped", "alive"}]

\* No two libraries are mapped at once, not even while one controller replaces
\* another.
OneAtATime ==
    \A k, l \in Library : phase[k] # "closed" /\ phase[l] # "closed" => k = l

\* From now on an object may only go away while its library stays mapped.
CodeOutlivesObject ==
    [][\A l \in Library : phase[l] = "alive" => phase'[l] # "closed"]_phase

\* The slot holds one library at a time, for any libraries.
THEOREM OneAtATimeHolds == Spec => [](PhaseOK /\ OneAtATime)
<1>1. Init => PhaseOK /\ OneAtATime
    BY DEF Init, PhaseOK, OneAtATime
<1>2. PhaseOK /\ OneAtATime /\ [Next]_phase => PhaseOK' /\ OneAtATime'
  <2> SUFFICES ASSUME PhaseOK, OneAtATime, [Next]_phase PROVE PhaseOK' /\ OneAtATime'
      OBVIOUS
  <2>1. ASSUME NEW l \in Library, Map(l) PROVE PhaseOK' /\ OneAtATime'
      BY <2>1 DEF PhaseOK, OneAtATime, Map
  <2>2. ASSUME NEW l \in Library, Create(l) \/ Destroy(l) PROVE PhaseOK' /\ OneAtATime'
      BY <2>2 DEF PhaseOK, OneAtATime, Create, Destroy
  <2>3. ASSUME NEW l \in Library, Unmap(l) PROVE PhaseOK' /\ OneAtATime'
      BY <2>3 DEF PhaseOK, OneAtATime, Unmap
  <2> QED
      BY <2>1, <2>2, <2>3 DEF Next, PhaseOK, OneAtATime
<1> QED
    BY <1>1, <1>2, PTL DEF Spec

\* Code is never unmapped under an object made from it.
THEOREM CodeOutlivesObjectHolds == Spec => CodeOutlivesObject
<1>1. ASSUME PhaseOK, [Next]_phase
      PROVE  [\A l \in Library : phase[l] = "alive" => phase'[l] # "closed"]_phase
    BY <1>1 DEF PhaseOK, Next, Map, Create, Destroy, Unmap
<1> QED
    BY <1>1, OneAtATimeHolds, PTL DEF Spec, CodeOutlivesObject
=============================================================================
