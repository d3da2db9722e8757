-------------------------- MODULE ControllerSession --------------------------
(***************************************************************************)
(* What both wrappers promise of a session, from one activation to the     *)
(* deactivation that ends it: the activation seeds a command of its own,   *)
(* the control loop acts on nothing but what a buffer holds or held, a     *)
(* late callback brings back a command of an earlier session only by       *)
(* overlapping the seeding, and outside a session the joints are at rest.  *)
(*                                                                         *)
(* A command is the time it was stamped with.  What a wrapper keeps beside *)
(* the buffer, and how it computes torques, is its own affair.             *)
(***************************************************************************)
EXTENDS Naturals, TLAPS

VARIABLES
    phase,      \* "rest", "stamped", "seeded" or "active"
    since,      \* when the session began
    newest,     \* the command in the buffer
    acts,       \* the command the control loop acts on
    busy,       \* a callback is under way
    disturbed,  \* a callback overlapped the seeding and nothing has mended it
    torque      \* what the joints were last given: "zero" or "driven"

sessionVars == <<phase, since, newest, acts, busy, disturbed, torque>>

Init ==
    /\ phase = "rest"
    /\ since = 0 /\ newest = 0 /\ acts = 0
    /\ busy = FALSE /\ disturbed = FALSE
    /\ torque = "zero"

Begin ==
    /\ phase = "rest"
    /\ phase' = "stamped"
    /\ since' \in Nat /\ since' >= since
    /\ UNCHANGED <<newest, acts, busy, disturbed, torque>>

\* A wrapper may seed and become active, or refuse, in one step.
Seed ==
    /\ phase = "stamped"
    /\ phase' \in {"seeded", "active", "rest"}
    /\ newest' = since
    /\ disturbed' = busy
    /\ UNCHANGED <<since, acts, busy, torque>>

Activate ==
    /\ phase = "seeded"
    /\ phase' = "active"
    /\ UNCHANGED <<since, newest, acts, busy, disturbed, torque>>

Refuse ==
    /\ phase = "seeded"
    /\ phase' = "rest"
    /\ UNCHANGED <<since, newest, acts, busy, disturbed, torque>>

Deactivate ==
    /\ phase = "active"
    /\ phase' = "rest"
    /\ torque' = "zero"
    /\ UNCHANGED <<since, newest, acts, busy, disturbed>>

\* A cycle acts on the newest command, or goes on with the one it had.
Cycle ==
    /\ phase = "active"
    /\ acts' \in {acts, newest}
    /\ torque' \in {"zero", "driven"}
    /\ UNCHANGED <<phase, since, newest, busy, disturbed>>

Enter ==
    /\ ~busy
    /\ busy' = TRUE
    /\ \/ disturbed' = disturbed
       \/ disturbed' = TRUE /\ phase = "seeded"
    /\ UNCHANGED <<phase, since, newest, acts, torque>>

\* Outside a disturbed session a callback leaves a command of the session; in
\* one, a command of the session may mend it.
Leave ==
    /\ busy
    /\ busy' = FALSE
    /\ newest' \in Nat
    /\ phase \in {"seeded", "active"} /\ ~disturbed => newest' >= since
    /\ \/ disturbed' = disturbed
       \/ disturbed' = FALSE /\ newest' >= since
    /\ UNCHANGED <<phase, since, acts, torque>>

Next ==
    \/ Begin \/ Seed \/ Activate \/ Refuse \/ Deactivate
    \/ Cycle \/ Enter \/ Leave

Spec == Init /\ [][Next]_sessionVars

-----------------------------------------------------------------------------
(* What follows from the promise                                           *)

\* Every variable holds a value of its kind.
SessionTypeOK ==
    /\ phase \in {"rest", "stamped", "seeded", "active"}
    /\ since \in Nat /\ newest \in Nat /\ acts \in Nat
    /\ busy \in BOOLEAN /\ disturbed \in BOOLEAN
    /\ torque \in {"zero", "driven"}

\* The joints are at rest outside a session.
RestsOutside == torque # "zero" => phase = "active"

\* The buffer of a seeded or active wrapper holds a command of its session.
HoldsOwnCommand == phase \in {"seeded", "active"} /\ ~disturbed => newest >= since

\* Once the control loop acts on a command of its session it never falls back
\* to an earlier one, although its reads of the buffer may miss.
NeverFallsBack ==
    [][phase = "active" /\ ~disturbed /\ acts >= since => acts' >= since']_sessionVars

-----------------------------------------------------------------------------
(* Proofs                                                                  *)

\* No step takes a variable out of its type, drives the joints outside a
\* session, or puts an earlier command into an undisturbed one.
LEMMA SessionStep ==
    ASSUME SessionTypeOK, RestsOutside, HoldsOwnCommand, [Next]_sessionVars
    PROVE  SessionTypeOK' /\ RestsOutside' /\ HoldsOwnCommand'
<1> USE DEF SessionTypeOK, RestsOutside, HoldsOwnCommand
<1>1. CASE Begin
    BY <1>1 DEF Begin
<1>2. CASE Seed
    BY <1>2 DEF Seed
<1>3. CASE Activate \/ Refuse \/ Deactivate
    BY <1>3 DEF Activate, Refuse, Deactivate
<1>4. CASE Cycle
    BY <1>4 DEF Cycle
<1>5. CASE Enter
  <2>1. UNCHANGED <<phase, since, newest, acts, torque>> /\ busy' = TRUE
      BY <1>5 DEF Enter
  <2>2. disturbed' = disturbed \/ disturbed' = TRUE
      BY <1>5, Zenon DEF Enter
  <2>3. disturbed' \in BOOLEAN
      BY <2>2, Zenon
  <2>4. HoldsOwnCommand'
      BY <2>1, <2>2
  <2> QED BY <2>1, <2>3, <2>4
<1>6. CASE Leave
  <2>1. UNCHANGED <<phase, since, acts, torque>> /\ busy' = FALSE /\ newest' \in Nat
      BY <1>6 DEF Leave
  <2>2. disturbed' \in BOOLEAN
      BY <1>6, Zenon DEF Leave
  <2>3. HoldsOwnCommand'
      BY <1>6 DEF Leave
  <2> QED BY <2>1, <2>2, <2>3
<1>7. CASE UNCHANGED sessionVars
    BY <1>7 DEF sessionVars
<1> QED BY <1>1, <1>2, <1>3, <1>4, <1>5, <1>6, <1>7 DEF Next

\* Types, rest outside a session and own commands inside it.
THEOREM SessionSafe == Spec => [](SessionTypeOK /\ RestsOutside /\ HoldsOwnCommand)
<1>1. Init => SessionTypeOK /\ RestsOutside /\ HoldsOwnCommand
  <2> SUFFICES ASSUME Init PROVE SessionTypeOK /\ RestsOutside /\ HoldsOwnCommand
      OBVIOUS
  <2>1. busy \in BOOLEAN /\ disturbed \in BOOLEAN
      BY Zenon DEF Init
  <2> QED BY <2>1 DEF Init, SessionTypeOK, RestsOutside, HoldsOwnCommand
<1>2. SessionTypeOK /\ RestsOutside /\ HoldsOwnCommand /\ [Next]_sessionVars
          => (SessionTypeOK /\ RestsOutside /\ HoldsOwnCommand)'
    BY SessionStep
<1> QED BY <1>1, <1>2, PTL DEF Spec

\* The control loop never falls back to a command of an earlier session.
THEOREM NeverFallsBackHolds == Spec => NeverFallsBack
<1>1. ASSUME SessionTypeOK /\ RestsOutside /\ HoldsOwnCommand, [Next]_sessionVars
      PROVE  [phase = "active" /\ ~disturbed /\ acts >= since => acts' >= since']_sessionVars
  <2> SUFFICES ASSUME Next, phase = "active", ~disturbed, acts >= since
               PROVE  acts' >= since'
      BY <1>1
  <2>1. acts' \in {acts, newest} /\ since' = since
      BY DEF Next, Begin, Seed, Activate, Refuse, Deactivate, Cycle, Enter, Leave
  <2> QED BY <1>1, <2>1 DEF HoldsOwnCommand
<1> QED BY <1>1, SessionSafe, PTL DEF Spec, NeverFallsBack
=============================================================================
