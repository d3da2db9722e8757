------------------------------- MODULE Numbers -------------------------------
(***************************************************************************)
(* Floating-point numbers as far as the compensation stages tell them      *)
(* apart: integers and one value that is not finite and absorbs all others. *)
(* That the sum of finite numbers may overflow is left out.                *)
(***************************************************************************)
EXTENDS Integers

CONSTANT NaN

ASSUME NaNAssumption == NaN \notin Int

Number == Int \union {NaN}

Finite(x) == x # NaN

Plus(x, y) == IF Finite(x) /\ Finite(y) THEN x + y ELSE NaN

\* A vector has only finite entries.
AllFinite(vector) == \A i \in DOMAIN vector : Finite(vector[i])
=============================================================================
