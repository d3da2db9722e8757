----------------------------- MODULE MCStepGuard -----------------------------
(* A small instance of StepGuard for TLC. *)
EXTENDS StepGuard

MCPlace == 0 .. 2

\* Three poses that differ from each other in every field; the last two have
\* quaternions on either side of the first one's.
MCMeasured ==
    {[x |-> 0, y |-> 0, quat |-> 0], [x |-> 1, y |-> 1, quat |-> 1], [x |-> 2, y |-> 0, quat |-> 7]}

\* Positions near and far, every quaternion, and what is not finite.
MCRequests ==
    [x : {0, 2, NaN}, y : {0, 1}, quat : Quaternion \union {NaN}]
=============================================================================
