----------------------- MODULE MCCartesianCommandPath -----------------------
(* A small instance of CartesianCommandPath for TLC. *)
EXTENDS CartesianCommandPath

CONSTANTS none, soft

\* init_k_pos and init_k_ori are positive: both blocks start soft.
MCInitStiffness == [b \in Block |-> soft]
=============================================================================
