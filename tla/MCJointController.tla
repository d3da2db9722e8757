-------------------------- MODULE MCJointController --------------------------
(* A small instance of JointController for TLC. *)
EXTENDS JointController
=============================================================================
