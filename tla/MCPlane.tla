------------------------------ MODULE MCPlane ------------------------------
(* Instances of the command plane for TLC. *)
EXTENDS CommandPlane
=============================================================================
