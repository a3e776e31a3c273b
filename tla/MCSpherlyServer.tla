-------------------------- MODULE MCSpherlyServer --------------------------
(* The constraint of the run on SpherlyServer in which requests do not     *)
(* overlap. *)
EXTENDS SpherlyServer

Constraint == Sequential
=============================================================================
