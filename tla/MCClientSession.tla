-------------------------- MODULE MCClientSession --------------------------
(* Instances of ClientSession for model checking. *)
EXTENDS ClientSession
=============================================================================
