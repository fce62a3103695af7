------------------------------ MODULE LinearMC ------------------------------
(* Instances of Linear for TLC. *)
EXTENDS Linear

(* A task that registers, a block, and a task that may read what the first   *)
(* one registered.                                                           *)
MCKind == <<"task", "block", "task">>
=============================================================================
