------------------------------ MODULE FanOutMC ------------------------------
(* Instances of FanOut for TLC. *)
EXTENDS FanOut

(* A task that registers, then a block. *)
MCKind == <<"task", "block">>
=============================================================================
