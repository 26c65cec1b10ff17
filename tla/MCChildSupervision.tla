------------------------ MODULE MCChildSupervision ------------------------
(* ChildSupervision for TLC: every constant is a number of the .cfg. *)
EXTENDS ChildSupervision
============================================================================
