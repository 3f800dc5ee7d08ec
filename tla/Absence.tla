------------------------------ MODULE Absence ------------------------------
(* What is null or undefined in the code, in the modules that a run        *)
(* composes.                                                               *)
CONSTANT Null
=============================================================================
