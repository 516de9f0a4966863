------------------------------- MODULE MCHandle -------------------------------
(* Instances of Handle for TLC. *)
EXTENDS Handle

CONSTANTS f1, f2

===============================================================================
