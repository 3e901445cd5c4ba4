------------------------------ MODULE MCPanel ------------------------------
(* An instance of Panel for TLC. *)
EXTENDS Panel

CONSTANTS r1, r2, c1
=============================================================================
