----------------------------- MODULE MCGateway -----------------------------
(* An instance of Gateway for TLC. *)
EXTENDS Gateway

CONSTANTS c1, near, far, local

(* Two static back ends and one local model. *)
TrioNodes == {near, far, local}
TrioWeights == [n \in TrioNodes |-> IF n = near THEN 2 ELSE 1]
TrioLists == {{near, far}, {near}}
=============================================================================
