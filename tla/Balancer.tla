------------------------------ MODULE Balancer ------------------------------
(***************************************************************************)
(* The load balancer (internal/balancer): the pool of back ends and the    *)
(* number of requests in flight it counts for each of them.  Every         *)
(* operation is one bb.mu section.                                         *)
(***************************************************************************)
EXTENDS Integers

CONSTANTS
  Node,       \* the names of back ends: those of backends.list and local-<model>
  Weight      \* Weight[n], at least 1 (config.go sets an absent weight to 1)

ASSUME WeightAssumption == Weight \in [Node -> Nat \ {0}]

VARIABLES
  pool,       \* DOMAIN of bb.backends
  count       \* bb.inflight, 0 for a node without an entry

balVars == <<pool, count>>

(* Mutant: the count of a node that leaves is kept. *)
UpdateKeeps(nodes) == pool' = nodes /\ UNCHANGED count

(* updateBalancer: the counts of nodes that left the pool are forgotten. *)
Update(nodes) ==
  /\ pool' = nodes
  /\ count' = [n \in Node |-> IF n \in nodes THEN count[n] ELSE 0]

(* Enter and Leave ignore a node that is not in the pool. *)
Enter(n) ==
  /\ count' = IF n \in pool THEN [count EXCEPT ![n] = @ + 1] ELSE count
  /\ UNCHANGED pool

(* Mutant: no floor. *)
LeaveNoFloor(n) ==
  /\ count' = IF n \in pool THEN [count EXCEPT ![n] = @ - 1] ELSE count
  /\ UNCHANGED pool

Leave(n) ==
  /\ count' = IF n \in pool /\ count[n] > 0 THEN [count EXCEPT ![n] = @ - 1] ELSE count
  /\ UNCHANGED pool

(* selectLeastLoaded: the nodes of least load per weight among the eligible ones;  *)
(* the rotation of the configured strategy picks one of those that tie.            *)
LeastLoaded(elig) ==
  LET E == elig \cap pool
  IN  {n \in E : \A m \in E : count[n] * Weight[m] <= count[m] * Weight[n]}
=============================================================================
