---------------------------- MODULE MCScheduler ----------------------------
(* Instances of Scheduler for TLC. *)
EXTENDS SchedulerProperties, TLC

CONSTANTS c1, c2, c3, coder, coder2, group, resident, demand, demand2, gpu0, gpu1

-----------------------------------------------------------------------------
(* Two coding models on different gpus, an on-demand model on the first gpu and *)
(* another one that needs none.                                                *)
DemandModels == {coder, coder2, demand, demand2}
DemandGpu ==
  [m \in DemandModels |-> CASE m = coder2 -> gpu1 [] m = demand2 -> NoGpu [] OTHER -> gpu0]
DemandPort ==
  [m \in DemandModels |-> CASE m = coder -> 1 [] m = coder2 -> 2 [] m = demand -> 3 [] OTHER -> 4]

(* One coding model and two on-demand models on its gpu. *)
CoderModels == {coder, demand, demand2}
CoderGpu == [m \in CoderModels |-> gpu0]
CoderPort == [m \in CoderModels |-> CASE m = coder -> 1 [] m = demand -> 2 [] OTHER -> 3]

(* A coding model shares its gpu with one group member; the other is resident. *)
GroupModels == {coder, group, resident}
GroupGpu == [m \in GroupModels |-> IF m = resident THEN gpu1 ELSE gpu0]
GroupPort == [m \in GroupModels |-> CASE m = coder -> 1 [] m = group -> 2 [] OTHER -> 3]

(* A coding model and the only member of the group, on one gpu. *)
PairModels == {coder, group}
PairGpu == [m \in PairModels |-> gpu0]
PairPort == [m \in PairModels |-> IF m = coder THEN 1 ELSE 2]

(* One coding model and no group. *)
LoneModels == {coder}
LoneGpu == [m \in LoneModels |-> gpu0]
LonePort == [m \in LoneModels |-> 1]

(* Requests come when Start is done.  Before that none could enter a switch, restart *)
(* or sleep of its own without overlapping Start's.                                  *)
StartFirst == me[Starter].pc # "done" => \A c \in Caller : me[c].pc = "idle"

Alike == Permutations(Caller \ Panel)
=============================================================================
