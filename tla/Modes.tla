------------------------------- MODULE Modes -------------------------------
(***************************************************************************)
(* What the scheduler promises of the machine it runs models on.  It is in *)
(* the mode of the background group or of one coding model.  A change of   *)
(* mode stops all but the background models that last, then starts those   *)
(* of the mode.  Between changes only background models are started, a gpu *)
(* holds one model at any time, and a process that does not end by itself  *)
(* is stopped for the gpu it holds or for its own sleep_timeout only.      *)
(*                                                                         *)
(* The promise holds until two switches overlap or the proxy goes down.    *)
(***************************************************************************)

CONSTANTS Model, Coding, Group, Resident, Faulty, Sleepy, Gpu, NoGpu, Port

VARIABLES
  stage,    \* "settled"; a change is "stopping" or "starting" models; or "void": no promise
  mode,     \* the models of the mode: the group, or one coding model
  running   \* the models with a live process

modesVars == <<stage, mode, running>>

Choices == {Group} \cup {{m} : m \in Coding}

(* What outlives every change of mode. *)
Lasting == {m \in Model \ Coding : m \in Resident \/ Gpu[m] = NoGpu}

SharingPort(m) == {n \in Model : Port[n] = Port[m]}

(* Models whose process may end by itself: it fails, or another has its port. *)
Frail == {m \in Model : m \in Faulty \/ SharingPort(m) # {m}}

Conflict(m, n) == m # n /\ Gpu[m] = Gpu[n] /\ Gpu[m] # NoGpu

(* Of the models S, none but some of gone ends, and nothing is started. *)
Ends(S, gone) == running' \subseteq S /\ \A m \in S \ running' : m \in gone

Init == stage = "settled" /\ mode = Group /\ running = {}

(* A process ends by itself. *)
End ==
  /\ Ends(running, Frail) /\ stage # "void"
  /\ UNCHANGED <<stage, mode>>

Change ==
  /\ stage = "settled" /\ stage' = "stopping"
  /\ mode' \in Choices
  /\ UNCHANGED running

Clear ==
  /\ stage = "stopping" /\ stage' = "starting"
  /\ Ends(running \cap Lasting, Frail)
  /\ UNCHANGED mode

(* Whatever listens on the model's port makes way. *)
Start(m) ==
  /\ \/ stage = "starting" /\ m \in mode
     \/ stage = "settled" /\ m \notin Coding
  /\ m \notin running /\ \A n \in running : ~Conflict(m, n)
  /\ m \in running' /\ Ends(running \cup {m}, SharingPort(m))
  /\ UNCHANGED <<stage, mode>>

Settle ==
  /\ stage = "starting" /\ stage' = "settled"
  /\ UNCHANGED <<mode, running>>

(* n makes way for another model of its gpu. *)
Evict(n) ==
  /\ stage = "settled" /\ n \notin Resident
  /\ \E m \in Model \ Coding : Conflict(m, n)
  /\ Ends(running, {n})
  /\ UNCHANGED <<stage, mode>>

(* Nobody used m for its sleep_timeout. *)
Sleep(m) ==
  /\ stage = "settled" /\ m \in Sleepy
  /\ Ends(running, SharingPort(m))
  /\ UNCHANGED <<stage, mode>>

(* Nothing is promised from here on. *)
Void == stage' = "void"

Next ==
  \/ End \/ Change \/ Clear \/ Settle \/ Void
  \/ \E m \in Model : Start(m) \/ Evict(m) \/ Sleep(m)

Spec == Init /\ [][Next]_modesVars
=============================================================================
