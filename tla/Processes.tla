----------------------------- MODULE Processes -----------------------------
(***************************************************************************)
(* Model processes and the slots the scheduler keeps for them              *)
(* (internal/scheduler/process.go, procresolve.go and procSlot).           *)
(*                                                                         *)
(* A launched command is a process p: its wrapper (the /bin/sh the proxy   *)
(* started, which the reap goroutine waits for) and its server (the        *)
(* inference service, which loads and then listens on the model's port).   *)
(* A slot is the scheduler's record of a model's process.  It may disagree *)
(* with the processes: processes exit by themselves, reap runs later, and  *)
(* a wrapper may exit while the server it detached (setsid) runs on.       *)
(***************************************************************************)
EXTENDS Naturals, FiniteSets

CONSTANTS
  Model,      \* the keys of scheduling.models
  Coding,     \* the models with mode coding; the others are background
  Autostart,  \* DefaultBackgroundGroup(): background models with autostart
  Resident,   \* background models with resident: true
  Gpu,        \* Gpu[m]: the declared gpu, or NoGpu
  NoGpu,
  Port,       \* Port[m]: the port of readiness_url
  Faulty,     \* models whose process may exit or hang while loading
  Detaching,  \* models whose command detaches its server and exits
  Proc,       \* process ids (bounds the processes alive or unreaped at once)
  None

Background == Model \ Coding

(* What validateScheduling accepts: only one member of the group, and nobody *)
(* next to a resident model, on a gpu.                                       *)
GpusApart ==
  /\ \A m, n \in Autostart : m # n /\ Gpu[m] # NoGpu => Gpu[m] # Gpu[n]
  /\ \A r \in Resident, m \in Model : m # r /\ Gpu[r] # NoGpu => Gpu[m] # Gpu[r]

(* What ValidatePortCollisions accepts: background models share a port only on one *)
(* gpu; a coding model's port is compared with no background model's.              *)
PortsApart ==
  \A m, n \in Background :
    m # n /\ Port[m] = Port[n] =>
      Gpu[m] = Gpu[n] /\ Gpu[m] # NoGpu /\ {m, n} \cap Resident = {}

ASSUME ConfigAccepted ==
  /\ None \notin Model \cup Proc
  /\ Coding \subseteq Model /\ Faulty \subseteq Model /\ Detaching \subseteq Model
  /\ Autostart \subseteq Background /\ Resident \subseteq Background
  /\ DOMAIN Gpu = Model /\ DOMAIN Port = Model
  /\ GpusApart /\ PortsApart

VARIABLES
  os,         \* os[p]: the process p
  slot,       \* slot[m]: procs[m] of the scheduler
  fail,       \* fail[m]: failCount[m], counted up to 2
  backoff     \* backoff[m]: time.Now() is before nextRestartAt[m]

procVars == <<os, slot, fail, backoff>>

NoProc == [model |-> None, server |-> "dead", wrapper |-> "gone"]

Process == [model   : Model \cup {None},
            server  : {"dead", "loading", "serving"},
            wrapper : {"alive", "exited", "gone"}]

NoSlot == [present |-> FALSE, cmd |-> None, spid |-> None,
           ready |-> FALSE, closed |-> FALSE, sleeping |-> FALSE]

Slot == [present  : BOOLEAN,
         cmd      : Proc \cup {None},  \* the wrapper, nil once reaped
         spid     : Proc \cup {None},  \* serverPID
         ready    : BOOLEAN,           \* readyOK
         closed   : BOOLEAN,           \* readyChClosed
         sleeping : BOOLEAN]

ProcTypeOK ==
  /\ os \in [Proc -> Process]
  /\ slot \in [Model -> Slot]
  /\ fail \in [Model -> 0..2]
  /\ backoff \in [Model -> BOOLEAN]

ProcInit ==
  /\ os = [p \in Proc |-> NoProc]
  /\ slot = [m \in Model |-> NoSlot]
  /\ fail = [m \in Model |-> 0]
  /\ backoff = [m \in Model |-> FALSE]

-----------------------------------------------------------------------------
(* Reading the process table *)

Alive(p) == p \in Proc /\ os[p].server # "dead"
WrapperAlive(p) == p \in Proc /\ os[p].wrapper = "alive"

(* The process resolveServerPID finds: whoever listens on m's port. *)
Listeners(m) == {p \in Proc : os[p].server = "serving" /\ Port[os[p].model] = Port[m]}

(* A probe of m's readiness_url is answered by any listener on its port. *)
Responds(m) == Listeners(m) # {}

(* serverPID after resolving the port again: kept when nobody listens. *)
Resolved(m) == IF Responds(m) THEN CHOOSE p \in Listeners(m) : TRUE ELSE slot[m].spid

(* procSlot.running: a wrapper not yet reaped, or an adopted live server. *)
Running(m) == slot[m].present /\ (slot[m].cmd # None \/ Alive(slot[m].spid))

SlotDead(m) == ~Running(m)

(* Mutant: a process that does not listen yet is not stopped. *)
ListenerOnly(m, sl) == IF Responds(m) THEN Listeners(m) ELSE {p \in {sl.spid} : Alive(p)}

(* What stopSlotProcess signals: the listener, else the cached server pid, *)
(* and the wrapper's process tree.                                          *)
KillTargets(m, sl) ==
  (IF Responds(m) THEN Listeners(m) ELSE {p \in {sl.spid} : Alive(p)})
    \cup {p \in {sl.cmd} : WrapperAlive(p)}

(* The processes after the trees of P were killed (SIGTERM, then SIGKILL).  The   *)
(* exit of a command still has to be reaped when a slot holds it, or will: `new`  *)
(* are the commands started and not yet in a slot.  Any other reap finds nothing. *)
Killed(P, new) ==
  [p \in Proc |->
    IF p \notin P THEN os[p]
    ELSE IF os[p].wrapper # "gone" /\ (p \in new \/ \E m \in Model : slot[m].cmd = p)
         THEN [os[p] EXCEPT !.server = "dead", !.wrapper = "exited"]
    ELSE NoProc]

Unreferenced(p) == \A m \in Model : slot[m].cmd # p /\ slot[m].spid # p

FreeProcs == {p \in Proc : os[p] = NoProc /\ Unreferenced(p)}

-----------------------------------------------------------------------------
(* recordStartupFailLocked: the first failure may be retried at once, the  *)
(* later ones only after the backoff.                                       *)
RecordFail(m) ==
  /\ fail' = [fail EXCEPT ![m] = IF @ < 2 THEN @ + 1 ELSE 2]
  /\ backoff' = [backoff EXCEPT ![m] = fail[m] >= 1]

ClearFail(m) ==
  /\ fail' = [fail EXCEPT ![m] = 0]
  /\ backoff' = [backoff EXCEPT ![m] = FALSE]

(* The world outside the proxy *)

(* A loading server binds its port, unless another one holds it. *)
Serve(p) ==
  /\ os[p].server = "loading"
  /\ ~Responds(os[p].model)
  /\ os' = [os EXCEPT ![p].server = "serving"]
  /\ UNCHANGED <<slot, fail, backoff>>

(* The server dies: a crash, a failed load, or a port it cannot bind. *)
Die(p, new) ==
  /\ Alive(p)
  /\ \/ os[p].model \in Faulty
     \/ os[p].server = "loading" /\ Responds(os[p].model)
  /\ os' = Killed({p}, new)
  /\ UNCHANGED <<slot, fail, backoff>>

(* A launcher that started its server with setsid exits; the server runs on. *)
Detach(p) ==
  /\ Alive(p) /\ WrapperAlive(p)
  /\ os[p].model \in Detaching
  /\ os' = [os EXCEPT ![p].wrapper = "exited"]
  /\ UNCHANGED <<slot, fail, backoff>>

BackoffElapses(m) ==
  /\ backoff[m]
  /\ backoff' = [backoff EXCEPT ![m] = FALSE]
  /\ UNCHANGED <<os, slot, fail>>

(* reap: cmd.Wait returned.  If the slot still holds this command, adopt a  *)
(* server that listens on the port, else record that the process is gone.  *)
Reap(p) ==
  LET m == os[p].model
  IN  /\ os[p].wrapper = "exited"
      /\ os' = [os EXCEPT ![p] = IF @.server = "dead" THEN NoProc ELSE [@ EXCEPT !.wrapper = "gone"]]
      /\ \/ /\ slot[m].cmd # p
            /\ UNCHANGED <<slot, fail, backoff>>
         \/ /\ slot[m].cmd = p /\ Responds(m)
            /\ slot' = [slot EXCEPT ![m].cmd = None, ![m].spid = Resolved(m)]
            /\ UNCHANGED <<fail, backoff>>
         \/ /\ slot[m].cmd = p /\ ~Responds(m)
            /\ slot' = [slot EXCEPT ![m].cmd = None, ![m].spid = None, ![m].ready = FALSE]
            /\ IF slot[m].sleeping THEN UNCHANGED <<fail, backoff>> ELSE RecordFail(m)
=============================================================================
