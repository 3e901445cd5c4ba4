------------------------ MODULE SchedulerProperties ------------------------
(***************************************************************************)
(* What the scheduler promises.  The promises about processes rest on      *)
(* switchMu and are stated until two switches have overlapped, which Start *)
(* and Loop allow (SwitchesSerial is the claim that they never do).        *)
(***************************************************************************)
EXTENDS Scheduler

Live == {p \in Proc : Alive(p)}

(* The processes the scheduler can still find: a slot's command or adopted  *)
(* server, a command it has just started, or one it is about to kill.       *)
Known ==
  {slot[m].cmd : m \in Model} \cup {slot[m].spid : m \in Model}
    \cup {me[a].fresh : a \in Actor}
    \cup UNION {{v.cmd, v.spid} : v \in UNION {me[a].victims : a \in Actor}}

-----------------------------------------------------------------------------
(* Mutual exclusion and the registry of the switch in flight *)

(* A request, restart or sleep that works on processes holds switchMu, so no *)
(* two of them ever do (scheduler.go:63-65); the switch registered for       *)
(* preemption is one that still waits for readiness, and if a request runs   *)
(* it, that request holds switchMu: the registry never outlives its switch.  *)
LockHeld ==
  /\ \A a \in Actor :
       InSection(a) /\ (a \in Caller \/ me[a].kind \in {"restart", "sleep"}) => switchMu = a
  /\ reg.by # None => me[reg.by].pc = "wait"
  /\ reg.by \in Caller => switchMu = reg.by

(* switchMu serialises whole switches (scheduler.go:64, switching.go:21-22): *)
(* two are never under way at the same time.                                *)
SwitchesSerial == ~overlapped

-----------------------------------------------------------------------------
(* Processes and slots *)

(* A gpu never holds two model processes: acquireGPU and stopAll kill the    *)
(* owner before the next one starts.                                        *)
OneModelPerGpu ==
  ~overlapped =>
    \A p, q \in Live :
      p # q => Gpu[os[p].model] # Gpu[os[q].model] \/ Gpu[os[p].model] = NoGpu

(* At most one coding process is alive, whatever gpu it declares: a coding   *)
(* switch stops every other one.                                            *)
OneCodingProcess ==
  ~overlapped => \A p, q \in Live : {os[p].model, os[q].model} \subseteq Coding => p = q

(* No process outlives the scheduler's record of it: until two switches      *)
(* overlap, each one alive can be found again to be stopped.                *)
NothingOrphaned == ~overlapped /\ Up => Live \subseteq Known

(* The models that should run are those that have a slot: reconcile finds    *)
(* each one that it has to restart, and restarts each one that it finds.     *)
ExpectedHasSlot == ~overlapped => expected = {m \in Model : slot[m].present}

(* Outside a switch a live coding process is the registered coding model:    *)
(* else its lease never ends and LocalNodes offers a stopped group           *)
(* (scheduler.go:81).                                                       *)
CodingRegistered ==
  ~overlapped /\ (\A a \in Actor : ~InSection(a)) =>
    \A p \in Live : os[p].model \in Coding => codingModel = os[p].model

(* A slot that is ready has a process: the wrapper, or the server that was   *)
(* adopted when the wrapper exited.  A probe that was answered proves that   *)
(* the model's process listens (switching.go:306-308).                       *)
ReadyRuns == Up => \A m \in Model : slot[m].ready => Running(m)

(* No process of a resident model is killed while the proxy is up            *)
(* (config/scheduling.go:74), by no switch and no eviction: only the model's *)
(* own sleep_timeout stops it.                                               *)
ResidentStaysUp ==
  [][phase = "up" /\ ~overlapped =>
       \A p \in Live :
         os[p].model \in Resident \ Faulty =>
           \/ os'[p].server # "dead"
           \/ \E a \in Actor : me[a].kind = "sleep" /\ me[a].cur = os[p].model]_vars

-----------------------------------------------------------------------------
(* The modes.  A change of mode lasts from stopAll's removal of the slots to   *)
(* the publication of the new state, and is to the mode of the switch's targets; *)
(* between changes codingModel tells the mode.                                   *)

Switching == {a \in Actor : me[a].kind \in Modes /\ me[a].pc \in {"kill", "launch", "register"}}

Void == overlapped \/ ~Up

Stage ==
  IF Void THEN "void"
  ELSE IF Switching = {} THEN "settled"
  ELSE IF \E a \in Switching : me[a].pc = "kill" THEN "stopping" ELSE "starting"

Mode ==
  IF Switching # {} THEN UNION {Targets(me[a]) : a \in Switching}
  ELSE IF codingModel # None THEN {codingModel} ELSE Autostart

Loaded == {os[p].model : p \in Live}

M == INSTANCE Modes WITH
  Group   <- Autostart,
  stage   <- Stage,
  mode    <- Mode,
  running <- Loaded

(* The scheduler implements Modes: whatever requests, switches, evictions,   *)
(* restarts, sleeps and crashes interleave, each step of it is one of Modes  *)
(* or leaves the machine's mode and models alone (switching.go:20-159,       *)
(* scheduler.go:411-455, process.go:57-86).                                  *)
ModesKept == M!Spec

-----------------------------------------------------------------------------
(* Ready channels *)

(* Whoever waits for a resident member of the group is not stranded on a     *)
(* channel that nobody will close: no switch removes or reloads its slot, a  *)
(* restart keeps the slot's channel, and its sleep_timeout replaces only one *)
(* that was closed (process.go:219-221).  What the comment there says does   *)
(* not hold of others: an eviction, or the reload of a model that died,      *)
(* strands those who wait for it.                                            *)
ResidentWaitersKept ==
  [][~overlapped' =>
       \A c \in Caller :
         me[c].chan = "open" /\ me[c].want \in (Resident \cap Autostart) \ Faulty =>
           me'[c].chan # "dead"]_vars

-----------------------------------------------------------------------------
(* Liveness, under FairSpec *)

(* Every request for a model gets a channel or an error: no switch holds     *)
(* switchMu for ever, whatever the processes do.                            *)
RequestAnswered ==
  \A c \in Caller : me[c].pc = "ensure" ~> me[c].pc \in {"await", "done"} \/ phase # "up"

(* A background model whose process is gone is started again, unless it is   *)
(* asleep or its slot is removed (reconcile.go:16-17).                       *)
MemberRestarted ==
  \A m \in Background :
    slot[m].present /\ ~Running(m) /\ ~slot[m].sleeping /\ ~slot[m].ready
      ~> ~slot[m].present \/ Running(m) \/ slot[m].sleeping \/ slot[m].ready \/ phase # "up"

(* The coding state ends some time after its lease lapsed, alive or not, or  *)
(* the lease is renewed (reconcile.go:64-67).                               *)
CodingEnds ==
  codingModel # None /\ codingAt = "stale"
    ~> codingModel = None \/ codingAt = "fresh" \/ phase # "up"

(* A caller that waits on its model's channel while the server answers probes is *)
(* woken, gives up, or sees the server go: Loop marks ready what a switch that    *)
(* timed out left loading, and adopts what its launcher left behind, and closes   *)
(* the very channel the caller holds (switching.go:152, reconcile.go:160-181).    *)
(* To lose the channel is not to be woken.                                        *)
Woken ==
  \A c \in Caller \ Panel, m \in Model :
    me[c].want = m /\ me[c].chan = "open" /\ Responds(m)
      ~> me[c].chan \in {"closed", "none"} \/ ~Responds(m) \/ phase # "up"
=============================================================================
