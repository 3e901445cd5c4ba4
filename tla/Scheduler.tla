----------------------------- MODULE Scheduler -----------------------------
(***************************************************************************)
(* The process scheduler (internal/scheduler): requests that ask for a     *)
(* model, switches between the background group and a coding model,        *)
(* on-demand loads, GPU arbitration, sleeping, and the Start, Loop and     *)
(* Shutdown goroutines.                                                    *)
(*                                                                         *)
(* Every actor is one goroutine with a program counter; a step is what it  *)
(* does under one s.mu section, or one stretch between two of them.  Waits *)
(* that a timeout bounds (drain, kill, GPU release) are the gap between    *)
(* two steps.  switchMu is taken by requests, restarts and sleeps, and by  *)
(* neither Start nor Loop's own switches: switchTo itself takes no lock.   *)
(***************************************************************************)
EXTENDS Processes

CONSTANTS
  Caller,     \* requests, each one goroutine (bounds the requests of an instance)
  Panel,      \* those that serve POST /_proxy/scheduler/switch
  Starter,    \* the goroutine of Start
  Looper,     \* the goroutine of Loop
  LeaseOn,    \* lease.coding_idle_timeout > 0
  Sleepy,     \* background models with a sleep_timeout
  Stops       \* whether this instance explores a termination signal

Actor == Caller \cup {Starter, Looper}

ASSUME ActorAssumption ==
  /\ Panel \subseteq Caller /\ Starter # Looper /\ {Starter, Looper} \cap Caller = {}
  /\ None \notin Actor /\ Sleepy \subseteq Background
  /\ LeaseOn \in BOOLEAN /\ Stops \in BOOLEAN

VARIABLES
  expected,     \* the models that should run now
  codingModel,  \* the coding model of the coding state, or None
  codingAt,     \* lastCodingAt: never set, within the lease, or older
  reg,          \* switchTarget, switchMode, switchCancel and the switch they belong to
  preempted,    \* kept while its only reader, Start, runs
  switchMu,     \* the holder of switchMu, or None
  lastActive,   \* lastActive[m]: never, recently, or longer ago than sleep_timeout
  inflight,     \* inflight[m]: requests being forwarded to m
  phase,        \* the proxy: up, stopping, down; or fatal (log.Fatalf)
  me,           \* me[a]: the local state of goroutine a
  overlapped    \* history: two switches have been under way at the same time

modeVars == <<expected, codingModel>>
useVars == <<lastActive, inflight>>
vars == <<procVars, modeVars, codingAt, reg, preempted, switchMu, useVars, phase, me,
          overlapped>>

Modes == {"coding", "background"}

PCs == {"start", "idle", "ensure", "preempt", "lock", "restartlock", "sleeplock", "acquire",
        "suspend", "stopslot", "suspended", "stop", "kill", "launch", "spawn", "register",
        "publish", "wait", "await", "use", "busy", "items", "mark", "clearcoding", "done"}

Local == [
  pc       : PCs,
  want     : Model \cup {None},  \* the model it asks for, restarts or puts to sleep
  kind     : Modes \cup {"ondemand", "restart", "sleep", "none"},
  cur      : Model \cup {None},  \* the model being started, or the slot being suspended
  fresh    : Proc \cup {None},   \* the command started and not yet registered
  todo     : SUBSET Model,       \* models still to start; for Loop, still to look at
  await    : SUBSET Model,       \* models whose readiness is awaited
  probed   : SUBSET Model,       \* models that answered and are not yet marked ready
  victims  : SUBSET [model : Model, cmd : Proc \cup {None}, spid : Proc \cup {None}],
  failed   : BOOLEAN,            \* firstErr # nil
  lost     : SUBSET Model,       \* slots replaced under a pointer it holds
  canceled : BOOLEAN,            \* its switchCtx was canceled
  chan     : {"none", "held", "open", "closed", "dead"}]
  \* chan: which channel a caller holds: none; want's slot, not read yet ("held"); the
  \* channel that is in want's slot now ("open"); one that was closed; or an open one that
  \* is in no slot any more ("dead"), where the caller is stranded

NoReg == [by |-> None, target |-> None, mode |-> "none"]

At(p) == [pc |-> p, want |-> None, kind |-> "none", cur |-> None, fresh |-> None,
          todo |-> {}, await |-> {}, probed |-> {}, victims |-> {}, failed |-> FALSE,
          lost |-> {}, canceled |-> FALSE, chan |-> "none"]

TypeOK ==
  /\ ProcTypeOK
  /\ expected \subseteq Model
  /\ codingModel \in Coding \cup {None}
  /\ codingAt \in {"never", "fresh", "stale"}
  /\ reg \in [by : Actor \cup {None}, target : Model \cup {None}, mode : Modes \cup {"none"}]
  /\ preempted \in BOOLEAN
  /\ switchMu \in Actor \cup {None}
  /\ lastActive \in [Model -> {"never", "recent", "idle"}]
  /\ inflight \in [Model -> Nat]
  /\ phase \in {"up", "stopping", "down", "fatal"}
  /\ me \in [Actor -> Local]
  /\ overlapped \in BOOLEAN

Init ==
  /\ ProcInit
  /\ expected = {} /\ codingModel = None /\ codingAt = "never"
  /\ reg = NoReg /\ preempted = FALSE /\ switchMu = None
  /\ lastActive = [m \in Model |-> "never"]
  /\ inflight = [m \in Model |-> 0]
  /\ phase = "up"
  /\ me = [a \in Actor |-> CASE a = Starter -> At("start")
                             [] a = Looper /\ ~LeaseOn -> At("done")
                             [] OTHER -> At("idle")]
  /\ overlapped = FALSE

-----------------------------------------------------------------------------
(* Reading and updating goroutines *)

Up == phase \in {"up", "stopping"}

(* Between the first drain or GPU check of a switch, restart or sleep and its end. *)
InSection(a) ==
  me[a].pc \in {"acquire", "suspend", "stopslot", "suspended", "stop", "kill", "launch", "spawn",
               "register", "publish", "wait"}

(* Commands started and not yet in a slot. *)
Fresh == {me[a].fresh : a \in Actor}

Stopped(P) == Killed(P, Fresh)

Entered(a) == overlapped' = (overlapped \/ \E b \in Actor \ {a} : InSection(b))

Released(a) == switchMu' = IF switchMu = a THEN None ELSE switchMu

CodingProcRunning == \E m \in Coding : Running(m)

LeaseActive == CodingProcRunning /\ LeaseOn /\ codingAt = "fresh"

Renewed(m) == IF m \in Coding /\ LeaseOn THEN "fresh" ELSE codingAt

(* The ready channel of m's slot, as a caller finds it. *)
Obtained(m) == IF slot[m].closed THEN "closed" ELSE "open"

(* EnsureModel returned channel ch for l.want. *)
Await(l, ch) == [At("await") EXCEPT !.want = l.want, !.chan = ch]

(* The slots of D leave procs.  Callers that wait on their channels are stranded,  *)
(* since markSlotReady closes what it finds in procs; pointers to them lead to     *)
(* slots the scheduler no longer knows.                                            *)
Drop(f, D) ==
  [a \in Actor |->
    [f[a] EXCEPT
      !.chan = IF f[a].want \in D /\ @ \in {"held", "open"} THEN "dead" ELSE @,
      !.lost = IF f[a].kind \in {"restart", "sleep"} \/ f[a].pc \in {"suspend", "stopslot", "suspended"}
               THEN @ \cup (D \cap {f[a].want, f[a].cur}) ELSE @]]

(* The channel in m's slot, which callers of m wait on, is closed, or is replaced *)
(* and strands them ("dead").                                                     *)
Turn(f, m, ch) ==
  [a \in Actor |-> IF f[a].want = m /\ f[a].chan = "open" THEN [f[a] EXCEPT !.chan = ch] ELSE f[a]]

(* Mutant: the flag is set and the channel is not closed. *)
MarkWithoutClosing(f, m) ==
  IF slot[m].present /\ ~slot[m].ready
  THEN /\ slot' = [slot EXCEPT ![m].ready = TRUE, ![m].closed = TRUE]
       /\ ClearFail(m) /\ me' = f /\ UNCHANGED lastActive
  ELSE me' = f /\ UNCHANGED <<slot, fail, backoff, lastActive>>

(* markSlotReady(m), for the goroutines f. *)
MarkSlotReady(f, m) ==
  IF slot[m].present /\ ~slot[m].ready
  THEN /\ slot' = [slot EXCEPT ![m].ready = TRUE, ![m].closed = TRUE, ![m].spid = Resolved(m)]
       /\ ClearFail(m)
       /\ lastActive' = [lastActive EXCEPT
                           ![m] = IF m \in Sleepy /\ @ = "never" THEN "recent" ELSE @]
       /\ me' = Turn(f, m, "closed")
  ELSE me' = f /\ UNCHANGED <<slot, fail, backoff, lastActive>>

-----------------------------------------------------------------------------
(* A request asks for model m: selectScheduledModel and apiSchedulerSwitch. *)

(* 503, or "skipped": a background model that would compete with coding. *)
Refused(c, m) ==
  /\ m \in Background \ Resident
  /\ Gpu[m] # NoGpu \/ c \in Panel
  /\ CodingProcRunning

Touched(c, m) == IF m \in Sleepy /\ c \notin Panel THEN [lastActive EXCEPT ![m] = "recent"] ELSE lastActive

Refuse(c, m) ==
  /\ phase = "up" /\ me[c].pc = "idle" /\ Refused(c, m)
  /\ lastActive' = Touched(c, m)
  /\ me' = [me EXCEPT ![c] = At("done")]
  /\ UNCHANGED <<procVars, modeVars, codingAt, reg, preempted, switchMu, inflight, phase,
                 overlapped>>

Arrive(c, m) ==
  /\ phase = "up" /\ me[c].pc = "idle" /\ ~Refused(c, m)
  /\ me' = [me EXCEPT ![c] = [At("ensure") EXCEPT !.want = m]]
  /\ codingAt' = Renewed(m)
  /\ lastActive' = Touched(c, m)
  /\ UNCHANGED <<procVars, modeVars, reg, preempted, switchMu, inflight, phase, overlapped>>

(* ensureCoding, and ensureOnDemandBackground, up to the preemption. *)
EnsureAlone(c) ==
  LET l == me[c]
      m == l.want
  IN  /\ Up /\ l.pc = "ensure" /\ m \notin Autostart
      /\ me' = [me EXCEPT ![c] =
           IF Running(m) THEN Await(l, Obtained(m))
           ELSE IF backoff[m] THEN At("done")
           ELSE [l EXCEPT !.pc = "preempt", !.kind = IF m \in Coding THEN "coding" ELSE "ondemand"]]
      /\ UNCHANGED <<procVars, modeVars, codingAt, reg, preempted, switchMu, useVars, phase, overlapped>>

(* ensureBackground for a member of the group, up to a lock. *)
EnsureMember(c) ==
  LET l == me[c]
      m == l.want
      kept == slot[m].present /\ (m \in Resident \/ codingModel = None)
  IN  /\ Up /\ l.pc = "ensure" /\ m \in Autostart
      /\ me' = [me EXCEPT ![c] =
           IF kept /\ Running(m) THEN Await(l, Obtained(m))
           ELSE IF kept THEN [l EXCEPT !.pc = "restartlock", !.kind = "restart", !.chan = "held"]
           ELSE IF codingModel # None /\ LeaseActive THEN Await(l, "dead")
           ELSE [l EXCEPT !.pc = "lock", !.kind = "background"]]
      /\ UNCHANGED <<procVars, modeVars, codingAt, reg, preempted, switchMu, useVars, phase, overlapped>>

Priority(mode) == CASE mode = "coding" -> 2 [] mode = "none" -> 0 [] OTHER -> 1

(* preemptLowerPriority: also one coding switch by another of a different target. *)
MayPreempt(mode, m) ==
  /\ reg.by # None
  /\ \/ Priority(mode) > Priority(reg.mode)
     \/ mode = "coding" /\ reg.mode = "coding" /\ reg.target # m

Preempt(c) ==
  LET l == me[c]
      next == [me EXCEPT ![c].pc = "lock"]
  IN  /\ Up /\ l.pc = "preempt"
      /\ IF MayPreempt(l.kind, l.want)
         THEN preempted' = (me[Starter].pc # "done") /\ me' = [next EXCEPT ![reg.by].canceled = TRUE]
         ELSE me' = next /\ UNCHANGED preempted
      /\ UNCHANGED <<procVars, modeVars, codingAt, reg, switchMu, useVars, phase, overlapped>>

(* switchMu is taken and the slot looked at again: it may run by now. *)
LockHit(c) ==
  LET l == me[c]
  IN  /\ Up /\ l.pc = "lock" /\ switchMu = None
      /\ Running(l.want) /\ (l.kind = "background" => codingModel = None)
      /\ me' = [me EXCEPT ![c] = Await(l, Obtained(l.want))]
      /\ UNCHANGED <<procVars, modeVars, codingAt, reg, preempted, switchMu, useVars, phase, overlapped>>

(* Mutant: switchMu is released before the switch. *)
LockMissUnlocked(c) ==
  LET l == me[c]
  IN  /\ Up /\ l.pc = "lock" /\ switchMu = None
      /\ ~(Running(l.want) /\ (l.kind = "background" => codingModel = None))
      /\ UNCHANGED switchMu
      /\ me' = [me EXCEPT ![c].pc = IF l.kind = "ondemand" THEN "acquire" ELSE "stop"]
      /\ Entered(c)
      /\ UNCHANGED <<procVars, modeVars, codingAt, reg, preempted, useVars, phase>>

LockMiss(c) ==
  LET l == me[c]
  IN  /\ Up /\ l.pc = "lock" /\ switchMu = None
      /\ ~(Running(l.want) /\ (l.kind = "background" => codingModel = None))
      /\ switchMu' = c
      /\ me' = [me EXCEPT ![c].pc = IF l.kind = "ondemand" THEN "acquire" ELSE "stop"]
      /\ Entered(c)
      /\ UNCHANGED <<procVars, modeVars, codingAt, reg, preempted, useVars, phase>>

-----------------------------------------------------------------------------
(* switchTo *)

(* Mutant: a switch to the group loads the requested model only. *)
TargetsRequested(l) == {l.want}

Targets(l) == IF l.kind = "coding" THEN {l.want} ELSE Autostart

(* Mutant: residents are not spared. *)
SurvivesWithoutGpu(m) == m \in Background /\ Gpu[m] = NoGpu

(* Background models that hold no gpu, or are resident, outlive every switch. *)
Survives(m) == m \in Background /\ (m \in Resident \/ Gpu[m] = NoGpu)

(* Mutant: expected is merged and not rebuilt. *)
StopAllKeepsExpected(a) ==
  LET gone == {m \in Model : slot[m].present /\ ~Survives(m)}
      next == [me EXCEPT ![a].pc = "kill",
                         ![a].victims = {[model |-> m, cmd |-> slot[m].cmd, spid |-> slot[m].spid]
                                           : m \in gone}]
  IN  /\ Up /\ me[a].pc = "stop"
      /\ slot' = [m \in Model |-> IF m \in gone THEN NoSlot ELSE slot[m]]
      /\ codingModel' = None
      /\ me' = Drop(next, gone)
      /\ UNCHANGED <<os, expected, fail, backoff, codingAt, reg, preempted, switchMu, useVars,
                     phase, overlapped>>

(* stopAll under s.mu: everything but the survivors leaves procs. *)
StopAll(a) ==
  LET kept == {m \in Model : slot[m].present /\ Survives(m)}
      gone == {m \in Model : slot[m].present /\ ~Survives(m)}
      next == [me EXCEPT ![a].pc = "kill",
                         ![a].victims = {[model |-> m, cmd |-> slot[m].cmd, spid |-> slot[m].spid]
                                           : m \in gone}]
  IN  /\ Up /\ me[a].pc = "stop"
      /\ slot' = [m \in Model |-> IF m \in gone THEN NoSlot ELSE slot[m]]
      /\ expected' = kept
      /\ codingModel' = None
      /\ me' = Drop(next, gone)
      /\ UNCHANGED <<os, fail, backoff, codingAt, reg, preempted, switchMu, useVars, phase, overlapped>>

(* stopSlotProcess of every removed slot, and the wait for the GPU. *)
KillVictims(a) ==
  LET l == me[a]
  IN  /\ Up /\ l.pc = "kill"
      /\ os' = Stopped(UNION {KillTargets(v.model, v) : v \in l.victims})
      /\ me' = [me EXCEPT ![a].pc = "launch", ![a].victims = {}, ![a].todo = Targets(l)]
      /\ UNCHANGED <<slot, fail, backoff, modeVars, codingAt, reg, preempted, switchMu, useVars,
                     phase, overlapped>>

(* A target that still runs keeps its slot and ready channel. *)
Reuse(a, m) ==
  LET l == me[a]
  IN  /\ Up /\ l.pc = "launch" /\ m \in l.todo /\ Running(m)
      /\ expected' = expected \cup {m}
      /\ me' = [me EXCEPT ![a].todo = @ \ {m}, ![a].await = @ \cup {m},
                          ![a].chan = IF l.want = m THEN Obtained(m) ELSE @]
      /\ UNCHANGED <<procVars, codingModel, codingAt, reg, preempted, switchMu, useVars, phase,
                     overlapped>>

(* A sleeping target is left asleep, and gets no entry in the returned map. *)
LeaveAsleep(a, m) ==
  LET l == me[a]
  IN  /\ Up /\ l.pc = "launch" /\ m \in l.todo /\ ~Running(m) /\ slot[m].sleeping
      /\ expected' = expected \cup {m}
      /\ me' = [me EXCEPT ![a].todo = @ \ {m}]
      /\ UNCHANGED <<procVars, codingModel, codingAt, reg, preempted, switchMu, useVars, phase,
                     overlapped>>

(* freeOccupiedPort and cmd.Start, in launchSlot and restartMember: whoever      *)
(* listens on m's port is killed; the start of a faulty command may fail.        *)
Launchable(a, m) ==
  LET l == me[a]
  IN  \/ l.pc = "launch" /\ m \in l.todo /\ ~Running(m) /\ ~slot[m].sleeping
      \/ l.pc = "spawn" /\ m = l.want

Spawnable ==
  {p \in FreeProcs \ Fresh : \A a \in Actor : \A v \in me[a].victims : p \notin {v.cmd, v.spid}}

Spawn(a, m) ==
  /\ Up /\ Launchable(a, m)
  /\ \/ \E p \in Spawnable :
          /\ \A q \in Spawnable : p <= q
          /\ os' = [Stopped(Listeners(m)) EXCEPT
                      ![p] = [model |-> m, server |-> "loading", wrapper |-> "alive"]]
          /\ me' = [me EXCEPT ![a].pc = "register", ![a].cur = m, ![a].fresh = p]
     \/ /\ m \in Faulty
        /\ os' = Stopped(Listeners(m))
        /\ me' = [me EXCEPT ![a].pc = "register", ![a].cur = m]
  /\ UNCHANGED <<slot, fail, backoff, modeVars, codingAt, reg, preempted, switchMu, useVars, phase,
                 overlapped>>

(* launchSlot under s.mu: a new slot takes m's place in procs. *)
Register(a) ==
  LET l == me[a]
      m == l.cur
      base == Drop(me, {m})
      next == [l EXCEPT !.pc = IF l.kind = "ondemand" THEN "publish" ELSE "launch",
                        !.cur = None, !.fresh = None,
                        !.todo = @ \ {m}, !.await = @ \cup {m},
                        !.chan = IF l.want = m THEN "open" ELSE base[a].chan]
  IN  /\ Up /\ l.pc = "register" /\ l.kind # "restart"
      /\ slot' = [slot EXCEPT ![m] = [NoSlot EXCEPT !.present = TRUE, !.cmd = l.fresh]]
      /\ expected' = expected \cup {m}
      /\ me' = [base EXCEPT ![a] = next]
      /\ UNCHANGED <<os, fail, backoff, codingModel, codingAt, reg, preempted, switchMu, useVars,
                     phase, overlapped>>

(* Mutant: the coding model is not recorded. *)
PublishNoCoding(a) ==
  LET l == me[a]
      coding == l.kind = "coding"
  IN  /\ Up /\ l.pc = "launch" /\ l.todo = {}
      /\ expected' = expected \cup Targets(l)
      /\ codingModel' = codingModel
      /\ codingAt' = IF coding THEN Renewed(l.want) ELSE codingAt
      /\ reg' = [by |-> a, target |-> IF coding THEN l.want ELSE None, mode |-> l.kind]
      /\ me' = [me EXCEPT ![a].pc = "wait"]
      /\ UNCHANGED <<procVars, preempted, switchMu, useVars, phase, overlapped>>

(* The new state and the in-flight switch become visible to other requests. *)
PublishSwitch(a) ==
  LET l == me[a]
      coding == l.kind = "coding"
  IN  /\ Up /\ l.pc = "launch" /\ l.todo = {}
      /\ expected' = expected \cup Targets(l)
      /\ codingModel' = IF coding THEN l.want ELSE None
      /\ codingAt' = IF coding THEN Renewed(l.want) ELSE codingAt
      /\ reg' = [by |-> a, target |-> IF coding THEN l.want ELSE None, mode |-> l.kind]
      /\ me' = [me EXCEPT ![a].pc = "wait"]
      /\ UNCHANGED <<procVars, preempted, switchMu, useVars, phase, overlapped>>

PublishOnDemand(a) ==
  /\ Up /\ me[a].pc = "publish"
  /\ reg' = [by |-> a, target |-> me[a].want, mode |-> "background"]
  /\ me' = [me EXCEPT ![a].pc = "wait"]
  /\ UNCHANGED <<procVars, modeVars, codingAt, preempted, switchMu, useVars, phase, overlapped>>

(* waitReady of m: a probe succeeds; or the wait is given up, since startup_timeout *)
(* passed (a slow model may still be loading), the slot's process is gone, or the   *)
(* switch was preempted or its request or the proxy is at its end.                  *)
ProbeAnswered(a, m) ==
  /\ Up /\ me[a].pc = "wait" /\ m \in me[a].await /\ Responds(m)
  /\ me' = [me EXCEPT ![a].await = @ \ {m}, ![a].probed = @ \cup {m}]
  /\ UNCHANGED <<procVars, modeVars, codingAt, reg, preempted, switchMu, useVars, phase, overlapped>>

ProbeGivenUp(a, m) ==
  /\ Up /\ me[a].pc = "wait" /\ m \in me[a].await
  /\ me' = [me EXCEPT ![a].await = @ \ {m}, ![a].failed = TRUE]
  /\ UNCHANGED <<procVars, modeVars, codingAt, reg, preempted, switchMu, useVars, phase, overlapped>>

MarkReady(a, m) ==
  /\ Up /\ me[a].pc = "wait" /\ m \in me[a].probed
  /\ MarkSlotReady([me EXCEPT ![a].probed = @ \ {m}], m)
  /\ UNCHANGED <<os, modeVars, codingAt, reg, preempted, switchMu, inflight, phase, overlapped>>

(* The switch ends.  A caller gets an error, or the channel it collected: none for *)
(* a member left asleep.  Start turns an error that it cannot explain into Fatalf.  *)
SwitchDone(a) ==
  LET l == me[a]
  IN  /\ Up /\ l.pc = "wait" /\ l.await = {} /\ l.probed = {}
      /\ reg' = NoReg
      /\ Released(a)
      /\ me' = [me EXCEPT ![a] =
           CASE a = Starter -> At("done")
             [] a = Looper -> At("idle")
             [] l.failed -> At("done")
             [] OTHER -> Await(l, IF l.chan = "none" THEN "dead" ELSE l.chan)]
      /\ phase' = IF a = Starter /\ l.failed /\ phase = "up" /\ ~preempted THEN "fatal" ELSE phase
      /\ UNCHANGED <<procVars, modeVars, codingAt, preempted, useVars, overlapped>>

-----------------------------------------------------------------------------
(* acquireGPU and suspendSlot, for on-demand loads and restarts; sleepMember and *)
(* restartMember.                                                                *)

(* Mutant: a caller asks again until it finds the model running. *)
BackAsksAgain(a) ==
  LET l == me[a]
  IN  IF a = Looper THEN [At("items") EXCEPT !.todo = l.todo]
      ELSE [At("ensure") EXCEPT !.want = l.want]

(* Where a restart or a sleep returns to: Loop's next item, or the caller's wait. *)
Back(a) ==
  LET l == me[a]
  IN  IF a = Looper THEN [At("items") EXCEPT !.todo = l.todo]
      ELSE Await(l, IF l.chan = "held" THEN Obtained(l.want) ELSE l.chan)

(* Mutant: only a ready owner counts. *)
ReadyOwners(m) == {o \in Model \ {m} : slot[o].ready /\ Gpu[o] = Gpu[m] /\ Gpu[m] # NoGpu}

Owners(m) == {o \in Model \ {m} : Running(o) /\ Gpu[o] = Gpu[m] /\ Gpu[m] # NoGpu}

(* The gpu is free: start the process. *)
GpuFree(a) ==
  /\ Up /\ me[a].pc = "acquire" /\ Owners(me[a].want) = {}
  /\ me' = [me EXCEPT ![a].pc = "spawn"]
  /\ UNCHANGED <<procVars, modeVars, codingAt, reg, preempted, switchMu, useVars, phase, overlapped>>

(* Another model runs on it: a resident one stays, any other one is put to sleep. *)
GpuTaken(a, o) ==
  /\ Up /\ me[a].pc = "acquire" /\ o \in Owners(me[a].want)
  /\ IF o \in Resident
     THEN /\ Released(a)
          /\ me' = [me EXCEPT ![a] = IF me[a].kind = "ondemand" THEN At("done") ELSE Back(a)]
     ELSE /\ me' = [me EXCEPT ![a].pc = "suspend", ![a].cur = o]
          /\ UNCHANGED switchMu
  /\ UNCHANGED <<procVars, modeVars, codingAt, reg, preempted, useVars, phase, overlapped>>

(* Mutant: a slot that is put to sleep stays ready. *)
SuspendStaysReady(a) ==
  LET l == me[a]
      m == l.cur
  IN  /\ Up /\ l.pc = "suspend"
      /\ slot' = IF m \in l.lost THEN slot ELSE [slot EXCEPT ![m].sleeping = TRUE]
      /\ me' = [me EXCEPT ![a].pc = "stopslot"]
      /\ UNCHANGED <<os, fail, backoff, modeVars, codingAt, reg, preempted, switchMu, useVars,
                     phase, overlapped>>

(* suspendSlot, first under s.mu: no longer ready, and reap is told not to mind. *)
Suspend(a) ==
  LET l == me[a]
      m == l.cur
  IN  /\ Up /\ l.pc = "suspend"
      /\ slot' = IF m \in l.lost THEN slot
                 ELSE [slot EXCEPT ![m].sleeping = TRUE, ![m].ready = FALSE]
      /\ me' = [me EXCEPT ![a].pc = "stopslot"]
      /\ UNCHANGED <<os, fail, backoff, modeVars, codingAt, reg, preempted, switchMu, useVars,
                     phase, overlapped>>

(* ... then stopSlotProcess: whoever listens is taken for the server, and killed. *)
StopSlot(a) ==
  LET l == me[a]
      m == l.cur
  IN  /\ Up /\ l.pc = "stopslot"
      /\ os' = Stopped(KillTargets(m, IF m \in l.lost THEN NoSlot ELSE slot[m]))
      /\ slot' = IF m \in l.lost THEN slot ELSE [slot EXCEPT ![m].spid = Resolved(m)]
      /\ me' = [me EXCEPT ![a].pc = "suspended"]
      /\ UNCHANGED <<fail, backoff, modeVars, codingAt, reg, preempted, switchMu, useVars, phase,
                     overlapped>>

(* ... then, under s.mu again, the slot gets a fresh ready channel.  Nobody will close *)
(* the old one: markSlotReady closes the channel it finds in the slot.                *)
Suspended(a) ==
  LET l == me[a]
      m == l.cur
      next == [l EXCEPT !.pc = "spawn", !.cur = None, !.lost = @ \ {m}]
  IN  /\ Up /\ l.pc = "suspended"
      /\ slot' = IF m \in l.lost THEN slot
                 ELSE [slot EXCEPT ![m].cmd = None, ![m].spid = None, ![m].closed = FALSE]
      /\ ClearFail(m)
      /\ IF l.kind = "sleep"
         THEN Released(a) /\ me' = Turn([me EXCEPT ![a] = Back(a)], m, "dead")
         ELSE UNCHANGED switchMu /\ me' = Turn([me EXCEPT ![a] = next], m, "dead")
      /\ UNCHANGED <<os, modeVars, codingAt, reg, preempted, useVars, phase, overlapped>>

(* Mutant: a model whose process exited once is not tried again. *)
NeedsRestartOnce(m) ==
  slot[m].present /\ ~Running(m) /\ m \in Background /\ m \in expected /\ fail[m] = 0

(* restartMember, after switchMu: nothing to do, or within the backoff. *)
NeedsRestart(m) ==
  slot[m].present /\ ~Running(m) /\ m \in Background /\ m \in expected /\ ~backoff[m]

RestartNot(a) ==
  /\ Up /\ me[a].pc = "restartlock" /\ switchMu = None /\ ~NeedsRestart(me[a].want)
  /\ me' = [me EXCEPT ![a] = Back(a)]
  /\ UNCHANGED <<procVars, modeVars, codingAt, reg, preempted, switchMu, useVars, phase, overlapped>>

RestartBegins(a) ==
  /\ Up /\ me[a].pc = "restartlock" /\ switchMu = None /\ NeedsRestart(me[a].want)
  /\ switchMu' = a
  /\ me' = [me EXCEPT ![a].pc = "acquire", ![a].lost = {}]
  /\ Entered(a)
  /\ UNCHANGED <<procVars, modeVars, codingAt, reg, preempted, useVars, phase>>

(* The slot gets the new command and keeps its ready channel. *)
RestartEnds(a) ==
  LET l == me[a]
      m == l.want
  IN  /\ Up /\ l.pc = "register" /\ l.kind = "restart"
      /\ slot' = IF l.fresh = None \/ m \in l.lost THEN slot
                 ELSE [slot EXCEPT ![m].cmd = l.fresh, ![m].ready = FALSE, ![m].sleeping = FALSE]
      /\ Released(a)
      /\ me' = [me EXCEPT ![a] = Back(a)]
      /\ UNCHANGED <<os, fail, backoff, modeVars, codingAt, reg, preempted, useVars, phase, overlapped>>

(* sleepMember, after switchMu: it was used meanwhile, or it goes to sleep. *)
MaySleep(m) == Running(m) /\ slot[m].ready /\ ~slot[m].sleeping /\ inflight[m] = 0

SleepNot(a) ==
  /\ Up /\ me[a].pc = "sleeplock" /\ switchMu = None /\ ~MaySleep(me[a].want)
  /\ me' = [me EXCEPT ![a] = Back(a)]
  /\ UNCHANGED <<procVars, modeVars, codingAt, reg, preempted, switchMu, useVars, phase, overlapped>>

SleepBegins(a) ==
  /\ Up /\ me[a].pc = "sleeplock" /\ switchMu = None /\ MaySleep(me[a].want)
  /\ switchMu' = a
  /\ me' = [me EXCEPT ![a].pc = "suspend", ![a].cur = me[a].want, ![a].lost = {}]
  /\ Entered(a)
  /\ UNCHANGED <<procVars, modeVars, codingAt, reg, preempted, useVars, phase>>

-----------------------------------------------------------------------------
(* Loop: one probe tick looks at every slot; the lease timer may fire between. *)

(* The coding process exited before it was ever ready. *)
DeadNeverReady ==
  codingModel # None /\ slot[codingModel].present /\ ~Running(codingModel)
    /\ ~slot[codingModel].closed

CodingLoading == reg.mode = "coding"

FreshLoad == CodingLoading /\ ~(slot[codingModel].present /\ slot[codingModel].ready)

(* Mutant: the lease timer is rebuilt on each tick and never fires. *)
SwitchBackNoLease ==
  /\ Up /\ me[Looper].pc = "idle" /\ Autostart # {}
  /\ DeadNeverReady /\ ~CodingLoading
  /\ me' = [me EXCEPT ![Looper].pc = "stop", ![Looper].kind = "background"]
  /\ Entered(Looper)
  /\ UNCHANGED <<procVars, modeVars, codingAt, reg, preempted, switchMu, useVars, phase>>

(* Loop's own switches to the group do not take switchMu. *)
SwitchBack ==
  /\ Up /\ me[Looper].pc = "idle" /\ Autostart # {}
  /\ \/ DeadNeverReady /\ ~CodingLoading
     \/ codingModel # None /\ LeaseOn /\ codingAt = "stale" /\ ~FreshLoad
  /\ me' = [me EXCEPT ![Looper].pc = "stop", ![Looper].kind = "background"]
  /\ Entered(Looper)
  /\ UNCHANGED <<procVars, modeVars, codingAt, reg, preempted, switchMu, useVars, phase>>

ForgetCoding ==
  /\ Up /\ me[Looper].pc = "idle" /\ Autostart = {}
  /\ DeadNeverReady /\ ~CodingLoading
  /\ me' = [me EXCEPT ![Looper].pc = "clearcoding"]
  /\ UNCHANGED <<procVars, modeVars, codingAt, reg, preempted, switchMu, useVars, phase, overlapped>>

ClearCoding ==
  /\ Up /\ me[Looper].pc = "clearcoding"
  /\ codingModel' = None
  /\ me' = [me EXCEPT ![Looper].pc = "idle"]
  /\ UNCHANGED <<procVars, expected, codingAt, reg, preempted, switchMu, useVars, phase, overlapped>>

Scan ==
  /\ Up /\ me[Looper].pc = "idle" /\ ~(DeadNeverReady /\ ~CodingLoading)
  /\ \E m \in Model : slot[m].present
  /\ me' = [me EXCEPT ![Looper].pc = "items", ![Looper].todo = {m \in Model : slot[m].present}]
  /\ UNCHANGED <<procVars, modeVars, codingAt, reg, preempted, switchMu, useVars, phase, overlapped>>

(* One item of the tick: what reconcile does with it. *)
Looked(m, l) == me' = [me EXCEPT ![Looper] = [l EXCEPT !.todo = @ \ {m}]]

IdleForSleep(m) == m \in Sleepy /\ inflight[m] = 0 /\ lastActive[m] = "idle"

Item(m) == Up /\ me[Looper].pc = "items" /\ m \in me[Looper].todo

ItemRests(m) ==
  /\ Item(m)
  /\ ~slot[m].present \/ slot[m].sleeping \/ (slot[m].ready /\ ~IdleForSleep(m))
  /\ Looked(m, me[Looper])
  /\ UNCHANGED <<procVars, modeVars, codingAt, reg, preempted, switchMu, useVars, phase, overlapped>>

ItemSleeps(m) ==
  /\ Item(m) /\ slot[m].present /\ ~slot[m].sleeping /\ slot[m].ready /\ IdleForSleep(m)
  /\ Looked(m, [me[Looper] EXCEPT !.pc = "sleeplock", !.kind = "sleep", !.want = m])
  /\ UNCHANGED <<procVars, modeVars, codingAt, reg, preempted, switchMu, useVars, phase, overlapped>>

(* Not ready: adopt a detached server that listens, and mark what answers as ready. *)
ItemProbed(m) ==
  /\ Item(m) /\ slot[m].present /\ ~slot[m].sleeping /\ ~slot[m].ready
  /\ slot[m].cmd # None \/ Responds(m)
  /\ slot' = [slot EXCEPT ![m].spid = IF slot[m].cmd = None THEN Resolved(m) ELSE @]
  /\ Looked(m, IF Responds(m) THEN [me[Looper] EXCEPT !.pc = "mark", !.cur = m] ELSE me[Looper])
  /\ UNCHANGED <<os, fail, backoff, modeVars, codingAt, reg, preempted, switchMu, useVars, phase,
                 overlapped>>

(* Not ready and nothing listens: a background member is restarted. *)
ItemGone(m) ==
  /\ Item(m) /\ slot[m].present /\ ~slot[m].sleeping /\ ~slot[m].ready
  /\ slot[m].cmd = None /\ ~Responds(m)
  /\ slot' = [slot EXCEPT ![m].spid = None]
  /\ Looked(m, IF m \in Background
               THEN [me[Looper] EXCEPT !.pc = "restartlock", !.kind = "restart", !.want = m]
               ELSE me[Looper])
  /\ UNCHANGED <<os, fail, backoff, modeVars, codingAt, reg, preempted, switchMu, useVars, phase,
                 overlapped>>

ItemMarked ==
  LET l == me[Looper]
  IN  /\ Up /\ l.pc = "mark"
      /\ MarkSlotReady([me EXCEPT ![Looper] = [At("items") EXCEPT !.todo = l.todo]], l.cur)
      /\ UNCHANGED <<os, modeVars, codingAt, reg, preempted, switchMu, inflight, phase, overlapped>>

TickEnds ==
  /\ Up /\ me[Looper].pc = "items" /\ me[Looper].todo = {}
  /\ me' = [me EXCEPT ![Looper] = At("idle")]
  /\ UNCHANGED <<procVars, modeVars, codingAt, reg, preempted, switchMu, useVars, phase, overlapped>>

LoopReturns ==
  /\ phase = "stopping" /\ me[Looper].pc = "idle"
  /\ me' = [me EXCEPT ![Looper] = At("done")]
  /\ UNCHANGED <<procVars, modeVars, codingAt, reg, preempted, switchMu, useVars, phase, overlapped>>

LoopItem(m) == ItemRests(m) \/ ItemSleeps(m) \/ ItemProbed(m) \/ ItemGone(m)
LoopTick == SwitchBack \/ ForgetCoding \/ ClearCoding \/ Scan \/ ItemMarked \/ TickEnds \/ LoopReturns

-----------------------------------------------------------------------------
(* Start: the initial load of the group, without switchMu. *)
StartBegins ==
  /\ Up /\ me[Starter].pc = "start"
  /\ IF Autostart = {}
     THEN me' = [me EXCEPT ![Starter] = At("done")] /\ UNCHANGED overlapped
     ELSE /\ me' = [me EXCEPT ![Starter].pc = "stop", ![Starter].kind = "background"]
          /\ Entered(Starter)
  /\ UNCHANGED <<procVars, modeVars, codingAt, reg, preempted, switchMu, useVars, phase>>

(* A caller waits for its ready channel, looks the model up again and forwards. *)
ChannelClosed(c) ==
  LET l == me[c]
  IN  /\ Up /\ c \notin Panel /\ l.pc = "await" /\ l.chan = "closed"
      /\ IF slot[l.want].present /\ slot[l.want].ready
         THEN /\ me' = [me EXCEPT ![c] = IF l.want \in Sleepy
                                        THEN [At("use") EXCEPT !.want = l.want] ELSE At("done")]
              /\ codingAt' = Renewed(l.want)
         ELSE me' = [me EXCEPT ![c] = At("done")] /\ UNCHANGED codingAt
      /\ UNCHANGED <<procVars, modeVars, reg, preempted, switchMu, useVars, phase, overlapped>>

GiveUp(c) ==
  /\ Up /\ c \notin Panel /\ me[c].pc = "await"
  /\ me' = [me EXCEPT ![c] = At("done")]
  /\ UNCHANGED <<procVars, modeVars, codingAt, reg, preempted, switchMu, useVars, phase, overlapped>>

(* The panel's goroutine does not wait for the channel. *)
PanelReturns(c) ==
  /\ Up /\ c \in Panel /\ me[c].pc = "await"
  /\ codingAt' = Renewed(me[c].want)
  /\ me' = [me EXCEPT ![c] = At("done")]
  /\ UNCHANGED <<procVars, modeVars, reg, preempted, switchMu, useVars, phase, overlapped>>

ModelEnter(c) ==
  /\ Up /\ me[c].pc = "use"
  /\ inflight' = [inflight EXCEPT ![me[c].want] = @ + 1]
  /\ me' = [me EXCEPT ![c].pc = "busy"]
  /\ UNCHANGED <<procVars, modeVars, codingAt, reg, preempted, switchMu, lastActive, phase, overlapped>>

ModelLeave(c) ==
  /\ Up /\ me[c].pc = "busy"
  /\ inflight' = [inflight EXCEPT ![me[c].want] = IF @ > 0 THEN @ - 1 ELSE 0]
  /\ me' = [me EXCEPT ![c] = At("done")]
  /\ UNCHANGED <<procVars, modeVars, codingAt, reg, preempted, switchMu, lastActive, phase, overlapped>>

(* SIGTERM ends the contexts of Start, Loop and the proxied requests; once the HTTP  *)
(* server has stopped or 60 s have passed, Shutdown forgets every command and kills  *)
(* what listens on the slots' ports; then main returns.                              *)
Signal ==
  /\ Stops /\ phase = "up"
  /\ phase' = "stopping"
  /\ UNCHANGED <<procVars, modeVars, codingAt, reg, preempted, switchMu, useVars, me, overlapped>>

Shutdown ==
  LET known == {m \in Model : slot[m].present}
  IN  /\ phase = "stopping"
      /\ phase' = "down"
      /\ os' = Stopped(UNION {KillTargets(m, NoSlot) : m \in known})
      /\ slot' = [m \in Model |-> IF m \in known THEN [slot[m] EXCEPT !.cmd = None, !.spid = None]
                                  ELSE slot[m]]
      /\ UNCHANGED <<fail, backoff, modeVars, codingAt, reg, preempted, switchMu, useVars, me,
                     overlapped>>

(* The proxy has gone, or no goroutine of this instance has anything left to do. *)
Halted ==
  /\ ~Up \/ \A a \in Actor : me[a].pc = "done"
  /\ UNCHANGED vars

-----------------------------------------------------------------------------
(* Time and the processes *)

LeaseLapses ==
  /\ Up /\ LeaseOn /\ codingAt = "fresh"
  /\ codingAt' = "stale"
  /\ UNCHANGED <<procVars, modeVars, reg, preempted, switchMu, useVars, phase, me, overlapped>>

IdleElapses(m) ==
  /\ Up /\ lastActive[m] = "recent"
  /\ lastActive' = [lastActive EXCEPT ![m] = "idle"]
  /\ UNCHANGED <<procVars, modeVars, codingAt, reg, preempted, switchMu, inflight, phase, me, overlapped>>

(* launchSlot starts the reap goroutine before it registers the slot; restartMember *)
(* does so afterwards.                                                               *)
Reaped(p) ==
  /\ Up /\ \A a \in Actor : ~(me[a].fresh = p /\ me[a].kind = "restart")
  /\ Reap(p)
  /\ UNCHANGED <<modeVars, codingAt, reg, preempted, switchMu, useVars, phase, me, overlapped>>

World ==
  /\ \/ \E p \in Proc : Serve(p) \/ Die(p, Fresh) \/ Detach(p)
     \/ \E m \in Model : BackoffElapses(m)
  /\ UNCHANGED <<modeVars, codingAt, reg, preempted, switchMu, useVars, phase, me, overlapped>>

Request(c) ==
  \/ \E m \in Model : Refuse(c, m) \/ Arrive(c, m)
  \/ EnsureAlone(c) \/ EnsureMember(c) \/ Preempt(c) \/ LockHit(c) \/ LockMiss(c)
  \/ ChannelClosed(c) \/ GiveUp(c) \/ PanelReturns(c) \/ ModelEnter(c) \/ ModelLeave(c)

SwitchStep(a) ==
  \/ StopAll(a) \/ KillVictims(a)
  \/ \E m \in Model : Reuse(a, m) \/ LeaveAsleep(a, m) \/ Spawn(a, m)
  \/ Register(a) \/ PublishSwitch(a) \/ PublishOnDemand(a)
  \/ \E m \in Model : ProbeAnswered(a, m) \/ ProbeGivenUp(a, m) \/ MarkReady(a, m)
  \/ SwitchDone(a)

MemberStep(a) ==
  \/ GpuFree(a) \/ (\E o \in Model : GpuTaken(a, o)) \/ Suspend(a) \/ StopSlot(a) \/ Suspended(a)
  \/ RestartNot(a) \/ RestartBegins(a) \/ RestartEnds(a) \/ SleepNot(a) \/ SleepBegins(a)

LoopStep == LoopTick \/ \E m \in Model : LoopItem(m)

Next ==
  \/ \E c \in Caller : Request(c)
  \/ \E a \in Actor : SwitchStep(a) \/ MemberStep(a)
  \/ StartBegins \/ LoopStep
  \/ Signal \/ Shutdown \/ Halted
  \/ LeaseLapses \/ (\E m \in Model : IdleElapses(m)) \/ (\E p \in Proc : Reaped(p)) \/ World

Spec == Init /\ [][Next]_vars

-----------------------------------------------------------------------------
(* Fairness: goroutines are scheduled, every wait in a section is bounded by a     *)
(* timeout, a Go mutex is not starved, a lease timer that fired stays readable,    *)
(* /bin/sh can be started again, and a process that is not faulty finishes loading. *)

LockStep(a) ==
  \/ LockHit(a) \/ LockMiss(a)
  \/ RestartNot(a) \/ RestartBegins(a) \/ SleepNot(a) \/ SleepBegins(a)

LoadEnds(p) ==
  /\ os[p].server = "loading" /\ os[p].model \notin Faulty
  /\ Serve(p) \/ Die(p, Fresh)
  /\ World

(* Every step of a but the arrival, the end or the giving up of a request. *)
Advance(a) ==
  /\ me[a].pc # "done" /\ (a \in Caller => me[a].pc # "idle")
  /\ \/ EnsureAlone(a) \/ EnsureMember(a) \/ Preempt(a) \/ ChannelClosed(a) \/ PanelReturns(a)
     \/ SwitchStep(a) \/ MemberStep(a)
     \/ a = Starter /\ StartBegins
     \/ a = Looper /\ LoopStep

Fairness ==
  /\ \A a \in Actor : WF_vars(Advance(a))
  /\ \A a \in Actor \ {Starter} : SF_vars(LockStep(a))
  /\ \A m \in Faulty, a \in Actor : SF_vars(Spawn(a, m) /\ me'[a].fresh # None)
  /\ SF_vars(SwitchBack)
  /\ \A p \in Proc : WF_vars(Reaped(p) \/ LoadEnds(p))
  /\ \A m \in Faulty : WF_vars(BackoffElapses(m) /\ World)

FairSpec == Spec /\ Fairness
=============================================================================
