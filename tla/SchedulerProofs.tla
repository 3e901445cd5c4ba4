-------------------------- MODULE SchedulerProofs --------------------------
(***************************************************************************)
(* Proofs about the scheduler for every configuration that config.Load     *)
(* accepts, and any number of requests, models and processes.              *)
(***************************************************************************)
EXTENDS SchedulerProperties, TLAPS

Chan == {"none", "held", "open", "closed", "dead"}

(* What a goroutine is doing determines what it works on. *)
WellFormed(l) ==
  /\ l.kind = "coding" => l.want \in Coding
  /\ l.pc \in {"register", "mark"} => l.cur \in Model
  /\ l.pc = "preempt" => l.kind \in {"coding", "ondemand"}
  /\ l.pc = "lock" => l.kind \in {"coding", "background", "ondemand"}
  /\ l.pc = "restartlock" => l.kind = "restart"
  /\ l.pc = "sleeplock" => l.kind = "sleep"
  /\ l.pc \in {"stop", "kill", "launch"} => l.kind \in {"coding", "background"}
  /\ l.pc \in {"acquire", "spawn"} => l.kind \in {"ondemand", "restart"}
  /\ l.pc \in {"suspend", "stopslot", "suspended"} => l.kind \in {"ondemand", "restart", "sleep"}
  /\ l.pc = "register" => l.kind \in {"coding", "background", "ondemand", "restart"}

Goroutine == {l \in Local : WellFormed(l)}

(* The inductive type invariant. *)
Typed == TypeOK /\ me \in [Actor -> Goroutine]

-----------------------------------------------------------------------------
(* Helpers *)

LEMMA AtType ==
  ASSUME NEW p \in {"start", "idle", "ensure", "await", "use", "items", "done"}
  PROVE  At(p) \in Goroutine
<1>1. At(p) \in Local
  BY DEF At, Local, PCs
<1> QED
  BY <1>1 DEF Goroutine, WellFormed, At

LEMMA AwaitType ==
  ASSUME NEW l \in Local, NEW ch \in Chan
  PROVE  Await(l, ch) \in Goroutine
<1>1. l.want \in Model \cup {None}
  BY DEF Local
<1>2. Await(l, ch) \in Local
  BY <1>1, ZenonT(60) DEF Await, At, Local, Chan, PCs
<1> QED
  BY <1>2 DEF Goroutine, WellFormed, Await, At

LEMMA SetChanLost ==
  ASSUME NEW l \in Goroutine, NEW ch \in Chan, NEW D \in SUBSET Model
  PROVE  [l EXCEPT !.chan = ch, !.lost = D] \in Goroutine
<1>1. [l EXCEPT !.chan = ch, !.lost = D] \in Local
  BY DEF Goroutine, Local, Chan
<1> QED
  BY <1>1, ZenonT(60) DEF Goroutine, WellFormed, Local

LEMMA SetChan ==
  ASSUME NEW l \in Goroutine, NEW ch \in Chan
  PROVE  [l EXCEPT !.chan = ch] \in Goroutine
<1>1. [l EXCEPT !.chan = ch] \in Local
  BY DEF Goroutine, Local, Chan
<1> QED
  BY <1>1 DEF Goroutine, WellFormed, Local

(* What Register leaves in the goroutine that registers a slot. *)
LEMMA RegisteredLocal ==
  ASSUME NEW l \in Local, NEW p \in PCs, NEW m \in Model, NEW ch \in Chan
  PROVE  [l EXCEPT !.pc = p, !.cur = None, !.fresh = None,
                   !.todo = @ \ {m}, !.await = @ \cup {m}, !.chan = ch] \in Local
BY DEF Local, Chan

LEMMA SetPc ==
  ASSUME NEW l \in Local, NEW p \in PCs
  PROVE  [l EXCEPT !.pc = p] \in Local
BY DEF Local

LEMMA SetKind ==
  ASSUME NEW l \in Local, NEW p \in PCs, NEW k \in Modes \cup {"ondemand", "restart", "sleep", "none"}
  PROVE  [l EXCEPT !.pc = p, !.kind = k] \in Local
BY DEF Local

LEMMA DropType ==
  ASSUME NEW f \in [Actor -> Goroutine], NEW D \in SUBSET Model
  PROVE  Drop(f, D) \in [Actor -> Goroutine]
<1> SUFFICES ASSUME NEW a \in Actor
             PROVE  [f[a] EXCEPT
                      !.chan = IF f[a].want \in D /\ @ \in {"held", "open"} THEN "dead" ELSE @,
                      !.lost = IF f[a].kind \in {"restart", "sleep"} \/ f[a].pc \in {"suspend", "stopslot", "suspended"}
                               THEN @ \cup (D \cap {f[a].want, f[a].cur}) ELSE @] \in Goroutine
  BY DEF Drop
<1>1. f[a] \in Goroutine
  OBVIOUS
<1>2. f[a].chan \in Chan /\ f[a].lost \in SUBSET Model
  BY <1>1 DEF Goroutine, Local, Chan
<1> QED
  BY <1>1, <1>2, SetChanLost DEF Chan

LEMMA TurnType ==
  ASSUME NEW f \in [Actor -> Goroutine], NEW m, NEW ch \in Chan
  PROVE  Turn(f, m, ch) \in [Actor -> Goroutine]
BY SetChan DEF Turn

LEMMA ObtainedType ==
  ASSUME NEW m
  PROVE  Obtained(m) \in Chan
BY DEF Obtained, Chan

LEMMA GoroutineLocal ==
  ASSUME NEW f \in [Actor -> Goroutine]
  PROVE  f \in [Actor -> Local]
BY DEF Goroutine

(* A step that changes nothing but goroutines keeps the types. *)
LEMMA MeStepType ==
  ASSUME Typed, me' \in [Actor -> Goroutine],
         UNCHANGED <<procVars, modeVars, codingAt, reg, preempted, switchMu, useVars, phase>>,
         overlapped' \in BOOLEAN
  PROVE  Typed'
BY GoroutineLocal DEF Typed, TypeOK, ProcTypeOK, procVars, modeVars, useVars

LEMMA EnteredType ==
  ASSUME Typed, NEW a, Entered(a)
  PROVE  overlapped' \in BOOLEAN
BY DEF Typed, TypeOK, Entered

LEMMA ReleasedType ==
  ASSUME Typed, NEW a, Released(a)
  PROVE  switchMu' \in Actor \cup {None}
BY DEF Typed, TypeOK, Released

LEMMA SetDead ==
  ASSUME NEW o \in Process
  PROVE  [o EXCEPT !.server = "dead", !.wrapper = "exited"] \in Process
BY DEF Process

LEMMA KilledType ==
  ASSUME Typed, NEW P, NEW new
  PROVE  Killed(P, new) \in [Proc -> Process]
<1>1. NoProc \in Process
  BY DEF NoProc, Process
<1>2. \A p \in Proc : os[p] \in Process
  BY DEF Typed, TypeOK, ProcTypeOK
<1> QED
  BY <1>1, <1>2, SetDead DEF Killed

LEMMA ResolvedType ==
  ASSUME Typed, NEW m \in Model
  PROVE  Resolved(m) \in Proc \cup {None}
<1>1. slot[m].spid \in Proc \cup {None}
  BY DEF Typed, TypeOK, ProcTypeOK, Slot
<1>2. CASE Responds(m)
  <2>1. (CHOOSE p \in Listeners(m) : TRUE) \in Listeners(m)
    BY <1>2 DEF Responds
  <2> QED
    BY <1>2, <2>1 DEF Resolved, Listeners
<1> QED
  BY <1>1, <1>2 DEF Resolved

LEMMA ClearFailType ==
  ASSUME Typed, NEW m, ClearFail(m)
  PROVE  fail' \in [Model -> 0..2] /\ backoff' \in [Model -> BOOLEAN]
<1>1. fail \in [Model -> 0..2] /\ backoff \in [Model -> BOOLEAN] /\ 0 \in 0..2
  BY DEF Typed, TypeOK, ProcTypeOK
<1>2. fail' = [fail EXCEPT ![m] = 0] /\ backoff' = [backoff EXCEPT ![m] = FALSE]
  BY DEF ClearFail
<1> QED
  BY <1>1, <1>2

LEMMA MarkSlotReadyType ==
  ASSUME Typed, NEW f \in [Actor -> Goroutine], NEW m \in Model, MarkSlotReady(f, m)
  PROVE  /\ me' \in [Actor -> Goroutine]
         /\ slot' \in [Model -> Slot]
         /\ fail' \in [Model -> 0..2]
         /\ backoff' \in [Model -> BOOLEAN]
         /\ lastActive' \in [Model -> {"never", "recent", "idle"}]
<1>1. CASE slot[m].present /\ ~slot[m].ready
  <2>1. Resolved(m) \in Proc \cup {None}
    BY ResolvedType
  <2>a. slot[m] \in Slot
    BY DEF Typed, TypeOK, ProcTypeOK
  <2>b. [slot[m] EXCEPT !.ready = TRUE, !.closed = TRUE, !.spid = Resolved(m)] \in Slot
    BY <2>1, <2>a DEF Slot
  <2>2. slot' \in [Model -> Slot]
    <3>1. slot' = [slot EXCEPT ![m] = [slot[m] EXCEPT !.ready = TRUE, !.closed = TRUE, !.spid = Resolved(m)]]
      BY <1>1 DEF MarkSlotReady
    <3> QED
      BY <2>b, <3>1 DEF Typed, TypeOK, ProcTypeOK
  <2>3. fail' \in [Model -> 0..2] /\ backoff' \in [Model -> BOOLEAN]
    <3>1. ClearFail(m)
      BY <1>1 DEF MarkSlotReady
    <3> QED
      BY <3>1, ClearFailType
  <2>4. lastActive' \in [Model -> {"never", "recent", "idle"}]
    BY <1>1 DEF MarkSlotReady, Typed, TypeOK
  <2>5. me' \in [Actor -> Goroutine]
    BY <1>1, TurnType DEF MarkSlotReady, Chan
  <2> QED
    BY <2>2, <2>3, <2>4, <2>5
<1>2. CASE ~(slot[m].present /\ ~slot[m].ready)
  BY <1>2 DEF MarkSlotReady, Typed, TypeOK, ProcTypeOK
<1> QED
  BY <1>1, <1>2

-----------------------------------------------------------------------------
(* Type correctness *)

LEMMA RequestType ==
  ASSUME Typed, NEW c \in Caller, Request(c)
  PROVE  Typed'
<1>1. c \in Actor /\ me[c] \in Local /\ me[c] \in Goroutine
  BY DEF Actor, Typed, TypeOK
<1> DEFINE l == me[c]
<1>w. l.want \in Model \cup {None}
  BY <1>1 DEF Local
<1>2. ASSUME NEW m \in Model, Refuse(c, m)  PROVE Typed'
  <2>1. me' \in [Actor -> Goroutine]
    BY <1>1, <1>2, AtType DEF Refuse, Typed, TypeOK, PCs
  <2>2. lastActive' \in [Model -> {"never", "recent", "idle"}]
    BY <1>2 DEF Refuse, Touched, Typed, TypeOK
  <2> QED
    BY <1>2, <2>1, <2>2, GoroutineLocal DEF Refuse, Typed, TypeOK, ProcTypeOK, procVars, modeVars
<1>3. ASSUME NEW m \in Model, Arrive(c, m)  PROVE Typed'
  <2>1. [At("ensure") EXCEPT !.want = m] \in Goroutine
    BY DEF At, Local, PCs, Goroutine, WellFormed
  <2>2. me' \in [Actor -> Goroutine]
    BY <1>1, <1>3, <2>1 DEF Arrive, Typed, TypeOK
  <2>3. lastActive' \in [Model -> {"never", "recent", "idle"}]
    BY <1>3 DEF Arrive, Touched, Typed, TypeOK
  <2> QED
    BY <1>3, <2>2, <2>3, GoroutineLocal DEF Arrive, Renewed, Typed, TypeOK, ProcTypeOK, procVars, modeVars
<1>4. CASE EnsureAlone(c)
  <2>1. Await(l, Obtained(l.want)) \in Goroutine /\ At("done") \in Goroutine
    BY <1>1, AwaitType, AtType, ObtainedType
  <2> DEFINE next == [l EXCEPT !.pc = "preempt", !.kind = IF l.want \in Coding THEN "coding" ELSE "ondemand"]
  <2>a. next \in Local
    BY <1>1, SetKind DEF PCs, Modes
  <2>2. next \in Goroutine
    <3>1. /\ next.pc = "preempt" /\ next.want = l.want /\ next.cur = l.cur
          /\ next.kind = IF l.want \in Coding THEN "coding" ELSE "ondemand"
      BY <1>1 DEF Local
    <3>2. WellFormed(next)
      BY <3>1 DEF WellFormed
    <3> QED
      BY <2>a, <3>2 DEF Goroutine
  <2>3. me' \in [Actor -> Goroutine]
    BY <1>1, <1>4, <2>1, <2>2 DEF EnsureAlone, Typed, TypeOK
  <2> QED
    BY <1>4, <2>3, MeStepType DEF EnsureAlone, Typed, TypeOK
<1>5. CASE EnsureMember(c)
  <2>1. Await(l, Obtained(l.want)) \in Goroutine /\ Await(l, "dead") \in Goroutine
    BY <1>1, AwaitType, ObtainedType DEF Chan
  <2>a. [l EXCEPT !.pc = "restartlock", !.kind = "restart", !.chan = "held"] \in Local
    BY <1>1, ZenonT(60) DEF Local, PCs
  <2>2. [l EXCEPT !.pc = "restartlock", !.kind = "restart", !.chan = "held"] \in Goroutine
    BY <1>1, <2>a, ZenonT(60) DEF Goroutine, WellFormed, Local
  <2>b. [l EXCEPT !.pc = "lock", !.kind = "background"] \in Local
    BY <1>1, SetKind DEF PCs, Modes
  <2>3. [l EXCEPT !.pc = "lock", !.kind = "background"] \in Goroutine
    BY <1>1, <2>b DEF Goroutine, WellFormed, Local
  <2>4. me' \in [Actor -> Goroutine]
    BY <1>1, <1>5, <2>1, <2>2, <2>3 DEF EnsureMember, Typed, TypeOK
  <2> QED
    BY <1>5, <2>4, MeStepType DEF EnsureMember, Typed, TypeOK
<1>6. CASE Preempt(c)
  <2> DEFINE next == [me EXCEPT ![c].pc = "lock"]
  <2>a. [l EXCEPT !.pc = "lock"] \in Goroutine
    <3>1. [l EXCEPT !.pc = "lock"] \in Local
      BY <1>1, SetPc DEF PCs
    <3>2. l.pc = "preempt" /\ l.kind \in {"coding", "ondemand"}
      BY <1>1, <1>6 DEF Preempt, Goroutine, WellFormed
    <3> QED
      BY <1>1, <3>1, <3>2 DEF Goroutine, WellFormed, Local
  <2>1. next \in [Actor -> Goroutine]
    BY <1>1, <2>a DEF Typed
  <2>2. CASE MayPreempt(l.kind, l.want)
    <3>1. reg.by \in Actor
      BY <2>2 DEF MayPreempt, Typed, TypeOK
    <3>2. next[reg.by] \in Goroutine
      BY <2>1, <3>1
    <3>a. [next[reg.by] EXCEPT !.canceled = TRUE] \in Local
      BY <3>2 DEF Goroutine, Local
    <3>3. [next[reg.by] EXCEPT !.canceled = TRUE] \in Goroutine
      BY <3>2, <3>a DEF Goroutine, WellFormed, Local
    <3>4. me' = [next EXCEPT ![reg.by] = [next[reg.by] EXCEPT !.canceled = TRUE]]
      BY <1>6, <2>2 DEF Preempt
    <3>5. me' \in [Actor -> Goroutine]
      BY <2>1, <3>3, <3>4
    <3>6. preempted' \in BOOLEAN
      BY <1>6, <2>2 DEF Preempt
    <3> QED
      BY <1>6, <3>5, <3>6, GoroutineLocal DEF Preempt, Typed, TypeOK, ProcTypeOK, procVars, modeVars, useVars
  <2>3. CASE ~MayPreempt(l.kind, l.want)
    <3>1. me' \in [Actor -> Goroutine] /\ preempted' = preempted
      BY <1>6, <2>1, <2>3 DEF Preempt
    <3> QED
      BY <1>6, <3>1, MeStepType DEF Preempt, Typed, TypeOK
  <2> QED
    BY <2>2, <2>3
<1>7. CASE LockHit(c)
  <2>1. me' \in [Actor -> Goroutine]
    BY <1>1, <1>7, AwaitType, ObtainedType DEF LockHit, Typed, TypeOK
  <2> QED
    BY <1>7, <2>1, MeStepType DEF LockHit, Typed, TypeOK
<1>8. CASE LockMiss(c)
  <2> DEFINE p == IF l.kind = "ondemand" THEN "acquire" ELSE "stop"
  <2>a. [l EXCEPT !.pc = p] \in Local
    BY <1>1, SetPc DEF PCs
  <2>b. [l EXCEPT !.pc = p] \in Goroutine
    BY <1>1, <1>8, <2>a DEF LockMiss, Goroutine, WellFormed, Local
  <2>1. me' \in [Actor -> Goroutine]
    BY <1>1, <1>8, <2>b DEF LockMiss, Typed
  <2>2. overlapped' \in BOOLEAN
    BY <1>8, EnteredType DEF LockMiss
  <2> QED
    BY <1>1, <1>8, <2>1, <2>2, GoroutineLocal DEF LockMiss, Typed, TypeOK, ProcTypeOK, procVars, modeVars, useVars
<1>9. CASE ChannelClosed(c)
  <2>a. At("use") \in Goroutine /\ At("done") \in Goroutine
    BY AtType
  <2>b. [At("use") EXCEPT !.want = l.want] \in Local
    BY <1>w, <2>a DEF Goroutine, Local
  <2>1. [At("use") EXCEPT !.want = l.want] \in Goroutine
    BY <2>b DEF Goroutine, WellFormed, At
  <2>2. me' \in [Actor -> Goroutine]
    BY <1>1, <1>9, <2>a, <2>1 DEF ChannelClosed, Typed, TypeOK
  <2>3. codingAt' \in {"never", "fresh", "stale"}
    BY <1>9 DEF ChannelClosed, Renewed, Typed, TypeOK
  <2> QED
    BY <1>9, <2>2, <2>3, GoroutineLocal DEF ChannelClosed, Typed, TypeOK, ProcTypeOK, procVars, modeVars, useVars
<1>10. CASE GiveUp(c)
  <2>1. me' \in [Actor -> Goroutine]
    BY <1>1, <1>10, AtType DEF GiveUp, Typed, TypeOK, PCs
  <2> QED
    BY <1>10, <2>1, MeStepType DEF GiveUp, Typed, TypeOK
<1>11. CASE PanelReturns(c)
  <2>1. me' \in [Actor -> Goroutine]
    BY <1>1, <1>11, AtType DEF PanelReturns, Typed, TypeOK, PCs
  <2>2. codingAt' \in {"never", "fresh", "stale"}
    BY <1>11 DEF PanelReturns, Renewed, Typed, TypeOK
  <2> QED
    BY <1>11, <2>1, <2>2, GoroutineLocal DEF PanelReturns, Typed, TypeOK, ProcTypeOK, procVars, modeVars, useVars
<1>12. CASE ModelEnter(c)
  <2>1. me' \in [Actor -> Goroutine]
    <3>1. [l EXCEPT !.pc = "busy"] \in Local
      BY <1>1, SetPc DEF PCs
    <3>2. [l EXCEPT !.pc = "busy"] \in Goroutine
      BY <1>1, <3>1 DEF Goroutine, WellFormed, Local
    <3> QED
      BY <1>1, <1>12, <3>2 DEF ModelEnter, Typed
  <2>2. inflight' \in [Model -> Nat]
    <3>1. inflight' = [inflight EXCEPT ![l.want] = inflight[l.want] + 1]
      BY <1>12 DEF ModelEnter
    <3>2. \A m \in Model : inflight[m] \in Nat /\ inflight[m] + 1 \in Nat
      BY DEF Typed, TypeOK
    <3> QED
      BY <3>1, <3>2 DEF Typed, TypeOK
  <2> QED
    BY <1>12, <2>1, <2>2, GoroutineLocal, ZenonT(60) DEF ModelEnter, Typed, TypeOK, ProcTypeOK, procVars, modeVars
<1>13. CASE ModelLeave(c)
  <2>1. me' \in [Actor -> Goroutine]
    BY <1>1, <1>13, AtType DEF ModelLeave, Typed, TypeOK, PCs
  <2>2. inflight' \in [Model -> Nat]
    <3>1. inflight' = [inflight EXCEPT ![l.want] = IF @ > 0 THEN @ - 1 ELSE 0]
      BY <1>13 DEF ModelLeave
    <3>2. \A m \in Model : (IF inflight[m] > 0 THEN inflight[m] - 1 ELSE 0) \in Nat
      BY DEF Typed, TypeOK
    <3> QED
      BY <3>1, <3>2 DEF Typed, TypeOK
  <2> QED
    BY <1>13, <2>1, <2>2, GoroutineLocal, ZenonT(60) DEF ModelLeave, Typed, TypeOK, ProcTypeOK, procVars, modeVars
<1> QED
  BY <1>2, <1>3, <1>4, <1>5, <1>6, <1>7, <1>8, <1>9, <1>10, <1>11, <1>12, <1>13 DEF Request

LEMMA SwitchStepType ==
  ASSUME Typed, NEW a \in Actor, SwitchStep(a)
  PROVE  Typed'
<1> DEFINE l == me[a]
<1>1. me \in [Actor -> Goroutine] /\ l \in Local /\ l \in Goroutine /\ WellFormed(l)
  BY DEF Typed, Goroutine
<1>2. CASE StopAll(a)
  <2> DEFINE gone == {m \in Model : slot[m].present /\ ~Survives(m)}
             dead == {[model |-> m, cmd |-> slot[m].cmd, spid |-> slot[m].spid] : m \in gone}
             one == [l EXCEPT !.pc = "kill", !.victims = dead]
             next == [me EXCEPT ![a].pc = "kill", ![a].victims = dead]
  <2>1. slot \in [Model -> Slot] /\ NoSlot \in Slot
    BY DEF Typed, TypeOK, ProcTypeOK, NoSlot, Slot
  <2>2. \A m \in Model : slot[m].cmd \in Proc \cup {None} /\ slot[m].spid \in Proc \cup {None}
    BY <2>1 DEF Slot
  <2>3. dead \in SUBSET [model : Model, cmd : Proc \cup {None}, spid : Proc \cup {None}]
    BY <2>2
  <2>4. one \in Local
    BY <1>1, <2>3, ZenonT(60) DEF Local, PCs
  <2>5. l.kind \in {"coding", "background"}
    BY <1>1, <1>2 DEF StopAll, WellFormed
  <2>6. one \in Goroutine
    BY <1>1, <2>4, <2>5 DEF Goroutine, WellFormed, Local
  <2>7. next = [me EXCEPT ![a] = one]
    BY <1>1
  <2>8. next \in [Actor -> Goroutine]
    BY <1>1, <2>6, <2>7
  <2>9. me' = Drop(next, gone) /\ gone \in SUBSET Model
    BY <1>2 DEF StopAll
  <2>10. me' \in [Actor -> Goroutine]
    BY <2>8, <2>9, DropType
  <2>11. slot' \in [Model -> Slot]
    BY <1>2, <2>1 DEF StopAll
  <2>12. expected' \subseteq Model /\ codingModel' = None
    BY <1>2 DEF StopAll
  <2> QED
    BY <1>2, <2>10, <2>11, <2>12, GoroutineLocal DEF StopAll, Typed, TypeOK, ProcTypeOK, useVars
<1>3. CASE KillVictims(a)
  <2> DEFINE one == [l EXCEPT !.pc = "launch", !.victims = {}, !.todo = Targets(l)]
  <2>1. l.kind \in {"coding", "background"} /\ (l.kind = "coding" => l.want \in Coding)
    BY <1>1, <1>3 DEF KillVictims, WellFormed
  <2>2. Targets(l) \in SUBSET Model
    BY <2>1, ConfigAccepted DEF Targets, Background
  <2>3. one \in Local
    BY <1>1, <2>2, ZenonT(60) DEF Local, PCs
  <2>4. one \in Goroutine
    BY <1>1, <2>1, <2>3 DEF Goroutine, WellFormed, Local
  <2>5. me' = [me EXCEPT ![a] = one]
    BY <1>1, <1>3 DEF KillVictims
  <2>6. me' \in [Actor -> Goroutine]
    BY <1>1, <2>4, <2>5
  <2>7. os' \in [Proc -> Process]
    BY <1>3, KilledType DEF KillVictims, Stopped
  <2> QED
    BY <1>3, <2>6, <2>7, GoroutineLocal, ZenonT(60)
       DEF KillVictims, Typed, TypeOK, ProcTypeOK, modeVars, useVars
<1>4. ASSUME NEW m \in Model, Reuse(a, m)  PROVE Typed'
  <2> DEFINE ch == IF l.want = m THEN Obtained(m) ELSE l.chan
             one == [l EXCEPT !.todo = @ \ {m}, !.await = @ \cup {m}, !.chan = ch]
  <2>1. ch \in Chan
    BY <1>1, ObtainedType DEF Local, Chan
  <2>2. one \in Local
    BY <1>1, <2>1 DEF Local, Chan
  <2>3. one \in Goroutine
    <3>1. one.pc = l.pc /\ one.kind = l.kind /\ one.want = l.want /\ one.cur = l.cur
      BY <1>1 DEF Local
    <3>2. WellFormed(one)
      BY <1>1, <3>1 DEF WellFormed
    <3> QED
      BY <2>2, <3>2 DEF Goroutine
  <2>4. me' = [me EXCEPT ![a] = one]
    BY <1>1, <1>4 DEF Reuse
  <2>5. me' \in [Actor -> Goroutine]
    BY <1>1, <2>3, <2>4
  <2> QED
    BY <1>4, <2>5, GoroutineLocal, ZenonT(60)
       DEF Reuse, Typed, TypeOK, ProcTypeOK, procVars, useVars
<1>5. ASSUME NEW m \in Model, LeaveAsleep(a, m)  PROVE Typed'
  <2> DEFINE one == [l EXCEPT !.todo = @ \ {m}]
  <2>1. one \in Local
    BY <1>1 DEF Local
  <2>2. one \in Goroutine
    BY <1>1, <2>1 DEF Goroutine, WellFormed, Local
  <2>3. me' \in [Actor -> Goroutine]
    BY <1>1, <1>5, <2>2 DEF LeaveAsleep
  <2> QED
    BY <1>5, <2>3, GoroutineLocal, ZenonT(60)
       DEF LeaveAsleep, Typed, TypeOK, ProcTypeOK, procVars, useVars
<1>6. ASSUME NEW m \in Model, Spawn(a, m)  PROVE Typed'
  <2>1. l.kind \in {"coding", "background", "ondemand", "restart"}
    BY <1>1, <1>6 DEF Spawn, Launchable, WellFormed
  <2>2. Stopped(Listeners(m)) \in [Proc -> Process]
    BY KilledType DEF Stopped
  <2>3. \A x \in Proc \cup {None} :
           [l EXCEPT !.pc = "register", !.cur = m, !.fresh = x] \in Goroutine
    <3> SUFFICES ASSUME NEW x \in Proc \cup {None}
                 PROVE  [l EXCEPT !.pc = "register", !.cur = m, !.fresh = x] \in Goroutine
      OBVIOUS
    <3>1. [l EXCEPT !.pc = "register", !.cur = m, !.fresh = x] \in Local
      BY <1>1, ZenonT(60) DEF Local, PCs
    <3> QED
      BY <1>1, <2>1, <3>1 DEF Goroutine, WellFormed, Local
  <2>4. l.fresh \in Proc \cup {None}
    BY <1>1 DEF Local
  <2>5. \/ /\ os' = Stopped(Listeners(m))
           /\ me' = [me EXCEPT ![a] = [l EXCEPT !.pc = "register", !.cur = m, !.fresh = l.fresh]]
        \/ \E p \in Proc :
             /\ os' = [Stopped(Listeners(m)) EXCEPT
                         ![p] = [model |-> m, server |-> "loading", wrapper |-> "alive"]]
             /\ me' = [me EXCEPT ![a] = [l EXCEPT !.pc = "register", !.cur = m, !.fresh = p]]
    <3>1. [l EXCEPT !.pc = "register", !.cur = m] =
            [l EXCEPT !.pc = "register", !.cur = m, !.fresh = l.fresh]
      BY <1>1 DEF Local
    <3> QED
      BY <1>1, <1>6, <3>1, ZenonT(60) DEF Spawn, Spawnable, FreeProcs
  <2>6. [model |-> m, server |-> "loading", wrapper |-> "alive"] \in Process
    BY DEF Process
  <2>7. me' \in [Actor -> Goroutine] /\ os' \in [Proc -> Process]
    <3>1. CASE /\ os' = Stopped(Listeners(m))
               /\ me' = [me EXCEPT ![a] = [l EXCEPT !.pc = "register", !.cur = m, !.fresh = l.fresh]]
      <4>1. [l EXCEPT !.pc = "register", !.cur = m, !.fresh = l.fresh] \in Goroutine
        BY <2>3, <2>4
      <4> QED
        BY <1>1, <2>2, <3>1, <4>1
    <3>2. ASSUME NEW p \in Proc,
                 os' = [Stopped(Listeners(m)) EXCEPT
                          ![p] = [model |-> m, server |-> "loading", wrapper |-> "alive"]],
                 me' = [me EXCEPT ![a] = [l EXCEPT !.pc = "register", !.cur = m, !.fresh = p]]
          PROVE  me' \in [Actor -> Goroutine] /\ os' \in [Proc -> Process]
      <4>1. [l EXCEPT !.pc = "register", !.cur = m, !.fresh = p] \in Goroutine
        BY <2>3
      <4> QED
        BY <1>1, <2>2, <2>6, <3>2, <4>1
    <3> QED
      BY <2>5, <3>1, <3>2
  <2> QED
    BY <1>6, <2>7, GoroutineLocal DEF Spawn, Typed, TypeOK, ProcTypeOK, modeVars, useVars
<1>7. CASE Register(a)
  <2> DEFINE m == l.cur
             base == Drop(me, {m})
             ch == IF l.want = m THEN "open" ELSE base[a].chan
             p == IF l.kind = "ondemand" THEN "publish" ELSE "launch"
             next == [l EXCEPT !.pc = p, !.cur = None, !.fresh = None,
                               !.todo = @ \ {m}, !.await = @ \cup {m}, !.chan = ch]
  <2>1. m \in Model /\ l.kind \in {"coding", "background", "ondemand"} /\ l.fresh \in Proc \cup {None}
    BY <1>1, <1>7 DEF Register, WellFormed, Local
  <2>2. base \in [Actor -> Goroutine]
    BY <1>1, <2>1, DropType
  <2>3. ch \in Chan
    BY <2>2 DEF Goroutine, Local, Chan
  <2>4. next \in Local
    <3>1. p \in PCs
      BY DEF PCs
    <3> HIDE DEF p, ch
    <3> QED
      BY <1>1, <2>1, <2>3, <3>1, RegisteredLocal
  <2>5. next \in Goroutine
    <3>1. next.pc = p /\ next.kind = l.kind /\ next.want = l.want
      BY <1>1 DEF Local
    <3>2. WellFormed(next)
      BY <1>1, <2>1, <3>1 DEF WellFormed
    <3> QED
      BY <2>4, <3>2 DEF Goroutine
  <2>6. me' = [base EXCEPT ![a] = next]
    BY <1>7 DEF Register
  <2>7. me' \in [Actor -> Goroutine]
    BY <2>2, <2>5, <2>6
  <2>8. [NoSlot EXCEPT !.present = TRUE, !.cmd = l.fresh] \in Slot
    BY <2>1 DEF NoSlot, Slot
  <2>9. slot' \in [Model -> Slot]
    BY <1>7, <2>8 DEF Register, Typed, TypeOK, ProcTypeOK
  <2>10. expected' \subseteq Model
    BY <1>7, <2>1 DEF Register, Typed, TypeOK
  <2> QED
    BY <1>7, <2>7, <2>9, <2>10, GoroutineLocal, ZenonT(60) DEF Register, Typed, TypeOK, ProcTypeOK, useVars
<1>8. CASE PublishSwitch(a)
  <2>1. l.kind \in {"coding", "background"} /\ (l.kind = "coding" => l.want \in Coding)
    BY <1>1, <1>8 DEF PublishSwitch, WellFormed
  <2>2. Targets(l) \in SUBSET Model
    BY <2>1, ConfigAccepted DEF Targets, Background
  <2>3. [l EXCEPT !.pc = "wait"] \in Local
    BY <1>1, SetPc DEF PCs
  <2>4. [l EXCEPT !.pc = "wait"] \in Goroutine
    BY <1>1, <2>3 DEF Goroutine, WellFormed, Local
  <2>5. me' \in [Actor -> Goroutine]
    BY <1>1, <1>8, <2>4 DEF PublishSwitch
  <2>6. codingAt' \in {"never", "fresh", "stale"}
    BY <1>8 DEF PublishSwitch, Renewed, Typed, TypeOK
  <2>7. reg' \in [by : Actor \cup {None}, target : Model \cup {None}, mode : Modes \cup {"none"}]
    BY <1>8, <2>1, ConfigAccepted DEF PublishSwitch, Modes
  <2>8. expected' \subseteq Model /\ codingModel' \in Coding \cup {None}
    BY <1>8, <2>1, <2>2 DEF PublishSwitch, Typed, TypeOK
  <2> QED
    BY <1>8, <2>5, <2>6, <2>7, <2>8, GoroutineLocal
       DEF PublishSwitch, Typed, TypeOK, ProcTypeOK, procVars, useVars
<1>9. CASE PublishOnDemand(a)
  <2>a. l.want \in Model \cup {None}
    BY <1>1 DEF Local
  <2>1. [l EXCEPT !.pc = "wait"] \in Local
    BY <1>1, SetPc DEF PCs
  <2>2. [l EXCEPT !.pc = "wait"] \in Goroutine
    BY <1>1, <2>1 DEF Goroutine, WellFormed, Local
  <2>3. me' \in [Actor -> Goroutine]
    BY <1>1, <1>9, <2>2 DEF PublishOnDemand
  <2>4. reg' \in [by : Actor \cup {None}, target : Model \cup {None}, mode : Modes \cup {"none"}]
    BY <1>9, <2>a DEF PublishOnDemand, Modes
  <2> QED
    BY <1>9, <2>3, <2>4, GoroutineLocal
       DEF PublishOnDemand, Typed, TypeOK, ProcTypeOK, procVars, modeVars, useVars
<1>10. ASSUME NEW m \in Model, ProbeAnswered(a, m)  PROVE Typed'
  <2>1. [l EXCEPT !.await = @ \ {m}, !.probed = @ \cup {m}] \in Local
    BY <1>1 DEF Local
  <2>2. [l EXCEPT !.await = @ \ {m}, !.probed = @ \cup {m}] \in Goroutine
    BY <1>1, <2>1, ZenonT(60) DEF Goroutine, WellFormed, Local
  <2>3. me' = [me EXCEPT ![a] = [l EXCEPT !.await = @ \ {m}, !.probed = @ \cup {m}]]
    BY <1>1, <1>10 DEF ProbeAnswered
  <2>4. me' \in [Actor -> Goroutine]
    BY <1>1, <2>2, <2>3
  <2> QED
    BY <1>10, <2>4, MeStepType DEF ProbeAnswered, Typed, TypeOK
<1>11. ASSUME NEW m \in Model, ProbeGivenUp(a, m)  PROVE Typed'
  <2>1. [l EXCEPT !.await = @ \ {m}, !.failed = TRUE] \in Local
    BY <1>1 DEF Local
  <2>2. [l EXCEPT !.await = @ \ {m}, !.failed = TRUE] \in Goroutine
    BY <1>1, <2>1 DEF Goroutine, WellFormed, Local
  <2>3. me' = [me EXCEPT ![a] = [l EXCEPT !.await = @ \ {m}, !.failed = TRUE]]
    BY <1>1, <1>11 DEF ProbeGivenUp
  <2>4. me' \in [Actor -> Goroutine]
    BY <1>1, <2>2, <2>3
  <2> QED
    BY <1>11, <2>4, MeStepType DEF ProbeGivenUp, Typed, TypeOK
<1>12. ASSUME NEW m \in Model, MarkReady(a, m)  PROVE Typed'
  <2>1. [l EXCEPT !.probed = @ \ {m}] \in Local
    BY <1>1 DEF Local
  <2>2. [l EXCEPT !.probed = @ \ {m}] \in Goroutine
    BY <1>1, <2>1 DEF Goroutine, WellFormed, Local
  <2>3. [me EXCEPT ![a].probed = @ \ {m}] \in [Actor -> Goroutine]
    BY <1>1, <2>2
  <2> QED
    BY <1>12, <2>3, MarkSlotReadyType, GoroutineLocal, ZenonT(60)
       DEF MarkReady, Typed, TypeOK, ProcTypeOK, modeVars
<1>13. CASE SwitchDone(a)
  <2> DEFINE ch == IF l.chan = "none" THEN "dead" ELSE l.chan
  <2>1. ch \in Chan
    BY <1>1 DEF Local, Chan
  <2>2. At("done") \in Goroutine /\ At("idle") \in Goroutine /\ Await(l, ch) \in Goroutine
    BY <1>1, <2>1, AtType, AwaitType
  <2>3. me' \in [Actor -> Goroutine]
    BY <1>1, <1>13, <2>2 DEF SwitchDone
  <2>4. phase' \in {"up", "stopping", "down", "fatal"}
    BY <1>13 DEF SwitchDone, Typed, TypeOK
  <2>5. switchMu' \in Actor \cup {None}
    BY <1>13, ReleasedType DEF SwitchDone
  <2>6. reg' \in [by : Actor \cup {None}, target : Model \cup {None}, mode : Modes \cup {"none"}]
    BY <1>13 DEF SwitchDone, NoReg
  <2> QED
    BY <1>13, <2>3, <2>4, <2>5, <2>6, GoroutineLocal
       DEF SwitchDone, Typed, TypeOK, ProcTypeOK, procVars, modeVars, useVars
<1> QED
  BY <1>2, <1>3, <1>4, <1>5, <1>6, <1>7, <1>8, <1>9, <1>10, <1>11, <1>12, <1>13 DEF SwitchStep

LEMMA BackType ==
  ASSUME Typed, NEW a \in Actor
  PROVE  Back(a) \in Goroutine
<1> DEFINE l == me[a]
<1>1. l \in Local
  BY DEF Typed, Goroutine
<1>2. CASE a = Looper
  <2>1. At("items") \in Goroutine
    BY AtType
  <2>2. [At("items") EXCEPT !.todo = l.todo] \in Local
    BY <1>1, <2>1 DEF Goroutine, Local
  <2>3. [At("items") EXCEPT !.todo = l.todo] \in Goroutine
    BY <2>2 DEF Goroutine, WellFormed, At
  <2> QED
    BY <1>2, <2>3 DEF Back
<1>3. CASE a # Looper
  <2> DEFINE ch == IF l.chan = "held" THEN Obtained(l.want) ELSE l.chan
  <2>1. ch \in Chan
    BY <1>1, ObtainedType DEF Local, Chan
  <2>2. Await(l, ch) \in Goroutine
    BY <1>1, <2>1, AwaitType
  <2> QED
    BY <1>3, <2>2 DEF Back
<1> QED
  BY <1>2, <1>3

LEMMA MemberStepType ==
  ASSUME Typed, NEW a \in Actor, MemberStep(a)
  PROVE  Typed'
<1> DEFINE l == me[a]
<1>1. me \in [Actor -> Goroutine] /\ l \in Local /\ l \in Goroutine /\ WellFormed(l)
  BY DEF Typed, Goroutine
<1>2. CASE GpuFree(a)
  <2>1. [l EXCEPT !.pc = "spawn"] \in Local
    BY <1>1, SetPc DEF PCs
  <2>2. [l EXCEPT !.pc = "spawn"] \in Goroutine
    BY <1>1, <1>2, <2>1 DEF GpuFree, Goroutine, WellFormed, Local
  <2>3. me' \in [Actor -> Goroutine]
    BY <1>1, <1>2, <2>2 DEF GpuFree
  <2> QED
    BY <1>2, <2>3, MeStepType DEF GpuFree, Typed, TypeOK
<1>3. ASSUME NEW o \in Model, GpuTaken(a, o)  PROVE Typed'
  <2>1. [l EXCEPT !.pc = "suspend", !.cur = o] \in Local
    BY <1>1, ZenonT(60) DEF Local, PCs
  <2>2. [l EXCEPT !.pc = "suspend", !.cur = o] \in Goroutine
    BY <1>1, <1>3, <2>1 DEF GpuTaken, Goroutine, WellFormed, Local
  <2>3. At("done") \in Goroutine /\ Back(a) \in Goroutine
    BY AtType, BackType
  <2>4. \/ me' = [me EXCEPT ![a] = At("done")]
        \/ me' = [me EXCEPT ![a] = Back(a)]
        \/ me' = [me EXCEPT ![a] = [l EXCEPT !.pc = "suspend", !.cur = o]]
    BY <1>1, <1>3 DEF GpuTaken
  <2>5. me' \in [Actor -> Goroutine]
    BY <1>1, <2>2, <2>3, <2>4
  <2>6. switchMu' \in Actor \cup {None}
    BY <1>3, ReleasedType DEF GpuTaken, Typed, TypeOK
  <2> QED
    BY <1>3, <2>5, <2>6, GoroutineLocal
       DEF GpuTaken, Typed, TypeOK, ProcTypeOK, procVars, modeVars, useVars
<1>4. CASE Suspend(a)
  <2>1. [l EXCEPT !.pc = "stopslot"] \in Local
    BY <1>1, SetPc DEF PCs
  <2>2. [l EXCEPT !.pc = "stopslot"] \in Goroutine
    BY <1>1, <1>4, <2>1 DEF Suspend, Goroutine, WellFormed, Local
  <2>3. me' \in [Actor -> Goroutine]
    BY <1>1, <1>4, <2>2 DEF Suspend
  <2>4. slot' \in [Model -> Slot]
    <3>1. slot \in [Model -> Slot]
      BY DEF Typed, TypeOK, ProcTypeOK
    <3>2. \A m \in Model : [slot[m] EXCEPT !.sleeping = TRUE, !.ready = FALSE] \in Slot
      BY <3>1 DEF Slot
    <3>3. \/ slot' = slot
          \/ slot' = [slot EXCEPT ![l.cur] = [slot[l.cur] EXCEPT !.sleeping = TRUE, !.ready = FALSE]]
      BY <1>4, <3>1 DEF Suspend
    <3> QED
      BY <3>1, <3>2, <3>3
  <2> QED
    BY <1>4, <2>3, <2>4, GoroutineLocal, ZenonT(60)
       DEF Suspend, Typed, TypeOK, ProcTypeOK, modeVars, useVars
<1>11. CASE StopSlot(a)
  <2>1. [l EXCEPT !.pc = "suspended"] \in Local
    BY <1>1, SetPc DEF PCs
  <2>2. [l EXCEPT !.pc = "suspended"] \in Goroutine
    BY <1>1, <1>11, <2>1 DEF StopSlot, Goroutine, WellFormed, Local
  <2>3. me' \in [Actor -> Goroutine]
    BY <1>1, <1>11, <2>2 DEF StopSlot
  <2>4. slot' \in [Model -> Slot]
    <3>1. slot \in [Model -> Slot]
      BY DEF Typed, TypeOK, ProcTypeOK
    <3>2. slot' = slot \/ slot' = [slot EXCEPT ![l.cur] = [slot[l.cur] EXCEPT !.spid = Resolved(l.cur)]]
      BY <1>11, <3>1 DEF StopSlot
    <3>3. ASSUME l.cur \in Model  PROVE [slot[l.cur] EXCEPT !.spid = Resolved(l.cur)] \in Slot
      <4>1. Resolved(l.cur) \in Proc \cup {None} /\ slot[l.cur] \in Slot
        BY <3>1, <3>3, ResolvedType
      <4> QED
        BY <4>1 DEF Slot
    <3> QED
      BY <3>1, <3>2, <3>3
  <2>5. os' \in [Proc -> Process]
    BY <1>11, KilledType DEF StopSlot, Stopped
  <2> QED
    BY <1>11, <2>3, <2>4, <2>5, GoroutineLocal, ZenonT(60)
       DEF StopSlot, Typed, TypeOK, ProcTypeOK, modeVars, useVars
<1>5. CASE Suspended(a)
  <2> DEFINE m == l.cur
             next == [l EXCEPT !.pc = "spawn", !.cur = None, !.lost = @ \ {m}]
  <2>1. os' \in [Proc -> Process]
    BY <1>5 DEF Suspended, Typed, TypeOK, ProcTypeOK
  <2>2. slot' \in [Model -> Slot]
    <3>1. slot \in [Model -> Slot]
      BY DEF Typed, TypeOK, ProcTypeOK
    <3>2. \A n \in Model : [slot[n] EXCEPT !.cmd = None, !.spid = None, !.closed = FALSE] \in Slot
      BY <3>1 DEF Slot
    <3>3. \/ slot' = slot
          \/ slot' = [slot EXCEPT ![m] = [slot[m] EXCEPT !.cmd = None, !.spid = None, !.closed = FALSE]]
      BY <1>5, <3>1 DEF Suspended
    <3> QED
      BY <3>1, <3>2, <3>3
  <2>3. fail' \in [Model -> 0..2] /\ backoff' \in [Model -> BOOLEAN]
    BY <1>5, ClearFailType DEF Suspended
  <2>4. next \in Local
    BY <1>1, ZenonT(60) DEF Local, PCs
  <2>5. l.kind # "sleep" => next \in Goroutine
    BY <1>1, <1>5, <2>4 DEF Suspended, Goroutine, WellFormed, Local
  <2>6. Back(a) \in Goroutine
    BY BackType
  <2>7. /\ l.kind = "sleep" => Released(a) /\ me' = Turn([me EXCEPT ![a] = Back(a)], m, "dead")
        /\ l.kind # "sleep" => switchMu' = switchMu /\ me' = Turn([me EXCEPT ![a] = next], m, "dead")
    BY <1>5 DEF Suspended
  <2>8. me' \in [Actor -> Goroutine]
    <3>1. CASE l.kind = "sleep"
      <4>1. [me EXCEPT ![a] = Back(a)] \in [Actor -> Goroutine]
        BY <1>1, <2>6
      <4>2. "dead" \in Chan
        BY DEF Chan
      <4>3. Turn([me EXCEPT ![a] = Back(a)], m, "dead") \in [Actor -> Goroutine]
        BY <4>1, <4>2, TurnType
      <4> QED
        BY <2>7, <3>1, <4>3
    <3>2. CASE l.kind # "sleep"
      <4>1. [me EXCEPT ![a] = next] \in [Actor -> Goroutine]
        BY <1>1, <2>5, <3>2
      <4>2. "dead" \in Chan
        BY DEF Chan
      <4>3. Turn([me EXCEPT ![a] = next], m, "dead") \in [Actor -> Goroutine]
        BY <4>1, <4>2, TurnType
      <4> QED
        BY <2>7, <3>2, <4>3
    <3> QED
      BY <3>1, <3>2
  <2>9. switchMu' \in Actor \cup {None}
    BY <2>7, ReleasedType DEF Typed, TypeOK
  <2> QED
    BY <1>5, <2>1, <2>2, <2>3, <2>8, <2>9, GoroutineLocal
       DEF Suspended, Typed, TypeOK, ProcTypeOK, modeVars, useVars
<1>6. CASE RestartNot(a)
  <2>1. me' \in [Actor -> Goroutine]
    BY <1>1, <1>6, BackType DEF RestartNot
  <2> QED
    BY <1>6, <2>1, MeStepType DEF RestartNot, Typed, TypeOK
<1>7. CASE RestartBegins(a)
  <2> DEFINE one == [l EXCEPT !.pc = "acquire", !.lost = {}]
  <2>1. one \in Local
    BY <1>1, ZenonT(60) DEF Local, PCs
  <2>2. one \in Goroutine
    BY <1>1, <1>7, <2>1 DEF RestartBegins, Goroutine, WellFormed, Local
  <2>3. me' = [me EXCEPT ![a] = one]
    BY <1>1, <1>7 DEF RestartBegins
  <2>4. me' \in [Actor -> Goroutine]
    BY <1>1, <2>2, <2>3
  <2>5. overlapped' \in BOOLEAN
    BY <1>7, EnteredType DEF RestartBegins
  <2> QED
    BY <1>7, <2>4, <2>5, GoroutineLocal
       DEF RestartBegins, Typed, TypeOK, ProcTypeOK, procVars, modeVars, useVars
<1>8. CASE RestartEnds(a)
  <2>1. me' \in [Actor -> Goroutine]
    BY <1>1, <1>8, BackType DEF RestartEnds
  <2>2. slot' \in [Model -> Slot]
    <3>1. slot \in [Model -> Slot] /\ l.fresh \in Proc \cup {None}
      BY <1>1 DEF Typed, TypeOK, ProcTypeOK, Local
    <3>2. \A n \in Model : [slot[n] EXCEPT !.cmd = l.fresh, !.ready = FALSE, !.sleeping = FALSE] \in Slot
      BY <3>1 DEF Slot
    <3>3. \/ slot' = slot
          \/ slot' = [slot EXCEPT ![l.want] =
                        [slot[l.want] EXCEPT !.cmd = l.fresh, !.ready = FALSE, !.sleeping = FALSE]]
      BY <1>8, <3>1 DEF RestartEnds
    <3> QED
      BY <3>1, <3>2, <3>3
  <2>3. switchMu' \in Actor \cup {None}
    BY <1>8, ReleasedType DEF RestartEnds
  <2> QED
    BY <1>8, <2>1, <2>2, <2>3, GoroutineLocal
       DEF RestartEnds, Typed, TypeOK, ProcTypeOK, modeVars, useVars
<1>9. CASE SleepNot(a)
  <2>1. me' \in [Actor -> Goroutine]
    BY <1>1, <1>9, BackType DEF SleepNot
  <2> QED
    BY <1>9, <2>1, MeStepType DEF SleepNot, Typed, TypeOK
<1>10. CASE SleepBegins(a)
  <2> DEFINE one == [l EXCEPT !.pc = "suspend", !.cur = l.want, !.lost = {}]
  <2>1. one \in Local
    BY <1>1, ZenonT(60) DEF Local, PCs
  <2>2. one \in Goroutine
    BY <1>1, <1>10, <2>1 DEF SleepBegins, Goroutine, WellFormed, Local
  <2>3. me' = [me EXCEPT ![a] = one]
    BY <1>1, <1>10 DEF SleepBegins
  <2>4. me' \in [Actor -> Goroutine]
    BY <1>1, <2>2, <2>3
  <2>5. overlapped' \in BOOLEAN
    BY <1>10, EnteredType DEF SleepBegins
  <2> QED
    BY <1>10, <2>4, <2>5, GoroutineLocal
       DEF SleepBegins, Typed, TypeOK, ProcTypeOK, procVars, modeVars, useVars
<1> QED
  BY <1>2, <1>3, <1>4, <1>5, <1>6, <1>7, <1>8, <1>9, <1>10, <1>11 DEF MemberStep

LEMMA LoopStepType ==
  ASSUME Typed, LoopStep
  PROVE  Typed'
<1> DEFINE l == me[Looper]
<1>1. me \in [Actor -> Goroutine] /\ Looper \in Actor /\ l \in Local /\ l \in Goroutine /\ WellFormed(l)
  BY DEF Typed, Goroutine, Actor
<1>2. CASE SwitchBack
  <2>1. [l EXCEPT !.pc = "stop", !.kind = "background"] \in Local
    BY <1>1, SetKind DEF PCs, Modes
  <2>2. [l EXCEPT !.pc = "stop", !.kind = "background"] \in Goroutine
    BY <1>1, <2>1 DEF Goroutine, WellFormed, Local
  <2>3. me' = [me EXCEPT ![Looper] = [l EXCEPT !.pc = "stop", !.kind = "background"]]
    BY <1>1, <1>2 DEF SwitchBack
  <2>4. me' \in [Actor -> Goroutine]
    BY <1>1, <2>2, <2>3
  <2>5. overlapped' \in BOOLEAN
    BY <1>2, EnteredType DEF SwitchBack
  <2> QED
    BY <1>2, <2>4, <2>5, MeStepType DEF SwitchBack
<1>3. CASE ForgetCoding
  <2>1. [l EXCEPT !.pc = "clearcoding"] \in Local
    BY <1>1, SetPc DEF PCs
  <2>2. [l EXCEPT !.pc = "clearcoding"] \in Goroutine
    BY <1>1, <2>1 DEF Goroutine, WellFormed, Local
  <2>3. me' \in [Actor -> Goroutine]
    BY <1>1, <1>3, <2>2 DEF ForgetCoding
  <2> QED
    BY <1>3, <2>3, MeStepType DEF ForgetCoding, Typed, TypeOK
<1>4. CASE ClearCoding
  <2>1. [l EXCEPT !.pc = "idle"] \in Local
    BY <1>1, SetPc DEF PCs
  <2>2. [l EXCEPT !.pc = "idle"] \in Goroutine
    BY <1>1, <2>1 DEF Goroutine, WellFormed, Local
  <2>3. me' \in [Actor -> Goroutine]
    BY <1>1, <1>4, <2>2 DEF ClearCoding
  <2> QED
    BY <1>4, <2>3, GoroutineLocal DEF ClearCoding, Typed, TypeOK, ProcTypeOK, procVars, useVars
<1>5. CASE Scan
  <2> DEFINE one == [l EXCEPT !.pc = "items", !.todo = {m \in Model : slot[m].present}]
  <2>1. one \in Local
    BY <1>1, ZenonT(60) DEF Local, PCs
  <2>2. one \in Goroutine
    BY <1>1, <2>1 DEF Goroutine, WellFormed, Local
  <2>3. me' = [me EXCEPT ![Looper] = one]
    BY <1>1, <1>5 DEF Scan
  <2>4. me' \in [Actor -> Goroutine]
    BY <1>1, <2>2, <2>3
  <2> QED
    BY <1>5, <2>4, MeStepType DEF Scan, Typed, TypeOK
<1>6. CASE ItemMarked
  <2> DEFINE next == [At("items") EXCEPT !.todo = l.todo]
  <2>1. l.cur \in Model
    BY <1>1, <1>6 DEF ItemMarked, WellFormed
  <2>2. next \in Goroutine
    <3>1. At("items") \in Goroutine
      BY AtType
    <3>2. next \in Local
      BY <1>1, <3>1 DEF Goroutine, Local
    <3> QED
      BY <3>2 DEF Goroutine, WellFormed, At
  <2>3. [me EXCEPT ![Looper] = next] \in [Actor -> Goroutine]
    BY <1>1, <2>2
  <2>4. MarkSlotReady([me EXCEPT ![Looper] = next], l.cur)
    BY <1>6 DEF ItemMarked
  <2> QED
    BY <1>6, <2>1, <2>3, <2>4, MarkSlotReadyType, GoroutineLocal, ZenonT(60)
       DEF ItemMarked, Typed, TypeOK, ProcTypeOK, modeVars
<1>7. CASE TickEnds
  <2>1. me' \in [Actor -> Goroutine]
    BY <1>1, <1>7, AtType DEF TickEnds
  <2> QED
    BY <1>7, <2>1, MeStepType DEF TickEnds, Typed, TypeOK
<1>8. CASE LoopReturns
  <2>1. me' \in [Actor -> Goroutine]
    BY <1>1, <1>8, AtType DEF LoopReturns
  <2> QED
    BY <1>8, <2>1, MeStepType DEF LoopReturns, Typed, TypeOK
<1>9. ASSUME NEW m \in Model, ItemRests(m)  PROVE Typed'
  <2>1. [l EXCEPT !.todo = @ \ {m}] \in Local
    BY <1>1 DEF Local
  <2>2. [l EXCEPT !.todo = @ \ {m}] \in Goroutine
    BY <1>1, <2>1 DEF Goroutine, WellFormed, Local
  <2>3. me' \in [Actor -> Goroutine]
    BY <1>1, <1>9, <2>2 DEF ItemRests, Looked
  <2> QED
    BY <1>9, <2>3, MeStepType DEF ItemRests, Typed, TypeOK
<1>10. ASSUME NEW m \in Model, ItemSleeps(m)  PROVE Typed'
  <2> DEFINE one == [l EXCEPT !.pc = "sleeplock", !.kind = "sleep", !.want = m]
             two == [one EXCEPT !.todo = @ \ {m}]
  <2>1. one \in Local
    BY <1>1, ZenonT(60) DEF Local, PCs
  <2>2. two \in Local
    BY <2>1 DEF Local
  <2>3. two.pc = "sleeplock" /\ two.kind = "sleep"
    BY <1>1 DEF Local
  <2>4. two \in Goroutine
    BY <2>2, <2>3 DEF Goroutine, WellFormed
  <2>5. me' = [me EXCEPT ![Looper] = two]
    BY <1>1, <1>10 DEF ItemSleeps, Looked
  <2>6. me' \in [Actor -> Goroutine]
    BY <1>1, <2>4, <2>5
  <2> QED
    BY <1>10, <2>6, MeStepType DEF ItemSleeps, Typed, TypeOK
<1>11. ASSUME NEW m \in Model, ItemProbed(m)  PROVE Typed'
  <2> DEFINE one == [l EXCEPT !.pc = "mark", !.cur = m]
             two == [one EXCEPT !.todo = @ \ {m}]
             rest == [l EXCEPT !.todo = @ \ {m}]
  <2>1. one \in Local
    BY <1>1, ZenonT(60) DEF Local, PCs
  <2>2. two \in Local /\ rest \in Local
    BY <1>1, <2>1 DEF Local
  <2>3. two.pc = "mark" /\ two.cur = m /\ two.kind = l.kind /\ two.want = l.want
    BY <1>1 DEF Local
  <2>4. two \in Goroutine
    BY <1>1, <2>2, <2>3 DEF Goroutine, WellFormed
  <2>5. rest \in Goroutine
    BY <1>1, <2>2 DEF Goroutine, WellFormed, Local
  <2>6. me' = [me EXCEPT ![Looper] = two] \/ me' = [me EXCEPT ![Looper] = rest]
    BY <1>1, <1>11 DEF ItemProbed, Looked
  <2>7. me' \in [Actor -> Goroutine]
    BY <1>1, <2>4, <2>5, <2>6
  <2>8. slot' \in [Model -> Slot]
    <3> DEFINE x == IF slot[m].cmd = None THEN Resolved(m) ELSE slot[m].spid
    <3>1. slot \in [Model -> Slot] /\ x \in Proc \cup {None}
      BY ResolvedType DEF Typed, TypeOK, ProcTypeOK, Slot
    <3>2. [slot[m] EXCEPT !.spid = x] \in Slot
      BY <3>1 DEF Slot
    <3>3. slot' = [slot EXCEPT ![m] = [slot[m] EXCEPT !.spid = x]]
      BY <1>11 DEF ItemProbed
    <3> QED
      BY <3>1, <3>2, <3>3
  <2> QED
    BY <1>11, <2>7, <2>8, GoroutineLocal DEF ItemProbed, Typed, TypeOK, ProcTypeOK, modeVars, useVars
<1>12. ASSUME NEW m \in Model, ItemGone(m)  PROVE Typed'
  <2> DEFINE one == [l EXCEPT !.pc = "restartlock", !.kind = "restart", !.want = m]
             two == [one EXCEPT !.todo = @ \ {m}]
             rest == [l EXCEPT !.todo = @ \ {m}]
  <2>1. one \in Local
    BY <1>1, ZenonT(60) DEF Local, PCs
  <2>2. two \in Local /\ rest \in Local
    BY <1>1, <2>1, ZenonT(60) DEF Local
  <2>3. two.pc = "restartlock" /\ two.kind = "restart"
    BY <1>1 DEF Local
  <2>4. two \in Goroutine
    BY <2>2, <2>3 DEF Goroutine, WellFormed
  <2>5. rest \in Goroutine
    BY <1>1, <2>2 DEF Goroutine, WellFormed, Local
  <2>6. me' = [me EXCEPT ![Looper] = two] \/ me' = [me EXCEPT ![Looper] = rest]
    BY <1>1, <1>12 DEF ItemGone, Looked
  <2>7. me' \in [Actor -> Goroutine]
    BY <1>1, <2>4, <2>5, <2>6
  <2>8. slot' \in [Model -> Slot]
    <3>1. slot \in [Model -> Slot]
      BY DEF Typed, TypeOK, ProcTypeOK
    <3>2. [slot[m] EXCEPT !.spid = None] \in Slot
      BY <3>1 DEF Slot
    <3>3. slot' = [slot EXCEPT ![m] = [slot[m] EXCEPT !.spid = None]]
      BY <1>12, <3>1 DEF ItemGone
    <3> QED
      BY <3>1, <3>2, <3>3
  <2> QED
    BY <1>12, <2>7, <2>8, GoroutineLocal DEF ItemGone, Typed, TypeOK, ProcTypeOK, modeVars, useVars
<1> QED
  BY <1>2, <1>3, <1>4, <1>5, <1>6, <1>7, <1>8, <1>9, <1>10, <1>11, <1>12 DEF LoopStep, LoopTick, LoopItem

LEMMA OtherStepType ==
  ASSUME Typed,
         \/ StartBegins \/ Signal \/ Shutdown \/ Halted \/ LeaseLapses
         \/ (\E m \in Model : IdleElapses(m)) \/ (\E p \in Proc : Reaped(p)) \/ World
  PROVE  Typed'
<1>1. me \in [Actor -> Goroutine] /\ slot \in [Model -> Slot] /\ os \in [Proc -> Process]
      /\ fail \in [Model -> 0..2] /\ backoff \in [Model -> BOOLEAN]
  BY DEF Typed, TypeOK, ProcTypeOK
<1>2. CASE StartBegins
  <2> DEFINE l == me[Starter]
             one == [l EXCEPT !.pc = "stop", !.kind = "background"]
  <2>1. Starter \in Actor /\ l \in Local /\ l \in Goroutine /\ WellFormed(l)
    BY <1>1 DEF Actor, Goroutine
  <2>2. one \in Local
    BY <2>1, SetKind DEF PCs, Modes
  <2>3. one \in Goroutine
    BY <2>1, <2>2 DEF Goroutine, WellFormed, Local
  <2>4. me' = [me EXCEPT ![Starter] = At("done")] \/ me' = [me EXCEPT ![Starter] = one]
    BY <1>1, <1>2, <2>1 DEF StartBegins
  <2>5. At("done") \in Goroutine
    BY AtType
  <2>6. me' \in [Actor -> Goroutine]
    BY <1>1, <2>3, <2>4, <2>5
  <2>7. overlapped' \in BOOLEAN
    BY <1>2, EnteredType DEF StartBegins, Typed, TypeOK
  <2> QED
    BY <1>2, <2>6, <2>7, MeStepType DEF StartBegins
<1>3. CASE Signal
  BY <1>3 DEF Signal, Typed, TypeOK, ProcTypeOK, procVars, modeVars, useVars
<1>4. CASE Shutdown
  <2>1. os' \in [Proc -> Process]
    BY <1>4, KilledType DEF Shutdown, Stopped
  <2>2. slot' \in [Model -> Slot]
    <3>1. \A m \in Model : slot[m] \in Slot /\ [slot[m] EXCEPT !.cmd = None, !.spid = None] \in Slot
      BY <1>1 DEF Slot
    <3> QED
      BY <1>4, <3>1 DEF Shutdown
  <2> QED
    BY <1>4, <2>1, <2>2 DEF Shutdown, Typed, TypeOK, ProcTypeOK, modeVars, useVars
<1>5. CASE Halted
  BY <1>5 DEF Halted, vars, Typed, TypeOK, ProcTypeOK, procVars, modeVars, useVars
<1>6. CASE LeaseLapses
  BY <1>6 DEF LeaseLapses, Typed, TypeOK, ProcTypeOK, procVars, modeVars, useVars
<1>7. ASSUME NEW m \in Model, IdleElapses(m)  PROVE Typed'
  BY <1>7 DEF IdleElapses, Typed, TypeOK, ProcTypeOK, procVars, modeVars
<1>8. ASSUME NEW p \in Proc, Reaped(p)  PROVE Typed'
  <2> DEFINE m == os[p].model
  <2>1. Reap(p)
    BY <1>8 DEF Reaped
  <2>2. os' \in [Proc -> Process]
    <3>1. os[p] \in Process /\ NoProc \in Process
      BY <1>1 DEF NoProc, Process
    <3>2. [os[p] EXCEPT !.wrapper = "gone"] \in Process
      BY <3>1 DEF Process
    <3>3. os' = [os EXCEPT ![p] = NoProc] \/ os' = [os EXCEPT ![p] = [os[p] EXCEPT !.wrapper = "gone"]]
      BY <2>1 DEF Reap
    <3> QED
      BY <1>1, <3>1, <3>2, <3>3
  <2>3. CASE m \in Model
    <3>1. slot[m] \in Slot /\ Resolved(m) \in Proc \cup {None}
      BY <1>1, <2>3, ResolvedType
    <3>2. /\ [slot[m] EXCEPT !.cmd = None, !.spid = Resolved(m)] \in Slot
          /\ [slot[m] EXCEPT !.cmd = None, !.spid = None, !.ready = FALSE] \in Slot
      BY <3>1 DEF Slot
    <3>3. \/ slot' = slot
          \/ slot' = [slot EXCEPT ![m] = [slot[m] EXCEPT !.cmd = None, !.spid = Resolved(m)]]
          \/ slot' = [slot EXCEPT ![m] = [slot[m] EXCEPT !.cmd = None, !.spid = None, !.ready = FALSE]]
      BY <1>1, <2>1, <2>3 DEF Reap
    <3>4. slot' \in [Model -> Slot]
      BY <1>1, <3>2, <3>3
    <3>5. fail' \in [Model -> 0..2] /\ backoff' \in [Model -> BOOLEAN]
      <4>1. UNCHANGED <<fail, backoff>> \/ RecordFail(m)
        BY <2>1 DEF Reap
      <4>2. (IF fail[m] < 2 THEN fail[m] + 1 ELSE 2) \in 0..2 /\ (fail[m] >= 1) \in BOOLEAN
        BY <1>1, <2>3
      <4>3. RecordFail(m) => /\ fail' = [fail EXCEPT ![m] = IF fail[m] < 2 THEN fail[m] + 1 ELSE 2]
                             /\ backoff' = [backoff EXCEPT ![m] = fail[m] >= 1]
        BY DEF RecordFail
      <4> QED
        BY <1>1, <4>1, <4>2, <4>3
    <3> QED
      BY <1>8, <2>2, <3>4, <3>5 DEF Reaped, Typed, TypeOK, ProcTypeOK, modeVars, useVars
  <2>4. CASE m \notin Model
    <3>1. slot' = slot /\ fail' = fail /\ backoff' = backoff
      <4>1. \A x : [slot EXCEPT ![m] = x] = slot
        BY <1>1, <2>4
      <4>2. \A x : [fail EXCEPT ![m] = x] = fail /\ [backoff EXCEPT ![m] = x] = backoff
        BY <1>1, <2>4
      <4> QED
        BY <1>1, <2>1, <2>4, <4>1, <4>2 DEF Reap, RecordFail
    <3> QED
      BY <1>1, <1>8, <2>2, <3>1 DEF Reaped, Typed, TypeOK, ProcTypeOK, modeVars, useVars
  <2> QED
    BY <2>3, <2>4
<1>9. CASE World
  <2>1. ASSUME NEW p \in Proc, Serve(p) \/ Die(p, Fresh) \/ Detach(p)
        PROVE  os' \in [Proc -> Process] /\ UNCHANGED <<slot, fail, backoff>>
    <3>1. \A s \in {"serving"} : [os[p] EXCEPT !.server = s] \in Process
      BY <1>1 DEF Process
    <3>2. [os[p] EXCEPT !.wrapper = "exited"] \in Process
      BY <1>1 DEF Process
    <3>3. Die(p, Fresh) => os' \in [Proc -> Process]
      BY KilledType DEF Die
    <3>4. Serve(p) => os' \in [Proc -> Process]
      BY <1>1, <3>1 DEF Serve
    <3>5. Detach(p) => os' \in [Proc -> Process]
      BY <1>1, <3>2 DEF Detach
    <3> QED
      BY <2>1, <3>3, <3>4, <3>5 DEF Serve, Die, Detach
  <2>2. ASSUME NEW m \in Model, BackoffElapses(m)
        PROVE  backoff' \in [Model -> BOOLEAN] /\ UNCHANGED <<os, slot, fail>>
    BY <1>1, <2>2 DEF BackoffElapses
  <2>3. /\ os' \in [Proc -> Process] /\ backoff' \in [Model -> BOOLEAN]
        /\ UNCHANGED <<slot, fail>>
    BY <1>1, <1>9, <2>1, <2>2 DEF World
  <2> QED
    BY <1>1, <1>9, <2>3 DEF World, Typed, TypeOK, ProcTypeOK, modeVars, useVars
<1> QED
  BY <1>2, <1>3, <1>4, <1>5, <1>6, <1>7, <1>8, <1>9

LEMMA InitType ==
  ASSUME Init
  PROVE  Typed
<1>1. me \in [Actor -> Goroutine]
  BY AtType DEF Init
<1>2. os \in [Proc -> Process] /\ slot \in [Model -> Slot]
  BY DEF Init, ProcInit, NoProc, Process, NoSlot, Slot
<1>3. fail \in [Model -> 0..2] /\ backoff \in [Model -> BOOLEAN]
  BY DEF Init, ProcInit
<1>4. inflight \in [Model -> Nat]
  BY DEF Init
<1> QED
  BY <1>1, <1>2, <1>3, <1>4, GoroutineLocal DEF Init, NoReg, Typed, TypeOK, ProcTypeOK

LEMMA NextType ==
  ASSUME Typed, [Next]_vars
  PROVE  Typed'
<1>1. CASE UNCHANGED vars
  BY <1>1 DEF vars, Typed, TypeOK, ProcTypeOK, procVars, modeVars, useVars
<1>2. CASE Next
  BY <1>2, RequestType, SwitchStepType, MemberStepType, LoopStepType, OtherStepType DEF Next
<1> QED
  BY <1>1, <1>2

(* Every variable keeps its type, for every accepted configuration: no        *)
(* goroutine is handed a model, slot or command that does not exist.          *)
THEOREM TypeCorrect == Spec => []TypeOK
<1>1. Spec => []Typed
  BY InitType, NextType, PTL DEF Spec
<1>2. Typed => TypeOK
  BY DEF Typed
<1> QED
  BY <1>1, <1>2, PTL

=============================================================================
