-------------------------- MODULE SchedulerLocking --------------------------
(***************************************************************************)
(* switchMu is a lock: whoever works on processes in a request, a restart  *)
(* or a sleep holds it, and the registered switch is one that still waits. *)
(***************************************************************************)
EXTENDS SchedulerProofs

Section == {"acquire", "suspend", "stopslot", "suspended", "stop", "kill", "launch", "spawn", "register",
            "publish", "wait"}

(* A step of a leaves the position of every other goroutine alone. *)
Elsewhere(a) == \A b \in Actor \ {a} : me'[b].pc = me[b].pc /\ me'[b].kind = me[b].kind

Locked == Typed /\ LockHeld

-----------------------------------------------------------------------------
(* The five ways in which a step can concern the lock *)

LEMMA SectionDef ==
  ASSUME NEW a
  PROVE  InSection(a) <=> me[a].pc \in Section
BY DEF InSection, Section

LEMMA SectionDefNext ==
  ASSUME NEW a
  PROVE  InSection(a)' <=> me'[a].pc \in Section
BY DEF InSection, Section

LEMMA RegActor ==
  ASSUME Locked, reg.by # None
  PROVE  reg.by \in Actor /\ me[reg.by].pc = "wait"
BY DEF Locked, Typed, TypeOK, LockHeld

LEMMA StaysOut ==
  ASSUME Locked, NEW a \in Actor, Elsewhere(a),
         me[a].pc \notin Section, me'[a].pc \notin Section,
         switchMu' = switchMu, reg' = reg
  PROVE  LockHeld'
<1>1. \A b \in Actor : InSection(b)' => InSection(b) /\ me'[b].kind = me[b].kind
  BY SectionDef, SectionDefNext DEF Elsewhere
<1>2. reg.by # None => reg.by \in Actor /\ reg.by # a /\ me'[reg.by].pc = "wait"
  BY RegActor DEF Elsewhere, Section
<1> QED
  BY <1>1, <1>2 DEF Locked, LockHeld

LEMMA StaysIn ==
  ASSUME Locked, NEW a \in Actor, Elsewhere(a),
         me[a].pc \in Section, me'[a].pc \in Section, me'[a].kind = me[a].kind,
         switchMu' = switchMu,
         \/ reg' = reg /\ (me[a].pc = "wait" => me'[a].pc = "wait")
         \/ reg'.by = a /\ me'[a].pc = "wait"
  PROVE  LockHeld'
<1>1. \A b \in Actor : InSection(b)' => InSection(b) /\ me'[b].kind = me[b].kind
  BY SectionDef, SectionDefNext DEF Elsewhere
<1>2. CASE reg' = reg /\ (me[a].pc = "wait" => me'[a].pc = "wait")
  <2>1. reg.by # None => me'[reg.by].pc = "wait"
    BY <1>2, RegActor DEF Elsewhere
  <2> QED
    BY <1>1, <1>2, <2>1 DEF Locked, LockHeld
<1>3. CASE reg'.by = a /\ me'[a].pc = "wait"
  <2>1. a \in Caller => switchMu = a
    BY SectionDef DEF Locked, LockHeld
  <2> QED
    BY <1>1, <1>3, <2>1 DEF Locked, LockHeld
<1> QED
  BY <1>2, <1>3

LEMMA TakesLock ==
  ASSUME Locked, NEW a \in Actor, Elsewhere(a),
         me[a].pc \notin Section, switchMu = None, switchMu' = a, reg' = reg
  PROVE  LockHeld'
<1>1. \A b \in Actor \ {a} :
        ~(InSection(b)' /\ (b \in Caller \/ me'[b].kind \in {"restart", "sleep"}))
  BY SectionDef, SectionDefNext, ActorAssumption DEF Elsewhere, Locked, LockHeld
<1>2. reg.by # None => reg.by \in Actor /\ reg.by # a /\ me'[reg.by].pc = "wait"
  BY RegActor DEF Elsewhere, Section
<1>3. reg.by \notin Caller
  BY ActorAssumption DEF Locked, LockHeld, Actor
<1> QED
  BY <1>1, <1>2, <1>3 DEF LockHeld

LEMMA NeedsNoLock ==
  ASSUME Locked, NEW a \in {Starter, Looper}, Elsewhere(a),
         me[a].pc \notin Section, me'[a].kind = "background", switchMu' = switchMu, reg' = reg
  PROVE  LockHeld'
<1>1. a \in Actor /\ a \notin Caller
  BY ActorAssumption DEF Actor
<1>2. \A b \in Actor \ {a} : InSection(b)' => InSection(b) /\ me'[b].kind = me[b].kind
  BY SectionDef, SectionDefNext DEF Elsewhere
<1>3. reg.by # None => reg.by \in Actor /\ reg.by # a /\ me'[reg.by].pc = "wait"
  BY RegActor DEF Elsewhere, Section
<1> QED
  BY <1>1, <1>2, <1>3 DEF Locked, LockHeld

LEMMA Leaves ==
  ASSUME Locked, NEW a \in Actor, Elsewhere(a),
         me'[a].pc \notin Section, Released(a),
         \/ reg' = reg /\ me[a].pc # "wait"
         \/ reg'.by = None
  PROVE  LockHeld'
<1>1. \A b \in Actor \ {a} : InSection(b)' => InSection(b) /\ me'[b].kind = me[b].kind
  BY SectionDef, SectionDefNext DEF Elsewhere
<1>2. ~InSection(a)'
  BY SectionDefNext
<1>3. \A b \in Actor \ {a} : switchMu = b => switchMu' = b
  BY DEF Released
<1>4. \A b \in Actor :
        InSection(b)' /\ (b \in Caller \/ me'[b].kind \in {"restart", "sleep"}) => switchMu' = b
  BY <1>1, <1>2, <1>3 DEF Locked, LockHeld
<1>5. CASE reg' = reg /\ me[a].pc # "wait"
  <2>1. reg.by # None => reg.by \in Actor /\ reg.by # a /\ me'[reg.by].pc = "wait"
    BY <1>5, RegActor DEF Elsewhere
  <2>2. reg.by \in Caller => switchMu' = reg.by
    BY <1>3, <2>1, ActorAssumption DEF Locked, LockHeld, Actor
  <2> QED
    BY <1>4, <1>5, <2>1, <2>2 DEF LockHeld
<1>6. CASE reg'.by = None
  BY <1>4, <1>6, ActorAssumption DEF LockHeld, Actor
<1> QED
  BY <1>5, <1>6

(* Dropping slots and turning channels moves no goroutine. *)
LEMMA DropMoves ==
  ASSUME NEW f \in [Actor -> Goroutine], NEW D, NEW b \in Actor
  PROVE  Drop(f, D)[b].pc = f[b].pc /\ Drop(f, D)[b].kind = f[b].kind
BY DEF Drop, Goroutine, Local

LEMMA TurnMoves ==
  ASSUME NEW f \in [Actor -> Goroutine], NEW m, NEW ch, NEW b \in Actor
  PROVE  Turn(f, m, ch)[b].pc = f[b].pc /\ Turn(f, m, ch)[b].kind = f[b].kind
BY DEF Turn, Goroutine, Local

LEMMA MarkMoves ==
  ASSUME NEW f \in [Actor -> Goroutine], NEW m, MarkSlotReady(f, m), NEW b \in Actor
  PROVE  me'[b].pc = f[b].pc /\ me'[b].kind = f[b].kind
BY TurnMoves DEF MarkSlotReady

LEMMA AwaitPc ==
  ASSUME NEW l, NEW ch
  PROVE  Await(l, ch).pc = "await"
BY DEF Await, At

-----------------------------------------------------------------------------
LEMMA RequestLocked ==
  ASSUME Locked, NEW c \in Caller, Request(c)
  PROVE  LockHeld'
<1>1. c \in Actor /\ me \in [Actor -> Goroutine] /\ me[c] \in Local
  BY DEF Actor, Locked, Typed, TypeOK
<1>2. ASSUME me[c].pc \notin Section, \E l : me' = [me EXCEPT ![c] = l] /\ l.pc \notin Section,
             switchMu' = switchMu, reg' = reg
      PROVE  LockHeld'
  BY <1>1, <1>2, StaysOut DEF Elsewhere
<1>3. ASSUME NEW m \in Model, Refuse(c, m) \/ Arrive(c, m)  PROVE LockHeld'
  BY <1>1, <1>2, <1>3 DEF Refuse, Arrive, At, Section
<1>4. CASE EnsureAlone(c)
  <2> DEFINE l == me[c]
             next == [l EXCEPT !.pc = "preempt", !.kind = IF l.want \in Coding THEN "coding" ELSE "ondemand"]
  <2>1. next.pc = "preempt" /\ At("done").pc = "done"
    BY <1>1 DEF At, Local
  <2>2. me' = [me EXCEPT ![c] = IF Running(l.want) THEN Await(l, Obtained(l.want))
                               ELSE IF backoff[l.want] THEN At("done") ELSE next]
    BY <1>4 DEF EnsureAlone
  <2> HIDE DEF next
  <2>3. \E x : me' = [me EXCEPT ![c] = x] /\ x.pc \notin Section
    BY <2>1, <2>2, AwaitPc DEF Section
  <2> QED
    BY <1>2, <1>4, <2>3 DEF EnsureAlone, Section
<1>5. CASE EnsureMember(c)
  <2> DEFINE l == me[c]
             m == l.want
             kept == slot[m].present /\ (m \in Resident \/ codingModel = None)
             restart == [l EXCEPT !.pc = "restartlock", !.kind = "restart", !.chan = "held"]
             switch == [l EXCEPT !.pc = "lock", !.kind = "background"]
  <2>1. restart.pc = "restartlock" /\ switch.pc = "lock"
    BY <1>1 DEF Local
  <2>2. me' = [me EXCEPT ![c] = IF kept /\ Running(m) THEN Await(l, Obtained(m))
                               ELSE IF kept THEN restart
                               ELSE IF codingModel # None /\ LeaseActive THEN Await(l, "dead")
                               ELSE switch]
    BY <1>5 DEF EnsureMember
  <2> HIDE DEF restart, switch, kept
  <2>3. \E x : me' = [me EXCEPT ![c] = x] /\ x.pc \notin Section
    BY <2>1, <2>2, AwaitPc DEF Section
  <2> QED
    BY <1>2, <1>5, <2>3 DEF EnsureMember, Section
<1>6. CASE Preempt(c)
  <2>1. me[c].pc \notin Section /\ me'[c].pc = "lock" /\ switchMu' = switchMu /\ reg' = reg
    BY <1>1, <1>6, RegActor DEF Preempt, MayPreempt, Section, Goroutine, Local
  <2>2. Elsewhere(c)
    BY <1>1, <1>6, RegActor DEF Preempt, MayPreempt, Elsewhere, Goroutine, Local
  <2> QED
    BY <1>1, <2>1, <2>2, StaysOut DEF Section
<1>7. CASE LockHit(c)
  <2>1. \E x : me' = [me EXCEPT ![c] = x] /\ x.pc \notin Section
    BY <1>7, AwaitPc DEF LockHit, Section
  <2> QED
    BY <1>2, <1>7, <2>1 DEF LockHit, Section
<1>8. CASE LockMiss(c)
  <2>1. me[c].pc \notin Section /\ Elsewhere(c)
    BY <1>1, <1>8 DEF LockMiss, Section, Elsewhere
  <2> QED
    BY <1>1, <1>8, <2>1, TakesLock DEF LockMiss
<1>9. CASE ChannelClosed(c) \/ GiveUp(c) \/ PanelReturns(c)
  BY <1>1, <1>2, <1>9 DEF ChannelClosed, GiveUp, PanelReturns, At, Section
<1>10. CASE ModelEnter(c) \/ ModelLeave(c)
  BY <1>1, <1>2, <1>10 DEF ModelEnter, ModelLeave, At, Section, Local
<1> QED
  BY <1>3, <1>4, <1>5, <1>6, <1>7, <1>8, <1>9, <1>10 DEF Request
-----------------------------------------------------------------------------
LEMMA SwitchLocked ==
  ASSUME Locked, NEW a \in Actor, SwitchStep(a)
  PROVE  LockHeld'
<1> DEFINE l == me[a]
<1>1. me \in [Actor -> Goroutine] /\ l \in Local
  BY DEF Locked, Typed, TypeOK
<1>2. ASSUME me'[a].pc \in Section, me'[a].kind = l.kind, l.pc \in Section \ {"wait"},
             \A b \in Actor \ {a} : me'[b] = me[b], switchMu' = switchMu, reg' = reg
      PROVE  LockHeld'
  BY <1>2, StaysIn DEF Elsewhere
<1>3. CASE StopAll(a)
  <2> DEFINE gone == {m \in Model : slot[m].present /\ ~Survives(m)}
             dead == {[model |-> m, cmd |-> slot[m].cmd, spid |-> slot[m].spid] : m \in gone}
             one == [l EXCEPT !.pc = "kill", !.victims = dead]
             next == [me EXCEPT ![a] = one]
  <2>1. one.pc = "kill" /\ one.kind = l.kind
    BY <1>1 DEF Local
  <2>2. me' = Drop(next, gone)
    BY <1>1, <1>3 DEF StopAll
  <2>3. \A b \in Actor : me'[b].pc = next[b].pc /\ me'[b].kind = next[b].kind
    <3>1. \A b \in Actor \ {a} : next[b] = me[b]
      BY <1>1
    <3>2. next[a] = one
      BY <1>1
    <3> QED
      BY <1>1, <2>1, <2>2, <3>1, <3>2, ZenonT(60) DEF Drop, Goroutine, Local
  <2>4. Elsewhere(a) /\ me'[a].pc = "kill" /\ me'[a].kind = l.kind
    BY <1>1, <2>1, <2>3 DEF Elsewhere
  <2> QED
    BY <1>3, <2>4, StaysIn DEF StopAll, Section
<1>4. CASE KillVictims(a)
  <2> DEFINE one == [l EXCEPT !.pc = "launch", !.victims = {}, !.todo = Targets(l)]
  <2>1. one.pc = "launch" /\ one.kind = l.kind
    BY <1>1 DEF Local
  <2>2. me' = [me EXCEPT ![a] = one]
    BY <1>1, <1>4 DEF KillVictims
  <2>3. l.pc \in Section \ {"wait"} /\ switchMu' = switchMu /\ reg' = reg
    BY <1>4 DEF KillVictims, Section
  <2>4. me'[a] = one /\ \A b \in Actor \ {a} : me'[b] = me[b]
    BY <1>1, <2>2
  <2> HIDE DEF one
  <2> QED
    BY <1>2, <2>1, <2>3, <2>4 DEF Section
<1>5. ASSUME NEW m \in Model, Reuse(a, m)  PROVE LockHeld'
  <2> DEFINE one == [l EXCEPT !.todo = @ \ {m}, !.await = @ \cup {m},
                             !.chan = IF l.want = m THEN Obtained(m) ELSE @]
  <2>1. one.pc = l.pc /\ one.kind = l.kind
    BY <1>1 DEF Local
  <2>2. me' = [me EXCEPT ![a] = one]
    BY <1>1, <1>5 DEF Reuse
  <2>3. l.pc \in Section \ {"wait"} /\ switchMu' = switchMu /\ reg' = reg
    BY <1>5 DEF Reuse, Section
  <2>4. me'[a] = one /\ \A b \in Actor \ {a} : me'[b] = me[b]
    BY <1>1, <2>2
  <2> HIDE DEF one
  <2> QED
    BY <1>2, <2>1, <2>3, <2>4 DEF Section
<1>6. ASSUME NEW m \in Model, LeaveAsleep(a, m)  PROVE LockHeld'
  <2> DEFINE one == [l EXCEPT !.todo = @ \ {m}]
  <2>1. one.pc = l.pc /\ one.kind = l.kind
    BY <1>1 DEF Local
  <2>2. me' = [me EXCEPT ![a] = one]
    BY <1>1, <1>6 DEF LeaveAsleep
  <2>3. l.pc \in Section \ {"wait"} /\ switchMu' = switchMu /\ reg' = reg
    BY <1>6 DEF LeaveAsleep, Section
  <2>4. me'[a] = one /\ \A b \in Actor \ {a} : me'[b] = me[b]
    BY <1>1, <2>2
  <2> HIDE DEF one
  <2> QED
    BY <1>2, <2>1, <2>3, <2>4 DEF Section
<1>7. ASSUME NEW m \in Model, Spawn(a, m)  PROVE LockHeld'
  <2>1. \E p : me' = [me EXCEPT ![a] = [l EXCEPT !.pc = "register", !.cur = m, !.fresh = p]]
               \/ me' = [me EXCEPT ![a] = [l EXCEPT !.pc = "register", !.cur = m]]
    BY <1>1, <1>7 DEF Spawn
  <2>2. PICK p : me' = [me EXCEPT ![a] = [l EXCEPT !.pc = "register", !.cur = m, !.fresh = p]]
                 \/ me' = [me EXCEPT ![a] = [l EXCEPT !.pc = "register", !.cur = m]]
    BY <2>1
  <2> DEFINE one == [l EXCEPT !.pc = "register", !.cur = m, !.fresh = p]
             two == [l EXCEPT !.pc = "register", !.cur = m]
  <2>3. /\ one.pc = "register" /\ one.kind = l.kind
        /\ two.pc = "register" /\ two.kind = l.kind
    BY <1>1 DEF Local
  <2>4. l.pc \in Section \ {"wait"} /\ switchMu' = switchMu /\ reg' = reg
    BY <1>7 DEF Spawn, Launchable, Section
  <2>5. me'[a] \in {one, two} /\ \A b \in Actor \ {a} : me'[b] = me[b]
    BY <1>1, <2>2
  <2> HIDE DEF one, two
  <2> QED
    BY <1>2, <2>3, <2>4, <2>5 DEF Section
<1>8. CASE Register(a)
  <2> DEFINE m == l.cur
             base == Drop(me, {m})
             next == [l EXCEPT !.pc = IF l.kind = "ondemand" THEN "publish" ELSE "launch",
                               !.cur = None, !.fresh = None,
                               !.todo = @ \ {m}, !.await = @ \cup {m},
                               !.chan = IF l.want = m THEN "open" ELSE base[a].chan]
  <2>1. next.pc \in {"publish", "launch"} /\ next.kind = l.kind
    BY <1>1 DEF Local
  <2>2. me' = [base EXCEPT ![a] = next]
    BY <1>8 DEF Register
  <2>3. \A b \in Actor : base[b].pc = me[b].pc /\ base[b].kind = me[b].kind
    BY <1>1, DropMoves
  <2>4. base \in [Actor -> Goroutine]
    BY <1>1, <1>8, DropType DEF Register, Locked, Typed, Goroutine, WellFormed
  <2>5. Elsewhere(a) /\ me'[a] = next
    BY <2>2, <2>3, <2>4 DEF Elsewhere
  <2> QED
    BY <1>8, <2>1, <2>5, StaysIn DEF Register, Section
<1>9. CASE PublishSwitch(a) \/ PublishOnDemand(a)
  <2> DEFINE one == [l EXCEPT !.pc = "wait"]
  <2>1. one.pc = "wait" /\ one.kind = l.kind
    BY <1>1 DEF Local
  <2>2. me' = [me EXCEPT ![a] = one] /\ reg'.by = a /\ switchMu' = switchMu /\ l.pc \in Section
    BY <1>1, <1>9 DEF PublishSwitch, PublishOnDemand, Section
  <2>3. Elsewhere(a) /\ me'[a].pc = "wait" /\ me'[a].kind = l.kind
    BY <1>1, <2>1, <2>2 DEF Elsewhere
  <2> QED
    BY <2>2, <2>3, StaysIn DEF Section
<1>10. ASSUME NEW m \in Model, ProbeAnswered(a, m) \/ ProbeGivenUp(a, m)  PROVE LockHeld'
  <2> DEFINE one == [l EXCEPT !.await = @ \ {m}, !.probed = @ \cup {m}]
             two == [l EXCEPT !.await = @ \ {m}, !.failed = TRUE]
  <2>1. /\ one.pc = l.pc /\ one.kind = l.kind
        /\ two.pc = l.pc /\ two.kind = l.kind
    BY <1>1 DEF Local
  <2>2. me' = [me EXCEPT ![a] = one] \/ me' = [me EXCEPT ![a] = two]
    BY <1>1, <1>10 DEF ProbeAnswered, ProbeGivenUp
  <2>3. Elsewhere(a) /\ me'[a].pc = l.pc /\ me'[a].kind = l.kind
    BY <1>1, <2>1, <2>2 DEF Elsewhere
  <2> QED
    BY <1>10, <2>3, StaysIn DEF ProbeAnswered, ProbeGivenUp, Section
<1>11. ASSUME NEW m \in Model, MarkReady(a, m)  PROVE LockHeld'
  <2> DEFINE one == [l EXCEPT !.probed = @ \ {m}]
             next == [me EXCEPT ![a] = one]
  <2>1. one.pc = l.pc /\ one.kind = l.kind /\ one \in Goroutine
    BY <1>1 DEF Local, Goroutine, WellFormed
  <2>2. next \in [Actor -> Goroutine] /\ MarkSlotReady(next, m)
    BY <1>1, <1>11, <2>1 DEF MarkReady
  <2>3. \A b \in Actor : me'[b].pc = next[b].pc /\ me'[b].kind = next[b].kind
    BY <2>2, MarkMoves
  <2>4. Elsewhere(a) /\ me'[a].pc = l.pc /\ me'[a].kind = l.kind
    BY <1>1, <2>1, <2>3 DEF Elsewhere
  <2> QED
    BY <1>11, <2>4, StaysIn DEF MarkReady, Section
<1>12. CASE SwitchDone(a)
  <2>1. At("done").pc = "done" /\ At("idle").pc = "idle"
    BY DEF At
  <2> DEFINE end == CASE a = Starter -> At("done")
                      [] a = Looper -> At("idle")
                      [] l.failed -> At("done")
                      [] OTHER -> Await(l, IF l.chan = "none" THEN "dead" ELSE l.chan)
  <2>a. me' = [me EXCEPT ![a] = end]
    BY <1>12 DEF SwitchDone
  <2>b. end.pc \in {"done", "idle", "await"}
    <3>1. CASE a = Starter \/ a = Looper
      BY <2>1, <3>1, ActorAssumption
    <3>2. CASE a # Starter /\ a # Looper
      BY <2>1, <3>2, AwaitPc
    <3> QED
      BY <3>1, <3>2
  <2> HIDE DEF end
  <2>2. me' = [me EXCEPT ![a] = end] /\ end.pc \notin Section
    BY <2>a, <2>b DEF Section
  <2>3. Elsewhere(a) /\ me'[a].pc \notin Section
    BY <1>1, <2>2 DEF Elsewhere
  <2> QED
    BY <1>12, <2>3, Leaves DEF SwitchDone, NoReg
<1> QED
  BY <1>3, <1>4, <1>5, <1>6, <1>7, <1>8, <1>9, <1>10, <1>11, <1>12 DEF SwitchStep
-----------------------------------------------------------------------------
LEMMA BackOut ==
  ASSUME Typed, NEW a \in Actor
  PROVE  Back(a).pc \notin Section
<1>1. [At("items") EXCEPT !.todo = me[a].todo].pc = "items"
  BY DEF At
<1> QED
  BY <1>1, AwaitPc DEF Back, Section

LEMMA MemberLocked ==
  ASSUME Locked, NEW a \in Actor, MemberStep(a)
  PROVE  LockHeld'
<1> DEFINE l == me[a]
<1>1. me \in [Actor -> Goroutine] /\ l \in Local /\ Typed
  BY DEF Locked, Typed, TypeOK
<1>b. Back(a).pc \notin Section
  BY <1>1, BackOut
<1>2. ASSUME me'[a].pc \in Section, me'[a].kind = l.kind, l.pc \in Section \ {"wait"},
             \A b \in Actor \ {a} : me'[b] = me[b], switchMu' = switchMu, reg' = reg
      PROVE  LockHeld'
  BY <1>2, StaysIn DEF Elsewhere
<1>3. CASE GpuFree(a)
  <2> DEFINE one == [l EXCEPT !.pc = "spawn"]
  <2>1. one.pc = "spawn" /\ one.kind = l.kind
    BY <1>1 DEF Local
  <2>2. me'[a] = one /\ \A b \in Actor \ {a} : me'[b] = me[b]
    BY <1>1, <1>3 DEF GpuFree
  <2>3. l.pc \in Section \ {"wait"} /\ switchMu' = switchMu /\ reg' = reg
    BY <1>3 DEF GpuFree, Section
  <2> HIDE DEF one
  <2> QED
    BY <1>2, <2>1, <2>2, <2>3 DEF Section
<1>4. ASSUME NEW o \in Model, GpuTaken(a, o)  PROVE LockHeld'
  <2>1. reg' = reg /\ l.pc = "acquire"
    BY <1>4 DEF GpuTaken
  <2>2. CASE o \in Resident
    <3>1. At("done").pc \notin Section
      BY DEF At, Section
    <3>2. me' = [me EXCEPT ![a] = IF l.kind = "ondemand" THEN At("done") ELSE Back(a)] /\ Released(a)
      BY <1>4, <2>2 DEF GpuTaken
    <3>3. Elsewhere(a) /\ me'[a].pc \notin Section
      BY <1>1, <1>b, <3>1, <3>2 DEF Elsewhere
    <3> QED
      BY <2>1, <3>2, <3>3, Leaves
  <2>3. CASE o \notin Resident
    <3> DEFINE one == [l EXCEPT !.pc = "suspend", !.cur = o]
    <3>1. one.pc = "suspend" /\ one.kind = l.kind
      BY <1>1 DEF Local
    <3>2. me'[a] = one /\ (\A b \in Actor \ {a} : me'[b] = me[b]) /\ switchMu' = switchMu
      BY <1>1, <1>4, <2>3 DEF GpuTaken
    <3> HIDE DEF one
    <3> QED
      BY <1>2, <2>1, <3>1, <3>2 DEF Section
  <2> QED
    BY <2>2, <2>3
<1>5. CASE Suspend(a)
  <2> DEFINE one == [l EXCEPT !.pc = "stopslot"]
  <2>1. one.pc = "stopslot" /\ one.kind = l.kind
    BY <1>1 DEF Local
  <2>2. me'[a] = one /\ \A b \in Actor \ {a} : me'[b] = me[b]
    BY <1>1, <1>5 DEF Suspend
  <2>3. l.pc \in Section \ {"wait"} /\ switchMu' = switchMu /\ reg' = reg
    BY <1>5 DEF Suspend, Section
  <2> HIDE DEF one
  <2> QED
    BY <1>2, <2>1, <2>2, <2>3 DEF Section
<1>10. CASE StopSlot(a)
  <2> DEFINE one == [l EXCEPT !.pc = "suspended"]
  <2>1. one.pc = "suspended" /\ one.kind = l.kind
    BY <1>1 DEF Local
  <2>2. me'[a] = one /\ \A b \in Actor \ {a} : me'[b] = me[b]
    BY <1>1, <1>10 DEF StopSlot
  <2>3. l.pc \in Section \ {"wait"} /\ switchMu' = switchMu /\ reg' = reg
    BY <1>10 DEF StopSlot, Section
  <2> HIDE DEF one
  <2> QED
    BY <1>2, <2>1, <2>2, <2>3 DEF Section
<1>6. CASE Suspended(a)
  <2> DEFINE m == l.cur
             next == [l EXCEPT !.pc = "spawn", !.cur = None, !.lost = @ \ {m}]
  <2>1. reg' = reg /\ l.pc = "suspended"
    BY <1>6 DEF Suspended
  <2>2. next.pc = "spawn" /\ next.kind = l.kind
    BY <1>1 DEF Local
  <2>3. CASE l.kind = "sleep"
    <3> DEFINE f == [me EXCEPT ![a] = Back(a)]
    <3>1. me' = Turn(f, m, "dead") /\ Released(a)
      BY <1>6, <2>3 DEF Suspended
    <3>2. l.chan \in Chan /\ l.want \in Model \cup {None} /\ Obtained(l.want) \in Chan
      BY <1>1, ObtainedType DEF Local, Chan
    <3>3. Back(a) \in Goroutine
      BY <1>1, BackType
    <3>4. f \in [Actor -> Goroutine]
      BY <1>1, <3>3
    <3>5. \A b \in Actor : me'[b].pc = f[b].pc /\ me'[b].kind = f[b].kind
      <4> HIDE DEF f
      <4> QED
        BY <3>1, <3>4, TurnMoves
    <3>6. Elsewhere(a) /\ me'[a].pc \notin Section
      BY <1>1, <1>b, <3>5 DEF Elsewhere
    <3> QED
      BY <2>1, <3>1, <3>6, Leaves
  <2>4. CASE l.kind # "sleep"
    <3> DEFINE f == [me EXCEPT ![a] = next]
    <3>1. me' = Turn(f, m, "dead") /\ switchMu' = switchMu
      BY <1>6, <2>4 DEF Suspended
    <3>2. \A b \in Actor : me'[b].pc = f[b].pc /\ me'[b].kind = f[b].kind
      <4>1. next \in Goroutine
        <5>1. next \in Local
          BY <1>1, ZenonT(60) DEF Local, PCs
        <5>2. l.kind \in {"ondemand", "restart"}
          BY <1>1, <2>1, <2>4 DEF Goroutine, WellFormed
        <5> QED
          BY <1>1, <5>1, <5>2 DEF Goroutine, WellFormed, Local
      <4>2. f \in [Actor -> Goroutine]
        BY <1>1, <4>1
      <4> HIDE DEF f
      <4> QED
        BY <3>1, <4>2, TurnMoves
    <3>3. Elsewhere(a) /\ me'[a].pc = "spawn" /\ me'[a].kind = l.kind
      <4> HIDE DEF next
      <4> QED
        BY <1>1, <2>2, <3>2 DEF Elsewhere
    <3> QED
      BY <2>1, <3>1, <3>3, StaysIn DEF Section
  <2> QED
    BY <2>3, <2>4
<1>7. CASE RestartNot(a) \/ SleepNot(a)
  <2>1. me' = [me EXCEPT ![a] = Back(a)] /\ switchMu' = switchMu /\ reg' = reg /\ l.pc \notin Section
    BY <1>7 DEF RestartNot, SleepNot, Section
  <2>2. Elsewhere(a) /\ me'[a].pc \notin Section
    BY <1>1, <1>b, <2>1 DEF Elsewhere
  <2> QED
    BY <2>1, <2>2, StaysOut
<1>8. CASE RestartBegins(a) \/ SleepBegins(a)
  <2>1. /\ switchMu = None /\ switchMu' = a /\ reg' = reg /\ l.pc \notin Section
        /\ \A b \in Actor \ {a} : me'[b] = me[b]
    BY <1>1, <1>8 DEF RestartBegins, SleepBegins, Section
  <2> QED
    BY <2>1, TakesLock DEF Elsewhere
<1>9. CASE RestartEnds(a)
  <2>1. me' = [me EXCEPT ![a] = Back(a)] /\ Released(a) /\ reg' = reg /\ l.pc # "wait"
    BY <1>9 DEF RestartEnds
  <2>2. Elsewhere(a) /\ me'[a].pc \notin Section
    BY <1>1, <1>b, <2>1 DEF Elsewhere
  <2> QED
    BY <2>1, <2>2, Leaves
<1> QED
  BY <1>3, <1>4, <1>5, <1>6, <1>7, <1>8, <1>9, <1>10 DEF MemberStep
-----------------------------------------------------------------------------
LEMMA LoopLocked ==
  ASSUME Locked, LoopStep
  PROVE  LockHeld'
<1> DEFINE l == me[Looper]
<1>1. Looper \in Actor /\ me \in [Actor -> Goroutine] /\ l \in Local
  BY DEF Actor, Locked, Typed, TypeOK
<1>2. ASSUME l.pc \notin Section, me'[Looper].pc \notin Section,
             \A b \in Actor \ {Looper} : me'[b] = me[b], switchMu' = switchMu, reg' = reg
      PROVE  LockHeld'
  BY <1>1, <1>2, StaysOut DEF Elsewhere
<1>3. CASE SwitchBack
  <2> DEFINE one == [l EXCEPT !.pc = "stop", !.kind = "background"]
  <2>1. one.kind = "background"
    BY <1>1 DEF Local
  <2>2. me'[Looper] = one /\ \A b \in Actor \ {Looper} : me'[b] = me[b]
    BY <1>1, <1>3 DEF SwitchBack
  <2>3. l.pc \notin Section /\ switchMu' = switchMu /\ reg' = reg
    BY <1>3 DEF SwitchBack, Section
  <2> HIDE DEF one
  <2> QED
    BY <2>1, <2>2, <2>3, NeedsNoLock DEF Elsewhere
<1>4. CASE ForgetCoding \/ ClearCoding \/ Scan
  <2>1. me'[Looper].pc \in {"clearcoding", "idle", "items"}
    BY <1>1, <1>4 DEF ForgetCoding, ClearCoding, Scan, Local
  <2>2. \A b \in Actor \ {Looper} : me'[b] = me[b]
    BY <1>1, <1>4 DEF ForgetCoding, ClearCoding, Scan
  <2>3. l.pc \notin Section /\ switchMu' = switchMu /\ reg' = reg
    BY <1>4 DEF ForgetCoding, ClearCoding, Scan, Section
  <2> QED
    BY <1>2, <2>1, <2>2, <2>3 DEF Section
<1>5. CASE TickEnds \/ LoopReturns
  <2>1. At("idle").pc = "idle" /\ At("done").pc = "done"
    BY DEF At
  <2>2. me'[Looper] \in {At("idle"), At("done")} /\ \A b \in Actor \ {Looper} : me'[b] = me[b]
    BY <1>1, <1>5 DEF TickEnds, LoopReturns
  <2>3. l.pc \notin Section /\ switchMu' = switchMu /\ reg' = reg
    BY <1>5 DEF TickEnds, LoopReturns, Section
  <2> QED
    BY <1>2, <2>1, <2>2, <2>3 DEF Section
<1>6. CASE ItemMarked
  <2> DEFINE one == [At("items") EXCEPT !.todo = l.todo]
             next == [me EXCEPT ![Looper] = one]
  <2>1. one.pc = "items"
    BY DEF At
  <2>2. one \in Goroutine
    <3>1. one \in Local
      BY <1>1, AtType DEF Goroutine, Local
    <3> QED
      BY <2>1, <3>1 DEF Goroutine, WellFormed, At
  <2>3. next \in [Actor -> Goroutine] /\ MarkSlotReady(next, l.cur)
    BY <1>1, <1>6, <2>2 DEF ItemMarked
  <2>4. \A b \in Actor : me'[b].pc = next[b].pc /\ me'[b].kind = next[b].kind
    BY <2>3, MarkMoves
  <2>5. l.pc \notin Section /\ switchMu' = switchMu /\ reg' = reg
    BY <1>6 DEF ItemMarked, Section
  <2>6. Elsewhere(Looper) /\ me'[Looper].pc = "items"
    BY <1>1, <2>1, <2>4 DEF Elsewhere
  <2> QED
    BY <1>1, <2>5, <2>6, StaysOut DEF Section
<1>7. ASSUME NEW m \in Model, LoopItem(m)  PROVE LockHeld'
  <2> DEFINE sleep == [l EXCEPT !.pc = "sleeplock", !.kind = "sleep", !.want = m]
             mark == [l EXCEPT !.pc = "mark", !.cur = m]
             restart == [l EXCEPT !.pc = "restartlock", !.kind = "restart", !.want = m]
             less(r) == [r EXCEPT !.todo = @ \ {m}]
  <2>1. /\ l.pc \notin Section /\ l.pc = "items" /\ switchMu' = switchMu /\ reg' = reg
    BY <1>7 DEF LoopItem, ItemRests, ItemSleeps, ItemProbed, ItemGone, Item, Section
  <2>2. \E r \in {l, sleep, mark, restart} : me' = [me EXCEPT ![Looper] = less(r)]
    BY <1>7 DEF LoopItem, ItemRests, ItemSleeps, ItemProbed, ItemGone, Looked
  <2>3. /\ less(l).pc = "items" /\ less(sleep).pc = "sleeplock"
        /\ less(mark).pc = "mark" /\ less(restart).pc = "restartlock"
    BY <1>1, <2>1 DEF Local
  <2> HIDE DEF sleep, mark, restart, less
  <2>4. me'[Looper].pc \notin Section /\ \A b \in Actor \ {Looper} : me'[b] = me[b]
    BY <1>1, <2>2, <2>3 DEF Section
  <2> QED
    BY <1>2, <2>1, <2>4
<1> QED
  BY <1>3, <1>4, <1>5, <1>6, <1>7 DEF LoopStep, LoopTick

LEMMA StartLocked ==
  ASSUME Locked, StartBegins
  PROVE  LockHeld'
<1> DEFINE l == me[Starter]
           one == [l EXCEPT !.pc = "stop", !.kind = "background"]
<1>1. Starter \in Actor /\ me \in [Actor -> Goroutine] /\ l \in Local
  BY DEF Actor, Locked, Typed, TypeOK
<1>2. l.pc \notin Section /\ switchMu' = switchMu /\ reg' = reg
  BY DEF StartBegins, Section
<1>3. \A b \in Actor \ {Starter} : me'[b] = me[b]
  BY <1>1 DEF StartBegins
<1>4. me'[Starter] \in {one, At("done")}
  BY <1>1 DEF StartBegins
<1>5. one.kind = "background" /\ At("done").pc = "done"
  BY <1>1 DEF At, Local
<1> HIDE DEF one
<1>6. CASE me'[Starter] = one
  BY <1>2, <1>3, <1>5, <1>6, NeedsNoLock DEF Elsewhere
<1>7. CASE me'[Starter] = At("done")
  BY <1>1, <1>2, <1>3, <1>5, <1>7, StaysOut DEF Elsewhere, Section
<1> QED
  BY <1>4, <1>6, <1>7

LEMMA InitLocked ==
  ASSUME Init
  PROVE  LockHeld
<1>1. \A p : At(p).pc = p
  BY DEF At
<1>2. \A a \in Actor : me[a].pc \in {"start", "idle", "done"}
  BY <1>1 DEF Init
<1>3. reg.by = None /\ None \notin Caller
  BY ActorAssumption DEF Init, NoReg, Actor
<1> QED
  BY <1>2, <1>3, SectionDef DEF LockHeld, Section

LEMMA NextLocked ==
  ASSUME Locked, [Next]_vars
  PROVE  Locked'
<1>1. Typed'
  BY NextType DEF Locked
<1>2. CASE me' = me /\ switchMu' = switchMu /\ reg' = reg
  <2>1. \A a : InSection(a)' <=> InSection(a)
    BY <1>2 DEF InSection
  <2> QED
    BY <1>1, <1>2, <2>1 DEF Locked, LockHeld
<1>3. CASE Signal \/ Shutdown \/ Halted \/ LeaseLapses \/ (\E m \in Model : IdleElapses(m))
             \/ (\E p \in Proc : Reaped(p)) \/ World \/ UNCHANGED vars
  <2>1. me' = me /\ switchMu' = switchMu /\ reg' = reg
    BY <1>3 DEF Signal, Shutdown, Halted, LeaseLapses, IdleElapses, Reaped, World, vars
  <2> QED
    BY <1>2, <2>1
<1>4. CASE (\E c \in Caller : Request(c)) \/ (\E a \in Actor : SwitchStep(a) \/ MemberStep(a))
             \/ StartBegins \/ LoopStep
  BY <1>1, <1>4, RequestLocked, SwitchLocked, MemberLocked, StartLocked, LoopLocked DEF Locked
<1> QED
  BY <1>3, <1>4 DEF Next

(* Mutual exclusion: every request, restart or sleep that works on processes   *)
(* holds switchMu, and the switch a preemption would cancel is one that still  *)
(* waits for readiness (scheduler.go:63-65, switching.go:290-294).              *)
THEOREM MutualExclusion == Spec => []LockHeld
<1>1. Init => Locked
  BY InitType, InitLocked DEF Locked
<1>2. Locked /\ [Next]_vars => Locked'
  BY NextLocked
<1>3. Locked => LockHeld
  BY DEF Locked
<1> QED
  BY <1>1, <1>2, <1>3, PTL DEF Spec
=============================================================================
