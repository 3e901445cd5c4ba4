-------------------------- MODULE SchedulerProcesses --------------------------
(***************************************************************************)
(* Proofs about the processes: as long as no two switches have overlapped, *)
(* whoever works on processes works alone.  Every step is summarised once  *)
(* by the fields it reads and writes, and each invariant is carried over   *)
(* the summaries: a switch and a load by their own steps, anything else by *)
(* Quiet and Still.                                                        *)
(***************************************************************************)
EXTENDS SchedulerLocking

Relocks  == {"restartlock", "sleeplock"}
Switches == {"coding", "background"}
Singles  == {"ondemand", "restart"}

(* The positions at which a goroutine relies on what it found in the slots. *)
Working == {"acquire", "suspend", "stopslot", "suspended", "kill", "launch", "spawn", "register"}

-----------------------------------------------------------------------------
(* The invariants *)

(* What a goroutine carries at each position, whatever the others do. *)
Equipped(l) ==
  /\ l.pc # "register" => l.fresh = None
  /\ l.pc # "kill" => l.victims = {}
  /\ \A v \in l.victims : ~Survives(v.model) /\ \A w \in l.victims : v.model = w.model => v = w
  /\ l.kind \in {"restart", "sleep"} => l.pc \in Section \cup Relocks /\ l.want \in Model
  /\ l.kind = "sleep" => l.want \in Sleepy
  /\ l.pc \in {"ensure", "preempt", "lock"} => l.want \in Model
  /\ l.kind = "ondemand" => l.want \in Background
  /\ l.kind = "restart" /\ l.pc \in Section => l.want \in Background
  /\ l.pc = "register" /\ l.kind \in Singles => l.cur = l.want
  /\ l.pc = "register" /\ l.kind \in Switches => l.cur \in l.todo
  /\ l.pc \in {"launch", "register"} /\ l.kind \in Switches => l.todo \subseteq Targets(l)
  /\ l.pc \in {"suspend", "stopslot", "suspended"} => l.cur \in Model
  /\ l.pc \in {"suspend", "stopslot", "suspended"} /\ l.kind # "sleep" => l.cur # l.want /\ l.cur \notin Resident
  /\ l.pc \in {"suspend", "stopslot", "suspended"} /\ l.kind = "sleep" => l.cur = l.want

EquippedInv == \A a \in Actor : Equipped(me[a])

(* No slot was replaced under a pointer held by anyone but who waits for switchMu. *)
Clean(l) == l.pc \notin Relocks => l.lost = {}

(* What the slots s look like to a goroutine that works on them. *)
Placed(l, s) ==
  /\ l.kind = "restart" /\ l.pc \in Working => s[l.want].present
  /\ l.pc \in {"suspend", "stopslot", "suspended"} => s[l.cur].present
  /\ l.kind \in Singles /\ l.pc \in Working => s[l.want].cmd = None
  /\ l.pc = "register" => s[l.cur].cmd = None
  /\ l.pc = "kill" => \A m \in Model : s[m].present => Survives(m)
  /\ l.pc \in {"launch", "register"} /\ l.kind \in Switches =>
       /\ \A m \in Model : s[m].present => Survives(m) \/ m \in Targets(l)
       /\ \A m \in Targets(l) \ l.todo : s[m].present

(* A slot that is not in procs has neither a command nor a sleeping mark. *)
Sound == \A m \in Model : ~slot[m].present => slot[m].cmd = None /\ ~slot[m].sleeping

(* The models that should run are those that have a slot. *)
Matched == \A m \in Model : m \in expected <=> slot[m].present

Serial == \A a, b \in Actor : InSection(a) /\ InSection(b) => a = b

SlotInv ==
  ~overlapped =>
    /\ Serial /\ Sound /\ Matched
    /\ \A a \in Actor : Clean(me[a]) /\ Placed(me[a], slot)

-----------------------------------------------------------------------------
(* Summaries of the steps *)

SameJob(k, l) ==
  /\ k.pc = l.pc /\ k.kind = l.kind /\ k.want = l.want /\ k.cur = l.cur
  /\ k.fresh = l.fresh /\ k.todo = l.todo /\ k.victims = l.victims

KeepsLost(k, l) ==
  k.lost = l.lost \/ l.kind \in {"restart", "sleep"} \/ l.pc \in {"suspend", "stopslot", "suspended"}

(* A step of a leaves the job of every other goroutine alone; so does Drop, except *)
(* for the slots it takes away.                                                    *)
Rest(a) == \A b \in Actor \ {a} : SameJob(me'[b], me[b]) /\ KeepsLost(me'[b], me[b])
Unlost(a) == \A b \in Actor \ {a} : me'[b].lost = me[b].lost

ClearsLost(a) ==
  \/ me'[a].lost = {}
  \/ me'[a].lost = me[a].lost /\ (me[a].pc \in Relocks => me'[a].pc \in Relocks)

(* serverPID is kept, forgotten, or set to whoever listens on the slot's port. *)
Adopts(m) == slot'[m].spid = slot[m].spid \/ slot'[m].spid = None \/ slot'[m].spid \in Listeners(m)

SlotsKept ==
  \A m \in Model :
    /\ slot'[m].present = slot[m].present /\ slot'[m].cmd = slot[m].cmd
    /\ slot'[m].sleeping = slot[m].sleeping
    /\ Adopts(m)

(* A step that neither starts nor stops anything and ends where a relies on no slot. *)
Quiet(a) ==
  /\ Up /\ UNCHANGED <<os, expected, overlapped>> /\ SlotsKept
  /\ \/ codingModel' = codingModel
     \/ codingModel' = None /\ a = Looper /\ me[a].pc = "clearcoding"
  /\ Rest(a) /\ Unlost(a) /\ ClearsLost(a)
  /\ me[a].pc \notin {"stopslot", "suspended", "kill", "launch", "register"} /\ me'[a].pc \notin Working
  /\ InSection(a)' => InSection(a) /\ me'[a].kind = me[a].kind
  /\ me[a].pc \in {"start", "done"} => me'[a].pc = "done"
  /\ me'[a].pc = "clearcoding" => a = Looper /\ Autostart = {}

Enters(a) ==
  /\ Up /\ UNCHANGED <<os, slot, expected, codingModel>> /\ Entered(a)
  /\ Rest(a) /\ Unlost(a) /\ ClearsLost(a)
  /\ me[a].pc \notin Section \cup {"done"} /\ me'[a].pc \in {"acquire", "stop", "suspend"}
  /\ \/ a \in {Starter, Looper} /\ Autostart # {}
     \/ /\ switchMu = None /\ me[a].pc \in {"lock"} \cup Relocks
        /\ a \in Caller \/ me'[a].kind \in {"restart", "sleep"}
  /\ me'[a].pc = "acquire" =>
       /\ me'[a].kind \in Singles /\ me'[a].want \in Model /\ ~Running(me'[a].want)
       /\ me'[a].kind = "restart" => slot[me'[a].want].present
  /\ me'[a].pc = "suspend" =>
       /\ me'[a].kind = "sleep" /\ me'[a].cur \in Model
       /\ slot[me'[a].cur].present /\ slot[me'[a].cur].ready

(* A step of a, at position p and then at q, within its section. *)
Works(a, p, q) ==
  /\ Up /\ UNCHANGED overlapped /\ Rest(a)
  /\ me[a].pc = p /\ me'[a].pc = q /\ {p, q} \subseteq Section
  /\ me'[a].kind = me[a].kind /\ me'[a].want = me[a].want /\ me'[a].lost \subseteq me[a].lost

Empties(a) ==
  LET kept == {m \in Model : slot[m].present /\ Survives(m)}
      gone == {m \in Model : slot[m].present /\ ~Survives(m)}
  IN  /\ Works(a, "stop", "kill") /\ UNCHANGED os
      /\ me'[a].victims = {[model |-> m, cmd |-> slot[m].cmd, spid |-> slot[m].spid] : m \in gone}
      /\ slot' = [m \in Model |-> IF m \in gone THEN NoSlot ELSE slot[m]]
      /\ expected' = kept /\ codingModel' = None

Kills(a) ==
  /\ Works(a, "kill", "launch") /\ UNCHANGED <<slot, expected, codingModel>>
  /\ me'[a].todo = Targets(me[a])
  /\ os' = Stopped(UNION {KillTargets(v.model, v) : v \in me[a].victims})

Skips(a, m) ==
  /\ Works(a, "launch", "launch") /\ UNCHANGED <<os, slot, codingModel>>
  /\ slot[m].present \/ slot[m].sleeping
  /\ expected' = expected \cup {m} /\ me'[a].todo = me[a].todo \ {m}

Starts(a, m) ==
  /\ Launchable(a, m)
  /\ Works(a, me[a].pc, "register") /\ UNCHANGED <<slot, expected, codingModel>>
  /\ me'[a].cur = m /\ me'[a].todo = me[a].todo
  /\ \/ /\ me'[a].fresh \in Spawnable
        /\ os' = [Stopped(Listeners(m)) EXCEPT
                    ![me'[a].fresh] = [model |-> m, server |-> "loading", wrapper |-> "alive"]]
     \/ m \in Faulty /\ me'[a].fresh = None /\ os' = Stopped(Listeners(m))

Registers(a) ==
  LET m == me[a].cur
  IN  /\ Works(a, "register", IF me[a].kind = "ondemand" THEN "publish" ELSE "launch")
      /\ me[a].kind # "restart" /\ UNCHANGED <<os, codingModel>>
      /\ slot' = [slot EXCEPT ![m] = [NoSlot EXCEPT !.present = TRUE, !.cmd = me[a].fresh]]
      /\ expected' = expected \cup {m} /\ me'[a].todo = me[a].todo \ {m}

Publishes(a) ==
  /\ Works(a, "launch", "wait") /\ me[a].todo = {} /\ UNCHANGED <<os, slot>>
  /\ expected' = expected \cup Targets(me[a])
  /\ codingModel' = IF me[a].kind = "coding" THEN me[a].want ELSE None

Frees(a) ==
  /\ Works(a, "acquire", "spawn") /\ UNCHANGED <<os, slot, expected, codingModel>>
  /\ Owners(me[a].want) = {}

Evicts(a) ==
  /\ Works(a, "acquire", "suspend") /\ UNCHANGED <<os, slot, expected, codingModel>>
  /\ me'[a].cur \in Owners(me[a].want) \ Resident

Suspends(a) ==
  LET m == me[a].cur
  IN  /\ Works(a, "suspend", "stopslot") /\ UNCHANGED <<os, expected, codingModel>>
      /\ me'[a].cur = m
      /\ slot' = IF m \in me[a].lost THEN slot
                 ELSE [slot EXCEPT ![m].sleeping = TRUE, ![m].ready = FALSE]

Quells(a) ==
  LET m == me[a].cur
  IN  /\ Works(a, "stopslot", "suspended") /\ UNCHANGED <<expected, codingModel>>
      /\ me'[a].cur = m
      /\ os' = Stopped(KillTargets(m, IF m \in me[a].lost THEN NoSlot ELSE slot[m]))
      /\ slot' = IF m \in me[a].lost THEN slot ELSE [slot EXCEPT ![m].spid = Resolved(m)]

(* The end of suspendSlot, within an eviction or as the end of a sleep. *)
Suspending(a) ==
  LET m == me[a].cur
  IN  /\ slot' = IF m \in me[a].lost THEN slot
                 ELSE [slot EXCEPT ![m].cmd = None, ![m].spid = None, ![m].closed = FALSE]
      /\ UNCHANGED <<os, expected, codingModel>>

Departs(a, p) ==
  /\ Up /\ UNCHANGED overlapped /\ Rest(a)
  /\ me[a].pc = p /\ p \in Section
  /\ me'[a].pc \notin Section \cup {"clearcoding"} /\ me'[a].lost = {}

Evicted(a) == Works(a, "suspended", "spawn") /\ me[a].kind # "sleep" /\ Suspending(a)
Slept(a) == Departs(a, "suspended") /\ me[a].kind = "sleep" /\ Suspending(a)

Restarted(a) ==
  LET m == me[a].want
  IN  /\ Departs(a, "register") /\ me[a].kind = "restart" /\ UNCHANGED <<os, expected, codingModel>>
      /\ slot' = IF me[a].fresh = None \/ m \in me[a].lost THEN slot
                 ELSE [slot EXCEPT ![m].cmd = me[a].fresh, ![m].ready = FALSE, ![m].sleeping = FALSE]

(* No process comes to life, and none that lives changes its model. *)
Shrinks ==
  \A p \in Proc :
    Alive(p)' =>
      /\ Alive(p) /\ os'[p].model = os[p].model
      /\ os'[p].wrapper = os[p].wrapper \/ os[p].wrapper # "alive" \/ Detaching # {}

(* A step of no goroutine.  Only a command that has exited leaves its slot, until *)
(* the proxy goes down.                                                           *)
Still ==
  /\ UNCHANGED <<me, expected, codingModel, overlapped>> /\ Shrinks /\ (Up' => Up)
  /\ \A m \in Model :
       /\ slot'[m].present = slot[m].present /\ slot'[m].sleeping = slot[m].sleeping
       /\ \/ slot'[m].cmd = slot[m].cmd
          \/ slot'[m].cmd = None /\ (Up' => os[slot[m].cmd].wrapper = "exited")
       /\ Adopts(m)
  /\ phase = "up" \/ Up' =>
       \A p \in Live :
         os'[p].server = "dead" =>
           os[p].model \in Faulty \/ (os[p].server = "loading" /\ Responds(os[p].model))

Summary(a) ==
  \/ Quiet(a) \/ Enters(a) \/ Empties(a) \/ Kills(a) \/ Registers(a) \/ Publishes(a)
  \/ Frees(a) \/ Evicts(a) \/ Suspends(a) \/ Quells(a) \/ Evicted(a) \/ Slept(a) \/ Restarted(a)
  \/ \E m \in Model : Skips(a, m) \/ Starts(a, m)

-----------------------------------------------------------------------------
(* What a step leaves in the goroutines *)

Settled(k) ==
  /\ k.pc \in {"idle", "ensure", "await", "use", "items", "done"}
  /\ k.kind = "none" /\ k.fresh = None /\ k.victims = {} /\ k.lost = {}
  /\ k.pc = "ensure" => k.want \in Model

LEMMA AtSettled ==
  ASSUME NEW p \in {"idle", "await", "use", "items", "done"}
  PROVE  /\ Settled(At(p))
         /\ \A m : Settled([At(p) EXCEPT !.want = m]) /\ Settled([At(p) EXCEPT !.todo = m])
         /\ \A m \in Model : Settled([At("ensure") EXCEPT !.want = m])
BY DEF Settled, At

LEMMA AwaitSettled ==
  ASSUME NEW l, NEW ch
  PROVE  Settled(Await(l, ch))
BY DEF Settled, Await, At

LEMMA BackSettled ==
  ASSUME NEW a
  PROVE  Settled(Back(a)) /\ Back(a).pc # "ensure"
<1>1. [At("items") EXCEPT !.todo = me[a].todo].pc = "items"
  BY DEF At
<1> QED
  BY <1>1, AtSettled, AwaitSettled, AwaitPc DEF Back

LEMMA SettledEquipped ==
  ASSUME NEW k, Settled(k)
  PROVE  Equipped(k)
BY DEF Settled, Equipped, Section, Relocks, Singles, Switches

LEMMA SameEquipped ==
  ASSUME NEW k, NEW l, SameJob(k, l), Equipped(l)
  PROVE  Equipped(k)
<1>1. Targets(k) = Targets(l)
  BY DEF SameJob, Targets
<1> QED
  BY <1>1 DEF SameJob, Equipped

LEMMA EquippedRest ==
  ASSUME EquippedInv, NEW a \in Actor, Rest(a), Equipped(me'[a])
  PROVE  EquippedInv'
<1>1. ASSUME NEW b \in Actor \ {a}  PROVE Equipped(me'[b])
  BY SameEquipped DEF Rest, EquippedInv
<1> QED
  BY <1>1 DEF EquippedInv, Equipped

LEMMA OneStep ==
  ASSUME Typed, NEW a \in Actor, NEW k, me' = [me EXCEPT ![a] = k]
  PROVE  me'[a] = k /\ Rest(a) /\ Unlost(a)
<1>1. me'[a] = k /\ \A b \in Actor \ {a} : me'[b] = me[b]
  BY DEF Typed
<1> QED
  BY <1>1 DEF Rest, Unlost, SameJob, KeepsLost

LEMMA TurnKeeps ==
  ASSUME NEW f \in [Actor -> Goroutine], NEW m, NEW ch, NEW b \in Actor
  PROVE  SameJob(Turn(f, m, ch)[b], f[b]) /\ Turn(f, m, ch)[b].lost = f[b].lost
<1>1. f[b] \in Local
  BY DEF Goroutine
<1>2. SameJob([f[b] EXCEPT !.chan = ch], f[b]) /\ [f[b] EXCEPT !.chan = ch].lost = f[b].lost
  BY <1>1 DEF SameJob, Local
<1>3. Turn(f, m, ch)[b] \in {f[b], [f[b] EXCEPT !.chan = ch]}
  BY DEF Turn
<1> QED
  BY <1>2, <1>3 DEF SameJob

LEMMA DropKeeps ==
  ASSUME NEW f \in [Actor -> Goroutine], NEW D, NEW b \in Actor
  PROVE  SameJob(Drop(f, D)[b], f[b]) /\ KeepsLost(Drop(f, D)[b], f[b])
<1>1. f[b] \in Local
  BY DEF Goroutine
<1> DEFINE ch == IF f[b].want \in D /\ f[b].chan \in {"held", "open"} THEN "dead" ELSE f[b].chan
           los == IF f[b].kind \in {"restart", "sleep"} \/ f[b].pc \in {"suspend", "stopslot", "suspended"}
                  THEN f[b].lost \cup (D \cap {f[b].want, f[b].cur}) ELSE f[b].lost
           k == [f[b] EXCEPT !.chan = ch, !.lost = los]
<1>2. Drop(f, D)[b] = k
  BY <1>1 DEF Drop, Local
<1>3. KeepsLost([lost |-> los], f[b])
  BY DEF KeepsLost
<1>4. SameJob(k, f[b]) /\ k.lost = los
  <2> HIDE DEF ch, los
  <2> QED
    BY <1>1 DEF SameJob, Local
<1> HIDE DEF k, los
<1> QED
  BY <1>2, <1>3, <1>4 DEF KeepsLost

LEMMA TurnStep ==
  ASSUME Typed, NEW a \in Actor, NEW k \in Goroutine, NEW m, NEW ch,
         me' = Turn([me EXCEPT ![a] = k], m, ch)
  PROVE  SameJob(me'[a], k) /\ me'[a].lost = k.lost /\ Rest(a) /\ Unlost(a)
<1> DEFINE f == [me EXCEPT ![a] = k]
<1>1. f \in [Actor -> Goroutine] /\ f[a] = k /\ (\A b \in Actor \ {a} : f[b] = me[b])
      /\ me' = Turn(f, m, ch)
  BY DEF Typed
<1> HIDE DEF f
<1>2. \A b \in Actor : SameJob(me'[b], f[b]) /\ me'[b].lost = f[b].lost
  BY <1>1, TurnKeeps
<1> QED
  BY <1>1, <1>2 DEF Rest, Unlost, KeepsLost

LEMMA DropStep ==
  ASSUME Typed, NEW a \in Actor, NEW k \in Goroutine, NEW D,
         me' = Drop([me EXCEPT ![a] = k], D)
  PROVE  SameJob(me'[a], k) /\ KeepsLost(me'[a], k) /\ Rest(a)
<1> DEFINE f == [me EXCEPT ![a] = k]
<1>1. f \in [Actor -> Goroutine] /\ f[a] = k /\ (\A b \in Actor \ {a} : f[b] = me[b])
      /\ me' = Drop(f, D)
  BY DEF Typed
<1> HIDE DEF f
<1>2. \A b \in Actor : SameJob(me'[b], f[b]) /\ KeepsLost(me'[b], f[b])
  BY <1>1, DropKeeps
<1> QED
  BY <1>1, <1>2 DEF Rest

(* markSlotReady: no command changes, and the server is looked up again. *)
LEMMA MarkKeeps ==
  ASSUME Typed, NEW f \in [Actor -> Goroutine], NEW m \in Model, MarkSlotReady(f, m)
  PROVE  /\ SlotsKept
         /\ \A b \in Actor : SameJob(me'[b], f[b]) /\ me'[b].lost = f[b].lost
<1>1. slot \in [Model -> Slot]
  BY DEF Typed, TypeOK, ProcTypeOK
<1>2. Resolved(m) = slot[m].spid \/ Resolved(m) \in Listeners(m)
  BY DEF Resolved, Responds
<1>3. CASE slot[m].present /\ ~slot[m].ready
  <2>1. slot' = [slot EXCEPT ![m] = [slot[m] EXCEPT !.ready = TRUE, !.closed = TRUE, !.spid = Resolved(m)]]
        /\ me' = Turn(f, m, "closed")
    BY <1>1, <1>3 DEF MarkSlotReady
  <2>2. SlotsKept
    BY <1>1, <1>2, <2>1 DEF SlotsKept, Adopts, Slot
  <2> QED
    BY <2>1, <2>2, TurnKeeps
<1>4. CASE ~(slot[m].present /\ ~slot[m].ready)
  BY <1>4 DEF MarkSlotReady, SlotsKept, Adopts, SameJob
<1> QED
  BY <1>3, <1>4

LEMMA SlotsSame ==
  ASSUME slot' = slot
  PROVE  SlotsKept
BY DEF SlotsKept, Adopts

(* A step that ends with a waiting, idle or finished goroutine. *)
LEMMA Settles ==
  ASSUME Typed, EquippedInv, NEW a \in Actor, NEW k, Settled(k),
         SameJob(me'[a], k), me'[a].lost = k.lost, Rest(a), Unlost(a),
         Up, UNCHANGED <<os, expected, codingModel, overlapped>>, SlotsKept,
         me[a].pc \notin {"stopslot", "suspended", "kill", "launch", "register", "done"}, me[a].pc = "start" => k.pc = "done"
  PROVE  Quiet(a) /\ EquippedInv'
<1>1. EquippedInv'
  BY SettledEquipped, SameEquipped, EquippedRest
<1>2. me'[a].pc \notin Section \cup Relocks \cup {"clearcoding"} /\ me'[a].lost = {}
  BY DEF Settled, SameJob, Section, Relocks
<1> QED
  BY <1>1, <1>2, SectionDefNext DEF Quiet, ClearsLost, Working, Section, SameJob

(* A step after which a waits, has asked, or looks at its next slot. *)
LEMMA Waits ==
  ASSUME Typed, EquippedInv, NEW a \in Actor, NEW k, Equipped(k),
         SameJob(me'[a], k), me'[a].lost = k.lost, Rest(a), Unlost(a),
         Up, UNCHANGED <<os, expected, overlapped>>, SlotsKept,
         codingModel' = codingModel \/ (codingModel' = None /\ a = Looper /\ me[a].pc = "clearcoding"),
         me[a].pc \notin {"stopslot", "suspended", "kill", "launch", "register", "start", "done"} \cup Relocks,
         k.pc \notin Working \cup {"clearcoding"}, k.lost = me[a].lost,
         k.pc \in Section => me[a].pc \in Section /\ k.kind = me[a].kind
  PROVE  Quiet(a) /\ EquippedInv'
<1>1. EquippedInv'
  BY SameEquipped, EquippedRest
<1> QED
  BY <1>1, SectionDef, SectionDefNext DEF Quiet, ClearsLost, SameJob

-----------------------------------------------------------------------------
(* Every step has a summary, and goroutines stay equipped *)

LEMMA RequestSummary ==
  ASSUME Typed, EquippedInv, NEW c \in Caller, Request(c)
  PROVE  (Quiet(c) \/ Enters(c)) /\ EquippedInv'
<1> DEFINE l == me[c]
<1>1. c \in Actor /\ me \in [Actor -> Goroutine] /\ l \in Local /\ WellFormed(l) /\ Equipped(l)
  BY DEF Actor, Typed, EquippedInv, Goroutine
<1>2. ASSUME NEW k, Settled(k), me' = [me EXCEPT ![c] = k], Up,
             UNCHANGED <<os, slot, expected, codingModel, overlapped>>,
             l.pc \notin {"stopslot", "suspended", "kill", "launch", "register", "done", "start"}
      PROVE  Quiet(c) /\ EquippedInv'
  <2>1. me'[c] = k /\ Rest(c) /\ Unlost(c)
    BY <1>1, <1>2, OneStep
  <2> QED
    BY <1>1, <1>2, <2>1, SlotsSame, Settles DEF SameJob
<1>3. ASSUME NEW k, Equipped(k), me' = [me EXCEPT ![c] = k], Up,
             UNCHANGED <<os, slot, expected, codingModel, overlapped>>,
             l.pc \notin {"stopslot", "suspended", "kill", "launch", "register", "done", "start"} \cup Relocks,
             k.pc \notin Section \cup {"clearcoding"}, k.lost = l.lost
      PROVE  Quiet(c) /\ EquippedInv'
  <2>1. me'[c] = k /\ Rest(c) /\ Unlost(c)
    BY <1>1, <1>3, OneStep
  <2>2. k.pc \notin Working
    BY <1>3 DEF Section, Working
  <2> QED
    BY <1>1, <1>3, <2>1, <2>2, SlotsSame, Waits DEF SameJob
<1>4. ASSUME NEW m \in Model, Refuse(c, m)  PROVE Quiet(c) /\ EquippedInv'
  BY <1>2, <1>4, AtSettled DEF Refuse, Up, procVars, modeVars
<1>5. ASSUME NEW m \in Model, Arrive(c, m)  PROVE Quiet(c) /\ EquippedInv'
  BY <1>2, <1>5, AtSettled DEF Arrive, Up, procVars, modeVars
<1>6. CASE EnsureAlone(c)
  <2> DEFINE m == l.want
             next == [l EXCEPT !.pc = "preempt", !.kind = IF m \in Coding THEN "coding" ELSE "ondemand"]
  <2>1. me' = [me EXCEPT ![c] = IF Running(m) THEN Await(l, Obtained(m))
                               ELSE IF backoff[m] THEN At("done") ELSE next]
    BY <1>6 DEF EnsureAlone
  <2>2. l.pc = "ensure" /\ Up /\ UNCHANGED <<os, slot, expected, codingModel, overlapped>>
    BY <1>6 DEF EnsureAlone, procVars, modeVars
  <2>3. Equipped(next) /\ next.pc = "preempt" /\ next.lost = l.lost
    <3>1. /\ next.pc = "preempt" /\ next.kind \in {"coding", "ondemand"} /\ next.lost = l.lost
          /\ next.want = m /\ next.fresh = l.fresh /\ next.victims = l.victims
          /\ next.kind = "ondemand" => m \notin Coding
      BY <1>1 DEF Local
    <3> HIDE DEF next
    <3> QED
      BY <1>1, <2>2, <3>1 DEF Equipped, Background, Section, Relocks, Singles, Switches
  <2> HIDE DEF next
  <2>4. CASE Running(m) \/ backoff[m]
    <3>1. Settled(Await(l, Obtained(m))) /\ Settled(At("done"))
      BY AwaitSettled, AtSettled
    <3> QED
      BY <1>2, <2>1, <2>2, <2>4, <3>1
  <2>5. CASE ~(Running(m) \/ backoff[m])
    BY <1>3, <2>1, <2>2, <2>3, <2>5 DEF Relocks, Section
  <2> QED
    BY <2>4, <2>5
<1>7. CASE EnsureMember(c)
  <2> DEFINE m == l.want
             kept == slot[m].present /\ (m \in Resident \/ codingModel = None)
             restart == [l EXCEPT !.pc = "restartlock", !.kind = "restart", !.chan = "held"]
             switch == [l EXCEPT !.pc = "lock", !.kind = "background"]
             settled == IF kept /\ Running(m) THEN Await(l, Obtained(m)) ELSE Await(l, "dead")
  <2>1. me' = [me EXCEPT ![c] = settled] \/ me' = [me EXCEPT ![c] = restart]
        \/ me' = [me EXCEPT ![c] = switch]
    BY <1>7 DEF EnsureMember
  <2>2. l.pc = "ensure" /\ Up /\ UNCHANGED <<os, slot, expected, codingModel, overlapped>>
    BY <1>7 DEF EnsureMember, procVars, modeVars
  <2>3. /\ restart.pc = "restartlock" /\ restart.kind = "restart" /\ switch.pc = "lock"
        /\ switch.kind = "background" /\ restart.lost = l.lost /\ switch.lost = l.lost
        /\ \A k \in {restart, switch} : k.want = m /\ k.fresh = l.fresh /\ k.victims = l.victims
    BY <1>1 DEF Local
  <2>4. Settled(settled)
    BY AwaitSettled
  <2> HIDE DEF restart, switch, settled
  <2>5. Equipped(restart) /\ Equipped(switch)
    BY <1>1, <2>2, <2>3 DEF Equipped, Section, Relocks, Singles, Switches
  <2> QED
    BY <1>2, <1>3, <2>1, <2>2, <2>3, <2>4, <2>5 DEF Relocks, Section
<1>8. CASE Preempt(c)
  <2>1. l.pc = "preempt" /\ Up /\ UNCHANGED <<os, slot, expected, codingModel, overlapped>>
    BY <1>8 DEF Preempt, procVars, modeVars
  <2>2. me'[c].pc = "lock" /\ me'[c].kind = l.kind /\ me'[c].want = l.want /\ me'[c].lost = l.lost
        /\ me'[c].fresh = l.fresh /\ me'[c].victims = l.victims
    BY <1>1, <1>8 DEF Preempt, Local, Goroutine
  <2>3. ASSUME NEW b \in Actor \ {c}  PROVE SameJob(me'[b], me[b]) /\ me'[b].lost = me[b].lost
    <3>1. me[b] \in Local
      BY <1>1 DEF Goroutine
    <3> DEFINE next == [me EXCEPT ![c].pc = "lock"]
    <3>2. me' = next \/ me' = [next EXCEPT ![reg.by] = [next[reg.by] EXCEPT !.canceled = TRUE]]
      BY <1>1, <1>8 DEF Preempt
    <3>3. DOMAIN next = Actor /\ next[b] = me[b]
      BY <1>1
    <3> HIDE DEF next
    <3>4. me'[b] = me[b] \/ me'[b] = [me[b] EXCEPT !.canceled = TRUE]
      BY <3>2, <3>3
    <3> QED
      BY <3>1, <3>4 DEF SameJob, Local
  <2>4. Rest(c) /\ Unlost(c)
    BY <2>3 DEF Rest, Unlost, KeepsLost
  <2>5. Equipped(me'[c])
    BY <1>1, <2>1, <2>2 DEF Equipped, WellFormed, Section, Relocks, Singles, Switches
  <2> QED
    BY <1>1, <2>1, <2>2, <2>4, <2>5, SlotsSame, Waits DEF SameJob, Relocks, Section, Working
<1>9. CASE LockHit(c)
  BY <1>2, <1>9, AwaitSettled DEF LockHit, procVars, modeVars
<1>10. CASE LockMiss(c)
  <2> DEFINE one == [l EXCEPT !.pc = IF l.kind = "ondemand" THEN "acquire" ELSE "stop"]
  <2>1. /\ Up /\ l.pc = "lock" /\ switchMu = None /\ Entered(c)
        /\ UNCHANGED <<os, slot, expected, codingModel>>
        /\ l.kind = "ondemand" => ~Running(l.want)
    BY <1>10 DEF LockMiss, procVars, modeVars
  <2>2. me'[c] = one /\ Rest(c) /\ Unlost(c)
    <3>1. me' = [me EXCEPT ![c] = one]
      BY <1>1, <1>10 DEF LockMiss
    <3> HIDE DEF one
    <3> QED
      BY <1>1, <3>1, OneStep
  <2>3. /\ one.pc = IF l.kind = "ondemand" THEN "acquire" ELSE "stop"
        /\ SameJob([one EXCEPT !.pc = l.pc], l) /\ one.lost = l.lost
        /\ one.kind = l.kind /\ one.want = l.want /\ one.fresh = l.fresh /\ one.victims = l.victims
    BY <1>1 DEF Local, SameJob
  <2> HIDE DEF one
  <2>4. l.kind \in Switches \cup {"ondemand"} /\ l.want \in Model
    BY <1>1, <2>1 DEF WellFormed, Equipped, Switches
  <2>5. Equipped(one)
    BY <1>1, <2>1, <2>3, <2>4 DEF Equipped, Section, Relocks, Singles, Switches
  <2>6. Enters(c)
    BY <2>1, <2>2, <2>3, <2>4 DEF Enters, ClearsLost, Section, Relocks, Singles, Switches
  <2> QED
    BY <1>1, <2>2, <2>5, <2>6, EquippedRest
<1>11. CASE ChannelClosed(c)
  <2>1. Settled([At("use") EXCEPT !.want = l.want]) /\ Settled(At("done"))
    BY AtSettled
  <2>2. me' = [me EXCEPT ![c] = [At("use") EXCEPT !.want = l.want]] \/ me' = [me EXCEPT ![c] = At("done")]
    BY <1>11 DEF ChannelClosed
  <2>3. l.pc = "await" /\ Up /\ UNCHANGED <<os, slot, expected, codingModel, overlapped>>
    BY <1>11 DEF ChannelClosed, procVars, modeVars
  <2> QED
    BY <1>2, <2>1, <2>2, <2>3
<1>12. CASE GiveUp(c) \/ PanelReturns(c) \/ ModelLeave(c)
  BY <1>2, <1>12, AtSettled DEF GiveUp, PanelReturns, ModelLeave, procVars, modeVars
<1>13. CASE ModelEnter(c)
  <2> DEFINE one == [l EXCEPT !.pc = "busy"]
  <2>1. l.pc = "use" /\ Up /\ UNCHANGED <<os, slot, expected, codingModel, overlapped>>
        /\ me' = [me EXCEPT ![c] = one]
    BY <1>1, <1>13 DEF ModelEnter, procVars, modeVars
  <2>2. one.pc = "busy" /\ one.kind = l.kind /\ one.want = l.want /\ one.lost = l.lost
        /\ one.fresh = l.fresh /\ one.victims = l.victims
    BY <1>1 DEF Local
  <2> HIDE DEF one
  <2>3. Equipped(one)
    BY <1>1, <2>1, <2>2 DEF Equipped, Section, Relocks, Singles, Switches
  <2> QED
    BY <1>3, <2>1, <2>2, <2>3 DEF Relocks, Section
<1> QED
  BY <1>4, <1>5, <1>6, <1>7, <1>8, <1>9, <1>10, <1>11, <1>12, <1>13 DEF Request

LEMMA SwitchSummary ==
  ASSUME Typed, EquippedInv, NEW a \in Actor, SwitchStep(a)
  PROVE  Summary(a) /\ EquippedInv'
<1> DEFINE l == me[a]
<1>1. me \in [Actor -> Goroutine] /\ l \in Local /\ WellFormed(l) /\ Equipped(l) /\ l \in Goroutine
  BY DEF Typed, EquippedInv, Goroutine
<1>2. CASE StopAll(a)
  <2> DEFINE kept == {m \in Model : slot[m].present /\ Survives(m)}
             gone == {m \in Model : slot[m].present /\ ~Survives(m)}
             dead == {[model |-> m, cmd |-> slot[m].cmd, spid |-> slot[m].spid] : m \in gone}
             one == [l EXCEPT !.pc = "kill", !.victims = dead]
             next == [me EXCEPT ![a] = one]
  <2>1. /\ Up /\ l.pc = "stop" /\ UNCHANGED <<os, overlapped>>
        /\ slot' = [m \in Model |-> IF m \in gone THEN NoSlot ELSE slot[m]]
        /\ expected' = kept /\ codingModel' = None
    BY <1>2 DEF StopAll
  <2>2. me' = Drop(next, gone)
    BY <1>1, <1>2 DEF StopAll
  <2>3. /\ one.pc = "kill" /\ one.kind = l.kind /\ one.want = l.want /\ one.lost = l.lost
        /\ one.fresh = l.fresh /\ one.victims = dead
    BY <1>1 DEF Local
  <2>4. one \in Goroutine
    <3>1. \A m \in Model : slot[m].cmd \in Proc \cup {None} /\ slot[m].spid \in Proc \cup {None}
      BY DEF Typed, TypeOK, ProcTypeOK, Slot
    <3>2. dead \subseteq [model : Model, cmd : Proc \cup {None}, spid : Proc \cup {None}]
      BY <3>1
    <3> HIDE DEF dead
    <3>3. one \in Local
      BY <1>1, <3>2, ZenonT(60) DEF Local, PCs
    <3>4. WellFormed(one)
      BY <1>1, <2>1 DEF WellFormed, Local
    <3> QED
      BY <3>3, <3>4 DEF Goroutine
  <2>5. l.kind \in Switches
    BY <1>1, <2>1 DEF WellFormed, Switches
  <2>6. \A v \in dead : ~Survives(v.model) /\ \A w \in dead : v.model = w.model => v = w
    OBVIOUS
  <2>7. Equipped(one)
    <3> HIDE DEF dead, one
    <3> QED
      BY <1>1, <2>1, <2>3, <2>5, <2>6 DEF Equipped, Section, Relocks, Singles, Switches
  <2>8. SameJob(me'[a], one) /\ me'[a].lost = one.lost /\ Rest(a)
    <3> HIDE DEF one, gone
    <3>1. SameJob(me'[a], one) /\ KeepsLost(me'[a], one) /\ Rest(a)
      BY <2>2, <2>4, DropStep
    <3> QED
      BY <2>3, <2>5, <3>1 DEF KeepsLost, Switches
  <2>9. Works(a, "stop", "kill") /\ me'[a].victims = dead
    <3> HIDE DEF dead, one
    <3> QED
      BY <2>1, <2>3, <2>8 DEF Works, SameJob, Section
  <2>10. Empties(a)
    BY <2>1, <2>9 DEF Empties
  <2> QED
    BY <2>7, <2>8, <2>10, SameEquipped, EquippedRest DEF Summary
<1>3. CASE KillVictims(a)
  <2> DEFINE one == [l EXCEPT !.pc = "launch", !.victims = {}, !.todo = Targets(l)]
  <2>1. /\ Up /\ l.pc = "kill" /\ UNCHANGED <<slot, expected, codingModel, overlapped>>
        /\ os' = Stopped(UNION {KillTargets(v.model, v) : v \in l.victims})
        /\ me' = [me EXCEPT ![a] = one]
    BY <1>1, <1>3 DEF KillVictims, modeVars
  <2>2. /\ one.pc = "launch" /\ one.kind = l.kind /\ one.want = l.want /\ one.lost = l.lost
        /\ one.fresh = l.fresh /\ one.victims = {} /\ one.todo = Targets(l)
    BY <1>1 DEF Local
  <2> HIDE DEF one
  <2>3. l.kind \in Switches /\ Targets(one) = Targets(l)
    BY <1>1, <2>1, <2>2 DEF WellFormed, Switches, Targets
  <2>4. Equipped(one)
    BY <1>1, <2>1, <2>2, <2>3 DEF Equipped, Section, Relocks, Singles, Switches
  <2>5. me'[a] = one /\ Rest(a)
    BY <2>1, OneStep
  <2>6. Kills(a)
    BY <2>1, <2>2, <2>5 DEF Kills, Works, Section
  <2> QED
    BY <2>4, <2>5, <2>6, EquippedRest DEF Summary
<1>4. ASSUME NEW m \in Model, Reuse(a, m) \/ LeaveAsleep(a, m)  PROVE Summary(a) /\ EquippedInv'
  <2> DEFINE one == [l EXCEPT !.todo = @ \ {m}, !.await = @ \cup {m},
                             !.chan = IF l.want = m THEN Obtained(m) ELSE @]
             two == [l EXCEPT !.todo = @ \ {m}]
  <2>1. /\ Up /\ l.pc = "launch" /\ UNCHANGED <<os, slot, codingModel, overlapped>>
        /\ expected' = expected \cup {m}
        /\ slot[m].present \/ slot[m].sleeping
    BY <1>4 DEF Reuse, LeaveAsleep, Running, procVars
  <2>2. me' = [me EXCEPT ![a] = one] \/ me' = [me EXCEPT ![a] = two]
    BY <1>1, <1>4 DEF Reuse, LeaveAsleep
  <2>3. \A k \in {one, two} :
          /\ k.pc = l.pc /\ k.kind = l.kind /\ k.want = l.want /\ k.lost = l.lost
          /\ k.fresh = l.fresh /\ k.victims = l.victims /\ k.todo = l.todo \ {m}
    BY <1>1 DEF Local
  <2> HIDE DEF one, two
  <2>4. l.kind \in Switches /\ \A k \in {one, two} : Targets(k) = Targets(l)
    BY <1>1, <2>1, <2>3 DEF WellFormed, Switches, Targets
  <2>5. Equipped(one) /\ Equipped(two)
    BY <1>1, <2>1, <2>3, <2>4 DEF Equipped, Section, Relocks, Singles, Switches
  <2>6. me'[a] \in {one, two} /\ Rest(a)
    BY <2>2, OneStep
  <2>7. Skips(a, m)
    BY <2>1, <2>3, <2>6 DEF Skips, Works, Section
  <2> QED
    BY <2>5, <2>6, <2>7, EquippedRest DEF Summary
<1>5. ASSUME NEW m \in Model, Spawn(a, m)  PROVE Summary(a) /\ EquippedInv'
  <2> DEFINE with(p) == [l EXCEPT !.pc = "register", !.cur = m, !.fresh = p]
  <2>1. Up /\ Launchable(a, m) /\ UNCHANGED <<slot, expected, codingModel, overlapped>>
    BY <1>5 DEF Spawn, modeVars
  <2>2. l.pc \in {"launch", "spawn"} /\ l.fresh = None
    BY <1>1, <2>1 DEF Launchable, Equipped
  <2>3. l.pc = "launch" => m \in l.todo
    BY <2>1 DEF Launchable
  <2>4. l.pc = "spawn" => m = l.want
    BY <2>1 DEF Launchable
  <2> DEFINE Of(p) == \/ /\ p \in Spawnable
                         /\ os' = [Stopped(Listeners(m)) EXCEPT
                                     ![p] = [model |-> m, server |-> "loading", wrapper |-> "alive"]]
                      \/ m \in Faulty /\ p = None /\ os' = Stopped(Listeners(m))
  <2>5. \E p : me' = [me EXCEPT ![a] = with(p)] /\ Of(p)
    <3>1. CASE \E p \in Spawnable :
                 /\ os' = [Stopped(Listeners(m)) EXCEPT
                             ![p] = [model |-> m, server |-> "loading", wrapper |-> "alive"]]
                 /\ me' = [me EXCEPT ![a].pc = "register", ![a].cur = m, ![a].fresh = p]
      <4>1. PICK p \in Spawnable :
                 /\ os' = [Stopped(Listeners(m)) EXCEPT
                             ![p] = [model |-> m, server |-> "loading", wrapper |-> "alive"]]
                 /\ me' = [me EXCEPT ![a].pc = "register", ![a].cur = m, ![a].fresh = p]
        BY <3>1
      <4>2. me' = [me EXCEPT ![a] = with(p)]
        BY <1>1, <4>1
      <4>3. Of(p)
        BY <4>1
      <4> HIDE DEF with, Of
      <4> QED
        BY <4>2, <4>3
    <3>2. CASE /\ m \in Faulty /\ os' = Stopped(Listeners(m))
               /\ me' = [me EXCEPT ![a].pc = "register", ![a].cur = m]
      <4>1. with(None) = [l EXCEPT !.pc = "register", !.cur = m]
        BY <1>1, <2>2 DEF Local
      <4>2. me' = [me EXCEPT ![a] = [l EXCEPT !.pc = "register", !.cur = m]]
        BY <1>1, <3>2
      <4>3. Of(None)
        BY <3>2
      <4> HIDE DEF with, Of
      <4> QED
        BY <4>1, <4>2, <4>3
    <3> HIDE DEF with, Of
    <3>3. \/ \E p \in Spawnable :
               /\ os' = [Stopped(Listeners(m)) EXCEPT
                           ![p] = [model |-> m, server |-> "loading", wrapper |-> "alive"]]
               /\ me' = [me EXCEPT ![a].pc = "register", ![a].cur = m, ![a].fresh = p]
          \/ /\ m \in Faulty /\ os' = Stopped(Listeners(m))
             /\ me' = [me EXCEPT ![a].pc = "register", ![a].cur = m]
      BY <1>5 DEF Spawn
    <3> QED
      BY <3>1, <3>2, <3>3
  <2>6. PICK p : me' = [me EXCEPT ![a] = with(p)] /\ Of(p)
    <3> HIDE DEF with, Of
    <3> QED
      BY <2>5
  <2> DEFINE one == with(p)
  <2>7. /\ one.pc = "register" /\ one.kind = l.kind /\ one.want = l.want /\ one.lost = l.lost
        /\ one.fresh = p /\ one.victims = l.victims /\ one.cur = m /\ one.todo = l.todo
    BY <1>1 DEF Local
  <2>8. me'[a] = one /\ Rest(a)
    <3>1. me' = [me EXCEPT ![a] = one]
      BY <2>6
    <3> HIDE DEF one
    <3> QED
      BY <3>1, OneStep
  <2> HIDE DEF one
  <2>9. /\ Targets(one) = Targets(l)
        /\ l.pc = "launch" => l.kind \in Switches
        /\ l.pc = "spawn" => l.kind \in Singles
    BY <1>1, <2>7 DEF WellFormed, Switches, Singles, Targets
  <2>10. Equipped(one)
    BY <1>1, <2>2, <2>3, <2>4, <2>7, <2>9 DEF Equipped, Section, Relocks, Singles, Switches
  <2>11. Works(a, l.pc, "register")
    BY <2>1, <2>2, <2>7, <2>8 DEF Works, Section
  <2>12. Starts(a, m)
    BY <2>1, <2>6, <2>7, <2>8, <2>11 DEF Starts
  <2> QED
    BY <2>8, <2>10, <2>12, EquippedRest DEF Summary
<1>6. CASE Register(a)
  <2> DEFINE m == l.cur
             base == Drop(me, {m})
             next == [l EXCEPT !.pc = IF l.kind = "ondemand" THEN "publish" ELSE "launch",
                               !.cur = None, !.fresh = None,
                               !.todo = @ \ {m}, !.await = @ \cup {m},
                               !.chan = IF l.want = m THEN "open" ELSE base[a].chan]
  <2>1. /\ Up /\ l.pc = "register" /\ l.kind # "restart" /\ UNCHANGED <<os, codingModel, overlapped>>
        /\ slot' = [slot EXCEPT ![m] = [NoSlot EXCEPT !.present = TRUE, !.cmd = l.fresh]]
        /\ expected' = expected \cup {m} /\ me' = [base EXCEPT ![a] = next]
    BY <1>6 DEF Register
  <2>2. /\ next.pc = (IF l.kind = "ondemand" THEN "publish" ELSE "launch")
        /\ next.kind = l.kind /\ next.want = l.want /\ next.lost = l.lost
        /\ next.fresh = None /\ next.victims = l.victims /\ next.todo = l.todo \ {m}
    BY <1>1 DEF Local
  <2>3. \A b \in Actor : SameJob(base[b], me[b]) /\ KeepsLost(base[b], me[b])
    BY <1>1, DropKeeps
  <2>4. DOMAIN base = Actor
    BY DEF Drop
  <2>5. me'[a] = next /\ Rest(a)
    <3> HIDE DEF base, next
    <3> QED
      BY <2>1, <2>3, <2>4 DEF Rest
  <2> HIDE DEF next, base
  <2>6. l.kind \in Switches \cup {"ondemand"} /\ Targets(next) = Targets(l)
    BY <1>1, <2>1, <2>2 DEF WellFormed, Switches, Targets
  <2>7. Equipped(next)
    BY <1>1, <2>1, <2>2, <2>6 DEF Equipped, Section, Relocks, Singles, Switches
  <2>8. Works(a, "register", IF l.kind = "ondemand" THEN "publish" ELSE "launch")
    BY <2>1, <2>2, <2>5 DEF Works, Section
  <2>9. Registers(a)
    BY <2>1, <2>2, <2>5, <2>8 DEF Registers
  <2> QED
    BY <2>5, <2>7, <2>9, EquippedRest DEF Summary
<1>7. CASE PublishSwitch(a) \/ PublishOnDemand(a)
  <2> DEFINE one == [l EXCEPT !.pc = "wait"]
  <2>1. me' = [me EXCEPT ![a] = one] /\ Up /\ UNCHANGED <<os, slot, overlapped>>
    BY <1>1, <1>7 DEF PublishSwitch, PublishOnDemand, procVars
  <2>2. /\ one.pc = "wait" /\ one.kind = l.kind /\ one.want = l.want /\ one.lost = l.lost
        /\ one.fresh = l.fresh /\ one.victims = l.victims
    BY <1>1 DEF Local
  <2> HIDE DEF one
  <2>3. l.pc \in {"launch", "publish"}
    BY <1>7 DEF PublishSwitch, PublishOnDemand
  <2>4. Equipped(one)
    BY <1>1, <2>2, <2>3 DEF Equipped, Section, Relocks, Singles, Switches
  <2>5. me'[a] = one /\ Rest(a) /\ Unlost(a)
    BY <2>1, OneStep
  <2>6. CASE PublishSwitch(a)
    <3>1. l.pc = "launch" /\ l.todo = {} /\ expected' = expected \cup Targets(l)
          /\ codingModel' = IF l.kind = "coding" THEN l.want ELSE None
      BY <2>6 DEF PublishSwitch
    <3>2. Publishes(a)
      BY <2>1, <2>2, <2>5, <3>1 DEF Publishes, Works, Section
    <3> QED
      BY <2>4, <2>5, <3>2, EquippedRest DEF Summary
  <2>7. CASE PublishOnDemand(a)
    <3>1. l.pc = "publish" /\ UNCHANGED <<expected, codingModel>>
      BY <2>7 DEF PublishOnDemand, modeVars
    <3>2. Quiet(a) /\ EquippedInv'
      BY <2>1, <2>2, <2>4, <2>5, <3>1, SlotsSame, Waits DEF SameJob, Section, Relocks, Working
    <3> QED
      BY <3>2 DEF Summary
  <2> QED
    BY <1>7, <2>6, <2>7
<1>8. ASSUME NEW m \in Model, ProbeAnswered(a, m) \/ ProbeGivenUp(a, m)
      PROVE  Summary(a) /\ EquippedInv'
  <2> DEFINE one == [l EXCEPT !.await = @ \ {m}, !.probed = @ \cup {m}]
             two == [l EXCEPT !.await = @ \ {m}, !.failed = TRUE]
  <2>1. /\ Up /\ l.pc = "wait" /\ UNCHANGED <<os, slot, expected, codingModel, overlapped>>
    BY <1>8 DEF ProbeAnswered, ProbeGivenUp, procVars, modeVars
  <2>2. me' = [me EXCEPT ![a] = one] \/ me' = [me EXCEPT ![a] = two]
    BY <1>1, <1>8 DEF ProbeAnswered, ProbeGivenUp
  <2>3. \A k \in {one, two} : SameJob(k, l) /\ k.lost = l.lost
    BY <1>1 DEF Local, SameJob
  <2> HIDE DEF one, two
  <2>4. me'[a] \in {one, two} /\ Rest(a) /\ Unlost(a)
    BY <2>2, OneStep
  <2>5. Quiet(a) /\ EquippedInv'
    BY <1>1, <2>1, <2>3, <2>4, SlotsSame, Waits DEF SameJob, Section, Relocks, Working
  <2> QED
    BY <2>5 DEF Summary
<1>9. ASSUME NEW m \in Model, MarkReady(a, m)  PROVE Summary(a) /\ EquippedInv'
  <2> DEFINE one == [l EXCEPT !.probed = @ \ {m}]
             f == [me EXCEPT ![a] = one]
  <2>1. /\ Up /\ l.pc = "wait" /\ UNCHANGED <<os, expected, codingModel, overlapped>>
        /\ MarkSlotReady(f, m)
    BY <1>1, <1>9 DEF MarkReady, modeVars
  <2>2. SameJob(one, l) /\ one.lost = l.lost /\ one \in Goroutine
    BY <1>1 DEF Local, SameJob, Goroutine, WellFormed
  <2> HIDE DEF one
  <2>3. f \in [Actor -> Goroutine] /\ f[a] = one /\ \A b \in Actor \ {a} : f[b] = me[b]
    BY <1>1, <2>2
  <2> HIDE DEF f
  <2>4. SlotsKept /\ \A b \in Actor : SameJob(me'[b], f[b]) /\ me'[b].lost = f[b].lost
    BY <2>1, <2>3, MarkKeeps
  <2>5. SameJob(me'[a], l) /\ me'[a].lost = l.lost /\ Rest(a) /\ Unlost(a)
    BY <2>2, <2>3, <2>4 DEF Rest, Unlost, KeepsLost, SameJob
  <2>6. Quiet(a) /\ EquippedInv'
    BY <1>1, <2>1, <2>4, <2>5, Waits DEF Section, Relocks, Working
  <2> QED
    BY <2>6 DEF Summary
<1>10. CASE SwitchDone(a)
  <2> DEFINE end == CASE a = Starter -> At("done")
                      [] a = Looper -> At("idle")
                      [] l.failed -> At("done")
                      [] OTHER -> Await(l, IF l.chan = "none" THEN "dead" ELSE l.chan)
  <2>1. /\ Up /\ l.pc = "wait" /\ UNCHANGED <<os, slot, expected, codingModel, overlapped>>
        /\ me' = [me EXCEPT ![a] = end]
    BY <1>10 DEF SwitchDone, procVars, modeVars
  <2>2. Settled(end)
    <3>1. CASE a = Starter \/ a = Looper
      BY <3>1, AtSettled, ActorAssumption
    <3>2. CASE a # Starter /\ a # Looper
      BY <3>2, AtSettled, AwaitSettled
    <3> QED
      BY <3>1, <3>2
  <2> HIDE DEF end
  <2>3. me'[a] = end /\ Rest(a) /\ Unlost(a)
    BY <2>1, OneStep
  <2>4. Quiet(a) /\ EquippedInv'
    BY <2>1, <2>2, <2>3, SlotsSame, Settles DEF SameJob
  <2> QED
    BY <2>4 DEF Summary
<1> QED
  BY <1>2, <1>3, <1>4, <1>5, <1>6, <1>7, <1>8, <1>9, <1>10 DEF SwitchStep

LEMMA MemberSummary ==
  ASSUME Typed, EquippedInv, NEW a \in Actor, MemberStep(a)
  PROVE  Summary(a) /\ EquippedInv'
<1> DEFINE l == me[a]
<1>1. me \in [Actor -> Goroutine] /\ l \in Local /\ WellFormed(l) /\ Equipped(l) /\ l \in Goroutine
  BY DEF Typed, EquippedInv, Goroutine
<1>b. Settled(Back(a)) /\ Back(a) \in Goroutine /\ Settled(At("done"))
  BY BackSettled, BackType, AtSettled
<1>2. CASE GpuFree(a)
  <2> DEFINE one == [l EXCEPT !.pc = "spawn"]
  <2>1. /\ Up /\ l.pc = "acquire" /\ UNCHANGED <<os, slot, expected, codingModel, overlapped>>
        /\ Owners(l.want) = {} /\ me' = [me EXCEPT ![a] = one]
    BY <1>1, <1>2 DEF GpuFree, procVars, modeVars
  <2>2. /\ one.pc = "spawn" /\ one.kind = l.kind /\ one.want = l.want /\ one.lost = l.lost
        /\ one.fresh = l.fresh /\ one.victims = l.victims
    BY <1>1 DEF Local
  <2> HIDE DEF one
  <2>3. Equipped(one)
    BY <1>1, <2>1, <2>2 DEF Equipped, WellFormed, Section, Relocks, Singles, Switches
  <2>4. me'[a] = one /\ Rest(a)
    BY <2>1, OneStep
  <2>5. Frees(a)
    BY <2>1, <2>2, <2>4 DEF Frees, Works, Section
  <2> QED
    BY <2>3, <2>4, <2>5, EquippedRest DEF Summary
<1>3. ASSUME NEW o \in Model, GpuTaken(a, o)  PROVE Summary(a) /\ EquippedInv'
  <2>1. /\ Up /\ l.pc = "acquire" /\ UNCHANGED <<os, slot, expected, codingModel, overlapped>>
        /\ o \in Owners(l.want)
    BY <1>3 DEF GpuTaken, procVars, modeVars
  <2>2. CASE o \in Resident
    <3> DEFINE k == IF l.kind = "ondemand" THEN At("done") ELSE Back(a)
    <3>1. me' = [me EXCEPT ![a] = k]
      BY <1>3, <2>2 DEF GpuTaken
    <3>2. Settled(k)
      BY <1>b
    <3> HIDE DEF k
    <3>3. me'[a] = k /\ Rest(a) /\ Unlost(a)
      BY <3>1, OneStep
    <3>4. Quiet(a) /\ EquippedInv'
      BY <2>1, <3>2, <3>3, SlotsSame, Settles DEF SameJob
    <3> QED
      BY <3>4 DEF Summary
  <2>3. CASE o \notin Resident
    <3> DEFINE one == [l EXCEPT !.pc = "suspend", !.cur = o]
    <3>1. me' = [me EXCEPT ![a] = one]
      BY <1>1, <1>3, <2>3 DEF GpuTaken
    <3>2. /\ one.pc = "suspend" /\ one.kind = l.kind /\ one.want = l.want /\ one.lost = l.lost
          /\ one.fresh = l.fresh /\ one.victims = l.victims /\ one.cur = o
      BY <1>1 DEF Local
    <3> HIDE DEF one
    <3>3. o # l.want
      BY <2>1 DEF Owners
    <3>4. Equipped(one)
      BY <1>1, <2>1, <2>3, <3>2, <3>3 DEF Equipped, WellFormed, Section, Relocks, Singles, Switches
    <3>5. me'[a] = one /\ Rest(a)
      BY <3>1, OneStep
    <3>6. Evicts(a)
      BY <2>1, <2>3, <3>2, <3>5 DEF Evicts, Works, Section
    <3> QED
      BY <3>4, <3>5, <3>6, EquippedRest DEF Summary
  <2> QED
    BY <2>2, <2>3
<1>4. CASE Suspend(a)
  <2> DEFINE one == [l EXCEPT !.pc = "stopslot"]
  <2>1. /\ Up /\ l.pc = "suspend" /\ UNCHANGED <<os, expected, codingModel, overlapped>>
        /\ slot' = IF l.cur \in l.lost THEN slot
                   ELSE [slot EXCEPT ![l.cur].sleeping = TRUE, ![l.cur].ready = FALSE]
        /\ me' = [me EXCEPT ![a] = one]
    BY <1>1, <1>4 DEF Suspend, modeVars
  <2>2. /\ one.pc = "stopslot" /\ one.kind = l.kind /\ one.want = l.want /\ one.lost = l.lost
        /\ one.fresh = l.fresh /\ one.victims = l.victims /\ one.cur = l.cur
    BY <1>1 DEF Local
  <2> HIDE DEF one
  <2>3. Equipped(one)
    BY <1>1, <2>1, <2>2 DEF Equipped, WellFormed, Section, Relocks, Singles, Switches
  <2>4. me'[a] = one /\ Rest(a)
    BY <2>1, OneStep
  <2>5. Works(a, "suspend", "stopslot")
    BY <2>1, <2>2, <2>4 DEF Works, Section
  <2>6. slot' = IF l.cur \in l.lost THEN slot
                ELSE [slot EXCEPT ![l.cur] = [slot[l.cur] EXCEPT !.sleeping = TRUE, !.ready = FALSE]]
    BY <2>1
  <2>7. Suspends(a)
    BY <2>1, <2>2, <2>4, <2>5 DEF Suspends
  <2> QED
    BY <2>3, <2>4, <2>7, EquippedRest DEF Summary
<1>11. CASE StopSlot(a)
  <2> DEFINE one == [l EXCEPT !.pc = "suspended"]
  <2>1. /\ Up /\ l.pc = "stopslot" /\ UNCHANGED <<expected, codingModel, overlapped>>
        /\ os' = Stopped(KillTargets(l.cur, IF l.cur \in l.lost THEN NoSlot ELSE slot[l.cur]))
        /\ slot' = IF l.cur \in l.lost THEN slot
                   ELSE [slot EXCEPT ![l.cur].spid = Resolved(l.cur)]
        /\ me' = [me EXCEPT ![a] = one]
    BY <1>1, <1>11 DEF StopSlot, modeVars
  <2>2. /\ one.pc = "suspended" /\ one.kind = l.kind /\ one.want = l.want /\ one.lost = l.lost
        /\ one.fresh = l.fresh /\ one.victims = l.victims /\ one.cur = l.cur
    BY <1>1 DEF Local
  <2> HIDE DEF one
  <2>3. Equipped(one)
    BY <1>1, <2>1, <2>2 DEF Equipped, WellFormed, Section, Relocks, Singles, Switches
  <2>4. me'[a] = one /\ Rest(a)
    BY <2>1, OneStep
  <2>5. Works(a, "stopslot", "suspended")
    BY <2>1, <2>2, <2>4 DEF Works, Section
  <2>6. Quells(a)
    BY <2>1, <2>2, <2>4, <2>5 DEF Quells
  <2> QED
    BY <2>3, <2>4, <2>6, EquippedRest DEF Summary
<1>5. CASE Suspended(a)
  <2> DEFINE m == l.cur
             next == [l EXCEPT !.pc = "spawn", !.cur = None, !.lost = @ \ {m}]
  <2>1. Up /\ l.pc = "suspended" /\ UNCHANGED overlapped
    BY <1>5 DEF Suspended
  <2>2. Suspending(a)
    BY <1>5 DEF Suspended, Suspending, modeVars
  <2>3. CASE l.kind = "sleep"
    <3>1. me' = Turn([me EXCEPT ![a] = Back(a)], m, "dead")
      BY <1>5, <2>3 DEF Suspended
    <3>2. SameJob(me'[a], Back(a)) /\ me'[a].lost = Back(a).lost /\ Rest(a)
      BY <1>b, <3>1, TurnStep
    <3>3. EquippedInv'
      BY <1>b, <3>2, SettledEquipped, SameEquipped, EquippedRest
    <3>4. Departs(a, "suspended")
      BY <1>b, <2>1, <3>2 DEF Departs, Settled, SameJob, Section
    <3>5. Slept(a)
      BY <2>2, <2>3, <3>4 DEF Slept
    <3> QED
      BY <3>3, <3>5 DEF Summary
  <2>4. CASE l.kind # "sleep"
    <3>1. me' = Turn([me EXCEPT ![a] = next], m, "dead")
      BY <1>5, <2>4 DEF Suspended
    <3>2. /\ next.pc = "spawn" /\ next.kind = l.kind /\ next.want = l.want /\ next.lost \subseteq l.lost
          /\ next.fresh = l.fresh /\ next.victims = l.victims
      BY <1>1 DEF Local
    <3>3. next \in Goroutine
      <4>1. next \in Local
        BY <1>1, ZenonT(60) DEF Local, PCs
      <4>2. l.kind \in {"ondemand", "restart"}
        BY <1>1, <2>1, <2>4 DEF WellFormed
      <4> QED
        BY <1>1, <4>1, <4>2 DEF Goroutine, WellFormed, Local
    <3> HIDE DEF next
    <3>4. SameJob(me'[a], next) /\ me'[a].lost = next.lost /\ Rest(a)
      BY <3>1, <3>3, TurnStep
    <3>5. Equipped(next)
      BY <1>1, <2>1, <2>4, <3>2 DEF Equipped, WellFormed, Section, Relocks, Singles, Switches
    <3>6. Works(a, "suspended", "spawn")
      BY <2>1, <3>2, <3>4 DEF Works, SameJob, Section
    <3>7. Evicted(a)
      BY <2>2, <2>4, <3>6 DEF Evicted
    <3> QED
      BY <3>4, <3>5, <3>7, SameEquipped, EquippedRest DEF Summary
  <2> QED
    BY <2>3, <2>4
<1>6. CASE RestartNot(a) \/ SleepNot(a)
  <2>1. /\ Up /\ l.pc \in Relocks /\ UNCHANGED <<os, slot, expected, codingModel, overlapped>>
        /\ me' = [me EXCEPT ![a] = Back(a)]
    BY <1>6 DEF RestartNot, SleepNot, procVars, modeVars, Relocks
  <2>2. me'[a] = Back(a) /\ Rest(a) /\ Unlost(a)
    BY <2>1, OneStep
  <2>3. Quiet(a) /\ EquippedInv'
    BY <1>b, <2>1, <2>2, SlotsSame, Settles DEF SameJob, Relocks
  <2> QED
    BY <2>3 DEF Summary
<1>7. CASE RestartBegins(a)
  <2> DEFINE one == [l EXCEPT !.pc = "acquire", !.lost = {}]
  <2>1. /\ Up /\ l.pc = "restartlock" /\ switchMu = None /\ NeedsRestart(l.want) /\ Entered(a)
        /\ UNCHANGED <<os, slot, expected, codingModel>> /\ me' = [me EXCEPT ![a] = one]
    BY <1>1, <1>7 DEF RestartBegins, procVars, modeVars
  <2>2. /\ one.pc = "acquire" /\ one.kind = l.kind /\ one.want = l.want /\ one.lost = {}
        /\ one.fresh = l.fresh /\ one.victims = l.victims
    BY <1>1 DEF Local
  <2> HIDE DEF one
  <2>3. l.kind = "restart" /\ l.want \in Model /\ l.want \in Background
    BY <1>1, <2>1 DEF WellFormed, Equipped, NeedsRestart
  <2>4. Equipped(one)
    BY <1>1, <2>1, <2>2, <2>3 DEF Equipped, Section, Relocks, Singles, Switches
  <2>5. me'[a] = one /\ Rest(a) /\ Unlost(a)
    BY <2>1, OneStep
  <2>6. Enters(a)
    BY <2>1, <2>2, <2>3, <2>5 DEF Enters, ClearsLost, NeedsRestart, Section, Relocks, Singles
  <2> QED
    BY <2>4, <2>5, <2>6, EquippedRest DEF Summary
<1>8. CASE SleepBegins(a)
  <2> DEFINE one == [l EXCEPT !.pc = "suspend", !.cur = l.want, !.lost = {}]
  <2>1. /\ Up /\ l.pc = "sleeplock" /\ switchMu = None /\ MaySleep(l.want) /\ Entered(a)
        /\ UNCHANGED <<os, slot, expected, codingModel>> /\ me' = [me EXCEPT ![a] = one]
    BY <1>1, <1>8 DEF SleepBegins, procVars, modeVars
  <2>2. /\ one.pc = "suspend" /\ one.kind = l.kind /\ one.want = l.want /\ one.lost = {}
        /\ one.fresh = l.fresh /\ one.victims = l.victims /\ one.cur = l.want
    BY <1>1 DEF Local
  <2> HIDE DEF one
  <2>3. l.kind = "sleep" /\ l.want \in Model
    BY <1>1, <2>1 DEF WellFormed, Equipped
  <2>4. Equipped(one)
    BY <1>1, <2>1, <2>2, <2>3 DEF Equipped, Section, Relocks, Singles, Switches
  <2>5. me'[a] = one /\ Rest(a) /\ Unlost(a)
    BY <2>1, OneStep
  <2>6. Enters(a)
    BY <2>1, <2>2, <2>3, <2>5 DEF Enters, ClearsLost, MaySleep, Running, Section, Relocks, Singles
  <2> QED
    BY <2>4, <2>5, <2>6, EquippedRest DEF Summary
<1>9. CASE RestartEnds(a)
  <2>1. /\ Up /\ l.pc = "register" /\ l.kind = "restart"
        /\ UNCHANGED <<os, expected, codingModel, overlapped>>
        /\ me' = [me EXCEPT ![a] = Back(a)]
    BY <1>9 DEF RestartEnds, modeVars
  <2>2. me'[a] = Back(a) /\ Rest(a)
    BY <2>1, OneStep
  <2>3. EquippedInv'
    BY <1>b, <2>2, SettledEquipped, EquippedRest
  <2>4. Departs(a, "register")
    BY <1>b, <2>1, <2>2 DEF Departs, Settled, Section
  <2>5. Restarted(a)
    BY <1>9, <2>1, <2>4 DEF Restarted, RestartEnds
  <2> QED
    BY <2>3, <2>5 DEF Summary
<1> QED
  BY <1>2, <1>3, <1>4, <1>5, <1>6, <1>7, <1>8, <1>9, <1>11 DEF MemberStep

LEMMA LoopSummary ==
  ASSUME Typed, EquippedInv, LoopStep
  PROVE  (Quiet(Looper) \/ Enters(Looper)) /\ EquippedInv'
<1> DEFINE l == me[Looper]
<1>1. Looper \in Actor /\ me \in [Actor -> Goroutine] /\ l \in Local /\ WellFormed(l) /\ Equipped(l)
      /\ slot \in [Model -> Slot]
  BY DEF Actor, Typed, TypeOK, ProcTypeOK, EquippedInv, Goroutine
<1>2. ASSUME NEW k, Settled(k), me' = [me EXCEPT ![Looper] = k], Up,
             UNCHANGED <<os, expected, codingModel, overlapped>>, SlotsKept,
             l.pc \notin {"stopslot", "suspended", "kill", "launch", "register", "done", "start"}
      PROVE  Quiet(Looper) /\ EquippedInv'
  <2>1. me'[Looper] = k /\ Rest(Looper) /\ Unlost(Looper)
    BY <1>1, <1>2, OneStep
  <2> QED
    BY <1>1, <1>2, <2>1, Settles DEF SameJob
<1>3. ASSUME NEW k, Equipped(k), me' = [me EXCEPT ![Looper] = k], Up,
             UNCHANGED <<os, expected, overlapped>>, SlotsKept,
             codingModel' = codingModel \/ (codingModel' = None /\ l.pc = "clearcoding"),
             l.pc \in {"idle", "items", "clearcoding"},
             k.pc \notin Section \cup {"clearcoding"}, k.lost = l.lost
      PROVE  Quiet(Looper) /\ EquippedInv'
  <2>1. me'[Looper] = k /\ Rest(Looper) /\ Unlost(Looper)
    BY <1>1, <1>3, OneStep
  <2>2. k.pc \notin Working
    BY <1>3 DEF Section, Working
  <2> QED
    BY <1>1, <1>3, <2>1, <2>2, Waits DEF SameJob, Relocks
<1>4. CASE SwitchBack
  <2> DEFINE one == [l EXCEPT !.pc = "stop", !.kind = "background"]
  <2>1. /\ Up /\ l.pc = "idle" /\ Autostart # {} /\ Entered(Looper)
        /\ UNCHANGED <<os, slot, expected, codingModel>> /\ me' = [me EXCEPT ![Looper] = one]
    BY <1>1, <1>4 DEF SwitchBack, procVars, modeVars
  <2>2. /\ one.pc = "stop" /\ one.kind = "background" /\ one.want = l.want /\ one.lost = l.lost
        /\ one.fresh = l.fresh /\ one.victims = l.victims
    BY <1>1 DEF Local
  <2> HIDE DEF one
  <2>3. Equipped(one)
    BY <1>1, <2>1, <2>2 DEF Equipped, Section, Relocks, Singles, Switches
  <2>4. me'[Looper] = one /\ Rest(Looper) /\ Unlost(Looper)
    BY <1>1, <2>1, OneStep
  <2>5. Enters(Looper)
    BY <2>1, <2>2, <2>4 DEF Enters, ClearsLost, Section, Relocks
  <2> QED
    BY <1>1, <2>3, <2>4, <2>5, EquippedRest
<1>5. CASE ForgetCoding
  <2> DEFINE one == [l EXCEPT !.pc = "clearcoding"]
  <2>1. /\ Up /\ l.pc = "idle" /\ Autostart = {}
        /\ UNCHANGED <<os, slot, expected, codingModel, overlapped>>
        /\ me' = [me EXCEPT ![Looper] = one]
    BY <1>1, <1>5 DEF ForgetCoding, procVars, modeVars
  <2>2. /\ one.pc = "clearcoding" /\ one.kind = l.kind /\ one.want = l.want /\ one.lost = l.lost
        /\ one.fresh = l.fresh /\ one.victims = l.victims
    BY <1>1 DEF Local
  <2> HIDE DEF one
  <2>3. Equipped(one)
    BY <1>1, <2>1, <2>2 DEF Equipped, Section, Relocks, Singles, Switches
  <2>4. me'[Looper] = one /\ Rest(Looper) /\ Unlost(Looper)
    BY <1>1, <2>1, OneStep
  <2>5. Quiet(Looper)
    BY <2>1, <2>2, <2>4, SlotsSame, SectionDefNext DEF Quiet, ClearsLost, Section, Relocks, Working
  <2> QED
    BY <1>1, <2>3, <2>4, <2>5, EquippedRest
<1>6. CASE ClearCoding
  <2> DEFINE one == [l EXCEPT !.pc = "idle"]
  <2>1. /\ Up /\ l.pc = "clearcoding" /\ codingModel' = None
        /\ UNCHANGED <<os, slot, expected, overlapped>> /\ me' = [me EXCEPT ![Looper] = one]
    BY <1>1, <1>6 DEF ClearCoding, procVars
  <2>2. /\ one.pc = "idle" /\ one.kind = l.kind /\ one.want = l.want /\ one.lost = l.lost
        /\ one.fresh = l.fresh /\ one.victims = l.victims
    BY <1>1 DEF Local
  <2> HIDE DEF one
  <2>3. Equipped(one)
    BY <1>1, <2>1, <2>2 DEF Equipped, Section, Relocks, Singles, Switches
  <2> QED
    BY <1>3, <2>1, <2>2, <2>3, SlotsSame DEF Section
<1>7. CASE Scan
  <2> DEFINE one == [l EXCEPT !.pc = "items", !.todo = {m \in Model : slot[m].present}]
  <2>1. /\ Up /\ l.pc = "idle" /\ UNCHANGED <<os, slot, expected, codingModel, overlapped>>
        /\ me' = [me EXCEPT ![Looper] = one]
    BY <1>1, <1>7 DEF Scan, procVars, modeVars
  <2>2. /\ one.pc = "items" /\ one.kind = l.kind /\ one.want = l.want /\ one.lost = l.lost
        /\ one.fresh = l.fresh /\ one.victims = l.victims
    BY <1>1 DEF Local
  <2> HIDE DEF one
  <2>3. Equipped(one)
    BY <1>1, <2>1, <2>2 DEF Equipped, Section, Relocks, Singles, Switches
  <2> QED
    BY <1>3, <2>1, <2>2, <2>3, SlotsSame DEF Section
<1>8. CASE ItemMarked
  <2> DEFINE one == [At("items") EXCEPT !.todo = l.todo]
             f == [me EXCEPT ![Looper] = one]
  <2>1. /\ Up /\ l.pc = "mark" /\ UNCHANGED <<os, expected, codingModel, overlapped>>
        /\ MarkSlotReady(f, l.cur) /\ l.cur \in Model
    BY <1>1, <1>8 DEF ItemMarked, modeVars, WellFormed
  <2>2. Settled(one) /\ one \in Goroutine
    <3>1. At("items") \in Goroutine
      BY AtType
    <3>2. one \in Local /\ one.pc = "items" /\ one.kind = "none"
      BY <1>1, <3>1 DEF Goroutine, Local, At
    <3> QED
      BY <3>2, AtSettled DEF Goroutine, WellFormed
  <2> HIDE DEF one
  <2>3. f \in [Actor -> Goroutine] /\ f[Looper] = one /\ \A b \in Actor \ {Looper} : f[b] = me[b]
    BY <1>1, <2>2
  <2> HIDE DEF f
  <2>4. SlotsKept /\ \A b \in Actor : SameJob(me'[b], f[b]) /\ me'[b].lost = f[b].lost
    BY <2>1, <2>3, MarkKeeps
  <2>5. SameJob(me'[Looper], one) /\ me'[Looper].lost = one.lost /\ Rest(Looper) /\ Unlost(Looper)
    BY <1>1, <2>3, <2>4 DEF Rest, Unlost, KeepsLost
  <2> QED
    BY <1>1, <2>1, <2>2, <2>4, <2>5, Settles
<1>9. CASE TickEnds \/ LoopReturns
  <2>1. /\ Up /\ l.pc \in {"items", "idle"} /\ UNCHANGED <<os, slot, expected, codingModel, overlapped>>
    BY <1>9 DEF TickEnds, LoopReturns, procVars, modeVars, Up
  <2>2. me' = [me EXCEPT ![Looper] = At("idle")] \/ me' = [me EXCEPT ![Looper] = At("done")]
    BY <1>9 DEF TickEnds, LoopReturns
  <2> QED
    BY <1>2, <2>1, <2>2, SlotsSame, AtSettled
<1>10. ASSUME NEW m \in Model, LoopItem(m)  PROVE Quiet(Looper) /\ EquippedInv'
  <2> DEFINE sleep == [l EXCEPT !.pc = "sleeplock", !.kind = "sleep", !.want = m]
             mark == [l EXCEPT !.pc = "mark", !.cur = m]
             restart == [l EXCEPT !.pc = "restartlock", !.kind = "restart", !.want = m]
             less(r) == [r EXCEPT !.todo = @ \ {m}]
             Looks == {l, mark, restart} \cup (IF m \in Sleepy THEN {sleep} ELSE {})
  <2>1. /\ Up /\ l.pc = "items" /\ UNCHANGED <<os, expected, codingModel, overlapped>>
        /\ \/ slot' = slot
           \/ slot' = [slot EXCEPT ![m].spid = IF slot[m].cmd = None THEN Resolved(m) ELSE @]
           \/ slot' = [slot EXCEPT ![m].spid = None]
    BY <1>10 DEF LoopItem, ItemRests, ItemSleeps, ItemProbed, ItemGone, Item, procVars, modeVars
  <2>2. SlotsKept
    <3>1. Resolved(m) = slot[m].spid \/ Resolved(m) \in Listeners(m)
      BY DEF Resolved, Responds
    <3>2. \/ \E p : /\ slot' = [slot EXCEPT ![m] = [slot[m] EXCEPT !.spid = p]]
                    /\ p \in {slot[m].spid, None} \/ p \in Listeners(m)
          \/ slot' = slot
      BY <1>1, <2>1, <3>1
    <3> QED
      BY <1>1, <3>2, SlotsSame DEF SlotsKept, Adopts, Slot
  <2>3. \E r \in Looks : me' = [me EXCEPT ![Looper] = less(r)]
    BY <1>10 DEF LoopItem, ItemRests, ItemSleeps, ItemProbed, ItemGone, IdleForSleep, Looked
  <2>4. \A r \in Looks :
          /\ less(r).fresh = l.fresh /\ less(r).victims = l.victims /\ less(r).lost = l.lost
          /\ \/ less(r).pc = "items" /\ less(r).kind = l.kind /\ less(r).want = l.want
             \/ less(r).pc = "sleeplock" /\ less(r).kind = "sleep" /\ less(r).want = m /\ m \in Sleepy
             \/ less(r).pc = "restartlock" /\ less(r).kind = "restart" /\ less(r).want = m
             \/ less(r).pc = "mark" /\ less(r).kind = l.kind /\ less(r).want = l.want
    <3>1. \A r \in {l, sleep, mark, restart} :
            less(r).fresh = l.fresh /\ less(r).victims = l.victims /\ less(r).lost = l.lost
      BY <1>1 DEF Local
    <3>2. /\ less(l).pc = "items" /\ less(l).kind = l.kind /\ less(l).want = l.want
          /\ less(sleep).pc = "sleeplock" /\ less(sleep).kind = "sleep" /\ less(sleep).want = m
          /\ less(restart).pc = "restartlock" /\ less(restart).kind = "restart"
          /\ less(restart).want = m
          /\ less(mark).pc = "mark" /\ less(mark).kind = l.kind /\ less(mark).want = l.want
      BY <1>1, <2>1 DEF Local
    <3>3. \A r \in Looks : r \in {l, mark, restart} \/ (r = sleep /\ m \in Sleepy)
      OBVIOUS
    <3> HIDE DEF Looks, sleep, mark, restart, less
    <3> QED
      BY <3>1, <3>2, <3>3
  <2> HIDE DEF Looks, sleep, mark, restart, less
  <2>5. PICK r \in Looks : me' = [me EXCEPT ![Looper] = less(r)]
    BY <2>3
  <2>6. Equipped(less(r))
    BY <1>1, <2>1, <2>4 DEF Equipped, Section, Relocks, Singles, Switches
  <2>7. less(r).pc \notin Section \cup {"clearcoding"} /\ less(r).lost = l.lost
    BY <2>4 DEF Section
  <2> QED
    BY <1>3, <2>1, <2>2, <2>5, <2>6, <2>7
<1> QED
  BY <1>4, <1>5, <1>6, <1>7, <1>8, <1>9, <1>10 DEF LoopStep, LoopTick

LEMMA StartSummary ==
  ASSUME Typed, EquippedInv, StartBegins
  PROVE  (Quiet(Starter) \/ Enters(Starter)) /\ EquippedInv'
<1> DEFINE l == me[Starter]
           one == [l EXCEPT !.pc = "stop", !.kind = "background"]
<1>1. Starter \in Actor /\ l \in Local /\ Equipped(l) /\ l.pc = "start" /\ Up
      /\ UNCHANGED <<os, slot, expected, codingModel>>
  BY DEF Actor, Typed, TypeOK, EquippedInv, StartBegins, procVars, modeVars
<1>2. CASE Autostart = {}
  <2>1. me' = [me EXCEPT ![Starter] = At("done")] /\ UNCHANGED overlapped
    BY <1>2 DEF StartBegins
  <2>2. me'[Starter] = At("done") /\ Rest(Starter) /\ Unlost(Starter)
    BY <1>1, <2>1, OneStep
  <2>3. Settled(At("done")) /\ At("done").pc = "done"
    BY AtSettled DEF At
  <2> QED
    BY <1>1, <2>1, <2>2, <2>3, SlotsSame, Settles DEF SameJob
<1>3. CASE Autostart # {}
  <2>1. me' = [me EXCEPT ![Starter] = one] /\ Entered(Starter)
    BY <1>1, <1>3 DEF StartBegins, Typed
  <2>2. /\ one.pc = "stop" /\ one.kind = "background" /\ one.want = l.want /\ one.lost = l.lost
        /\ one.fresh = l.fresh /\ one.victims = l.victims
    BY <1>1 DEF Local
  <2> HIDE DEF one
  <2>3. Equipped(one)
    BY <1>1, <2>2 DEF Equipped, Section, Relocks, Singles, Switches
  <2>4. me'[Starter] = one /\ Rest(Starter) /\ Unlost(Starter)
    BY <1>1, <2>1, OneStep
  <2>5. Enters(Starter)
    BY <1>1, <1>3, <2>1, <2>2, <2>4 DEF Enters, ClearsLost, Section, Relocks
  <2> QED
    BY <1>1, <2>3, <2>4, <2>5, EquippedRest
<1> QED
  BY <1>2, <1>3

(* Killing processes brings none to life and changes nothing else. *)
LEMMA KilledShrinks ==
  ASSUME Typed, NEW P, os' = Stopped(P)
  PROVE  /\ Shrinks
         /\ \A p \in Proc : p \notin P => os'[p] = os[p]
         /\ \A p \in P : ~Alive(p)'
<1>1. ASSUME NEW p \in Proc, p \in P  PROVE os'[p].server = "dead"
  <2>1. [os[p] EXCEPT !.server = "dead", !.wrapper = "exited"].server = "dead" /\ NoProc.server = "dead"
    BY DEF Typed, TypeOK, ProcTypeOK, Process, NoProc
  <2>2. os'[p] \in {[os[p] EXCEPT !.server = "dead", !.wrapper = "exited"], NoProc}
    BY <1>1 DEF Stopped, Killed
  <2> QED
    BY <2>1, <2>2
<1>2. ASSUME NEW p \in Proc, p \notin P  PROVE os'[p] = os[p]
  BY <1>2 DEF Stopped, Killed
<1> QED
  BY <1>1, <1>2 DEF Shrinks, Alive

LEMMA ReapedStill ==
  ASSUME Typed, NEW p \in Proc, Reaped(p)
  PROVE  Still
<1> DEFINE m == os[p].model
<1>1. /\ Up /\ UNCHANGED <<me, expected, codingModel, overlapped, phase>> /\ os[p].wrapper = "exited"
      /\ slot \in [Model -> Slot] /\ os \in [Proc -> Process]
  BY DEF Reaped, Reap, modeVars, Typed, TypeOK, ProcTypeOK
<1>2. \A q \in Proc : os'[q].server = os[q].server
                      /\ (os[q].server # "dead" => os'[q].model = os[q].model)
                      /\ (q # p => os'[q] = os[q])
  <2>1. os' = [os EXCEPT ![p] = IF os[p].server = "dead" THEN NoProc ELSE [os[p] EXCEPT !.wrapper = "gone"]]
    BY DEF Reaped, Reap
  <2>2. [os[p] EXCEPT !.wrapper = "gone"].server = os[p].server
        /\ [os[p] EXCEPT !.wrapper = "gone"].model = os[p].model /\ NoProc.server = "dead"
    BY <1>1 DEF Process, NoProc
  <2> HIDE DEF m
  <2> QED
    BY <1>1, <2>1, <2>2
<1>3. Shrinks
  BY <1>1, <1>2 DEF Shrinks, Alive
<1>4. \A n \in Model :
       /\ slot'[n].present = slot[n].present /\ slot'[n].sleeping = slot[n].sleeping
       /\ slot'[n].cmd = slot[n].cmd \/ (slot'[n].cmd = None /\ slot[n].cmd = p)
       /\ Adopts(n)
  <2>1. \/ slot' = slot
        \/ slot[m].cmd = p /\ Responds(m) /\ slot' = [slot EXCEPT ![m].cmd = None, ![m].spid = Resolved(m)]
        \/ slot[m].cmd = p /\ slot' = [slot EXCEPT ![m].cmd = None, ![m].spid = None, ![m].ready = FALSE]
    BY DEF Reaped, Reap
  <2>2. Responds(m) => Resolved(m) \in Listeners(m)
    BY DEF Resolved, Responds
  <2>3. CASE slot' = slot
    BY <2>3 DEF Adopts
  <2>4. CASE m \notin Model
    <3>1. \A x : [slot EXCEPT ![m] = x] = slot
      BY <1>1, <2>4
    <3>2. slot' = slot \/ \E x : slot' = [slot EXCEPT ![m] = x]
      BY <2>1
    <3> QED
      BY <3>1, <3>2 DEF Adopts
  <2>5. CASE m \in Model /\ slot' # slot
    <3>1. slot[m].cmd = p
      BY <2>1, <2>5
    <3>2. slot[m] \in Slot
      BY <1>1, <2>5
    <3>3. \/ slot' = [slot EXCEPT ![m] = [slot[m] EXCEPT !.cmd = None, !.spid = Resolved(m)]] /\ Responds(m)
          \/ slot' = [slot EXCEPT ![m] = [slot[m] EXCEPT !.cmd = None, !.spid = None, !.ready = FALSE]]
      BY <1>1, <2>1, <2>5
    <3>4. \A n \in Model \ {m} : slot'[n] = slot[n]
      BY <1>1, <3>3
    <3>5. /\ slot'[m].present = slot[m].present /\ slot'[m].sleeping = slot[m].sleeping
          /\ slot'[m].cmd = None
          /\ slot'[m].spid = None \/ slot'[m].spid \in Listeners(m)
      <4> DEFINE one == [slot[m] EXCEPT !.cmd = None, !.spid = Resolved(m)]
                 two == [slot[m] EXCEPT !.cmd = None, !.spid = None, !.ready = FALSE]
      <4>1. one.present = slot[m].present /\ one.sleeping = slot[m].sleeping
            /\ one.cmd = None /\ one.spid = Resolved(m)
        BY <3>2 DEF Slot
      <4>2. two.present = slot[m].present /\ two.sleeping = slot[m].sleeping
            /\ two.cmd = None /\ two.spid = None
        BY <3>2 DEF Slot
      <4>3. (slot'[m] = one /\ Responds(m)) \/ slot'[m] = two
        BY <1>1, <2>5, <3>3
      <4> HIDE DEF one, two, m
      <4> QED
        BY <2>2, <4>1, <4>2, <4>3
    <3> HIDE DEF m
    <3> QED
      BY <3>1, <3>4, <3>5 DEF Adopts
  <2> QED
    BY <2>3, <2>4, <2>5
<1> QED
  BY <1>1, <1>2, <1>3, <1>4 DEF Still, Up, Live, Alive

LEMMA WorldStill ==
  ASSUME Typed, World
  PROVE  Still
<1>1. /\ UNCHANGED <<me, expected, codingModel, overlapped, phase, slot>> /\ os \in [Proc -> Process]
  BY DEF World, modeVars, Typed, TypeOK, ProcTypeOK, Serve, Die, Detach, BackoffElapses
<1>2. ASSUME Shrinks,
             \A p \in Live :
               os'[p].server = "dead" =>
                 os[p].model \in Faulty \/ (os[p].server = "loading" /\ Responds(os[p].model))
      PROVE  Still
  BY <1>1, <1>2 DEF Still, Up, Adopts
<1>3. ASSUME NEW p \in Proc, Serve(p)  PROVE Still
  <2>1. os' = [os EXCEPT ![p] = [os[p] EXCEPT !.server = "serving"]] /\ os[p].server = "loading"
    BY <1>3 DEF Serve
  <2>2. [os[p] EXCEPT !.server = "serving"].model = os[p].model
        /\ [os[p] EXCEPT !.server = "serving"].wrapper = os[p].wrapper
        /\ [os[p] EXCEPT !.server = "serving"].server = "serving"
    BY <1>1 DEF Process
  <2>3. \A q \in Proc : os'[q].model = os[q].model /\ os'[q].wrapper = os[q].wrapper
                        /\ (os'[q].server = "dead" <=> os[q].server = "dead")
    BY <1>1, <2>1, <2>2
  <2> QED
    BY <1>2, <2>3 DEF Shrinks, Alive, Live
<1>4. ASSUME NEW p \in Proc, Die(p, Fresh)  PROVE Still
  <2>1. os' = Stopped({p})
        /\ (os[p].model \in Faulty \/ (os[p].server = "loading" /\ Responds(os[p].model)))
    BY <1>4 DEF Die, Stopped
  <2>2. Shrinks /\ \A q \in Proc : q # p => os'[q] = os[q]
    BY <2>1, KilledShrinks
  <2>3. \A q \in Live : os'[q].server = "dead" => q = p
    BY <2>2 DEF Live, Alive
  <2> QED
    BY <1>2, <2>1, <2>2, <2>3
<1>5. ASSUME NEW p \in Proc, Detach(p)  PROVE Still
  <2>1. os' = [os EXCEPT ![p] = [os[p] EXCEPT !.wrapper = "exited"]] /\ os[p].model \in Detaching
    BY <1>5 DEF Detach
  <2>2. [os[p] EXCEPT !.wrapper = "exited"].model = os[p].model
        /\ [os[p] EXCEPT !.wrapper = "exited"].server = os[p].server
    BY <1>1 DEF Process
  <2>3. \A q \in Proc : os'[q].model = os[q].model /\ os'[q].server = os[q].server
    BY <1>1, <2>1, <2>2
  <2> QED
    BY <1>2, <2>1, <2>3 DEF Shrinks, Alive, Live
<1>6. ASSUME NEW m \in Model, BackoffElapses(m)  PROVE Still
  <2>1. os' = os
    BY <1>6 DEF BackoffElapses
  <2> QED
    BY <1>2, <2>1 DEF Shrinks, Alive, Live
<1> QED
  BY <1>3, <1>4, <1>5, <1>6 DEF World

LEMMA ShutdownStill ==
  ASSUME Typed, Shutdown
  PROVE  Still
<1> DEFINE known == {m \in Model : slot[m].present}
<1>1. /\ UNCHANGED <<me, expected, codingModel, overlapped>> /\ phase = "stopping" /\ phase' = "down"
      /\ os' = Stopped(UNION {KillTargets(m, NoSlot) : m \in known})
      /\ slot' = [m \in Model |-> IF m \in known THEN [slot[m] EXCEPT !.cmd = None, !.spid = None]
                                  ELSE slot[m]]
  BY DEF Shutdown, modeVars
<1>2. Shrinks
  BY <1>1, KilledShrinks
<1>3. ASSUME NEW m \in Model
      PROVE  /\ slot'[m].present = slot[m].present /\ slot'[m].sleeping = slot[m].sleeping
             /\ slot'[m].cmd \in {slot[m].cmd, None} /\ slot'[m].spid \in {slot[m].spid, None}
  <2>1. slot[m] \in Slot
    BY DEF Typed, TypeOK, ProcTypeOK
  <2>2. slot'[m] \in {slot[m], [slot[m] EXCEPT !.cmd = None, !.spid = None]}
    BY <1>1
  <2> QED
    BY <2>1, <2>2 DEF Slot
<1> QED
  BY <1>1, <1>2, <1>3 DEF Still, Up, Adopts

LEMMA NextSummary ==
  ASSUME Typed, EquippedInv, [Next]_vars
  PROVE  (Still \/ \E a \in Actor : Summary(a)) /\ EquippedInv'
<1>1. CASE (\E c \in Caller : Request(c)) \/ (\E a \in Actor : SwitchStep(a) \/ MemberStep(a))
             \/ StartBegins \/ LoopStep
  BY <1>1, RequestSummary, SwitchSummary, MemberSummary, StartSummary, LoopSummary DEF Actor, Summary
<1>2. CASE (\E p \in Proc : Reaped(p)) \/ World \/ Shutdown
  <2>1. Still
    BY <1>2, ReapedStill, WorldStill, ShutdownStill
  <2>2. EquippedInv'
    BY <2>1 DEF Still, EquippedInv, Equipped
  <2> QED
    BY <2>1, <2>2
<1>3. CASE Signal \/ Halted \/ LeaseLapses \/ (\E m \in Model : IdleElapses(m)) \/ UNCHANGED vars
  <2>1. UNCHANGED <<os, slot, expected, codingModel, me, overlapped>> /\ (Up' => Up)
    BY <1>3 DEF Signal, Halted, LeaseLapses, IdleElapses, vars, procVars, modeVars, Up
  <2>2. Still
    BY <2>1 DEF Still, Shrinks, Adopts, Alive, Live
  <2>3. EquippedInv'
    BY <2>1 DEF EquippedInv, Equipped
  <2> QED
    BY <2>2, <2>3
<1> QED
  BY <1>1, <1>2, <1>3 DEF Next

LEMMA InitEquipped ==
  ASSUME Init
  PROVE  EquippedInv /\ \A a \in Actor : me[a].pc \in {"start", "idle", "done"} /\ me[a].lost = {}
<1>1. \A p : At(p).pc = p /\ At(p).kind = "none" /\ At(p).fresh = None /\ At(p).victims = {} /\ At(p).lost = {}
  BY DEF At
<1>2. \A a \in Actor : me[a] \in {At("start"), At("idle"), At("done")}
  BY DEF Init
<1> QED
  BY <1>1, <1>2 DEF EquippedInv, Equipped, Section, Relocks, Singles, Switches

-----------------------------------------------------------------------------
(* Slots: a model that should run has one *)

LEMMA JobModels ==
  ASSUME NEW l \in Goroutine, Equipped(l)
  PROVE  /\ l.kind \in Singles /\ l.pc \in Working => l.want \in Model
         /\ l.pc \in {"register", "suspend", "stopslot", "suspended"} => l.cur \in Model
         /\ l.kind \in Switches => Targets(l) \subseteq Model
BY ConfigAccepted
   DEF Goroutine, WellFormed, Equipped, Singles, Switches, Targets, Background

(* Placed survives when a slot loses its command. *)
LEMMA PlacedKept ==
  ASSUME NEW l \in Goroutine, Equipped(l), NEW k, SameJob(k, l), NEW s, NEW t, Placed(l, s),
         \A m \in Model : t[m].present = s[m].present /\ (t[m].cmd = s[m].cmd \/ t[m].cmd = None)
  PROVE  Placed(k, t)
<1>1. Targets(k) = Targets(l)
  BY DEF SameJob, Targets
<1>2. /\ l.kind \in Singles /\ l.pc \in Working => l.want \in Model
      /\ l.pc \in {"register", "suspend", "stopslot", "suspended"} => l.cur \in Model
      /\ l.kind \in Switches => Targets(l) \subseteq Model
  BY JobModels
<1>3. k.pc = l.pc /\ k.kind = l.kind /\ k.want = l.want /\ k.cur = l.cur /\ k.todo = l.todo
  BY DEF SameJob
<1>4. k.kind = "restart" /\ k.pc \in Working => t[k.want].present
  BY <1>2, <1>3 DEF Placed, Singles
<1>5. k.pc \in {"suspend", "stopslot", "suspended"} => t[k.cur].present
  BY <1>2, <1>3 DEF Placed
<1>6. k.kind \in Singles /\ k.pc \in Working => t[k.want].cmd = None
  BY <1>2, <1>3 DEF Placed
<1>7. k.pc = "register" => t[k.cur].cmd = None
  BY <1>2, <1>3 DEF Placed
<1>8. k.pc = "kill" => \A m \in Model : t[m].present => Survives(m)
  BY <1>3 DEF Placed
<1>9. k.pc \in {"launch", "register"} /\ k.kind \in Switches =>
        /\ \A m \in Model : t[m].present => Survives(m) \/ m \in Targets(k)
        /\ \A m \in Targets(k) \ k.todo : t[m].present
  BY <1>1, <1>2, <1>3 DEF Placed
<1> QED
  BY <1>4, <1>5, <1>6, <1>7, <1>8, <1>9 DEF Placed

LEMMA Unplaced ==
  ASSUME NEW l, l.pc \notin Working
  PROVE  \A s : Placed(l, s)
BY DEF Placed, Working

(* While a works, nobody else relies on a slot. *)
LEMMA Alone ==
  ASSUME SlotInv, EquippedInv, ~overlapped, NEW a \in Actor, me[a].pc \in Section, Rest(a),
         NEW b \in Actor \ {a}
  PROVE  me[b].pc \notin Section /\ me'[b].pc \notin Section /\ Clean(me'[b])
         /\ \A s : Placed(me'[b], s)
<1>1. me[b].pc \notin Section
  BY SectionDef DEF SlotInv, Serial
<1>2. SameJob(me'[b], me[b]) /\ KeepsLost(me'[b], me[b])
  BY DEF Rest
<1>3. me'[b].pc \notin Section
  BY <1>1, <1>2 DEF SameJob
<1>4. Clean(me'[b])
  BY <1>1, <1>2 DEF Clean, SlotInv, EquippedInv, Equipped, SameJob, KeepsLost, Section
<1>5. me'[b].pc \notin Working
  BY <1>3 DEF Working, Section
<1> QED
  BY <1>1, <1>3, <1>4, <1>5, Unplaced

(* What a step of a within its section, or the last one, has to establish. *)
LEMMA WorksSlots ==
  ASSUME SlotInv, EquippedInv, NEW a \in Actor, me[a].pc \in Section, Rest(a), UNCHANGED overlapped,
         me'[a].lost \subseteq me[a].lost,
         ~overlapped /\ Sound /\ Clean(me[a]) /\ Placed(me[a], slot)
                     /\ Matched =>
           Sound' /\ Matched' /\ Placed(me'[a], slot')
  PROVE  SlotInv'
<1> SUFFICES ASSUME ~overlapped
             PROVE  /\ Serial' /\ Sound' /\ Matched'
                    /\ \A b \in Actor : Clean(me'[b]) /\ Placed(me'[b], slot')
  BY DEF SlotInv, Clean, Placed
<1>1. ~overlapped /\ Sound /\ Clean(me[a]) /\ Placed(me[a], slot)
                     /\ Matched
  BY DEF SlotInv
<1>2. \A b \in Actor \ {a} : me'[b].pc \notin Section /\ Clean(me'[b]) /\ Placed(me'[b], slot')
  BY Alone
<1>3. Serial'
  BY <1>2, SectionDefNext DEF Serial
<1>4. Clean(me'[a])
  BY <1>1 DEF Clean, Section, Relocks
<1> QED
  BY <1>1, <1>2, <1>3, <1>4

LEMMA QuietSlots ==
  ASSUME Typed, SlotInv, EquippedInv, NEW a \in Actor, Quiet(a)
  PROVE  SlotInv'
<1> SUFFICES ASSUME ~overlapped
             PROVE  /\ Serial' /\ Sound' /\ Matched'
                    /\ \A b \in Actor : Clean(me'[b]) /\ Placed(me'[b], slot')
  BY DEF SlotInv, Clean, Placed, Quiet
<1>1. \A b \in Actor : InSection(b)' => InSection(b)
  BY SectionDef, SectionDefNext DEF Quiet, Rest, SameJob
<1>2. Serial'
  BY <1>1 DEF SlotInv, Serial
<1>3. Sound' /\ Matched'
  BY DEF SlotInv, Sound, Matched, Quiet, SlotsKept, Typed, TypeOK
<1>4. ASSUME NEW b \in Actor \ {a}  PROVE Clean(me'[b]) /\ Placed(me'[b], slot')
  <2>1. SameJob(me'[b], me[b]) /\ me'[b].lost = me[b].lost
    BY DEF Quiet, Rest, Unlost
  <2>2. Placed(me[b], slot) /\ Clean(me[b]) /\ me[b] \in Goroutine /\ Equipped(me[b])
    BY DEF SlotInv, Typed, EquippedInv
  <2>3. Placed(me'[b], slot')
    BY <2>1, <2>2, PlacedKept DEF Quiet, SlotsKept
  <2> QED
    BY <2>1, <2>2, <2>3 DEF Clean, SameJob
<1>5. Clean(me'[a]) /\ Placed(me'[a], slot')
  BY Unplaced DEF Quiet, ClearsLost, Clean, SlotInv
<1> QED
  BY <1>2, <1>3, <1>4, <1>5

LEMMA StillSlots ==
  ASSUME Typed, SlotInv, EquippedInv, Still
  PROVE  SlotInv'
<1> SUFFICES ASSUME ~overlapped
             PROVE  /\ Serial' /\ Sound' /\ Matched'
                    /\ \A b \in Actor : Clean(me'[b]) /\ Placed(me'[b], slot')
  BY DEF SlotInv, Clean, Placed, Still
<1>1. Serial'
  BY DEF SlotInv, Serial, Still, InSection
<1>2. Sound' /\ Matched'
  BY DEF SlotInv, Sound, Matched, Still, Typed, TypeOK
<1>3. ASSUME NEW b \in Actor  PROVE Clean(me'[b]) /\ Placed(me'[b], slot')
  <2>1. Placed(me[b], slot) /\ Clean(me[b]) /\ me[b] \in Goroutine /\ Equipped(me[b]) /\ me' = me
    BY DEF SlotInv, Typed, EquippedInv, Still
  <2>2. \A m \in Model : slot'[m].present = slot[m].present
                         /\ (slot'[m].cmd = slot[m].cmd \/ slot'[m].cmd = None)
    BY DEF Still
  <2>3. SameJob(me[b], me[b])
    BY DEF SameJob
  <2> QED
    BY <2>1, <2>2, <2>3, PlacedKept
<1> QED
  BY <1>1, <1>2, <1>3

LEMMA EntersSlots ==
  ASSUME Typed, SlotInv, EquippedInv, NEW a \in Actor, Enters(a)
  PROVE  SlotInv'
<1> SUFFICES ASSUME ~overlapped'
             PROVE  /\ Serial' /\ Sound' /\ Matched'
                    /\ \A b \in Actor : Clean(me'[b]) /\ Placed(me'[b], slot')
  BY DEF SlotInv, Clean, Placed
<1>1. ~overlapped /\ \A b \in Actor \ {a} : ~InSection(b)
  BY DEF Enters, Entered, Typed, TypeOK
<1>2. ASSUME NEW b \in Actor \ {a}  PROVE ~InSection(b)' /\ Clean(me'[b]) /\ Placed(me'[b], slot')
  <2>1. SameJob(me'[b], me[b]) /\ me'[b].lost = me[b].lost
    BY DEF Enters, Rest, Unlost
  <2>2. me'[b].pc \notin Section /\ Clean(me'[b])
    BY <1>1, <2>1, SectionDef DEF SameJob, Clean, SlotInv
  <2>3. me'[b].pc \notin Working
    BY <2>2 DEF Section, Working
  <2> QED
    BY <2>2, <2>3, SectionDefNext, Unplaced
<1>3. Serial'
  BY <1>2 DEF Serial
<1>4. Sound' /\ Matched'
  BY <1>1 DEF SlotInv, Sound, Matched, Enters
<1>5. Clean(me'[a])
  BY <1>1 DEF Enters, ClearsLost, Clean, SlotInv, Relocks
<1>6. Placed(me'[a], slot')
  <2>1. slot' = slot /\ Sound
    BY <1>1 DEF Enters, SlotInv
  <2>2. CASE me'[a].pc = "acquire"
    <3>1. me'[a].kind \in Singles /\ me'[a].want \in Model /\ ~Running(me'[a].want)
          /\ (me'[a].kind = "restart" => slot[me'[a].want].present)
      BY <2>2 DEF Enters
    <3>2. slot[me'[a].want].cmd = None
      BY <2>1, <3>1 DEF Sound, Running
    <3> QED
      BY <2>1, <2>2, <3>1, <3>2 DEF Placed
  <2>3. CASE me'[a].pc = "stop"
    BY <2>3, Unplaced DEF Working
  <2>4. CASE me'[a].pc = "suspend"
    BY <2>1, <2>4 DEF Enters, Placed, Singles
  <2> QED
    BY <2>2, <2>3, <2>4 DEF Enters
<1> QED
  BY <1>2, <1>3, <1>4, <1>5, <1>6

LEMMA SwitchSlots ==
  ASSUME Typed, SlotInv, EquippedInv, NEW a \in Actor,
         Empties(a) \/ Kills(a) \/ (\E m \in Model : Skips(a, m)) \/ Publishes(a)
  PROVE  SlotInv'
<1> DEFINE l == me[a]
<1>1. /\ l \in Goroutine /\ WellFormed(l) /\ Equipped(l) /\ slot \in [Model -> Slot]
      /\ expected \subseteq Model
  BY DEF Typed, TypeOK, ProcTypeOK, EquippedInv, Goroutine
<1>2. l.pc \in Section /\ Rest(a) /\ UNCHANGED overlapped /\ me'[a].lost \subseteq l.lost
      /\ me'[a].kind = l.kind /\ me'[a].want = l.want
  BY DEF Empties, Kills, Skips, Publishes, Works
<1>3. Targets(me'[a]) = Targets(l)
  BY <1>2 DEF Targets
<1>4. SUFFICES ASSUME ~overlapped, Sound, Clean(l), Placed(l, slot), Matched
               PROVE  Sound' /\ Matched' /\ Placed(me'[a], slot')
  BY <1>2, WorksSlots
<1>5. CASE Empties(a)
  <2> DEFINE gone == {m \in Model : slot[m].present /\ ~Survives(m)}
  <2>1. /\ slot' = [m \in Model |-> IF m \in gone THEN NoSlot ELSE slot[m]]
        /\ expected' = {m \in Model : slot[m].present /\ Survives(m)}
        /\ me'[a].pc = "kill" /\ l.pc = "stop"
    BY <1>5 DEF Empties, Works
  <2>2. NoSlot.present = FALSE /\ NoSlot.cmd = None /\ NoSlot.sleeping = FALSE
    BY DEF NoSlot
  <2>3. \A m \in Model : slot'[m] = slot[m] \/ slot'[m] = NoSlot
    BY <2>1
  <2>4. Sound'
    BY <1>4, <2>2, <2>3 DEF Sound
  <2>5. \A m \in Model : slot'[m].present => Survives(m)
    BY <2>1, <2>2
  <2>6. me'[a].kind \notin Singles
    BY <1>1, <1>2, <2>1 DEF WellFormed, Singles
  <2>7. Matched'
    BY <2>1, <2>2 DEF Matched
  <2> QED
    BY <2>1, <2>4, <2>5, <2>6, <2>7 DEF Placed, Singles
<1>6. CASE Kills(a)
  <2>1. slot' = slot /\ expected' = expected /\ me'[a].pc = "launch" /\ l.pc = "kill"
        /\ me'[a].todo = Targets(l) /\ me'[a].kind \notin Singles
    BY <1>1, <1>2, <1>6 DEF Kills, Works, WellFormed, Singles
  <2> QED
    BY <1>3, <1>4, <2>1 DEF Placed, Sound, Matched, Singles
<1>7. ASSUME NEW m \in Model, Skips(a, m)
      PROVE  Sound' /\ Matched' /\ Placed(me'[a], slot')
  <2>1. slot' = slot /\ expected' = expected \cup {m} /\ me'[a].pc = "launch" /\ l.pc = "launch"
        /\ me'[a].todo = l.todo \ {m} /\ me'[a].kind \notin Singles
        /\ (slot[m].present \/ slot[m].sleeping)
    BY <1>1, <1>2, <1>7 DEF Skips, Works, WellFormed, Singles
  <2>2. slot[m].present
    BY <1>4, <2>1 DEF Sound
  <2> QED
    BY <1>2, <1>3, <1>4, <2>1, <2>2 DEF Placed, Sound, Matched, Singles
<1>8. CASE Publishes(a)
  <2>1. slot' = slot /\ expected' = expected \cup Targets(l) /\ l.todo = {} /\ me'[a].pc = "wait"
        /\ l.pc = "launch" /\ l.kind \in Switches
    BY <1>1, <1>8 DEF Publishes, Works, WellFormed, Switches
  <2>2. \A m \in Targets(l) : slot[m].present
    BY <1>4, <2>1 DEF Placed
  <2>3. Placed(me'[a], slot')
    BY <2>1, Unplaced DEF Working
  <2> QED
    BY <1>1, <1>4, <2>1, <2>2, <2>3 DEF Sound, Matched
<1> QED
  BY <1>5, <1>6, <1>7, <1>8

LEMMA LoadSlots ==
  ASSUME Typed, SlotInv, EquippedInv, NEW a \in Actor,
         Frees(a) \/ Evicts(a) \/ (\E m \in Model : Starts(a, m)) \/ Registers(a)
  PROVE  SlotInv'
<1> DEFINE l == me[a]
<1>1. /\ l \in Goroutine /\ WellFormed(l) /\ Equipped(l) /\ slot \in [Model -> Slot]
      /\ expected \subseteq Model
  BY DEF Typed, TypeOK, ProcTypeOK, EquippedInv, Goroutine
<1>2. l.pc \in Section /\ Rest(a) /\ UNCHANGED overlapped /\ me'[a].lost \subseteq l.lost
      /\ me'[a].kind = l.kind /\ me'[a].want = l.want
  BY DEF Frees, Evicts, Starts, Registers, Works
<1>3. Targets(me'[a]) = Targets(l)
  BY <1>2 DEF Targets
<1>4. SUFFICES ASSUME ~overlapped, Sound, Clean(l), Placed(l, slot), Matched
               PROVE  Sound' /\ Matched' /\ Placed(me'[a], slot')
  BY <1>2, WorksSlots
<1>5. CASE Frees(a) \/ Evicts(a)
  <2>1. slot' = slot /\ expected' = expected /\ l.pc = "acquire" /\ l.kind \in Singles
        /\ me'[a].pc \in {"spawn", "suspend"}
        /\ (me'[a].pc = "suspend" => slot[me'[a].cur].present)
    BY <1>1, <1>5 DEF Frees, Evicts, Works, WellFormed, Singles, Owners, Running
  <2> QED
    BY <1>2, <1>4, <2>1 DEF Placed, Sound, Matched, Working
<1>6. ASSUME NEW m \in Model, Starts(a, m)
      PROVE  Sound' /\ Matched' /\ Placed(me'[a], slot')
  <2>1. slot' = slot /\ expected' = expected /\ me'[a].pc = "register"
        /\ me'[a].cur = m /\ me'[a].todo = l.todo /\ Launchable(a, m)
    BY <1>6 DEF Starts, Works
  <2>2. CASE l.pc = "launch"
    <3>1. ~Running(m) /\ l.kind \in Switches
      BY <1>1, <2>1, <2>2 DEF Launchable, WellFormed, Switches
    <3>2. slot[m].cmd = None
      BY <1>4, <3>1 DEF Sound, Running
    <3> QED
      BY <1>2, <1>3, <1>4, <2>1, <2>2, <3>1, <3>2 DEF Placed, Sound, Matched, Switches, Singles
  <2>3. CASE l.pc = "spawn"
    <3>1. m = l.want /\ l.kind \in Singles
      BY <1>1, <2>1, <2>3 DEF Launchable, WellFormed, Singles
    <3> QED
      BY <1>2, <1>4, <2>1, <2>3, <3>1 DEF Placed, Sound, Matched, Switches, Singles, Working
  <2> QED
    BY <2>1, <2>2, <2>3 DEF Launchable
<1>7. CASE Registers(a)
  <2> DEFINE m == l.cur
             new == [NoSlot EXCEPT !.present = TRUE, !.cmd = l.fresh]
  <2>1. /\ slot' = [slot EXCEPT ![m] = new] /\ expected' = expected \cup {m} /\ l.pc = "register"
        /\ me'[a].pc = (IF l.kind = "ondemand" THEN "publish" ELSE "launch")
        /\ me'[a].todo = l.todo \ {m} /\ l.kind # "restart" /\ m \in Model
    BY <1>1, <1>7 DEF Registers, Works, WellFormed
  <2>2. new.present
    BY DEF NoSlot
  <2> HIDE DEF new
  <2>3. slot'[m].present /\ \A n \in Model \ {m} : slot'[n] = slot[n]
    BY <1>1, <2>1, <2>2
  <2>4. Sound' /\ Matched'
    BY <1>1, <1>4, <2>1, <2>3 DEF Sound, Matched
  <2>5. CASE l.kind = "ondemand"
    BY <2>1, <2>4, <2>5, Unplaced DEF Working
  <2>6. CASE l.kind # "ondemand"
    <3>1. l.kind \in Switches /\ me'[a].pc = "launch"
      BY <1>1, <2>1, <2>6 DEF WellFormed, Switches
    <3>2. m \in Targets(l) /\ Targets(l) \subseteq Model
      BY <1>1, <2>1, <3>1, JobModels DEF Equipped
    <3>3. \A n \in Model : slot'[n].present => Survives(n) \/ n \in Targets(l)
      BY <1>4, <2>1, <2>3, <3>1, <3>2 DEF Placed
    <3>4. \A n \in Targets(l) \ me'[a].todo : slot'[n].present
      BY <1>4, <2>1, <2>3, <3>1, <3>2 DEF Placed
    <3> QED
      BY <1>2, <1>3, <2>4, <3>1, <3>3, <3>4 DEF Placed, Singles, Switches
  <2> QED
    BY <2>5, <2>6
<1> QED
  BY <1>5, <1>6, <1>7

(* Putting a slot to sleep, and the command a restarted slot gets. *)
LEMMA SuspendingKeeps ==
  ASSUME Typed, NEW a \in Actor, me[a].cur \in Model, Suspending(a)
  PROVE  /\ \A m \in Model : slot'[m].present = slot[m].present /\ slot'[m].sleeping = slot[m].sleeping
         /\ \A m \in Model \ {me[a].cur} : slot'[m] = slot[m]
         /\ me[a].cur \notin me[a].lost => slot'[me[a].cur].cmd = None /\ slot'[me[a].cur].spid = None
         /\ me[a].cur \in me[a].lost => slot' = slot
<1> DEFINE m == me[a].cur
           put == [slot[m] EXCEPT !.cmd = None, !.spid = None, !.closed = FALSE]
<1>1. slot' = IF m \in me[a].lost THEN slot ELSE [slot EXCEPT ![m] = put]
  BY DEF Suspending
<1>2. slot \in [Model -> Slot] /\ slot[m] \in Slot
  BY DEF Typed, TypeOK, ProcTypeOK
<1>3. put.present = slot[m].present /\ put.sleeping = slot[m].sleeping /\ put.cmd = None /\ put.spid = None
  BY <1>2 DEF Slot
<1> HIDE DEF put
<1> QED
  BY <1>1, <1>2, <1>3

LEMMA SuspendsKeeps ==
  ASSUME Typed, NEW a \in Actor, me[a].cur \in Model, Suspends(a)
  PROVE  \A m \in Model :
           /\ slot'[m].present = slot[m].present /\ slot'[m].cmd = slot[m].cmd
           /\ slot'[m].spid = slot[m].spid
           /\ m # me[a].cur => slot'[m].sleeping = slot[m].sleeping
<1> DEFINE m == me[a].cur
           put == [slot[m] EXCEPT !.sleeping = TRUE, !.ready = FALSE]
<1>1. slot' = IF m \in me[a].lost THEN slot ELSE [slot EXCEPT ![m] = put]
  BY DEF Suspends
<1>2. slot \in [Model -> Slot] /\ slot[m] \in Slot
  BY DEF Typed, TypeOK, ProcTypeOK
<1>3. put.present = slot[m].present /\ put.cmd = slot[m].cmd /\ put.spid = slot[m].spid
  BY <1>2 DEF Slot
<1> HIDE DEF put
<1> QED
  BY <1>1, <1>2, <1>3

LEMMA QuellsKeeps ==
  ASSUME Typed, NEW a \in Actor, me[a].cur \in Model, Quells(a)
  PROVE  \A m \in Model :
           /\ slot'[m].present = slot[m].present /\ slot'[m].cmd = slot[m].cmd
           /\ slot'[m].sleeping = slot[m].sleeping /\ slot'[m].ready = slot[m].ready
           /\ slot'[m].spid \in {slot[m].spid} \cup Listeners(m)
<1> DEFINE m == me[a].cur
           put == [slot[m] EXCEPT !.spid = Resolved(m)]
<1>1. slot' = IF m \in me[a].lost THEN slot ELSE [slot EXCEPT ![m] = put]
  BY DEF Quells
<1>2. slot \in [Model -> Slot] /\ slot[m] \in Slot
  BY DEF Typed, TypeOK, ProcTypeOK
<1>3. /\ put.present = slot[m].present /\ put.cmd = slot[m].cmd /\ put.sleeping = slot[m].sleeping
      /\ put.ready = slot[m].ready /\ put.spid = Resolved(m)
  BY <1>2 DEF Slot
<1>4. Resolved(m) \in {slot[m].spid} \cup Listeners(m)
  BY DEF Resolved, Responds
<1> HIDE DEF put
<1> QED
  BY <1>1, <1>2, <1>3, <1>4

LEMMA RestartedKeeps ==
  ASSUME Typed, NEW a \in Actor, me[a].want \in Model, Restarted(a)
  PROVE  \A m \in Model :
           /\ slot'[m].present = slot[m].present /\ slot'[m].spid = slot[m].spid
           /\ slot'[m].sleeping => slot[m].sleeping
           /\ m # me[a].want \/ me[a].fresh = None => slot'[m] = slot[m]
           /\ m = me[a].want /\ m \notin me[a].lost => slot'[m].cmd = IF me[a].fresh = None THEN slot[m].cmd ELSE me[a].fresh
<1> DEFINE m == me[a].want
           put == [slot[m] EXCEPT !.cmd = me[a].fresh, !.ready = FALSE, !.sleeping = FALSE]
<1>1. slot' = IF me[a].fresh = None \/ m \in me[a].lost THEN slot ELSE [slot EXCEPT ![m] = put]
  BY DEF Restarted
<1>2. slot \in [Model -> Slot] /\ slot[m] \in Slot
  BY DEF Typed, TypeOK, ProcTypeOK
<1>3. put.present = slot[m].present /\ put.cmd = me[a].fresh /\ put.spid = slot[m].spid /\ ~put.sleeping
  BY <1>2 DEF Slot
<1> HIDE DEF put
<1> QED
  BY <1>1, <1>2, <1>3

LEMMA EvictionSlots ==
  ASSUME Typed, SlotInv, EquippedInv, NEW a \in Actor,
         Suspends(a) \/ Quells(a) \/ Evicted(a) \/ Slept(a) \/ Restarted(a)
  PROVE  SlotInv'
<1> DEFINE l == me[a]
<1>1. /\ l \in Goroutine /\ WellFormed(l) /\ Equipped(l) /\ slot \in [Model -> Slot]
      /\ expected \subseteq Model
  BY DEF Typed, TypeOK, ProcTypeOK, EquippedInv, Goroutine
<1>2. l.pc \in Section /\ Rest(a) /\ UNCHANGED <<overlapped, expected>> /\ me'[a].lost \subseteq l.lost
  BY DEF Suspends, Quells, Evicted, Slept, Restarted, Works, Departs, Suspending
<1>3. SUFFICES ASSUME ~overlapped, Sound, Clean(l), Placed(l, slot), Matched
               PROVE  Sound' /\ Matched' /\ Placed(me'[a], slot')
  BY <1>2, WorksSlots
<1>4. CASE Suspends(a)
  <2>1. l.pc = "suspend" /\ l.cur \in Model /\ slot[l.cur].present
    BY <1>1, <1>3, <1>4 DEF Suspends, Works, Equipped, Placed
  <2>2. \A m \in Model :
           /\ slot'[m].present = slot[m].present /\ slot'[m].cmd = slot[m].cmd
           /\ m # l.cur => slot'[m].sleeping = slot[m].sleeping
    BY <1>1, <1>4, <2>1, SuspendsKeeps DEF Equipped
  <2>3. Matched'
    BY <1>1, <1>2, <1>3, <2>2 DEF Matched
  <2>4. l.kind \in Singles => l.want \in Model
    BY <1>1, <1>4, JobModels DEF Suspends, Works, Working
  <2>5. me'[a].pc = "stopslot" /\ me'[a].kind = l.kind /\ me'[a].want = l.want /\ me'[a].cur = l.cur
        /\ l.pc = "suspend"
    BY <1>4 DEF Suspends, Works
  <2>6. slot'[l.cur].present
    BY <2>1, <2>2, <2>5
  <2>7. l.kind = "restart" => slot'[l.want].present
    BY <1>3, <2>2, <2>4, <2>5 DEF Placed, Working, Singles
  <2>8. l.kind \in Singles => slot'[l.want].cmd = None
    BY <1>3, <2>2, <2>4, <2>5 DEF Placed, Working
  <2>9. Sound'
    BY <1>3, <2>2, <2>6 DEF Sound
  <2> QED
    BY <2>3, <2>5, <2>6, <2>7, <2>8, <2>9 DEF Placed, Working, Singles
<1>5. CASE Evicted(a) \/ Slept(a)
  <2>1. l.pc = "suspended" /\ l.cur \in Model /\ Suspending(a)
    BY <1>1, <1>5 DEF Evicted, Slept, Works, Departs, Equipped
  <2>2. \A m \in Model :
           /\ slot'[m].present = slot[m].present /\ slot'[m].sleeping = slot[m].sleeping
           /\ slot'[m].cmd = slot[m].cmd \/ slot'[m].cmd = None
    BY <2>1, SuspendingKeeps
  <2>3. Sound' /\ Matched'
    BY <1>1, <1>2, <1>3, <2>2 DEF Sound, Matched
  <2>4. CASE Slept(a)
    <3>1. me'[a].pc \notin Working
      BY <2>4 DEF Slept, Departs, Section, Working
    <3> QED
      BY <2>3, <3>1, Unplaced
  <2>5. CASE Evicted(a)
    <3>1. me'[a].pc = "spawn" /\ me'[a].kind = l.kind /\ me'[a].want = l.want /\ l.kind \in Singles
      BY <1>1, <2>1, <2>5 DEF Evicted, Works, WellFormed, Singles
    <3>2. l.want \in Model
      BY <1>1, <2>1, <3>1, JobModels DEF Working
    <3>3. (l.kind = "restart" => slot'[l.want].present) /\ slot'[l.want].cmd = None
      BY <1>3, <2>1, <2>2, <3>1, <3>2 DEF Placed, Working
    <3> QED
      BY <2>3, <3>1, <3>3 DEF Placed, Working, Singles
  <2> QED
    BY <1>5, <2>4, <2>5
<1>6. CASE Restarted(a)
  <2>1. l.pc = "register" /\ l.kind = "restart" /\ me'[a].pc \notin Working
    BY <1>6 DEF Restarted, Departs, Section, Working
  <2>2. l.want \in Model /\ slot[l.want].present
    BY <1>1, <1>3, <2>1, JobModels DEF Placed, Working, Singles
  <2>3. \A m \in Model :
           /\ slot'[m].present = slot[m].present
           /\ slot'[m].sleeping => slot[m].sleeping
           /\ m # l.want => slot'[m] = slot[m]
    BY <1>6, <2>2, RestartedKeeps
  <2>4. Sound' /\ Matched'
    BY <1>1, <1>2, <1>3, <2>2, <2>3 DEF Sound, Matched
  <2> QED
    BY <2>1, <2>4, Unplaced
<1>7. CASE Quells(a)
  <2>1. /\ l.pc = "stopslot" /\ me'[a].pc = "suspended" /\ l.cur \in Model /\ me'[a].cur = l.cur
        /\ me'[a].kind = l.kind /\ me'[a].want = l.want
    BY <1>1, <1>7 DEF Quells, Works, Equipped
  <2>2. \A m \in Model :
           /\ slot'[m].present = slot[m].present /\ slot'[m].cmd = slot[m].cmd
           /\ slot'[m].sleeping = slot[m].sleeping
    BY <1>1, <1>7, <2>1, QuellsKeeps
  <2>3. l.kind \in Singles => l.want \in Model
    BY <1>1, <2>1, JobModels DEF Working
  <2>4. Sound' /\ Matched'
    BY <1>1, <1>2, <1>3, <2>2 DEF Sound, Matched
  <2>5. slot'[l.cur].present
    BY <1>3, <2>1, <2>2 DEF Placed
  <2>6. /\ l.kind = "restart" => slot'[l.want].present
        /\ l.kind \in Singles => slot'[l.want].cmd = None
    BY <1>3, <2>1, <2>2, <2>3 DEF Placed, Working, Singles
  <2> QED
    BY <2>1, <2>4, <2>5, <2>6 DEF Placed, Working, Singles
<1> QED
  BY <1>4, <1>5, <1>6, <1>7

LEMMA NextSlots ==
  ASSUME Typed, SlotInv, EquippedInv, [Next]_vars
  PROVE  SlotInv'
BY NextSummary, StillSlots, QuietSlots, EntersSlots, SwitchSlots, LoadSlots, EvictionSlots DEF Summary

LEMMA InitSlots ==
  ASSUME Init
  PROVE  SlotInv
<1>1. \A a \in Actor : me[a].pc \notin Section /\ me[a].lost = {}
  BY InitEquipped DEF Section
<1>2. \A a \in Actor : me[a].pc \notin Working
  BY <1>1 DEF Section, Working
<1>3. Serial /\ \A a \in Actor : Clean(me[a]) /\ Placed(me[a], slot)
  BY <1>1, <1>2, SectionDef, Unplaced DEF Serial, Clean
<1>4. Sound /\ Matched
  BY DEF Init, ProcInit, NoSlot, Sound, Matched
<1> QED
  BY <1>3, <1>4 DEF SlotInv

(* The invariant all the others rest on. *)
Base == Typed /\ EquippedInv /\ SlotInv

LEMMA InitBase == Init => Base
BY InitType, InitEquipped, InitSlots DEF Base

LEMMA NextBase == Base /\ [Next]_vars => Base'
BY NextType, NextSummary, NextSlots DEF Base

(* The models that should run are those that have a slot, whatever the processes *)
(* do and however requests, restarts, sleeps and switches interleave, as long as  *)
(* no two switches have overlapped: reconcile finds every one it has to restart,  *)
(* and restarts every background one it finds gone (reconcile.go:115-172).        *)
THEOREM ExpectedSlots == Spec => []ExpectedHasSlot
<1>1. Base => ExpectedHasSlot
  BY DEF Base, SlotInv, Matched, ExpectedHasSlot, Typed, TypeOK
<1> QED
  BY <1>1, InitBase, NextBase, PTL DEF Spec

-----------------------------------------------------------------------------
(* Switches are serial when no model starts by itself *)

(* A step of a that is neither a wait nor an entry stays in the section, or leaves it. *)
LEMMA SectionStep ==
  ASSUME NEW a \in Actor, Summary(a)
  PROVE  \/ Quiet(a) \/ Enters(a)
         \/ /\ me[a].pc \in Section /\ Rest(a) /\ UNCHANGED overlapped /\ Up
            /\ me'[a].pc \in Section => me'[a].kind = me[a].kind
            /\ me'[a].pc # "clearcoding"
<1>1. CASE Empties(a) \/ Kills(a) \/ (\E m \in Model : Skips(a, m)) \/ Publishes(a)
  BY <1>1 DEF Empties, Kills, Skips, Publishes, Works, Section
<1>2. CASE Frees(a) \/ Evicts(a) \/ (\E m \in Model : Starts(a, m)) \/ Registers(a)
  <2>1. \E p, q : Works(a, p, q)
    BY <1>2 DEF Frees, Evicts, Starts, Registers
  <2> QED
    BY <2>1 DEF Works, Section
<1>3. CASE Suspends(a) \/ Quells(a) \/ Evicted(a) \/ Slept(a) \/ Restarted(a)
  BY <1>3 DEF Suspends, Quells, Evicted, Slept, Restarted, Works, Departs, Section
<1> QED
  BY <1>1, <1>2, <1>3 DEF Summary

(* Without a group neither Start nor Loop switches, and everyone else is locked out. *)
Unswitched ==
  /\ ~overlapped
  /\ me[Starter].pc \in {"start", "done"}
  /\ me[Looper].pc \in Section => me[Looper].kind \in {"restart", "sleep"}

LEMMA NextUnswitched ==
  ASSUME Autostart = {}, Locked, EquippedInv, Unswitched, [Next]_vars
  PROVE  Unswitched'
<1>0. {Starter, Looper} \subseteq Actor /\ Starter # Looper /\ None \notin Actor
  BY ActorAssumption DEF Actor
<1>1. CASE Still
  BY <1>1 DEF Still, Unswitched
<1>2. ASSUME NEW a \in Actor, Quiet(a)  PROVE Unswitched'
  <2>1. me'[Starter].pc \in {"start", "done"}
    BY <1>0, <1>2 DEF Quiet, Rest, SameJob, Unswitched
  <2>2. me'[Looper].pc \in Section => me[Looper].pc \in Section /\ me'[Looper].kind = me[Looper].kind
    BY <1>0, <1>2, SectionDef, SectionDefNext DEF Quiet, Rest, SameJob
  <2> QED
    BY <1>2, <2>1, <2>2 DEF Unswitched, Quiet
<1>3. ASSUME NEW a \in Actor, Enters(a)  PROVE Unswitched'
  <2>1. /\ switchMu = None /\ me[a].pc \in {"lock"} \cup Relocks
        /\ a \in Caller \/ me'[a].kind \in {"restart", "sleep"}
    BY <1>3 DEF Enters
  <2>2. \A b \in Actor : ~InSection(b)
    <3> SUFFICES ASSUME NEW b \in Actor, InSection(b)  PROVE FALSE
      OBVIOUS
    <3>1. b \in Caller \/ me[b].kind \in {"restart", "sleep"}
      BY SectionDef DEF Actor, Unswitched, Section
    <3> QED
      BY <1>0, <2>1, <3>1 DEF Locked, LockHeld
  <2>3. ~overlapped'
    BY <1>3, <2>2 DEF Enters, Entered, Unswitched
  <2>4. a # Starter
    BY <2>1 DEF Unswitched, Relocks
  <2>5. me'[Starter].pc \in {"start", "done"}
    BY <1>0, <1>3, <2>4 DEF Enters, Rest, SameJob, Unswitched
  <2>6. me'[Looper].pc \in Section => me'[Looper].kind \in {"restart", "sleep"}
    BY <1>0, <1>3, <2>1, ActorAssumption DEF Enters, Rest, SameJob, Unswitched
  <2> QED
    BY <2>3, <2>5, <2>6 DEF Unswitched
<1>4. ASSUME NEW a \in Actor, me[a].pc \in Section, Rest(a), UNCHANGED overlapped,
             me'[a].pc \in Section => me'[a].kind = me[a].kind
      PROVE  Unswitched'
  <2>1. a # Starter
    BY <1>4 DEF Unswitched, Section
  <2>2. me'[Starter].pc \in {"start", "done"}
    BY <1>0, <1>4, <2>1 DEF Rest, SameJob, Unswitched
  <2>3. me'[Looper].pc \in Section => me'[Looper].kind \in {"restart", "sleep"}
    BY <1>0, <1>4 DEF Rest, SameJob, Unswitched
  <2> QED
    BY <1>4, <2>2, <2>3 DEF Unswitched
<1> QED
  BY <1>1, <1>2, <1>3, <1>4, NextSummary, SectionStep DEF Locked

(* Whole switches exclude each other if the configuration has no background    *)
(* group: then switchTo is called by requests only, under switchMu              *)
(* (scheduler.go:64, switching.go:21-22).  With a group, Start and Loop call it *)
(* without the lock, and the claim fails.                                       *)
THEOREM SerialWithoutGroup ==
  ASSUME Autostart = {}
  PROVE  Spec => []SwitchesSerial
<1> DEFINE Inv == Locked /\ EquippedInv /\ Unswitched
<1>1. Init => Inv
  <2> SUFFICES ASSUME Init  PROVE Inv
    OBVIOUS
  <2>1. {Starter, Looper} \subseteq Actor /\ Starter # Looper
    BY ActorAssumption DEF Actor
  <2>2. me[Starter].pc = "start" /\ me[Looper].pc \in {"idle", "done"} /\ ~overlapped
    BY <2>1 DEF Init, At
  <2> QED
    BY <2>2, InitType, InitLocked, InitEquipped DEF Locked, Unswitched, Section
<1>2. Inv /\ [Next]_vars => Inv'
  <2> SUFFICES ASSUME Inv, [Next]_vars  PROVE Inv'
    OBVIOUS
  <2>1. Locked' /\ EquippedInv'
    BY NextLocked, NextSummary DEF Locked
  <2> QED
    BY <2>1, NextUnswitched
<1>3. Inv => SwitchesSerial
  BY DEF Unswitched, SwitchesSerial
<1> HIDE DEF Inv
<1> QED
  BY <1>1, <1>2, <1>3, PTL DEF Spec

-----------------------------------------------------------------------------
(* Every process alive has an owner, if no command detaches its server *)

(* The command of a live process has not exited: only Detach ends it alone. *)
Foreground == \A p \in Proc : Alive(p) => os[p].wrapper = "alive" /\ os[p].model \in Model

OwnedBySlot(p) == slot[os[p].model].cmd = p
StartedBy(l, p) == l.pc = "register" /\ l.fresh = p /\ l.cur = os[p].model
KilledBy(l, p) == l.pc = "kill" /\ \E v \in l.victims : v.model = os[p].model /\ v.cmd = p

(* The slot of its model holds it, or whoever starts it or is about to kill it does. *)
Owned ==
  ~overlapped /\ Up =>
    \A p \in Live : OwnedBySlot(p) \/ \E a \in Actor : StartedBy(me[a], p) \/ KilledBy(me[a], p)

(* When suspendSlot takes the slot again, the model it stopped has no process left. *)
Stilled ==
  ~overlapped /\ Up =>
    \A a \in Actor : me[a].pc = "suspended" => \A p \in Live : os[p].model # me[a].cur

LEMMA StartsAlive ==
  ASSUME Typed, NEW a \in Actor, NEW m \in Model, Starts(a, m), NEW p \in Proc, Alive(p)'
  PROVE  \/ Alive(p) /\ os'[p] = os[p] /\ p \notin Listeners(m) /\ p # me'[a].fresh
         \/ me'[a].fresh = p /\ os'[p] = [model |-> m, server |-> "loading", wrapper |-> "alive"]
<1>1. PICK P : P = Listeners(m)
  OBVIOUS
<1>2. \A q \in Proc : (Stopped(P)[q] = os[q] /\ q \notin P) \/ Stopped(P)[q].server = "dead"
  BY DEF Stopped, Killed, NoProc
<1>3. DOMAIN Stopped(P) = Proc
  BY DEF Stopped, Killed
<1> DEFINE new == [model |-> m, server |-> "loading", wrapper |-> "alive"]
<1>4. \/ me'[a].fresh \in Proc /\ os' = [Stopped(P) EXCEPT ![me'[a].fresh] = new]
      \/ me'[a].fresh = None /\ os' = Stopped(P)
  BY <1>1 DEF Starts, Spawnable, FreeProcs
<1>5. None \notin Proc
  BY ConfigAccepted
<1> HIDE DEF new
<1>6. CASE p = me'[a].fresh
  BY <1>3, <1>4, <1>5, <1>6 DEF new
<1>7. CASE p # me'[a].fresh
  <2>1. os'[p] = Stopped(P)[p]
    BY <1>3, <1>4, <1>7
  <2>2. os'[p].server # "dead"
    BY DEF Alive
  <2> QED
    BY <1>1, <1>2, <1>7, <2>1, <2>2 DEF Alive
<1> QED
  BY <1>6, <1>7

LEMMA SummaryShrinks ==
  ASSUME Typed, NEW a \in Actor, Summary(a)
  PROVE  Shrinks \/ \E m \in Model : Starts(a, m)
<1>1. CASE UNCHANGED os
  BY <1>1 DEF Shrinks, Alive
<1>2. CASE Kills(a) \/ Quells(a)
  <2>1. \E P : os' = Stopped(P)
    BY <1>2 DEF Kills, Quells
  <2> QED
    BY <2>1, KilledShrinks
<1>3. CASE \/ Quiet(a) \/ Enters(a) \/ Empties(a) \/ Registers(a) \/ Publishes(a) \/ Frees(a)
           \/ Evicts(a) \/ Suspends(a) \/ Evicted(a) \/ Slept(a) \/ Restarted(a)
           \/ \E m \in Model : Skips(a, m)
  BY <1>1, <1>3 DEF Quiet, Enters, Empties, Registers, Publishes, Frees, Evicts, Suspends, Evicted,
                    Slept, Suspending, Restarted, Skips
<1> QED
  BY <1>2, <1>3 DEF Summary

LEMMA NextForeground ==
  ASSUME Detaching = {}, Typed, EquippedInv, Foreground, [Next]_vars
  PROVE  Foreground'
<1>1. CASE Shrinks
  BY <1>1 DEF Shrinks, Foreground, Alive
<1>2. ASSUME NEW a \in Actor, NEW m \in Model, Starts(a, m)  PROVE Foreground'
  <2> SUFFICES ASSUME NEW p \in Proc, Alive(p)'
               PROVE  os'[p].wrapper = "alive" /\ os'[p].model \in Model
    BY DEF Foreground
  <2>1. \/ Alive(p) /\ os'[p] = os[p]
        \/ os'[p] = [model |-> m, server |-> "loading", wrapper |-> "alive"]
    BY <1>2, StartsAlive
  <2> QED
    BY <2>1 DEF Foreground
<1> QED
  BY <1>1, <1>2, NextSummary, SummaryShrinks DEF Still

LEMMA InitForeground ==
  ASSUME Init
  PROVE  Foreground /\ Owned /\ Stilled
BY DEF Init, ProcInit, NoProc, Foreground, Owned, Stilled, Live, Alive

(* Who works alone is the only one who may start or kill. *)
LEMMA SoleOwner ==
  ASSUME Base, Owned, ~overlapped, Up, NEW a \in Actor, me[a].pc \in Section, NEW p \in Live
  PROVE  OwnedBySlot(p) \/ StartedBy(me[a], p) \/ KilledBy(me[a], p)
<1>1. OwnedBySlot(p) \/ \E b \in Actor : StartedBy(me[b], p) \/ KilledBy(me[b], p)
  BY DEF Owned
<1>2. ASSUME NEW b \in Actor, StartedBy(me[b], p) \/ KilledBy(me[b], p)  PROVE b = a
  <2>1. me[b].pc \in Section
    BY <1>2 DEF StartedBy, KilledBy, Section
  <2> QED
    BY <2>1, SectionDef DEF Base, SlotInv, Serial
<1> QED
  BY <1>1, <1>2

(* A step of a section keeps every process owned: it loses no command of a slot, *)
(* or kills the command it loses.                                                *)
LEMMA OwnedStep ==
  ASSUME Base, Owned, NEW a \in Actor, me[a].pc \in Section, UNCHANGED overlapped, Up,
         ~overlapped =>
           \A p \in Proc :
             Alive(p)' =>
               \/ slot'[os'[p].model].cmd = p
               \/ me'[a].pc = "register" /\ me'[a].fresh = p /\ me'[a].cur = os'[p].model
               \/ me'[a].pc = "kill" /\ \E v \in me'[a].victims : v.model = os'[p].model /\ v.cmd = p
  PROVE  Owned'
BY DEF Owned, OwnedBySlot, StartedBy, KilledBy, Live

(* What is alive after stopAll's kills is the command of a slot that was kept. *)
LEMMA KillsSpares ==
  ASSUME Base, Foreground, Owned, ~overlapped, NEW a \in Actor, Kills(a), NEW p \in Proc, Alive(p)'
  PROVE  p \in Live /\ os'[p] = os[p] /\ OwnedBySlot(p)
<1> DEFINE l == me[a]
<1>1. PICK P : P = UNION {KillTargets(v.model, v) : v \in l.victims}
  OBVIOUS
<1>2. os' = Stopped(P) /\ slot' = slot /\ l.pc = "kill" /\ l.pc \in Section /\ Up
  BY <1>1 DEF Kills, Works, Section
<1>3. Alive(p) /\ os'[p] = os[p] /\ p \notin P
  BY <1>2, KilledShrinks DEF Shrinks, Base
<1>4. os[p].wrapper = "alive" /\ (OwnedBySlot(p) \/ StartedBy(l, p) \/ KilledBy(l, p))
  BY <1>2, <1>3, SoleOwner DEF Foreground, Live
<1>5. ~KilledBy(l, p)
  <2> SUFFICES ASSUME NEW v \in l.victims, v.cmd = p  PROVE FALSE
    BY DEF KilledBy
  <2>1. p \in KillTargets(v.model, v)
    BY <1>4 DEF KillTargets, WrapperAlive
  <2> QED
    BY <1>1, <1>3, <2>1
<1> QED
  BY <1>2, <1>3, <1>4, <1>5 DEF StartedBy, Live

LEMMA SwitchOwned ==
  ASSUME Base, Foreground, Owned, NEW a \in Actor,
         Empties(a) \/ Kills(a) \/ (\E m \in Model : Skips(a, m)) \/ Publishes(a)
  PROVE  Owned'
<1> DEFINE l == me[a]
<1>1. Typed /\ l \in Goroutine /\ Equipped(l) /\ slot \in [Model -> Slot]
  BY DEF Base, Typed, TypeOK, ProcTypeOK, EquippedInv
<1>2. l.pc \in Section /\ UNCHANGED overlapped /\ Up
  BY DEF Empties, Kills, Skips, Publishes, Works
<1>3. SUFFICES ASSUME ~overlapped, NEW p \in Proc, Alive(p)'
               PROVE  \/ slot'[os'[p].model].cmd = p
                      \/ me'[a].pc = "kill" /\ \E v \in me'[a].victims : v.model = os'[p].model /\ v.cmd = p
  BY <1>2, OwnedStep
<1>4. Alive(p) => (OwnedBySlot(p) \/ StartedBy(l, p) \/ KilledBy(l, p))
                  /\ os[p].wrapper = "alive" /\ os[p].model \in Model
  BY <1>2, <1>3, SoleOwner DEF Foreground, Live
<1>5. CASE Empties(a)
  <2> DEFINE gone == {m \in Model : slot[m].present /\ ~Survives(m)}
             n == os[p].model
  <2>1. /\ slot' = [m \in Model |-> IF m \in gone THEN NoSlot ELSE slot[m]]
        /\ me'[a].victims = {[model |-> m, cmd |-> slot[m].cmd, spid |-> slot[m].spid] : m \in gone}
        /\ me'[a].pc = "kill" /\ l.pc = "stop" /\ os' = os
    BY <1>5 DEF Empties, Works
  <2>2. n \in Model /\ slot[n].cmd = p
    BY <1>3, <1>4, <2>1 DEF OwnedBySlot, StartedBy, KilledBy, Alive
  <2>3. CASE n \in gone
    <3>1. [model |-> n, cmd |-> slot[n].cmd, spid |-> slot[n].spid] \in me'[a].victims
      BY <2>1, <2>3
    <3> QED
      BY <2>1, <2>2, <3>1
  <2>4. CASE n \notin gone
    BY <2>1, <2>2, <2>4
  <2> QED
    BY <2>3, <2>4
<1>6. CASE Kills(a)
  BY <1>3, <1>6, KillsSpares DEF OwnedBySlot, Kills
<1>7. CASE (\E m \in Model : Skips(a, m)) \/ Publishes(a)
  <2>1. os' = os /\ slot' = slot /\ l.pc = "launch"
    BY <1>7 DEF Skips, Publishes, Works
  <2> QED
    BY <1>3, <1>4, <2>1 DEF OwnedBySlot, StartedBy, KilledBy, Alive
<1> QED
  BY <1>5, <1>6, <1>7

LEMMA LoadOwned ==
  ASSUME Base, Foreground, Owned, NEW a \in Actor,
         Frees(a) \/ Evicts(a) \/ (\E m \in Model : Starts(a, m)) \/ Registers(a)
  PROVE  Owned'
<1> DEFINE l == me[a]
<1>1. Typed /\ l \in Goroutine /\ WellFormed(l) /\ Equipped(l) /\ slot \in [Model -> Slot]
  BY DEF Base, Typed, TypeOK, ProcTypeOK, EquippedInv, Goroutine
<1>2. l.pc \in Section /\ UNCHANGED overlapped /\ Up
  BY DEF Frees, Evicts, Starts, Registers, Works
<1>3. SUFFICES ASSUME ~overlapped, NEW p \in Proc, Alive(p)'
               PROVE  \/ slot'[os'[p].model].cmd = p
                      \/ me'[a].pc = "register" /\ me'[a].fresh = p /\ me'[a].cur = os'[p].model
  BY <1>2, OwnedStep
<1>4. Alive(p) => (OwnedBySlot(p) \/ StartedBy(l, p) \/ KilledBy(l, p)) /\ os[p].model \in Model
  BY <1>2, <1>3, SoleOwner DEF Foreground, Live
<1>5. CASE Frees(a) \/ Evicts(a)
  <2>1. os' = os /\ slot' = slot /\ l.pc = "acquire"
    BY <1>5 DEF Frees, Evicts, Works
  <2> QED
    BY <1>3, <1>4, <2>1 DEF OwnedBySlot, StartedBy, KilledBy, Alive
<1>6. ASSUME NEW m \in Model, Starts(a, m)
      PROVE  \/ slot'[os'[p].model].cmd = p
             \/ me'[a].pc = "register" /\ me'[a].fresh = p /\ me'[a].cur = os'[p].model
  <2>1. slot' = slot /\ l.pc \in {"launch", "spawn"} /\ me'[a].pc = "register" /\ me'[a].cur = m
    BY <1>6 DEF Starts, Works, Launchable
  <2>2. \/ Alive(p) /\ os'[p] = os[p]
        \/ me'[a].fresh = p /\ os'[p] = [model |-> m, server |-> "loading", wrapper |-> "alive"]
    BY <1>1, <1>3, <1>6, StartsAlive
  <2> QED
    BY <1>4, <2>1, <2>2 DEF OwnedBySlot, StartedBy, KilledBy
<1>7. CASE Registers(a)
  <2> DEFINE m == l.cur
             new == [NoSlot EXCEPT !.present = TRUE, !.cmd = l.fresh]
  <2>1. os' = os /\ slot' = [slot EXCEPT ![m] = new] /\ l.pc = "register" /\ m \in Model
    BY <1>1, <1>7 DEF Registers, Works, WellFormed
  <2>2. new.cmd = l.fresh
    BY DEF NoSlot
  <2> HIDE DEF new
  <2>3. slot'[m].cmd = l.fresh /\ \A n \in Model \ {m} : slot'[n] = slot[n]
    BY <1>1, <2>1, <2>2
  <2>4. slot[m].cmd = None
    BY <1>3, <2>1 DEF Base, SlotInv, Placed
  <2>5. Alive(p) /\ p # None
    BY <1>3, <2>1, ConfigAccepted DEF Alive
  <2> QED
    BY <1>4, <2>1, <2>3, <2>4, <2>5 DEF OwnedBySlot, StartedBy, KilledBy
<1> QED
  BY <1>5, <1>6, <1>7

LEMMA EvictionOwned ==
  ASSUME Base, Foreground, Owned, Stilled, NEW a \in Actor,
         Suspends(a) \/ Quells(a) \/ Evicted(a) \/ Slept(a) \/ Restarted(a)
  PROVE  Owned'
<1> DEFINE l == me[a]
           m == l.cur
<1>1. Typed /\ l \in Goroutine /\ WellFormed(l) /\ Equipped(l) /\ slot \in [Model -> Slot]
  BY DEF Base, Typed, TypeOK, ProcTypeOK, EquippedInv, Goroutine
<1>2. l.pc \in Section /\ UNCHANGED overlapped /\ Up
  BY DEF Suspends, Quells, Evicted, Slept, Restarted, Works, Departs
<1>3. SUFFICES ASSUME ~overlapped, NEW p \in Proc, Alive(p)'
               PROVE  slot'[os'[p].model].cmd = p
  BY <1>2, OwnedStep
<1>4. Alive(p) => (OwnedBySlot(p) \/ StartedBy(l, p) \/ KilledBy(l, p))
                  /\ os[p].wrapper = "alive" /\ os[p].model \in Model
  BY <1>2, <1>3, SoleOwner DEF Foreground, Live
<1>5. l.lost = {} /\ p # None
  BY <1>2, <1>3, ConfigAccepted DEF Base, SlotInv, Clean, Section, Relocks
<1>6. CASE Suspends(a)
  <2>1. os' = os /\ l.pc = "suspend" /\ m \in Model
    BY <1>1, <1>6 DEF Suspends, Works, Equipped
  <2>2. \A n \in Model : slot'[n].cmd = slot[n].cmd
    BY <1>1, <1>6, <2>1, SuspendsKeeps
  <2> QED
    BY <1>3, <1>4, <2>1, <2>2 DEF OwnedBySlot, StartedBy, KilledBy, Alive
<1>7. CASE Evicted(a) \/ Slept(a)
  <2>1. Suspending(a) /\ l.pc = "suspended" /\ m \in Model
    BY <1>1, <1>7 DEF Evicted, Slept, Works, Departs, Equipped
  <2>2. Alive(p) /\ os'[p] = os[p]
    BY <1>3, <2>1 DEF Suspending, Alive
  <2>3. os[p].model # m
    BY <1>2, <1>3, <2>1, <2>2 DEF Stilled, Live
  <2>4. OwnedBySlot(p) /\ os[p].model \in Model
    BY <1>4, <2>1, <2>2 DEF StartedBy, KilledBy
  <2> QED
    BY <1>1, <2>1, <2>2, <2>3, <2>4, SuspendingKeeps DEF OwnedBySlot
<1>9. CASE Quells(a)
  <2>1. l.pc = "stopslot" /\ m \in Model
    BY <1>1, <1>9 DEF Quells, Works, Equipped
  <2>2. Shrinks
    <3>1. \E P : os' = Stopped(P)
      BY <1>9 DEF Quells
    <3> QED
      BY <1>1, <3>1, KilledShrinks
  <2>3. Alive(p) /\ os'[p].model = os[p].model
    BY <1>3, <2>2 DEF Shrinks
  <2>4. \A n \in Model : slot'[n].cmd = slot[n].cmd
    BY <1>1, <1>9, <2>1, QuellsKeeps
  <2> QED
    BY <1>4, <2>1, <2>3, <2>4 DEF OwnedBySlot, StartedBy, KilledBy
<1>8. CASE Restarted(a)
  <2>1. os' = os /\ l.pc = "register" /\ l.kind = "restart" /\ l.want = m /\ m \in Model
    BY <1>1, <1>8 DEF Restarted, Departs, WellFormed, Equipped, Singles
  <2>2. slot[m].cmd = None
    BY <1>3, <2>1 DEF Base, SlotInv, Placed
  <2>3. \A n \in Model :
          /\ n # m \/ l.fresh = None => slot'[n] = slot[n]
          /\ n = m => slot'[n].cmd = IF l.fresh = None THEN slot[n].cmd ELSE l.fresh
    BY <1>1, <1>5, <1>8, <2>1, RestartedKeeps
  <2> QED
    BY <1>3, <1>4, <1>5, <2>1, <2>2, <2>3 DEF OwnedBySlot, StartedBy, KilledBy, Alive
<1> QED
  BY <1>6, <1>7, <1>8, <1>9

LEMMA QuietOwned ==
  ASSUME Base, Foreground, Owned, NEW a \in Actor, Quiet(a) \/ Enters(a)
  PROVE  Owned'
<1>1. /\ os' = os /\ (~overlapped' => ~overlapped) /\ Up
      /\ \A m \in Model : slot'[m].cmd = slot[m].cmd
      /\ me[a].pc \notin {"kill", "register"}
      /\ \A b \in Actor \ {a} : SameJob(me'[b], me[b])
  <2>1. CASE Quiet(a)
    BY <2>1 DEF Quiet, SlotsKept, Rest
  <2>2. CASE Enters(a)
    <3>1. ~overlapped' => ~overlapped
      BY <2>2 DEF Enters, Entered, Base, Typed, TypeOK
    <3> QED
      BY <2>2, <3>1 DEF Enters, Rest, Section
  <2> QED
    BY <2>1, <2>2
<1> SUFFICES ASSUME ~overlapped, NEW p \in Live
             PROVE  \/ slot'[os[p].model].cmd = p
                    \/ \E b \in Actor :
                         \/ me'[b].pc = "register" /\ me'[b].fresh = p /\ me'[b].cur = os[p].model
                         \/ /\ me'[b].pc = "kill"
                            /\ \E v \in me'[b].victims : v.model = os[p].model /\ v.cmd = p
  BY <1>1 DEF Owned, OwnedBySlot, StartedBy, KilledBy, Live, Alive
<1>2. os[p].model \in Model
  BY DEF Foreground, Live
<1>3. OwnedBySlot(p) \/ \E b \in Actor : StartedBy(me[b], p) \/ KilledBy(me[b], p)
  BY <1>1 DEF Owned
<1>4. ASSUME NEW b \in Actor, StartedBy(me[b], p) \/ KilledBy(me[b], p)
      PROVE  \/ me'[b].pc = "register" /\ me'[b].fresh = p /\ me'[b].cur = os[p].model
             \/ /\ me'[b].pc = "kill"
                /\ \E v \in me'[b].victims : v.model = os[p].model /\ v.cmd = p
  <2>1. b # a
    BY <1>1, <1>4 DEF StartedBy, KilledBy
  <2> QED
    BY <1>1, <1>4, <2>1 DEF StartedBy, KilledBy, SameJob
<1> QED
  BY <1>1, <1>2, <1>3, <1>4 DEF OwnedBySlot

LEMMA StillOwned ==
  ASSUME Base, Foreground, Owned, Still
  PROVE  Owned'
<1> SUFFICES ASSUME ~overlapped, Up', Up, NEW p \in Proc, Alive(p)'
             PROVE  \/ slot'[os'[p].model].cmd = p
                    \/ \E b \in Actor :
                         \/ me[b].pc = "register" /\ me[b].fresh = p /\ me[b].cur = os'[p].model
                         \/ /\ me[b].pc = "kill"
                            /\ \E v \in me[b].victims : v.model = os'[p].model /\ v.cmd = p
  BY DEF Still, Owned, OwnedBySlot, StartedBy, KilledBy, Live
<1>1. Alive(p) /\ os'[p].model = os[p].model
  BY DEF Still, Shrinks
<1>2. os[p].wrapper = "alive" /\ os[p].model \in Model
  BY <1>1 DEF Foreground
<1>3. OwnedBySlot(p) \/ \E b \in Actor : StartedBy(me[b], p) \/ KilledBy(me[b], p)
  BY <1>1 DEF Owned, Live
<1>4. ASSUME OwnedBySlot(p)  PROVE slot'[os[p].model].cmd = p
  <2>1. slot'[os[p].model].cmd = slot[os[p].model].cmd
        \/ os[slot[os[p].model].cmd].wrapper = "exited"
    BY <1>2 DEF Still
  <2> QED
    BY <1>2, <1>4, <2>1 DEF OwnedBySlot
<1> QED
  BY <1>1, <1>3, <1>4 DEF StartedBy, KilledBy

LEMMA NextOwned ==
  ASSUME Base, Foreground, Owned, Stilled, [Next]_vars
  PROVE  Owned'
<1>1. Still \/ \E a \in Actor : Summary(a)
  BY NextSummary DEF Base
<1> QED
  BY <1>1, StillOwned, QuietOwned, SwitchOwned, LoadOwned, EvictionOwned DEF Summary

(* What stopSlotProcess leaves: the command of the slot is killed, and no other *)
(* process of the model was alive.                                              *)
LEMMA QuellsStill ==
  ASSUME Base, Foreground, Owned, ~overlapped, NEW a \in Actor, Quells(a), NEW p \in Proc, Alive(p)'
  PROVE  os'[p].model # me[a].cur
<1> DEFINE l == me[a]
           m == l.cur
<1>1. /\ l.pc = "stopslot" /\ l.pc \in Section /\ Up /\ m \in Model /\ l.lost = {}
  BY DEF Quells, Works, Section, Base, EquippedInv, Equipped, SlotInv, Clean, Relocks
<1>2. PICK P : P = KillTargets(m, slot[m])
  OBVIOUS
<1>3. os' = Stopped(P)
  BY <1>1, <1>2 DEF Quells
<1>4. Alive(p) /\ os'[p] = os[p] /\ p \notin P
  BY <1>3, KilledShrinks DEF Shrinks, Base
<1>5. OwnedBySlot(p) /\ os[p].wrapper = "alive"
  BY <1>1, <1>4, SoleOwner DEF StartedBy, KilledBy, Foreground, Live
<1> QED
  BY <1>2, <1>4, <1>5 DEF OwnedBySlot, KillTargets, WrapperAlive

LEMMA NextStilled ==
  ASSUME Base, Foreground, Owned, Stilled, [Next]_vars
  PROVE  Stilled'
<1>1. CASE Still
  BY <1>1 DEF Still, Shrinks, Stilled, Live
<1>2. ASSUME NEW a \in Actor, Quiet(a) \/ Enters(a)  PROVE Stilled'
  <2>1. /\ os' = os /\ (~overlapped' => ~overlapped) /\ Up /\ me'[a].pc # "suspended"
        /\ \A b \in Actor \ {a} : me'[b].pc = me[b].pc /\ me'[b].cur = me[b].cur
    <3>1. CASE Quiet(a)
      BY <3>1 DEF Quiet, Rest, SameJob, Working
    <3>2. CASE Enters(a)
      <4>1. ~overlapped' => ~overlapped
        BY <3>2 DEF Enters, Entered, Base, Typed, TypeOK
      <4> QED
        BY <3>2, <4>1 DEF Enters, Rest, SameJob
    <3> QED
      BY <1>2, <3>1, <3>2
  <2> QED
    BY <2>1 DEF Stilled, Live, Alive
<1>3. ASSUME NEW a \in Actor, Summary(a), me[a].pc \in Section, Rest(a), UNCHANGED overlapped,
             ~overlapped
      PROVE  Stilled'
  <2>1. \A b \in Actor \ {a} : me'[b].pc # "suspended"
    BY <1>3, Alone DEF Base, Section
  <2>2. CASE me'[a].pc # "suspended"
    BY <2>1, <2>2 DEF Stilled
  <2>3. CASE Quells(a)
    <3>1. me'[a].cur = me[a].cur
      BY <2>3 DEF Quells
    <3> QED
      BY <1>3, <2>1, <2>3, <3>1, QuellsStill DEF Stilled, Live
  <2>4. Quells(a) \/ me'[a].pc # "suspended"
    BY <1>3 DEF Summary, Quiet, Enters, Empties, Kills, Registers, Publishes, Frees, Evicts, Suspends,
                Evicted, Slept, Restarted, Skips, Starts, Works, Departs, Working, Section
  <2> QED
    BY <2>2, <2>3, <2>4
<1>4. ASSUME overlapped, UNCHANGED overlapped  PROVE Stilled'
  BY <1>4 DEF Stilled
<1> QED
  BY <1>1, <1>2, <1>3, <1>4, NextSummary, SectionStep DEF Base

(* The invariants about processes rest on: no command detaches its server. *)
Upkeep == Base /\ Foreground /\ Owned /\ Stilled

LEMMA InitUpkeep == Init => Upkeep
BY InitBase, InitForeground DEF Upkeep

LEMMA NextUpkeep ==
  ASSUME Detaching = {}, Upkeep, [Next]_vars
  PROVE  Upkeep'
BY NextBase, NextForeground, NextOwned, NextStilled DEF Upkeep, Base

(* No process is orphaned: as long as no two switches have overlapped, each one *)
(* alive is the command of its model's slot, or has just been started, or is     *)
(* about to be killed.  Commands that detach their server are left out: between  *)
(* the exit of the launcher and the adoption of a server that does not listen    *)
(* yet, reap finds nothing (process.go:141-169).                                *)
THEOREM NoOrphans ==
  ASSUME Detaching = {}
  PROVE  Spec => []NothingOrphaned
<1>1. Upkeep => NothingOrphaned
  <2> SUFFICES ASSUME Upkeep, ~overlapped, Up, NEW p \in Live  PROVE p \in Known
    BY DEF NothingOrphaned
  <2>1. CASE OwnedBySlot(p)
    <3>1. os[p].model \in Model
      BY DEF Upkeep, Foreground, Live
    <3> QED
      BY <2>1, <3>1 DEF OwnedBySlot, Known
  <2>2. ASSUME NEW a \in Actor, StartedBy(me[a], p)  PROVE p \in Known
    BY <2>2 DEF StartedBy, Known
  <2>3. ASSUME NEW a \in Actor, KilledBy(me[a], p)  PROVE p \in Known
    <3>1. PICK v \in me[a].victims : v.cmd = p
      BY <2>3 DEF KilledBy
    <3>2. v \in UNION {me[b].victims : b \in Actor} /\ p \in {v.cmd, v.spid}
      BY <3>1
    <3> QED
      BY <3>2 DEF Known
  <2> QED
    BY <2>1, <2>2, <2>3 DEF Upkeep, Owned
<1>2. Upkeep /\ [Next]_vars => Upkeep'
  BY NextUpkeep
<1> QED
  BY <1>1, <1>2, InitUpkeep, PTL DEF Spec

-----------------------------------------------------------------------------
(* One process of a model, one coding process *)

LEMMA OverlapStays ==
  ASSUME Base, [Next]_vars, ~overlapped'
  PROVE  ~overlapped
<1>1. ASSUME NEW a \in Actor, Enters(a)  PROVE ~overlapped
  BY <1>1 DEF Enters, Entered, Base, Typed, TypeOK
<1>2. ASSUME NEW a \in Actor, Quiet(a)  PROVE ~overlapped
  BY <1>2 DEF Quiet
<1>3. Still => ~overlapped
  BY DEF Still
<1>4. Still \/ \E a \in Actor : Summary(a)
  BY NextSummary DEF Base
<1> QED
  BY <1>1, <1>2, <1>3, <1>4, SectionStep

LEMMA OneProcess ==
  ASSUME Upkeep, ~overlapped, Up, NEW p \in Live, NEW q \in Live, os[p].model = os[q].model
  PROVE  p = q
<1> DEFINE m == os[p].model
<1>1. m \in Model /\ p # None /\ q # None
  BY ConfigAccepted DEF Upkeep, Foreground, Live, Alive
<1>2. /\ OwnedBySlot(p) \/ \E a \in Actor : StartedBy(me[a], p) \/ KilledBy(me[a], p)
      /\ OwnedBySlot(q) \/ \E a \in Actor : StartedBy(me[a], q) \/ KilledBy(me[a], q)
  BY DEF Upkeep, Owned
<1>3. SlotInv /\ EquippedInv
  BY DEF Upkeep, Base
<1>4. ASSUME NEW a \in Actor, NEW r \in Live, os[r].model = m, StartedBy(me[a], r) \/ KilledBy(me[a], r)
      PROVE  InSection(a) /\ slot[m].cmd = None
  <2>1. InSection(a)
    BY <1>4, SectionDef DEF StartedBy, KilledBy, Section
  <2>2. StartedBy(me[a], r) => slot[m].cmd = None
    BY <1>3, <1>4 DEF StartedBy, SlotInv, Placed
  <2>3. KilledBy(me[a], r) => slot[m].cmd = None
    BY <1>1, <1>3, <1>4 DEF KilledBy, SlotInv, Sound, Placed, EquippedInv, Equipped
  <2> QED
    BY <1>4, <2>1, <2>2, <2>3
<1>5. CASE OwnedBySlot(p) \/ OwnedBySlot(q)
  BY <1>1, <1>2, <1>4, <1>5 DEF OwnedBySlot
<1>6. ASSUME NEW a \in Actor, NEW b \in Actor, StartedBy(me[a], p) \/ KilledBy(me[a], p),
             StartedBy(me[b], q) \/ KilledBy(me[b], q)
      PROVE  p = q
  <2>1. a = b
    BY <1>3, <1>4, <1>6 DEF SlotInv, Serial
  <2>2. KilledBy(me[a], p) /\ KilledBy(me[a], q) => p = q
    BY <1>3 DEF KilledBy, EquippedInv, Equipped
  <2> QED
    BY <1>6, <2>1, <2>2 DEF StartedBy, KilledBy
<1> QED
  BY <1>2, <1>5, <1>6

(* A coding process is started by a switch to its model, after stopAll. *)
LEMMA StartsCoding ==
  ASSUME Upkeep, ~overlapped, NEW a \in Actor, NEW m \in Coding, Starts(a, m)
  PROVE  /\ me[a].kind = "coding" /\ me[a].want = m /\ me[a].pc = "launch"
         /\ \A p \in Live : os[p].model \notin Coding
<1> DEFINE l == me[a]
<1>1. /\ l \in Goroutine /\ WellFormed(l) /\ Equipped(l) /\ m \in Model /\ m \notin Background
      /\ Autostart \subseteq Background
  BY ConfigAccepted DEF Upkeep, Base, Typed, EquippedInv, Goroutine, Background
<1>2. Launchable(a, m) /\ Up /\ l.pc \in Section
  BY DEF Starts, Works
<1>3. l.pc # "spawn"
  <2> SUFFICES ASSUME l.pc = "spawn"  PROVE FALSE
    OBVIOUS
  <2>1. m = l.want /\ l.kind \in {"ondemand", "restart"}
    BY <1>1, <1>2 DEF Launchable, WellFormed
  <2> QED
    BY <1>1, <2>1 DEF Equipped, Section
<1>4. l.pc = "launch" /\ m \in l.todo /\ ~Running(m) /\ l.kind \in Switches
  BY <1>1, <1>2, <1>3 DEF Launchable, WellFormed, Switches
<1>5. l.kind = "coding" /\ l.want = m
  BY <1>1, <1>4 DEF Equipped, Targets, Switches
<1>6. Sound /\ Placed(l, slot)
  BY DEF Upkeep, Base, SlotInv
<1>7. ASSUME NEW p \in Live, os[p].model \in Coding  PROVE FALSE
  <2> DEFINE n == os[p].model
  <2>1. n \in Model /\ p # None /\ slot[n].cmd = p
    <3>1. OwnedBySlot(p) \/ StartedBy(l, p) \/ KilledBy(l, p)
      BY <1>2, SoleOwner DEF Upkeep
    <3> QED
      BY <1>4, <1>7, <3>1, ConfigAccepted DEF OwnedBySlot, StartedBy, KilledBy, Live, Alive
  <2>2. slot[n].present /\ ~Survives(n)
    BY <1>6, <1>7, <2>1 DEF Sound, Survives, Background
  <2>3. n \in Targets(l)
    BY <1>4, <1>6, <2>1, <2>2 DEF Placed
  <2>4. n = m
    BY <1>5, <2>3 DEF Targets
  <2> QED
    BY <1>4, <2>1, <2>2, <2>4 DEF Running
<1> QED
  BY <1>4, <1>5, <1>7

LEMMA NextOneCoding ==
  ASSUME Upkeep, OneCodingProcess, [Next]_vars
  PROVE  OneCodingProcess'
<1> SUFFICES ASSUME ~overlapped', NEW p \in Proc, NEW q \in Proc, Alive(p)', Alive(q)',
                    os'[p].model \in Coding, os'[q].model \in Coding
             PROVE  p = q
  BY DEF OneCodingProcess, Live
<1>1. ~overlapped
  BY OverlapStays DEF Upkeep
<1>2. CASE Shrinks
  BY <1>1, <1>2 DEF Shrinks, OneCodingProcess, Live
<1>3. ASSUME NEW a \in Actor, NEW m \in Model, Starts(a, m)  PROVE p = q
  <2>1. ASSUME NEW r \in Proc, Alive(r)'
        PROVE  (r \in Live /\ os'[r] = os[r]) \/ (me'[a].fresh = r /\ os'[r].model = m)
    <3>1. \/ Alive(r) /\ os'[r] = os[r]
          \/ me'[a].fresh = r /\ os'[r] = [model |-> m, server |-> "loading", wrapper |-> "alive"]
      BY <1>3, <2>1, StartsAlive DEF Upkeep, Base
    <3> QED
      BY <3>1 DEF Live
  <2>2. CASE m \in Coding
    BY <1>1, <1>3, <2>1, <2>2, StartsCoding
  <2>3. CASE m \notin Coding
    BY <1>1, <2>1, <2>3 DEF OneCodingProcess
  <2> QED
    BY <2>2, <2>3
<1>4. Shrinks \/ \E a \in Actor, m \in Model : Starts(a, m)
  BY NextSummary, SummaryShrinks DEF Upkeep, Base, Still
<1> QED
  BY <1>2, <1>3, <1>4

(* At most one coding process is alive: a coding switch starts its process only *)
(* when stopAll has killed every other one, of any gpu (switching.go:32-75).     *)
THEOREM OneCoding ==
  ASSUME Detaching = {}
  PROVE  Spec => []OneCodingProcess
<1>1. Init => Upkeep /\ OneCodingProcess
  BY InitUpkeep DEF Init, ProcInit, NoProc, OneCodingProcess, Live, Alive
<1>2. Upkeep /\ OneCodingProcess /\ [Next]_vars => (Upkeep /\ OneCodingProcess)'
  BY NextUpkeep, NextOneCoding
<1> QED
  BY <1>1, <1>2, PTL DEF Spec

-----------------------------------------------------------------------------
(* The coding model is registered, if nothing clears it behind a switch *)

(* reconcile clears the coding model outside switchMu only when there is no group *)
(* to switch back to.                                                             *)
NoClear == me[Looper].pc # "clearcoding" /\ (~LeaseOn => me[Looper].pc = "done")

Starting(l) == l.pc \in {"launch", "register"} /\ l.kind = "coding"

(* Between stopAll and the publication of a switch no coding model is registered, *)
(* and a live coding process is about to be killed or is the one being started.    *)
RegisteredInv ==
  ~overlapped =>
    /\ \A a \in Actor :
         me[a].kind \in Switches /\ me[a].pc \in {"kill", "launch", "register"} => codingModel = None
    /\ \A p \in Live :
         os[p].model \in Coding =>
           \/ codingModel = os[p].model
           \/ \E a \in Actor : \/ me[a].pc = "kill"
                               \/ Starting(me[a]) /\ me[a].want = os[p].model

LEMMA NextNoClear ==
  ASSUME Base, NoClear, Autostart # {} \/ ~LeaseOn, [Next]_vars
  PROVE  NoClear'
<1>0. Looper \in Actor
  BY DEF Actor
<1>1. CASE Still
  BY <1>1 DEF Still, NoClear
<1>2. ASSUME NEW a \in Actor, Quiet(a)  PROVE NoClear'
  <2>1. CASE a = Looper
    <3>1. ~LeaseOn => me'[Looper].pc = "done"
      BY <1>2, <2>1 DEF Quiet, NoClear
    <3>2. me'[Looper].pc # "clearcoding"
      BY <1>2, <2>1, <3>1 DEF Quiet
    <3> QED
      BY <3>1, <3>2 DEF NoClear
  <2>2. CASE a # Looper
    BY <1>0, <1>2, <2>2 DEF Quiet, Rest, SameJob, NoClear
  <2> QED
    BY <2>1, <2>2
<1>3. ASSUME NEW a \in Actor, Enters(a)  PROVE NoClear'
  <2>1. CASE a = Looper
    BY <1>3, <2>1 DEF Enters, NoClear
  <2>2. CASE a # Looper
    BY <1>0, <1>3, <2>2 DEF Enters, Rest, SameJob, NoClear
  <2> QED
    BY <2>1, <2>2
<1>4. ASSUME NEW a \in Actor, me[a].pc \in Section, Rest(a), me'[a].pc # "clearcoding"
      PROVE  NoClear'
  <2>1. CASE a = Looper
    BY <1>4, <2>1 DEF NoClear, Section
  <2>2. CASE a # Looper
    BY <1>0, <1>4, <2>2 DEF Rest, SameJob, NoClear
  <2> QED
    BY <2>1, <2>2
<1> QED
  BY <1>1, <1>2, <1>3, <1>4, NextSummary, SectionStep DEF Base

(* What a step of a section has to establish, while nobody else is in one. *)
LEMMA RegisteredStep ==
  ASSUME Upkeep, NEW a \in Actor, me[a].pc \in Section, Rest(a), UNCHANGED overlapped,
         ~overlapped =>
           /\ me'[a].kind \in Switches /\ me'[a].pc \in {"kill", "launch", "register"}
                => codingModel' = None
           /\ \A p \in Proc :
                Alive(p)' /\ os'[p].model \in Coding =>
                  \/ codingModel' = os'[p].model
                  \/ me'[a].pc = "kill"
                  \/ Starting(me'[a]) /\ me'[a].want = os'[p].model
  PROVE  RegisteredInv'
<1> SUFFICES ASSUME ~overlapped
             PROVE  \A b \in Actor :
                      me'[b].kind \in Switches /\ me'[b].pc \in {"kill", "launch", "register"}
                        => codingModel' = None
  BY DEF RegisteredInv, Live, Starting
<1>1. \A b \in Actor \ {a} : me'[b].pc \notin Section
  BY Alone DEF Upkeep, Base
<1> QED
  BY <1>1 DEF Section

(* The witness for a process that lived before a step of a section is a itself. *)
LEMMA RegisteredBefore ==
  ASSUME Upkeep, RegisteredInv, ~overlapped, NEW a \in Actor, me[a].pc \in Section, NEW p \in Live,
         os[p].model \in Coding
  PROVE  \/ codingModel = os[p].model
         \/ me[a].pc = "kill"
         \/ Starting(me[a]) /\ me[a].want = os[p].model
<1>1. ASSUME NEW b \in Actor, me[b].pc = "kill" \/ Starting(me[b])  PROVE b = a
  <2>1. me[b].pc \in Section
    BY <1>1 DEF Starting, Section
  <2> QED
    BY <2>1, SectionDef DEF Upkeep, Base, SlotInv, Serial
<1> QED
  BY <1>1 DEF RegisteredInv

LEMMA SwitchRegistered ==
  ASSUME Upkeep, RegisteredInv, NEW a \in Actor,
         Empties(a) \/ (\E m \in Model : Skips(a, m)) \/ Publishes(a) \/ Registers(a)
  PROVE  RegisteredInv'
<1> DEFINE l == me[a]
<1>1. l.pc \in Section /\ Rest(a) /\ UNCHANGED overlapped /\ WellFormed(l) /\ os' = os
      /\ me'[a].kind = l.kind /\ me'[a].want = l.want
  BY DEF Empties, Skips, Publishes, Registers, Works, Upkeep, Base, Typed, Goroutine
<1>2. SUFFICES ASSUME ~overlapped
      PROVE  /\ me'[a].kind \in Switches /\ me'[a].pc \in {"kill", "launch", "register"}
                  => codingModel' = None
             /\ \A p \in Live :
                  os[p].model \in Coding =>
                    \/ codingModel' = os[p].model
                    \/ me'[a].pc = "kill"
                    \/ Starting(me'[a]) /\ me'[a].want = os[p].model
  BY <1>1, RegisteredStep DEF Live, Alive
<1>3. \A p \in Live :
        os[p].model \in Coding =>
          codingModel = os[p].model \/ l.pc = "kill" \/ (Starting(l) /\ l.want = os[p].model)
  BY <1>1, <1>2, RegisteredBefore
<1>4. l.kind \in Switches /\ l.pc \in {"kill", "launch", "register"} => codingModel = None
  BY <1>2 DEF RegisteredInv
<1>5. CASE Empties(a)
  BY <1>5 DEF Empties, Works
<1>6. CASE (\E m \in Model : Skips(a, m)) \/ Registers(a)
  <2>1. codingModel' = codingModel /\ l.pc \in {"launch", "register"}
        /\ (l.kind \in Switches => me'[a].pc = "launch") /\ (l.pc = "launch" => l.kind \in Switches)
        /\ (l.kind \notin Switches => me'[a].pc = "publish")
    BY <1>1, <1>6 DEF Skips, Registers, Works, WellFormed, Switches
  <2> QED
    BY <1>1, <1>3, <1>4, <2>1 DEF Starting, Switches
<1>7. CASE Publishes(a)
  <2>1. /\ l.pc = "launch" /\ me'[a].pc = "wait" /\ l.kind \in Switches
        /\ codingModel' = IF l.kind = "coding" THEN l.want ELSE None
    BY <1>1, <1>7 DEF Publishes, Works, WellFormed, Switches
  <2>2. codingModel = None /\ None \notin Coding
    BY <1>4, <2>1, ConfigAccepted
  <2> QED
    BY <1>3, <2>1, <2>2 DEF Starting
<1> QED
  BY <1>5, <1>6, <1>7

LEMMA KillsRegistered ==
  ASSUME Upkeep, RegisteredInv, NEW a \in Actor, Kills(a)
  PROVE  RegisteredInv'
<1>1. /\ me[a].pc = "kill" /\ me'[a].pc = "launch" /\ {"kill", "launch"} \subseteq Section /\ Rest(a)
      /\ UNCHANGED <<overlapped, slot, codingModel>> /\ me'[a].kind = me[a].kind
  BY DEF Kills, Works
<1>2. ASSUME ~overlapped, NEW p \in Proc, Alive(p)', os'[p].model \in Coding  PROVE FALSE
  <2> DEFINE n == os[p].model
  <2>1. slot[n].cmd = p /\ n \in Coding /\ n \in Model /\ p # None
    BY <1>2, KillsSpares, ConfigAccepted DEF Upkeep, OwnedBySlot
  <2>2. slot[n].present => Survives(n)
    BY <1>1, <1>2, <2>1 DEF Upkeep, Base, SlotInv, Placed
  <2> QED
    BY <1>2, <2>1, <2>2 DEF Upkeep, Base, SlotInv, Sound, Survives, Background
<1>3. ~overlapped /\ me'[a].kind \in Switches => codingModel' = None
  BY <1>1 DEF RegisteredInv
<1> QED
  BY <1>1, <1>2, <1>3, RegisteredStep

LEMMA StartsRegistered ==
  ASSUME Upkeep, RegisteredInv, NEW a \in Actor, NEW m \in Model, Starts(a, m)
  PROVE  RegisteredInv'
<1> DEFINE l == me[a]
<1>1. /\ l.pc \in {"launch", "spawn"} /\ me'[a].pc = "register" /\ l.pc \in Section /\ Rest(a)
      /\ me'[a].kind = l.kind /\ me'[a].want = l.want /\ WellFormed(l)
      /\ UNCHANGED <<overlapped, codingModel>>
  BY DEF Starts, Works, Launchable, Upkeep, Base, Typed, Goroutine
<1>2. ~overlapped /\ me'[a].kind \in Switches => codingModel' = None
  BY <1>1 DEF RegisteredInv, WellFormed, Switches
<1>3. ASSUME ~overlapped, NEW p \in Proc, Alive(p)', os'[p].model \in Coding
      PROVE  codingModel' = os'[p].model \/ (Starting(me'[a]) /\ me'[a].want = os'[p].model)
  <2>1. CASE Alive(p) /\ os'[p] = os[p]
    <3>1. codingModel = os[p].model \/ (Starting(l) /\ l.want = os[p].model)
      BY <1>1, <1>3, <2>1, RegisteredBefore DEF Live
    <3> QED
      BY <1>1, <2>1, <3>1 DEF Starting
  <2>2. CASE os'[p] = [model |-> m, server |-> "loading", wrapper |-> "alive"]
    BY <1>1, <1>3, <2>2, StartsCoding DEF Starting
  <2> QED
    BY <1>3, <2>1, <2>2, StartsAlive DEF Upkeep, Base
<1> QED
  BY <1>1, <1>2, <1>3, RegisteredStep

LEMMA EvictionRegistered ==
  ASSUME Upkeep, RegisteredInv, NEW a \in Actor,
         Frees(a) \/ Evicts(a) \/ Suspends(a) \/ Quells(a) \/ Evicted(a) \/ Slept(a) \/ Restarted(a)
  PROVE  RegisteredInv'
<1>1. /\ me[a].pc \in {"acquire", "suspend", "stopslot", "suspended", "register"} /\ me[a].pc \in Section
      /\ me'[a].pc \notin {"kill", "launch", "register"} /\ Rest(a)
      /\ me[a].pc = "register" => me[a].kind = "restart"
      /\ UNCHANGED <<overlapped, codingModel>>
  BY DEF Frees, Evicts, Suspends, Quells, Evicted, Slept, Restarted, Works, Departs, Suspending, Section
<1>2. Shrinks
  <2>1. os' = os \/ \E P : os' = Stopped(P)
    BY DEF Frees, Evicts, Suspends, Quells, Evicted, Slept, Restarted, Suspending
  <2>2. os' = os => Shrinks
    BY DEF Shrinks, Alive
  <2> QED
    BY <2>1, <2>2, KilledShrinks DEF Upkeep, Base
<1>3. ASSUME ~overlapped, NEW p \in Proc, Alive(p)', os'[p].model \in Coding
      PROVE  codingModel' = os'[p].model
  <2>1. p \in Live /\ os'[p].model = os[p].model
    BY <1>2, <1>3 DEF Shrinks, Live
  <2> QED
    BY <1>1, <1>3, <2>1, RegisteredBefore DEF Starting
<1> QED
  BY <1>1, <1>3, RegisteredStep

LEMMA QuietRegistered ==
  ASSUME Upkeep, NoClear, RegisteredInv, NEW a \in Actor, Quiet(a) \/ Enters(a)
  PROVE  RegisteredInv'
<1>1. /\ os' = os /\ (~overlapped' => ~overlapped) /\ codingModel' = codingModel
      /\ me[a].pc \notin {"kill", "launch", "register"}
      /\ me'[a].pc \notin {"kill", "launch", "register"}
      /\ \A b \in Actor \ {a} : SameJob(me'[b], me[b])
  <2>1. CASE Quiet(a)
    BY <2>1 DEF Quiet, Rest, NoClear, Working
  <2>2. CASE Enters(a)
    <3>1. ~overlapped' => ~overlapped
      BY <2>2 DEF Enters, Entered, Upkeep, Base, Typed, TypeOK
    <3> QED
      BY <2>2, <3>1 DEF Enters, Rest, Section
  <2> QED
    BY <2>1, <2>2
<1> SUFFICES ASSUME ~overlapped
             PROVE  /\ \A b \in Actor :
                         me'[b].kind \in Switches /\ me'[b].pc \in {"kill", "launch", "register"}
                           => codingModel = None
                    /\ \A p \in Live :
                         os[p].model \in Coding =>
                           \/ codingModel = os[p].model
                           \/ \E b \in Actor : \/ me'[b].pc = "kill"
                                               \/ Starting(me'[b]) /\ me'[b].want = os[p].model
  BY <1>1 DEF RegisteredInv, Live, Alive, Starting
<1>2. ASSUME NEW b \in Actor, me'[b].kind \in Switches, me'[b].pc \in {"kill", "launch", "register"}
      PROVE  codingModel = None
  BY <1>1, <1>2 DEF RegisteredInv, SameJob
<1>3. ASSUME NEW b \in Actor, NEW p \in Live,
             me[b].pc = "kill" \/ (Starting(me[b]) /\ me[b].want = os[p].model)
      PROVE  me'[b].pc = "kill" \/ (Starting(me'[b]) /\ me'[b].want = os[p].model)
  <2>1. b # a
    BY <1>1, <1>3 DEF Starting
  <2> QED
    BY <1>1, <1>3, <2>1 DEF Starting, SameJob
<1> QED
  BY <1>2, <1>3 DEF RegisteredInv

LEMMA NextRegistered ==
  ASSUME Upkeep, NoClear, RegisteredInv, [Next]_vars
  PROVE  RegisteredInv'
<1>1. CASE Still
  BY <1>1 DEF Still, Shrinks, RegisteredInv, Live, Starting
<1>2. Still \/ \E a \in Actor : Summary(a)
  BY NextSummary DEF Upkeep, Base
<1> QED
  BY <1>1, <1>2, QuietRegistered, SwitchRegistered, KillsRegistered, StartsRegistered,
     EvictionRegistered DEF Summary

(* Outside a switch a live coding process is the registered coding model, so that *)
(* its lease ends it and LocalNodes offers it (scheduler.go:81).  The hypothesis   *)
(* leaves out what reconcile does without a group and with a lease: it decides to   *)
(* forget a coding model that died and clears codingModel later, when another       *)
(* switch may have registered a new one (reconcile.go:88-104).                        *)
THEOREM CodingIsRegistered ==
  ASSUME Detaching = {}, Autostart # {} \/ ~LeaseOn
  PROVE  Spec => []CodingRegistered
<1> DEFINE Inv == Upkeep /\ NoClear /\ RegisteredInv
<1>1. Init => Inv
  <2> SUFFICES ASSUME Init  PROVE NoClear /\ RegisteredInv
    BY InitUpkeep
  <2>1. NoClear
    BY ActorAssumption DEF Init, At, NoClear, Actor
  <2>2. \A a \in Actor : me[a].pc \in {"start", "idle", "done"}
    BY DEF Init, At
  <2>3. Live = {}
    BY DEF Init, ProcInit, NoProc, Live, Alive
  <2> QED
    BY <2>1, <2>2, <2>3 DEF RegisteredInv
<1>2. Inv /\ [Next]_vars => Inv'
  <2> SUFFICES ASSUME Inv, [Next]_vars  PROVE Inv'
    OBVIOUS
  <2> QED
    BY NextUpkeep, NextNoClear, NextRegistered DEF Upkeep
<1>3. Inv => CodingRegistered
  BY SectionDef DEF RegisteredInv, CodingRegistered, Starting, Section
<1> HIDE DEF Inv
<1> QED
  BY <1>1, <1>2, <1>3, PTL DEF Spec

-----------------------------------------------------------------------------
(* What the recorded process ids stand for *)

(* Of the processes o: a recorded command p of model m that lives is a process of m, *)
(* and a recorded server of m that lives was found on m's port.                       *)
CmdOf(o, p, m) == p \in Proc /\ o[p].server # "dead" => o[p].model = m
ServerOf(o, p, m) ==
  p \in Proc /\ o[p].server # "dead" => o[p].model \in Model /\ Port[o[p].model] = Port[m]

RefInv ==
  /\ \A p \in Proc : os[p].server # "dead" => os[p].model \in Model
  /\ \A m \in Model : CmdOf(os, slot[m].cmd, m) /\ ServerOf(os, slot[m].spid, m)
  /\ \A a \in Actor :
       /\ me[a].pc = "register" => CmdOf(os, me[a].fresh, me[a].cur)
       /\ \A v \in me[a].victims : CmdOf(os, v.cmd, v.model) /\ ServerOf(os, v.spid, v.model)

(* A step that starts nothing keeps it if what is recorded was recorded or found. *)
LEMMA ShrinksRefs ==
  ASSUME RefInv, Shrinks,
         \A m \in Model :
           /\ \/ slot'[m].cmd \in {None, slot[m].cmd}
              \/ \E a \in Actor : me[a].pc = "register" /\ me[a].cur = m /\ slot'[m].cmd = me[a].fresh
           /\ slot'[m].spid \in {None, slot[m].spid} \cup Listeners(m),
         \A a \in Actor :
           /\ me'[a].pc = "register" =>
                me[a].pc = "register" /\ me'[a].fresh = me[a].fresh /\ me'[a].cur = me[a].cur
           /\ \A v \in me'[a].victims :
                \/ v \in me[a].victims
                \/ v.model \in Model /\ v.cmd = slot[v.model].cmd /\ v.spid = slot[v.model].spid
  PROVE  RefInv'
<1>1. /\ \A p, m : CmdOf(os, p, m) => CmdOf(os', p, m)
      /\ \A p, m : ServerOf(os, p, m) => ServerOf(os', p, m)
      /\ \A p \in Proc : os'[p].server # "dead" => os'[p].model \in Model
  BY DEF CmdOf, ServerOf, Shrinks, Alive, RefInv
<1>2. /\ \A m : CmdOf(os, None, m) /\ ServerOf(os, None, m)
      /\ \A m : \A p \in Listeners(m) : ServerOf(os, p, m)
  BY ConfigAccepted DEF CmdOf, ServerOf, Listeners, RefInv
<1>3. \A m \in Model : CmdOf(os, slot'[m].cmd, m) /\ ServerOf(os, slot'[m].spid, m)
  BY <1>2 DEF RefInv
<1>4. \A a \in Actor :
       /\ me'[a].pc = "register" => CmdOf(os, me'[a].fresh, me'[a].cur)
       /\ \A v \in me'[a].victims : CmdOf(os, v.cmd, v.model) /\ ServerOf(os, v.spid, v.model)
  BY DEF RefInv
<1> QED
  BY <1>1, <1>3, <1>4 DEF RefInv

LEMMA RestRefs ==
  ASSUME NEW a \in Actor, Rest(a), NEW b \in Actor \ {a}
  PROVE  /\ me'[b].pc = "register" =>
              me[b].pc = "register" /\ me'[b].fresh = me[b].fresh /\ me'[b].cur = me[b].cur
         /\ me'[b].victims = me[b].victims
BY DEF Rest, SameJob

LEMMA SwitchRefs ==
  ASSUME Typed, EquippedInv, EquippedInv', RefInv, NEW a \in Actor,
         \/ Quiet(a) \/ Enters(a) \/ Empties(a) \/ Kills(a) \/ (\E m \in Model : Skips(a, m))
         \/ Publishes(a) \/ Registers(a) \/ Frees(a) \/ Evicts(a)
  PROVE  RefInv'
<1>1. Shrinks
  <2>1. os' = os \/ \E P : os' = Stopped(P)
    BY DEF Quiet, Enters, Empties, Kills, Skips, Publishes, Registers, Frees, Evicts
  <2>2. os' = os => Shrinks
    BY DEF Shrinks, Alive
  <2> QED
    BY <2>1, <2>2, KilledShrinks
<1>2. Rest(a) /\ me'[a].pc # "register"
  BY DEF Quiet, Enters, Empties, Kills, Skips, Publishes, Registers, Frees, Evicts, Works, Working
<1>3. \A v \in me'[a].victims :
         v.model \in Model /\ v.cmd = slot[v.model].cmd /\ v.spid = slot[v.model].spid
  <2>1. CASE Empties(a)
    BY <2>1 DEF Empties
  <2>2. CASE ~Empties(a)
    <3>1. me'[a].pc # "kill"
      BY <2>2 DEF Quiet, Enters, Kills, Skips, Publishes, Registers, Frees, Evicts, Works, Working
    <3>2. Equipped(me'[a])
      BY DEF EquippedInv, Equipped
    <3> QED
      BY <3>1, <3>2 DEF Equipped
  <2> QED
    BY <2>1, <2>2
<1>4. ASSUME NEW m \in Model
      PROVE  /\ \/ slot'[m].cmd \in {None, slot[m].cmd}
                \/ \E b \in Actor : me[b].pc = "register" /\ me[b].cur = m /\ slot'[m].cmd = me[b].fresh
             /\ slot'[m].spid \in {None, slot[m].spid} \cup Listeners(m)
  <2>1. NoSlot.cmd = None /\ NoSlot.spid = None
    BY DEF NoSlot
  <2>2. CASE slot' = slot
    BY <2>2
  <2>3. CASE Quiet(a)
    BY <2>3 DEF Quiet, SlotsKept, Adopts
  <2>4. CASE Empties(a)
    <3>1. slot'[m] \in {slot[m], NoSlot}
      BY <2>4 DEF Empties
    <3> QED
      BY <2>1, <3>1
  <2>5. CASE Registers(a)
    <3> DEFINE new == [NoSlot EXCEPT !.present = TRUE, !.cmd = me[a].fresh]
    <3>1. new.cmd = me[a].fresh /\ new.spid = None
      BY DEF NoSlot
    <3>2. slot' = [slot EXCEPT ![me[a].cur] = new] /\ me[a].pc = "register" /\ slot \in [Model -> Slot]
      BY <2>5 DEF Registers, Works, Typed, TypeOK, ProcTypeOK
    <3> HIDE DEF new
    <3>3. CASE m = me[a].cur
      BY <3>1, <3>2, <3>3
    <3>4. CASE m # me[a].cur
      BY <3>2, <3>4
    <3> QED
      BY <3>3, <3>4
  <2> QED
    BY <2>2, <2>3, <2>4, <2>5 DEF Enters, Kills, Skips, Publishes, Frees, Evicts
<1>5. \A b \in Actor :
        /\ me'[b].pc = "register" =>
             me[b].pc = "register" /\ me'[b].fresh = me[b].fresh /\ me'[b].cur = me[b].cur
        /\ \A v \in me'[b].victims :
             \/ v \in me[b].victims
             \/ v.model \in Model /\ v.cmd = slot[v.model].cmd /\ v.spid = slot[v.model].spid
  BY <1>2, <1>3, RestRefs
<1> QED
  BY <1>1, <1>4, <1>5, ShrinksRefs

LEMMA EvictionRefs ==
  ASSUME Typed, EquippedInv, EquippedInv', RefInv, NEW a \in Actor,
         Suspends(a) \/ Quells(a) \/ Evicted(a) \/ Slept(a) \/ Restarted(a)
  PROVE  RefInv'
<1>1. Shrinks
  <2>1. os' = os \/ \E P : os' = Stopped(P)
    BY DEF Suspends, Quells, Evicted, Slept, Restarted, Suspending
  <2>2. os' = os => Shrinks
    BY DEF Shrinks, Alive
  <2> QED
    BY <2>1, <2>2, KilledShrinks
<1>2. Rest(a) /\ me'[a].pc \notin {"register", "kill"}
  BY DEF Suspends, Quells, Evicted, Slept, Restarted, Works, Departs, Section
<1>3. me'[a].victims = {}
  <2>1. Equipped(me'[a])
    BY DEF EquippedInv, Equipped
  <2> QED
    BY <1>2, <2>1 DEF Equipped
<1>4. ASSUME NEW m \in Model
      PROVE  /\ \/ slot'[m].cmd \in {None, slot[m].cmd}
                \/ \E b \in Actor : me[b].pc = "register" /\ me[b].cur = m /\ slot'[m].cmd = me[b].fresh
             /\ slot'[m].spid \in {None, slot[m].spid} \cup Listeners(m)
  <2>1. CASE Suspends(a)
    <3>1. me[a].cur \in Model
      BY <2>1 DEF Suspends, Works, EquippedInv, Equipped
    <3> QED
      BY <2>1, <3>1, SuspendsKeeps
  <2>2. CASE Evicted(a) \/ Slept(a)
    <3>1. me[a].cur \in Model /\ Suspending(a)
      BY <2>2 DEF Evicted, Slept, Works, Departs, EquippedInv, Equipped
    <3> QED
      BY <3>1, SuspendingKeeps
  <2>3. CASE Restarted(a)
    <3>1. me[a].pc = "register" /\ me[a].kind = "restart"
      BY <2>3 DEF Restarted, Departs
    <3>2. me[a].want \in Model /\ me[a].cur = me[a].want
      BY <3>1 DEF EquippedInv, Equipped, Singles
    <3>3. CASE m # me[a].want \/ me[a].fresh = None \/ m \in me[a].lost
      BY <2>3, <3>2, <3>3, RestartedKeeps DEF Restarted
    <3>4. CASE m = me[a].want /\ m \notin me[a].lost
      BY <2>3, <3>1, <3>2, <3>4, RestartedKeeps
    <3> QED
      BY <3>3, <3>4
  <2>4. CASE Quells(a)
    <3>1. me[a].cur \in Model
      BY <2>4 DEF Quells, Works, EquippedInv, Equipped
    <3> QED
      BY <2>4, <3>1, QuellsKeeps
  <2> QED
    BY <2>1, <2>2, <2>3, <2>4
<1>5. \A b \in Actor :
        /\ me'[b].pc = "register" =>
             me[b].pc = "register" /\ me'[b].fresh = me[b].fresh /\ me'[b].cur = me[b].cur
        /\ \A v \in me'[b].victims : v \in me[b].victims
  BY <1>2, <1>3, RestRefs
<1> QED
  BY <1>1, <1>4, <1>5, ShrinksRefs

(* A new process gets an id that nobody has recorded. *)
LEMMA StartsRefs ==
  ASSUME Typed, EquippedInv, EquippedInv', RefInv, NEW a \in Actor, NEW m \in Model, Starts(a, m)
  PROVE  RefInv'
<1> DEFINE f == me'[a].fresh
<1>1. /\ slot' = slot /\ Rest(a) /\ me'[a].pc = "register" /\ me'[a].cur = m
      /\ f = None \/ f \in Spawnable
  BY DEF Starts, Works
<1>2. None \notin Proc
  BY ConfigAccepted
<1>3. ASSUME NEW p \in Proc, os'[p].server # "dead"
      PROVE  \/ os[p].server # "dead" /\ os'[p] = os[p] /\ p # f
             \/ f = p /\ os'[p].model = m
  <2>1. \/ Alive(p) /\ os'[p] = os[p] /\ p # f
        \/ f = p /\ os'[p] = [model |-> m, server |-> "loading", wrapper |-> "alive"]
    BY <1>3, StartsAlive DEF Alive
  <2> QED
    BY <2>1 DEF Alive
<1>4. /\ \A p, n : p # f /\ CmdOf(os, p, n) => CmdOf(os', p, n)
      /\ \A p, n : p # f /\ ServerOf(os, p, n) => ServerOf(os', p, n)
      /\ \A p \in Proc : os'[p].server # "dead" => os'[p].model \in Model
      /\ CmdOf(os', f, m)
      /\ \A n : CmdOf(os', None, n) /\ ServerOf(os', None, n)
  BY <1>2, <1>3 DEF CmdOf, ServerOf, RefInv
<1>5. f # None =>
        /\ \A n \in Model : slot[n].cmd # f /\ slot[n].spid # f
        /\ \A b \in Actor : me[b].fresh # f /\ \A v \in me[b].victims : v.cmd # f /\ v.spid # f
  BY <1>1 DEF Spawnable, FreeProcs, Fresh, Unreferenced
<1>6. \A n \in Model : CmdOf(os', slot'[n].cmd, n) /\ ServerOf(os', slot'[n].spid, n)
  BY <1>1, <1>4, <1>5 DEF RefInv
<1>7. ASSUME NEW b \in Actor
      PROVE  /\ me'[b].pc = "register" => CmdOf(os', me'[b].fresh, me'[b].cur)
             /\ \A v \in me'[b].victims : CmdOf(os', v.cmd, v.model) /\ ServerOf(os', v.spid, v.model)
  <2>1. CASE b = a
    <3>1. Equipped(me'[a])
      BY DEF EquippedInv, Equipped
    <3>2. me'[a].victims = {}
      BY <1>1, <3>1 DEF Equipped
    <3> QED
      BY <1>1, <1>4, <2>1, <3>2
  <2>2. CASE b # a
    BY <1>1, <1>4, <1>5, <2>2, RestRefs DEF RefInv
  <2> QED
    BY <2>1, <2>2
<1> QED
  BY <1>4, <1>6, <1>7 DEF RefInv

LEMMA NextRefs ==
  ASSUME Typed, EquippedInv, RefInv, [Next]_vars
  PROVE  RefInv'
<1>1. CASE Still
  <2>1. \A m \in Model :
           /\ slot'[m].cmd \in {None, slot[m].cmd}
           /\ slot'[m].spid \in {None, slot[m].spid} \cup Listeners(m)
    BY <1>1 DEF Still, Adopts
  <2> QED
    BY <1>1, <2>1, ShrinksRefs DEF Still
<1>2. (Still \/ \E a \in Actor : Summary(a)) /\ EquippedInv'
  BY NextSummary
<1> QED
  BY <1>1, <1>2, SwitchRefs, EvictionRefs, StartsRefs DEF Summary

LEMMA InitRefs ==
  ASSUME Init
  PROVE  RefInv
<1>1. \A p \in Proc : os[p].server = "dead"
  BY DEF Init, ProcInit, NoProc
<1>2. \A a \in Actor : me[a].pc # "register" /\ me[a].victims = {}
  BY DEF Init, At
<1> QED
  BY <1>1, <1>2 DEF RefInv, CmdOf, ServerOf

-----------------------------------------------------------------------------
(* A gpu holds one model *)

(* No model with a gpu shares its port: a server found on a port is its own.  With *)
(* a shared port reconcile may adopt another model's server for a slot; acquireGPU, *)
(* which stops at the first owner it finds, may then put that slot to sleep and     *)
(* leave the next owner running.                                                    *)
GpuPortsApart == \A m, n \in Model : Port[m] = Port[n] /\ Gpu[m] # NoGpu => m = n

SameGpu(m, n) == m # n /\ Gpu[m] = Gpu[n] /\ Gpu[m] # NoGpu

(* What a load has made sure of: nothing else runs on the gpu of the model it wants, *)
(* but for the one it is putting to sleep.                                           *)
Cleared(l, s) ==
  /\ l.kind \in Singles /\ l.pc \in {"suspend", "stopslot", "suspended"} =>
       SameGpu(l.cur, l.want) /\ \A o \in Model : SameGpu(o, l.want) /\ o # l.cur => s[o].cmd = None
  /\ l.kind \in Singles /\ l.pc \in {"spawn", "register"} =>
       \A o \in Model : SameGpu(o, l.want) => s[o].cmd = None

GpuInv ==
  ~overlapped =>
    /\ \A m, n \in Model : SameGpu(m, n) => slot[m].cmd = None \/ slot[n].cmd = None
    /\ \A a \in Actor : Cleared(me[a], slot)

LEMMA Uncleared ==
  ASSUME NEW l, l.pc \notin Working \/ l.kind \notin Singles \/ l.pc = "acquire"
  PROVE  \A s : Cleared(l, s)
BY DEF Cleared, Working

(* A step in a section: the others have nothing to keep. *)
LEMMA GpuStep ==
  ASSUME Base, NEW a \in Actor, me[a].pc \in Section, Rest(a), UNCHANGED overlapped,
         ~overlapped =>
           /\ \A m, n \in Model : SameGpu(m, n) => slot'[m].cmd = None \/ slot'[n].cmd = None
           /\ Cleared(me'[a], slot')
  PROVE  GpuInv'
<1> SUFFICES ASSUME ~overlapped
             PROVE  \A b \in Actor \ {a} : Cleared(me'[b], slot')
  BY DEF GpuInv, Cleared
<1>1. \A b \in Actor \ {a} : me'[b].pc \notin Section
  BY Alone DEF Base
<1>2. \A b \in Actor \ {a} : me'[b].pc \notin Working
  BY <1>1 DEF Section, Working
<1> QED
  BY <1>2, Uncleared

(* While a switch loads m, no other slot of its gpu has a command: what stopAll *)
(* keeps is resident and has its gpu alone, and so has a member of the group.    *)
LEMMA LoadsAlone ==
  ASSUME Base, ~overlapped, NEW a \in Actor, me[a].kind \in Switches,
         me[a].pc \in {"launch", "register"}, NEW m \in Targets(me[a]), NEW n \in Model, SameGpu(n, m)
  PROVE  slot[n].cmd = None
<1> DEFINE l == me[a]
<1>1. CASE ~slot[n].present
  BY <1>1 DEF Base, SlotInv, Sound
<1>2. CASE slot[n].present
  <2>1. Survives(n) \/ n \in Targets(l)
    BY <1>2 DEF Base, SlotInv, Placed
  <2>2. m \in Model /\ GpusApart
    <3>1. me[a] \in Goroutine /\ Equipped(me[a])
      BY DEF Base, Typed, EquippedInv
    <3>2. Targets(me[a]) \subseteq Model
      BY <3>1, JobModels
    <3> QED
      BY <3>2, ConfigAccepted
  <2>3. n \notin Resident
    BY <2>2 DEF GpusApart, SameGpu
  <2>4. ~Survives(n)
    BY <2>3 DEF Survives, SameGpu
  <2>5. n \in Targets(l)
    BY <2>1, <2>4
  <2> QED
    BY <2>2, <2>5 DEF Targets, GpusApart, SameGpu
<1> QED
  BY <1>1, <1>2

(* A model on a gpu that runs has a command: an adopted server would be the *)
(* process of another slot.                                                 *)
LEMMA RunningHasCmd ==
  ASSUME GpuPortsApart, Upkeep, RefInv, ~overlapped, Up, NEW a \in Actor, me[a].pc = "acquire",
         NEW o \in Model, Gpu[o] # NoGpu, Running(o)
  PROVE  slot[o].cmd # None
<1> SUFFICES ASSUME slot[o].cmd = None  PROVE FALSE
  OBVIOUS
<1> DEFINE p == slot[o].spid
<1>1. p \in Live /\ p # None
  BY ConfigAccepted DEF Running, Live, Alive
<1>2. os[p].model \in Model /\ Port[os[p].model] = Port[o]
  BY <1>1 DEF RefInv, ServerOf, Live, Alive
<1>3. os[p].model = o
  BY <1>2 DEF GpuPortsApart
<1>4. OwnedBySlot(p) \/ StartedBy(me[a], p) \/ KilledBy(me[a], p)
  BY <1>1, SoleOwner DEF Upkeep, Section
<1> QED
  BY <1>1, <1>3, <1>4 DEF OwnedBySlot, StartedBy, KilledBy

LEMMA SwitchGpu ==
  ASSUME Upkeep, GpuInv, NEW a \in Actor,
         Empties(a) \/ Kills(a) \/ (\E m \in Model : Skips(a, m)) \/ Publishes(a)
  PROVE  GpuInv'
<1>1. /\ me[a].pc \in Section /\ Rest(a) /\ UNCHANGED overlapped
      /\ me'[a].pc \in {"kill", "launch", "wait"}
  BY DEF Empties, Kills, Skips, Publishes, Works
<1>2. \A s : Cleared(me'[a], s)
  BY <1>1 DEF Cleared
<1>3. \A m \in Model : slot'[m].cmd \in {slot[m].cmd, None}
  <2>1. CASE slot' = slot
    BY <2>1
  <2>2. CASE Empties(a)
    BY <2>2 DEF Empties, NoSlot
  <2> QED
    BY <2>1, <2>2 DEF Kills, Skips, Publishes
<1> QED
  BY <1>1, <1>2, <1>3, GpuStep DEF GpuInv, Upkeep

LEMMA LoadGpu ==
  ASSUME GpuPortsApart, Upkeep, RefInv, GpuInv, NEW a \in Actor,
         Frees(a) \/ Evicts(a) \/ (\E m \in Model : Starts(a, m))
  PROVE  GpuInv'
<1> DEFINE l == me[a]
<1>1. /\ l.pc \in Section /\ Rest(a) /\ UNCHANGED overlapped /\ slot' = slot /\ Up
      /\ me'[a].kind = l.kind /\ me'[a].want = l.want /\ WellFormed(l) /\ Equipped(l)
      /\ l \in Goroutine
  BY DEF Frees, Evicts, Starts, Works, Upkeep, Base, Typed, Goroutine, EquippedInv
<1>2. SUFFICES ASSUME ~overlapped  PROVE Cleared(me'[a], slot)
  BY <1>1, GpuStep DEF GpuInv, Upkeep
<1>3. Sound /\ Cleared(l, slot)
      /\ \A m, n \in Model : SameGpu(m, n) => slot[m].cmd = None \/ slot[n].cmd = None
  BY <1>2 DEF Upkeep, Base, SlotInv, GpuInv
<1>4. CASE Frees(a)
  <2>1. me'[a].pc = "spawn" /\ Owners(l.want) = {}
    BY <1>4 DEF Frees, Works
  <2>2. \A o \in Model : SameGpu(o, l.want) => slot[o].cmd = None
    BY <1>3, <2>1 DEF Owners, SameGpu, Running, Sound
  <2> QED
    BY <1>1, <2>1, <2>2 DEF Cleared
<1>5. CASE Evicts(a)
  <2> DEFINE o == me'[a].cur
  <2>1. me'[a].pc = "suspend" /\ l.pc = "acquire" /\ o \in Model /\ SameGpu(o, l.want) /\ Running(o)
    BY <1>5 DEF Evicts, Works, Owners, SameGpu
  <2>2. slot[o].cmd # None
    BY <1>1, <1>2, <2>1, RunningHasCmd DEF SameGpu
  <2>3. \A n \in Model : SameGpu(n, l.want) /\ n # o => slot[n].cmd = None
    BY <1>3, <2>1, <2>2 DEF SameGpu
  <2> QED
    BY <1>1, <2>1, <2>3 DEF Cleared
<1>6. ASSUME NEW m \in Model, Starts(a, m)  PROVE Cleared(me'[a], slot)
  <2>1. me'[a].pc = "register" /\ (l.pc = "spawn" \/ l.pc = "launch")
    BY <1>6 DEF Starts, Works, Launchable
  <2> QED
    BY <1>1, <1>3, <2>1 DEF Cleared, WellFormed, Singles
<1> QED
  BY <1>4, <1>5, <1>6

LEMMA RegistersGpu ==
  ASSUME Upkeep, GpuInv, NEW a \in Actor, Registers(a) \/ Restarted(a)
  PROVE  GpuInv'
<1> DEFINE l == me[a]
           m == l.cur
<1>1. /\ l.pc = "register" /\ l.pc \in Section /\ Rest(a) /\ UNCHANGED overlapped
      /\ WellFormed(l) /\ Equipped(l) /\ m \in Model /\ slot \in [Model -> Slot]
      /\ me'[a].pc \in {"publish", "launch"} \/ me'[a].pc \notin Section
  BY DEF Registers, Restarted, Works, Departs, Upkeep, Base, Typed, TypeOK, ProcTypeOK, Goroutine,
         EquippedInv, WellFormed, Section
<1>2. Cleared(me'[a], slot')
  BY <1>1 DEF Cleared, Section
<1>3. \A n \in Model \ {m} : slot'[n] = slot[n]
  <2>1. CASE Registers(a)
    BY <1>1, <2>1 DEF Registers
  <2>2. CASE Restarted(a)
    <3>1. l.want = m
      BY <1>1, <2>2 DEF Restarted, Equipped, Singles
    <3> QED
      BY <1>1, <2>2, <3>1, RestartedKeeps DEF Upkeep, Base
  <2> QED
    BY <2>1, <2>2
<1>4. ASSUME ~overlapped, NEW n \in Model, SameGpu(n, m)  PROVE slot[n].cmd = None
  <2>1. CASE l.kind \in Singles
    <3>1. l.want = m
      BY <1>1, <2>1 DEF Equipped
    <3> QED
      BY <1>1, <1>4, <2>1, <3>1 DEF GpuInv, Cleared
  <2>2. CASE l.kind \notin Singles
    <3>1. l.kind \in Switches
      BY <1>1, <2>2 DEF WellFormed, Singles, Switches
    <3>2. m \in Targets(l)
      BY <1>1, <3>1 DEF Equipped
    <3> QED
      BY <1>1, <1>4, <3>1, <3>2, LoadsAlone DEF Upkeep
  <2> QED
    BY <2>1, <2>2
<1>5. ~overlapped => \A j, k \in Model : SameGpu(j, k) => slot'[j].cmd = None \/ slot'[k].cmd = None
  BY <1>3, <1>4 DEF GpuInv, SameGpu
<1> QED
  BY <1>1, <1>2, <1>5, GpuStep DEF Upkeep

LEMMA EvictionGpu ==
  ASSUME Upkeep, GpuInv, NEW a \in Actor, Suspends(a) \/ Quells(a) \/ Evicted(a) \/ Slept(a)
  PROVE  GpuInv'
<1> DEFINE l == me[a]
           m == l.cur
<1>1. /\ l.pc \in Section /\ Rest(a) /\ UNCHANGED overlapped /\ Equipped(l) /\ Typed
      /\ l.pc \in {"suspend", "stopslot", "suspended"} /\ m \in Model
  BY DEF Suspends, Quells, Evicted, Slept, Works, Departs, Upkeep, Base, EquippedInv, Equipped
<1>2. \A n \in Model : slot'[n].cmd \in {slot[n].cmd, None}
  BY <1>1, SuspendsKeeps, QuellsKeeps, SuspendingKeeps DEF Evicted, Slept
<1>3. SUFFICES ASSUME ~overlapped  PROVE Cleared(me'[a], slot')
  BY <1>1, <1>2, GpuStep DEF GpuInv, Upkeep
<1>4. Cleared(l, slot) /\ l.lost = {}
  BY <1>1, <1>3 DEF GpuInv, Upkeep, Base, SlotInv, Clean, Relocks
<1>5. CASE Suspends(a) \/ Quells(a)
  <2>1. /\ me'[a].pc \in {"stopslot", "suspended"} /\ l.pc \in {"suspend", "stopslot"}
        /\ me'[a].kind = l.kind /\ me'[a].want = l.want /\ me'[a].cur = m
    BY <1>5 DEF Suspends, Quells, Works
  <2> QED
    BY <1>2, <1>4, <2>1 DEF Cleared
<1>6. CASE Evicted(a)
  <2>1. /\ me'[a].pc = "spawn" /\ l.pc = "suspended" /\ me'[a].kind = l.kind /\ me'[a].want = l.want
        /\ Suspending(a)
    BY <1>6 DEF Evicted, Works
  <2>2. slot'[m].cmd = None
    BY <1>1, <1>4, <2>1, SuspendingKeeps
  <2> QED
    BY <1>2, <1>4, <2>1, <2>2 DEF Cleared
<1>7. CASE Slept(a)
  BY <1>7 DEF Slept, Departs, Cleared, Section
<1> QED
  BY <1>5, <1>6, <1>7

LEMMA QuietGpu ==
  ASSUME Upkeep, GpuInv, NEW a \in Actor, Quiet(a) \/ Enters(a)
  PROVE  GpuInv'
<1>1. /\ ~overlapped' => ~overlapped
      /\ \A m \in Model : slot'[m].cmd = slot[m].cmd
      /\ Rest(a)
      /\ me'[a].pc \notin Working \/ me'[a].pc = "acquire" \/ me'[a].kind \notin Singles
  <2>1. CASE Quiet(a)
    BY <2>1 DEF Quiet, SlotsKept
  <2>2. CASE Enters(a)
    <3>1. ~overlapped' => ~overlapped
      BY <2>2 DEF Enters, Entered, Upkeep, Base, Typed, TypeOK
    <3> QED
      BY <2>2, <3>1 DEF Enters, Working, Singles
  <2> QED
    BY <2>1, <2>2
<1> SUFFICES ASSUME ~overlapped  PROVE \A b \in Actor : Cleared(me'[b], slot')
  BY <1>1 DEF GpuInv, Cleared
<1>2. ASSUME NEW b \in Actor \ {a}  PROVE Cleared(me'[b], slot')
  BY <1>1 DEF Rest, SameJob, GpuInv, Cleared
<1> QED
  BY <1>1, <1>2, Uncleared

LEMMA NextGpu ==
  ASSUME GpuPortsApart, Upkeep, RefInv, GpuInv, [Next]_vars
  PROVE  GpuInv'
<1>1. CASE Still
  <2>1. me' = me /\ overlapped' = overlapped /\ \A m \in Model : slot'[m].cmd \in {slot[m].cmd, None}
    BY <1>1 DEF Still
  <2>2. \A l : Cleared(l, slot) => Cleared(l, slot')
    BY <2>1 DEF Cleared
  <2> QED
    BY <2>1, <2>2 DEF GpuInv
<1>2. Still \/ \E a \in Actor : Summary(a)
  BY NextSummary DEF Upkeep, Base
<1> QED
  BY <1>1, <1>2, QuietGpu, SwitchGpu, LoadGpu, RegistersGpu, EvictionGpu DEF Summary

(* A process is started on a gpu on which nothing lives. *)
LEMMA StartsOnFree ==
  ASSUME Upkeep, GpuInv, ~overlapped, NEW a \in Actor, NEW m \in Model, Starts(a, m),
         NEW p \in Live
  PROVE  os[p].model # m /\ ~SameGpu(os[p].model, m)
<1> DEFINE l == me[a]
           n == os[p].model
<1>1. Launchable(a, m) /\ Up /\ l.pc \in Section /\ l.pc \in {"launch", "spawn"} /\ WellFormed(l)
      /\ Equipped(l)
  BY DEF Starts, Works, Launchable, Upkeep, Base, Typed, Goroutine, EquippedInv
<1>2. slot[n].cmd = p /\ n \in Model /\ p # None
  <2>1. OwnedBySlot(p) \/ StartedBy(l, p) \/ KilledBy(l, p)
    BY <1>1, SoleOwner DEF Upkeep
  <2> QED
    BY <1>1, <2>1, ConfigAccepted
    DEF OwnedBySlot, StartedBy, KilledBy, Live, Alive, Upkeep, Foreground
<1>3. CASE l.pc = "launch"
  <2>1. l.kind \in Switches /\ m \in l.todo /\ ~Running(m)
    BY <1>1, <1>3 DEF Launchable, WellFormed, Switches
  <2>2. m \in Targets(l) /\ slot[m].cmd = None
    BY <1>1, <1>3, <2>1 DEF Equipped, Upkeep, Base, SlotInv, Sound, Running
  <2> QED
    BY <1>2, <1>3, <2>1, <2>2, LoadsAlone DEF Upkeep
<1>4. CASE l.pc = "spawn"
  <2>1. l.want = m /\ l.kind \in Singles
    BY <1>1, <1>4 DEF Launchable, WellFormed, Singles
  <2>2. slot[m].cmd = None
    BY <1>4, <2>1 DEF Upkeep, Base, SlotInv, Placed, Working
  <2> QED
    BY <1>2, <1>4, <2>1, <2>2 DEF GpuInv, Cleared
<1> QED
  BY <1>1, <1>3, <1>4

LEMMA NextOnePerGpu ==
  ASSUME Upkeep, GpuInv, OneModelPerGpu, [Next]_vars
  PROVE  OneModelPerGpu'
<1> SUFFICES ASSUME ~overlapped', NEW p \in Proc, NEW q \in Proc, Alive(p)', Alive(q)', p # q
             PROVE  Gpu[os'[p].model] # Gpu[os'[q].model] \/ Gpu[os'[p].model] = NoGpu
  BY DEF OneModelPerGpu, Live
<1>1. ~overlapped
  BY OverlapStays DEF Upkeep
<1>2. CASE Shrinks
  BY <1>1, <1>2 DEF Shrinks, OneModelPerGpu, Live
<1>3. ASSUME NEW a \in Actor, NEW m \in Model, Starts(a, m)
      PROVE  Gpu[os'[p].model] # Gpu[os'[q].model] \/ Gpu[os'[p].model] = NoGpu
  <2>1. ASSUME NEW r \in Proc, Alive(r)'
        PROVE  \/ r \in Live /\ os'[r] = os[r] /\ os[r].model # m /\ ~SameGpu(os[r].model, m)
               \/ me'[a].fresh = r /\ os'[r].model = m
    <3>1. \/ Alive(r) /\ os'[r] = os[r]
          \/ me'[a].fresh = r /\ os'[r] = [model |-> m, server |-> "loading", wrapper |-> "alive"]
      BY <1>3, <2>1, StartsAlive DEF Upkeep, Base
    <3> QED
      BY <1>1, <1>3, <3>1, StartsOnFree DEF Live
  <2> QED
    BY <1>1, <2>1 DEF OneModelPerGpu, SameGpu
<1>4. Shrinks \/ \E a \in Actor, m \in Model : Starts(a, m)
  BY NextSummary, SummaryShrinks DEF Upkeep, Base, Still
<1> QED
  BY <1>2, <1>3, <1>4

(* A gpu never holds two model processes: a load starts its process when it found *)
(* no other model running on the gpu or has put the one it found to sleep, and a   *)
(* switch when stopAll has killed them (scheduler.go:411-455, switching.go:32-75). *)
THEOREM OnePerGpu ==
  ASSUME Detaching = {}, GpuPortsApart
  PROVE  Spec => []OneModelPerGpu
<1> DEFINE Inv == Upkeep /\ RefInv /\ GpuInv /\ OneModelPerGpu
<1>1. Init => Inv
  <2> SUFFICES ASSUME Init  PROVE GpuInv /\ OneModelPerGpu
    BY InitUpkeep, InitRefs
  <2>1. \A a \in Actor : me[a].pc \in {"start", "idle", "done"}
    BY DEF Init, At
  <2>2. Live = {} /\ \A m \in Model : slot[m].cmd = None
    BY DEF Init, ProcInit, NoProc, NoSlot, Live, Alive
  <2> QED
    BY <2>1, <2>2 DEF GpuInv, Cleared, OneModelPerGpu
<1>2. Inv /\ [Next]_vars => Inv'
  <2> SUFFICES ASSUME Inv, [Next]_vars  PROVE Inv'
    OBVIOUS
  <2>1. Upkeep' /\ RefInv'
    BY NextUpkeep, NextRefs DEF Upkeep, Base
  <2> QED
    BY <2>1, NextGpu, NextOnePerGpu
<1>3. Inv => OneModelPerGpu
  OBVIOUS
<1> HIDE DEF Inv
<1> QED
  BY <1>1, <1>2, <1>3, PTL DEF Spec

-----------------------------------------------------------------------------
(* Residents stay up *)

(* No other model has the port of a resident one.  For background models that is *)
(* checked (PortsApart); a coding model's port is compared with none of theirs.  *)
ResidentPortsApart == \A r \in Resident, m \in Model : Port[m] = Port[r] => m = r

OwnPort(n) == \A m \in Model : Port[m] = Port[n] => m = n

(* Stopping the slot of a model kills no process of one with a port of its own, but *)
(* its own.                                                                          *)
LEMMA OthersSpared ==
  ASSUME RefInv, NEW m \in Model, NEW sl, CmdOf(os, sl.cmd, m), ServerOf(os, sl.spid, m),
         NEW p \in KillTargets(m, sl), Alive(p), OwnPort(os[p].model)
  PROVE  os[p].model = m
<1>1. p \in Listeners(m) \/ p = sl.spid \/ p = sl.cmd
  BY DEF KillTargets
<1>2. p \in Listeners(m) => Port[os[p].model] = Port[m]
  BY DEF Listeners
<1>3. p = sl.spid => Port[os[p].model] = Port[m]
  BY DEF ServerOf, Alive
<1>4. p = sl.cmd => os[p].model = m
  BY DEF CmdOf, Alive
<1> QED
  BY <1>1, <1>2, <1>3, <1>4 DEF OwnPort

LEMMA KillsSpare ==
  ASSUME Upkeep, RefInv, NEW a \in Actor, Kills(a), NEW p \in Live, OwnPort(os[p].model),
         Survives(os[p].model) \/ \A v \in me[a].victims : v.model # os[p].model
  PROVE  os'[p].server # "dead"
<1> SUFFICES ASSUME os'[p].server = "dead"  PROVE FALSE
  OBVIOUS
<1>1. PICK P : P = UNION {KillTargets(v.model, v) : v \in me[a].victims}
  OBVIOUS
<1>2. os' = Stopped(P)
  BY <1>1 DEF Kills
<1>3. p \in P
  BY <1>2, KilledShrinks DEF Upkeep, Base, Live, Alive
<1>4. PICK v \in me[a].victims : p \in KillTargets(v.model, v)
  BY <1>1, <1>3
<1>5. v.model \in Model /\ ~Survives(v.model)
  BY DEF Upkeep, Base, Typed, TypeOK, Local, EquippedInv, Equipped
<1>6. os[p].model = v.model
  BY <1>4, <1>5, OthersSpared DEF RefInv, Live
<1> QED
  BY <1>5, <1>6

LEMMA QuellsSpare ==
  ASSUME Upkeep, RefInv, NEW a \in Actor, Quells(a), NEW p \in Live,
         OwnPort(os[p].model)
  PROVE  os'[p].server # "dead" \/ me[a].cur = os[p].model
<1> DEFINE l == me[a]
           m == l.cur
<1> SUFFICES ASSUME os'[p].server = "dead"
             PROVE  m = os[p].model
  OBVIOUS
<1>1. m \in Model
  BY DEF Quells, Works, Upkeep, Base, EquippedInv, Equipped
<1>2. PICK sl : sl = IF m \in l.lost THEN NoSlot ELSE slot[m]
  OBVIOUS
<1>3. os' = Stopped(KillTargets(m, sl))
  BY <1>2 DEF Quells
<1>4. p \in KillTargets(m, sl)
  BY <1>3, KilledShrinks DEF Upkeep, Base, Live, Alive
<1>5. CmdOf(os, sl.cmd, m) /\ ServerOf(os, sl.spid, m)
  BY <1>1, <1>2, ConfigAccepted DEF RefInv, NoSlot, CmdOf, ServerOf
<1> QED
  BY <1>1, <1>4, <1>5, OthersSpared DEF Live

LEMMA StartsSpare ==
  ASSUME Upkeep, RefInv, ~overlapped, NEW a \in Actor, NEW m \in Model, Starts(a, m), NEW p \in Live,
         OwnPort(os[p].model)
  PROVE  os'[p].server # "dead"
<1> DEFINE l == me[a]
<1> SUFFICES ASSUME os'[p].server = "dead"  PROVE FALSE
  OBVIOUS
<1>1. Launchable(a, m) /\ Up /\ l.pc \in Section /\ l.pc \in {"launch", "spawn"} /\ WellFormed(l)
  BY DEF Starts, Works, Launchable, Upkeep, Base, Typed, Goroutine
<1>2. p \in Listeners(m)
  <2> SUFFICES ASSUME p \notin Listeners(m)  PROVE FALSE
    OBVIOUS
  <2>1. DOMAIN Stopped(Listeners(m)) = Proc /\ Stopped(Listeners(m))[p] = os[p]
    BY DEF Stopped, Killed, Live
  <2>2. os[p].server # "dead" /\ NoProc.server = "dead"
    BY DEF Live, Alive, NoProc
  <2>3. me'[a].fresh # p
    BY <2>2, ConfigAccepted DEF Starts, Spawnable, FreeProcs, Live, Alive
  <2>4. os'[p] = os[p]
    BY <2>1, <2>3 DEF Starts, Live
  <2> QED
    BY <2>2, <2>4
<1>3. os[p].model = m
  BY <1>2 DEF Listeners, OwnPort
<1>4. slot[m].cmd = p /\ p # None
  <2>1. OwnedBySlot(p) \/ StartedBy(l, p) \/ KilledBy(l, p)
    BY <1>1, SoleOwner DEF Upkeep
  <2> QED
    BY <1>1, <1>3, <2>1, ConfigAccepted DEF OwnedBySlot, StartedBy, KilledBy, Live, Alive
<1>5. CASE l.pc = "launch"
  BY <1>1, <1>4, <1>5 DEF Launchable, Running, Upkeep, Base, SlotInv, Sound
<1>6. CASE l.pc = "spawn"
  <2>1. l.want = m /\ l.kind \in Singles
    BY <1>1, <1>6 DEF Launchable, WellFormed, Singles
  <2> QED
    BY <1>4, <1>6, <2>1 DEF Upkeep, Base, SlotInv, Placed, Working
<1> QED
  BY <1>1, <1>5, <1>6

(* A process that is not faulty dies by itself only when it cannot bind its port, *)
(* which nobody but another process of its model could hold.                      *)
LEMMA StillSpares ==
  ASSUME Upkeep, ~overlapped, phase = "up" \/ Up', Still, NEW p \in Live, OwnPort(os[p].model),
         os[p].model \notin Faulty
  PROVE  os'[p].server # "dead"
<1> SUFFICES ASSUME os'[p].server = "dead"  PROVE FALSE
  OBVIOUS
<1>1. os[p].server = "loading" /\ Responds(os[p].model)
  BY DEF Still
<1>2. PICK q \in Proc : os[q].server = "serving" /\ Port[os[q].model] = Port[os[p].model]
  BY <1>1 DEF Responds, Listeners
<1>3. q \in Live /\ os[q].model \in Model
  BY <1>2 DEF Live, Alive, Upkeep, Foreground
<1>4. os[q].model = os[p].model
  BY <1>2, <1>3 DEF OwnPort
<1>5. q = p
  BY <1>3, <1>4, OneProcess DEF Up, Still
<1> QED
  BY <1>1, <1>2, <1>5

(* No switch, no eviction and no start of another process kills the process of a *)
(* resident model while the proxy is up: only its own sleep_timeout does          *)
(* (config/scheduling.go:73-77, process.go:57-71, scheduler.go:432-434).          *)
THEOREM ResidentsStayUp ==
  ASSUME Detaching = {}, ResidentPortsApart
  PROVE  Spec => ResidentStaysUp
<1> DEFINE Inv == Upkeep /\ RefInv
           Step == phase = "up" /\ ~overlapped =>
                     \A p \in Live :
                       os[p].model \in Resident \ Faulty =>
                         \/ os'[p].server # "dead"
                         \/ \E a \in Actor : me[a].kind = "sleep" /\ me[a].cur = os[p].model
<1>1. Init => Inv
  BY InitUpkeep, InitRefs
<1>2. Inv /\ [Next]_vars => Inv'
  BY NextUpkeep, NextRefs DEF Upkeep, Base
<1>3. Inv /\ [Next]_vars => [Step]_vars
  <2> SUFFICES ASSUME Inv, [Next]_vars, phase = "up", ~overlapped, NEW p \in Live,
                      os[p].model \in Resident \ Faulty
               PROVE  \/ os'[p].server # "dead"
                      \/ \E a \in Actor : me[a].kind = "sleep" /\ me[a].cur = os[p].model
    OBVIOUS
  <2>1. CASE os' = os
    BY <2>1 DEF Live, Alive
  <2>r. OwnPort(os[p].model) /\ Survives(os[p].model)
    BY ConfigAccepted DEF OwnPort, ResidentPortsApart, Survives
  <2>2. ASSUME NEW a \in Actor, Summary(a)
        PROVE  os'[p].server # "dead" \/ (me[a].kind = "sleep" /\ me[a].cur = os[p].model)
    <3>1. \/ os' = os \/ Kills(a) \/ Quells(a) \/ \E m \in Model : Starts(a, m)
      BY <2>2 DEF Summary, Quiet, Enters, Empties, Registers, Publishes, Frees, Evicts, Suspends,
                  Evicted, Slept, Suspending, Restarted, Skips
    <3>2. Quells(a) => me[a].kind = "sleep" \/ me[a].cur \notin Resident
      BY DEF Quells, Works, Upkeep, Base, EquippedInv, Equipped
    <3>3. Quells(a) => os'[p].server # "dead" \/ me[a].cur = os[p].model
      BY <2>r, QuellsSpare
    <3>4. os' = os \/ Kills(a) \/ (\E m \in Model : Starts(a, m)) => os'[p].server # "dead"
      BY <2>1, <2>r, KillsSpare, StartsSpare DEF Live, Alive
    <3> QED
      BY <3>1, <3>2, <3>3, <3>4
  <2>3. Still \/ \E a \in Actor : Summary(a)
    BY NextSummary DEF Upkeep, Base
  <2> QED
    BY <2>2, <2>3, <2>r, StillSpares
<1>4. ResidentStaysUp <=> [][Step]_vars
  BY DEF ResidentStaysUp
<1> HIDE DEF Inv, Step
<1> QED
  BY <1>1, <1>2, <1>3, <1>4, PTL DEF Spec

-----------------------------------------------------------------------------
(* The scheduler implements Modes *)

(* The stage and the mode of a machine whose only switch, if any, is that of l. *)
StageOf(l) ==
  IF l.kind \notin Switches \/ l.pc \notin {"kill", "launch", "register"} THEN "settled"
  ELSE IF l.pc = "kill" THEN "stopping" ELSE "starting"

ModeOf(l, coding) ==
  IF StageOf(l) # "settled" THEN Targets(l)
  ELSE IF coding # None THEN {coding} ELSE Autostart

LEMMA AtWork ==
  ASSUME Base, ~overlapped, Up, NEW a \in Actor, me[a].pc \in Section
  PROVE  Stage = StageOf(me[a]) /\ Mode = ModeOf(me[a], codingModel)
<1>1. \A b \in Actor \ {a} : me[b].pc \notin Section
  BY SectionDef DEF Base, SlotInv, Serial
<1>2. Switching = IF StageOf(me[a]) # "settled" THEN {a} ELSE {}
  BY <1>1 DEF Switching, StageOf, Section, Switches, Modes
<1> QED
  BY <1>2 DEF Stage, Mode, Void, StageOf, ModeOf

LEMMA AtWorkNext ==
  ASSUME Base, ~overlapped, NEW a \in Actor, me[a].pc \in Section, Rest(a), ~overlapped', Up'
  PROVE  Stage' = StageOf(me'[a]) /\ Mode' = ModeOf(me'[a], codingModel')
<1>1. \A b \in Actor \ {a} : me'[b].pc \notin Section
  BY Alone DEF Base
<1>2. Switching' = IF StageOf(me'[a]) # "settled" THEN {a} ELSE {}
  BY <1>1 DEF Switching, StageOf, Section, Switches, Modes
<1>3. \A b : Targets(me[b])' = Targets(me'[b])
  BY DEF Targets
<1> QED
  BY <1>2, <1>3 DEF Stage, Mode, Void, StageOf, ModeOf

(* A step that neither enters nor leaves a change of mode. *)
LEMMA SameModes ==
  ASSUME ~Void, ~Void', codingModel' = codingModel,
         \A b \in Actor : (b \in Switching <=> b \in Switching')
                         /\ (b \in Switching => SameJob(me'[b], me[b]))
  PROVE  Stage' = Stage /\ Mode' = Mode
<1>1. Switching' = Switching
  BY DEF Switching
<1>2. \A b \in Switching : me'[b].pc = me[b].pc /\ Targets(me'[b]) = Targets(me[b])
  BY DEF SameJob, Targets, Switching
<1>3. Stage' = Stage
  BY <1>1, <1>2 DEF Stage
<1>4. {Targets(me'[b]) : b \in Switching} = {Targets(me[b]) : b \in Switching}
  BY <1>2
<1>5. UNION {Targets(me[b]) : b \in Switching}' = UNION {Targets(me'[b]) : b \in Switching}
  BY <1>1 DEF Targets
<1>6. Mode' = Mode
  BY <1>1, <1>4, <1>5 DEF Mode
<1> QED
  BY <1>3, <1>6

(* The models with a live process, before and after a step. *)
LEMMA LoadedIs ==
  /\ \A m : m \in Loaded <=> \E p \in Live : os[p].model = m
  /\ \A m : m \in Loaded' <=> \E p \in Proc : Alive(p)' /\ os'[p].model = m
BY DEF Loaded, Live

LEMMA LoadedShrinks ==
  ASSUME Shrinks, NEW gone,
         \A p \in Live : Alive(p)' \/ os[p].model \in gone
  PROVE  Loaded' \subseteq Loaded /\ \A m \in Loaded \ Loaded' : m \in gone
<1>1. \A p \in Proc : Alive(p)' => p \in Live /\ os'[p].model = os[p].model
  BY DEF Shrinks, Live
<1> QED
  BY <1>1, LoadedIs DEF Live

LEMMA StillModes ==
  ASSUME Upkeep, ~Void, ~Void', Still
  PROVE  M!End
<1>1. Stage' = Stage /\ Mode' = Mode
  BY SameModes DEF Still, SameJob, Switching
<1>2. ASSUME NEW p \in Live, ~Alive(p)', os[p].model \notin Faulty
      PROVE  os[p].model \in M!Frail
  <2>1. os[p].server = "loading" /\ Responds(os[p].model)
    BY <1>2 DEF Still, Alive, Live, Void
  <2>2. PICK q \in Proc : os[q].server = "serving" /\ Port[os[q].model] = Port[os[p].model]
    BY <2>1 DEF Responds, Listeners
  <2>3. q \in Live /\ q # p
    BY <2>1, <2>2 DEF Live, Alive
  <2>4. os[q].model # os[p].model
    BY <2>3, OneProcess DEF Void
  <2> QED
    BY <2>2, <2>3, <2>4 DEF M!Frail, M!SharingPort, Upkeep, Foreground, Live
<1>3. \A p \in Live : Alive(p)' \/ os[p].model \in M!Frail
  BY <1>2 DEF M!Frail, Upkeep, Foreground, Live
<1>4. Loaded' \subseteq Loaded /\ \A m \in Loaded \ Loaded' : m \in M!Frail
  BY <1>3, LoadedShrinks DEF Still
<1> QED
  BY <1>1, <1>4 DEF M!End, M!Ends, Stage, Void

(* A step that leaves the processes alone, out of a switch. *)
LEMMA QuietModes ==
  ASSUME Upkeep, NoClear, ~Void, ~Void', NEW a \in Actor, Quiet(a) \/ Enters(a)
  PROVE  UNCHANGED M!modesVars
<1>1. /\ os' = os /\ codingModel' = codingModel
      /\ me[a].pc \notin {"kill", "launch", "register"}
      /\ me'[a].pc \notin {"kill", "launch", "register"}
      /\ \A b \in Actor \ {a} : SameJob(me'[b], me[b])
  BY DEF Quiet, Enters, Rest, NoClear, Working, Section
<1>2. \A b \in Actor : (b \in Switching <=> b \in Switching')
                       /\ (b \in Switching => SameJob(me'[b], me[b]))
  BY <1>1 DEF Switching, SameJob
<1>3. Stage' = Stage /\ Mode' = Mode
  BY <1>1, <1>2, SameModes
<1>4. Loaded' = Loaded
  BY <1>1 DEF Loaded, Live, Alive
<1> QED
  BY <1>3, <1>4 DEF M!modesVars

(* A step within a switch or a load that leaves the processes alone. *)
LEMMA PrepareModes ==
  ASSUME Upkeep, ~Void, ~Void', NEW a \in Actor,
         \/ (\E m \in Model : Skips(a, m)) \/ Registers(a)
         \/ Frees(a) \/ Evicts(a) \/ Suspends(a) \/ Evicted(a) \/ Slept(a) \/ Restarted(a)
  PROVE  UNCHANGED M!modesVars
<1> DEFINE l == me[a]
<1>1. /\ os' = os /\ codingModel' = codingModel /\ l.pc \in Section /\ Rest(a)
      /\ WellFormed(l)
  BY DEF Skips, Registers, Frees, Evicts, Suspends, Evicted, Slept, Suspending, Restarted, Works, Departs, Upkeep, Base, Typed,
         Goroutine
<1>2. /\ Stage = StageOf(l) /\ Mode = ModeOf(l, codingModel)
      /\ Stage' = StageOf(me'[a]) /\ Mode' = ModeOf(me'[a], codingModel)
  BY <1>1, AtWork, AtWorkNext DEF Upkeep, Void
<1>3. Loaded' = Loaded
  BY <1>1 DEF Loaded, Live, Alive
<1>4. CASE (\E m \in Model : Skips(a, m)) \/ Registers(a)
  <2>1. /\ me'[a].kind = l.kind /\ me'[a].want = l.want
        /\ \/ l.pc \in {"launch", "register"} /\ me'[a].pc = "launch"
           \/ l.kind = "ondemand"
    BY <1>4 DEF Skips, Registers, Works
  <2>2. StageOf(me'[a]) = StageOf(l) /\ Targets(me'[a]) = Targets(l)
    BY <2>1 DEF StageOf, Targets, Switches
  <2> QED
    BY <1>1, <1>2, <1>3, <2>2 DEF ModeOf, M!modesVars
<1>5. CASE Frees(a) \/ Evicts(a) \/ Suspends(a) \/ Evicted(a) \/ Slept(a) \/ Restarted(a)
  <2>1. StageOf(l) = "settled" /\ StageOf(me'[a]) = "settled"
    BY <1>5 DEF Frees, Evicts, Suspends, Evicted, Slept, Restarted, Works, Departs, StageOf, Switches, Section
  <2> QED
    BY <1>1, <1>2, <1>3, <2>1 DEF ModeOf, M!modesVars
<1> QED
  BY <1>4, <1>5

(* A switch: stopAll removes the slots, kills, and at the end publishes. *)
LEMMA SwitchModes ==
  ASSUME Upkeep, RegisteredInv, ~Void, ~Void', NEW a \in Actor, Empties(a) \/ Publishes(a)
  PROVE  M!Change \/ M!Settle
<1> DEFINE l == me[a]
<1>1. /\ os' = os /\ l.pc \in {"stop", "launch"} /\ l.pc \in Section /\ Rest(a)
      /\ WellFormed(l) /\ l.kind \in Switches /\ me'[a].kind = l.kind /\ me'[a].want = l.want
  BY DEF Empties, Publishes, Works, Upkeep, Base, Typed, Goroutine, WellFormed, Switches
<1>2. /\ Stage = StageOf(l) /\ Mode = ModeOf(l, codingModel)
      /\ Stage' = StageOf(me'[a]) /\ Mode' = ModeOf(me'[a], codingModel')
  BY <1>1, AtWork, AtWorkNext DEF Upkeep, Void
<1>3. Loaded' = Loaded
  BY <1>1 DEF Loaded, Live, Alive
<1>4. Targets(me'[a]) = Targets(l) /\ Targets(l) \in M!Choices
  BY <1>1 DEF Targets, WellFormed, M!Choices, Switches
<1>5. CASE Empties(a)
  <2>1. StageOf(l) = "settled" /\ StageOf(me'[a]) = "stopping"
    BY <1>1, <1>5 DEF Empties, Works, StageOf
  <2> QED
    BY <1>2, <1>3, <1>4, <2>1 DEF ModeOf, M!Change
<1>6. CASE Publishes(a)
  <2>1. StageOf(l) = "starting" /\ StageOf(me'[a]) = "settled"
        /\ codingModel' = IF l.kind = "coding" THEN l.want ELSE None
    BY <1>1, <1>6 DEF Publishes, Works, StageOf
  <2>2. l.kind = "coding" => l.want # None
    BY <1>1, ConfigAccepted DEF WellFormed
  <2>3. Mode' = Mode
    BY <1>2, <2>1, <2>2 DEF ModeOf, Targets
  <2> QED
    BY <1>2, <1>3, <2>1, <2>3 DEF M!Settle
<1> QED
  BY <1>5, <1>6

LEMMA KillsModes ==
  ASSUME Upkeep, RefInv, ~Void, ~Void', NEW a \in Actor, Kills(a)
  PROVE  M!Clear
<1> DEFINE l == me[a]
<1>1. /\ l.pc = "kill" /\ me'[a].pc = "launch" /\ l.pc \in Section /\ Rest(a) /\ WellFormed(l)
      /\ l.kind \in Switches /\ me'[a].kind = l.kind /\ me'[a].want = l.want
      /\ codingModel' = codingModel
  BY DEF Kills, Works, Upkeep, Base, Typed, Goroutine, WellFormed, Switches
<1>2. /\ Stage = "stopping" /\ Stage' = "starting" /\ Mode' = Mode
  <2>1. /\ Stage = StageOf(l) /\ Mode = ModeOf(l, codingModel)
        /\ Stage' = StageOf(me'[a]) /\ Mode' = ModeOf(me'[a], codingModel')
    BY <1>1, AtWork, AtWorkNext DEF Upkeep, Void
  <2>2. Targets(me'[a]) = Targets(l)
    BY <1>1 DEF Targets
  <2> QED
    BY <1>1, <2>1, <2>2 DEF StageOf, ModeOf
<1>3. ASSUME NEW p \in Proc, Alive(p)'
      PROVE  p \in Live /\ os'[p].model = os[p].model /\ os[p].model \in M!Lasting
  <2>1. p \in Live /\ os'[p] = os[p] /\ OwnedBySlot(p)
    BY <1>3, KillsSpares DEF Upkeep, Void
  <2> DEFINE n == os[p].model
  <2>2. n \in Model /\ slot[n].cmd = p /\ p # None
    BY <2>1, ConfigAccepted DEF Upkeep, Foreground, OwnedBySlot, Live
  <2>3. slot[n].present
    BY <2>2 DEF Upkeep, Base, SlotInv, Sound, Void
  <2>4. Survives(n)
    BY <1>1, <2>2, <2>3 DEF Upkeep, Base, SlotInv, Placed, Void
  <2> QED
    BY <2>1, <2>2, <2>4 DEF M!Lasting, Survives, Background
<1>4. ASSUME NEW p \in Live, ~Alive(p)', os[p].model \in M!Lasting
      PROVE  os[p].model \in M!Frail
  <2> DEFINE n == os[p].model
  <2>1. PICK P : P = UNION {KillTargets(v.model, v) : v \in l.victims}
    OBVIOUS
  <2>2. os' = Stopped(P)
    BY <2>1 DEF Kills
  <2>3. p \in P
    BY <1>4, <2>2, KilledShrinks DEF Upkeep, Base, Live, Alive
  <2>4. PICK v \in l.victims : p \in KillTargets(v.model, v)
    BY <2>1, <2>3
  <2>5. v.model \in Model /\ ~Survives(v.model)
    BY DEF Upkeep, Base, Typed, TypeOK, Local, EquippedInv, Equipped
  <2>6. n # v.model
    BY <1>4, <2>5 DEF M!Lasting, Survives, Background
  <2>7. Port[n] = Port[v.model]
    <3>1. CmdOf(os, v.cmd, v.model) /\ ServerOf(os, v.spid, v.model)
      BY DEF RefInv
    <3>2. p \in Listeners(v.model) \/ p = v.spid \/ p = v.cmd
      BY <2>4 DEF KillTargets
    <3> QED
      BY <2>6, <3>1, <3>2 DEF CmdOf, ServerOf, Listeners, Live, Alive
  <2> QED
    BY <2>5, <2>6, <2>7 DEF M!Frail, M!SharingPort, M!Lasting, Upkeep, Foreground, Live
<1>5. Loaded' \subseteq Loaded \cap M!Lasting
  BY <1>3, LoadedIs
<1>6. ASSUME NEW m \in Loaded \cap M!Lasting, m \notin Loaded'  PROVE m \in M!Frail
  <2>1. PICK p \in Live : os[p].model = m
    BY LoadedIs
  <2>2. ~Alive(p)'
    BY <1>3, <1>6, <2>1, LoadedIs DEF Live
  <2> QED
    BY <1>4, <1>6, <2>1, <2>2
<1> QED
  BY <1>2, <1>5, <1>6 DEF M!Clear, M!Ends

(* A start, of a command or of nothing but what it kills. *)
LEMMA StartsModes ==
  ASSUME Upkeep, GpuInv, ~Void, ~Void', NEW a \in Actor, NEW m \in Model, Starts(a, m)
  PROVE  M!Start(m) \/ M!End
<1> DEFINE l == me[a]
<1>1. /\ Launchable(a, m) /\ l.pc \in {"launch", "spawn"} /\ me'[a].pc = "register"
      /\ l.pc \in Section /\ Rest(a) /\ WellFormed(l) /\ Equipped(l)
      /\ me'[a].kind = l.kind /\ me'[a].want = l.want /\ codingModel' = codingModel
  BY DEF Starts, Works, Launchable, Upkeep, Base, Typed, Goroutine, EquippedInv
<1>2. /\ Stage = StageOf(l) /\ Mode = ModeOf(l, codingModel)
      /\ Stage' = StageOf(me'[a]) /\ Mode' = ModeOf(me'[a], codingModel')
  BY <1>1, AtWork, AtWorkNext DEF Upkeep, Void
<1>3. /\ Stage' = Stage /\ Mode' = Mode
      /\ \/ Stage = "starting" /\ m \in Mode
         \/ Stage = "settled" /\ m \notin Coding
  <2>1. CASE l.pc = "launch"
    <3>1. l.kind \in Switches /\ m \in Targets(l)
      BY <1>1, <2>1 DEF Launchable, WellFormed, Equipped, Switches
    <3>2. StageOf(l) = "starting" /\ StageOf(me'[a]) = "starting" /\ Targets(me'[a]) = Targets(l)
      BY <1>1, <2>1, <3>1 DEF StageOf, Targets
    <3> QED
      BY <1>2, <3>1, <3>2 DEF ModeOf
  <2>2. CASE l.pc = "spawn"
    <3>1. l.kind \in Singles /\ m = l.want /\ m \in Background
      BY <1>1, <2>2 DEF Launchable, WellFormed, Equipped, Singles
    <3>2. StageOf(l) = "settled" /\ StageOf(me'[a]) = "settled"
      BY <1>1, <2>2, <3>1 DEF StageOf, Singles, Switches
    <3> QED
      BY <1>1, <1>2, <3>1, <3>2 DEF ModeOf, Background
  <2> QED
    BY <1>1, <2>1, <2>2
<1>4. \A p \in Live : os[p].model # m /\ ~SameGpu(os[p].model, m)
  BY StartsOnFree DEF Void
<1>5. m \notin Loaded /\ \A n \in Loaded : ~M!Conflict(m, n)
  BY <1>4 DEF Loaded, M!Conflict, SameGpu
<1>6. ASSUME NEW p \in Proc, Alive(p)'
      PROVE  (p \in Live /\ os'[p] = os[p]) \/ (me'[a].fresh = p /\ os'[p].model = m)
  <2>1. Typed
    BY DEF Upkeep, Base
  <2>2. \/ Alive(p) /\ os'[p] = os[p] /\ p \notin Listeners(m) /\ p # me'[a].fresh
        \/ me'[a].fresh = p /\ os'[p] = [model |-> m, server |-> "loading", wrapper |-> "alive"]
    BY <1>6, <2>1, StartsAlive
  <2> QED
    BY <2>2 DEF Live
<1>7. ASSUME NEW p \in Live, ~(Alive(p)' /\ os'[p].model = os[p].model)
      PROVE  Port[os[p].model] = Port[m]
  <2>1. os[p].server # "dead" /\ NoProc.server = "dead" /\ None \notin Proc
    BY ConfigAccepted DEF Live, Alive, NoProc
  <2>2. me'[a].fresh # p
    BY <2>1 DEF Starts, Spawnable, FreeProcs, Live
  <2>3. os'[p] = Stopped(Listeners(m))[p]
    <3>1. DOMAIN Stopped(Listeners(m)) = Proc
      BY DEF Stopped, Killed
    <3> QED
      BY <2>2, <3>1 DEF Starts, Live
  <2>4. p \in Listeners(m)
    BY <1>7, <2>1, <2>3 DEF Stopped, Killed, Live, Alive
  <2> QED
    BY <2>4 DEF Listeners
<1>8. ASSUME NEW n \in Loaded, n \notin Loaded'
      PROVE  n \in M!SharingPort(m) /\ n \in M!Frail
  <2>1. PICK p \in Live : os[p].model = n
    BY LoadedIs
  <2>2. Port[n] = Port[m]
    BY <1>7, <1>8, <2>1, LoadedIs DEF Live
  <2>3. n \in Model /\ n # m
    BY <1>4, <2>1 DEF Upkeep, Foreground, Live
  <2> QED
    BY <2>2, <2>3 DEF M!SharingPort, M!Frail
<1>9. CASE me'[a].fresh \in Spawnable
  <2>1. m \in Loaded'
    <3>1. me'[a].fresh \in Proc
      BY <1>9 DEF Spawnable, FreeProcs
    <3>2. os'[me'[a].fresh].model = m /\ os'[me'[a].fresh].server = "loading"
      <4>1. me'[a].fresh # None
        BY <3>1, ConfigAccepted
      <4>2. DOMAIN Stopped(Listeners(m)) = Proc
        BY DEF Stopped, Killed
      <4> QED
        BY <3>1, <4>1, <4>2 DEF Starts
    <3> QED
      BY <3>1, <3>2 DEF Loaded, Live, Alive
  <2>2. Loaded' \subseteq Loaded \cup {m}
    BY <1>6, LoadedIs
  <2>3. M!Ends(Loaded \cup {m}, M!SharingPort(m))
    BY <1>8, <2>1, <2>2 DEF M!Ends
  <2> QED
    BY <1>3, <1>5, <2>1, <2>3 DEF M!Start
<1>10. CASE me'[a].fresh \notin Spawnable
  <2>1. me'[a].fresh = None
    BY <1>10 DEF Starts
  <2>2. Loaded' \subseteq Loaded
    BY <1>6, <2>1, LoadedIs, ConfigAccepted
  <2>3. M!Ends(Loaded, M!Frail)
    BY <1>8, <2>2 DEF M!Ends
  <2> QED
    BY <1>3, <2>3 DEF M!End
<1> QED
  BY <1>9, <1>10

(* suspendSlot ends the model's own process, unless others share its port. *)
LEMMA QuellsModes ==
  ASSUME Upkeep, RefInv, NEW a \in Actor, me[a].cur \in Model, Quells(a)
  PROVE  /\ Loaded' \subseteq Loaded
         /\ \A n \in Loaded \ Loaded' : n \in M!SharingPort(me[a].cur)
<1> DEFINE m == me[a].cur
<1>1. PICK sl : sl = IF m \in me[a].lost THEN NoSlot ELSE slot[m]
  OBVIOUS
<1>2. os' = Stopped(KillTargets(m, sl))
  BY <1>1 DEF Quells
<1>3. CmdOf(os, sl.cmd, m) /\ ServerOf(os, sl.spid, m)
  BY <1>1, ConfigAccepted DEF RefInv, NoSlot, CmdOf, ServerOf
<1>4. ASSUME NEW p \in Live, ~Alive(p)'  PROVE os[p].model \in M!SharingPort(m)
  <2>1. p \in KillTargets(m, sl)
    BY <1>2, <1>4, KilledShrinks DEF Upkeep, Base, Live, Alive
  <2>2. p \in Listeners(m) \/ p = sl.spid \/ p = sl.cmd
    BY <2>1 DEF KillTargets
  <2>3. Port[os[p].model] = Port[m]
    BY <1>3, <2>2 DEF CmdOf, ServerOf, Listeners, Live, Alive
  <2> QED
    BY <2>3 DEF M!SharingPort, Upkeep, Foreground, Live
<1>5. Shrinks
  BY <1>2, KilledShrinks DEF Upkeep, Base
<1> QED
  BY <1>4, <1>5, LoadedShrinks

LEMMA EvictionModes ==
  ASSUME GpuPortsApart, Upkeep, RefInv, GpuInv, ~Void, ~Void', NEW a \in Actor, Quells(a)
  PROVE  M!Evict(me[a].cur) \/ M!Sleep(me[a].cur)
<1> DEFINE l == me[a]
           n == l.cur
<1>1. /\ l.pc = "stopslot" /\ me'[a].pc = "suspended" /\ l.pc \in Section /\ Rest(a) /\ n \in Model
      /\ WellFormed(l) /\ Equipped(l) /\ l \in Goroutine /\ codingModel' = codingModel
  BY DEF Quells, Works, Upkeep, Base, Typed, Goroutine, EquippedInv,
         Equipped
<1>2. Stage = "settled" /\ Stage' = Stage /\ Mode' = Mode
  <2>1. /\ Stage = StageOf(l) /\ Mode = ModeOf(l, codingModel)
        /\ Stage' = StageOf(me'[a]) /\ Mode' = ModeOf(me'[a], codingModel')
    BY <1>1, AtWork, AtWorkNext DEF Upkeep, Void
  <2>2. StageOf(l) = "settled" /\ StageOf(me'[a]) = "settled"
    BY <1>1 DEF StageOf
  <2> QED
    BY <1>1, <2>1, <2>2 DEF ModeOf
<1>3. Loaded' \subseteq Loaded /\ \A o \in Loaded \ Loaded' : o \in M!SharingPort(n)
  BY <1>1, QuellsModes
<1>4. CASE l.kind = "sleep"
  <2>1. n \in Sleepy
    BY <1>1, <1>4 DEF Equipped
  <2> QED
    BY <1>2, <1>3, <2>1 DEF M!Sleep, M!Ends
<1>5. CASE l.kind # "sleep"
  <2>1. l.kind \in Singles /\ n \notin Resident /\ l.want \in Model \ Coding
    BY <1>1, <1>5 DEF WellFormed, Equipped, Singles, Background, Section
  <2>2. SameGpu(n, l.want)
    BY <1>1, <2>1 DEF GpuInv, Cleared, Void
  <2>3. M!Conflict(l.want, n) /\ Gpu[n] # NoGpu
    BY <2>2 DEF SameGpu, M!Conflict
  <2>4. \A o \in M!SharingPort(n) : o = n
    BY <1>1, <2>3 DEF M!SharingPort, GpuPortsApart
  <2> QED
    BY <1>2, <1>3, <2>1, <2>3, <2>4 DEF M!Evict, M!Ends
<1> QED
  BY <1>4, <1>5

(* What the refinement rests on. *)
ModesInv == Upkeep /\ NoClear /\ RegisteredInv /\ RefInv /\ GpuInv

LEMMA ModesInit ==
  ASSUME Init
  PROVE  ModesInv /\ M!Init
<1>1. \A a \in Actor : me[a].pc \in {"start", "idle", "done"}
  BY DEF Init, At
<1>2. Live = {} /\ \A m \in Model : slot[m].cmd = None
  BY DEF Init, ProcInit, NoProc, NoSlot, Live, Alive
<1>3. NoClear
  BY ActorAssumption DEF Init, At, NoClear, Actor
<1>4. RegisteredInv
  BY <1>1, <1>2 DEF RegisteredInv
<1>5. GpuInv
  BY <1>1, <1>2 DEF GpuInv, Cleared
<1>6. Switching = {} /\ ~Void /\ codingModel = None /\ Loaded = {}
  BY <1>1, <1>2 DEF Switching, Void, Up, Init, Loaded
<1>7. M!Init
  BY <1>6 DEF M!Init, Stage, Mode
<1> QED
  BY <1>3, <1>4, <1>5, <1>7, InitUpkeep, InitRefs DEF ModesInv

LEMMA ModesStep ==
  ASSUME GpuPortsApart, ModesInv, [Next]_vars
  PROVE  [M!Next]_M!modesVars
<1>1. CASE Void'
  BY <1>1 DEF M!Next, M!Void, Stage
<1>2. CASE ~Void'
  <2>1. ASSUME Still  PROVE [M!Next]_M!modesVars
    <3>1. ~Void
      BY <1>2, <2>1 DEF Still, Void
    <3> QED
      BY <1>2, <2>1, <3>1, StillModes DEF M!Next, ModesInv
  <2>2. ASSUME NEW a \in Actor, Summary(a)  PROVE [M!Next]_M!modesVars
    <3>1. Up
      BY <2>2, SectionStep DEF Quiet, Enters
    <3>2. ~Void
      BY <1>2, <3>1, OverlapStays DEF Void, ModesInv, Upkeep
    <3>3. CASE Empties(a) \/ Publishes(a)
      BY <1>2, <3>2, <3>3, SwitchModes DEF M!Next, ModesInv
    <3>4. CASE Kills(a)
      BY <1>2, <3>2, <3>4, KillsModes DEF M!Next, ModesInv
    <3>5. ASSUME NEW m \in Model, Starts(a, m)  PROVE M!Next
      BY <1>2, <3>2, <3>5, StartsModes DEF M!Next, ModesInv
    <3>6. CASE Quells(a)
      <4>1. me[a].cur \in Model
        BY <3>6 DEF Quells, Works, ModesInv, Upkeep, Base, EquippedInv, Equipped
      <4> QED
        BY <1>2, <3>2, <3>6, <4>1, EvictionModes DEF M!Next, ModesInv
    <3>7. CASE Quiet(a) \/ Enters(a)
      BY <1>2, <3>2, <3>7, QuietModes DEF ModesInv
    <3>8. CASE \/ (\E m \in Model : Skips(a, m)) \/ Registers(a)
               \/ Frees(a) \/ Evicts(a) \/ Suspends(a) \/ Evicted(a) \/ Slept(a) \/ Restarted(a)
      BY <1>2, <3>2, <3>8, PrepareModes DEF ModesInv
    <3> QED
      BY <2>2, <3>3, <3>4, <3>5, <3>6, <3>7, <3>8 DEF Summary
  <2>3. Still \/ \E a \in Actor : Summary(a)
    BY NextSummary DEF ModesInv, Upkeep, Base
  <2> QED
    BY <2>1, <2>2, <2>3
<1> QED
  BY <1>1, <1>2

(* The scheduler implements Modes, until two switches overlap or the proxy goes *)
(* down: a change of mode stops all but the background models that last before   *)
(* it starts those of the new mode, a gpu holds one model, a coding model is      *)
(* started by the change to its mode only, and a process that does not end by     *)
(* itself is stopped for its gpu or its own sleep_timeout only                    *)
(* (switching.go:20-159, scheduler.go:411-455, process.go:57-108).                *)
(* The hypotheses are those of CodingIsRegistered and OnePerGpu.                  *)
THEOREM SchedulerImplementsModes ==
  ASSUME Detaching = {}, GpuPortsApart, Autostart # {} \/ ~LeaseOn
  PROVE  Spec => ModesKept
<1>1. ModesInv /\ [Next]_vars => ModesInv'
  <2> SUFFICES ASSUME ModesInv, [Next]_vars  PROVE ModesInv'
    OBVIOUS
  <2> QED
    BY NextUpkeep, NextNoClear, NextRegistered, NextRefs, NextGpu DEF ModesInv, Upkeep, Base
<1>2. ModesInv /\ [Next]_vars => [M!Next]_M!modesVars
  BY ModesStep
<1>3. Init => ModesInv /\ M!Init
  BY ModesInit
<1> QED
  BY <1>1, <1>2, <1>3, PTL DEF Spec, ModesKept, M!Spec
=============================================================================
