-------------------------- MODULE SchedulerWakeups --------------------------
(***************************************************************************)
(* Ready channels: no slot is marked ready without its process, as far as  *)
(* that is so, and whoever waits on the channel of a resident member of    *)
(* the group keeps it.  Slots leave procs, are replaced and get new        *)
(* channels under the waiters: the first part says what a goroutine that   *)
(* holds a channel may still rely on, and which steps strand it.           *)
(***************************************************************************)
EXTENDS SchedulerProcesses

(* Where a goroutine holds no channel: a caller that asks, and Loop between two members. *)
Between == {"idle", "ensure", "items", "mark", "clearcoding"}

(* A held or open channel is that of a slot of s; an open one is not closed. *)
Attached(l, s) ==
  /\ l.pc \in Between => l.chan = "none"
  /\ l.pc \in {"ensure", "preempt", "lock"} => l.want \in Model
  /\ l.chan \in {"held", "open"} => l.want \in Model /\ s[l.want].present
  /\ l.chan = "open" => ~s[l.want].closed

(* The inductive invariant. *)
Awake == Typed /\ \A a \in Actor : Attached(me[a], slot)

-----------------------------------------------------------------------------
(* How a step can concern the channels *)

(* No slot enters or leaves procs, changes its channel or becomes ready. *)
ChannelsKept ==
  \A m \in Model : /\ slot'[m].present = slot[m].present /\ slot'[m].closed = slot[m].closed
                   /\ slot'[m].ready => slot[m].ready

(* What becomes of a goroutine l that moves: an open channel is not taken from it. *)
Follows(k, l) == Attached(k, slot) /\ (l.chan = "open" => k.chan # "dead")

(* Whose step takes the channel of m's slot away from its waiters. *)
Stranding(m) ==
  \E a \in Actor :
    \/ me[a].pc = "stop" /\ ~Survives(m)
    \/ me[a].pc = "register" /\ me[a].kind # "restart" /\ me[a].cur = m
    \/ me[a].pc = "suspended" /\ me[a].cur = m

(* A slot that is ready has closed its channel, unless suspendSlot replaces it. *)
ReadyShut ==
  \A m \in Model :
    slot'[m].ready =>
      \/ slot'[m].closed
      \/ /\ slot[m].ready
         /\ slot[m].closed => \E a \in Actor : me[a].pc = "suspended" /\ me[a].cur = m

(* A channel that was closed stays, unless its slot goes or gets another one. *)
StaysShut ==
  \A m \in Model :
    slot[m].closed =>
      \/ slot'[m].closed
      \/ \E a \in Actor : me[a].pc \in {"stop", "register", "suspended"} /\ me'[a].pc # me[a].pc

(* What every step establishes about the channels. *)
ChannelsNext ==
  /\ \A b \in Actor : Attached(me[b], slot)'
  /\ \A b \in Actor : me[b].chan = "open" => me'[b].chan # "dead" \/ Stranding(me[b].want)
  /\ ReadyShut /\ StaysShut

LEMMA SlotsShut ==
  ASSUME ChannelsKept \/ slot' = slot
  PROVE  ReadyShut /\ StaysShut
BY DEF ChannelsKept, ReadyShut, StaysShut

LEMMA OneMoves ==
  ASSUME Awake, NEW a \in Actor, ChannelsKept, NEW l, Follows(l, me[a]),
         me' = [me EXCEPT ![a] = l]
  PROVE  ChannelsNext
<1>1. ASSUME NEW b \in Actor  PROVE Attached(me'[b], slot') /\ (me[b].chan = "open" => me'[b].chan # "dead")
  <2>1. Attached(me'[b], slot) /\ (me[b].chan = "open" => me'[b].chan # "dead")
    BY DEF Awake, Typed, Follows
  <2> QED
    BY <2>1 DEF Attached, ChannelsKept
<1> QED
  BY <1>1, SlotsShut DEF ChannelsNext

(* The channels of slots that leave procs go dead. *)
LEMMA DropDetaches ==
  ASSUME NEW f \in [Actor -> Goroutine], NEW D, NEW s, NEW t,
         \A m \in Model \ D : t[m] = s[m],
         NEW b \in Actor, Attached(f[b], s)
  PROVE  /\ Attached(Drop(f, D)[b], t) /\ Drop(f, D)[b].pc = f[b].pc
         /\ f[b].want \notin D => Drop(f, D)[b].chan = f[b].chan
<1>1. f[b] \in Local
  BY DEF Goroutine
<1>2. \A x, y : LET n == [f[b] EXCEPT !.chan = x, !.lost = y]
                IN  n.pc = f[b].pc /\ n.want = f[b].want /\ n.chan = x
  BY <1>1 DEF Local
<1>3. PICK y : Drop(f, D)[b] =
        [f[b] EXCEPT !.chan = IF f[b].want \in D /\ f[b].chan \in {"held", "open"}
                              THEN "dead" ELSE f[b].chan, !.lost = y]
  BY DEF Drop
<1>4. /\ Drop(f, D)[b].pc = f[b].pc
      /\ Drop(f, D)[b].want = f[b].want
      /\ Drop(f, D)[b].chan =
           IF f[b].want \in D /\ f[b].chan \in {"held", "open"} THEN "dead" ELSE f[b].chan
  BY <1>2, <1>3
<1> QED
  BY <1>4 DEF Attached

(* When a channel is closed or replaced, those who hold it learn of it. *)
LEMMA TurnDetaches ==
  ASSUME NEW f \in [Actor -> Goroutine], NEW m, NEW ch \in {"closed", "dead"}, NEW s, NEW t,
         \A n \in Model \ {m} : t[n] = s[n],
         m \in Model => t[m].present = s[m].present,
         NEW b \in Actor, Attached(f[b], s)
  PROVE  Attached(Turn(f, m, ch)[b], t)
<1>1. CASE f[b].want = m /\ f[b].chan = "open"
  <2>1. /\ Turn(f, m, ch)[b].pc = f[b].pc /\ Turn(f, m, ch)[b].want = f[b].want
        /\ Turn(f, m, ch)[b].chan = ch
    BY <1>1 DEF Turn, Goroutine, Local
  <2> QED
    BY <1>1, <2>1 DEF Attached
<1>2. CASE ~(f[b].want = m /\ f[b].chan = "open")
  <2>1. Turn(f, m, ch)[b] = f[b]
    BY <1>2 DEF Turn
  <2> QED
    BY <1>2, <2>1 DEF Attached
<1> QED
  BY <1>1, <1>2

LEMMA TurnTurns ==
  ASSUME NEW f \in [Actor -> Goroutine], NEW m, NEW ch, NEW b \in Actor
  PROVE  /\ Turn(f, m, ch)[b].pc = f[b].pc
         /\ \/ Turn(f, m, ch)[b].chan = f[b].chan
            \/ Turn(f, m, ch)[b].chan = ch /\ f[b].chan = "open" /\ f[b].want = m
BY DEF Turn, Goroutine, Local

LEMMA MarkWakes ==
  ASSUME Awake, NEW f \in [Actor -> Goroutine], NEW m, MarkSlotReady(f, m),
         \A b \in Actor : Follows(f[b], me[b])
  PROVE  ChannelsNext
<1>1. CASE slot[m].present /\ ~slot[m].ready
  <2> DEFINE t == [slot EXCEPT ![m].ready = TRUE, ![m].closed = TRUE, ![m].spid = Resolved(m)]
  <2>1. slot' = t /\ me' = Turn(f, m, "closed")
    BY <1>1 DEF MarkSlotReady
  <2>2. /\ \A n \in Model \ {m} : t[n] = slot[n]
        /\ m \in Model => t[m].present = slot[m].present /\ t[m].closed
    BY DEF Awake, Typed, TypeOK, ProcTypeOK, Slot
  <2> HIDE DEF t
  <2>3. /\ \A n \in Model \ {m} : slot'[n] = slot[n]
        /\ m \in Model => slot'[m].present = slot[m].present /\ slot'[m].closed
    BY <2>1, <2>2
  <2>4. ASSUME NEW b \in Actor
        PROVE  Attached(me'[b], slot') /\ (me[b].chan = "open" => me'[b].chan # "dead")
    <3>1. Attached(f[b], slot) /\ (me[b].chan = "open" => f[b].chan # "dead")
      BY DEF Follows
    <3>2. /\ Attached(Turn(f, m, "closed")[b], t)
          /\ \/ Turn(f, m, "closed")[b].chan = f[b].chan
             \/ Turn(f, m, "closed")[b].chan = "closed"
      <4>1. Attached(Turn(f, m, "closed")[b], t)
        BY <2>2, <3>1, TurnDetaches
      <4> QED
        BY <4>1, TurnTurns
    <3> QED
      BY <2>1, <3>1, <3>2
  <2>5. ReadyShut /\ StaysShut
    BY <2>3 DEF ReadyShut, StaysShut
  <2> QED
    BY <2>4, <2>5 DEF ChannelsNext
<1>2. CASE ~(slot[m].present /\ ~slot[m].ready)
  <2>1. me' = f /\ slot' = slot
    BY <1>2 DEF MarkSlotReady
  <2> QED
    BY <2>1, SlotsShut DEF ChannelsNext, Follows
<1> QED
  BY <1>1, <1>2

(* Whoever finds a slot in procs takes its channel as it is. *)
LEMMA AwaitAttached ==
  ASSUME NEW l, NEW ch,
         \/ ch \notin {"held", "open"}
         \/ l.want \in Model /\ slot[l.want].present /\ ch = Obtained(l.want)
         \/ l.chan = ch /\ Attached(l, slot)
  PROVE  Attached(Await(l, ch), slot)
<1>1. Await(l, ch).pc = "await" /\ Await(l, ch).want = l.want /\ Await(l, ch).chan = ch
  BY DEF Await, At
<1> QED
  BY <1>1 DEF Attached, Between, Obtained

LEMMA AtFollows ==
  ASSUME NEW p, p \notin {"ensure", "preempt", "lock"}
  PROVE  Attached(At(p), slot) /\ \A l : Follows(At(p), l)
BY DEF Attached, Follows, At

LEMMA BackFollows ==
  ASSUME Awake, NEW a \in Actor
  PROVE  Follows(Back(a), me[a]) /\ (Back(a).chan = "open" => Back(a).want = me[a].want)
<1>1. [At("items") EXCEPT !.todo = me[a].todo].pc = "items"
      /\ [At("items") EXCEPT !.todo = me[a].todo].chan = "none"
  BY DEF At
<1>2. CASE a = Looper
  BY <1>1, <1>2 DEF Back, Attached, Follows
<1>3. CASE a # Looper
  <2> DEFINE ch == IF me[a].chan = "held" THEN Obtained(me[a].want) ELSE me[a].chan
  <2>1. Back(a) = Await(me[a], ch)
    BY <1>3 DEF Back
  <2>2. Attached(me[a], slot)
    BY DEF Awake
  <2>3. me[a].chan = "held" => me[a].want \in Model /\ slot[me[a].want].present
    BY <2>2 DEF Attached
  <2>4. Attached(Await(me[a], ch), slot)
    BY <2>2, <2>3, AwaitAttached
  <2>5. Await(me[a], ch).want = me[a].want /\ Await(me[a], ch).chan = ch
    BY DEF Await, At
  <2> QED
    BY <2>1, <2>4, <2>5 DEF Follows
<1> QED
  BY <1>2, <1>3

(* A goroutine that goes on with the model and the channel it has. *)
LEMMA GoesOn ==
  ASSUME NEW l, NEW n, Attached(l, slot), n.want = l.want, n.chan = l.chan,
         n.pc = l.pc \/ n.pc \notin Between \cup {"ensure", "preempt", "lock"}
  PROVE  Follows(n, l)
BY DEF Attached, Follows

LEMMA WantChan ==
  ASSUME NEW l \in Local
  PROVE  /\ \A p : LET n == [l EXCEPT !.pc = p] IN n.want = l.want /\ n.chan = l.chan /\ n.pc = p
         /\ \A p, k : LET n == [l EXCEPT !.pc = p, !.kind = k]
                      IN  n.want = l.want /\ n.chan = l.chan /\ n.pc = p
BY DEF Local

(* Most steps: one goroutine moves, and procs keeps its slots and channels. *)
LEMMA OnlyMoves ==
  ASSUME Awake, NEW a \in Actor, NEW l, Follows(l, me[a]), slot' = slot, me' = [me EXCEPT ![a] = l]
  PROVE  ChannelsNext
BY OneMoves DEF ChannelsKept

LEMMA RequestAwake ==
  ASSUME Awake, NEW c \in Caller, Request(c)
  PROVE  ChannelsNext
<1> DEFINE l == me[c]
<1>1. c \in Actor /\ me \in [Actor -> Goroutine] /\ l \in Local /\ Attached(l, slot)
  BY DEF Actor, Awake, Typed, TypeOK
<1>2. Follows(At("done"), l)
  BY AtFollows
<1>3. ASSUME NEW m \in Model, Refuse(c, m)  PROVE ChannelsNext
  BY <1>1, <1>2, <1>3, OnlyMoves DEF Refuse, procVars
<1>4. ASSUME NEW m \in Model, Arrive(c, m)  PROVE ChannelsNext
  <2> DEFINE n == [At("ensure") EXCEPT !.want = m]
  <2>1. n.pc = "ensure" /\ n.want = m /\ n.chan = "none"
    BY DEF At
  <2>2. me' = [me EXCEPT ![c] = n] /\ slot' = slot
    BY <1>4 DEF Arrive, procVars
  <2> HIDE DEF n
  <2>3. Follows(n, l)
    BY <2>1 DEF Attached, Follows, Arrive
  <2> QED
    BY <1>1, <2>2, <2>3, OnlyMoves
<1>5. CASE EnsureAlone(c)
  <2> DEFINE next == [l EXCEPT !.pc = "preempt", !.kind = IF l.want \in Coding THEN "coding" ELSE "ondemand"]
             n == IF Running(l.want) THEN Await(l, Obtained(l.want))
                  ELSE IF backoff[l.want] THEN At("done") ELSE next
  <2>1. me' = [me EXCEPT ![c] = n] /\ slot' = slot /\ l.pc = "ensure"
    BY <1>5 DEF EnsureAlone, procVars
  <2>2. l.want \in Model /\ l.chan = "none"
    BY <1>1, <2>1 DEF Attached, Between
  <2>3. Running(l.want) => Attached(Await(l, Obtained(l.want)), slot)
    BY <2>2, AwaitAttached DEF Running
  <2>4. next.pc = "preempt" /\ next.want = l.want /\ next.chan = l.chan
    BY <1>1, WantChan
  <2> HIDE DEF next
  <2>5. Attached(next, slot)
    BY <1>1, <2>2, <2>4 DEF Attached, Between
  <2>6. Follows(n, l)
    BY <1>2, <2>2, <2>3, <2>5 DEF Follows
  <2> HIDE DEF n
  <2> QED
    BY <1>1, <2>1, <2>6, OnlyMoves
<1>6. CASE EnsureMember(c)
  <2> DEFINE m == l.want
             kept == slot[m].present /\ (m \in Resident \/ codingModel = None)
             restart == [l EXCEPT !.pc = "restartlock", !.kind = "restart", !.chan = "held"]
             switch == [l EXCEPT !.pc = "lock", !.kind = "background"]
             n == IF kept /\ Running(m) THEN Await(l, Obtained(m))
                  ELSE IF kept THEN restart
                  ELSE IF codingModel # None /\ LeaseActive THEN Await(l, "dead")
                  ELSE switch
  <2>1. me' = [me EXCEPT ![c] = n] /\ slot' = slot /\ l.pc = "ensure"
    BY <1>6 DEF EnsureMember, procVars
  <2>2. m \in Model /\ l.chan = "none"
    BY <1>1, <2>1 DEF Attached, Between
  <2>3. (kept => Attached(Await(l, Obtained(m)), slot)) /\ Attached(Await(l, "dead"), slot)
    BY <2>2, AwaitAttached
  <2>4. /\ restart.pc = "restartlock" /\ restart.want = m /\ restart.chan = "held"
        /\ switch.pc = "lock" /\ switch.want = m /\ switch.chan = l.chan
    BY <1>1 DEF Local
  <2> HIDE DEF restart, switch
  <2>5. (kept => Attached(restart, slot)) /\ Attached(switch, slot)
    BY <1>1, <2>2, <2>4 DEF Attached, Between
  <2> HIDE DEF m, kept
  <2>6. Follows(n, l)
    BY <2>2, <2>3, <2>5 DEF Follows
  <2> HIDE DEF n
  <2> QED
    BY <1>1, <2>1, <2>6, OnlyMoves
<1>7. CASE Preempt(c)
  <2>1. l.want \in Model
    BY <1>1, <1>7 DEF Preempt, Attached
  <2>2. /\ me'[c].pc = "lock" /\ me'[c].want = l.want /\ me'[c].chan = l.chan
        /\ \A b \in Actor \ {c} : /\ me'[b].pc = me[b].pc /\ me'[b].want = me[b].want
                                  /\ me'[b].chan = me[b].chan
        /\ slot' = slot
    <3> DEFINE next == [me EXCEPT ![c].pc = "lock"]
    <3>1. \A b \in Actor : /\ next[b].want = me[b].want /\ next[b].chan = me[b].chan
                           /\ next[b].pc = IF b = c THEN "lock" ELSE me[b].pc
                           /\ next[b] \in Local
      <4>1. \A b \in Actor : me[b] \in Local
        BY <1>1 DEF Goroutine
      <4>2. next[c] = [l EXCEPT !.pc = "lock"] /\ \A b \in Actor \ {c} : next[b] = me[b]
        BY <1>1
      <4>3. [l EXCEPT !.pc = "lock"] \in Local
        BY <1>1, SetPc DEF PCs
      <4> QED
        BY <1>1, <4>1, <4>2, <4>3, WantChan
    <3>2. me' = next \/ me' = [next EXCEPT ![reg.by].canceled = TRUE]
      BY <1>7 DEF Preempt
    <3>3. DOMAIN next = Actor /\ slot' = slot
      BY <1>1, <1>7 DEF Preempt, procVars
    <3> HIDE DEF next
    <3>4. \A b \in Actor : \/ me'[b] = next[b]
                           \/ me'[b] = [next[b] EXCEPT !.canceled = TRUE]
      <4>1. \A b \in Actor : [next EXCEPT ![reg.by].canceled = TRUE][b] \in
                                 {next[b], [next[b] EXCEPT !.canceled = TRUE]}
        <5>1. reg.by \in Actor =>
                \A b \in Actor : b # reg.by => [next EXCEPT ![reg.by].canceled = TRUE][b] = next[b]
          OBVIOUS
        <5> QED
          BY <3>3, <5>1
      <4> QED
        BY <3>2, <4>1
    <3>5. \A b \in Actor : /\ me'[b].want = next[b].want /\ me'[b].chan = next[b].chan
                           /\ me'[b].pc = next[b].pc
      BY <3>1, <3>4 DEF Local
    <3> QED
      BY <1>1, <3>1, <3>3, <3>5
  <2>3. \A b \in Actor : Attached(me[b], slot)
    BY DEF Awake
  <2>4. \A b \in Actor : Attached(me[b], slot)'
    BY <1>1, <2>1, <2>2, <2>3 DEF Attached, Between
  <2>5. \A b \in Actor : me'[b].chan = me[b].chan
    BY <2>2
  <2> QED
    BY <2>2, <2>4, <2>5, SlotsShut DEF ChannelsNext
<1>8. CASE LockHit(c)
  <2>1. l.pc = "lock" /\ me' = [me EXCEPT ![c] = Await(l, Obtained(l.want))] /\ slot' = slot
        /\ slot[l.want].present
    BY <1>8 DEF LockHit, Running, procVars
  <2>2. Follows(Await(l, Obtained(l.want)), l)
    <3>1. Attached(Await(l, Obtained(l.want)), slot)
      BY <1>1, <2>1, AwaitAttached DEF Attached
    <3>2. Await(l, Obtained(l.want)).chan # "dead"
      BY DEF Await, At, Obtained
    <3> QED
      BY <3>1, <3>2 DEF Follows
  <2> QED
    BY <1>1, <2>1, <2>2, OnlyMoves
<1>9. CASE LockMiss(c)
  <2> DEFINE n == [l EXCEPT !.pc = IF l.kind = "ondemand" THEN "acquire" ELSE "stop"]
  <2>1. n.want = l.want /\ n.chan = l.chan /\ n.pc \in {"acquire", "stop"}
    BY <1>1 DEF Local
  <2>2. me' = [me EXCEPT ![c] = n] /\ slot' = slot
    BY <1>9 DEF LockMiss, procVars
  <2> HIDE DEF n
  <2>3. Follows(n, l)
    BY <1>1, <2>1, GoesOn DEF Between
  <2> QED
    BY <1>1, <2>2, <2>3, OnlyMoves
<1>10. CASE ChannelClosed(c)
  <2> DEFINE use == [At("use") EXCEPT !.want = l.want]
  <2>1. use.pc = "use" /\ use.chan = "none"
    BY DEF At
  <2>2. \E n \in {use, At("done")} : me' = [me EXCEPT ![c] = n]
    BY <1>10 DEF ChannelClosed
  <2> HIDE DEF use
  <2>3. Follows(use, l)
    BY <2>1 DEF Attached, Follows
  <2> QED
    BY <1>1, <1>2, <1>10, <2>2, <2>3, OnlyMoves DEF ChannelClosed, procVars
<1>11. CASE GiveUp(c) \/ PanelReturns(c) \/ ModelLeave(c)
  BY <1>1, <1>2, <1>11, OnlyMoves DEF GiveUp, PanelReturns, ModelLeave, procVars
<1>12. CASE ModelEnter(c)
  <2> DEFINE n == [l EXCEPT !.pc = "busy"]
  <2>1. n.want = l.want /\ n.chan = l.chan /\ n.pc = "busy"
    BY <1>1, WantChan
  <2>2. me' = [me EXCEPT ![c] = n] /\ slot' = slot
    BY <1>12 DEF ModelEnter, procVars
  <2> HIDE DEF n
  <2>3. Follows(n, l)
    BY <1>1, <2>1, GoesOn DEF Between
  <2> QED
    BY <1>1, <2>2, <2>3, OnlyMoves
<1> QED
  BY <1>3, <1>4, <1>5, <1>6, <1>7, <1>8, <1>9, <1>10, <1>11, <1>12 DEF Request
-----------------------------------------------------------------------------
LEMMA SwitchAwake ==
  ASSUME Awake, NEW a \in Actor, SwitchStep(a)
  PROVE  ChannelsNext
<1> DEFINE l == me[a]
<1>1. /\ me \in [Actor -> Goroutine] /\ l \in Local /\ WellFormed(l) /\ Attached(l, slot)
      /\ slot \in [Model -> Slot] /\ \A b \in Actor : Attached(me[b], slot)
  BY DEF Awake, Typed, TypeOK, ProcTypeOK, Goroutine
<1>2. CASE StopAll(a)
  <2> DEFINE gone == {m \in Model : slot[m].present /\ ~Survives(m)}
             dead == {[model |-> m, cmd |-> slot[m].cmd, spid |-> slot[m].spid] : m \in gone}
             one == [l EXCEPT !.pc = "kill", !.victims = dead]
             next == [me EXCEPT ![a] = one]
  <2>1. /\ me' = Drop(next, gone) /\ l.pc = "stop"
        /\ slot' = [m \in Model |-> IF m \in gone THEN NoSlot ELSE slot[m]]
    BY <1>1, <1>2 DEF StopAll
  <2>2. \A m \in Model \ gone : slot'[m] = slot[m]
    BY <2>1
  <2>3. one.pc = "kill" /\ one.want = l.want /\ one.chan = l.chan
    BY <1>1 DEF Local
  <2>4. one \in Goroutine
    <3>1. dead \subseteq [model : Model, cmd : Proc \cup {None}, spid : Proc \cup {None}]
      BY <1>1 DEF Slot
    <3>2. one \in Local
      BY <1>1, <3>1, ZenonT(60) DEF Local, PCs
    <3>3. one.kind = l.kind /\ l.kind \in {"coding", "background"}
      BY <1>1, <2>1 DEF Local, WellFormed
    <3> QED
      BY <1>1, <2>3, <3>2, <3>3 DEF Goroutine, WellFormed
  <2> HIDE DEF gone, one
  <2>5. Follows(one, l)
    BY <1>1, <2>3, GoesOn DEF Between
  <2>6. /\ next \in [Actor -> Goroutine] /\ next[a].pc = "kill"
        /\ \A b \in Actor : /\ Attached(next[b], slot)
                            /\ next[b].chan = me[b].chan /\ next[b].want = me[b].want
    BY <1>1, <2>3, <2>4, <2>5 DEF Follows
  <2> HIDE DEF next
  <2>7. \A b \in Actor : Attached(me[b], slot)'
    BY <2>1, <2>2, <2>6, DropDetaches
  <2>8. ASSUME NEW b \in Actor, me[b].chan = "open"  PROVE me'[b].chan # "dead" \/ Stranding(me[b].want)
    <3>1. CASE me[b].want \in gone
      BY <2>1, <3>1 DEF Stranding, gone
    <3>2. CASE me[b].want \notin gone
      BY <2>1, <2>2, <2>6, <2>8, <3>2, DropDetaches
    <3> QED
      BY <3>1, <3>2
  <2>9. me'[a].pc = "kill"
    BY <2>1, <2>2, <2>6, DropDetaches
  <2>10. ReadyShut
    <3>1. ~NoSlot.ready
      BY DEF NoSlot
    <3>2. \A m \in Model : slot'[m] \in {NoSlot, slot[m]}
      BY <2>1
    <3> QED
      BY <3>1, <3>2 DEF ReadyShut
  <2>11. StaysShut
    BY <2>1, <2>9 DEF StaysShut
  <2> QED
    BY <2>7, <2>8, <2>10, <2>11 DEF ChannelsNext
<1>3. CASE KillVictims(a)
  <2> DEFINE n == [l EXCEPT !.pc = "launch", !.victims = {}, !.todo = Targets(l)]
  <2>1. n.want = l.want /\ n.chan = l.chan /\ n.pc = "launch"
    BY <1>1 DEF Local
  <2>2. me' = [me EXCEPT ![a] = n] /\ slot' = slot
    BY <1>1, <1>3 DEF KillVictims
  <2> HIDE DEF n
  <2>3. Follows(n, l)
    BY <1>1, <2>1, GoesOn DEF Between
  <2> QED
    BY <2>2, <2>3, OnlyMoves
<1>4. ASSUME NEW m \in Model, Reuse(a, m)  PROVE ChannelsNext
  <2> DEFINE ch == IF l.want = m THEN Obtained(m) ELSE l.chan
             n == [l EXCEPT !.todo = @ \ {m}, !.await = @ \cup {m}, !.chan = ch]
  <2>1. n.want = l.want /\ n.chan = ch /\ n.pc = l.pc
    BY <1>1 DEF Local
  <2>2. me' = [me EXCEPT ![a] = n] /\ slot' = slot /\ l.pc = "launch" /\ slot[m].present
    BY <1>1, <1>4 DEF Reuse, Running, procVars
  <2> HIDE DEF n
  <2>3. Follows(n, l)
    BY <1>1, <2>1, <2>2 DEF Attached, Follows, Between, Obtained
  <2> QED
    BY <2>2, <2>3, OnlyMoves
<1>5. ASSUME NEW m \in Model, LeaveAsleep(a, m)  PROVE ChannelsNext
  <2> DEFINE n == [l EXCEPT !.todo = @ \ {m}]
  <2>1. n.want = l.want /\ n.chan = l.chan /\ n.pc = l.pc
    BY <1>1 DEF Local
  <2>2. me' = [me EXCEPT ![a] = n] /\ slot' = slot
    BY <1>1, <1>5 DEF LeaveAsleep, procVars
  <2> HIDE DEF n
  <2>3. Follows(n, l)
    BY <1>1, <2>1, GoesOn
  <2> QED
    BY <2>2, <2>3, OnlyMoves
<1>6. ASSUME NEW m \in Model, Spawn(a, m)  PROVE ChannelsNext
  <2> DEFINE started(x) == [l EXCEPT !.pc = "register", !.cur = m, !.fresh = x]
             failed == [l EXCEPT !.pc = "register", !.cur = m]
  <2>1. \A x : started(x).want = l.want /\ started(x).chan = l.chan /\ started(x).pc = "register"
    BY <1>1 DEF Local
  <2>2. failed.want = l.want /\ failed.chan = l.chan /\ failed.pc = "register"
    BY <1>1 DEF Local
  <2>3. (\E x : me' = [me EXCEPT ![a] = started(x)]) \/ me' = [me EXCEPT ![a] = failed]
    BY <1>1, <1>6 DEF Spawn
  <2> HIDE DEF started, failed
  <2>4. Follows(failed, l) /\ \A x : Follows(started(x), l)
    BY <1>1, <2>1, <2>2, GoesOn DEF Between
  <2> QED
    BY <1>6, <2>3, <2>4, OnlyMoves DEF Spawn
<1>7. CASE Register(a)
  <2> DEFINE m == l.cur
             base == Drop(me, {m})
             next == [l EXCEPT !.pc = IF l.kind = "ondemand" THEN "publish" ELSE "launch",
                               !.cur = None, !.fresh = None,
                               !.todo = @ \ {m}, !.await = @ \cup {m},
                               !.chan = IF l.want = m THEN "open" ELSE base[a].chan]
             new == [NoSlot EXCEPT !.present = TRUE, !.cmd = l.fresh]
  <2>1. /\ me' = [base EXCEPT ![a] = next] /\ slot' = [slot EXCEPT ![m] = new]
        /\ l.pc = "register" /\ l.kind # "restart"
    BY <1>7 DEF Register
  <2>2. m \in Model
    BY <1>1, <2>1 DEF WellFormed
  <2>3. /\ next.pc \in {"publish", "launch"} /\ next.want = l.want
        /\ next.chan = IF l.want = m THEN "open" ELSE base[a].chan
    BY <1>1 DEF Local
  <2>4. new.present /\ ~new.closed /\ ~new.ready
    BY DEF NoSlot
  <2> HIDE DEF new
  <2>5. slot'[m] = new /\ \A n \in Model \ {m} : slot'[n] = slot[n]
    BY <1>1, <2>1, <2>2
  <2>6. \A b \in Actor : Attached(base[b], slot')
    BY <1>1, <2>5, DropDetaches
  <2>7. base[a].want = l.want
    <3>1. \A x, y : [l EXCEPT !.chan = x, !.lost = y].want = l.want
      BY <1>1 DEF Local
    <3>2. PICK x, y : base[a] = [l EXCEPT !.chan = x, !.lost = y]
      BY DEF Drop
    <3>3. [l EXCEPT !.chan = x, !.lost = y].want = l.want
      BY <3>1
    <3> HIDE DEF base
    <3> QED
      BY <3>2, <3>3
  <2>8. DOMAIN base = Actor
    BY DEF Drop
  <2>a. \A b \in Actor : me[b].want # m => base[b].chan = me[b].chan
    BY <1>1, <2>5, DropDetaches
  <2>b. m = l.cur
    OBVIOUS
  <2> HIDE DEF m, base, next
  <2>9. Attached(next, slot')
    BY <2>2, <2>3, <2>4, <2>5, <2>6, <2>7 DEF Attached, Between
  <2>10. \A b \in Actor : Attached(me[b], slot)'
    BY <2>1, <2>6, <2>8, <2>9
  <2>11. ASSUME NEW b \in Actor, me[b].chan = "open"
         PROVE  me'[b].chan # "dead" \/ Stranding(me[b].want)
    BY <2>1, <2>3, <2>8, <2>11, <2>a, <2>b DEF Stranding
  <2>12. me'[a].pc # "register"
    BY <2>1, <2>3, <2>8
  <2>13. ReadyShut /\ StaysShut
    BY <2>1, <2>4, <2>5, <2>12 DEF ReadyShut, StaysShut
  <2> QED
    BY <2>10, <2>11, <2>13 DEF ChannelsNext
<1>8. CASE PublishSwitch(a) \/ PublishOnDemand(a)
  <2> DEFINE n == [l EXCEPT !.pc = "wait"]
  <2>1. n.want = l.want /\ n.chan = l.chan /\ n.pc = "wait"
    BY <1>1 DEF Local
  <2>2. me' = [me EXCEPT ![a] = n] /\ slot' = slot
    BY <1>1, <1>8 DEF PublishSwitch, PublishOnDemand, procVars
  <2> HIDE DEF n
  <2>3. Follows(n, l)
    BY <1>1, <2>1, GoesOn DEF Between
  <2> QED
    BY <2>2, <2>3, OnlyMoves
<1>9. ASSUME NEW m \in Model, ProbeAnswered(a, m) \/ ProbeGivenUp(a, m)
      PROVE  ChannelsNext
  <2> DEFINE one == [l EXCEPT !.await = @ \ {m}, !.probed = @ \cup {m}]
             two == [l EXCEPT !.await = @ \ {m}, !.failed = TRUE]
  <2>1. \A n \in {one, two} : n.want = l.want /\ n.chan = l.chan /\ n.pc = l.pc
    BY <1>1 DEF Local
  <2>2. (\E n \in {one, two} : me' = [me EXCEPT ![a] = n]) /\ slot' = slot
    BY <1>1, <1>9 DEF ProbeAnswered, ProbeGivenUp, procVars
  <2> HIDE DEF one, two
  <2>3. \A n \in {one, two} : Follows(n, l)
    BY <1>1, <2>1, GoesOn
  <2> QED
    BY <2>2, <2>3, OnlyMoves
<1>10. ASSUME NEW m \in Model, MarkReady(a, m)  PROVE ChannelsNext
  <2> DEFINE n == [l EXCEPT !.probed = @ \ {m}]
             next == [me EXCEPT ![a] = n]
  <2>1. n.want = l.want /\ n.chan = l.chan /\ n.pc = l.pc /\ n \in Goroutine
    BY <1>1 DEF Local, Goroutine, WellFormed
  <2>2. MarkSlotReady(next, m)
    BY <1>1, <1>10 DEF MarkReady
  <2> HIDE DEF n
  <2>3. Follows(n, l)
    BY <1>1, <2>1, GoesOn
  <2>4. next \in [Actor -> Goroutine] /\ \A b \in Actor : Follows(next[b], me[b])
    BY <1>1, <2>1, <2>3 DEF Follows
  <2> HIDE DEF next
  <2> QED
    BY <2>2, <2>4, MarkWakes
<1>11. CASE SwitchDone(a)
  <2> DEFINE ch == IF l.chan = "none" THEN "dead" ELSE l.chan
  <2>1. Follows(Await(l, ch), l)
    <3>1. Attached(Await(l, ch), slot) /\ Await(l, ch).chan = ch
      BY <1>1, AwaitAttached DEF Await, At
    <3> QED
      BY <3>1 DEF Follows
  <2>2. Follows(At("done"), l) /\ Follows(At("idle"), l)
    BY AtFollows
  <2> DEFINE end == CASE a = Starter -> At("done")
                      [] a = Looper -> At("idle")
                      [] l.failed -> At("done")
                      [] OTHER -> Await(l, ch)
  <2>3. me' = [me EXCEPT ![a] = end] /\ slot' = slot
    BY <1>11 DEF SwitchDone, procVars
  <2>4. Follows(end, l)
    <3>1. CASE a = Starter \/ a = Looper
      BY <2>2, <3>1, ActorAssumption
    <3>2. CASE a # Starter /\ a # Looper
      BY <2>1, <2>2, <3>2
    <3> QED
      BY <3>1, <3>2
  <2> HIDE DEF end
  <2> QED
    BY <2>3, <2>4, OnlyMoves
<1> QED
  BY <1>2, <1>3, <1>4, <1>5, <1>6, <1>7, <1>8, <1>9, <1>10, <1>11 DEF SwitchStep
-----------------------------------------------------------------------------
LEMMA MemberAwake ==
  ASSUME Awake, NEW a \in Actor, MemberStep(a)
  PROVE  ChannelsNext
<1> DEFINE l == me[a]
<1>1. /\ me \in [Actor -> Goroutine] /\ l \in Local /\ Attached(l, slot) /\ WellFormed(l)
      /\ slot \in [Model -> Slot] /\ \A b \in Actor : Attached(me[b], slot)
  BY DEF Awake, Typed, TypeOK, ProcTypeOK, Goroutine
<1>2. Follows(Back(a), l) /\ Follows(At("done"), l)
  BY BackFollows, AtFollows
<1>4. CASE GpuFree(a)
  <2> DEFINE n == [l EXCEPT !.pc = "spawn"]
  <2>1. n.want = l.want /\ n.chan = l.chan /\ n.pc = "spawn"
    BY <1>1 DEF Local
  <2>2. me' = [me EXCEPT ![a] = n] /\ slot' = slot
    BY <1>1, <1>4 DEF GpuFree, procVars
  <2> HIDE DEF n
  <2>3. Follows(n, l)
    BY <1>1, <2>1, GoesOn DEF Between
  <2> QED
    BY <2>2, <2>3, OnlyMoves
<1>5. ASSUME NEW o \in Model, GpuTaken(a, o)  PROVE ChannelsNext
  <2> DEFINE n == [l EXCEPT !.pc = "suspend", !.cur = o]
  <2>1. n.want = l.want /\ n.chan = l.chan /\ n.pc = "suspend"
    BY <1>1 DEF Local
  <2>2. (\E x \in {n, At("done"), Back(a)} : me' = [me EXCEPT ![a] = x]) /\ slot' = slot
    BY <1>1, <1>5 DEF GpuTaken, procVars
  <2> HIDE DEF n
  <2>3. Follows(n, l)
    BY <1>1, <2>1, GoesOn DEF Between
  <2> QED
    BY <1>2, <2>2, <2>3, OnlyMoves
<1>6. ASSUME Suspend(a) \/ StopSlot(a)  PROVE ChannelsNext
  <2> DEFINE to(p) == [l EXCEPT !.pc = p]
             n == to(IF l.pc = "suspend" THEN "stopslot" ELSE "suspended")
  <2>1. n.want = l.want /\ n.chan = l.chan /\ n.pc \in {"stopslot", "suspended"}
    BY <1>1, WantChan
  <2>2. me' = [me EXCEPT ![a] = n] /\ ChannelsKept
    <3>1. CASE Suspend(a)
      BY <1>1, <3>1 DEF Suspend, ChannelsKept, Slot
    <3>2. CASE StopSlot(a)
      BY <1>1, <3>2 DEF StopSlot, ChannelsKept, Slot
    <3> QED
      BY <1>6, <3>1, <3>2
  <2> HIDE DEF n
  <2>3. Follows(n, l)
    BY <1>1, <2>1, GoesOn DEF Between
  <2> QED
    BY <2>2, <2>3, OneMoves
<1>7. CASE Suspended(a)
  <2> DEFINE m == l.cur
             next == [l EXCEPT !.pc = "spawn", !.cur = None, !.lost = @ \ {m}]
             n == IF l.kind = "sleep" THEN Back(a) ELSE next
             f == [me EXCEPT ![a] = n]
  <2>1. me' = Turn(f, m, "dead") /\ l.pc = "suspended"
    BY <1>7 DEF Suspended
  <2>2. /\ \A o \in Model \ {m} : slot'[o] = slot[o]
        /\ m \in Model => slot'[m].present = slot[m].present
    <3>1. slot' \in {slot, [slot EXCEPT ![m].cmd = None, ![m].spid = None, ![m].closed = FALSE]}
      BY <1>7 DEF Suspended
    <3> QED
      BY <1>1, <3>1 DEF Slot
  <2>3. next.want = l.want /\ next.chan = l.chan /\ next.pc = "spawn"
    BY <1>1 DEF Local
  <2>4. l.kind # "sleep" => next \in Goroutine
    <3>1. next \in Local
      BY <1>1, ZenonT(60) DEF Local, PCs
    <3>2. l.kind # "sleep" => l.kind \in {"ondemand", "restart"}
      BY <1>1, <2>1 DEF WellFormed
    <3> QED
      BY <1>1, <3>1, <3>2 DEF Goroutine, WellFormed, Local
  <2>5. Back(a) \in Goroutine /\ Back(a).pc # "suspended"
    BY BackType, BackSettled DEF Awake, Settled
  <2>s. /\ m = l.cur
        /\ \A o \in Model : slot'[o].ready = slot[o].ready
    <3>1. slot' \in {slot, [slot EXCEPT ![m].cmd = None, ![m].spid = None, ![m].closed = FALSE]}
      BY <1>7 DEF Suspended
    <3> QED
      BY <1>1, <3>1 DEF Slot
  <2> HIDE DEF m, next
  <2>6. Follows(next, l)
    BY <1>1, <2>3, GoesOn DEF Between
  <2>7. n \in Goroutine /\ Follows(n, l) /\ n.pc # "suspended" /\ (n.chan = "open" => n.want = l.want)
    BY <1>2, <2>3, <2>4, <2>5, <2>6, BackFollows
  <2> HIDE DEF n
  <2>8. f \in [Actor -> Goroutine] /\ f[a] = n /\ \A b \in Actor \ {a} : f[b] = me[b]
    BY <1>1, <2>7
  <2> HIDE DEF f
  <2>9. \A b \in Actor : Follows(f[b], me[b]) /\ (f[b].chan = "open" => f[b].want = me[b].want)
    BY <1>1, <2>7, <2>8 DEF Follows
  <2>10. ASSUME NEW b \in Actor
         PROVE  /\ Attached(me[b], slot)' /\ me'[b].pc = f[b].pc
                /\ \/ me'[b].chan = f[b].chan
                   \/ f[b].chan = "open" /\ f[b].want = m
    <3>1. Attached(f[b], slot)
      BY <2>9 DEF Follows
    <3>2. PICK t : t = slot'
      OBVIOUS
    <3>3. /\ Attached(Turn(f, m, "dead")[b], t) /\ Turn(f, m, "dead")[b].pc = f[b].pc
          /\ \/ Turn(f, m, "dead")[b].chan = f[b].chan
             \/ f[b].chan = "open" /\ f[b].want = m
      <4>1. Attached(Turn(f, m, "dead")[b], t)
        BY <2>2, <2>8, <3>1, <3>2, TurnDetaches
      <4> QED
        BY <2>8, <4>1, TurnTurns
    <3> QED
      BY <2>1, <3>2, <3>3
  <2>11. ASSUME NEW b \in Actor, me[b].chan = "open"
         PROVE  me'[b].chan # "dead" \/ Stranding(me[b].want)
    BY <2>1, <2>9, <2>10, <2>11, <2>s DEF Follows, Stranding
  <2>12. me'[a].pc # "suspended"
    BY <2>7, <2>8, <2>10
  <2>13. ReadyShut /\ StaysShut
    BY <2>1, <2>2, <2>12, <2>s DEF ReadyShut, StaysShut
  <2> QED
    BY <2>10, <2>11, <2>13 DEF ChannelsNext
<1>8. CASE RestartNot(a) \/ SleepNot(a)
  BY <1>2, <1>8, OnlyMoves DEF RestartNot, SleepNot, procVars
<1>9. CASE RestartBegins(a)
  <2> DEFINE n == [l EXCEPT !.pc = "acquire", !.lost = {}]
  <2>1. n.want = l.want /\ n.chan = l.chan /\ n.pc = "acquire"
    BY <1>1 DEF Local
  <2>2. me' = [me EXCEPT ![a] = n] /\ slot' = slot
    BY <1>1, <1>9 DEF RestartBegins, procVars
  <2> HIDE DEF n
  <2>3. Follows(n, l)
    BY <1>1, <2>1, GoesOn DEF Between
  <2> QED
    BY <2>2, <2>3, OnlyMoves
<1>10. CASE SleepBegins(a)
  <2> DEFINE n == [l EXCEPT !.pc = "suspend", !.cur = l.want, !.lost = {}]
  <2>1. n.want = l.want /\ n.chan = l.chan /\ n.pc = "suspend"
    BY <1>1 DEF Local
  <2>2. me' = [me EXCEPT ![a] = n] /\ slot' = slot
    BY <1>1, <1>10 DEF SleepBegins, procVars
  <2> HIDE DEF n
  <2>3. Follows(n, l)
    BY <1>1, <2>1, GoesOn DEF Between
  <2> QED
    BY <2>2, <2>3, OnlyMoves
<1>11. CASE RestartEnds(a)
  <2>1. me' = [me EXCEPT ![a] = Back(a)] /\ ChannelsKept
    BY <1>1, <1>11 DEF RestartEnds, ChannelsKept, Slot
  <2> QED
    BY <1>2, <2>1, OneMoves
<1> QED
  BY <1>4, <1>5, <1>6, <1>7, <1>8, <1>9, <1>10, <1>11 DEF MemberStep
-----------------------------------------------------------------------------
LEMMA LoopAwake ==
  ASSUME Awake, LoopStep
  PROVE  ChannelsNext
<1> DEFINE l == me[Looper]
<1>1. /\ Looper \in Actor /\ me \in [Actor -> Goroutine] /\ l \in Local /\ Attached(l, slot)
      /\ slot \in [Model -> Slot] /\ \A b \in Actor : Attached(me[b], slot)
  BY DEF Actor, Awake, Typed, TypeOK, ProcTypeOK, Goroutine
<1>2. \A p \in {"idle", "items", "done"} : Follows(At(p), l)
  BY AtFollows
<1>3. CASE SwitchBack
  <2> DEFINE n == [l EXCEPT !.pc = "stop", !.kind = "background"]
  <2>1. n.want = l.want /\ n.chan = l.chan /\ n.pc = "stop"
    BY <1>1 DEF Local
  <2>2. me' = [me EXCEPT ![Looper] = n] /\ slot' = slot
    BY <1>1, <1>3 DEF SwitchBack, procVars
  <2> HIDE DEF n
  <2>3. Follows(n, l)
    BY <1>1, <2>1, GoesOn DEF Between
  <2> QED
    BY <1>1, <2>2, <2>3, OnlyMoves
<1>4. CASE ForgetCoding \/ ClearCoding \/ Scan
  <2> DEFINE to(p) == [l EXCEPT !.pc = p]
             scan == [l EXCEPT !.pc = "items", !.todo = {m \in Model : slot[m].present}]
  <2>1. \E n \in {to("clearcoding"), to("idle"), scan} : me' = [me EXCEPT ![Looper] = n]
    BY <1>1, <1>4 DEF ForgetCoding, ClearCoding, Scan
  <2>2. \A n \in {to("clearcoding"), to("idle"), scan} :
          n.want = l.want /\ n.chan = l.chan /\ n.pc \in {"clearcoding", "idle", "items"}
    BY <1>1 DEF Local, Between
  <2>3. l.pc \in {"clearcoding", "idle"} /\ slot' = slot
    BY <1>4 DEF ForgetCoding, ClearCoding, Scan, Between, procVars
  <2> HIDE DEF to, scan
  <2>4. \A n \in {to("clearcoding"), to("idle"), scan} : Follows(n, l)
    BY <1>1, <2>2, <2>3 DEF Attached, Follows, Between
  <2> QED
    BY <1>1, <2>1, <2>3, <2>4, OnlyMoves
<1>5. CASE TickEnds \/ LoopReturns
  BY <1>1, <1>2, <1>5, OnlyMoves DEF TickEnds, LoopReturns, procVars
<1>6. CASE ItemMarked
  <2> DEFINE n == [At("items") EXCEPT !.todo = l.todo]
             next == [me EXCEPT ![Looper] = n]
  <2>1. n.pc = "items" /\ n.chan = "none"
    BY DEF At
  <2>2. n \in Goroutine
    <3>1. At("items") \in Goroutine
      BY AtType
    <3>2. n \in Local
      BY <1>1, <3>1 DEF Goroutine, Local
    <3> QED
      BY <3>2 DEF Goroutine, WellFormed, At
  <2>3. MarkSlotReady(next, l.cur)
    BY <1>6 DEF ItemMarked
  <2> HIDE DEF n
  <2>4. Follows(n, l)
    BY <2>1 DEF Attached, Follows
  <2>5. next \in [Actor -> Goroutine] /\ \A b \in Actor : Follows(next[b], me[b])
    BY <1>1, <2>2, <2>4 DEF Follows
  <2> HIDE DEF next
  <2> QED
    BY <2>3, <2>5, MarkWakes
<1>7. ASSUME NEW m \in Model, LoopItem(m)  PROVE ChannelsNext
  <2> DEFINE sleep == [l EXCEPT !.pc = "sleeplock", !.kind = "sleep", !.want = m]
             mark == [l EXCEPT !.pc = "mark", !.cur = m]
             restart == [l EXCEPT !.pc = "restartlock", !.kind = "restart", !.want = m]
             less(r) == [r EXCEPT !.todo = @ \ {m}]
  <2>1. l.pc = "items" /\ ChannelsKept
    <3>1. \E x : slot' = slot \/ slot' = [slot EXCEPT ![m] = [slot[m] EXCEPT !.spid = x]]
      BY <1>7 DEF LoopItem, ItemRests, ItemSleeps, ItemProbed, ItemGone, procVars
    <3> QED
      BY <1>1, <1>7, <3>1
         DEF LoopItem, ItemRests, ItemSleeps, ItemProbed, ItemGone, Item, ChannelsKept, Slot
  <2>2. \E r \in {l, sleep, mark, restart} : me' = [me EXCEPT ![Looper] = less(r)]
    BY <1>7 DEF LoopItem, ItemRests, ItemSleeps, ItemProbed, ItemGone, Looked
  <2>3. l.chan = "none"
    BY <1>1, <2>1 DEF Attached, Between
  <2>4. \A r \in {l, sleep, mark, restart} :
          less(r).chan = "none" /\ less(r).pc \in {"items", "sleeplock", "mark", "restartlock"}
    BY <1>1, <2>1, <2>3 DEF Local
  <2> HIDE DEF sleep, mark, restart, less
  <2>5. \A r \in {l, sleep, mark, restart} : Follows(less(r), l)
    BY <2>4 DEF Attached, Follows
  <2> QED
    BY <1>1, <2>1, <2>2, <2>5, OneMoves
<1> QED
  BY <1>3, <1>4, <1>5, <1>6, <1>7 DEF LoopStep, LoopTick

LEMMA StartAwake ==
  ASSUME Awake, StartBegins
  PROVE  ChannelsNext
<1> DEFINE l == me[Starter]
           n == [l EXCEPT !.pc = "stop", !.kind = "background"]
<1>1. Starter \in Actor /\ me \in [Actor -> Goroutine] /\ l \in Local /\ Attached(l, slot)
  BY DEF Actor, Awake, Typed, TypeOK
<1>2. n.want = l.want /\ n.chan = l.chan /\ n.pc = "stop"
  BY <1>1 DEF Local
<1>3. (\E x \in {n, At("done")} : me' = [me EXCEPT ![Starter] = x]) /\ slot' = slot
  BY <1>1 DEF StartBegins, procVars
<1> HIDE DEF n
<1>4. Follows(n, l) /\ Follows(At("done"), l)
  BY <1>1, <1>2, GoesOn, AtFollows DEF Between
<1> QED
  BY <1>1, <1>3, <1>4, OnlyMoves

(* The steps of no goroutine: a signal, time, and the processes. *)
LEMMA OtherAwake ==
  ASSUME Awake,
         \/ Signal \/ Shutdown \/ Halted \/ LeaseLapses
         \/ (\E m \in Model : IdleElapses(m)) \/ (\E p \in Proc : Reaped(p)) \/ World
  PROVE  ChannelsNext
<1>1. slot \in [Model -> Slot] /\ \A b \in Actor : Attached(me[b], slot)
  BY DEF Awake, Typed, TypeOK, ProcTypeOK
<1>2. CASE Signal \/ Halted \/ LeaseLapses \/ (\E m \in Model : IdleElapses(m)) \/ World
  <2>1. me' = me /\ slot' = slot
    BY <1>2 DEF Signal, Halted, LeaseLapses, IdleElapses, World, Serve, Die, Detach, BackoffElapses,
                vars, procVars
  <2> QED
    BY <1>1, <2>1, SlotsShut DEF ChannelsNext
<1>3. CASE Shutdown \/ \E p \in Proc : Reaped(p)
  <2>1. me' = me /\ ChannelsKept
    <3>1. CASE Shutdown
      BY <1>1, <3>1 DEF Shutdown, ChannelsKept, Slot
    <3>2. CASE \E p \in Proc : Reaped(p)
      <4>1. PICK p \in Proc : Reaped(p)
        BY <3>2
      <4> DEFINE m == os[p].model
      <4>2. \/ slot' = slot
            \/ \E x : slot' = [slot EXCEPT ![m] = [slot[m] EXCEPT !.cmd = None, !.spid = x]]
            \/ slot' = [slot EXCEPT ![m] = [slot[m] EXCEPT !.cmd = None, !.spid = None, !.ready = FALSE]]
        BY <4>1 DEF Reaped, Reap
      <4> HIDE DEF m
      <4>3. \A r \in Slot : \A x :
              /\ LET t == [r EXCEPT !.cmd = None, !.spid = x]
                 IN  t.present = r.present /\ t.closed = r.closed /\ (t.ready => r.ready)
              /\ LET t == [r EXCEPT !.cmd = None, !.spid = None, !.ready = FALSE]
                 IN  t.present = r.present /\ t.closed = r.closed /\ (t.ready => r.ready)
        BY DEF Slot
      <4>4. \E r : /\ slot' = slot \/ slot' = [slot EXCEPT ![m] = r]
                   /\ m \in Model => r.present = slot[m].present /\ r.closed = slot[m].closed
                   /\ m \in Model /\ r.ready => slot[m].ready
        BY <1>1, <4>2, <4>3, ZenonT(60)
      <4>5. ChannelsKept
        BY <1>1, <4>4 DEF ChannelsKept
      <4> QED
        BY <4>1, <4>5 DEF Reaped
    <3> QED
      BY <1>3, <3>1, <3>2
  <2>2. \A b \in Actor : Attached(me[b], slot)'
    BY <1>1, <2>1 DEF Attached, ChannelsKept
  <2> QED
    BY <2>1, <2>2, SlotsShut DEF ChannelsNext
<1> QED
  BY <1>2, <1>3

LEMMA NextAwake ==
  ASSUME Awake, [Next]_vars
  PROVE  Awake' /\ ChannelsNext
<1>1. Typed'
  BY NextType DEF Awake
<1>2. CASE UNCHANGED vars
  <2>1. me' = me /\ slot' = slot
    BY <1>2 DEF vars, procVars
  <2> QED
    BY <1>1, <2>1, SlotsShut DEF Awake, ChannelsNext
<1>3. CASE Next
  <2>1. ChannelsNext
    BY <1>3, RequestAwake, SwitchAwake, MemberAwake, LoopAwake, StartAwake, OtherAwake DEF Next
  <2> QED
    BY <1>1, <2>1 DEF Awake, ChannelsNext
<1> QED
  BY <1>2, <1>3

LEMMA InitAwake == Init => Awake
<1>1. \A p \in {"start", "idle", "done"} : Attached(At(p), slot)
  BY AtFollows
<1>2. Init => \A a \in Actor : me[a] \in {At("start"), At("idle"), At("done")}
  BY DEF Init
<1> QED
  BY <1>1, <1>2, InitType DEF Awake

-----------------------------------------------------------------------------
(* Who may mark a slot ready *)

(* The models that l is about to mark ready, or may be after one more probe. *)
Pending(l) == l.await \cup l.probed \cup (IF l.pc = "mark" THEN {l.cur} ELSE {})

(* What a goroutine awaits, and who may probe and sleep: nobody awaits readiness *)
(* outside a switch or load, and only Loop marks and sleeps what it has probed.  *)
Tidy(a, l) ==
  /\ l.pc \notin {"launch", "register", "publish", "wait"} => l.await = {} /\ l.probed = {}
  /\ l.pc = "mark" \/ l.kind = "sleep" => a = Looper
  /\ l.kind = "ondemand" => l.want \notin Autostart

TidyInv == \A a \in Actor : Tidy(a, me[a])

(* What concerns readiness in the local state of a goroutine. *)
SameMarks(k, l) ==
  /\ k.pc = l.pc /\ k.kind = l.kind /\ k.want = l.want /\ k.cur = l.cur
  /\ k.await = l.await /\ k.probed = l.probed

(* Whatever a begins to await is not asleep. *)
Gains(a) ==
  \A m \in Pending(me'[a]) :
    m \in Pending(me[a]) \/ ~slot'[m].sleeping \/ (me[a].pc = "launch" /\ Running(m) /\ slot' = slot)

(* A slot gets ready only when somebody who awaited it marks it, and otherwise *)
(* stays as it was.                                                            *)
ReadyKept ==
  \A m \in Model :
    slot'[m].ready =>
      /\ slot'[m].present = slot[m].present /\ slot'[m].sleeping = slot[m].sleeping
      /\ slot[m].ready \/ (slot[m].present /\ \E b \in Actor : m \in Pending(me[b]))

(* What every step establishes about whom somebody awaits and marks. *)
MarksNext == TidyInv' /\ (\A b \in Actor : Gains(b)) /\ ReadyKept

LEMMA MarksMove ==
  ASSUME TidyInv, NEW a \in Actor, \A b \in Actor \ {a} : SameMarks(me'[b], me[b]),
         Tidy(a, me'[a]), Gains(a), ReadyKept
  PROVE  MarksNext
<1>1. \A b \in Actor \ {a} : Tidy(b, me'[b]) /\ Gains(b)
  BY DEF SameMarks, TidyInv, Tidy, Gains, Pending
<1> QED
  BY <1>1 DEF MarksNext, TidyInv, Tidy

LEMMA OneMarks ==
  ASSUME Typed, NEW a \in Actor, NEW k, me' = [me EXCEPT ![a] = k]
  PROVE  me'[a] = k /\ \A b \in Actor \ {a} : SameMarks(me'[b], me[b])
<1>1. me'[a] = k /\ \A b \in Actor \ {a} : me'[b] = me[b]
  BY DEF Typed
<1> QED
  BY <1>1 DEF SameMarks

LEMMA TurnMarks ==
  ASSUME NEW f \in [Actor -> Goroutine], NEW m, NEW ch, NEW b \in Actor
  PROVE  SameMarks(Turn(f, m, ch)[b], f[b])
<1>1. f[b] \in Local
  BY DEF Goroutine
<1>2. SameMarks([f[b] EXCEPT !.chan = ch], f[b])
  BY <1>1 DEF SameMarks, Local
<1>3. Turn(f, m, ch)[b] \in {f[b], [f[b] EXCEPT !.chan = ch]}
  BY DEF Turn
<1> QED
  BY <1>2, <1>3 DEF SameMarks

LEMMA DropMarks ==
  ASSUME NEW f \in [Actor -> Goroutine], NEW D, NEW b \in Actor
  PROVE  SameMarks(Drop(f, D)[b], f[b])
<1>1. f[b] \in Local
  BY DEF Goroutine
<1>2. \A x, y : SameMarks([f[b] EXCEPT !.chan = x, !.lost = y], f[b])
  BY <1>1 DEF SameMarks, Local
<1>3. PICK x, y : Drop(f, D)[b] = [f[b] EXCEPT !.chan = x, !.lost = y]
  BY DEF Drop
<1>4. SameMarks([f[b] EXCEPT !.chan = x, !.lost = y], f[b])
  BY <1>2
<1> QED
  BY <1>3, <1>4

(* A goroutine that awaits nothing. *)
Blank(k) == k.pc # "mark" /\ k.kind = "none" /\ k.await = {} /\ k.probed = {}

LEMMA BlankTidy ==
  ASSUME NEW a, NEW k, Blank(k)
  PROVE  Tidy(a, k) /\ Pending(k) = {}
BY DEF Blank, Tidy, Pending

LEMMA AtBlank ==
  ASSUME NEW p, p # "mark"
  PROVE  /\ Blank(At(p))
         /\ \A m : Blank([At(p) EXCEPT !.want = m]) /\ Blank([At(p) EXCEPT !.todo = m])
BY DEF Blank, At

LEMMA AwaitBlank ==
  ASSUME NEW l, NEW ch
  PROVE  Blank(Await(l, ch))
BY DEF Blank, Await, At

LEMMA BackBlank ==
  ASSUME NEW a
  PROVE  Blank(Back(a))
<1>1. Blank([At("items") EXCEPT !.todo = me[a].todo])
  BY AtBlank
<1> QED
  BY <1>1, AwaitBlank DEF Back

LEMMA SameReady ==
  ASSUME slot' = slot
  PROVE  ReadyKept
BY DEF ReadyKept

(* A step of one goroutine that awaits no more than before. *)
LEMMA OneAwaits ==
  ASSUME Typed, TidyInv, NEW a \in Actor, NEW k, me' = [me EXCEPT ![a] = k], slot' = slot,
         Tidy(a, k), Pending(k) \subseteq Pending(me[a])
  PROVE  MarksNext
<1>1. me'[a] = k /\ \A b \in Actor \ {a} : SameMarks(me'[b], me[b])
  BY OneMarks
<1> QED
  BY <1>1, MarksMove, SameReady DEF Gains

LEMMA OneBlank ==
  ASSUME Typed, TidyInv, NEW a \in Actor, NEW k, me' = [me EXCEPT ![a] = k], slot' = slot, Blank(k)
  PROVE  MarksNext
<1>1. Tidy(a, k) /\ Pending(k) = {}
  BY DEF Blank, Tidy, Pending
<1> QED
  BY <1>1, OneAwaits

(* A goroutine that goes on awaiting what it did. *)
LEMMA OneSame ==
  ASSUME Typed, TidyInv, NEW a \in Actor, NEW k, me' = [me EXCEPT ![a] = k], slot' = slot,
         k.await = me[a].await, k.probed = me[a].probed, k.pc # "mark",
         k.kind = "sleep" => a = Looper, k.kind = "ondemand" => k.want \notin Autostart,
         k.pc \notin {"launch", "register", "publish", "wait"} =>
           me[a].pc \notin {"launch", "register", "publish", "wait"}
  PROVE  MarksNext
<1>1. Tidy(a, k) /\ Pending(k) \subseteq Pending(me[a])
  BY DEF TidyInv, Tidy, Pending
<1> QED
  BY <1>1, OneAwaits

LEMMA RequestMarks ==
  ASSUME Typed, TidyInv, NEW c \in Caller, Request(c)
  PROVE  MarksNext
<1> DEFINE l == me[c]
<1>1. c \in Actor /\ me \in [Actor -> Goroutine] /\ l \in Local /\ WellFormed(l) /\ Tidy(c, l)
  BY DEF Actor, Typed, Goroutine, TidyInv
<1>2. ASSUME NEW m \in Model, Refuse(c, m) \/ Arrive(c, m)  PROVE MarksNext
  BY <1>1, <1>2, AtBlank, OneBlank DEF Refuse, Arrive, procVars
<1>3. CASE EnsureAlone(c)
  <2> DEFINE m == l.want
             next == [l EXCEPT !.pc = "preempt", !.kind = IF m \in Coding THEN "coding" ELSE "ondemand"]
  <2>1. /\ me' = [me EXCEPT ![c] = IF Running(m) THEN Await(l, Obtained(m))
                                  ELSE IF backoff[m] THEN At("done") ELSE next]
        /\ l.pc = "ensure" /\ slot' = slot /\ m \notin Autostart
    BY <1>3 DEF EnsureAlone, procVars
  <2>2. next.await = l.await /\ next.probed = l.probed /\ next.pc = "preempt" /\ next.want = m
        /\ next.kind # "sleep"
    BY <1>1 DEF Local
  <2> HIDE DEF next
  <2>3. Blank(Await(l, Obtained(m))) /\ Blank(At("done"))
    BY AtBlank, AwaitBlank
  <2>4. CASE Running(m) \/ backoff[m]
    BY <1>1, <2>1, <2>3, <2>4, OneBlank
  <2>5. CASE ~(Running(m) \/ backoff[m])
    BY <1>1, <2>1, <2>2, <2>5, OneSame
  <2> QED
    BY <2>4, <2>5
<1>4. CASE EnsureMember(c)
  <2> DEFINE m == l.want
             kept == slot[m].present /\ (m \in Resident \/ codingModel = None)
             restart == [l EXCEPT !.pc = "restartlock", !.kind = "restart", !.chan = "held"]
             switch == [l EXCEPT !.pc = "lock", !.kind = "background"]
             settled == IF kept /\ Running(m) THEN Await(l, Obtained(m)) ELSE Await(l, "dead")
  <2>1. me' = [me EXCEPT ![c] = settled] \/ me' = [me EXCEPT ![c] = restart]
        \/ me' = [me EXCEPT ![c] = switch]
    BY <1>4 DEF EnsureMember
  <2>2. l.pc = "ensure" /\ slot' = slot
    BY <1>4 DEF EnsureMember, procVars
  <2>3. \A k \in {restart, switch} :
          /\ k.await = l.await /\ k.probed = l.probed /\ k.pc # "mark"
          /\ k.kind \in {"restart", "background"}
    BY <1>1 DEF Local
  <2>4. Blank(settled)
    BY AwaitBlank
  <2> HIDE DEF restart, switch, settled
  <2> QED
    BY <1>1, <2>1, <2>2, <2>3, <2>4, OneSame, OneBlank
<1>5. CASE Preempt(c)
  <2> DEFINE next == [me EXCEPT ![c].pc = "lock"]
  <2>1. l.pc = "preempt" /\ slot' = slot
        /\ (me' = next \/ me' = [next EXCEPT ![reg.by] = [next[reg.by] EXCEPT !.canceled = TRUE]])
    BY <1>1, <1>5 DEF Preempt, procVars
  <2>2. next[c] = [l EXCEPT !.pc = "lock"] /\ \A b \in Actor \ {c} : next[b] = me[b]
    BY <1>1
  <2>3. /\ next[c].pc = "lock" /\ next[c].kind = l.kind /\ next[c].want = l.want
        /\ next[c].await = l.await /\ next[c].probed = l.probed
    BY <1>1, <2>2 DEF Local
  <2>4. \A b \in Actor : next[b] \in Local /\ DOMAIN next = Actor
    BY <1>1, <2>2, SetPc DEF PCs, Goroutine
  <2> HIDE DEF next
  <2>5. \A b \in Actor : me'[b] = next[b] \/ me'[b] = [next[b] EXCEPT !.canceled = TRUE]
    BY <2>1, <2>4
  <2>6. \A b \in Actor : SameMarks(me'[b], next[b])
    BY <2>4, <2>5 DEF SameMarks, Local
  <2>7. \A b \in Actor \ {c} : SameMarks(me'[b], me[b])
    BY <2>2, <2>6
  <2>8. SameMarks(me'[c], next[c])
    BY <1>1, <2>6
  <2>9. Tidy(c, me'[c]) /\ Pending(me'[c]) \subseteq Pending(l)
    BY <1>1, <2>1, <2>3, <2>8 DEF SameMarks, Tidy, Pending
  <2> QED
    BY <1>1, <2>1, <2>7, <2>9, MarksMove, SameReady DEF Gains
<1>6. CASE LockHit(c)
  BY <1>1, <1>6, AwaitBlank, OneBlank DEF LockHit, procVars
<1>7. CASE LockMiss(c)
  <2> DEFINE one == [l EXCEPT !.pc = IF l.kind = "ondemand" THEN "acquire" ELSE "stop"]
  <2>1. l.pc = "lock" /\ slot' = slot /\ me' = [me EXCEPT ![c] = one]
    BY <1>1, <1>7 DEF LockMiss, procVars
  <2>2. one.await = l.await /\ one.probed = l.probed /\ one.pc # "mark" /\ one.kind = l.kind
        /\ one.want = l.want
    BY <1>1 DEF Local
  <2> HIDE DEF one
  <2> QED
    BY <1>1, <2>1, <2>2, OneSame DEF Tidy
<1>8. CASE ChannelClosed(c)
  <2>1. Blank([At("use") EXCEPT !.want = l.want]) /\ Blank(At("done"))
    BY AtBlank
  <2>2. me' = [me EXCEPT ![c] = [At("use") EXCEPT !.want = l.want]] \/ me' = [me EXCEPT ![c] = At("done")]
    BY <1>8 DEF ChannelClosed
  <2>3. slot' = slot
    BY <1>8 DEF ChannelClosed, procVars
  <2> QED
    BY <1>1, <2>1, <2>2, <2>3, OneBlank
<1>9. CASE GiveUp(c) \/ PanelReturns(c) \/ ModelLeave(c)
  BY <1>1, <1>9, AtBlank, OneBlank DEF GiveUp, PanelReturns, ModelLeave, procVars
<1>10. CASE ModelEnter(c)
  <2> DEFINE one == [l EXCEPT !.pc = "busy"]
  <2>1. l.pc = "use" /\ slot' = slot /\ me' = [me EXCEPT ![c] = one]
    BY <1>1, <1>10 DEF ModelEnter, procVars
  <2>2. one.pc = "busy" /\ one.kind = l.kind /\ one.want = l.want
        /\ one.await = l.await /\ one.probed = l.probed
    BY <1>1 DEF Local
  <2> HIDE DEF one
  <2> QED
    BY <1>1, <2>1, <2>2, OneSame DEF Tidy
<1> QED
  BY <1>2, <1>3, <1>4, <1>5, <1>6, <1>7, <1>8, <1>9, <1>10 DEF Request

(* markSlotReady by one that awaited m. *)
LEMMA MarkMarks ==
  ASSUME Typed, TidyInv, NEW a \in Actor, NEW k \in Goroutine, NEW m \in Model,
         MarkSlotReady([me EXCEPT ![a] = k], m), m \in Pending(me[a]),
         Tidy(a, k), Pending(k) \subseteq Pending(me[a])
  PROVE  MarksNext
<1> DEFINE f == [me EXCEPT ![a] = k]
<1>1. f \in [Actor -> Goroutine] /\ f[a] = k /\ (\A b \in Actor \ {a} : f[b] = me[b])
      /\ MarkSlotReady(f, m) /\ slot \in [Model -> Slot]
  BY DEF Typed, TypeOK, ProcTypeOK
<1> HIDE DEF f
<1>2. (\A b \in Actor : SameMarks(me'[b], f[b])) /\ ReadyKept
  <2>1. CASE slot[m].present /\ ~slot[m].ready
    <3> DEFINE new == [slot[m] EXCEPT !.ready = TRUE, !.closed = TRUE, !.spid = Resolved(m)]
    <3>1. slot' = [slot EXCEPT ![m] = new] /\ me' = Turn(f, m, "closed")
      BY <1>1, <2>1 DEF MarkSlotReady
    <3>2. new.present = slot[m].present /\ new.sleeping = slot[m].sleeping
      BY <1>1 DEF Slot
    <3> HIDE DEF new
    <3>3. \A n \in Model : IF n = m THEN slot'[n] = new ELSE slot'[n] = slot[n]
      BY <1>1, <3>1
    <3> QED
      BY <1>1, <2>1, <3>1, <3>2, <3>3, TurnMarks DEF ReadyKept
  <2>2. CASE ~(slot[m].present /\ ~slot[m].ready)
    BY <1>1, <2>2 DEF MarkSlotReady, ReadyKept, SameMarks
  <2> QED
    BY <2>1, <2>2
<1>3. \A b \in Actor \ {a} : SameMarks(me'[b], me[b])
  BY <1>1, <1>2
<1>4. SameMarks(me'[a], k)
  BY <1>1, <1>2
<1>5. Tidy(a, me'[a]) /\ Pending(me'[a]) \subseteq Pending(me[a])
  BY <1>4 DEF SameMarks, Tidy, Pending
<1> QED
  BY <1>2, <1>3, <1>5, MarksMove DEF Gains

LEMMA SwitchMarks ==
  ASSUME Typed, TidyInv, NEW a \in Actor, SwitchStep(a)
  PROVE  MarksNext
<1> DEFINE l == me[a]
<1>1. /\ me \in [Actor -> Goroutine] /\ l \in Local /\ l \in Goroutine /\ WellFormed(l) /\ Tidy(a, l)
      /\ slot \in [Model -> Slot]
  BY DEF Typed, TypeOK, ProcTypeOK, Goroutine, TidyInv
<1>2. CASE StopAll(a)
  <2> DEFINE gone == {m \in Model : slot[m].present /\ ~Survives(m)}
             dead == {[model |-> m, cmd |-> slot[m].cmd, spid |-> slot[m].spid] : m \in gone}
             one == [l EXCEPT !.pc = "kill", !.victims = dead]
             next == [me EXCEPT ![a] = one]
  <2>1. /\ l.pc = "stop" /\ slot' = [m \in Model |-> IF m \in gone THEN NoSlot ELSE slot[m]]
        /\ me' = Drop(next, gone)
    BY <1>1, <1>2 DEF StopAll
  <2>2. one.pc = "kill" /\ one.kind = l.kind /\ one.want = l.want /\ one.await = l.await /\ one.probed = l.probed
    BY <1>1 DEF Local
  <2>3. one \in Goroutine
    <3>1. \A m \in Model : slot[m].cmd \in Proc \cup {None} /\ slot[m].spid \in Proc \cup {None}
      BY <1>1 DEF Slot
    <3>2. dead \subseteq [model : Model, cmd : Proc \cup {None}, spid : Proc \cup {None}]
      BY <3>1
    <3> HIDE DEF dead
    <3>3. one \in Local
      BY <1>1, <3>2, ZenonT(60) DEF Local, PCs
    <3>4. WellFormed(one)
      BY <1>1, <2>1 DEF WellFormed, Local
    <3> QED
      BY <3>3, <3>4 DEF Goroutine
  <2>4. ReadyKept
    BY <2>1 DEF ReadyKept, NoSlot
  <2> HIDE DEF one, gone
  <2>5. next \in [Actor -> Goroutine] /\ next[a] = one /\ \A b \in Actor \ {a} : next[b] = me[b]
    BY <1>1, <2>3
  <2> HIDE DEF next
  <2>6. \A b \in Actor : SameMarks(me'[b], next[b])
    BY <2>1, <2>5, DropMarks
  <2>7. \A b \in Actor \ {a} : SameMarks(me'[b], me[b])
    BY <2>5, <2>6
  <2>8. SameMarks(me'[a], one)
    BY <2>5, <2>6
  <2>9. Tidy(a, me'[a]) /\ Pending(me'[a]) \subseteq Pending(l)
    BY <1>1, <2>1, <2>2, <2>8 DEF SameMarks, Tidy, Pending
  <2> QED
    BY <2>4, <2>7, <2>9, MarksMove DEF Gains
<1>3. CASE KillVictims(a)
  <2> DEFINE one == [l EXCEPT !.pc = "launch", !.victims = {}, !.todo = Targets(l)]
  <2>1. l.pc = "kill" /\ slot' = slot /\ me' = [me EXCEPT ![a] = one]
    BY <1>1, <1>3 DEF KillVictims
  <2>2. one.pc = "launch" /\ one.kind = l.kind /\ one.want = l.want /\ one.await = l.await /\ one.probed = l.probed
    BY <1>1 DEF Local
  <2> HIDE DEF one
  <2> QED
    BY <1>1, <2>1, <2>2, OneSame DEF Tidy
<1>4. ASSUME NEW m \in Model, Reuse(a, m)  PROVE MarksNext
  <2> DEFINE one == [l EXCEPT !.todo = @ \ {m}, !.await = @ \cup {m},
                             !.chan = IF l.want = m THEN Obtained(m) ELSE @]
  <2>1. l.pc = "launch" /\ slot' = slot /\ me' = [me EXCEPT ![a] = one] /\ Running(m)
    BY <1>1, <1>4 DEF Reuse, procVars
  <2>2. one.pc = l.pc /\ one.kind = l.kind /\ one.want = l.want /\ one.cur = l.cur
        /\ one.await = l.await \cup {m} /\ one.probed = l.probed
    BY <1>1 DEF Local
  <2> HIDE DEF one
  <2>3. me'[a] = one /\ \A b \in Actor \ {a} : SameMarks(me'[b], me[b])
    BY <2>1, OneMarks
  <2>4. Tidy(a, one) /\ Pending(one) = Pending(l) \cup {m}
    BY <1>1, <2>1, <2>2 DEF Tidy, Pending
  <2> QED
    BY <2>1, <2>3, <2>4, MarksMove, SameReady DEF Gains
<1>5. ASSUME NEW m \in Model, LeaveAsleep(a, m)  PROVE MarksNext
  <2> DEFINE one == [l EXCEPT !.todo = @ \ {m}]
  <2>1. l.pc = "launch" /\ slot' = slot /\ me' = [me EXCEPT ![a] = one]
    BY <1>1, <1>5 DEF LeaveAsleep, procVars
  <2>2. one.pc = l.pc /\ one.kind = l.kind /\ one.want = l.want /\ one.await = l.await /\ one.probed = l.probed
    BY <1>1 DEF Local
  <2> HIDE DEF one
  <2> QED
    BY <1>1, <2>1, <2>2, OneSame DEF Tidy
<1>6. ASSUME NEW m \in Model, Spawn(a, m)  PROVE MarksNext
  <2> DEFINE one(p) == [l EXCEPT !.pc = "register", !.cur = m, !.fresh = p]
             two == [l EXCEPT !.pc = "register", !.cur = m]
             Goes(k) == /\ k.pc = "register" /\ k.kind = l.kind /\ k.want = l.want
                        /\ k.await = l.await /\ k.probed = l.probed
  <2>1. slot' = slot /\ ((\E p \in Spawnable : me' = [me EXCEPT ![a] = one(p)]) \/ me' = [me EXCEPT ![a] = two])
    BY <1>1, <1>6 DEF Spawn
  <2>2. Goes(two) /\ \A p : Goes(one(p))
    BY <1>1 DEF Local
  <2> HIDE DEF one, two
  <2>3. PICK k : me' = [me EXCEPT ![a] = k] /\ Goes(k)
    BY <2>1, <2>2
  <2> QED
    BY <1>1, <2>1, <2>3, OneSame DEF Tidy
<1>7. CASE Register(a)
  <2> DEFINE m == l.cur
             base == Drop(me, {m})
             p == IF l.kind = "ondemand" THEN "publish" ELSE "launch"
             one == [l EXCEPT !.pc = p, !.cur = None, !.fresh = None, !.todo = @ \ {m},
                              !.await = @ \cup {m},
                              !.chan = IF l.want = m THEN "open" ELSE base[a].chan]
             new == [NoSlot EXCEPT !.present = TRUE, !.cmd = l.fresh]
  <2>1. l.pc = "register" /\ slot' = [slot EXCEPT ![m] = new] /\ me' = [base EXCEPT ![a] = one] /\ m \in Model
    BY <1>1, <1>7 DEF Register, WellFormed
  <2>2. one.pc = p /\ one.kind = l.kind /\ one.want = l.want /\ one.await = l.await \cup {m}
        /\ one.probed = l.probed
    BY <1>1 DEF Local
  <2>3. ~new.ready /\ ~new.sleeping
    BY DEF NoSlot
  <2> HIDE DEF one, new
  <2>4. slot'[m] = new /\ \A n \in Model \ {m} : slot'[n] = slot[n]
    BY <1>1, <2>1
  <2>5. ReadyKept
    BY <2>3, <2>4 DEF ReadyKept
  <2>6. DOMAIN base = Actor /\ \A b \in Actor : SameMarks(base[b], me[b])
    BY <1>1, DropMarks DEF Drop
  <2> HIDE DEF base
  <2>7. me'[a] = one /\ \A b \in Actor \ {a} : SameMarks(me'[b], me[b])
    BY <2>1, <2>6
  <2>8. Tidy(a, one) /\ Pending(one) \subseteq Pending(l) \cup {m}
    BY <1>1, <2>2 DEF Tidy, Pending
  <2>9. Gains(a)
    BY <2>3, <2>4, <2>7, <2>8 DEF Gains
  <2> QED
    BY <2>5, <2>7, <2>8, <2>9, MarksMove
<1>8. CASE PublishSwitch(a) \/ PublishOnDemand(a)
  <2> DEFINE one == [l EXCEPT !.pc = "wait"]
  <2>1. l.pc \in {"launch", "publish"} /\ slot' = slot /\ me' = [me EXCEPT ![a] = one]
    BY <1>1, <1>8 DEF PublishSwitch, PublishOnDemand, procVars
  <2>2. one.pc = "wait" /\ one.kind = l.kind /\ one.want = l.want /\ one.await = l.await /\ one.probed = l.probed
    BY <1>1 DEF Local
  <2> HIDE DEF one
  <2> QED
    BY <1>1, <2>1, <2>2, OneSame DEF Tidy
<1>9. ASSUME NEW m \in Model, ProbeAnswered(a, m) \/ ProbeGivenUp(a, m)  PROVE MarksNext
  <2> DEFINE one == [l EXCEPT !.await = @ \ {m}, !.probed = @ \cup {m}]
             two == [l EXCEPT !.await = @ \ {m}, !.failed = TRUE]
  <2>1. l.pc = "wait" /\ m \in l.await /\ slot' = slot
        /\ (me' = [me EXCEPT ![a] = one] \/ me' = [me EXCEPT ![a] = two])
    BY <1>1, <1>9 DEF ProbeAnswered, ProbeGivenUp, procVars
  <2>2. \A k \in {one, two} : /\ k.pc = l.pc /\ k.kind = l.kind /\ k.want = l.want
                              /\ k.await \subseteq l.await /\ k.probed \subseteq l.probed \cup {m}
    BY <1>1 DEF Local
  <2> HIDE DEF one, two
  <2>3. \A k \in {one, two} : Tidy(a, k) /\ Pending(k) \subseteq Pending(l)
    BY <1>1, <2>1, <2>2 DEF Tidy, Pending
  <2> QED
    BY <2>1, <2>3, OneAwaits
<1>10. ASSUME NEW m \in Model, MarkReady(a, m)  PROVE MarksNext
  <2> DEFINE one == [l EXCEPT !.probed = @ \ {m}]
  <2>1. l.pc = "wait" /\ m \in l.probed /\ MarkSlotReady([me EXCEPT ![a] = one], m)
    BY <1>1, <1>10 DEF MarkReady
  <2>2. one.pc = l.pc /\ one.kind = l.kind /\ one.want = l.want /\ one.cur = l.cur
        /\ one.await = l.await /\ one.probed \subseteq l.probed
    BY <1>1 DEF Local
  <2>3. one \in Goroutine
    <3>1. one \in Local
      BY <1>1 DEF Local
    <3> HIDE DEF one
    <3> QED
      BY <1>1, <2>2, <3>1 DEF Goroutine, WellFormed
  <2> HIDE DEF one
  <2>4. Tidy(a, one) /\ Pending(one) \subseteq Pending(l) /\ m \in Pending(l)
    BY <1>1, <2>1, <2>2 DEF Tidy, Pending
  <2> QED
    BY <2>1, <2>3, <2>4, MarkMarks
<1>11. CASE SwitchDone(a)
  <2> DEFINE ch == IF l.chan = "none" THEN "dead" ELSE l.chan
             k == CASE a = Starter -> At("done")
                    [] a = Looper -> At("idle")
                    [] l.failed -> At("done")
                    [] OTHER -> Await(l, ch)
  <2>1. slot' = slot /\ me' = [me EXCEPT ![a] = k]
    BY <1>11 DEF SwitchDone, procVars
  <2>2. Blank(At("done")) /\ Blank(At("idle")) /\ Blank(Await(l, ch))
    BY AtBlank, AwaitBlank
  <2>3. Blank(k)
    <3> HIDE DEF ch
    <3> QED
      BY <2>2
  <2> HIDE DEF k
  <2> QED
    BY <2>1, <2>3, OneBlank
<1> QED
  BY <1>2, <1>3, <1>4, <1>5, <1>6, <1>7, <1>8, <1>9, <1>10, <1>11 DEF SwitchStep

(* A step of no goroutine marks nothing. *)
LEMMA SlotMarks ==
  ASSUME TidyInv, me' = me, ReadyKept
  PROVE  MarksNext
BY DEF MarksNext, TidyInv, Gains

(* A slot is replaced by one that is no readier than before. *)
LEMMA PutReady ==
  ASSUME Typed, NEW m \in Model, NEW put, slot' = [slot EXCEPT ![m] = put],
         put.ready => put.present = slot[m].present /\ put.sleeping = slot[m].sleeping /\ slot[m].ready
  PROVE  ReadyKept
<1>1. slot'[m] = put /\ \A n \in Model \ {m} : slot'[n] = slot[n]
  BY DEF Typed, TypeOK, ProcTypeOK
<1> QED
  BY <1>1 DEF ReadyKept

LEMMA MemberMarks ==
  ASSUME Typed, EquippedInv, TidyInv, NEW a \in Actor, MemberStep(a)
  PROVE  MarksNext
<1> DEFINE l == me[a]
<1>1. /\ me \in [Actor -> Goroutine] /\ l \in Local /\ WellFormed(l) /\ Tidy(a, l) /\ Equipped(l)
      /\ slot \in [Model -> Slot]
  BY DEF Typed, TypeOK, ProcTypeOK, Goroutine, TidyInv, EquippedInv
<1>b. Blank(Back(a)) /\ Back(a) \in Goroutine /\ Blank(At("done"))
  BY BackBlank, BackType, AtBlank
<1>2. CASE GpuFree(a) \/ RestartBegins(a) \/ SleepBegins(a)
  <2> DEFINE free == [l EXCEPT !.pc = "spawn"]
             starts == [l EXCEPT !.pc = "acquire", !.lost = {}]
             sleeps == [l EXCEPT !.pc = "suspend", !.cur = l.want, !.lost = {}]
  <2>1. /\ l.pc \in {"acquire", "restartlock", "sleeplock"} /\ slot' = slot
        /\ \E k \in {free, starts, sleeps} : me' = [me EXCEPT ![a] = k]
    BY <1>1, <1>2 DEF GpuFree, RestartBegins, SleepBegins, procVars
  <2>2. \A k \in {free, starts, sleeps} :
          /\ k.pc \in {"spawn", "acquire", "suspend"} /\ k.kind = l.kind /\ k.want = l.want
          /\ k.await = l.await /\ k.probed = l.probed
    BY <1>1 DEF Local
  <2> HIDE DEF free, starts, sleeps
  <2> QED
    BY <1>1, <2>1, <2>2, OneSame DEF Tidy
<1>3. ASSUME NEW o \in Model, GpuTaken(a, o)  PROVE MarksNext
  <2> DEFINE one == [l EXCEPT !.pc = "suspend", !.cur = o]
  <2>1. /\ l.pc = "acquire" /\ slot' = slot
        /\ \E k \in {At("done"), Back(a), one} : me' = [me EXCEPT ![a] = k]
    BY <1>1, <1>3 DEF GpuTaken, procVars
  <2>2. /\ one.pc = "suspend" /\ one.kind = l.kind /\ one.want = l.want
        /\ one.await = l.await /\ one.probed = l.probed
    BY <1>1 DEF Local
  <2> HIDE DEF one
  <2> QED
    BY <1>1, <1>b, <2>1, <2>2, OneSame, OneBlank DEF Tidy
<1>4. CASE Suspend(a)
  <2> DEFINE one == [l EXCEPT !.pc = "stopslot"]
             put == [slot[l.cur] EXCEPT !.sleeping = TRUE, !.ready = FALSE]
  <2>1. /\ l.pc = "suspend" /\ me' = [me EXCEPT ![a] = one]
        /\ (slot' = slot \/ slot' = [slot EXCEPT ![l.cur] = put])
    BY <1>1, <1>4 DEF Suspend
  <2>2. one.pc = "stopslot" /\ one.kind = l.kind /\ one.want = l.want
        /\ one.await = l.await /\ one.probed = l.probed
    BY <1>1 DEF Local
  <2>3. l.cur \in Model
    BY <1>1, <2>1 DEF Equipped
  <2>4. ~put.ready
    BY <1>1, <2>3 DEF Slot
  <2> HIDE DEF one, put
  <2>5. ReadyKept
    BY <2>1, <2>3, <2>4, PutReady, SameReady
  <2>6. me'[a] = one /\ \A b \in Actor \ {a} : SameMarks(me'[b], me[b])
    BY <2>1, OneMarks
  <2>7. Tidy(a, one) /\ Pending(one) \subseteq Pending(l)
    BY <1>1, <2>1, <2>2 DEF Tidy, Pending
  <2> QED
    BY <2>5, <2>6, <2>7, MarksMove DEF Gains
<1>5. CASE Suspended(a)
  <2> DEFINE m == l.cur
             next == [l EXCEPT !.pc = "spawn", !.cur = None, !.lost = @ \ {m}]
             put == [slot[m] EXCEPT !.cmd = None, !.spid = None, !.closed = FALSE]
  <2>1. /\ l.pc = "suspended" /\ (slot' = slot \/ slot' = [slot EXCEPT ![m] = put])
        /\ IF l.kind = "sleep" THEN me' = Turn([me EXCEPT ![a] = Back(a)], m, "dead")
           ELSE me' = Turn([me EXCEPT ![a] = next], m, "dead")
    BY <1>1, <1>5 DEF Suspended
  <2>2. /\ next.pc = "spawn" /\ next.kind = l.kind /\ next.want = l.want
        /\ next.await = l.await /\ next.probed = l.probed
    BY <1>1 DEF Local
  <2>3. l.kind # "sleep" => next \in Goroutine
    <3>1. next \in Local
      BY <1>1, ZenonT(60) DEF Local, PCs
    <3>2. l.kind # "sleep" => l.kind \in {"ondemand", "restart"}
      BY <1>1, <2>1 DEF WellFormed
    <3> QED
      BY <1>1, <3>1, <3>2 DEF Goroutine, WellFormed, Local
  <2>4. m \in Model
    BY <1>1, <2>1 DEF Equipped
  <2>5. put.ready = slot[m].ready /\ put.present = slot[m].present /\ put.sleeping = slot[m].sleeping
    BY <1>1, <2>4 DEF Slot
  <2> HIDE DEF next, put
  <2>6. ReadyKept
    BY <2>1, <2>4, <2>5, PutReady, SameReady
  <2>7. PICK k \in Goroutine : /\ me' = Turn([me EXCEPT ![a] = k], m, "dead")
                               /\ Tidy(a, k) /\ Pending(k) \subseteq Pending(l)
    <3>1. CASE l.kind = "sleep"
      <4>1. Tidy(a, Back(a)) /\ Pending(Back(a)) = {}
        BY <1>b, BlankTidy
      <4> QED
        BY <1>b, <2>1, <3>1, <4>1
    <3>2. CASE l.kind # "sleep"
      <4>1. Tidy(a, next) /\ Pending(next) \subseteq Pending(l)
        BY <1>1, <2>1, <2>2, <3>2 DEF Tidy, Pending
      <4> QED
        BY <2>1, <2>3, <3>2, <4>1
    <3> QED
      BY <3>1, <3>2
  <2> DEFINE f == [me EXCEPT ![a] = k]
  <2>8. f \in [Actor -> Goroutine] /\ f[a] = k /\ (\A b \in Actor \ {a} : f[b] = me[b]) /\ me' = Turn(f, m, "dead")
    BY <1>1, <2>7
  <2> HIDE DEF f
  <2>9. \A b \in Actor : SameMarks(me'[b], f[b])
    BY <2>8, TurnMarks
  <2>10. \A b \in Actor \ {a} : SameMarks(me'[b], me[b])
    BY <2>8, <2>9
  <2>11. SameMarks(me'[a], k)
    BY <2>8, <2>9
  <2>12. Tidy(a, me'[a]) /\ Pending(me'[a]) \subseteq Pending(l)
    BY <2>7, <2>11 DEF SameMarks, Tidy, Pending
  <2> QED
    BY <2>6, <2>10, <2>12, MarksMove DEF Gains
<1>8. CASE StopSlot(a)
  <2> DEFINE one == [l EXCEPT !.pc = "suspended"]
             put == [slot[l.cur] EXCEPT !.spid = Resolved(l.cur)]
  <2>1. /\ l.pc = "stopslot" /\ me' = [me EXCEPT ![a] = one]
        /\ (slot' = slot \/ slot' = [slot EXCEPT ![l.cur] = put])
    BY <1>1, <1>8 DEF StopSlot
  <2>2. one.pc = "suspended" /\ one.kind = l.kind /\ one.want = l.want
        /\ one.await = l.await /\ one.probed = l.probed
    BY <1>1 DEF Local
  <2>3. l.cur \in Model
    BY <1>1, <2>1 DEF Equipped
  <2>4. /\ put.ready = slot[l.cur].ready /\ put.present = slot[l.cur].present
        /\ put.sleeping = slot[l.cur].sleeping
    BY <1>1, <2>3 DEF Slot
  <2> HIDE DEF one, put
  <2>5. ReadyKept
    BY <2>1, <2>3, <2>4, PutReady, SameReady
  <2>6. me'[a] = one /\ \A b \in Actor \ {a} : SameMarks(me'[b], me[b])
    BY <2>1, OneMarks
  <2>7. Tidy(a, one) /\ Pending(one) \subseteq Pending(l)
    BY <1>1, <2>1, <2>2 DEF Tidy, Pending
  <2> QED
    BY <2>5, <2>6, <2>7, MarksMove DEF Gains
<1>6. CASE RestartNot(a) \/ SleepNot(a)
  BY <1>b, <1>6, OneBlank DEF RestartNot, SleepNot, procVars
<1>7. CASE RestartEnds(a)
  <2> DEFINE m == l.want
             put == [slot[m] EXCEPT !.cmd = l.fresh, !.ready = FALSE, !.sleeping = FALSE]
  <2>1. /\ l.kind = "restart" /\ (slot' = slot \/ slot' = [slot EXCEPT ![m] = put])
        /\ me' = [me EXCEPT ![a] = Back(a)]
    BY <1>1, <1>7 DEF RestartEnds
  <2>2. m \in Model
    BY <1>1, <2>1 DEF Equipped
  <2>3. ~put.ready
    BY <1>1, <2>2 DEF Slot
  <2> HIDE DEF put
  <2>4. ReadyKept
    BY <2>1, <2>2, <2>3, PutReady, SameReady
  <2>5. me'[a] = Back(a) /\ \A b \in Actor \ {a} : SameMarks(me'[b], me[b])
    BY <2>1, OneMarks
  <2>6. Tidy(a, Back(a)) /\ Pending(Back(a)) = {}
    BY <1>b, BlankTidy
  <2> QED
    BY <2>4, <2>5, <2>6, MarksMove DEF Gains
<1> QED
  BY <1>2, <1>3, <1>4, <1>5, <1>6, <1>7, <1>8 DEF MemberStep

LEMMA LoopMarks ==
  ASSUME Typed, TidyInv, LoopStep
  PROVE  MarksNext
<1> DEFINE l == me[Looper]
<1>1. Looper \in Actor /\ me \in [Actor -> Goroutine] /\ l \in Local /\ WellFormed(l) /\ Tidy(Looper, l)
      /\ slot \in [Model -> Slot]
  BY DEF Actor, Typed, TypeOK, ProcTypeOK, Goroutine, TidyInv
<1>2. CASE SwitchBack \/ ForgetCoding \/ ClearCoding \/ Scan
  <2> DEFINE back == [l EXCEPT !.pc = "stop", !.kind = "background"]
             at(p) == [l EXCEPT !.pc = p]
             scans == [l EXCEPT !.pc = "items", !.todo = {m \in Model : slot[m].present}]
             Steps == {back, at("clearcoding"), at("idle"), scans}
  <2>1. /\ l.pc \in {"idle", "clearcoding"} /\ slot' = slot
        /\ \E k \in Steps : me' = [me EXCEPT ![Looper] = k]
    BY <1>1, <1>2 DEF SwitchBack, ForgetCoding, ClearCoding, Scan, procVars
  <2>2. \A k \in Steps :
          /\ k.pc \in {"stop", "clearcoding", "idle", "items"}
          /\ k.kind = "background" \/ k.kind = l.kind
          /\ k.want = l.want /\ k.await = l.await /\ k.probed = l.probed
    BY <1>1 DEF Local
  <2> HIDE DEF back, at, scans
  <2> QED
    BY <1>1, <2>1, <2>2, OneSame DEF Tidy
<1>3. CASE ItemMarked
  <2> DEFINE one == [At("items") EXCEPT !.todo = l.todo]
  <2>1. l.pc = "mark" /\ MarkSlotReady([me EXCEPT ![Looper] = one], l.cur) /\ l.cur \in Model
    BY <1>1, <1>3 DEF ItemMarked, WellFormed
  <2>2. Blank(one) /\ one \in Goroutine
    <3>1. At("items") \in Goroutine
      BY AtType
    <3>2. one \in Local /\ one.pc = "items" /\ one.kind = "none"
      BY <1>1, <3>1 DEF Goroutine, Local, At
    <3> QED
      BY <3>2, AtBlank DEF Goroutine, WellFormed
  <2> HIDE DEF one
  <2>3. Tidy(Looper, one) /\ Pending(one) = {} /\ l.cur \in Pending(l)
    BY <2>1, <2>2 DEF Blank, Tidy, Pending
  <2> QED
    BY <1>1, <2>1, <2>2, <2>3, MarkMarks
<1>4. CASE TickEnds \/ LoopReturns
  BY <1>1, <1>4, AtBlank, OneBlank DEF TickEnds, LoopReturns, procVars
<1>5. ASSUME NEW m \in Model, LoopItem(m)  PROVE MarksNext
  <2> DEFINE sleep == [l EXCEPT !.pc = "sleeplock", !.kind = "sleep", !.want = m]
             mark == [l EXCEPT !.pc = "mark", !.cur = m]
             restart == [l EXCEPT !.pc = "restartlock", !.kind = "restart", !.want = m]
             less(r) == [r EXCEPT !.todo = @ \ {m}]
             put(p) == [slot[m] EXCEPT !.spid = p]
  <2>1. /\ l.pc = "items" /\ (slot' = slot \/ \E p : slot' = [slot EXCEPT ![m] = put(p)])
    BY <1>1, <1>5 DEF LoopItem, ItemRests, ItemSleeps, ItemProbed, ItemGone, Item, procVars
  <2>2. \/ \E k \in {less(l), less(sleep), less(restart)} : me' = [me EXCEPT ![Looper] = k]
        \/ me' = [me EXCEPT ![Looper] = less(mark)] /\ ~slot[m].sleeping
    BY <1>5 DEF LoopItem, ItemRests, ItemSleeps, ItemProbed, ItemGone, Looked
  <2>3. \A k \in {less(l), less(sleep), less(restart)} :
          /\ k.pc \in {"items", "sleeplock", "restartlock"} /\ k.await = l.await /\ k.probed = l.probed
          /\ (k.kind = l.kind /\ k.want = l.want) \/ k.kind \in {"sleep", "restart"}
    BY <1>1, <2>1 DEF Local
  <2>4. /\ less(mark).pc = "mark" /\ less(mark).kind = l.kind /\ less(mark).want = l.want
        /\ less(mark).cur = m /\ less(mark).await = l.await /\ less(mark).probed = l.probed
    BY <1>1, <2>1 DEF Local
  <2>5. \A p : LET s == put(p)
               IN  s.ready = slot[m].ready /\ s.present = slot[m].present /\ s.sleeping = slot[m].sleeping
    BY <1>1 DEF Slot
  <2> HIDE DEF sleep, mark, restart, less, put
  <2>6. ReadyKept /\ slot'[m].sleeping = slot[m].sleeping
    <3>1. CASE slot' = slot
      BY <3>1, SameReady
    <3>2. ASSUME NEW p, slot' = [slot EXCEPT ![m] = put(p)]
          PROVE  ReadyKept /\ slot'[m].sleeping = slot[m].sleeping
      BY <1>1, <2>5, <3>2, PutReady
    <3> QED
      BY <2>1, <3>1, <3>2
  <2>7. ASSUME NEW k \in {less(l), less(sleep), less(restart)}, me' = [me EXCEPT ![Looper] = k]
        PROVE  MarksNext
    <3>1. Tidy(Looper, k) /\ Pending(k) \subseteq Pending(l)
      BY <1>1, <2>1, <2>3 DEF Tidy, Pending
    <3>2. me'[Looper] = k /\ \A b \in Actor \ {Looper} : SameMarks(me'[b], me[b])
      BY <1>1, <2>7, OneMarks
    <3> QED
      BY <1>1, <2>6, <3>1, <3>2, MarksMove DEF Gains
  <2>8. ASSUME me' = [me EXCEPT ![Looper] = less(mark)], ~slot[m].sleeping
        PROVE  MarksNext
    <3>1. Tidy(Looper, less(mark)) /\ Pending(less(mark)) \subseteq Pending(l) \cup {m}
      BY <1>1, <2>1, <2>4 DEF Tidy, Pending
    <3>2. me'[Looper] = less(mark) /\ \A b \in Actor \ {Looper} : SameMarks(me'[b], me[b])
      BY <1>1, <2>8, OneMarks
    <3>3. Gains(Looper)
      BY <2>6, <2>8, <3>1, <3>2 DEF Gains
    <3> QED
      BY <1>1, <2>6, <3>1, <3>2, <3>3, MarksMove
  <2> QED
    BY <2>2, <2>7, <2>8
<1> QED
  BY <1>2, <1>3, <1>4, <1>5 DEF LoopStep, LoopTick

LEMMA StartMarks ==
  ASSUME Typed, TidyInv, StartBegins
  PROVE  MarksNext
<1> DEFINE l == me[Starter]
           one == [l EXCEPT !.pc = "stop", !.kind = "background"]
<1>1. Starter \in Actor /\ l \in Local /\ l.pc = "start" /\ slot' = slot
  BY DEF Actor, Typed, TypeOK, StartBegins, procVars
<1>2. me' = [me EXCEPT ![Starter] = At("done")] \/ me' = [me EXCEPT ![Starter] = one]
  BY <1>1 DEF StartBegins, Typed
<1>3. one.pc = "stop" /\ one.kind = "background" /\ one.await = l.await /\ one.probed = l.probed
  BY <1>1 DEF Local
<1> HIDE DEF one
<1> QED
  BY <1>1, <1>2, <1>3, AtBlank, OneBlank, OneSame

LEMMA NextMarks ==
  ASSUME Typed, EquippedInv, TidyInv, [Next]_vars
  PROVE  MarksNext
<1>1. CASE (\E c \in Caller : Request(c)) \/ (\E a \in Actor : SwitchStep(a) \/ MemberStep(a))
             \/ StartBegins \/ LoopStep
  BY <1>1, RequestMarks, SwitchMarks, MemberMarks, StartMarks, LoopMarks
<1>2. ASSUME NEW p \in Proc, Reaped(p)  PROVE MarksNext
  <2> DEFINE m == os[p].model
             one == [slot[m] EXCEPT !.cmd = None, !.spid = Resolved(m)]
             two == [slot[m] EXCEPT !.cmd = None, !.spid = None, !.ready = FALSE]
  <2>1. me' = me /\ (slot' = slot \/ slot' = [slot EXCEPT ![m] = one] \/ slot' = [slot EXCEPT ![m] = two])
    BY <1>2 DEF Reaped, Reap
  <2>2. slot \in [Model -> Slot]
    BY DEF Typed, TypeOK, ProcTypeOK
  <2>3. CASE m \in Model
    <3>1. /\ one.ready = slot[m].ready /\ one.present = slot[m].present /\ one.sleeping = slot[m].sleeping
          /\ ~two.ready
      BY <2>2, <2>3 DEF Slot
    <3> HIDE DEF one, two, m
    <3> QED
      BY <2>1, <2>3, <3>1, PutReady, SameReady, SlotMarks
  <2>4. CASE m \notin Model
    <3>1. slot' = slot
      BY <2>1, <2>2, <2>4
    <3> QED
      BY <2>1, <3>1, SameReady, SlotMarks
  <2> QED
    BY <2>3, <2>4
<1>3. CASE Shutdown
  <2>1. me' = me /\ \A m \in Model : slot'[m] \in {slot[m], [slot[m] EXCEPT !.cmd = None, !.spid = None]}
    BY <1>3 DEF Shutdown
  <2>2. \A m \in Model : slot[m] \in Slot
    BY DEF Typed, TypeOK, ProcTypeOK
  <2>3. ReadyKept
    BY <2>1, <2>2 DEF ReadyKept, Slot
  <2> QED
    BY <2>1, <2>3, SlotMarks
<1>4. CASE World \/ Signal \/ Halted \/ LeaseLapses \/ (\E m \in Model : IdleElapses(m)) \/ UNCHANGED vars
  <2>1. me' = me /\ slot' = slot
    BY <1>4 DEF World, Serve, Die, Detach, BackoffElapses, Signal, Halted, LeaseLapses, IdleElapses,
                vars, procVars
  <2> QED
    BY <2>1, SameReady, SlotMarks
<1> QED
  BY <1>1, <1>2, <1>3, <1>4 DEF Next

-----------------------------------------------------------------------------
(* A slot that is ready has its process *)

(* The models whose process ends only by the scheduler's hand: it does not fail, and *)
(* nobody else listens on its port.                                                  *)
Healthy == {m \in Model \ Faulty : OwnPort(m)}

(* While Loop runs, acquireGPU evicts nobody: a background model that shares its gpu *)
(* belongs to the group and does not sleep, so that it is loaded by switches only.   *)
Uncontested ==
  LeaseOn =>
    \A n \in Background :
      Gpu[n] # NoGpu /\ (\E k \in Model \ {n} : Gpu[k] = Gpu[n]) => n \in (Autostart \cap Healthy) \ Sleepy

(* The slot of m tells the truth about its process, and nobody will mark it ready *)
(* while it is asleep.                                                            *)
Fit(m) ==
  /\ slot[m].ready => slot[m].present /\ ~slot[m].sleeping
  /\ slot[m].present /\ ~slot[m].sleeping => slot[m].cmd # None
  /\ slot[m].cmd # None =>
       slot[m].cmd \in Live \/ \E a \in Actor : me[a].pc = "suspended" /\ me[a].cur = m
  /\ LeaseOn /\ slot[m].sleeping => m \in Sleepy
  /\ slot[m].sleeping /\ slot[m].cmd # None =>
       \E a \in Actor : me[a].pc \in {"stopslot", "suspended"} /\ me[a].cur = m
  /\ \A a \in Actor : m \in Pending(me[a]) => ~slot[m].sleeping
  /\ \A a \in Actor : me[a].pc = "register" /\ me[a].cur = m => me[a].fresh \in Live

(* Who is between the two halves of suspendSlot has marked the slot asleep; while *)
(* Loop runs that is Loop itself.                                                 *)
Lulled(l) ==
  /\ l.pc \in {"stopslot", "suspended"} => slot[l.cur].sleeping
  /\ LeaseOn /\ l.pc \in {"suspend", "stopslot", "suspended"} => l.kind = "sleep"

ReadyInv ==
  ~overlapped /\ Up => (\A m \in Healthy : Fit(m)) /\ (\A a \in Actor : Lulled(me[a]))

(* Without a lease there is no Loop. *)
NoLoop == ~LeaseOn => me[Looper].pc = "done"

Steady == Upkeep /\ RefInv /\ TidyInv /\ NoLoop /\ ReadyInv

LEMMA NextNoLoop ==
  ASSUME Base, NoLoop, [Next]_vars
  PROVE  NoLoop'
<1>0. Looper \in Actor
  BY DEF Actor
<1>1. CASE Still
  BY <1>1 DEF Still, NoLoop
<1>2. ASSUME NEW a \in Actor, a # Looper, Rest(a)  PROVE NoLoop'
  BY <1>0, <1>2 DEF Rest, SameJob, NoLoop
<1>3. ASSUME Quiet(Looper)  PROVE NoLoop'
  BY <1>3 DEF Quiet, NoLoop
<1>4. ASSUME Enters(Looper) \/ me[Looper].pc \in Section  PROVE NoLoop'
  BY <1>4 DEF Enters, NoLoop, Section
<1>5. \A a \in Actor : Summary(a) => Rest(a)
  BY SectionStep DEF Quiet, Enters
<1> QED
  BY <1>1, <1>2, <1>3, <1>4, <1>5, NextSummary, SectionStep DEF Base

(* A live command of a healthy model is its process. *)
LEMMA CmdModel ==
  ASSUME RefInv, NEW m \in Healthy, NEW p \in Live, CmdOf(os, p, m)
  PROVE  os[p].model = m /\ OwnPort(os[p].model) /\ os[p].model \notin Faulty
BY DEF CmdOf, Live, Alive, Healthy

(* A step that keeps the command of a healthy model keeps it alive, but for stopSlotProcess. *)
LEMMA CmdLives ==
  ASSUME Steady, ~overlapped, Up, NEW a \in Actor, Summary(a), NEW m \in Healthy,
         slot[m].cmd \in Live, slot'[m].cmd = slot[m].cmd
  PROVE  slot'[m].cmd \in Live' \/ (Quells(a) /\ me[a].cur = m)
<1> DEFINE p == slot[m].cmd
<1>1. Upkeep /\ RefInv /\ Base /\ Typed /\ EquippedInv /\ SlotInv /\ m \in Model /\ p \in Proc /\ Alive(p)
      /\ p # None
  BY ConfigAccepted DEF Steady, Upkeep, Base, Healthy, Live
<1>2. os[p].model = m /\ OwnPort(os[p].model)
  BY <1>1, CmdModel DEF RefInv
<1> SUFFICES os'[p].server # "dead" \/ (Quells(a) /\ me[a].cur = m)
  BY <1>1 DEF Live, Alive
<1>3. CASE os' = os
  BY <1>1, <1>3 DEF Alive
<1>4. CASE Kills(a)
  <2>1. me[a].pc = "kill"
    BY <1>4 DEF Kills, Works
  <2>2. slot[m].present
    BY <1>1 DEF SlotInv, Sound
  <2>3. Survives(m)
    BY <1>1, <2>1, <2>2 DEF SlotInv, Placed
  <2> QED
    BY <1>1, <1>2, <1>4, <2>3, KillsSpare
<1>5. CASE Quells(a)
  BY <1>1, <1>2, <1>5, QuellsSpare
<1>6. ASSUME NEW n \in Model, Starts(a, n)  PROVE os'[p].server # "dead"
  BY <1>1, <1>2, <1>6, StartsSpare
<1> QED
  BY <1>3, <1>4, <1>5, <1>6 DEF Summary, Quiet, Enters, Empties, Registers, Publishes, Frees, Evicts,
                                Suspends, Evicted, Slept, Suspending, Restarted, Skips

(* What a step of a can do to the slot of m. *)
SlotKept(m) ==
  slot'[m].present = slot[m].present /\ slot'[m].cmd = slot[m].cmd /\ slot'[m].sleeping = slot[m].sleeping
SlotGone(m) == slot'[m].cmd = None /\ ~slot'[m].present /\ ~slot'[m].sleeping
SlotFilled(a, m) ==
  /\ me[a].pc = "register" /\ me[a].cur = m /\ os' = os
  /\ slot'[m].present /\ slot'[m].cmd = me[a].fresh /\ ~slot'[m].sleeping
SlotLulled(a, m) ==
  /\ Suspends(a) /\ me[a].cur = m
  /\ slot'[m].present = slot[m].present /\ slot'[m].cmd = slot[m].cmd /\ slot'[m].sleeping
SlotFreed(a, m) ==
  me[a].pc = "suspended" /\ me[a].cur = m /\ slot'[m].cmd = None /\ slot'[m].sleeping = slot[m].sleeping

LEMMA SlotMoves ==
  ASSUME Base, ~overlapped, NEW a \in Actor, Summary(a), NEW m \in Model,
         me[a].pc = "register" /\ me[a].cur = m => me[a].fresh # None
  PROVE  SlotKept(m) \/ SlotGone(m) \/ SlotFilled(a, m) \/ SlotLulled(a, m) \/ SlotFreed(a, m)
<1> DEFINE l == me[a]
<1>1. Typed /\ EquippedInv /\ SlotInv /\ Equipped(l) /\ Clean(l) /\ slot \in [Model -> Slot]
      /\ slot[m] \in Slot /\ Placed(l, slot)
  BY DEF Base, Typed, TypeOK, ProcTypeOK, EquippedInv, SlotInv
<1>2. CASE slot' = slot
  BY <1>2 DEF SlotKept
<1>3. CASE Quiet(a)
  BY <1>3 DEF Quiet, SlotsKept, SlotKept
<1>4. CASE Empties(a)
  <2>1. slot'[m] \in {slot[m], NoSlot}
    BY <1>4 DEF Empties
  <2> QED
    BY <2>1 DEF SlotKept, SlotGone, NoSlot
<1>5. CASE Registers(a)
  <2> DEFINE put == [NoSlot EXCEPT !.present = TRUE, !.cmd = l.fresh]
  <2>1. put.present /\ put.cmd = l.fresh /\ ~put.sleeping
    BY DEF NoSlot
  <2>2. slot' = [slot EXCEPT ![l.cur] = put] /\ l.pc = "register" /\ os' = os
    BY <1>5 DEF Registers, Works
  <2> HIDE DEF put
  <2>3. CASE m = l.cur
    BY <1>1, <2>1, <2>2, <2>3 DEF SlotFilled
  <2>4. CASE m # l.cur
    BY <1>1, <2>2, <2>4 DEF SlotKept
  <2> QED
    BY <2>3, <2>4
<1>6. CASE Suspends(a)
  <2>1. l.pc = "suspend" /\ l.cur \in Model /\ l.cur \notin l.lost
    BY <1>1, <1>6 DEF Suspends, Works, Equipped, Clean, Relocks
  <2>2. CASE m # l.cur
    BY <1>1, <1>6, <2>1, <2>2, SuspendsKeeps DEF SlotKept
  <2>3. CASE m = l.cur
    <3> DEFINE put == [slot[m] EXCEPT !.sleeping = TRUE, !.ready = FALSE]
    <3>1. put.sleeping
      BY <1>1 DEF Slot
    <3>2. slot'[m] = put
      BY <1>1, <1>6, <2>1, <2>3 DEF Suspends
    <3> HIDE DEF put
    <3> QED
      BY <1>1, <1>6, <2>1, <2>3, <3>1, <3>2, SuspendsKeeps DEF SlotLulled
  <2> QED
    BY <2>2, <2>3
<1>7. CASE Evicted(a) \/ Slept(a)
  <2>1. l.pc = "suspended" /\ Suspending(a)
    BY <1>7 DEF Evicted, Slept, Works, Departs
  <2>2. l.cur \in Model /\ l.cur \notin l.lost
    BY <1>1, <2>1 DEF Equipped, Clean, Relocks
  <2> QED
    BY <1>1, <2>1, <2>2, SuspendingKeeps DEF SlotKept, SlotFreed
<1>8. CASE Restarted(a)
  <2>1. l.pc = "register" /\ l.kind = "restart" /\ os' = os
    BY <1>8 DEF Restarted, Departs
  <2>2. l.want \in Model /\ l.cur = l.want /\ l.lost = {} /\ slot[l.want].present
    BY <1>1, <2>1 DEF Equipped, Clean, Relocks, Singles, Placed, Working
  <2>3. CASE m # l.want
    BY <1>1, <1>8, <2>2, <2>3, RestartedKeeps DEF SlotKept
  <2>4. CASE m = l.want
    <3> DEFINE put == [slot[m] EXCEPT !.cmd = l.fresh, !.ready = FALSE, !.sleeping = FALSE]
    <3>1. put.present = slot[m].present /\ put.cmd = l.fresh /\ ~put.sleeping
      BY <1>1 DEF Slot
    <3>2. slot'[m] = put
      BY <1>1, <1>8, <2>1, <2>2, <2>4 DEF Restarted
    <3> HIDE DEF put
    <3> QED
      BY <2>1, <2>2, <2>4, <3>1, <3>2 DEF SlotFilled
  <2> QED
    BY <2>3, <2>4
<1>9. CASE Quells(a)
  <2>1. l.cur \in Model
    BY <1>1, <1>9 DEF Quells, Works, Equipped
  <2> QED
    BY <1>1, <1>9, <2>1, QuellsKeeps DEF SlotKept
<1> QED
  BY <1>2, <1>3, <1>4, <1>5, <1>6, <1>7, <1>8, <1>9
     DEF Summary, Enters, Kills, Skips, Publishes, Frees, Evicts, Starts

(* While Loop runs nobody is evicted: a restart would be of a member of the group *)
(* whose process is gone, and that is asleep.                                      *)
LEMMA NobodyEvicted ==
  ASSUME Uncontested, Steady, ~overlapped, LeaseOn, NEW a \in Actor, Evicts(a)
  PROVE  FALSE
<1> DEFINE l == me[a]
           n == l.want
<1>1. l.pc = "acquire" /\ Up /\ Equipped(l) /\ WellFormed(l) /\ Tidy(a, l) /\ Placed(l, slot)
  BY DEF Evicts, Works, Steady, Upkeep, Base, Typed, Goroutine, EquippedInv, TidyInv, SlotInv
<1>2. PICK o \in Owners(n) : TRUE
  BY DEF Evicts
<1>3. l.kind \in {"ondemand", "restart"} /\ n \in Background
  BY <1>1 DEF WellFormed, Equipped, Section
<1>4. n \in (Autostart \cap Healthy) \ Sleepy
  BY <1>2, <1>3 DEF Owners, Uncontested
<1>5. l.kind = "restart"
  BY <1>1, <1>3, <1>4 DEF Tidy
<1>6. slot[n].present /\ slot[n].cmd = None
  BY <1>1, <1>5 DEF Placed, Working, Singles
<1>7. Fit(n)
  BY <1>1, <1>4 DEF Steady, ReadyInv
<1> QED
  BY <1>4, <1>6, <1>7 DEF Fit

(* A target that runs and is reused by a switch is not asleep. *)
LEMMA ReusedAwake ==
  ASSUME Steady, ~overlapped, Up, NEW a \in Actor, me[a].pc = "launch", NEW m \in Healthy, Running(m)
  PROVE  ~slot[m].sleeping
<1> SUFFICES ASSUME slot[m].sleeping  PROVE FALSE
  OBVIOUS
<1>1. /\ Upkeep /\ Base /\ Serial /\ RefInv /\ Fit(m) /\ m \in Model /\ me[a].pc \in Section
      /\ OwnPort(m)
  BY DEF Steady, Upkeep, Base, SlotInv, ReadyInv, Healthy, Section
<1>2. slot[m].cmd = None
  <2> SUFFICES ASSUME NEW b \in Actor, me[b].pc \in {"stopslot", "suspended"}  PROVE FALSE
    BY <1>1 DEF Fit
  <2>1. me[b].pc \in Section
    BY DEF Section
  <2> QED
    BY <1>1, <2>1, SectionDef DEF Serial
<1> DEFINE p == slot[m].spid
<1>3. p \in Live /\ p # None
  BY <1>2, ConfigAccepted DEF Running, Live, Alive
<1>4. os[p].model = m
  BY <1>1, <1>3 DEF RefInv, ServerOf, Live, Alive, OwnPort
<1>5. OwnedBySlot(p) \/ StartedBy(me[a], p) \/ KilledBy(me[a], p)
  BY <1>1, <1>3, SoleOwner DEF Upkeep
<1> QED
  BY <1>2, <1>3, <1>4, <1>5 DEF OwnedBySlot, StartedBy, KilledBy

(* Nobody who may mark m ready is left when m is put to sleep. *)
LEMMA LulledAlone ==
  ASSUME Steady, MarksNext, ~overlapped, NEW a \in Actor, Suspends(a), NEW b \in Actor
  PROVE  Pending(me[b]) = {} \/ Pending(me'[b]) = {}
<1>1. /\ Up /\ me[a].pc = "suspend" /\ me'[a].pc = "stopslot" /\ Rest(a) /\ me[a].pc \in Section
      /\ SlotInv /\ EquippedInv /\ Tidy(a, me[a]) /\ Lulled(me[a])
  BY DEF Suspends, Works, Section, Steady, Upkeep, Base, TidyInv, ReadyInv
<1>2. CASE b = a
  BY <1>1, <1>2 DEF Tidy, Pending
<1>3. CASE b # a
  <2>1. me[b].pc \notin Section
    BY <1>1, <1>3, Alone
  <2>2. me[b].pc # "mark"
    <3>1. me[b].pc = "mark" => b = Looper
      BY DEF Steady, TidyInv, Tidy
    <3>2. LeaseOn => a = Looper
      BY <1>1 DEF Lulled, Tidy
    <3>3. ~LeaseOn => me[Looper].pc = "done"
      BY DEF Steady, NoLoop
    <3> QED
      BY <1>3, <3>1, <3>2, <3>3
  <2>3. Tidy(b, me[b])
    BY DEF Steady, TidyInv
  <2> QED
    BY <2>1, <2>2, <2>3 DEF Tidy, Pending, Section
<1> QED
  BY <1>2, <1>3

(* A process started for a healthy model lives when it is to be registered. *)
LEMMA FreshLives ==
  ASSUME Steady, ~overlapped, Up, NEW a \in Actor, Summary(a), NEW m \in Healthy,
         NEW b \in Actor, me'[b].pc = "register", me'[b].cur = m
  PROVE  me'[b].fresh \in Live'
<1>1. Typed /\ SlotInv /\ EquippedInv /\ Fit(m) /\ m \in Model \ Faulty
  BY DEF Steady, Upkeep, Base, ReadyInv, Healthy
<1>2. CASE b = a
  <2>1. \E n \in Model : Starts(a, n)
    BY <1>2 DEF Summary, Quiet, Enters, Empties, Kills, Registers, Publishes, Frees, Evicts, Suspends,
                Quells, Evicted, Slept, Restarted, Skips, Works, Departs, Working, Section
  <2>2. Starts(a, m)
    BY <1>2, <2>1 DEF Starts
  <2> DEFINE f == me'[a].fresh
             new == [model |-> m, server |-> "loading", wrapper |-> "alive"]
  <2>3. f \in Proc /\ os' = [Stopped(Listeners(m)) EXCEPT ![f] = new]
    BY <1>1, <2>2 DEF Starts, Spawnable, FreeProcs
  <2>4. os'[f] = new
    BY <2>3 DEF Stopped, Killed
  <2> QED
    BY <1>2, <2>3, <2>4 DEF Live, Alive
<1>3. CASE b # a
  <2>1. Rest(a)
    BY SectionStep DEF Quiet, Enters
  <2>2. me[b].pc = "register" /\ me[b].cur = m /\ me'[b].fresh = me[b].fresh
    BY <1>3, <2>1 DEF Rest, SameJob
  <2>3. me[b].fresh \in Live
    BY <1>1, <2>2 DEF Fit
  <2>4. os' = os
    <3>1. me[a].pc \notin Section
      BY <1>1, <1>3, <2>1, <2>2, SectionDef DEF Section, SlotInv, Serial
    <3> QED
      BY <3>1, SectionStep DEF Quiet, Enters
  <2> QED
    BY <2>2, <2>3, <2>4 DEF Live, Alive
<1> QED
  BY <1>2, <1>3

LEMMA SummaryFit ==
  ASSUME Uncontested, Steady, MarksNext, ~overlapped, Up, NEW a \in Actor, Summary(a), NEW m \in Healthy
  PROVE  Fit(m)'
<1>1. /\ Base /\ Typed /\ EquippedInv /\ SlotInv /\ m \in Model /\ Fit(m) /\ Rest(a)
      /\ \A b \in Actor : Lulled(me[b]) /\ Equipped(me[b])
  BY SectionStep DEF Steady, Upkeep, Base, ReadyInv, Healthy, EquippedInv, Quiet, Enters
<1>2. SlotKept(m) \/ SlotGone(m) \/ SlotFilled(a, m) \/ SlotLulled(a, m) \/ SlotFreed(a, m)
  <2>1. me[a].pc = "register" /\ me[a].cur = m => me[a].fresh # None
    BY <1>1, ConfigAccepted DEF Fit, Live
  <2> QED
    BY <1>1, <2>1, SlotMoves
<1>3. slot'[m].ready => slot'[m].present /\ ~slot'[m].sleeping
  BY <1>1 DEF MarksNext, ReadyKept, Fit
<1>4. slot'[m].present /\ ~slot'[m].sleeping => slot'[m].cmd # None
  BY <1>1, <1>2, ConfigAccepted
     DEF SlotKept, SlotGone, SlotFilled, SlotLulled, SlotFreed, Fit, Lulled, Live
<1>d. \A b \in Actor \ {a} : me'[b].pc = me[b].pc /\ me'[b].cur = me[b].cur
  BY <1>1 DEF Rest, SameJob
<1>e. ASSUME me[a].pc = "suspended", me[a].cur = m  PROVE slot'[m].cmd = None
  <2>1. Evicted(a) \/ Slept(a)
    BY <1>e DEF Summary, Quiet, Enters, Empties, Kills, Registers, Publishes, Frees, Evicts,
                Suspends, Quells, Restarted, Skips, Starts, Launchable, Works, Departs, Section
  <2>2. Suspending(a) /\ m \notin me[a].lost
    BY <1>1, <1>e, <2>1 DEF Evicted, Slept, SlotInv, Clean, Relocks
  <2> QED
    BY <1>1, <1>e, <2>2, SuspendingKeeps
<1>5. slot'[m].cmd # None =>
        slot'[m].cmd \in Live' \/ \E b \in Actor : me'[b].pc = "suspended" /\ me'[b].cur = m
  <2> SUFFICES ASSUME slot'[m].cmd # None
               PROVE  slot'[m].cmd \in Live' \/ \E b \in Actor : me'[b].pc = "suspended" /\ me'[b].cur = m
    OBVIOUS
  <2>1. CASE slot'[m].cmd = slot[m].cmd /\ slot[m].cmd \in Live
    BY <1>1, <2>1, CmdLives DEF Quells, Works
  <2>2. CASE slot'[m].cmd = slot[m].cmd /\ slot[m].cmd \notin Live
    BY <1>1, <1>d, <1>e, <2>2 DEF Fit
  <2>3. CASE SlotFilled(a, m)
    BY <1>1, <2>3 DEF SlotFilled, Fit, Live, Alive
  <2> QED
    BY <1>2, <2>1, <2>2, <2>3 DEF SlotKept, SlotGone, SlotLulled, SlotFreed
<1>6. LeaseOn /\ slot'[m].sleeping => m \in Sleepy
  <2>1. SlotLulled(a, m) /\ LeaseOn => m \in Sleepy
    BY <1>1 DEF SlotLulled, Suspends, Works, Lulled, Equipped
  <2> QED
    BY <1>1, <1>2, <2>1 DEF SlotKept, SlotGone, SlotFilled, SlotFreed, Fit
<1>7. slot'[m].sleeping /\ slot'[m].cmd # None =>
        \E b \in Actor : me'[b].pc \in {"stopslot", "suspended"} /\ me'[b].cur = m
  <2>1. CASE SlotLulled(a, m)
    BY <2>1 DEF SlotLulled, Suspends, Works
  <2>2. ASSUME SlotKept(m), slot[m].sleeping, slot[m].cmd # None
        PROVE  \E b \in Actor : me'[b].pc \in {"stopslot", "suspended"} /\ me'[b].cur = m
    <3>1. PICK b \in Actor : me[b].pc \in {"stopslot", "suspended"} /\ me[b].cur = m
      BY <1>1, <2>2 DEF Fit
    <3>2. CASE b # a
      BY <1>d, <3>1, <3>2
    <3>3. CASE b = a /\ me[a].pc = "stopslot"
      <4>1. Quells(a)
        BY <3>3 DEF Summary, Quiet, Enters, Empties, Kills, Registers, Publishes, Frees, Evicts,
                    Suspends, Evicted, Slept, Restarted, Skips, Starts, Launchable, Works, Departs,
                    Section, Working
      <4> QED
        BY <3>1, <3>3, <4>1 DEF Quells, Works
    <3>4. CASE b = a /\ me[a].pc = "suspended"
      BY <1>e, <2>2, <3>1, <3>4 DEF SlotKept
    <3> QED
      BY <3>1, <3>2, <3>3, <3>4
  <2> QED
    BY <1>2, <2>1, <2>2 DEF SlotKept, SlotGone, SlotFilled, SlotFreed
<1>8. ASSUME NEW b \in Actor, m \in Pending(me'[b])  PROVE ~slot'[m].sleeping
  <2>1. CASE m \in Pending(me[b])
    <3>1. ~slot[m].sleeping
      BY <1>1, <2>1 DEF Fit
    <3>2. ~SlotLulled(a, m)
      BY <1>8, <2>1, LulledAlone DEF SlotLulled
    <3> QED
      BY <1>2, <3>1, <3>2 DEF SlotKept, SlotGone, SlotFilled, SlotFreed
  <2>2. CASE m \notin Pending(me[b])
    <3>1. ~slot'[m].sleeping \/ (me[b].pc = "launch" /\ Running(m) /\ slot' = slot)
      BY <1>8, <2>2 DEF MarksNext, Gains
    <3> QED
      BY <3>1, ReusedAwake
  <2> QED
    BY <2>1, <2>2
<1>9. \A b \in Actor : me'[b].pc = "register" /\ me'[b].cur = m => me'[b].fresh \in Live'
  BY FreshLives
<1> QED
  BY <1>3, <1>4, <1>5, <1>6, <1>7, <1>8, <1>9 DEF Fit, Pending

LEMMA SummaryLulled ==
  ASSUME Uncontested, Steady, ~overlapped, Up, NEW a \in Actor, Summary(a), NEW b \in Actor
  PROVE  Lulled(me[b])'
<1>1. /\ Base /\ Typed /\ SlotInv /\ EquippedInv /\ Equipped(me[b]) /\ Lulled(me[b]) /\ Rest(a)
      /\ Equipped(me[a]) /\ Clean(me[a])
  BY SectionStep DEF Steady, Upkeep, Base, SlotInv, ReadyInv, EquippedInv, Quiet, Enters
<1>2. CASE b # a
  <2>1. me'[b].pc = me[b].pc /\ me'[b].cur = me[b].cur /\ me'[b].kind = me[b].kind
    BY <1>1, <1>2 DEF Rest, SameJob
  <2>2. me[b].pc \in {"stopslot", "suspended"} => slot'[me[b].cur].sleeping = slot[me[b].cur].sleeping
    <3> SUFFICES ASSUME me[b].pc \in {"stopslot", "suspended"}
                 PROVE  slot'[me[b].cur].sleeping = slot[me[b].cur].sleeping
      OBVIOUS
    <3>1. me[a].pc \notin Section /\ me[b].cur \in Model
      BY <1>1, <1>2, SectionDef DEF Section, SlotInv, Serial, Equipped
    <3> QED
      BY <3>1, SectionStep DEF Quiet, Enters, SlotsKept
  <2> QED
    BY <1>1, <2>1, <2>2 DEF Lulled
<1>3. CASE b = a
  <2>1. CASE me'[a].pc = "stopslot"
    <3>1. Suspends(a)
      BY <2>1 DEF Summary, Quiet, Enters, Empties, Kills, Registers, Publishes, Frees, Evicts, Suspends,
                  Quells, Evicted, Slept, Restarted, Skips, Starts, Works, Departs, Working, Section
    <3>2. me[a].pc = "suspend" /\ me'[a].kind = me[a].kind /\ me'[a].cur = me[a].cur
      BY <3>1 DEF Suspends, Works
    <3>3. me[a].cur \in Model
      BY <1>1, <3>2 DEF Equipped
    <3>4. slot'[me[a].cur].sleeping
      <4>1. slot \in [Model -> Slot] /\ me[a].cur \notin me[a].lost
        BY <1>1, <3>2 DEF Typed, TypeOK, ProcTypeOK, Clean, Relocks
      <4> DEFINE put == [slot[me[a].cur] EXCEPT !.sleeping = TRUE, !.ready = FALSE]
      <4>2. put.sleeping
        BY <3>3, <4>1 DEF Slot
      <4>3. slot' = [slot EXCEPT ![me[a].cur] = put]
        BY <3>1, <4>1 DEF Suspends
      <4> HIDE DEF put
      <4> QED
        BY <3>3, <4>1, <4>2, <4>3
    <3> QED
      BY <1>1, <1>3, <3>2, <3>4 DEF Lulled
  <2>2. CASE me'[a].pc = "suspend"
    <3>1. Enters(a) \/ Evicts(a)
      BY <2>2 DEF Summary, Quiet, Enters, Empties, Kills, Registers, Publishes, Frees, Evicts, Suspends,
                  Quells, Evicted, Slept, Restarted, Skips, Starts, Works, Departs, Working, Section
    <3>2. LeaseOn => me'[a].kind = "sleep"
      BY <2>2, <3>1, NobodyEvicted DEF Enters
    <3> QED
      BY <1>3, <2>2, <3>2 DEF Lulled
  <2>3. CASE me'[a].pc = "suspended"
    <3>1. Quells(a)
      BY <2>3 DEF Summary, Quiet, Enters, Empties, Kills, Registers, Publishes, Frees, Evicts, Suspends,
                  Evicted, Slept, Restarted, Skips, Starts, Works, Departs, Working, Section
    <3>2. me[a].pc = "stopslot" /\ me'[a].kind = me[a].kind /\ me'[a].cur = me[a].cur
      BY <3>1 DEF Quells, Works
    <3>3. me[a].cur \in Model
      BY <1>1, <3>2 DEF Equipped
    <3>4. slot'[me[a].cur].sleeping = slot[me[a].cur].sleeping
      BY <1>1, <3>1, <3>3, QuellsKeeps
    <3> QED
      BY <1>1, <1>3, <3>2, <3>4 DEF Lulled
  <2> QED
    BY <1>3, <2>1, <2>2, <2>3 DEF Lulled
<1> QED
  BY <1>2, <1>3

LEMMA StillReady ==
  ASSUME Steady, MarksNext, ~overlapped, Up, Up', Still
  PROVE  (\A m \in Healthy : Fit(m)') /\ (\A a \in Actor : Lulled(me[a])')
<1>1. /\ Upkeep /\ Typed /\ EquippedInv /\ Foreground /\ RefInv /\ me' = me
      /\ \A n \in Healthy : n \in Model /\ Fit(n)
      /\ \A a \in Actor : Lulled(me[a]) /\ Equipped(me[a])
  BY DEF Steady, Upkeep, Base, ReadyInv, Healthy, EquippedInv, Still
<1>2. \A n \in Model : slot'[n].present = slot[n].present /\ slot'[n].sleeping = slot[n].sleeping
  BY DEF Still
<1>3. ASSUME NEW m \in Healthy, NEW p \in Live, CmdOf(os, p, m)  PROVE p \in Live'
  <2>1. OwnPort(os[p].model) /\ os[p].model \notin Faulty
    BY <1>1, <1>3, CmdModel
  <2>2. os'[p].server # "dead"
    BY <1>1, <1>3, <2>1, StillSpares
  <2> QED
    BY <2>2 DEF Live, Alive
<1>4. ASSUME NEW m \in Healthy  PROVE Fit(m)'
  <2>1. slot'[m].ready => slot'[m].present /\ ~slot'[m].sleeping
    BY <1>1, <1>2 DEF MarksNext, ReadyKept, Fit
  <2>2. \/ slot'[m].cmd = slot[m].cmd
        \/ slot'[m].cmd = None /\ \E a \in Actor : me[a].pc = "suspended" /\ me[a].cur = m
    <3>1. slot'[m].cmd = slot[m].cmd \/ (slot'[m].cmd = None /\ os[slot[m].cmd].wrapper = "exited")
      BY <1>1 DEF Still
    <3>2. slot[m].cmd \in Live => os[slot[m].cmd].wrapper = "alive"
      BY <1>1 DEF Live, Foreground
    <3> QED
      BY <1>1, <3>1, <3>2 DEF Fit
  <2>3. slot'[m].cmd # None =>
          slot'[m].cmd \in Live' \/ \E a \in Actor : me'[a].pc = "suspended" /\ me'[a].cur = m
    BY <1>1, <1>3, <2>2 DEF Fit, RefInv
  <2>6. slot'[m].present /\ ~slot'[m].sleeping => slot'[m].cmd # None
    BY <1>1, <1>2, <2>2 DEF Fit, Lulled
  <2>4. \A a \in Actor : m \in Pending(me'[a]) => ~slot'[m].sleeping
    BY <1>1, <1>2 DEF Fit
  <2>5. \A a \in Actor : me'[a].pc = "register" /\ me'[a].cur = m => me'[a].fresh \in Live'
    BY <1>1, <1>3 DEF Fit, RefInv
  <2> QED
    BY <1>1, <1>2, <2>1, <2>2, <2>3, <2>4, <2>5, <2>6 DEF Fit, Pending
<1>5. ASSUME NEW a \in Actor  PROVE Lulled(me[a])'
  BY <1>1, <1>2 DEF Lulled, Equipped
<1> QED
  BY <1>4, <1>5

LEMMA NextReady ==
  ASSUME Detaching = {}, Uncontested, Steady, [Next]_vars
  PROVE  Steady'
<1>1. Upkeep /\ Base /\ Typed /\ EquippedInv /\ RefInv /\ TidyInv /\ NoLoop
  BY DEF Steady, Upkeep, Base
<1>2. Upkeep' /\ RefInv' /\ NoLoop' /\ MarksNext /\ TidyInv'
  BY <1>1, NextUpkeep, NextRefs, NextNoLoop, NextMarks DEF MarksNext
<1>3. ReadyInv'
  <2> SUFFICES ASSUME ~overlapped', Up'
               PROVE  (\A m \in Healthy : Fit(m)') /\ (\A a \in Actor : Lulled(me[a])')
    BY DEF ReadyInv, Healthy
  <2>1. ~overlapped
    BY <1>1, OverlapStays
  <2>2. CASE Still
    BY <1>2, <2>1, <2>2, StillReady DEF Still
  <2>3. ASSUME NEW a \in Actor, Summary(a)
        PROVE  (\A m \in Healthy : Fit(m)') /\ (\A b \in Actor : Lulled(me[b])')
    <3>1. Up
      BY <2>3, SectionStep DEF Quiet, Enters
    <3> QED
      BY <1>2, <2>1, <2>3, <3>1, SummaryFit, SummaryLulled
  <2> QED
    BY <1>1, <2>2, <2>3, NextSummary
<1> QED
  BY <1>2, <1>3 DEF Steady

LEMMA InitSteady == Init => Steady
<1> SUFFICES ASSUME Init  PROVE Steady
  OBVIOUS
<1>1. Upkeep /\ RefInv
  BY InitUpkeep, InitRefs
<1>2. /\ \A a \in Actor : me[a] \in {At("start"), At("idle"), At("done")}
      /\ ~LeaseOn => me[Looper] = At("done")
      /\ slot = [m \in Model |-> NoSlot]
  BY ActorAssumption DEF Init, ProcInit, Actor
<1>3. \A p \in {"start", "idle", "done"} : Blank(At(p)) /\ At(p).pc = p
  BY AtBlank DEF At
<1>4. \A a \in Actor : Tidy(a, me[a]) /\ Pending(me[a]) = {}
  BY <1>2, <1>3, BlankTidy
<1>5. \A a \in Actor : Lulled(me[a]) /\ me[a].pc \notin {"register", "stopslot", "suspended"}
  BY <1>2, <1>3 DEF Lulled
<1>6. \A m \in Model : Fit(m)
  BY <1>2, <1>4, <1>5 DEF Fit, NoSlot
<1> QED
  BY <1>1, <1>2, <1>3, <1>4, <1>5, <1>6 DEF Steady, TidyInv, NoLoop, ReadyInv, Healthy

(* A slot that is ready has its process, as long as no two switches have overlapped: *)
(* a probe that was answered is not turned into readiness after the slot was put to   *)
(* sleep or lost its process (switching.go:297-334, process.go:80-86).  For every     *)
(* model whose process does not fail and has its port alone, whatever the others do;  *)
(* if all are such, this is ReadyRuns.  Uncontested leaves out what refutes it: a     *)
(* load that evicts a model which Loop has just probed (reconcile.go:159-169).        *)
THEOREM ReadyMeansRunning ==
  ASSUME Detaching = {}, Uncontested
  PROVE  Spec => [](SwitchesSerial =>
                      /\ Up => \A m \in Healthy : slot[m].ready => Running(m)
                      /\ Healthy = Model => ReadyRuns)
<1>1. Steady => (SwitchesSerial =>
                   /\ Up => \A m \in Healthy : slot[m].ready => Running(m)
                   /\ Healthy = Model => ReadyRuns)
  BY DEF Steady, SwitchesSerial, ReadyInv, Fit, Running, ReadyRuns, Healthy
<1>2. Steady /\ [Next]_vars => Steady'
  BY NextReady
<1> HIDE DEF Steady
<1> QED
  BY <1>1, <1>2, InitSteady, PTL DEF Spec

-----------------------------------------------------------------------------
(* Whoever waits for a resident member of the group keeps its channel *)

(* A slot that is ready has closed its channel, and so has one that sleepMember puts *)
(* to sleep; and a switch does not launch what is asleep.                            *)
Shut ==
  ~overlapped /\ Up =>
    /\ \A m \in Healthy : slot[m].ready => slot[m].closed
    /\ \A a \in Actor :
         me[a].pc \in {"suspend", "stopslot", "suspended"} /\ me[a].kind = "sleep" /\ me[a].cur \in Healthy =>
           slot[me[a].cur].closed
    /\ \A a \in Actor : me[a].pc = "register" /\ me[a].kind \in Switches => ~slot[me[a].cur].sleeping

LEMMA NextShut ==
  ASSUME Detaching = {}, Uncontested, Steady, Awake, Shut, [Next]_vars
  PROVE  Shut'
<1> SUFFICES ASSUME ~overlapped', Up'
             PROVE  /\ \A m \in Healthy : slot'[m].ready => slot'[m].closed
                    /\ \A b \in Actor :
                         /\ me'[b].pc \in {"suspend", "stopslot", "suspended"} /\ me'[b].kind = "sleep"
                         /\ me'[b].cur \in Healthy
                         => slot'[me'[b].cur].closed
                    /\ \A b \in Actor : me'[b].pc = "register" /\ me'[b].kind \in Switches =>
                                          ~slot'[me'[b].cur].sleeping
  BY DEF Shut, Healthy
<1>1. /\ ~overlapped /\ ReadyShut /\ StaysShut /\ Base /\ Typed /\ EquippedInv /\ SlotInv /\ Serial
      /\ Still \/ \E a \in Actor : Summary(a)
  BY NextAwake, NextSummary, OverlapStays DEF ChannelsNext, Steady, Upkeep, Base, SlotInv
<1>2. Up
  <2>1. \A a \in Actor : Summary(a) => Up
    BY SectionStep DEF Quiet, Enters
  <2> QED
    BY <1>1, <2>1 DEF Still
<1>3. /\ \A m \in Healthy : Fit(m) /\ m \in Model /\ (slot[m].ready => slot[m].closed)
      /\ \A a \in Actor : Lulled(me[a]) /\ WellFormed(me[a]) /\ Equipped(me[a])
  BY <1>1, <1>2 DEF Steady, ReadyInv, Shut, Healthy, Typed, Goroutine, EquippedInv
<1>4. ASSUME NEW m \in Healthy, slot'[m].ready  PROVE slot'[m].closed
  BY <1>1, <1>3, <1>4 DEF ReadyShut, Lulled, Fit
<1>5. ASSUME NEW b \in Actor, me'[b].pc \in {"suspend", "stopslot", "suspended"}, me'[b].kind = "sleep",
             me'[b].cur \in Healthy
      PROVE  slot'[me'[b].cur].closed
  <2> DEFINE m == me'[b].cur
  <2>1. CASE Still
    <3>1. me' = me /\ slot[m].closed
      BY <1>1, <1>2, <1>5, <2>1 DEF Still, Shut
    <3> QED
      BY <1>3, <1>5, <1>1, <3>1 DEF StaysShut
  <2>2. ASSUME NEW a \in Actor, Summary(a), b # a  PROVE slot'[m].closed
    <3>1. Rest(a)
      BY <2>2, SectionStep DEF Quiet, Enters
    <3>2. /\ \A d \in Actor \ {a} : me'[d].pc = me[d].pc /\ me'[d].kind = me[d].kind /\ me'[d].cur = me[d].cur
          /\ slot[m].closed
      BY <1>1, <1>2, <1>5, <2>2, <3>1 DEF Rest, SameJob, Shut
    <3>3. me[a].pc \notin Section
      BY <1>1, <1>5, <2>2, <3>2, SectionDef DEF Serial, Section
    <3> QED
      BY <1>1, <1>3, <1>5, <3>2, <3>3 DEF StaysShut, Section
  <2>3. ASSUME Summary(b)  PROVE slot'[m].closed
    <3>1. CASE Enters(b)
      BY <1>3, <1>5, <3>1 DEF Enters
    <3>2. CASE Suspends(b) \/ Quells(b)
      <4>1. /\ me[b].pc \in {"suspend", "stopslot"} /\ me[b].kind = "sleep" /\ me[b].cur = m /\ Rest(b)
        BY <1>5, <3>2 DEF Suspends, Quells, Works
      <4>2. slot[m].closed
        BY <1>1, <1>2, <1>5, <4>1 DEF Shut
      <4>3. \A d \in Actor \ {b} : me'[d].pc = me[d].pc
        BY <4>1 DEF Rest, SameJob
      <4> QED
        BY <1>1, <1>3, <1>5, <4>1, <4>2, <4>3 DEF StaysShut
    <3>3. ~Evicts(b)
      BY <1>3, <1>5 DEF Evicts, Works, WellFormed
    <3> QED
      BY <1>5, <2>3, <3>1, <3>2, <3>3
         DEF Summary, Quiet, Empties, Kills, Registers, Publishes, Frees, Evicted, Slept, Restarted,
             Skips, Starts, Works, Departs, Working, Section
  <2> QED
    BY <1>1, <2>1, <2>2, <2>3
<1>6. ASSUME NEW b \in Actor, me'[b].pc = "register", me'[b].kind \in Switches
      PROVE  ~slot'[me'[b].cur].sleeping
  <2>1. CASE Still
    BY <1>1, <1>2, <1>3, <1>6, <2>1 DEF Still, Shut, WellFormed
  <2>2. ASSUME NEW a \in Actor, Summary(a), b # a  PROVE ~slot'[me'[b].cur].sleeping
    <3>1. Rest(a)
      BY <2>2, SectionStep DEF Quiet, Enters
    <3>2. me[b].pc = "register" /\ me[b].kind \in Switches /\ me'[b].cur = me[b].cur
      BY <1>6, <2>2, <3>1 DEF Rest, SameJob
    <3>3. me[a].pc \notin Section /\ me[b].cur \in Model
      BY <1>1, <1>3, <2>2, <3>2, SectionDef DEF Serial, Section, WellFormed
    <3>4. slot' = slot \/ SlotsKept
      BY <2>2, <3>3, SectionStep DEF Quiet, Enters
    <3> QED
      BY <1>1, <1>2, <3>2, <3>3, <3>4 DEF Shut, SlotsKept
  <2>3. ASSUME Summary(b)  PROVE ~slot'[me'[b].cur].sleeping
    <3>1. PICK m \in Model : Starts(b, m)
      BY <1>6, <2>3 DEF Summary, Quiet, Enters, Empties, Kills, Registers, Publishes, Frees, Evicts,
                        Suspends, Quells, Evicted, Slept, Restarted, Skips, Works, Departs, Working,
                        Section
    <3>2. slot' = slot /\ me'[b].cur = m /\ me'[b].kind = me[b].kind /\ Launchable(b, m)
      BY <3>1 DEF Starts, Works
    <3>3. me[b].pc # "spawn"
      BY <1>3, <1>6, <3>2 DEF WellFormed, Switches
    <3> QED
      BY <3>2, <3>3 DEF Launchable
  <2> QED
    BY <1>1, <2>1, <2>2, <2>3
<1> QED
  BY <1>4, <1>5, <1>6

(* Whoever waits on the channel of a resident member of the group, whose process *)
(* does not fail and has its port alone, is not stranded: no switch removes or    *)
(* launches its slot, no load evicts it, and its sleep replaces only a channel    *)
(* that was closed (switching.go:74-116, process.go:216-224).  As long as no two  *)
(* switches have overlapped, and Loop marks nothing ready behind an eviction      *)
(* (Uncontested).                                                                 *)
THEOREM ResidentWaiters ==
  ASSUME Detaching = {}, Uncontested, \A m \in (Resident \cap Autostart) \ Faulty : OwnPort(m)
  PROVE  Spec => ResidentWaitersKept
<1> DEFINE Kept == ~overlapped' =>
                     \A c \in Caller :
                       me[c].chan = "open" /\ me[c].want \in (Resident \cap Autostart) \ Faulty =>
                         me'[c].chan # "dead"
<1>1. Init => Steady /\ Awake /\ Shut
  <2> SUFFICES ASSUME Init  PROVE Shut
    BY InitSteady, InitAwake
  <2>1. \A a \in Actor : me[a] \in {At("start"), At("idle"), At("done")}
    BY DEF Init
  <2>2. \A a \in Actor : me[a].pc \in {"start", "idle", "done"}
    BY <2>1 DEF At
  <2> QED
    BY <2>2 DEF Init, ProcInit, NoSlot, Shut, Healthy
<1>2. Steady /\ Awake /\ Shut /\ [Next]_vars => Steady' /\ Awake' /\ Shut'
  BY NextReady, NextAwake, NextShut
<1>3. Steady /\ Awake /\ Shut /\ [Next]_vars => Kept
  <2> SUFFICES ASSUME Steady, Awake, Shut, [Next]_vars, ~overlapped', NEW c \in Caller,
                      me[c].chan = "open", me[c].want \in (Resident \cap Autostart) \ Faulty,
                      me'[c].chan = "dead"
               PROVE  FALSE
    OBVIOUS
  <2> DEFINE m == me[c].want
  <2>1. /\ ~overlapped /\ Base /\ Typed /\ EquippedInv /\ SlotInv /\ c \in Actor
        /\ Still \/ \E a \in Actor : Summary(a)
    BY NextSummary, OverlapStays DEF Steady, Upkeep, Base, Actor
  <2>2. Up
    <3>1. \A a \in Actor : Summary(a) => Up
      BY SectionStep DEF Quiet, Enters
    <3> QED
      BY <2>1, <3>1 DEF Still
  <2>3. m \in Healthy /\ m \in Background /\ Fit(m)
    BY <2>1, <2>2, ConfigAccepted DEF Healthy, Steady, ReadyInv, Background
  <2>4. slot[m].present /\ ~slot[m].closed
    BY <2>1 DEF Awake, Attached
  <2>5. PICK a \in Actor : \/ me[a].pc = "stop" /\ ~Survives(m)
                           \/ me[a].pc = "register" /\ me[a].kind # "restart" /\ me[a].cur = m
                           \/ me[a].pc = "suspended" /\ me[a].cur = m
    BY <2>1, NextAwake DEF ChannelsNext, Stranding
  <2>6. WellFormed(me[a]) /\ Equipped(me[a]) /\ Tidy(a, me[a]) /\ Placed(me[a], slot)
    BY <2>1 DEF Typed, Goroutine, EquippedInv, Steady, TidyInv, SlotInv
  <2>7. CASE me[a].pc = "register" /\ me[a].kind # "restart" /\ me[a].cur = m
    <3>1. me[a].kind \in Switches
      BY <2>6, <2>7 DEF WellFormed, Equipped, Tidy, Singles, Switches
    <3>2. ~slot[m].sleeping /\ slot[m].cmd = None
      BY <2>1, <2>2, <2>6, <2>7, <3>1 DEF Shut, Placed
    <3> QED
      BY <2>3, <2>4, <3>2 DEF Fit
  <2>8. CASE me[a].pc = "suspended" /\ me[a].cur = m
    BY <2>1, <2>2, <2>3, <2>4, <2>6, <2>8 DEF Equipped, Shut
  <2> QED
    BY <2>3, <2>5, <2>7, <2>8 DEF Survives
<1> HIDE DEF Steady, Awake, Shut
<1> QED
  BY <1>1, <1>2, <1>3, PTL DEF Spec, ResidentWaitersKept
=============================================================================
