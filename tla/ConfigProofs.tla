---------------------------- MODULE ConfigProofs ----------------------------
(***************************************************************************)
(* Proofs about ConfigWatch, for any files, any number of edits and any    *)
(* order in which the port check walks its map: types, the verdict of the  *)
(* validation, that no change is missed, and that a restart is asked for.   *)
(***************************************************************************)
EXTENDS ConfigWatch, SequenceTheorems, TLAPS

(* The steps at which `new` is the configuration that was decoded. *)
Decoded == {"check", "ports", "accepted", "rejected", "apply"}

PcInv ==
  /\ pc \in Decoded => new \in File
  /\ pc \in {"idle", "apply", "start"} => boot # Gone
  /\ disk = Gone => watch # inode

(* What the port check has established of the entries it visited. *)
PortsInv ==
  /\ rest \subseteq DOMAIN new.models
  /\ DOMAIN new.models \subseteq Id
  /\ SchedulingSound(new)
  /\ \A o \in Origin : bgSeen[o] # None =>
       /\ bgSeen[o] \in DOMAIN new.models \ rest
       /\ Background(new, bgSeen[o])
       /\ new.models[bgSeen[o]].origin = o
  /\ \A m \in DOMAIN new.models \ rest :
       LET e == new.models[m]
       IN  e.origin # None =>
             IF Background(new, m)
             THEN /\ bgSeen[e.origin] # None
                  /\ m = bgSeen[e.origin] \/ SwapInto(e, new.models[bgSeen[e.origin]])
             ELSE e.origin \in codeSeen
  /\ \A o \in codeSeen : \E m \in DOMAIN new.models :
       ~Background(new, m) /\ new.models[m].origin = o

VerdictInv == (pc = "ports" => PortsInv) /\ VerdictRight

GoneQueued == \E i \in 1..Len(events) : events[i] = "gone"

(* While the watch is not lost, it is on the file under the path or will be. *)
BoundInv == Watching /\ ~lost => watch = inode \/ GoneQueued

(* A change that the watch did not miss is on its way to being served. *)
OnItsWay ==
  \/ pc \in {"dead", "load"}
  \/ events # <<>>
  \/ timer
  \/ pc = "reread" /\ raw = disk
  \/ pc \in {"check", "ports", "accepted"} /\ new = disk
  \/ pc = "unread" /\ ~Loads(disk)
  \/ pc = "rejected" /\ new = disk
  \/ pc = "apply" /\ new = disk /\ served = disk
  \/ pc \in {"start", "idle"} /\ (Loads(disk) => served = disk /\ applied = disk)

OwedInv ==
  /\ lost /\ ~unseen => disk = Gone
  /\ ~unseen /\ disk # Gone => OnItsWay

TypeInv == ConfigTypeOK /\ PcInv

-----------------------------------------------------------------------------
(* Files have the fields that validation reads. *)
LEMMA EntriesTyped ==
  ASSUME NEW f \in File
  PROVE  /\ f.decodes => f.yaml
         /\ DOMAIN f.models \subseteq Id \cup {ProxyId}
         /\ \A m \in DOMAIN f.models : f.models[m] \in Entry
BY ConfigAssumption DEF FileOK

-----------------------------------------------------------------------------
(* Types *)

LEMMA TypeInit == Init => TypeInv
<1> SUFFICES ASSUME Init PROVE TypeInv
  OBVIOUS
<1>1. events \in Seq({"write", "gone"})
  BY EmptySeq DEF Init
<1>2. /\ edits \in 0..MaxEdits /\ inode \in Nat \ {0} /\ watch \in 0..inode
      /\ disk \in File /\ disk # Gone
  BY ConfigAssumption DEF Init
<1>3. bgSeen \in [Origin -> Id \cup {None}] /\ codeSeen \subseteq Origin
  BY DEF Init
<1>4. ConfigTypeOK
  BY <1>1, <1>2, <1>3 DEF Init, ConfigTypeOK, Steps
<1>5. PcInv
  BY <1>2 DEF Init, PcInv, Decoded
<1> QED
  BY <1>4, <1>5 DEF TypeInv

LEMMA TypeStep == ASSUME TypeInv, VerdictInv, [Next]_vars PROVE TypeInv'
<1> USE DEF TypeInv, ConfigTypeOK, PcInv, Steps, Decoded, watchVars, serverVars, fileVars, portVars
<1>1. CASE ReadFile
  BY <1>1 DEF ReadFile
<1>2. CASE ReadInConfig
  BY <1>2 DEF ReadInConfig
<1>3. CASE CheckScheduling /\ UNCHANGED <<raw, watchVars, serverVars, fileVars, lost>>
  BY <1>3 DEF CheckScheduling, PortsBegin
<1>4. ASSUME NEW m \in rest, VisitCoding(m), UNCHANGED <<raw, watchVars, serverVars, fileVars, lost>>
      PROVE  TypeInv'
  <2>1. PortsInv /\ new \in File
    BY <1>4 DEF VerdictInv, VisitCoding
  <2>2. new.models[m].origin \in Origin \cup {None}
    BY <1>4, <2>1, EntriesTyped DEF PortsInv, Entry
  <2> QED
    BY <1>4, <2>2 DEF VisitCoding
<1>5. ASSUME NEW m \in rest, VisitBackground(m), UNCHANGED <<raw, watchVars, serverVars, fileVars, lost>>
      PROVE  TypeInv'
  <2>1. PortsInv /\ new \in File
    BY <1>5 DEF VerdictInv, VisitBackground
  <2>2. m \in Id /\ new.models[m].origin \in Origin \cup {None}
    BY <1>5, <2>1, EntriesTyped DEF PortsInv, Entry
  <2>3. bgSeen' \in [Origin -> Id \cup {None}]
    BY <1>5, <2>2 DEF VisitBackground
  <2>4. pc' \in {"ports", "rejected"}
    BY <1>5 DEF VisitBackground
  <2> QED
    BY <1>5, <2>1, <2>3, <2>4 DEF VisitBackground
<1>6. CASE VisitBackends /\ UNCHANGED <<raw, watchVars, serverVars, fileVars, lost>>
  <2>1. pc' \in {"accepted", "rejected"}
    BY <1>6 DEF VisitBackends
  <2> QED
    BY <1>6, <2>1 DEF VisitBackends
<1>7. CASE Boot
  BY <1>7, ConfigAssumption DEF Boot
<1>8. CASE BootFails
  BY <1>8 DEF BootFails
<1>9. CASE WatchBegins
  BY <1>9 DEF WatchBegins
<1>10. CASE ReceiveWrite
  <2>1. events' \in Seq({"write", "gone"})
    BY <1>10, HeadTailProperties DEF ReceiveWrite
  <2> QED
    BY <1>10, <2>1 DEF ReceiveWrite
<1>11. CASE ReceiveGone
  <2>1. events' \in Seq({"write", "gone"})
    BY <1>11, HeadTailProperties DEF ReceiveGone
  <2> QED
    BY <1>11, <2>1 DEF ReceiveGone, Rebind
<1>12. CASE TimerFires
  BY <1>12 DEF TimerFires
<1>13. CASE ReloadFails
  BY <1>13 DEF ReloadFails
<1>14. CASE Publish
  BY <1>14, ConfigAssumption DEF Publish
<1>15. CASE Apply
  BY <1>15, ConfigAssumption DEF Apply
<1>16. CASE Editor
  <2>1. unseen' \in BOOLEAN /\ edits' \in 0..MaxEdits
    <3>1. Edit
      BY <1>16 DEF Editor, Remove, Overwrite, Replace, Create
    <3>2. unseen' \in BOOLEAN
      BY <3>1 DEF Edit, Watching
    <3>3. edits' \in 0..MaxEdits
      BY <3>1, ConfigAssumption DEF Edit
    <3> QED
      BY <3>2, <3>3
  <2>2. events' \in Seq({"write", "gone"})
    <3>1. \A e \in {"write", "gone"} : Append(events, e) \in Seq({"write", "gone"})
      BY AppendProperties
    <3> QED
      BY <1>16, <3>1 DEF Editor, Remove, Overwrite, Replace, Create, Notify, Unlink
  <2>3. /\ disk' \in File \cup {Gone} /\ inode' \in Nat \ {0} /\ watch' \in 0..inode'
        /\ disk' = Gone => watch' # inode'
    BY <1>16, ConfigAssumption DEF Editor, Remove, Overwrite, Replace, Create, Unlink
  <2>4. UNCHANGED <<pc, new, raw, portVars, timer, serverVars, lost>>
    BY <1>16 DEF Editor, Remove, Overwrite, Replace, Create, Edit
  <2> QED
    BY <2>1, <2>2, <2>3, <2>4
<1>17. CASE UNCHANGED vars
  BY <1>17 DEF vars
<1> QED
  BY <1>1, <1>2, <1>3, <1>4, <1>5, <1>6, <1>7, <1>8, <1>9, <1>10, <1>11, <1>12, <1>13,
     <1>14, <1>15, <1>16, <1>17
     DEF Next, Watcher, ValidateStep, Validate
-----------------------------------------------------------------------------
(* The verdict of the validation *)

LEMMA VerdictInit == Init => VerdictInv
BY DEF Init, VerdictInv, VerdictRight

(* Entries that pass beside the one that claimed their port pass beside each other. *)
LEMMA AcceptedApart ==
  ASSUME TypeInv, PortsInv, new \in File, rest = {},
         \A i \in DOMAIN new.backends :
           LET o == new.backends[i].origin
           IN  o # None => bgSeen[o] = None /\ o \notin codeSeen
  PROVE  Sound(new)
<1>1. \A m \in DOMAIN new.models : new.models[m].origin \in Origin \cup {None}
  BY EntriesTyped DEF Entry
<1>2. ASSUME NEW m \in DOMAIN new.models, NEW n \in DOMAIN new.models, m # n,
             Background(new, m), Background(new, n),
             new.models[m].origin = new.models[n].origin, new.models[m].origin # None
      PROVE  SwapInto(new.models[m], new.models[n])
  <2> DEFINE k == bgSeen[new.models[m].origin]
  <2>1. k # None /\ (m = k \/ SwapInto(new.models[m], new.models[k]))
    BY <1>2 DEF PortsInv
  <2>2. n = k \/ SwapInto(new.models[n], new.models[k])
    BY <1>2 DEF PortsInv
  <2> QED
    BY <1>2, <2>1, <2>2 DEF SwapInto
<1>3. ASSUME NEW i \in DOMAIN new.backends, NEW m \in DOMAIN new.models,
             new.backends[i].origin # None
      PROVE  new.backends[i].origin # new.models[m].origin
  BY <1>1, <1>3 DEF PortsInv
<1>4. PortsApart(new)
  BY <1>2, <1>3 DEF PortsApart, SwapInto
<1> QED
  BY <1>4 DEF Sound, PortsInv

LEMMA VerdictStep == ASSUME TypeInv, VerdictInv, [Next]_vars PROVE VerdictInv'
<1> USE DEF TypeInv, PcInv, Decoded, portVars
<1>1. CASE CheckScheduling
  <2>1. new \in File /\ new' = new /\ pc' \in {"ports", "rejected"}
    BY <1>1 DEF CheckScheduling
  <2>2. CASE SchedulingSound(new)
    <3>1. DOMAIN new.models \subseteq Id
      BY <2>1, <2>2, EntriesTyped DEF SchedulingSound, IdsUnique
    <3>2. PortsInv'
      BY <1>1, <2>1, <2>2, <3>1 DEF CheckScheduling, PortsBegin, PortsInv
    <3> QED
      BY <1>1, <2>2, <3>2 DEF CheckScheduling, VerdictInv, VerdictRight
  <2>3. CASE ~SchedulingSound(new)
    BY <1>1, <2>3 DEF CheckScheduling, VerdictInv, VerdictRight, Sound
  <2> QED
    BY <2>2, <2>3
<1>2. ASSUME NEW m \in rest, VisitCoding(m)
      PROVE  VerdictInv'
  <2>1. PortsInv /\ new \in File
    BY <1>2 DEF VerdictInv, VisitCoding
  <2>2. new.models[m].origin \in Origin \cup {None} /\ m \in DOMAIN new.models
    BY <1>2, <2>1, EntriesTyped DEF PortsInv, Entry
  <2>3. PortsInv'
    BY <1>2, <2>1, <2>2 DEF VisitCoding, PortsInv
  <2> QED
    BY <1>2, <2>3 DEF VisitCoding, VerdictInv, VerdictRight
<1>3. ASSUME NEW m \in rest, VisitBackground(m)
      PROVE  VerdictInv'
  <2> DEFINE e == new.models[m]
             k == bgSeen[e.origin]
  <2>1. PortsInv /\ new \in File /\ new' = new /\ rest' = rest \ {m} /\ codeSeen' = codeSeen
        /\ m \in DOMAIN new.models /\ Background(new, m) /\ pc = "ports"
    BY <1>3 DEF VerdictInv, VisitBackground, PortsInv
  <2>2. e.origin \in Origin \cup {None} /\ m \in Id /\ m # None
    BY <2>1, EntriesTyped, ConfigAssumption DEF PortsInv, Entry
  <2>3. CASE e.origin = None
    <3>1. PortsInv' /\ pc' = pc
      BY <1>3, <2>1, <2>3 DEF VisitBackground, PortsInv
    <3> QED
      BY <2>1, <3>1 DEF VerdictInv, VerdictRight
  <2>4. CASE e.origin # None /\ k = None
    <3>1. bgSeen' = [bgSeen EXCEPT ![e.origin] = m] /\ pc' = pc
      BY <1>3, <2>4 DEF VisitBackground
    <3>2. /\ bgSeen'[e.origin] = m
          /\ \A o \in Origin : o # e.origin => bgSeen'[o] = bgSeen[o]
      BY <2>2, <2>4, <3>1 DEF ConfigTypeOK
    <3>3. \A o \in Origin : bgSeen'[o] # None =>
            /\ bgSeen'[o] \in DOMAIN new.models \ rest'
            /\ Background(new, bgSeen'[o])
            /\ new.models[bgSeen'[o]].origin = o
      BY <2>1, <3>2 DEF PortsInv
    <3>4. ASSUME NEW n \in DOMAIN new.models \ rest', new.models[n].origin # None
          PROVE  IF Background(new, n)
                 THEN /\ bgSeen'[new.models[n].origin] # None
                      /\ \/ n = bgSeen'[new.models[n].origin]
                         \/ SwapInto(new.models[n], new.models[bgSeen'[new.models[n].origin]])
                 ELSE new.models[n].origin \in codeSeen
      <4>1. new.models[n].origin \in Origin
        BY <2>1, <3>4, EntriesTyped DEF Entry
      <4>2. CASE n = m
        BY <2>1, <2>2, <3>2, <4>2
      <4>3. CASE n # m
        BY <2>1, <2>4, <3>2, <3>4, <4>1, <4>3 DEF PortsInv
      <4> QED
        BY <4>2, <4>3
    <3>5. PortsInv'
      BY <2>1, <3>3, <3>4 DEF PortsInv, SchedulingSound
    <3> QED
      BY <2>1, <3>1, <3>5 DEF VerdictInv, VerdictRight
  <2>5. CASE e.origin # None /\ k # None
    <3>1. bgSeen' = bgSeen /\ pc' = IF SwapInto(e, new.models[k]) THEN pc ELSE "rejected"
      BY <1>3, <2>5 DEF VisitBackground
    <3>2. /\ k \in DOMAIN new.models \ rest /\ Background(new, k) /\ k # m
          /\ new.models[k].origin = e.origin
      BY <1>3, <2>1, <2>2, <2>5 DEF PortsInv
    <3>3. CASE SwapInto(e, new.models[k])
      <4>1. PortsInv'
        BY <2>1, <2>5, <3>1, <3>3, SMTT(40) DEF PortsInv
      <4> QED
        BY <2>1, <3>1, <3>3, <4>1 DEF VerdictInv, VerdictRight
    <3>4. CASE ~SwapInto(e, new.models[k])
      <4>1. ~PortsApart(new)
        BY <2>1, <2>5, <3>2, <3>4 DEF PortsApart, SwapInto
      <4> QED
        BY <2>1, <3>1, <3>4, <4>1 DEF VerdictInv, VerdictRight, Sound
    <3> QED
      BY <3>3, <3>4
  <2> QED
    BY <2>3, <2>4, <2>5
<1>4. CASE VisitBackends
  <2>1. PortsInv /\ new \in File /\ rest = {} /\ new' = new
    BY <1>4 DEF VisitBackends, VerdictInv
  <2>2. CASE \A i \in DOMAIN new.backends :
               LET o == new.backends[i].origin
               IN  o # None => bgSeen[o] = None /\ o \notin codeSeen
    <3>1. Sound(new)
      BY <2>1, <2>2, AcceptedApart
    <3>2. pc' = "accepted"
      BY <1>4, <2>2 DEF VisitBackends
    <3> QED
      BY <2>1, <3>1, <3>2 DEF VerdictInv, VerdictRight
  <2>3. CASE \E i \in DOMAIN new.backends :
               LET o == new.backends[i].origin
               IN  o # None /\ (bgSeen[o] # None \/ o \in codeSeen)
    <3>1. PICK i \in DOMAIN new.backends :
            LET o == new.backends[i].origin
            IN  o # None /\ (bgSeen[o] # None \/ o \in codeSeen)
      BY <2>3
    <3>2. new.backends[i].origin \in Origin
      <4>1. new.backends \in Seq(Backend)
        BY <2>1, ConfigAssumption DEF FileOK
      <4>2. new.backends[i] \in Backend
        BY <4>1, ElementOfSeq
      <4> QED
        BY <3>1, <4>2 DEF Backend
    <3>3. \E m \in DOMAIN new.models : new.models[m].origin = new.backends[i].origin
      BY <2>1, <3>1, <3>2 DEF PortsInv
    <3>4. ~PortsApart(new)
      BY <3>1, <3>3 DEF PortsApart
    <3>5. pc' = "rejected"
      BY <1>4, <2>3 DEF VisitBackends
    <3> QED
      BY <2>1, <3>4, <3>5 DEF VerdictInv, VerdictRight, Sound
  <2> QED
    BY <2>2, <2>3
<1>5. CASE ReadFile \/ ReadInConfig \/ Boot \/ BootFails \/ WatchBegins \/ ReloadFails \/ TimerFires
           \/ Publish \/ Apply
  <2>1. pc' \notin {"ports", "accepted", "rejected"}
    BY <1>5 DEF ReadFile, ReadInConfig, Boot, BootFails, WatchBegins, ReloadFails, TimerFires, Publish, Apply
  <2> QED
    BY <2>1 DEF VerdictInv, VerdictRight
<1>6. CASE ReceiveWrite \/ ReceiveGone \/ Editor \/ UNCHANGED vars
  <2>1. UNCHANGED <<pc, new, portVars>>
    BY <1>6 DEF ReceiveWrite, ReceiveGone, Editor, Remove, Overwrite, Replace, Create, Edit, vars
  <2>2. (PortsInv => PortsInv') /\ (Sound(new) <=> Sound(new)')
    BY <2>1 DEF PortsInv
  <2> QED
    BY <2>1, <2>2 DEF VerdictInv, VerdictRight
<1> QED
  BY <1>1, <1>2, <1>3, <1>4, <1>5, <1>6 DEF Next, Watcher, ValidateStep, Validate
-----------------------------------------------------------------------------
(* No change is missed *)

LEMMA BoundStep == ASSUME TypeInv, BoundInv, [Next]_vars PROVE BoundInv'
<1> USE DEF TypeInv, ConfigTypeOK, PcInv, watchVars, serverVars, fileVars, portVars
<1>1. CASE ReceiveWrite
  <2>1. UNCHANGED <<pc, boot, lost, watch, inode>> /\ events # <<>> /\ Head(events) = "write"
        /\ events' = Tail(events)
    BY <1>1 DEF ReceiveWrite
  <2>2. GoneQueued => GoneQueued'
    <3> SUFFICES ASSUME NEW i \in 1..Len(events), events[i] = "gone"
                 PROVE  GoneQueued'
      BY DEF GoneQueued
    <3>1. i # 1
      BY <2>1
    <3>2. Len(events') = Len(events) - 1 /\ events'[i - 1] = events[i]
      BY <2>1, <3>1, HeadTailProperties
    <3> QED
      BY <3>1, <3>2 DEF GoneQueued
  <2> QED
    BY <2>1, <2>2 DEF BoundInv, Watching
<1>2. CASE ReceiveGone
  BY <1>2 DEF ReceiveGone, Rebind, BoundInv
<1>3. CASE WatchBegins
  BY <1>3 DEF WatchBegins, BoundInv, Watching
<1>4. CASE Editor
  <2>1. UNCHANGED <<pc, boot, lost>>
    BY <1>4 DEF Editor, Remove, Overwrite, Replace, Create, Edit
  <2>2. SUFFICES ASSUME Watching, ~lost, watch = inode \/ GoneQueued
                 PROVE  watch' = inode' \/ GoneQueued'
    BY <2>1 DEF BoundInv, Watching
  <2>3. \A e \in {"write", "gone"} :
          /\ Len(Append(events, e)) = Len(events) + 1
          /\ Append(events, e)[Len(events) + 1] = e
          /\ \A i \in 1..Len(events) : Append(events, e)[i] = events[i]
    BY AppendProperties
  <2>4. Len(events) \in Nat
    BY LenProperties
  <2>5. events' = events \/ events' = Append(events, "write") \/ events' = Append(events, "gone")
    BY <1>4 DEF Editor, Remove, Overwrite, Replace, Create, Notify, Unlink
  <2>6. CASE GoneQueued
    <3>1. PICK i \in 1..Len(events) : events[i] = "gone"
      BY <2>6 DEF GoneQueued
    <3>2. i \in 1..Len(events') /\ events'[i] = "gone"
      BY <2>3, <2>4, <2>5, <3>1
    <3> QED
      BY <3>2 DEF GoneQueued
  <2>7. CASE watch = inode
    <3>1. CASE events' = Append(events, "gone")
      <4>1. Len(events) + 1 \in 1..Len(events') /\ events'[Len(events) + 1] = "gone"
        BY <2>3, <2>4, <3>1
      <4> QED
        BY <4>1 DEF GoneQueued
    <3>2. CASE events' # Append(events, "gone")
      BY <1>4, <2>7, <3>2 DEF Editor, Remove, Overwrite, Replace, Create, Notify, Unlink
    <3> QED
      BY <3>1, <3>2
  <2> QED
    BY <2>2, <2>6, <2>7
<1>5. CASE ReadFile \/ ReadInConfig \/ ValidateStep \/ Boot \/ BootFails \/ ReloadFails \/ TimerFires
           \/ Publish \/ Apply \/ UNCHANGED vars
  <2>1. UNCHANGED <<lost, watch, inode, events>> /\ (Watching' => Watching)
    BY <1>5 DEF ReadFile, ReadInConfig, ValidateStep, Validate, CheckScheduling, VisitCoding,
       VisitBackground, VisitBackends, Boot, BootFails, ReloadFails, TimerFires, Publish, Apply,
       Watching, vars
  <2> QED
    BY <2>1 DEF BoundInv, GoneQueued
<1> QED
  BY <1>1, <1>2, <1>3, <1>4, <1>5 DEF Next, Watcher

LEMMA OwedInit == Init => BoundInv /\ OwedInv
BY DEF Init, BoundInv, OwedInv, OnItsWay, Watching

LEMMA OwedStep ==
  ASSUME TypeInv, VerdictInv, BoundInv, OwedInv, [Next]_vars PROVE OwedInv'
<1> USE DEF TypeInv, ConfigTypeOK, PcInv, watchVars, serverVars, fileVars, portVars
<1>1. CASE ReadFile
  BY <1>1 DEF ReadFile, OwedInv, OnItsWay
<1>2. CASE ReadInConfig
  BY <1>2, EntriesTyped DEF ReadInConfig, OwedInv, OnItsWay, Loads
<1>3. CASE ValidateStep
  <2>1. /\ UNCHANGED <<new, raw, watchVars, serverVars, fileVars, lost>>
        /\ pc \in {"check", "ports"} /\ pc' \in {"ports", "accepted", "rejected"}
    BY <1>3 DEF ValidateStep, Validate, CheckScheduling, VisitCoding, VisitBackground, VisitBackends
  <2> QED
    BY <2>1 DEF OwedInv, OnItsWay
<1>4. CASE Boot
  BY <1>4 DEF Boot, OwedInv, OnItsWay
<1>5. CASE BootFails
  BY <1>5 DEF BootFails, OwedInv, OnItsWay
<1>6. CASE WatchBegins
  BY <1>6 DEF WatchBegins, OwedInv, OnItsWay
<1>7. CASE ReceiveWrite \/ ReceiveGone
  BY <1>7 DEF ReceiveWrite, ReceiveGone, OwedInv, OnItsWay
<1>8. CASE TimerFires
  BY <1>8 DEF TimerFires, OwedInv, OnItsWay
<1>9. CASE ReloadFails
  BY <1>9 DEF ReloadFails, OwedInv, OnItsWay, VerdictInv, VerdictRight, Loads
<1>10. CASE Publish
  BY <1>10 DEF Publish, OwedInv, OnItsWay
<1>11. CASE Apply
  BY <1>11 DEF Apply, OwedInv, OnItsWay
<1>12. CASE Editor
  <2>1. Edit
    BY <1>12 DEF Editor, Remove, Overwrite, Replace, Create
  <2>2. CASE lost \/ ~Watching
    BY <2>1, <2>2 DEF Edit, OwedInv
  <2>3. CASE ~lost /\ Watching
    <3>1. events' # <<>>
      <4>1. GoneQueued => events # <<>>
        BY DEF GoneQueued
      <4>2. watch = inode \/ events # <<>>
        BY <2>3, <4>1 DEF BoundInv
      <4>3. \A e \in {"write", "gone"} : Append(events, e) # <<>>
        BY AppendProperties
      <4>4. watch = inode => disk # Gone
        OBVIOUS
      <4> QED
        BY <1>12, <4>2, <4>3, <4>4 DEF Editor, Remove, Overwrite, Replace, Create, Notify, Unlink
    <3> QED
      BY <2>1, <2>3, <3>1 DEF Edit, OwedInv, OnItsWay
  <2> QED
    BY <2>2, <2>3
<1>13. CASE UNCHANGED vars
  BY <1>13 DEF vars, OwedInv, OnItsWay
<1> QED
  BY <1>1, <1>2, <1>3, <1>4, <1>5, <1>6, <1>7, <1>8, <1>9, <1>10, <1>11, <1>12, <1>13
     DEF Next, Watcher

-----------------------------------------------------------------------------
(* A restart is asked for *)

LEMMA WarnedStep == ASSUME WarnedOfRestart, [Next]_vars PROVE WarnedOfRestart'
<1>1. CASE Boot
  BY <1>1 DEF Boot, WarnedOfRestart
<1>2. CASE Publish
  <2>1. Launch(served') = Launch(new)
    BY <1>2 DEF Publish
  <2>2. boot' = boot /\ warned' = IF Launch(new) # Launch(served) THEN Launch(new) ELSE warned
    BY <1>2 DEF Publish
  <2> QED
    BY <2>1, <2>2 DEF WarnedOfRestart
<1>3. CASE ~Boot /\ ~Publish
  <2>1. UNCHANGED <<served, boot, warned>>
    BY <1>3 DEF Next, Watcher, Editor, ReadFile, ReadInConfig, ValidateStep, BootFails, WatchBegins,
       ReceiveWrite, ReceiveGone, TimerFires, ReloadFails, Apply, Remove, Overwrite, Replace,
       Create, Edit, serverVars, vars
  <2> QED
    BY <2>1 DEF WarnedOfRestart
<1> QED
  BY <1>1, <1>2, <1>3

-----------------------------------------------------------------------------
IInv == TypeInv /\ VerdictInv /\ BoundInv /\ OwedInv

LEMMA InvInductive == Spec => []IInv
<1>1. Init => IInv
  BY TypeInit, VerdictInit, OwedInit DEF IInv
<1>2. IInv /\ [Next]_vars => IInv'
  BY TypeStep, VerdictStep, BoundStep, OwedStep DEF IInv
<1> QED
  BY <1>1, <1>2, PTL DEF Spec

(* Every state of the configuration's loading and watching is well typed, and what *)
(* is served and applied was loaded (main.go, config_watch.go).                     *)
THEOREM ConfigTypeCorrect == Spec => []ConfigTypeOK
<1>1. IInv => ConfigTypeOK
  BY DEF IInv, TypeInv
<1> QED
  BY <1>1, InvInductive, PTL

(* For any configuration and any order in which Go walks scheduling.models, Load *)
(* accepts exactly the configurations whose entries and back ends are apart: it  *)
(* is enough to compare with the first entry on a port (validate.go).             *)
THEOREM VerdictCorrect == Spec => []VerdictRight
<1>1. IInv => VerdictRight
  BY DEF IInv, VerdictInv
<1> QED
  BY <1>1, InvInductive, PTL

(* For any number of edits, a loop at rest has applied the file, unless it was *)
(* changed before the watch began or after it was lost (watchConfig).           *)
THEOREM NoEditMissed == Spec => []CaughtUp
<1>1. IInv => CaughtUp
  BY DEF IInv, OwedInv, OnItsWay, CaughtUp
<1> QED
  BY <1>1, InvInductive, PTL

(* Launch settings that are published but not running were asked a restart for *)
(* (reloadConfig).                                                              *)
THEOREM RestartAnnounced == Spec => []WarnedOfRestart
<1>1. Init => WarnedOfRestart
  BY DEF Init, WarnedOfRestart
<1> QED
  BY <1>1, WarnedStep, PTL DEF Spec
=============================================================================
