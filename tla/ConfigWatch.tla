---------------------------- MODULE ConfigWatch ----------------------------
(***************************************************************************)
(* The configuration file from the start of the proxy on: main loads it,   *)
(* watchConfig watches it, and each change is loaded again, validated and  *)
(* published (main.go, config_watch.go, internal/config/config.go).        *)
(*                                                                         *)
(* The watch is on the file (an inode), not on its name: a file that is    *)
(* renamed away or replaced takes the watch with it, and the handler of    *)
(* that event has to add it again.  Load reads the file twice.              *)
(***************************************************************************)
EXTENDS Validation

CONSTANTS
  File,       \* the contents a configuration file may have
  Saved,      \* those that an editor writes while the proxy runs
  Gone,       \* no file under the path
  MaxEdits    \* bounds the edits

(* decodes: viper and the declarative validation accept it, as they do an empty file, *)
(* since every section has defaults.  yaml: it parses at least.  legacy: it has       *)
(* routing fields that only checkLegacyRouting looks for.  fixed: what cannot be      *)
(* reloaded outside of scheduling.                                                     *)
FileOK(f) ==
  /\ f.yaml \in BOOLEAN /\ f.decodes \in BOOLEAN /\ f.legacy \in BOOLEAN
  /\ f.decodes => f.yaml
  /\ \E M \in SUBSET (Id \cup {ProxyId}) : f.models \in [M -> Entry]
  /\ f.backends \in Seq(Backend)

ASSUME ConfigAssumption ==
  /\ Saved \subseteq File /\ Gone \notin File
  /\ None \notin Id \cup Origin \cup GpuName \cup {ProxyId}
  /\ ProxyId \notin Id
  /\ MaxEdits \in Nat
  /\ \A f \in File : FileOK(f)

VARIABLES
  disk,       \* what is under the path
  inode,      \* which file is under the path
  watch,      \* the file that inotify watches, 0: none
  events,     \* fsw.Events not yet received
  timer,      \* the debounce timer runs
  raw,        \* what os.ReadFile returned
  served,     \* cfg and yamlCfg
  applied,    \* the balancer's list, the retention, the scheduler's timings
  boot,       \* what the proxy started with, Gone before
  warned,     \* the launch settings of the last reload that asked for a restart
  lost,       \* the watch could not be added again
  unseen,     \* the file was changed before the watch began or after it was lost
  edits

watchVars == <<watch, events, timer>>
serverVars == <<served, applied, boot, warned>>
fileVars == <<disk, inode, unseen, edits>>
vars == <<pc, new, portVars, watchVars, serverVars, fileVars, raw, lost>>

Watching == pc \notin {"dead", "start"} /\ boot # Gone

(* processLaunch and the other settings that reloadConfig compares. *)
Launch(f) ==
  [fixed   |-> f.fixed,
   entries |-> [m \in DOMAIN f.models |->
                  <<f.models[m].mode, f.models[m].command, f.models[m].origin>>],
   default |-> {m \in DOMAIN f.models : f.models[m].autostart}]

Init ==
  /\ disk \in File /\ inode = 1 /\ unseen = FALSE /\ edits = 0
  /\ watch = 0 /\ events = <<>> /\ timer = FALSE
  /\ pc = "load" /\ new = Gone /\ raw = Gone
  /\ rest = {} /\ bgSeen = [o \in Origin |-> None] /\ codeSeen = {}
  /\ served = Gone /\ applied = Gone /\ boot = Gone /\ warned = Gone
  /\ lost = FALSE

-----------------------------------------------------------------------------
(* config.Load *)

(* os.ReadFile *)
ReadFile ==
  /\ pc = "load"
  /\ IF disk = Gone THEN pc' = "unread" ELSE pc' = "reread"
  /\ raw' = disk
  /\ UNCHANGED <<new, portVars, watchVars, serverVars, fileVars, lost>>

(* viper reads the file again; the legacy fields are looked for in the first read. *)
ReadInConfig ==
  /\ pc = "reread"
  /\ IF disk # Gone /\ disk.decodes /\ raw.yaml /\ ~raw.legacy
     THEN pc' = "check" /\ new' = disk
     ELSE pc' = "unread" /\ UNCHANGED new
  /\ UNCHANGED <<raw, portVars, watchVars, serverVars, fileVars, lost>>

ValidateStep == Validate /\ UNCHANGED <<raw, watchVars, serverVars, fileVars, lost>>

-----------------------------------------------------------------------------
HasBackend(f) == f.backends # <<>> \/ DOMAIN f.models # {}

(* Mutant: the balancer is left to the first reload. *)
BootUnapplied ==
  /\ pc = "accepted" /\ boot = Gone /\ HasBackend(new)
  /\ boot' = new /\ served' = new /\ warned' = Launch(new)
  /\ pc' = "start"
  /\ UNCHANGED <<new, raw, portVars, watchVars, fileVars, applied, lost>>

(* main: a configuration that does not load or has nothing to forward to ends the   *)
(* proxy (a reload checks only the first); else stores, balancer and scheduler are  *)
(* made, and then the watch begins.                                                  *)
Boot ==
  /\ pc = "accepted" /\ boot = Gone /\ HasBackend(new)
  /\ boot' = new /\ served' = new /\ applied' = new /\ warned' = Launch(new)
  /\ pc' = "start"
  /\ UNCHANGED <<new, raw, portVars, watchVars, fileVars, lost>>

BootFails ==
  /\ boot = Gone
  /\ pc \in {"unread", "rejected"} \/ (pc = "accepted" /\ ~HasBackend(new))
  /\ pc' = "dead"
  /\ UNCHANGED <<new, raw, portVars, watchVars, serverVars, fileVars, lost>>

(* watchConfig adds the watch; without a file it ends the proxy. *)
WatchBegins ==
  /\ pc = "start"
  /\ IF disk = Gone
     THEN pc' = "dead" /\ UNCHANGED watch
     ELSE pc' = "idle" /\ watch' = inode
  /\ UNCHANGED <<new, raw, portVars, events, timer, serverVars, fileVars, lost>>

-----------------------------------------------------------------------------
(* watchConfig's loop *)

(* Mutant: the file that took the name is not watched. *)
RebindNever == watch

(* fsw.Add(path): its error is ignored. *)
Rebind == IF disk = Gone THEN 0 ELSE inode

ReceiveWrite ==
  /\ pc = "idle" /\ events # <<>> /\ Head(events) = "write"
  /\ events' = Tail(events)
  /\ timer' = TRUE
  /\ UNCHANGED <<pc, new, raw, portVars, watch, serverVars, fileVars, lost>>

(* Rename or Remove. *)
ReceiveGone ==
  /\ pc = "idle" /\ events # <<>> /\ Head(events) = "gone"
  /\ events' = Tail(events)
  /\ watch' = Rebind
  /\ lost' = (lost \/ disk = Gone)
  /\ timer' = TRUE
  /\ UNCHANGED <<pc, new, raw, portVars, serverVars, fileVars>>

(* 200 ms without an event: reloadConfigFrom. *)
TimerFires ==
  /\ pc = "idle" /\ timer
  /\ timer' = FALSE
  /\ pc' = "load"
  /\ UNCHANGED <<new, raw, portVars, watch, events, serverVars, fileVars, lost>>

(* Mutant: a configuration that does not load ends the loop. *)
ReloadFailsReturns ==
  /\ pc \in {"unread", "rejected"} /\ boot # Gone
  /\ pc' = "dead"
  /\ UNCHANGED <<new, raw, portVars, watchVars, serverVars, fileVars, lost>>

(* The current configuration is kept. *)
ReloadFails ==
  /\ pc \in {"unread", "rejected"} /\ boot # Gone
  /\ pc' = "idle"
  /\ UNCHANGED <<new, raw, portVars, watchVars, serverVars, fileVars, lost>>

(* Mutant: the new configuration is published before it is compared. *)
PublishFirst ==
  /\ pc = "accepted" /\ boot # Gone
  /\ served' = new
  /\ pc' = "apply"
  /\ UNCHANGED <<warned, new, raw, portVars, watchVars, applied, boot, fileVars, lost>>

(* reloadConfig: compare with what was published, then applyConfig. *)
Publish ==
  /\ pc = "accepted" /\ boot # Gone
  /\ warned' = IF Launch(new) # Launch(served) THEN Launch(new) ELSE warned
  /\ served' = new
  /\ pc' = "apply"
  /\ UNCHANGED <<new, raw, portVars, watchVars, applied, boot, fileVars, lost>>

(* Retention, balancer, timings; then the events. *)
Apply ==
  /\ pc = "apply"
  /\ applied' = new
  /\ pc' = "idle"
  /\ UNCHANGED <<new, raw, portVars, watchVars, served, boot, warned, fileVars, lost>>

Watcher ==
  \/ ReadFile \/ ReadInConfig \/ ValidateStep
  \/ Boot \/ BootFails \/ WatchBegins
  \/ ReceiveWrite \/ ReceiveGone \/ TimerFires
  \/ ReloadFails \/ Publish \/ Apply

-----------------------------------------------------------------------------
(* Editors *)

Edit ==
  /\ edits < MaxEdits
  /\ edits' = edits + 1
  /\ unseen' = (lost \/ ~Watching)
  /\ UNCHANGED <<pc, new, raw, portVars, timer, serverVars, lost>>

Notify(e) == events' = IF watch = inode THEN Append(events, e) ELSE events

(* The file under the path loses its name: the watch goes with it. *)
Unlink == Notify("gone") /\ watch' = IF watch = inode THEN 0 ELSE watch

(* A write in place; a truncation writes the empty file. *)
Overwrite(f) ==
  /\ Edit
  /\ disk # Gone
  /\ disk' = f
  /\ Notify("write")
  /\ UNCHANGED <<inode, watch>>

(* rename(2) of a new file over the path. *)
Replace(f) ==
  /\ Edit
  /\ disk # Gone
  /\ disk' = f
  /\ inode' = inode + 1
  /\ Unlink

(* The file is removed or renamed away (a backup). *)
Remove ==
  /\ Edit
  /\ disk # Gone
  /\ disk' = Gone
  /\ Unlink
  /\ UNCHANGED inode

Create(f) ==
  /\ Edit
  /\ disk = Gone
  /\ disk' = f
  /\ inode' = inode + 1
  /\ UNCHANGED <<watch, events>>

Editor == Remove \/ \E f \in Saved : Overwrite(f) \/ Replace(f) \/ Create(f)

Next == Watcher \/ Editor
Spec == Init /\ [][Next]_vars

(* The goroutine runs, timers expire and inotify delivers; nobody has to edit. *)
FairSpec == Spec /\ WF_vars(Watcher)

-----------------------------------------------------------------------------
(* Properties *)

Steps == {"load", "reread", "check", "ports", "accepted", "unread", "rejected",
          "start", "idle", "apply", "dead"}

(* Every variable has its type; what is served and what is applied were loaded. *)
ConfigTypeOK ==
  /\ pc \in Steps
  /\ disk \in File \cup {Gone} /\ raw \in File \cup {Gone} /\ new \in File \cup {Gone}
  /\ served \in File \cup {Gone} /\ applied \in File \cup {Gone} /\ boot \in File \cup {Gone}
  /\ served = Gone <=> boot = Gone
  /\ applied = Gone <=> boot = Gone
  /\ inode \in Nat \ {0} /\ watch \in 0..inode
  /\ events \in Seq({"write", "gone"})
  /\ timer \in BOOLEAN /\ lost \in BOOLEAN /\ unseen \in BOOLEAN
  /\ edits \in 0..MaxEdits
  /\ bgSeen \in [Origin -> Id \cup {None}]
  /\ codeSeen \subseteq Origin

(* The verdict does not depend on the order in which the map was walked: what is   *)
(* accepted keeps apart all that ValidatePortCollisions and validateScheduling say *)
(* must be apart, and nothing that does is rejected (validate.go, scheduling.go).  *)
VerdictRight ==
  /\ pc = "accepted" => Sound(new)
  /\ pc = "rejected" => ~Sound(new)

Loads(f) == f.decodes /\ ~f.legacy /\ Sound(f)

(* When watchConfig waits and nothing is pending, the proxy runs with what the file *)
(* says, if that can be loaded: no change is lost between an event, the debounce,   *)
(* a reload under way and a file that was replaced, except one made before the      *)
(* watch began or after it was lost (config_watch.go).                               *)
CaughtUp ==
  pc = "idle" /\ events = <<>> /\ ~timer /\ ~unseen /\ disk # Gone =>
    (Loads(disk) => served = disk /\ applied = disk)

(* When the published launch settings are not those the processes were started with, *)
(* a restart was asked for when they were published (config_watch.go:9-10): later     *)
(* reloads compare with what was published, not with what runs.                        *)
WarnedOfRestart ==
  boot # Gone /\ Launch(served) # Launch(boot) => warned = Launch(served)

(* A file that loads, stays as it is and was not missed by the watch is served, also *)
(* after saves that did not load (reloadConfigFrom keeps the current configuration). *)
EditServed ==
  \A f \in File :
    Loads(f) => (<>[](disk = f /\ boot # Gone /\ ~unseen) => <>[](served = f /\ applied = f))
=============================================================================
