----------------------------- MODULE Validation -----------------------------
(***************************************************************************)
(* What config.Load checks of a decoded configuration before anybody sees  *)
(* it (internal/config/scheduling.go, validate.go): the entries of         *)
(* scheduling.models by themselves, the gpus they declare, the model ids,  *)
(* and the ports of all that may run at once.                               *)
(*                                                                         *)
(* The port check walks a Go map, in any order, and compares an entry only *)
(* with the first background entry that claimed its origin.                *)
(***************************************************************************)
EXTENDS Naturals, Sequences

CONSTANTS
  Id,         \* model ids
  Origin,     \* scheme://host:port of a readiness_url or of a back end
  GpuName,    \* gpus, in upper case
  ProxyId,    \* the id that ValidateModelIDs reserves
  None        \* no gpu, no origin, no model id

Entry ==
  [mode      : {"coding", "background", "blank"},
   command   : BOOLEAN,              \* a command is configured
   origin    : Origin \cup {None},   \* of readiness_url
   gpu       : GpuName \cup {None},
   autostart : BOOLEAN,
   resident  : BOOLEAN,
   no_pool   : BOOLEAN,
   sleeps    : BOOLEAN]              \* sleep_timeout > 0

Backend == [model : Id \cup {ProxyId, None}, origin : Origin \cup {None}]

VARIABLES
  pc,         \* where the goroutine that loads configurations is
  new,        \* the configuration under validation
  rest,       \* the entries that the port check has still to visit
  bgSeen,     \* bgSeen[o]: the background entry that claimed o, or None
  codeSeen    \* codeOrigins: the origins of the coding entries visited

portVars == <<rest, bgSeen, codeSeen>>

Background(c, m) == c.models[m].mode # "coding"

-----------------------------------------------------------------------------
(* validateScheduling *)

(* The entry by itself. *)
EntrySound(e) ==
  /\ e.mode # "blank"
  /\ e.command => e.origin # None
  /\ e.autostart \/ e.resident \/ e.no_pool \/ e.sleeps => e.mode = "background"
  /\ e.sleeps => e.no_pool

(* The members of the group start at once: no two of them on a gpu. *)
GroupApart(c) ==
  \A m, n \in DOMAIN c.models :
    /\ m # n /\ c.models[m].autostart /\ c.models[n].autostart
    /\ c.models[m].gpu # None
    => c.models[m].gpu # c.models[n].gpu

(* A resident model has its gpu for itself. *)
ResidentsAlone(c) ==
  \A r, m \in DOMAIN c.models :
    r # m /\ c.models[r].resident /\ c.models[r].gpu # None
      => c.models[m].gpu # c.models[r].gpu

(* ValidateModelIDs: one back end or one process for an id. *)
IdsUnique(c) ==
  /\ ProxyId \notin DOMAIN c.models
  /\ \A i \in DOMAIN c.backends :
       c.backends[i].model # None =>
         /\ c.backends[i].model \notin {ProxyId} \cup DOMAIN c.models
         /\ \A j \in DOMAIN c.backends : i # j => c.backends[i].model # c.backends[j].model

SchedulingSound(c) ==
  /\ \A m \in DOMAIN c.models : EntrySound(c.models[m])
  /\ GroupApart(c) /\ ResidentsAlone(c) /\ IdsUnique(c)

-----------------------------------------------------------------------------
(* ValidatePortCollisions *)

(* Two background entries on one gpu, neither resident, never run at once. *)
SwapInto(e, f) == e.gpu # None /\ e.gpu = f.gpu /\ ~e.resident /\ ~f.resident

PortsBegin ==
  /\ rest' = DOMAIN new.models
  /\ bgSeen' = [o \in Origin |-> None]
  /\ codeSeen' = {}

CheckScheduling ==
  /\ pc = "check"
  /\ IF SchedulingSound(new)
     THEN pc' = "ports" /\ PortsBegin
     ELSE pc' = "rejected" /\ UNCHANGED portVars
  /\ UNCHANGED new

VisitCoding(m) ==
  /\ pc = "ports" /\ m \in rest
  /\ ~Background(new, m)
  /\ rest' = rest \ {m}
  /\ codeSeen' = codeSeen \cup ({new.models[m].origin} \ {None})
  /\ UNCHANGED <<pc, new, bgSeen>>

(* Mutant: the last entry of an origin holds the claim, and nobody is compared. *)
VisitBackgroundUnchecked(m) ==
  LET e == new.models[m]
  IN  /\ pc = "ports" /\ m \in rest
      /\ Background(new, m)
      /\ rest' = rest \ {m}
      /\ bgSeen' = IF e.origin = None THEN bgSeen ELSE [bgSeen EXCEPT ![e.origin] = m]
      /\ UNCHANGED <<pc, new, codeSeen>>

VisitBackground(m) ==
  LET e == new.models[m]
  IN  /\ pc = "ports" /\ m \in rest
      /\ Background(new, m)
      /\ rest' = rest \ {m}
      /\ \/ /\ e.origin = None
            /\ UNCHANGED <<pc, bgSeen>>
         \/ /\ e.origin # None /\ bgSeen[e.origin] = None
            /\ bgSeen' = [bgSeen EXCEPT ![e.origin] = m]
            /\ UNCHANGED pc
         \/ /\ e.origin # None /\ bgSeen[e.origin] # None
            /\ pc' = IF SwapInto(e, new.models[bgSeen[e.origin]]) THEN pc ELSE "rejected"
            /\ UNCHANGED bgSeen
      /\ UNCHANGED <<new, codeSeen>>

(* The back ends, after the entries: they run all the time. *)
VisitBackends ==
  /\ pc = "ports" /\ rest = {}
  /\ pc' = IF \A i \in DOMAIN new.backends :
                LET o == new.backends[i].origin
                IN  o # None => bgSeen[o] = None /\ o \notin codeSeen
           THEN "accepted" ELSE "rejected"
  /\ UNCHANGED <<new, portVars>>

Validate ==
  \/ CheckScheduling
  \/ \E m \in rest : VisitCoding(m) \/ VisitBackground(m)
  \/ VisitBackends

-----------------------------------------------------------------------------
(* What the checks are for, pair by pair and in no order (the comment above    *)
(* ValidatePortCollisions): background entries on a port are of one gpu and    *)
(* none is resident; no back end shares a port with an entry.                  *)
PortsApart(c) ==
  /\ \A m, n \in DOMAIN c.models :
       /\ m # n /\ Background(c, m) /\ Background(c, n)
       /\ c.models[m].origin = c.models[n].origin /\ c.models[m].origin # None
       => /\ c.models[m].gpu = c.models[n].gpu /\ c.models[m].gpu # None
          /\ ~c.models[m].resident /\ ~c.models[n].resident
  /\ \A i \in DOMAIN c.backends, m \in DOMAIN c.models :
       c.backends[i].origin # None => c.backends[i].origin # c.models[m].origin

Sound(c) == SchedulingSound(c) /\ PortsApart(c)
=============================================================================
