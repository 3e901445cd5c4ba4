------------------------------- MODULE Panel -------------------------------
(***************************************************************************)
(* The list of requests in flight on its way to the web panels: request    *)
(* handlers change Server.inflight and broadcast the list through the      *)
(* event hub, which puts it into the bounded channel of every connected    *)
(* panel and drops it where the channel is full; a connection's handler    *)
(* writes it to its page.  Connections are lost and come back, and a       *)
(* shutdown cancels those that are registered then.                        *)
(***************************************************************************)
EXTENDS Naturals, Sequences

CONSTANTS
  Request,
  Client,
  Cap,      \* capacity of a client's channel (64 in the code)
  Other     \* an event of another type: statistics, scheduler, models

ASSUME PanelAssumption == Cap \in Nat \ {0}

VARIABLES
  inflight,   \* Server.inflight
  hpc,        \* where a request's handler is
  snap,       \* the list it took, to be broadcast
  hub,        \* EventHub.clients
  buffer,     \* their channels
  conn,       \* where the handler of a panel's connection is
  out,        \* what it is writing
  registered, \* Server.sseCancels
  cancelled,  \* registered connections that cancelAllSSE cancels
  lost,       \* connections that their page has lost
  phase,      \* "up", "closing" (Server.Shutdown at work), "swept" (cancelAllSSE ran), "down"
  live,       \* the EventSource of the client's page is connected
  told,       \* the last list that was put into the client's channel
  alone,      \* requests whose change and broadcast overlap nobody else's
  blurred     \* clients whose last list was broadcast beside another change, or dropped

work == <<inflight, hpc, snap, alone>>
stream == <<hub, buffer, told, blurred>>
connection == <<conn, out, registered, cancelled, lost>>
vars == <<work, stream, connection, phase, live>>

Init ==
  /\ inflight = {} /\ alone = {} /\ hub = {} /\ registered = {} /\ cancelled = {} /\ lost = {}
  /\ hpc = [r \in Request |-> "idle"]
  /\ snap = [r \in Request |-> {}]
  /\ buffer = [c \in Client |-> <<>>]
  /\ conn = [c \in Client |-> "off"]
  /\ out = [c \in Client |-> Other]
  /\ phase = "up" /\ live = {}
  /\ told = [c \in Client |-> {}] /\ blurred = {}

Running == phase # "down"

-----------------------------------------------------------------------------
(* Request handlers: inflightAdd and inflightRemove.                       *)

(* Between its change and the broadcast of the list.                       *)
Between(r) == hpc[r] \in {"adding", "added", "removing", "removed"}

Change(r, from, to) ==
  LET others == {q \in Request : Between(q)}
  IN  /\ Running /\ hpc[r] = from
      /\ hpc' = [hpc EXCEPT ![r] = to]
      /\ alone' = IF others = {} THEN {r} ELSE {}
      /\ UNCHANGED <<snap, stream, connection, phase, live>>

Add(r) == Change(r, "idle", "adding") /\ inflight' = inflight \union {r}
Remove(r) == Change(r, "busy", "removing") /\ inflight' = inflight \ {r}

(* Mutant: the list is taken before the change is made. *)
ListFirst(r) ==
  /\ Running
  /\ \/ /\ hpc[r] = "adding" /\ hpc' = [hpc EXCEPT ![r] = "added"]
        /\ snap' = [snap EXCEPT ![r] = inflight \ {r}]
     \/ /\ hpc[r] = "removing" /\ hpc' = [hpc EXCEPT ![r] = "removed"]
        /\ snap' = [snap EXCEPT ![r] = inflight \union {r}]
  /\ UNCHANGED <<inflight, alone, stream, connection, phase, live>>

(* The lock is taken again to copy the list. *)
List(r) ==
  /\ Running
  /\ \/ hpc[r] = "adding" /\ hpc' = [hpc EXCEPT ![r] = "added"]
     \/ hpc[r] = "removing" /\ hpc' = [hpc EXCEPT ![r] = "removed"]
  /\ snap' = [snap EXCEPT ![r] = inflight]
  /\ UNCHANGED <<inflight, alone, stream, connection, phase, live>>

Room(c) == Len(buffer[c]) < Cap

Send(m) == buffer' = [c \in Client |-> IF c \in hub /\ Room(c) THEN Append(buffer[c], m) ELSE buffer[c]]

(* Mutant: the hub waits for room in every channel. *)
BroadcastWaits(r) ==
  /\ Running /\ \A c \in hub : Room(c)
  /\ \/ hpc[r] = "added" /\ hpc' = [hpc EXCEPT ![r] = "busy"]
     \/ hpc[r] = "removed" /\ hpc' = [hpc EXCEPT ![r] = "done"]
  /\ Send(snap[r])
  /\ UNCHANGED <<inflight, snap, alone, hub, told, blurred, connection, phase, live>>

(* BroadcastWithType holds the hub's lock for all clients. *)
Broadcast(r) ==
  /\ Running
  /\ \/ hpc[r] = "added" /\ hpc' = [hpc EXCEPT ![r] = "busy"]
     \/ hpc[r] = "removed" /\ hpc' = [hpc EXCEPT ![r] = "done"]
  /\ Send(snap[r])
  /\ snap' = [snap EXCEPT ![r] = {}]
  /\ told' = [c \in Client |-> IF c \in hub /\ Room(c) THEN snap[r] ELSE told[c]]
  /\ blurred' = IF r \in alone THEN (blurred \ hub) \union {c \in hub : ~Room(c)}
                ELSE blurred \union hub
  /\ UNCHANGED <<inflight, alone, hub, connection, phase, live>>

BroadcastOther ==
  /\ Running /\ hub # {}
  /\ Send(Other) /\ buffer' # buffer
  /\ UNCHANGED <<work, hub, told, blurred, connection, phase, live>>

-----------------------------------------------------------------------------
(* handleEvents, for a panel's connection.                                 *)

(* The page's EventSource connects: the handler subscribes. A connection     *)
(* that was accepted in time may bring its request during the shutdown.      *)
Subscribe(c) ==
  /\ Running /\ conn[c] = "off"
  /\ live' = live \union {c}
  /\ conn' = [conn EXCEPT ![c] = "subscribed"]
  /\ hub' = hub \union {c}
  /\ blurred' = blurred \union {c}
  /\ UNCHANGED <<work, buffer, told, out, registered, cancelled, lost, phase>>

(* newSSECtx: too late for a cancelAllSSE that has run.                    *)
Register(c) ==
  /\ Running /\ conn[c] = "subscribed"
  /\ conn' = [conn EXCEPT ![c] = "open"]
  /\ registered' = registered \union {c}
  /\ UNCHANGED <<work, stream, out, cancelled, lost, phase, live>>

Take(c) ==
  /\ Running /\ conn[c] = "open" /\ buffer[c] # <<>>
  /\ conn' = [conn EXCEPT ![c] = "writing"]
  /\ out' = [out EXCEPT ![c] = Head(buffer[c])]
  /\ buffer' = [buffer EXCEPT ![c] = Tail(@)]
  /\ UNCHANGED <<work, hub, told, blurred, registered, cancelled, lost, phase, live>>

(* The page reads what is written; if the connection is lost, the write      *)
(* fails, which is ignored.                                                  *)
Written(c) ==
  /\ Running /\ conn[c] = "writing"
  /\ conn' = [conn EXCEPT ![c] = "open"]
  /\ out' = [out EXCEPT ![c] = Other]
  /\ UNCHANGED <<work, stream, registered, cancelled, lost, phase, live>>

Lose(c) ==
  /\ c \in live
  /\ lost' = lost \union {c} /\ live' = live \ {c}
  /\ UNCHANGED <<work, stream, conn, out, registered, cancelled, phase>>

(* Mutant: only the client ends a connection. *)
EndsWhenLost(c) ==
  /\ Running /\ conn[c] = "open" /\ c \in lost
  /\ conn' = [conn EXCEPT ![c] = "off"]
  /\ hub' = hub \ {c} /\ registered' = registered \ {c}
  /\ buffer' = [buffer EXCEPT ![c] = <<>>]
  /\ lost' = lost \ {c}
  /\ UNCHANGED <<work, told, blurred, out, cancelled, phase, live>>

(* Mutant: it does not unsubscribe. *)
EndsSubscribed(c) ==
  /\ Running /\ conn[c] = "open" /\ c \in lost \union cancelled
  /\ conn' = [conn EXCEPT ![c] = "off"]
  /\ registered' = registered \ {c}
  /\ lost' = lost \ {c} /\ cancelled' = cancelled \ {c}
  /\ live' = live \ {c}
  /\ UNCHANGED <<work, stream, out, phase>>

(* The handler sees that its context is done, cancels and unsubscribes.      *)
Ends(c) ==
  /\ Running /\ conn[c] = "open" /\ c \in lost \union cancelled
  /\ conn' = [conn EXCEPT ![c] = "off"]
  /\ hub' = hub \ {c} /\ registered' = registered \ {c}
  /\ buffer' = [buffer EXCEPT ![c] = <<>>]
  /\ lost' = lost \ {c} /\ cancelled' = cancelled \ {c}
  /\ told' = [told EXCEPT ![c] = {}] /\ blurred' = blurred \ {c}
  /\ live' = live \ {c}
  /\ UNCHANGED <<work, out, phase>>

-----------------------------------------------------------------------------
(* Shutdown: cancelAllSSE runs once.                                       *)

Signal ==
  /\ phase = "up"
  /\ phase' = "closing"
  /\ UNCHANGED <<work, stream, connection, live>>

CancelAllSSE ==
  /\ phase = "closing"
  /\ phase' = "swept"
  /\ cancelled' = registered
  /\ UNCHANGED <<work, stream, conn, out, registered, lost, live>>

(* Every handler has returned, or the 60 seconds of Shutdown are over.       *)
ShutdownReturns ==
  /\ phase \in {"closing", "swept"}
  /\ phase' = "down"
  /\ UNCHANGED <<work, stream, connection, live>>

HandlerStep(r) == List(r) \/ Broadcast(r)

ClientStep(c) ==
  Subscribe(c) \/ Register(c) \/ Take(c) \/ Written(c) \/ Lose(c) \/ Ends(c)

Next ==
  \/ \E r \in Request : Add(r) \/ HandlerStep(r) \/ Remove(r)
  \/ \E c \in Client : ClientStep(c)
  \/ BroadcastOther \/ Signal \/ CancelAllSSE \/ ShutdownReturns

Spec == Init /\ [][Next]_vars

(* Goroutines run; select is fair between what is ready; nothing is assumed  *)
(* of the pages, which may never read.                                       *)
Fairness ==
  /\ \A r \in Request : WF_vars(HandlerStep(r))
  /\ \A c \in Client : WF_vars(Register(c)) /\ SF_vars(Ends(c))
  /\ WF_vars(CancelAllSSE)

FairSpec == Spec /\ Fairness

-----------------------------------------------------------------------------
(* Properties.                                                             *)

Lists == SUBSET Request
Message == Lists \union {Other}

(* Every variable has its type, a channel never holds more than its capacity *)
(* and belongs to a connection.                                              *)
PanelTypeOK ==
  /\ inflight \subseteq Request /\ alone \subseteq Request
  /\ hpc \in [Request -> {"idle", "adding", "added", "busy", "removing", "removed", "done"}]
  /\ snap \in [Request -> Lists]
  /\ buffer \in [Client -> Seq(Message)] /\ out \in [Client -> Message]
  /\ hub \subseteq Client /\ blurred \subseteq Client /\ told \in [Client -> Lists]
  /\ \A c \in Client :
       /\ Len(buffer[c]) <= Cap
       /\ c \in hub <=> conn[c] # "off"
       /\ c \notin hub => buffer[c] = <<>>
  /\ conn \in [Client -> {"off", "subscribed", "open", "writing"}]
  /\ registered \subseteq hub /\ cancelled \subseteq hub /\ lost \subseteq hub /\ live \subseteq hub
  /\ phase \in {"up", "closing", "swept", "down"}

Quiet == \A r \in Request : ~Between(r)

(* When no handler is between its change and its broadcast, the last list    *)
(* that a connected panel got is the one in flight, unless two changes      *)
(* overlapped or its channel was full (inflight.go:23-70, events.go:68-87).  *)
StreamExact ==
  Quiet => \A c \in hub \ blurred : told[c] = inflight

(* A panel that does not read holds up no request (events.go:79-86).         *)
RequestsGoOn ==
  \A r \in Request : Between(r) ~> ~Between(r) \/ phase = "down"

(* A connection that is registered when Shutdown begins ends, if its writes  *)
(* do (server.go:117-146, router_ui.go:35-54).                               *)
EventsEnd ==
  \A c \in Client :
    []<>(conn[c] # "writing") =>
      (phase = "closing" /\ c \in registered ~> conn[c] = "off" \/ phase = "down")
=============================================================================
