------------------------------ MODULE Gateway ------------------------------
(***************************************************************************)
(* Proxied requests over the balancer's pool: the handler of a request     *)
(* (proxy.go, proxy_backend.go) with its failover and cancellation, the    *)
(* goroutine that keeps the ready local models in the pool (pool.go), the  *)
(* one that reloads the configuration (config_watch.go), and shutdown.     *)
(* What the scheduler does is external here: LocalNodes may return any     *)
(* models at any time (their interleavings are Scheduler's subject).       *)
(***************************************************************************)
EXTENDS Balancer, FiniteSets

CONSTANTS
  Local,      \* the nodes local-<model>; the others are static
  Lists,      \* the contents of backends.list that configurations may have
  Tagged,     \* the nodes with the tag that a routing rule names
  Caller,     \* requests, each one goroutine (bounds the requests of an instance)
  NoNode

ASSUME NodeAssumption ==
  /\ Local \subseteq Node /\ Tagged \subseteq Node /\ NoNode \notin Node
  /\ Lists \subseteq SUBSET (Node \ Local) /\ Lists # {}
  /\ IsFiniteSet(Caller) /\ IsFiniteSet(Local)

VARIABLES
  ready,      \* what LocalNodes returns
  static,     \* s.staticBackends
  sig,        \* s.localNodeSig: the ids in the order of a map iteration
  reload,     \* the watchConfig goroutine
  sync,       \* the syncLocalBackendNodesLoop goroutine
  phase,      \* the proxy: up, closing, cancelled (cancelAllProxy has run), down
  req,        \* req[c]: the handler of request c
  reloaded,   \* history: a configuration has been reloaded
  blurred     \* history: nodes that were out of the pool with a request in flight,
              \* until no request is

serverVars == <<ready, static, sig, reload, sync, phase>>
gwVars == <<balVars, serverVars, req, reloaded>>
vars == <<gwVars, blurred>>

(* The orders in which a map iteration may list S. *)
Orders(S) ==
  {s \in [1..Cardinality(S) -> S] : \A i, j \in 1..Cardinality(S) : s[i] = s[j] => i = j}

Request == [
  pc       : {"idle", "arrived", "body", "select", "model", "forward", "sent", "next", "stream",
              "write", "done"},
  node     : Node \cup {NoNode},   \* cand
  scope    : SUBSET Node,          \* where nextBackend may look; empty for noFailover
  tried    : SUBSET Node,
  canceled : BOOLEAN]

NewRequest == [pc |-> "idle", node |-> NoNode, scope |-> {}, tried |-> {}, canceled |-> FALSE]

(* The requests in flight at n: forwarded and not yet completed. *)
InFlight(n) == {c \in Caller : req[c].pc \in {"sent", "stream", "write"} /\ req[c].node = n}

(* The handler waits for its own client: in ReadWithLimit(r.Body), or in w.Write. *)
AwaitsClient(c) == req[c].pc \in {"body", "write"}

GatewayTypeOK ==
  /\ pool \subseteq Node
  /\ count \in [Node -> Nat]
  /\ ready \subseteq Local
  /\ static \subseteq Node \ Local
  /\ \E S \in SUBSET Local : sig \in Orders(S)
  /\ reload \in [pc : {"idle", "publishing", "update"}, list : SUBSET (Node \ Local)]
  /\ sync \in [pc : {"idle", "merge", "update"}, nodes : SUBSET Node]
  /\ phase \in {"up", "closing", "cancelled", "down"}
  /\ req \in [Caller -> Request]
  /\ reloaded \in BOOLEAN
  /\ blurred \subseteq Node

Init ==
  /\ static \in Lists /\ pool = static
  /\ count = [n \in Node |-> 0]
  /\ ready = {} /\ sig = << >>
  /\ reload = [pc |-> "idle", list |-> {}]
  /\ sync = [pc |-> "idle", nodes |-> {}]
  /\ phase = "up"
  /\ req = [c \in Caller |-> NewRequest]
  /\ reloaded = FALSE
  /\ blurred = {}

-----------------------------------------------------------------------------
(* handleProxy *)

Running == phase # "down"

(* The handler returns, whatever it answered. *)
Ended(c) == req' = [req EXCEPT ![c] = [NewRequest EXCEPT !.pc = "done"]]

(* net/http starts the handler. *)
Arrive(c) ==
  /\ phase = "up" /\ req[c].pc = "idle"
  /\ req' = [req EXCEPT ![c].pc = "arrived"]
  /\ UNCHANGED <<balVars, serverVars, reloaded>>

(* newProxyCtx: from here on cancelAllProxy finds the request.  One that declares *)
(* too large a body is answered at once, the body of any other is read.           *)
Register(c) ==
  /\ Running /\ req[c].pc = "arrived"
  /\ Ended(c) \/ req' = [req EXCEPT ![c].pc = "body"]
  /\ UNCHANGED <<balVars, serverVars, reloaded>>

(* The client has sent its whole body, or more of it than is accepted. *)
BodyRead(c) ==
  /\ Running /\ req[c].pc = "body"
  /\ Ended(c) \/ req' = [req EXCEPT ![c].pc = "select"]
  /\ UNCHANGED <<balVars, serverVars, reloaded>>

(* No back end, or an unknown model. *)
Reject(c) ==
  /\ Running /\ req[c].pc = "select"
  /\ Ended(c)
  /\ UNCHANGED <<balVars, serverVars, reloaded>>

Chosen(c, n, scope) ==
  req' = [req EXCEPT ![c].pc = "forward", ![c].node = n, ![c].scope = scope, ![c].tried = {n}]

(* No model, or the placeholder: Select, or SelectFromTag when a rule matches. *)
Choose(c) ==
  /\ Running /\ req[c].pc = "select"
  /\ \E scope \in {Node, Tagged} : \E n \in LeastLoaded(scope) : Chosen(c, n, scope)
  /\ UNCHANGED <<balVars, serverVars, reloaded>>

(* The id of a model that a node of the pool serves (GetBackendByModel). *)
ChooseByModel(c) ==
  /\ Running /\ req[c].pc = "select"
  /\ \E n \in pool : Chosen(c, n, {})
  /\ UNCHANGED <<balVars, serverVars, reloaded>>

(* The id of a scheduled model: wait for it (Scheduler), then go to it directly. *)
AskScheduler(c) ==
  /\ Running /\ req[c].pc = "select"
  /\ req' = [req EXCEPT ![c].pc = "model"]
  /\ UNCHANGED <<balVars, serverVars, reloaded>>

ModelReady(c) ==
  /\ Running /\ req[c].pc = "model"
  /\ \E n \in Local : Chosen(c, n, {})
  /\ UNCHANGED <<balVars, serverVars, reloaded>>

ModelFails(c) ==
  /\ Running /\ req[c].pc = "model"
  /\ Ended(c)
  /\ UNCHANGED <<balVars, serverVars, reloaded>>

(* The address is not a URL (NewRequestWithContext). *)
BadTarget(c) ==
  /\ Running /\ req[c].pc = "forward"
  /\ Ended(c)
  /\ UNCHANGED <<balVars, serverVars, reloaded>>

Forward(c) ==
  /\ Running /\ req[c].pc = "forward"
  /\ Enter(req[c].node)
  /\ req' = [req EXCEPT ![c].pc = "sent"]
  /\ UNCHANGED <<serverVars, reloaded>>

(* Mutant: an error does not leave the node. *)
FailsCounted(c) ==
  /\ Running /\ req[c].pc = "sent"
  /\ req' = [req EXCEPT ![c].pc = "next"]
  /\ UNCHANGED <<balVars, serverVars, reloaded>>

(* client.Do: an error, also of a canceled context or a timeout, or another status. *)
Fails(c) ==
  /\ Running /\ req[c].pc = "sent"
  /\ Leave(req[c].node)
  /\ req' = [req EXCEPT ![c].pc = "next"]
  /\ UNCHANGED <<serverVars, reloaded>>

(* Mutant: only the last node is excluded. *)
FailOverAnywhere(c) ==
  LET l == req[c]
      next == LeastLoaded(l.scope \ {l.node})
  IN  /\ Running /\ l.pc = "next"
      /\ \/ \E n \in next : req' = [req EXCEPT ![c].pc = "forward", ![c].node = n]
         \/ next = {} /\ Ended(c)
      /\ UNCHANGED <<balVars, serverVars, reloaded>>

(* nextBackend(tried): the next node of the scope, or the list of the failures. *)
FailOver(c) ==
  LET l == req[c]
      next == LeastLoaded(l.scope \ l.tried)
  IN  /\ Running /\ l.pc = "next"
      /\ \/ \E n \in next :
              req' = [req EXCEPT ![c].pc = "forward", ![c].node = n, ![c].tried = @ \cup {n}]
         \/ next = {} /\ Ended(c)
      /\ UNCHANGED <<balVars, serverVars, reloaded>>

(* 200: no more failover, and the node stays loaded until the body has been copied. *)
Answers(c) ==
  /\ Running /\ req[c].pc = "sent" /\ ~req[c].canceled
  /\ req' = [req EXCEPT ![c].pc = "stream", ![c].scope = {}, ![c].tried = {}]
  /\ UNCHANGED <<balVars, serverVars, reloaded>>

(* streamCopy: a part of the body has come; it is written to the client. *)
Copies(c) ==
  /\ Running /\ req[c].pc = "stream"
  /\ req' = [req EXCEPT ![c].pc = "write"]
  /\ UNCHANGED <<balVars, serverVars, reloaded>>

ClientReads(c) ==
  /\ Running /\ req[c].pc = "write"
  /\ req' = [req EXCEPT ![c].pc = "stream"]
  /\ UNCHANGED <<balVars, serverVars, reloaded>>

(* The end of the body, or an error of reading it. *)
StreamEnds(c) ==
  /\ Running /\ req[c].pc = "stream"
  /\ Leave(req[c].node)
  /\ Ended(c)
  /\ UNCHANGED <<serverVars, reloaded>>

(* w.Write fails: the client has gone. *)
WriteFails(c) ==
  /\ Running /\ req[c].pc = "write"
  /\ Leave(req[c].node)
  /\ Ended(c)
  /\ UNCHANGED <<serverVars, reloaded>>

-----------------------------------------------------------------------------
(* syncLocalBackendNodes, once per second *)

(* LocalNodes; nothing more when the signature is unchanged. *)
SyncLooks ==
  /\ Running /\ sync.pc = "idle"
  /\ \E s \in Orders(ready) :
       /\ s # sig
       /\ sig' = s
       /\ sync' = [pc |-> "merge", nodes |-> ready]
  /\ UNCHANGED <<balVars, ready, static, reload, phase, req, reloaded>>

(* The static back ends are read without cfgMu: while reload writes the slice, the *)
(* reader may pair one list's array with the other's length.                       *)
StaticRead ==
  IF reload.pc = "publishing" THEN (SUBSET static) \cup (SUBSET reload.list) ELSE {static}

(* Mutant: the static back ends are not merged. *)
SyncMergesLocal ==
  /\ Running /\ sync.pc = "merge"
  /\ sync' = [sync EXCEPT !.pc = "update"]
  /\ UNCHANGED <<balVars, ready, static, sig, reload, phase, req, reloaded>>

SyncMerges ==
  /\ Running /\ sync.pc = "merge"
  /\ \E S \in StaticRead : sync' = [pc |-> "update", nodes |-> sync.nodes \cup S]
  /\ UNCHANGED <<balVars, ready, static, sig, reload, phase, req, reloaded>>

SyncUpdates ==
  /\ Running /\ sync.pc = "update"
  /\ Update(sync.nodes)
  /\ sync' = [pc |-> "idle", nodes |-> {}]
  /\ UNCHANGED <<ready, static, sig, reload, phase, req, reloaded>>

-----------------------------------------------------------------------------
(* reloadConfig of an accepted file *)

ReloadBegins ==
  /\ Running /\ reload.pc = "idle"
  /\ \E L \in Lists : reload' = [pc |-> "publishing", list |-> L]
  /\ reloaded' = TRUE
  /\ UNCHANGED <<balVars, ready, static, sig, sync, phase, req>>

ReloadPublishes ==
  /\ Running /\ reload.pc = "publishing"
  /\ static' = reload.list
  /\ reload' = [reload EXCEPT !.pc = "update"]
  /\ UNCHANGED <<balVars, ready, sig, sync, phase, req, reloaded>>

(* A nil balancer (no back end, no scheduler) is an empty pool here: Enter and Leave *)
(* are ignored, nothing is selected, and New builds what Update does.                *)
ReloadUpdates ==
  /\ Running /\ reload.pc = "update"
  /\ Update(reload.list)
  /\ reload' = [pc |-> "idle", list |-> {}]
  /\ UNCHANGED <<ready, static, sig, sync, phase, req, reloaded>>

-----------------------------------------------------------------------------
(* SIGTERM: server.Shutdown closes the listener and runs cancelAllProxy beside the *)
(* handlers; it returns when they have ended, or after 60 s.                       *)
Signal ==
  /\ phase = "up"
  /\ phase' = "closing"
  /\ UNCHANGED <<balVars, ready, static, sig, reload, sync, req, reloaded>>

(* Mutant: only the requests that wait for a back end are canceled. *)
CancelSentOnly ==
  /\ phase = "closing"
  /\ phase' = "cancelled"
  /\ req' = [c \in Caller |->
               IF req[c].pc \in {"sent", "stream", "write"} THEN [req[c] EXCEPT !.canceled = TRUE] ELSE req[c]]
  /\ UNCHANGED <<balVars, ready, static, sig, reload, sync, reloaded>>

CancelAllProxy ==
  /\ phase = "closing"
  /\ phase' = "cancelled"
  /\ req' = [c \in Caller |->
               IF req[c].pc \in {"idle", "arrived", "done"} THEN req[c]
               ELSE [req[c] EXCEPT !.canceled = TRUE]]
  /\ UNCHANGED <<balVars, ready, static, sig, reload, sync, reloaded>>

ShutdownReturns ==
  /\ phase \in {"closing", "cancelled"}
  /\ phase' = "down"
  /\ UNCHANGED <<balVars, ready, static, sig, reload, sync, req, reloaded>>

(* External: members of the group become ready or stop. *)
LocalNodesChange ==
  /\ Running
  /\ ready' \in (SUBSET Local) \ {ready}
  /\ UNCHANGED <<balVars, static, sig, reload, sync, phase, req, reloaded>>

Down == phase = "down" /\ UNCHANGED gwVars

-----------------------------------------------------------------------------
HandlerStep(c) ==
  \/ Register(c) \/ Reject(c) \/ Choose(c) \/ ChooseByModel(c) \/ AskScheduler(c)
  \/ BadTarget(c) \/ Forward(c) \/ FailOver(c)

BackendStep(c) == Fails(c) \/ Answers(c) \/ StreamEnds(c)

ClientStep(c) == Arrive(c) \/ BodyRead(c) \/ ClientReads(c) \/ WriteFails(c)

Step ==
  \/ \E c \in Caller : \/ ClientStep(c) \/ HandlerStep(c) \/ BackendStep(c)
                      \/ ModelReady(c) \/ ModelFails(c) \/ Copies(c)
  \/ SyncLooks \/ SyncMerges \/ SyncUpdates
  \/ ReloadBegins \/ ReloadPublishes \/ ReloadUpdates
  \/ Signal \/ CancelAllProxy \/ ShutdownReturns \/ LocalNodesChange \/ Down

Next ==
  /\ Step
  /\ blurred' = {n \in Node : InFlight(n)' # {} /\ (n \in blurred \/ n \notin pool')}

Spec == Init /\ [][Next]_vars

(* Handlers are scheduled.  While the proxy is up, request_timeout_seconds > 0 ends  *)
(* every exchange with a back end, however many parts of the answer are copied; a    *)
(* canceled context ends the wait for a model or a back end.  Nothing makes a client *)
(* send its body or read its answer: the server has no timeouts (main.go:176).       *)
Fairness ==
  /\ \A c \in Caller :
       /\ WF_gwVars(HandlerStep(c) \/ (req[c].canceled /\ ModelFails(c)))
       /\ SF_gwVars((phase = "up" \/ req[c].canceled) /\ BackendStep(c))
  /\ WF_gwVars(CancelAllProxy)

FairSpec == Spec /\ Fairness

-----------------------------------------------------------------------------
(* Properties *)

(* A node is never thought busier than it is: every path that leaves a node gives   *)
(* its count back, whatever updates of the pool happen in between, so that no node  *)
(* is starved by a leaked count (balancer.go:178-202, proxy.go:93-108,156-190).     *)
LoadNeverOverstated == \A n \in Node : count[n] <= Cardinality(InFlight(n))

(* The count is exact, and what selectLeastLoaded compares is the load, unless the  *)
(* node has been out of the pool under a request that is still in flight            *)
(* (balancer.go:66-67: updates keep the counts of the nodes that stay).             *)
LoadExact == \A n \in Node \ blurred : count[n] = Cardinality(InFlight(n))

(* Whenever the synchronisation has nothing to do and no reload is under way, the   *)
(* pool is the static back ends and the ready local models (pool.go:58-61).         *)
PoolMatches ==
  sync.pc = "idle" /\ reload.pc = "idle" /\ sig \in Orders(ready) => pool = static \cup ready

(* ... which holds until the first reload of the configuration. *)
PoolMatchesAtFirst == ~reloaded => PoolMatches

(* While the proxy is up a request that is forwarded ends: failover tries each node *)
(* once (proxy.go:114-117).  Only a client that never reads its answer prevents it.  *)
ForwardedEnds ==
  \A c \in Caller :
    req[c].pc = "forward" ~> req[c].pc = "done" \/ phase # "up" \/ []AwaitsClient(c)

(* The handlers that cancelAllProxy finds. *)
Registered(c) ==
  req[c].pc \in {"body", "select", "model", "forward", "sent", "next", "stream", "write"}

(* A request that cancelAllProxy finds ends without any back end's help: none of    *)
(* its other waits outlives the context.  Only its own client can keep it, by       *)
(* neither sending its body nor reading its answer (proxy.go:53,                    *)
(* proxy_stream.go:48,87), which server.go:100-102 does not say.                    *)
CancelledEnds ==
  \A c \in Caller :
    phase = "closing" /\ Registered(c)
      ~> req[c].pc = "done" \/ phase = "down" \/ []AwaitsClient(c)
=============================================================================
