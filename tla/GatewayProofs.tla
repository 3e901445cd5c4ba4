--------------------------- MODULE GatewayProofs ---------------------------
(* Proofs about Gateway: the types, and that the balancer's counts are the load. *)
EXTENDS Gateway, FiniteSetTheorems, TLAPS

Busy(r) == r.pc \in {"sent", "stream", "write"}

(* What is known of a node's count: it is at most the requests in flight there, 0   *)
(* outside the pool, and exact while the node is not blurred.                       *)
CountKnown(n) ==
  /\ count[n] <= Cardinality(InFlight(n))
  /\ n \notin pool => count[n] = 0
  /\ n \notin blurred => count[n] = Cardinality(InFlight(n))

(* The inductive invariant. *)
LoadInv ==
  /\ count \in [Node -> Nat]
  /\ req \in [Caller -> Request]
  /\ \A n \in Node : CountKnown(n)

BlursNext == blurred' = {n \in Node : InFlight(n)' # {} /\ (n \in blurred \/ n \notin pool')}

-----------------------------------------------------------------------------
(* Sets of requests in flight *)

LEMMA InFlightFinite ==
  \A n : IsFiniteSet(InFlight(n)) /\ Cardinality(InFlight(n)) \in Nat
<1> TAKE n
<1>1. InFlight(n) \subseteq Caller
  BY DEF InFlight
<1> QED
  BY <1>1, NodeAssumption, FS_Subset, FS_CardinalityType

LEMMA InFlightFiniteNext ==
  \A n : IsFiniteSet(InFlight(n)') /\ Cardinality(InFlight(n)') \in Nat
<1> TAKE n
<1>1. InFlight(n)' \subseteq Caller
  BY DEF InFlight
<1> QED
  BY <1>1, NodeAssumption, FS_Subset, FS_CardinalityType

(* A step that starts or ends no exchange with a back end. *)
LEMMA Untouched ==
  ASSUME \A c \in Caller : /\ Busy(req'[c]) <=> Busy(req[c])
                           /\ Busy(req[c]) => req'[c].node = req[c].node
  PROVE  \A n : InFlight(n)' = InFlight(n)
BY DEF InFlight, Busy

(* A request is forwarded. *)
LEMMA Joins ==
  ASSUME req \in [Caller -> Request], NEW c \in Caller, req[c].pc = "forward",
         NEW k, req[c].node = k, req' = [req EXCEPT ![c].pc = "sent"]
  PROVE  /\ Cardinality(InFlight(k)') = Cardinality(InFlight(k)) + 1
         /\ \A n : n # k => InFlight(n)' = InFlight(n)
<1>1. /\ req'[c].pc = "sent" /\ req'[c].node = k
      /\ \A d \in Caller \ {c} : req'[d] = req[d]
  BY DEF Request
<1>2. InFlight(k)' = InFlight(k) \cup {c} /\ c \notin InFlight(k)
  BY <1>1 DEF InFlight
<1>3. \A n : n # k => InFlight(n)' = InFlight(n)
  BY <1>1 DEF InFlight
<1>4. Cardinality(InFlight(k) \cup {c}) = Cardinality(InFlight(k)) + 1
  BY <1>2, InFlightFinite, FS_AddElement
<1> QED
  BY <1>2, <1>3, <1>4

(* A request that was in flight ends its exchange. *)
LEMMA Departs ==
  ASSUME req \in [Caller -> Request], NEW c \in Caller, Busy(req[c]),
         NEW k, req[c].node = k, ~Busy(req'[c]),
         \A d \in Caller \ {c} : req'[d] = req[d]
  PROVE  /\ Cardinality(InFlight(k)') = Cardinality(InFlight(k)) - 1
         /\ \A n : n # k => InFlight(n)' = InFlight(n)
<1>1. InFlight(k)' = InFlight(k) \ {c} /\ c \in InFlight(k)
  BY DEF InFlight, Busy
<1>2. \A n : n # k => InFlight(n)' = InFlight(n)
  BY DEF InFlight, Busy
<1>3. Cardinality(InFlight(k) \ {c}) = Cardinality(InFlight(k)) - 1
  BY <1>1, InFlightFinite, FS_RemoveElement
<1> QED
  BY <1>1, <1>2, <1>3

-----------------------------------------------------------------------------
(* What each kind of step does to the counts *)

(* A node's exactness after a step follows from its other facts and from its        *)
(* exactness before, for a node that stays in the pool.                             *)
LEMMA Exact ==
  ASSUME NEW n \in Node, BlursNext,
         count'[n] \in Nat, count'[n] <= Cardinality(InFlight(n)'),
         n \notin pool' => count'[n] = 0,
         n \notin blurred /\ n \in pool' => count'[n] = Cardinality(InFlight(n)')
  PROVE  CountKnown(n)'
<1>1. CASE InFlight(n)' = {}
  <2>1. Cardinality(InFlight(n)') = 0
    BY <1>1, FS_EmptySet
  <2> QED
    BY <2>1 DEF CountKnown
<1>2. CASE InFlight(n)' # {}
  BY <1>2 DEF CountKnown, BlursNext
<1> QED
  BY <1>1, <1>2

LEMMA KeepsCounts ==
  ASSUME LoadInv, BlursNext, UNCHANGED balVars, \A n : InFlight(n)' = InFlight(n)
  PROVE  \A n \in Node : CountKnown(n)'
<1> TAKE n \in Node
<1>1. CountKnown(n) /\ count[n] \in Nat
  BY DEF LoadInv
<1>2. count'[n] = count[n] /\ pool' = pool
  BY DEF balVars
<1> QED
  BY <1>1, <1>2, Exact DEF CountKnown

LEMMA UpdateCounts ==
  ASSUME LoadInv, BlursNext, NEW S, Update(S), \A n : InFlight(n)' = InFlight(n)
  PROVE  count' \in [Node -> Nat] /\ \A n \in Node : CountKnown(n)'
<1>1. count' \in [Node -> Nat]
  BY DEF LoadInv, Update
<1>2. ASSUME NEW n \in Node PROVE CountKnown(n)'
  <2>1. CountKnown(n) /\ count[n] \in Nat
    BY DEF LoadInv
  <2>2. count'[n] = (IF n \in S THEN count[n] ELSE 0) /\ pool' = S
    BY DEF Update
  <2> QED
    BY <2>1, <2>2, <1>1, InFlightFinite, Exact DEF CountKnown
<1> QED
  BY <1>1, <1>2

LEMMA EnterCounts ==
  ASSUME LoadInv, BlursNext, NEW c \in Caller, req[c].pc = "forward",
         NEW k \in Node, req[c].node = k, req' = [req EXCEPT ![c].pc = "sent"], Enter(k)
  PROVE  count' \in [Node -> Nat] /\ \A n \in Node : CountKnown(n)'
<1>1. count' \in [Node -> Nat] /\ pool' = pool
  BY DEF LoadInv, Enter
<1>2. /\ Cardinality(InFlight(k)') = Cardinality(InFlight(k)) + 1
      /\ \A n : n # k => InFlight(n)' = InFlight(n)
  BY Joins DEF LoadInv
<1>3. ASSUME NEW n \in Node PROVE CountKnown(n)'
  <2>1. CountKnown(n) /\ count[n] \in Nat /\ Cardinality(InFlight(n)) \in Nat
    BY InFlightFinite DEF LoadInv
  <2>2. CASE n = k
    <3>1. count'[n] = IF n \in pool THEN count[n] + 1 ELSE count[n]
      BY <2>2 DEF Enter, LoadInv
    <3> QED
      BY <1>1, <1>2, <2>1, <2>2, <3>1, Exact DEF CountKnown
  <2>3. CASE n # k
    <3>1. count'[n] = count[n] /\ InFlight(n)' = InFlight(n)
      BY <1>2, <2>3 DEF Enter, LoadInv
    <3> QED
      BY <1>1, <2>1, <3>1, Exact DEF CountKnown
  <2> QED
    BY <2>2, <2>3
<1> QED
  BY <1>1, <1>3

LEMMA LeaveCounts ==
  ASSUME LoadInv, BlursNext, NEW c \in Caller, Busy(req[c]),
         NEW k \in Node, req[c].node = k, ~Busy(req'[c]),
         \A d \in Caller \ {c} : req'[d] = req[d], Leave(k)
  PROVE  count' \in [Node -> Nat] /\ \A n \in Node : CountKnown(n)'
<1>1. count' \in [Node -> Nat] /\ pool' = pool
  BY DEF LoadInv, Leave
<1>2. /\ Cardinality(InFlight(k)') = Cardinality(InFlight(k)) - 1
      /\ \A n : n # k => InFlight(n)' = InFlight(n)
  BY Departs DEF LoadInv
<1>3. ASSUME NEW n \in Node PROVE CountKnown(n)'
  <2>1. /\ CountKnown(n) /\ count[n] \in Nat
        /\ Cardinality(InFlight(n)) \in Nat /\ Cardinality(InFlight(n)') \in Nat
    BY InFlightFinite, InFlightFiniteNext DEF LoadInv
  <2>2. CASE n = k
    <3>1. count'[n] = IF n \in pool /\ count[n] > 0 THEN count[n] - 1 ELSE count[n]
      BY <2>2 DEF Leave, LoadInv
    <3> QED
      BY <1>1, <1>2, <2>1, <2>2, <3>1, Exact DEF CountKnown
  <2>3. CASE n # k
    <3>1. count'[n] = count[n] /\ InFlight(n)' = InFlight(n)
      BY <1>2, <2>3 DEF Leave, LoadInv
    <3> QED
      BY <1>1, <2>1, <3>1, Exact DEF CountKnown
  <2> QED
    BY <2>2, <2>3
<1> QED
  BY <1>1, <1>3
-----------------------------------------------------------------------------
(* The inductive invariant and its preservation *)

(* A handler that forwards or is forwarded has a node. *)
Aimed == \A c \in Caller : req[c].pc \in {"forward", "sent", "stream", "write"} => req[c].node \in Node

GatewayInv == GatewayTypeOK /\ Aimed /\ LoadInv

LEMMA InitInv == Init => GatewayInv
<1> SUFFICES ASSUME Init PROVE GatewayInv
  OBVIOUS
<1>1. static \subseteq Node \ Local /\ pool \subseteq Node
  BY NodeAssumption DEF Init
<1>2. sig \in Orders({})
  <2>1. Cardinality({}) = 0
    BY FS_EmptySet
  <2> QED
    BY <2>1 DEF Init, Orders
<1>3. req \in [Caller -> Request] /\ Aimed
  BY DEF Init, NewRequest, Request, Aimed
<1>4. GatewayTypeOK
  BY <1>1, <1>2, <1>3 DEF Init, GatewayTypeOK
<1>5. \A n : InFlight(n) = {}
  BY DEF Init, InFlight, NewRequest
<1>6. \A n \in Node : CountKnown(n)
  <2> TAKE n \in Node
  <2>1. count[n] = 0 /\ Cardinality(InFlight(n)) = 0
    BY <1>5, FS_EmptySet DEF Init
  <2> QED
    BY <2>1 DEF CountKnown
<1> QED
  BY <1>3, <1>4, <1>6 DEF GatewayInv, LoadInv, GatewayTypeOK

(* The steps of handlers that start or end no exchange. *)
Quiet(c) ==
  \/ Arrive(c) \/ Register(c) \/ BodyRead(c) \/ Reject(c)
  \/ Choose(c) \/ ChooseByModel(c) \/ AskScheduler(c) \/ ModelReady(c) \/ ModelFails(c)
  \/ BadTarget(c) \/ FailOver(c) \/ Answers(c) \/ Copies(c) \/ ClientReads(c)

(* A handler that neither starts nor ends an exchange: what its step leaves true. *)
Harmless(c) ==
  /\ \A d \in Caller \ {c} : req'[d] = req[d]
  /\ req' \in [Caller -> Request]
  /\ Busy(req'[c]) <=> Busy(req[c])
  /\ Busy(req[c]) => req'[c].node = req[c].node
  /\ req'[c].pc \in {"forward", "sent", "stream", "write"} => req'[c].node \in Node

LEMMA MovedHarmless ==
  ASSUME req \in [Caller -> Request], NEW c \in Caller, ~Busy(req[c]),
         NEW p \in {"arrived", "body", "select", "model"}, req' = [req EXCEPT ![c].pc = p]
  PROVE  Harmless(c)
<1>1. req[c] \in Request
  OBVIOUS
<1>2. [req[c] EXCEPT !.pc = p] \in Request
  BY <1>1 DEF Request
<1>3. /\ req' \in [Caller -> Request] /\ req'[c].pc = p
      /\ \A d \in Caller \ {c} : req'[d] = req[d]
  BY <1>1, <1>2 DEF Request
<1> QED
  BY <1>3 DEF Harmless, Busy

LEMMA ChosenHarmless ==
  ASSUME req \in [Caller -> Request], NEW c \in Caller, req[c].pc \in {"select", "model"},
         NEW n \in Node, NEW scope \in SUBSET Node, Chosen(c, n, scope)
  PROVE  Harmless(c)
<1>1. req[c] \in Request
  OBVIOUS
<1>2. req' = [req EXCEPT ![c] = [req[c] EXCEPT !.pc = "forward", !.node = n, !.scope = scope,
                                              !.tried = {n}]]
  BY DEF Chosen
<1>3. [req[c] EXCEPT !.pc = "forward", !.node = n, !.scope = scope, !.tried = {n}] \in Request
  BY <1>1 DEF Request
<1> QED
  BY <1>1, <1>2, <1>3 DEF Harmless, Busy, Request

LEMMA FlowsHarmless ==
  ASSUME req \in [Caller -> Request], NEW c \in Caller, Busy(req[c]), req[c].node \in Node,
         NEW p \in {"stream", "write"}, req' = [req EXCEPT ![c].pc = p]
  PROVE  Harmless(c)
<1>1. req[c] \in Request
  OBVIOUS
<1>2. [req[c] EXCEPT !.pc = p] \in Request
  BY <1>1 DEF Request
<1>3. /\ req' \in [Caller -> Request] /\ req'[c].pc = p /\ req'[c].node = req[c].node
      /\ \A d \in Caller \ {c} : req'[d] = req[d]
  BY <1>1, <1>2 DEF Request
<1> QED
  BY <1>3 DEF Harmless, Busy

LEMMA EndedHarmless ==
  ASSUME req \in [Caller -> Request], NEW c \in Caller, ~Busy(req[c]), Ended(c)
  PROVE  Harmless(c)
BY DEF Harmless, Ended, NewRequest, Request, Busy

LEMMA QuietStep ==
  ASSUME GatewayInv, NEW c \in Caller, Quiet(c)
  PROVE  /\ req' \in [Caller -> Request] /\ Aimed'
         /\ UNCHANGED <<balVars, serverVars, reloaded>>
         /\ \A n : InFlight(n)' = InFlight(n)
<1> USE DEF GatewayInv, GatewayTypeOK
<1>1. UNCHANGED <<balVars, serverVars, reloaded>> /\ Harmless(c)
  <2>1. CASE Arrive(c)
    <3>1. /\ ~Busy(req[c]) /\ req' = [req EXCEPT ![c].pc = "arrived"]
          /\ UNCHANGED <<balVars, serverVars, reloaded>>
      BY <2>1 DEF Arrive, Busy
    <3> QED
      BY <3>1, MovedHarmless
  <2>2. CASE Register(c)
    <3>1. /\ ~Busy(req[c])
          /\ Ended(c) \/ req' = [req EXCEPT ![c].pc = "body"]
          /\ UNCHANGED <<balVars, serverVars, reloaded>>
      BY <2>2 DEF Register, Busy
    <3> QED
      BY <3>1, MovedHarmless, EndedHarmless
  <2>3. CASE Reject(c)
    BY <2>3, EndedHarmless DEF Reject, Busy
  <2>4. CASE Choose(c)
    <3>1. PICK scope \in {Node, Tagged} : \E n \in LeastLoaded(scope) : Chosen(c, n, scope)
      BY <2>4 DEF Choose
    <3>2. scope \subseteq Node /\ LeastLoaded(scope) \subseteq Node
      BY NodeAssumption DEF LeastLoaded
    <3> QED
      BY <2>4, <3>1, <3>2, ChosenHarmless DEF Choose
  <2>5. CASE ChooseByModel(c)
    BY <2>5, ChosenHarmless DEF ChooseByModel
  <2>6. CASE AskScheduler(c)
    <3>1. /\ ~Busy(req[c]) /\ req' = [req EXCEPT ![c].pc = "model"]
          /\ UNCHANGED <<balVars, serverVars, reloaded>>
      BY <2>6 DEF AskScheduler, Busy
    <3> QED
      BY <3>1, MovedHarmless
  <2>7. CASE ModelReady(c)
    BY <2>7, NodeAssumption, ChosenHarmless DEF ModelReady
  <2>8. CASE ModelFails(c)
    BY <2>8, EndedHarmless DEF ModelFails, Busy
  <2>9. CASE FailOver(c)
    <3>1. /\ req[c] \in Request /\ req[c].pc = "next"
          /\ UNCHANGED balVars /\ UNCHANGED serverVars /\ UNCHANGED reloaded
      BY <2>9 DEF FailOver
    <3>2. CASE Ended(c)
      BY <3>1, <3>2, EndedHarmless DEF Busy
    <3>3. CASE \E n \in LeastLoaded(req[c].scope \ req[c].tried) :
                 req' = [req EXCEPT ![c].pc = "forward", ![c].node = n, ![c].tried = @ \cup {n}]
      <4>1. PICK n \in LeastLoaded(req[c].scope \ req[c].tried) :
              req' = [req EXCEPT ![c].pc = "forward", ![c].node = n, ![c].tried = @ \cup {n}]
        BY <3>3
      <4>2. n \in Node
        BY <3>1 DEF LeastLoaded, Request
      <4> QED
        BY <3>1, <4>1, <4>2 DEF Harmless, Request, Busy
    <3> QED
      BY <2>9, <3>2, <3>3 DEF FailOver
  <2>10. CASE Answers(c)
    <3> DEFINE next == [req[c] EXCEPT !.pc = "stream", !.scope = {}, !.tried = {}]
    <3>1. /\ req[c] \in Request /\ req[c].pc = "sent" /\ req[c].node \in Node
          /\ UNCHANGED <<balVars, serverVars, reloaded>>
      BY <2>10 DEF Answers, Aimed
    <3>2. next \in Request /\ next.pc = "stream" /\ next.node = req[c].node
      BY <3>1 DEF Request
    <3>3. req' = [req EXCEPT ![c] = next]
      BY <2>10 DEF Answers
    <3>4. req' \in [Caller -> Request] /\ req'[c] = next /\ \A d \in Caller \ {c} : req'[d] = req[d]
      BY <3>2, <3>3
    <3> QED
      BY <3>1, <3>2, <3>4 DEF Harmless, Busy
  <2>11. CASE BodyRead(c)
    <3>1. /\ ~Busy(req[c])
          /\ Ended(c) \/ req' = [req EXCEPT ![c].pc = "select"]
          /\ UNCHANGED <<balVars, serverVars, reloaded>>
      BY <2>11 DEF BodyRead, Busy
    <3> QED
      BY <3>1, MovedHarmless, EndedHarmless
  <2>12. CASE BadTarget(c)
    BY <2>12, EndedHarmless DEF BadTarget, Busy
  <2>13. CASE Copies(c) \/ ClientReads(c)
    <3>1. /\ Busy(req[c]) /\ req[c].node \in Node
          /\ \E p \in {"stream", "write"} : req' = [req EXCEPT ![c].pc = p]
          /\ UNCHANGED <<balVars, serverVars, reloaded>>
      BY <2>13 DEF Copies, ClientReads, Busy, Aimed
    <3> QED
      BY <3>1, FlowsHarmless
  <2> QED
    BY <2>1, <2>2, <2>3, <2>4, <2>5, <2>6, <2>7, <2>8, <2>9, <2>10, <2>11, <2>12, <2>13 DEF Quiet
<1>2. Aimed'
  BY <1>1 DEF Aimed, Harmless
<1>3. \A n : InFlight(n)' = InFlight(n)
  BY <1>1, Untouched DEF Harmless
<1> QED
  BY <1>1, <1>2, <1>3 DEF Harmless

(* The steps that update the pool. *)
LEMMA UpdatingStep ==
  ASSUME GatewayInv, BlursNext, SyncUpdates \/ ReloadUpdates
  PROVE  GatewayInv'
<1> USE DEF GatewayInv
<1>1. PICK S \in SUBSET Node : Update(S)
  BY DEF SyncUpdates, ReloadUpdates, GatewayTypeOK
<1>2. req' = req
  BY DEF SyncUpdates, ReloadUpdates
<1>3. \A n : InFlight(n)' = InFlight(n)
  BY <1>2 DEF InFlight
<1>4. count' \in [Node -> Nat] /\ \A n \in Node : CountKnown(n)'
  BY <1>1, <1>3, UpdateCounts
<1>5. LoadInv' /\ Aimed'
  BY <1>2, <1>4 DEF LoadInv, Aimed
<1>6. pool' \subseteq Node /\ blurred' \subseteq Node
  BY <1>1 DEF Update, BlursNext
<1>7. GatewayTypeOK'
  <2>1. CASE SyncUpdates
    BY <2>1, <1>2, <1>4, <1>6 DEF SyncUpdates, GatewayTypeOK
  <2>2. CASE ReloadUpdates
    BY <2>2, <1>2, <1>4, <1>6 DEF ReloadUpdates, GatewayTypeOK
  <2> QED
    BY <2>1, <2>2
<1> QED
  BY <1>5, <1>7

(* The steps that start or end an exchange with a back end. *)
LEMMA ExchangeStep ==
  ASSUME GatewayInv, BlursNext, NEW c \in Caller, Forward(c) \/ Fails(c) \/ StreamEnds(c) \/ WriteFails(c)
  PROVE  GatewayInv'
<1> USE DEF GatewayInv
<1>1. PICK k \in Node : k = req[c].node
  BY DEF Aimed, Forward, Fails, StreamEnds, WriteFails
<1>2. /\ UNCHANGED <<serverVars, reloaded>> /\ pool' = pool
      /\ req[c] \in Request
  BY DEF Forward, Fails, StreamEnds, WriteFails, Enter, Leave, GatewayTypeOK
<1>3. req' \in [Caller -> Request] /\ Aimed'
  <2>1. CASE Forward(c)
    BY <2>1, <1>2 DEF Forward, Aimed, GatewayTypeOK, Request
  <2>2. CASE Fails(c)
    BY <2>2, <1>2 DEF Fails, Aimed, GatewayTypeOK, Request
  <2>3. CASE StreamEnds(c) \/ WriteFails(c)
    <3>1. Ended(c)
      BY <2>3 DEF StreamEnds, WriteFails
    <3> QED
      BY <3>1, <1>2 DEF Ended, NewRequest, Aimed, GatewayTypeOK, Request
  <2> QED
    BY <2>1, <2>2, <2>3
<1>4. count' \in [Node -> Nat] /\ \A n \in Node : CountKnown(n)'
  <2>1. CASE Forward(c)
    BY <2>1, <1>1, EnterCounts DEF Forward
  <2>2. CASE Fails(c)
    <3>1. Busy(req[c]) /\ ~Busy(req'[c]) /\ Leave(k) /\ \A d \in Caller \ {c} : req'[d] = req[d]
      BY <2>2, <1>1, <1>2 DEF Fails, Busy, GatewayTypeOK, Request
    <3> QED
      BY <3>1, <1>1, LeaveCounts
  <2>3. CASE StreamEnds(c) \/ WriteFails(c)
    <3>1. Busy(req[c]) /\ ~Busy(req'[c]) /\ Leave(k) /\ \A d \in Caller \ {c} : req'[d] = req[d]
      BY <2>3, <1>1, <1>2 DEF StreamEnds, WriteFails, Ended, NewRequest, Busy, GatewayTypeOK
    <3> QED
      BY <3>1, <1>1, LeaveCounts
  <2> QED
    BY <2>1, <2>2, <2>3
<1>5. LoadInv'
  BY <1>3, <1>4 DEF LoadInv
<1>6. GatewayTypeOK'
  BY <1>2, <1>3, <1>4 DEF GatewayTypeOK, serverVars, BlursNext
<1> QED
  BY <1>3, <1>5, <1>6

(* The other steps of the server: the pool, its counts and the requests stay. *)
ServerStep ==
  \/ SyncLooks \/ SyncMerges \/ ReloadBegins \/ ReloadPublishes
  \/ Signal \/ CancelAllProxy \/ ShutdownReturns \/ LocalNodesChange \/ Down

LEMMA ServerStepKeeps ==
  ASSUME GatewayInv, BlursNext, ServerStep
  PROVE  GatewayInv'
<1> USE DEF GatewayInv
<1>1. blurred' \subseteq Node
  BY DEF BlursNext
<1>2. /\ UNCHANGED balVars /\ req' \in [Caller -> Request] /\ Aimed'
      /\ \A n : InFlight(n)' = InFlight(n)
  <2>1. CASE CancelAllProxy
    <3>1. /\ UNCHANGED balVars
          /\ \A d \in Caller : req'[d] \in Request /\ req'[d].pc = req[d].pc
                               /\ req'[d].node = req[d].node
          /\ req' \in [Caller -> Request]
      <4>1. UNCHANGED balVars
        BY <2>1 DEF CancelAllProxy
      <4>2. ASSUME NEW d \in Caller
            PROVE  req'[d] \in Request /\ req'[d].pc = req[d].pc /\ req'[d].node = req[d].node
        <5>1. req[d] \in Request
          BY DEF GatewayTypeOK
        <5>2. req'[d] = req[d] \/ req'[d] = [req[d] EXCEPT !.canceled = TRUE]
          BY <2>1 DEF CancelAllProxy
        <5> QED
          BY <5>1, <5>2 DEF Request
      <4>3. req' \in [Caller -> Request]
        <5>1. req' = [d \in Caller |-> req'[d]]
          BY <2>1 DEF CancelAllProxy
        <5> QED
          BY <4>2, <5>1
      <4> QED
        BY <4>1, <4>2, <4>3
    <3> QED
      BY <3>1 DEF Aimed, InFlight
  <2>2. CASE ~CancelAllProxy
    <3>1. req' = req /\ UNCHANGED balVars
      BY <2>2 DEF ServerStep, SyncLooks, SyncMerges, ReloadBegins, ReloadPublishes, Signal,
                  ShutdownReturns, LocalNodesChange, Down, gwVars
    <3> QED
      BY <3>1 DEF Aimed, InFlight, GatewayTypeOK
  <2> QED
    BY <2>1, <2>2
<1>3. LoadInv'
  BY <1>2, KeepsCounts DEF LoadInv, balVars
<1>4. GatewayTypeOK'
  <2> USE <1>1, <1>2 DEF GatewayTypeOK, balVars
  <2>1. CASE SyncLooks
    <3>1. PICK s \in Orders(ready) : sig' = s
      BY <2>1 DEF SyncLooks
    <3>2. sync' \in [pc : {"idle", "merge", "update"}, nodes : SUBSET Node]
      BY <2>1, NodeAssumption DEF SyncLooks
    <3>3. \E S \in SUBSET Local : sig' \in Orders(S)
      BY <3>1
    <3> QED
      BY <2>1, <3>2, <3>3 DEF SyncLooks, Orders
  <2>2. CASE SyncMerges
    <3>1. static \subseteq Node /\ reload.list \subseteq Node
      OBVIOUS
    <3>2. ASSUME NEW S \in StaticRead PROVE S \subseteq Node
      <4>1. CASE reload.pc = "publishing"
        <5>1. S \in (SUBSET static) \cup (SUBSET reload.list)
          BY <4>1 DEF StaticRead
        <5>2. S \subseteq static \/ S \subseteq reload.list
          BY <5>1
        <5> QED
          BY <3>1, <5>2
      <4>2. CASE reload.pc # "publishing"
        BY <3>1, <4>2 DEF StaticRead
      <4> QED
        BY <4>1, <4>2
    <3> QED
      BY <2>2, <3>2 DEF SyncMerges
  <2>3. CASE ReloadBegins
    BY <2>3, NodeAssumption DEF ReloadBegins
  <2>4. CASE ReloadPublishes
    BY <2>4 DEF ReloadPublishes
  <2>5. CASE Signal
    BY <2>5 DEF Signal
  <2>6. CASE CancelAllProxy
    BY <2>6 DEF CancelAllProxy
  <2>7. CASE ShutdownReturns
    BY <2>7 DEF ShutdownReturns
  <2>8. CASE LocalNodesChange
    BY <2>8 DEF LocalNodesChange
  <2>9. CASE Down
    BY <2>9 DEF Down, gwVars, serverVars
  <2> QED
    BY <2>1, <2>2, <2>3, <2>4, <2>5, <2>6, <2>7, <2>8, <2>9 DEF ServerStep
<1> QED
  BY <1>2, <1>3, <1>4

LEMMA NextInv == GatewayInv /\ [Next]_vars => GatewayInv'
<1> SUFFICES ASSUME GatewayInv, [Next]_vars PROVE GatewayInv'
  OBVIOUS
<1>1. CASE UNCHANGED vars
  BY <1>1 DEF vars, gwVars, balVars, serverVars, GatewayInv, GatewayTypeOK, Aimed, LoadInv,
              CountKnown, InFlight
<1>2. CASE Next
  <2>1. BlursNext /\ Step
    BY <1>2 DEF Next, BlursNext
  <2>2. ASSUME NEW c \in Caller, Quiet(c) PROVE GatewayInv'
    <3>1. /\ req' \in [Caller -> Request] /\ Aimed'
          /\ UNCHANGED <<balVars, serverVars, reloaded>>
          /\ \A n : InFlight(n)' = InFlight(n)
      BY <2>2, QuietStep
    <3>2. LoadInv'
      BY <2>1, <3>1, KeepsCounts DEF LoadInv, balVars, GatewayInv
    <3>3. GatewayTypeOK'
      BY <2>1, <3>1 DEF GatewayTypeOK, GatewayInv, balVars, serverVars, BlursNext
    <3> QED
      BY <3>1, <3>2, <3>3 DEF GatewayInv
  <2>3. ASSUME NEW c \in Caller, Forward(c) \/ Fails(c) \/ StreamEnds(c) \/ WriteFails(c) PROVE GatewayInv'
    BY <2>1, <2>3, ExchangeStep
  <2> QED
    BY <2>1, <2>2, <2>3, UpdatingStep, ServerStepKeeps
       DEF Step, ClientStep, HandlerStep, BackendStep, Quiet, ServerStep
<1> QED
  BY <1>1, <1>2

-----------------------------------------------------------------------------
(* The pool before the first reload *)

(* An order of a finite set lists all of it. *)
LEMMA OrderOfOne ==
  ASSUME NEW S, IsFiniteSet(S), NEW T, IsFiniteSet(T), NEW s, s \in Orders(S), s \in Orders(T)
  PROVE  S = T
<1>1. ASSUME NEW U, IsFiniteSet(U), s \in Orders(U)
      PROVE  U = {s[i] : i \in DOMAIN s}
  <2> DEFINE n == Cardinality(U)
  <2>1. n \in Nat
    BY <1>1, FS_CardinalityType
  <2>2. s \in [1..n -> U] /\ \A i, j \in 1..n : s[i] = s[j] => i = j
    BY <1>1 DEF Orders
  <2>3. s \in Injection(1..n, U)
    BY <2>2 DEF Injection, IsInjective
  <2>4. Cardinality(1..n) = n
    BY <2>1, FS_Interval
  <2>5. s \in Surjection(1..n, U)
    BY <1>1, <2>3, <2>4, FS_Injection
  <2>6. \A u \in U : \E i \in 1..n : s[i] = u
    BY <2>5 DEF Surjection
  <2> QED
    BY <2>2, <2>6
<1> QED
  BY <1>1

(* Until a configuration is reloaded, sig lists the local nodes that are in the pool *)
(* or that the synchronisation under way is about to put there.                       *)
PoolInv ==
  ~reloaded =>
    /\ reload.pc = "idle"
    /\ \E S \in SUBSET Local :
         /\ sig \in Orders(S)
         /\ sync.pc = "idle" => pool = static \cup S
         /\ sync.pc = "merge" => sync.nodes = S
         /\ sync.pc = "update" => sync.nodes = S \cup static

LEMMA PoolInit == Init => PoolInv
<1> SUFFICES ASSUME Init PROVE PoolInv
  OBVIOUS
<1>1. Cardinality({}) = 0
  BY FS_EmptySet
<1>2. << >> \in Orders({})
  BY <1>1 DEF Orders
<1> QED
  BY <1>2 DEF Init, PoolInv

LEMMA PoolStep == ASSUME GatewayInv, PoolInv, [Next]_vars PROVE PoolInv'
<1>1. CASE SyncLooks
  <2>1. PICK s \in Orders(ready) : sig' = s /\ sync' = [pc |-> "merge", nodes |-> ready]
    BY <1>1 DEF SyncLooks
  <2>2. ready \in SUBSET Local
    BY DEF GatewayInv, GatewayTypeOK
  <2> QED
    BY <1>1, <2>1, <2>2 DEF SyncLooks, PoolInv
<1>2. CASE SyncMerges
  <2>1. CASE reloaded
    BY <1>2, <2>1 DEF SyncMerges, PoolInv
  <2>2. CASE ~reloaded
    <3>1. reload.pc = "idle" /\ sync.pc = "merge"
      BY <1>2, <2>2 DEF SyncMerges, PoolInv
    <3>2. sync' = [pc |-> "update", nodes |-> sync.nodes \cup static]
      BY <1>2, <3>1 DEF SyncMerges, StaticRead
    <3> QED
      BY <1>2, <2>2, <3>1, <3>2 DEF SyncMerges, PoolInv
  <2> QED
    BY <2>1, <2>2
<1>3. CASE SyncUpdates
  BY <1>3 DEF SyncUpdates, Update, PoolInv
<1>4. CASE ReloadBegins
  BY <1>4 DEF ReloadBegins, PoolInv
<1>5. CASE ReloadPublishes \/ ReloadUpdates
  BY <1>5 DEF ReloadPublishes, ReloadUpdates, PoolInv
<1>6. CASE UNCHANGED <<pool, static, sig, sync, reload, reloaded>>
  BY <1>6 DEF PoolInv
<1>7. CASE \E c \in Caller : \/ ClientStep(c) \/ HandlerStep(c) \/ BackendStep(c)
                               \/ ModelReady(c) \/ ModelFails(c) \/ Copies(c)
  BY <1>6, <1>7
     DEF ClientStep, HandlerStep, BackendStep, ModelReady, ModelFails, Copies, Arrive, BodyRead,
         ClientReads, WriteFails, Register, Reject, Choose, ChooseByModel, AskScheduler, BadTarget, Forward, FailOver, Fails, Answers, StreamEnds, Enter, Leave,
         balVars, serverVars
<1>8. CASE Signal \/ CancelAllProxy \/ ShutdownReturns \/ LocalNodesChange \/ Down \/ UNCHANGED vars
  BY <1>6, <1>8
     DEF Signal, CancelAllProxy, ShutdownReturns, LocalNodesChange, Down, balVars, serverVars,
         gwVars, vars
<1> QED
  BY <1>1, <1>2, <1>3, <1>4, <1>5, <1>7, <1>8 DEF Next, Step

-----------------------------------------------------------------------------
(* The theorems *)

(* Every reachable state of the gateway is well typed: counts never become negative *)
(* (balancer.go:191-202), a request that is forwarded has a node.                   *)
THEOREM GatewayTypeCorrect == Spec => []GatewayTypeOK
<1>1. GatewayInv => GatewayTypeOK
  BY DEF GatewayInv
<1> QED
  BY InitInv, NextInv, <1>1, PTL DEF Spec

(* For any number of requests, nodes, weights and configurations, and any order of  *)
(* pool updates, reloads, failovers and cancellations: no node's count exceeds the  *)
(* requests in flight there.                                                        *)
THEOREM NoLeakedLoad == Spec => []LoadNeverOverstated
<1>1. GatewayInv => LoadNeverOverstated
  BY DEF GatewayInv, LoadInv, CountKnown, LoadNeverOverstated
<1> QED
  BY InitInv, NextInv, <1>1, PTL DEF Spec

(* ... and the count is the load of every node that has not been out of the pool    *)
(* under a request that is still in flight.                                         *)
THEOREM ExactLoad == Spec => []LoadExact
<1>1. GatewayInv => LoadExact
  BY DEF GatewayInv, LoadInv, CountKnown, LoadExact
<1> QED
  BY InitInv, NextInv, <1>1, PTL DEF Spec

(* Until the first reload of the configuration, whatever members come and go and    *)
(* whatever orders the map iterations take: with nothing to synchronise, the pool   *)
(* is backends.list and the ready local models (pool.go:58-61).                     *)
THEOREM PoolCorrectAtFirst == Spec => []PoolMatchesAtFirst
<1>1. GatewayInv /\ PoolInv => PoolMatchesAtFirst
  <2> SUFFICES ASSUME GatewayInv, PoolInv, ~reloaded, sync.pc = "idle", sig \in Orders(ready)
               PROVE  pool = static \cup ready
    BY DEF PoolMatchesAtFirst, PoolMatches
  <2>1. PICK S \in SUBSET Local : sig \in Orders(S) /\ pool = static \cup S
    BY DEF PoolInv
  <2>2. IsFiniteSet(S) /\ IsFiniteSet(ready)
    BY NodeAssumption, FS_Subset DEF GatewayInv, GatewayTypeOK
  <2>3. S = ready
    BY <2>1, <2>2, OrderOfOne
  <2> QED
    BY <2>1, <2>3
<1>2. Init => GatewayInv /\ PoolInv
  BY InitInv, PoolInit
<1>3. GatewayInv /\ PoolInv /\ [Next]_vars => GatewayInv' /\ PoolInv'
  BY NextInv, PoolStep
<1> QED
  BY <1>1, <1>2, <1>3, PTL DEF Spec
=============================================================================
