---------------------------- MODULE PanelProofs ----------------------------
(* Proofs about Panel: the types and bounds, and that the stream is exact.  *)
EXTENDS Panel, TLAPS

(* A change that overlaps no other is broadcast as it was made.             *)
AloneInv ==
  \A r \in alone :
    Between(r) => /\ \A q \in Request \ {r} : ~Between(q)
                  /\ hpc[r] \in {"added", "removed"} => snap[r] = inflight

PanelInv == PanelTypeOK /\ AloneInv /\ StreamExact

-----------------------------------------------------------------------------

LEMMA PanelInit == Init => PanelInv
BY PanelAssumption DEF Init, PanelInv, PanelTypeOK, AloneInv, StreamExact, Lists, Message

(* What is sent keeps every channel within its capacity. *)
LEMMA SendBounded ==
  ASSUME PanelTypeOK, NEW m \in Message, Send(m)
  PROVE  /\ buffer' \in [Client -> Seq(Message)]
         /\ \A c \in Client : Len(buffer'[c]) <= Cap
         /\ \A c \in Client \ hub : buffer'[c] = buffer[c]
<1> SUFFICES ASSUME NEW c \in Client
             PROVE  /\ buffer'[c] \in Seq(Message) /\ Len(buffer'[c]) <= Cap
                    /\ c \notin hub => buffer'[c] = buffer[c]
  BY DEF Send
<1>1. buffer[c] \in Seq(Message) /\ Len(buffer[c]) <= Cap /\ Len(buffer[c]) \in Nat
  BY DEF PanelTypeOK
<1>2. CASE c \in hub /\ Room(c)
  <2>1. buffer'[c] = Append(buffer[c], m) /\ Len(buffer[c]) < Cap
    BY <1>2 DEF Send, Room
  <2> QED
    BY <1>1, <1>2, <2>1, PanelAssumption
<1>3. CASE ~(c \in hub /\ Room(c))
  BY <1>1, <1>3 DEF Send
<1> QED
  BY <1>2, <1>3

LEMMA PanelStep ==
  ASSUME PanelInv, [Next]_vars
  PROVE  PanelInv'
<1> USE DEF PanelInv, work, stream, connection
<1>1. ASSUME NEW r \in Request, Add(r) \/ Remove(r) PROVE PanelInv'
  <2>1. /\ UNCHANGED <<snap, stream, connection, phase, live>>
        /\ inflight' \in {inflight \union {r}, inflight \ {r}}
        /\ ~Between(r) /\ \E to \in {"adding", "removing"} : hpc' = [hpc EXCEPT ![r] = to]
        /\ alone' = IF \A q \in Request : ~Between(q) THEN {r} ELSE {}
    BY <1>1 DEF Add, Remove, Change, Between
  <2>2. PanelTypeOK'
    BY <2>1 DEF PanelTypeOK, Lists, Message
  <2>3. hpc'[r] \in {"adding", "removing"} /\ \A q \in Request \ {r} : hpc'[q] = hpc[q]
    BY <2>1 DEF PanelTypeOK
  <2>4. AloneInv'
    BY <2>1, <2>3 DEF AloneInv, Between
  <2>5. ~Quiet'
    BY <2>3 DEF Quiet, Between
  <2> QED
    BY <2>2, <2>4, <2>5 DEF StreamExact
<1>2. ASSUME NEW r \in Request, List(r) PROVE PanelInv'
  <2>1. PanelTypeOK'
    BY <1>2 DEF List, PanelTypeOK, Lists, Message
  <2>2. /\ Between(r) /\ hpc'[r] \in {"added", "removed"} /\ snap'[r] = inflight
        /\ \A q \in Request \ {r} : hpc'[q] = hpc[q] /\ snap'[q] = snap[q]
    BY <1>2 DEF List, PanelTypeOK, Between
  <2>3. AloneInv'
    BY <1>2, <2>2 DEF List, AloneInv, Between, PanelTypeOK
  <2>4. ~Quiet'
    BY <2>2 DEF Quiet, Between
  <2> QED
    BY <2>1, <2>3, <2>4 DEF StreamExact
<1>3. ASSUME NEW r \in Request, Broadcast(r) PROVE PanelInv'
  <2>1. /\ hpc[r] \in {"added", "removed"} /\ hpc'[r] \in {"busy", "done"}
        /\ \A q \in Request \ {r} : hpc'[q] = hpc[q]
    BY <1>3 DEF Broadcast, PanelTypeOK
  <2>2. snap[r] \in Message
    BY DEF PanelTypeOK, Message
  <2>3. PanelTypeOK'
    <3>1. /\ buffer' \in [Client -> Seq(Message)]
          /\ \A c \in Client : Len(buffer'[c]) <= Cap
          /\ \A c \in Client \ hub : buffer'[c] = buffer[c]
      BY <1>3, <2>2, SendBounded DEF Broadcast
    <3>2. told' \in [Client -> Lists] /\ snap' \in [Request -> Lists] /\ blurred' \subseteq Client
      BY <1>3 DEF Broadcast, PanelTypeOK, Lists
    <3> QED
      BY <1>3, <3>1, <3>2 DEF Broadcast, PanelTypeOK
  <2>4. AloneInv'
    BY <1>3, <2>1 DEF Broadcast, AloneInv, Between, PanelTypeOK
  <2>5. ASSUME Quiet', NEW c \in hub', c \notin blurred' PROVE told'[c] = inflight'
    <3>1. c \in hub /\ c \in Client /\ inflight' = inflight
      BY <1>3, <2>5 DEF Broadcast, PanelTypeOK
    <3>2. r \in alone /\ Room(c)
      BY <1>3, <2>5, <3>1 DEF Broadcast
    <3>3. told'[c] = snap[r]
      BY <1>3, <3>1, <3>2 DEF Broadcast
    <3>4. snap[r] = inflight
      BY <2>1, <3>2 DEF AloneInv, Between
    <3> QED
      BY <3>1, <3>3, <3>4
  <2> QED
    BY <2>3, <2>4, <2>5 DEF StreamExact
<1>4. CASE BroadcastOther
  <2>1. Send(Other) /\ Other \in Message
    BY <1>4 DEF BroadcastOther, Message
  <2>2. /\ buffer' \in [Client -> Seq(Message)]
        /\ \A c \in Client : Len(buffer'[c]) <= Cap
        /\ \A c \in Client \ hub : buffer'[c] = buffer[c]
    BY <2>1, SendBounded
  <2>3. PanelTypeOK'
    BY <1>4, <2>2 DEF BroadcastOther, PanelTypeOK
  <2> QED
    BY <1>4, <2>3 DEF BroadcastOther, AloneInv, StreamExact, Quiet, Between
<1>5. ASSUME NEW c \in Client, Subscribe(c) PROVE PanelInv'
  <2>1. PanelTypeOK'
    BY <1>5 DEF Subscribe, PanelTypeOK
  <2> QED
    BY <1>5, <2>1 DEF Subscribe, AloneInv, StreamExact, Quiet, Between
<1>6. ASSUME NEW c \in Client, Register(c) PROVE PanelInv'
  <2>1. PanelTypeOK'
    BY <1>6 DEF Register, PanelTypeOK
  <2> QED
    BY <1>6, <2>1 DEF Register, AloneInv, StreamExact, Quiet, Between
<1>7. ASSUME NEW c \in Client, Take(c) PROVE PanelInv'
  <2>1. /\ Head(buffer[c]) \in Message /\ Tail(buffer[c]) \in Seq(Message)
        /\ Len(Tail(buffer[c])) <= Cap
    <3>1. buffer[c] \in Seq(Message) /\ buffer[c] # <<>> /\ Len(buffer[c]) <= Cap
      BY <1>7 DEF Take, PanelTypeOK
    <3> QED
      BY <3>1, PanelAssumption
  <2>2. PanelTypeOK'
    BY <1>7, <2>1 DEF Take, PanelTypeOK
  <2> QED
    BY <1>7, <2>2 DEF Take, AloneInv, StreamExact, Quiet, Between
<1>8. ASSUME NEW c \in Client, Written(c) PROVE PanelInv'
  <2>1. PanelTypeOK'
    BY <1>8 DEF Written, PanelTypeOK, Message
  <2> QED
    BY <1>8, <2>1 DEF Written, AloneInv, StreamExact, Quiet, Between
<1>9. ASSUME NEW c \in Client, Lose(c) PROVE PanelInv'
  <2>1. PanelTypeOK'
    BY <1>9 DEF Lose, PanelTypeOK
  <2> QED
    BY <1>9, <2>1 DEF Lose, AloneInv, StreamExact, Quiet, Between
<1>10. ASSUME NEW c \in Client, Ends(c) PROVE PanelInv'
  <2>1. PanelTypeOK'
    <3>1. buffer' \in [Client -> Seq(Message)] /\ told' \in [Client -> Lists]
          /\ \A d \in Client : Len(buffer'[d]) <= Cap
      BY <1>10, PanelAssumption DEF Ends, PanelTypeOK, Lists
    <3> QED
      BY <1>10, <3>1 DEF Ends, PanelTypeOK
  <2> QED
    BY <1>10, <2>1 DEF Ends, AloneInv, StreamExact, Quiet, Between, PanelTypeOK
<1>11. CASE Signal \/ CancelAllSSE \/ ShutdownReturns \/ UNCHANGED vars
  <2>1. PanelTypeOK'
    BY <1>11 DEF Signal, CancelAllSSE, ShutdownReturns, vars, PanelTypeOK
  <2> QED
    BY <1>11, <2>1 DEF Signal, CancelAllSSE, ShutdownReturns, vars, AloneInv, StreamExact, Quiet, Between
<1> QED
  BY <1>1, <1>2, <1>3, <1>4, <1>5, <1>6, <1>7, <1>8, <1>9, <1>10, <1>11
  DEF Next, HandlerStep, ClientStep

(* Every variable has its type and no channel exceeds its capacity, for any  *)
(* requests, clients and capacity (events.go:21-36, 66-87).                  *)
THEOREM PanelTypeCorrect == Spec => []PanelTypeOK
<1>1. PanelInv => PanelTypeOK
  BY DEF PanelInv
<1> QED
  BY PanelInit, PanelStep, <1>1, PTL DEF Spec

(* However many requests and panels there are, a panel was last sent the     *)
(* list in flight once nobody is at work on it, unless changes overlapped or *)
(* its channel was full (inflight.go:23-72).                                 *)
THEOREM StreamIsExact == Spec => []StreamExact
<1>1. PanelInv => StreamExact
  BY DEF PanelInv
<1> QED
  BY PanelInit, PanelStep, <1>1, PTL DEF Spec
=============================================================================
