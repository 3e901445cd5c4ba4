---------------------------- MODULE StoreProofs ----------------------------
(* Proofs about Store: the invariants, and that it implements RequestRecord. *)
EXTENDS Store, TLAPS

NotOpened == {"idle", "begun", "saved"}  \* no row was written yet
AtWork == {"begun", "saved", "open", "writing", "stored"}

(* What a handler's place says of its request. *)
HandlerInv(r) ==
  /\ hpc[r] \in {"idle", "begun"} => answer[r] = "none"
  /\ hpc[r] \in {"saved", "open"} => answer[r] # "none"
  /\ hpc[r] \in {"writing", "stored"} => answer[r] = "ok"
  /\ hpc[r] \in NotOpened => status[r] = "absent"
  /\ hpc[r] \in {"open", "writing", "stored"} => status[r] \in {"absent", "pending"}
  /\ hpc[r] \in {"idle", "begun"} => file[r]["request"] = None
  /\ hpc[r] \in NotOpened \union {"open"} => file[r]["response"] = None
  /\ hpc[r] \in {"idle", "begun", "open"} => saved[r] = None
  /\ hpc[r] = "writing" => ~Readable(r)

(* What a row and its files say of each other. *)
RowInv(r) ==
  /\ status[r] \in {"absent", "pending", answer[r]}
  /\ status[r] = "absent" => path[r] = Nothing
  /\ status[r] = "pending" => path[r]["response"] = None
  /\ file[r]["response"] # None => answer[r] = "ok"

PhaseInv ==
  /\ phase # "up" => /\ sweep = 0 /\ deleter = Idle
                     /\ \A r \in Request : hpc[r] \notin AtWork
  /\ phase # "repair" => todo = {}
  /\ \A r \in todo : status[r] = "pending"
  /\ deleter # Idle => deleter.r \in asked /\ hpc[deleter.r] \notin NotOpened

(* A finished response belongs to a row that is closed, or that somebody is  *)
(* about to close.                                                           *)
LeftInv(r) ==
  status[r] = "pending" /\ Readable(r) =>
    \/ r \in unwritten
    \/ (phase = "up" /\ hpc[r] = "stored")
    \/ (phase = "repair" /\ r \in todo)
    \/ phase = "down"

RequestInv(r) == HandlerInv(r) /\ RowInv(r) /\ LeftInv(r)

StoreInv == StoreTypeOK /\ PhaseInv /\ \A r \in Request : RequestInv(r)

(* Ages: a payload is not older than its request. *)
Young(r) ==
  \E days \in Retentions \ {0} :
    /\ \A other \in Retentions \ {0} : days <= other
    /\ created[r] >= Cutoff(days - 1)

AgeInv(r) ==
  /\ created[r] <= now
  /\ \A k \in Kind : file[r][k] # None => created[r] <= 2 * file[r][k] + 1
  /\ Young(r) /\ r \notin asked =>
       /\ \A k \in Kind : path[r][k] # None => file[r][k] = path[r][k]
       /\ hpc[r] = "saved" /\ saved[r] # None => file[r]["request"] = saved[r]
       /\ hpc[r] \in {"writing", "stored"} /\ saved[r] # None => file[r]["response"] = saved[r]

RetentionInv == StoreInv /\ \A r \in Request : AgeInv(r)

-----------------------------------------------------------------------------
(* Types *)

LEMMA Days ==
  /\ None \notin Day /\ Day \subseteq Nat
  /\ \A t \in 0..MaxTime : DayOf(t) \in Day /\ 2 * DayOf(t) <= t /\ t <= 2 * DayOf(t) + 1
BY StoreAssumption DEF DayOf, Day

LEMMA PlaceUpdate ==
  ASSUME NEW g \in [Request -> Places], NEW r \in Request, NEW k \in Kind,
         NEW d \in Day \union {None}
  PROVE  [g EXCEPT ![r][k] = d] \in [Request -> Places]
BY DEF Places

LEMMA Kinds == "request" \in Kind /\ "response" \in Kind /\ Nothing \in Places
BY DEF Kind, Nothing, Places

LEMMA TypeStep ==
  ASSUME StoreTypeOK, \A r \in Request : RequestInv(r), [Next]_vars
  PROVE  StoreTypeOK'
<1> USE StoreAssumption, Days DEF StoreTypeOK, world, rows, disk, handlers, history
<1>1. ASSUME NEW r \in Request, Arrive(r) PROVE StoreTypeOK'
  BY <1>1 DEF Arrive
<1>2. ASSUME NEW r \in Request, SaveRequest(r) PROVE StoreTypeOK'
  BY <1>2 DEF SaveRequest, Kind, Places
<1>3. ASSUME NEW r \in Request, InsertRequest(r) PROVE StoreTypeOK'
  <2>0. saved[r] \in Day \union {None}
    OBVIOUS
  <2>1. path' \in [Request -> Places]
    <3>1. path' = [path EXCEPT ![r]["request"] = saved[r]] \/ path' = path
      BY <1>3 DEF InsertRequest
    <3>2. path \in [Request -> Places]
      OBVIOUS
    <3>3. [path EXCEPT ![r]["request"] = saved[r]] \in [Request -> Places]
      BY ONLY <2>0, <3>2, r \in Request, PlaceUpdate, Kinds
    <3> QED
      BY ONLY <3>1, <3>2, <3>3
  <2> QED
    BY <1>3, <2>1 DEF InsertRequest
<1>4. ASSUME NEW r \in Request, SaveResponse(r) PROVE StoreTypeOK'
  <2>0. DayOf(now) \in Day \union {None}
    OBVIOUS
  <2>1. file' \in [Request -> Places]
    <3>1. file' = [file EXCEPT ![r]["response"] = DayOf(now)] \/ file' = file
      BY <1>4 DEF SaveResponse
    <3>2. file \in [Request -> Places]
      OBVIOUS
    <3>3. [file EXCEPT ![r]["response"] = DayOf(now)] \in [Request -> Places]
      BY ONLY <2>0, <3>2, r \in Request, PlaceUpdate, Kinds
    <3> QED
      BY ONLY <3>1, <3>2, <3>3
  <2> QED
    BY <1>4, <2>1 DEF SaveResponse
<1>5. ASSUME NEW r \in Request, ResponseSaved(r) PROVE StoreTypeOK'
  BY <1>5 DEF ResponseSaved
<1>6. ASSUME NEW r \in Request, FinishRequest(r) PROVE StoreTypeOK'
  <2>0. saved[r] \in Day \union {None} /\ answer[r] \in {"ok", "failed"}
    BY <1>6 DEF FinishRequest, RequestInv, HandlerInv
  <2>1. path' \in [Request -> Places]
    <3>1. path' = [path EXCEPT ![r]["response"] = saved[r]] \/ path' = path
      BY <1>6 DEF FinishRequest
    <3>2. path \in [Request -> Places]
      OBVIOUS
    <3>3. [path EXCEPT ![r]["response"] = saved[r]] \in [Request -> Places]
      BY ONLY <2>0, <3>2, r \in Request, PlaceUpdate, Kinds
    <3> QED
      BY ONLY <3>1, <3>2, <3>3
  <2>2. status' \in [Request -> {"absent", "pending", "ok", "failed"}]
    BY <1>6, <2>0 DEF FinishRequest, RowExists
  <2> QED
    BY <1>6, <2>1, <2>2 DEF FinishRequest
<1>7. ASSUME NEW r \in Request, DeleteReads(r) PROVE StoreTypeOK'
  BY <1>7 DEF DeleteReads
<1>8. ASSUME NEW r \in Request, Repair(r) PROVE StoreTypeOK'
  <2>0. file[r]["response"] \in Day \union {None}
    BY Kinds DEF Places
  <2>1. path' \in [Request -> Places]
    <3>1. path' = [path EXCEPT ![r]["response"] = file[r]["response"]] \/ path' = path
      BY <1>8 DEF Repair
    <3>2. path \in [Request -> Places]
      OBVIOUS
    <3>3. [path EXCEPT ![r]["response"] = file[r]["response"]] \in [Request -> Places]
      BY ONLY <2>0, <3>2, r \in Request, PlaceUpdate, Kinds
    <3> QED
      BY ONLY <3>1, <3>2, <3>3
  <2> QED
    BY <1>8, <2>1 DEF Repair
<1>9. CASE CleanRows
  <2>1. path' \in [Request -> Places] /\ status' \in [Request -> {"absent", "pending", "ok", "failed"}]
    BY <1>9, Kinds DEF CleanRows
  <2> QED
    BY <1>9, <2>1 DEF CleanRows
<1>10. CASE CleanFiles
  BY <1>10 DEF CleanFiles, Places
<1>11. CASE DeleteFiles
  <2>1. PICK S \in SUBSET Kind :
          /\ file' = [file EXCEPT ![deleter.r] =
                        [k \in Kind |-> IF k \in S /\ @[k] = deleter.path[k] THEN None ELSE @[k]]]
          /\ torn' = IF file'[deleter.r]["response"] = None THEN torn \ {deleter.r} ELSE torn
          /\ deleter' = IF S = Kind THEN [deleter EXCEPT !.at = "row"] ELSE Idle
    BY <1>11 DEF DeleteFiles
  <2>2. deleter.r \in Request
    BY <1>11 DEF DeleteFiles
  <2>3. file' \in [Request -> Places]
    BY <2>1, <2>2 DEF Places, Kind
  <2>4. torn' \subseteq Request
    BY <2>1
  <2>5. /\ deleter' \in [at : {"idle", "files", "row"}, r : Request \union {None}, path : Places]
        /\ deleter'.at # "idle" => deleter'.r \in Request
    BY <2>1, <2>2, Kinds DEF Idle
  <2> QED
    BY <1>11, <2>3, <2>4, <2>5 DEF DeleteFiles
<1>12. CASE DeleteRow
  <2>1. path' \in [Request -> Places] /\ status' \in [Request -> {"absent", "pending", "ok", "failed"}]
    BY <1>12, Kinds DEF DeleteRow
  <2>2. /\ deleter' \in [at : {"idle", "files", "row"}, r : Request \union {None}, path : Places]
        /\ deleter'.at # "idle" => deleter'.r \in Request
    BY <1>12, Kinds DEF DeleteRow, Idle
  <2> QED
    BY <1>12, <2>1, <2>2 DEF DeleteRow
<1>13. CASE Crash
  BY <1>13, Kinds DEF Crash, Idle
<1>14. CASE Start
  BY <1>14 DEF Start, Stuck
<1>15. CASE Listen
  BY <1>15 DEF Listen
<1>16. CASE SetRetention
  BY <1>16 DEF SetRetention
<1>17. CASE Tick
  BY <1>17 DEF Tick
<1>18. CASE UNCHANGED vars
  BY <1>18 DEF vars
<1> QED
  BY <1>1, <1>2, <1>3, <1>4, <1>5, <1>6, <1>7, <1>8, <1>9, <1>10, <1>11, <1>12,
     <1>13, <1>14, <1>15, <1>16, <1>17, <1>18 DEF Next, HandlerStep

-----------------------------------------------------------------------------
(* Rows, files and handlers *)

(* A step that changes nothing of a request. *)
LEMMA Frame ==
  ASSUME NEW q \in Request, RequestInv(q),
         status'[q] = status[q], path'[q] = path[q], file'[q] = file[q],
         hpc'[q] = hpc[q], answer'[q] = answer[q], saved'[q] = saved[q],
         phase' = phase, q \in torn' <=> q \in torn, q \in todo' <=> q \in todo,
         q \in unwritten => q \in unwritten'
  PROVE  RequestInv(q)'
BY DEF RequestInv, HandlerInv, RowInv, LeftInv, Readable

LEMMA StoreInvStep ==
  ASSUME StoreInv, [Next]_vars
  PROVE  StoreInv'
<1> USE DEF StoreInv, StoreTypeOK, world, rows, disk, handlers, history, Readable, AtWork, NotOpened
<1>1. ASSUME NEW r \in Request, Arrive(r) PROVE StoreInv'
  <2>1. PhaseInv'
    BY <1>1 DEF Arrive, PhaseInv
  <2>2. ASSUME NEW q \in Request, q # r PROVE RequestInv(q)'
    BY <1>1, <2>2, Frame DEF Arrive
  <2>3. RequestInv(r)'
    BY <1>1, Kinds DEF Arrive, RequestInv, HandlerInv, RowInv, LeftInv, PhaseInv, Places, Kind
  <2> QED
    BY <1>1, <2>1, <2>2, <2>3, TypeStep DEF Next, HandlerStep, StoreInv
<1>2. ASSUME NEW r \in Request, SaveRequest(r) PROVE StoreInv'
  <2>1. PhaseInv'
    BY <1>2 DEF SaveRequest, PhaseInv
  <2>2. ASSUME NEW q \in Request, q # r PROVE RequestInv(q)'
    BY <1>2, <2>2, Frame DEF SaveRequest
  <2>3. RequestInv(r)'
    BY <1>2, Kinds DEF SaveRequest, RequestInv, HandlerInv, RowInv, LeftInv, PhaseInv, Places, Kind
  <2> QED
    BY <1>2, <2>1, <2>2, <2>3, TypeStep DEF Next, HandlerStep, StoreInv
<1>3. ASSUME NEW r \in Request, InsertRequest(r) PROVE StoreInv'
  <2>1. PhaseInv'
    BY <1>3 DEF InsertRequest, PhaseInv
  <2>2. ASSUME NEW q \in Request, q # r PROVE RequestInv(q)'
    BY <1>3, <2>2, Frame DEF InsertRequest
  <2>3. RequestInv(r)'
    <3>1. /\ hpc[r] = "saved" /\ hpc'[r] = "open" /\ saved'[r] = None
          /\ UNCHANGED <<answer, file, torn, phase>>
      BY <1>3 DEF InsertRequest
    <3>2. status'[r] \in {"absent", "pending"} /\ (status'[r] = "absent" => path'[r] = path[r])
      BY <1>3, <3>1 DEF InsertRequest, RequestInv, HandlerInv
    <3>3. path'[r]["response"] = path[r]["response"]
      BY <1>3, Kinds DEF InsertRequest, Places
    <3>4. path[r] = Nothing /\ file[r]["response"] = None
      BY <3>1, Kinds DEF RequestInv, HandlerInv, RowInv
    <3>5. path'[r]["response"] = None
      BY <3>3, <3>4, Kinds DEF Nothing
    <3> QED
      BY <3>1, <3>2, <3>4, <3>5, Kinds DEF RequestInv, HandlerInv, RowInv, LeftInv
  <2> QED
    BY <1>3, <2>1, <2>2, <2>3, TypeStep DEF Next, HandlerStep, StoreInv
<1>4. ASSUME NEW r \in Request, SaveResponse(r) PROVE StoreInv'
  <2>1. PhaseInv'
    BY <1>4 DEF SaveResponse, PhaseInv
  <2>2. ASSUME NEW q \in Request, q # r PROVE RequestInv(q)'
    BY <1>4, <2>2, Frame DEF SaveResponse
  <2>3. RequestInv(r)'
    BY <1>4, Kinds DEF SaveResponse, RequestInv, HandlerInv, RowInv, LeftInv, PhaseInv, Places, Kind
  <2> QED
    BY <1>4, <2>1, <2>2, <2>3, TypeStep DEF Next, HandlerStep, StoreInv
<1>5. ASSUME NEW r \in Request, ResponseSaved(r) PROVE StoreInv'
  <2>1. PhaseInv'
    BY <1>5 DEF ResponseSaved, PhaseInv
  <2>2. ASSUME NEW q \in Request, q # r PROVE RequestInv(q)'
    BY <1>5, <2>2, Frame DEF ResponseSaved
  <2>3. RequestInv(r)'
    BY <1>5, Kinds DEF ResponseSaved, RequestInv, HandlerInv, RowInv, LeftInv, PhaseInv, Places, Kind
  <2> QED
    BY <1>5, <2>1, <2>2, <2>3, TypeStep DEF Next, HandlerStep, StoreInv
<1>6. ASSUME NEW r \in Request, FinishRequest(r) PROVE StoreInv'
  <2>1. PhaseInv'
    BY <1>6 DEF FinishRequest, PhaseInv, RowExists
  <2>2. ASSUME NEW q \in Request, q # r PROVE RequestInv(q)'
    BY <1>6, <2>2, Frame DEF FinishRequest
  <2>3. RequestInv(r)'
    BY <1>6, Kinds DEF FinishRequest, RequestInv, HandlerInv, RowInv, LeftInv, PhaseInv, Places, Kind, RowExists
  <2> QED
    BY <1>6, <2>1, <2>2, <2>3, TypeStep DEF Next, HandlerStep, StoreInv
<1>7. ASSUME NEW r \in Request, DeleteReads(r) PROVE StoreInv'
  <2>1. PhaseInv'
    BY <1>7 DEF DeleteReads, PhaseInv, RequestInv, HandlerInv, RowExists, Idle
  <2>2. ASSUME NEW q \in Request, q # r PROVE RequestInv(q)'
    BY <1>7, <2>2, Frame DEF DeleteReads
  <2>3. RequestInv(r)'
    BY <1>7, Kinds DEF DeleteReads, RequestInv, HandlerInv, RowInv, LeftInv, PhaseInv, Places, Kind, RowExists, Idle
  <2> QED
    BY <1>7, <2>1, <2>2, <2>3, TypeStep DEF Next, HandlerStep, StoreInv
<1>8. ASSUME NEW r \in Request, Repair(r) PROVE StoreInv'
  <2>1. PhaseInv'
    BY <1>8 DEF Repair, PhaseInv
  <2>2. ASSUME NEW q \in Request, q # r PROVE RequestInv(q)'
    BY <1>8, <2>2, Frame DEF Repair
  <2>3. RequestInv(r)'
    BY <1>8, Kinds DEF Repair, RequestInv, HandlerInv, RowInv, LeftInv, PhaseInv, Places, Kind
  <2> QED
    BY <1>8, <2>1, <2>2, <2>3, TypeStep DEF Next, HandlerStep, StoreInv
<1>9. CASE CleanRows
  <2>1. PhaseInv'
    BY <1>9 DEF CleanRows, PhaseInv, RowExists
  <2>2. ASSUME NEW q \in Request PROVE RequestInv(q)'
    BY <1>9, Kinds DEF CleanRows, RequestInv, HandlerInv, RowInv, LeftInv, PhaseInv, Places, Kind, RowExists
  <2> QED
    BY <1>9, <2>1, <2>2, TypeStep DEF Next, StoreInv
<1>10. CASE CleanFiles
  <2>1. PhaseInv'
    BY <1>10 DEF CleanFiles, PhaseInv
  <2>2. ASSUME NEW q \in Request PROVE RequestInv(q)'
    BY <1>10, Kinds DEF CleanFiles, RequestInv, HandlerInv, RowInv, LeftInv, PhaseInv, Places, Kind
  <2> QED
    BY <1>10, <2>1, <2>2, TypeStep DEF Next, StoreInv
<1>11. CASE DeleteFiles
  <2>1. PhaseInv'
    BY <1>11 DEF DeleteFiles, PhaseInv, Idle
  <2>2. ASSUME NEW q \in Request PROVE RequestInv(q)'
    BY <1>11, Kinds DEF DeleteFiles, RequestInv, HandlerInv, RowInv, LeftInv, PhaseInv, Places, Kind, Idle
  <2> QED
    BY <1>11, <2>1, <2>2, TypeStep DEF Next, StoreInv
<1>12. CASE DeleteRow
  <2>1. PhaseInv'
    BY <1>12 DEF DeleteRow, PhaseInv, Idle
  <2>2. ASSUME NEW q \in Request PROVE RequestInv(q)'
    BY <1>12, Kinds DEF DeleteRow, RequestInv, HandlerInv, RowInv, LeftInv, PhaseInv, Places, Kind, Idle
  <2> QED
    BY <1>12, <2>1, <2>2, TypeStep DEF Next, StoreInv
<1>13. CASE Crash
  <2>1. PhaseInv'
    BY <1>13 DEF Crash, PhaseInv, Idle
  <2>2. ASSUME NEW q \in Request PROVE RequestInv(q)'
    BY <1>13, Kinds DEF Crash, RequestInv, HandlerInv, RowInv, LeftInv, PhaseInv, Places, Kind, Idle
  <2> QED
    BY <1>13, <2>1, <2>2, TypeStep DEF Next, StoreInv
<1>14. CASE Start
  <2>1. PhaseInv'
    BY <1>14 DEF Start, PhaseInv, Stuck
  <2>2. ASSUME NEW q \in Request PROVE RequestInv(q)'
    BY <1>14, Kinds DEF Start, RequestInv, HandlerInv, RowInv, LeftInv, PhaseInv, Places, Kind, Stuck
  <2> QED
    BY <1>14, <2>1, <2>2, TypeStep DEF Next, StoreInv
<1>15. CASE Listen
  <2>1. PhaseInv'
    BY <1>15 DEF Listen, PhaseInv
  <2>2. ASSUME NEW q \in Request PROVE RequestInv(q)'
    BY <1>15, Kinds DEF Listen, RequestInv, HandlerInv, RowInv, LeftInv, PhaseInv, Places, Kind
  <2> QED
    BY <1>15, <2>1, <2>2, TypeStep DEF Next, StoreInv
<1>16. CASE SetRetention
  <2>1. PhaseInv'
    BY <1>16 DEF SetRetention, PhaseInv
  <2>2. ASSUME NEW q \in Request PROVE RequestInv(q)'
    BY <1>16, Kinds DEF SetRetention, RequestInv, HandlerInv, RowInv, LeftInv, PhaseInv, Places, Kind
  <2> QED
    BY <1>16, <2>1, <2>2, TypeStep DEF Next, StoreInv
<1>17. CASE Tick
  <2>1. PhaseInv'
    BY <1>17 DEF Tick, PhaseInv
  <2>2. ASSUME NEW q \in Request PROVE RequestInv(q)'
    BY <1>17, Kinds DEF Tick, RequestInv, HandlerInv, RowInv, LeftInv, PhaseInv, Places, Kind
  <2> QED
    BY <1>17, <2>1, <2>2, TypeStep DEF Next, StoreInv
<1>18. CASE UNCHANGED vars
  BY <1>18, Frame, TypeStep DEF vars, PhaseInv
<1> QED
  BY <1>1, <1>2, <1>3, <1>4, <1>5, <1>6, <1>7, <1>8, <1>9, <1>10, <1>11, <1>12, <1>13, <1>14, <1>15, <1>16, <1>17, <1>18 DEF Next, HandlerStep

LEMMA StoreInvInit == Init => StoreInv
<1> SUFFICES ASSUME Init PROVE StoreInv
  OBVIOUS
<1>1. 0 \in Day /\ Nothing \in Places
  BY Days, StoreAssumption, Kinds DEF Day, DayOf
<1> QED
  BY <1>1, Kinds, StoreAssumption
  DEF Init, StoreInv, StoreTypeOK, PhaseInv, RequestInv, HandlerInv, RowInv, LeftInv, Idle,
      Nothing, Readable, AtWork, NotOpened

(* Every variable has its type in every reachable state, for any requests,   *)
(* any retentions and any bound of the clock.                                *)
THEOREM StoreTypeCorrect == Spec => []StoreTypeOK
<1>1. StoreInv => StoreTypeOK
  BY DEF StoreInv
<1> QED
  BY StoreInvInit, StoreInvStep, <1>1, PTL DEF Spec

(* While the proxy serves, an open row whose response is readable on disk    *)
(* has a handler that is about to close it, or a write was given up          *)
(* (store_requests.go:20-92, proxy.go:243-304).                              *)
THEOREM RepairComplete == Spec => []NothingLeftStuck
<1>1. StoreInv => NothingLeftStuck
  BY DEF StoreInv, RequestInv, LeftInv, NothingLeftStuck
<1> QED
  BY StoreInvInit, StoreInvStep, <1>1, PTL DEF Spec

-----------------------------------------------------------------------------
(* Retention *)

(* A step that changes neither the request nor the clock. *)
LEMMA AgeFrame ==
  ASSUME NEW q \in Request, AgeInv(q),
         created'[q] = created[q], path'[q] = path[q], file'[q] = file[q],
         hpc'[q] = hpc[q], saved'[q] = saved[q], now' = now,
         q \in asked => q \in asked'
  PROVE  AgeInv(q)'
BY DEF AgeInv, Young, Cutoff

(* What is young is not outdated, whatever retention the clean-up runs with. *)
LEMMA YoungSpared ==
  ASSUME StoreTypeOK, NEW q \in Request, Young(q), sweep > 0,
         NEW d \in Day \union {None}, d # None => created[q] <= 2 * d + 1
  PROVE  ~Outdated(d, sweep)
<1>1. PICK days \in Retentions \ {0} : days <= sweep /\ created[q] >= Cutoff(days - 1)
  BY StoreAssumption DEF Young, StoreTypeOK
<1>2. days \in Nat /\ sweep \in Nat /\ now \in Nat /\ created[q] \in Nat
  BY StoreAssumption DEF StoreTypeOK
<1>3. CASE d # None
  <2>1. d \in Nat
    BY <1>3 DEF Day
  <2> QED
    BY <1>1, <1>2, <1>3, <2>1 DEF Outdated, Cutoff
<1>4. CASE d = None
  BY <1>4 DEF Outdated
<1> QED
  BY <1>3, <1>4

LEMMA AgeStep ==
  ASSUME RetentionInv, [Next]_vars
  PROVE  \A q \in Request : AgeInv(q)'
<1> USE StoreAssumption DEF RetentionInv, StoreInv, StoreTypeOK, world, rows, disk, handlers, history, NotOpened
<1>1. ASSUME NEW r \in Request, Arrive(r) PROVE \A q \in Request : AgeInv(q)'
  <2>1. ASSUME NEW q \in Request, q # r PROVE AgeInv(q)'
    BY <1>1, <2>1, AgeFrame DEF Arrive
  <2>2. AgeInv(r)'
    BY <1>1, Kinds, Days DEF Arrive, AgeInv, Young, Cutoff, RequestInv, HandlerInv, RowInv, Places, Kind, Nothing
  <2> QED
    BY <2>1, <2>2
<1>2. ASSUME NEW r \in Request, SaveRequest(r) PROVE \A q \in Request : AgeInv(q)'
  <2>1. ASSUME NEW q \in Request, q # r PROVE AgeInv(q)'
    BY <1>2, <2>1, AgeFrame DEF SaveRequest
  <2>2. AgeInv(r)'
    <3>1. /\ hpc[r] = "begun" /\ hpc'[r] = "saved" /\ path[r] = Nothing
          /\ UNCHANGED <<created, now, path, retention, asked>>
      BY <1>2 DEF SaveRequest, RequestInv, HandlerInv, RowInv
    <3>2. PICK f, p \in {None, DayOf(now)} :
            /\ p # None => f # None
            /\ file' = [file EXCEPT ![r]["request"] = f]
            /\ saved' = [saved EXCEPT ![r] = p]
      BY <1>2 DEF SaveRequest
    <3>3. file'[r]["request"] = f /\ file'[r]["response"] = file[r]["response"] /\ saved'[r] = p
      BY <3>2, Kinds DEF Places, Kind
    <3>4. created[r] <= 2 * DayOf(now) + 1
      <4>1. DayOf(now) \in Nat /\ now <= 2 * DayOf(now) + 1
        BY Days
      <4>2. created[r] \in Nat /\ now \in Nat /\ created[r] <= now
        BY DEF AgeInv
      <4> QED
        BY ONLY <4>1, <4>2
    <3> QED
      BY <3>1, <3>2, <3>3, <3>4 DEF AgeInv, Nothing, Kind
  <2> QED
    BY <2>1, <2>2
<1>3. ASSUME NEW r \in Request, InsertRequest(r) PROVE \A q \in Request : AgeInv(q)'
  <2>1. ASSUME NEW q \in Request, q # r PROVE AgeInv(q)'
    BY <1>3, <2>1, AgeFrame DEF InsertRequest
  <2>2. AgeInv(r)'
    BY <1>3, Kinds, Days DEF InsertRequest, AgeInv, Young, Cutoff, RequestInv, HandlerInv, RowInv, Places, Kind
  <2> QED
    BY <2>1, <2>2
<1>4. ASSUME NEW r \in Request, SaveResponse(r) PROVE \A q \in Request : AgeInv(q)'
  <2>1. ASSUME NEW q \in Request, q # r PROVE AgeInv(q)'
    BY <1>4, <2>1, AgeFrame DEF SaveResponse
  <2>2. AgeInv(r)'
    <3>1. /\ hpc[r] = "open" /\ hpc'[r] \in {"writing", "stored"} /\ saved[r] = None
          /\ UNCHANGED <<created, now, path, retention, asked>>
      BY <1>4 DEF SaveResponse, RequestInv, HandlerInv
    <3>2. path[r]["response"] = None
      BY <3>1 DEF RequestInv, HandlerInv, RowInv, Nothing, Kind
    <3>3. \/ /\ file'[r]["response"] = DayOf(now) /\ saved'[r] = DayOf(now)
             /\ file'[r]["request"] = file[r]["request"]
          \/ file'[r] = file[r] /\ saved'[r] = None
      BY <1>4, <3>1, Kinds DEF SaveResponse, Places, Kind
    <3>4. created[r] <= 2 * DayOf(now) + 1
      <4>1. DayOf(now) \in Nat /\ now <= 2 * DayOf(now) + 1
        BY Days
      <4>2. created[r] \in Nat /\ now \in Nat /\ created[r] <= now
        BY DEF AgeInv
      <4> QED
        BY ONLY <4>1, <4>2
    <3> QED
      BY <3>1, <3>2, <3>3, <3>4 DEF AgeInv, Young, Cutoff, Kind
  <2> QED
    BY <2>1, <2>2
<1>5. ASSUME NEW r \in Request, ResponseSaved(r) PROVE \A q \in Request : AgeInv(q)'
  <2>1. ASSUME NEW q \in Request, q # r PROVE AgeInv(q)'
    BY <1>5, <2>1, AgeFrame DEF ResponseSaved
  <2>2. AgeInv(r)'
    BY <1>5, Kinds, Days DEF ResponseSaved, AgeInv, Young, Cutoff, RequestInv, HandlerInv, RowInv, Places, Kind
  <2> QED
    BY <2>1, <2>2
<1>6. ASSUME NEW r \in Request, FinishRequest(r) PROVE \A q \in Request : AgeInv(q)'
  <2>1. ASSUME NEW q \in Request, q # r PROVE AgeInv(q)'
    BY <1>6, <2>1, AgeFrame DEF FinishRequest
  <2>2. AgeInv(r)'
    BY <1>6, Kinds, Days DEF FinishRequest, AgeInv, Young, Cutoff, RequestInv, HandlerInv, RowInv, Places, Kind, RowExists
  <2> QED
    BY <2>1, <2>2
<1>7. ASSUME NEW r \in Request, DeleteReads(r) PROVE \A q \in Request : AgeInv(q)'
  <2>1. ASSUME NEW q \in Request, q # r PROVE AgeInv(q)'
    BY <1>7, <2>1, AgeFrame DEF DeleteReads
  <2>2. AgeInv(r)'
    BY <1>7, Kinds, Days DEF DeleteReads, AgeInv, Young, Cutoff, RequestInv, HandlerInv, RowInv, Places, Kind
  <2> QED
    BY <2>1, <2>2
<1>8. ASSUME NEW r \in Request, Repair(r) PROVE \A q \in Request : AgeInv(q)'
  <2>1. ASSUME NEW q \in Request, q # r PROVE AgeInv(q)'
    BY <1>8, <2>1, AgeFrame DEF Repair
  <2>2. AgeInv(r)'
    BY <1>8, Kinds, Days DEF Repair, AgeInv, Young, Cutoff, RequestInv, HandlerInv, RowInv, Places, Kind
  <2> QED
    BY <2>1, <2>2
<1>9. CASE CleanRows
  <2> SUFFICES ASSUME NEW q \in Request PROVE AgeInv(q)'
    OBVIOUS
  <2>1. path'[q] = path[q] \/ path'[q] = Nothing
    BY <1>9 DEF CleanRows
  <2> QED
    BY <1>9, <2>1 DEF CleanRows, AgeInv, Young, Cutoff, Nothing
<1>10. CASE CleanFiles
  <2> SUFFICES ASSUME NEW q \in Request PROVE AgeInv(q)'
    OBVIOUS
  <2>1. \A k \in Kind : file'[q][k] \in {file[q][k], None}
    BY <1>10 DEF CleanFiles, Places
  <2>2. ASSUME NEW k \in Kind, Young(q) PROVE file'[q][k] = file[q][k]
    <3> DEFINE d == file[q][k]
    <3>1. d \in Day \union {None} /\ sweep > 0 /\ StoreTypeOK
      BY <1>10 DEF CleanFiles, Places
    <3>2. d # None => created[q] <= 2 * d + 1
      BY DEF AgeInv
    <3>3. ~Outdated(d, sweep)
      <4> HIDE DEF d
      <4> QED
        BY <2>2, <3>1, <3>2, YoungSpared
    <3>4. PICK gone \in SUBSET {rk \in Request \X Kind : Outdated(file[rk[1]][rk[2]], sweep)} :
            file' = [r \in Request |-> [j \in Kind |-> IF <<r, j>> \in gone THEN None ELSE file[r][j]]]
      BY <1>10 DEF CleanFiles
    <3>5. <<q, k>> \notin gone
      BY <3>3, <3>4
    <3> QED
      BY <3>4, <3>5
  <2>3. Young(q)' => Young(q)
    BY <1>10 DEF CleanFiles, Young, Cutoff
  <2> QED
    BY <1>10, <2>1, <2>2, <2>3, Kinds DEF CleanFiles, AgeInv
<1>11. CASE DeleteFiles
  <2> SUFFICES ASSUME NEW q \in Request PROVE AgeInv(q)'
    OBVIOUS
  <2>1. deleter.r \in asked
    BY <1>11 DEF DeleteFiles, PhaseInv, Idle
  <2>2. CASE q # deleter.r
    BY <1>11, <2>2, AgeFrame DEF DeleteFiles
  <2>3. CASE q = deleter.r
    <3>1. \A k \in Kind : file'[q][k] \in {file[q][k], None}
      BY <1>11, <2>3 DEF DeleteFiles, Places
    <3> QED
      BY <1>11, <2>1, <2>3, <3>1 DEF DeleteFiles, AgeInv
  <2> QED
    BY <2>2, <2>3
<1>12. CASE DeleteRow
  <2> SUFFICES ASSUME NEW q \in Request PROVE AgeInv(q)'
    OBVIOUS
  <2>1. path'[q] = path[q] \/ path'[q] = Nothing
    BY <1>12 DEF DeleteRow
  <2> QED
    BY <1>12, <2>1 DEF DeleteRow, AgeInv, Young, Cutoff, Nothing
<1>13. CASE Crash
  BY <1>13 DEF Crash, AgeInv, Young, Cutoff
<1>14. CASE Start
  BY <1>14, AgeFrame DEF Start
<1>15. CASE Listen
  BY <1>15, AgeFrame DEF Listen
<1>16. CASE SetRetention
  BY <1>16, AgeFrame DEF SetRetention
<1>17. CASE Tick
  <2> SUFFICES ASSUME NEW q \in Request PROVE AgeInv(q)'
    OBVIOUS
  <2>1. Young(q)' => Young(q)
    BY <1>17 DEF Tick, Young, Cutoff
  <2> QED
    BY <1>17, <2>1 DEF Tick, AgeInv
<1>18. CASE UNCHANGED vars
  BY <1>18, AgeFrame DEF vars
<1> QED
  BY <1>1, <1>2, <1>3, <1>4, <1>5, <1>6, <1>7, <1>8, <1>9, <1>10, <1>11, <1>12, <1>13, <1>14, <1>15, <1>16, <1>17, <1>18 DEF Next, HandlerStep

(* The files that a row names outlive every clean-up while the row is a day  *)
(* younger than the shortest retention (store_cleanup.go:29-66).             *)
THEOREM RetentionRespected == Spec => []RetainedFilesKept
<1>1. Init => RetentionInv
  <2> SUFFICES ASSUME Init PROVE \A r \in Request : AgeInv(r)
    BY StoreInvInit DEF RetentionInv
  <2> TAKE r \in Request
  <2>1. created[r] = now /\ now = 0 /\ hpc[r] = "idle"
    BY DEF Init
  <2>2. \A k \in Kind : file[r][k] = None /\ path[r][k] = None
    BY DEF Init, Nothing
  <2> QED
    BY <2>1, <2>2 DEF AgeInv
<1>2. RetentionInv /\ [Next]_vars => RetentionInv'
  BY AgeStep, StoreInvStep DEF RetentionInv
<1>3. RetentionInv => RetainedFilesKept
  BY DEF RetentionInv, AgeInv, Young, RetainedFilesKept
<1> QED
  BY <1>1, <1>2, <1>3, PTL DEF Spec

-----------------------------------------------------------------------------
(* The store implements RequestRecord *)

Same(r) == Record(r)' = Record(r)

LEMMA Stutters ==
  ASSUME \A r \in Request : Same(r), answer' = answer
  PROVE  UNCHANGED RR!recordVars
BY DEF RR!recordVars, Same

LEMMA Closes ==
  ASSUME NEW r \in Request, Record(r) = "pending", Record(r)' = answer[r],
         \A q \in Request \ {r} : Same(q), answer' = answer
  PROVE  RR!Next
<1>1. RR!Close(r)
  BY DEF RR!Close, Same
<1> QED
  BY <1>1 DEF RR!Next

LEMMA Forgets ==
  ASSUME NEW S \in SUBSET Request, answer' = answer,
         \A q \in Request : Record(q)' = IF q \in S THEN "gone" ELSE Record(q)
  PROVE  RR!Next
<1>1. RR!Forget(S)
  BY DEF RR!Forget
<1> QED
  BY <1>1 DEF RR!Next

LEMMA RecordsInit == Init => RR!Init
BY DEF Init, RR!Init, Record, RowExists

LEMMA RecordsStep ==
  ASSUME StoreInv, [Next]_vars
  PROVE  [RR!Next]_RR!recordVars
<1> USE DEF StoreInv, StoreTypeOK, RequestInv, world, rows, disk, handlers, history, NotOpened,
            Record, RowExists, Same
<1>1. ASSUME NEW r \in Request, Arrive(r) PROVE UNCHANGED RR!recordVars
  BY <1>1, Stutters DEF Arrive
<1>2. ASSUME NEW r \in Request, SaveRequest(r) PROVE RR!Next
  <2>1. Record(r) = "none" /\ answer[r] = "none" /\ \A q \in Request : Same(q)
    BY <1>2 DEF SaveRequest, HandlerInv
  <2>2. PICK a \in {"ok", "failed"} : answer' = [answer EXCEPT ![r] = a]
    BY <1>2 DEF SaveRequest
  <2>3. RR!Answer(r)
    BY <2>1, <2>2 DEF RR!Answer, RR!Outcome
  <2> QED
    BY <2>3 DEF RR!Next
<1>3. ASSUME NEW r \in Request, InsertRequest(r) PROVE RR!Next
  <2>1. Record(r) = "none" /\ answer[r] \in {"ok", "failed"} /\ answer' = answer
    BY <1>3 DEF InsertRequest, HandlerInv
  <2>2. \A q \in Request \ {r} : Same(q)
    BY <1>3 DEF InsertRequest
  <2>3. CASE Record(r)' = "pending"
    <3>1. RR!Open(r)
      BY <2>1, <2>2, <2>3 DEF RR!Open, RR!Outcome
    <3> QED
      BY <3>1 DEF RR!Next
  <2>4. CASE Record(r)' = "gone"
    <3>1. \A q \in Request : Record(q)' = IF q \in {r} THEN "gone" ELSE Record(q)
      BY ONLY <2>2, <2>4 DEF Same
    <3> QED
      BY ONLY <2>1, <3>1, Forgets, {r} \in SUBSET Request
  <2> QED
    BY <1>3, <2>3, <2>4 DEF InsertRequest, HandlerInv
<1>4. ASSUME NEW r \in Request, SaveResponse(r) PROVE UNCHANGED RR!recordVars
  BY <1>4, Stutters DEF SaveResponse
<1>5. ASSUME NEW r \in Request, ResponseSaved(r) PROVE UNCHANGED RR!recordVars
  BY <1>5, Stutters DEF ResponseSaved
<1>6. ASSUME NEW r \in Request, FinishRequest(r) PROVE [RR!Next]_RR!recordVars
  <2>1. \A q \in Request \ {r} : Same(q)
    BY <1>6 DEF FinishRequest
  <2>2. answer' = answer /\ answer[r] \in {"ok", "failed"}
    BY <1>6 DEF FinishRequest, HandlerInv
  <2>3. CASE RowExists(r) /\ status' = [status EXCEPT ![r] = answer[r]]
    <3>1. Record(r) = "pending" /\ Record(r)' = answer[r]
      BY <1>6, <2>2, <2>3 DEF FinishRequest, HandlerInv
    <3> QED
      BY <2>1, <2>2, <3>1, Closes
  <2>4. CASE status' = status
    BY <1>6, <2>1, <2>2, <2>4, Stutters DEF FinishRequest
  <2> QED
    BY <1>6, <2>3, <2>4 DEF FinishRequest
<1>7. ASSUME NEW r \in Request, DeleteReads(r) PROVE UNCHANGED RR!recordVars
  BY <1>7, Stutters DEF DeleteReads
<1>8. ASSUME NEW r \in Request, Repair(r) PROVE [RR!Next]_RR!recordVars
  <2>1. \A q \in Request \ {r} : Same(q)
    BY <1>8 DEF Repair
  <2>2. CASE Readable(r) /\ status' = [status EXCEPT ![r] = "ok"]
    <3>1. Record(r) = "pending" /\ answer[r] = "ok" /\ answer' = answer
      BY <1>8, <2>2 DEF Repair, PhaseInv, RowInv, Readable
    <3>2. Record(r)' = answer[r]
      BY <2>2, <3>1
    <3> QED
      BY <2>1, <3>1, <3>2, Closes
  <2>3. CASE status' = status
    BY <1>8, <2>3, Stutters DEF Repair
  <2> QED
    BY <1>8, <2>2, <2>3 DEF Repair
<1>9. CASE CleanRows
  <2>1. PICK S \in SUBSET Request :
          /\ \A r \in S : RowExists(r)
          /\ status' = [r \in Request |-> IF r \in S THEN "absent" ELSE status[r]]
    <3>1. CASE status' = status
      BY <3>1, {} \in SUBSET Request
    <3>2. CASE status' # status
      <4> DEFINE gone == {r \in Request : RowExists(r) /\ created[r] < Cutoff(retention)}
      <4>1. status' = [r \in Request |-> IF r \in gone THEN "absent" ELSE status[r]]
        BY <1>9, <3>2 DEF CleanRows
      <4> QED
        BY <4>1, gone \in SUBSET Request
    <3> QED
      BY <3>1, <3>2
  <2>2. hpc' = hpc /\ answer' = answer
    BY <1>9 DEF CleanRows
  <2>3. \A q \in Request : Record(q)' = IF q \in S THEN "gone" ELSE Record(q)
    BY <2>1, <2>2 DEF HandlerInv
  <2> QED
    BY <2>2, <2>3, Forgets
<1>10. CASE CleanFiles
  BY <1>10, Stutters DEF CleanFiles
<1>11. CASE DeleteFiles
  BY <1>11, Stutters DEF DeleteFiles
<1>12. CASE DeleteRow
  <2>1. deleter.r \in Request /\ hpc[deleter.r] \notin NotOpened /\ hpc' = hpc /\ answer' = answer
    BY <1>12 DEF DeleteRow, PhaseInv, Idle
  <2>2. CASE status' = status
    BY <2>1, <2>2, Stutters
  <2>3. CASE status' = [status EXCEPT ![deleter.r] = "absent"]
    <3>1. \A q \in Request : Record(q)' = IF q \in {deleter.r} THEN "gone" ELSE Record(q)
      BY <2>1, <2>3
    <3> QED
      BY <2>1, <3>1, Forgets, {deleter.r} \in SUBSET Request
  <2> QED
    BY <1>12, <2>2, <2>3 DEF DeleteRow
<1>13. CASE Crash
  <2> DEFINE S == {r \in Request : hpc[r] \in {"begun", "saved"}}
  <2>1. status' = status /\ answer' = answer
    BY <1>13 DEF Crash
  <2>2. \A q \in Request : Record(q)' = IF q \in S THEN "gone" ELSE Record(q)
    BY <1>13, <2>1 DEF Crash, HandlerInv
  <2> QED
    BY <2>1, <2>2, Forgets, S \in SUBSET Request
<1>14. CASE Start
  BY <1>14, Stutters DEF Start
<1>15. CASE Listen
  BY <1>15, Stutters DEF Listen
<1>16. CASE SetRetention
  BY <1>16, Stutters DEF SetRetention
<1>17. CASE Tick
  BY <1>17, Stutters DEF Tick
<1>18. CASE UNCHANGED vars
  BY <1>18, Stutters DEF vars
<1> QED
  BY <1>1, <1>2, <1>3, <1>4, <1>5, <1>6, <1>7, <1>8, <1>9, <1>10, <1>11, <1>12, <1>13, <1>14, <1>15, <1>16, <1>17, <1>18 DEF Next, HandlerStep

(* Whatever the order of handlers, clean-ups, deletions, crashes and repairs, *)
(* a record is closed with the answer its request got, and stays as it is     *)
(* until it is gone for good.                                                 *)
THEOREM StoreImplementsRecord == Spec => RecordsKept
<1>1. StoreInv /\ [Next]_vars => [RR!Next]_RR!recordVars
  BY RecordsStep
<1> QED
  BY RecordsInit, <1>1, StoreInvInit, StoreInvStep, PTL DEF Spec, RecordsKept, RR!Spec
=============================================================================
