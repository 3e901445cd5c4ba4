--------------------------- MODULE RequestRecord ---------------------------
(***************************************************************************)
(* What the request store promises of each proxied request: it is answered *)
(* once, its record is opened once, is closed with the answer the request  *)
(* got and never with another one, and once forgotten (deleted from the    *)
(* panel, cleaned up, or never written) it does not come back.             *)
(***************************************************************************)

CONSTANT Request

VARIABLES
  record,  \* "none", "pending", the outcome, or "gone"
  answer   \* the outcome that the client got: "ok", "failed", "none" yet

recordVars == <<record, answer>>

Outcome == {"ok", "failed"}

Init ==
  /\ record = [r \in Request |-> "none"]
  /\ answer = [r \in Request |-> "none"]

Answer(r) ==
  /\ record[r] = "none" /\ answer[r] = "none"
  /\ \E a \in Outcome : answer' = [answer EXCEPT ![r] = a]
  /\ UNCHANGED record

Open(r) ==
  /\ record[r] = "none" /\ answer[r] \in Outcome
  /\ record' = [record EXCEPT ![r] = "pending"]
  /\ UNCHANGED answer

Close(r) ==
  /\ record[r] = "pending"
  /\ record' = [record EXCEPT ![r] = answer[r]]
  /\ UNCHANGED answer

(* Several at once: clean-up deletes by age, a crash ends every handler. *)
Forget(S) ==
  /\ record' = [r \in Request |-> IF r \in S THEN "gone" ELSE record[r]]
  /\ UNCHANGED answer

Next ==
  \/ \E r \in Request : Answer(r) \/ Open(r) \/ Close(r)
  \/ \E S \in SUBSET Request : Forget(S)

Spec == Init /\ [][Next]_recordVars
=============================================================================
