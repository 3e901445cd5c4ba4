------------------------------- MODULE Store -------------------------------
(***************************************************************************)
(* The request store: a row per proxied request in the database and its    *)
(* raw payloads as files under raw/<date>.  Request handlers, the hourly   *)
(* clean-up and a deletion from the panel act on both in separate steps;   *)
(* the process may end between any two, and at the next start the rows     *)
(* that were left open are repaired from the response files.               *)
(*                                                                         *)
(* Time counts half days, so that a cut-off may fall inside a day.         *)
(***************************************************************************)
EXTENDS Integers

CONSTANTS
  Request,
  Retentions,  \* values of retention_days in the configuration; 0: never clean up
  MaxTime,     \* bound of the model's clock
  None

ASSUME StoreAssumption ==
  /\ Retentions \subseteq Nat /\ Retentions # {}
  /\ MaxTime \in Nat /\ None \notin Nat

VARIABLES
  phase,      \* "down", "repair" (RepairStuckRequests before the proxy listens), "up"
  now,
  retention,  \* Store.retentionDays
  status,     \* the row: "absent", "pending" (status_code 0), "ok" (200), "failed"
  created,    \* created_at: when the request began
  path,       \* request_raw_path, response_raw_path: the file's date, or None
  file,       \* the date directory the payload is in, or None
  torn,       \* requests whose response file is written in part
  hpc,        \* where the request's handler is
  answer,     \* the outcome it sends to its client
  saved,      \* its local result of the last SaveRawPayload
  sweep,      \* Cleanup's days between its deletion of rows and of files; 0: not at work
  deleter,    \* DeleteRequestByID: its step and the record it read
  todo,       \* rows that the repair has still to look at
  unwritten,  \* requests for which a write was given up after its retries
  asked       \* requests whose deletion was asked for

rows == <<status, created, path>>
disk == <<file, torn>>
handlers == <<hpc, answer, saved>>
world == <<phase, now, retention>>
history == <<unwritten, asked>>
vars == <<world, rows, disk, handlers, sweep, deleter, todo, history>>

Kind == {"request", "response"}
Nothing == [k \in Kind |-> None]
Idle == [at |-> "idle", r |-> None, path |-> Nothing]

DayOf(t) == t \div 2

(* What was created before t has outlived `days' days. *)
Cutoff(days) == now - 2 * days

(* Mutant: the cut-off is rounded up to the next day. *)
OutdatedEarly(d, days) == d # None /\ 2 * d < Cutoff(days) + 2

(* A date directory is compared by its midnight. *)
Outdated(d, days) == d # None /\ 2 * d < Cutoff(days)

RowExists(r) == status[r] # "absent"

Init ==
  /\ phase = "down" /\ now = 0 /\ retention \in Retentions
  /\ status = [r \in Request |-> "absent"]
  /\ created = [r \in Request |-> 0]
  /\ path = [r \in Request |-> Nothing]
  /\ file = [r \in Request |-> Nothing]
  /\ torn = {}
  /\ hpc = [r \in Request |-> "idle"]
  /\ answer = [r \in Request |-> "none"]
  /\ saved = [r \in Request |-> None]
  /\ sweep = 0 /\ deleter = Idle /\ todo = {}
  /\ unwritten = {} /\ asked = {}

-----------------------------------------------------------------------------
(* The request's handler.                                                  *)

(* It begins; a back end will answer, or every candidate fails. *)
Arrive(r) ==
  /\ phase = "up" /\ hpc[r] = "idle"
  /\ hpc' = [hpc EXCEPT ![r] = "begun"]
  /\ created' = [created EXCEPT ![r] = now]
  /\ UNCHANGED <<world, status, path, disk, answer, saved, sweep, deleter, todo, history>>

(* Mutant: the row is written before an outcome is known. *)
SaveUnanswered(r) ==
  /\ hpc[r] = "begun"
  /\ hpc' = [hpc EXCEPT ![r] = "saved"]
  /\ UNCHANGED <<world, rows, disk, answer, saved, sweep, deleter, todo, history>>

(* recordRequest saves the request's body: nothing for an empty one, and no  *)
(* path when the write fails, which may leave a part of the file.            *)
SaveRequest(r) ==
  /\ hpc[r] = "begun"
  /\ hpc' = [hpc EXCEPT ![r] = "saved"]
  /\ \E a \in {"ok", "failed"} : answer' = [answer EXCEPT ![r] = a]
  /\ \E f, p \in {None, DayOf(now)} :
       /\ p # None => f # None
       /\ file' = [file EXCEPT ![r]["request"] = f]
       /\ saved' = [saved EXCEPT ![r] = p]
  /\ UNCHANGED <<world, rows, torn, sweep, deleter, todo, history>>

InsertRequest(r) ==
  /\ hpc[r] = "saved"
  /\ hpc' = [hpc EXCEPT ![r] = "open"]
  /\ saved' = [saved EXCEPT ![r] = None]
  /\ \/ /\ status' = [status EXCEPT ![r] = "pending"]
        /\ path' = [path EXCEPT ![r]["request"] = saved[r]]
        /\ UNCHANGED unwritten
     \/ /\ unwritten' = unwritten \union {r}
        /\ UNCHANGED <<status, path>>
  /\ UNCHANGED <<world, created, disk, answer, sweep, deleter, todo, asked>>

(* The stream has ended and its captured bytes are written. Only a 200 is    *)
(* streamed; the answer of failed candidates is not kept.                    *)
SaveResponse(r) ==
  /\ hpc[r] = "open" /\ answer[r] = "ok"
  /\ \/ /\ hpc' = [hpc EXCEPT ![r] = "writing"]
        /\ saved' = [saved EXCEPT ![r] = DayOf(now)]
        /\ file' = [file EXCEPT ![r]["response"] = DayOf(now)]
        /\ torn' = torn \union {r}
     \/ /\ hpc' = [hpc EXCEPT ![r] = "stored"]  \* nothing was captured, or no directory
        /\ UNCHANGED <<saved, disk>>
  /\ UNCHANGED <<world, rows, answer, sweep, deleter, todo, history>>

ResponseSaved(r) ==
  /\ hpc[r] = "writing"
  /\ hpc' = [hpc EXCEPT ![r] = "stored"]
  /\ \/ torn' = torn \ {r} /\ UNCHANGED saved
     \/ saved' = [saved EXCEPT ![r] = None] /\ UNCHANGED torn
  /\ UNCHANGED <<world, rows, file, answer, sweep, deleter, todo, history>>

(* Mutant: a row that is gone is written anew. *)
FinishUpserts(r) ==
  /\ hpc[r] = IF answer[r] = "ok" THEN "stored" ELSE "open"
  /\ hpc' = [hpc EXCEPT ![r] = "done"]
  /\ saved' = [saved EXCEPT ![r] = None]
  /\ status' = [status EXCEPT ![r] = answer[r]]
  /\ path' = [path EXCEPT ![r]["response"] = saved[r]]
  /\ UNCHANGED <<world, created, disk, answer, sweep, deleter, todo, history>>

(* The update of a row that is gone affects nothing and is no error. *)
FinishRequest(r) ==
  /\ hpc[r] = IF answer[r] = "ok" THEN "stored" ELSE "open"
  /\ hpc' = [hpc EXCEPT ![r] = "done"]
  /\ saved' = [saved EXCEPT ![r] = None]
  /\ \/ /\ RowExists(r)
        /\ status' = [status EXCEPT ![r] = answer[r]]
        /\ path' = [path EXCEPT ![r]["response"] = saved[r]]
        /\ UNCHANGED unwritten
     \/ /\ ~RowExists(r)
        /\ UNCHANGED <<status, path, unwritten>>
     \/ /\ unwritten' = unwritten \union {r}
        /\ UNCHANGED <<status, path>>
  /\ UNCHANGED <<world, created, disk, answer, sweep, deleter, todo, asked>>

HandlerStep(r) ==
  \/ SaveRequest(r) \/ InsertRequest(r)
  \/ SaveResponse(r) \/ ResponseSaved(r) \/ FinishRequest(r)

-----------------------------------------------------------------------------
(* Cleanup, at the start and each hour: rows by their exact age, then the    *)
(* date directories, if they can be listed. A failed deletion of rows does   *)
(* not keep it from the files; the cut-off is taken again for them.          *)

(* Mutant: rows that are still open are left alone. *)
CleanClosedRows ==
  /\ phase = "up" /\ sweep = 0 /\ retention > 0
  /\ sweep' = retention
  /\ LET gone == {r \in Request : status[r] \in {"ok", "failed"} /\ created[r] < Cutoff(retention)}
     IN  /\ status' = [r \in Request |-> IF r \in gone THEN "absent" ELSE status[r]]
         /\ path' = [r \in Request |-> IF r \in gone THEN Nothing ELSE path[r]]
  /\ UNCHANGED <<world, created, disk, handlers, deleter, todo, history>>

CleanRows ==
  /\ phase = "up" /\ sweep = 0 /\ retention > 0
  /\ sweep' = retention
  /\ \/ LET gone == {r \in Request : RowExists(r) /\ created[r] < Cutoff(retention)}
        IN  /\ status' = [r \in Request |-> IF r \in gone THEN "absent" ELSE status[r]]
            /\ path' = [r \in Request |-> IF r \in gone THEN Nothing ELSE path[r]]
     \/ UNCHANGED <<status, path>>
  /\ UNCHANGED <<world, created, disk, handlers, deleter, todo, history>>

(* What RemoveAll cannot remove of an outdated directory is left there. *)
CleanFiles ==
  /\ sweep > 0
  /\ sweep' = 0
  /\ \E gone \in SUBSET {rk \in Request \X Kind : Outdated(file[rk[1]][rk[2]], sweep)} :
       /\ file' = [r \in Request |->
                     [k \in Kind |-> IF <<r, k>> \in gone THEN None ELSE file[r][k]]]
       /\ torn' = {r \in torn : <<r, "response">> \notin gone}
  /\ UNCHANGED <<world, rows, handlers, deleter, todo, history>>

-----------------------------------------------------------------------------
(* DeleteRequestByID: reads the row, removes the files it names, deletes it. *)

DeleteReads(r) ==
  /\ phase = "up" /\ deleter = Idle /\ RowExists(r)
  /\ deleter' = [at |-> "files", r |-> r, path |-> path[r]]
  /\ asked' = asked \union {r}
  /\ UNCHANGED <<world, rows, disk, handlers, sweep, todo, unwritten>>

(* A file that cannot be removed ends the deletion; the files before it are  *)
(* gone.                                                                     *)
DeleteFiles ==
  /\ deleter.at = "files"
  /\ \E S \in SUBSET Kind :
       /\ file' = [file EXCEPT ![deleter.r] =
                     [k \in Kind |-> IF k \in S /\ @[k] = deleter.path[k] THEN None ELSE @[k]]]
       /\ torn' = IF file'[deleter.r]["response"] = None THEN torn \ {deleter.r} ELSE torn
       /\ deleter' = IF S = Kind THEN [deleter EXCEPT !.at = "row"] ELSE Idle
       /\ "response" \in S => S = Kind
  /\ UNCHANGED <<world, rows, handlers, sweep, todo, history>>

DeleteRow ==
  /\ deleter.at = "row"
  /\ deleter' = Idle
  /\ \/ /\ status' = [status EXCEPT ![deleter.r] = "absent"]
        /\ path' = [path EXCEPT ![deleter.r] = Nothing]
     \/ UNCHANGED <<status, path>>
  /\ UNCHANGED <<world, created, disk, handlers, sweep, todo, history>>

-----------------------------------------------------------------------------
(* The end of the process at any point, and its start.                      *)

Crash ==
  /\ phase # "down"
  /\ phase' = "down"
  /\ hpc' = [r \in Request |-> IF hpc[r] \in {"idle", "done"} THEN hpc[r] ELSE "dead"]
  /\ saved' = [r \in Request |-> None]
  /\ sweep' = 0 /\ deleter' = Idle /\ todo' = {}
  /\ UNCHANGED <<now, retention, rows, disk, answer, history>>

(* The rows that look unfinished. An error of the query skips the repair.    *)
Stuck == {r \in Request : status[r] = "pending" /\ path[r]["response"] = None}

Start ==
  /\ phase = "down"
  /\ phase' = "repair"
  /\ \/ todo' = Stuck /\ UNCHANGED unwritten
     \/ todo' = {} /\ unwritten' = unwritten \union Stuck
  /\ UNCHANGED <<now, retention, rows, disk, handlers, sweep, deleter, asked>>

(* A response file that can be read makes the row a finished one: its        *)
(* answer was a 200.                                                         *)
Readable(r) == file[r]["response"] # None /\ r \notin torn

Repair(r) ==
  /\ r \in todo
  /\ todo' = todo \ {r}
  /\ \/ /\ Readable(r)
        /\ status' = [status EXCEPT ![r] = "ok"]
        /\ path' = [path EXCEPT ![r]["response"] = file[r]["response"]]
        /\ UNCHANGED unwritten
     \/ /\ Readable(r)
        /\ unwritten' = unwritten \union {r}
        /\ UNCHANGED <<status, path>>
     \/ /\ ~Readable(r)
        /\ UNCHANGED <<status, path, unwritten>>
  /\ UNCHANGED <<world, created, disk, handlers, sweep, deleter, asked>>

(* Mutant: the repair runs beside the server. *)
ListenAtOnce ==
  /\ phase = "repair"
  /\ phase' = "up"
  /\ UNCHANGED <<now, retention, rows, disk, handlers, sweep, deleter, todo, history>>

Listen ==
  /\ phase = "repair" /\ todo = {}
  /\ phase' = "up"
  /\ UNCHANGED <<now, retention, rows, disk, handlers, sweep, deleter, todo, history>>

(* By a reload, or in the file while the process is down. *)
SetRetention ==
  /\ phase # "repair"
  /\ retention' \in Retentions \ {retention}
  /\ UNCHANGED <<phase, now, rows, disk, handlers, sweep, deleter, todo, history>>

Tick ==
  /\ now < MaxTime
  /\ now' = now + 1
  /\ UNCHANGED <<phase, retention, rows, disk, handlers, sweep, deleter, todo, history>>

Next ==
  \/ \E r \in Request : Arrive(r) \/ HandlerStep(r) \/ DeleteReads(r) \/ Repair(r)
  \/ CleanRows \/ CleanFiles \/ DeleteFiles \/ DeleteRow
  \/ Crash \/ Start \/ Listen \/ SetRetention \/ Tick

Spec == Init /\ [][Next]_vars

(* Clean-up comes back each hour; the rows, and some file, that it tries to   *)
(* remove again and again go once.                                           *)
Fairness ==
  /\ WF_vars(CleanRows) /\ SF_vars(CleanRows /\ status' # status)
  /\ WF_vars(CleanFiles) /\ SF_vars(CleanFiles /\ file' # file)

FairSpec == Spec /\ Fairness

-----------------------------------------------------------------------------
(* Properties.                                                             *)

Day == 0..DayOf(MaxTime)
Places == [Kind -> Day \union {None}]

(* Every variable has its type. *)
StoreTypeOK ==
  /\ phase \in {"down", "repair", "up"} /\ now \in 0..MaxTime /\ retention \in Retentions
  /\ status \in [Request -> {"absent", "pending", "ok", "failed"}]
  /\ created \in [Request -> 0..MaxTime]
  /\ path \in [Request -> Places]
  /\ file \in [Request -> Places]
  /\ torn \subseteq Request
  /\ hpc \in [Request -> {"idle", "begun", "saved", "open", "writing", "stored", "done", "dead"}]
  /\ answer \in [Request -> {"none", "ok", "failed"}]
  /\ saved \in [Request -> Day \union {None}]
  /\ sweep \in Retentions \union {0}
  /\ deleter \in [at : {"idle", "files", "row"}, r : Request \union {None}, path : Places]
  /\ deleter.at # "idle" => deleter.r \in Request
  /\ todo \subseteq Request /\ unwritten \subseteq Request /\ asked \subseteq Request

(* A row that the repair passed over is one without a readable response:     *)
(* while the proxy serves, an open row whose response is on disk belongs to  *)
(* a handler that is about to finish it, or its write was given up           *)
(* (store_requests.go:23-90, proxy.go:252-286).                              *)
NothingLeftStuck ==
  phase = "up" =>
    \A r \in Request :
      status[r] = "pending" /\ Readable(r) => (hpc[r] = "stored" \/ r \in unwritten)

(* The files that a row names are kept while the row is at least a day      *)
(* younger than the shortest retention, unless their deletion was asked for: *)
(* a directory goes as a whole, up to a day before its last rows             *)
(* (store_cleanup.go:34, 53-63).                                             *)
RetainedFilesKept ==
  \A r \in Request, k \in Kind, days \in Retentions \ {0} :
    /\ RowExists(r) /\ path[r][k] # None /\ r \notin asked
    /\ \A other \in Retentions \ {0} : days <= other
    /\ created[r] >= Cutoff(days - 1)
    => file[r][k] = path[r][k]

(* Data past its retention goes, whatever fails for a time, if the proxy     *)
(* stays up and cleans up (store_cleanup.go:15-27).                          *)
Expired(r) ==
  \/ (RowExists(r) /\ created[r] < Cutoff(retention))
  \/ \E k \in Kind : Outdated(file[r][k], retention)

ExpiredPurged ==
  <>[](phase = "up" /\ retention > 0) => \A r \in Request : [](Expired(r) => <>~Expired(r))

-----------------------------------------------------------------------------
(* The store implements RequestRecord. A record that does not exist is one   *)
(* that is still to be opened, or one that is gone.                          *)
Record(r) ==
  IF RowExists(r) THEN status[r]
  ELSE IF hpc[r] \in {"idle", "begun", "saved"} THEN "none" ELSE "gone"

RR == INSTANCE RequestRecord WITH record <- [r \in Request |-> Record(r)]

(* Every behaviour of the store is one of RequestRecord: no repair, late     *)
(* update, deletion or crash changes a record's outcome, gives it another    *)
(* than its client got, or brings it back.                                   *)
RecordsKept == RR!Spec
=============================================================================
