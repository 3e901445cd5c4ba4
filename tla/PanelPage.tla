----------------------------- MODULE PanelPage -----------------------------
(***************************************************************************)
(* Panel composed with its pages: what a page shows is the last list it    *)
(* was sent or has fetched.                                                *)
(***************************************************************************)
EXTENDS Panel

CONSTANTS None, Asked

VARIABLES
  shown,   \* the page's list
  fetch,   \* its request for the list: None, Asked, or the answer on its way
  resync   \* after an error: "error", and "answered" when a fetch was; else "none"

page == <<shown, fetch, resync>>
pageVars == <<vars, page>>

PageInit ==
  /\ Init
  /\ shown = [c \in Client |-> {}]
  /\ fetch = [c \in Client |-> Asked]
  /\ resync = [c \in Client |-> "none"]

(* onerror: the page fetches the list at once, and connects again later.     *)
Breaks(c) ==
  /\ fetch' = [fetch EXCEPT ![c] = Asked]
  /\ resync' = [resync EXCEPT ![c] = "error"]
  /\ UNCHANGED shown

PageLoses(c) == Lose(c) /\ Breaks(c)
PageEnds(c) == Ends(c) /\ IF c \in live THEN Breaks(c) ELSE UNCHANGED page

PageReads(c) ==
  /\ Written(c)
  /\ shown' = IF c \in live /\ out[c] # Other THEN [shown EXCEPT ![c] = out[c]] ELSE shown
  /\ UNCHANGED <<fetch, resync>>

(* apiInflight *)
FetchAnswered(c) ==
  /\ Running /\ fetch[c] = Asked
  /\ fetch' = [fetch EXCEPT ![c] = inflight]
  /\ UNCHANGED <<vars, shown, resync>>

(* loadInflight: a failure is ignored. *)
FetchEnds(c) ==
  /\ fetch[c] # None
  /\ fetch' = [fetch EXCEPT ![c] = None]
  /\ \/ fetch[c] = Asked /\ UNCHANGED <<shown, resync>>
     \/ /\ fetch[c] # Asked
        /\ shown' = [shown EXCEPT ![c] = fetch[c]]
        /\ resync' = [resync EXCEPT ![c] = IF @ = "error" THEN "answered" ELSE @]
  /\ UNCHANGED vars

(* Steps of the server, and connections, that the page does not notice.      *)
Unseen ==
  \/ \E r \in Request : Add(r) \/ HandlerStep(r) \/ Remove(r)
  \/ \E c \in Client : Subscribe(c) \/ Register(c) \/ Take(c)
  \/ BroadcastOther \/ Signal \/ CancelAllSSE \/ ShutdownReturns

PageNext ==
  \/ Unseen /\ UNCHANGED page
  \/ \E c \in Client :
       PageLoses(c) \/ PageEnds(c) \/ PageReads(c) \/ FetchAnswered(c) \/ FetchEnds(c)

PageSpec == PageInit /\ [][PageNext]_pageVars

(* What the page says of a lost connection (frontend/src/App.vue:360-361):   *)
(* events may have been missed, so the list is fetched and agrees again. It  *)
(* is fetched before the page is connected, and misses what comes between.   *)
PageReconciled ==
  \A c \in Client :
    /\ resync[c] = "answered" /\ fetch[c] = None
    /\ Quiet /\ phase = "up" /\ c \in live /\ conn[c] = "open" /\ buffer[c] = <<>>
    => shown[c] = inflight
=============================================================================
