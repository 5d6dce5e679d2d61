-------------------------- MODULE BrowserSessions ---------------------------
(***************************************************************************)
(* Browser sessions of one runtime process: openBrowserSession,            *)
(* executeBrowserSession, closeBrowserSession and runBrowserBatch          *)
(* (runtime.ts) over BrowserSessionManager (browser-backend.ts), the       *)
(* Playwright backend (playwright-browser.ts) and the batch loop           *)
(* (browser-actions.ts).                                                   *)
(*                                                                         *)
(* The process runs one event loop; other calls get in wherever a call     *)
(* awaits, and only there.  What the browser does is external: it launches *)
(* or not, an action works or fails, a close completes or throws.          *)
(***************************************************************************)
EXTENDS Naturals, Sequences, FiniteSets

CONSTANTS
  Callers,         \* calls in flight
  Sessions,        \* session ids, one browser each
  SessionLimit,    \* limits.maxBrowserSessions
  BatchSize,       \* actions of a batch
  NoSession

ASSUME SessionsAssumption ==
  /\ IsFiniteSet(Callers) /\ Callers # {} /\ IsFiniteSet(Sessions)
  /\ NoSession \notin Sessions
  /\ SessionLimit \in Nat \ {0} /\ BatchSize \in Nat

VARIABLES
  registered,      \* the manager's map of sessions
  browser,         \* browser[s]: the browser behind a session
  returned,        \* ids handed to a caller of openBrowserSession
  closes,          \* closes[s]: how often close was called on s (history)
  running,         \* running[c]: what a call is doing
  raced            \* an open began while another was launching (history)

sessionVars == <<registered, browser, returned, closes, running, raced>>

Ended == {"none", "succeeded", "partial", "failed", "cancelled", "thrown"}

Steps == {"idle", "opening", "executing", "closing"}

IdleCall == [op |-> "none", step |-> "idle", session |-> NoSession, stop |-> TRUE,
             results |-> <<>>, status |-> "none"]

SessionsInit ==
  /\ registered = {}
  /\ browser = [s \in Sessions |-> "none"]
  /\ returned = {}
  /\ closes = [s \in Sessions |-> 0]
  /\ running = [c \in Callers |-> IdleCall]
  /\ raced = FALSE

In(c, step) == running[c].step = step

Of(c) == running[c].session

Return(c, status) == running' = [running EXCEPT ![c] = [IdleCall EXCEPT !.status = status]]

(* randomUUID: an id that was never used.                                  *)
Fresh(s) == browser[s] = "none" /\ s = CHOOSE t \in Sessions : browser[t] = "none"

-----------------------------------------------------------------------------
(* Mutant: the limit is compared as if it were the largest index.          *)
AtMostTheLimit == Cardinality(registered) <= SessionLimit

(* openBrowserSession counts the registered sessions, then awaits.         *)
BelowLimit == Cardinality(registered) < SessionLimit

BeginOpen(c, s, op, stop) ==
  /\ In(c, "idle")
  /\ BelowLimit
  /\ Fresh(s)
  /\ running' = [running EXCEPT ![c] = [op |-> op, step |-> "opening", session |-> s,
                   stop |-> stop, results |-> <<>>, status |-> "none"]]
  /\ browser' = [browser EXCEPT ![s] = "launching"]
  /\ raced' = (raced \/ \E d \in Callers : In(d, "opening"))
  /\ UNCHANGED <<registered, returned, closes>>

(* openSession registers when the backend answers; runBrowserBatch goes on *)
(* to its batch, openBrowserSession hands out the id.                      *)
Opened(c) ==
  /\ In(c, "opening")
  /\ browser' = [browser EXCEPT ![Of(c)] = "open"]
  /\ registered' = registered \cup {Of(c)}
  /\ IF running[c].op = "batch"
     THEN running' = [running EXCEPT ![c].step = "executing"] /\ UNCHANGED returned
     ELSE Return(c, "none") /\ returned' = returned \cup {Of(c)}
  /\ UNCHANGED <<closes, raced>>

(* No browser came up, or it did and its context, page or route failed:    *)
(* nobody closes it then, since only a session object could.               *)
OpenFails(c) ==
  /\ In(c, "opening")
  /\ \E end \in {"closed", "leaked"} : browser' = [browser EXCEPT ![Of(c)] = end]
  /\ Return(c, "thrown")
  /\ UNCHANGED <<registered, returned, closes, raced>>

(* executeBrowserSession on an id somebody was given.                      *)
BeginExecute(c, s, stop) ==
  /\ In(c, "idle")
  /\ s \in returned \cap registered
  /\ running' = [running EXCEPT ![c] = [op |-> "execute", step |-> "executing",
                   session |-> s, stop |-> stop, results |-> <<>>, status |-> "none"]]
  /\ UNCHANGED <<registered, browser, returned, closes, raced>>

(* One round of executePlaywrightBatch; an action on a closed browser      *)
(* fails, any action may.                                                  *)
Perform(c) ==
  /\ In(c, "executing")
  /\ Len(running[c].results) < BatchSize
  /\ \A i \in 1..Len(running[c].results) : running[c].results[i] = "failed" => ~running[c].stop
  /\ \E outcome \in {"failed"} \cup (IF browser[Of(c)] = "open" THEN {"succeeded"} ELSE {}) :
       running' = [running EXCEPT ![c].results = Append(@, outcome)]
  /\ UNCHANGED <<registered, browser, returned, closes, raced>>

SomeFailed(c) == \E i \in 1..Len(running[c].results) : running[c].results[i] = "failed"

(* The status the loop has arrived at.                                     *)
BatchStatus(c) ==
  IF ~SomeFailed(c) THEN "succeeded" ELSE IF running[c].stop THEN "failed" ELSE "partial"

LoopOver(c) ==
  Len(running[c].results) = BatchSize \/ (SomeFailed(c) /\ running[c].stop)

(* Mutant: the session is closed after a result, not in finally.           *)
ClosesAfterResult(c, status) ==
  running[c].op = "batch" /\ Of(c) \in registered /\ status # "thrown"

(* runBrowserBatch's finally block.                                        *)
ClosesOwn(c, status) == running[c].op = "batch" /\ Of(c) \in registered

(* closeSession: out of the map first, then await the close.               *)
StartClose(c, status) ==
  /\ registered' = registered \ {Of(c)}
  /\ closes' = [closes EXCEPT ![Of(c)] = @ + 1]
  /\ browser' = [browser EXCEPT ![Of(c)] = "closing"]
  /\ running' = [running EXCEPT ![c] = [@ EXCEPT !.step = "closing", !.results = <<>>,
                                                 !.status = status]]

(* The end of a batch: a result, which needs the page's title, or an       *)
(* exception; a result too large is an exception as well.                  *)
EndExecute(c) ==
  /\ In(c, "executing")
  /\ \E status \in {"thrown"}
        \cup (IF LoopOver(c) /\ browser[Of(c)] = "open" THEN {BatchStatus(c)} ELSE {})
        \cup (IF ~LoopOver(c) /\ browser[Of(c)] = "open" THEN {"cancelled"} ELSE {}) :
       IF ClosesOwn(c, status)
       THEN StartClose(c, status)
       ELSE Return(c, status) /\ UNCHANGED <<registered, browser, closes>>
  /\ UNCHANGED <<returned, raced>>

(* Mutant: the record leaves the map when the close is through.            *)
BeginCloseKeeping(c, s) ==
  /\ In(c, "idle")
  /\ s \in returned \cap registered
  /\ closes' = [closes EXCEPT ![s] = @ + 1]
  /\ browser' = [browser EXCEPT ![s] = "closing"]
  /\ running' = [running EXCEPT ![c] = [IdleCall EXCEPT !.op = "close", !.step = "closing",
                                                       !.session = s]]
  /\ UNCHANGED <<registered, returned, raced>>

(* closeBrowserSession on an id somebody was given.                        *)
BeginClose(c, s) ==
  /\ In(c, "idle")
  /\ s \in returned \cap registered
  /\ registered' = registered \ {s}
  /\ closes' = [closes EXCEPT ![s] = @ + 1]
  /\ browser' = [browser EXCEPT ![s] = "closing"]
  /\ running' = [running EXCEPT ![c] = [IdleCall EXCEPT !.op = "close", !.step = "closing",
                                                       !.session = s]]
  /\ UNCHANGED <<returned, raced>>

(* The browser is gone, or close threw and nobody has the record any more. *)
Closed(c) ==
  /\ In(c, "closing")
  /\ \E end \in {"closed", "leaked"} : browser' = [browser EXCEPT ![Of(c)] = end]
  /\ Return(c, running[c].status)
  /\ UNCHANGED <<registered, returned, closes, raced>>

Progress(c) == Opened(c) \/ OpenFails(c) \/ Perform(c) \/ EndExecute(c) \/ Closed(c)

SessionsNext ==
  \E c \in Callers :
    \/ \E s \in Sessions, op \in {"batch", "open"}, stop \in BOOLEAN : BeginOpen(c, s, op, stop)
    \/ \E s \in Sessions, stop \in BOOLEAN : BeginExecute(c, s, stop)
    \/ \E s \in Sessions : BeginClose(c, s)
    \/ Progress(c)

SessionsSpec == SessionsInit /\ [][SessionsNext]_sessionVars

-----------------------------------------------------------------------------
(* Properties                                                              *)

SessionsTypeOK ==
  /\ registered \subseteq Sessions /\ returned \subseteq Sessions
  /\ browser \in [Sessions -> {"none", "launching", "open", "closing", "closed", "leaked"}]
  /\ closes \in [Sessions -> Nat]
  /\ running \in [Callers -> [op : {"none", "batch", "open", "execute", "close"},
       step : Steps, session : Sessions \cup {NoSession}, stop : BOOLEAN,
       results : Seq({"succeeded", "failed"}), status : Ended]]
  /\ raced \in BOOLEAN

(* A browser is closed once, by one caller, although the end of a batch,   *)
(* closeBrowserSession and running batches may meet at one session.        *)
ClosedOnce ==
  \A s \in Sessions : closes[s] <= 1 /\ (s \in registered => closes[s] = 0)

(* Opened one at a time, sessions keep to the limit; opens that overlap    *)
(* exceed it by no more than the callers that were let through together.   *)
LimitKept ==
  /\ ~raced => Cardinality(registered) <= SessionLimit
  /\ Cardinality(registered) < SessionLimit + Cardinality(Callers)

(* A batch does not leave its session behind, however it ends.             *)
BatchClosesItsSession ==
  \A s \in Sessions :
    (\E c \in Callers : running[c].op = "batch" /\ In(c, "executing") /\ Of(c) = s)
      ~> browser[s] \in {"closed", "leaked"}
=============================================================================
