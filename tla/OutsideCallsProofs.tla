------------------------- MODULE OutsideCallsProofs -------------------------
(***************************************************************************)
(* What is proved of the calls that leave the process: browsers held open  *)
(* between calls, children that live for one call, and the connectors that *)
(* say what may be called.                                                 *)
(***************************************************************************)
EXTENDS BrowserSessions, ChildCalls, Connectors, FiniteSetTheorems, TLAPS

-----------------------------------------------------------------------------
(***************************************************************************)
(* Proofs about BrowserSessions, for any number of callers and sessions,   *)
(* any limit and any length of a batch.                                    *)
(*                                                                         *)
(* A session is in the manager's map exactly while its browser is open     *)
(* (MapIsExact), so whoever takes it out of the map is the only one to     *)
(* close it; and an id being opened belongs to one caller (OpensItsOwn).   *)
(* The limit counts the sessions in the map together with those about to   *)
(* enter it (Counted).                                                     *)
(***************************************************************************)

MapIsExact ==
  \A s \in Sessions :
    /\ s \in registered <=> browser[s] = "open"
    /\ browser[s] \in {"none", "launching", "open"} => closes[s] = 0
    /\ closes[s] <= 1

OpensItsOwn ==
  \A c \in Callers :
    /\ In(c, "opening") =>
         /\ Of(c) \in Sessions /\ browser[Of(c)] = "launching"
         /\ \A d \in Callers \ {c} : In(d, "opening") => Of(d) # Of(c)
    /\ In(c, "executing") => Of(c) \in Sessions /\ browser[Of(c)] \notin {"none", "launching"}
    /\ In(c, "closing") =>
         Of(c) \in Sessions /\ browser[Of(c)] \notin {"none", "launching", "open"}

CallRecord ==
  [op : {"none", "batch", "open", "execute", "close"}, step : Steps,
   session : Sessions \cup {NoSession}, stop : BOOLEAN,
   results : Seq({"succeeded", "failed"}), status : Ended]

Openers == {c \in Callers : In(c, "opening")}

Counted ==
  /\ Cardinality(registered) + Cardinality(Openers) < SessionLimit + Cardinality(Callers)
  /\ ~raced => Cardinality(registered) + Cardinality(Openers) <= SessionLimit

SessionsIInv == SessionsTypeOK /\ MapIsExact /\ OpensItsOwn /\ Counted

USE SessionsAssumption DEF SessionsAssumption

-----------------------------------------------------------------------------
LEMMA SessionsInitIInv == SessionsInit => SessionsIInv
<1> SUFFICES ASSUME SessionsInit PROVE SessionsIInv
  OBVIOUS
<1>1. IdleCall \in CallRecord
  BY DEF IdleCall, CallRecord, Steps, Ended
<1>2. SessionsTypeOK
  BY <1>1 DEF SessionsInit, SessionsTypeOK, CallRecord
<1>3. \A c \in Callers : running[c].step = "idle"
  BY DEF SessionsInit, IdleCall
<1>4. MapIsExact /\ OpensItsOwn
  BY <1>3 DEF SessionsInit, MapIsExact, OpensItsOwn, In
<1>5. Openers = {} /\ registered = {} /\ Cardinality({}) = 0
  BY <1>3, FS_EmptySet DEF Openers, In, SessionsInit
<1>6. Cardinality(Callers) \in Nat /\ Cardinality(Callers) # 0
  BY FS_CardinalityType, FS_EmptySet
<1>7. Counted
  BY <1>5, <1>6 DEF Counted
<1>8. QED
  BY <1>2, <1>4, <1>7 DEF SessionsIInv

(* What a step does to the two sets that are counted.                      *)
LEMMA CountedFacts ==
  ASSUME SessionsTypeOK
  PROVE  /\ IsFiniteSet(registered) /\ IsFiniteSet(Openers)
         /\ Cardinality(registered) \in Nat /\ Cardinality(Openers) \in Nat
         /\ Cardinality(Callers) \in Nat /\ Cardinality(Openers) <= Cardinality(Callers)
  BY FS_Subset, FS_CardinalityType DEF SessionsTypeOK, Openers

LEMMA StillCounted ==
  ASSUME SessionsTypeOK, Counted, registered' \subseteq registered, Openers' \subseteq Openers,
         UNCHANGED raced
  PROVE  Counted'
<1>1. Cardinality(registered') <= Cardinality(registered) /\ Cardinality(registered') \in Nat
  BY CountedFacts, FS_Subset, FS_CardinalityType
<1>2. Cardinality(Openers') <= Cardinality(Openers) /\ Cardinality(Openers') \in Nat
  BY CountedFacts, FS_Subset, FS_CardinalityType
<1>3. QED
  BY <1>1, <1>2, CountedFacts DEF Counted

(* A step of one caller moves that caller's record alone.                  *)
LEMMA OneCallMoves ==
  ASSUME SessionsTypeOK, NEW c \in Callers, NEW next \in CallRecord,
         running' = [running EXCEPT ![c] = next]
  PROVE  /\ running' \in [Callers -> CallRecord]
         /\ running'[c] = next /\ \A d \in Callers \ {c} : running'[d] = running[d]
         /\ Openers' = IF next.step = "opening" THEN Openers \cup {c} ELSE Openers \ {c}
  BY DEF SessionsTypeOK, CallRecord, Openers, In

LEMMA ReturnRecord ==
  ASSUME NEW status \in Ended
  PROVE  /\ [IdleCall EXCEPT !.status = status] \in CallRecord
         /\ [IdleCall EXCEPT !.status = status].step = "idle"
<1>1. IdleCall \in CallRecord
  BY DEF IdleCall, CallRecord, Steps, Ended
<1>2. ASSUME NEW r \in CallRecord
      PROVE  /\ [r EXCEPT !.status = status] \in CallRecord
             /\ [r EXCEPT !.status = status].step = r.step
  BY DEF CallRecord
<1>3. IdleCall.step = "idle"
  BY DEF IdleCall
<1>4. QED
  BY <1>1, <1>2, <1>3

(* Steps that leave the map, the browsers and the counts alone, ...        *)
LEMMA OnlyTheCallMoves ==
  ASSUME SessionsIInv, NEW c \in Callers, NEW next \in CallRecord,
         running' = [running EXCEPT ![c] = next],
         returned' \subseteq Sessions, UNCHANGED <<registered, browser, closes, raced>>,
         \/ next.step = "idle"
         \/ /\ next.step = "executing" /\ next.session \in Sessions
            /\ browser[next.session] \notin {"none", "launching"}
  PROVE  SessionsIInv'
<1>0. SessionsTypeOK /\ raced \in BOOLEAN
  BY DEF SessionsIInv, SessionsTypeOK
<1>a. SessionsTypeOK'
  BY <1>0, OneCallMoves DEF SessionsTypeOK, CallRecord
<1>b. MapIsExact'
  BY DEF SessionsIInv, MapIsExact
<1>1. SessionsTypeOK' /\ MapIsExact'
  BY <1>a, <1>b
<1>2. OpensItsOwn'
  BY OneCallMoves DEF SessionsIInv, OpensItsOwn, In, Of
<1>n. next.step # "opening"
  OBVIOUS
<1>m. Openers' = Openers \ {c}
  BY <1>0, <1>n, OneCallMoves
<1>c. Openers' \subseteq Openers
  BY <1>m
<1>3. Counted'
  BY <1>c, StillCounted DEF SessionsIInv
<1>4. QED
  BY <1>1, <1>2, <1>3 DEF SessionsIInv

(* ... steps that take a session out of the map to close it, ...           *)
LEMMA ClosesFirst ==
  ASSUME SessionsIInv, NEW c \in Callers, NEW s \in registered, NEW next \in CallRecord,
         running' = [running EXCEPT ![c] = next], next.step = "closing", next.session = s,
         registered' = registered \ {s}, closes' = [closes EXCEPT ![s] = @ + 1],
         browser' = [browser EXCEPT ![s] = "closing"], UNCHANGED <<returned, raced>>
  PROVE  SessionsIInv'
<1>1. s \in Sessions /\ browser[s] = "open" /\ closes[s] = 0
  BY DEF SessionsIInv, SessionsTypeOK, MapIsExact
<1>t. SessionsTypeOK
  BY DEF SessionsIInv
<1>a. running' \in [Callers -> CallRecord]
  BY <1>t DEF SessionsTypeOK, CallRecord
<1>b. /\ closes' \in [Sessions -> Nat]
      /\ browser' \in [Sessions -> {"none", "launching", "open", "closing", "closed", "leaked"}]
  BY <1>1, <1>t DEF SessionsTypeOK
<1>2. SessionsTypeOK'
  BY <1>a, <1>b, <1>t DEF SessionsTypeOK, CallRecord
<1>3. MapIsExact'
  BY <1>1 DEF SessionsIInv, SessionsTypeOK, MapIsExact
<1>4. OpensItsOwn'
  BY <1>1, OneCallMoves DEF SessionsIInv, SessionsTypeOK, OpensItsOwn, In, Of
<1>c. Openers' = Openers \ {c}
  BY <1>t, OneCallMoves
<1>5. Counted'
  BY <1>t, <1>c, StillCounted DEF SessionsIInv
<1>6. QED
  BY <1>2, <1>3, <1>4, <1>5 DEF SessionsIInv

(* ... and those after which a browser nobody opens or has open is over.   *)
LEMMA BrowserOver ==
  ASSUME SessionsIInv, NEW c \in Callers, NEW end \in {"closed", "leaked"},
         NEW status \in Ended, Return(c, status), In(c, "opening") \/ In(c, "closing"),
         browser' = [browser EXCEPT ![Of(c)] = end],
         UNCHANGED <<registered, returned, closes, raced>>
  PROVE  SessionsIInv'
<1> DEFINE next == [IdleCall EXCEPT !.status = status]
<1>1. running' = [running EXCEPT ![c] = next] /\ next \in CallRecord /\ next.step = "idle"
  BY ReturnRecord DEF Return
<1> HIDE DEF next
<1>2. Of(c) \in Sessions /\ browser[Of(c)] \notin {"none", "open"}
  BY DEF SessionsIInv, OpensItsOwn
<1>t. SessionsTypeOK
  BY DEF SessionsIInv
<1>a. running' \in [Callers -> CallRecord]
  BY <1>1, <1>t DEF SessionsTypeOK, CallRecord
<1>b. browser' \in [Sessions -> {"none", "launching", "open", "closing", "closed", "leaked"}]
  BY <1>2, <1>t DEF SessionsTypeOK
<1>3. SessionsTypeOK'
  BY <1>a, <1>b, <1>t DEF SessionsTypeOK, CallRecord
<1>4. MapIsExact'
  BY <1>2 DEF SessionsIInv, SessionsTypeOK, MapIsExact
<1>5. \A d \in Callers \ {c} : In(d, "opening") => Of(d) # Of(c)
  BY DEF SessionsIInv, OpensItsOwn
<1>6. OpensItsOwn'
  BY <1>1, <1>2, <1>5, OneCallMoves DEF SessionsIInv, SessionsTypeOK, OpensItsOwn, In, Of
<1>c. Openers' = Openers \ {c}
  BY <1>1, <1>t, OneCallMoves
<1>7. Counted'
  BY <1>t, <1>c, StillCounted DEF SessionsIInv
<1>8. QED
  BY <1>3, <1>4, <1>6, <1>7 DEF SessionsIInv

LEMMA SessionsStepIInv == SessionsIInv /\ [SessionsNext]_sessionVars => SessionsIInv'
<1> SUFFICES ASSUME SessionsIInv, [SessionsNext]_sessionVars PROVE SessionsIInv'
  OBVIOUS
<1>t. SessionsTypeOK /\ MapIsExact /\ OpensItsOwn /\ Counted
  BY DEF SessionsIInv
<1>r. running \in [Callers -> CallRecord] /\ returned \subseteq Sessions
  BY <1>t DEF SessionsTypeOK, CallRecord
<1>1. ASSUME NEW c \in Callers, NEW s \in Sessions, NEW op \in {"batch", "open"},
             NEW stop \in BOOLEAN, BeginOpen(c, s, op, stop)
      PROVE  SessionsIInv'
  <2> DEFINE next == [op |-> op, step |-> "opening", session |-> s, stop |-> stop,
                      results |-> <<>>, status |-> "none"]
  <2>1. /\ In(c, "idle") /\ Cardinality(registered) < SessionLimit /\ browser[s] = "none"
        /\ running' = [running EXCEPT ![c] = next]
        /\ browser' = [browser EXCEPT ![s] = "launching"]
        /\ raced' = (raced \/ \E d \in Callers : In(d, "opening"))
        /\ UNCHANGED <<registered, returned, closes>>
    BY <1>1 DEF BeginOpen, BelowLimit, Fresh
  <2>2. next \in CallRecord /\ next.step = "opening" /\ next.session = s
    BY DEF CallRecord, Steps, Ended
  <2> HIDE DEF next
  <2>3. raced' \in BOOLEAN
    BY <2>1, <1>t DEF SessionsTypeOK
  <2>4. SessionsTypeOK'
    BY <2>1, <2>2, <2>3, <1>t, OneCallMoves DEF SessionsTypeOK, CallRecord
  <2>5. MapIsExact'
    BY <2>1, <1>t DEF SessionsTypeOK, MapIsExact
  <2>6. OpensItsOwn'
    BY <2>1, <2>2, <1>t, OneCallMoves DEF SessionsTypeOK, OpensItsOwn, In, Of
  <2>7. c \notin Openers /\ Openers' = Openers \cup {c} /\ Openers' \subseteq Callers
    BY <2>1, <2>2, <1>t, OneCallMoves DEF Openers, In
  <2>8. /\ Cardinality(Openers') = Cardinality(Openers) + 1
        /\ Cardinality(Openers') <= Cardinality(Callers)
    BY <2>7, <1>t, CountedFacts, FS_AddElement, FS_Subset
  <2>9. ~raced' => Cardinality(Openers) = 0
    BY <2>1, FS_EmptySet DEF Openers
  <2>10. Counted'
    BY <2>1, <2>8, <2>9, <1>t, CountedFacts DEF Counted
  <2>11. QED
    BY <2>4, <2>5, <2>6, <2>10 DEF SessionsIInv
<1>2. ASSUME NEW c \in Callers, NEW s \in Sessions, NEW stop \in BOOLEAN,
             BeginExecute(c, s, stop)
      PROVE  SessionsIInv'
  <2> DEFINE next == [op |-> "execute", step |-> "executing", session |-> s, stop |-> stop,
                      results |-> <<>>, status |-> "none"]
  <2>1. /\ s \in registered /\ running' = [running EXCEPT ![c] = next]
        /\ UNCHANGED <<registered, browser, returned, closes, raced>>
    BY <1>2 DEF BeginExecute
  <2>2. next \in CallRecord /\ next.step = "executing" /\ next.session = s
    BY DEF CallRecord, Steps, Ended
  <2> HIDE DEF next
  <2>3. browser[next.session] \notin {"none", "launching"}
    BY <2>1, <2>2, <1>t DEF MapIsExact
  <2>4. QED
    BY <2>1, <2>2, <2>3, <1>r, OnlyTheCallMoves
<1>3. ASSUME NEW c \in Callers, NEW s \in Sessions, BeginClose(c, s) PROVE SessionsIInv'
  <2> DEFINE next == [IdleCall EXCEPT !.op = "close", !.step = "closing", !.session = s]
  <2>1. IdleCall \in CallRecord
    BY DEF IdleCall, CallRecord, Steps, Ended
  <2>2. next \in CallRecord /\ next.step = "closing" /\ next.session = s
    BY <2>1 DEF CallRecord, Steps
  <2>3. /\ s \in registered /\ running' = [running EXCEPT ![c] = next]
        /\ registered' = registered \ {s} /\ closes' = [closes EXCEPT ![s] = @ + 1]
        /\ browser' = [browser EXCEPT ![s] = "closing"] /\ UNCHANGED <<returned, raced>>
    BY <1>3 DEF BeginClose
  <2> HIDE DEF next
  <2>4. QED
    BY <2>2, <2>3, ClosesFirst
<1>4. ASSUME NEW c \in Callers, Opened(c) PROVE SessionsIInv'
  <2>1. PICK next \in CallRecord :
          /\ running' = [running EXCEPT ![c] = next]
          /\ \/ next.step = "idle"
             \/ next.step = "executing" /\ next.session = Of(c)
    <3>1. CASE running[c].op = "batch"
      <4>1. running' = [running EXCEPT ![c] = [running[c] EXCEPT !.step = "executing"]]
        BY <1>4, <1>r, <3>1 DEF Opened
      <4>2. [running[c] EXCEPT !.step = "executing"] \in CallRecord
        BY <1>r DEF CallRecord, Steps
      <4>3. [running[c] EXCEPT !.step = "executing"].step = "executing"
            /\ [running[c] EXCEPT !.step = "executing"].session = Of(c)
        BY <1>r DEF CallRecord, Of
      <4>4. QED
        BY <4>1, <4>2, <4>3
    <3>2. CASE running[c].op # "batch"
      BY <1>4, <3>2, ReturnRecord DEF Opened, Return, Ended
    <3>3. QED
      BY <3>1, <3>2
  <2>2. /\ In(c, "opening") /\ browser' = [browser EXCEPT ![Of(c)] = "open"]
        /\ registered' = registered \cup {Of(c)} /\ UNCHANGED <<closes, raced>>
    BY <1>4 DEF Opened
  <2>3. Of(c) \in Sessions /\ browser[Of(c)] = "launching" /\ Of(c) \notin registered
        /\ \A d \in Callers \ {c} : In(d, "opening") => Of(d) # Of(c)
    BY <2>2, <1>t DEF OpensItsOwn, MapIsExact
  <2>4. returned' \subseteq Sessions
    BY <1>4, <1>r, <2>3 DEF Opened
  <2>5. SessionsTypeOK'
    BY <2>1, <2>2, <2>3, <2>4, <1>t, OneCallMoves DEF SessionsTypeOK, CallRecord
  <2>6. MapIsExact'
    BY <2>2, <2>3, <1>t DEF SessionsTypeOK, MapIsExact
  <2>7. OpensItsOwn'
    BY <2>1, <2>2, <2>3, <1>t, OneCallMoves DEF SessionsTypeOK, OpensItsOwn, In, Of
  <2>8. c \in Openers /\ Openers' = Openers \ {c}
    BY <2>1, <2>2, <1>t, OneCallMoves DEF Openers
  <2>9. /\ Cardinality(Openers') = Cardinality(Openers) - 1
        /\ Cardinality(registered') = Cardinality(registered) + 1
    BY <2>2, <2>3, <2>8, <1>t, CountedFacts, FS_AddElement, FS_RemoveElement
  <2>10. Counted'
    BY <2>2, <2>9, <1>t, CountedFacts DEF Counted
  <2>11. QED
    BY <2>5, <2>6, <2>7, <2>10 DEF SessionsIInv
<1>5. ASSUME NEW c \in Callers, OpenFails(c) PROVE SessionsIInv'
  BY <1>5, BrowserOver DEF OpenFails, Ended
<1>6. ASSUME NEW c \in Callers, Perform(c) PROVE SessionsIInv'
  <2>1. PICK ending \in {"failed", "succeeded"} :
          running' = [running EXCEPT ![c].results = Append(@, ending)]
    BY <1>6 DEF Perform
  <2> DEFINE next == [running[c] EXCEPT !.results = Append(@, ending)]
  <2>2. running' = [running EXCEPT ![c] = next]
    BY <2>1, <1>r
  <2>a. running[c] \in CallRecord /\ running[c].results \in Seq({"succeeded", "failed"})
    BY <1>r DEF CallRecord
  <2>b. Append(running[c].results, ending) \in Seq({"succeeded", "failed"})
    BY <2>a
  <2>3. next \in CallRecord /\ next.step = running[c].step /\ next.session = Of(c)
    BY <2>a, <2>b DEF CallRecord, Of
  <2> HIDE DEF next
  <2>4. /\ In(c, "executing") /\ UNCHANGED <<registered, browser, returned, closes, raced>>
    BY <1>6 DEF Perform
  <2>5. next.step = "executing" /\ Of(c) \in Sessions
        /\ browser[Of(c)] \notin {"none", "launching"}
    BY <2>3, <2>4, <1>t DEF In, OpensItsOwn
  <2>6. QED
    BY <2>2, <2>3, <2>4, <2>5, <1>r, OnlyTheCallMoves
<1>7. ASSUME NEW c \in Callers, EndExecute(c) PROVE SessionsIInv'
  <2>1. PICK status \in Ended :
          /\ IF ClosesOwn(c, status)
             THEN StartClose(c, status)
             ELSE Return(c, status) /\ UNCHANGED <<registered, browser, closes>>
          /\ In(c, "executing") /\ UNCHANGED <<returned, raced>>
    BY <1>7 DEF EndExecute, Ended, BatchStatus
  <2>2. CASE ClosesOwn(c, status)
    <3> DEFINE next == [running[c] EXCEPT !.step = "closing", !.results = <<>>, !.status = status]
    <3>1. StartClose(c, status) /\ Of(c) \in registered
      BY <2>1, <2>2 DEF ClosesOwn
    <3>2. running' = [running EXCEPT ![c] = next]
      BY <3>1, <1>r DEF StartClose
    <3>a. running[c] \in CallRecord /\ <<>> \in Seq({"succeeded", "failed"})
      BY <1>r
    <3>3. next \in CallRecord /\ next.step = "closing" /\ next.session = Of(c)
      BY <3>a DEF CallRecord, Steps, Of
    <3> HIDE DEF next
    <3>4. QED
      BY <2>1, <3>1, <3>2, <3>3, ClosesFirst DEF StartClose
  <2>3. CASE ~ClosesOwn(c, status)
    BY <2>1, <2>3, <1>r, ReturnRecord, OnlyTheCallMoves DEF Return
  <2>4. QED
    BY <2>2, <2>3
<1>8. ASSUME NEW c \in Callers, Closed(c) PROVE SessionsIInv'
  <2>1. running[c].status \in Ended
    BY <1>r DEF CallRecord
  <2>2. QED
    BY <1>8, <2>1, BrowserOver DEF Closed
<1>9. CASE UNCHANGED sessionVars
  <2>1. UNCHANGED <<registered, browser, returned, closes, running, raced>>
    BY <1>9 DEF sessionVars
  <2>2. QED
    BY <2>1, <1>t DEF SessionsIInv, SessionsTypeOK, MapIsExact, OpensItsOwn, Counted, Openers,
       In, Of
<1>10. QED
  BY <1>1, <1>2, <1>3, <1>4, <1>5, <1>6, <1>7, <1>8, <1>9 DEF SessionsNext, Progress

(* Types are kept (runtime.ts, browser-backend.ts).                        *)
THEOREM SessionsAreTyped == SessionsSpec => []SessionsTypeOK
<1>1. SessionsIInv => SessionsTypeOK
  BY DEF SessionsIInv
<1>2. QED
  BY <1>1, SessionsInitIInv, SessionsStepIInv, PTL DEF SessionsSpec

(* However batches, closes and opens overlap, close is called on a browser *)
(* at most once, and never on one that is still in the map                 *)
(* (browser-backend.ts closeSession).                                      *)
THEOREM BrowsersAreClosedOnce == SessionsSpec => []ClosedOnce
<1>1. SessionsIInv => ClosedOnce
  BY DEF SessionsIInv, MapIsExact, ClosedOnce
<1>2. QED
  BY <1>1, SessionsInitIInv, SessionsStepIInv, PTL DEF SessionsSpec

(* The limit on sessions is exceeded only by opens that were let through   *)
(* while another was launching, and by fewer than there are callers        *)
(* (runtime.ts openBrowserSession).                                        *)
THEOREM TheLimitIsKept == SessionsSpec => []LimitKept
<1>1. SessionsIInv => LimitKept
  BY CountedFacts DEF SessionsIInv, Counted, LimitKept
<1>2. QED
  BY <1>1, SessionsInitIInv, SessionsStepIInv, PTL DEF SessionsSpec
HIDE SessionsAssumption DEF SessionsAssumption

-----------------------------------------------------------------------------
(***************************************************************************)
(* Proofs about ChildCalls, for batches of any length and any set of       *)
(* children that ignore SIGTERM.                                           *)
(*                                                                         *)
(* The outcome speaks of a worker the caller does not see.  InStep relates *)
(* what was done to what the worker reports; Relayed says that a bridge    *)
(* answers only with its worker's answer, after which nothing is done; and *)
(* Signalled that the first cause of an early end has reached the worker.  *)
(***************************************************************************)

(* What the worker reports is what it did.                                 *)
InStep ==
  /\ Len(results) <= BatchLength
  /\ Len(acted) <= Len(results)
  /\ SomeActionFailed => Len(acted) < Len(results)
  /\ ~SomeActionFailed => acted = [i \in 1..Len(results) |-> i]

Relayed ==
  /\ child = "reading" => worker = "none"
  /\ Bridge /\ child = "answered" => worker = "answered"

BeforeTheCall ==
  stage = "idle" => flags = {} /\ child = "none" /\ worker = "none" /\ outcome = "none"

Signalled ==
  request.kind \in Grouped \ Stubborn /\ flags \cap Causes # {}
    => child \in Exited /\ worker \in Exited

(* The caller is answered at the end, and by a first-party bridge with     *)
(* more than an exception only when its worker has answered.               *)
Settled ==
  /\ outcome # "none" => stage = "returned"
  /\ request.kind \in FirstParty /\ outcome \in {"succeeded", "failed", "partial"} =>
       worker = "answered" /\ OutcomeIsTrue

ChildIInv == ChildTypeOK /\ InStep /\ Relayed /\ BeforeTheCall /\ Signalled /\ Settled

USE ChildAssumption DEF ChildAssumption

LEMMA ChildInitIInv == ChildInit => ChildIInv
<1> SUFFICES ASSUME ChildInit PROVE ChildIInv
  OBVIOUS
<1>1. ChildTypeOK
  <2>1. results \in Seq({"succeeded", "failed"}) /\ acted \in Seq(1..BatchLength)
    BY DEF ChildInit
  <2>2. request \in [kind : CallKinds, stop : BOOLEAN]
    BY DEF ChildInit, CallKinds
  <2>3. forced \in BOOLEAN
    BY DEF ChildInit
  <2>4. QED
    BY <2>1, <2>2, <2>3 DEF ChildInit, ChildTypeOK, Exited
<1>2. InStep /\ Relayed /\ BeforeTheCall /\ Signalled /\ Settled
  BY DEF ChildInit, InStep, SomeActionFailed, Relayed, BeforeTheCall, Signalled, Settled,
     Bridge, Bridged, FirstParty, Grouped
<1>3. QED
  BY <1>1, <1>2 DEF ChildIInv

(* A worker goes through the batch in order.                               *)
LEMMA AttemptInStep ==
  ASSUME ChildTypeOK, InStep, Attempt
  PROVE  /\ InStep'
         /\ results' \in Seq({"succeeded", "failed"}) /\ acted' \in Seq(1..BatchLength)
<1> DEFINE n == Len(results)
<1>1. n \in Nat /\ n < BatchLength /\ Len(acted) \in Nat
      /\ results \in Seq({"succeeded", "failed"}) /\ acted \in Seq(1..BatchLength)
  BY DEF Attempt, AllTried, ChildTypeOK, InStep
<1>2. CASE results' = Append(results, "succeeded") /\ acted' = Append(acted, n + 1)
  <2>1. /\ results' \in Seq({"succeeded", "failed"}) /\ acted' \in Seq(1..BatchLength)
        /\ Len(results') = n + 1 /\ Len(acted') = Len(acted) + 1
    BY <1>1, <1>2
  <2>2. SomeActionFailed' => SomeActionFailed
    BY <1>1, <1>2, <2>1 DEF SomeActionFailed
  <2>3. SomeActionFailed => SomeActionFailed'
    BY <1>1, <1>2, <2>1 DEF SomeActionFailed
  <2>4. ~SomeActionFailed => acted' = [i \in 1..n + 1 |-> i]
    BY <1>1, <1>2, <2>1 DEF InStep
  <2>5. QED
    BY <1>1, <2>1, <2>2, <2>3, <2>4 DEF InStep
<1>3. CASE results' = Append(results, "failed") /\ UNCHANGED acted
  <2>1. /\ results' \in Seq({"succeeded", "failed"})
        /\ Len(results') = n + 1 /\ results'[n + 1] = "failed"
    BY <1>1, <1>3
  <2>2. SomeActionFailed'
    BY <1>1, <2>1 DEF SomeActionFailed
  <2>3. QED
    BY <1>1, <1>3, <2>1, <2>2 DEF InStep
<1>4. QED
  BY <1>2, <1>3 DEF Attempt

(* SIGKILL, and SIGTERM to those that obey it.                             *)
LEMMA KillEnds ==
  ASSUME ChildTypeOK, Kill
  PROVE  /\ child' \in Exited /\ (child' = "answered" => child = "answered")
         /\ worker' \in Exited \cup {worker} /\ (worker = "answered" => worker' = "answered")
         /\ worker = "none" => worker' = "none"
         /\ request.kind \in Grouped => worker' \in Exited
  BY DEF Kill, ReachesWorker, Exited

LEMMA TerminatedEnds ==
  ASSUME ChildTypeOK, Terminated
  PROVE  /\ child' \in Exited \cup {child} /\ (child' = "answered" => child = "answered")
         /\ worker' \in Exited \cup {worker} /\ (worker = "answered" => worker' = "answered")
         /\ worker = "none" => worker' = "none"
         /\ request.kind \in Grouped \ Stubborn => child' \in Exited /\ worker' \in Exited
<1>1. CASE Kill
  BY <1>1, KillEnds DEF Exited
<1>2. CASE request.kind \in Stubborn /\ ~Kill
  BY <1>2 DEF Terminated, ReachesWorker, Exited
<1>3. QED
  BY <1>1, <1>2 DEF Terminated

(* Steps that leave the batch, the request and the outcome alone.          *)
LEMMA QuietStep ==
  ASSUME ChildIInv, UNCHANGED <<request, stage, results, acted, outcome>>, stage # "idle",
         flags' \subseteq {"spawn", "timeout", "abort", "output", "stdin"}, forced' \in BOOLEAN,
         {child', worker'} \subseteq Exited \cup {"reading", "waiting", "alive"},
         stage = "running" \/ UNCHANGED flags, worker = "answered" => worker' = "answered",
         Relayed', Signalled'
  PROVE  ChildIInv'
<1>1. ChildTypeOK'
  BY DEF ChildIInv, ChildTypeOK
<1>2. InStep' /\ BeforeTheCall'
  BY DEF ChildIInv, InStep, SomeActionFailed, BeforeTheCall
<1>3. Settled'
  BY DEF ChildIInv, Settled, OutcomeIsTrue, FirstParty
<1>4. QED
  BY <1>1, <1>2, <1>3 DEF ChildIInv

LEMMA ChildStepIInv == ChildIInv /\ [ChildNext]_childVars => ChildIInv'
<1> SUFFICES ASSUME ChildIInv, [ChildNext]_childVars PROVE ChildIInv'
  OBVIOUS
<1>t. ChildTypeOK /\ InStep /\ Relayed /\ BeforeTheCall /\ Signalled /\ Settled
  BY DEF ChildIInv
<1>k. FirstParty \subseteq Bridged
  BY DEF Bridged
<1>1. ASSUME NEW c \in CallKinds, NEW stop \in BOOLEAN, Spawn(c, stop) PROVE ChildIInv'
  <2>1. ChildTypeOK'
    BY <1>1, <1>t DEF Spawn, ChildTypeOK, Exited, BeforeTheCall
  <2>2. InStep'
    BY <1>1, <1>t DEF Spawn, InStep, SomeActionFailed
  <2>3. Relayed' /\ BeforeTheCall' /\ Signalled' /\ Settled'
    BY <1>1, <1>t DEF Spawn, Relayed, BeforeTheCall, Signalled, Settled, Causes, BridgeCauses,
       AdapterCauses, Exited
  <2>4. QED
    BY <2>1, <2>2, <2>3 DEF ChildIInv
<1>0. ASSUME NEW c \in CallKinds, NEW stop \in BOOLEAN, Reject(c, stop) PROVE ChildIInv'
  <2>1. ChildTypeOK'
    BY <1>0, <1>t DEF Reject, ChildTypeOK
  <2>2. InStep'
    BY <1>0, <1>t DEF Reject, InStep, SomeActionFailed
  <2>3. Relayed' /\ BeforeTheCall' /\ Signalled' /\ Settled'
    BY <1>0, <1>t DEF Reject, Relayed, BeforeTheCall, Signalled, Settled, Causes, BridgeCauses,
       AdapterCauses, Exited
  <2>4. QED
    BY <2>1, <2>2, <2>3 DEF ChildIInv
<1>2. CASE ReadEnvelope
  <2>1. child = "reading" /\ worker = "none" /\ stage # "idle" /\ Bridge
    BY <1>2, <1>t DEF ReadEnvelope, BeforeTheCall, Relayed
  <2>2. QED
    BY <1>2, <2>1, <1>t, QuietStep
       DEF ReadEnvelope, ChildTypeOK, Relayed, Bridge, Signalled, Causes, Exited
<1>3. CASE WorkerEnds
  BY <1>3, <1>t, QuietStep
     DEF WorkerEnds, ChildTypeOK, BeforeTheCall, Relayed, Bridge, Signalled, Causes, Exited
<1>4. CASE BridgeTimer
  BY <1>4, <1>t, QuietStep
     DEF BridgeTimer, ChildTypeOK, BeforeTheCall, Relayed, Bridge, Signalled, Causes, Exited
<1>5. CASE BridgeEnds
  BY <1>5, <1>t, QuietStep
     DEF BridgeEnds, ChildTypeOK, BeforeTheCall, Relayed, Bridge, Signalled, Causes, Exited
<1>6. CASE AdapterEnds
  BY <1>6, <1>t, QuietStep
     DEF AdapterEnds, ChildTypeOK, BeforeTheCall, Relayed, Bridge, Signalled, Causes, Exited
<1>7. CASE ChildDies
  BY <1>7, <1>t, QuietStep
     DEF ChildDies, ChildTypeOK, BeforeTheCall, Relayed, Bridge, Signalled, Causes, Exited
<1>8. ASSUME NEW cause \in {"timeout", "abort", "output", "stdin"}, Disturb(cause)
      PROVE  ChildIInv'
  <2>1. /\ stage = "running" /\ flags' = flags \cup {cause} /\ cause \in Causes
        /\ UNCHANGED <<request, stage, forced, results, acted, outcome>>
    BY <1>8 DEF Disturb
  <2>2. flags \cap Causes = {} => Terminated
    BY <1>8 DEF Disturb
  <2>3. /\ {child', worker'} \subseteq Exited \cup {"reading", "waiting", "alive"}
        /\ (child' = "answered" => child = "answered") /\ (child' = "reading" => child = "reading")
        /\ (worker = "answered" => worker' = "answered") /\ (worker = "none" => worker' = "none")
    BY <1>8, <1>t, TerminatedEnds DEF Disturb, ChildTypeOK, Exited
  <2>4. Relayed'
    BY <2>1, <2>3, <1>t DEF Relayed, Bridge
  <2>5. Signalled'
    <3>1. CASE flags \cap Causes = {}
      BY <2>1, <2>2, <3>1, <1>t, TerminatedEnds DEF Signalled
    <3>2. CASE flags \cap Causes # {}
      <4>1. request.kind \in Grouped \ Stubborn => Bridge
        BY DEF Grouped, Bridge, Bridged, FirstParty
      <4>2. Bridge => UNCHANGED <<child, worker>>
        BY <1>8, <3>2 DEF Disturb
      <4>3. QED
        BY <2>1, <3>2, <4>1, <4>2, <1>t DEF Signalled
    <3>3. QED
      BY <3>1, <3>2
  <2>6. flags' \subseteq {"spawn", "timeout", "abort", "output", "stdin"} /\ forced' \in BOOLEAN
    BY <2>1, <1>t DEF ChildTypeOK
  <2>7. QED
    BY <2>1, <2>3, <2>4, <2>5, <2>6, QuietStep
<1>9. CASE AtspiAction \/ UiaAction \/ JxaAction \/ ForeignAction
  <2>1. Attempt /\ stage # "idle"
    BY <1>9, <1>t DEF AtspiAction, UiaAction, JxaAction, ForeignAction, BeforeTheCall
  <2>2. UNCHANGED <<request, stage, flags, forced, child, worker, outcome>>
    BY <2>1 DEF Attempt
  <2>3. request.kind \in FirstParty => worker = "alive"
    BY <1>9 DEF AtspiAction, UiaAction, JxaAction, ForeignAction, FirstParty
  <2>4. InStep' /\ ChildTypeOK'
    BY <2>1, <2>2, <1>t, AttemptInStep DEF ChildTypeOK
  <2>5. Relayed' /\ BeforeTheCall' /\ Signalled' /\ Settled'
    BY <2>1, <2>2, <2>3, <1>t
       DEF Relayed, Bridge, BeforeTheCall, Signalled, Causes, Settled
  <2>6. QED
    BY <2>4, <2>5 DEF ChildIInv
<1>10. CASE ForceKill
  <2>1. /\ stage = "running" /\ forced' = TRUE /\ Kill
        /\ UNCHANGED <<request, stage, flags, results, acted, outcome>>
    BY <1>10 DEF ForceKill
  <2>2. Relayed' /\ Signalled'
    BY <2>1, <1>t, KillEnds DEF Relayed, Bridge, Signalled, Causes, Exited
  <2>3. QED
    BY <2>1, <2>2, <1>t, KillEnds, QuietStep DEF ChildTypeOK
<1>11. CASE Close
  <2>1. /\ stage = "running" /\ stage' = "returned"
        /\ outcome' \in IF Bridge THEN BridgeAnswer ELSE AdapterAnswer
        /\ UNCHANGED <<request, flags, forced, child, worker, results, acted>>
    BY <1>11 DEF Close
  <2>2. outcome' \in {"none", "succeeded", "failed", "partial", "output", "thrown"}
    BY <2>1 DEF BridgeAnswer, AdapterAnswer, Reported, WorkerStatus
  <2>3. ChildTypeOK' /\ InStep' /\ Relayed' /\ BeforeTheCall' /\ Signalled'
    BY <2>1, <2>2, <1>t DEF ChildTypeOK, InStep, SomeActionFailed, Relayed, Bridge,
       BeforeTheCall, Signalled, Causes
  <2>4. ASSUME request.kind \in FirstParty, outcome' \in {"succeeded", "failed", "partial"}
        PROVE  worker' = "answered" /\ OutcomeIsTrue'
    <3>1. Bridge /\ request.kind # "foreign"
      BY <2>4, <1>k DEF Bridge, FirstParty
    <3>2. flags = {} /\ child = "answered" /\ outcome' \in Reported(WorkerStatus)
      BY <2>1, <2>4, <3>1 DEF BridgeAnswer
    <3>3. outcome' = WorkerStatus /\ (WorkerStatus = "succeeded" => AllTried)
      BY <2>4, <3>1, <3>2 DEF Reported
    <3>4. Len(acted) \in Nat /\ Len(results) \in Nat /\ (Len(acted) = 0 => acted = <<>>)
      BY <1>t DEF ChildTypeOK
    <3>5. OutcomeIsTrue'
      BY <2>1, <3>2, <3>3, <3>4, <1>t DEF OutcomeIsTrue, WorkerStatus, AllTried, InStep
    <3>6. QED
      BY <2>1, <3>1, <3>2, <3>5, <1>t DEF Relayed
  <2>5. QED
    BY <2>1, <2>3, <2>4 DEF ChildIInv, Settled
<1>12. CASE UNCHANGED childVars
  <2>1. UNCHANGED <<request, stage, flags, forced, child, worker, results, acted, outcome>>
    BY <1>12 DEF childVars
  <2>2. ChildTypeOK' /\ InStep' /\ Relayed' /\ BeforeTheCall' /\ Signalled'
    BY <2>1, <1>t DEF ChildTypeOK, InStep, SomeActionFailed, Relayed, Bridge,
       BeforeTheCall, Signalled, Causes
  <2>3. Settled'
    BY <2>1, <1>t DEF Settled, OutcomeIsTrue
  <2>4. QED
    BY <2>2, <2>3 DEF ChildIInv
<1>13. QED
  BY <1>0, <1>1, <1>2, <1>3, <1>4, <1>5, <1>6, <1>7, <1>8, <1>9, <1>10, <1>11, <1>12 DEF ChildNext

(* The results a bridge has reported are of the actions of its batch, and  *)
(* a call has one outcome at a time (stdio-desktop.ts execute).            *)
THEOREM ChildCallsAreTyped == ChildSpec => []ChildTypeOK
<1>1. ChildIInv => ChildTypeOK
  BY DEF ChildIInv
<1>2. QED
  BY <1>1, ChildInitIInv, ChildStepIInv, PTL DEF ChildSpec

(* What the caller of a first-party bridge is told is what happened on the *)
(* desktop, whichever of the action, the timers, the abort and the exits   *)
(* of bridge and worker comes first (stdio-desktop.ts execute).            *)
THEOREM OutcomesAreTrue == ChildSpec => []OutcomeIsTrue
<1>1. ChildIInv => OutcomeIsTrue
  BY DEF ChildIInv, Settled, OutcomeIsTrue
<1>2. QED
  BY <1>1, ChildInitIInv, ChildStepIInv, PTL DEF ChildSpec

(* Nothing acts on a POSIX desktop after the caller of a call that was     *)
(* ended early was answered (stdio-desktop.ts terminate).                  *)
THEOREM EndedCallsAreQuiet == ChildSpec => []EndedCallIsQuiet
<1>1. ChildIInv => EndedCallIsQuiet
  BY DEF ChildIInv, Signalled, EndedCallIsQuiet
<1>2. QED
  BY <1>1, ChildInitIInv, ChildStepIInv, PTL DEF ChildSpec
HIDE ChildAssumption DEF ChildAssumption

-----------------------------------------------------------------------------
(***************************************************************************)
(* Proofs about Connectors, for any number of processes.                   *)
(*                                                                         *)
(* apply works on a configuration it read before its preflight did; what   *)
(* it carries from step to step is checked (RestsOnChecks).                *)
(***************************************************************************)

USE ConnectorsAssumption DEF ConnectorsAssumption

(* What an endpoint that is about to be put, or has been, must rest on.    *)
RestsOnChecks(made) ==
  /\ made.enabled
  /\ made.against = {}
  /\ \/ made.live = "ok" \/ made.overtaken
     \/ kind \in {"a2a", "cli", "browser-managed", "browser-cdp", "desktop"}

Endpoint == [enabled : BOOLEAN, against : SUBSET States, live : {"none", "ok", "blocked"},
             overtaken : BOOLEAN]

Calling ==
  [op : {"none", "add", "configure", "enable", "disable", "apply", "materialize"},
   settings : Settings, made : Endpoint]

ConnectorsInv ==
  /\ kind \in ConnectorKinds
  /\ configuration \in Settings /\ revision \in 0..MaxRevisions
  /\ endpoint \in Endpoint
  /\ endpoint # NoEndpoint => RestsOnChecks(endpoint)
  /\ calling \in [Shells -> Calling]
  /\ \A p \in Shells :
       /\ calling[p].op \in {"apply", "materialize"} => calling[p].settings.enabled
       /\ calling[p].op = "materialize" => RestsOnChecks(calling[p].made)

LEMMA WaitingIsCalling == Waiting \in Calling /\ NoSettings \in Settings /\ NoEndpoint \in Endpoint
  BY DEF Waiting, NoSettings, NoEndpoint, Calling, Settings, Endpoint, Addresses, States

(* A verdict apply goes on with leaves nothing against the connector, and  *)
(* a service that has to answer has answered.                              *)
LEMMA PassedPreflight ==
  ASSUME NEW settings \in Settings, NEW host \in UnusualHosts, kind \in ConnectorKinds,
         Aggregate(Checks(settings, host)) \notin {"unsupported", "blocked", "not-configured"}
  PROVE  /\ Checks(settings, host) \cap {"blocked", "unsupported"} = {}
         /\ Live(settings, host) # "blocked"
<1>1. "blocked" \notin Checks(settings, host)
  BY DEF Aggregate
<1>2. "unsupported" \notin Checks(settings, host)
  BY <1>1 DEF Aggregate
<1>3. host.platform
  BY <1>2 DEF Checks
<1>4. Live(settings, host) # "blocked"
  BY <1>1, <1>3 DEF Checks
<1>5. QED
  BY <1>1, <1>2, <1>4

LEMMA LiveIs ==
  ASSUME NEW settings \in Settings, NEW host
  PROVE  /\ Live(settings, host) \in {"none", "ok", "blocked"}
         /\ settings.enabled /\ Live(settings, host) = "none" /\ kind \in ConnectorKinds
              => kind \in {"a2a", "cli", "browser-managed", "browser-cdp", "desktop"}
  BY DEF Live, ConnectorKinds

LEMMA ConnectorsInitInv == ConnectorsInit => ConnectorsInv
  BY WaitingIsCalling DEF ConnectorsInit, ConnectorsInv, Waiting

(* A step of one shell that leaves the endpoint, or puts the one it made.  *)
LEMMA ShellStep ==
  ASSUME ConnectorsInv, NEW p \in Shells, NEW c \in Calling,
         calling' = [calling EXCEPT ![p] = c],
         c.op \in {"apply", "materialize"} => c.settings.enabled,
         c.op = "materialize" => RestsOnChecks(c.made),
         UNCHANGED kind, configuration' \in Settings, revision' \in 0..MaxRevisions,
         UNCHANGED endpoint \/ (endpoint' \in Endpoint /\ RestsOnChecks(endpoint'))
  PROVE  ConnectorsInv'
<1>1. calling' \in [Shells -> Calling] /\ \A q \in Shells : calling'[q] = IF q = p THEN c ELSE calling[q]
  BY DEF ConnectorsInv
<1>2. \A e : RestsOnChecks(e)' <=> RestsOnChecks(e)
  BY DEF RestsOnChecks
<1>3. \A q \in Shells :
        /\ calling'[q].op \in {"apply", "materialize"} => calling'[q].settings.enabled
        /\ calling'[q].op = "materialize" => RestsOnChecks(calling'[q].made)
  BY <1>1 DEF ConnectorsInv
<1>4. QED
  BY <1>1, <1>2, <1>3 DEF ConnectorsInv, RestsOnChecks

LEMMA ConnectorsStepInv == ConnectorsInv /\ [ConnectorsNext]_connectorVars => ConnectorsInv'
<1> SUFFICES ASSUME ConnectorsInv, [ConnectorsNext]_connectorVars PROVE ConnectorsInv'
  OBVIOUS
<1>1. CASE UNCHANGED connectorVars
  BY <1>1 DEF connectorVars, ConnectorsInv, RestsOnChecks
<1>2. ASSUME NEW p \in Shells, NEW op \in {"add", "configure", "enable", "disable"},
             ReadConfiguration(p, op)
      PROVE  ConnectorsInv'
  <2> DEFINE c == [calling[p] EXCEPT !.op = op, !.settings = configuration]
  <2>1. c \in Calling /\ c.op = op /\ calling' = [calling EXCEPT ![p] = c]
    BY <1>2 DEF ConnectorsInv, Calling, ReadConfiguration
  <2> HIDE DEF c
  <2>2. QED
    BY <1>2, <2>1, ShellStep DEF ReadConfiguration, ConnectorsInv
<1>3. ASSUME NEW p \in Shells, WriteConfiguration(p) PROVE ConnectorsInv'
  <2>1. calling[p].settings \in Settings
    BY DEF ConnectorsInv, Calling
  <2>2. configuration' \in Settings
    BY <1>3, <2>1 DEF WriteConfiguration, Changed, Settings, Addresses
  <2>3. revision' \in 0..MaxRevisions
    BY <1>3 DEF WriteConfiguration, ConnectorsInv
  <2>4. QED
    BY <1>3, <2>2, <2>3, WaitingIsCalling, ShellStep DEF WriteConfiguration, AnswersShell, Waiting
<1>4. ASSUME NEW p \in Shells, ReadApplied(p) PROVE ConnectorsInv'
  <2> DEFINE c == [calling[p] EXCEPT !.op = "apply", !.settings = configuration]
  <2>1. c \in Calling /\ c.op = "apply" /\ c.settings = configuration
        /\ calling' = [calling EXCEPT ![p] = c]
    BY <1>4 DEF ConnectorsInv, Calling, ReadApplied
  <2> HIDE DEF c
  <2>2. QED
    BY <1>4, <2>1, ShellStep DEF ReadApplied, ConnectorsInv
<1>5. ASSUME NEW p \in Shells, Preflight(p) PROVE ConnectorsInv'
  <2>1. CASE AnswersShell(p)
    BY <1>5, <2>1, WaitingIsCalling, ShellStep DEF Preflight, AnswersShell, Waiting, ConnectorsInv
  <2>2. ASSUME NEW host \in UnusualHosts,
               Aggregate(Checks(configuration, host))
                 \notin {"unsupported", "blocked", "not-configured"},
               calling' = [calling EXCEPT ![p] = [@ EXCEPT !.op = "materialize",
                 !.made = [enabled |-> calling[p].settings.enabled,
                           live |-> Live(configuration, host),
                           against |-> Checks(configuration, host) \cap {"blocked", "unsupported"},
                           overtaken |-> configuration # calling[p].settings]]]
        PROVE  ConnectorsInv'
    <3> DEFINE made == [enabled |-> calling[p].settings.enabled,
                        live |-> Live(configuration, host),
                        against |-> Checks(configuration, host) \cap {"blocked", "unsupported"},
                        overtaken |-> configuration # calling[p].settings]
               c == [calling[p] EXCEPT !.op = "materialize", !.made = made]
    <3>1. calling[p] \in Calling /\ calling[p].settings \in Settings /\ calling[p].settings.enabled
      BY <1>5 DEF Preflight, ConnectorsInv, Calling
    <3>2. /\ Checks(configuration, host) \cap {"blocked", "unsupported"} = {}
          /\ Live(configuration, host) \in {"none", "ok"}
          /\ configuration.enabled /\ Live(configuration, host) = "none"
               => kind \in {"a2a", "cli", "browser-managed", "browser-cdp", "desktop"}
      BY <2>2, PassedPreflight, LiveIs DEF ConnectorsInv
    <3>3. made.enabled = calling[p].settings.enabled /\ made.live = Live(configuration, host)
          /\ made.against = {} /\ made.overtaken = (configuration # calling[p].settings)
      BY <3>2
    <3>4. RestsOnChecks(made)
      BY <3>1, <3>2, <3>3 DEF RestsOnChecks
    <3>5. made \in Endpoint
      BY <3>1, <3>2 DEF Endpoint, Settings
    <3> HIDE DEF made
    <3>6. /\ c \in Calling /\ c.op = "materialize" /\ c.settings = calling[p].settings
          /\ c.made = made
      BY <3>1, <3>5 DEF Calling
    <3>7. calling' = [calling EXCEPT ![p] = c]
      BY <2>2 DEF made
    <3> HIDE DEF c
    <3>8. QED
      BY <1>5, <3>1, <3>4, <3>6, <3>7, ShellStep DEF Preflight, ConnectorsInv
  <2>3. QED
    BY <1>5, <2>1, <2>2 DEF Preflight
<1>6. ASSUME NEW p \in Shells, PutEndpoint(p) PROVE ConnectorsInv'
  <2>1. calling[p].made \in Endpoint /\ RestsOnChecks(calling[p].made)
    BY <1>6 DEF PutEndpoint, ConnectorsInv, Calling
  <2>2. endpoint' = calling[p].made \/ endpoint' = endpoint
    BY <1>6 DEF PutEndpoint
  <2>3. \A e : RestsOnChecks(e)' <=> RestsOnChecks(e)
    BY <1>6 DEF RestsOnChecks, PutEndpoint
  <2>4. QED
    BY <1>6, <2>1, <2>2, <2>3, WaitingIsCalling, ShellStep
    DEF PutEndpoint, AnswersShell, Waiting, ConnectorsInv
<1>7. ASSUME NEW p \in Shells, ShellDies(p) PROVE ConnectorsInv'
  BY <1>7, WaitingIsCalling, ShellStep DEF ShellDies, AnswersShell, Waiting, ConnectorsInv
<1>8. QED
  BY <1>1, <1>2, <1>3, <1>4, <1>5, <1>6, <1>7 DEF ConnectorsNext

(* The configuration keeps its shape whatever commands write over one      *)
(* another, and an endpoint says what was found against its connector      *)
(* (packages/runtime/src/connectors).                                      *)
THEOREM ConnectorsAreTyped == ConnectorsSpec => []ConnectorsTypeOK
<1>1. ConnectorsInv => ConnectorsTypeOK
  BY DEF ConnectorsInv, Endpoint, Calling, ConnectorsTypeOK
<1>2. QED
  BY <1>1, ConnectorsInitInv, ConnectorsStepInv, PTL DEF ConnectorsSpec

(* An endpoint rests on a version of the configuration that was enabled    *)
(* and on a preflight without a finding against it, whatever other         *)
(* processes write between the reads of apply (packages/runtime/src/       *)
(* connectors).                                                            *)
THEOREM ApplyRestsOnChecks == ConnectorsSpec => []AppliedWasChecked
<1>1. ConnectorsInv => AppliedWasChecked
  BY DEF ConnectorsInv, AppliedWasChecked, RestsOnChecks
<1>2. QED
  BY <1>1, ConnectorsInitInv, ConnectorsStepInv, PTL DEF ConnectorsSpec
=============================================================================
