-------------------------- MODULE OperationJournal --------------------------
(***************************************************************************)
(* The external-operation journal: packages/runtime/src/operation-journal  *)
(* over the external_operations table of store.ts, used by every path of   *)
(* the runtime that reaches outside the process.                           *)
(*                                                                         *)
(* A caller is one call of invokeModel, executeAdapter, runBrowserBatch,   *)
(* runDesktopBatch or executeBoundWork in some runtime process; several    *)
(* processes may have the same home open, so the callers interleave        *)
(* between any two SQLite statements.  A sweeper is one call of            *)
(* reconcileInterruptedOperations.  Callers and sweepers may crash at any  *)
(* point; what is durable is the journal alone.                            *)
(*                                                                         *)
(* A definition whose comment starts with "Mutant" is a plausible bug of   *)
(* the definition after it.  No behaviour of the specification uses one.   *)
(***************************************************************************)
EXTENDS Naturals, FiniteSets

CONSTANTS
  Operations,    \* operation ids (deterministic ids and random ones alike)
  Subjects,      \* what an operation is about: kind, subjectId and retrySafe
  Callers,
  Sweepers,
  NoEntry,       \* the journal has no row for the id
  MaxCrashes     \* bound on crashes, for model checking

ASSUME JournalAssumption ==
  /\ NoEntry \notin [subject : Subjects,
                     state : {"intent-recorded", "dispatched", "completed",
                              "failed", "interrupted-uncertain"}]
  /\ MaxCrashes \in Nat

VARIABLES
  journal,       \* journal[op]: the row of the id, or NoEntry
  caller,        \* caller[c]: the local state of the call
  sweep,         \* sweep[s]: ids listed as dispatched and not yet marked
  effects,       \* effects[op]: how often the outside effect happened (history)
  crashes

vars == <<journal, caller, sweep, effects, crashes>>

ExternalOperationState ==
  {"intent-recorded", "dispatched", "completed", "failed", "interrupted-uncertain"}

SettledState == {"completed", "failed", "interrupted-uncertain"}

Entry == [subject : Subjects, state : ExternalOperationState]

Step == {"idle", "insert", "mark", "call", "settle"}

Call == [step : Step, op : Operations, subject : Subjects,
         answer : {"completed", "failed"}]

InState(op, states) == journal[op] # NoEntry /\ journal[op].state \in states

(* Mutant: the state is not compared before a row is updated.              *)
TransitionUnchecked(op, expected, state) ==
  /\ journal[op] # NoEntry
  /\ journal' = [journal EXCEPT ![op].state = state]

(* transitionExternalOperation: one immediate transaction that reads the   *)
(* row, refuses unless the state is an expected one, and writes.           *)
Transition(op, expected, state) ==
  /\ InState(op, expected)
  /\ journal' = [journal EXCEPT ![op].state = state]

Goto(c, step) == caller' = [caller EXCEPT ![c].step = step]

Init ==
  /\ journal = [op \in Operations |-> NoEntry]
  /\ caller \in [Callers -> [step : {"idle"}, op : Operations,
                             subject : Subjects, answer : {"failed"}]]
  /\ sweep = [s \in Sweepers |-> {}]
  /\ effects = [op \in Operations |-> 0]
  /\ crashes = 0

-----------------------------------------------------------------------------
(* beginOperation: the lookup and the insert are separate statements.  An  *)
(* id that exists is handed back only as an unused intent for the same     *)
(* subject; any other existing row is EXECUTION_CONFLICT, which changes    *)
(* nothing.                                                                *)
BeginLookup(c, op, subject) ==
  /\ caller[c].step = "idle"
  /\ \/ /\ journal[op] = NoEntry
        /\ caller' = [caller EXCEPT ![c] = [step |-> "insert", op |-> op,
                        subject |-> subject, answer |-> "failed"]]
     \/ /\ InState(op, {"intent-recorded"})
        /\ journal[op].subject = subject
        /\ caller' = [caller EXCEPT ![c] = [step |-> "mark", op |-> op,
                        subject |-> subject, answer |-> "failed"]]
  /\ UNCHANGED <<journal, sweep, effects, crashes>>

(* Mutant: the call is made before the row is marked as dispatched.        *)
BeginInsertThenCall(c) ==
  /\ caller[c].step = "insert"
  /\ journal[caller[c].op] = NoEntry
  /\ journal' = [journal EXCEPT ![caller[c].op] =
                   [subject |-> caller[c].subject, state |-> "intent-recorded"]]
  /\ Goto(c, "call")
  /\ UNCHANGED <<sweep, effects, crashes>>

(* insertExternalOperation: the primary key turns a second insert of the   *)
(* same id into EXECUTION_CONFLICT.                                        *)
BeginInsert(c) ==
  /\ caller[c].step = "insert"
  /\ \/ /\ journal[caller[c].op] = NoEntry
        /\ journal' = [journal EXCEPT ![caller[c].op] =
                         [subject |-> caller[c].subject, state |-> "intent-recorded"]]
        /\ Goto(c, "mark")
     \/ /\ journal[caller[c].op] # NoEntry
        /\ Goto(c, "idle")
        /\ UNCHANGED journal
  /\ UNCHANGED <<sweep, effects, crashes>>

MarkDispatched(c) ==
  /\ caller[c].step = "mark"
  /\ \/ /\ Transition(caller[c].op, {"intent-recorded"}, "dispatched")
        /\ Goto(c, "call")
     \/ /\ ~InState(caller[c].op, {"intent-recorded"})
        /\ Goto(c, "idle")
        /\ UNCHANGED journal
  /\ UNCHANGED <<sweep, effects, crashes>>

(* runDesktopBatch may refuse a batch after its intent is on record: the   *)
(* row stays an intent, for whoever comes with the same id and subject.    *)
Refuse(c) ==
  /\ caller[c].step = "mark"
  /\ Goto(c, "idle")
  /\ UNCHANGED <<journal, sweep, effects, crashes>>

(* The awaited call: a transport, an adapter process, a browser or desktop *)
(* backend, an executor.  It may fail before or after having its effect.   *)
CallOutside(c) ==
  /\ caller[c].step = "call"
  /\ \E answer \in {"completed", "failed"}, happened \in {0, 1} :
       /\ answer = "completed" => happened = 1
       /\ effects' = [effects EXCEPT ![caller[c].op] = @ + happened]
       /\ caller' = [caller EXCEPT ![c].step = "settle", ![c].answer = answer]
  /\ UNCHANGED <<journal, sweep, crashes>>

(* Mutant: the executor's own word is stored as the state of the row.      *)
CompleteWithOutcome(c) ==
  /\ caller[c].step = "settle"
  /\ \/ Transition(caller[c].op, {"dispatched"}, "succeeded")
     \/ /\ ~InState(caller[c].op, {"dispatched"})
        /\ UNCHANGED journal
  /\ Goto(c, "idle")
  /\ UNCHANGED <<sweep, effects, crashes>>

(* Mutant: a failure is recorded as completed.                             *)
CompleteAlways(c) ==
  /\ caller[c].step = "settle"
  /\ \/ Transition(caller[c].op, {"dispatched"}, "completed")
     \/ /\ ~InState(caller[c].op, {"dispatched"})
        /\ UNCHANGED journal
  /\ Goto(c, "idle")
  /\ UNCHANGED <<sweep, effects, crashes>>

(* Mutant: a late answer overwrites the swept row.                         *)
CompleteLate(c) ==
  /\ caller[c].step = "settle"
  /\ Transition(caller[c].op, ExternalOperationState, caller[c].answer)
  /\ Goto(c, "idle")
  /\ UNCHANGED <<sweep, effects, crashes>>

(* completeOperation.  A caller whose row was swept meanwhile gets         *)
(* EXECUTION_CONFLICT and leaves the row alone.                            *)
Complete(c) ==
  /\ caller[c].step = "settle"
  /\ \/ Transition(caller[c].op, {"dispatched"}, caller[c].answer)
     \/ /\ ~InState(caller[c].op, {"dispatched"})
        /\ UNCHANGED journal
  /\ Goto(c, "idle")
  /\ UNCHANGED <<sweep, effects, crashes>>

CrashCaller(c) ==
  /\ caller[c].step # "idle"
  /\ crashes < MaxCrashes
  /\ crashes' = crashes + 1
  /\ Goto(c, "idle")
  /\ UNCHANGED <<journal, sweep, effects>>

-----------------------------------------------------------------------------
(* Mutant: the sweep only looks at rows that were never dispatched.        *)
SweepListIntents(s) ==
  /\ sweep[s] = {}
  /\ {op \in Operations : InState(op, {"intent-recorded"})} # {}
  /\ sweep' = [sweep EXCEPT ![s] = {op \in Operations : InState(op, {"intent-recorded"})}]
  /\ UNCHANGED <<journal, caller, effects, crashes>>

(* reconcileInterruptedOperations: list, then one transition per listed    *)
(* row; a row that left "dispatched" since the list ends the sweep with an *)
(* error and its remaining rows stay as they are.                          *)
SweepList(s) ==
  /\ sweep[s] = {}
  /\ {op \in Operations : InState(op, {"dispatched"})} # {}
  /\ sweep' = [sweep EXCEPT ![s] = {op \in Operations : InState(op, {"dispatched"})}]
  /\ UNCHANGED <<journal, caller, effects, crashes>>

(* Mutant: the sweep reopens what it finds instead of declaring it         *)
(* uncertain.                                                              *)
MarkUncertainReopens(s, op) ==
  /\ op \in sweep[s]
  /\ \/ /\ Transition(op, {"dispatched"}, "intent-recorded")
        /\ sweep' = [sweep EXCEPT ![s] = @ \ {op}]
     \/ /\ ~InState(op, {"dispatched"})
        /\ sweep' = [sweep EXCEPT ![s] = {}]
        /\ UNCHANGED journal
  /\ UNCHANGED <<caller, effects, crashes>>

(* One listed row: declared uncertain if it is still dispatched.           *)
MarkUncertain(s, op) ==
  /\ op \in sweep[s]
  /\ \/ /\ Transition(op, {"dispatched"}, "interrupted-uncertain")
        /\ sweep' = [sweep EXCEPT ![s] = @ \ {op}]
     \/ /\ ~InState(op, {"dispatched"})
        /\ sweep' = [sweep EXCEPT ![s] = {}]
        /\ UNCHANGED journal
  /\ UNCHANGED <<caller, effects, crashes>>

CrashSweep(s) ==
  /\ sweep[s] # {}
  /\ crashes < MaxCrashes
  /\ crashes' = crashes + 1
  /\ sweep' = [sweep EXCEPT ![s] = {}]
  /\ UNCHANGED <<journal, caller, effects>>

-----------------------------------------------------------------------------
CallerStep(c) ==
  \/ BeginInsert(c) \/ MarkDispatched(c) \/ CallOutside(c) \/ Complete(c)

SweepStep(s) == \E op \in Operations : MarkUncertain(s, op)

Next ==
  \/ \E c \in Callers, op \in Operations, subject \in Subjects :
       BeginLookup(c, op, subject)
  \/ \E c \in Callers : CallerStep(c) \/ Refuse(c) \/ CrashCaller(c)
  \/ \E s \in Sweepers : SweepList(s) \/ SweepStep(s) \/ CrashSweep(s)

Spec == Init /\ [][Next]_vars

(* A call that started goes on: its await ends in an answer or a timeout,  *)
(* and the synchronous code around it runs to its end.  Nothing obliges    *)
(* anybody to start a call, and nothing in the service or the CLI starts   *)
(* a sweep.                                                                *)
CallerFairness == \A c \in Callers : WF_vars(CallerStep(c))

FairSpec == Spec /\ CallerFairness

(* The embedding application that does sweep, again and again.             *)
SweepFairness ==
  \A s \in Sweepers : WF_vars(SweepList(s)) /\ WF_vars(SweepStep(s))

SweptSpec == FairSpec /\ SweepFairness

-----------------------------------------------------------------------------
(* Properties                                                              *)

TypeOK ==
  /\ journal \in [Operations -> Entry \cup {NoEntry}]
  /\ caller \in [Callers -> Call]
  /\ sweep \in [Sweepers -> SUBSET Operations]
  /\ effects \in [Operations -> Nat]
  /\ crashes \in Nat

(* No operation reaches the outside twice, however many callers race for   *)
(* its id and wherever they crash (beginOperation hands an existing intent *)
(* to every caller that asks).                                             *)
AtMostOnceEffect == \A op \in Operations : effects[op] <= 1

(* The journal is written ahead: an effect is never on record nowhere,     *)
(* and a row still at its intent proves that nothing happened, so handing  *)
(* the intent to a later caller is safe.                                   *)
WriteAhead ==
  \A op \in Operations :
    effects[op] > 0 => InState(op, {"dispatched"} \cup SettledState)

(* A row says "completed" only when the effect really happened.            *)
CompletedIsTrue ==
  \A op \in Operations : InState(op, {"completed"}) => effects[op] = 1

(* A settled row is never reopened nor rewritten, neither by a late answer *)
(* nor by a sweep that listed the row before it was settled.               *)
SettledIsFinal ==
  [][\A op \in Operations :
       InState(op, SettledState) => journal'[op] = journal[op]]_vars

(* Every dispatched operation is settled in the end: completed, failed, or *)
(* declared uncertain.                                                     *)
DispatchedIsSettled ==
  \A op \in Operations :
    InState(op, {"dispatched"}) ~> InState(op, SettledState)

(* The abstraction of a row.                                               *)
PhaseOf(op) ==
  CASE journal[op] = NoEntry \/ InState(op, {"intent-recorded"}) -> "none"
    [] InState(op, {"dispatched"}) -> "open"
    [] InState(op, {"completed", "failed"}) -> "answered"
    [] InState(op, {"interrupted-uncertain"}) -> "unknown"

phaseBar == [op \in Operations |-> PhaseOf(op)]

Promise == INSTANCE AtMostOnce WITH phase <- phaseBar

(* The journal implements the at-most-once promise its callers rely on.    *)
KeepsPromise == Promise!Spec
=============================================================================
