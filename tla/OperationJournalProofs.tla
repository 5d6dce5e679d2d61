----------------------- MODULE OperationJournalProofs -----------------------
(***************************************************************************)
(* Proofs about OperationJournal, for any number of operations, callers    *)
(* and sweepers and any number of crashes.                                 *)
(*                                                                         *)
(* AtMostOnceEffect is not inductive: nothing in it stops two callers from *)
(* standing before the same call.  What excludes that is the transition    *)
(* intent-recorded -> dispatched, which one caller wins.  Engaged names    *)
(* the callers that won it; IInv says that an engaged caller is alone on   *)
(* its operation, that its row is dispatched or already declared           *)
(* uncertain, and that a row not yet dispatched has had no effect.         *)
(***************************************************************************)
EXTENDS OperationJournal, TLAPS

Engaged(c) == caller[c].step \in {"call", "settle"}

EngagedAlone ==
  \A c, d \in Callers :
    Engaged(c) /\ Engaged(d) /\ caller[c].op = caller[d].op => c = d

EngagedOnOpenRow ==
  \A c \in Callers :
    Engaged(c) => InState(caller[c].op, {"dispatched", "interrupted-uncertain"})

NotYetCalled ==
  \A c \in Callers : caller[c].step = "call" => effects[caller[c].op] = 0

AnswerIsTrue ==
  \A c \in Callers :
    caller[c].step = "settle" /\ caller[c].answer = "completed"
      => effects[caller[c].op] = 1

NoEffectBeforeDispatch ==
  \A op \in Operations :
    journal[op] = NoEntry \/ InState(op, {"intent-recorded"}) => effects[op] = 0

IInv ==
  /\ TypeOK
  /\ AtMostOnceEffect
  /\ CompletedIsTrue
  /\ EngagedAlone
  /\ EngagedOnOpenRow
  /\ NotYetCalled
  /\ AnswerIsTrue
  /\ NoEffectBeforeDispatch

USE JournalAssumption
USE DEF Engaged, InState, ExternalOperationState, SettledState, Entry, Step, Call

(* The rows, callers and sweeps are well formed in every reachable state.  *)
LEMMA InitIInv == Init => IInv
  BY DEF Init, IInv, TypeOK, AtMostOnceEffect, CompletedIsTrue, EngagedAlone,
         EngagedOnOpenRow, NotYetCalled, AnswerIsTrue, NoEffectBeforeDispatch

(* Moving a caller to another step changes nothing else about the callers. *)
LEMMA GotoFacts ==
  ASSUME TypeOK, NEW c \in Callers, NEW step \in Step, Goto(c, step)
  PROVE  /\ caller' \in [Callers -> Call]
         /\ caller'[c].step = step
         /\ \A d \in Callers : /\ caller'[d].op = caller[d].op
                               /\ caller'[d].answer = caller[d].answer
                               /\ d # c => caller'[d].step = caller[d].step
  BY DEF TypeOK, Goto

(* Every step keeps the strengthened invariant.                            *)
LEMMA StepIInv == IInv /\ [Next]_vars => IInv'
<1> SUFFICES ASSUME IInv, [Next]_vars PROVE IInv'
  OBVIOUS
<1> USE DEF IInv
<1>t. TypeOK
  OBVIOUS
<1>1. ASSUME NEW c \in Callers, NEW op \in Operations, NEW subject \in Subjects,
             BeginLookup(c, op, subject)
      PROVE  IInv'
  <2>1. /\ UNCHANGED <<journal, sweep, effects, crashes>>
        /\ caller' \in [Callers -> Call]
        /\ ~Engaged(c)'
        /\ \A d \in Callers : d # c => caller'[d] = caller[d]
    BY <1>1, <1>t DEF BeginLookup, TypeOK
  <2>2. TypeOK'
    BY <2>1, <1>t DEF TypeOK
  <2>3. (EngagedAlone /\ EngagedOnOpenRow /\ NotYetCalled /\ AnswerIsTrue)'
    BY <2>1 DEF EngagedAlone, EngagedOnOpenRow, NotYetCalled, AnswerIsTrue
  <2>4. (AtMostOnceEffect /\ CompletedIsTrue /\ NoEffectBeforeDispatch)'
    BY <2>1 DEF AtMostOnceEffect, CompletedIsTrue, NoEffectBeforeDispatch
  <2>5. QED
    BY <2>2, <2>3, <2>4
<1>2. ASSUME NEW c \in Callers, BeginInsert(c) PROVE IInv'
  <2>0. PICK op \in Operations : op = caller[c].op
    BY <1>t DEF TypeOK
  <2>1. /\ UNCHANGED <<sweep, effects, crashes>>
        /\ caller' \in [Callers -> Call]
        /\ ~Engaged(c)'
        /\ \A d \in Callers : /\ caller'[d].op = caller[d].op
                              /\ caller'[d].answer = caller[d].answer
                              /\ d # c => caller'[d].step = caller[d].step
    BY <2>0, <1>2, <1>t, GotoFacts DEF BeginInsert
  <2>2. \/ UNCHANGED journal
        \/ /\ journal[op] = NoEntry
           /\ journal'[op] \in Entry
           /\ journal'[op].state = "intent-recorded"
           /\ \A o \in Operations \ {op} : journal'[o] = journal[o]
           /\ journal' \in [Operations -> Entry \cup {NoEntry}]
    <3>1. CASE /\ journal[op] = NoEntry
               /\ journal' = [journal EXCEPT ![op] =
                                [subject |-> caller[c].subject, state |-> "intent-recorded"]]
      <4>1. [subject |-> caller[c].subject, state |-> "intent-recorded"] \in Entry
        BY <1>t DEF TypeOK
      <4>2. QED
        BY <3>1, <4>1, <1>t DEF TypeOK
    <3>2. QED
      BY <2>0, <1>2, <3>1 DEF BeginInsert
  <2>3. op \in Operations
    BY <2>0, <1>t DEF TypeOK
  <2>4. TypeOK'
    BY <2>0, <2>1, <2>2, <1>t DEF TypeOK
  <2>5. EngagedAlone'
    BY <2>0, <2>1 DEF EngagedAlone
  <2>5a. EngagedOnOpenRow'
    <3> SUFFICES ASSUME NEW d \in Callers, Engaged(d)'
                 PROVE  InState(caller[d].op, {"dispatched", "interrupted-uncertain"})'
      BY DEF EngagedOnOpenRow
    <3>1. d # c /\ Engaged(d) /\ caller'[d].op = caller[d].op
      BY <2>0, <2>1
    <3>2. InState(caller[d].op, {"dispatched", "interrupted-uncertain"})
      BY <2>0, <3>1 DEF EngagedOnOpenRow
    <3>3. caller[d].op \in Operations
      BY <2>0, <1>t DEF TypeOK
    <3>4. journal'[caller[d].op] = journal[caller[d].op]
      BY <2>0, <2>2, <3>2, <3>3
    <3>5. QED
      BY <2>0, <3>1, <3>2, <3>4
  <2>6. (NotYetCalled /\ AnswerIsTrue)'
    BY <2>0, <2>1 DEF NotYetCalled, AnswerIsTrue
  <2>7. (AtMostOnceEffect /\ CompletedIsTrue /\ NoEffectBeforeDispatch)'
    BY <2>0, <2>1, <2>2, <2>3 DEF AtMostOnceEffect, CompletedIsTrue, NoEffectBeforeDispatch
  <2>8. QED
    BY <2>4, <2>5, <2>5a, <2>6, <2>7
<1>3. ASSUME NEW c \in Callers, MarkDispatched(c) PROVE IInv'
  <2>0. PICK op \in Operations : op = caller[c].op
    BY <1>t DEF TypeOK
  <2>1. op \in Operations
    BY <2>0, <1>t DEF TypeOK
  <2>2. CASE Transition(op, {"intent-recorded"}, "dispatched") /\ Goto(c, "call")
    <3>1. /\ UNCHANGED <<sweep, effects, crashes>>
          /\ caller' \in [Callers -> Call]
          /\ caller'[c].step = "call"
          /\ \A d \in Callers : /\ caller'[d].op = caller[d].op
                                /\ caller'[d].answer = caller[d].answer
                                /\ d # c => caller'[d].step = caller[d].step
      BY <2>0, <1>3, <2>2, <1>t, GotoFacts DEF MarkDispatched
    <3>2. /\ InState(op, {"intent-recorded"})
          /\ InState(op, {"dispatched"})'
          /\ \A o \in Operations \ {op} : journal'[o] = journal[o]
          /\ journal' \in [Operations -> Entry \cup {NoEntry}]
      <4>1. /\ journal[op].state \in {"intent-recorded"} /\ journal[op] \in Entry
            /\ journal'[op].state = "dispatched" /\ journal'[op] # NoEntry
            /\ \A o \in Operations \ {op} : journal'[o] = journal[o]
            /\ journal' \in [Operations -> Entry \cup {NoEntry}]
        BY <2>0, <2>1, <2>2, <1>t DEF Transition, TypeOK
      <4>2. QED
        BY <2>0, <4>1, JournalAssumption
    <3>3. \A d \in Callers : Engaged(d) => caller[d].op # op
      BY <2>0, <3>2 DEF EngagedOnOpenRow
    <3>4. TypeOK'
      BY <2>0, <3>1, <3>2, <1>t DEF TypeOK
    <3>5. EngagedAlone'
      BY <2>0, <3>1, <3>3 DEF EngagedAlone
    <3>5a. EngagedOnOpenRow'
      BY <2>0, <3>1, <3>2, <3>3, <1>t DEF EngagedOnOpenRow, TypeOK
    <3>6. (NotYetCalled /\ AnswerIsTrue)'
      BY <2>0, <3>1, <3>2, <2>1 DEF NotYetCalled, AnswerIsTrue, NoEffectBeforeDispatch
    <3>7. (AtMostOnceEffect /\ CompletedIsTrue /\ NoEffectBeforeDispatch)'
      BY <2>0, <3>1, <3>2, <2>1 DEF AtMostOnceEffect, CompletedIsTrue, NoEffectBeforeDispatch
    <3>8. QED
      BY <3>4, <3>5, <3>5a, <3>6, <3>7
  <2>3. CASE Goto(c, "idle") /\ UNCHANGED journal
    <3>1. /\ UNCHANGED <<journal, sweep, effects, crashes>>
          /\ caller' \in [Callers -> Call]
          /\ ~Engaged(c)'
          /\ \A d \in Callers : /\ caller'[d].op = caller[d].op
                                /\ caller'[d].answer = caller[d].answer
                                /\ d # c => caller'[d].step = caller[d].step
      BY <2>0, <1>3, <2>3, <1>t, GotoFacts DEF MarkDispatched
    <3>2. TypeOK'
      BY <2>0, <3>1, <1>t DEF TypeOK
    <3>3. (EngagedAlone /\ EngagedOnOpenRow)'
      BY <2>0, <3>1 DEF EngagedAlone, EngagedOnOpenRow
    <3>4. (NotYetCalled /\ AnswerIsTrue)'
      BY <2>0, <3>1 DEF NotYetCalled, AnswerIsTrue
    <3>5. (AtMostOnceEffect /\ CompletedIsTrue /\ NoEffectBeforeDispatch)'
      BY <2>0, <3>1 DEF AtMostOnceEffect, CompletedIsTrue, NoEffectBeforeDispatch
    <3>6. QED
      BY <3>2, <3>3, <3>4, <3>5
  <2>4. QED
    BY <2>0, <1>3, <2>2, <2>3 DEF MarkDispatched
<1>4. ASSUME NEW c \in Callers, CallOutside(c) PROVE IInv'
  <2>0. PICK op \in Operations : op = caller[c].op
    BY <1>t DEF TypeOK
  <2>1. op \in Operations /\ Engaged(c) /\ effects[op] = 0
        /\ InState(op, {"dispatched", "interrupted-uncertain"})
    BY <2>0, <1>4, <1>t DEF CallOutside, TypeOK, NotYetCalled, EngagedOnOpenRow
  <2>2. PICK answer \in {"completed", "failed"}, happened \in {0, 1} :
          /\ answer = "completed" => happened = 1
          /\ effects' = [effects EXCEPT ![op] = @ + happened]
          /\ caller' = [caller EXCEPT ![c].step = "settle", ![c].answer = answer]
    BY <2>0, <1>4 DEF CallOutside
  <2>3. /\ UNCHANGED <<journal, sweep, crashes>>
        /\ caller' \in [Callers -> Call]
        /\ caller'[c].step = "settle" /\ caller'[c].answer = answer
        /\ caller'[c].op = op
        /\ \A d \in Callers : d # c => caller'[d] = caller[d]
    <3>1. caller'[c] = [caller[c] EXCEPT !.step = "settle", !.answer = answer]
      BY <2>2, <1>t DEF TypeOK
    <3>2. caller'[c] \in Call
      BY <3>1, <1>t DEF TypeOK
    <3>3. QED
      BY <2>0, <1>4, <1>t, <2>2, <3>1, <3>2 DEF CallOutside, TypeOK
  <2>4. /\ effects' \in [Operations -> Nat]
        /\ effects'[op] = happened
        /\ \A o \in Operations \ {op} : effects'[o] = effects[o]
    BY <2>0, <2>1, <2>2, <1>t DEF TypeOK
  <2>5. TypeOK'
    BY <2>0, <2>3, <2>4, <1>t DEF TypeOK
  <2>6. (EngagedAlone /\ EngagedOnOpenRow)'
    BY <2>0, <2>1, <2>3 DEF EngagedAlone, EngagedOnOpenRow
  <2>7. (NotYetCalled /\ AnswerIsTrue)'
    BY <2>0, <2>1, <2>2, <2>3, <2>4, <1>t
       DEF NotYetCalled, AnswerIsTrue, EngagedAlone, TypeOK
  <2>8. (AtMostOnceEffect /\ CompletedIsTrue /\ NoEffectBeforeDispatch)'
    BY <2>0, <2>1, <2>3, <2>4 DEF AtMostOnceEffect, CompletedIsTrue, NoEffectBeforeDispatch
  <2>9. QED
    BY <2>5, <2>6, <2>7, <2>8
<1>5. ASSUME NEW c \in Callers, Complete(c) PROVE IInv'
  <2>0. PICK op \in Operations : op = caller[c].op
    BY <1>t DEF TypeOK
  <2>1. op \in Operations /\ Engaged(c) /\ caller[c].answer \in {"completed", "failed"}
        /\ (caller[c].answer = "completed" => effects[op] = 1)
    BY <2>0, <1>5, <1>t DEF Complete, TypeOK, AnswerIsTrue
  <2>2. /\ UNCHANGED <<sweep, effects, crashes>>
        /\ caller' \in [Callers -> Call]
        /\ ~Engaged(c)'
        /\ \A d \in Callers : /\ caller'[d].op = caller[d].op
                              /\ caller'[d].answer = caller[d].answer
                              /\ d # c => caller'[d].step = caller[d].step
    BY <2>0, <1>5, <1>t, GotoFacts DEF Complete
  <2>3. \/ UNCHANGED journal
        \/ /\ InState(op, {caller[c].answer})'
           /\ \A o \in Operations \ {op} : journal'[o] = journal[o]
           /\ journal' \in [Operations -> Entry \cup {NoEntry}]
    <3>1. CASE Transition(op, {"dispatched"}, caller[c].answer)
      BY <2>1, <2>2, <3>1, <1>t DEF Transition, TypeOK
    <3>2. QED
      BY <2>0, <1>5, <3>1 DEF Complete
  <2>4. TypeOK'
    BY <2>0, <2>2, <2>3, <1>t DEF TypeOK
  <2>5. EngagedAlone'
    BY <2>2 DEF EngagedAlone
  <2>5a. EngagedOnOpenRow'
    <3> SUFFICES ASSUME NEW d \in Callers, Engaged(d)'
                 PROVE  InState(caller[d].op, {"dispatched", "interrupted-uncertain"})'
      BY DEF EngagedOnOpenRow
    <3>1. d # c /\ Engaged(d) /\ caller'[d].op = caller[d].op
      BY <2>2
    <3>2. caller[d].op \in Operations \ {op}
      BY <2>0, <2>1, <3>1, <1>t DEF EngagedAlone, TypeOK
    <3>3. QED
      BY <2>3, <3>1, <3>2 DEF EngagedOnOpenRow
  <2>6. (NotYetCalled /\ AnswerIsTrue)'
    BY <2>0, <2>2 DEF NotYetCalled, AnswerIsTrue
  <2>7. (AtMostOnceEffect /\ CompletedIsTrue /\ NoEffectBeforeDispatch)'
    BY <2>0, <2>1, <2>2, <2>3 DEF AtMostOnceEffect, CompletedIsTrue, NoEffectBeforeDispatch
  <2>8. QED
    BY <2>4, <2>5, <2>5a, <2>6, <2>7
<1>6. ASSUME NEW c \in Callers, Refuse(c) \/ CrashCaller(c) PROVE IInv'
  <2>1. /\ UNCHANGED <<journal, sweep, effects>> /\ crashes' \in Nat
        /\ caller' \in [Callers -> Call]
        /\ ~Engaged(c)'
        /\ \A d \in Callers : /\ caller'[d].op = caller[d].op
                              /\ caller'[d].answer = caller[d].answer
                              /\ d # c => caller'[d].step = caller[d].step
    BY <1>6, <1>t, GotoFacts DEF Refuse, CrashCaller, TypeOK
  <2>2. TypeOK'
    BY <2>1, <1>t DEF TypeOK
  <2>3. (EngagedAlone /\ EngagedOnOpenRow)'
    BY <2>1 DEF EngagedAlone, EngagedOnOpenRow
  <2>4. (NotYetCalled /\ AnswerIsTrue)'
    BY <2>1 DEF NotYetCalled, AnswerIsTrue
  <2>5. (AtMostOnceEffect /\ CompletedIsTrue /\ NoEffectBeforeDispatch)'
    BY <2>1 DEF AtMostOnceEffect, CompletedIsTrue, NoEffectBeforeDispatch
  <2>6. QED
    BY <2>2, <2>3, <2>4, <2>5
<1>7. ASSUME NEW s \in Sweepers, SweepList(s) PROVE IInv'
  BY <1>7, <1>t
     DEF SweepList, TypeOK, AtMostOnceEffect, CompletedIsTrue, EngagedAlone,
         EngagedOnOpenRow, NotYetCalled, AnswerIsTrue, NoEffectBeforeDispatch
<1>8. ASSUME NEW s \in Sweepers, NEW op \in Operations, MarkUncertain(s, op)
      PROVE  IInv'
  <2>1. /\ UNCHANGED <<caller, effects, crashes>>
        /\ sweep' \in [Sweepers -> SUBSET Operations]
    BY <1>8, <1>t DEF MarkUncertain, TypeOK
  <2>2. \/ UNCHANGED journal
        \/ /\ InState(op, {"dispatched"})
           /\ InState(op, {"interrupted-uncertain"})'
           /\ \A o \in Operations \ {op} : journal'[o] = journal[o]
           /\ journal' \in [Operations -> Entry \cup {NoEntry}]
    <3>1. CASE Transition(op, {"dispatched"}, "interrupted-uncertain")
      <4>1. /\ journal[op].state \in {"dispatched"} /\ journal[op] \in Entry
            /\ journal'[op].state = "interrupted-uncertain" /\ journal'[op] # NoEntry
            /\ \A o \in Operations \ {op} : journal'[o] = journal[o]
            /\ journal' \in [Operations -> Entry \cup {NoEntry}]
        BY <3>1, <1>t DEF Transition, TypeOK
      <4>2. QED
        BY <4>1, JournalAssumption
    <3>2. QED
      BY <1>8, <3>1 DEF MarkUncertain
  <2>3. TypeOK'
    BY <2>1, <2>2, <1>t DEF TypeOK
  <2>4. (EngagedAlone /\ EngagedOnOpenRow)'
    BY <2>1, <2>2, <1>t DEF EngagedAlone, EngagedOnOpenRow, TypeOK
  <2>5. (NotYetCalled /\ AnswerIsTrue)'
    BY <2>1 DEF NotYetCalled, AnswerIsTrue
  <2>6. (AtMostOnceEffect /\ CompletedIsTrue /\ NoEffectBeforeDispatch)'
    BY <2>1, <2>2 DEF AtMostOnceEffect, CompletedIsTrue, NoEffectBeforeDispatch
  <2>7. QED
    BY <2>3, <2>4, <2>5, <2>6
<1>9. ASSUME NEW s \in Sweepers, CrashSweep(s) PROVE IInv'
  BY <1>9, <1>t
     DEF CrashSweep, TypeOK, AtMostOnceEffect, CompletedIsTrue, EngagedAlone,
         EngagedOnOpenRow, NotYetCalled, AnswerIsTrue, NoEffectBeforeDispatch
<1>10. CASE UNCHANGED vars
  BY <1>10, <1>t
     DEF vars, TypeOK, AtMostOnceEffect, CompletedIsTrue, EngagedAlone,
         EngagedOnOpenRow, NotYetCalled, AnswerIsTrue, NoEffectBeforeDispatch
<1>11. QED
  BY <1>1, <1>2, <1>3, <1>4, <1>5, <1>6, <1>7, <1>8, <1>9, <1>10
     DEF Next, CallerStep, SweepStep

(* The strengthened invariant holds in every reachable state.              *)
LEMMA Inductive == Spec => []IInv
  BY InitIInv, StepIInv, PTL DEF Spec

(* The journal's rows, the callers and the sweeps keep their types.        *)
THEOREM TypeCorrect == Spec => []TypeOK
  BY Inductive, PTL DEF IInv

(* No operation reaches the outside twice: beginOperation, the immediate   *)
(* transitions and the sweep together serialise all callers of an id.      *)
THEOREM EffectAtMostOnce == Spec => []AtMostOnceEffect
  BY Inductive, PTL DEF IInv

(* The journal is written ahead of every effect.                           *)
THEOREM EffectAfterDispatch == Spec => []WriteAhead
<1>1. IInv => WriteAhead
  <2> SUFFICES ASSUME IInv, NEW op \in Operations, effects[op] > 0
               PROVE  InState(op, {"dispatched"} \cup SettledState)
    BY DEF WriteAhead
  <2>1. journal[op] # NoEntry /\ ~InState(op, {"intent-recorded"})
    BY DEF IInv, NoEffectBeforeDispatch
  <2>2. journal[op] \in Entry
    BY <2>1 DEF IInv, TypeOK
  <2>3. QED
    BY <2>1, <2>2
<1>2. QED
  BY Inductive, <1>1, PTL

(* A row that says "completed" stands for an effect that happened.         *)
THEOREM CompletedMeansDone == Spec => []CompletedIsTrue
  BY Inductive, PTL DEF IInv

-----------------------------------------------------------------------------
(* What one step does to the row of an operation: nothing, or one of the   *)
(* four moves of the journal, each made by the party entitled to it.       *)
RowMove(op) ==
  \/ journal'[op] = journal[op]
  \/ journal[op] = NoEntry /\ InState(op, {"intent-recorded"})'
  \/ InState(op, {"intent-recorded"}) /\ InState(op, {"dispatched"})'
  \/ InState(op, {"dispatched"}) /\ InState(op, SettledState)'

(* Every step makes one of these moves of each row.                        *)
LEMMA StepMovesRows == TypeOK /\ [Next]_vars => \A op \in Operations : RowMove(op)
<1> SUFFICES ASSUME TypeOK, [Next]_vars, NEW op \in Operations PROVE RowMove(op)
  OBVIOUS
<1> USE DEF RowMove
<1>1. ASSUME NEW c \in Callers, BeginInsert(c) PROVE RowMove(op)
  BY <1>1 DEF BeginInsert, TypeOK
<1>2. ASSUME NEW c \in Callers, MarkDispatched(c) PROVE RowMove(op)
  <2>1. CASE UNCHANGED journal
    BY <2>1
  <2>2. CASE Transition(caller[c].op, {"intent-recorded"}, "dispatched")
    BY <2>2 DEF Transition, InState, TypeOK
  <2>3. QED
    BY <1>2, <2>1, <2>2 DEF MarkDispatched
<1>3. ASSUME NEW c \in Callers, Complete(c) PROVE RowMove(op)
  BY <1>3 DEF Complete, Transition, TypeOK
<1>4. ASSUME NEW s \in Sweepers, NEW o \in Operations, MarkUncertain(s, o)
      PROVE  RowMove(op)
  BY <1>4 DEF MarkUncertain, Transition, TypeOK
<1>5. CASE UNCHANGED journal
  BY <1>5
<1>6. QED
  BY <1>1, <1>2, <1>3, <1>4, <1>5
     DEF Next, CallerStep, SweepStep, BeginLookup, CallOutside, Refuse, CrashCaller,
         SweepList, CrashSweep, vars

(* A settled row is never rewritten, not even by a late answer.            *)
THEOREM SettledStays == Spec => SettledIsFinal
<1>1. TypeOK /\ [Next]_vars =>
        [\A op \in Operations :
           InState(op, SettledState) => journal'[op] = journal[op]]_vars
  <2> SUFFICES ASSUME TypeOK, [Next]_vars, NEW op \in Operations,
                      InState(op, SettledState)
               PROVE  journal'[op] = journal[op]
    OBVIOUS
  <2>1. RowMove(op)
    BY StepMovesRows
  <2>2. QED
    BY <2>1 DEF RowMove
<1>2. QED
  BY TypeCorrect, <1>1, PTL DEF Spec, SettledIsFinal

-----------------------------------------------------------------------------
(* The journal implements AtMostOnce: a step of the program is one step of *)
(* the promise or leaves phase and effects alone.                          *)
LEMMA InitKeepsPromise == Init => Promise!Init
  BY DEF Init, Promise!Init, phaseBar, PhaseOf

(* A move of one row is the corresponding move of its phase.               *)
LEMMA RowMoveKeepsPromise ==
  ASSUME NEW op \in Operations, RowMove(op), journal'[op] # journal[op],
         journal[op] \in Entry \cup {NoEntry}, journal'[op] \in Entry \cup {NoEntry},
         \A o \in Operations \ {op} : journal'[o] = journal[o],
         UNCHANGED effects
  PROVE  Promise!Next \/ UNCHANGED <<phaseBar, effects>>
<1>1. phaseBar' = [phaseBar EXCEPT ![op] = phaseBar'[op]]
  <2>1. ASSUME NEW o \in Operations, o # op PROVE PhaseOf(o)' = PhaseOf(o)
    <3>1. journal'[o] = journal[o]
      BY <2>1
    <3>2. QED
      BY <3>1 DEF PhaseOf
  <2>2. QED
    BY <2>1 DEF phaseBar
<1>2. \/ phaseBar'[op] = phaseBar[op]
      \/ phaseBar[op] = "none" /\ phaseBar'[op] = "open"
      \/ phaseBar[op] = "open" /\ phaseBar'[op] \in {"answered", "unknown"}
  BY DEF phaseBar, PhaseOf, RowMove
<1>3. CASE phaseBar'[op] = phaseBar[op]
  BY <1>1, <1>3 DEF phaseBar
<1>4. CASE phaseBar[op] = "none" /\ phaseBar'[op] = "open"
  BY <1>1, <1>4 DEF Promise!Next, Promise!Open
<1>5. CASE phaseBar[op] = "open" /\ phaseBar'[op] = "answered"
  BY <1>1, <1>5 DEF Promise!Next, Promise!Answer
<1>6. CASE phaseBar[op] = "open" /\ phaseBar'[op] = "unknown"
  BY <1>1, <1>6 DEF Promise!Next, Promise!GiveUp
<1>7. QED
  BY <1>2, <1>3, <1>4, <1>5, <1>6

(* Under the invariant a step of the program is a step of the promise.     *)
LEMMA StepKeepsPromise ==
  IInv /\ IInv' /\ [Next]_vars => [Promise!Next]_<<phaseBar, effects>>
<1> SUFFICES ASSUME IInv, IInv', [Next]_vars
             PROVE  Promise!Next \/ UNCHANGED <<phaseBar, effects>>
  OBVIOUS
<1>t. /\ TypeOK
      /\ journal \in [Operations -> Entry \cup {NoEntry}]
      /\ journal' \in [Operations -> Entry \cup {NoEntry}]
  BY DEF IInv, TypeOK
<1>1. ASSUME NEW op \in Operations, UNCHANGED effects,
             \A o \in Operations \ {op} : journal'[o] = journal[o]
      PROVE  Promise!Next \/ UNCHANGED <<phaseBar, effects>>
  <2>1. CASE journal'[op] = journal[op]
    <3>1. journal' = journal
      BY <1>1, <1>t, <2>1
    <3>2. QED
      BY <1>1, <3>1 DEF phaseBar, PhaseOf
  <2>2. CASE journal'[op] # journal[op]
    <3>1. RowMove(op)
      BY <1>t, StepMovesRows
    <3>2. QED
      BY <1>1, <1>t, <2>2, <3>1, RowMoveKeepsPromise
  <2>3. QED
    BY <2>1, <2>2
<1>2. ASSUME NEW c \in Callers, BeginInsert(c) \/ MarkDispatched(c) \/ Complete(c)
      PROVE  Promise!Next \/ UNCHANGED <<phaseBar, effects>>
  <2>1. PICK op \in Operations : op = caller[c].op
    BY <1>t DEF TypeOK
  <2>2. UNCHANGED effects /\ \A o \in Operations \ {op} : journal'[o] = journal[o]
    BY <1>2, <1>t, <2>1 DEF BeginInsert, MarkDispatched, Complete, Transition
  <2>3. QED
    BY <1>1, <2>2
<1>3. ASSUME NEW s \in Sweepers, NEW op \in Operations, MarkUncertain(s, op)
      PROVE  Promise!Next \/ UNCHANGED <<phaseBar, effects>>
  <2>1. UNCHANGED effects /\ \A o \in Operations \ {op} : journal'[o] = journal[o]
    BY <1>3, <1>t DEF MarkUncertain, Transition
  <2>2. QED
    BY <1>1, <2>1
<1>4. ASSUME NEW c \in Callers, CallOutside(c)
      PROVE  Promise!Next \/ UNCHANGED <<phaseBar, effects>>
  <2>1. PICK op \in Operations : op = caller[c].op
    BY <1>t DEF TypeOK
  <2>2. Engaged(c) /\ effects[op] = 0 /\ UNCHANGED journal
    BY <1>4, <2>1 DEF CallOutside, IInv, NotYetCalled
  <2>3. phaseBar[op] \in {"open", "unknown"} /\ UNCHANGED phaseBar
    BY <2>1, <2>2 DEF IInv, EngagedOnOpenRow, phaseBar, PhaseOf
  <2>4. PICK happened \in {0, 1} : effects' = [effects EXCEPT ![op] = @ + happened]
    BY <1>4, <2>1 DEF CallOutside
  <2>5. CASE happened = 0
    BY <1>t, <2>2, <2>3, <2>4, <2>5 DEF TypeOK
  <2>6. CASE happened = 1
    <3>1. effects' = [effects EXCEPT ![op] = 1]
      BY <2>2, <2>4, <2>6
    <3>2. QED
      BY <2>2, <2>3, <3>1 DEF Promise!Next, Promise!Act
  <2>7. QED
    BY <2>5, <2>6
<1>5. CASE UNCHANGED <<journal, effects>>
  BY <1>5 DEF phaseBar, PhaseOf
<1>6. QED
  BY <1>2, <1>3, <1>4, <1>5
     DEF Next, CallerStep, SweepStep, BeginLookup, Refuse, CrashCaller, SweepList,
         CrashSweep, vars

(* The journal keeps the at-most-once promise its callers rely on.         *)
THEOREM JournalKeepsPromise == Spec => KeepsPromise
<1>1. IInv /\ [Next]_vars => [Promise!Next]_<<phaseBar, effects>>
  BY StepIInv, StepKeepsPromise
<1>2. QED
  BY InitKeepsPromise, Inductive, <1>1, PTL DEF Spec, KeepsPromise, Promise!Spec
=============================================================================
