----------------------------- MODULE AtMostOnce -----------------------------
(***************************************************************************)
(* What the operation journal promises to the code that performs effects   *)
(* outside the runtime (model calls, adapter processes, browser and        *)
(* desktop batches, supervised work):                                      *)
(*                                                                         *)
(*   - no effect happens before its operation was opened durably;          *)
(*   - an operation has its effect at most once, whoever asks for it;      *)
(*   - once the answer is recorded nothing more happens to it, and an      *)
(*     operation whose outcome was given up stays unknown for ever.        *)
(*                                                                         *)
(* Processes, crashes and lookups are absent here; OperationJournal is     *)
(* shown to implement this module.                                         *)
(***************************************************************************)
EXTENDS Naturals

CONSTANT Operations

VARIABLES phase,      \* phase[op]: where the operation stands
          effects     \* effects[op]: how often the outside effect happened

Phase == {"none", "open", "answered", "unknown"}

Init ==
  /\ phase = [op \in Operations |-> "none"]
  /\ effects = [op \in Operations |-> 0]

Open(op) ==
  /\ phase[op] = "none"
  /\ phase' = [phase EXCEPT ![op] = "open"]
  /\ UNCHANGED effects

(* The effect may still happen after its outcome was given up: giving up   *)
(* is a statement about knowledge, it stops nobody.                        *)
Act(op) ==
  /\ phase[op] \in {"open", "unknown"}
  /\ effects[op] = 0
  /\ effects' = [effects EXCEPT ![op] = 1]
  /\ UNCHANGED phase

Answer(op) ==
  /\ phase[op] = "open"
  /\ phase' = [phase EXCEPT ![op] = "answered"]
  /\ UNCHANGED effects

GiveUp(op) ==
  /\ phase[op] = "open"
  /\ phase' = [phase EXCEPT ![op] = "unknown"]
  /\ UNCHANGED effects

Next == \E op \in Operations : Open(op) \/ Act(op) \/ Answer(op) \/ GiveUp(op)

Spec == Init /\ [][Next]_<<phase, effects>>
=============================================================================
