------------------------------- MODULE Permit -------------------------------
(***************************************************************************)
(* What an approval promises: it opens its gate once, after it was         *)
(* granted, whatever is restored, retried or raced for.  Approvals is      *)
(* shown to implement this module.                                         *)
(***************************************************************************)
EXTENDS Naturals

CONSTANT Permits

VARIABLES granted,     \* permits somebody entitled has granted
          uses         \* uses[a]: how often permit a has opened its gate

Init == granted = {} /\ uses = [a \in Permits |-> 0]

Grant(a) == granted' = granted \cup {a} /\ UNCHANGED uses

Use(a) ==
  /\ a \in granted
  /\ uses[a] = 0
  /\ uses' = [uses EXCEPT ![a] = 1]
  /\ UNCHANGED granted

Next == \E a \in Permits : Grant(a) \/ Use(a)

Spec == Init /\ [][Next]_<<granted, uses>>
=============================================================================
