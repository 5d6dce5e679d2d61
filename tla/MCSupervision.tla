--------------------------- MODULE MCSupervision ---------------------------
(* Instances of Supervision for TLC.                                       *)
EXTENDS Supervision, TLC

CONSTANTS n1, n2, p1, p2

OneNode == {n1}
TwoNodes == {n1, n2}
NoEdges == {}
Chain == {<<n1, n2>>}
OneSupervisor == {p1}
TwoSupervisors == {p1, p2}
EitherSupervisor == Permutations(TwoSupervisors)
NoLimits == {}
OneLimit == {"budget-exhausted"}
=============================================================================
