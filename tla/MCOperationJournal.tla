------------------------- MODULE MCOperationJournal -------------------------
(* Instances of OperationJournal for TLC.  Two callers race for the ids,   *)
(* one id is asked for with two subjects, a sweep runs beside them.        *)
EXTENDS OperationJournal

CONSTANTS op1, op2, c1, c2, s1, s2

MCOperations == {op1, op2}
MCSubjects == {"supervision", "model"}
OneSubject == {"supervision"}
MCCallers == {c1, c2}
MCSweepers == {s1, s2}
OneSweeper == {s1}
=============================================================================
