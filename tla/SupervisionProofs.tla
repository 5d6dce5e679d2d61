-------------------------- MODULE SupervisionProofs --------------------------
(***************************************************************************)
(* Proofs about Supervision, for any graph, any number of supervisors and  *)
(* any limits.                                                             *)
(*                                                                         *)
(* Truth.  A node is called completed in many places before the graph says *)
(* so: in the copy a supervisor took, in the one it is about to write, in  *)
(* the checkpoint of a reconciliation.  Truthful says of each of them what *)
(* NoFabricatedCompletion says of the graph; it needs that a journal row   *)
(* which says "succeeded" keeps saying so (InHandIsDispatched).            *)
(*                                                                         *)
(* Gates.  A supervisor acts on a copy of the graph.  The revision it      *)
(* compares tells it whether the copy is the graph only if no two graphs   *)
(* ever carry the same number (CopiesAreNumbered), and that is so as long  *)
(* as putWorkGraph is not overtaken inside and nobody works beside the     *)
(* reconciliation, whose restore takes numbers back (Quiet).               *)
(*                                                                         *)
(* Verdicts.  What a supervisor reports it read from a copy.  A node that  *)
(* has ended, completed or cancelled, stays as it ended (VerdictInv), so   *)
(* these two reports speak of the graph as it is.                          *)
(*                                                                         *)
(* Turns.  A cycle that puts an item to running holds it until its outcome *)
(* is written, so that a graph which says running keeps others off it, and *)
(* what a cycle is to start was ready in the very revision it writes over  *)
(* (TurnInv).  A leftover plan of another cycle gets in only under a team  *)
(* id that both counted, or by a cancellation: such attempts are disturbed.*)
(*                                                                         *)
(* Retries.  The attempts at an item are numbered without a gap, only the  *)
(* last of them may be recorded as running, and then no graph in hand      *)
(* offers the item (RetryInv).  A cycle gives its assignments a team id    *)
(* that no other has, and so starts none but the newest at their items.    *)
(*                                                                         *)
(* Places.  Beside other supervisors the numbers still have no gap         *)
(* (NumberInv), though a running attempt need not have the last of them.   *)
(* At an item whose attempts are undisturbed it is the latest that was     *)
(* dispatched, the cycle that holds the item is its own, and the graph     *)
(* keeps everybody else off it (PlaceInv).                                 *)
(***************************************************************************)
EXTENDS Supervision, FiniteSetTheorems, FunctionTheorems, WellFoundedInduction, TLAPS

Pcs == {"idle", "cycle", "promote", "form", "staff", "plan", "list", "start", "mark",
        "work", "record", "close"}

Answer == {"none", "awaited", "conflict"} \cup Outcome

Call ==
  [pc : Pcs, snap : Graph, next : [Nodes -> NodeStatus], checked : BOOLEAN, team : Nat,
   members : SUBSET Nodes, running : SUBSET Attempts, todo : SUBSET Attempts,
   chunk : SUBSET Attempts, outcome : [Attempts -> Answer], rounds : Nat,
   stop : StopReason \cup {"none", "rejected", "crashed"}]

(* Every assignment of a cycle that is not waiting has its outcome.        *)
Accounted(s) ==
  /\ s.pc = "work" => \A a \in s.running \ (s.todo \cup s.chunk) : s.outcome[a] \in Outcome
  /\ s.pc = "record" => s.todo \subseteq s.running /\ \A a \in s.running : s.outcome[a] \in Outcome

CancellerTyped ==
  /\ canceller \in [pc : {"idle", "put", "graph"}, attempt : Attempts \cup {NoAssignment}, team : Nat]
  /\ canceller.pc # "idle" => canceller.attempt \in Attempts

RecoveryTyped ==
  /\ recovery = [pc |-> recovery.pc, running |-> recovery.running, todo |-> recovery.todo,
                 saved |-> recovery.saved]
  /\ recovery.pc \in {"idle", "put", "graph", "receipt"}
  /\ recovery.running \subseteq Attempts /\ recovery.todo \subseteq Attempts
  /\ recovery.pc # "idle" =>
       /\ recovery.saved.graph \in Graph
       /\ recovery.saved.assignments \in [Attempts -> Assignment \cup {NoAssignment}]
       /\ recovery.saved.heads \subseteq teams.rows
       /\ \A a \in recovery.running : recovery.saved.assignments[a] # NoAssignment
       /\ recovery.todo \subseteq recovery.running

TypeInv ==
  /\ TypeOK
  /\ sup \in [Supervisors -> Call]
  /\ \A p \in Supervisors : Accounted(sup[p])
  /\ teams = [heads |-> teams.heads, rows |-> teams.rows]
  /\ IsFiniteSet(teams.rows)
  /\ CancellerTyped
  /\ RecoveryTyped

-----------------------------------------------------------------------------
(* An executor has the attempt only while the journal says dispatched, and *)
(* a cycle holds a claim only on an attempt that was dispatched.           *)
InHandIsDispatched ==
  \A a \in Attempts :
    /\ worker[a] # NoSupervisor => journal[a] = "dispatched"
    /\ \A p \in Supervisors :
         /\ sup[p].outcome[a] \in {"awaited", "succeeded"} => journal[a] # "none"
         /\ sup[p].outcome[a] = "succeeded" => journal[a] = "succeeded"

Done(n) == \E a \in Attempts : a[1] = n /\ journal[a] = "succeeded"

TrueStatus(status) == \A n \in Nodes : status[n] = "completed" => Done(n)

TrueAssignments(f) ==
  \A a \in Attempts :
    f[a] # NoAssignment /\ f[a].status = "succeeded" => journal[a] = "succeeded"

Truthful ==
  /\ TrueStatus(graph.status) /\ TrueAssignments(assignments)
  /\ \A p \in Supervisors : TrueStatus(sup[p].snap.status) /\ TrueStatus(sup[p].next)
  /\ recovery.pc # "idle" =>
       TrueStatus(recovery.saved.graph.status) /\ TrueAssignments(recovery.saved.assignments)

TruthInv == TypeInv /\ InHandIsDispatched /\ OneRunnerPerAttempt /\ Truthful

-----------------------------------------------------------------------------
(* What the theorems about gates ask of the home: putWorkGraph is not      *)
(* overtaken inside, and nobody works beside the reconciliation.           *)
Orderly == ~RacyGraphs /\ ~RecoverBesideLive

(* While the reconciliation runs nobody else does.                         *)
Quiet ==
  recovery.pc # "idle" =>
    /\ canceller.pc = "idle"
    /\ \A p \in Supervisors : sup[p].pc = "idle"

SavedIsCurrent ==
  /\ recovery.pc \in {"put", "graph"} => recovery.saved.graph = graph
  /\ recovery.pc = "receipt" => recovery.saved.graph.version <= graph.version

(* A copy with the number of the graph is the graph.                       *)
Numbered(s, g) ==
  s.pc \notin {"idle", "cycle"} =>
    /\ s.snap.revision <= g.revision
    /\ s.snap.revision = g.revision => s.snap = g

CopiesAreNumbered == \A p \in Supervisors : Numbered(sup[p], graph)

InOrder(status) ==
  \A n \in Nodes : status[n] \notin {"pending", "cancelled"} =>
    \A m \in Nodes : <<m, n>> \in DependsOn => status[m] = "completed"

GatesDecided(g) == \A n \in g.gated : g.status[n] \in {"completed", "cancelled"}

(* What a supervisor is about to write, and what it has decided, about the *)
(* copy it has.                                                            *)
Sensible(s) ==
  /\ ~s.checked
  /\ s.pc = "promote" =>
       \A n \in Nodes : s.next[n] # s.snap.status[n] =>
         s.next[n] = "ready" /\ dependenciesSatisfied(s.snap, n)
  /\ s.pc \in {"form", "staff", "plan", "list", "start"} => GatesDecided(s.snap)
  /\ s.pc = "start" =>
       \A n \in Nodes : s.next[n] # s.snap.status[n] => s.next[n] = "running"
  /\ s.pc = "close" =>
       \A n \in Nodes : s.next[n] # s.snap.status[n] =>
         s.next[n] \in {"completed", "failed", "cancelled"}

GateInv ==
  /\ TypeInv
  /\ DependencyGate
  /\ recovery.pc # "idle" => InOrder(recovery.saved.graph.status)
  /\ Quiet /\ SavedIsCurrent /\ CopiesAreNumbered
  /\ \A p \in Supervisors : Sensible(sup[p])

-----------------------------------------------------------------------------
USE SupervisionAssumption DEF SupervisionAssumption

(* What the writes leave is well formed.                                   *)
LEMMA WrittenGraph ==
  ASSUME graph \in Graph, NEW snap \in Graph, NEW next \in [Nodes -> NodeStatus]
  PROVE  /\ NextGraph(snap, next) \in Graph
         /\ NextGraph(snap, next).status = next
         /\ NextGraph(snap, next).revision = snap.revision + 1
         /\ NextGraph(snap, next).version = graph.version + 1
         /\ NextGraph(snap, next).gated = snap.gated
  BY DEF Graph, NextGraph

LEMMA WrittenAssignment ==
  ASSUME assignments \in [Attempts -> Assignment \cup {NoAssignment}],
         NEW a \in Attempts, NEW status \in AssignmentStatus, NEW team \in Nat,
         PutAssignment(a, status, team)
  PROVE  /\ assignments' \in [Attempts -> Assignment \cup {NoAssignment}]
         /\ assignments'[a].status = status
         /\ assignments'[a].team = team
         /\ \A b \in Attempts \ {a} : assignments'[b] = assignments[b]
  BY DEF PutAssignment, Assignment, Recorded

LEMMA WrittenTeam ==
  ASSUME teams = [heads |-> teams.heads, rows |-> teams.rows],
         teams.heads \subseteq teams.rows, IsFiniteSet(teams.rows),
         NEW team, PutTeam(team)
  PROVE  /\ teams' = [heads |-> teams'.heads, rows |-> teams'.rows]
         /\ teams'.heads \subseteq teams'.rows /\ teams.rows \subseteq teams'.rows
         /\ IsFiniteSet(teams'.rows)
<1>1. /\ teams'.heads = teams.heads \cup {NextVersion(team)}
      /\ teams'.rows = teams.rows \cup {NextVersion(team)}
      /\ teams' = [heads |-> teams'.heads, rows |-> teams'.rows]
  BY DEF PutTeam
<1>2. IsFiniteSet(teams'.rows)
  BY <1>1, FS_AddElement
<1>3. QED
  BY <1>1, <1>2

(* There are finitely many attempts at an item and finitely many teams.    *)
LEMMA AttemptsCounted ==
  ASSUME NEW n \in Nodes
  PROVE  IsFiniteSet(previousAttempts(n)) /\ Cardinality(previousAttempts(n)) \in Nat
<1>1. IsFiniteSet({n}) /\ IsFiniteSet(1 .. MaxAttempts)
  <2>1. 1 \in Int /\ MaxAttempts \in Int
    OBVIOUS
  <2>2. QED
    BY <2>1, FS_Singleton, FS_Interval
<1>2. IsFiniteSet({n} \X (1 .. MaxAttempts))
  BY <1>1, FS_Product
<1>3. previousAttempts(n) \subseteq {n} \X (1 .. MaxAttempts)
  BY DEF previousAttempts, Recorded, Attempts
<1>4. QED
  BY <1>2, <1>3, FS_Subset, FS_CardinalityType

LEMMA TeamsCounted ==
  ASSUME teams.heads \subseteq teams.rows, IsFiniteSet(teams.rows)
  PROVE  Cardinality(TeamIds) \in Nat
<1>1. IsFiniteSet(teams.heads)
  BY FS_Subset
<1>2. [t \in teams.heads |-> t[1]] \in Surjection(teams.heads, TeamIds)
  BY Fun_IsSurj DEF TeamIds
<1>3. IsFiniteSet(TeamIds)
  BY <1>1, <1>2, FS_Surjection
<1>4. QED
  BY <1>3, FS_CardinalityType

(* Of the attempts at one item in a cycle one is the first.                *)
LEMMA FirstAttempt ==
  ASSUME NEW S \in SUBSET Attempts, S # {}
  PROVE  \E b \in S : \A c \in S : b[2] <= c[2]
<1> DEFINE Q == {1 .. b[2] : b \in S}
           R == StrictSubsetOrdering(Nat)
<1>1. Q \subseteq FiniteSubsetsOf(Nat) /\ Q # {}
  <2>1. \A b \in S : b[2] \in Nat
    BY DEF Attempts
  <2>2. ASSUME NEW k \in Nat PROVE 1 .. k \subseteq Nat /\ IsFiniteSet(1 .. k)
    <3>1. 1 \in Int /\ k \in Int
      OBVIOUS
    <3>2. IsFiniteSet(1 .. k)
      BY <3>1, FS_Interval
    <3>3. QED
      BY <3>2
  <2>3. QED
    BY <2>1, <2>2 DEF FiniteSubsetsOf
<1>2. IsWellFoundedOn(R, FiniteSubsetsOf(Nat))
  BY FS_StrictSubsetOrderingWellFounded
<1>3. PICK q \in Q : \A r \in Q : <<r, q>> \notin R
  <2> HIDE DEF Q, R
  <2>1. QED
    BY <1>1, <1>2, WFMin
<1>4. PICK b \in S : q = 1 .. b[2]
  BY <1>3
<1>5. ASSUME NEW c \in S PROVE b[2] <= c[2]
  <2>1. b[2] \in Nat /\ c[2] \in Nat
    BY SMTT(40) DEF Attempts
  <2>2. <<1 .. c[2], 1 .. b[2]>> \notin R
    BY <1>3, <1>4
  <2>3. SUFFICES ASSUME c[2] < b[2] PROVE FALSE
    BY <2>1
  <2>4. 1 .. c[2] \subseteq 1 .. b[2] /\ b[2] \in 1 .. b[2] /\ b[2] \notin 1 .. c[2]
    BY <2>1, <2>3, SMTT(40)
  <2>5. 1 .. c[2] \in SUBSET Nat /\ 1 .. b[2] \in SUBSET Nat
    BY <2>1, SMTT(40)
  <2>6. QED
    BY <2>2, <2>4, <2>5 DEF StrictSubsetOrdering
<1>6. QED
  BY <1>5

-----------------------------------------------------------------------------
(* Types.                                                                  *)

DocumentsTyped ==
  /\ graph \in Graph
  /\ assignments \in [Attempts -> Assignment \cup {NoAssignment}]
  /\ teams = [heads |-> teams.heads, rows |-> teams.rows]
  /\ teams.heads \subseteq teams.rows
  /\ IsFiniteSet(teams.rows)
  /\ journal \in [Attempts -> {"none", "dispatched"} \cup Outcome]
  /\ worker \in [Attempts -> Supervisors \cup {NoSupervisor}]
  /\ behind \in [graph : BOOLEAN, attempts : SUBSET Attempts, cycles : BOOLEAN]

LEMMA TypeInvParts ==
  TypeInv <=> /\ DocumentsTyped
              /\ sup \in [Supervisors -> Call]
              /\ \A p \in Supervisors : Accounted(sup[p])
              /\ CancellerTyped
              /\ RecoveryTyped
  BY DEF TypeInv, TypeOK, DocumentsTyped, Call, Answer

LEMMA BlankIsCall ==
  ASSUME NEW stop \in StopReason \cup {"none", "rejected", "crashed"}
  PROVE  Blank(stop) \in Call /\ Accounted(Blank(stop))
  BY DEF Blank, Call, Graph, NodeStatus, Answer, Accounted, Pcs

LEMMA TypeInvInit == Init => TypeInv
<1> SUFFICES ASSUME Init PROVE TypeInv
  OBVIOUS
<1>1. graph \in Graph
  BY DEF Init, Graph, NodeStatus
<1>2. IsFiniteSet(teams.rows)
  BY FS_EmptySet DEF Init
<1>3. DocumentsTyped
  BY <1>1, <1>2 DEF Init, DocumentsTyped
<1>4. sup \in [Supervisors -> Call] /\ \A p \in Supervisors : Accounted(sup[p])
  BY BlankIsCall DEF Init, Blank
<1>5. CancellerTyped /\ RecoveryTyped
  BY DEF Init, CancellerTyped, RecoveryTyped
<1>6. QED
  BY <1>3, <1>4, <1>5, TypeInvParts

(* A step of one supervisor that leaves the documents well formed.         *)
LEMMA SupervisorTyped ==
  ASSUME TypeInv, NEW p \in Supervisors,
         sup' = [sup EXCEPT ![p] = sup'[p]], sup'[p] \in Call, Accounted(sup'[p]),
         DocumentsTyped', teams.rows \subseteq teams'.rows, UNCHANGED <<canceller, recovery>>
  PROVE  TypeInv'
<1>1. sup' \in [Supervisors -> Call] /\ \A q \in Supervisors : Accounted(sup[q])'
  BY TypeInvParts DEF Accounted
<1>2. CancellerTyped' /\ RecoveryTyped'
  BY TypeInvParts DEF CancellerTyped, RecoveryTyped
<1>3. QED
  BY <1>1, <1>2 DEF TypeInv, TypeOK, DocumentsTyped, Call, Answer

LEMMA LeaveTyped ==
  ASSUME TypeInv, NEW p \in Supervisors,
         NEW stop \in StopReason \cup {"none", "rejected", "crashed"}, Leave(p, stop),
         DocumentsTyped', teams.rows \subseteq teams'.rows, UNCHANGED <<canceller, recovery>>
  PROVE  TypeInv'
<1>1. sup'[p] = Blank(stop) /\ sup' = [sup EXCEPT ![p] = sup'[p]]
  BY TypeInvParts DEF Leave
<1>2. QED
  BY <1>1, BlankIsCall, SupervisorTyped

LEMMA ReportTyped ==
  ASSUME TypeInv, NEW p \in Supervisors, NEW stop \in StopReason, Report(p, stop),
         DocumentsTyped', teams.rows \subseteq teams'.rows, UNCHANGED <<canceller, recovery>>
  PROVE  TypeInv'
  BY LeaveTyped DEF Report

LEMMA DocumentsKept ==
  ASSUME TypeInv, UNCHANGED <<durable, worker>>
  PROVE  DocumentsTyped' /\ teams.rows \subseteq teams'.rows
  BY TypeInvParts DEF DocumentsTyped, durable

LEMMA GraphPut ==
  ASSUME TypeInv, NEW p \in Supervisors, UpdateGraph(p),
         UNCHANGED <<assignments, journal, behind, worker>>, UNCHANGED teams
  PROVE  DocumentsTyped' /\ teams.rows \subseteq teams'.rows
<1>1. graph' \in Graph
  BY TypeInvParts, WrittenGraph DEF DocumentsTyped, UpdateGraph, Call
<1>2. QED
  BY <1>1, TypeInvParts DEF DocumentsTyped

LEMMA TeamPut ==
  ASSUME TypeInv, NEW team, PutTeam(team),
         UNCHANGED <<assignments, journal, behind, worker>>, graph' \in Graph
  PROVE  DocumentsTyped' /\ teams.rows \subseteq teams'.rows
  BY TypeInvParts, WrittenTeam DEF DocumentsTyped

LEMMA AssignmentPut ==
  ASSUME TypeInv, NEW a \in Attempts, NEW status \in AssignmentStatus, NEW team \in Nat,
         PutAssignment(a, status, team), UNCHANGED <<graph, teams, journal, behind, worker>>
  PROVE  DocumentsTyped' /\ teams.rows \subseteq teams'.rows
  BY TypeInvParts, WrittenAssignment DEF DocumentsTyped

LEMMA DecideTyped ==
  ASSUME TypeInv, NEW p \in Supervisors, NEW g \in Graph, Decide(p, g), sup[p].pc = "promote",
         DocumentsTyped', teams.rows \subseteq teams'.rows, UNCHANGED <<canceller, recovery>>
  PROVE  TypeInv'
<1> PICK limit \in Limits \cup {"none"} :
      LET reason == StopReasonForGraph(g, limit)
          runnable == {n \in Nodes : Runnable(g, n)}
      IN \/ reason # "none" /\ Report(p, reason)
         \/ /\ reason = "none" /\ runnable = {}
            /\ IF \E n \in Nodes : g.status[n] \in {"pending", "blocked", "running"}
               THEN Report(p, "blocked") ELSE Report(p, "idle")
         \/ /\ reason = "none" /\ runnable # {}
            /\ sup' = [sup EXCEPT ![p].pc = "form", ![p].snap = g, ![p].checked = FALSE]
  BY DEF Decide
<1>1. StopReasonForGraph(g, limit) \in StopReason \cup {"none"}
  BY DEF StopReasonForGraph, StopReason
<1>2. ASSUME NEW stop \in StopReason, Report(p, stop) PROVE TypeInv'
  BY <1>2, ReportTyped
<1>3. CASE sup' = [sup EXCEPT ![p].pc = "form", ![p].snap = g, ![p].checked = FALSE]
  <2>1. /\ sup'[p] = [sup[p] EXCEPT !.pc = "form", !.snap = g, !.checked = FALSE]
        /\ sup' = [sup EXCEPT ![p] = sup'[p]]
    BY <1>3, TypeInvParts
  <2>2. sup'[p] \in Call /\ Accounted(sup'[p])
    <3>1. sup'[p].pc \notin {"work", "record"}
      BY <2>1, TypeInvParts DEF Call
    <3>2. sup'[p] \in Call
      BY <2>1, TypeInvParts, ZenonT(40) DEF Call, Pcs
    <3>3. QED
      BY <3>1, <3>2 DEF Accounted
  <2>3. QED
    BY <2>1, <2>2, SupervisorTyped
<1>4. "blocked" \in StopReason /\ "idle" \in StopReason
  BY DEF StopReason
<1>5. QED
  BY <1>1, <1>2, <1>3, <1>4

LEMMA SupervisorKeepsTypes ==
  ASSUME TypeInv, NEW p \in Supervisors,
         Supervise(p) \/ SupervisorStep(p) \/ Abort(p) \/ Crash(p)
  PROVE  TypeInv'
<1>t. /\ DocumentsTyped /\ sup \in [Supervisors -> Call] /\ Accounted(sup[p])
      /\ sup[p] \in Call
  BY TypeInvParts
<1> DEFINE Moves(s) == sup'[p] = s /\ sup' = [sup EXCEPT ![p] = sup'[p]]
<1>r. {"rejected", "crashed", "none"} \subseteq StopReason \cup {"none", "rejected", "crashed"}
  OBVIOUS
<1>1. CASE Supervise(p)
  <2>1. Moves([sup[p] EXCEPT !.pc = "cycle", !.stop = "none"])
    BY <1>1, <1>t DEF Supervise
  <2>2. sup'[p] \in Call /\ Accounted(sup'[p])
    BY <2>1, <1>t DEF Call, Pcs, Accounted
  <2>3. DocumentsTyped' /\ teams.rows \subseteq teams'.rows /\ UNCHANGED <<canceller, recovery>>
    BY <1>1, DocumentsKept DEF Supervise
  <2>4. QED
    BY <2>1, <2>2, <2>3, SupervisorTyped
<1>2. CASE CycleRead(p)
  <2>1. DocumentsTyped' /\ teams.rows \subseteq teams'.rows /\ UNCHANGED <<canceller, recovery>>
    BY <1>2, DocumentsKept DEF CycleRead, Others
  <2>2. CASE Leave(p, "cancelled")
    <3>1. "cancelled" \in StopReason
      BY DEF StopReason
    <3>2. QED
      BY <2>1, <2>2, <3>1, LeaveTyped
  <2>3. CASE sup' = [sup EXCEPT ![p].pc = "promote", ![p].snap = graph, ![p].next = Promoted(graph)]
    <3>1. Moves([sup[p] EXCEPT !.pc = "promote", !.snap = graph, !.next = Promoted(graph)])
      BY <2>3, <1>t
    <3>2. Promoted(graph) \in [Nodes -> NodeStatus]
      BY <1>t DEF DocumentsTyped, Promoted, Graph, NodeStatus
    <3>3. sup'[p] \in Call /\ Accounted(sup'[p])
      <4>1. sup'[p].pc \notin {"work", "record"}
        BY <3>1, <3>2, <1>t DEF Call
      <4>2. sup'[p] \in Call
        BY <3>1, <3>2, <1>t, ZenonT(40) DEF Call, Pcs, DocumentsTyped
      <4>3. QED
        BY <4>1, <4>2 DEF Accounted
    <3>4. QED
      BY <2>1, <3>1, <3>3, SupervisorTyped
  <2>4. QED
    BY <1>2, <2>2, <2>3 DEF CycleRead
<1>3. CASE AssertRevision(p)
  <2>1. Moves([sup[p] EXCEPT !.checked = TRUE])
    BY <1>3, <1>t DEF AssertRevision
  <2>2. sup'[p] \in Call /\ Accounted(sup'[p])
    BY <2>1, <1>t DEF Call, Accounted
  <2>3. DocumentsTyped' /\ teams.rows \subseteq teams'.rows /\ UNCHANGED <<canceller, recovery>>
    BY <1>3, DocumentsKept DEF AssertRevision, Others
  <2>4. QED
    BY <2>1, <2>2, <2>3, SupervisorTyped
<1>4. CASE Promote(p)
  <2>1. UNCHANGED <<canceller, recovery>>
    BY <1>4 DEF Promote, Others
  <2>2. CASE Decide(p, sup[p].snap) /\ UNCHANGED graph
    <3>1. DocumentsTyped' /\ teams.rows \subseteq teams'.rows
      BY <1>4, <2>2, DocumentsKept DEF Promote, durable
    <3>2. sup[p].snap \in Graph /\ sup[p].pc = "promote"
      BY <1>4, <1>t DEF Call, Promote
    <3>3. QED
      BY <2>1, <2>2, <3>1, <3>2, DecideTyped
  <2>3. CASE UpdateGraph(p) /\ Decide(p, NextGraph(sup[p].snap, sup[p].next))
    <3>1. DocumentsTyped' /\ teams.rows \subseteq teams'.rows
      BY <1>4, <2>3, GraphPut DEF Promote
    <3>2. NextGraph(sup[p].snap, sup[p].next) \in Graph /\ sup[p].pc = "promote"
      BY <1>4, <1>t, WrittenGraph DEF Call, Promote, DocumentsTyped
    <3>3. QED
      BY <2>1, <2>3, <3>1, <3>2, DecideTyped
  <2>4. CASE RejectUpdate(p)
    <3>1. DocumentsTyped' /\ teams.rows \subseteq teams'.rows
      BY <1>4, <2>4, DocumentsKept DEF Promote, RejectUpdate, durable
    <3>2. QED
      BY <2>1, <2>4, <3>1, <1>r, LeaveTyped DEF RejectUpdate
  <2>5. QED
    BY <1>4, <2>2, <2>3, <2>4 DEF Promote
<1>5. CASE FormTeam(p)
  <2>1. PICK ready \in SUBSET {n \in Nodes : Runnable(graph, n)} :
          sup' = [sup EXCEPT ![p].pc = "staff", ![p].members = ready,
                             ![p].team = Cardinality(TeamIds) + 1]
    BY <1>5 DEF FormTeam
  <2>2. Moves([sup[p] EXCEPT !.pc = "staff", !.members = ready, !.team = Cardinality(TeamIds) + 1])
    BY <2>1, <1>t
  <2>3. Cardinality(TeamIds) + 1 \in Nat /\ ready \in SUBSET Nodes
    BY <1>t, TeamsCounted DEF DocumentsTyped
  <2>4. sup'[p] \in Call /\ Accounted(sup'[p])
    <3> DEFINE count == Cardinality(TeamIds) + 1
    <3> HIDE DEF count
    <3>1. sup'[p] = [sup[p] EXCEPT !.pc = "staff", !.members = ready, !.team = count]
      BY <2>2 DEF count
    <3>2. count \in Nat
      BY <2>3 DEF count
    <3>3. QED
      BY <3>1, <3>2, <2>3, <1>t DEF Call, Pcs, Accounted
  <2>5. DocumentsTyped' /\ teams.rows \subseteq teams'.rows /\ UNCHANGED <<canceller, recovery>>
    BY <1>5, DocumentsKept DEF FormTeam, Others
  <2>6. QED
    BY <2>2, <2>4, <2>5, SupervisorTyped
<1>6. CASE StaffTeam(p)
  <2>1. UNCHANGED <<canceller, recovery>>
    BY <1>6 DEF StaffTeam, Others
  <2>2. CASE PutTeam(sup[p].team) /\ ~Leave(p, "rejected")
    <3>1. DocumentsTyped' /\ teams.rows \subseteq teams'.rows
      BY <1>6, <2>2, <1>t, TeamPut DEF StaffTeam, DocumentsTyped
    <3>2. PICK staffed \in SUBSET {n \in sup[p].members : ~Spent(n)} :
            sup' = [sup EXCEPT
               ![p].pc = IF staffed = {} THEN "list" ELSE "plan",
               ![p].members = {},
               ![p].todo = {<<n, Cardinality(previousAttempts(n)) + 1>> : n \in staffed}]
      BY <1>6, <2>2 DEF StaffTeam
    <3> DEFINE todo == {<<n, Cardinality(previousAttempts(n)) + 1>> : n \in staffed}
    <3>3. todo \subseteq Attempts
      <4>1. \A n \in staffed : n \in Nodes /\ ~Spent(n)
        BY <1>t DEF Call
      <4>2. \A n \in staffed : Cardinality(previousAttempts(n)) + 1 \in 1 .. MaxAttempts
        BY <4>1, AttemptsCounted DEF Spent
      <4>3. QED
        BY <4>1, <4>2 DEF Attempts
    <3>4. Moves([sup[p] EXCEPT !.pc = IF staffed = {} THEN "list" ELSE "plan",
                               !.members = {}, !.todo = todo])
      BY <3>2, <1>t
    <3> HIDE DEF todo
    <3>5. sup'[p] \in Call /\ Accounted(sup'[p])
      <4>1. sup'[p].pc \notin {"work", "record"}
        BY <3>3, <3>4, <1>t DEF Call
      <4>2. sup'[p] \in Call
        BY <3>3, <3>4, <1>t, ZenonT(40) DEF Call, Pcs
      <4>3. QED
        BY <4>1, <4>2 DEF Accounted
    <3>6. QED
      BY <2>1, <3>1, <3>4, <3>5, SupervisorTyped
  <2>3. CASE Leave(p, "rejected") /\ UNCHANGED teams
    <3>1. DocumentsTyped' /\ teams.rows \subseteq teams'.rows
      BY <1>6, <2>3, DocumentsKept DEF StaffTeam, durable
    <3>2. QED
      BY <2>1, <2>3, <3>1, <1>r, LeaveTyped
  <2>4. CASE PutTeam(sup[p].team) /\ Leave(p, "rejected")
    <3>1. DocumentsTyped' /\ teams.rows \subseteq teams'.rows
      BY <1>6, <2>4, <1>t, TeamPut DEF StaffTeam, DocumentsTyped
    <3>2. QED
      BY <2>1, <2>4, <3>1, <1>r, LeaveTyped
  <2>5. QED
    BY <1>6, <2>2, <2>3, <2>4 DEF StaffTeam
<1>7. ASSUME NEW a \in Attempts, PlanAssignment(p, a) PROVE TypeInv'
  <2>1. UNCHANGED <<canceller, recovery>>
    BY <1>7 DEF PlanAssignment, Others
  <2>2. CASE PutAssignment(a, "planned", sup[p].team) /\ ~Leave(p, "rejected")
    <3>1. "planned" \in AssignmentStatus /\ sup[p].team \in Nat
      BY <1>t DEF AssignmentStatus, Call
    <3>2. DocumentsTyped' /\ teams.rows \subseteq teams'.rows
      BY <1>7, <2>2, <3>1, AssignmentPut DEF PlanAssignment
    <3>3. Moves([sup[p] EXCEPT !.todo = @ \ {a},
                               !.pc = IF sup[p].todo = {a} THEN "list" ELSE "plan"])
      BY <1>7, <2>2, <1>t DEF PlanAssignment
    <3>4. PICK pc \in {"list", "plan"}, todo \in SUBSET Attempts :
            sup'[p] = [sup[p] EXCEPT !.todo = todo, !.pc = pc]
      <4>1. sup[p].todo \ {a} \in SUBSET Attempts
        BY <1>t DEF Call
      <4>2. QED
        BY <3>3, <4>1
    <3>5. sup'[p] \in Call /\ Accounted(sup'[p])
      BY <3>4, <1>t DEF Call, Pcs, Accounted
    <3>6. QED
      BY <2>1, <3>2, <3>3, <3>5, SupervisorTyped
  <2>3. CASE Leave(p, "rejected") /\ UNCHANGED assignments
    <3>1. DocumentsTyped' /\ teams.rows \subseteq teams'.rows
      BY <1>7, <2>3, DocumentsKept DEF PlanAssignment, durable
    <3>2. QED
      BY <2>1, <2>3, <3>1, <1>r, LeaveTyped
  <2>4. CASE PutAssignment(a, "planned", sup[p].team) /\ Leave(p, "rejected")
    <3>1. "planned" \in AssignmentStatus /\ sup[p].team \in Nat
      BY <1>t DEF AssignmentStatus, Call
    <3>2. DocumentsTyped' /\ teams.rows \subseteq teams'.rows
      BY <1>7, <2>4, <3>1, AssignmentPut DEF PlanAssignment
    <3>3. QED
      BY <2>1, <2>4, <3>2, <1>r, LeaveTyped
  <2>5. QED
    BY <1>7, <2>2, <2>3, <2>4 DEF PlanAssignment
<1>8. CASE ListPlanned(p)
  <2>1. DocumentsTyped' /\ teams.rows \subseteq teams'.rows /\ UNCHANGED <<canceller, recovery>>
    BY <1>8, DocumentsKept DEF ListPlanned, Others
  <2>2. ASSUME NEW reason \in {"blocked"} \cup BudgetBlocks, Report(p, reason) PROVE TypeInv'
    <3>1. reason \in StopReason
      BY <2>2 DEF BudgetBlocks, StopReason
    <3>2. QED
      BY <2>1, <2>2, <3>1, ReportTyped
  <2>3. CASE \E planned \in SUBSET Attempts :
           sup' = [sup EXCEPT ![p].pc = "start", ![p].running = planned,
             ![p].next = [n \in Nodes |-> IF \E a \in planned : a[1] = n THEN "running"
                                          ELSE sup[p].snap.status[n]]]
    <3>1. PICK planned \in SUBSET Attempts :
           sup' = [sup EXCEPT ![p].pc = "start", ![p].running = planned,
             ![p].next = [n \in Nodes |-> IF \E a \in planned : a[1] = n THEN "running"
                                          ELSE sup[p].snap.status[n]]]
      BY <2>3
    <3> DEFINE next == [n \in Nodes |-> IF \E a \in planned : a[1] = n THEN "running"
                                        ELSE sup[p].snap.status[n]]
    <3>2. next \in [Nodes -> NodeStatus]
      BY <1>t DEF Call, Graph, NodeStatus
    <3>3. Moves([sup[p] EXCEPT !.pc = "start", !.running = planned, !.next = next])
      BY <3>1, <1>t
    <3> HIDE DEF next
    <3>4. sup'[p] \in Call /\ Accounted(sup'[p])
      <4>1. sup'[p].pc \notin {"work", "record"}
        BY <3>2, <3>3, <1>t DEF Call
      <4>2. sup'[p] \in Call
        BY <3>2, <3>3, <1>t, ZenonT(40) DEF Call, Pcs
      <4>3. QED
        BY <4>1, <4>2 DEF Accounted
    <3>5. QED
      BY <2>1, <3>3, <3>4, SupervisorTyped
  <2>4. {a \in InStatus("planned") : assignments[a].team = sup[p].team} \in SUBSET Attempts
    BY DEF InStatus, Recorded
  <2>5. QED
    BY <1>8, <2>2, <2>3, <2>4 DEF ListPlanned
<1>9. CASE StartWork(p)
  <2>1. UNCHANGED <<canceller, recovery>>
    BY <1>9 DEF StartWork, Others
  <2>2. CASE UpdateGraph(p) /\ ~RejectUpdate(p)
    <3> DEFINE g == NextGraph(sup[p].snap, sup[p].next)
    <3>1. DocumentsTyped' /\ teams.rows \subseteq teams'.rows
      BY <1>9, <2>2, GraphPut DEF StartWork
    <3>2. g \in Graph
      BY <1>t, WrittenGraph DEF Call, DocumentsTyped
    <3>3. Moves([sup[p] EXCEPT !.pc = "mark", !.todo = sup[p].running, !.snap = g,
                               !.checked = FALSE])
      BY <1>9, <2>2, <1>t DEF StartWork
    <3> HIDE DEF g
    <3>4. sup'[p] \in Call /\ Accounted(sup'[p])
      BY <3>2, <3>3, <1>t DEF Call, Pcs, Accounted
    <3>5. QED
      BY <2>1, <3>1, <3>3, <3>4, SupervisorTyped
  <2>3. CASE RejectUpdate(p)
    <3>1. DocumentsTyped' /\ teams.rows \subseteq teams'.rows
      BY <1>9, <2>3, DocumentsKept DEF StartWork, RejectUpdate, durable
    <3>2. QED
      BY <2>1, <2>3, <3>1, <1>r, LeaveTyped DEF RejectUpdate
  <2>4. QED
    BY <1>9, <2>2, <2>3 DEF StartWork
<1>10. ASSUME NEW a \in Attempts, MarkRunning(p, a) PROVE TypeInv'
  <2>1. UNCHANGED <<canceller, recovery>>
    BY <1>10 DEF MarkRunning, Others
  <2>2. ASSUME PutAssignment(a, "running", sup[p].team) PROVE DocumentsTyped' /\ teams.rows \subseteq teams'.rows
    <3>1. "running" \in AssignmentStatus /\ sup[p].team \in Nat
      BY <1>t DEF AssignmentStatus, Call
    <3>2. QED
      BY <1>10, <2>2, <3>1, AssignmentPut DEF MarkRunning
  <2>3. CASE PutAssignment(a, "running", sup[p].team) /\ ~Leave(p, "rejected")
    <3>1. Moves([sup[p] EXCEPT
             !.todo = IF sup[p].todo = {a} THEN sup[p].running ELSE @ \ {a},
             !.pc = IF sup[p].todo = {a} THEN "work" ELSE "mark"])
      BY <1>10, <2>3, <1>t DEF MarkRunning
    <3>2. sup'[p] \in Call
      <4>1. PICK pc \in {"work", "mark"}, todo \in SUBSET Attempts :
              sup'[p] = [sup[p] EXCEPT !.todo = todo, !.pc = pc]
        <5>1. sup[p].todo \ {a} \in SUBSET Attempts /\ sup[p].running \in SUBSET Attempts
          BY <1>t DEF Call
        <5>2. QED
          BY <3>1, <5>1
      <4>2. QED
        BY <4>1, <1>t DEF Call, Pcs
    <3>3. Accounted(sup'[p])
      BY <3>1, <1>t DEF Call, Accounted
    <3>4. QED
      BY <2>1, <2>2, <2>3, <3>1, <3>2, <3>3, SupervisorTyped
  <2>4. CASE Leave(p, "rejected") /\ UNCHANGED assignments
    <3>1. DocumentsTyped' /\ teams.rows \subseteq teams'.rows
      BY <1>10, <2>4, DocumentsKept DEF MarkRunning, durable
    <3>2. QED
      BY <2>1, <2>4, <3>1, <1>r, LeaveTyped
  <2>5. CASE PutAssignment(a, "running", sup[p].team) /\ Leave(p, "rejected")
    BY <2>1, <2>2, <2>5, <1>r, LeaveTyped
  <2>6. QED
    BY <1>10, <2>3, <2>4, <2>5 DEF MarkRunning
<1>11. CASE NextChunk(p)
  <2>1. DocumentsTyped' /\ teams.rows \subseteq teams'.rows /\ UNCHANGED <<canceller, recovery>>
    BY <1>11, DocumentsKept DEF NextChunk, Others
  <2>2. ASSUME NEW chunk \in SUBSET sup[p].todo,
               sup' = [sup EXCEPT ![p].chunk = chunk, ![p].todo = @ \ chunk]
        PROVE  TypeInv'
    <3>1. Moves([sup[p] EXCEPT !.chunk = chunk, !.todo = @ \ chunk])
      BY <2>2, <1>t
    <3>2. PICK todo \in SUBSET Attempts : todo = sup[p].todo \ chunk
      BY <1>t DEF Call
    <3>3. sup'[p] \in Call
      BY <3>1, <3>2, <1>t DEF Call
    <3>4. Accounted(sup'[p])
      BY <1>11, <3>1, <1>t DEF Call, Accounted, NextChunk, ChunkIs
    <3>5. QED
      BY <2>1, <3>1, <3>3, <3>4, SupervisorTyped
  <2>3. CASE /\ sup[p].todo = {}
             /\ sup' = [sup EXCEPT ![p].pc = "record", ![p].chunk = {}, ![p].todo = sup[p].running]
    <3>1. Moves([sup[p] EXCEPT !.pc = "record", !.chunk = {}, !.todo = sup[p].running])
      BY <2>3, <1>t
    <3>2. sup'[p] \in Call
      BY <3>1, <1>t DEF Call, Pcs
    <3>3. Accounted(sup'[p])
      BY <1>11, <2>3, <3>1, <1>t DEF Call, Accounted, NextChunk, ChunkIs
    <3>4. QED
      BY <2>1, <3>1, <3>2, <3>3, SupervisorTyped
  <2>4. QED
    BY <1>11, <2>2, <2>3 DEF NextChunk
<1>12. CASE RejectChunk(p)
  <2>1. DocumentsTyped' /\ teams.rows \subseteq teams'.rows /\ UNCHANGED <<canceller, recovery>>
    BY <1>12, DocumentsKept DEF RejectChunk, Others
  <2>2. QED
    BY <1>12, <2>1, <1>r, LeaveTyped DEF RejectChunk
<1>13. ASSUME NEW a \in Attempts, Dispatch(p, a) PROVE TypeInv'
  <2>1. UNCHANGED <<canceller, recovery>> /\ UNCHANGED <<graph, assignments, teams, behind>>
    BY <1>13 DEF Dispatch, Others
  <2>2. DocumentsTyped' /\ teams.rows \subseteq teams'.rows
    BY <1>13, <2>1, <1>t DEF Dispatch, DocumentsTyped
  <2>3. PICK answer \in Answer : sup' = [sup EXCEPT ![p].outcome[a] = answer]
    BY <1>13 DEF Dispatch, Answer, Outcome
  <2>4. Moves([sup[p] EXCEPT !.outcome[a] = answer])
    BY <2>3, <1>t
  <2>5. sup'[p] \in Call
    <3>1. PICK outcome \in [Attempts -> Answer] : sup'[p] = [sup[p] EXCEPT !.outcome = outcome]
      <4>1. [sup[p].outcome EXCEPT ![a] = answer] \in [Attempts -> Answer]
        BY <1>t DEF Call
      <4>2. QED
        BY <2>4, <4>1
    <3>2. QED
      BY <3>1, <1>t DEF Call
  <2>6. Accounted(sup'[p])
    BY <1>13, <2>4, <1>t DEF Call, Accounted, Dispatch, Outcome
  <2>7. QED
    BY <2>1, <2>2, <2>4, <2>5, <2>6, SupervisorTyped
<1>14. ASSUME NEW a \in Attempts, FinishWork(p, a) PROVE TypeInv'
  <2>1. UNCHANGED <<canceller, recovery>> /\ UNCHANGED <<graph, assignments, teams, behind>>
    BY <1>14 DEF FinishWork, Others
  <2>2. PICK answer \in Outcome :
          /\ journal' = [journal EXCEPT ![a] = answer]
          /\ sup' = IF sup[p].outcome[a] = "awaited"
                    THEN [sup EXCEPT ![p].outcome[a] = answer] ELSE sup
    BY <1>14 DEF FinishWork
  <2>3. DocumentsTyped' /\ teams.rows \subseteq teams'.rows
    BY <1>14, <2>1, <2>2, <1>t DEF FinishWork, DocumentsTyped
  <2>4. CASE sup' = sup
    <3>1. Moves(sup[p])
      BY <2>4, <1>t
    <3>2. QED
      BY <2>1, <2>3, <3>1, <1>t, SupervisorTyped
  <2>5. CASE sup' = [sup EXCEPT ![p].outcome[a] = answer]
    <3>1. Moves([sup[p] EXCEPT !.outcome[a] = answer])
      BY <2>5, <1>t
    <3>2. sup'[p] \in Call
      BY <3>1, <1>t, SMTT(40) DEF Call, Answer
    <3>3. Accounted(sup'[p])
      BY <3>1, <1>t DEF Call, Accounted, Outcome
    <3>4. QED
      BY <2>1, <2>3, <3>1, <3>2, <3>3, SupervisorTyped
  <2>6. QED
    BY <2>2, <2>4, <2>5
<1>15. ASSUME NEW a \in Attempts, RecordOutcome(p, a) PROVE TypeInv'
  <2> DEFINE settled(n) == {b \in sup[p].running : b[1] = n}
             first(n) == CHOOSE b \in settled(n) : \A c \in settled(n) : b[2] <= c[2]
             next == [n \in Nodes |-> IF settled(n) = {} THEN sup[p].snap.status[n]
                                      ELSE NodeOutcome(sup[p].outcome[first(n)])]
  <2>1. UNCHANGED <<canceller, recovery>> /\ sup[p].pc = "record" /\ a \in sup[p].todo
    BY <1>15 DEF RecordOutcome, Others
  <2>2. sup[p].outcome[a] \in Outcome
    BY <2>1, <1>t DEF Accounted
  <2>3. ASSUME PutAssignment(a, sup[p].outcome[a], sup[p].team)
        PROVE  DocumentsTyped' /\ teams.rows \subseteq teams'.rows
    <3>1. sup[p].outcome[a] \in AssignmentStatus /\ sup[p].team \in Nat
      BY <2>2, <1>t DEF AssignmentStatus, Call
    <3>2. QED
      BY <1>15, <2>3, <3>1, AssignmentPut DEF RecordOutcome
  <2>4. CASE PutAssignment(a, sup[p].outcome[a], sup[p].team) /\ ~Leave(p, "rejected")
    <3>1. Moves([sup[p] EXCEPT !.todo = @ \ {a},
             !.pc = IF sup[p].todo = {a} THEN "close" ELSE "record", !.next = next])
      BY <1>15, <2>4, <1>t DEF RecordOutcome
    <3>2. next \in [Nodes -> NodeStatus]
      <4>1. SUFFICES ASSUME NEW n \in Nodes, settled(n) # {}
                     PROVE  NodeOutcome(sup[p].outcome[first(n)]) \in NodeStatus
        BY <1>t DEF Call, Graph
      <4>2. settled(n) \in SUBSET Attempts
        BY <1>t DEF Call
      <4>3. \E b \in settled(n) : \A c \in settled(n) : b[2] <= c[2]
        BY <4>1, <4>2, FirstAttempt
      <4>4. first(n) \in sup[p].running
        BY <4>3
      <4>5. sup[p].outcome[first(n)] \in Outcome
        BY <2>1, <4>4, <1>t DEF Accounted
      <4>6. QED
        BY <4>5 DEF NodeOutcome, NodeStatus, Outcome
    <3> HIDE DEF next
    <3>3. PICK pc \in {"close", "record"}, todo \in SUBSET Attempts :
            sup'[p] = [sup[p] EXCEPT !.todo = todo, !.pc = pc, !.next = next]
      <4>1. sup[p].todo \ {a} \in SUBSET Attempts
        BY <1>t DEF Call
      <4>2. QED
        BY <3>1, <4>1
    <3>4. sup'[p] \in Call
      BY <3>2, <3>3, <1>t DEF Call, Pcs
    <3>5. Accounted(sup'[p])
      BY <2>1, <3>1, <1>t DEF Call, Accounted
    <3>6. QED
      BY <2>1, <2>3, <2>4, <3>1, <3>4, <3>5, SupervisorTyped
  <2>5. CASE Leave(p, "rejected") /\ UNCHANGED assignments
    <3>1. DocumentsTyped' /\ teams.rows \subseteq teams'.rows
      BY <1>15, <2>5, DocumentsKept DEF RecordOutcome, durable
    <3>2. QED
      BY <2>1, <2>5, <3>1, <1>r, LeaveTyped
  <2>6. CASE PutAssignment(a, sup[p].outcome[a], sup[p].team) /\ Leave(p, "rejected")
    BY <2>1, <2>3, <2>6, <1>r, LeaveTyped
  <2>7. QED
    BY <1>15, <2>4, <2>5, <2>6 DEF RecordOutcome
<1>16. CASE CloseCycle(p)
  <2> DEFINE closed == NextGraph(sup[p].snap, sup[p].next)
  <2>1. UNCHANGED <<assignments, journal, behind, worker, canceller, recovery>>
    BY <1>16 DEF CloseCycle, Others
  <2>2. ASSUME UpdateGraph(p) PROVE graph' \in Graph
    BY <2>2, <1>t, WrittenGraph DEF DocumentsTyped, UpdateGraph, Call
  <2>3. CASE UpdateGraph(p) /\ PutTeam(sup[p].team)
             /\ (\E limit \in Limits \cup {"none"} :
                   LET reason == StopReasonForGraph(closed, limit) IN
                   \/ reason # "none" /\ Report(p, reason)
                   \/ reason = "none" /\ sup[p].rounds + 1 = MaxCycles /\ Report(p, "max-cycles")
                   \/ /\ reason = "none" /\ sup[p].rounds + 1 < MaxCycles
                      /\ sup' = [sup EXCEPT ![p] = [Blank("none") EXCEPT !.pc = "cycle",
                                                      !.rounds = sup[p].rounds + 1]])
    <3>1. DocumentsTyped' /\ teams.rows \subseteq teams'.rows
      BY <2>1, <2>2, <2>3, TeamPut
    <3>2. PICK limit \in Limits \cup {"none"} :
            LET reason == StopReasonForGraph(closed, limit) IN
                   \/ reason # "none" /\ Report(p, reason)
                   \/ reason = "none" /\ sup[p].rounds + 1 = MaxCycles /\ Report(p, "max-cycles")
                   \/ /\ reason = "none" /\ sup[p].rounds + 1 < MaxCycles
                      /\ sup' = [sup EXCEPT ![p] = [Blank("none") EXCEPT !.pc = "cycle",
                                                      !.rounds = sup[p].rounds + 1]]
      BY <2>3
    <3>3. StopReasonForGraph(closed, limit) \in StopReason \cup {"none"} /\ "max-cycles" \in StopReason
      BY DEF StopReasonForGraph, StopReason
    <3>4. ASSUME NEW stop \in StopReason, Report(p, stop) PROVE TypeInv'
      BY <2>1, <3>1, <3>4, ReportTyped
    <3>5. CASE sup' = [sup EXCEPT ![p] = [Blank("none") EXCEPT !.pc = "cycle",
                                                      !.rounds = sup[p].rounds + 1]]
      <4>1. Moves([Blank("none") EXCEPT !.pc = "cycle", !.rounds = sup[p].rounds + 1])
        BY <3>5, <1>t
      <4>2. Blank("none") \in Call
        BY BlankIsCall
      <4>3. PICK rounds \in Nat : rounds = sup[p].rounds + 1
        BY <1>t DEF Call
      <4>4. sup'[p] = [Blank("none") EXCEPT !.pc = "cycle", !.rounds = rounds]
        BY <4>1, <4>3
      <4>5. sup'[p] \in Call /\ sup'[p].pc = "cycle"
        <5> HIDE DEF Blank
        <5>1. QED
          BY <4>2, <4>4 DEF Call, Pcs
      <4>6. Accounted(sup'[p])
        BY <4>5 DEF Accounted
      <4>7. QED
        BY <2>1, <3>1, <4>1, <4>5, <4>6, SupervisorTyped
    <3>6. QED
      BY <3>2, <3>3, <3>4, <3>5
  <2>4. CASE UpdateGraph(p) /\ Leave(p, "rejected") /\ UNCHANGED teams
    <3>1. DocumentsTyped' /\ teams.rows \subseteq teams'.rows
      BY <2>1, <2>4, GraphPut
    <3>2. QED
      BY <2>1, <2>4, <3>1, <1>r, LeaveTyped
  <2>5. CASE RejectUpdate(p) /\ UNCHANGED teams
    <3>1. DocumentsTyped' /\ teams.rows \subseteq teams'.rows
      BY <2>1, <2>5, DocumentsKept DEF RejectUpdate, durable
    <3>2. QED
      BY <2>1, <2>5, <3>1, <1>r, LeaveTyped DEF RejectUpdate
  <2>6. QED
    BY <1>16, <2>3, <2>4, <2>5 DEF CloseCycle
<1>17. CASE Abort(p)
  <2>1. sup'[p] = sup[p] /\ sup' = [sup EXCEPT ![p] = sup'[p]]
    BY <1>17, <1>t DEF Abort
  <2>2. DocumentsTyped' /\ teams.rows \subseteq teams'.rows /\ UNCHANGED <<canceller, recovery>>
    BY <1>17, DocumentsKept DEF Abort
  <2>3. QED
    BY <2>1, <2>2, <1>t, SupervisorTyped
<1>18. CASE Crash(p)
  <2>1. DocumentsTyped'
    BY <1>18, <1>t DEF Crash, durable, DocumentsTyped
  <2>2. teams.rows \subseteq teams'.rows /\ UNCHANGED <<canceller, recovery>> /\ Leave(p, "crashed")
    BY <1>18 DEF Crash, durable
  <2>3. QED
    BY <2>1, <2>2, <1>r, LeaveTyped
<1>19. QED
  BY <1>1, <1>2, <1>3, <1>4, <1>5, <1>6, <1>7, <1>8, <1>9, <1>10, <1>11, <1>12, <1>13,
     <1>14, <1>15, <1>16, <1>17, <1>18 DEF SupervisorStep

(* What is not a supervisor leaves the supervisors alone.                  *)
LEMMA OtherTyped ==
  ASSUME TypeInv, UNCHANGED sup, DocumentsTyped', CancellerTyped', RecoveryTyped'
  PROVE  TypeInv'
<1>1. sup' \in [Supervisors -> Call] /\ \A q \in Supervisors : Accounted(sup[q])'
  BY TypeInvParts DEF Accounted
<1>2. QED
  BY <1>1 DEF TypeInv, TypeOK, DocumentsTyped, Call, Answer

LEMMA OthersKeepTypes ==
  ASSUME TypeInv,
         \/ \E a \in Attempts : CancelRead(a)
         \/ CancelPut \/ CancelGraph \/ CrashCancel
         \/ RecoverList \/ RecoveryStep \/ CrashRecovery
         \/ \E n \in Nodes : Edit(n)
  PROVE  TypeInv'
<1>t. DocumentsTyped /\ CancellerTyped /\ RecoveryTyped
  BY TypeInvParts
<1>c. ASSUME CancelIdle PROVE CancellerTyped'
  BY <1>c DEF CancelIdle, CancellerTyped
<1>i. ASSUME RecoverIdle PROVE RecoveryTyped'
  BY <1>i DEF RecoverIdle, RecoveryTyped
<1>u. ASSUME UNCHANGED recovery, UNCHANGED teams PROVE RecoveryTyped'
  BY <1>u, <1>t DEF RecoveryTyped
<1>v. ASSUME UNCHANGED canceller PROVE CancellerTyped'
  BY <1>v, <1>t DEF CancellerTyped
<1>1. ASSUME NEW a \in Attempts, CancelRead(a) PROVE TypeInv'
  <2>1. DocumentsTyped' /\ UNCHANGED <<recovery, teams, sup>>
    BY <1>1, DocumentsKept DEF CancelRead, durable
  <2>2. assignments[a].team \in Nat
    BY <1>1, <1>t DEF CancelRead, DocumentsTyped, Recorded, Assignment
  <2>3. CancellerTyped'
    BY <1>1, <2>2 DEF CancelRead, CancellerTyped
  <2>4. QED
    BY <2>1, <2>3, <1>u, OtherTyped
<1>2. CASE CancelPut
  <2>1. UNCHANGED <<graph, teams, journal, behind, worker, sup, recovery>> /\ canceller.pc = "put"
    BY <1>2 DEF CancelPut
  <2>2. CASE PutAssignment(canceller.attempt, "cancelled", canceller.team)
             /\ canceller' = [canceller EXCEPT !.pc = "graph"]
    <3>1. "cancelled" \in AssignmentStatus /\ canceller.team \in Nat /\ canceller.attempt \in Attempts
      BY <2>1, <1>t DEF CancellerTyped, AssignmentStatus, Outcome
    <3>2. DocumentsTyped'
      BY <2>1, <2>2, <3>1, AssignmentPut
    <3>3. CancellerTyped'
      BY <2>2, <3>1, <1>t DEF CancellerTyped
    <3>4. QED
      BY <2>1, <3>2, <3>3, <1>u, OtherTyped
  <2>3. CASE CancelIdle /\ UNCHANGED assignments
    <3>1. DocumentsTyped'
      BY <2>1, <2>3, DocumentsKept DEF durable
    <3>2. QED
      BY <2>1, <2>3, <3>1, <1>c, <1>u, OtherTyped
  <2>4. QED
    BY <1>2, <2>2, <2>3 DEF CancelPut
<1>3. CASE CancelGraph
  <2>1. UNCHANGED <<assignments, teams, journal, behind, worker, sup, recovery>> /\ CancelIdle
    BY <1>3 DEF CancelGraph
  <2>2. graph' \in Graph
    <3> DEFINE next == [graph.status EXCEPT ![canceller.attempt[1]] = "blocked"]
    <3>1. next \in [Nodes -> NodeStatus] /\ graph \in Graph
      BY <1>t DEF DocumentsTyped, Graph, NodeStatus
    <3>2. NextGraph(graph, next) \in Graph
      BY <3>1, WrittenGraph
    <3>3. QED
      BY <1>3, <3>1, <3>2 DEF CancelGraph
  <2>3. DocumentsTyped'
    BY <2>1, <2>2, <1>t DEF DocumentsTyped
  <2>4. QED
    BY <2>1, <2>3, <1>c, <1>u, OtherTyped
<1>4. CASE CrashCancel
  <2>1. DocumentsTyped' /\ UNCHANGED <<recovery, teams, sup>> /\ CancelIdle
    BY <1>4, DocumentsKept DEF CrashCancel, durable
  <2>2. QED
    BY <2>1, <1>c, <1>u, OtherTyped
<1>5. CASE RecoverList
  <2>1. DocumentsTyped' /\ UNCHANGED <<canceller, teams, sup>>
    BY <1>5, DocumentsKept DEF RecoverList, durable
  <2>2. RecoveryTyped'
    BY <1>5, <2>1, <1>t DEF RecoverList, RecoveryTyped, DocumentsTyped, InStatus, Recorded
  <2>3. QED
    BY <2>1, <2>2, <1>v, OtherTyped
<1>6. ASSUME NEW a \in Attempts, RecoverPut(a) PROVE TypeInv'
  <2>1. /\ UNCHANGED <<graph, teams, journal, behind, worker, sup, canceller>>
        /\ recovery.pc = "put" /\ a \in recovery.todo
    BY <1>6 DEF RecoverPut
  <2>2. recovery.saved.assignments[a].team \in Nat /\ "interrupted" \in AssignmentStatus
    BY <2>1, <1>t DEF RecoveryTyped, Assignment, AssignmentStatus
  <2>3. DocumentsTyped'
    BY <1>6, <2>1, <2>2, AssignmentPut DEF RecoverPut
  <2>4. recovery' = [recovery EXCEPT !.todo = recovery.todo \ {a},
                      !.pc = IF recovery.todo = {a} THEN "graph" ELSE "put"]
    BY <1>6, <1>t DEF RecoverPut, RecoveryTyped
  <2>5. RecoveryTyped'
    BY <2>1, <2>4, <1>t DEF RecoveryTyped
  <2>6. QED
    BY <2>1, <2>3, <2>5, <1>v, OtherTyped
<1>7. CASE RecoverGraph
  <2> DEFINE snap == recovery.saved.graph
  <2>1. UNCHANGED <<assignments, teams, journal, behind, worker, sup, canceller>> /\ recovery.pc = "graph"
    BY <1>7 DEF RecoverGraph
  <2>2. Unblocked(snap) \in [Nodes -> NodeStatus] /\ snap \in Graph
    BY <2>1, <1>t DEF RecoveryTyped, Unblocked, Graph, NodeStatus
  <2>3. graph' \in Graph
    BY <1>7, <2>2, <1>t, WrittenGraph DEF RecoverGraph, DocumentsTyped
  <2>4. DocumentsTyped'
    BY <2>1, <2>3, <1>t DEF DocumentsTyped
  <2>5. RecoveryTyped'
    BY <1>7, <2>1, <1>t DEF RecoverGraph, RecoveryTyped
  <2>6. QED
    BY <2>1, <2>4, <2>5, <1>v, OtherTyped
<1>8. CASE RecoverReceipt
  <2>1. DocumentsTyped' /\ UNCHANGED <<canceller, sup>> /\ RecoverIdle
    BY <1>8, DocumentsKept DEF RecoverReceipt
  <2>2. QED
    BY <2>1, <1>i, <1>v, OtherTyped
<1>9. CASE RecoverRestore
  <2> DEFINE saved == recovery.saved
  <2>1. UNCHANGED <<journal, worker, sup, canceller>> /\ RecoverIdle /\ recovery.pc # "idle"
    BY <1>9 DEF RecoverRestore
  <2>2. saved.graph \in Graph /\ saved.heads \subseteq teams.rows
        /\ saved.assignments \in [Attempts -> Assignment \cup {NoAssignment}]
    BY <2>1, <1>t DEF RecoveryTyped
  <2>3. teams' = [teams EXCEPT !.heads = saved.heads] /\ graph' = saved.graph
        /\ assignments' = saved.assignments
    BY <1>9 DEF RecoverRestore
  <2>4. behind' \in [graph : BOOLEAN, attempts : SUBSET Attempts, cycles : BOOLEAN]
    BY <1>9, <1>t DEF RecoverRestore, DocumentsTyped, Recorded
  <2>5. DocumentsTyped'
    BY <2>1, <2>2, <2>3, <2>4, <1>t DEF DocumentsTyped
  <2>6. QED
    BY <2>1, <2>5, <1>i, <1>v, OtherTyped
<1>10. CASE CrashRecovery
  <2>1. DocumentsTyped' /\ UNCHANGED <<canceller, sup>> /\ RecoverIdle
    BY <1>10, DocumentsKept DEF CrashRecovery
  <2>2. QED
    BY <2>1, <1>i, <1>v, OtherTyped
<1>11. ASSUME NEW n \in Nodes, Edit(n) PROVE TypeInv'
  <2>1. UNCHANGED <<assignments, teams, journal, behind, worker, sup, canceller, recovery>>
    BY <1>11 DEF Edit
  <2>2. PICK status \in {graph.status[n], "cancelled"},
             gated \in {graph.gated \cup {n}, graph.gated \ {n}} :
          graph' = NextGraph([graph EXCEPT !.gated = gated], [graph.status EXCEPT ![n] = status])
    BY <1>11 DEF Edit
  <2>3. /\ [graph EXCEPT !.gated = gated] \in Graph
        /\ [graph.status EXCEPT ![n] = status] \in [Nodes -> NodeStatus]
    BY <1>t DEF DocumentsTyped, Graph, NodeStatus
  <2>4. graph' \in Graph
    BY <2>2, <2>3, <1>t, WrittenGraph DEF DocumentsTyped
  <2>5. DocumentsTyped'
    BY <2>1, <2>4, <1>t DEF DocumentsTyped
  <2>6. QED
    BY <2>1, <2>5, <1>u, <1>v, OtherTyped
<1>12. QED
  BY <1>1, <1>2, <1>3, <1>4, <1>5, <1>6, <1>7, <1>8, <1>9, <1>10, <1>11 DEF RecoveryStep

LEMMA TypeInvStep == TypeInv /\ [Next]_vars => TypeInv'
<1> SUFFICES ASSUME TypeInv, [Next]_vars PROVE TypeInv'
  OBVIOUS
<1>1. CASE UNCHANGED vars
  BY <1>1 DEF vars, TypeInv, TypeOK, CancellerTyped, RecoveryTyped, Accounted
<1>2. CASE Next
  BY <1>2, SupervisorKeepsTypes, OthersKeepTypes DEF Next
<1>3. QED
  BY <1>1, <1>2

(* Supervision is well typed for any graph and any number of supervisors.  *)
THEOREM SupervisionIsTyped == Spec => []TypeOK
<1>1. TypeInv => TypeOK
  BY DEF TypeInv
<1>2. QED
  BY <1>1, TypeInvInit, TypeInvStep, PTL DEF Spec

-----------------------------------------------------------------------------
(* Truth.                                                                  *)

(* A cycle that is to go on has decided about the gates of its copy.       *)
LEMMA DecideEnds ==
  ASSUME NEW p, NEW g, Decide(p, g)
  PROVE  \/ \E stop : Leave(p, stop)
         \/ /\ GatesDecided(g)
            /\ sup' = [sup EXCEPT ![p].pc = "form", ![p].snap = g, ![p].checked = FALSE]
  BY DEF Decide, Report, StopReasonForGraph, GatesDecided

(* Nothing is claimed that was not, and nothing settled.                   *)
NoNewClaims ==
  /\ UNCHANGED journal
  /\ \A a \in Attempts : worker'[a] # NoSupervisor => worker'[a] = worker[a]
  /\ \A q \in Supervisors, a \in Attempts :
       sup'[q].outcome[a] \in {"awaited", "succeeded"} => sup'[q].outcome[a] = sup[q].outcome[a]

LEMMA ClaimsKept ==
  ASSUME TypeInv, TypeInv', InHandIsDispatched, OneRunnerPerAttempt, NoNewClaims
  PROVE  InHandIsDispatched' /\ OneRunnerPerAttempt'
<1>1. InHandIsDispatched'
  BY DEF NoNewClaims, InHandIsDispatched
<1>2. OneRunnerPerAttempt'
  BY DEF NoNewClaims, OneRunnerPerAttempt
<1>3. QED
  BY <1>1, <1>2

LEMMA TruthKept ==
  ASSUME TruthInv, TypeInv', NoNewClaims, NEW p \in Supervisors,
         sup' = [sup EXCEPT ![p] = sup'[p]],
         TrueStatus(sup'[p].snap.status), TrueStatus(sup'[p].next),
         TrueStatus(graph'.status), TrueAssignments(assignments'), UNCHANGED recovery
  PROVE  TruthInv'
<1>1. \A n : Done(n)' <=> Done(n)
  BY DEF Done, NoNewClaims
<1>2. \A q \in Supervisors : TrueStatus(sup'[q].snap.status) /\ TrueStatus(sup'[q].next)
  BY TypeInvParts DEF TruthInv, Truthful
<1>3. Truthful'
  <2>1. TrueStatus(graph.status)' /\ TrueAssignments(assignments)'
    BY <1>1 DEF TrueStatus, TrueAssignments, NoNewClaims
  <2>2. \A q \in Supervisors : TrueStatus(sup[q].snap.status)' /\ TrueStatus(sup[q].next)'
    BY <1>1, <1>2 DEF TrueStatus
  <2>3. recovery'.pc # "idle" =>
          TrueStatus(recovery.saved.graph.status)' /\ TrueAssignments(recovery.saved.assignments)'
    BY <1>1 DEF TruthInv, Truthful, TrueStatus, TrueAssignments, NoNewClaims
  <2>4. QED
    BY <2>1, <2>2, <2>3 DEF Truthful
<1>4. QED
  BY <1>3, ClaimsKept DEF TruthInv

(* A supervisor that leaves forgets what it had.                           *)
LEMMA LeaveIsTrue ==
  ASSUME TruthInv, TypeInv', NEW p \in Supervisors, NEW stop, Leave(p, stop),
         UNCHANGED <<journal, recovery>>,
         \A a \in Attempts : worker'[a] # NoSupervisor => worker'[a] = worker[a],
         TrueStatus(graph'.status), TrueAssignments(assignments')
  PROVE  TruthInv'
<1>1. sup'[p] = Blank(stop) /\ sup' = [sup EXCEPT ![p] = sup'[p]]
  BY TypeInvParts DEF Leave, TruthInv
<1>2. NoNewClaims
  BY <1>1, TypeInvParts DEF NoNewClaims, Blank, TruthInv
<1>3. TrueStatus(sup'[p].snap.status) /\ TrueStatus(sup'[p].next)
  BY <1>1 DEF Blank, TrueStatus
<1>4. QED
  BY <1>1, <1>2, <1>3, TruthKept

(* An assignment may be given any status but a success nobody reported.    *)
LEMMA AssignmentIsTrue ==
  ASSUME TruthInv, NEW a \in Attempts, NEW status \in AssignmentStatus, NEW team \in Nat,
         PutAssignment(a, status, team), status = "succeeded" => journal[a] = "succeeded"
  PROVE  TrueAssignments(assignments')
<1>1. TrueAssignments(assignments) /\ assignments \in [Attempts -> Assignment \cup {NoAssignment}]
  BY TypeInvParts DEF TruthInv, Truthful, DocumentsTyped
<1>2. QED
  BY <1>1, WrittenAssignment DEF TrueAssignments

LEMMA TruthInit == Init => TruthInv
<1> SUFFICES ASSUME Init PROVE TruthInv
  OBVIOUS
<1>1. InHandIsDispatched /\ OneRunnerPerAttempt
  BY DEF Init, InHandIsDispatched, OneRunnerPerAttempt, Blank
<1>2. Truthful
  BY DEF Init, Truthful, TrueStatus, TrueAssignments, Blank
<1>3. QED
  BY <1>1, <1>2, TypeInvInit DEF TruthInv

LEMMA SupervisorIsTrue ==
  ASSUME TruthInv, TypeInv', NEW p \in Supervisors,
         Supervise(p) \/ SupervisorStep(p) \/ Abort(p) \/ Crash(p)
  PROVE  TruthInv'
<1>t. /\ TypeInv /\ DocumentsTyped /\ sup \in [Supervisors -> Call] /\ Accounted(sup[p])
      /\ sup[p] \in Call
  BY TypeInvParts DEF TruthInv
<1>u. /\ TrueStatus(graph.status) /\ TrueAssignments(assignments)
      /\ TrueStatus(sup[p].snap.status) /\ TrueStatus(sup[p].next)
  BY DEF TruthInv, Truthful
<1> DEFINE Moves(s) == sup'[p] = s /\ sup' = [sup EXCEPT ![p] = sup'[p]]
<1>l. ASSUME NEW stop, Leave(p, stop), UNCHANGED <<assignments, journal, worker, recovery>>,
             TrueStatus(graph'.status)
      PROVE  TruthInv'
  BY <1>l, <1>u, LeaveIsTrue
<1>g. ASSUME UpdateGraph(p) PROVE TrueStatus(graph'.status) /\ graph' = NextGraph(sup[p].snap, sup[p].next)
  BY <1>g, <1>u, <1>t, WrittenGraph DEF UpdateGraph, Call, DocumentsTyped
<1>1. CASE Supervise(p)
  <2>1. Moves([sup[p] EXCEPT !.pc = "cycle", !.stop = "none"])
    BY <1>1, <1>t DEF Supervise
  <2>2. UNCHANGED <<graph, assignments, journal, worker, recovery>>
    BY <1>1 DEF Supervise, durable
  <2>3. sup'[p].outcome = sup[p].outcome /\ sup'[p].snap = sup[p].snap /\ sup'[p].next = sup[p].next
    BY <2>1, <1>t DEF Call
  <2>4. NoNewClaims
    BY <2>1, <2>2, <2>3, <1>t DEF NoNewClaims
  <2>5. QED
    BY <2>1, <2>2, <2>3, <2>4, <1>u, TruthKept
<1>2. CASE CycleRead(p)
  <2>1. UNCHANGED <<graph, assignments, journal, worker, recovery>>
    BY <1>2 DEF CycleRead, durable, Others
  <2>2. CASE Leave(p, "cancelled")
    BY <2>1, <2>2, <1>l, <1>u
  <2>3. CASE sup' = [sup EXCEPT ![p].pc = "promote", ![p].snap = graph, ![p].next = Promoted(graph)]
    <3>1. Moves([sup[p] EXCEPT !.pc = "promote", !.snap = graph, !.next = Promoted(graph)])
      BY <2>3, <1>t
    <3>2. TrueStatus(Promoted(graph))
      BY <1>u, <1>t DEF TrueStatus, Promoted
    <3>3. sup'[p].outcome = sup[p].outcome /\ sup'[p].snap = graph /\ sup'[p].next = Promoted(graph)
      BY <3>1, <1>t DEF Call
    <3>4. NoNewClaims
      BY <2>1, <3>1, <3>3, <1>t DEF NoNewClaims
    <3>5. QED
      BY <2>1, <3>1, <3>2, <3>3, <3>4, <1>u, TruthKept
  <2>4. QED
    BY <1>2, <2>2, <2>3 DEF CycleRead
<1>3. CASE AssertRevision(p)
  <2>1. Moves([sup[p] EXCEPT !.checked = TRUE])
    BY <1>3, <1>t DEF AssertRevision
  <2>2. UNCHANGED <<graph, assignments, journal, worker, recovery>>
    BY <1>3 DEF AssertRevision, durable, Others
  <2>3. sup'[p].outcome = sup[p].outcome /\ sup'[p].snap = sup[p].snap /\ sup'[p].next = sup[p].next
    BY <2>1, <1>t DEF Call
  <2>4. NoNewClaims
    BY <2>1, <2>2, <2>3, <1>t DEF NoNewClaims
  <2>5. QED
    BY <2>1, <2>2, <2>3, <2>4, <1>u, TruthKept
<1>4. CASE Promote(p)
  <2>1. UNCHANGED <<assignments, journal, worker, recovery>>
    BY <1>4 DEF Promote, Others
  <2>2. ASSUME NEW g, Decide(p, g), TrueStatus(g.status), TrueStatus(graph'.status) PROVE TruthInv'
    <3>1. CASE \E stop : Leave(p, stop)
      BY <2>1, <2>2, <3>1, <1>l
    <3>2. CASE sup' = [sup EXCEPT ![p].pc = "form", ![p].snap = g, ![p].checked = FALSE]
      <4>1. Moves([sup[p] EXCEPT !.pc = "form", !.snap = g, !.checked = FALSE])
        BY <3>2, <1>t
      <4>2. sup'[p].outcome = sup[p].outcome /\ sup'[p].snap = g /\ sup'[p].next = sup[p].next
        BY <4>1, <1>t DEF Call
      <4>3. NoNewClaims
        BY <2>1, <4>1, <4>2, <1>t DEF NoNewClaims
      <4>4. QED
        BY <2>1, <2>2, <4>1, <4>2, <4>3, <1>u, TruthKept
    <3>3. QED
      BY <2>2, <3>1, <3>2, DecideEnds
  <2>3. CASE Decide(p, sup[p].snap) /\ UNCHANGED graph
    BY <2>2, <2>3, <1>u
  <2>4. CASE UpdateGraph(p) /\ Decide(p, NextGraph(sup[p].snap, sup[p].next))
    BY <2>2, <2>4, <1>g
  <2>5. CASE RejectUpdate(p)
    BY <2>1, <2>5, <1>l, <1>u DEF RejectUpdate
  <2>6. QED
    BY <1>4, <2>3, <2>4, <2>5 DEF Promote
<1>5. CASE FormTeam(p) \/ NextChunk(p)
  <2>1. UNCHANGED <<graph, assignments, journal, worker, recovery>>
    BY <1>5 DEF FormTeam, NextChunk, durable, Others
  <2>2. /\ sup'[p].outcome = sup[p].outcome /\ sup'[p].snap = sup[p].snap /\ sup'[p].next = sup[p].next
        /\ sup' = [sup EXCEPT ![p] = sup'[p]]
    <3>1. CASE FormTeam(p)
      <4>1. PICK ready, team : sup' = [sup EXCEPT ![p].pc = "staff", ![p].members = ready,
                                                  ![p].team = team]
        BY <3>1 DEF FormTeam
      <4>2. QED
        BY <4>1, <1>t DEF Call
    <3>2. CASE NextChunk(p)
      <4>1. ASSUME NEW chunk, NEW todo, sup' = [sup EXCEPT ![p].chunk = chunk, ![p].todo = todo]
            PROVE  /\ sup'[p].outcome = sup[p].outcome /\ sup'[p].snap = sup[p].snap
                   /\ sup'[p].next = sup[p].next /\ sup' = [sup EXCEPT ![p] = sup'[p]]
        BY <4>1, <1>t DEF Call
      <4>2. ASSUME sup' = [sup EXCEPT ![p].pc = "record", ![p].chunk = {}, ![p].todo = sup[p].running]
            PROVE  /\ sup'[p].outcome = sup[p].outcome /\ sup'[p].snap = sup[p].snap
                   /\ sup'[p].next = sup[p].next /\ sup' = [sup EXCEPT ![p] = sup'[p]]
        BY <4>2, <1>t DEF Call
      <4>3. PICK chunk : \/ sup' = [sup EXCEPT ![p].chunk = chunk, ![p].todo = @ \ chunk]
                         \/ sup' = [sup EXCEPT ![p].pc = "record", ![p].chunk = {},
                                               ![p].todo = sup[p].running]
        BY <3>2 DEF NextChunk
      <4>4. QED
        BY <4>1, <4>2, <4>3
    <3>3. QED
      BY <1>5, <3>1, <3>2
  <2>3. NoNewClaims
    BY <2>1, <2>2, <1>t DEF NoNewClaims
  <2>4. QED
    BY <2>1, <2>2, <2>3, <1>u, TruthKept
<1>6. CASE StaffTeam(p)
  <2>1. UNCHANGED <<graph, assignments, journal, worker, recovery>>
    BY <1>6 DEF StaffTeam, Others
  <2>2. CASE Leave(p, "rejected")
    BY <2>1, <2>2, <1>l, <1>u
  <2>3. CASE ~Leave(p, "rejected")
    <3>1. /\ sup'[p].outcome = sup[p].outcome /\ sup'[p].snap = sup[p].snap
          /\ sup'[p].next = sup[p].next /\ sup' = [sup EXCEPT ![p] = sup'[p]]
      <4>1. PICK pc, todo : sup' = [sup EXCEPT ![p].pc = pc, ![p].members = {}, ![p].todo = todo]
        BY <1>6, <2>3 DEF StaffTeam
      <4>2. QED
        BY <4>1, <1>t DEF Call
    <3>2. NoNewClaims
      BY <2>1, <3>1, <1>t DEF NoNewClaims
    <3>3. QED
      BY <2>1, <3>1, <3>2, <1>u, TruthKept
  <2>4. QED
    BY <2>2, <2>3
<1>7. CASE ListPlanned(p)
  <2>1. UNCHANGED <<graph, assignments, journal, worker, recovery>>
    BY <1>7 DEF ListPlanned, durable, Others
  <2>2. CASE \E stop : Leave(p, stop)
    BY <2>1, <2>2, <1>l, <1>u
  <2>3. CASE ~\E stop : Leave(p, stop)
    <3>1. PICK planned : sup' = [sup EXCEPT ![p].pc = "start", ![p].running = planned,
             ![p].next = [n \in Nodes |-> IF \E a \in planned : a[1] = n THEN "running"
                                          ELSE sup[p].snap.status[n]]]
      BY <1>7, <2>3 DEF ListPlanned, Report
    <3>2. /\ sup'[p].outcome = sup[p].outcome /\ sup'[p].snap = sup[p].snap
          /\ sup' = [sup EXCEPT ![p] = sup'[p]]
          /\ sup'[p].next = [n \in Nodes |-> IF \E a \in planned : a[1] = n THEN "running"
                                             ELSE sup[p].snap.status[n]]
      BY <3>1, <1>t DEF Call
    <3>3. TrueStatus(sup'[p].next)
      BY <3>2, <1>u DEF TrueStatus
    <3>4. NoNewClaims
      BY <2>1, <3>2, <1>t DEF NoNewClaims
    <3>5. QED
      BY <2>1, <3>2, <3>3, <3>4, <1>u, TruthKept
  <2>4. QED
    BY <2>2, <2>3
<1>8. CASE StartWork(p)
  <2>1. UNCHANGED <<assignments, journal, worker, recovery>>
    BY <1>8 DEF StartWork, Others
  <2>2. CASE RejectUpdate(p)
    BY <2>1, <2>2, <1>l, <1>u DEF RejectUpdate
  <2>3. CASE UpdateGraph(p) /\ ~RejectUpdate(p)
    <3>1. /\ sup'[p].outcome = sup[p].outcome /\ sup'[p].snap = graph'
          /\ sup'[p].next = sup[p].next /\ sup' = [sup EXCEPT ![p] = sup'[p]]
      BY <1>8, <2>3, <1>g, <1>t DEF StartWork, Call
    <3>2. NoNewClaims
      BY <2>1, <3>1, <1>t DEF NoNewClaims
    <3>3. QED
      BY <2>1, <2>3, <3>1, <3>2, <1>g, <1>u, TruthKept
  <2>4. QED
    BY <1>8, <2>2, <2>3 DEF StartWork
<1>9. ASSUME NEW a \in Attempts, PlanAssignment(p, a) \/ MarkRunning(p, a) PROVE TruthInv'
  <2>1. UNCHANGED <<graph, journal, worker, recovery>>
    BY <1>9 DEF PlanAssignment, MarkRunning, Others
  <2>2. TrueAssignments(assignments')
    <3>1. {"planned", "running"} \subseteq AssignmentStatus /\ sup[p].team \in Nat
      BY <1>t DEF AssignmentStatus, Call
    <3>2. CASE UNCHANGED assignments
      BY <3>2, <1>u
    <3>3. CASE \E status \in {"planned", "running"} : PutAssignment(a, status, sup[p].team)
      BY <3>1, <3>3, AssignmentIsTrue
    <3>4. QED
      BY <1>9, <3>2, <3>3 DEF PlanAssignment, MarkRunning
  <2>3. CASE Leave(p, "rejected")
    BY <2>1, <2>2, <2>3, <1>u, LeaveIsTrue
  <2>4. CASE ~Leave(p, "rejected")
    <3>1. /\ sup'[p].outcome = sup[p].outcome /\ sup'[p].snap = sup[p].snap
          /\ sup'[p].next = sup[p].next /\ sup' = [sup EXCEPT ![p] = sup'[p]]
      BY <1>9, <2>4, <1>t DEF PlanAssignment, MarkRunning, Call
    <3>2. NoNewClaims
      BY <2>1, <3>1, <1>t DEF NoNewClaims
    <3>3. QED
      BY <2>1, <2>2, <3>1, <3>2, <1>u, TruthKept
  <2>5. QED
    BY <2>3, <2>4
<1>10. CASE RejectChunk(p)
  BY <1>10, <1>l, <1>u DEF RejectChunk, durable, Others
<1>11. ASSUME NEW a \in Attempts, Dispatch(p, a) \/ FinishWork(p, a) PROVE TruthInv'
  <2>1. UNCHANGED <<graph, assignments, recovery>>
    BY <1>11 DEF Dispatch, FinishWork, Others
  <2>2. PICK answer \in Answer :
          /\ \A q \in Supervisors, b \in Attempts : <<q, b>> # <<p, a>> =>
               sup'[q].outcome[b] = sup[q].outcome[b]
          /\ sup'[p].outcome[a] = answer
          /\ \A q \in Supervisors : sup'[q].snap = sup[q].snap /\ sup'[q].next = sup[q].next
    <3>1. PICK answer \in Answer :
            \/ sup' = [sup EXCEPT ![p].outcome[a] = answer]
            \/ sup' = sup /\ answer = sup[p].outcome[a]
      BY <1>11, <1>t DEF Dispatch, FinishWork, Answer, Outcome, Call
    <3>2. CASE sup' = sup /\ answer = sup[p].outcome[a]
      BY <3>2
    <3>3. CASE sup' = [sup EXCEPT ![p].outcome[a] = answer]
      <4>1. /\ \A q \in Supervisors \ {p} : sup'[q] = sup[q]
            /\ sup'[p] = [sup[p] EXCEPT !.outcome = [sup[p].outcome EXCEPT ![a] = answer]]
        BY <3>3, <1>t DEF Call
      <4>2. /\ sup'[p].outcome = [sup[p].outcome EXCEPT ![a] = answer]
            /\ sup'[p].snap = sup[p].snap /\ sup'[p].next = sup[p].next
        BY <4>1, <1>t DEF Call
      <4>3. \A b \in Attempts : sup'[p].outcome[b] = IF b = a THEN answer ELSE sup[p].outcome[b]
        BY <4>2, <1>t DEF Call
      <4>4. QED
        BY <4>1, <4>2, <4>3
    <3>4. QED
      BY <3>1, <3>2, <3>3
  <2>3. /\ \A b \in Attempts : journal[b] = "succeeded" => journal'[b] = "succeeded"
        /\ InHandIsDispatched' /\ OneRunnerPerAttempt'
    <3>1. InHandIsDispatched /\ OneRunnerPerAttempt
      BY DEF TruthInv
    <3>2. CASE UNCHANGED <<journal, worker>>
      <4>1. sup'[p].outcome[a] \notin {"awaited", "succeeded"}
        <5>1. ~FinishWork(p, a)
          BY <3>2, <1>t DEF FinishWork, DocumentsTyped
        <5>2. PICK other \in {"cancelled", "failed", "conflict", "awaited"} :
                /\ sup' = [sup EXCEPT ![p].outcome[a] = other]
                /\ other = "awaited" => journal' = [journal EXCEPT ![a] = "dispatched"] /\ NewOperation(a)
          BY <1>11, <5>1 DEF Dispatch
        <5>3. sup'[p].outcome[a] = other
          BY <5>2, <1>t DEF Call
        <5>4. other # "awaited"
          BY <5>2, <3>2, <1>t DEF DocumentsTyped, NewOperation
        <5>5. QED
          BY <5>3, <5>4
      <4>2. InHandIsDispatched'
        BY <2>2, <3>1, <3>2, <4>1 DEF InHandIsDispatched
      <4>3. OneRunnerPerAttempt'
        BY <2>2, <3>1, <3>2, <4>1 DEF OneRunnerPerAttempt
      <4>4. QED
        BY <3>2, <4>2, <4>3
    <3>3. CASE /\ Dispatch(p, a) /\ journal[a] = "none"
               /\ journal' = [journal EXCEPT ![a] = "dispatched"]
               /\ worker' = [worker EXCEPT ![a] = p]
               /\ sup' = [sup EXCEPT ![p].outcome[a] = "awaited"]
      <4>1. sup'[p].outcome[a] = "awaited"
        BY <3>3, <1>t DEF Call
      <4>2. InHandIsDispatched'
        BY <2>2, <3>1, <3>3, <4>1, <1>t DEF InHandIsDispatched, DocumentsTyped
      <4>3. OneRunnerPerAttempt'
        BY <2>2, <3>1, <3>3, <4>1, <1>t DEF InHandIsDispatched, OneRunnerPerAttempt, DocumentsTyped
      <4>4. QED
        BY <3>3, <4>2, <4>3, <1>t DEF DocumentsTyped
    <3>4. CASE FinishWork(p, a)
      <4>1. PICK last \in Outcome :
              /\ journal' = [journal EXCEPT ![a] = last]
              /\ worker' = [worker EXCEPT ![a] = NoSupervisor]
              /\ sup' = IF sup[p].outcome[a] = "awaited"
                        THEN [sup EXCEPT ![p].outcome[a] = last] ELSE sup
        BY <3>4 DEF FinishWork
      <4>2. journal[a] = "dispatched" /\ sup[p].outcome[a] # "succeeded"
        BY <3>1, <3>4 DEF InHandIsDispatched, FinishWork
      <4>3. sup'[p].outcome[a] = IF sup[p].outcome[a] = "awaited" THEN last ELSE sup[p].outcome[a]
        BY <4>1, <1>t DEF Call
      <4>4. /\ \A b \in Attempts \ {a} : journal'[b] = journal[b] /\ worker'[b] = worker[b]
            /\ journal'[a] = last /\ worker'[a] = NoSupervisor /\ last # "none"
        BY <4>1, <1>t DEF DocumentsTyped, Outcome
      <4>5. \A q \in Supervisors : sup[q].outcome[a] # "succeeded"
        BY <3>1, <4>2 DEF InHandIsDispatched
      <4>6. InHandIsDispatched'
        BY <2>2, <3>1, <4>2, <4>3, <4>4, <4>5 DEF InHandIsDispatched
      <4>7. OneRunnerPerAttempt'
        BY <2>2, <3>1, <4>2, <4>3 DEF OneRunnerPerAttempt
      <4>8. QED
        BY <4>2, <4>4, <4>6, <4>7
    <3>5. QED
      BY <1>11, <3>2, <3>3, <3>4 DEF Dispatch, NewOperation
  <2>4. \A n : Done(n) => Done(n)'
    BY <2>3 DEF Done
  <2>5. Truthful'
    BY <2>1, <2>2, <2>3, <2>4 DEF TruthInv, Truthful, TrueStatus, TrueAssignments
  <2>6. QED
    BY <2>3, <2>5 DEF TruthInv
<1>12. ASSUME NEW a \in Attempts, RecordOutcome(p, a) PROVE TruthInv'
  <2> DEFINE settled(n) == {b \in sup[p].running : b[1] = n}
             first(n) == CHOOSE b \in settled(n) : \A c \in settled(n) : b[2] <= c[2]
             next == [n \in Nodes |-> IF settled(n) = {} THEN sup[p].snap.status[n]
                                      ELSE NodeOutcome(sup[p].outcome[first(n)])]
  <2>1. UNCHANGED <<graph, journal, worker, recovery>> /\ sup[p].pc = "record" /\ a \in sup[p].todo
    BY <1>12 DEF RecordOutcome, Others
  <2>2. sup[p].outcome[a] \in Outcome
    BY <2>1, <1>t DEF Accounted
  <2>3. TrueAssignments(assignments')
    <3>1. CASE UNCHANGED assignments
      BY <3>1, <1>u
    <3>2. CASE PutAssignment(a, sup[p].outcome[a], sup[p].team)
      <4>1. sup[p].outcome[a] \in AssignmentStatus /\ sup[p].team \in Nat
        BY <2>2, <1>t DEF AssignmentStatus, Call
      <4>2. sup[p].outcome[a] = "succeeded" => journal[a] = "succeeded"
        BY DEF TruthInv, InHandIsDispatched
      <4>3. QED
        BY <3>2, <4>1, <4>2, AssignmentIsTrue
    <3>3. QED
      BY <1>12, <3>1, <3>2 DEF RecordOutcome
  <2>4. CASE Leave(p, "rejected")
    BY <2>1, <2>3, <2>4, <1>u, LeaveIsTrue
  <2>5. CASE ~Leave(p, "rejected")
    <3>1. TrueStatus(next)
      <4>1. SUFFICES ASSUME NEW n \in Nodes, settled(n) # {},
                            NodeOutcome(sup[p].outcome[first(n)]) = "completed"
                     PROVE  Done(n)
        BY <1>u DEF TrueStatus
      <4>2. settled(n) \in SUBSET Attempts
        BY <1>t DEF Call
      <4>3. \E b \in settled(n) : \A c \in settled(n) : b[2] <= c[2]
        BY <4>1, <4>2, FirstAttempt
      <4>4. first(n) \in sup[p].running /\ first(n)[1] = n /\ first(n) \in Attempts
        BY <4>2, <4>3
      <4>5. sup[p].outcome[first(n)] = "succeeded"
        BY <2>1, <4>1, <4>4, <1>t DEF Accounted, NodeOutcome, Outcome
      <4>6. QED
        BY <4>4, <4>5 DEF Done, TruthInv, InHandIsDispatched
    <3>2. sup' = [sup EXCEPT ![p].todo = @ \ {a},
             ![p].pc = IF sup[p].todo = {a} THEN "close" ELSE "record", ![p].next = next]
      BY <1>12, <2>5 DEF RecordOutcome
    <3> HIDE DEF next
    <3>3. /\ sup'[p].outcome = sup[p].outcome /\ sup'[p].snap = sup[p].snap
          /\ sup'[p].next = next /\ sup' = [sup EXCEPT ![p] = sup'[p]]
      BY <3>2, <1>t DEF Call
    <3>4. NoNewClaims
      BY <2>1, <3>3, <1>t DEF NoNewClaims
    <3>5. QED
      BY <2>1, <2>3, <3>1, <3>3, <3>4, <1>u, TruthKept
  <2>6. QED
    BY <2>4, <2>5
<1>13. CASE CloseCycle(p)
  <2>1. UNCHANGED <<assignments, journal, worker, recovery>>
    BY <1>13 DEF CloseCycle, Others
  <2>2. TrueStatus(graph'.status)
    BY <1>13, <1>g, <1>u DEF CloseCycle, RejectUpdate
  <2>3. CASE \E stop : Leave(p, stop)
    BY <2>1, <2>2, <2>3, <1>l
  <2>4. CASE ~\E stop : Leave(p, stop)
    <3>1. sup' = [sup EXCEPT ![p] = [Blank("none") EXCEPT !.pc = "cycle", !.rounds = sup[p].rounds + 1]]
      BY <1>13, <2>4 DEF CloseCycle, Report, RejectUpdate
    <3>2. /\ sup'[p] = [Blank("none") EXCEPT !.pc = "cycle", !.rounds = sup[p].rounds + 1]
          /\ sup' = [sup EXCEPT ![p] = sup'[p]]
      BY <3>1, <1>t
    <3>3. NoNewClaims
      <4>1. sup'[p].outcome = [a \in Attempts |-> "none"]
        BY <3>2 DEF Blank
      <4>2. QED
        BY <2>1, <3>2, <4>1, <1>t DEF NoNewClaims
    <3>4. TrueStatus(sup'[p].snap.status) /\ TrueStatus(sup'[p].next)
      BY <3>2 DEF Blank, TrueStatus
    <3>5. QED
      BY <2>1, <2>2, <3>2, <3>3, <3>4, <1>u, TruthKept
  <2>5. QED
    BY <2>3, <2>4
<1>14. CASE Abort(p)
  <2>1. UNCHANGED <<graph, assignments, journal, worker, recovery, sup>>
    BY <1>14 DEF Abort, durable
  <2>2. NoNewClaims /\ sup' = [sup EXCEPT ![p] = sup'[p]]
    BY <2>1, <1>t DEF NoNewClaims
  <2>3. QED
    BY <2>1, <2>2, <1>u, TruthKept
<1>15. CASE Crash(p)
  <2>1. /\ UNCHANGED <<graph, assignments, journal, recovery>> /\ Leave(p, "crashed")
        /\ \A a \in Attempts : worker'[a] # NoSupervisor => worker'[a] = worker[a]
    BY <1>15 DEF Crash, durable
  <2>2. QED
    BY <2>1, <1>u, LeaveIsTrue
<1>16. QED
  BY <1>1, <1>2, <1>3, <1>4, <1>5, <1>6, <1>7, <1>8, <1>9, <1>10, <1>11, <1>12, <1>13, <1>14,
     <1>15 DEF SupervisorStep

LEMMA OtherIsTrue ==
  ASSUME TruthInv, TypeInv', UNCHANGED <<journal, worker, sup>>,
         TrueStatus(graph'.status), TrueAssignments(assignments'),
         recovery'.pc # "idle" => /\ TrueStatus(recovery'.saved.graph.status)
                                  /\ TrueAssignments(recovery'.saved.assignments)
  PROVE  TruthInv'
<1>1. \A n : Done(n)' <=> Done(n)
  BY DEF Done
<1>2. InHandIsDispatched' /\ OneRunnerPerAttempt'
  BY DEF TruthInv, InHandIsDispatched, OneRunnerPerAttempt
<1>3. Truthful'
  BY <1>1 DEF TruthInv, Truthful, TrueStatus, TrueAssignments
<1>4. QED
  BY <1>2, <1>3 DEF TruthInv

LEMMA OthersAreTrue ==
  ASSUME TruthInv, TypeInv',
         \/ \E a \in Attempts : CancelRead(a)
         \/ CancelPut \/ CancelGraph \/ CrashCancel
         \/ RecoverList \/ RecoveryStep \/ CrashRecovery
         \/ \E n \in Nodes : Edit(n)
  PROVE  TruthInv'
<1>t. TypeInv /\ DocumentsTyped /\ CancellerTyped /\ RecoveryTyped
  BY TypeInvParts DEF TruthInv
<1>u. /\ TrueStatus(graph.status) /\ TrueAssignments(assignments)
      /\ recovery.pc # "idle" =>
           TrueStatus(recovery.saved.graph.status) /\ TrueAssignments(recovery.saved.assignments)
  BY DEF TruthInv, Truthful
<1>1. ASSUME UNCHANGED <<graph, assignments, journal, worker, sup>>,
             UNCHANGED recovery \/ RecoverIdle \/ RecoverList
      PROVE  TruthInv'
  BY <1>1, <1>u, OtherIsTrue DEF RecoverIdle, RecoverList
<1>2. CASE (\E a \in Attempts : CancelRead(a)) \/ CrashCancel \/ RecoverList \/ RecoverReceipt
           \/ CrashRecovery
  BY <1>1, <1>2 DEF CancelRead, CrashCancel, RecoverList, RecoverReceipt, CrashRecovery, durable
<1>3. CASE CancelPut
  <2>1. UNCHANGED <<graph, journal, worker, sup, recovery>> /\ canceller.pc = "put"
    BY <1>3 DEF CancelPut
  <2>2. "cancelled" \in AssignmentStatus /\ canceller.team \in Nat /\ canceller.attempt \in Attempts
    BY <2>1, <1>t DEF CancellerTyped, AssignmentStatus, Outcome
  <2>3. TrueAssignments(assignments')
    BY <1>3, <2>2, <1>u, AssignmentIsTrue DEF CancelPut
  <2>4. QED
    BY <2>1, <2>3, <1>u, OtherIsTrue
<1>4. CASE CancelGraph
  <2> DEFINE next == [graph.status EXCEPT ![canceller.attempt[1]] = "blocked"]
  <2>1. UNCHANGED <<assignments, journal, worker, sup, recovery>>
    BY <1>4 DEF CancelGraph
  <2>2. next \in [Nodes -> NodeStatus] /\ graph \in Graph /\ TrueStatus(next)
    BY <1>t, <1>u DEF DocumentsTyped, Graph, NodeStatus, TrueStatus
  <2>3. NextGraph(graph, next).status = next
    BY <2>2, WrittenGraph
  <2>4. TrueStatus(graph'.status)
    BY <1>4, <2>2, <2>3, <1>u DEF CancelGraph
  <2>5. QED
    BY <2>1, <2>4, <1>u, OtherIsTrue
<1>5. ASSUME NEW a \in Attempts, RecoverPut(a) PROVE TruthInv'
  <2>1. /\ UNCHANGED <<graph, journal, worker, sup>>
        /\ recovery.pc = "put" /\ a \in recovery.todo
        /\ PutAssignment(a, "interrupted", recovery.saved.assignments[a].team)
    BY <1>5 DEF RecoverPut
  <2>2. recovery.saved.assignments[a].team \in Nat /\ "interrupted" \in AssignmentStatus
    BY <2>1, <1>t DEF RecoveryTyped, Assignment, AssignmentStatus
  <2>3. TrueAssignments(assignments')
    BY <2>1, <2>2, AssignmentIsTrue
  <2>4. recovery'.saved = recovery.saved
    BY <1>5, <1>t DEF RecoverPut, RecoveryTyped
  <2>5. QED
    BY <2>1, <2>3, <2>4, <1>u, OtherIsTrue
<1>6. CASE RecoverGraph
  <2> DEFINE snap == recovery.saved.graph
  <2>1. UNCHANGED <<assignments, journal, worker, sup>> /\ recovery.pc = "graph"
    BY <1>6 DEF RecoverGraph
  <2>2. Unblocked(snap) \in [Nodes -> NodeStatus] /\ snap \in Graph
    BY <2>1, <1>t DEF RecoveryTyped, Unblocked, Graph, NodeStatus
  <2>3. TrueStatus(Unblocked(snap))
    BY <2>1, <1>u DEF TrueStatus, Unblocked
  <2>4. graph'.status = Unblocked(snap)
    BY <1>6, <2>2, <1>t, WrittenGraph DEF RecoverGraph, DocumentsTyped
  <2>5. recovery'.saved = recovery.saved
    BY <1>6, <1>t DEF RecoverGraph, RecoveryTyped
  <2>6. QED
    BY <2>1, <2>3, <2>4, <2>5, <1>u, OtherIsTrue
<1>7. CASE RecoverRestore
  <2>1. UNCHANGED <<journal, worker, sup>> /\ RecoverIdle /\ recovery.pc # "idle"
    BY <1>7 DEF RecoverRestore
  <2>2. graph' = recovery.saved.graph /\ assignments' = recovery.saved.assignments
    BY <1>7 DEF RecoverRestore
  <2>3. QED
    BY <2>1, <2>2, <1>u, OtherIsTrue DEF RecoverIdle
<1>8. ASSUME NEW n \in Nodes, Edit(n) PROVE TruthInv'
  <2>1. UNCHANGED <<assignments, journal, worker, sup, recovery>>
    BY <1>8 DEF Edit
  <2>2. PICK status \in {graph.status[n], "cancelled"},
             gated \in {graph.gated \cup {n}, graph.gated \ {n}} :
          graph' = NextGraph([graph EXCEPT !.gated = gated], [graph.status EXCEPT ![n] = status])
    BY <1>8 DEF Edit
  <2>3. /\ [graph EXCEPT !.gated = gated] \in Graph
        /\ [graph.status EXCEPT ![n] = status] \in [Nodes -> NodeStatus]
        /\ TrueStatus([graph.status EXCEPT ![n] = status])
    BY <1>t, <1>u DEF DocumentsTyped, Graph, NodeStatus, TrueStatus
  <2>4. TrueStatus(graph'.status)
    BY <2>2, <2>3, <1>t, WrittenGraph DEF DocumentsTyped
  <2>5. QED
    BY <2>1, <2>4, <1>u, OtherIsTrue
<1>9. QED
  BY <1>2, <1>3, <1>4, <1>5, <1>6, <1>7, <1>8 DEF RecoveryStep

LEMMA TruthStep == TruthInv /\ [Next]_vars => TruthInv'
<1> SUFFICES ASSUME TruthInv, [Next]_vars PROVE TruthInv'
  OBVIOUS
<1>1. TypeInv'
  BY TypeInvStep DEF TruthInv
<1>2. CASE UNCHANGED vars
  <2>1. UNCHANGED <<journal, worker, sup, graph, assignments, recovery>>
    BY <1>2 DEF vars
  <2>2. QED
    BY <1>1, <2>1, OtherIsTrue DEF TruthInv, Truthful
<1>3. CASE Next
  BY <1>1, <1>3, SupervisorIsTrue, OthersAreTrue DEF Next
<1>4. QED
  BY <1>2, <1>3

(* No overtaken write, restore, reconciliation, cancellation or crash      *)
(* makes up a completion: behind every completed node and every succeeded  *)
(* assignment there is an external operation that succeeded.               *)
THEOREM NothingIsCompletedByFiat == Spec => []NoFabricatedCompletion
<1>1. TruthInv => NoFabricatedCompletion
  BY DEF TruthInv, Truthful, TrueStatus, TrueAssignments, Done, NoFabricatedCompletion, InStatus,
         Recorded
<1>2. QED
  BY <1>1, TruthInit, TruthStep, PTL DEF Spec

(* An attempt is in the hands of one supervisor, however many listed it.   *)
THEOREM AttemptsHaveOneRunner == Spec => []OneRunnerPerAttempt
<1>1. TruthInv => OneRunnerPerAttempt
  BY DEF TruthInv
<1>2. QED
  BY <1>1, TruthInit, TruthStep, PTL DEF Spec

-----------------------------------------------------------------------------
(* Gates.                                                                  *)

(* Legal moves keep the order of the graph if what becomes ready may.      *)
LEMMA MovesKeepOrder ==
  ASSUME graph \in Graph, NEW next \in [Nodes -> NodeStatus], LegalMoves(next),
         InOrder(graph.status),
         \A n \in Nodes : graph.status[n] = "pending" /\ next[n] = "ready"
                            => dependenciesSatisfied(graph, n)
  PROVE  InOrder(next)
<1> SUFFICES ASSUME NEW n \in Nodes, next[n] \notin {"pending", "cancelled"},
                    NEW m \in Nodes, <<m, n>> \in DependsOn
             PROVE  next[m] = "completed"
  BY DEF InOrder
<1>1. graph.status[m] = "completed"
  <2>1. MayMove(graph.status[n], next[n])
    BY DEF LegalMoves
  <2>2. CASE graph.status[n] \in {"pending", "cancelled"}
    BY <2>1, <2>2 DEF MayMove, Allowed, dependenciesSatisfied
  <2>3. CASE graph.status[n] \notin {"pending", "cancelled"}
    BY <2>3 DEF InOrder
  <2>4. QED
    BY <2>2, <2>3
<1>2. MayMove(graph.status[m], next[m])
  BY DEF LegalMoves
<1>3. QED
  BY <1>1, <1>2 DEF MayMove, Allowed

(* A supervisor that gets through putWorkGraph had the graph in hand.      *)
LEMMA UpdateFacts ==
  ASSUME Orderly, GateInv, NEW p \in Supervisors, UpdateGraph(p),
         sup[p].pc \in {"promote", "start", "close"}
  PROVE  /\ sup[p].snap = graph
         /\ graph' = NextGraph(graph, sup[p].next)
         /\ graph'.status = sup[p].next
         /\ graph'.revision = graph.revision + 1
         /\ LegalMoves(sup[p].next)
         /\ InOrder(graph'.status)
<1>1. TypeInv /\ sup[p] \in Call /\ graph \in Graph
  BY TypeInvParts DEF GateInv, DocumentsTyped
<1>2. ~sup[p].checked
  BY DEF GateInv, Sensible
<1>3. sup[p].snap = graph /\ LegalMoves(sup[p].next)
  BY <1>2 DEF UpdateGraph, Checked, NextRevision, GateInv, CopiesAreNumbered, Numbered
<1>4. graph' = NextGraph(graph, sup[p].next) /\ sup[p].next \in [Nodes -> NodeStatus]
  BY <1>1, <1>3 DEF UpdateGraph, Call
<1>5. graph'.status = sup[p].next /\ graph'.revision = graph.revision + 1
  BY <1>1, <1>4, WrittenGraph
<1>6. \A n \in Nodes : graph.status[n] = "pending" /\ sup[p].next[n] = "ready"
                        => dependenciesSatisfied(graph, n)
  BY <1>3 DEF GateInv, Sensible
<1>7. InOrder(graph.status)
  BY DEF GateInv, DependencyGate, InOrder, dependenciesSatisfied
<1>8. InOrder(sup[p].next)
  BY <1>1, <1>3, <1>4, <1>6, <1>7, MovesKeepOrder
<1>9. QED
  BY <1>3, <1>4, <1>5, <1>8

(* A step of one supervisor that writes the graph, or leaves it.           *)
LEMMA GateKept ==
  ASSUME GateInv, TypeInv', NEW p \in Supervisors, sup' = [sup EXCEPT ![p] = sup'[p]],
         UNCHANGED <<canceller, recovery>>,
         \/ UNCHANGED graph
         \/ /\ graph'.revision = graph.revision + 1 /\ InOrder(graph'.status)
            /\ recovery.pc = "idle",
         sup'[p].pc = "idle" \/ recovery.pc = "idle",
         Numbered(sup'[p], graph'), Sensible(sup'[p])
  PROVE  GateInv'
<1>1. /\ sup \in [Supervisors -> Call] /\ graph \in Graph
      /\ \A q \in Supervisors \ {p} : sup'[q] = sup[q]
  BY TypeInvParts DEF GateInv, DocumentsTyped
<1>2. DependencyGate'
  BY DEF GateInv, DependencyGate, InOrder, dependenciesSatisfied
<1>3. Quiet' /\ SavedIsCurrent'
  BY <1>1 DEF GateInv, Quiet, SavedIsCurrent
<1>4. CopiesAreNumbered'
  <2>1. \A q \in Supervisors \ {p} : Numbered(sup[q], graph)
    BY DEF GateInv, CopiesAreNumbered
  <2>2. ASSUME NEW q \in Supervisors \ {p} PROVE Numbered(sup'[q], graph')
    <3>1. sup[q].snap.revision \in Nat /\ graph.revision \in Nat
      BY <1>1 DEF Call, Graph
    <3>2. QED
      BY <1>1, <2>1, <3>1 DEF Numbered
  <2>3. QED
    BY <2>2 DEF CopiesAreNumbered
<1>5. \A q \in Supervisors : Sensible(sup'[q])
  BY <1>1 DEF GateInv
<1>6. (\A q \in Supervisors : Sensible(sup[q]))'
  BY <1>5 DEF Sensible, GatesDecided, dependenciesSatisfied
<1>7. recovery'.pc # "idle" => InOrder(recovery.saved.graph.status)'
  BY DEF GateInv, InOrder
<1>8. QED
  BY <1>2, <1>3, <1>4, <1>6, <1>7 DEF GateInv

LEMMA LeaveKeepsGates ==
  ASSUME GateInv, TypeInv', NEW p \in Supervisors, NEW stop, Leave(p, stop),
         UNCHANGED <<canceller, recovery>>,
         \/ UNCHANGED graph
         \/ /\ graph'.revision = graph.revision + 1 /\ InOrder(graph'.status)
            /\ recovery.pc = "idle"
  PROVE  GateInv'
<1>1. sup'[p] = Blank(stop) /\ sup' = [sup EXCEPT ![p] = sup'[p]]
  BY TypeInvParts DEF Leave, GateInv
<1>2. Numbered(sup'[p], graph') /\ Sensible(sup'[p]) /\ sup'[p].pc = "idle"
  BY <1>1 DEF Blank, Numbered, Sensible
<1>3. QED
  BY <1>1, <1>2, GateKept

(* A step of a working supervisor that writes no graph and keeps its copy. *)
LEMMA WorkKeepsGates ==
  ASSUME GateInv, TypeInv', NEW p \in Supervisors, sup' = [sup EXCEPT ![p] = sup'[p]],
         UNCHANGED <<graph, canceller, recovery>>,
         sup[p].pc \notin {"idle", "cycle"}, sup'[p].snap = sup[p].snap,
         sup'[p].checked = sup[p].checked, Sensible(sup'[p])
  PROVE  GateInv'
<1>1. recovery.pc = "idle"
  BY DEF GateInv, Quiet
<1>2. Numbered(sup'[p], graph')
  BY DEF GateInv, CopiesAreNumbered, Numbered
<1>3. QED
  BY <1>1, <1>2, GateKept

LEMMA SupervisorKeepsGates ==
  ASSUME Orderly, GateInv, TypeInv', NEW p \in Supervisors,
         Supervise(p) \/ SupervisorStep(p) \/ Abort(p) \/ Crash(p)
  PROVE  GateInv'
<1>t. TypeInv /\ DocumentsTyped /\ sup \in [Supervisors -> Call] /\ sup[p] \in Call
  BY TypeInvParts DEF GateInv
<1>s. Sensible(sup[p]) /\ Numbered(sup[p], graph)
  BY DEF GateInv, CopiesAreNumbered
<1>q. sup[p].pc # "idle" => recovery.pc = "idle"
  BY DEF GateInv, Quiet
<1>1. CASE Supervise(p)
  <2>1. UNCHANGED <<graph, canceller, recovery>> /\ recovery.pc = "idle"
    BY <1>1 DEF Supervise, durable, Orderly
  <2>2. /\ sup'[p] = [sup[p] EXCEPT !.pc = "cycle", !.stop = "none"]
        /\ sup' = [sup EXCEPT ![p] = sup'[p]]
    BY <1>1, <1>t DEF Supervise
  <2>3. sup'[p].pc = "cycle" /\ sup'[p].checked = sup[p].checked
    BY <2>2, <1>t DEF Call
  <2>4. Numbered(sup'[p], graph') /\ Sensible(sup'[p])
    BY <2>3, <1>s DEF Numbered, Sensible
  <2>5. QED
    BY <2>1, <2>2, <2>4, GateKept
<1>2. CASE CycleRead(p)
  <2>1. UNCHANGED <<graph, canceller, recovery>> /\ sup[p].pc = "cycle"
    BY <1>2 DEF CycleRead, durable, Others
  <2>2. CASE Leave(p, "cancelled")
    BY <2>1, <2>2, LeaveKeepsGates
  <2>3. CASE sup' = [sup EXCEPT ![p].pc = "promote", ![p].snap = graph, ![p].next = Promoted(graph)]
    <3>1. /\ sup'[p] = [sup[p] EXCEPT !.pc = "promote", !.snap = graph, !.next = Promoted(graph)]
          /\ sup' = [sup EXCEPT ![p] = sup'[p]]
      BY <2>3, <1>t
    <3>2. /\ sup'[p].pc = "promote" /\ sup'[p].snap = graph /\ sup'[p].next = Promoted(graph)
          /\ sup'[p].checked = sup[p].checked
      BY <3>1, <1>t DEF Call
    <3>3. \A n \in Nodes : Promoted(graph)[n] # graph.status[n] =>
            Promoted(graph)[n] = "ready" /\ dependenciesSatisfied(graph, n)
      BY DEF Promoted
    <3>4. Numbered(sup'[p], graph') /\ Sensible(sup'[p])
      BY <2>1, <3>2, <3>3, <1>s, <1>t DEF Numbered, Sensible, DocumentsTyped, Graph
    <3>5. QED
      BY <2>1, <3>1, <3>4, <1>q, GateKept
  <2>4. QED
    BY <1>2, <2>2, <2>3 DEF CycleRead
<1>3. ~AssertRevision(p)
  BY DEF AssertRevision, Orderly
<1>4. CASE Promote(p)
  <2>1. UNCHANGED <<canceller, recovery>> /\ sup[p].pc = "promote" /\ recovery.pc = "idle"
    BY <1>4, <1>q DEF Promote, Others
  <2>2. ASSUME NEW g, Decide(p, g), Numbered([pc |-> "form", snap |-> g], graph'),
               \/ UNCHANGED graph
               \/ graph'.revision = graph.revision + 1 /\ InOrder(graph'.status)
        PROVE  GateInv'
    <3>1. CASE \E stop : Leave(p, stop)
      BY <2>1, <2>2, <3>1, LeaveKeepsGates
    <3>2. CASE /\ GatesDecided(g)
               /\ sup' = [sup EXCEPT ![p].pc = "form", ![p].snap = g, ![p].checked = FALSE]
      <4>1. /\ sup'[p] = [sup[p] EXCEPT !.pc = "form", !.snap = g, !.checked = FALSE]
            /\ sup' = [sup EXCEPT ![p] = sup'[p]]
        BY <3>2, <1>t
      <4>2. sup'[p].pc = "form" /\ sup'[p].snap = g /\ sup'[p].checked = FALSE
        BY <4>1, <1>t DEF Call
      <4>3. Numbered(sup'[p], graph') /\ Sensible(sup'[p])
        BY <2>2, <3>2, <4>2 DEF Numbered, Sensible
      <4>4. QED
        BY <2>1, <2>2, <4>1, <4>3, GateKept
    <3>3. QED
      BY <2>2, <3>1, <3>2, DecideEnds
  <2>3. CASE Decide(p, sup[p].snap) /\ UNCHANGED graph
    <3>1. Numbered([pc |-> "form", snap |-> sup[p].snap], graph')
      BY <2>1, <2>3, <1>s DEF Numbered
    <3>2. QED
      BY <2>2, <2>3, <3>1
  <2>4. CASE UpdateGraph(p) /\ Decide(p, NextGraph(sup[p].snap, sup[p].next))
    <3>1. /\ NextGraph(sup[p].snap, sup[p].next) = graph'
          /\ graph'.revision = graph.revision + 1 /\ InOrder(graph'.status)
      BY <2>1, <2>4, UpdateFacts DEF UpdateGraph
    <3>2. graph'.revision \in Nat
      BY <3>1, <1>t DEF DocumentsTyped, Graph
    <3>3. Numbered([pc |-> "form", snap |-> graph'], graph')
      BY <3>2 DEF Numbered
    <3>4. QED
      BY <2>2, <2>4, <3>1, <3>3
  <2>5. CASE RejectUpdate(p)
    BY <2>1, <2>5, LeaveKeepsGates DEF RejectUpdate
  <2>6. QED
    BY <1>4, <2>3, <2>4, <2>5 DEF Promote
<1>5. CASE FormTeam(p)
  <2>1. UNCHANGED <<graph, canceller, recovery>> /\ sup[p].pc = "form"
    BY <1>5 DEF FormTeam, durable, Others
  <2>2. PICK ready, team :
          sup' = [sup EXCEPT ![p].pc = "staff", ![p].members = ready, ![p].team = team]
    BY <1>5 DEF FormTeam
  <2>3. /\ sup'[p].pc = "staff" /\ sup'[p].snap = sup[p].snap /\ sup'[p].checked = sup[p].checked
        /\ sup' = [sup EXCEPT ![p] = sup'[p]]
    BY <2>2, <1>t DEF Call
  <2>4. Sensible(sup'[p])
    BY <2>1, <2>3, <1>s DEF Sensible
  <2>5. QED
    BY <2>1, <2>3, <2>4, WorkKeepsGates
<1>6. CASE StaffTeam(p)
  <2>1. UNCHANGED <<graph, canceller, recovery>> /\ sup[p].pc = "staff"
    BY <1>6 DEF StaffTeam, Others
  <2>2. CASE Leave(p, "rejected")
    BY <2>1, <2>2, LeaveKeepsGates
  <2>3. CASE ~Leave(p, "rejected")
    <3>1. PICK pc \in {"list", "plan"}, todo \in SUBSET (Nodes \X Nat) :
            sup' = [sup EXCEPT ![p].pc = pc, ![p].members = {}, ![p].todo = todo]
      <4>1. PICK staffed \in SUBSET {n \in sup[p].members : ~Spent(n)} :
             sup' = [sup EXCEPT
               ![p].pc = IF staffed = {} THEN "list" ELSE "plan",
               ![p].members = {},
               ![p].todo = {<<n, Cardinality(previousAttempts(n)) + 1>> : n \in staffed}]
        BY <1>6, <2>3 DEF StaffTeam
      <4>2. \A n \in staffed : n \in Nodes /\ Cardinality(previousAttempts(n)) + 1 \in Nat
        BY <1>t, AttemptsCounted DEF Call
      <4>3. {<<n, Cardinality(previousAttempts(n)) + 1>> : n \in staffed} \in SUBSET (Nodes \X Nat)
        BY <4>2
      <4>4. QED
        BY <4>1, <4>3
    <3>2. /\ sup'[p].pc = pc /\ sup'[p].snap = sup[p].snap /\ sup'[p].checked = sup[p].checked
          /\ sup' = [sup EXCEPT ![p] = sup'[p]]
      BY <3>1, <1>t DEF Call
    <3>3. Sensible(sup'[p])
      BY <2>1, <3>1, <3>2, <1>s DEF Sensible
    <3>4. QED
      BY <2>1, <3>2, <3>3, WorkKeepsGates
  <2>4. QED
    BY <2>2, <2>3
<1>7. ASSUME NEW a \in Attempts, PlanAssignment(p, a) PROVE GateInv'
  <2>1. UNCHANGED <<graph, canceller, recovery>> /\ sup[p].pc = "plan"
    BY <1>7 DEF PlanAssignment, Others
  <2>2. CASE Leave(p, "rejected")
    BY <2>1, <2>2, LeaveKeepsGates
  <2>3. CASE ~Leave(p, "rejected")
    <3>1. sup' = [sup EXCEPT ![p].todo = @ \ {a},
                              ![p].pc = IF sup[p].todo = {a} THEN "list" ELSE "plan"]
      BY <1>7, <2>3 DEF PlanAssignment
    <3>2. /\ sup'[p].pc \in {"list", "plan"} /\ sup'[p].snap = sup[p].snap
          /\ sup'[p].checked = sup[p].checked /\ sup' = [sup EXCEPT ![p] = sup'[p]]
      BY <3>1, <1>t DEF Call
    <3>3. Sensible(sup'[p])
      BY <2>1, <3>2, <1>s DEF Sensible
    <3>4. QED
      BY <2>1, <3>2, <3>3, WorkKeepsGates
  <2>4. QED
    BY <2>2, <2>3
<1>8. CASE ListPlanned(p)
  <2>1. UNCHANGED <<graph, canceller, recovery>> /\ sup[p].pc = "list"
    BY <1>8 DEF ListPlanned, durable, Others
  <2>2. CASE \E stop : Leave(p, stop)
    BY <2>1, <2>2, LeaveKeepsGates
  <2>3. CASE ~\E stop : Leave(p, stop)
    <3>1. PICK planned : sup' = [sup EXCEPT ![p].pc = "start", ![p].running = planned,
             ![p].next = [n \in Nodes |-> IF \E a \in planned : a[1] = n THEN "running"
                                          ELSE sup[p].snap.status[n]]]
      BY <1>8, <2>3 DEF ListPlanned, Report
    <3>2. /\ sup'[p].pc = "start" /\ sup'[p].snap = sup[p].snap
          /\ sup'[p].checked = sup[p].checked /\ sup' = [sup EXCEPT ![p] = sup'[p]]
          /\ sup'[p].next = [n \in Nodes |-> IF \E a \in planned : a[1] = n THEN "running"
                                             ELSE sup[p].snap.status[n]]
      BY <3>1, <1>t DEF Call
    <3>3. Sensible(sup'[p])
      BY <2>1, <3>2, <1>s DEF Sensible
    <3>4. QED
      BY <2>1, <3>2, <3>3, WorkKeepsGates
  <2>4. QED
    BY <2>2, <2>3
<1>9. CASE StartWork(p)
  <2>1. UNCHANGED <<canceller, recovery>> /\ sup[p].pc = "start" /\ recovery.pc = "idle"
    BY <1>9, <1>q DEF StartWork, Others
  <2>2. CASE RejectUpdate(p)
    BY <2>1, <2>2, LeaveKeepsGates DEF RejectUpdate
  <2>3. CASE UpdateGraph(p) /\ ~RejectUpdate(p)
    <3>1. /\ NextGraph(sup[p].snap, sup[p].next) = graph'
          /\ graph'.revision = graph.revision + 1 /\ InOrder(graph'.status)
      BY <2>1, <2>3, UpdateFacts DEF UpdateGraph
    <3>2. /\ sup'[p].pc = "mark" /\ sup'[p].snap = graph' /\ ~sup'[p].checked
          /\ sup' = [sup EXCEPT ![p] = sup'[p]]
      BY <1>9, <2>3, <3>1, <1>t DEF StartWork, Call
    <3>3. Numbered(sup'[p], graph') /\ Sensible(sup'[p])
      BY <3>1, <3>2, <1>t DEF Numbered, Sensible, DocumentsTyped, Graph
    <3>4. QED
      BY <2>1, <3>1, <3>2, <3>3, GateKept
  <2>4. QED
    BY <1>9, <2>2, <2>3 DEF StartWork
<1>10. ASSUME NEW a \in Attempts, MarkRunning(p, a) PROVE GateInv'
  <2>1. UNCHANGED <<graph, canceller, recovery>> /\ sup[p].pc = "mark"
    BY <1>10 DEF MarkRunning, Others
  <2>2. CASE Leave(p, "rejected")
    BY <2>1, <2>2, LeaveKeepsGates
  <2>3. CASE ~Leave(p, "rejected")
    <3>1. sup' = [sup EXCEPT
             ![p].todo = IF sup[p].todo = {a} THEN sup[p].running ELSE @ \ {a},
             ![p].pc = IF sup[p].todo = {a} THEN "work" ELSE "mark"]
      BY <1>10, <2>3 DEF MarkRunning
    <3>2. /\ sup'[p].pc \in {"work", "mark"} /\ sup'[p].snap = sup[p].snap
          /\ sup'[p].checked = sup[p].checked /\ sup' = [sup EXCEPT ![p] = sup'[p]]
      BY <3>1, <1>t DEF Call
    <3>3. Sensible(sup'[p])
      BY <3>2, <1>s DEF Sensible
    <3>4. QED
      BY <2>1, <3>2, <3>3, WorkKeepsGates
  <2>4. QED
    BY <2>2, <2>3
<1>11. CASE NextChunk(p)
  <2>1. UNCHANGED <<graph, canceller, recovery>> /\ sup[p].pc = "work"
    BY <1>11 DEF NextChunk, durable, Others
  <2>2. /\ sup'[p].pc \in {"work", "record"} /\ sup'[p].snap = sup[p].snap
        /\ sup'[p].checked = sup[p].checked /\ sup' = [sup EXCEPT ![p] = sup'[p]]
    <3>1. ASSUME NEW chunk, NEW todo, sup' = [sup EXCEPT ![p].chunk = chunk, ![p].todo = todo]
          PROVE  /\ sup'[p].pc = sup[p].pc /\ sup'[p].snap = sup[p].snap
                 /\ sup'[p].checked = sup[p].checked /\ sup' = [sup EXCEPT ![p] = sup'[p]]
      BY <3>1, <1>t DEF Call
    <3>2. ASSUME sup' = [sup EXCEPT ![p].pc = "record", ![p].chunk = {}, ![p].todo = sup[p].running]
          PROVE  /\ sup'[p].pc = "record" /\ sup'[p].snap = sup[p].snap
                 /\ sup'[p].checked = sup[p].checked /\ sup' = [sup EXCEPT ![p] = sup'[p]]
      BY <3>2, <1>t DEF Call
    <3>3. PICK chunk : \/ sup' = [sup EXCEPT ![p].chunk = chunk, ![p].todo = @ \ chunk]
                       \/ sup' = [sup EXCEPT ![p].pc = "record", ![p].chunk = {},
                                             ![p].todo = sup[p].running]
      BY <1>11 DEF NextChunk
    <3>4. QED
      BY <2>1, <3>1, <3>2, <3>3
  <2>3. Sensible(sup'[p])
    BY <2>2, <1>s DEF Sensible
  <2>4. QED
    BY <2>1, <2>2, <2>3, WorkKeepsGates
<1>12. CASE RejectChunk(p)
  BY <1>12, LeaveKeepsGates DEF RejectChunk, durable, Others
<1>13. ASSUME NEW a \in Attempts, Dispatch(p, a) \/ FinishWork(p, a) PROVE GateInv'
  <2>1. UNCHANGED <<graph, canceller, recovery>>
    BY <1>13 DEF Dispatch, FinishWork, Others
  <2>2. /\ sup'[p].pc = sup[p].pc /\ sup'[p].snap = sup[p].snap /\ sup'[p].next = sup[p].next
        /\ sup'[p].checked = sup[p].checked /\ sup' = [sup EXCEPT ![p] = sup'[p]]
    <3>1. PICK answer : sup' = [sup EXCEPT ![p].outcome[a] = answer] \/ sup' = sup
      BY <1>13 DEF Dispatch, FinishWork
    <3>2. CASE sup' = sup
      BY <3>2, <1>t
    <3>3. CASE sup' = [sup EXCEPT ![p].outcome[a] = answer]
      BY <3>3, <1>t DEF Call
    <3>4. QED
      BY <3>1, <3>2, <3>3
  <2>3. Sensible(sup'[p]) /\ Numbered(sup'[p], graph')
    BY <2>1, <2>2, <1>s DEF Sensible, Numbered
  <2>4. QED
    BY <2>1, <2>2, <2>3, <1>q, GateKept
<1>14. ASSUME NEW a \in Attempts, RecordOutcome(p, a) PROVE GateInv'
  <2> DEFINE settled(n) == {b \in sup[p].running : b[1] = n}
             first(n) == CHOOSE b \in settled(n) : \A c \in settled(n) : b[2] <= c[2]
             next == [n \in Nodes |-> IF settled(n) = {} THEN sup[p].snap.status[n]
                                      ELSE NodeOutcome(sup[p].outcome[first(n)])]
  <2>1. UNCHANGED <<graph, canceller, recovery>> /\ sup[p].pc = "record"
    BY <1>14 DEF RecordOutcome, Others
  <2>2. CASE Leave(p, "rejected")
    BY <2>1, <2>2, LeaveKeepsGates
  <2>3. CASE ~Leave(p, "rejected")
    <3>1. ASSUME NEW n \in Nodes, next[n] # sup[p].snap.status[n]
          PROVE  next[n] \in {"completed", "failed", "cancelled"}
      <4>1. settled(n) # {} /\ settled(n) \in SUBSET Attempts
        BY <3>1, <1>t DEF Call
      <4>2. \E b \in settled(n) : \A c \in settled(n) : b[2] <= c[2]
        BY <4>1, FirstAttempt
      <4>3. sup[p].outcome[first(n)] \in Outcome
        BY <2>1, <4>2, TypeInvParts, <1>t DEF Accounted
      <4>4. next[n] = NodeOutcome(sup[p].outcome[first(n)])
        BY <4>1
      <4>5. QED
        BY <4>3, <4>4 DEF NodeOutcome, Outcome
    <3>2. sup' = [sup EXCEPT ![p].todo = @ \ {a},
             ![p].pc = IF sup[p].todo = {a} THEN "close" ELSE "record", ![p].next = next]
      BY <1>14, <2>3 DEF RecordOutcome
    <3> HIDE DEF next
    <3>3. /\ sup'[p].pc \in {"close", "record"} /\ sup'[p].snap = sup[p].snap
          /\ sup'[p].next = next /\ sup'[p].checked = sup[p].checked
          /\ sup' = [sup EXCEPT ![p] = sup'[p]]
      BY <3>2, <1>t DEF Call
    <3>4. Sensible(sup'[p])
      BY <3>1, <3>3, <1>s DEF Sensible
    <3>5. QED
      BY <2>1, <3>3, <3>4, WorkKeepsGates
  <2>4. QED
    BY <2>2, <2>3
<1>15. CASE CloseCycle(p)
  <2>1. UNCHANGED <<canceller, recovery>> /\ sup[p].pc = "close" /\ recovery.pc = "idle"
    BY <1>15, <1>q DEF CloseCycle, Others
  <2>2. UNCHANGED graph \/ (graph'.revision = graph.revision + 1 /\ InOrder(graph'.status))
    BY <1>15, <2>1, UpdateFacts DEF CloseCycle, RejectUpdate
  <2>3. CASE \E stop : Leave(p, stop)
    BY <2>1, <2>2, <2>3, LeaveKeepsGates
  <2>4. CASE ~\E stop : Leave(p, stop)
    <3>1. sup' = [sup EXCEPT ![p] = [Blank("none") EXCEPT !.pc = "cycle", !.rounds = sup[p].rounds + 1]]
      BY <1>15, <2>4 DEF CloseCycle, Report, RejectUpdate
    <3>2. /\ sup'[p] = [Blank("none") EXCEPT !.pc = "cycle", !.rounds = sup[p].rounds + 1]
          /\ sup' = [sup EXCEPT ![p] = sup'[p]]
      BY <3>1, <1>t
    <3>3. sup'[p].pc = "cycle" /\ ~sup'[p].checked
      BY <3>2 DEF Blank
    <3>4. Numbered(sup'[p], graph') /\ Sensible(sup'[p])
      BY <3>3 DEF Numbered, Sensible
    <3>5. QED
      BY <2>1, <2>2, <3>2, <3>4, GateKept
  <2>5. QED
    BY <2>3, <2>4
<1>16. CASE Abort(p)
  <2>1. UNCHANGED <<graph, canceller, recovery>> /\ UNCHANGED sup
    BY <1>16 DEF Abort, durable
  <2>2. sup' = [sup EXCEPT ![p] = sup'[p]] /\ Numbered(sup'[p], graph') /\ Sensible(sup'[p])
    BY <2>1, <1>s, <1>t
  <2>3. QED
    BY <2>1, <2>2, <1>q, GateKept
<1>17. CASE Crash(p)
  BY <1>17, LeaveKeepsGates DEF Crash, durable
<1>18. QED
  BY <1>1, <1>2, <1>3, <1>4, <1>5, <1>6, <1>7, <1>8, <1>9, <1>10, <1>11, <1>12, <1>13, <1>14,
     <1>15, <1>16, <1>17 DEF SupervisorStep

(* A step of somebody else, beside supervisors that go on as they were.    *)
LEMMA OtherKeepsGates ==
  ASSUME GateInv, TypeInv', UNCHANGED sup, Quiet', SavedIsCurrent',
         recovery'.pc # "idle" => InOrder(recovery'.saved.graph.status),
         \/ UNCHANGED graph
         \/ /\ InOrder(graph'.status)
            /\ \/ graph'.revision = graph.revision + 1
               \/ recovery.pc # "idle"
  PROVE  GateInv'
<1>1. /\ sup \in [Supervisors -> Call] /\ graph \in Graph
  BY TypeInvParts DEF GateInv, DocumentsTyped
<1>2. DependencyGate'
  BY DEF GateInv, DependencyGate, InOrder, dependenciesSatisfied
<1>3. CopiesAreNumbered'
  <2>1. ASSUME NEW p \in Supervisors PROVE Numbered(sup[p], graph')
    <3>1. Numbered(sup[p], graph) /\ (recovery.pc # "idle" => sup[p].pc = "idle")
      BY DEF GateInv, CopiesAreNumbered, Quiet
    <3>2. sup[p].snap.revision \in Nat /\ graph.revision \in Nat
      BY <1>1 DEF Call, Graph
    <3>3. QED
      BY <3>1, <3>2 DEF Numbered
  <2>2. QED
    BY <2>1 DEF CopiesAreNumbered
<1>4. (\A p \in Supervisors : Sensible(sup[p]))'
  BY DEF GateInv, Sensible, GatesDecided, dependenciesSatisfied
<1>5. (recovery.pc # "idle" => InOrder(recovery.saved.graph.status))'
  BY DEF InOrder
<1>6. QED
  BY <1>2, <1>3, <1>4, <1>5 DEF GateInv

LEMMA OthersKeepGates ==
  ASSUME Orderly, GateInv, TypeInv',
         \/ \E a \in Attempts : CancelRead(a)
         \/ CancelPut \/ CancelGraph \/ CrashCancel
         \/ RecoverList \/ RecoveryStep \/ CrashRecovery
         \/ \E n \in Nodes : Edit(n)
  PROVE  GateInv'
<1>t. TypeInv /\ graph \in Graph /\ CancellerTyped /\ RecoveryTyped
  BY TypeInvParts DEF GateInv, DocumentsTyped
<1>g. /\ InOrder(graph.status)
      /\ recovery.pc # "idle" => InOrder(recovery.saved.graph.status)
  BY DEF GateInv, DependencyGate, InOrder, dependenciesSatisfied
<1>q. Quiet /\ SavedIsCurrent
  BY DEF GateInv
<1>1. ASSUME NEW a \in Attempts, CancelRead(a) PROVE GateInv'
  <2>1. UNCHANGED <<graph, sup, recovery>> /\ recovery.pc = "idle"
    BY <1>1 DEF CancelRead, durable, Orderly
  <2>2. Quiet' /\ SavedIsCurrent'
    BY <2>1 DEF Quiet, SavedIsCurrent
  <2>3. QED
    BY <2>1, <2>2, OtherKeepsGates
<1>2. CASE CancelPut \/ CrashCancel
  <2>1. UNCHANGED <<graph, sup, recovery>> /\ canceller.pc # "idle"
    BY <1>2 DEF CancelPut, CrashCancel, durable
  <2>2. Quiet' /\ SavedIsCurrent' /\ recovery.pc = "idle"
    BY <2>1, <1>q DEF Quiet, SavedIsCurrent
  <2>3. QED
    BY <2>1, <2>2, OtherKeepsGates
<1>3. CASE CancelGraph
  <2> DEFINE n == canceller.attempt[1]
             next == [graph.status EXCEPT ![n] = "blocked"]
  <2>1. UNCHANGED <<sup, recovery>> /\ canceller.pc # "idle" /\ n \in Nodes
    BY <1>3, <1>t DEF CancelGraph, CancellerTyped, Attempts
  <2>2. Quiet' /\ SavedIsCurrent' /\ recovery.pc = "idle"
    BY <2>1, <1>q DEF Quiet, SavedIsCurrent
  <2>3. CASE UNCHANGED graph
    BY <2>1, <2>2, <2>3, OtherKeepsGates
  <2>4. CASE graph.status[n] = "running" /\ graph' = NextGraph(graph, next)
    <3>1. next \in [Nodes -> NodeStatus] /\ LegalMoves(next)
      BY <2>1, <2>4, <1>t DEF Graph, NodeStatus, LegalMoves, MayMove, Allowed
    <3>2. \A m \in Nodes : graph.status[m] = "pending" => next[m] # "ready"
      BY <1>t DEF Graph
    <3>3. InOrder(next)
      BY <3>1, <3>2, <1>t, <1>g, MovesKeepOrder
    <3>4. graph'.status = next /\ graph'.revision = graph.revision + 1
      BY <2>4, <3>1, <1>t, WrittenGraph
    <3>5. QED
      BY <2>1, <2>2, <3>3, <3>4, OtherKeepsGates
  <2>5. QED
    BY <1>3, <2>3, <2>4 DEF CancelGraph
<1>4. CASE RecoverList
  <2>1. /\ UNCHANGED <<graph, sup, canceller>> /\ Alone
        /\ recovery'.pc = "put" /\ recovery'.saved.graph = graph
    BY <1>4 DEF RecoverList, Orderly, durable
  <2>2. Quiet' /\ SavedIsCurrent'
    BY <2>1 DEF Alone, Quiet, SavedIsCurrent
  <2>3. QED
    BY <2>1, <2>2, <1>g, OtherKeepsGates
<1>5. ASSUME NEW a \in Attempts, RecoverPut(a) PROVE GateInv'
  <2>1. /\ UNCHANGED <<graph, sup, canceller>> /\ recovery.pc = "put"
        /\ recovery'.pc \in {"put", "graph"} /\ recovery'.saved = recovery.saved
    BY <1>5, <1>t DEF RecoverPut, RecoveryTyped
  <2>2. Quiet' /\ SavedIsCurrent'
    BY <2>1, <1>q DEF Quiet, SavedIsCurrent
  <2>3. QED
    BY <2>1, <2>2, <1>g, OtherKeepsGates
<1>6. CASE RecoverGraph
  <2>1. /\ UNCHANGED <<sup, canceller>> /\ recovery.pc = "graph"
        /\ recovery'.pc = "receipt" /\ recovery'.saved = recovery.saved
        /\ recovery.saved.graph = graph /\ LegalMoves(Unblocked(graph))
        /\ graph' = NextGraph(graph, Unblocked(graph))
    BY <1>6, <1>t, <1>q DEF RecoverGraph, RecoveryTyped, SavedIsCurrent, NextRevision
  <2>2. Unblocked(graph) \in [Nodes -> NodeStatus]
    BY <1>t DEF Unblocked, Graph, NodeStatus
  <2>3. InOrder(Unblocked(graph))
    BY <2>1, <2>2, <1>t, <1>g, MovesKeepOrder DEF Unblocked
  <2>4. /\ graph'.status = Unblocked(graph) /\ graph'.revision = graph.revision + 1
        /\ graph'.version = graph.version + 1 /\ graph.version \in Nat
    BY <2>1, <2>2, <1>t, WrittenGraph DEF Graph
  <2>5. Quiet' /\ SavedIsCurrent'
    BY <2>1, <2>4, <1>q DEF Quiet, SavedIsCurrent
  <2>6. QED
    BY <2>1, <2>3, <2>4, <2>5, <1>g, OtherKeepsGates
<1>7. CASE RecoverReceipt \/ CrashRecovery
  <2>1. UNCHANGED <<graph, sup>> /\ recovery'.pc = "idle"
    BY <1>7 DEF RecoverReceipt, CrashRecovery, RecoverIdle, durable
  <2>2. Quiet' /\ SavedIsCurrent'
    BY <2>1 DEF Quiet, SavedIsCurrent
  <2>3. QED
    BY <2>1, <2>2, OtherKeepsGates
<1>8. CASE RecoverRestore
  <2>1. /\ UNCHANGED sup /\ recovery.pc # "idle" /\ recovery'.pc = "idle"
        /\ graph' = recovery.saved.graph
    BY <1>8 DEF RecoverRestore, RecoverIdle
  <2>2. Quiet' /\ SavedIsCurrent'
    BY <2>1 DEF Quiet, SavedIsCurrent
  <2>3. QED
    BY <2>1, <2>2, <1>g, OtherKeepsGates
<1>9. ASSUME NEW n \in Nodes, Edit(n) PROVE GateInv'
  <2>1. UNCHANGED <<sup, canceller, recovery>> /\ recovery.pc = "idle"
    BY <1>9 DEF Edit, Orderly
  <2>2. Quiet' /\ SavedIsCurrent'
    BY <2>1 DEF Quiet, SavedIsCurrent
  <2>3. PICK status \in {graph.status[n], "cancelled"},
             gated \in {graph.gated \cup {n}, graph.gated \ {n}} :
          graph' = NextGraph([graph EXCEPT !.gated = gated], [graph.status EXCEPT ![n] = status])
    BY <1>9 DEF Edit
  <2> DEFINE next == [graph.status EXCEPT ![n] = status]
  <2>4. /\ [graph EXCEPT !.gated = gated] \in Graph
        /\ [graph EXCEPT !.gated = gated].revision = graph.revision
        /\ next \in [Nodes -> NodeStatus]
    BY <1>t DEF Graph, NodeStatus
  <2>5. LegalMoves(next)
    BY <1>9, <1>t DEF Edit, Graph, NodeStatus, LegalMoves, MayMove, Allowed
  <2>6. \A m \in Nodes : graph.status[m] = "pending" => next[m] # "ready"
    BY <1>t DEF Graph
  <2>7. InOrder(next)
    BY <2>4, <2>5, <2>6, <1>t, <1>g, MovesKeepOrder
  <2>8. graph'.status = next /\ graph'.revision = graph.revision + 1
    <3> DEFINE edited == [graph EXCEPT !.gated = gated]
    <3>1. graph' = NextGraph(edited, next) /\ edited \in Graph /\ edited.revision = graph.revision
      BY <2>3, <2>4
    <3> HIDE DEF edited, next
    <3>2. QED
      BY <3>1, <2>4, <1>t, WrittenGraph
  <2>9. QED
    BY <2>1, <2>2, <2>7, <2>8, OtherKeepsGates
<1>10. QED
  BY <1>1, <1>2, <1>3, <1>4, <1>5, <1>6, <1>7, <1>8, <1>9 DEF RecoveryStep

LEMMA GateInit == Init => GateInv
<1> SUFFICES ASSUME Init PROVE GateInv
  OBVIOUS
<1>1. TypeInv /\ recovery.pc = "idle" /\ \A p \in Supervisors : sup[p] = Blank("none")
  BY TypeInvInit DEF Init
<1>2. \A n \in Nodes : graph.status[n] = "pending"
  BY DEF Init
<1>3. DependencyGate
  BY <1>2 DEF DependencyGate
<1>4. Quiet /\ SavedIsCurrent /\ CopiesAreNumbered /\ \A p \in Supervisors : Sensible(sup[p])
  BY <1>1 DEF Quiet, SavedIsCurrent, CopiesAreNumbered, Numbered, Sensible, Blank
<1>5. QED
  BY <1>1, <1>3, <1>4 DEF GateInv

LEMMA GateStep == Orderly /\ GateInv /\ [Next]_vars => GateInv'
<1> SUFFICES ASSUME Orderly, GateInv, [Next]_vars PROVE GateInv'
  OBVIOUS
<1>1. TypeInv'
  BY TypeInvStep DEF GateInv
<1>2. CASE UNCHANGED vars
  <2>1. UNCHANGED <<sup, graph, canceller, recovery>>
    BY <1>2 DEF vars
  <2>2. Quiet' /\ SavedIsCurrent'
    BY <2>1 DEF GateInv, Quiet, SavedIsCurrent
  <2>3. QED
    BY <1>1, <2>1, <2>2, OtherKeepsGates DEF GateInv
<1>3. CASE Next
  BY <1>1, <1>3, SupervisorKeepsGates, OthersKeepGates DEF Next
<1>4. QED
  BY <1>2, <1>3

(* Work never runs ahead of the graph, however many supervisors act on     *)
(* copies of it that others have overtaken: a node leaves "pending" only   *)
(* when what it depends on is completed, and completed it stays.           *)
THEOREM WorkFollowsTheGraph ==
  ASSUME Orderly
  PROVE  Spec => []DependencyGate
<1>1. GateInv => DependencyGate
  BY DEF GateInv
<1>2. GateInv /\ [Next]_vars => GateInv'
  BY GateStep
<1>3. QED
  BY <1>1, <1>2, GateInit, PTL DEF Spec

(* Of a supervisor's steps only putWorkGraph changes the graph.            *)
LEMMA GraphWrites ==
  ASSUME NEW p \in Supervisors, SupervisorStep(p), ~(UNCHANGED graph)
  PROVE  UpdateGraph(p) /\ sup[p].pc \in {"promote", "start", "close"}
  BY DEF SupervisorStep, CycleRead, AssertRevision, Promote, FormTeam, StaffTeam, ListPlanned,
       StartWork, NextChunk, RejectChunk, CloseCycle, PlanAssignment, MarkRunning, Dispatch,
       FinishWork, RecordOutcome, RejectUpdate, durable

(* A supervisor that starts work does so on the graph it has decided       *)
(* about, and what it decided still holds there.                           *)
LEMMA SupervisorStartsRunnable ==
  ASSUME Orderly, GateInv, NEW p \in Supervisors, SupervisorStep(p),
         graph'.version > graph.version,
         NEW n \in Nodes, graph.status[n] # "running", graph'.status[n] = "running"
  PROVE  Runnable(graph, n)
<1>1. ~(UNCHANGED graph)
  BY TypeInvParts DEF GateInv, DocumentsTyped, Graph
<1>2. UpdateGraph(p) /\ sup[p].pc \in {"promote", "start", "close"}
  BY <1>1, GraphWrites
<1>3. /\ sup[p].snap = graph /\ graph'.status = sup[p].next
      /\ LegalMoves(sup[p].next) /\ Sensible(sup[p])
  BY <1>2, UpdateFacts DEF GateInv
<1>4. sup[p].pc = "start"
  BY <1>2, <1>3 DEF Sensible
<1>5. graph.status[n] = "ready"
  BY <1>3 DEF LegalMoves, MayMove, Allowed
<1>6. n \notin graph.gated
  BY <1>3, <1>4, <1>5 DEF Sensible, GatesDecided
<1>7. dependenciesSatisfied(graph, n)
  BY <1>5 DEF GateInv, DependencyGate
<1>8. QED
  BY <1>5, <1>6, <1>7 DEF Runnable

(* Nobody else starts anything: a cancellation and the reconciliation      *)
(* block, an edit cancels, and a restore makes no new version.             *)
LEMMA OthersStartNothing ==
  ASSUME Orderly, GateInv,
         \/ \E a \in Attempts : CancelRead(a)
         \/ CancelPut \/ CancelGraph \/ CrashCancel
         \/ RecoverList \/ RecoveryStep \/ CrashRecovery
         \/ \E n \in Nodes : Edit(n),
         graph'.version > graph.version,
         NEW n \in Nodes, graph.status[n] # "running"
  PROVE  graph'.status[n] # "running"
<1>t. /\ graph \in Graph /\ CancellerTyped /\ RecoveryTyped /\ SavedIsCurrent
      /\ ~(UNCHANGED graph)
  BY TypeInvParts DEF GateInv, DocumentsTyped, Graph
<1>1. CASE CancelGraph
  <2> DEFINE next == [graph.status EXCEPT ![canceller.attempt[1]] = "blocked"]
  <2>1. graph' = NextGraph(graph, next) /\ next \in [Nodes -> NodeStatus]
    BY <1>1, <1>t DEF CancelGraph, Graph, NodeStatus
  <2>2. graph'.status = next
    BY <2>1, <1>t, WrittenGraph
  <2>3. QED
    BY <2>2, <1>t DEF Graph
<1>2. CASE RecoverGraph
  <2>1. /\ graph' = NextGraph(graph, Unblocked(graph))
        /\ Unblocked(graph) \in [Nodes -> NodeStatus]
    BY <1>2, <1>t DEF RecoverGraph, SavedIsCurrent, Unblocked, Graph, NodeStatus
  <2>2. graph'.status = Unblocked(graph)
    BY <2>1, <1>t, WrittenGraph
  <2>3. QED
    BY <2>2 DEF Unblocked
<1>3. CASE RecoverRestore
  <2>1. graph' = recovery.saved.graph /\ recovery.pc \in {"put", "graph", "receipt"}
    BY <1>3 DEF RecoverRestore
  <2>2. graph'.version <= graph.version
    BY <2>1, <1>t DEF SavedIsCurrent, Graph
  <2>3. QED
    BY <2>2, <2>1, <1>t DEF RecoveryTyped, Graph
<1>4. ASSUME NEW m \in Nodes, Edit(m) PROVE graph'.status[n] # "running"
  <2>1. PICK status \in {graph.status[m], "cancelled"},
             gated \in {graph.gated \cup {m}, graph.gated \ {m}} :
          graph' = NextGraph([graph EXCEPT !.gated = gated], [graph.status EXCEPT ![m] = status])
    BY <1>4 DEF Edit
  <2> DEFINE edited == [graph EXCEPT !.gated = gated]
             next == [graph.status EXCEPT ![m] = status]
  <2>2. edited \in Graph /\ next \in [Nodes -> NodeStatus] /\ graph' = NextGraph(edited, next)
    BY <2>1, <1>t DEF Graph, NodeStatus
  <2>3. next[n] # "running"
    BY <1>t DEF Graph
  <2> HIDE DEF edited, next
  <2>4. graph'.status = next
    BY <2>2, <1>t, WrittenGraph
  <2>5. QED
    BY <2>3, <2>4
<1>5. QED
  BY <1>1, <1>2, <1>3, <1>4, <1>t DEF CancelRead, CancelPut, CrashCancel, RecoverList,
     RecoveryStep, RecoverReceipt, RecoverPut, CrashRecovery, durable

(* A node is started out of "ready", ungated, with its dependencies        *)
(* completed, in the very version that the start replaces.                 *)
THEOREM StartsAreGated ==
  ASSUME Orderly
  PROVE  Spec => StartGate
<1>1. ASSUME GateInv, [Next]_vars, NEW n \in Nodes, graph'.version > graph.version,
             graph.status[n] # "running", graph'.status[n] = "running"
      PROVE  Runnable(graph, n)
  <2>1. ~(UNCHANGED graph)
    BY <1>1, TypeInvParts DEF GateInv, DocumentsTyped, Graph
  <2>2. Next
    BY <1>1, <2>1 DEF vars
  <2>3. ASSUME NEW p \in Supervisors PROVE ~(Supervise(p) \/ Abort(p) \/ Crash(p))
    BY <2>1 DEF Supervise, Abort, Crash, durable
  <2>4. QED
    BY <1>1, <2>2, <2>3, SupervisorStartsRunnable, OthersStartNothing DEF Next
<1>2. GateInv /\ [Next]_vars =>
        \A n \in Nodes :
          /\ graph'.version > graph.version
          /\ graph.status[n] # "running" /\ graph'.status[n] = "running"
          => Runnable(graph, n)
  BY <1>1
<1>3. GateInv /\ [Next]_vars =>
        [\A n \in Nodes :
          /\ graph'.version > graph.version
          /\ graph.status[n] # "running" /\ graph'.status[n] = "running"
          => Runnable(graph, n)]_vars
  BY <1>2
<1>4. GateInv /\ [Next]_vars => GateInv'
  BY GateStep
<1>5. QED
  BY <1>3, <1>4, GateInit, PTL DEF Spec, StartGate

-----------------------------------------------------------------------------
(* Verdicts.                                                               *)

(* A graph where the nodes that have ended in the other have ended alike.  *)
EndsAgree(status, later) ==
  \A n \in Nodes : status[n] \in {"completed", "cancelled"} => later[n] = status[n]

(* What ended stays as it ended: in the graph after the copy of a          *)
(* supervisor, and in the checkpoint a reconciliation may return to.       *)
VerdictInv ==
  /\ GateInv
  /\ StopVerdict
  /\ \A p \in Supervisors :
       sup[p].pc \notin {"idle", "cycle"} => EndsAgree(sup[p].snap.status, graph.status)
  /\ recovery.pc # "idle" => EndsAgree(graph.status, recovery.saved.graph.status)

LEMMA LegalMovesKeepEnds ==
  ASSUME NEW next, LegalMoves(next)
  PROVE  EndsAgree(graph.status, next)
  BY DEF LegalMoves, MayMove, Allowed, EndsAgree

(* No step takes back that a node has ended.                               *)
LEMMA EndsAreKept ==
  ASSUME Orderly, VerdictInv, Next
  PROVE  EndsAgree(graph.status, graph'.status)
<1>t. GateInv /\ graph \in Graph /\ CancellerTyped /\ RecoveryTyped /\ SavedIsCurrent
  BY TypeInvParts DEF VerdictInv, GateInv, DocumentsTyped
<1>1. CASE UNCHANGED graph
  BY <1>1 DEF EndsAgree
<1>2. ASSUME NEW p \in Supervisors, SupervisorStep(p), ~(UNCHANGED graph)
      PROVE  EndsAgree(graph.status, graph'.status)
  <2>1. UpdateGraph(p) /\ sup[p].pc \in {"promote", "start", "close"}
    BY <1>2, GraphWrites
  <2>2. QED
    BY <2>1, <1>t, UpdateFacts, LegalMovesKeepEnds
<1>3. CASE CancelGraph /\ ~(UNCHANGED graph)
  <2> DEFINE next == [graph.status EXCEPT ![canceller.attempt[1]] = "blocked"]
  <2>1. /\ graph' = NextGraph(graph, next) /\ next \in [Nodes -> NodeStatus]
        /\ EndsAgree(graph.status, next)
    BY <1>3, <1>t DEF CancelGraph, Graph, NodeStatus, EndsAgree
  <2>2. QED
    BY <2>1, <1>t, WrittenGraph
<1>4. CASE RecoverGraph
  <2>1. /\ graph' = NextGraph(graph, Unblocked(graph))
        /\ Unblocked(graph) \in [Nodes -> NodeStatus] /\ LegalMoves(Unblocked(graph))
    BY <1>4, <1>t DEF RecoverGraph, SavedIsCurrent, Unblocked, Graph, NodeStatus, NextRevision
  <2>2. QED
    BY <2>1, <1>t, WrittenGraph, LegalMovesKeepEnds
<1>5. CASE RecoverRestore
  BY <1>5 DEF RecoverRestore, VerdictInv
<1>6. ASSUME NEW m \in Nodes, Edit(m) PROVE EndsAgree(graph.status, graph'.status)
  <2>1. PICK status \in {graph.status[m], "cancelled"},
             gated \in {graph.gated \cup {m}, graph.gated \ {m}} :
          graph' = NextGraph([graph EXCEPT !.gated = gated], [graph.status EXCEPT ![m] = status])
    BY <1>6 DEF Edit
  <2> DEFINE edited == [graph EXCEPT !.gated = gated]
             next == [graph.status EXCEPT ![m] = status]
  <2>2. /\ edited \in Graph /\ next \in [Nodes -> NodeStatus] /\ graph' = NextGraph(edited, next)
        /\ EndsAgree(graph.status, next)
    BY <2>1, <1>6, <1>t DEF Edit, Graph, NodeStatus, EndsAgree
  <2> HIDE DEF edited, next
  <2>3. QED
    BY <2>2, <1>t, WrittenGraph
<1>7. QED
  BY <1>1, <1>2, <1>3, <1>4, <1>5, <1>6 DEF Next, Supervise, Abort, Crash, CancelRead, CancelPut,
     CrashCancel, RecoverList, RecoveryStep, RecoverReceipt, RecoverPut, CrashRecovery, durable

(* What the two verdicts say of the graph they are given about.            *)
Verdict(stop, status) ==
  /\ stop = "completed" => \A n \in Nodes : status[n] = "completed"
  /\ stop = "cancelled" => \E n \in Nodes : status[n] = "cancelled"

LEMMA ReasonIsVerdict ==
  ASSUME NEW g, NEW limit \in Limits \cup {"none"}
  PROVE  Verdict(StopReasonForGraph(g, limit), g.status)
  BY DEF StopReasonForGraph, Verdict

LEMMA ReportIsVerdict ==
  ASSUME sup \in [Supervisors -> Call], NEW p \in Supervisors, NEW stop, NEW status,
         Verdict(stop, status), Report(p, stop)
  PROVE  Verdict(sup'[p].stop, status) /\ sup'[p].pc = "idle"
  BY DEF Report, Leave, Blank, Verdict

LEMMA SupervisorsLeaveRecovery ==
  ASSUME NEW p \in Supervisors, SupervisorStep(p)
  PROVE  UNCHANGED recovery
<1>1. ASSUME CycleRead(p) \/ AssertRevision(p) \/ Promote(p) \/ FormTeam(p) \/ StaffTeam(p)
      PROVE  UNCHANGED recovery
  BY <1>1 DEF CycleRead, AssertRevision, Promote, FormTeam, StaffTeam, Others
<1>2. ASSUME \/ ListPlanned(p) \/ StartWork(p) \/ NextChunk(p) \/ RejectChunk(p)
             \/ CloseCycle(p)
      PROVE  UNCHANGED recovery
  BY <1>2 DEF ListPlanned, StartWork, NextChunk, RejectChunk, CloseCycle, Others
<1>3. ASSUME NEW a \in Attempts,
             \/ PlanAssignment(p, a) \/ MarkRunning(p, a) \/ Dispatch(p, a)
             \/ FinishWork(p, a) \/ RecordOutcome(p, a)
      PROVE  UNCHANGED recovery
  BY <1>3 DEF PlanAssignment, MarkRunning, Dispatch, FinishWork, RecordOutcome, Others
<1>4. QED
  BY <1>1, <1>2, <1>3 DEF SupervisorStep

(* What a step of a supervisor does to its report and to its copy.         *)
Reported(p) ==
  \/ sup'[p].stop = sup[p].stop
  \/ Verdict(sup'[p].stop, graph'.status)
  \/ p \in aborted /\ sup'[p].stop = "cancelled"

CopyKept(p) ==
  \/ sup'[p].pc \in {"idle", "cycle"}
  \/ sup'[p].snap = graph'
  \/ sup[p].pc \notin {"idle", "cycle"} /\ sup'[p].snap = sup[p].snap
  \/ sup'[p].pc = sup[p].pc /\ sup'[p].snap = sup[p].snap

InCharacter(p) ==
  /\ Reported(p) /\ CopyKept(p)
  /\ UNCHANGED aborted /\ \A q \in Supervisors \ {p} : sup'[q] = sup[q]

LEMMA SupervisorsVerdict ==
  ASSUME Orderly, VerdictInv, NEW p \in Supervisors, SupervisorStep(p)
  PROVE  InCharacter(p)
<1>t. GateInv /\ graph \in Graph /\ sup \in [Supervisors -> Call] /\ sup[p] \in Call
  BY TypeInvParts DEF VerdictInv, GateInv, DocumentsTyped
(* It stops without a verdict, or goes on with the copy it has. *)
<1>l. ASSUME NEW stop, Leave(p, stop) \/ Report(p, stop), stop \notin {"completed", "cancelled"},
             UNCHANGED aborted
      PROVE  InCharacter(p)
  BY <1>l, <1>t DEF Leave, Report, Blank, Verdict, Reported, CopyKept, InCharacter
<1>k. ASSUME NEW s, sup' = [sup EXCEPT ![p] = s], s.stop = sup[p].stop, UNCHANGED aborted,
             \/ s.snap = graph'
             \/ s.snap = sup[p].snap /\ sup[p].pc \notin {"idle", "cycle"}
             \/ s.snap = sup[p].snap /\ s.pc = sup[p].pc
      PROVE  InCharacter(p)
  BY <1>k, <1>t DEF Reported, CopyKept, InCharacter
<1>1. ASSUME NEW g, Decide(p, g), UNCHANGED aborted, sup[p].pc = "promote",
             EndsAgree(g.status, graph'.status), g = sup[p].snap \/ g = graph'
      PROVE  InCharacter(p)
  <2>1. PICK limit \in Limits \cup {"none"} :
          LET reason == StopReasonForGraph(g, limit)
              runnable == {n \in Nodes : Runnable(g, n)}
          IN \/ reason # "none" /\ Report(p, reason)
             \/ /\ reason = "none" /\ runnable = {}
                /\ IF \E n \in Nodes : g.status[n] \in {"pending", "blocked", "running"}
                   THEN Report(p, "blocked") ELSE Report(p, "idle")
             \/ /\ reason = "none" /\ runnable # {}
                /\ sup' = [sup EXCEPT ![p].pc = "form", ![p].snap = g, ![p].checked = FALSE]
    BY <1>1 DEF Decide
  <2>2. CASE Report(p, StopReasonForGraph(g, limit))
    <3>1. Verdict(sup'[p].stop, g.status) /\ sup'[p].pc = "idle"
      BY <2>2, <1>t, ReasonIsVerdict, ReportIsVerdict
    <3>2. Verdict(sup'[p].stop, graph'.status)
      BY <3>1, <1>1 DEF Verdict, EndsAgree
    <3>3. \A q \in Supervisors \ {p} : sup'[q] = sup[q]
      BY <2>2, <1>t DEF Report, Leave
    <3>4. QED
      BY <3>1, <3>2, <3>3, <1>1 DEF InCharacter, Reported, CopyKept
  <2>3. ASSUME NEW stop \in {"blocked", "idle"}, Report(p, stop) PROVE InCharacter(p)
    BY <2>3, <1>1, <1>l
  <2>4. CASE sup' = [sup EXCEPT ![p].pc = "form", ![p].snap = g, ![p].checked = FALSE]
    <3> DEFINE s == [sup[p] EXCEPT !.pc = "form", !.snap = g, !.checked = FALSE]
    <3>1. sup' = [sup EXCEPT ![p] = s] /\ s.stop = sup[p].stop /\ s.snap = g
      BY <2>4, <1>t DEF Call
    <3> HIDE DEF s
    <3>2. QED
      BY <3>1, <1>1, <1>k
  <2>5. QED
    BY <2>1, <2>2, <2>3, <2>4
<1>2. CASE CycleRead(p)
  <2>1. CASE p \in aborted /\ Leave(p, "cancelled")
    BY <1>2, <2>1, <1>t DEF CycleRead, Others, Leave, Blank, Reported, CopyKept, InCharacter
  <2>2. CASE sup' = [sup EXCEPT ![p].pc = "promote", ![p].snap = graph,
                                ![p].next = Promoted(graph)]
    <3> DEFINE s == [sup[p] EXCEPT !.pc = "promote", !.snap = graph, !.next = Promoted(graph)]
    <3>1. sup' = [sup EXCEPT ![p] = s] /\ s.stop = sup[p].stop /\ s.snap = graph'
      BY <2>2, <1>2, <1>t DEF Call, CycleRead, durable
    <3> HIDE DEF s
    <3>2. QED
      BY <1>2, <3>1, <1>k DEF CycleRead, Others
  <2>3. QED
    BY <1>2, <2>1, <2>2 DEF CycleRead
<1>3. CASE Promote(p)
  <2>1. sup[p].pc = "promote" /\ UNCHANGED aborted
    BY <1>3 DEF Promote, Others
  <2>2. CASE Decide(p, sup[p].snap) /\ UNCHANGED graph
    BY <2>1, <2>2, <1>1 DEF VerdictInv
  <2>3. CASE UpdateGraph(p) /\ Decide(p, NextGraph(sup[p].snap, sup[p].next))
    <3>1. NextGraph(sup[p].snap, sup[p].next) = graph' /\ EndsAgree(graph'.status, graph'.status)
      BY <2>3 DEF UpdateGraph, EndsAgree
    <3>2. QED
      BY <2>1, <2>3, <3>1, <1>1
  <2>4. CASE RejectUpdate(p)
    BY <2>1, <2>4, <1>l DEF RejectUpdate
  <2>5. QED
    BY <1>3, <2>2, <2>3, <2>4 DEF Promote
<1>4. CASE CloseCycle(p)
  <2>1. UNCHANGED aborted
    BY <1>4 DEF CloseCycle, Others
  <2>2. CASE Leave(p, "rejected")
    BY <2>1, <2>2, <1>l
  <2>3. CASE ~Leave(p, "rejected")
    <3>1. /\ NextGraph(sup[p].snap, sup[p].next) = graph'
          /\ \E limit \in Limits \cup {"none"} :
               \/ Report(p, StopReasonForGraph(graph', limit))
               \/ Report(p, "max-cycles")
               \/ sup' = [sup EXCEPT ![p] = [Blank("none") EXCEPT !.pc = "cycle",
                                                !.rounds = sup[p].rounds + 1]]
      BY <1>4, <2>3 DEF CloseCycle, UpdateGraph, RejectUpdate
    <3>2. CASE Report(p, "max-cycles")
      BY <2>1, <3>2, <1>l
    <3>3. ASSUME NEW limit \in Limits \cup {"none"}, Report(p, StopReasonForGraph(graph', limit))
          PROVE  InCharacter(p)
      <4>1. Verdict(sup'[p].stop, graph'.status) /\ sup'[p].pc = "idle"
        BY <3>3, <1>t, ReasonIsVerdict, ReportIsVerdict
      <4>2. \A q \in Supervisors \ {p} : sup'[q] = sup[q]
        BY <3>3, <1>t DEF Report, Leave
      <4>3. QED
        BY <4>1, <4>2, <2>1 DEF InCharacter, Reported, CopyKept
    <3>4. CASE sup' = [sup EXCEPT ![p] = [Blank("none") EXCEPT !.pc = "cycle",
                                                !.rounds = sup[p].rounds + 1]]
      <4>1. sup'[p] = [Blank("none") EXCEPT !.pc = "cycle", !.rounds = sup[p].rounds + 1]
        BY <3>4, <1>t
      <4>2. sup'[p].pc = "cycle" /\ sup'[p].stop = "none"
        BY <4>1 DEF Blank
      <4>3. \A q \in Supervisors \ {p} : sup'[q] = sup[q]
        BY <3>4, <1>t
      <4>4. QED
        BY <2>1, <4>2, <4>3 DEF InCharacter, Reported, CopyKept, Verdict
    <3>5. QED
      BY <3>1, <3>2, <3>3, <3>4
  <2>4. QED
    BY <2>2, <2>3
<1>5. CASE FormTeam(p)
  <2>1. UNCHANGED aborted /\ sup[p].pc = "form"
    BY <1>5 DEF FormTeam, Others
  <2>2. PICK pc, ready, team : sup' = [sup EXCEPT ![p].pc = pc, ![p].members = ready, ![p].team = team]
    BY <1>5 DEF FormTeam
  <2> DEFINE s == [sup[p] EXCEPT !.pc = pc, !.members = ready, !.team = team]
  <2>3. sup' = [sup EXCEPT ![p] = s] /\ s.stop = sup[p].stop /\ s.snap = sup[p].snap
    BY <2>2, <1>t DEF Call
  <2> HIDE DEF s
  <2>4. QED
    BY <2>1, <2>3, <1>k
<1>6. CASE StaffTeam(p)
  <2>1. UNCHANGED aborted /\ sup[p].pc = "staff"
    BY <1>6 DEF StaffTeam, Others
  <2>2. CASE Leave(p, "rejected")
    BY <2>1, <2>2, <1>l
  <2>3. CASE ~Leave(p, "rejected")
    <3>1. PICK pc, todo : sup' = [sup EXCEPT ![p].pc = pc, ![p].members = {}, ![p].todo = todo]
      BY <1>6, <2>3 DEF StaffTeam
    <3> DEFINE s == [sup[p] EXCEPT !.pc = pc, !.members = {}, !.todo = todo]
    <3>2. sup' = [sup EXCEPT ![p] = s] /\ s.stop = sup[p].stop /\ s.snap = sup[p].snap
      BY <3>1, <1>t DEF Call
    <3> HIDE DEF s
    <3>3. QED
      BY <2>1, <3>2, <1>k
  <2>4. QED
    BY <2>2, <2>3
<1>7. ASSUME NEW a \in Attempts, PlanAssignment(p, a) \/ MarkRunning(p, a) PROVE InCharacter(p)
  <2>1. UNCHANGED aborted /\ sup[p].pc \in {"plan", "mark"}
    BY <1>7 DEF PlanAssignment, MarkRunning, Others
  <2>2. CASE Leave(p, "rejected")
    BY <2>1, <2>2, <1>l
  <2>3. CASE ~Leave(p, "rejected")
    <3>1. PICK todo, pc : sup' = [sup EXCEPT ![p].todo = todo, ![p].pc = pc]
      BY <1>7, <2>3 DEF PlanAssignment, MarkRunning
    <3> DEFINE s == [sup[p] EXCEPT !.todo = todo, !.pc = pc]
    <3>2. sup' = [sup EXCEPT ![p] = s] /\ s.stop = sup[p].stop /\ s.snap = sup[p].snap
      BY <3>1, <1>t DEF Call
    <3> HIDE DEF s
    <3>3. QED
      BY <2>1, <3>2, <1>k
  <2>4. QED
    BY <2>2, <2>3
<1>8. CASE ListPlanned(p)
  <2>1. UNCHANGED aborted /\ sup[p].pc = "list"
    BY <1>8 DEF ListPlanned, Others
  <2>2. CASE \E reason \in {"blocked"} \cup BudgetBlocks : Report(p, reason)
    BY <2>1, <2>2, <1>l DEF BudgetBlocks
  <2>3. CASE ~(\E reason \in {"blocked"} \cup BudgetBlocks : Report(p, reason))
    <3>1. PICK pc, planned, next : sup' = [sup EXCEPT ![p].pc = pc, ![p].running = planned, ![p].next = next]
      BY <1>8, <2>3 DEF ListPlanned
    <3> DEFINE s == [sup[p] EXCEPT !.pc = pc, !.running = planned, !.next = next]
    <3>2. sup' = [sup EXCEPT ![p] = s] /\ s.stop = sup[p].stop /\ s.snap = sup[p].snap
      BY <3>1, <1>t DEF Call
    <3> HIDE DEF s
    <3>3. QED
      BY <2>1, <3>2, <1>k
  <2>4. QED
    BY <2>2, <2>3
<1>9. CASE StartWork(p)
  <2>1. UNCHANGED aborted
    BY <1>9 DEF StartWork, Others
  <2>2. CASE Leave(p, "rejected")
    BY <2>1, <2>2, <1>l
  <2>3. CASE ~Leave(p, "rejected")
    <3> DEFINE s == [sup[p] EXCEPT !.pc = "mark", !.todo = sup[p].running, !.snap = graph',
                                   !.checked = FALSE]
    <3>1. sup' = [sup EXCEPT ![p].pc = "mark", ![p].todo = sup[p].running, ![p].snap = graph',
                             ![p].checked = FALSE]
      BY <1>9, <2>3 DEF StartWork, RejectUpdate, UpdateGraph
    <3>2. sup' = [sup EXCEPT ![p] = s] /\ s.stop = sup[p].stop /\ s.snap = graph'
      BY <3>1, <1>t DEF Call
    <3> HIDE DEF s
    <3>3. QED
      BY <2>1, <3>2, <1>k
  <2>4. QED
    BY <2>2, <2>3
<1>10. CASE NextChunk(p)
  <2>1. UNCHANGED aborted /\ sup[p].pc = "work"
    BY <1>10 DEF NextChunk, Others
  <2>2. PICK chunk, todo :
          \/ sup' = [sup EXCEPT ![p].chunk = chunk, ![p].todo = todo]
          \/ sup' = [sup EXCEPT ![p].pc = "record", ![p].chunk = chunk, ![p].todo = todo]
    BY <1>10 DEF NextChunk
  <2>3. CASE sup' = [sup EXCEPT ![p].chunk = chunk, ![p].todo = todo]
    <3> DEFINE s == [sup[p] EXCEPT !.chunk = chunk, !.todo = todo]
    <3>1. sup' = [sup EXCEPT ![p] = s] /\ s.stop = sup[p].stop /\ s.snap = sup[p].snap
      BY <2>3, <1>t DEF Call
    <3> HIDE DEF s
    <3>2. QED
      BY <2>1, <3>1, <1>k
  <2>4. CASE sup' = [sup EXCEPT ![p].pc = "record", ![p].chunk = chunk, ![p].todo = todo]
    <3> DEFINE s == [sup[p] EXCEPT !.pc = "record", !.chunk = chunk, !.todo = todo]
    <3>1. sup' = [sup EXCEPT ![p] = s] /\ s.stop = sup[p].stop /\ s.snap = sup[p].snap
      BY <2>4, <1>t DEF Call
    <3> HIDE DEF s
    <3>2. QED
      BY <2>1, <3>1, <1>k
  <2>5. QED
    BY <2>2, <2>3, <2>4
<1>11. CASE RejectChunk(p)
  BY <1>11, <1>l DEF RejectChunk, Others
<1>12. ASSUME NEW a \in Attempts, Dispatch(p, a) \/ FinishWork(p, a) PROVE InCharacter(p)
  <2>1. UNCHANGED aborted
    BY <1>12 DEF Dispatch, FinishWork, Others
  <2>2. PICK answer : sup' = [sup EXCEPT ![p].outcome[a] = answer] \/ sup' = sup
    BY <1>12 DEF Dispatch, FinishWork
  <2>3. CASE sup' = sup
    BY <2>1, <2>3 DEF InCharacter, Reported, CopyKept
  <2>4. CASE sup' = [sup EXCEPT ![p].outcome[a] = answer]
    <3> DEFINE s == [sup[p] EXCEPT !.outcome[a] = answer]
    <3>1. /\ sup' = [sup EXCEPT ![p] = s]
          /\ s.stop = sup[p].stop /\ s.snap = sup[p].snap /\ s.pc = sup[p].pc
      BY <2>4, <1>t DEF Call
    <3> HIDE DEF s
    <3>2. QED
      BY <2>1, <3>1, <1>k
  <2>5. QED
    BY <2>2, <2>3, <2>4
<1>13. ASSUME NEW a \in Attempts, RecordOutcome(p, a) PROVE InCharacter(p)
  <2>1. UNCHANGED aborted /\ sup[p].pc = "record"
    BY <1>13 DEF RecordOutcome, Others
  <2>2. CASE Leave(p, "rejected")
    BY <2>1, <2>2, <1>l
  <2>3. CASE ~Leave(p, "rejected")
    <3>1. PICK todo, pc, next : sup' = [sup EXCEPT ![p].todo = todo, ![p].pc = pc, ![p].next = next]
      BY <1>13, <2>3, ZenonT(40) DEF RecordOutcome
    <3> DEFINE s == [sup[p] EXCEPT !.todo = todo, !.pc = pc, !.next = next]
    <3>2. sup' = [sup EXCEPT ![p] = s] /\ s.stop = sup[p].stop /\ s.snap = sup[p].snap
      BY <3>1, <1>t DEF Call
    <3> HIDE DEF s
    <3>3. QED
      BY <2>1, <3>2, <1>k
  <2>4. QED
    BY <2>2, <2>3
<1>14. QED
  BY <1>2, <1>3, <1>4, <1>5, <1>6, <1>7, <1>8, <1>9, <1>10, <1>11, <1>12, <1>13
  DEF SupervisorStep, AssertRevision, Orderly

LEMMA VerdictInit == Init => VerdictInv
<1> SUFFICES ASSUME Init PROVE VerdictInv
  OBVIOUS
<1>1. recovery.pc = "idle" /\ \A p \in Supervisors : sup[p] = Blank("none")
  BY DEF Init
<1>2. QED
  BY <1>1, GateInit DEF VerdictInv, StopVerdict, Blank

LEMMA VerdictStep == Orderly /\ VerdictInv /\ [Next]_vars => VerdictInv'
<1> SUFFICES ASSUME Orderly, VerdictInv, [Next]_vars PROVE VerdictInv'
  OBVIOUS
<1>1. GateInv'
  BY GateStep DEF VerdictInv
<1>t. /\ GateInv /\ graph \in Graph /\ sup \in [Supervisors -> Call] /\ RecoveryTyped
      /\ SavedIsCurrent /\ StopVerdict
  BY TypeInvParts DEF VerdictInv, GateInv, DocumentsTyped
<1>2. CASE UNCHANGED vars
  <2>1. UNCHANGED <<graph, sup, aborted, recovery>>
    BY <1>2 DEF vars
  <2>2. QED
    BY <1>1, <2>1 DEF VerdictInv, StopVerdict, EndsAgree
<1>3. CASE Next
  <2>1. EndsAgree(graph.status, graph'.status)
    BY <1>3, EndsAreKept
  <2>2. StopVerdict'
    <3>1. ASSUME NEW q \in Supervisors, sup'[q].stop = sup[q].stop,
                 q \in aborted => q \in aborted'
          PROVE  /\ sup'[q].stop = "completed" => \A n \in Nodes : graph'.status[n] = "completed"
                 /\ sup'[q].stop = "cancelled" /\ q \notin aborted'
                      => \E n \in Nodes : graph'.status[n] = "cancelled"
      BY <3>1, <2>1, <1>t DEF StopVerdict, EndsAgree
    <3>2. ASSUME NEW p \in Supervisors, SupervisorStep(p) PROVE StopVerdict'
      <4>1. /\ Reported(p) /\ UNCHANGED aborted
            /\ \A q \in Supervisors \ {p} : sup'[q] = sup[q]
        BY <3>2, SupervisorsVerdict DEF InCharacter
      <4>2. QED
        BY <4>1, <3>1 DEF Reported, Verdict, StopVerdict
    <3>3. ASSUME NEW p \in Supervisors, Supervise(p) \/ Abort(p) \/ Crash(p)
          PROVE  StopVerdict'
      <4>1. CASE Supervise(p)
        <5>1. sup'[p] = [sup[p] EXCEPT !.pc = "cycle", !.stop = "none"]
          BY <4>1, <1>t DEF Supervise
        <5>2. sup'[p].stop = "none"
          BY <5>1, <1>t DEF Call
        <5>3. \A q \in Supervisors \ {p} : sup'[q] = sup[q] /\ (q \in aborted => q \in aborted')
          BY <4>1, <1>t DEF Supervise
        <5>4. QED
          BY <5>2, <5>3, <3>1 DEF StopVerdict
      <4>2. CASE Abort(p)
        BY <4>2, <3>1 DEF Abort, StopVerdict
      <4>3. CASE Crash(p)
        <5>1. sup'[p].stop = "crashed"
          BY <4>3, <1>t DEF Crash, Leave, Blank
        <5>2. \A q \in Supervisors \ {p} : sup'[q] = sup[q] /\ aborted' = aborted
          BY <4>3, <1>t DEF Crash, Leave
        <5>3. QED
          BY <5>1, <5>2, <3>1 DEF StopVerdict
      <4>4. QED
        BY <3>3, <4>1, <4>2, <4>3
    <3>4. CASE UNCHANGED <<sup, aborted>>
      BY <3>4, <3>1 DEF StopVerdict
    <3>5. QED
      BY <1>3, <3>2, <3>3, <3>4 DEF Next, CancelRead, CancelPut, CancelGraph, CrashCancel,
         RecoverList, RecoveryStep, RecoverGraph, RecoverReceipt, RecoverRestore, RecoverPut,
         CrashRecovery, Edit
  <2>3. ASSUME NEW p \in Supervisors, sup'[p].pc \notin {"idle", "cycle"}
        PROVE  EndsAgree(sup'[p].snap.status, graph'.status)
    <3>1. sup[p].pc \notin {"idle", "cycle"} => EndsAgree(sup[p].snap.status, graph'.status)
      BY <2>1 DEF VerdictInv, EndsAgree
    <3>2. ASSUME NEW q \in Supervisors, SupervisorStep(q)
          PROVE  EndsAgree(sup'[p].snap.status, graph'.status)
      <4>1. CopyKept(q) /\ (q # p => sup'[p] = sup[p])
        BY <3>2, SupervisorsVerdict DEF InCharacter
      <4>2. EndsAgree(graph'.status, graph'.status)
        BY DEF EndsAgree
      <4>3. QED
        BY <2>3, <3>1, <4>1, <4>2 DEF CopyKept
    <3>3. ASSUME NEW q \in Supervisors, Supervise(q) \/ Abort(q) \/ Crash(q)
          PROVE  EndsAgree(sup'[p].snap.status, graph'.status)
      <4>1. CASE Supervise(q)
        <5>1. sup' = [sup EXCEPT ![q].pc = "cycle", ![q].stop = "none"]
          BY <4>1 DEF Supervise
        <5>2. p # q
          BY <5>1, <2>3, <1>t DEF Call
        <5>3. QED
          BY <5>1, <5>2, <2>3, <3>1, <1>t
      <4>2. CASE Abort(q)
        BY <4>2, <2>3, <3>1 DEF Abort
      <4>3. CASE Crash(q)
        BY <4>3, <2>3, <3>1, <1>t DEF Crash, Leave, Blank
      <4>4. QED
        BY <3>3, <4>1, <4>2, <4>3
    <3>4. CASE UNCHANGED sup
      BY <3>4, <2>3, <3>1
    <3>5. QED
      BY <1>3, <3>2, <3>3, <3>4 DEF Next, CancelRead, CancelPut, CancelGraph, CrashCancel,
         RecoverList, RecoveryStep, RecoverGraph, RecoverReceipt, RecoverRestore, RecoverPut,
         CrashRecovery, Edit
  <2>4. ASSUME recovery'.pc # "idle"
        PROVE  EndsAgree(graph'.status, recovery'.saved.graph.status)
    <3>1. CASE RecoverList
      BY <3>1 DEF RecoverList, durable, EndsAgree
    <3>2. CASE RecoverGraph
      <4>1. /\ recovery'.saved = recovery.saved /\ recovery.saved.graph = graph
            /\ graph' = NextGraph(graph, Unblocked(graph))
            /\ Unblocked(graph) \in [Nodes -> NodeStatus]
        BY <3>2, <1>t DEF RecoverGraph, RecoveryTyped, SavedIsCurrent, Unblocked, Graph, NodeStatus
      <4>2. graph'.status = Unblocked(graph)
        BY <4>1, <1>t, WrittenGraph
      <4>3. QED
        BY <4>1, <4>2 DEF EndsAgree, Unblocked
    <3>3. ASSUME NEW a \in Attempts, RecoverPut(a)
          PROVE  EndsAgree(graph'.status, recovery'.saved.graph.status)
      <4>1. recovery'.saved = recovery.saved /\ recovery.pc = "put" /\ UNCHANGED graph
        BY <3>3, <1>t DEF RecoverPut, RecoveryTyped
      <4>2. QED
        BY <4>1 DEF VerdictInv
    <3>4. CASE UNCHANGED recovery
      <4>1. canceller.pc = "idle" /\ \A p \in Supervisors : sup[p].pc = "idle"
        BY <2>4, <3>4 DEF VerdictInv, GateInv, Quiet
      <4>2. \A p \in Supervisors : SupervisorStep(p) => UNCHANGED graph
        BY <4>1, GraphWrites
      <4>3. CASE \E p \in Supervisors : Supervise(p) \/ SupervisorStep(p) \/ Abort(p) \/ Crash(p)
        BY <4>2, <4>3, <2>4, <3>4 DEF Supervise, Abort, Crash, durable, VerdictInv
      <4>4. CASE (\E a \in Attempts : CancelRead(a)) \/ CancelPut \/ CancelGraph \/ CrashCancel
        BY <4>1, <4>4, <2>4, <3>4 DEF CancelRead, CancelPut, CancelGraph, CrashCancel, durable,
           VerdictInv
      <4>5. CASE \E n \in Nodes : Edit(n)
        BY <4>5, <2>4, <3>4 DEF Edit, Orderly
      <4>6. CASE RecoverReceipt \/ RecoverRestore \/ CrashRecovery
        BY <4>6, <2>4 DEF RecoverReceipt, RecoverRestore, CrashRecovery, RecoverIdle
      <4>7. QED
        BY <1>3, <3>1, <3>2, <3>3, <4>3, <4>4, <4>5, <4>6 DEF Next, RecoveryStep
    <3>5. QED
      <4>1. ASSUME NEW p \in Supervisors,
                   Supervise(p) \/ SupervisorStep(p) \/ Abort(p) \/ Crash(p)
            PROVE  UNCHANGED recovery
        BY <4>1, SupervisorsLeaveRecovery DEF Supervise, Abort, Crash
      <4>2. CASE \/ \E a \in Attempts : CancelRead(a)
                 \/ CancelPut \/ CancelGraph \/ CrashCancel \/ \E n \in Nodes : Edit(n)
        BY <4>2, <3>4 DEF CancelRead, CancelPut, CancelGraph, CrashCancel, Edit
      <4>3. CASE RecoverReceipt \/ RecoverRestore \/ CrashRecovery
        BY <4>3, <2>4 DEF RecoverReceipt, RecoverRestore, CrashRecovery, RecoverIdle
      <4>4. QED
        BY <1>3, <3>1, <3>2, <3>3, <3>4, <4>1, <4>2, <4>3 DEF Next, RecoveryStep
  <2>5. QED
    BY <1>1, <2>2, <2>3, <2>4 DEF VerdictInv, EndsAgree
<1>4. QED
  BY <1>2, <1>3

(* A supervisor that reports "completed", or "cancelled" with nobody       *)
(* having aborted it, is right, and stays right whatever others do next:   *)
(* what it saw in a copy of the graph is so in the graph, for good.        *)
THEOREM VerdictsHold ==
  ASSUME Orderly
  PROVE  Spec => []StopVerdict
<1>1. VerdictInv => StopVerdict
  BY DEF VerdictInv
<1>2. VerdictInv /\ [Next]_vars => VerdictInv'
  BY VerdictStep
<1>3. QED
  BY <1>1, <1>2, VerdictInit, PTL DEF Spec

-----------------------------------------------------------------------------
(* Turns.                                                                  *)

(* The attempts a cycle has set running and not yet closed.                *)
Held(s) == IF s.pc \in {"mark", "work", "record", "close"} THEN s.running ELSE {}

(* The attempts a cycle is going to list.                                  *)
Planned(s) ==
  {a \in InStatus("planned") : assignments[a].team = s.team}
    \cup (IF s.pc = "plan" THEN s.todo ELSE {})

Calm(n) == \A c \in disturbed : c[1] # n

Busy(n) == graph.status[n] \in {"running", "cancelled"}

Current(s) == s.snap.revision = graph.revision

(* Nobody works on a calm item but for the one attempt of the one cycle    *)
(* that set it running.                                                    *)
OnlyWork(p, a) ==
  /\ Busy(a[1])
  /\ \A q \in Supervisors : \A b \in Held(sup[q]) : b[1] = a[1] => q = p /\ b = a
  /\ \A b \in Attempts : b[1] = a[1] /\ worker[b] # NoSupervisor =>
       b = a /\ worker[b] = p /\ sup[p].outcome[b] = "awaited"

WorkInTurn ==
  /\ OneAttemptAtATime
  /\ \A a \in Attempts : worker[a] # NoSupervisor /\ Calm(a[1]) => Busy(a[1])
  /\ \A p \in Supervisors : \A a \in Held(sup[p]) : Calm(a[1]) => OnlyWork(p, a)

(* What a cycle is going to start is ready in the graph it has a copy of,  *)
(* one attempt at each item.                                               *)
StartsInTurn(s) ==
  /\ s.pc = "staff" /\ Current(s) => \A n \in s.members : graph.status[n] = "ready"
  /\ s.pc \in {"plan", "list"} =>
       /\ \E t \in teams.heads : t[1] = s.team
       /\ \/ SharedTeam(s.team)
          \/ /\ \A a, b \in Planned(s) : a[1] = b[1] => a = b
             /\ Current(s) => \A a \in Planned(s) : graph.status[a[1]] = "ready"
  /\ s.pc = "start" => \A a \in s.running : Calm(a[1]) =>
       /\ \A b \in s.running : a[1] = b[1] => a = b
       /\ Current(s) => graph.status[a[1]] = "ready"

(* What it writes speaks of the items it has.                              *)
WritesItsOwn(s) ==
  /\ s.pc = "promote" => \A n \in Nodes :
       s.next[n] # s.snap.status[n] => s.snap.status[n] \notin {"running", "cancelled"}
  /\ s.pc \in {"start", "close"} => \A n \in Nodes :
       s.next[n] # s.snap.status[n] => \E a \in s.running : a[1] = n
  /\ s.pc = "start" => \A a \in s.running : s.next[a[1]] = "running"
  /\ IF s.pc = "work" THEN s.todo \cup s.chunk \subseteq s.running ELSE s.chunk = {}
  /\ s.pc = "close" => \A a \in s.running : s.outcome[a] \in Outcome

(* Two cycles that plan for the same team are known to.                    *)
Planning(s) == s.pc \in {"plan", "list"}

SharingIsKnown ==
  \A p, q \in Supervisors :
    p # q /\ sup[p].team = sup[q].team /\ Planning(sup[p]) /\ Planning(sup[q])
      => SharedTeam(sup[p].team)

PlannedHaveTeams(f, rows) ==
  \A a \in Attempts : f[a] # NoAssignment /\ f[a].status = "planned" => <<f[a].team, 1>> \in rows

TeamsBegin(rows) == \A t \in rows : <<t[1], 1>> \in rows

TurnInv ==
  /\ TruthInv /\ GateInv
  /\ WorkInTurn
  /\ \A p \in Supervisors : StartsInTurn(sup[p]) /\ WritesItsOwn(sup[p])
  /\ SharingIsKnown
  /\ PlannedHaveTeams(assignments, teams.rows) /\ TeamsBegin(teams.rows)
  /\ recovery.pc # "idle" =>
       /\ PlannedHaveTeams(recovery.saved.assignments, teams.rows)
       /\ \A a \in Attempts : worker[a] = NoSupervisor
  /\ canceller.pc = "graph" => canceller.attempt \in disturbed

LEMMA TurnTypes ==
  ASSUME TurnInv
  PROVE  /\ graph \in Graph /\ sup \in [Supervisors -> Call] /\ DocumentsTyped
         /\ CancellerTyped /\ RecoveryTyped
         /\ \A p \in Supervisors : Accounted(sup[p])
         /\ \A p \in Supervisors : sup[p] \in Call /\ sup[p].snap \in Graph
  BY TypeInvParts DEF TurnInv, GateInv, DocumentsTyped, Call

(* A plan for a team that has one already makes the sharing known; a plan  *)
(* for a new team is its first row.                                        *)
LEMMA TeamWritten ==
  ASSUME TurnInv, NEW team \in Nat, PutTeam(team)
  PROVE  /\ teams.heads \subseteq teams'.heads /\ teams.rows \subseteq teams'.rows
         /\ \E t \in teams'.heads : t[1] = team
         /\ \A u \in Nat : SharedTeam(u) => SharedTeam(u)'
         /\ (\E t \in teams.heads : t[1] = team) => SharedTeam(team)'
         /\ (~\E t \in teams.heads : t[1] = team) => <<team, 1>> \notin teams.rows
         /\ TeamsBegin(teams'.rows) /\ <<team, 1>> \in teams'.rows
<1> DEFINE Of(u) == {t \in teams.heads : t[1] = u}
           Later(u) == {t \in teams'.heads : t[1] = u}
           new == NextVersion(team)
<1>t. /\ teams.heads \subseteq teams.rows /\ IsFiniteSet(teams.rows) /\ TeamsBegin(teams.rows)
  BY TurnTypes DEF DocumentsTyped, TurnInv
<1>1. /\ new \notin teams.rows /\ new[1] = team
      /\ teams'.heads = teams.heads \cup {new} /\ teams'.rows = teams.rows \cup {new}
      /\ new = <<team, Cardinality(Of(team)) + 1>>
  BY DEF PutTeam, NextVersion
<1>2. ASSUME NEW u PROVE IsFiniteSet(Of(u)) /\ Cardinality(Of(u)) \in Nat
  <2>1. IsFiniteSet(teams.heads)
    BY <1>t, FS_Subset
  <2>2. Of(u) \subseteq teams.heads
    OBVIOUS
  <2>3. QED
    BY <2>1, <2>2, FS_Subset, FS_CardinalityType
<1>3. Later(team) = Of(team) \cup {new} /\ new \notin Of(team)
  BY <1>1, <1>t
<1>4. Cardinality(Later(team)) = Cardinality(Of(team)) + 1
  <2> HIDE DEF Of, Later, new
  <2>1. QED
    BY <1>2, <1>3, FS_AddElement
<1>5. ASSUME NEW u \in Nat, u # team PROVE Later(u) = Of(u)
  BY <1>1, <1>5
<1>6. ASSUME NEW u \in Nat, SharedTeam(u) PROVE SharedTeam(u)'
  <2>1. CASE u = team
    <3>1. Cardinality(Of(team)) > 1
      BY <1>6, <2>1 DEF SharedTeam
    <3>2. Cardinality(Later(team)) > 1
      <4> HIDE DEF Of, Later
      <4>1. QED
        BY <1>2, <1>4, <3>1
    <3>3. QED
      BY <2>1, <3>2 DEF SharedTeam
  <2>2. CASE u # team
    BY <1>5, <1>6, <2>2 DEF SharedTeam
  <2>3. QED
    BY <2>1, <2>2
<1>7. ASSUME NEW t \in teams.heads, t[1] = team
      PROVE  SharedTeam(team)' /\ <<team, 1>> \in teams.rows
  <2>1. t \in Of(team)
    BY <1>7
  <2>2. Cardinality(Of(team)) > 0
    <3> HIDE DEF Of
    <3>1. Cardinality(Of(team)) # 0
      BY <1>2, <2>1, FS_EmptySet
    <3>2. QED
      BY <1>2, <3>1
  <2>3. Cardinality(Later(team)) > 1
    <3> HIDE DEF Of, Later
    <3>1. QED
      BY <1>2, <1>4, <2>2
  <2>4. QED
    BY <1>7, <1>t, <2>3 DEF SharedTeam, TeamsBegin
<1>8. ASSUME ~\E t \in teams.heads : t[1] = team PROVE new = <<team, 1>>
  <2>1. Of(team) = {}
    BY <1>8
  <2>2. Cardinality(Of(team)) = 0
    <3> HIDE DEF Of
    <3>1. QED
      BY <2>1, FS_EmptySet
  <2>3. QED
    BY <1>1, <2>2
<1>9. <<team, 1>> \in teams'.rows
  BY <1>1, <1>7, <1>8
<1>10. TeamsBegin(teams'.rows)
  BY <1>1, <1>9, <1>t DEF TeamsBegin
<1>11. QED
  BY <1>1, <1>6, <1>7, <1>8, <1>9, <1>10

-----------------------------------------------------------------------------
(* What a supervisor's step leaves to the others.                          *)
TeamsGrow ==
  /\ teams.heads \subseteq teams'.heads /\ teams.rows \subseteq teams'.rows
  /\ \A u \in Nat : SharedTeam(u) => SharedTeam(u)'
  /\ TeamsBegin(teams'.rows)

NewlyPlanned(team) ==
  \E a \in Attempts :
    /\ assignments'[a] # NoAssignment /\ assignments'[a] # assignments[a]
    /\ assignments'[a].status = "planned" /\ assignments'[a].team = team

GraphMoves == UNCHANGED graph \/ graph'.revision = graph.revision + 1

LEMMA TeamsStay ==
  ASSUME TurnInv, UNCHANGED teams
  PROVE  TeamsGrow
  BY DEF TurnInv, TeamsGrow, SharedTeam

(* Work goes on, or ends, and nobody starts any.                           *)
LEMMA WorkKept ==
  ASSUME TurnInv, disturbed \subseteq disturbed',
         \A a \in Attempts : worker'[a] \in {worker[a], NoSupervisor},
         \A q \in Supervisors : Held(sup'[q]) \subseteq Held(sup[q]),
         \A q \in Supervisors : \A a \in Held(sup'[q]) :
           worker'[a] = q /\ sup[q].outcome[a] = "awaited" => sup'[q].outcome[a] = "awaited",
         \A n \in Nodes : Calm(n) /\ Busy(n) =>
           \/ Busy(n)'
           \/ \A a \in Attempts : a[1] = n => 
                worker'[a] = NoSupervisor /\ \A q \in Supervisors : a \notin Held(sup'[q])
  PROVE  WorkInTurn'
<1>t. /\ sup \in [Supervisors -> Call] /\ \A q \in Supervisors : Held(sup[q]) \subseteq Attempts
      /\ \A a \in Attempts : a[1] \in Nodes
  BY TurnTypes DEF Held, Call, Attempts
<1>w. WorkInTurn
  BY DEF TurnInv
<1>c. \A n : Calm(n)' => Calm(n)
  BY DEF Calm
<1>1. OneAttemptAtATime'
  BY <1>w DEF WorkInTurn, OneAttemptAtATime
<1>2. ASSUME NEW a \in Attempts, worker'[a] # NoSupervisor, Calm(a[1])' PROVE Busy(a[1])'
  <2>1. Calm(a[1]) /\ Busy(a[1])
    BY <1>2, <1>c, <1>w DEF WorkInTurn
  <2>2. QED
    BY <1>2, <1>t, <2>1
<1>3. ASSUME NEW p \in Supervisors, NEW a \in Held(sup'[p]), Calm(a[1])' PROVE OnlyWork(p, a)'
  <2>1. a \in Attempts /\ Calm(a[1]) /\ OnlyWork(p, a)
    BY <1>3, <1>c, <1>t, <1>w DEF WorkInTurn
  <2>2. Busy(a[1])'
    BY <1>t, <2>1 DEF OnlyWork
  <2>3. ASSUME NEW q \in Supervisors, NEW b \in Held(sup'[q]), b[1] = a[1] PROVE q = p /\ b = a
    BY <2>1, <2>3 DEF OnlyWork
  <2>4. ASSUME NEW b \in Attempts, b[1] = a[1], worker'[b] # NoSupervisor
        PROVE  b = a /\ worker'[b] = p /\ sup'[p].outcome[b] = "awaited"
    <3>1. b = a /\ worker[b] = p /\ sup[p].outcome[b] = "awaited" /\ worker'[b] = worker[b]
      BY <2>1, <2>4 DEF OnlyWork
    <3>2. QED
      BY <1>3, <3>1
  <2>5. QED
    BY <2>2, <2>3, <2>4 DEF OnlyWork
<1>4. QED
  BY <1>1, <1>2, <1>3 DEF WorkInTurn

(* A cycle that does nothing meanwhile stays in turn.                      *)
LEMMA StartsKept ==
  ASSUME TurnInv, NEW q \in Supervisors, sup'[q] = sup[q], GraphMoves, TeamsGrow,
         disturbed \subseteq disturbed',
         Planning(sup[q]) /\ NewlyPlanned(sup[q].team) => SharedTeam(sup[q].team)'
  PROVE  StartsInTurn(sup[q])'
<1>t. /\ sup[q] \in Call /\ graph \in Graph /\ StartsInTurn(sup[q]) /\ sup[q].team \in Nat
  BY TurnTypes DEF TurnInv, Call
<1>1. ASSUME sup[q].pc \notin {"idle", "cycle"}, Current(sup[q])' PROVE Current(sup[q]) /\ UNCHANGED graph
  <2>1. sup[q].snap.revision <= graph.revision
    BY <1>1 DEF TurnInv, GateInv, CopiesAreNumbered, Numbered
  <2>2. sup[q].snap.revision \in Nat /\ graph.revision \in Nat
    BY <1>t DEF Call, Graph
  <2>3. sup[q].snap.revision = graph'.revision
    BY <1>1 DEF Current
  <2>4. UNCHANGED graph
    BY <2>1, <2>2, <2>3 DEF GraphMoves
  <2>5. QED
    BY <2>3, <2>4 DEF Current
<1>c. \A n : Calm(n)' => Calm(n)
  BY DEF Calm
<1>2. ASSUME sup[q].pc = "staff", Current(sup[q])', NEW n \in sup[q].members
      PROVE  graph'.status[n] = "ready"
  BY <1>1, <1>2, <1>t DEF StartsInTurn
<1>3. ASSUME sup[q].pc \in {"plan", "list"}
      PROVE  /\ \E t \in teams'.heads : t[1] = sup[q].team
             /\ \/ SharedTeam(sup[q].team)'
                \/ /\ \A a, b \in Planned(sup[q])' : a[1] = b[1] => a = b
                   /\ Current(sup[q])' => \A a \in Planned(sup[q])' : graph'.status[a[1]] = "ready"
  <2>1. \E t \in teams'.heads : t[1] = sup[q].team
    BY <1>3, <1>t DEF StartsInTurn, TeamsGrow
  <2>2. ASSUME ~SharedTeam(sup[q].team)'
        PROVE  /\ \A a, b \in Planned(sup[q])' : a[1] = b[1] => a = b
               /\ Current(sup[q])' => \A a \in Planned(sup[q])' : graph'.status[a[1]] = "ready"
    <3>1. ~SharedTeam(sup[q].team) /\ ~NewlyPlanned(sup[q].team)
      BY <1>3, <1>t, <2>2 DEF TeamsGrow, Planning
    <3>2. Planned(sup[q])' \subseteq Planned(sup[q])
      BY <3>1 DEF NewlyPlanned, Planned, InStatus, Recorded
    <3>3. QED
      BY <1>1, <1>3, <1>t, <3>1, <3>2 DEF StartsInTurn
  <2>3. QED
    BY <2>1, <2>2
<1>4. ASSUME sup[q].pc = "start", NEW a \in sup[q].running, Calm(a[1])'
      PROVE  /\ \A b \in sup[q].running : a[1] = b[1] => a = b
             /\ Current(sup[q])' => graph'.status[a[1]] = "ready"
  BY <1>1, <1>4, <1>c, <1>t DEF StartsInTurn
<1>5. QED
  BY <1>2, <1>3, <1>4 DEF StartsInTurn

(* A step of one supervisor that keeps its own turn.                       *)
LEMMA TurnKept ==
  ASSUME TurnInv, TruthInv', GateInv', NEW p \in Supervisors,
         \A q \in Supervisors \ {p} : sup'[q] = sup[q],
         UNCHANGED <<canceller, recovery>>, recovery.pc = "idle",
         disturbed \subseteq disturbed', GraphMoves, TeamsGrow,
         WorkInTurn', StartsInTurn(sup[p])', WritesItsOwn(sup'[p]),
         PlannedHaveTeams(assignments', teams'.rows),
         \A q \in Supervisors \ {p} :
           /\ Planning(sup[q]) /\ NewlyPlanned(sup[q].team) => SharedTeam(sup[q].team)'
           /\ Planning(sup[q]) /\ Planning(sup'[p]) /\ sup'[p].team = sup[q].team
                => SharedTeam(sup[q].team)'
  PROVE  TurnInv'
<1>1. \A q \in Supervisors : StartsInTurn(sup[q])'
  BY StartsKept
<1>2. \A q \in Supervisors : WritesItsOwn(sup'[q])
  BY DEF TurnInv
<1>3. SharingIsKnown'
  <2>1. SUFFICES ASSUME NEW q \in Supervisors, NEW r \in Supervisors, q # r,
                        sup'[q].team = sup'[r].team, Planning(sup'[q]), Planning(sup'[r])
                 PROVE  SharedTeam(sup[q].team)'
    BY DEF SharingIsKnown, SharedTeam, Planning
  <2>2. CASE q = p
    BY <2>1, <2>2
  <2>3. CASE r = p
    BY <2>1, <2>3
  <2>4. CASE q # p /\ r # p
    <3>1. SharedTeam(sup[q].team) /\ sup[q].team \in Nat
      BY <2>1, <2>4, TurnTypes DEF TurnInv, SharingIsKnown, Call
    <3>2. QED
      BY <2>4, <3>1 DEF TeamsGrow
  <2>5. QED
    BY <2>2, <2>3, <2>4
<1>4. PlannedHaveTeams(assignments, teams.rows)' /\ TeamsBegin(teams.rows)'
  BY DEF TeamsGrow, PlannedHaveTeams, TeamsBegin
<1>5. canceller'.pc = "graph" => canceller'.attempt \in disturbed'
  BY DEF TurnInv
<1>6. (\A q \in Supervisors : StartsInTurn(sup[q]) /\ WritesItsOwn(sup[q]))'
  BY <1>1, <1>2 DEF WritesItsOwn
<1>7. QED
  BY <1>3, <1>4, <1>5, <1>6 DEF TurnInv

-----------------------------------------------------------------------------
LEMMA SamePlans ==
  ASSUME TurnInv, UNCHANGED <<assignments, teams>>
  PROVE  (\A u : ~NewlyPlanned(u)) /\ PlannedHaveTeams(assignments', teams'.rows) /\ TeamsGrow
  BY TeamsStay DEF TurnInv, NewlyPlanned, PlannedHaveTeams

LEMMA NothingPlanned ==
  ASSUME TurnInv, NEW a \in Attempts, NEW status \in AssignmentStatus \ {"planned"},
         NEW team \in Nat, PutAssignment(a, status, team), UNCHANGED teams
  PROVE  (\A u : ~NewlyPlanned(u)) /\ PlannedHaveTeams(assignments', teams'.rows) /\ TeamsGrow
<1>1. /\ assignments'[a].status # "planned"
      /\ \A b \in Attempts \ {a} : assignments'[b] = assignments[b]
  BY TurnTypes, WrittenAssignment DEF DocumentsTyped
<1>2. QED
  BY <1>1, TeamsStay DEF TurnInv, NewlyPlanned, PlannedHaveTeams

(* A step of one supervisor that starts no work.                           *)
LEMMA StepInTurn ==
  ASSUME TurnInv, TruthInv', GateInv', NEW p \in Supervisors, sup' = [sup EXCEPT ![p] = sup'[p]],
         UNCHANGED <<canceller, recovery>>, recovery.pc = "idle",
         disturbed \subseteq disturbed', GraphMoves, TeamsGrow,
         \A a \in Attempts : worker'[a] \in {worker[a], NoSupervisor},
         Held(sup'[p]) \subseteq Held(sup[p]),
         \A a \in Held(sup'[p]) :
           worker'[a] = p /\ sup[p].outcome[a] = "awaited" => sup'[p].outcome[a] = "awaited",
         \A n \in Nodes : Calm(n) /\ Busy(n) =>
           \/ Busy(n)'
           \/ \A a \in Attempts : a[1] = n =>
                worker'[a] = NoSupervisor /\ \A q \in Supervisors : a \notin Held(sup'[q]),
         StartsInTurn(sup[p])', WritesItsOwn(sup'[p]),
         Planning(sup'[p]) => Planning(sup[p]) /\ sup'[p].team = sup[p].team,
         \A u : NewlyPlanned(u) => u = sup[p].team /\ Planning(sup[p]),
         PlannedHaveTeams(assignments', teams'.rows)
  PROVE  TurnInv'
<1>t. sup \in [Supervisors -> Call]
  BY TurnTypes
<1>1. \A q \in Supervisors \ {p} : sup'[q] = sup[q]
  BY <1>t
<1>2. /\ \A q \in Supervisors : Held(sup'[q]) \subseteq Held(sup[q])
      /\ \A q \in Supervisors : \A a \in Held(sup'[q]) :
           worker'[a] = q /\ sup[q].outcome[a] = "awaited" => sup'[q].outcome[a] = "awaited"
  BY <1>1
<1>3. WorkInTurn'
  BY <1>2, WorkKept
<1>4. ASSUME NEW q \in Supervisors \ {p}, Planning(sup[q]), Planning(sup[p]),
             sup[p].team = sup[q].team
      PROVE  SharedTeam(sup[q].team)'
  <2>1. SharedTeam(sup[q].team) /\ sup[q].team \in Nat
    BY <1>4, <1>t DEF TurnInv, SharingIsKnown, Call
  <2>2. QED
    BY <1>1, <2>1 DEF TeamsGrow
<1>5. \A q \in Supervisors \ {p} :
        /\ Planning(sup[q]) /\ NewlyPlanned(sup[q].team) => SharedTeam(sup[q].team)'
        /\ Planning(sup[q]) /\ Planning(sup'[p]) /\ sup'[p].team = sup[q].team
             => SharedTeam(sup[q].team)'
  BY <1>4
<1>6. QED
  BY <1>1, <1>3, <1>5, TurnKept

(* A supervisor that returns gives up what it held.                        *)
LEMMA LeaveInTurn ==
  ASSUME TurnInv, TruthInv', GateInv', NEW p \in Supervisors, NEW stop, Leave(p, stop),
         UNCHANGED <<assignments, canceller, recovery>>, recovery.pc = "idle",
         disturbed \subseteq disturbed', GraphMoves, TeamsGrow,
         \A a \in Attempts : worker'[a] \in {worker[a], NoSupervisor},
         \A n \in Nodes : Calm(n) /\ Busy(n) =>
           \/ Busy(n)'
           \/ \A a \in Attempts : a[1] = n =>
                worker'[a] = NoSupervisor /\ \A q \in Supervisors : a \notin Held(sup'[q])
  PROVE  TurnInv'
<1>1. sup'[p] = Blank(stop) /\ sup' = [sup EXCEPT ![p] = sup'[p]]
  BY TurnTypes DEF Leave
<1>2. sup'[p].pc = "idle" /\ sup'[p].chunk = {}
  BY <1>1 DEF Blank
<1>3. Held(sup'[p]) = {} /\ StartsInTurn(sup[p])' /\ WritesItsOwn(sup'[p]) /\ ~Planning(sup'[p])
  BY <1>2 DEF Held, StartsInTurn, WritesItsOwn, Planning
<1>4. (\A u : ~NewlyPlanned(u)) /\ PlannedHaveTeams(assignments', teams'.rows)
  BY DEF TurnInv, TeamsGrow, NewlyPlanned, PlannedHaveTeams
<1>5. QED
  BY <1>1, <1>3, <1>4, StepInTurn

LEMMA LeaveQuietly ==
  ASSUME TurnInv, TruthInv', GateInv', NEW p \in Supervisors, NEW stop, Leave(p, stop),
         UNCHANGED <<graph, assignments, teams, worker, canceller, recovery, disturbed>>,
         recovery.pc = "idle"
  PROVE  TurnInv'
  BY TeamsStay, LeaveInTurn DEF GraphMoves, Busy

(* A step that writes no graph and no team and ends no work.               *)
LEMMA QuietStepInTurn ==
  ASSUME TurnInv, TruthInv', GateInv', NEW p \in Supervisors, sup' = [sup EXCEPT ![p] = sup'[p]],
         UNCHANGED <<graph, teams, worker, canceller, recovery>>, recovery.pc = "idle",
         disturbed \subseteq disturbed',
         Held(sup'[p]) \subseteq Held(sup[p]), sup'[p].outcome = sup[p].outcome,
         StartsInTurn(sup[p])', WritesItsOwn(sup'[p]),
         Planning(sup'[p]) => Planning(sup[p]) /\ sup'[p].team = sup[p].team,
         \A u : NewlyPlanned(u) => u = sup[p].team /\ Planning(sup[p]),
         PlannedHaveTeams(assignments', teams'.rows)
  PROVE  TurnInv'
  BY TeamsStay, StepInTurn DEF GraphMoves, Busy

-----------------------------------------------------------------------------
LEMMA OnlyWithoutRecovery ==
  ASSUME Orderly, TurnInv, NEW p \in Supervisors,
         Supervise(p) \/ SupervisorStep(p) \/ Abort(p) \/ Crash(p)
  PROVE  recovery.pc = "idle"
<1>1. sup[p].pc # "idle" => recovery.pc = "idle"
  BY DEF TurnInv, GateInv, Quiet
<1>2. (\E a \in Attempts : worker[a] = p) => recovery.pc = "idle"
  BY DEF TurnInv
<1>3. CASE Supervise(p) \/ Abort(p) \/ Crash(p)
  BY <1>1, <1>2, <1>3 DEF Supervise, Abort, Crash, Orderly
<1>4. CASE \/ CycleRead(p) \/ AssertRevision(p) \/ Promote(p) \/ FormTeam(p) \/ StaffTeam(p)
           \/ ListPlanned(p) \/ StartWork(p) \/ NextChunk(p) \/ RejectChunk(p) \/ CloseCycle(p)
  BY <1>1, <1>4 DEF CycleRead, AssertRevision, Promote, FormTeam, StaffTeam, ListPlanned,
     StartWork, NextChunk, RejectChunk, CloseCycle
<1>5. ASSUME NEW a \in Attempts,
             \/ PlanAssignment(p, a) \/ MarkRunning(p, a) \/ Dispatch(p, a)
             \/ FinishWork(p, a) \/ RecordOutcome(p, a)
      PROVE  recovery.pc = "idle"
  BY <1>1, <1>2, <1>5 DEF PlanAssignment, MarkRunning, Dispatch, FinishWork, RecordOutcome
<1>6. QED
  BY <1>3, <1>4, <1>5 DEF SupervisorStep

(* Up to the team: the copy is taken, promoted and decided upon.           *)
LEMMA CycleOpensInTurn ==
  ASSUME Orderly, TurnInv, TruthInv', GateInv', NEW p \in Supervisors,
         Supervise(p) \/ CycleRead(p) \/ Promote(p) \/ FormTeam(p)
  PROVE  TurnInv'
<1>t. /\ sup \in [Supervisors -> Call] /\ sup[p] \in Call /\ graph \in Graph /\ GateInv
      /\ WritesItsOwn(sup[p]) /\ recovery.pc = "idle"
  BY TurnTypes, OnlyWithoutRecovery DEF TurnInv, SupervisorStep
<1>1. CASE Supervise(p)
  <2>1. /\ UNCHANGED <<graph, assignments, teams, worker, canceller, recovery, disturbed>>
        /\ sup[p].pc = "idle"
    BY <1>1 DEF Supervise, durable
  <2>2. /\ sup'[p] = [sup[p] EXCEPT !.pc = "cycle", !.stop = "none"]
        /\ sup' = [sup EXCEPT ![p] = sup'[p]]
    BY <1>1, <1>t DEF Supervise
  <2>3. /\ sup'[p].pc = "cycle" /\ sup'[p].chunk = sup[p].chunk /\ sup'[p].outcome = sup[p].outcome
    BY <2>2, <1>t DEF Call
  <2>4. Held(sup'[p]) = {} /\ StartsInTurn(sup[p])' /\ WritesItsOwn(sup'[p]) /\ ~Planning(sup'[p])
    BY <2>1, <2>3, <1>t DEF Held, StartsInTurn, WritesItsOwn, Planning
  <2>5. QED
    BY <2>1, <2>2, <2>3, <2>4, <1>t, SamePlans, QuietStepInTurn
<1>2. CASE CycleRead(p)
  <2>1. /\ UNCHANGED <<graph, assignments, teams, worker, canceller, recovery, disturbed>>
        /\ sup[p].pc = "cycle"
    BY <1>2 DEF CycleRead, durable, Others
  <2>2. CASE Leave(p, "cancelled")
    BY <2>1, <2>2, <1>t, LeaveQuietly
  <2>3. CASE sup' = [sup EXCEPT ![p].pc = "promote", ![p].snap = graph, ![p].next = Promoted(graph)]
    <3>1. /\ sup'[p] = [sup[p] EXCEPT !.pc = "promote", !.snap = graph, !.next = Promoted(graph)]
          /\ sup' = [sup EXCEPT ![p] = sup'[p]]
      BY <2>3, <1>t
    <3>2. /\ sup'[p].pc = "promote" /\ sup'[p].snap = graph /\ sup'[p].next = Promoted(graph)
          /\ sup'[p].chunk = sup[p].chunk /\ sup'[p].outcome = sup[p].outcome
      BY <3>1, <1>t DEF Call
    <3>3. \A n \in Nodes : Promoted(graph)[n] # graph.status[n] =>
            graph.status[n] \notin {"running", "cancelled"}
      BY DEF Promoted
    <3>4. Held(sup'[p]) = {} /\ StartsInTurn(sup[p])' /\ WritesItsOwn(sup'[p]) /\ ~Planning(sup'[p])
      BY <2>1, <3>2, <3>3, <1>t DEF Held, StartsInTurn, WritesItsOwn, Planning
    <3>5. QED
      BY <2>1, <3>1, <3>2, <3>4, <1>t, SamePlans, QuietStepInTurn
  <2>4. QED
    BY <1>2, <2>2, <2>3 DEF CycleRead
<1>3. CASE Promote(p)
  <2>1. /\ UNCHANGED <<assignments, teams, worker, canceller, recovery, disturbed>>
        /\ sup[p].pc = "promote"
    BY <1>3 DEF Promote, Others
  <2>2. /\ GraphMoves /\ \A n \in Nodes : Busy(n) => Busy(n)'
    <3>1. CASE UNCHANGED graph
      BY <3>1 DEF GraphMoves, Busy
    <3>2. CASE UpdateGraph(p)
      <4>1. /\ sup[p].snap = graph /\ graph'.status = sup[p].next
            /\ graph'.revision = graph.revision + 1
        BY <2>1, <3>2, <1>t, UpdateFacts
      <4>2. QED
        BY <2>1, <4>1, <1>t DEF WritesItsOwn, GraphMoves, Busy
    <3>3. QED
      BY <1>3, <3>1, <3>2 DEF Promote, RejectUpdate
  <2>3. CASE \E stop : Leave(p, stop)
    BY <2>1, <2>2, <2>3, <1>t, TeamsStay, LeaveInTurn
  <2>4. ASSUME NEW g, sup' = [sup EXCEPT ![p].pc = "form", ![p].snap = g, ![p].checked = FALSE]
        PROVE  TurnInv'
    <3>1. /\ sup'[p] = [sup[p] EXCEPT !.pc = "form", !.snap = g, !.checked = FALSE]
          /\ sup' = [sup EXCEPT ![p] = sup'[p]]
      BY <2>4, <1>t
    <3>2. sup'[p].pc = "form" /\ sup'[p].chunk = sup[p].chunk
      BY <3>1, <1>t DEF Call
    <3>3. Held(sup'[p]) = {} /\ StartsInTurn(sup[p])' /\ WritesItsOwn(sup'[p]) /\ ~Planning(sup'[p])
      BY <2>1, <3>2, <1>t DEF Held, StartsInTurn, WritesItsOwn, Planning
    <3>4. QED
      BY <2>1, <2>2, <3>1, <3>3, <1>t, SamePlans, StepInTurn
  <2>5. QED
    BY <1>3, <2>3, <2>4, DecideEnds DEF Promote, RejectUpdate
<1>4. CASE FormTeam(p)
  <2>1. /\ UNCHANGED <<graph, assignments, teams, worker, canceller, recovery, disturbed>>
        /\ sup[p].pc = "form"
    BY <1>4 DEF FormTeam, durable, Others
  <2>2. PICK ready \in SUBSET {n \in Nodes : Runnable(graph, n)},
             team \in {Cardinality(TeamIds) + 1} :
          sup' = [sup EXCEPT ![p].pc = "staff", ![p].members = ready, ![p].team = team]
    BY <1>4 DEF FormTeam
  <2>3. /\ sup'[p].pc = "staff" /\ sup'[p].members = ready
        /\ sup'[p].chunk = sup[p].chunk /\ sup'[p].outcome = sup[p].outcome
        /\ sup' = [sup EXCEPT ![p] = sup'[p]]
    BY <2>2, <1>t DEF Call
  <2>4. \A n \in ready : graph'.status[n] = "ready"
    BY <2>1 DEF Runnable
  <2>5. Held(sup'[p]) = {} /\ StartsInTurn(sup[p])' /\ WritesItsOwn(sup'[p]) /\ ~Planning(sup'[p])
    BY <2>1, <2>3, <2>4, <1>t DEF Held, StartsInTurn, WritesItsOwn, Planning
  <2>6. QED
    BY <2>1, <2>3, <2>5, <1>t, SamePlans, QuietStepInTurn
<1>5. QED
  BY <1>1, <1>2, <1>3, <1>4

(* The team: what it plans is ready, and for nobody else unless known.     *)
LEMMA TeamIsPlannedInTurn ==
  ASSUME Orderly, TurnInv, TruthInv', GateInv', NEW p \in Supervisors,
         StaffTeam(p) \/ ListPlanned(p) \/ \E a \in Attempts : PlanAssignment(p, a)
  PROVE  TurnInv'
<1>t. /\ sup \in [Supervisors -> Call] /\ sup[p] \in Call /\ graph \in Graph
      /\ assignments \in [Attempts -> Assignment \cup {NoAssignment}] /\ sup[p].team \in Nat
      /\ WritesItsOwn(sup[p]) /\ StartsInTurn(sup[p]) /\ recovery.pc = "idle"
      /\ PlannedHaveTeams(assignments, teams.rows) /\ teams.heads \subseteq teams.rows
      /\ TeamsBegin(teams.rows)
  BY TurnTypes, OnlyWithoutRecovery DEF TurnInv, SupervisorStep, Call, DocumentsTyped
<1>1. CASE StaffTeam(p)
  <2>t. PICK team \in Nat : team = sup[p].team
    BY <1>t
  <2>1. UNCHANGED <<graph, assignments, worker, canceller, recovery, disturbed>> /\ sup[p].pc = "staff"
    BY <1>1 DEF StaffTeam, Others
  <2>2. CASE Leave(p, "rejected") /\ UNCHANGED teams
    BY <2>1, <2>2, <1>t, LeaveQuietly
  <2>3. ASSUME PutTeam(team), NEW staffed \in SUBSET {n \in sup[p].members : ~Spent(n)},
               sup' = [sup EXCEPT
                 ![p].pc = IF staffed = {} THEN "list" ELSE "plan", ![p].members = {},
                 ![p].todo = {<<n, Cardinality(previousAttempts(n)) + 1>> : n \in staffed}]
        PROVE  TurnInv'
    <3> DEFINE todo == {<<n, Cardinality(previousAttempts(n)) + 1>> : n \in staffed}
    <3>1. /\ teams.heads \subseteq teams'.heads /\ teams.rows \subseteq teams'.rows
          /\ \E t \in teams'.heads : t[1] = team
          /\ \A u \in Nat : SharedTeam(u) => SharedTeam(u)'
          /\ (\E t \in teams.heads : t[1] = team) => SharedTeam(team)'
          /\ (~\E t \in teams.heads : t[1] = team) => <<team, 1>> \notin teams.rows
          /\ TeamsBegin(teams'.rows)
      BY <2>3, <1>t, TeamWritten
    <3>2. /\ sup'[p].pc = (IF staffed = {} THEN "list" ELSE "plan") /\ sup'[p].team = team
          /\ sup'[p].todo = todo /\ sup'[p].snap = sup[p].snap
          /\ sup'[p].chunk = sup[p].chunk /\ sup'[p].outcome = sup[p].outcome
          /\ sup' = [sup EXCEPT ![p] = sup'[p]]
      BY <2>t, <2>3, <1>t DEF Call
    <3>3. Held(sup'[p]) = {} /\ WritesItsOwn(sup'[p]) /\ Planning(sup'[p])
      BY <2>1, <3>2, <1>t DEF Held, WritesItsOwn, Planning
    <3>4. (\A u : ~NewlyPlanned(u)) /\ GraphMoves /\ TeamsGrow
      BY <2>1, <3>1 DEF NewlyPlanned, GraphMoves, TeamsGrow
    <3>5. PlannedHaveTeams(assignments', teams'.rows)
      BY <2>1, <3>1, <1>t DEF PlannedHaveTeams
    <3>6. ASSUME ~\E t \in teams.heads : t[1] = team
          PROVE  Planned(sup[p])' \subseteq todo
      <4>1. \A a \in InStatus("planned") : assignments[a].team # team
        BY <3>1, <3>6, <1>t DEF InStatus, Recorded, PlannedHaveTeams
      <4>2. \A a \in InStatus("planned")' : assignments'[a].team # team
        BY <2>1, <4>1 DEF InStatus, Recorded
      <4>3. QED
        BY <3>2, <4>2 DEF Planned
    <3>7. StartsInTurn(sup[p])'
      <4>1. CASE \E t \in teams.heads : t[1] = team
        <5>1. SharedTeam(sup[p].team)'
          BY <3>1, <3>2, <4>1 DEF SharedTeam
        <5>2. QED
          BY <3>1, <3>2, <5>1 DEF StartsInTurn
      <4>2. CASE ~\E t \in teams.heads : t[1] = team
        <5>1. \A a, b \in todo : a[1] = b[1] => a = b
          OBVIOUS
        <5>2. Current(sup[p])' => \A a \in todo : graph'.status[a[1]] = "ready"
          BY <2>1, <2>t, <3>2, <1>t DEF Current, StartsInTurn
        <5> HIDE DEF todo
        <5>3. QED
          BY <3>1, <3>2, <3>6, <4>2, <5>1, <5>2 DEF StartsInTurn
      <4>3. QED
        BY <4>1, <4>2
    <3>8. ASSUME NEW q \in Supervisors \ {p}, Planning(sup[q]), sup[q].team = team
          PROVE  SharedTeam(sup[q].team)'
      <4>1. \E t \in teams.heads : t[1] = team
        BY <2>t, <3>8 DEF TurnInv, StartsInTurn, Planning
      <4>2. sup'[q].team = team
        BY <3>2, <3>8, <1>t
      <4>3. QED
        BY <3>1, <4>1, <4>2 DEF SharedTeam
    <3>9. WorkInTurn'
      <4>1. \A q \in Supervisors \ {p} : sup'[q] = sup[q]
        BY <3>2, <1>t
      <4>2. \A n \in Nodes : Busy(n) => Busy(n)'
        BY <2>1 DEF Busy
      <4>3. /\ \A q \in Supervisors : Held(sup'[q]) \subseteq Held(sup[q])
            /\ \A q \in Supervisors : sup'[q].outcome = sup[q].outcome
        BY <3>2, <3>3, <4>1
      <4>4. QED
        BY <2>1, <4>2, <4>3, WorkKept
    <3>10. QED
      BY <2>1, <3>2, <3>3, <3>4, <3>5, <3>7, <3>8, <3>9, <1>t, <2>t, TurnKept
  <2>4. QED
    BY <1>1, <2>t, <2>2, <2>3 DEF StaffTeam
<1>2. ASSUME NEW a \in Attempts, PlanAssignment(p, a) PROVE TurnInv'
  <2>1. /\ UNCHANGED <<graph, teams, worker, canceller, recovery, disturbed>>
        /\ sup[p].pc = "plan" /\ a \in sup[p].todo
    BY <1>2 DEF PlanAssignment, Others
  <2>2. CASE Leave(p, "rejected") /\ UNCHANGED assignments
    BY <2>1, <2>2, <1>t, LeaveQuietly
  <2>3. CASE /\ PutAssignment(a, "planned", sup[p].team)
             /\ sup' = [sup EXCEPT ![p].todo = @ \ {a},
                              ![p].pc = IF sup[p].todo = {a} THEN "list" ELSE "plan"]
    <3>1. /\ assignments'[a].team = sup[p].team
          /\ \A b \in Attempts \ {a} : assignments'[b] = assignments[b]
      BY <2>3, <1>t, WrittenAssignment DEF AssignmentStatus
    <3>2. /\ sup'[p].pc \in {"list", "plan"} /\ sup'[p].snap = sup[p].snap
          /\ sup'[p].todo = sup[p].todo \ {a} /\ sup'[p].team = sup[p].team
          /\ sup'[p].chunk = sup[p].chunk /\ sup'[p].outcome = sup[p].outcome
          /\ sup' = [sup EXCEPT ![p] = sup'[p]]
      BY <2>3, <1>t DEF Call
    <3>3. Held(sup'[p]) = {} /\ WritesItsOwn(sup'[p]) /\ Planning(sup'[p]) /\ Planning(sup[p])
      BY <2>1, <3>2, <1>t DEF Held, WritesItsOwn, Planning
    <3>4. \A u : NewlyPlanned(u) => u = sup[p].team
      BY <3>1 DEF NewlyPlanned
    <3>5. \E t \in teams.heads : t[1] = sup[p].team
      BY <2>1, <1>t DEF StartsInTurn
    <3>6. PlannedHaveTeams(assignments', teams'.rows)
      BY <2>1, <3>1, <3>5, <1>t DEF PlannedHaveTeams, TeamsBegin
    <3>7. Planned(sup[p])' \subseteq Planned(sup[p])
      BY <2>1, <3>1, <3>2 DEF Planned, InStatus, Recorded
    <3>8. StartsInTurn(sup[p])'
      BY <2>1, <3>2, <3>7, <1>t DEF StartsInTurn, SharedTeam, Current
    <3>9. QED
      BY <2>1, <3>2, <3>3, <3>4, <3>6, <3>8, <1>t, QuietStepInTurn
  <2>4. QED
    BY <1>2, <2>2, <2>3 DEF PlanAssignment
<1>3. CASE ListPlanned(p)
  <2> DEFINE planned == {a \in InStatus("planned") : assignments[a].team = sup[p].team}
  <2>1. /\ UNCHANGED <<graph, assignments, teams, worker, canceller, recovery>>
        /\ sup[p].pc = "list"
    BY <1>3 DEF ListPlanned, durable, Others
  <2>2. CASE UNCHANGED disturbed /\ \E stop : Leave(p, stop)
    BY <2>1, <2>2, <1>t, LeaveQuietly
  <2>3. CASE /\ sup' = [sup EXCEPT ![p].pc = "start", ![p].running = planned,
                  ![p].next = [n \in Nodes |-> IF \E a \in planned : a[1] = n THEN "running"
                                               ELSE sup[p].snap.status[n]]]
             /\ disturbed' = IF SharedTeam(sup[p].team) THEN disturbed \cup planned ELSE disturbed
    <3>1. /\ sup'[p].pc = "start" /\ sup'[p].snap = sup[p].snap /\ sup'[p].running = planned
          /\ sup'[p].next = [n \in Nodes |-> IF \E a \in planned : a[1] = n THEN "running"
                                             ELSE sup[p].snap.status[n]]
          /\ sup'[p].chunk = sup[p].chunk /\ sup'[p].outcome = sup[p].outcome
          /\ sup' = [sup EXCEPT ![p] = sup'[p]]
      BY <2>3, <1>t DEF Call
    <3>2. planned \subseteq Attempts /\ planned \subseteq Planned(sup[p])
      BY <2>1 DEF InStatus, Recorded, Planned
    <3>3. \A a \in planned : a[1] \in Nodes
      BY <3>2 DEF Attempts
    <3> HIDE DEF planned
    <3>4. Held(sup'[p]) = {} /\ WritesItsOwn(sup'[p]) /\ ~Planning(sup'[p])
      BY <2>1, <3>1, <3>3, <1>t DEF Held, WritesItsOwn, Planning
    <3>5. StartsInTurn(sup[p])'
      <4>1. CASE SharedTeam(sup[p].team)
        <5>1. \A a \in planned : a \in disturbed'
          BY <2>3, <4>1
        <5>2. QED
          BY <3>1, <5>1 DEF StartsInTurn, Calm
      <4>2. CASE ~SharedTeam(sup[p].team)
        <5>1. /\ \A a, b \in planned : a[1] = b[1] => a = b
              /\ Current(sup[p]) => \A a \in planned : graph.status[a[1]] = "ready"
          BY <2>1, <3>2, <4>2, <1>t DEF StartsInTurn
        <5>2. QED
          BY <2>1, <3>1, <5>1 DEF StartsInTurn, Current
      <4>3. QED
        BY <4>1, <4>2
    <3>6. disturbed \subseteq disturbed'
      BY <2>3
    <3>7. QED
      BY <2>1, <3>1, <3>4, <3>5, <3>6, <1>t, SamePlans, QuietStepInTurn
  <2>4. QED
    BY <1>3, <2>2, <2>3 DEF ListPlanned, Report
<1>4. QED
  BY <1>1, <1>2, <1>3

(* The start of the work: what was listed is ready, so that nobody works   *)
(* on it.                                                                  *)
LEMMA WorkStartsInTurn ==
  ASSUME Orderly, TurnInv, TruthInv', GateInv', NEW p \in Supervisors, StartWork(p)
  PROVE  TurnInv'
<1>t. /\ sup \in [Supervisors -> Call] /\ sup[p] \in Call /\ graph \in Graph /\ GateInv
      /\ WritesItsOwn(sup[p]) /\ StartsInTurn(sup[p]) /\ recovery.pc = "idle" /\ WorkInTurn
      /\ sup[p].running \subseteq Attempts
  BY TurnTypes, OnlyWithoutRecovery DEF TurnInv, SupervisorStep, Call
<1>1. /\ UNCHANGED <<assignments, teams, worker, canceller, recovery, disturbed>>
      /\ sup[p].pc = "start"
  BY DEF StartWork, Others
<1>2. CASE RejectUpdate(p)
  BY <1>1, <1>2, <1>t, LeaveQuietly DEF RejectUpdate
<1>3. ASSUME UpdateGraph(p),
             sup' = [sup EXCEPT ![p].pc = "mark", ![p].todo = sup[p].running,
               ![p].snap = NextGraph(sup[p].snap, sup[p].next), ![p].checked = FALSE]
      PROVE  TurnInv'
  <2>1. /\ sup[p].snap = graph /\ graph'.status = sup[p].next
        /\ graph'.revision = graph.revision + 1
    BY <1>1, <1>3, <1>t, UpdateFacts
  <2>2. /\ sup'[p].pc = "mark" /\ sup'[p].running = sup[p].running
        /\ sup'[p].chunk = sup[p].chunk /\ sup'[p].outcome = sup[p].outcome
        /\ sup' = [sup EXCEPT ![p] = sup'[p]]
    BY <1>3, <1>t DEF Call
  <2>3. StartsInTurn(sup[p])' /\ WritesItsOwn(sup'[p]) /\ ~Planning(sup'[p])
    BY <1>1, <2>2, <1>t DEF StartsInTurn, WritesItsOwn, Planning
  <2>4. /\ Held(sup[p]) = {} /\ Held(sup'[p]) = sup[p].running
        /\ \A q \in Supervisors \ {p} : sup'[q] = sup[q]
    BY <1>1, <2>2, <1>t DEF Held
  <2>5. ASSUME NEW a \in sup[p].running, Calm(a[1])
        PROVE  /\ graph.status[a[1]] = "ready" /\ ~Busy(a[1])
               /\ Busy(a[1])' /\ \A b \in sup[p].running : a[1] = b[1] => a = b
    <3>1. graph.status[a[1]] = "ready" /\ \A b \in sup[p].running : a[1] = b[1] => a = b
      BY <1>1, <2>1, <2>5, <1>t DEF StartsInTurn, Current
    <3>2. graph'.status[a[1]] = "running"
      BY <1>1, <2>1, <2>5, <1>t DEF WritesItsOwn
    <3>3. QED
      BY <3>1, <3>2 DEF Busy
  <2>6. ASSUME NEW n \in Nodes, Busy(n) PROVE Busy(n)'
    <3>1. CASE graph'.status[n] = graph.status[n]
      BY <2>6, <3>1 DEF Busy
    <3>2. CASE graph'.status[n] # graph.status[n]
      <4>1. PICK a \in sup[p].running : a[1] = n
        BY <1>1, <2>1, <3>2, <1>t DEF WritesItsOwn
      <4>2. QED
        BY <1>1, <2>1, <4>1, <1>t DEF WritesItsOwn, Busy
    <3>3. QED
      BY <3>1, <3>2
  <2>c. \A n : Calm(n)' <=> Calm(n)
    BY <1>1 DEF Calm
  <2>n. \A a \in Attempts : a[1] \in Nodes
    BY DEF Attempts
  <2>7. ASSUME NEW a \in Attempts, worker'[a] # NoSupervisor, Calm(a[1])' PROVE Busy(a[1])'
    BY <1>1, <2>6, <2>7, <2>c, <2>n, <1>t DEF WorkInTurn
  <2>8. ASSUME NEW q \in Supervisors, NEW a \in Held(sup'[q]), Calm(a[1])'
        PROVE  OnlyWork(q, a)'
    <3>c. Calm(a[1])
      BY <2>8, <2>c
    <3>1. CASE q = p
      <4>1. a \in sup[p].running /\ ~Busy(a[1]) /\ Busy(a[1])'
        BY <2>4, <2>5, <2>8, <3>1, <3>c
      <4>2. ASSUME NEW r \in Supervisors, NEW b \in Held(sup'[r]), b[1] = a[1] PROVE r = q /\ b = a
        <5>1. CASE r = p
          BY <2>4, <2>5, <3>1, <3>c, <4>1, <4>2, <5>1
        <5>2. CASE r # p
          BY <2>4, <3>c, <4>1, <4>2, <5>2, <1>t DEF WorkInTurn, OnlyWork
        <5>3. QED
          BY <5>1, <5>2
      <4>3. \A b \in Attempts : b[1] = a[1] => worker'[b] = NoSupervisor
        BY <1>1, <3>c, <4>1, <1>t DEF WorkInTurn
      <4>4. QED
        BY <4>1, <4>2, <4>3 DEF OnlyWork
    <3>2. CASE q # p
      <4>1. a \in Held(sup[q]) /\ OnlyWork(q, a) /\ a \in Attempts
        BY <2>4, <2>8, <3>2, <3>c, <1>t DEF WorkInTurn, Held, Call
      <4>2. ASSUME NEW r \in Supervisors, NEW b \in Held(sup'[r]), b[1] = a[1] PROVE r = q /\ b = a
        <5>1. r # p
          BY <2>4, <2>5, <3>c, <4>1, <4>2 DEF OnlyWork
        <5>2. QED
          BY <2>4, <4>1, <4>2, <5>1 DEF OnlyWork
      <4>3. Busy(a[1])'
        BY <2>6, <2>n, <4>1 DEF OnlyWork
      <4>4. ASSUME NEW b \in Attempts, b[1] = a[1], worker'[b] # NoSupervisor
            PROVE  b = a /\ worker'[b] = q /\ sup'[q].outcome[b] = "awaited"
        BY <1>1, <2>4, <3>2, <4>1, <4>4 DEF OnlyWork
      <4>5. QED
        BY <4>2, <4>3, <4>4 DEF OnlyWork
    <3>3. QED
      BY <3>1, <3>2
  <2>9. WorkInTurn'
    BY <1>1, <2>7, <2>8, <1>t DEF WorkInTurn, OneAttemptAtATime
  <2>10. GraphMoves
    BY <2>1 DEF GraphMoves
  <2>11. QED
    BY <1>1, <2>3, <2>4, <2>9, <2>10, <1>t, SamePlans, TurnKept
<1>4. QED
  BY <1>2, <1>3 DEF StartWork

(* A dispatch: nobody else had the item, for the cycle has it.             *)
LEMMA DispatchInTurn ==
  ASSUME Orderly, TurnInv, TruthInv', GateInv', NEW p \in Supervisors, NEW a \in Attempts,
         Dispatch(p, a)
  PROVE  TurnInv'
<1>t. /\ sup \in [Supervisors -> Call] /\ sup[p] \in Call
      /\ WritesItsOwn(sup[p]) /\ recovery.pc = "idle" /\ WorkInTurn
      /\ worker \in [Attempts -> Supervisors \cup {NoSupervisor}]
  BY TurnTypes, OnlyWithoutRecovery DEF TurnInv, SupervisorStep, Call, DocumentsTyped
<1>1. /\ UNCHANGED <<graph, assignments, teams, canceller, recovery, disturbed>>
      /\ sup[p].pc = "work" /\ a \in sup[p].running /\ sup[p].outcome[a] = "none"
  BY <1>t DEF Dispatch, Others, WritesItsOwn
<1>2. PICK answer : sup' = [sup EXCEPT ![p].outcome[a] = answer]
  BY DEF Dispatch
<1>3. /\ sup'[p].pc = "work" /\ sup'[p].running = sup[p].running /\ sup'[p].chunk = sup[p].chunk
      /\ sup'[p].todo = sup[p].todo /\ sup' = [sup EXCEPT ![p] = sup'[p]]
      /\ sup'[p].outcome = [sup[p].outcome EXCEPT ![a] = answer]
  BY <1>1, <1>2, <1>t DEF Call
<1>4. /\ StartsInTurn(sup[p])' /\ WritesItsOwn(sup'[p]) /\ ~Planning(sup'[p])
      /\ Held(sup'[p]) = Held(sup[p]) /\ a \in Held(sup[p])
  BY <1>1, <1>3, <1>t DEF StartsInTurn, WritesItsOwn, Planning, Held
<1>5. CASE UNCHANGED worker
  <2>1. \A b \in Held(sup'[p]) :
          worker'[b] = p /\ sup[p].outcome[b] = "awaited" => sup'[p].outcome[b] = "awaited"
    BY <1>1, <1>3, <1>t DEF Call
  <2>2. \A n \in Nodes : Busy(n) => Busy(n)'
    BY <1>1 DEF Busy
  <2>3. GraphMoves
    BY <1>1 DEF GraphMoves
  <2>4. QED
    BY <1>1, <1>3, <1>4, <1>5, <2>1, <2>2, <2>3, <1>t, SamePlans, StepInTurn
<1>6. CASE /\ NewOperation(a) /\ worker' = [worker EXCEPT ![a] = p]
           /\ sup' = [sup EXCEPT ![p].outcome[a] = "awaited"]
  <2>1. sup'[p].outcome[a] = "awaited" /\ worker[a] = NoSupervisor
    <3>1. sup'[p].outcome[a] = "awaited"
      BY <1>6, <1>t DEF Call
    <3>2. worker[a] = NoSupervisor
      BY <1>6 DEF TurnInv, TruthInv, InHandIsDispatched, NewOperation
    <3>3. QED
      BY <3>1, <3>2
  <2>2. /\ \A q \in Supervisors : Held(sup'[q]) = Held(sup[q])
        /\ \A q \in Supervisors \ {p} : sup'[q] = sup[q]
    BY <1>3, <1>4, <1>t
  <2>3. worker'[a] = p /\ \A b \in Attempts \ {a} : worker'[b] = worker[b]
    BY <1>6, <1>t
  <2>c. /\ \A n : (Calm(n)' <=> Calm(n)) /\ (Busy(n)' <=> Busy(n))
    BY <1>1 DEF Calm, Busy
  <2>4. Calm(a[1]) => OnlyWork(p, a) /\ \A b \in Attempts : b[1] = a[1] => worker[b] = NoSupervisor
    BY <1>4, <2>1, <1>t DEF WorkInTurn, OnlyWork
  <2>5. OneAttemptAtATime'
    <3> SUFFICES ASSUME NEW b \in Attempts, NEW c \in Attempts, b[1] = c[1], b # c,
                        worker'[b] # NoSupervisor, worker'[c] # NoSupervisor, Calm(b[1])'
                 PROVE  FALSE
      BY DEF OneAttemptAtATime, Calm
    <3>1. CASE b # a /\ c # a
      BY <1>1, <2>3, <3>1, <1>t DEF WorkInTurn, OneAttemptAtATime, Calm
    <3>2. CASE b = a \/ c = a
      BY <2>3, <2>4, <2>c, <3>2
    <3>3. QED
      BY <3>1, <3>2
  <2>6. ASSUME NEW b \in Attempts, worker'[b] # NoSupervisor, Calm(b[1])' PROVE Busy(b[1])'
    <3>1. CASE b = a
      BY <2>4, <2>6, <2>c, <3>1 DEF OnlyWork
    <3>2. CASE b # a
      BY <2>3, <2>6, <2>c, <3>2, <1>t DEF WorkInTurn
    <3>3. QED
      BY <3>1, <3>2
  <2>7. ASSUME NEW q \in Supervisors, NEW b \in Held(sup'[q]), Calm(b[1])' PROVE OnlyWork(q, b)'
    <3>1. OnlyWork(q, b) /\ b \in Held(sup[q])
      BY <2>2, <2>7, <2>c, <1>t DEF WorkInTurn
    <3>2. a[1] = b[1] => q = p /\ b = a
      BY <1>4, <3>1 DEF OnlyWork
    <3>3. ASSUME NEW c \in Attempts, c[1] = b[1], worker'[c] # NoSupervisor
          PROVE  c = b /\ worker'[c] = q /\ sup'[q].outcome[c] = "awaited"
      <4>1. CASE c = a
        BY <2>1, <2>3, <3>2, <3>3, <4>1
      <4>2. CASE c # a
        <5>1. c = b /\ worker'[c] = q /\ sup[q].outcome[c] = "awaited"
          BY <2>3, <3>1, <3>3, <4>2 DEF OnlyWork
        <5>2. sup'[q].outcome[c] = "awaited"
          BY <1>3, <2>2, <4>2, <5>1, <1>t DEF Call
        <5>3. QED
          BY <5>1, <5>2
      <4>3. QED
        BY <4>1, <4>2
    <3>4. QED
      BY <2>2, <2>c, <3>1, <3>3 DEF OnlyWork
  <2>8. WorkInTurn'
    BY <2>5, <2>6, <2>7 DEF WorkInTurn
  <2>9. GraphMoves
    BY <1>1 DEF GraphMoves
  <2>10. QED
    BY <1>1, <1>4, <2>2, <2>8, <2>9, <1>t, SamePlans, TurnKept
<1>7. QED
  BY <1>5, <1>6 DEF Dispatch

(* The work goes on, and is given up or closed with its outcomes.          *)
LEMMA WorkGoesOnInTurn ==
  ASSUME Orderly, TurnInv, TruthInv', GateInv', NEW p \in Supervisors,
         \/ NextChunk(p) \/ RejectChunk(p) \/ CloseCycle(p)
         \/ \E a \in Attempts : MarkRunning(p, a) \/ FinishWork(p, a) \/ RecordOutcome(p, a)
  PROVE  TurnInv'
<1>t. /\ sup \in [Supervisors -> Call] /\ sup[p] \in Call /\ graph \in Graph /\ GateInv
      /\ WritesItsOwn(sup[p]) /\ recovery.pc = "idle" /\ WorkInTurn /\ Accounted(sup[p])
      /\ worker \in [Attempts -> Supervisors \cup {NoSupervisor}]
      /\ sup[p].team \in Nat /\ sup[p].running \subseteq Attempts
  BY TurnTypes, OnlyWithoutRecovery DEF TurnInv, SupervisorStep, Call, DocumentsTyped
<1>1. ASSUME NEW a \in Attempts, MarkRunning(p, a) PROVE TurnInv'
  <2>1. UNCHANGED <<graph, teams, worker, canceller, recovery, disturbed>> /\ sup[p].pc = "mark"
    BY <1>1 DEF MarkRunning, Others
  <2>2. CASE Leave(p, "rejected") /\ UNCHANGED assignments
    BY <2>1, <2>2, <1>t, LeaveQuietly
  <2>3. CASE /\ PutAssignment(a, "running", sup[p].team)
             /\ sup' = [sup EXCEPT
                  ![p].todo = IF sup[p].todo = {a} THEN sup[p].running ELSE @ \ {a},
                  ![p].pc = IF sup[p].todo = {a} THEN "work" ELSE "mark"]
    <3>1. /\ sup'[p].pc = (IF sup[p].todo = {a} THEN "work" ELSE "mark")
          /\ sup'[p].todo = (IF sup[p].todo = {a} THEN sup[p].running ELSE sup[p].todo \ {a})
          /\ sup'[p].running = sup[p].running
          /\ sup'[p].chunk = sup[p].chunk /\ sup'[p].outcome = sup[p].outcome
          /\ sup' = [sup EXCEPT ![p] = sup'[p]]
      BY <2>3, <1>t DEF Call
    <3>2. (\A u : ~NewlyPlanned(u)) /\ PlannedHaveTeams(assignments', teams'.rows)
      BY <2>1, <2>3, <1>t, NothingPlanned DEF AssignmentStatus
    <3>3. /\ Held(sup'[p]) \subseteq Held(sup[p]) /\ StartsInTurn(sup[p])'
          /\ WritesItsOwn(sup'[p]) /\ ~Planning(sup'[p])
      BY <2>1, <3>1, <1>t DEF Held, StartsInTurn, WritesItsOwn, Planning
    <3>4. QED
      BY <2>1, <3>1, <3>2, <3>3, <1>t, QuietStepInTurn
  <2>4. QED
    BY <1>1, <2>2, <2>3 DEF MarkRunning
<1>2. CASE NextChunk(p)
  <2>1. /\ UNCHANGED <<graph, assignments, teams, worker, canceller, recovery, disturbed>>
        /\ sup[p].pc = "work"
    BY <1>2 DEF NextChunk, durable, Others
  <2>2. /\ sup'[p].pc \in {"work", "record"} /\ sup'[p].running = sup[p].running
        /\ sup'[p].outcome = sup[p].outcome /\ sup' = [sup EXCEPT ![p] = sup'[p]]
        /\ IF sup'[p].pc = "work" THEN sup'[p].todo \cup sup'[p].chunk \subseteq sup[p].running
           ELSE sup'[p].chunk = {}
    <3>1. CASE /\ sup[p].todo # {}
               /\ \E chunk \in SUBSET sup[p].todo :
                    sup' = [sup EXCEPT ![p].chunk = chunk, ![p].todo = @ \ chunk]
      <4>1. PICK chunk \in SUBSET sup[p].todo :
              sup' = [sup EXCEPT ![p].chunk = chunk, ![p].todo = @ \ chunk]
        BY <3>1
      <4>2. /\ sup'[p].pc = sup[p].pc /\ sup'[p].running = sup[p].running
            /\ sup'[p].chunk = chunk /\ sup'[p].todo = sup[p].todo \ chunk
            /\ sup'[p].outcome = sup[p].outcome /\ sup' = [sup EXCEPT ![p] = sup'[p]]
        BY <4>1, <1>t DEF Call
      <4>3. sup[p].todo \subseteq sup[p].running
        BY <2>1, <1>t DEF WritesItsOwn
      <4>4. QED
        BY <2>1, <4>2, <4>3
    <3>2. CASE sup' = [sup EXCEPT ![p].pc = "record", ![p].chunk = {}, ![p].todo = sup[p].running]
      BY <3>2, <1>t DEF Call
    <3>3. QED
      BY <1>2, <3>1, <3>2 DEF NextChunk
  <2>3. /\ Held(sup'[p]) \subseteq Held(sup[p]) /\ StartsInTurn(sup[p])'
        /\ WritesItsOwn(sup'[p]) /\ ~Planning(sup'[p])
    BY <2>1, <2>2, <1>t DEF Held, StartsInTurn, WritesItsOwn, Planning
  <2>4. QED
    BY <2>1, <2>2, <2>3, <1>t, SamePlans, QuietStepInTurn
<1>3. CASE RejectChunk(p)
  BY <1>3, <1>t, LeaveQuietly DEF RejectChunk, durable, Others
<1>4. ASSUME NEW a \in Attempts, FinishWork(p, a) PROVE TurnInv'
  <2>1. UNCHANGED <<graph, assignments, teams, canceller, recovery, disturbed>>
    BY <1>4 DEF FinishWork, Others
  <2>2. worker'[a] = NoSupervisor /\ \A b \in Attempts : worker'[b] \in {worker[b], NoSupervisor}
    BY <1>4, <1>t DEF FinishWork
  <2>3. /\ sup'[p].pc = sup[p].pc /\ sup'[p].running = sup[p].running
        /\ sup'[p].todo = sup[p].todo /\ sup'[p].chunk = sup[p].chunk
        /\ sup'[p].snap = sup[p].snap /\ sup'[p].next = sup[p].next
        /\ sup'[p].team = sup[p].team /\ sup'[p].members = sup[p].members
        /\ sup' = [sup EXCEPT ![p] = sup'[p]]
        /\ \A b \in Attempts \ {a} : sup'[p].outcome[b] = sup[p].outcome[b]
        /\ sup'[p].outcome[a] = sup[p].outcome[a] \/ sup'[p].outcome[a] \in Outcome
    <3>1. PICK answer \in Outcome :
            sup' = [sup EXCEPT ![p].outcome[a] = answer] \/ sup' = sup
      BY <1>4 DEF FinishWork
    <3>2. CASE sup' = sup
      BY <3>2, <1>t
    <3>3. CASE sup' = [sup EXCEPT ![p].outcome[a] = answer]
      BY <3>3, <1>t DEF Call
    <3>4. QED
      BY <3>1, <3>2, <3>3
  <2>4. WritesItsOwn(sup'[p])
    BY <2>3, <1>t DEF WritesItsOwn
  <2>5. StartsInTurn(sup[p])'
    <3>1. StartsInTurn(sup[p])
      BY DEF TurnInv
    <3>2. /\ Planned(sup[p])' = Planned(sup[p]) /\ (Current(sup[p])' <=> Current(sup[p]))
          /\ (SharedTeam(sup[p].team)' <=> SharedTeam(sup[p].team))
          /\ \A n : Calm(n)' <=> Calm(n)
      BY <2>1, <2>3 DEF Planned, InStatus, Recorded, Current, SharedTeam, Calm
    <3>3. QED
      BY <2>1, <2>3, <3>1, <3>2 DEF StartsInTurn
  <2>6. Held(sup'[p]) = Held(sup[p]) /\ (Planning(sup'[p]) <=> Planning(sup[p]))
    BY <2>3 DEF Held, Planning
  <2>7. \A b \in Held(sup'[p]) :
          worker'[b] = p /\ sup[p].outcome[b] = "awaited" => sup'[p].outcome[b] = "awaited"
    BY <2>2, <2>3, <2>6, <1>t DEF Held
  <2>8. GraphMoves /\ \A n \in Nodes : Busy(n) => Busy(n)'
    BY <2>1 DEF GraphMoves, Busy
  <2>9. QED
    BY <2>1, <2>2, <2>3, <2>4, <2>5, <2>6, <2>7, <2>8, <1>t, SamePlans, StepInTurn
<1>5. ASSUME NEW a \in Attempts, RecordOutcome(p, a) PROVE TurnInv'
  <2> DEFINE settled(n) == {b \in sup[p].running : b[1] = n}
             first(n) == CHOOSE b \in settled(n) : \A c \in settled(n) : b[2] <= c[2]
             next == [n \in Nodes |-> IF settled(n) = {} THEN sup[p].snap.status[n]
                                      ELSE NodeOutcome(sup[p].outcome[first(n)])]
  <2>1. /\ UNCHANGED <<graph, teams, worker, canceller, recovery, disturbed>>
        /\ sup[p].pc = "record" /\ a \in sup[p].running
    BY <1>5, <1>t DEF RecordOutcome, Others, Accounted
  <2>2. CASE Leave(p, "rejected") /\ UNCHANGED assignments
    BY <2>1, <2>2, <1>t, LeaveQuietly
  <2>3. CASE /\ PutAssignment(a, sup[p].outcome[a], sup[p].team)
             /\ sup' = [sup EXCEPT ![p].todo = @ \ {a},
                  ![p].pc = IF sup[p].todo = {a} THEN "close" ELSE "record", ![p].next = next]
    <3>1. \A n \in Nodes : next[n] # sup[p].snap.status[n] => \E b \in sup[p].running : b[1] = n
      OBVIOUS
    <3>2. sup[p].outcome[a] \in Outcome
      BY <2>1, <1>t DEF Accounted
    <3>3. (\A u : ~NewlyPlanned(u)) /\ PlannedHaveTeams(assignments', teams'.rows)
      BY <2>1, <2>3, <3>2, <1>t, NothingPlanned DEF AssignmentStatus, Outcome
    <3> HIDE DEF next
    <3>4. /\ sup'[p].pc = (IF sup[p].todo = {a} THEN "close" ELSE "record")
          /\ sup'[p].running = sup[p].running /\ sup'[p].next = next
          /\ sup'[p].snap = sup[p].snap
          /\ sup'[p].chunk = sup[p].chunk /\ sup'[p].outcome = sup[p].outcome
          /\ sup' = [sup EXCEPT ![p] = sup'[p]]
      BY <2>3, <1>t DEF Call
    <3>5. /\ Held(sup'[p]) \subseteq Held(sup[p]) /\ StartsInTurn(sup[p])' /\ ~Planning(sup'[p])
      BY <2>1, <3>4, <1>t DEF Held, StartsInTurn, Planning
    <3>6. WritesItsOwn(sup'[p])
      BY <2>1, <3>1, <3>4, <1>t DEF WritesItsOwn, Accounted
    <3>7. QED
      BY <2>1, <3>3, <3>4, <3>5, <3>6, <1>t, QuietStepInTurn
  <2>4. QED
    BY <1>5, <2>2, <2>3 DEF RecordOutcome
<1>6. CASE CloseCycle(p)
  <2>1. /\ UNCHANGED <<assignments, worker, canceller, recovery, disturbed>> /\ sup[p].pc = "close"
    BY <1>6 DEF CloseCycle, Others
  <2>2. CASE RejectUpdate(p) /\ UNCHANGED teams
    BY <2>1, <2>2, <1>t, LeaveQuietly DEF RejectUpdate
  <2>3. CASE UpdateGraph(p) /\ ~(RejectUpdate(p) /\ UNCHANGED teams)
    <3>1. /\ sup[p].snap = graph /\ graph'.status = sup[p].next
          /\ graph'.revision = graph.revision + 1
      BY <2>1, <2>3, <1>t, UpdateFacts
    <3>2. GraphMoves
      BY <3>1 DEF GraphMoves
    <3>3. TeamsGrow
      <4>1. CASE UNCHANGED teams
        BY <4>1, TeamsStay
      <4>2. CASE PutTeam(sup[p].team)
        <5>1. PICK team \in Nat : team = sup[p].team
          BY <1>t
        <5>2. QED
          BY <4>2, <5>1, TeamWritten DEF TeamsGrow
      <4>3. QED
        BY <1>6, <2>3, <4>1, <4>2 DEF CloseCycle
    <3>4. PICK pc \in {"idle", "cycle"} :
            /\ sup' = [sup EXCEPT ![p] = sup'[p]] /\ sup'[p].pc = pc /\ sup'[p].chunk = {}
      <4>1. CASE \E stop : Leave(p, stop)
        BY <4>1, <1>t DEF Leave, Blank
      <4>2. CASE ~\E stop : Leave(p, stop)
        <5>1. sup' = [sup EXCEPT ![p] = [Blank("none") EXCEPT !.pc = "cycle", !.rounds = sup[p].rounds + 1]]
          BY <1>6, <4>2 DEF CloseCycle, Report, RejectUpdate
        <5>2. /\ sup'[p] = [Blank("none") EXCEPT !.pc = "cycle", !.rounds = sup[p].rounds + 1]
              /\ sup' = [sup EXCEPT ![p] = sup'[p]]
          BY <5>1, <1>t
        <5>3. QED
          BY <5>2 DEF Blank
      <4>3. QED
        BY <4>1, <4>2
    <3>5. Held(sup'[p]) = {} /\ StartsInTurn(sup[p])' /\ WritesItsOwn(sup'[p]) /\ ~Planning(sup'[p])
      BY <3>4 DEF Held, StartsInTurn, WritesItsOwn, Planning
    <3>6. ASSUME NEW n \in Nodes, Calm(n), Busy(n), ~Busy(n)', NEW a \in Attempts, a[1] = n
          PROVE  worker'[a] = NoSupervisor /\ \A q \in Supervisors : a \notin Held(sup'[q])
      <4>1. PICK b \in sup[p].running : b[1] = n
        BY <2>1, <3>1, <3>6, <1>t DEF WritesItsOwn, Busy
      <4>2. b \in Held(sup[p]) /\ OnlyWork(p, b)
        BY <2>1, <3>6, <4>1, <1>t DEF Held, WorkInTurn
      <4>3. sup[p].outcome[b] \in Outcome
        BY <2>1, <4>1, <1>t DEF WritesItsOwn
      <4>4. worker[a] = NoSupervisor
        BY <3>6, <4>1, <4>2, <4>3 DEF OnlyWork, Outcome
      <4>5. \A q \in Supervisors \ {p} : sup'[q] = sup[q]
        BY <3>4, <1>t
      <4>6. ASSUME NEW q \in Supervisors, a \in Held(sup'[q]) PROVE FALSE
        BY <3>5, <3>6, <4>1, <4>2, <4>5, <4>6 DEF OnlyWork
      <4>7. QED
        BY <2>1, <4>4, <4>6
    <3>7. /\ \A u : ~NewlyPlanned(u)
          /\ PlannedHaveTeams(assignments', teams'.rows)
      BY <2>1, <3>3 DEF TurnInv, TeamsGrow, NewlyPlanned, PlannedHaveTeams
    <3>8. QED
      BY <2>1, <3>2, <3>3, <3>4, <3>5, <3>6, <3>7, <1>t, StepInTurn
  <2>4. QED
    BY <1>6, <2>2, <2>3 DEF CloseCycle
<1>7. QED
  BY <1>1, <1>2, <1>3, <1>4, <1>5, <1>6

LEMMA SupervisorKeepsTurn ==
  ASSUME Orderly, TurnInv, TruthInv', GateInv', NEW p \in Supervisors,
         Supervise(p) \/ SupervisorStep(p) \/ Abort(p) \/ Crash(p)
  PROVE  TurnInv'
<1>t. sup \in [Supervisors -> Call] /\ recovery.pc = "idle"
  BY TurnTypes, OnlyWithoutRecovery
<1>1. CASE Abort(p)
  <2>1. UNCHANGED <<graph, assignments, teams, worker, canceller, recovery, disturbed, sup>>
    BY <1>1 DEF Abort, durable
  <2>2. \A q \in Supervisors : Held(sup'[q]) \subseteq Held(sup[q]) /\ sup'[q] = sup[q]
    BY <2>1
  <2>3. GraphMoves /\ TeamsGrow /\ (\A u : ~NewlyPlanned(u))
        /\ PlannedHaveTeams(assignments', teams'.rows)
    BY <2>1, SamePlans DEF GraphMoves
  <2>4. StartsInTurn(sup[p])' /\ WritesItsOwn(sup'[p])
    BY <2>1, <2>2, <2>3, StartsKept DEF TurnInv
  <2>5. \A n \in Nodes : Busy(n) => Busy(n)'
    BY <2>1 DEF Busy
  <2>6. Planning(sup'[p]) => Planning(sup[p]) /\ sup'[p].team = sup[p].team
    BY <2>1
  <2>7. sup' = [sup EXCEPT ![p] = sup'[p]]
    BY <2>1, <1>t
  <2>8. QED
    BY <2>1, <2>2, <2>3, <2>4, <2>5, <2>6, <2>7, <1>t, StepInTurn
<1>2. CASE Crash(p)
  <2>1. UNCHANGED <<graph, assignments, teams, canceller, recovery, disturbed>> /\ Leave(p, "crashed")
    BY <1>2 DEF Crash, durable
  <2>2. \A a \in Attempts : worker'[a] \in {worker[a], NoSupervisor}
    BY <1>2 DEF Crash
  <2>3. GraphMoves /\ \A n \in Nodes : Busy(n) => Busy(n)'
    BY <2>1 DEF GraphMoves, Busy
  <2>4. QED
    BY <2>1, <2>2, <2>3, <1>t, TeamsStay, LeaveInTurn
<1>3. ~AssertRevision(p)
  BY DEF AssertRevision, Orderly
<1>4. QED
  BY <1>1, <1>2, <1>3, CycleOpensInTurn, TeamIsPlannedInTurn, WorkStartsInTurn, DispatchInTurn,
     WorkGoesOnInTurn DEF SupervisorStep

-----------------------------------------------------------------------------
(* A step of somebody else beside the supervisors.                         *)
LEMMA OtherInTurn ==
  ASSUME TurnInv, TruthInv', GateInv', UNCHANGED <<sup, teams, worker>>, recovery.pc = "idle",
         disturbed \subseteq disturbed', GraphMoves,
         \A n \in Nodes : Calm(n) /\ Busy(n) => Busy(n)',
         \A u : ~NewlyPlanned(u), PlannedHaveTeams(assignments', teams'.rows),
         recovery'.pc # "idle" =>
           /\ PlannedHaveTeams(recovery'.saved.assignments, teams.rows)
           /\ \A a \in Attempts : worker[a] = NoSupervisor,
         canceller'.pc = "graph" => canceller'.attempt \in disturbed'
  PROVE  TurnInv'
<1>1. WorkInTurn'
  BY WorkKept
<1>2. (\A q \in Supervisors : StartsInTurn(sup[q]) /\ WritesItsOwn(sup[q]))'
  <2>1. \A q \in Supervisors : StartsInTurn(sup[q])'
    BY StartsKept, TeamsStay
  <2>2. QED
    BY <2>1 DEF TurnInv, WritesItsOwn
<1>3. SharingIsKnown' /\ TeamsBegin(teams.rows)'
  BY DEF TurnInv, SharingIsKnown, SharedTeam, Planning, TeamsBegin
<1>4. PlannedHaveTeams(assignments, teams.rows)'
  BY DEF PlannedHaveTeams
<1>5. (recovery.pc # "idle" =>
        /\ PlannedHaveTeams(recovery.saved.assignments, teams.rows)
        /\ \A a \in Attempts : worker[a] = NoSupervisor)'
  BY DEF PlannedHaveTeams
<1>6. QED
  BY <1>1, <1>2, <1>3, <1>4, <1>5 DEF TurnInv

(* A step of the reconciliation, with nobody at work.                      *)
LEMMA RecoveryInTurn ==
  ASSUME TurnInv, TruthInv', GateInv', UNCHANGED <<sup, worker, canceller, disturbed>>,
         UNCHANGED teams \/ (teams'.rows = teams.rows), recovery.pc # "idle",
         PlannedHaveTeams(assignments', teams.rows),
         recovery'.pc = "idle" \/ recovery'.saved = recovery.saved
  PROVE  TurnInv'
<1>1. /\ \A q \in Supervisors : sup[q].pc = "idle"
      /\ \A a \in Attempts : worker[a] = NoSupervisor
      /\ teams'.rows = teams.rows
  BY DEF TurnInv, GateInv, Quiet
<1>2. WorkInTurn'
  BY <1>1 DEF WorkInTurn, OneAttemptAtATime, Held
<1>3. (\A q \in Supervisors : StartsInTurn(sup[q]) /\ WritesItsOwn(sup[q]))'
  BY <1>1 DEF TurnInv, StartsInTurn, WritesItsOwn
<1>4. SharingIsKnown'
  BY <1>1 DEF SharingIsKnown, Planning
<1>5. PlannedHaveTeams(assignments, teams.rows)' /\ TeamsBegin(teams.rows)'
  BY <1>1 DEF TurnInv, PlannedHaveTeams, TeamsBegin
<1>6. (recovery.pc # "idle" =>
        /\ PlannedHaveTeams(recovery.saved.assignments, teams.rows)
        /\ \A a \in Attempts : worker[a] = NoSupervisor)'
  BY <1>1 DEF TurnInv, PlannedHaveTeams
<1>7. canceller'.pc = "graph" => canceller'.attempt \in disturbed'
  BY DEF TurnInv
<1>8. QED
  BY <1>2, <1>3, <1>4, <1>5, <1>6, <1>7 DEF TurnInv

LEMMA OthersKeepTurn ==
  ASSUME Orderly, TurnInv, TruthInv', GateInv',
         \/ \E a \in Attempts : CancelRead(a)
         \/ CancelPut \/ CancelGraph \/ CrashCancel
         \/ RecoverList \/ RecoveryStep \/ CrashRecovery
         \/ \E n \in Nodes : Edit(n)
  PROVE  TurnInv'
<1>t. /\ GateInv /\ graph \in Graph /\ CancellerTyped /\ RecoveryTyped
      /\ assignments \in [Attempts -> Assignment \cup {NoAssignment}]
      /\ worker \in [Attempts -> Supervisors \cup {NoSupervisor}]
      /\ canceller.pc # "idle" => recovery.pc = "idle"
      /\ PlannedHaveTeams(assignments, teams.rows)
      /\ canceller.pc = "graph" => canceller.attempt \in disturbed
      /\ recovery.pc # "idle" => PlannedHaveTeams(recovery.saved.assignments, teams.rows)
  BY TurnTypes DEF TurnInv, GateInv, DocumentsTyped, Quiet
<1>b. UNCHANGED graph => GraphMoves /\ \A n \in Nodes : Busy(n) => Busy(n)'
  BY DEF GraphMoves, Busy
<1>1. ASSUME NEW a \in Attempts, CancelRead(a) PROVE TurnInv'
  <2>1. /\ UNCHANGED <<graph, assignments, teams, worker, sup, recovery, disturbed>>
        /\ recovery.pc = "idle" /\ canceller'.pc = "put"
    BY <1>1 DEF CancelRead, durable, Orderly
  <2>2. QED
    BY <2>1, <1>b, SamePlans, OtherInTurn
<1>2. CASE CancelPut
  <2>1. /\ UNCHANGED <<graph, teams, worker, sup, recovery>> /\ canceller.pc = "put"
        /\ recovery.pc = "idle" /\ canceller.attempt \in Attempts /\ canceller.team \in Nat
    BY <1>2, <1>t DEF CancelPut, CancellerTyped
  <2>2. CASE /\ PutAssignment(canceller.attempt, "cancelled", canceller.team)
             /\ canceller' = [canceller EXCEPT !.pc = "graph"]
             /\ disturbed' = disturbed \cup {canceller.attempt}
    <3>1. canceller'.attempt \in disturbed' /\ disturbed \subseteq disturbed'
      BY <2>2, <1>t DEF CancellerTyped
    <3>2. (\A u : ~NewlyPlanned(u)) /\ PlannedHaveTeams(assignments', teams'.rows)
      BY <2>1, <2>2, NothingPlanned DEF AssignmentStatus, Outcome
    <3>3. QED
      BY <2>1, <3>1, <3>2, <1>b, OtherInTurn
  <2>3. CASE CancelIdle /\ UNCHANGED <<assignments, disturbed>>
    <3>1. canceller'.pc = "idle"
      BY <2>3 DEF CancelIdle
    <3>2. QED
      BY <2>1, <2>3, <3>1, <1>b, SamePlans, OtherInTurn
  <2>4. QED
    BY <1>2, <2>2, <2>3 DEF CancelPut
<1>3. CASE CancelGraph
  <2> DEFINE n == canceller.attempt[1]
             next == [graph.status EXCEPT ![n] = "blocked"]
  <2>1. /\ UNCHANGED <<assignments, teams, worker, sup, recovery, disturbed>>
        /\ canceller'.pc = "idle" /\ recovery.pc = "idle" /\ n \in Nodes
        /\ ~Calm(n)
    BY <1>3, <1>t DEF CancelGraph, CancelIdle, CancellerTyped, Attempts, Calm
  <2>2. GraphMoves /\ \A m \in Nodes : Calm(m) /\ Busy(m) => Busy(m)'
    <3>1. CASE UNCHANGED graph
      BY <3>1, <1>b
    <3>2. CASE graph' = NextGraph(graph, next)
      <4>1. next \in [Nodes -> NodeStatus]
        BY <2>1, <1>t DEF Graph, NodeStatus
      <4>2. graph'.status = next /\ graph'.revision = graph.revision + 1
        BY <3>2, <4>1, <1>t, WrittenGraph
      <4>3. \A m \in Nodes \ {n} : graph'.status[m] = graph.status[m]
        BY <4>2, <1>t DEF Graph
      <4>4. QED
        BY <2>1, <4>2, <4>3 DEF GraphMoves, Busy
    <3>3. QED
      BY <1>3, <3>1, <3>2 DEF CancelGraph
  <2>3. QED
    BY <2>1, <2>2, SamePlans, OtherInTurn
<1>4. CASE CrashCancel
  <2>1. /\ UNCHANGED <<graph, assignments, teams, worker, sup, recovery, disturbed>>
        /\ canceller'.pc = "idle" /\ recovery.pc = "idle"
    BY <1>4, <1>t DEF CrashCancel, CancelIdle, durable
  <2>2. QED
    BY <2>1, <1>b, SamePlans, OtherInTurn
<1>5. CASE RecoverList
  <2>1. /\ UNCHANGED <<graph, assignments, teams, worker, sup, canceller, disturbed>> /\ Alone
        /\ recovery.pc = "idle" /\ recovery'.saved.assignments = assignments
    BY <1>5 DEF RecoverList, Orderly, durable
  <2>2. \A a \in Attempts : worker[a] = NoSupervisor
    BY <2>1, <1>t DEF Alone
  <2>3. QED
    BY <2>1, <2>2, <1>b, <1>t, SamePlans, OtherInTurn
<1>6. ASSUME NEW a \in Attempts, RecoverPut(a) PROVE TurnInv'
  <2>1. /\ UNCHANGED <<teams, worker, sup, canceller, disturbed>> /\ recovery.pc # "idle"
        /\ recovery'.saved = recovery.saved /\ recovery.saved.assignments[a].team \in Nat
    BY <1>6, <1>t DEF RecoverPut, RecoveryTyped, Assignment
  <2>2. PlannedHaveTeams(assignments', teams.rows)
    BY <1>6, <2>1, NothingPlanned DEF RecoverPut, AssignmentStatus
  <2>3. QED
    BY <2>1, <2>2, RecoveryInTurn
<1>7. CASE RecoverGraph
  <2>1. /\ UNCHANGED <<assignments, teams, worker, sup, canceller, disturbed>>
        /\ recovery.pc # "idle" /\ recovery'.saved = recovery.saved
    BY <1>7, <1>t DEF RecoverGraph, RecoveryTyped
  <2>2. QED
    BY <2>1, <1>t, RecoveryInTurn
<1>8. CASE RecoverReceipt \/ CrashRecovery
  <2>1. /\ UNCHANGED <<assignments, teams, worker, sup, canceller, disturbed>>
        /\ recovery.pc # "idle" /\ recovery'.pc = "idle"
    BY <1>8 DEF RecoverReceipt, CrashRecovery, RecoverIdle, durable
  <2>2. QED
    BY <2>1, <1>t, RecoveryInTurn
<1>9. CASE RecoverRestore
  <2>1. /\ UNCHANGED <<worker, sup, canceller, disturbed>>
        /\ recovery.pc # "idle" /\ recovery'.pc = "idle"
        /\ assignments' = recovery.saved.assignments
        /\ teams' = [teams EXCEPT !.heads = recovery.saved.heads]
    BY <1>9 DEF RecoverRestore, RecoverIdle
  <2>2. teams'.rows = teams.rows
    BY <2>1, TurnTypes DEF DocumentsTyped
  <2>3. QED
    BY <2>1, <2>2, <1>t, RecoveryInTurn
<1>10. ASSUME NEW n \in Nodes, Edit(n) PROVE TurnInv'
  <2>1. /\ UNCHANGED <<assignments, teams, worker, sup, canceller, recovery, disturbed>>
        /\ recovery.pc = "idle"
    BY <1>10 DEF Edit, Orderly
  <2>2. PICK status \in {graph.status[n], "cancelled"},
             gated \in {graph.gated \cup {n}, graph.gated \ {n}} :
          graph' = NextGraph([graph EXCEPT !.gated = gated], [graph.status EXCEPT ![n] = status])
    BY <1>10 DEF Edit
  <2> DEFINE edited == [graph EXCEPT !.gated = gated]
             next == [graph.status EXCEPT ![n] = status]
  <2>3. /\ edited \in Graph /\ edited.revision = graph.revision
        /\ next \in [Nodes -> NodeStatus] /\ graph' = NextGraph(edited, next)
        /\ \A m \in Nodes : Busy(m) => next[m] \in {"running", "cancelled"}
    BY <2>2, <1>t DEF Graph, NodeStatus, Busy
  <2> HIDE DEF edited, next
  <2>4. graph'.status = next /\ graph'.revision = graph.revision + 1
    BY <2>3, <1>t, WrittenGraph
  <2>5. GraphMoves /\ \A m \in Nodes : Busy(m) => Busy(m)'
    BY <2>3, <2>4 DEF GraphMoves, Busy
  <2>6. QED
    BY <2>1, <2>5, <1>t, SamePlans, OtherInTurn
<1>11. QED
  BY <1>1, <1>2, <1>3, <1>4, <1>5, <1>6, <1>7, <1>8, <1>9, <1>10 DEF RecoveryStep

LEMMA TurnInit == Init => TurnInv
<1> SUFFICES ASSUME Init PROVE TurnInv
  OBVIOUS
<1>1. /\ TruthInv /\ GateInv /\ recovery.pc = "idle" /\ canceller.pc = "idle"
      /\ \A p \in Supervisors : sup[p].pc = "idle" /\ sup[p].chunk = {}
      /\ \A a \in Attempts : worker[a] = NoSupervisor /\ assignments[a] = NoAssignment
      /\ teams.rows = {}
  BY TruthInit, GateInit DEF Init, Blank
<1>2. WorkInTurn
  BY <1>1 DEF WorkInTurn, OneAttemptAtATime, Held
<1>3. \A p \in Supervisors : StartsInTurn(sup[p]) /\ WritesItsOwn(sup[p])
  BY <1>1 DEF StartsInTurn, WritesItsOwn
<1>4. QED
  BY <1>1, <1>2, <1>3 DEF TurnInv, SharingIsKnown, Planning, PlannedHaveTeams, TeamsBegin

LEMMA TurnStep == Orderly /\ TurnInv /\ [Next]_vars => TurnInv'
<1> SUFFICES ASSUME Orderly, TurnInv, [Next]_vars PROVE TurnInv'
  OBVIOUS
<1>1. TruthInv' /\ GateInv'
  BY TruthStep, GateStep DEF TurnInv
<1>2. CASE UNCHANGED vars
  <2>1. UNCHANGED <<graph, assignments, teams, worker, sup, canceller, recovery, disturbed>>
    BY <1>2 DEF vars
  <2>2. CASE recovery.pc = "idle"
    <3>1. GraphMoves /\ \A n \in Nodes : Busy(n) => Busy(n)'
      BY <2>1 DEF GraphMoves, Busy
    <3>2. canceller'.pc = "graph" => canceller'.attempt \in disturbed'
      BY <2>1 DEF TurnInv
    <3>3. QED
      BY <1>1, <2>1, <2>2, <3>1, <3>2, SamePlans, OtherInTurn
  <2>3. CASE recovery.pc # "idle"
    BY <1>1, <2>1, <2>3, RecoveryInTurn DEF TurnInv
  <2>4. QED
    BY <2>2, <2>3
<1>3. CASE Next
  BY <1>1, <1>3, SupervisorKeepsTurn, OthersKeepTurn DEF Next
<1>4. QED
  BY <1>2, <1>3

(* An item nobody cancelled, and no two supervisors planned under the same *)
(* team id, is in the hands of one executor at a time, whichever cycles    *)
(* list, retry, reject, crash and are reconciled around it.                *)
THEOREM WorkIsInTurn ==
  ASSUME Orderly
  PROVE  Spec => []OneAttemptAtATime
<1>1. TurnInv => OneAttemptAtATime
  BY DEF TurnInv, WorkInTurn
<1>2. TurnInv /\ [Next]_vars => TurnInv'
  BY TurnStep
<1>3. QED
  BY <1>1, <1>2, TurnInit, PTL DEF Spec

-----------------------------------------------------------------------------
(* What the theorem about retries asks of the home: one supervisor.        *)
Single == \A p, q \in Supervisors : p = q

(* The attempts at an item are numbered without a gap, ...                 *)
Gapless(f) ==
  \A a \in Attempts : f[a] # NoAssignment =>
    \A k \in 1 .. a[2] : f[<<a[1], k>>] # NoAssignment

Runs(f, a) == f[a] # NoAssignment /\ f[a].status = "running"

Newest(f, a) == \A b \in Attempts : b[1] = a[1] /\ f[b] # NoAssignment => b[2] <= a[2]

(* ... only the last may be running, ...                                   *)
LastRuns(f) == \A a \in Attempts : Runs(f, a) => Newest(f, a)

Free == {"pending", "ready"}

NoneRuns(f, n) == \A a \in Attempts : a[1] = n => ~Runs(f, a)

(* ... and none at an item the graph offers to a cycle.                    *)
Offers(f, status) == \A n \in Nodes : status[n] \in Free => NoneRuns(f, n)

TeamOf(f, a, team) == f[a] # NoAssignment /\ f[a].team = team

(* An attempt about to be planned is the next at its item.                 *)
NextAt(s, f, a) ==
  /\ NoneRuns(f, a[1])
  /\ \A k \in 1 .. MaxAttempts : f[<<a[1], k>>] # NoAssignment <=> k < a[2]
  /\ \A k \in 1 .. MaxAttempts : ~TeamOf(f, <<a[1], k>>, s.team)
  /\ \A b \in s.todo : b[1] = a[1] => b = a

(* A cycle in the hands of the only supervisor: s is its local state, f    *)
(* the assignments, ids the counted teams, status what the graph says.     *)
InCycle(s, f, ids, status) ==
  /\ s.pc \notin {"idle", "cycle"} => Offers(f, s.snap.status)
  /\ s.pc \in {"promote", "start", "close"} => Offers(f, s.next)
  /\ s.pc = "staff" => s.team = Cardinality(ids) + 1 /\ \A n \in s.members : NoneRuns(f, n)
  /\ s.pc = "plan" => \A a \in s.todo : NextAt(s, f, a)
  /\ s.pc \in {"plan", "list", "start", "mark", "work", "record", "close"} =>
       /\ s.team \in ids
       /\ \A a \in Attempts : TeamOf(f, a, s.team) => Newest(f, a)
  /\ s.pc \in {"start", "mark", "work", "record", "close"} =>
       \A a \in s.running : TeamOf(f, a, s.team)
  /\ s.pc = "start" => \A a \in s.running : s.next[a[1]] = "running"
  /\ s.pc \in {"mark", "work", "record", "close"} =>
       \A a \in s.running : s.snap.status[a[1]] \notin Free /\ status[a[1]] \notin Free
  /\ s.pc \in {"mark", "record"} => s.todo \subseteq s.running
  /\ s.pc = "work" => s.todo \cup s.chunk \subseteq s.running
  /\ s.pc # "work" => s.chunk = {}

(* Documents that say less is running, and otherwise the same.             *)
Quieter(f, g) ==
  \A a \in Attempts :
    /\ g[a] # NoAssignment <=> f[a] # NoAssignment
    /\ f[a] # NoAssignment => g[a].team = f[a].team
    /\ Runs(g, a) => Runs(f, a)

(* What a restore brings back.                                             *)
Restorable(saved, heads, f) ==
  /\ saved.heads = heads
  /\ LastRuns(saved.assignments) /\ Offers(saved.assignments, saved.graph.status)
  /\ Quieter(saved.assignments, f)

RetryInv ==
  /\ TruthInv
  /\ Quiet
  /\ Gapless(assignments) /\ LastRuns(assignments) /\ Offers(assignments, graph.status)
  /\ TeamIds = 1 .. Cardinality(TeamIds)
  /\ \A a \in Recorded : assignments[a].team \in TeamIds
  /\ \A a \in Attempts : journal[a] # "none" => a \in Recorded
  /\ \A p \in Supervisors : InCycle(sup[p], assignments, TeamIds, graph.status)
  /\ canceller.pc = "put" => TeamOf(assignments, canceller.attempt, canceller.team)
  /\ recovery.pc # "idle" => Restorable(recovery.saved, teams.heads, assignments)

-----------------------------------------------------------------------------
(* Assignments that say less is running keep all of this, ...              *)
LEMMA QuieterKeeps ==
  ASSUME NEW f, NEW g, Quieter(f, g)
  PROVE  /\ Gapless(f) => Gapless(g)
         /\ Gapless(g) => Gapless(f)
         /\ LastRuns(f) => LastRuns(g)
         /\ \A status : Offers(f, status) => Offers(g, status)
         /\ \A n : NoneRuns(f, n) => NoneRuns(g, n)
         /\ \A a \in Attempts : \A team : TeamOf(f, a, team) <=> TeamOf(g, a, team)
<1>0. \A a \in Attempts : \A k \in 1 .. a[2] : <<a[1], k>> \in Attempts
  BY DEF Attempts
<1>1. (Gapless(f) => Gapless(g)) /\ (Gapless(g) => Gapless(f))
  BY <1>0 DEF Quieter, Gapless
<1>2. LastRuns(f) => LastRuns(g)
  BY DEF Quieter, LastRuns, Newest
<1>3. \A n : NoneRuns(f, n) => NoneRuns(g, n)
  BY DEF Quieter, NoneRuns
<1>4. \A a \in Attempts : \A team : TeamOf(f, a, team) <=> TeamOf(g, a, team)
  BY DEF Quieter, TeamOf
<1>5. QED
  BY <1>1, <1>2, <1>3, <1>4 DEF Offers

LEMMA QuieterCycle ==
  ASSUME NEW f, NEW g, Quieter(f, g), NEW s \in Call, NEW ids, NEW status, InCycle(s, f, ids, status)
  PROVE  InCycle(s, g, ids, status)
<1>1. /\ \A st : Offers(f, st) => Offers(g, st)
      /\ \A n : NoneRuns(f, n) => NoneRuns(g, n)
      /\ \A a \in Attempts : \A team : TeamOf(f, a, team) <=> TeamOf(g, a, team)
  BY QuieterKeeps
<1>2. s.todo \subseteq Attempts /\ s.running \subseteq Attempts
  BY DEF Call
<1>3. \A a \in Attempts : Newest(f, a) => Newest(g, a)
  BY DEF Quieter, Newest
<1>4. ASSUME NEW a \in Attempts, NextAt(s, f, a) PROVE NextAt(s, g, a)
  <2>1. \A k \in 1 .. MaxAttempts : <<a[1], k>> \in Attempts
    BY DEF Attempts
  <2>2. \A k \in 1 .. MaxAttempts :
          /\ g[<<a[1], k>>] # NoAssignment <=> f[<<a[1], k>>] # NoAssignment
          /\ TeamOf(f, <<a[1], k>>, s.team) <=> TeamOf(g, <<a[1], k>>, s.team)
    BY <1>1, <2>1 DEF Quieter
  <2>3. QED
    BY <1>1, <1>4, <2>2 DEF NextAt
<1>5. s.pc = "plan" => \A a \in s.todo : NextAt(s, g, a)
  BY <1>2, <1>4 DEF InCycle
<1>6. QED
  BY <1>1, <1>2, <1>3, <1>5 DEF InCycle

(* ... and so does a graph that offers no more items.                      *)
Closer(old, new) == \A n \in Nodes : new[n] \in Free => old[n] \in Free

LEMMA CloserKeeps ==
  ASSUME NEW f, NEW old, NEW new, Closer(old, new)
  PROVE  /\ Offers(f, old) => Offers(f, new)
         /\ \A s \in Call : \A ids : InCycle(s, f, ids, old) => InCycle(s, f, ids, new)
<1>1. Offers(f, old) => Offers(f, new)
  BY DEF Closer, Offers
<1>2. ASSUME NEW s \in Call, NEW ids, InCycle(s, f, ids, old) PROVE InCycle(s, f, ids, new)
  <2>1. \A a \in s.running : a[1] \in Nodes
    BY DEF Call, Attempts
  <2>2. s.pc \in {"mark", "work", "record", "close"} =>
          \A a \in s.running : s.snap.status[a[1]] \notin Free /\ new[a[1]] \notin Free
    BY <1>2, <2>1 DEF InCycle, Closer
  <2>3. QED
    BY <1>2, <2>2 DEF InCycle
<1>3. QED
  BY <1>1, <1>2

(* A cycle that is over, or about to take its copy, relies on nothing.     *)
LEMMA RestingCycle ==
  ASSUME NEW s, s.pc \in {"idle", "cycle"}, s.chunk = {}
  PROVE  \A f, ids, status : InCycle(s, f, ids, status)
  BY DEF InCycle

LEMMA SameCycle ==
  ASSUME NEW s, NEW t, t.pc = s.pc, t.snap = s.snap, t.next = s.next, t.team = s.team,
         t.members = s.members, t.running = s.running, t.todo = s.todo, t.chunk = s.chunk
  PROVE  \A f, ids, status : InCycle(s, f, ids, status) => InCycle(t, f, ids, status)
  BY DEF InCycle, NextAt

-----------------------------------------------------------------------------
LEMMA CountTo ==
  ASSUME NEW m \in Nat
  PROVE  IsFiniteSet(1 .. m) /\ Cardinality(1 .. m) = m
<1>1. 1 \in Int /\ m \in Int
  OBVIOUS
<1>2. IsFiniteSet(1 .. m) /\ Cardinality(1 .. m) = IF 1 > m THEN 0 ELSE m - 1 + 1
  BY <1>1, FS_Interval
<1>3. QED
  BY <1>2

(* Without a gap the attempts at an item are the numbers up to their       *)
(* count, so that count + 1 is the next.                                   *)
LEMMA AttemptsAreCounted ==
  ASSUME Gapless(assignments), NEW n \in Nodes
  PROVE  LET c == Cardinality(previousAttempts(n)) IN
         /\ c \in Nat
         /\ \A k \in 1 .. MaxAttempts : assignments[<<n, k>>] # NoAssignment <=> k <= c
<1> DEFINE S == {k \in 1 .. MaxAttempts : <<n, k>> \in Recorded}
           c == Cardinality(S)
           at == [k \in S |-> <<n, k>>]
<1>1. \A k \in 1 .. MaxAttempts : <<n, k>> \in Attempts
  BY DEF Attempts
<1>2. \A k \in 1 .. MaxAttempts : k \in S <=> assignments[<<n, k>>] # NoAssignment
  BY <1>1 DEF Recorded
<1>3. previousAttempts(n) = {<<n, k>> : k \in S}
  <2>1. ASSUME NEW a \in previousAttempts(n) PROVE \E k \in S : a = <<n, k>>
    <3>1. a \in Recorded /\ a = <<n, a[2]>> /\ a[2] \in 1 .. MaxAttempts
      BY DEF previousAttempts, Recorded, Attempts
    <3>2. QED
      BY <3>1
  <2>2. ASSUME NEW k \in S PROVE <<n, k>> \in previousAttempts(n)
    BY DEF previousAttempts
  <2>3. QED
    BY <2>1, <2>2
<1>4. IsFiniteSet(S) /\ c \in Nat
  <2>1. IsFiniteSet(1 .. MaxAttempts)
    <3>1. 1 \in Int /\ MaxAttempts \in Int
      OBVIOUS
    <3>2. QED
      BY <3>1, FS_Interval
  <2>2. QED
    BY <2>1, FS_Subset, FS_CardinalityType
<1>5. Cardinality(previousAttempts(n)) = c
  <2>1. at \in Bijection(S, previousAttempts(n))
    <3>1. at \in [S -> previousAttempts(n)]
      BY <1>3
    <3>2. \A j, k \in S : at[j] = at[k] => j = k
      OBVIOUS
    <3>3. \A a \in previousAttempts(n) : \E k \in S : at[k] = a
      BY <1>3
    <3>4. QED
      BY <3>1, <3>2, <3>3, Fun_IsBij
  <2>2. ExistsBijection(S, previousAttempts(n))
    BY <2>1 DEF ExistsBijection
  <2>3. QED
    BY <1>4, <2>2, FS_Bijection
<1>7. ASSUME NEW k \in S PROVE k <= c
  <2>1. k \in Nat /\ <<n, k>> \in Attempts /\ assignments[<<n, k>>] # NoAssignment
    BY <1>1, <1>2
  <2>2. 1 .. k \subseteq S
    <3>1. \A j \in 1 .. k : assignments[<<n, j>>] # NoAssignment /\ j \in 1 .. MaxAttempts
      BY <2>1 DEF Gapless
    <3>2. QED
      BY <1>2, <3>1
  <2>3. QED
    <3>1. Cardinality(1 .. k) <= Cardinality(S)
      BY <1>4, <2>2, FS_Subset
    <3>2. QED
      BY <2>1, <3>1, CountTo
<1>8. S \subseteq 1 .. c
  BY <1>4, <1>7
<1>9. S = 1 .. c
  <2>1. IsFiniteSet(1 .. c) /\ Cardinality(1 .. c) = c
    BY <1>4, CountTo
  <2>2. QED
    BY <1>4, <1>8, <2>1, FS_Subset
<1>10. \A k \in 1 .. MaxAttempts : k \in S <=> k <= c
  BY <1>4, <1>9
<1> HIDE DEF S
<1>11. QED
  BY <1>2, <1>4, <1>5, <1>10

(* A team plan adds the id of its team.                                    *)
LEMMA IdsWritten ==
  ASSUME teams = [heads |-> teams.heads, rows |-> teams.rows], NEW team, PutTeam(team)
  PROVE  TeamIds' = TeamIds \cup {team}
<1>1. teams'.heads = teams.heads \cup {NextVersion(team)} /\ NextVersion(team)[1] = team
  BY DEF PutTeam, NextVersion
<1>2. QED
  BY <1>1 DEF TeamIds

LEMMA RetryTypes ==
  ASSUME RetryInv
  PROVE  /\ graph \in Graph /\ sup \in [Supervisors -> Call] /\ DocumentsTyped
         /\ CancellerTyped /\ RecoveryTyped
         /\ \A p \in Supervisors : Accounted(sup[p])
         /\ \A p \in Supervisors : sup[p] \in Call /\ sup[p].snap \in Graph
  BY TypeInvParts DEF RetryInv, TruthInv, DocumentsTyped, Call
-----------------------------------------------------------------------------
(* What a step leaves to show when the supervisor p takes it, ...          *)
Kept ==
  /\ Gapless(assignments') /\ LastRuns(assignments') /\ Offers(assignments', graph'.status)
  /\ TeamIds' = 1 .. Cardinality(TeamIds')
  /\ \A a \in Attempts : assignments'[a] # NoAssignment => assignments'[a].team \in TeamIds'
  /\ \A a \in Attempts : journal'[a] # "none" => assignments'[a] # NoAssignment

LEMMA OwnStep ==
  ASSUME Single, RetryInv, TruthInv', NEW p \in Supervisors, Kept,
         InCycle(sup'[p], assignments', TeamIds', graph'.status),
         UNCHANGED <<canceller, recovery>>,
         \A a \in Attempts, team \in Nat : TeamOf(assignments, a, team) => TeamOf(assignments', a, team),
         \/ recovery.pc = "idle"
         \/ sup'[p].pc = "idle" /\ UNCHANGED <<assignments, teams>>
  PROVE  RetryInv'
<1>1. \A q \in Supervisors : q = p
  BY DEF Single
<1>2. \A q \in Supervisors : InCycle(sup'[q], assignments', TeamIds', graph'.status)
  BY <1>1
<1>3. Quiet'
  BY <1>1 DEF RetryInv, Quiet
<1>4. canceller'.pc = "put" => TeamOf(assignments', canceller'.attempt, canceller'.team)
  BY RetryTypes DEF RetryInv, CancellerTyped
<1>5. recovery'.pc # "idle" => Restorable(recovery'.saved, teams'.heads, assignments')
  BY DEF RetryInv
<1>6. QED
  BY <1>2, <1>3, <1>4, <1>5 DEF RetryInv, Kept, Recorded

(* ... when it leaves the documents alone, ...                             *)
LEMMA ReadStep ==
  ASSUME Single, RetryInv, TruthInv', NEW p \in Supervisors,
         UNCHANGED <<graph, assignments, teams, canceller, recovery>>,
         \A a \in Attempts : journal'[a] # "none" => assignments[a] # NoAssignment,
         InCycle(sup'[p], assignments, TeamIds, graph.status),
         recovery.pc = "idle" \/ sup'[p].pc = "idle"
  PROVE  RetryInv'
<1>1. TeamIds' = TeamIds
  BY DEF TeamIds
<1>2. Kept
  BY <1>1 DEF RetryInv, Kept, Recorded
<1>3. QED
  BY <1>1, <1>2, OwnStep

(* ... when it writes the graph, ...                                       *)
LEMMA GraphStep ==
  ASSUME Single, RetryInv, TruthInv', NEW p \in Supervisors, recovery.pc = "idle",
         UNCHANGED <<assignments, journal, canceller, recovery>>, TeamIds' = TeamIds,
         Offers(assignments, graph'.status),
         InCycle(sup'[p], assignments, TeamIds, graph'.status)
  PROVE  RetryInv'
<1>1. Kept
  BY DEF RetryInv, Kept, Recorded
<1>2. QED
  BY <1>1, OwnStep

(* ... and when it writes an attempt that there is.                        *)
LEMMA AttemptStep ==
  ASSUME Single, RetryInv, TruthInv', NEW p \in Supervisors, recovery.pc = "idle",
         UNCHANGED <<graph, teams, journal, canceller, recovery>>,
         \A a \in Attempts :
           /\ assignments'[a] # NoAssignment <=> assignments[a] # NoAssignment
           /\ assignments[a] # NoAssignment => assignments'[a].team = assignments[a].team,
         LastRuns(assignments'), Offers(assignments', graph.status),
         InCycle(sup'[p], assignments', TeamIds, graph.status)
  PROVE  RetryInv'
<1>1. TeamIds' = TeamIds
  BY DEF TeamIds
<1>2. Gapless(assignments')
  <2>1. \A a \in Attempts : \A k \in 1 .. a[2] : <<a[1], k>> \in Attempts
    BY DEF Attempts
  <2>2. QED
    BY <2>1 DEF RetryInv, Gapless
<1>3. Kept
  BY <1>1, <1>2 DEF RetryInv, Kept, Recorded
<1>4. \A a \in Attempts, team \in Nat : TeamOf(assignments, a, team) => TeamOf(assignments', a, team)
  BY DEF TeamOf
<1>5. QED
  BY <1>1, <1>3, <1>4, OwnStep

(* A call that ends relies on nothing any more.                            *)
LEMMA LeaveStep ==
  ASSUME Single, RetryInv, TruthInv', NEW p \in Supervisors, NEW stop, Leave(p, stop),
         UNCHANGED <<graph, assignments, teams, journal, canceller, recovery>>
  PROVE  RetryInv'
<1>1. sup'[p].pc = "idle" /\ sup'[p].chunk = {}
  BY RetryTypes DEF Leave, Blank
<1>2. InCycle(sup'[p], assignments, TeamIds, graph.status)
  BY <1>1, RestingCycle
<1>3. QED
  BY <1>1, <1>2, ReadStep DEF RetryInv, Recorded

LEMMA SupervisorsAlone ==
  ASSUME RetryInv, NEW p \in Supervisors, sup[p].pc # "idle"
  PROVE  recovery.pc = "idle"
  BY DEF RetryInv, Quiet

(* An item is promoted for the first time, or after its last attempt has   *)
(* stopped running.                                                        *)
LEMMA PromotedIsFree ==
  ASSUME RetryInv
  PROVE  Offers(assignments, Promoted(graph))
<1> SUFFICES ASSUME NEW n \in Nodes, Promoted(graph)[n] \in Free,
                    NEW a \in Attempts, a[1] = n, Runs(assignments, a)
             PROVE  FALSE
  BY DEF Offers, NoneRuns
<1>1. graph.status[n] \notin Free
  BY DEF RetryInv, Offers, NoneRuns
<1>2. ~LastAttemptRunning(n)
  BY <1>1 DEF Promoted, Free
<1>3. Newest(assignments, a)
  BY DEF RetryInv, LastRuns
<1>4. a \in previousAttempts(n) /\ \A b \in previousAttempts(n) : b[2] <= a[2]
  BY <1>3 DEF previousAttempts, Recorded, Runs, Newest
<1>5. QED
  BY <1>2, <1>4 DEF LastAttemptRunning, Runs
-----------------------------------------------------------------------------
(* Up to the team.                                                         *)
LEMMA OpeningRetries ==
  ASSUME Single, ~RecoverBesideLive, RetryInv, TruthInv', NEW p \in Supervisors,
         \/ Supervise(p) \/ CycleRead(p) \/ AssertRevision(p) \/ FormTeam(p)
         \/ Abort(p) \/ Crash(p)
  PROVE  RetryInv'
<1>t. /\ sup \in [Supervisors -> Call] /\ sup[p] \in Call
      /\ InCycle(sup[p], assignments, TeamIds, graph.status)
      /\ \A a \in Attempts : journal[a] # "none" => assignments[a] # NoAssignment
      /\ sup[p].pc # "idle" => recovery.pc = "idle"
  BY RetryTypes, SupervisorsAlone DEF RetryInv, Recorded
<1>1. UNCHANGED <<graph, assignments, teams, journal, canceller, recovery>>
  BY DEF Supervise, CycleRead, AssertRevision, FormTeam, Abort, Crash, durable, Others
<1>2. CASE Crash(p)
  BY <1>1, <1>2, LeaveStep DEF Crash
<1>3. CASE Abort(p)
  <2>1. sup' = sup /\ recovery.pc = "idle"
    BY <1>3, <1>t DEF Abort
  <2>2. QED
    BY <1>1, <1>t, <2>1, ReadStep
<1>4. CASE Supervise(p)
  <2>1. sup'[p].pc = "cycle" /\ sup'[p].chunk = {}
    BY <1>4, <1>t DEF Supervise, Call, InCycle
  <2>2. recovery.pc = "idle"
    BY <1>4 DEF Supervise
  <2>3. InCycle(sup'[p], assignments, TeamIds, graph.status)
    BY <2>1, RestingCycle
  <2>4. QED
    BY <1>1, <1>t, <2>2, <2>3, ReadStep DEF Supervise, durable
<1>5. CASE CycleRead(p)
  <2>1. sup[p].pc = "cycle"
    BY <1>5 DEF CycleRead
  <2>2. ASSUME sup' = [sup EXCEPT ![p].pc = "promote", ![p].snap = graph,
                                  ![p].next = Promoted(graph)]
        PROVE  RetryInv'
    <3>1. /\ sup'[p].pc = "promote" /\ sup'[p].snap = graph /\ sup'[p].next = Promoted(graph)
          /\ sup'[p].chunk = {}
      BY <2>1, <2>2, <1>t DEF Call, InCycle
    <3>2. Offers(assignments, graph.status) /\ Offers(assignments, Promoted(graph))
      BY PromotedIsFree DEF RetryInv
    <3>3. InCycle(sup'[p], assignments, TeamIds, graph.status)
      BY <3>1, <3>2 DEF InCycle
    <3>4. QED
      BY <1>1, <1>t, <2>1, <3>3, ReadStep
  <2>3. QED
    BY <1>1, <1>5, <2>2, LeaveStep DEF CycleRead
<1>6. CASE AssertRevision(p)
  <2>1. /\ sup'[p] = [sup[p] EXCEPT !.checked = TRUE] /\ sup[p].pc # "idle"
    BY <1>6, <1>t DEF AssertRevision
  <2>2. InCycle(sup'[p], assignments, TeamIds, graph.status)
    BY <2>1, <1>t, SameCycle DEF Call
  <2>3. QED
    BY <1>1, <1>t, <2>1, <2>2, ReadStep
<1>7. CASE FormTeam(p)
  <2>1. sup[p].pc = "form"
    BY <1>7 DEF FormTeam
  <2>2. PICK ready \in SUBSET {n \in Nodes : Runnable(graph, n)},
             team \in {Cardinality(TeamIds) + 1} :
          sup' = [sup EXCEPT ![p].pc = "staff", ![p].members = ready, ![p].team = team]
    BY <1>7 DEF FormTeam
  <2>3. /\ sup'[p].pc = "staff" /\ sup'[p].members = ready /\ sup'[p].snap = sup[p].snap
        /\ sup'[p].team = Cardinality(TeamIds) + 1 /\ sup'[p].chunk = sup[p].chunk
    BY <2>2, <1>t DEF Call
  <2>4. \A n \in ready : NoneRuns(assignments, n)
    BY DEF RetryInv, Offers, Runnable, Free
  <2>5. InCycle(sup'[p], assignments, TeamIds, graph.status)
    BY <1>t, <2>1, <2>3, <2>4 DEF InCycle
  <2>6. QED
    BY <1>1, <1>t, <2>1, <2>5, ReadStep
<1>8. QED
  BY <1>2, <1>3, <1>4, <1>5, <1>6, <1>7

LEMMA PromotionRetries ==
  ASSUME Single, RetryInv, TruthInv', NEW p \in Supervisors, Promote(p)
  PROVE  RetryInv'
<1>t. /\ sup \in [Supervisors -> Call] /\ sup[p] \in Call /\ graph \in Graph
      /\ sup[p].snap \in Graph /\ sup[p].next \in [Nodes -> NodeStatus]
      /\ InCycle(sup[p], assignments, TeamIds, graph.status)
      /\ Offers(assignments, graph.status)
  BY RetryTypes DEF RetryInv, Call
<1>1. /\ sup[p].pc = "promote" /\ recovery.pc = "idle"
      /\ UNCHANGED <<assignments, teams, journal, canceller, recovery>>
  BY SupervisorsAlone DEF Promote, Others
<1>2. TeamIds' = TeamIds
  BY <1>1 DEF TeamIds
<1>3. Offers(assignments, sup[p].snap.status) /\ Offers(assignments, sup[p].next)
  BY <1>1, <1>t DEF InCycle
<1>4. Offers(assignments, graph'.status)
  <2>1. CASE UpdateGraph(p)
    <3>1. graph'.status = sup[p].next
      BY <2>1, <1>t, WrittenGraph DEF UpdateGraph
    <3>2. QED
      BY <1>3, <3>1
  <2>2. CASE UNCHANGED graph
    BY <2>2, <1>t
  <2>3. QED
    BY <2>1, <2>2 DEF Promote, RejectUpdate
<1>5. CASE \E stop : Leave(p, stop)
  <2>1. sup'[p].pc = "idle" /\ sup'[p].chunk = {}
    BY <1>5, <1>t DEF Leave, Blank
  <2>2. InCycle(sup'[p], assignments, TeamIds, graph'.status)
    BY <2>1, RestingCycle
  <2>3. QED
    BY <1>1, <1>2, <1>4, <2>2, GraphStep
<1>6. ASSUME NEW g, Offers(assignments, g.status),
             sup' = [sup EXCEPT ![p].pc = "form", ![p].snap = g, ![p].checked = FALSE]
      PROVE  RetryInv'
  <2>1. sup'[p].pc = "form" /\ sup'[p].snap = g /\ sup'[p].chunk = {}
    BY <1>1, <1>6, <1>t DEF Call, InCycle
  <2>2. InCycle(sup'[p], assignments, TeamIds, graph'.status)
    BY <1>6, <2>1 DEF InCycle
  <2>3. QED
    BY <1>1, <1>2, <1>4, <2>2, GraphStep
<1>7. NextGraph(sup[p].snap, sup[p].next).status = sup[p].next
  BY <1>t, WrittenGraph
<1>8. QED
  BY <1>3, <1>5, <1>6, <1>7, DecideEnds DEF Promote, RejectUpdate

-----------------------------------------------------------------------------
(* The team: a new id, and for each member the next attempt at its item.   *)
LEMMA StaffingRetries ==
  ASSUME Single, RetryInv, TruthInv', NEW p \in Supervisors, StaffTeam(p)
  PROVE  RetryInv'
<1>t. /\ sup \in [Supervisors -> Call] /\ sup[p] \in Call /\ sup[p].team \in Nat
      /\ sup[p].members \subseteq Nodes
      /\ InCycle(sup[p], assignments, TeamIds, graph.status)
      /\ teams = [heads |-> teams.heads, rows |-> teams.rows]
      /\ teams.heads \subseteq teams.rows /\ IsFiniteSet(teams.rows)
  BY RetryTypes DEF RetryInv, Call, DocumentsTyped
<1>1. /\ sup[p].pc = "staff" /\ recovery.pc = "idle"
      /\ UNCHANGED <<graph, assignments, journal, canceller, recovery>>
  BY SupervisorsAlone DEF StaffTeam, Others
<1> DEFINE team == sup[p].team
           c == Cardinality(TeamIds)
<1>2. /\ c \in Nat /\ TeamIds = 1 .. c /\ team = c + 1 /\ team \notin TeamIds
  <2>1. c \in Nat /\ TeamIds = 1 .. c
    BY <1>t, TeamsCounted DEF RetryInv
  <2>2. team = c + 1
    BY <1>1, <1>t DEF InCycle
  <2>3. QED
    BY <2>1, <2>2
<1>3. CASE Leave(p, "rejected") /\ UNCHANGED teams
  BY <1>1, <1>3, LeaveStep
<1>4. ASSUME PutTeam(team),
             NEW staffed \in SUBSET {n \in sup[p].members : ~Spent(n)},
             sup' = [sup EXCEPT
               ![p].pc = IF staffed = {} THEN "list" ELSE "plan",
               ![p].members = {},
               ![p].todo = {<<n, Cardinality(previousAttempts(n)) + 1>> : n \in staffed}]
      PROVE  RetryInv'
  <2> DEFINE todo == {<<n, Cardinality(previousAttempts(n)) + 1>> : n \in staffed}
  <2>1. /\ sup'[p].pc \in {"plan", "list"} /\ sup'[p].todo = todo
        /\ sup'[p].team = team /\ sup'[p].snap = sup[p].snap /\ sup'[p].chunk = {}
    BY <1>1, <1>4, <1>t DEF Call, InCycle
  <2>2. TeamIds' = 1 .. c + 1 /\ team \in TeamIds' /\ TeamIds \subseteq TeamIds'
    <3>1. TeamIds' = TeamIds \cup {team}
      BY <1>t, <1>4, IdsWritten
    <3>2. QED
      BY <1>2, <3>1
  <2>3. TeamIds' = 1 .. Cardinality(TeamIds')
    <3>1. c + 1 \in Nat
      BY <1>2
    <3>2. Cardinality(1 .. c + 1) = c + 1
      BY <3>1, CountTo
    <3>3. QED
      BY <2>2, <3>2
  <2>4. Kept
    BY <1>1, <2>2, <2>3 DEF RetryInv, Kept, Recorded
  <2>5. \A a \in Attempts : ~TeamOf(assignments, a, team)
    BY <1>2 DEF RetryInv, TeamOf, Recorded
  <2>6. ASSUME NEW n \in staffed
        PROVE  NextAt(sup'[p], assignments, <<n, Cardinality(previousAttempts(n)) + 1>>)
    <3> DEFINE k == Cardinality(previousAttempts(n))
    <3>1. n \in Nodes /\ NoneRuns(assignments, n)
      BY <1>1, <1>t DEF InCycle
    <3>2. k \in Nat /\ \A j \in 1 .. MaxAttempts : assignments[<<n, j>>] # NoAssignment <=> j <= k
      BY <3>1, AttemptsAreCounted DEF RetryInv
    <3>3. \A j \in 1 .. MaxAttempts : <<n, j>> \in Attempts
      BY <3>1 DEF Attempts
    <3>4. \A b \in todo : b[1] = n => b = <<n, k + 1>>
      OBVIOUS
    <3> DEFINE a == <<n, k + 1>>
    <3>5. a[1] = n /\ a[2] = k + 1
      OBVIOUS
    <3> HIDE DEF k, todo, a
    <3>6. \A j \in 1 .. MaxAttempts : assignments[<<a[1], j>>] # NoAssignment <=> j < a[2]
      <4>1. \A j \in 1 .. MaxAttempts : j <= k <=> j < k + 1
        BY <3>2
      <4>2. QED
        BY <3>2, <3>5, <4>1
    <3>7. \A j \in 1 .. MaxAttempts : ~TeamOf(assignments, <<a[1], j>>, sup'[p].team)
      BY <2>1, <2>5, <3>3, <3>5
    <3>8. \A b \in sup'[p].todo : b[1] = a[1] => b = a
      BY <2>1, <3>4, <3>5 DEF a, todo
    <3>9. NextAt(sup'[p], assignments, a)
      BY <3>1, <3>5, <3>6, <3>7, <3>8 DEF NextAt
    <3>10. QED
      BY <3>9 DEF a, k
  <2>7. Offers(assignments, sup[p].snap.status)
    BY <1>1, <1>t DEF InCycle
  <2>8. \A a \in todo : NextAt(sup'[p], assignments, a)
    BY <2>6
  <2> HIDE DEF todo, team, c
  <2>9. InCycle(sup'[p], assignments, TeamIds', graph.status)
    BY <2>1, <2>2, <2>5, <2>7, <2>8 DEF InCycle
  <2>10. QED
    BY <1>1, <2>4, <2>9, OwnStep
<1>5. QED
  BY <1>3, <1>4 DEF StaffTeam

LEMMA WrittenIsOne ==
  ASSUME assignments \in [Attempts -> Assignment \cup {NoAssignment}],
         NEW a \in Attempts, NEW status \in AssignmentStatus, NEW team \in Nat,
         PutAssignment(a, status, team)
  PROVE  assignments'[a] # NoAssignment
<1>1. assignments'[a] \in Assignment
  BY DEF PutAssignment, Assignment, Recorded
<1>2. QED
  BY <1>1, NoAssignmentAssumption

(* An attempt is planned: the next at its item, and nothing else changes.  *)
LEMMA PlannedNext ==
  ASSUME NEW f, NEW g, NEW s, NEW team, NEW a \in Attempts, team = s.team,
         Gapless(f), LastRuns(f), NextAt(s, f, a),
         g[a] # NoAssignment, g[a].status = "planned", g[a].team = team,
         \A b \in Attempts \ {a} : g[b] = f[b]
  PROVE  /\ Gapless(g) /\ LastRuns(g)
         /\ \A n : NoneRuns(f, n) => NoneRuns(g, n)
         /\ \A b \in Attempts : TeamOf(f, b, team) => TeamOf(g, b, team) /\ b # a
         /\ f[a] = NoAssignment
         /\ (\A b \in Attempts : TeamOf(f, b, team) => Newest(f, b))
              => \A b \in Attempts : TeamOf(g, b, team) => Newest(g, b)
         /\ \A b \in Attempts : \A t : NextAt(s, f, b) /\ b # a /\ b \in s.todo
              /\ t.team = team /\ t.todo \subseteq s.todo => NextAt(t, g, b)
<1>t. /\ \A b \in Attempts : b = <<b[1], b[2]>> /\ b[2] \in 1 .. MaxAttempts /\ b[1] \in Nodes
      /\ \A n \in Nodes, k \in 1 .. MaxAttempts : <<n, k>> \in Attempts
  BY DEF Attempts
<1>1. f[a] = NoAssignment
  <2>1. ~(a[2] < a[2])
    BY <1>t
  <2>2. f[<<a[1], a[2]>>] = NoAssignment
    BY <1>t, <2>1 DEF NextAt
  <2>3. QED
    BY <1>t, <2>2
<1>2. \A b \in Attempts : b[1] = a[1] /\ f[b] # NoAssignment => b[2] < a[2]
  <2> SUFFICES ASSUME NEW b \in Attempts, b[1] = a[1], f[b] # NoAssignment PROVE b[2] < a[2]
    OBVIOUS
  <2>1. f[<<a[1], b[2]>>] # NoAssignment
    BY <1>t
  <2>2. QED
    BY <1>t, <2>1 DEF NextAt
<1>3. \A b \in Attempts : Runs(g, b) => b # a /\ Runs(f, b)
  BY DEF Runs
<1>4. \A b \in Attempts : g[b] # NoAssignment => b = a \/ f[b] # NoAssignment
  OBVIOUS
<1>5. \A b \in Attempts : f[b] # NoAssignment => g[b] # NoAssignment /\ g[b] = f[b]
  BY <1>1
<1>6. Gapless(g)
  <2> SUFFICES ASSUME NEW b \in Attempts, g[b] # NoAssignment, NEW k \in 1 .. b[2]
               PROVE  g[<<b[1], k>>] # NoAssignment
    BY DEF Gapless
  <2>0. k \in 1 .. MaxAttempts /\ <<b[1], k>> \in Attempts
    BY <1>t
  <2>1. CASE b = a
    <3>1. CASE k = a[2]
      BY <1>t, <2>1, <3>1
    <3>2. CASE k # a[2]
      <4>1. k < a[2]
        BY <1>t, <2>1, <3>2
      <4>2. f[<<a[1], k>>] # NoAssignment
        BY <2>0, <4>1 DEF NextAt
      <4>3. QED
        BY <1>5, <2>0, <2>1, <4>2
    <3>3. QED
      BY <3>1, <3>2
  <2>2. CASE b # a
    <3>1. f[b] # NoAssignment
      BY <2>2
    <3>2. f[<<b[1], k>>] # NoAssignment
      BY <3>1 DEF Gapless
    <3>3. QED
      BY <1>5, <2>0, <3>2
  <2>3. QED
    BY <2>1, <2>2
<1>7. LastRuns(g)
  <2> SUFFICES ASSUME NEW b \in Attempts, Runs(g, b), NEW c \in Attempts,
                      c[1] = b[1], g[c] # NoAssignment
               PROVE  c[2] <= b[2]
    BY DEF LastRuns, Newest
  <2>1. b # a /\ Runs(f, b) /\ b[1] # a[1]
    BY <1>3 DEF NextAt, NoneRuns
  <2>2. f[c] # NoAssignment
    BY <1>4, <2>1
  <2>3. QED
    BY <2>1, <2>2 DEF LastRuns, Newest
<1>8. \A n : NoneRuns(f, n) => NoneRuns(g, n)
  BY <1>3 DEF NoneRuns
<1>9. \A b \in Attempts : TeamOf(f, b, team) => TeamOf(g, b, team) /\ b # a
  BY <1>1, <1>5 DEF TeamOf
<1>10. ASSUME \A b \in Attempts : TeamOf(f, b, team) => Newest(f, b),
              NEW b \in Attempts, TeamOf(g, b, team), NEW c \in Attempts,
              c[1] = b[1], g[c] # NoAssignment
       PROVE  c[2] <= b[2]
  <2>1. CASE b = a
    <3>1. c = a \/ c[2] < a[2]
      BY <1>2, <1>4, <1>10, <2>1
    <3>2. QED
      BY <1>t, <2>1, <3>1
  <2>2. CASE b # a
    <3>1. TeamOf(f, b, team)
      BY <1>10, <2>2 DEF TeamOf
    <3>2. b[1] # a[1]
      <4>1. SUFFICES ASSUME b[1] = a[1] PROVE FALSE
        OBVIOUS
      <4>2. ~TeamOf(f, <<a[1], b[2]>>, team)
        BY <1>t DEF NextAt
      <4>3. QED
        BY <1>t, <3>1, <4>1, <4>2
    <3>3. f[c] # NoAssignment
      BY <1>4, <1>10, <3>2
    <3>4. QED
      BY <1>10, <3>1, <3>3 DEF Newest
  <2>3. QED
    BY <2>1, <2>2
<1>11. ASSUME NEW b \in Attempts, NEW t, NextAt(s, f, b), b # a, b \in s.todo, t.team = team,
              t.todo \subseteq s.todo
       PROVE  NextAt(t, g, b)
  <2>1. b[1] # a[1]
    BY <1>11 DEF NextAt
  <2>2. \A k \in 1 .. MaxAttempts : <<b[1], k>> \in Attempts /\ <<b[1], k>> # a
    BY <1>t, <2>1
  <2>3. \A k \in 1 .. MaxAttempts : g[<<b[1], k>>] = f[<<b[1], k>>]
    BY <2>2
  <2>4. NoneRuns(g, b[1])
    BY <1>8, <1>11 DEF NextAt
  <2>5. QED
    BY <1>11, <2>3, <2>4 DEF NextAt, TeamOf
<1>12. QED
  BY <1>1, <1>6, <1>7, <1>8, <1>9, <1>10, <1>11 DEF Newest

LEMMA PlanningRetries ==
  ASSUME Single, RetryInv, TruthInv', NEW p \in Supervisors, NEW a \in Attempts,
         PlanAssignment(p, a)
  PROVE  RetryInv'
<1>t. /\ sup \in [Supervisors -> Call] /\ sup[p] \in Call /\ sup[p].team \in Nat
      /\ InCycle(sup[p], assignments, TeamIds, graph.status)
      /\ assignments \in [Attempts -> Assignment \cup {NoAssignment}]
  BY RetryTypes DEF RetryInv, Call, DocumentsTyped
<1>1. /\ sup[p].pc = "plan" /\ recovery.pc = "idle" /\ a \in sup[p].todo
      /\ UNCHANGED <<graph, teams, journal, canceller, recovery>>
  BY SupervisorsAlone DEF PlanAssignment, Others
<1>2. CASE a \in behind.attempts /\ Leave(p, "rejected") /\ UNCHANGED assignments
  BY <1>1, <1>2, LeaveStep
<1>3. CASE /\ PutAssignment(a, "planned", sup[p].team)
           /\ sup' = [sup EXCEPT ![p].todo = @ \ {a},
                                 ![p].pc = IF sup[p].todo = {a} THEN "list" ELSE "plan"]
  <2> DEFINE f == assignments
             g == assignments'
             team == sup[p].team
             s == sup[p]
             t == sup'[p]
  <2>1. /\ g[a].status = "planned" /\ g[a].team = team
        /\ \A b \in Attempts \ {a} : g[b] = f[b]
    <3>1. "planned" \in AssignmentStatus /\ PutAssignment(a, "planned", sup[p].team)
      BY <1>3 DEF AssignmentStatus
    <3>2. /\ assignments'[a].status = "planned" /\ assignments'[a].team = sup[p].team
          /\ \A b \in Attempts \ {a} : assignments'[b] = assignments[b]
      BY <1>t, <3>1, WrittenAssignment
    <3>3. QED
      BY <3>2
  <2>2. g[a] # NoAssignment
    BY <1>3, <1>t, WrittenIsOne DEF AssignmentStatus
  <2>3. /\ t.pc \in {"plan", "list"} /\ t.todo = s.todo \ {a} /\ t.team = team /\ t.snap = s.snap
        /\ t.chunk = {}
    BY <1>1, <1>3, <1>t DEF Call, InCycle
  <2>4. /\ \A b \in s.todo : NextAt(s, f, b)
        /\ team \in TeamIds /\ \A b \in Attempts : TeamOf(f, b, team) => Newest(f, b)
        /\ Offers(f, s.snap.status)
    BY <1>1, <1>t DEF InCycle
  <2>5. /\ Gapless(f) /\ LastRuns(f) /\ Offers(f, graph.status)
    BY DEF RetryInv
  <2> HIDE DEF f, g, team, s, t
  <2>6. /\ Gapless(g) /\ LastRuns(g)
        /\ \A n : NoneRuns(f, n) => NoneRuns(g, n)
        /\ \A b \in Attempts : TeamOf(g, b, team) => Newest(g, b)
        /\ \A b \in s.todo \ {a} : NextAt(t, g, b)
        /\ f[a] = NoAssignment
    <3>1. s.todo \subseteq Attempts /\ team = s.team
      BY <1>t DEF Call, s, team
    <3>2. NextAt(s, f, a)
      BY <1>1, <2>4 DEF s
    <3>3. QED
      BY <2>1, <2>2, <2>3, <2>4, <2>5, <3>1, <3>2, PlannedNext
  <2>7. Offers(g, graph.status) /\ Offers(g, s.snap.status)
    BY <2>4, <2>5, <2>6 DEF Offers
  <2>8. TeamIds' = TeamIds
    BY <1>1 DEF TeamIds
  <2>9. Kept
    <3>1. \A b \in Attempts : g[b] # NoAssignment => g[b].team \in TeamIds
      BY <2>1, <2>4 DEF RetryInv, Recorded, f
    <3>2. \A b \in Attempts : journal'[b] # "none" => g[b] # NoAssignment
      BY <1>1, <2>1, <2>2 DEF RetryInv, Recorded, f
    <3>3. QED
      BY <1>1, <2>6, <2>7, <2>8, <3>1, <3>2 DEF RetryInv, Kept, g
  <2>10. InCycle(t, g, TeamIds', graph'.status)
    BY <1>1, <2>3, <2>4, <2>6, <2>7, <2>8 DEF InCycle
  <2>11. \A b \in Attempts, u \in Nat : TeamOf(f, b, u) => TeamOf(g, b, u)
    BY <2>1, <2>6 DEF TeamOf
  <2>12. QED
    BY <1>1, <2>9, <2>10, <2>11, OwnStep DEF f, g, t
<1>4. QED
  BY <1>2, <1>3 DEF PlanAssignment

-----------------------------------------------------------------------------
(* The team's attempts are started and marked.                             *)
LEMMA ListingRetries ==
  ASSUME Single, RetryInv, TruthInv', NEW p \in Supervisors, ListPlanned(p)
  PROVE  RetryInv'
<1> DEFINE s == sup[p]
           t == sup'[p]
           planned == {a \in InStatus("planned") : assignments[a].team = sup[p].team}
<1>t. /\ sup \in [Supervisors -> Call] /\ s \in Call
      /\ InCycle(s, assignments, TeamIds, graph.status)
      /\ \A a \in Attempts : journal[a] # "none" => assignments[a] # NoAssignment
  BY RetryTypes DEF RetryInv, Recorded
<1>1. /\ s.pc = "list" /\ recovery.pc = "idle"
      /\ UNCHANGED <<graph, assignments, teams, journal, canceller, recovery>>
  BY SupervisorsAlone DEF ListPlanned, durable
<1>2. CASE \E reason : Report(p, reason)
  BY <1>1, <1>2, LeaveStep DEF Report
<1>3. CASE sup' = [sup EXCEPT ![p].pc = "start", ![p].running = planned,
             ![p].next = [n \in Nodes |-> IF \E a \in planned : a[1] = n THEN "running"
                                          ELSE sup[p].snap.status[n]]]
  <2>1. /\ t.pc = "start" /\ t.running = planned /\ t.snap = s.snap /\ t.team = s.team
        /\ t.chunk = {} /\ t.next \in [Nodes -> {"running"} \cup {s.snap.status[n] : n \in Nodes}]
        /\ \A n \in Nodes : t.next[n] = IF \E a \in planned : a[1] = n THEN "running"
                                        ELSE s.snap.status[n]
    BY <1>1, <1>3, <1>t DEF Call, InCycle
  <2>2. /\ Offers(assignments, s.snap.status) /\ s.team \in TeamIds
        /\ \A a \in Attempts : TeamOf(assignments, a, s.team) => Newest(assignments, a)
    BY <1>1, <1>t DEF InCycle
  <2>3. \A a \in planned : a \in Attempts /\ a[1] \in Nodes /\ TeamOf(assignments, a, s.team)
    BY DEF InStatus, Recorded, TeamOf, Attempts
  <2>4. Offers(assignments, t.next)
    BY <2>1, <2>2 DEF Offers, Free
  <2> HIDE DEF planned, s, t
  <2>5. \A a \in planned : t.next[a[1]] = "running"
    BY <2>1, <2>3
  <2>6. InCycle(t, assignments, TeamIds, graph.status)
    BY <2>1, <2>2, <2>3, <2>4, <2>5 DEF InCycle
  <2>7. QED
    BY <1>1, <1>t, <2>6, ReadStep DEF t
<1>4. QED
  BY <1>2, <1>3 DEF ListPlanned

LEMMA StartingRetries ==
  ASSUME Single, RetryInv, TruthInv', NEW p \in Supervisors, StartWork(p)
  PROVE  RetryInv'
<1> DEFINE s == sup[p]
           t == sup'[p]
<1>t. /\ sup \in [Supervisors -> Call] /\ s \in Call /\ graph \in Graph
      /\ s.snap \in Graph /\ s.next \in [Nodes -> NodeStatus]
      /\ InCycle(s, assignments, TeamIds, graph.status)
  BY RetryTypes DEF RetryInv, Call
<1>1. /\ s.pc = "start" /\ recovery.pc = "idle"
      /\ UNCHANGED <<assignments, teams, journal, canceller, recovery>>
  BY SupervisorsAlone DEF StartWork, Others
<1>2. CASE RejectUpdate(p)
  BY <1>1, <1>2, LeaveStep DEF RejectUpdate
<1>3. CASE /\ UpdateGraph(p)
           /\ sup' = [sup EXCEPT ![p].pc = "mark", ![p].todo = sup[p].running,
                ![p].snap = NextGraph(sup[p].snap, sup[p].next), ![p].checked = FALSE]
  <2>1. graph'.status = s.next /\ NextGraph(s.snap, s.next).status = s.next
    BY <1>3, <1>t, WrittenGraph DEF UpdateGraph
  <2>2. /\ t.pc = "mark" /\ t.todo = s.running /\ t.running = s.running /\ t.team = s.team
        /\ t.snap.status = s.next /\ t.chunk = {}
    BY <1>1, <1>3, <1>t, <2>1 DEF Call, InCycle
  <2>3. Offers(assignments, s.next) /\ \A a \in s.running : s.next[a[1]] \notin Free
    BY <1>1, <1>t DEF InCycle, Free
  <2>4. TeamIds' = TeamIds
    BY <1>1 DEF TeamIds
  <2>5. /\ s.team \in TeamIds
        /\ \A a \in Attempts : TeamOf(assignments, a, s.team) => Newest(assignments, a)
        /\ \A a \in s.running : TeamOf(assignments, a, s.team)
    BY <1>1, <1>t DEF InCycle
  <2> HIDE DEF s, t
  <2>6. InCycle(t, assignments, TeamIds, graph'.status)
    BY <2>1, <2>2, <2>3, <2>5 DEF InCycle
  <2>7. QED
    BY <1>1, <2>1, <2>3, <2>4, <2>6, GraphStep DEF t
<1>4. QED
  BY <1>2, <1>3 DEF StartWork

LEMMA MarkingRetries ==
  ASSUME Single, RetryInv, TruthInv', NEW p \in Supervisors, NEW a \in Attempts,
         MarkRunning(p, a)
  PROVE  RetryInv'
<1> DEFINE s == sup[p]
           t == sup'[p]
           f == assignments
           g == assignments'
<1>t. /\ sup \in [Supervisors -> Call] /\ s \in Call /\ s.team \in Nat
      /\ InCycle(s, f, TeamIds, graph.status) /\ LastRuns(f) /\ Offers(f, graph.status)
      /\ f \in [Attempts -> Assignment \cup {NoAssignment}]
  BY RetryTypes DEF RetryInv, Call, DocumentsTyped
<1>1. /\ s.pc = "mark" /\ recovery.pc = "idle" /\ a \in s.todo
      /\ UNCHANGED <<graph, teams, journal, canceller, recovery>>
  BY SupervisorsAlone DEF MarkRunning, Others
<1>2. CASE a \in behind.attempts /\ Leave(p, "rejected") /\ UNCHANGED assignments
  BY <1>1, <1>2, LeaveStep
<1>3. CASE /\ PutAssignment(a, "running", sup[p].team)
           /\ sup' = [sup EXCEPT
                ![p].todo = IF sup[p].todo = {a} THEN sup[p].running ELSE @ \ {a},
                ![p].pc = IF sup[p].todo = {a} THEN "work" ELSE "mark"]
  <2>1. /\ g[a].team = s.team /\ g[a] # NoAssignment
        /\ \A b \in Attempts \ {a} : g[b] = f[b]
    <3>1. "running" \in AssignmentStatus /\ PutAssignment(a, "running", sup[p].team)
      BY <1>3 DEF AssignmentStatus
    <3>2. /\ assignments'[a].team = sup[p].team
          /\ \A b \in Attempts \ {a} : assignments'[b] = assignments[b]
      BY <1>t, <3>1, WrittenAssignment
    <3>3. assignments'[a] # NoAssignment
      BY <1>t, <3>1, WrittenIsOne
    <3>4. QED
      BY <3>2, <3>3
  <2>2. /\ t.pc \in {"mark", "work"} /\ t.todo \subseteq s.todo \cup s.running
        /\ t.running = s.running /\ t.team = s.team /\ t.snap = s.snap /\ t.chunk = s.chunk
    BY <1>3, <1>t DEF Call
  <2>3. /\ s.todo \subseteq s.running /\ s.chunk = {} /\ s.team \in TeamIds
        /\ Offers(f, s.snap.status)
        /\ \A b \in Attempts : TeamOf(f, b, s.team) => Newest(f, b)
        /\ \A b \in s.running : TeamOf(f, b, s.team)
        /\ \A b \in s.running : s.snap.status[b[1]] \notin Free /\ graph.status[b[1]] \notin Free
    BY <1>1, <1>t DEF InCycle
  <2>4. s.running \subseteq Attempts
    BY <1>t DEF Call
  <2> HIDE DEF s, t, f, g
  <2>5. /\ TeamOf(f, a, s.team) /\ Newest(f, a) /\ s.snap.status[a[1]] \notin Free
        /\ graph.status[a[1]] \notin Free
    BY <1>1, <2>3
  <2>6. \A b \in Attempts :
          /\ g[b] # NoAssignment <=> f[b] # NoAssignment
          /\ f[b] # NoAssignment => g[b].team = f[b].team
          /\ TeamOf(g, b, s.team) <=> TeamOf(f, b, s.team)
          /\ Newest(f, b) => Newest(g, b)
          /\ Runs(g, b) => b = a \/ Runs(f, b)
    BY <2>1, <2>5 DEF TeamOf, Newest, Runs
  <2>7. LastRuns(g)
    BY <1>t, <2>5, <2>6 DEF LastRuns
  <2>8. Offers(g, graph.status) /\ Offers(g, s.snap.status)
    BY <1>t, <2>3, <2>5, <2>6 DEF Offers, NoneRuns
  <2>9. InCycle(t, g, TeamIds, graph.status)
    <3>1. t.todo \cup t.chunk \subseteq t.running
      BY <2>2, <2>3
    <3>2. /\ \A b \in Attempts : TeamOf(g, b, t.team) => Newest(g, b)
          /\ \A b \in t.running : TeamOf(g, b, t.team)
      BY <2>2, <2>3, <2>4, <2>6
    <3>3. QED
      BY <2>2, <2>3, <2>8, <3>1, <3>2 DEF InCycle
  <2>10. QED
    BY <1>1, <2>6, <2>7, <2>8, <2>9, AttemptStep DEF f, g, t
<1>4. QED
  BY <1>2, <1>3 DEF MarkRunning

-----------------------------------------------------------------------------
(* They are handed out, answered and recorded.                             *)
LEMMA ChunkRetries ==
  ASSUME Single, RetryInv, TruthInv', NEW p \in Supervisors, NextChunk(p)
  PROVE  RetryInv'
<1> DEFINE s == sup[p]
           t == sup'[p]
<1>t. /\ sup \in [Supervisors -> Call] /\ s \in Call
      /\ InCycle(s, assignments, TeamIds, graph.status)
      /\ \A a \in Attempts : journal[a] # "none" => assignments[a] # NoAssignment
  BY RetryTypes DEF RetryInv, Recorded
<1>1. /\ s.pc = "work" /\ recovery.pc = "idle"
      /\ UNCHANGED <<graph, assignments, teams, journal, canceller, recovery>>
  BY SupervisorsAlone DEF NextChunk, durable, Others
<1>2. /\ t.running = s.running /\ t.team = s.team /\ t.snap = s.snap
      /\ \/ t.pc = "work" /\ t.chunk \subseteq s.todo /\ t.todo \subseteq s.todo
         \/ t.pc = "record" /\ t.chunk = {} /\ t.todo = s.running
  <2>1. CASE \E chunk \in SUBSET sup[p].todo :
               sup' = [sup EXCEPT ![p].chunk = chunk, ![p].todo = @ \ chunk]
    BY <1>1, <1>t, <2>1 DEF Call
  <2>2. CASE sup' = [sup EXCEPT ![p].pc = "record", ![p].chunk = {}, ![p].todo = sup[p].running]
    BY <1>t, <2>2 DEF Call
  <2>3. QED
    BY <2>1, <2>2 DEF NextChunk
<1> HIDE DEF s, t
<1>3. InCycle(t, assignments, TeamIds, graph.status)
  BY <1>1, <1>2, <1>t DEF InCycle
<1>4. QED
  BY <1>1, <1>t, <1>3, ReadStep DEF t

LEMMA WorkingRetries ==
  ASSUME Single, RetryInv, TruthInv', NEW p \in Supervisors,
         \/ RejectChunk(p)
         \/ \E a \in Attempts : Dispatch(p, a) \/ FinishWork(p, a)
  PROVE  RetryInv'
<1> DEFINE s == sup[p]
           t == sup'[p]
<1>t. /\ sup \in [Supervisors -> Call] /\ s \in Call
      /\ InCycle(s, assignments, TeamIds, graph.status)
      /\ \A a \in Attempts : journal[a] # "none" => assignments[a] # NoAssignment
      /\ journal \in [Attempts -> {"none", "dispatched"} \cup Outcome]
  BY RetryTypes DEF RetryInv, Recorded, DocumentsTyped
<1>1. UNCHANGED <<graph, assignments, teams, canceller, recovery>>
  BY DEF RejectChunk, Dispatch, FinishWork, durable, Others
<1>2. CASE RejectChunk(p)
  BY <1>1, <1>2, LeaveStep DEF RejectChunk, durable
<1>3. ASSUME NEW a \in Attempts, Dispatch(p, a) PROVE RetryInv'
  <2>1. s.pc = "work" /\ a \in s.chunk /\ recovery.pc = "idle"
    BY <1>3, SupervisorsAlone DEF Dispatch
  <2>2. assignments[a] # NoAssignment
    BY <1>t, <2>1 DEF InCycle, TeamOf
  <2>3. \A b \in Attempts : journal'[b] # "none" => assignments[b] # NoAssignment
    <3>1. \A b \in Attempts \ {a} : journal'[b] = journal[b]
      BY <1>3, <1>t DEF Dispatch
    <3>2. QED
      BY <1>t, <2>2, <3>1
  <2>4. /\ t.pc = s.pc /\ t.snap = s.snap /\ t.next = s.next /\ t.team = s.team
        /\ t.members = s.members /\ t.running = s.running /\ t.todo = s.todo
        /\ t.chunk = s.chunk
    BY <1>3, <1>t DEF Dispatch, Call
  <2> HIDE DEF s, t
  <2>5. InCycle(t, assignments, TeamIds, graph.status)
    BY <1>t, <2>4, SameCycle
  <2>6. QED
    BY <1>1, <2>1, <2>3, <2>5, ReadStep DEF t
<1>4. ASSUME NEW a \in Attempts, FinishWork(p, a) PROVE RetryInv'
  <2>1. journal[a] = "dispatched"
    <3>1. worker[a] = p /\ p # NoSupervisor
      BY <1>4, SupervisionAssumption DEF FinishWork, SupervisionAssumption
    <3>2. QED
      BY <3>1 DEF RetryInv, TruthInv, InHandIsDispatched
  <2>2. \A b \in Attempts : journal'[b] # "none" => assignments[b] # NoAssignment
    <3>1. \A b \in Attempts \ {a} : journal'[b] = journal[b]
      BY <1>4, <1>t DEF FinishWork
    <3>2. QED
      BY <1>t, <2>1, <3>1
  <2>3. /\ t.pc = s.pc /\ t.snap = s.snap /\ t.next = s.next /\ t.team = s.team
        /\ t.members = s.members /\ t.running = s.running /\ t.todo = s.todo
        /\ t.chunk = s.chunk
    BY <1>4, <1>t DEF FinishWork, Call
  <2>4. recovery.pc = "idle" \/ t.pc = "idle"
    BY <2>3, SupervisorsAlone
  <2> HIDE DEF s, t
  <2>5. InCycle(t, assignments, TeamIds, graph.status)
    BY <1>t, <2>3, SameCycle
  <2>6. QED
    BY <1>1, <2>2, <2>4, <2>5, ReadStep DEF t
<1>5. QED
  BY <1>2, <1>3, <1>4

LEMMA RecordingRetries ==
  ASSUME Single, RetryInv, TruthInv', NEW p \in Supervisors, NEW a \in Attempts,
         RecordOutcome(p, a)
  PROVE  RetryInv'
<1> DEFINE s == sup[p]
           t == sup'[p]
           f == assignments
           g == assignments'
           settled(n) == {b \in sup[p].running : b[1] = n}
           first(n) == CHOOSE b \in settled(n) : \A c \in settled(n) : b[2] <= c[2]
<1>t. /\ sup \in [Supervisors -> Call] /\ s \in Call /\ s.team \in Nat
      /\ InCycle(s, f, TeamIds, graph.status) /\ LastRuns(f) /\ Offers(f, graph.status)
      /\ f \in [Attempts -> Assignment \cup {NoAssignment}]
      /\ s.running \subseteq Attempts
  BY RetryTypes DEF RetryInv, Call, DocumentsTyped
<1>1. /\ s.pc = "record" /\ recovery.pc = "idle" /\ a \in s.todo
      /\ UNCHANGED <<graph, teams, journal, canceller, recovery>>
  BY SupervisorsAlone DEF RecordOutcome, Others
<1>2. CASE a \in behind.attempts /\ Leave(p, "rejected") /\ UNCHANGED assignments
  BY <1>1, <1>2, LeaveStep
<1>3. CASE /\ PutAssignment(a, sup[p].outcome[a], sup[p].team)
           /\ sup' = [sup EXCEPT
                ![p].todo = @ \ {a},
                ![p].pc = IF sup[p].todo = {a} THEN "close" ELSE "record",
                ![p].next = [n \in Nodes |->
                   IF settled(n) = {} THEN sup[p].snap.status[n]
                   ELSE NodeOutcome(sup[p].outcome[first(n)])]]
  <2>1. \A b \in s.running : s.outcome[b] \in Outcome
    BY <1>1, RetryTypes DEF Accounted
  <2>2. /\ s.todo \subseteq s.running /\ TeamOf(f, a, s.team) /\ Offers(f, s.snap.status)
        /\ s.chunk = {}
    BY <1>1, <1>t DEF InCycle
  <2>3. s.outcome[a] \in Outcome /\ s.outcome[a] \in AssignmentStatus
    BY <1>1, <2>1, <2>2 DEF AssignmentStatus
  <2>4. /\ g[a].status = s.outcome[a] /\ g[a].team = s.team /\ g[a] # NoAssignment
        /\ \A b \in Attempts \ {a} : g[b] = f[b]
    <3>0. PutAssignment(a, sup[p].outcome[a], sup[p].team)
      BY <1>3
    <3>1. /\ assignments'[a].status = sup[p].outcome[a] /\ assignments'[a].team = sup[p].team
          /\ \A b \in Attempts \ {a} : assignments'[b] = assignments[b]
      BY <1>t, <2>3, <3>0, WrittenAssignment
    <3>2. assignments'[a] # NoAssignment
      BY <1>t, <2>3, <3>0, WrittenIsOne
    <3>3. QED
      BY <3>1, <3>2
  <2>5. /\ t.pc \in {"record", "close"} /\ t.todo = s.todo \ {a} /\ t.running = s.running
        /\ t.team = s.team /\ t.snap = s.snap /\ t.chunk = s.chunk
        /\ \A n \in Nodes : t.next[n] = IF settled(n) = {} THEN s.snap.status[n]
                                        ELSE NodeOutcome(s.outcome[first(n)])
    BY <1>3, <1>t DEF Call
  <2>6. \A n \in Nodes : t.next[n] = s.snap.status[n] \/ t.next[n] \notin Free
    <3> SUFFICES ASSUME NEW n \in Nodes, settled(n) # {} PROVE t.next[n] \notin Free
      BY <2>5
    <3>1. \E b \in settled(n) : \A c \in settled(n) : b[2] <= c[2]
      <4>1. settled(n) \in SUBSET Attempts
        BY <1>t
      <4> HIDE DEF settled
      <4>2. QED
        BY <4>1, FirstAttempt
    <3>2. first(n) \in s.running
      BY <3>1
    <3>3. t.next[n] = NodeOutcome(s.outcome[first(n)])
      BY <2>5
    <3> HIDE DEF first, t, s
    <3>4. QED
      BY <2>1, <3>2, <3>3 DEF NodeOutcome, Outcome, Free
  <2> HIDE DEF s, t, f, g, settled, first
  <2>7. Quieter(f, g)
    BY <2>2, <2>3, <2>4 DEF Quieter, TeamOf, Runs, Outcome
  <2>8. InCycle(s, g, TeamIds, graph.status)
    BY <1>t, <2>7, QuieterCycle
  <2>9. LastRuns(g) /\ Offers(g, graph.status) /\ Offers(g, s.snap.status)
    BY <1>t, <2>2, <2>7, QuieterKeeps
  <2>10. Offers(g, t.next)
    BY <2>6, <2>9 DEF Offers
  <2>11. InCycle(t, g, TeamIds, graph.status)
    BY <1>1, <2>2, <2>5, <2>8, <2>9, <2>10 DEF InCycle
  <2>12. QED
    BY <1>1, <2>7, <2>9, <2>11, AttemptStep DEF f, g, t, Quieter
<1>4. QED
  BY <1>2, <1>3 DEF RecordOutcome

LEMMA ClosingRetries ==
  ASSUME Single, RetryInv, TruthInv', NEW p \in Supervisors, CloseCycle(p)
  PROVE  RetryInv'
<1> DEFINE s == sup[p]
<1>t. /\ sup \in [Supervisors -> Call] /\ s \in Call /\ graph \in Graph
      /\ s.snap \in Graph /\ s.next \in [Nodes -> NodeStatus]
      /\ InCycle(s, assignments, TeamIds, graph.status)
      /\ teams = [heads |-> teams.heads, rows |-> teams.rows]
  BY RetryTypes DEF RetryInv, Call, DocumentsTyped
<1>1. /\ s.pc = "close" /\ recovery.pc = "idle"
      /\ UNCHANGED <<assignments, journal, canceller, recovery>>
  BY SupervisorsAlone DEF CloseCycle, Others
<1>2. CASE RejectUpdate(p) /\ UNCHANGED teams
  BY <1>1, <1>2, LeaveStep DEF RejectUpdate
<1>3. CASE UpdateGraph(p) /\ (PutTeam(s.team) \/ UNCHANGED teams)
  <2>1. Offers(assignments, s.next) /\ s.team \in TeamIds
    BY <1>1, <1>t DEF InCycle
  <2>2. graph'.status = s.next
    BY <1>3, <1>t, WrittenGraph DEF UpdateGraph
  <2>3. TeamIds' = TeamIds
    <3>1. CASE PutTeam(s.team)
      <4>1. TeamIds' = TeamIds \cup {s.team}
        BY <1>t, <3>1, IdsWritten
      <4>2. QED
        BY <2>1, <4>1
    <3>2. CASE UNCHANGED teams
      BY <3>2 DEF TeamIds
    <3>3. QED
      BY <1>3, <3>1, <3>2
  <2>4. sup'[p].pc \in {"idle", "cycle"} /\ sup'[p].chunk = {}
    <3>1. ASSUME NEW stop, Leave(p, stop) PROVE sup'[p].pc = "idle" /\ sup'[p].chunk = {}
      BY <3>1, <1>t DEF Leave, Blank
    <3>2. ASSUME NEW rounds, sup' = [sup EXCEPT ![p] = [Blank("none") EXCEPT !.pc = "cycle",
                                                          !.rounds = rounds]]
          PROVE  sup'[p].pc = "cycle" /\ sup'[p].chunk = {}
      BY <3>2, <1>t DEF Blank
    <3>3. QED
      BY <3>1, <3>2 DEF CloseCycle, RejectUpdate, Report
  <2>5. InCycle(sup'[p], assignments, TeamIds, graph'.status)
    BY <2>4, RestingCycle
  <2>6. QED
    BY <1>1, <2>1, <2>2, <2>3, <2>5, GraphStep
<1>4. QED
  BY <1>2, <1>3 DEF CloseCycle

-----------------------------------------------------------------------------
(* The others only ever record that less is running, and offer less.       *)
LEMMA OthersStep ==
  ASSUME RetryInv, TruthInv', UNCHANGED <<teams, journal, sup>>, Quiet',
         Quieter(assignments, assignments'), Closer(graph.status, graph'.status),
         canceller'.pc = "put" => TeamOf(assignments', canceller'.attempt, canceller'.team),
         recovery'.pc # "idle" => Restorable(recovery'.saved, teams'.heads, assignments')
  PROVE  RetryInv'
<1>t. \A p \in Supervisors : sup[p] \in Call
  BY RetryTypes
<1>1. TeamIds' = TeamIds
  BY DEF TeamIds
<1>2. Gapless(assignments') /\ LastRuns(assignments') /\ Offers(assignments', graph'.status)
  BY QuieterKeeps, CloserKeeps DEF RetryInv
<1>3. \A p \in Supervisors : InCycle(sup[p], assignments', TeamIds, graph'.status)
  BY <1>t, QuieterCycle, CloserKeeps DEF RetryInv
<1>4. \A a \in Attempts :
        /\ assignments'[a] # NoAssignment => assignments'[a].team \in TeamIds
        /\ journal[a] # "none" => assignments'[a] # NoAssignment
  BY DEF RetryInv, Recorded, Quieter
<1>5. QED
  BY <1>1, <1>2, <1>3, <1>4 DEF RetryInv, Recorded

LEMMA QuieterIsAnOrder ==
  /\ \A f : Quieter(f, f)
  /\ \A f, g, h : Quieter(f, g) /\ Quieter(g, h) => Quieter(f, h)
<1>1. \A f : Quieter(f, f)
  BY DEF Quieter
<1>2. ASSUME NEW f, NEW g, NEW h, Quieter(f, g), Quieter(g, h) PROVE Quieter(f, h)
  BY <1>2 DEF Quieter
<1>3. QED
  BY <1>1, <1>2

LEMMA CancelRetries ==
  ASSUME ~RecoverBesideLive, RetryInv, TruthInv',
         \/ \E a \in Attempts : CancelRead(a)
         \/ CancelPut \/ CancelGraph \/ CrashCancel
         \/ \E n \in Nodes : Edit(n)
  PROVE  RetryInv'
<1>t. /\ graph \in Graph /\ graph.status \in [Nodes -> NodeStatus]
      /\ canceller \in [pc : {"idle", "put", "graph"}, attempt : Attempts \cup {NoAssignment},
                        team : Nat]
      /\ canceller.pc # "idle" => canceller.attempt \in Attempts
      /\ assignments \in [Attempts -> Assignment \cup {NoAssignment}]
  BY RetryTypes DEF CancellerTyped, DocumentsTyped, Graph
<1>1. recovery.pc = "idle" /\ UNCHANGED <<teams, journal, sup, recovery>>
  BY DEF RetryInv, Quiet, CancelRead, CancelPut, CancelGraph, CrashCancel, Edit, durable
<1>2. Quiet' /\ (recovery'.pc # "idle" => Restorable(recovery'.saved, teams'.heads, assignments'))
  BY <1>1 DEF Quiet
<1>3. \A f : Quieter(f, f)
  BY QuieterIsAnOrder
<1>4. Closer(graph.status, graph.status)
  BY DEF Closer
<1>5. ASSUME NEW a \in Attempts, CancelRead(a) PROVE RetryInv'
  <2>1. TeamOf(assignments', canceller'.attempt, canceller'.team)
    BY <1>5 DEF CancelRead, durable, Recorded, TeamOf
  <2>2. UNCHANGED <<graph, assignments>>
    BY <1>5 DEF CancelRead, durable
  <2>3. QED
    BY <1>1, <1>2, <1>3, <1>4, <2>1, <2>2, OthersStep
<1>6. CASE CancelPut
  <2> DEFINE a == canceller.attempt
  <2>1. graph' = graph /\ canceller'.pc # "put"
    BY <1>6, <1>t DEF CancelPut, CancelIdle
  <2>2. Quieter(assignments, assignments')
    <3>1. CASE UNCHANGED assignments
      BY <1>3, <3>1
    <3>2. CASE PutAssignment(a, "cancelled", canceller.team)
      <4>1. /\ a \in Attempts /\ canceller.team \in Nat /\ TeamOf(assignments, a, canceller.team)
            /\ "cancelled" \in AssignmentStatus
        BY <1>6, <1>t DEF CancelPut, RetryInv, AssignmentStatus, Outcome
      <4>2. /\ assignments'[a].status = "cancelled" /\ assignments'[a].team = canceller.team
            /\ \A b \in Attempts \ {a} : assignments'[b] = assignments[b]
        BY <1>t, <3>2, <4>1, WrittenAssignment
      <4>3. assignments'[a] # NoAssignment
        BY <1>t, <3>2, <4>1, WrittenIsOne
      <4>4. QED
        BY <4>1, <4>2, <4>3 DEF Quieter, TeamOf, Runs
    <3>3. QED
      BY <1>6, <3>1, <3>2 DEF CancelPut
  <2>3. QED
    BY <1>1, <1>2, <1>4, <2>1, <2>2, OthersStep
<1>7. CASE CancelGraph
  <2>1. assignments' = assignments /\ canceller'.pc # "put" /\ canceller.attempt[1] \in Nodes
    BY <1>7, <1>t DEF CancelGraph, CancelIdle, Attempts
  <2>2. Closer(graph.status, graph'.status)
    BY <1>7, <1>t, <2>1 DEF CancelGraph, Closer, NextGraph, Free
  <2>3. QED
    BY <1>1, <1>2, <1>3, <2>1, <2>2, OthersStep
<1>8. CASE CrashCancel
  <2>1. UNCHANGED <<graph, assignments>> /\ canceller'.pc # "put"
    BY <1>8 DEF CrashCancel, CancelIdle, durable
  <2>2. QED
    BY <1>1, <1>2, <1>3, <1>4, <2>1, OthersStep
<1>9. ASSUME NEW n \in Nodes, Edit(n) PROVE RetryInv'
  <2>1. UNCHANGED <<assignments, canceller>>
    BY <1>9 DEF Edit
  <2>2. Closer(graph.status, graph'.status)
    <3>1. PICK status \in {graph.status[n], "cancelled"} :
            graph'.status = [graph.status EXCEPT ![n] = status]
      BY <1>9 DEF Edit, NextGraph
    <3>2. QED
      BY <1>t, <3>1 DEF Closer, Free
  <2>3. canceller'.pc = "put" => TeamOf(assignments', canceller'.attempt, canceller'.team)
    BY <2>1 DEF RetryInv
  <2>4. QED
    BY <1>1, <1>2, <1>3, <2>1, <2>2, <2>3, OthersStep
<1>10. QED
  BY <1>5, <1>6, <1>7, <1>8, <1>9

(* Beside the reconciliation no cycle is under way.                        *)
LEMMA AloneStep ==
  ASSUME RetryInv, TruthInv', recovery.pc # "idle", UNCHANGED <<journal, sup, canceller>>,
         Gapless(assignments'), LastRuns(assignments'), Offers(assignments', graph'.status),
         teams'.heads = teams.heads,
         \A a \in Attempts :
           /\ assignments'[a] # NoAssignment <=> assignments[a] # NoAssignment
           /\ assignments[a] # NoAssignment => assignments'[a].team = assignments[a].team,
         recovery'.pc # "idle" => Restorable(recovery'.saved, teams'.heads, assignments')
  PROVE  RetryInv'
<1>1. TeamIds' = TeamIds
  BY DEF TeamIds
<1>2. canceller.pc = "idle" /\ \A p \in Supervisors : sup[p].pc = "idle" /\ sup[p].chunk = {}
  BY DEF RetryInv, Quiet, InCycle
<1>3. \A p \in Supervisors : InCycle(sup[p], assignments', TeamIds, graph'.status)
  BY <1>2, RestingCycle
<1>4. Quiet'
  BY <1>2 DEF Quiet
<1>5. \A a \in Attempts :
        /\ assignments'[a] # NoAssignment => assignments'[a].team \in TeamIds
        /\ journal[a] # "none" => assignments'[a] # NoAssignment
  BY DEF RetryInv, Recorded
<1>6. QED
  BY <1>1, <1>2, <1>3, <1>4, <1>5 DEF RetryInv, Recorded

LEMMA RecoveryRetries ==
  ASSUME ~RecoverBesideLive, RetryInv, TruthInv', RecoverList \/ RecoveryStep \/ CrashRecovery
  PROVE  RetryInv'
<1> DEFINE saved == recovery.saved
<1>t. /\ graph \in Graph
      /\ recovery = [pc |-> recovery.pc, running |-> recovery.running, todo |-> recovery.todo,
                     saved |-> saved]
      /\ assignments \in [Attempts -> Assignment \cup {NoAssignment}]
      /\ teams = [heads |-> teams.heads, rows |-> teams.rows]
      /\ recovery.pc # "idle" =>
           /\ saved.assignments \in [Attempts -> Assignment \cup {NoAssignment}]
           /\ \A a \in recovery.running : saved.assignments[a] # NoAssignment
           /\ recovery.todo \subseteq recovery.running /\ recovery.running \subseteq Attempts
           /\ Restorable(saved, teams.heads, assignments)
  BY RetryTypes DEF RecoveryTyped, DocumentsTyped, RetryInv
<1>1. UNCHANGED <<journal, sup, canceller>>
  BY DEF RecoverList, RecoveryStep, CrashRecovery, RecoverGraph, RecoverReceipt, RecoverRestore,
         RecoverPut, durable
<1>2. Gapless(assignments) /\ LastRuns(assignments) /\ Offers(assignments, graph.status)
  BY DEF RetryInv
<1>3. \A f : Quieter(f, f)
  BY QuieterIsAnOrder
<1>4. CASE RecoverList
  <2>1. /\ UNCHANGED <<graph, assignments, teams>> /\ Alone
        /\ recovery'.saved = [graph |-> graph, assignments |-> assignments, heads |-> teams.heads]
    BY <1>4 DEF RecoverList, durable
  <2>2. Quiet' /\ canceller'.pc # "put"
    BY <1>1, <2>1 DEF Quiet, Alone
  <2>3. Restorable(recovery'.saved, teams'.heads, assignments')
    BY <1>2, <1>3, <2>1 DEF Restorable
  <2>4. Closer(graph.status, graph'.status)
    BY <2>1 DEF Closer
  <2>5. QED
    BY <1>1, <1>3, <2>1, <2>2, <2>3, <2>4, OthersStep
<1>5. CASE RecoverReceipt \/ CrashRecovery
  <2>1. UNCHANGED <<graph, assignments, teams>> /\ recovery.pc # "idle" /\ recovery'.pc = "idle"
    BY <1>5 DEF RecoverReceipt, CrashRecovery, RecoverIdle, durable
  <2>2. QED
    BY <1>1, <1>2, <2>1, AloneStep
<1>6. ASSUME NEW a \in Attempts, RecoverPut(a) PROVE RetryInv'
  <2>1. /\ recovery.pc # "idle" /\ a \in recovery.running /\ UNCHANGED <<graph, teams>>
        /\ recovery'.saved = saved
    BY <1>6, <1>t DEF RecoverPut
  <2>2. saved.assignments[a] # NoAssignment /\ saved.assignments[a].team \in Nat
    BY <1>t, <2>1 DEF Assignment
  <2>3. /\ assignments[a] # NoAssignment /\ assignments[a].team = saved.assignments[a].team
    BY <1>t, <2>1, <2>2 DEF Restorable, Quieter
  <2>4. "interrupted" \in AssignmentStatus /\ PutAssignment(a, "interrupted", saved.assignments[a].team)
    BY <1>6 DEF RecoverPut, AssignmentStatus
  <2>5. /\ assignments'[a].status = "interrupted"
        /\ assignments'[a].team = saved.assignments[a].team
        /\ \A b \in Attempts \ {a} : assignments'[b] = assignments[b]
    BY <1>t, <2>2, <2>4, WrittenAssignment
  <2>6. assignments'[a] # NoAssignment
    BY <1>t, <2>2, <2>4, WrittenIsOne
  <2>7. Quieter(assignments, assignments')
    BY <2>3, <2>5, <2>6 DEF Quieter, Runs
  <2>8. Quieter(saved.assignments, assignments')
    BY <1>t, <2>1, <2>7, QuieterIsAnOrder DEF Restorable
  <2>9. Restorable(recovery'.saved, teams'.heads, assignments')
    BY <1>t, <2>1, <2>8 DEF Restorable
  <2>10. Quiet' /\ canceller'.pc # "put"
    BY <1>1, <2>1 DEF RetryInv, Quiet
  <2>11. Closer(graph.status, graph'.status)
    BY <2>1 DEF Closer
  <2>12. QED
    BY <1>1, <2>1, <2>7, <2>9, <2>10, <2>11, OthersStep
<1>7. CASE RecoverGraph
  <2>1. /\ recovery.pc # "idle" /\ UNCHANGED <<assignments, teams>> /\ recovery'.saved = saved
        /\ graph'.status = Unblocked(saved.graph)
    BY <1>7, <1>t DEF RecoverGraph, NextGraph
  <2>2. Closer(saved.graph.status, graph'.status)
    BY <2>1 DEF Closer, Unblocked, Free
  <2>3. Offers(assignments', graph'.status)
    BY <1>t, <2>1, <2>2, QuieterKeeps, CloserKeeps DEF Restorable
  <2>4. QED
    BY <1>1, <1>2, <1>t, <2>1, <2>3, AloneStep
<1>8. CASE RecoverRestore
  <2>1. /\ recovery.pc # "idle" /\ recovery'.pc = "idle" /\ graph' = saved.graph
        /\ assignments' = saved.assignments /\ teams'.heads = saved.heads
    BY <1>8, <1>t DEF RecoverRestore, RecoverIdle
  <2>2. /\ LastRuns(assignments') /\ Offers(assignments', graph'.status)
        /\ Quieter(assignments', assignments) /\ teams'.heads = teams.heads
    BY <1>t, <2>1 DEF Restorable
  <2>3. Gapless(assignments')
    BY <1>2, <2>2, QuieterKeeps
  <2>4. QED
    BY <1>1, <2>1, <2>2, <2>3, AloneStep DEF Quieter
<1>9. QED
  BY <1>4, <1>5, <1>6, <1>7, <1>8 DEF RecoveryStep

-----------------------------------------------------------------------------
LEMMA RetryInit == Init => RetryInv
<1> SUFFICES ASSUME Init PROVE RetryInv
  OBVIOUS
<1>1. TruthInv
  BY TruthInit
<1>2. \A p \in Supervisors : sup[p].pc = "idle" /\ sup[p].chunk = {}
  BY DEF Init, Blank
<1>3. \A p \in Supervisors : InCycle(sup[p], assignments, TeamIds, graph.status)
  BY <1>2, RestingCycle
<1>4. \A a \in Attempts : assignments[a] = NoAssignment /\ journal[a] = "none"
  BY DEF Init
<1>5. TeamIds = {}
  BY DEF Init, TeamIds
<1>6. TeamIds = 1 .. Cardinality(TeamIds)
  BY <1>5, FS_EmptySet
<1>7. canceller.pc = "idle" /\ recovery.pc = "idle"
  BY DEF Init
<1>8. QED
  BY <1>1, <1>3, <1>4, <1>6, <1>7
     DEF RetryInv, Quiet, Gapless, LastRuns, Offers, NoneRuns, Runs, Recorded

LEMMA RetryStep ==
  ASSUME Single, ~RecoverBesideLive
  PROVE  RetryInv /\ [Next]_vars => RetryInv'
<1> SUFFICES ASSUME RetryInv, [Next]_vars PROVE RetryInv'
  OBVIOUS
<1>t. TruthInv'
  BY TruthStep DEF RetryInv
<1>1. CASE UNCHANGED vars
  BY <1>1, <1>t DEF vars, RetryInv, Quiet, TeamIds, Recorded
<1>2. ASSUME NEW p \in Supervisors, Supervise(p) \/ SupervisorStep(p) \/ Abort(p) \/ Crash(p)
      PROVE  RetryInv'
  BY <1>2, <1>t, OpeningRetries, PromotionRetries, StaffingRetries, PlanningRetries,
     ListingRetries, StartingRetries, MarkingRetries, ChunkRetries, WorkingRetries,
     RecordingRetries, ClosingRetries DEF SupervisorStep
<1>3. CASE \/ \E a \in Attempts : CancelRead(a)
           \/ CancelPut \/ CancelGraph \/ CrashCancel
           \/ \E n \in Nodes : Edit(n)
  BY <1>3, <1>t, CancelRetries
<1>4. CASE RecoverList \/ RecoveryStep \/ CrashRecovery
  BY <1>4, <1>t, RecoveryRetries
<1>5. QED
  BY <1>1, <1>2, <1>3, <1>4 DEF Next

(* With one supervisor, and reconciliation left to the time when nothing   *)
(* else runs, no attempt is dispatched while an earlier one at the same    *)
(* item is recorded as running, whatever crashes, restores, cancellations  *)
(* and overtaken writes of the graph come before it.                       *)
THEOREM RetriesWait ==
  ASSUME Single, ~RecoverBesideLive
  PROVE  Spec => []RunningBlocksRetry
<1>1. RetryInv => RunningBlocksRetry
  <2> SUFFICES ASSUME RetryInv, NEW a \in Attempts, NEW b \in Attempts, a[1] = b[1], a[2] < b[2],
                      journal[b] # "none", a \in Recorded, assignments[a].status = "running"
               PROVE  FALSE
    BY DEF RunningBlocksRetry
  <2>1. assignments[b] # NoAssignment
    BY DEF RetryInv, Recorded
  <2>2. b[2] <= a[2]
    BY <2>1 DEF RetryInv, LastRuns, Runs, Newest, Recorded
  <2>3. a[2] \in Nat /\ b[2] \in Nat
    BY DEF Attempts
  <2>4. QED
    BY <2>2, <2>3
<1>2. QED
  BY <1>1, RetryInit, RetryStep, PTL DEF Spec

-----------------------------------------------------------------------------
(* Retries beside other supervisors.                                       *)

Dispatched(a) == journal[a] # "none"

(* What a cycle is about to write is there, or everything before it is.    *)
Counted(s, f) ==
  /\ s.pc = "plan" => \A a \in s.todo : \A k \in 1 .. MaxAttempts :
       k < a[2] => f[<<a[1], k>>] # NoAssignment
  /\ s.pc \in {"start", "mark", "work", "record", "close"} =>
       \A a \in s.running : f[a] # NoAssignment
  /\ s.pc = "mark" => s.todo \subseteq s.running

(* The attempts at an item stay numbered without a gap, however many       *)
(* supervisors plan them.                                                  *)
NumberInv ==
  /\ Gapless(assignments)
  /\ \A a \in Attempts : Dispatched(a) => assignments[a] # NoAssignment
  /\ \A p \in Supervisors : Counted(sup[p], assignments)
  /\ canceller.pc = "put" => assignments[canceller.attempt] # NoAssignment
  /\ recovery.pc # "idle" => \A a \in Attempts :
       recovery.saved.assignments[a] # NoAssignment <=> assignments[a] # NoAssignment

(* No later attempt at the item was dispatched.                            *)
Latest(a) == \A b \in Attempts : b[1] = a[1] /\ Dispatched(b) => b[2] <= a[2]

(* The attempts of a cycle whose outcome is not written yet.               *)
MayRun(s) == IF s.pc = "record" THEN s.todo ELSE IF s.pc = "close" THEN {} ELSE s.running

(* What is recorded as running at a calm item is the latest attempt, and   *)
(* the graph offers the item to nobody; ...                                *)
RunsLast(f, status) ==
  \A a \in Attempts : Runs(f, a) /\ Calm(a[1]) =>
    Latest(a) /\ status[a[1]] \in {"running", "cancelled"}

(* ... it is the attempt of the cycle that holds the item, ...             *)
HeldLast(s) ==
  \A a \in Held(s) : Calm(a[1]) =>
    /\ Latest(a)
    /\ \A b \in Attempts : b[1] = a[1] /\ Runs(assignments, b) => b = a /\ a \in MayRun(s)

(* ... and what a cycle is going to start is later than all that was       *)
(* dispatched before.                                                      *)
StartsLast(s) ==
  Current(s) =>
    /\ Planning(s) /\ ~SharedTeam(s.team) => \A a \in Planned(s) : Calm(a[1]) => Latest(a)
    /\ s.pc = "start" => \A a \in s.running : Calm(a[1]) => Latest(a)

PlaceInv ==
  /\ TurnInv /\ NumberInv
  /\ RunsLast(assignments, graph.status)
  /\ \A p \in Supervisors : HeldLast(sup[p]) /\ StartsLast(sup[p])
  /\ recovery.pc # "idle" =>
       /\ RunsLast(recovery.saved.assignments, recovery.saved.graph.status)
       /\ \A a \in Attempts : Runs(assignments, a) => recovery.pc = "put" /\ a \in recovery.todo

-----------------------------------------------------------------------------
(* No assignment goes, and one that comes is the next at its item.         *)
LEMMA NumbersKept ==
  ASSUME NumberInv, sup' \in [Supervisors -> Call],
         \A a \in Attempts : assignments[a] # NoAssignment => assignments'[a] # NoAssignment,
         \A a \in Attempts : assignments'[a] # NoAssignment =>
           \/ assignments[a] # NoAssignment
           \/ \A k \in 1 .. MaxAttempts : k < a[2] => assignments[<<a[1], k>>] # NoAssignment,
         \A a \in Attempts : Dispatched(a)' => Dispatched(a) \/ assignments[a] # NoAssignment,
         \A p \in Supervisors : Counted(sup'[p], assignments),
         canceller'.pc = "put" =>
           canceller'.attempt \in Attempts /\ assignments[canceller'.attempt] # NoAssignment,
         recovery'.pc # "idle" => \A a \in Attempts :
           recovery'.saved.assignments[a] # NoAssignment <=> assignments'[a] # NoAssignment
  PROVE  NumberInv'
<1>t. /\ \A a \in Attempts : a = <<a[1], a[2]>> /\ a[2] \in 1 .. MaxAttempts /\ a[1] \in Nodes
      /\ \A n \in Nodes, k \in 1 .. MaxAttempts : <<n, k>> \in Attempts
  BY DEF Attempts
<1>1. Gapless(assignments')
  <2> SUFFICES ASSUME NEW a \in Attempts, assignments'[a] # NoAssignment, NEW k \in 1 .. a[2]
               PROVE  assignments'[<<a[1], k>>] # NoAssignment
    BY DEF Gapless
  <2>0. k \in 1 .. MaxAttempts /\ <<a[1], k>> \in Attempts
    BY <1>t
  <2>1. CASE assignments[a] # NoAssignment
    <3>1. assignments[<<a[1], k>>] # NoAssignment
      BY <2>1 DEF NumberInv, Gapless
    <3>2. QED
      BY <2>0, <3>1
  <2>2. CASE \A j \in 1 .. MaxAttempts : j < a[2] => assignments[<<a[1], j>>] # NoAssignment
    <3>1. CASE k = a[2]
      BY <1>t, <3>1
    <3>2. CASE k # a[2]
      <4>1. k < a[2]
        BY <1>t, <3>2
      <4>2. assignments[<<a[1], k>>] # NoAssignment
        BY <2>0, <2>2, <4>1
      <4>3. QED
        BY <2>0, <4>2
    <3>3. QED
      BY <3>1, <3>2
  <2>3. QED
    BY <2>1, <2>2
<1>2. \A a \in Attempts : Dispatched(a)' => assignments'[a] # NoAssignment
  BY DEF NumberInv
<1>3. ASSUME NEW p \in Supervisors PROVE Counted(sup'[p], assignments')
  <2>0. sup'[p].todo \subseteq Attempts /\ sup'[p].running \subseteq Attempts
    BY DEF Call
  <2>1. ASSUME sup'[p].pc = "plan", NEW a \in sup'[p].todo, NEW k \in 1 .. MaxAttempts, k < a[2]
        PROVE  assignments'[<<a[1], k>>] # NoAssignment
    <3>1. <<a[1], k>> \in Attempts
      BY <1>t, <2>0
    <3>2. assignments[<<a[1], k>>] # NoAssignment
      BY <2>1 DEF Counted
    <3>3. QED
      BY <3>1, <3>2
  <2>2. sup'[p].pc \in {"start", "mark", "work", "record", "close"} =>
          \A a \in sup'[p].running : assignments'[a] # NoAssignment
    BY <2>0 DEF Counted
  <2>3. sup'[p].pc = "mark" => sup'[p].todo \subseteq sup'[p].running
    BY DEF Counted
  <2>4. QED
    BY <2>1, <2>2, <2>3 DEF Counted
<1>4. QED
  BY <1>1, <1>2, <1>3 DEF NumberInv

-----------------------------------------------------------------------------
(* A step keeps the places: an attempt is recorded as running, or handed   *)
(* out, only by the cycle that holds it, and a cycle gets hold of none but *)
(* the latest, at an item nobody works on.                                 *)
LEMMA PlaceKept ==
  ASSUME PlaceInv, TurnInv', NumberInv', disturbed \subseteq disturbed',
         \A a \in Attempts : Runs(assignments', a) =>
           \/ Runs(assignments, a)
           \/ \E p \in Supervisors :
                a \in Held(sup[p]) /\ a \in Held(sup'[p]) /\ a \in MayRun(sup'[p]),
         \A a \in Attempts : Dispatched(a)' =>
           Dispatched(a) \/ \E p \in Supervisors : a \in Held(sup[p]),
         \A p \in Supervisors : \A a \in Held(sup'[p]) : Calm(a[1]) =>
           \/ /\ a \in Held(sup[p])
              /\ Runs(assignments', a) /\ a \in MayRun(sup[p]) => a \in MayRun(sup'[p])
           \/ graph.status[a[1]] = "ready" /\ Latest(a),
         \A n \in Nodes : Calm(n) /\ Busy(n) => Busy(n)' \/ NoneRuns(assignments', n),
         \A p \in Supervisors : StartsLast(sup[p])',
         recovery'.pc # "idle" =>
           /\ RunsLast(recovery.saved.assignments, recovery.saved.graph.status)'
           /\ \A a \in Attempts : Runs(assignments', a) => recovery'.pc = "put" /\ a \in recovery'.todo
  PROVE  PlaceInv'
<1>t. /\ \A p \in Supervisors : Held(sup[p]) \subseteq Attempts /\ Held(sup'[p]) \subseteq Attempts
      /\ \A a \in Attempts : a[1] \in Nodes /\ a[2] \in Nat
  <2>1. sup \in [Supervisors -> Call] /\ sup' \in [Supervisors -> Call]
    BY TurnTypes DEF PlaceInv, TurnInv, TruthInv, TypeInv
  <2>2. QED
    BY <2>1 DEF Held, Call, Attempts
<1>c. \A n : Calm(n)' => Calm(n)
  BY DEF Calm
<1>w. /\ \A p \in Supervisors : \A a \in Held(sup[p]) : Calm(a[1]) => OnlyWork(p, a)
      /\ \A a \in Attempts : Runs(assignments, a) /\ Calm(a[1]) => Latest(a) /\ Busy(a[1])
      /\ \A p \in Supervisors : HeldLast(sup[p])
  BY DEF PlaceInv, TurnInv, WorkInTurn, RunsLast, Busy
<1>1. ASSUME NEW p \in Supervisors, NEW a \in Held(sup[p]), Calm(a[1])
      PROVE  /\ Latest(a)' /\ Busy(a[1])
             /\ \A b \in Attempts : b[1] = a[1] /\ Runs(assignments', b) => b = a
  <2>1. OnlyWork(p, a) /\ Latest(a) /\ a \in Attempts
    BY <1>1, <1>t, <1>w DEF HeldLast
  <2>2. ASSUME NEW b \in Attempts, b[1] = a[1], Dispatched(b)' PROVE b[2] <= a[2]
    <3>1. CASE Dispatched(b)
      BY <2>1, <2>2, <3>1 DEF Latest
    <3>2. CASE \E q \in Supervisors : b \in Held(sup[q])
      <4>1. b = a
        BY <2>1, <2>2, <3>2 DEF OnlyWork
      <4>2. QED
        BY <1>t, <2>1, <4>1
    <3>3. QED
      BY <2>2, <3>1, <3>2
  <2>3. ASSUME NEW b \in Attempts, b[1] = a[1], Runs(assignments', b) PROVE b = a
    <3>1. CASE Runs(assignments, b)
      BY <1>1, <1>w, <2>3, <3>1 DEF HeldLast
    <3>2. CASE \E q \in Supervisors : b \in Held(sup[q])
      BY <2>1, <2>3, <3>2 DEF OnlyWork
    <3>3. QED
      BY <2>3, <3>1, <3>2
  <2>4. Latest(a)'
    BY <2>2 DEF Latest
  <2>5. QED
    BY <2>1, <2>3, <2>4 DEF OnlyWork
<1>2. RunsLast(assignments, graph.status)'
  <2> SUFFICES ASSUME NEW a \in Attempts, Runs(assignments', a), Calm(a[1])'
               PROVE  Latest(a)' /\ graph'.status[a[1]] \in {"running", "cancelled"}
    BY DEF RunsLast
  <2>1. Latest(a)' /\ Busy(a[1])
    <3>1. CASE \E p \in Supervisors : a \in Held(sup[p])
      BY <1>1, <1>c, <3>1
    <3>2. CASE Runs(assignments, a) /\ ~\E p \in Supervisors : a \in Held(sup[p])
      <4>1. Latest(a) /\ Busy(a[1])
        BY <1>c, <1>w, <3>2
      <4>2. ASSUME NEW b \in Attempts, b[1] = a[1], Dispatched(b)' PROVE b[2] <= a[2]
        <5>1. CASE Dispatched(b)
          BY <4>1, <4>2, <5>1 DEF Latest
        <5>2. ASSUME NEW q \in Supervisors, b \in Held(sup[q]) PROVE FALSE
          <6>1. Calm(b[1])
            BY <1>c, <4>2
          <6>2. a = b
            BY <1>w, <3>2, <4>2, <5>2, <6>1 DEF HeldLast
          <6>3. QED
            BY <3>2, <5>2, <6>2
        <5>3. QED
          BY <4>2, <5>1, <5>2
      <4>3. QED
        BY <4>1, <4>2 DEF Latest
    <3>3. QED
      BY <3>1, <3>2
  <2>2. Busy(a[1])'
    BY <1>c, <1>t, <2>1 DEF NoneRuns
  <2>3. QED
    BY <2>1, <2>2 DEF Busy
<1>3. ASSUME NEW p \in Supervisors PROVE HeldLast(sup[p])'
  <2> SUFFICES ASSUME NEW a \in Held(sup'[p]), Calm(a[1])'
               PROVE  /\ Latest(a)'
                      /\ \A b \in Attempts : b[1] = a[1] /\ Runs(assignments', b) =>
                           b = a /\ a \in MayRun(sup'[p])
    BY DEF HeldLast
  <2>c. Calm(a[1]) /\ a \in Attempts
    BY <1>c, <1>t
  <2>1. CASE /\ a \in Held(sup[p])
             /\ Runs(assignments', a) /\ a \in MayRun(sup[p]) => a \in MayRun(sup'[p])
    <3>1. Latest(a)' /\ \A b \in Attempts : b[1] = a[1] /\ Runs(assignments', b) => b = a
      BY <1>1, <2>1, <2>c
    <3>2. ASSUME Runs(assignments', a) PROVE a \in MayRun(sup'[p])
      <4>1. CASE Runs(assignments, a)
        BY <1>w, <2>1, <2>c, <3>2, <4>1 DEF HeldLast
      <4>2. ASSUME NEW q \in Supervisors, a \in Held(sup[q]), a \in MayRun(sup'[q])
            PROVE  a \in MayRun(sup'[p])
        BY <1>w, <2>1, <2>c, <4>2 DEF OnlyWork
      <4>3. QED
        BY <2>c, <3>2, <4>1, <4>2
    <3>3. QED
      BY <3>1, <3>2
  <2>2. CASE graph.status[a[1]] = "ready" /\ Latest(a)
    <3>1. ~Busy(a[1])
      BY <2>2 DEF Busy
    <3>2. \A b \in Attempts : b[1] = a[1] => \A q \in Supervisors : b \notin Held(sup[q])
      BY <1>w, <2>c, <3>1 DEF OnlyWork
    <3>3. \A b \in Attempts : b[1] = a[1] => ~Runs(assignments', b)
      BY <1>w, <2>c, <3>1, <3>2
    <3>4. Latest(a)'
      BY <2>2, <3>2 DEF Latest
    <3>5. QED
      BY <3>3, <3>4
  <2>3. QED
    BY <2>1, <2>2, <2>c
<1>4. (\A p \in Supervisors : HeldLast(sup[p]) /\ StartsLast(sup[p]))'
  BY <1>3
<1>5. (recovery.pc # "idle" =>
        /\ RunsLast(recovery.saved.assignments, recovery.saved.graph.status)
        /\ \A a \in Attempts : Runs(assignments, a) => recovery.pc = "put" /\ a \in recovery.todo)'
  OBVIOUS
<1>6. QED
  BY <1>2, <1>4, <1>5 DEF PlaceInv

(* A cycle that does nothing meanwhile still plans the latest.             *)
LEMMA StartsLastKept ==
  ASSUME PlaceInv, NEW q \in Supervisors, sup'[q] = sup[q], GraphMoves, TeamsGrow,
         disturbed \subseteq disturbed',
         Planning(sup[q]) /\ NewlyPlanned(sup[q].team) => SharedTeam(sup[q].team)',
         \A a \in Attempts : Dispatched(a)' =>
           Dispatched(a) \/ \E p \in Supervisors : a \in Held(sup[p])
  PROVE  StartsLast(sup[q])'
<1>t. /\ sup[q] \in Call /\ graph \in Graph /\ StartsInTurn(sup[q]) /\ sup[q].team \in Nat
      /\ StartsLast(sup[q]) /\ sup[q].running \subseteq Attempts
      /\ \A p \in Supervisors : \A a \in Held(sup[p]) : Calm(a[1]) => OnlyWork(p, a)
  BY TurnTypes DEF PlaceInv, TurnInv, WorkInTurn, Call
<1>1. ASSUME sup[q].pc \notin {"idle", "cycle"}, Current(sup[q])' PROVE Current(sup[q]) /\ UNCHANGED graph
  <2>1. sup[q].snap.revision <= graph.revision
    BY <1>1 DEF PlaceInv, TurnInv, GateInv, CopiesAreNumbered, Numbered
  <2>2. sup[q].snap.revision \in Nat /\ graph.revision \in Nat
    BY <1>t DEF Call, Graph
  <2>3. sup[q].snap.revision = graph'.revision
    BY <1>1 DEF Current
  <2>4. UNCHANGED graph
    BY <2>1, <2>2, <2>3 DEF GraphMoves
  <2>5. QED
    BY <2>3, <2>4 DEF Current
<1>c. \A n : Calm(n)' => Calm(n)
  BY DEF Calm
<1>2. ASSUME NEW a \in Attempts, Calm(a[1])', graph.status[a[1]] = "ready", Latest(a) PROVE Latest(a)'
  <2>1. \A p \in Supervisors : \A b \in Held(sup[p]) : b[1] # a[1]
    BY <1>2, <1>c, <1>t DEF OnlyWork, Busy
  <2>2. QED
    BY <1>2, <2>1 DEF Latest
<1>3. ASSUME Current(sup[q])', Planning(sup[q]), ~SharedTeam(sup[q].team)',
             NEW a \in Planned(sup[q])', Calm(a[1])'
      PROVE  Latest(a)'
  <2>1. ~SharedTeam(sup[q].team) /\ ~NewlyPlanned(sup[q].team)
    BY <1>3, <1>t DEF TeamsGrow
  <2>2. Planned(sup[q])' \subseteq Planned(sup[q]) /\ Planned(sup[q]) \subseteq Attempts
    BY <2>1, <1>t DEF NewlyPlanned, Planned, InStatus, Recorded, Call
  <2>3. Current(sup[q])
    BY <1>1, <1>3 DEF Planning
  <2>4. graph.status[a[1]] = "ready"
    BY <1>3, <1>t, <2>1, <2>2, <2>3 DEF StartsInTurn, Planning
  <2>5. Latest(a)
    BY <1>3, <1>c, <1>t, <2>1, <2>2, <2>3 DEF StartsLast
  <2>6. QED
    BY <1>2, <1>3, <2>2, <2>4, <2>5
<1>4. ASSUME Current(sup[q])', sup[q].pc = "start", NEW a \in sup[q].running, Calm(a[1])'
      PROVE  Latest(a)'
  <2>1. Current(sup[q]) /\ Calm(a[1])
    BY <1>1, <1>4, <1>c
  <2>2. graph.status[a[1]] = "ready" /\ Latest(a)
    BY <1>4, <1>t, <2>1 DEF StartsInTurn, StartsLast
  <2>3. QED
    BY <1>2, <1>4, <1>t, <2>2
<1>5. QED
  BY <1>3, <1>4 DEF StartsLast, Planning
-----------------------------------------------------------------------------
(* A step of one supervisor: the numbers, ...                              *)
LEMMA StepInPlace ==
  ASSUME PlaceInv, TurnInv', NEW p \in Supervisors, sup' = [sup EXCEPT ![p] = sup'[p]],
         UNCHANGED <<canceller, recovery>>, recovery.pc = "idle",
         disturbed \subseteq disturbed', GraphMoves, TeamsGrow,
         \A u : NewlyPlanned(u) => u = sup[p].team /\ Planning(sup[p]),
         \A a \in Attempts : assignments[a] # NoAssignment => assignments'[a] # NoAssignment,
         \A a \in Attempts : assignments'[a] # NoAssignment =>
           \/ assignments[a] # NoAssignment
           \/ \A k \in 1 .. MaxAttempts : k < a[2] => assignments[<<a[1], k>>] # NoAssignment,
         Counted(sup'[p], assignments),
         \A a \in Attempts : Dispatched(a)' => Dispatched(a) \/ a \in Held(sup[p]),
         \A a \in Attempts : Runs(assignments', a) =>
           \/ Runs(assignments, a)
           \/ a \in Held(sup[p]) /\ a \in Held(sup'[p]) /\ a \in MayRun(sup'[p]),
         \A a \in Held(sup'[p]) : Calm(a[1]) =>
           \/ /\ a \in Held(sup[p])
              /\ Runs(assignments', a) /\ a \in MayRun(sup[p]) => a \in MayRun(sup'[p])
           \/ graph.status[a[1]] = "ready" /\ Latest(a),
         \A n \in Nodes : Calm(n) /\ Busy(n) => Busy(n)' \/ NoneRuns(assignments', n),
         StartsLast(sup[p])'
  PROVE  PlaceInv'
<1>t. /\ sup \in [Supervisors -> Call] /\ CancellerTyped /\ NumberInv /\ SharingIsKnown
      /\ \A q \in Supervisors : sup[q].team \in Nat
  BY TurnTypes DEF PlaceInv, TurnInv, Call
<1>1. \A q \in Supervisors \ {p} : sup'[q] = sup[q]
  BY <1>t
<1>2. NumberInv'
  <2>0. sup' \in [Supervisors -> Call]
    BY DEF TurnInv, TruthInv, TypeInv
  <2>1. \A q \in Supervisors : Counted(sup'[q], assignments)
    BY <1>1, <1>t DEF NumberInv
  <2>2. \A a \in Attempts : Dispatched(a)' => Dispatched(a) \/ assignments[a] # NoAssignment
    BY <1>t DEF NumberInv, Counted, Held
  <2>3. canceller'.pc = "put" =>
          canceller'.attempt \in Attempts /\ assignments[canceller'.attempt] # NoAssignment
    BY <1>t DEF NumberInv, CancellerTyped
  <2>4. recovery'.pc = "idle"
    OBVIOUS
  <2>5. QED
    BY <1>t, <2>0, <2>1, <2>2, <2>3, <2>4, NumbersKept
<1>3. ASSUME NEW q \in Supervisors \ {p} PROVE StartsLast(sup[q])'
  <2>1. Planning(sup[q]) /\ NewlyPlanned(sup[q].team) => SharedTeam(sup[q].team)'
    <3> SUFFICES ASSUME Planning(sup[q]), NewlyPlanned(sup[q].team) PROVE SharedTeam(sup[q].team)'
      OBVIOUS
    <3>1. SharedTeam(sup[q].team)
      BY <1>t DEF SharingIsKnown
    <3>2. QED
      BY <1>1, <1>t, <3>1 DEF TeamsGrow
  <2>2. QED
    BY <1>1, <2>1, StartsLastKept
<1>4. \A q \in Supervisors : StartsLast(sup[q])'
  BY <1>3
<1>5. ASSUME NEW q \in Supervisors, NEW a \in Held(sup'[q]), Calm(a[1])
      PROVE  \/ /\ a \in Held(sup[q])
                /\ Runs(assignments', a) /\ a \in MayRun(sup[q]) => a \in MayRun(sup'[q])
             \/ graph.status[a[1]] = "ready" /\ Latest(a)
  BY <1>1, <1>5
<1>6. QED
  BY <1>2, <1>4, <1>5, PlaceKept

(* ... when it writes no assignment and dispatches none, ...               *)
LEMMA StillInPlace ==
  ASSUME PlaceInv, TurnInv', NEW p \in Supervisors, sup' = [sup EXCEPT ![p] = sup'[p]],
         UNCHANGED <<assignments, canceller, recovery>>, recovery.pc = "idle",
         disturbed \subseteq disturbed', GraphMoves, TeamsGrow,
         Counted(sup'[p], assignments),
         \A a \in Attempts : Dispatched(a)' => Dispatched(a) \/ a \in Held(sup[p]),
         Held(sup'[p]) \subseteq Held(sup[p]),
         \A a \in Held(sup'[p]) : a \in MayRun(sup[p]) => a \in MayRun(sup'[p]),
         \A n \in Nodes : Calm(n) /\ Busy(n) => Busy(n)' \/ NoneRuns(assignments, n),
         StartsLast(sup[p])'
  PROVE  PlaceInv'
<1>1. \A u : ~NewlyPlanned(u)
  BY DEF NewlyPlanned
<1>2. QED
  BY <1>1, StepInPlace

(* ... and when it returns.                                                *)
LEMMA LeaveInPlace ==
  ASSUME PlaceInv, TurnInv', NEW p \in Supervisors, NEW stop, Leave(p, stop),
         UNCHANGED <<assignments, journal, disturbed, canceller, recovery>>, recovery.pc = "idle",
         GraphMoves, TeamsGrow,
         \A n \in Nodes : Calm(n) /\ Busy(n) => Busy(n)' \/ NoneRuns(assignments, n)
  PROVE  PlaceInv'
<1>1. sup'[p] = Blank(stop) /\ sup' = [sup EXCEPT ![p] = sup'[p]]
  BY TurnTypes DEF PlaceInv, Leave
<1>2. sup'[p].pc = "idle"
  BY <1>1 DEF Blank
<1>3. Held(sup'[p]) = {} /\ Counted(sup'[p], assignments) /\ StartsLast(sup[p])'
  BY <1>2 DEF Held, Counted, StartsLast, Planning
<1>4. \A a \in Attempts : Dispatched(a)' => Dispatched(a)
  BY DEF Dispatched
<1>5. QED
  BY <1>1, <1>3, <1>4, StillInPlace

LEMMA RejectInPlace ==
  ASSUME PlaceInv, TurnInv', NEW p \in Supervisors, NEW stop, Leave(p, stop),
         UNCHANGED <<graph, assignments, teams, journal, disturbed, canceller, recovery>>,
         recovery.pc = "idle"
  PROVE  PlaceInv'
<1>1. GraphMoves /\ TeamsGrow /\ \A n \in Nodes : Busy(n) => Busy(n)'
  BY TeamsStay DEF PlaceInv, GraphMoves, Busy
<1>2. QED
  BY <1>1, LeaveInPlace

(* Up to the team.                                                         *)
LEMMA CycleOpensInPlace ==
  ASSUME Orderly, PlaceInv, TurnInv', NEW p \in Supervisors,
         Supervise(p) \/ CycleRead(p) \/ Promote(p) \/ FormTeam(p)
  PROVE  PlaceInv'
<1>t. /\ sup \in [Supervisors -> Call] /\ sup[p] \in Call /\ TurnInv /\ GateInv
      /\ WritesItsOwn(sup[p]) /\ recovery.pc = "idle"
  BY TurnTypes, OnlyWithoutRecovery DEF PlaceInv, TurnInv, SupervisorStep
<1>d. UNCHANGED journal => \A a \in Attempts : Dispatched(a)' => Dispatched(a)
  BY DEF Dispatched
<1>q. ASSUME sup'[p].pc \in {"cycle", "promote", "form", "staff"}
      PROVE  Held(sup'[p]) = {} /\ Counted(sup'[p], assignments) /\ StartsLast(sup[p])'
  BY <1>q DEF Held, Counted, StartsLast, Planning
<1>1. CASE Supervise(p) \/ CycleRead(p) \/ FormTeam(p)
  <2>1. /\ UNCHANGED <<graph, assignments, teams, journal, canceller, recovery, disturbed>>
    BY <1>1 DEF Supervise, CycleRead, FormTeam, durable, Others
  <2>2. CASE \E stop : Leave(p, stop)
    BY <2>1, <2>2, <1>t, RejectInPlace
  <2>3. CASE ~\E stop : Leave(p, stop)
    <3>1. sup' = [sup EXCEPT ![p] = sup'[p]] /\ sup'[p].pc \in {"cycle", "promote", "staff"}
      <4>1. CASE Supervise(p)
        <5>1. /\ sup'[p] = [sup[p] EXCEPT !.pc = "cycle", !.stop = "none"]
              /\ sup' = [sup EXCEPT ![p] = sup'[p]]
          BY <4>1, <1>t DEF Supervise
        <5>2. QED
          BY <5>1, <1>t DEF Call
      <4>2. CASE CycleRead(p)
        <5>1. /\ sup'[p] = [sup[p] EXCEPT !.pc = "promote", !.snap = graph, !.next = Promoted(graph)]
              /\ sup' = [sup EXCEPT ![p] = sup'[p]]
          BY <2>3, <4>2, <1>t DEF CycleRead
        <5>2. QED
          BY <5>1, <1>t DEF Call
      <4>3. CASE FormTeam(p)
        <5>1. PICK ready, team : sup' = [sup EXCEPT ![p].pc = "staff", ![p].members = ready,
                                                    ![p].team = team]
          BY <4>3 DEF FormTeam
        <5>2. QED
          BY <5>1, <1>t DEF Call
      <4>4. QED
        BY <1>1, <4>1, <4>2, <4>3
    <3>2. GraphMoves /\ TeamsGrow /\ \A n \in Nodes : Busy(n) => Busy(n)'
      BY <2>1, <1>t, TeamsStay DEF GraphMoves, Busy
    <3>3. QED
      BY <2>1, <3>1, <3>2, <1>d, <1>q, <1>t, StillInPlace
  <2>4. QED
    BY <2>2, <2>3
<1>2. CASE Promote(p)
  <2>1. /\ UNCHANGED <<assignments, teams, journal, canceller, recovery, disturbed>>
        /\ sup[p].pc = "promote" /\ TeamsGrow
    BY <1>2, <1>t, TeamsStay DEF Promote, Others
  <2>2. /\ GraphMoves /\ \A n \in Nodes : Busy(n) => Busy(n)'
    <3>1. CASE UNCHANGED graph
      BY <3>1 DEF GraphMoves, Busy
    <3>2. CASE UpdateGraph(p)
      <4>1. /\ sup[p].snap = graph /\ graph'.status = sup[p].next
            /\ graph'.revision = graph.revision + 1
        BY <2>1, <3>2, <1>t, UpdateFacts
      <4>2. QED
        BY <2>1, <4>1, <1>t DEF WritesItsOwn, GraphMoves, Busy
    <3>3. QED
      BY <1>2, <3>1, <3>2 DEF Promote, RejectUpdate
  <2>3. CASE \E stop : Leave(p, stop)
    BY <2>1, <2>2, <2>3, <1>t, LeaveInPlace
  <2>4. ASSUME NEW g, sup' = [sup EXCEPT ![p].pc = "form", ![p].snap = g, ![p].checked = FALSE]
        PROVE  PlaceInv'
    <3>1. /\ sup'[p] = [sup[p] EXCEPT !.pc = "form", !.snap = g, !.checked = FALSE]
          /\ sup' = [sup EXCEPT ![p] = sup'[p]]
      BY <2>4, <1>t
    <3>2. sup'[p].pc = "form"
      BY <3>1, <1>t DEF Call
    <3>3. QED
      BY <2>1, <2>2, <3>1, <3>2, <1>d, <1>q, <1>t, StillInPlace
  <2>5. QED
    BY <1>2, <2>3, <2>4, DecideEnds DEF Promote, RejectUpdate
<1>3. QED
  BY <1>1, <1>2

(* The team: an attempt planned under a new id is the next at its item.    *)
LEMMA TeamIsPlannedInPlace ==
  ASSUME Orderly, PlaceInv, TurnInv', NEW p \in Supervisors,
         StaffTeam(p) \/ ListPlanned(p) \/ \E a \in Attempts : PlanAssignment(p, a)
  PROVE  PlaceInv'
<1>t. /\ sup \in [Supervisors -> Call] /\ sup[p] \in Call /\ graph \in Graph
      /\ assignments \in [Attempts -> Assignment \cup {NoAssignment}]
      /\ sup[p].team \in Nat /\ TurnInv /\ NumberInv /\ StartsLast(sup[p]) /\ recovery.pc = "idle"
      /\ PlannedHaveTeams(assignments, teams.rows) /\ Counted(sup[p], assignments)
      /\ sup' \in [Supervisors -> Call]
      /\ \A a \in Attempts : a = <<a[1], a[2]>> /\ a[1] \in Nodes /\ a[2] \in 1 .. MaxAttempts
  <2>1. sup' \in [Supervisors -> Call]
    BY DEF TurnInv, TruthInv, TypeInv
  <2>2. \A a \in Attempts : a = <<a[1], a[2]>> /\ a[1] \in Nodes /\ a[2] \in 1 .. MaxAttempts
    BY DEF Attempts
  <2>3. recovery.pc = "idle"
    BY OnlyWithoutRecovery DEF PlaceInv, SupervisorStep
  <2>4. QED
    BY <2>1, <2>2, <2>3, TurnTypes DEF PlaceInv, NumberInv, TurnInv, Call, DocumentsTyped
<1>d. UNCHANGED journal => /\ \A a \in Attempts : Dispatched(a)' => Dispatched(a)
                           /\ \A a \in Attempts : Latest(a) => Latest(a)'
  BY DEF Dispatched, Latest
<1>b. UNCHANGED graph => GraphMoves /\ \A n \in Nodes : Busy(n) => Busy(n)'
  BY DEF GraphMoves, Busy
<1>1. CASE StaffTeam(p)
  <2>t. PICK team \in Nat : team = sup[p].team
    BY <1>t
  <2>1. /\ UNCHANGED <<graph, assignments, journal, canceller, recovery, disturbed>>
        /\ sup[p].pc = "staff"
    BY <1>1 DEF StaffTeam, Others
  <2>2. CASE Leave(p, "rejected") /\ UNCHANGED teams
    BY <2>1, <2>2, <1>t, RejectInPlace
  <2>3. ASSUME PutTeam(team), NEW staffed \in SUBSET {n \in sup[p].members : ~Spent(n)},
               sup' = [sup EXCEPT
                 ![p].pc = IF staffed = {} THEN "list" ELSE "plan", ![p].members = {},
                 ![p].todo = {<<n, Cardinality(previousAttempts(n)) + 1>> : n \in staffed}]
        PROVE  PlaceInv'
    <3> DEFINE todo == {<<n, Cardinality(previousAttempts(n)) + 1>> : n \in staffed}
    <3>1. /\ teams.heads \subseteq teams'.heads /\ teams.rows \subseteq teams'.rows
          /\ \A u \in Nat : SharedTeam(u) => SharedTeam(u)'
          /\ (\E t \in teams.heads : t[1] = team) => SharedTeam(team)'
          /\ (~\E t \in teams.heads : t[1] = team) => <<team, 1>> \notin teams.rows
          /\ TeamsBegin(teams'.rows)
      BY <2>3, <1>t, TeamWritten
    <3>2. /\ sup'[p].pc = (IF staffed = {} THEN "list" ELSE "plan") /\ sup'[p].team = team
          /\ sup'[p].todo = todo
          /\ sup' = [sup EXCEPT ![p] = sup'[p]]
      BY <2>t, <2>3, <1>t DEF Call
    <3>3. todo \subseteq Attempts
      BY <3>2, <1>t DEF Call
    <3>4. ASSUME NEW a \in todo
          PROVE  /\ \A k \in 1 .. MaxAttempts : k < a[2] => assignments[<<a[1], k>>] # NoAssignment
                 /\ Latest(a)
      <4>1. PICK n \in staffed : a = <<n, Cardinality(previousAttempts(n)) + 1>>
        OBVIOUS
      <4>2. n \in Nodes
        BY <2>3, <1>t DEF Call
      <4>3. /\ Cardinality(previousAttempts(n)) \in Nat
            /\ \A k \in 1 .. MaxAttempts : assignments[<<n, k>>] # NoAssignment
                                             <=> k <= Cardinality(previousAttempts(n))
        BY <4>2, <1>t, AttemptsAreCounted DEF NumberInv
      <4>4. ASSUME NEW b \in Attempts, b[1] = a[1], Dispatched(b) PROVE b[2] <= a[2]
        <5>1. assignments[<<n, b[2]>>] # NoAssignment /\ b[2] \in 1 .. MaxAttempts
          BY <4>1, <4>4, <1>t DEF NumberInv
        <5>2. b[2] <= Cardinality(previousAttempts(n))
          BY <4>3, <5>1
        <5>3. QED
          BY <4>1, <4>3, <5>1, <5>2
      <4>5. ASSUME NEW k \in 1 .. MaxAttempts, k < a[2] PROVE assignments[<<a[1], k>>] # NoAssignment
        BY <4>1, <4>3, <4>5
      <4>6. QED
        BY <4>4, <4>5 DEF Latest
    <3> HIDE DEF todo
    <3>5. Held(sup'[p]) = {} /\ Counted(sup'[p], assignments)
      BY <3>2, <3>4 DEF Held, Counted
    <3>6. TeamsGrow
      BY <3>1 DEF TeamsGrow
    <3>7. StartsLast(sup[p])'
      <4>1. CASE \E t \in teams.heads : t[1] = team
        <5>1. SharedTeam(sup[p].team)'
          BY <3>1, <3>2, <4>1 DEF SharedTeam
        <5>2. QED
          BY <3>2, <5>1 DEF StartsLast
      <4>2. CASE ~\E t \in teams.heads : t[1] = team
        <5>1. \A a \in InStatus("planned") : assignments[a].team # team
          BY <3>1, <4>2, <1>t DEF InStatus, Recorded, PlannedHaveTeams
        <5>2. \A a \in InStatus("planned")' : assignments'[a].team # team
          BY <2>1, <5>1 DEF InStatus, Recorded
        <5>3. Planned(sup[p])' \subseteq todo
          BY <3>2, <5>2 DEF Planned
        <5>4. \A a \in Planned(sup[p])' : Latest(a)'
          BY <2>1, <3>3, <3>4, <5>3, <1>d
        <5>5. QED
          BY <3>2, <5>4 DEF StartsLast
      <4>3. QED
        BY <4>1, <4>2
    <3>8. QED
      BY <2>1, <3>2, <3>5, <3>6, <3>7, <1>b, <1>d, <1>t, StillInPlace
  <2>4. QED
    BY <1>1, <2>t, <2>2, <2>3 DEF StaffTeam
<1>2. ASSUME NEW a \in Attempts, PlanAssignment(p, a) PROVE PlaceInv'
  <2>1. /\ UNCHANGED <<graph, teams, journal, canceller, recovery, disturbed>>
        /\ sup[p].pc = "plan" /\ a \in sup[p].todo
    BY <1>2 DEF PlanAssignment, Others
  <2>2. CASE Leave(p, "rejected") /\ UNCHANGED assignments
    BY <2>1, <2>2, <1>t, RejectInPlace
  <2>3. CASE /\ PutAssignment(a, "planned", sup[p].team)
             /\ sup' = [sup EXCEPT ![p].todo = @ \ {a},
                              ![p].pc = IF sup[p].todo = {a} THEN "list" ELSE "plan"]
    <3>0. PutAssignment(a, "planned", sup[p].team)
      BY <2>3
    <3>1. /\ assignments'[a].team = sup[p].team /\ assignments'[a].status = "planned"
          /\ assignments'[a] # NoAssignment
          /\ \A b \in Attempts \ {a} : assignments'[b] = assignments[b]
      <4>0. /\ assignments \in [Attempts -> Assignment \cup {NoAssignment}]
            /\ "planned" \in AssignmentStatus /\ sup[p].team \in Nat
        BY <1>t DEF AssignmentStatus
      <4>1. /\ assignments'[a].team = sup[p].team /\ assignments'[a].status = "planned"
            /\ \A b \in Attempts \ {a} : assignments'[b] = assignments[b]
        BY <3>0, <4>0, WrittenAssignment
      <4>2. assignments'[a] # NoAssignment
        BY <3>0, <4>0, WrittenIsOne
      <4>3. QED
        BY <4>1, <4>2
    <3>2. /\ sup'[p].pc \in {"list", "plan"} /\ sup'[p].snap = sup[p].snap
          /\ sup'[p].todo = sup[p].todo \ {a} /\ sup'[p].team = sup[p].team
          /\ sup' = [sup EXCEPT ![p] = sup'[p]]
      BY <2>3, <1>t DEF Call
    <3>3. Held(sup'[p]) = {} /\ Counted(sup'[p], assignments) /\ Planning(sup[p])
      BY <2>1, <3>2, <1>t DEF Held, Counted, Planning
    <3>4. \A u : NewlyPlanned(u) => u = sup[p].team
      BY <3>1 DEF NewlyPlanned
    <3>5. Planned(sup[p])' \subseteq Planned(sup[p]) /\ Planned(sup[p]) \subseteq Attempts
      BY <2>1, <3>1, <3>2, <1>t DEF Planned, InStatus, Recorded, Call
    <3>6. StartsLast(sup[p])'
      <4>1. ASSUME Current(sup[p])', ~SharedTeam(sup[p].team)', NEW b \in Planned(sup[p])', Calm(b[1])'
            PROVE  Latest(b)'
        <5>1. Current(sup[p]) /\ ~SharedTeam(sup[p].team) /\ Calm(b[1])
          BY <2>1, <3>2, <4>1 DEF Current, SharedTeam, Calm
        <5>2. Latest(b)
          BY <3>3, <3>5, <4>1, <5>1, <1>t DEF StartsLast
        <5>3. QED
          BY <2>1, <3>5, <4>1, <5>2, <1>d
      <4>2. QED
        BY <3>2, <4>1 DEF StartsLast
    <3>7. ASSUME NEW b \in Attempts, assignments'[b] # NoAssignment
          PROVE  \/ assignments[b] # NoAssignment
                 \/ \A k \in 1 .. MaxAttempts : k < b[2] => assignments[<<b[1], k>>] # NoAssignment
      BY <2>1, <3>1, <3>7, <1>t DEF Counted
    <3>8. \A b \in Attempts : Runs(assignments', b) => Runs(assignments, b)
      BY <3>1 DEF Runs
    <3>9. TeamsGrow
      BY <2>1, <1>t, TeamsStay
    <3>10. \A b \in Attempts : assignments[b] # NoAssignment => assignments'[b] # NoAssignment
      BY <3>1
    <3>11. QED
      BY <2>1, <3>2, <3>3, <3>4, <3>6, <3>7, <3>8, <3>9, <3>10, <1>b, <1>d, <1>t, StepInPlace
  <2>4. QED
    BY <1>2, <2>2, <2>3 DEF PlanAssignment
<1>3. CASE ListPlanned(p)
  <2> DEFINE planned == {a \in InStatus("planned") : assignments[a].team = sup[p].team}
  <2>1. /\ UNCHANGED <<graph, assignments, teams, journal, canceller, recovery>>
        /\ sup[p].pc = "list"
    BY <1>3 DEF ListPlanned, durable, Others
  <2>2. CASE UNCHANGED disturbed /\ \E stop : Leave(p, stop)
    BY <2>1, <2>2, <1>t, RejectInPlace
  <2>3. CASE /\ sup' = [sup EXCEPT ![p].pc = "start", ![p].running = planned,
                  ![p].next = [n \in Nodes |-> IF \E a \in planned : a[1] = n THEN "running"
                                               ELSE sup[p].snap.status[n]]]
             /\ disturbed' = IF SharedTeam(sup[p].team) THEN disturbed \cup planned ELSE disturbed
    <3>1. /\ sup'[p].pc = "start" /\ sup'[p].snap = sup[p].snap /\ sup'[p].running = planned
          /\ sup' = [sup EXCEPT ![p] = sup'[p]]
      BY <2>3, <1>t DEF Call
    <3>2. planned \subseteq Attempts /\ planned \subseteq Planned(sup[p])
          /\ \A a \in planned : assignments[a] # NoAssignment
      BY <2>1 DEF InStatus, Recorded, Planned
    <3> HIDE DEF planned
    <3>3. Held(sup'[p]) = {} /\ Counted(sup'[p], assignments)
      BY <3>1, <3>2 DEF Held, Counted
    <3>4. StartsLast(sup[p])'
      <4>1. ASSUME Current(sup[p])', NEW a \in planned, Calm(a[1])' PROVE Latest(a)'
        <5>1. ~SharedTeam(sup[p].team)
          BY <2>3, <4>1 DEF Calm
        <5>2. Current(sup[p]) /\ Calm(a[1])
          BY <2>1, <2>3, <3>1, <4>1 DEF Current, Calm
        <5>3. Latest(a)
          BY <2>1, <3>2, <5>1, <5>2, <1>t DEF StartsLast, Planning
        <5>4. QED
          BY <2>1, <3>2, <5>3, <1>d
      <4>2. QED
        BY <3>1, <4>1 DEF StartsLast, Planning
    <3>5. disturbed \subseteq disturbed' /\ TeamsGrow
      BY <2>1, <2>3, <1>t, TeamsStay
    <3>6. QED
      BY <2>1, <3>1, <3>3, <3>4, <3>5, <1>b, <1>d, <1>t, StillInPlace
  <2>4. QED
    BY <1>3, <2>2, <2>3 DEF ListPlanned, Report
<1>4. QED
  BY <1>1, <1>2, <1>3

(* The start: the cycle gets hold of what it listed.                       *)
LEMMA WorkStartsInPlace ==
  ASSUME Orderly, PlaceInv, TurnInv', NEW p \in Supervisors, StartWork(p)
  PROVE  PlaceInv'
<1>t. /\ sup \in [Supervisors -> Call] /\ sup[p] \in Call /\ graph \in Graph /\ GateInv /\ TurnInv
      /\ WritesItsOwn(sup[p]) /\ StartsInTurn(sup[p]) /\ recovery.pc = "idle"
      /\ sup[p].running \subseteq Attempts /\ Counted(sup[p], assignments) /\ StartsLast(sup[p])
  BY TurnTypes, OnlyWithoutRecovery DEF PlaceInv, NumberInv, TurnInv, SupervisorStep, Call
<1>1. /\ UNCHANGED <<assignments, teams, journal, canceller, recovery, disturbed>>
      /\ sup[p].pc = "start"
  BY DEF StartWork, Others
<1>2. CASE RejectUpdate(p)
  BY <1>1, <1>2, <1>t, RejectInPlace DEF RejectUpdate
<1>3. ASSUME UpdateGraph(p),
             sup' = [sup EXCEPT ![p].pc = "mark", ![p].todo = sup[p].running,
               ![p].snap = NextGraph(sup[p].snap, sup[p].next), ![p].checked = FALSE]
      PROVE  PlaceInv'
  <2>1. /\ sup[p].snap = graph /\ graph'.status = sup[p].next
        /\ graph'.revision = graph.revision + 1
    BY <1>1, <1>3, <1>t, UpdateFacts
  <2>2. /\ sup'[p].pc = "mark" /\ sup'[p].running = sup[p].running
        /\ sup'[p].todo = sup[p].running
        /\ sup' = [sup EXCEPT ![p] = sup'[p]]
    BY <1>3, <1>t DEF Call
  <2>3. /\ Counted(sup'[p], assignments) /\ StartsLast(sup[p])' /\ Held(sup'[p]) = sup[p].running
    BY <1>1, <2>2, <1>t DEF Counted, StartsLast, Planning, Held
  <2>4. ASSUME NEW a \in sup[p].running, Calm(a[1])
        PROVE  graph.status[a[1]] = "ready" /\ Latest(a)
    BY <1>1, <2>1, <2>4, <1>t DEF StartsInTurn, StartsLast, Current
  <2>5. ASSUME NEW n \in Nodes, Busy(n) PROVE Busy(n)'
    <3>1. CASE graph'.status[n] = graph.status[n]
      BY <2>5, <3>1 DEF Busy
    <3>2. CASE graph'.status[n] # graph.status[n]
      <4>1. PICK a \in sup[p].running : a[1] = n
        BY <1>1, <2>1, <3>2, <1>t DEF WritesItsOwn
      <4>2. QED
        BY <1>1, <2>1, <4>1, <1>t DEF WritesItsOwn, Busy
    <3>3. QED
      BY <3>1, <3>2
  <2>6. GraphMoves /\ TeamsGrow /\ \A u : ~NewlyPlanned(u)
    BY <1>1, <2>1, <1>t, TeamsStay DEF GraphMoves, NewlyPlanned
  <2>7. \A a \in Attempts : Dispatched(a)' => Dispatched(a)
    BY <1>1 DEF Dispatched
  <2>8. QED
    BY <1>1, <2>2, <2>3, <2>4, <2>5, <2>6, <2>7, <1>t, StepInPlace
<1>4. QED
  BY <1>2, <1>3 DEF StartWork

(* The work: what is recorded as running is the cycle's own, until its     *)
(* outcome is.                                                             *)
LEMMA WorkGoesOnInPlace ==
  ASSUME Orderly, PlaceInv, TurnInv', NEW p \in Supervisors,
         \/ NextChunk(p) \/ RejectChunk(p) \/ CloseCycle(p)
         \/ \E a \in Attempts :
              MarkRunning(p, a) \/ Dispatch(p, a) \/ FinishWork(p, a) \/ RecordOutcome(p, a)
  PROVE  PlaceInv'
<1>t. /\ sup \in [Supervisors -> Call] /\ sup[p] \in Call /\ TurnInv /\ GateInv
      /\ assignments \in [Attempts -> Assignment \cup {NoAssignment}]
      /\ WritesItsOwn(sup[p]) /\ Accounted(sup[p]) /\ HeldLast(sup[p]) /\ StartsLast(sup[p])
      /\ Counted(sup[p], assignments)
      /\ journal \in [Attempts -> {"none", "dispatched"} \cup Outcome]
      /\ sup[p].team \in Nat /\ sup[p].running \subseteq Attempts
  BY TurnTypes DEF PlaceInv, NumberInv, TurnInv, Call, DocumentsTyped
<1>r. recovery.pc = "idle"
  BY OnlyWithoutRecovery DEF PlaceInv, SupervisorStep
<1>d. UNCHANGED journal => \A a \in Attempts : Dispatched(a)' => Dispatched(a)
  BY DEF Dispatched
<1>b. UNCHANGED graph => GraphMoves /\ \A n \in Nodes : Busy(n) => Busy(n)'
  BY DEF GraphMoves, Busy
<1>g. UNCHANGED teams => TeamsGrow
  BY <1>t, TeamsStay
<1>1. ASSUME NEW a \in Attempts, MarkRunning(p, a) PROVE PlaceInv'
  <2>1. /\ UNCHANGED <<graph, teams, journal, canceller, recovery, disturbed>>
        /\ sup[p].pc = "mark" /\ a \in sup[p].running
    BY <1>1, <1>t DEF MarkRunning, Others, Counted
  <2>2. CASE Leave(p, "rejected") /\ UNCHANGED assignments
    BY <2>1, <2>2, <1>r, RejectInPlace
  <2>3. CASE /\ PutAssignment(a, "running", sup[p].team)
             /\ sup' = [sup EXCEPT
                  ![p].todo = IF sup[p].todo = {a} THEN sup[p].running ELSE @ \ {a},
                  ![p].pc = IF sup[p].todo = {a} THEN "work" ELSE "mark"]
    <3>0. PutAssignment(a, "running", sup[p].team)
      BY <2>3
    <3>1. /\ sup'[p].pc = (IF sup[p].todo = {a} THEN "work" ELSE "mark")
          /\ sup'[p].todo = (IF sup[p].todo = {a} THEN sup[p].running ELSE sup[p].todo \ {a})
          /\ sup'[p].running = sup[p].running
          /\ sup' = [sup EXCEPT ![p] = sup'[p]]
      BY <2>3, <1>t DEF Call
    <3>2. /\ assignments[a] # NoAssignment /\ assignments'[a] # NoAssignment
          /\ \A b \in Attempts \ {a} : assignments'[b] = assignments[b]
      BY <2>1, <3>0, <1>t, WrittenAssignment, WrittenIsOne DEF AssignmentStatus, Counted
    <3>3. \A u : ~NewlyPlanned(u)
      BY <2>1, <3>0, <1>t, NothingPlanned DEF AssignmentStatus
    <3>4. /\ Held(sup[p]) = sup[p].running /\ Held(sup'[p]) = sup[p].running
          /\ MayRun(sup[p]) = sup[p].running /\ MayRun(sup'[p]) = sup[p].running
      BY <2>1, <3>1 DEF Held, MayRun
    <3>5. Counted(sup'[p], assignments) /\ StartsLast(sup[p])'
      BY <2>1, <3>1, <1>t DEF Counted, StartsLast, Planning
    <3>6. \A b \in Attempts : Runs(assignments', b) => Runs(assignments, b) \/ b = a
      BY <3>2 DEF Runs
    <3>7. \A b \in Attempts : assignments'[b] # NoAssignment <=> assignments[b] # NoAssignment
      BY <3>2
    <3>8. QED
      BY <2>1, <3>1, <3>3, <3>4, <3>5, <3>6, <3>7, <1>b, <1>d, <1>g, <1>r, StepInPlace
  <2>4. QED
    BY <1>1, <2>2, <2>3 DEF MarkRunning
<1>2. CASE NextChunk(p)
  <2>1. /\ UNCHANGED <<graph, assignments, teams, journal, canceller, recovery, disturbed>>
        /\ sup[p].pc = "work"
    BY <1>2 DEF NextChunk, durable, Others
  <2>2. /\ sup'[p].pc \in {"work", "record"} /\ sup'[p].running = sup[p].running
        /\ sup'[p].pc = "record" => sup'[p].todo = sup[p].running
        /\ sup' = [sup EXCEPT ![p] = sup'[p]]
    <3>1. CASE \E chunk \in SUBSET sup[p].todo :
                 sup' = [sup EXCEPT ![p].chunk = chunk, ![p].todo = @ \ chunk]
      <4>1. PICK chunk \in SUBSET sup[p].todo :
              sup' = [sup EXCEPT ![p].chunk = chunk, ![p].todo = @ \ chunk]
        BY <3>1
      <4>2. /\ sup'[p].pc = sup[p].pc /\ sup'[p].running = sup[p].running
            /\ sup' = [sup EXCEPT ![p] = sup'[p]]
        BY <4>1, <1>t DEF Call
      <4>3. QED
        BY <2>1, <4>2
    <3>2. CASE sup' = [sup EXCEPT ![p].pc = "record", ![p].chunk = {}, ![p].todo = sup[p].running]
      BY <3>2, <1>t DEF Call
    <3>3. QED
      BY <1>2, <3>1, <3>2 DEF NextChunk
  <2>3. /\ Held(sup[p]) = sup[p].running /\ Held(sup'[p]) = sup[p].running
        /\ MayRun(sup[p]) = sup[p].running /\ MayRun(sup'[p]) = sup[p].running
    BY <2>1, <2>2 DEF Held, MayRun
  <2>4. Counted(sup'[p], assignments) /\ StartsLast(sup[p])'
    BY <2>1, <2>2, <1>t DEF Counted, StartsLast, Planning
  <2>5. QED
    BY <2>1, <2>2, <2>3, <2>4, <1>b, <1>d, <1>g, <1>r, StillInPlace
<1>3. CASE RejectChunk(p)
  BY <1>3, <1>r, RejectInPlace DEF RejectChunk, durable, Others
<1>4. ASSUME NEW a \in Attempts, Dispatch(p, a) \/ FinishWork(p, a) PROVE PlaceInv'
  <2>1. UNCHANGED <<graph, assignments, teams, canceller, recovery, disturbed>>
    BY <1>4 DEF Dispatch, FinishWork, Others
  <2>2. \A b \in Attempts : Dispatched(b)' => Dispatched(b) \/ b \in Held(sup[p])
    <3>1. CASE Dispatch(p, a)
      <4>1. a \in Held(sup[p])
        BY <3>1, <1>t DEF Dispatch, WritesItsOwn, Held
      <4>2. \A b \in Attempts \ {a} : journal'[b] = journal[b]
        BY <3>1, <1>t DEF Dispatch
      <4>3. QED
        BY <4>1, <4>2 DEF Dispatched
    <3>2. CASE FinishWork(p, a)
      <4>1. journal[a] = "dispatched"
        BY <3>2, <1>t DEF FinishWork, TurnInv, TruthInv, InHandIsDispatched
      <4>2. QED
        BY <3>2, <4>1 DEF FinishWork, Dispatched
    <3>3. QED
      BY <1>4, <3>1, <3>2
  <2>3. /\ sup'[p].pc = sup[p].pc /\ sup'[p].running = sup[p].running
        /\ sup'[p].todo = sup[p].todo /\ sup'[p].snap = sup[p].snap /\ sup'[p].team = sup[p].team
        /\ sup' = [sup EXCEPT ![p] = sup'[p]]
    <3>1. CASE sup' = sup
      BY <3>1, <1>t
    <3>2. CASE \E answer : sup' = [sup EXCEPT ![p].outcome[a] = answer]
      BY <3>2, <1>t DEF Call
    <3>3. QED
      BY <1>4, <3>1, <3>2 DEF Dispatch, FinishWork
  <2>4. Held(sup'[p]) = Held(sup[p]) /\ MayRun(sup'[p]) = MayRun(sup[p]) /\ Counted(sup'[p], assignments)
    BY <2>3, <1>t DEF Held, MayRun, Counted
  <2>5. StartsLast(sup[p])'
    <3>1. CASE Dispatch(p, a)
      BY <2>3, <3>1 DEF Dispatch, StartsLast, Planning
    <3>2. CASE FinishWork(p, a)
      <4>1. journal[a] = "dispatched"
        BY <3>2, <1>t DEF FinishWork, TurnInv, TruthInv, InHandIsDispatched
      <4>2. \A b \in Attempts : Dispatched(b)' => Dispatched(b)
        BY <3>2, <4>1 DEF FinishWork, Dispatched
      <4>3. /\ Planned(sup[p])' = Planned(sup[p]) /\ (Current(sup[p])' <=> Current(sup[p]))
            /\ (SharedTeam(sup[p].team)' <=> SharedTeam(sup[p].team))
            /\ (Planning(sup[p])' <=> Planning(sup[p]))
            /\ \A n : Calm(n)' <=> Calm(n)
        BY <2>1, <2>3 DEF Planned, InStatus, Recorded, Current, SharedTeam, Planning, Calm
      <4>4. \A b : Latest(b) => Latest(b)'
        BY <4>2 DEF Latest
      <4>5. QED
        BY <2>3, <4>3, <4>4, <1>t DEF StartsLast
    <3>3. QED
      BY <1>4, <3>1, <3>2
  <2>6. QED
    BY <2>1, <2>2, <2>3, <2>4, <2>5, <1>b, <1>g, <1>r, StillInPlace
<1>5. ASSUME NEW a \in Attempts, RecordOutcome(p, a) PROVE PlaceInv'
  <2>1. /\ UNCHANGED <<graph, teams, journal, canceller, recovery, disturbed>>
        /\ sup[p].pc = "record" /\ a \in sup[p].running
    BY <1>5, <1>t DEF RecordOutcome, Others, Accounted
  <2>2. CASE Leave(p, "rejected") /\ UNCHANGED assignments
    BY <2>1, <2>2, <1>r, RejectInPlace
  <2>3. ASSUME NEW next, PutAssignment(a, sup[p].outcome[a], sup[p].team),
               sup' = [sup EXCEPT ![p].todo = @ \ {a},
                  ![p].pc = IF sup[p].todo = {a} THEN "close" ELSE "record", ![p].next = next]
        PROVE  PlaceInv'
    <3>1. sup[p].outcome[a] \in Outcome
      BY <2>1, <1>t DEF Accounted
    <3>2. /\ sup'[p].pc = (IF sup[p].todo = {a} THEN "close" ELSE "record")
          /\ sup'[p].running = sup[p].running /\ sup'[p].todo = sup[p].todo \ {a}
          /\ sup' = [sup EXCEPT ![p] = sup'[p]]
      BY <2>3, <1>t DEF Call
    <3>3. sup[p].outcome[a] \in AssignmentStatus \ {"planned"}
      BY <3>1 DEF AssignmentStatus, Outcome
    <3>4. /\ assignments[a] # NoAssignment /\ assignments'[a] # NoAssignment
          /\ assignments'[a].status = sup[p].outcome[a]
          /\ \A b \in Attempts \ {a} : assignments'[b] = assignments[b]
      BY <2>1, <2>3, <3>3, <1>t, WrittenAssignment, WrittenIsOne DEF Counted
    <3>5. \A u : ~NewlyPlanned(u)
      BY <2>1, <2>3, <3>3, <1>t, NothingPlanned
    <3>6. /\ \A b \in Attempts : Runs(assignments', b) => Runs(assignments, b) /\ b # a
          /\ \A b \in Attempts : assignments'[b] # NoAssignment <=> assignments[b] # NoAssignment
      BY <3>1, <3>4 DEF Runs, Outcome
    <3>7. /\ Held(sup[p]) = sup[p].running /\ Held(sup'[p]) = sup[p].running
          /\ MayRun(sup[p]) = sup[p].todo /\ sup[p].todo \ {a} = MayRun(sup'[p])
      BY <2>1, <3>2 DEF Held, MayRun
    <3>8. Counted(sup'[p], assignments) /\ StartsLast(sup[p])'
      BY <2>1, <3>2, <1>t DEF Counted, StartsLast, Planning
    <3>9. QED
      BY <2>1, <3>2, <3>5, <3>6, <3>7, <3>8, <1>b, <1>d, <1>g, <1>r, <1>t, StepInPlace
  <2>4. QED
    BY <1>5, <2>2, <2>3 DEF RecordOutcome
<1>6. CASE CloseCycle(p)
  <2>1. /\ UNCHANGED <<assignments, journal, canceller, recovery, disturbed>> /\ sup[p].pc = "close"
    BY <1>6 DEF CloseCycle, Others
  <2>2. CASE RejectUpdate(p) /\ UNCHANGED teams
    BY <2>1, <2>2, <1>r, RejectInPlace DEF RejectUpdate
  <2>3. CASE UpdateGraph(p) /\ ~(RejectUpdate(p) /\ UNCHANGED teams)
    <3>1. /\ sup[p].snap = graph /\ graph'.status = sup[p].next
          /\ graph'.revision = graph.revision + 1
      BY <2>1, <2>3, <1>t, UpdateFacts
    <3>2. GraphMoves
      BY <3>1 DEF GraphMoves
    <3>3. TeamsGrow
      <4>1. CASE PutTeam(sup[p].team)
        <5>1. PICK team \in Nat : team = sup[p].team
          BY <1>t
        <5>2. QED
          BY <4>1, <5>1, <1>t, TeamWritten DEF TeamsGrow
      <4>2. QED
        BY <1>6, <1>g, <2>3, <4>1 DEF CloseCycle
    <3>4. PICK pc \in {"idle", "cycle"} : sup' = [sup EXCEPT ![p] = sup'[p]] /\ sup'[p].pc = pc
      <4>1. CASE \E stop : Leave(p, stop)
        BY <4>1, <1>t DEF Leave, Blank
      <4>2. CASE ~\E stop : Leave(p, stop)
        <5>1. sup' = [sup EXCEPT ![p] = [Blank("none") EXCEPT !.pc = "cycle", !.rounds = sup[p].rounds + 1]]
          BY <1>6, <4>2 DEF CloseCycle, Report, RejectUpdate
        <5>2. /\ sup'[p] = [Blank("none") EXCEPT !.pc = "cycle", !.rounds = sup[p].rounds + 1]
              /\ sup' = [sup EXCEPT ![p] = sup'[p]]
          BY <5>1, <1>t
        <5>3. QED
          BY <5>2 DEF Blank
      <4>3. QED
        BY <4>1, <4>2
    <3>5. Held(sup'[p]) = {} /\ Counted(sup'[p], assignments) /\ StartsLast(sup[p])'
      BY <3>4 DEF Held, Counted, StartsLast, Planning
    <3>6. ASSUME NEW n \in Nodes, Calm(n), Busy(n), ~Busy(n)' PROVE NoneRuns(assignments, n)
      <4>1. PICK b \in sup[p].running : b[1] = n
        BY <2>1, <3>1, <3>6, <1>t DEF WritesItsOwn, Busy
      <4>2. b \in Held(sup[p]) /\ MayRun(sup[p]) = {}
        BY <2>1, <4>1 DEF Held, MayRun
      <4>3. QED
        BY <3>6, <4>1, <4>2, <1>t DEF HeldLast, NoneRuns
    <3>7. QED
      BY <2>1, <3>2, <3>3, <3>4, <3>5, <3>6, <1>d, <1>r, StillInPlace
  <2>4. QED
    BY <1>6, <2>2, <2>3 DEF CloseCycle
<1>7. QED
  BY <1>1, <1>2, <1>3, <1>4, <1>5, <1>6

LEMMA SupervisorKeepsPlace ==
  ASSUME Orderly, PlaceInv, TurnInv', NEW p \in Supervisors,
         Supervise(p) \/ SupervisorStep(p) \/ Abort(p) \/ Crash(p)
  PROVE  PlaceInv'
<1>t. sup \in [Supervisors -> Call] /\ recovery.pc = "idle" /\ TurnInv
  BY TurnTypes, OnlyWithoutRecovery DEF PlaceInv
<1>1. CASE Abort(p)
  <2>1. UNCHANGED <<graph, assignments, teams, journal, canceller, recovery, disturbed, sup>>
    BY <1>1 DEF Abort, durable
  <2>2. /\ GraphMoves /\ TeamsGrow /\ \A n \in Nodes : Busy(n) => Busy(n)'
        /\ \A a \in Attempts : Dispatched(a)' => Dispatched(a)
    BY <2>1, <1>t, TeamsStay DEF GraphMoves, Busy, Dispatched
  <2>3. sup' = [sup EXCEPT ![p] = sup'[p]] /\ Counted(sup'[p], assignments) /\ sup'[p] = sup[p]
    BY <2>1, <1>t DEF PlaceInv, NumberInv
  <2>4. StartsLast(sup[p])'
    <3>1. ~NewlyPlanned(sup[p].team)
      BY <2>1 DEF NewlyPlanned
    <3>2. QED
      BY <2>1, <2>2, <2>3, <3>1, StartsLastKept
  <2>5. QED
    BY <2>1, <2>2, <2>3, <2>4, <1>t, StillInPlace
<1>2. CASE Crash(p)
  BY <1>2, <1>t, RejectInPlace DEF Crash, durable
<1>3. ~AssertRevision(p)
  BY DEF AssertRevision, Orderly
<1>4. QED
  BY <1>1, <1>2, <1>3, CycleOpensInPlace, TeamIsPlannedInPlace, WorkStartsInPlace, WorkGoesOnInPlace
  DEF SupervisorStep

-----------------------------------------------------------------------------
(* A step of somebody else beside the supervisors.                         *)
LEMMA OtherInPlace ==
  ASSUME PlaceInv, TurnInv', UNCHANGED <<sup, teams, journal>>, recovery.pc = "idle",
         disturbed \subseteq disturbed', GraphMoves,
         \A n \in Nodes : Calm(n) /\ Busy(n) => Busy(n)',
         \A a \in Attempts : assignments'[a] # NoAssignment <=> assignments[a] # NoAssignment,
         \A a \in Attempts : Runs(assignments', a) => Runs(assignments, a),
         \A u : ~NewlyPlanned(u),
         canceller'.pc = "put" =>
           canceller'.attempt \in Attempts /\ assignments[canceller'.attempt] # NoAssignment,
         recovery'.pc # "idle" =>
           /\ UNCHANGED <<graph, assignments, disturbed>>
           /\ recovery'.saved.assignments = assignments /\ recovery'.saved.graph = graph
           /\ recovery'.pc = "put" /\ recovery'.todo = InStatus("running")
  PROVE  PlaceInv'
<1>d. \A a \in Attempts : Dispatched(a)' => Dispatched(a)
  BY DEF Dispatched
<1>1. NumberInv'
  <2>1. \A q \in Supervisors : Counted(sup'[q], assignments)
    BY DEF PlaceInv, NumberInv
  <2>2. NumberInv /\ sup' \in [Supervisors -> Call]
    BY DEF PlaceInv, TurnInv, TruthInv, TypeInv
  <2>3. QED
    BY <1>d, <2>1, <2>2, NumbersKept
<1>2. \A q \in Supervisors : StartsLast(sup[q])'
  BY <1>d, TeamsStay, StartsLastKept DEF PlaceInv
<1>3. ASSUME recovery'.pc # "idle"
      PROVE  /\ RunsLast(recovery.saved.assignments, recovery.saved.graph.status)'
             /\ \A a \in Attempts : Runs(assignments', a) => recovery'.pc = "put" /\ a \in recovery'.todo
  <2>1. RunsLast(recovery.saved.assignments, recovery.saved.graph.status)'
    BY <1>3 DEF PlaceInv, RunsLast, Runs, Latest, Dispatched, Calm
  <2>2. \A a \in Attempts : Runs(assignments', a) => recovery'.pc = "put" /\ a \in recovery'.todo
    BY <1>3 DEF Runs, InStatus, Recorded
  <2>3. QED
    BY <2>1, <2>2
<1>4. ASSUME NEW q \in Supervisors, NEW a \in Held(sup'[q])
      PROVE  a \in Held(sup[q]) /\ (a \in MayRun(sup[q]) => a \in MayRun(sup'[q]))
  BY <1>4
<1>5. QED
  BY <1>1, <1>2, <1>3, <1>4, <1>d, PlaceKept

(* A step of the reconciliation, with nobody at work.                      *)
LEMMA RecoveryInPlace ==
  ASSUME PlaceInv, TurnInv', UNCHANGED <<sup, journal, canceller, disturbed>>,
         recovery.pc # "idle",
         \A a \in Attempts : assignments'[a] # NoAssignment <=> assignments[a] # NoAssignment,
         RunsLast(assignments, graph.status)',
         recovery'.pc # "idle" =>
           /\ recovery'.saved = recovery.saved
           /\ \A a \in Attempts : Runs(assignments', a) => recovery'.pc = "put" /\ a \in recovery'.todo
  PROVE  PlaceInv'
<1>1. /\ \A q \in Supervisors : sup[q].pc = "idle"
      /\ canceller.pc = "idle"
  BY DEF PlaceInv, TurnInv, GateInv, Quiet
<1>2. NumberInv'
  <2>1. \A q \in Supervisors : Counted(sup'[q], assignments)
    BY <1>1 DEF Counted
  <2>2. \A a \in Attempts : Dispatched(a)' => Dispatched(a)
    BY DEF Dispatched
  <2>3. NumberInv /\ canceller'.pc # "put" /\ sup' \in [Supervisors -> Call]
    BY <1>1 DEF PlaceInv, TurnInv, TruthInv, TypeInv
  <2>4. recovery'.pc # "idle" => \A a \in Attempts :
          recovery'.saved.assignments[a] # NoAssignment <=> assignments'[a] # NoAssignment
    BY <2>3 DEF NumberInv
  <2>5. QED
    BY <2>1, <2>2, <2>3, <2>4, NumbersKept
<1>3. (\A q \in Supervisors : HeldLast(sup[q]) /\ StartsLast(sup[q]))'
  BY <1>1 DEF HeldLast, Held, StartsLast, Planning
<1>4. (recovery.pc # "idle" =>
        /\ RunsLast(recovery.saved.assignments, recovery.saved.graph.status)
        /\ \A a \in Attempts : Runs(assignments, a) => recovery.pc = "put" /\ a \in recovery.todo)'
  BY DEF PlaceInv, RunsLast, Runs, Latest, Dispatched, Calm
<1>5. QED
  BY <1>2, <1>3, <1>4 DEF PlaceInv

LEMMA OthersKeepPlace ==
  ASSUME Orderly, PlaceInv, TurnInv',
         \/ \E a \in Attempts : CancelRead(a)
         \/ CancelPut \/ CancelGraph \/ CrashCancel
         \/ RecoverList \/ RecoveryStep \/ CrashRecovery
         \/ \E n \in Nodes : Edit(n)
  PROVE  PlaceInv'
<1>t. /\ TurnInv /\ GateInv /\ NumberInv /\ graph \in Graph /\ CancellerTyped /\ RecoveryTyped
      /\ assignments \in [Attempts -> Assignment \cup {NoAssignment}]
      /\ canceller.pc # "idle" => recovery.pc = "idle"
      /\ canceller.pc = "graph" => canceller.attempt \in disturbed
  BY TurnTypes DEF PlaceInv, TurnInv, GateInv, DocumentsTyped, Quiet
<1>b. UNCHANGED graph => GraphMoves /\ \A n \in Nodes : Busy(n) => Busy(n)'
  BY DEF GraphMoves, Busy
<1>a. UNCHANGED assignments =>
        /\ \A u : ~NewlyPlanned(u)
        /\ \A a \in Attempts : Runs(assignments', a) => Runs(assignments, a)
  BY DEF NewlyPlanned
<1>c. canceller.pc = "put" => canceller.attempt \in Attempts /\ assignments[canceller.attempt] # NoAssignment
  BY <1>t DEF NumberInv, CancellerTyped
<1>1. CASE (\E a \in Attempts : CancelRead(a)) \/ CrashCancel
  <2>1. /\ UNCHANGED <<graph, assignments, teams, journal, sup, recovery, disturbed>>
        /\ recovery.pc = "idle"
        /\ canceller'.pc = "put" =>
             canceller'.attempt \in Attempts /\ assignments[canceller'.attempt] # NoAssignment
    BY <1>1, <1>t DEF CancelRead, CrashCancel, CancelIdle, durable, Orderly, Recorded
  <2>2. QED
    BY <2>1, <1>a, <1>b, OtherInPlace
<1>2. CASE CancelPut
  <2>1. /\ UNCHANGED <<graph, teams, journal, sup, recovery>> /\ canceller.pc = "put"
        /\ recovery.pc = "idle" /\ canceller.attempt \in Attempts /\ canceller.team \in Nat
    BY <1>2, <1>t DEF CancelPut, CancellerTyped
  <2> DEFINE a == canceller.attempt
  <2>2. ASSUME PutAssignment(canceller.attempt, "cancelled", canceller.team),
               canceller' = [canceller EXCEPT !.pc = "graph"],
               disturbed' = disturbed \cup {canceller.attempt}
        PROVE  PlaceInv'
    <3>1. canceller'.pc # "put" /\ disturbed \subseteq disturbed'
      BY <2>2, <1>t DEF CancellerTyped
    <3>2. \A u : ~NewlyPlanned(u)
      BY <2>1, <2>2, <1>t, NothingPlanned DEF AssignmentStatus, Outcome
    <3>3. /\ assignments'[a] # NoAssignment /\ assignments'[a].status = "cancelled"
          /\ \A b \in Attempts \ {a} : assignments'[b] = assignments[b]
      BY <2>1, <2>2, <1>t, WrittenAssignment, WrittenIsOne DEF AssignmentStatus, Outcome
    <3>4. /\ \A b \in Attempts : assignments'[b] # NoAssignment <=> assignments[b] # NoAssignment
          /\ \A b \in Attempts : Runs(assignments', b) => Runs(assignments, b)
      BY <2>1, <3>3, <1>c DEF Runs
    <3>5. QED
      BY <2>1, <3>1, <3>2, <3>4, <1>b, OtherInPlace
  <2>3. CASE CancelIdle /\ UNCHANGED <<assignments, disturbed>>
    <3>1. canceller'.pc = "idle"
      BY <2>3 DEF CancelIdle
    <3>2. QED
      BY <2>1, <2>3, <3>1, <1>a, <1>b, OtherInPlace
  <2>4. QED
    BY <1>2, <2>2, <2>3 DEF CancelPut
<1>3. CASE CancelGraph
  <2> DEFINE n == canceller.attempt[1]
             next == [graph.status EXCEPT ![n] = "blocked"]
  <2>1. /\ UNCHANGED <<assignments, teams, journal, sup, recovery, disturbed>>
        /\ canceller'.pc = "idle" /\ recovery.pc = "idle" /\ n \in Nodes
        /\ ~Calm(n)
    BY <1>3, <1>t DEF CancelGraph, CancelIdle, CancellerTyped, Attempts, Calm
  <2>2. GraphMoves /\ \A m \in Nodes : Calm(m) /\ Busy(m) => Busy(m)'
    <3>1. CASE UNCHANGED graph
      BY <3>1, <1>b
    <3>2. CASE graph' = NextGraph(graph, next)
      <4>1. next \in [Nodes -> NodeStatus]
        BY <2>1, <1>t DEF Graph, NodeStatus
      <4>2. graph'.status = next /\ graph'.revision = graph.revision + 1
        BY <3>2, <4>1, <1>t, WrittenGraph
      <4>3. \A m \in Nodes \ {n} : graph'.status[m] = graph.status[m]
        BY <4>2, <1>t DEF Graph
      <4>4. QED
        BY <2>1, <4>2, <4>3 DEF GraphMoves, Busy
    <3>3. QED
      BY <1>3, <3>1, <3>2 DEF CancelGraph
  <2>3. QED
    BY <2>1, <2>2, <1>a, OtherInPlace
<1>4. CASE RecoverList
  <2>1. /\ UNCHANGED <<graph, assignments, teams, journal, sup, canceller, disturbed>>
        /\ recovery.pc = "idle" /\ recovery'.pc = "put"
        /\ recovery'.saved.assignments = assignments /\ recovery'.saved.graph = graph
        /\ recovery'.todo = InStatus("running")
    BY <1>4 DEF RecoverList, durable
  <2>2. QED
    BY <2>1, <1>a, <1>b, <1>c, OtherInPlace
<1>5. ASSUME NEW a \in Attempts, RecoverPut(a) PROVE PlaceInv'
  <2>1. /\ UNCHANGED <<graph, journal, sup, canceller, disturbed>> /\ recovery.pc = "put"
        /\ recovery'.saved = recovery.saved /\ recovery.saved.assignments[a].team \in Nat
        /\ recovery'.todo = recovery.todo \ {a} /\ a \in recovery.running
        /\ recovery'.pc = (IF recovery.todo = {a} THEN "graph" ELSE "put")
        /\ PutAssignment(a, "interrupted", recovery.saved.assignments[a].team)
    BY <1>5, <1>t DEF RecoverPut, RecoveryTyped, Assignment
  <2>2. assignments[a] # NoAssignment
    BY <2>1, <1>t DEF RecoveryTyped, NumberInv
  <2>3. /\ assignments'[a] # NoAssignment /\ assignments'[a].status = "interrupted"
        /\ \A b \in Attempts \ {a} : assignments'[b] = assignments[b]
    BY <2>1, <1>t, WrittenAssignment, WrittenIsOne DEF AssignmentStatus
  <2>4. /\ \A b \in Attempts : assignments'[b] # NoAssignment <=> assignments[b] # NoAssignment
        /\ \A b \in Attempts : Runs(assignments', b) => Runs(assignments, b) /\ b # a
    BY <2>2, <2>3 DEF Runs
  <2>5. RunsLast(assignments, graph.status)'
    BY <2>1, <2>4 DEF PlaceInv, RunsLast, Latest, Dispatched, Calm
  <2>6. \A b \in Attempts : Runs(assignments', b) => recovery'.pc = "put" /\ b \in recovery'.todo
    BY <2>1, <2>4 DEF PlaceInv
  <2>7. QED
    BY <2>1, <2>4, <2>5, <2>6, RecoveryInPlace
<1>6. CASE RecoverGraph
  <2>1. /\ UNCHANGED <<assignments, journal, sup, canceller, disturbed>>
        /\ recovery.pc = "graph" /\ recovery'.saved = recovery.saved
    BY <1>6, <1>t DEF RecoverGraph, RecoveryTyped
  <2>2. \A a \in Attempts : ~Runs(assignments', a)
    BY <2>1 DEF PlaceInv
  <2>3. RunsLast(assignments, graph.status)'
    BY <2>2 DEF RunsLast
  <2>4. QED
    BY <2>1, <2>2, <2>3, RecoveryInPlace
<1>7. CASE RecoverReceipt \/ CrashRecovery
  <2>1. /\ UNCHANGED <<graph, assignments, journal, sup, canceller, disturbed>>
        /\ recovery.pc # "idle" /\ recovery'.pc = "idle"
    BY <1>7 DEF RecoverReceipt, CrashRecovery, RecoverIdle, durable
  <2>2. RunsLast(assignments, graph.status)'
    BY <2>1 DEF PlaceInv, RunsLast, Latest, Dispatched, Calm
  <2>3. QED
    BY <2>1, <2>2, RecoveryInPlace
<1>8. CASE RecoverRestore
  <2>1. /\ UNCHANGED <<journal, sup, canceller, disturbed>>
        /\ recovery.pc # "idle" /\ recovery'.pc = "idle"
        /\ assignments' = recovery.saved.assignments /\ graph' = recovery.saved.graph
    BY <1>8 DEF RecoverRestore, RecoverIdle
  <2>2. RunsLast(assignments, graph.status)'
    BY <2>1 DEF PlaceInv, RunsLast, Latest, Dispatched, Calm
  <2>3. \A a \in Attempts : assignments'[a] # NoAssignment <=> assignments[a] # NoAssignment
    BY <2>1, <1>t DEF NumberInv
  <2>4. QED
    BY <2>1, <2>2, <2>3, RecoveryInPlace
<1>9. ASSUME NEW n \in Nodes, Edit(n) PROVE PlaceInv'
  <2>1. /\ UNCHANGED <<assignments, teams, journal, sup, canceller, recovery, disturbed>>
        /\ recovery.pc = "idle"
    BY <1>9 DEF Edit, Orderly
  <2>2. PICK status \in {graph.status[n], "cancelled"},
             gated \in {graph.gated \cup {n}, graph.gated \ {n}} :
          graph' = NextGraph([graph EXCEPT !.gated = gated], [graph.status EXCEPT ![n] = status])
    BY <1>9 DEF Edit
  <2> DEFINE edited == [graph EXCEPT !.gated = gated]
             next == [graph.status EXCEPT ![n] = status]
  <2>3. /\ edited \in Graph /\ edited.revision = graph.revision
        /\ next \in [Nodes -> NodeStatus] /\ graph' = NextGraph(edited, next)
        /\ \A m \in Nodes : Busy(m) => next[m] \in {"running", "cancelled"}
    BY <2>2, <1>t DEF Graph, NodeStatus, Busy
  <2> HIDE DEF edited, next
  <2>4. graph'.status = next /\ graph'.revision = graph.revision + 1
    BY <2>3, <1>t, WrittenGraph
  <2>5. GraphMoves /\ \A m \in Nodes : Busy(m) => Busy(m)'
    BY <2>3, <2>4 DEF GraphMoves, Busy
  <2>6. QED
    BY <2>1, <2>5, <1>a, <1>c, OtherInPlace
<1>10. QED
  BY <1>1, <1>2, <1>3, <1>4, <1>5, <1>6, <1>7, <1>8, <1>9 DEF RecoveryStep

LEMMA PlaceInit == Init => PlaceInv
<1> SUFFICES ASSUME Init PROVE PlaceInv
  OBVIOUS
<1>1. /\ TurnInv /\ recovery.pc = "idle" /\ canceller.pc = "idle"
      /\ \A p \in Supervisors : sup[p].pc = "idle"
      /\ \A a \in Attempts : assignments[a] = NoAssignment /\ journal[a] = "none"
  BY TurnInit DEF Init, Blank
<1>2. NumberInv
  BY <1>1 DEF NumberInv, Gapless, Dispatched, Counted
<1>3. \A p \in Supervisors : HeldLast(sup[p]) /\ StartsLast(sup[p])
  BY <1>1 DEF HeldLast, Held, StartsLast, Planning
<1>4. QED
  BY <1>1, <1>2, <1>3 DEF PlaceInv, RunsLast, Runs

LEMMA PlaceStep == Orderly /\ PlaceInv /\ [Next]_vars => PlaceInv'
<1> SUFFICES ASSUME Orderly, PlaceInv, [Next]_vars PROVE PlaceInv'
  OBVIOUS
<1>1. TurnInv'
  BY TurnStep DEF PlaceInv
<1>2. CASE UNCHANGED vars
  <2>1. UNCHANGED <<graph, assignments, teams, journal, sup, canceller, recovery, disturbed>>
    BY <1>2 DEF vars
  <2>2. CASE recovery.pc = "idle"
    <3>1. GraphMoves /\ \A n \in Nodes : Busy(n) => Busy(n)'
      BY <2>1 DEF GraphMoves, Busy
    <3>2. \A u : ~NewlyPlanned(u)
      BY <2>1 DEF NewlyPlanned
    <3>3. canceller'.pc = "put" =>
            canceller'.attempt \in Attempts /\ assignments[canceller'.attempt] # NoAssignment
      BY <2>1, TurnTypes DEF PlaceInv, NumberInv, CancellerTyped
    <3>4. QED
      BY <1>1, <2>1, <2>2, <3>1, <3>2, <3>3, OtherInPlace
  <2>3. CASE recovery.pc # "idle"
    <3>1. RunsLast(assignments, graph.status)'
      BY <2>1 DEF PlaceInv, RunsLast, Latest, Dispatched, Calm
    <3>2. QED
      BY <1>1, <2>1, <2>3, <3>1, RecoveryInPlace DEF PlaceInv
  <2>4. QED
    BY <2>2, <2>3
<1>3. CASE Next
  BY <1>1, <1>3, SupervisorKeepsPlace, OthersKeepPlace DEF Next
<1>4. QED
  BY <1>2, <1>3

(* Among any number of supervisors an item that nobody cancelled, and that *)
(* no two of them planned under the same team id, is not attempted again   *)
(* while an earlier attempt at it is recorded as running                   *)
(* (supervision-extension.ts promoteRunnable to runSupervisionCycle).      *)
THEOREM RetriesTakeTurns ==
  ASSUME Orderly
  PROVE  Spec => []RunningBlocksRetry
<1>1. CASE Single
  BY <1>1, RetriesWait DEF Orderly
<1>2. CASE ~Single
  <2>1. PlaceInv => RunningBlocksRetry
    <3> SUFFICES ASSUME PlaceInv, NEW a \in Attempts, NEW b \in Attempts, a[1] = b[1], a[2] < b[2],
                        journal[b] # "none", a \in Recorded, assignments[a].status = "running",
                        Calm(a[1])
                 PROVE  FALSE
      BY <1>2 DEF RunningBlocksRetry, Single, Calm
    <3>1. Latest(a)
      BY DEF PlaceInv, RunsLast, Runs, Recorded
    <3>2. b[2] <= a[2] /\ a[2] \in Nat /\ b[2] \in Nat
      BY <3>1 DEF Latest, Dispatched, Attempts
    <3>3. QED
      BY <3>2
  <2>2. PlaceInv /\ [Next]_vars => PlaceInv'
    BY PlaceStep
  <2>3. QED
    BY <2>1, <2>2, PlaceInit, PTL DEF Spec
<1>3. QED
  BY <1>1, <1>2
=============================================================================
