---------------------------- MODULE Supervision ----------------------------
(***************************************************************************)
(* Supervision of one programme: superviseUntilStop, runSupervisionCycle   *)
(* (packages/runtime/src/supervision-extension.ts) in one or more runtime *)
(* processes over the same home, with cancelWorkAssignment from another    *)
(* process, the reconciliation of interrupted assignments of               *)
(* security-extension.ts, operators who edit the graph, and crashes.       *)
(*                                                                         *)
(* An action is one durable write together with the reads that lead to it, *)
(* or one read that a later write relies on; between any two of them       *)
(* another process may act.  Exceptions: CloseCycle puts the team plan     *)
(* with the graph, Dispatch takes the two statements that open a journal   *)
(* row together, RecoverList takes its reads and its checkpoint together,  *)
(* and putWorkGraph, whose revision check and write are separate           *)
(* statements, is overtaken between the two only where RacyGraphs allows   *)
(* it.  Capability ranking, costs and clocks are abstracted to what they   *)
(* decide: who is staffed and whether a limit of the policy is reached.    *)
(* No planning strategy is registered.                                     *)
(*                                                                         *)
(* A definition whose comment starts with "Mutant" is a plausible bug of   *)
(* the definition after it.  No behaviour of the specification uses one.   *)
(***************************************************************************)
EXTENDS Naturals, FiniteSets, Lifecycle

CONSTANTS
  Nodes,             \* work items of the graph
  DependsOn,         \* <<a, b>>: an edge depends-on from a to b, b waits for a
  Supervisors,       \* processes that may supervise the programme
  NoSupervisor,
  NoAssignment,
  MaxAttempts,       \* policy.maxAttemptsPerWorkItem
  MaxConcurrent,     \* min(policy, limits).maxConcurrentAssignments
  MaxWork,           \* limits.maxSupervisionWorkPerCycle
  MaxCycles,         \* options.maxCycles
  FailureThreshold,  \* policy.failureThresholdBeforeReplan
  Limits,            \* which of the two limits below the policy sets
  RacyGraphs,        \* whether putWorkGraph may be overtaken inside
  RecoverBesideLive, \* whether reconciliation may run while others work
  MaxCalls,          \* bound on the calls of superviseUntilStop
  MaxCancels, MaxRecoveries, MaxEdits, MaxAborts, MaxCrashes   \* likewise

Attempts == Nodes \X (1 .. MaxAttempts)

ASSUME SupervisionAssumption ==
  /\ DependsOn \subseteq Nodes \X Nodes
  /\ NoSupervisor \notin Supervisors
  /\ Limits \subseteq {"deadline-reached", "budget-exhausted"}
  /\ {MaxAttempts, MaxConcurrent, MaxWork, MaxCycles} \subseteq Nat \ {0}
  /\ {FailureThreshold, MaxCalls, MaxCancels, MaxRecoveries, MaxEdits, MaxAborts, MaxCrashes}
       \subseteq Nat
  /\ {RacyGraphs, RecoverBesideLive} \subseteq BOOLEAN

VARIABLES
  graph,        \* the work graph: revision, storage version, node status, gates
  assignments,  \* assignments[<<n, k>>]: the k-th assignment of n, if any
  teams,        \* versions <<t, v>> of team plans: the current ones, and rows
  journal,      \* journal[a]: the external operation of an assignment
  worker,       \* worker[a]: the process whose executeBoundWork awaits a
  sup,          \* sup[p]: the local state of superviseUntilStop
  aborted,      \* processes whose abort signal was raised
  canceller,    \* the local state of one cancelWorkAssignment
  recovery,     \* the local state of one reconcileInterruptedAssignments
  behind,       \* documents whose head a restore moved behind an existing row
  disturbed,    \* attempts that were cancelled, or taken up from a team plan that
                \* two supervisors wrote under the same counted id (history)
  bound         \* how many of each bounded action there were

vars == <<graph, assignments, teams, journal, worker, sup, aborted, canceller,
          recovery, behind, disturbed, bound>>

durable == <<graph, assignments, teams, journal, behind>>

Outcome == {"succeeded", "failed", "cancelled"}

AssignmentStatus == {"planned", "running", "interrupted"} \cup Outcome

StopReason == {"completed", "idle", "blocked", "approval-required", "budget-exhausted",
               "deadline-reached", "replan-required", "max-cycles", "cancelled"}

-----------------------------------------------------------------------------
(* Reading the documents.                                                  *)

dependenciesSatisfied(g, n) ==
  \A m \in Nodes : <<m, n>> \in DependsOn => g.status[m] = "completed"

Runnable(g, n) ==
  g.status[n] = "ready" /\ n \notin g.gated /\ dependenciesSatisfied(g, n)

Recorded == {a \in Attempts : assignments[a] # NoAssignment}

InStatus(status) == {a \in Recorded : assignments[a].status = status}

previousAttempts(n) == {a \in Recorded : a[1] = n}

Spent(n) == Cardinality(previousAttempts(n)) >= MaxAttempts

LastAttemptRunning(n) ==
  \E a \in previousAttempts(n) :
    assignments[a].status = "running" /\ \A b \in previousAttempts(n) : b[2] <= a[2]

(* Mutant: dependencies are only looked at when a node is retried.         *)
PromotedEarly(g) ==
  [n \in Nodes |->
     IF /\ n \notin g.gated
        /\ \/ g.status[n] = "pending"
           \/ /\ g.status[n] \in {"failed", "blocked"} /\ ~Spent(n) /\ ~LastAttemptRunning(n)
              /\ dependenciesSatisfied(g, n)
     THEN "ready" ELSE g.status[n]]

(* Mutant: a retry does not look at the last attempt.                      *)
PromotedOverRunning(g) ==
  [n \in Nodes |->
     IF /\ n \notin g.gated /\ dependenciesSatisfied(g, n)
        /\ \/ g.status[n] = "pending"
           \/ g.status[n] \in {"failed", "blocked"} /\ ~Spent(n)
     THEN "ready" ELSE g.status[n]]

(* promoteRunnable: what each node becomes.                                *)
Promoted(g) ==
  [n \in Nodes |->
     IF /\ n \notin g.gated /\ dependenciesSatisfied(g, n)
        /\ \/ g.status[n] = "pending"
           \/ g.status[n] \in {"failed", "blocked"} /\ ~Spent(n) /\ ~LastAttemptRunning(n)
     THEN "ready" ELSE g.status[n]]

(* Mutant: one completed node is enough.                                   *)
StopReasonForSome(g, limit) ==
  IF \E n \in Nodes : g.status[n] = "completed" THEN "completed"
  ELSE IF \E n \in Nodes : g.status[n] = "cancelled" THEN "cancelled"
  ELSE IF \E n \in g.gated : g.status[n] \notin {"completed", "cancelled"}
       THEN "approval-required"
  ELSE limit

(* stopReasonForGraph, in its order; limit is the limit of the policy that *)
(* the clock or the costs have reached, or "none".                         *)
StopReasonForGraph(g, limit) ==
  IF Nodes # {} /\ \A n \in Nodes : g.status[n] = "completed" THEN "completed"
  ELSE IF \E n \in Nodes : g.status[n] = "cancelled" THEN "cancelled"
  ELSE IF \E n \in g.gated : g.status[n] \notin {"completed", "cancelled"}
       THEN "approval-required"
  ELSE IF limit # "none" THEN limit
  ELSE IF \/ \E n \in Nodes : g.status[n] = "failed" /\ Spent(n)
          \/ Cardinality(InStatus("failed")) >= FailureThreshold
       THEN "replan-required"
  ELSE "none"

-----------------------------------------------------------------------------
(* Writing them.  A document whose head is behind accepts no version       *)
(* (CONFLICT).                                                             *)

PutAssignment(a, status, team) ==
  /\ a \notin behind.attempts
  /\ assignments' = [assignments EXCEPT ![a] =
       [status |-> status, team |-> team,
        version |-> IF a \in Recorded THEN assignments[a].version + 1 ELSE 1]]

LegalMoves(next) == \A n \in Nodes : MayMove(graph.status[n], next[n])

(* Mutant: the revision is not compared.                                   *)
NextMoves(snap, next) == LegalMoves(next)

(* The checks of putWorkGraph against the stored graph.                    *)
NextRevision(snap, next) ==
  snap.revision = graph.revision /\ LegalMoves(next)

NextGraph(snap, next) ==
  [revision |-> snap.revision + 1, version |-> graph.version + 1,
   status |-> next, gated |-> snap.gated]

TeamIds == {t[1] : t \in teams.heads}

NextVersion(team) == <<team, Cardinality({t \in teams.heads : t[1] = team}) + 1>>

SharedTeam(team) == Cardinality({t \in teams.heads : t[1] = team}) > 1

PutTeam(team) ==
  /\ NextVersion(team) \notin teams.rows
  /\ teams' = [heads |-> teams.heads \cup {NextVersion(team)},
               rows |-> teams.rows \cup {NextVersion(team)}]

-----------------------------------------------------------------------------
(* One supervisor.                                                         *)

Blank(stop) ==
  [pc |-> "idle", snap |-> [revision |-> 0, version |-> 0,
                            status |-> [n \in Nodes |-> "pending"], gated |-> {}],
   next |-> [n \in Nodes |-> "pending"], checked |-> FALSE, team |-> 0,
   members |-> {}, running |-> {}, todo |-> {}, chunk |-> {},
   outcome |-> [a \in Attempts |-> "none"], rounds |-> 0, stop |-> stop]

(* superviseUntilStop returns its stop reason, or rejects.                 *)
Leave(p, stop) == sup' = [sup EXCEPT ![p] = Blank(stop)]

(* A cycle that stops puts its supervision-cycle document first, which a   *)
(* restore may have left behind the row of the same number.                *)
Report(p, stop) ==
  \/ Leave(p, stop)
  \/ behind.cycles /\ Leave(p, "rejected")

Others == <<aborted, canceller, recovery, disturbed, bound>>

Init ==
  /\ \E gated \in SUBSET Nodes :
       graph = [revision |-> 1, version |-> 1,
                status |-> [n \in Nodes |-> "pending"], gated |-> gated]
  /\ assignments = [a \in Attempts |-> NoAssignment]
  /\ teams = [heads |-> {}, rows |-> {}]
  /\ journal = [a \in Attempts |-> "none"]
  /\ worker = [a \in Attempts |-> NoSupervisor]
  /\ sup = [p \in Supervisors |-> Blank("none")]
  /\ aborted = {}
  /\ canceller = [pc |-> "idle", attempt |-> NoAssignment, team |-> 0]
  /\ recovery = [pc |-> "idle", running |-> {}, todo |-> {}, saved |-> {}]
  /\ behind = [graph |-> FALSE, attempts |-> {}, cycles |-> FALSE]
  /\ disturbed = {}
  /\ bound = [calls |-> 0, cancels |-> 0, recoveries |-> 0, edits |-> 0, aborts |-> 0, crashes |-> 0]

Supervise(p) ==
  /\ sup[p].pc = "idle"
  /\ recovery.pc = "idle" \/ RecoverBesideLive
  /\ sup' = [sup EXCEPT ![p].pc = "cycle", ![p].stop = "none"]
  /\ aborted' = aborted \ {p}
  /\ bound.calls < MaxCalls
  /\ bound' = [bound EXCEPT !.calls = @ + 1]
  /\ UNCHANGED <<durable, worker, canceller, recovery, disturbed>>

(* The head of the loop, and promoteRunnable up to its write.              *)
CycleRead(p) ==
  /\ sup[p].pc = "cycle"
  /\ \/ p \in aborted /\ Leave(p, "cancelled")
     \/ /\ p \notin aborted
        /\ sup' = [sup EXCEPT ![p].pc = "promote", ![p].snap = graph,
                              ![p].next = Promoted(graph)]
  /\ UNCHANGED <<durable, worker, Others>>

(* putWorkGraph, overtaken between its checks and its write.               *)
AssertRevision(p) ==
  /\ RacyGraphs
  /\ sup[p].pc \in {"promote", "start", "close"}
  /\ ~sup[p].checked
  /\ sup[p].next # sup[p].snap.status
  /\ NextRevision(sup[p].snap, sup[p].next)
  /\ sup' = [sup EXCEPT ![p].checked = TRUE]
  /\ UNCHANGED <<durable, worker, Others>>

Checked(p) == sup[p].checked \/ NextRevision(sup[p].snap, sup[p].next)

UpdateGraph(p) ==
  /\ Checked(p)
  /\ ~behind.graph
  /\ graph' = NextGraph(sup[p].snap, sup[p].next)

(* INVALID_REVISION, INVALID_TRANSITION or CONFLICT ends the whole call.   *)
RejectUpdate(p) ==
  /\ ~Checked(p) \/ behind.graph
  /\ Leave(p, "rejected")
  /\ UNCHANGED graph

(* runSupervisionCycle up to the team: stop early, or go on.               *)
Decide(p, g) ==
  \E limit \in Limits \cup {"none"} :
    LET reason == StopReasonForGraph(g, limit)
        runnable == {n \in Nodes : Runnable(g, n)}
    IN \/ reason # "none" /\ Report(p, reason)
       \/ /\ reason = "none" /\ runnable = {}
          /\ IF \E n \in Nodes : g.status[n] \in {"pending", "blocked", "running"}
             THEN Report(p, "blocked") ELSE Report(p, "idle")
       \/ /\ reason = "none" /\ runnable # {}
          /\ sup' = [sup EXCEPT ![p].pc = "form", ![p].snap = g, ![p].checked = FALSE]

Promote(p) ==
  /\ sup[p].pc = "promote"
  /\ \/ /\ sup[p].next = sup[p].snap.status
        /\ Decide(p, sup[p].snap)
        /\ UNCHANGED graph
     \/ /\ sup[p].next # sup[p].snap.status
        /\ \/ UpdateGraph(p) /\ Decide(p, NextGraph(sup[p].snap, sup[p].next))
           \/ RejectUpdate(p)
  /\ UNCHANGED <<assignments, teams, journal, behind, worker, Others>>

(* formTeam: the current graph and the number of team plans, ...           *)
FormTeam(p) ==
  /\ sup[p].pc = "form"
  /\ \E ready \in SUBSET {n \in Nodes : Runnable(graph, n)} :
       /\ Cardinality(ready) <= MaxWork
       /\ sup' = [sup EXCEPT ![p].pc = "staff", ![p].members = ready,
                             ![p].team = Cardinality(TeamIds) + 1]
  /\ UNCHANGED <<durable, worker, Others>>

(* ... the attempts so far, and the team plan.  A member is staffed unless *)
(* its attempts are spent or no candidate fits.                            *)
StaffTeam(p) ==
  LET team == sup[p].team IN
  /\ sup[p].pc = "staff"
  /\ \/ /\ PutTeam(team)
        /\ \E staffed \in SUBSET {n \in sup[p].members : ~Spent(n)} :
             sup' = [sup EXCEPT
               ![p].pc = IF staffed = {} THEN "list" ELSE "plan",
               ![p].members = {},
               ![p].todo = {<<n, Cardinality(previousAttempts(n)) + 1>> : n \in staffed}]
     \/ /\ NextVersion(team) \in teams.rows
        /\ Leave(p, "rejected")
        /\ UNCHANGED teams
  /\ UNCHANGED <<graph, assignments, journal, behind, worker, Others>>

PlanAssignment(p, a) ==
  /\ sup[p].pc = "plan"
  /\ a \in sup[p].todo
  /\ \/ /\ PutAssignment(a, "planned", sup[p].team)
        /\ sup' = [sup EXCEPT ![p].todo = @ \ {a},
                              ![p].pc = IF sup[p].todo = {a} THEN "list" ELSE "plan"]
     \/ a \in behind.attempts /\ Leave(p, "rejected") /\ UNCHANGED assignments
  /\ UNCHANGED <<graph, teams, journal, behind, worker, Others>>

(* budgetBlocksReadyWork: whether the known spend leaves nothing for any    *)
(* candidate of some item; costs are left out, the budget may be spent.    *)
BudgetBlocks == Limits \cap {"budget-exhausted"}

ListPlanned(p) ==
  LET planned == {a \in InStatus("planned") : assignments[a].team = sup[p].team} IN
  /\ sup[p].pc = "list"
  /\ \/ /\ planned = {}
        /\ \E reason \in {"blocked"} \cup BudgetBlocks : Report(p, reason)
        /\ UNCHANGED disturbed
     \/ /\ planned # {}
        /\ sup' = [sup EXCEPT ![p].pc = "start", ![p].running = planned,
             ![p].next = [n \in Nodes |-> IF \E a \in planned : a[1] = n THEN "running"
                                          ELSE sup[p].snap.status[n]]]
        /\ disturbed' = IF SharedTeam(sup[p].team) THEN disturbed \cup planned ELSE disturbed
  /\ UNCHANGED <<durable, worker, aborted, canceller, recovery, bound>>

StartWork(p) ==
  /\ sup[p].pc = "start"
  /\ \/ /\ UpdateGraph(p)
        /\ sup' = [sup EXCEPT ![p].pc = "mark", ![p].todo = sup[p].running,
             ![p].snap = NextGraph(sup[p].snap, sup[p].next), ![p].checked = FALSE]
     \/ RejectUpdate(p)
  /\ UNCHANGED <<assignments, teams, journal, behind, worker, Others>>

(* The copy that was listed is written, whatever the stored one says now.  *)
MarkRunning(p, a) ==
  /\ sup[p].pc = "mark"
  /\ a \in sup[p].todo
  /\ \/ /\ PutAssignment(a, "running", sup[p].team)
        /\ sup' = [sup EXCEPT
             ![p].todo = IF sup[p].todo = {a} THEN sup[p].running ELSE @ \ {a},
             ![p].pc = IF sup[p].todo = {a} THEN "work" ELSE "mark"]
     \/ a \in behind.attempts /\ Leave(p, "rejected") /\ UNCHANGED assignments
  /\ UNCHANGED <<graph, teams, journal, behind, worker, Others>>

-----------------------------------------------------------------------------
(* executeBoundWork, a chunk of assignments at a time.                     *)

ChunkIs(p, answers) == \A a \in sup[p].chunk : sup[p].outcome[a] \in answers

NextChunk(p) ==
  /\ sup[p].pc = "work"
  /\ ChunkIs(p, Outcome)
  /\ \/ /\ sup[p].todo # {}
        /\ \E chunk \in SUBSET sup[p].todo :
             /\ Cardinality(chunk) <= MaxConcurrent
             /\ chunk # sup[p].todo => Cardinality(chunk) = MaxConcurrent
             /\ sup' = [sup EXCEPT ![p].chunk = chunk, ![p].todo = @ \ chunk]
     \/ /\ sup[p].todo = {}
        /\ sup' = [sup EXCEPT ![p].pc = "record", ![p].chunk = {}, ![p].todo = sup[p].running]
  /\ UNCHANGED <<durable, worker, Others>>

(* Mutant: the insert replaces a row with the same id.                     *)
Insertable(a) == TRUE

(* insertExternalOperation accepts each operation id once.                 *)
NewOperation(a) == journal[a] = "none"

(* The start of one assignment: the signal, the binding, then the journal, *)
(* whose conflict rejects the whole Promise.all.  (beginOperation and      *)
(* markOperationDispatched are taken together: OperationJournal has them   *)
(* apart.)                                                                 *)
Dispatch(p, a) ==
  /\ sup[p].pc = "work"
  /\ a \in sup[p].chunk
  /\ sup[p].outcome[a] = "none"
  /\ \/ /\ p \notin aborted
        /\ NewOperation(a)
        /\ journal' = [journal EXCEPT ![a] = "dispatched"]
        /\ worker' = [worker EXCEPT ![a] = p]
        /\ sup' = [sup EXCEPT ![p].outcome[a] = "awaited"]
     \/ /\ \/ /\ p \in aborted
              /\ sup' = [sup EXCEPT ![p].outcome[a] = "cancelled"]
           \/ /\ p \notin aborted
              /\ sup' = [sup EXCEPT ![p].outcome[a] = "failed"]
           \/ /\ p \notin aborted
              /\ ~NewOperation(a)
              /\ sup' = [sup EXCEPT ![p].outcome[a] = "conflict"]
        /\ UNCHANGED <<journal, worker>>
  /\ UNCHANGED <<graph, assignments, teams, behind, Others>>

(* Mutant: a cancelled execution never settles its promise.                *)
FinishUncancelled(p, a) ==
  /\ worker[a] = p
  /\ \E answer \in Outcome :
       /\ journal' = [journal EXCEPT ![a] = answer]
       /\ sup' = IF sup[p].outcome[a] = "awaited" /\ answer # "cancelled"
                 THEN [sup EXCEPT ![p].outcome[a] = answer] ELSE sup
  /\ worker' = [worker EXCEPT ![a] = NoSupervisor]
  /\ UNCHANGED <<graph, assignments, teams, behind, Others>>

(* An executor answers; the answer is journalled, and it reaches the cycle *)
(* if the cycle still awaits it.                                           *)
FinishWork(p, a) ==
  /\ worker[a] = p
  /\ \E answer \in Outcome :
       /\ journal' = [journal EXCEPT ![a] = answer]
       /\ sup' = IF sup[p].outcome[a] = "awaited"
                 THEN [sup EXCEPT ![p].outcome[a] = answer] ELSE sup
  /\ worker' = [worker EXCEPT ![a] = NoSupervisor]
  /\ UNCHANGED <<graph, assignments, teams, behind, Others>>

(* Promise.all rejects; what it started goes on unobserved.                *)
RejectChunk(p) ==
  /\ sup[p].pc = "work"
  /\ ChunkIs(p, Outcome \cup {"awaited", "conflict"})
  /\ ~ChunkIs(p, Outcome \cup {"awaited"})
  /\ Leave(p, "rejected")
  /\ UNCHANGED <<durable, worker, Others>>

(* Mutant: whatever is not cancelled is done.                              *)
DoneUnlessCancelled(outcome) ==
  IF outcome = "cancelled" THEN "cancelled" ELSE "completed"

(* What the graph calls a node whose attempt had this outcome.             *)
NodeOutcome(outcome) == IF outcome = "succeeded" THEN "completed" ELSE outcome

(* One assignment gets its outcome.  A node with two attempts in the same  *)
(* cycle takes the outcome of the first.                                   *)
RecordOutcome(p, a) ==
  LET settled(n) == {b \in sup[p].running : b[1] = n}
      first(n) == CHOOSE b \in settled(n) : \A c \in settled(n) : b[2] <= c[2]
  IN
  /\ sup[p].pc = "record"
  /\ a \in sup[p].todo
  /\ \/ /\ PutAssignment(a, sup[p].outcome[a], sup[p].team)
        /\ sup' = [sup EXCEPT
             ![p].todo = @ \ {a},
             ![p].pc = IF sup[p].todo = {a} THEN "close" ELSE "record",
             ![p].next = [n \in Nodes |->
                IF settled(n) = {} THEN sup[p].snap.status[n]
                ELSE NodeOutcome(sup[p].outcome[first(n)])]]
     \/ a \in behind.attempts /\ Leave(p, "rejected") /\ UNCHANGED assignments
  /\ UNCHANGED <<graph, teams, journal, behind, worker, Others>>

(* The graph gets the outcomes and the team plan its members' states; then *)
(* another cycle or the end of the loop.                                   *)
CloseCycle(p) ==
  LET closed == NextGraph(sup[p].snap, sup[p].next) IN
  /\ sup[p].pc = "close"
  /\ \/ /\ UpdateGraph(p)
        /\ PutTeam(sup[p].team)
        /\ \E limit \in Limits \cup {"none"} :
             LET reason == StopReasonForGraph(closed, limit) IN
             \/ reason # "none" /\ Report(p, reason)
             \/ reason = "none" /\ sup[p].rounds + 1 = MaxCycles /\ Report(p, "max-cycles")
             \/ /\ reason = "none" /\ sup[p].rounds + 1 < MaxCycles
                /\ sup' = [sup EXCEPT ![p] = [Blank("none") EXCEPT !.pc = "cycle",
                                                !.rounds = sup[p].rounds + 1]]
     \/ /\ UpdateGraph(p)
        /\ NextVersion(sup[p].team) \in teams.rows
        /\ Leave(p, "rejected")
        /\ UNCHANGED teams
     \/ RejectUpdate(p) /\ UNCHANGED teams
  /\ UNCHANGED <<assignments, journal, behind, worker, Others>>

-----------------------------------------------------------------------------
(* What else happens to the process.                                       *)

Abort(p) ==
  /\ sup[p].pc # "idle"
  /\ p \notin aborted
  /\ bound.aborts < MaxAborts
  /\ aborted' = aborted \cup {p}
  /\ bound' = [bound EXCEPT !.aborts = @ + 1]
  /\ UNCHANGED <<durable, worker, sup, canceller, recovery, disturbed>>

Crash(p) ==
  /\ sup[p].pc # "idle" \/ \E a \in Attempts : worker[a] = p
  /\ bound.crashes < MaxCrashes
  /\ bound' = [bound EXCEPT !.crashes = @ + 1]
  /\ worker' = [a \in Attempts |-> IF worker[a] = p THEN NoSupervisor ELSE worker[a]]
  /\ Leave(p, "crashed")
  /\ UNCHANGED <<durable, aborted, canceller, recovery, disturbed>>

-----------------------------------------------------------------------------
(* cancelWorkAssignment, by another process: read, write the assignment,   *)
(* then read the graph and write it.                                       *)

CancelRead(a) ==
  /\ canceller.pc = "idle"
  /\ recovery.pc = "idle" \/ RecoverBesideLive
  /\ bound.cancels < MaxCancels
  /\ a \in Recorded
  /\ assignments[a].status \notin Outcome
  /\ canceller' = [pc |-> "put", attempt |-> a, team |-> assignments[a].team]
  /\ bound' = [bound EXCEPT !.cancels = @ + 1]
  /\ UNCHANGED <<durable, worker, sup, aborted, recovery, disturbed>>

CancelIdle == canceller' = [pc |-> "idle", attempt |-> NoAssignment, team |-> 0]

CancelPut ==
  /\ canceller.pc = "put"
  /\ \/ /\ PutAssignment(canceller.attempt, "cancelled", canceller.team)
        /\ canceller' = [canceller EXCEPT !.pc = "graph"]
        /\ disturbed' = disturbed \cup {canceller.attempt}
     \/ /\ canceller.attempt \in behind.attempts
        /\ CancelIdle
        /\ UNCHANGED <<assignments, disturbed>>
  /\ UNCHANGED <<graph, teams, journal, behind, worker, sup, aborted, recovery, bound>>

CancelGraph ==
  LET n == canceller.attempt[1] IN
  /\ canceller.pc = "graph"
  /\ IF graph.status[n] = "running" /\ ~behind.graph
     THEN graph' = NextGraph(graph, [graph.status EXCEPT ![n] = "blocked"])
     ELSE UNCHANGED graph
  /\ CancelIdle
  /\ UNCHANGED <<assignments, teams, journal, behind, worker, sup, aborted, recovery,
                 disturbed, bound>>

CrashCancel ==
  /\ canceller.pc # "idle"
  /\ bound.crashes < MaxCrashes
  /\ bound' = [bound EXCEPT !.crashes = @ + 1]
  /\ CancelIdle
  /\ UNCHANGED <<durable, worker, sup, aborted, recovery, disturbed>>

-----------------------------------------------------------------------------
(* reconcileInterruptedAssignments: list what is running, take a           *)
(* checkpoint, mark each interrupted, block their nodes, append a receipt. *)
(* Any failure on the way restores the checkpoint.                         *)

Alone == canceller.pc = "idle" /\ \A p \in Supervisors :
           sup[p].pc = "idle" /\ \A a \in Attempts : worker[a] # p

RecoverList ==
  /\ recovery.pc = "idle"
  /\ Alone \/ RecoverBesideLive
  /\ InStatus("running") # {}
  /\ bound.recoveries < MaxRecoveries
  /\ bound' = [bound EXCEPT !.recoveries = @ + 1]
  /\ recovery' = [pc |-> "put", running |-> InStatus("running"), todo |-> InStatus("running"),
                  saved |-> [graph |-> graph, assignments |-> assignments,
                             heads |-> teams.heads]]
  /\ UNCHANGED <<durable, worker, sup, aborted, canceller, disturbed>>

RecoverIdle == recovery' = [pc |-> "idle", running |-> {}, todo |-> {}, saved |-> {}]

(* Mutant: the assignment gets the status its node is to have.             *)
RecoverPutBlocked(a) ==
  /\ recovery.pc = "put"
  /\ a \in recovery.todo
  /\ PutAssignment(a, "blocked", recovery.saved.assignments[a].team)
  /\ recovery' = [recovery EXCEPT !.todo = @ \ {a},
                    !.pc = IF recovery.todo = {a} THEN "graph" ELSE "put"]
  /\ UNCHANGED <<graph, teams, journal, behind, worker, sup, aborted, canceller, disturbed, bound>>

RecoverPut(a) ==
  /\ recovery.pc = "put"
  /\ a \in recovery.todo
  /\ PutAssignment(a, "interrupted", recovery.saved.assignments[a].team)
  /\ recovery' = [recovery EXCEPT !.todo = @ \ {a},
                    !.pc = IF recovery.todo = {a} THEN "graph" ELSE "put"]
  /\ UNCHANGED <<graph, teams, journal, behind, worker, sup, aborted, canceller, disturbed, bound>>

Unblocked(g) ==
  [n \in Nodes |-> IF g.status[n] = "running" /\ \E a \in recovery.running : a[1] = n
                   THEN "blocked" ELSE g.status[n]]

RecoverGraph ==
  LET snap == recovery.saved.graph IN
  /\ recovery.pc = "graph"
  /\ NextRevision(snap, Unblocked(snap))
  /\ ~behind.graph
  /\ graph' = NextGraph(snap, Unblocked(snap))
  /\ recovery' = [recovery EXCEPT !.pc = "receipt"]
  /\ UNCHANGED <<assignments, teams, journal, behind, worker, sup, aborted, canceller,
                 disturbed, bound>>

RecoverReceipt ==
  /\ recovery.pc = "receipt"
  /\ RecoverIdle
  /\ UNCHANGED <<durable, worker, sup, aborted, canceller, disturbed, bound>>

(* A conflict on an assignment, on the graph, or on the sequence number of *)
(* the receipt, which any process of the home may take first.              *)
(* The restore brings back every document of the programme as it was at    *)
(* the list; what was written since is behind its newest row.              *)
RecoverRestore ==
  LET saved == recovery.saved IN
  /\ \/ recovery.pc = "put" /\ \E a \in recovery.todo : a \in behind.attempts
     \/ /\ recovery.pc = "graph"
        /\ ~NextRevision(saved.graph, Unblocked(saved.graph)) \/ behind.graph
     \/ recovery.pc = "receipt"
  /\ graph' = saved.graph
  /\ assignments' = saved.assignments
  /\ teams' = [teams EXCEPT !.heads = saved.heads]
  /\ behind' = [graph |-> behind.graph \/ saved.graph # graph,
                attempts |-> behind.attempts
                  \cup {a \in Recorded : saved.assignments[a] # assignments[a]},
                cycles |-> TRUE]
  /\ RecoverIdle
  /\ UNCHANGED <<journal, worker, sup, aborted, canceller, disturbed, bound>>

CrashRecovery ==
  /\ recovery.pc # "idle"
  /\ bound.crashes < MaxCrashes
  /\ bound' = [bound EXCEPT !.crashes = @ + 1]
  /\ RecoverIdle
  /\ UNCHANGED <<durable, worker, sup, aborted, canceller, disturbed>>

-----------------------------------------------------------------------------
(* An operator puts the next revision of the graph: decides a gate, sets   *)
(* one, or cancels a node.                                                 *)
Edit(n) ==
  /\ recovery.pc = "idle" \/ RecoverBesideLive
  /\ bound.edits < MaxEdits
  /\ ~behind.graph
  /\ graph.status[n] \notin {"completed", "cancelled"}
  /\ \E status \in {graph.status[n], "cancelled"}, gated \in {graph.gated \cup {n}, graph.gated \ {n}} :
       /\ <<status, gated>> # <<graph.status[n], graph.gated>>
       /\ status = "cancelled" => gated = graph.gated
       /\ graph' = NextGraph([graph EXCEPT !.gated = gated],
                             [graph.status EXCEPT ![n] = status])
  /\ bound' = [bound EXCEPT !.edits = @ + 1]
  /\ UNCHANGED <<assignments, teams, journal, behind, worker, sup, aborted, canceller,
                 recovery, disturbed>>

-----------------------------------------------------------------------------
(* The steps superviseUntilStop takes by itself once called, the answers   *)
(* of its executors included.                                              *)
SupervisorStep(p) ==
  \/ CycleRead(p) \/ AssertRevision(p) \/ Promote(p) \/ FormTeam(p) \/ StaffTeam(p)
  \/ ListPlanned(p) \/ StartWork(p) \/ NextChunk(p) \/ RejectChunk(p) \/ CloseCycle(p)
  \/ \E a \in Attempts :
       \/ PlanAssignment(p, a) \/ MarkRunning(p, a) \/ Dispatch(p, a)
       \/ FinishWork(p, a) \/ RecordOutcome(p, a)

RecoveryStep ==
  RecoverGraph \/ RecoverReceipt \/ RecoverRestore \/ \E a \in Attempts : RecoverPut(a)

Next ==
  \/ \E p \in Supervisors : Supervise(p) \/ SupervisorStep(p) \/ Abort(p) \/ Crash(p)
  \/ \E a \in Attempts : CancelRead(a)
  \/ CancelPut \/ CancelGraph \/ CrashCancel
  \/ RecoverList \/ RecoveryStep \/ CrashRecovery
  \/ \E n \in Nodes : Edit(n)

Spec == Init /\ [][Next]_vars

(* Once called, a supervisor runs on: the code between two awaits is       *)
(* synchronous, and what it awaits answers or times out.  Nobody has to    *)
(* call one, to cancel, to recover or to edit.                             *)
FairSpec == Spec /\ \A p \in Supervisors : WF_vars(SupervisorStep(p))

-----------------------------------------------------------------------------
(* Properties                                                              *)

Graph == [revision : Nat, version : Nat, status : [Nodes -> NodeStatus],
          gated : SUBSET Nodes]

Assignment == [status : AssignmentStatus, team : Nat, version : Nat]

ASSUME NoAssignmentAssumption == NoAssignment \notin Assignment

TypeOK ==
  /\ graph \in Graph
  /\ assignments \in [Attempts -> Assignment \cup {NoAssignment}]
  /\ teams.heads \subseteq teams.rows
  /\ journal \in [Attempts -> {"none", "dispatched"} \cup Outcome]
  /\ worker \in [Attempts -> Supervisors \cup {NoSupervisor}]
  /\ \A p \in Supervisors :
       /\ sup[p].snap \in Graph
       /\ sup[p].next \in [Nodes -> NodeStatus]
       /\ UNION {sup[p].running, sup[p].todo, sup[p].chunk} \subseteq Attempts
       /\ sup[p].outcome \in [Attempts -> {"none", "awaited", "conflict"} \cup Outcome]
       /\ sup[p].stop \in StopReason \cup {"none", "rejected", "crashed"}
  /\ behind \in [graph : BOOLEAN, attempts : SUBSET Attempts, cycles : BOOLEAN]

(* Work never runs ahead of the graph: a node that has left "pending"      *)
(* other than by being cancelled has all its dependencies completed,       *)
(* whatever snapshot the supervisor that moved it had in hand.             *)
DependencyGate ==
  \A n \in Nodes :
    graph.status[n] \notin {"pending", "cancelled"} => dependenciesSatisfied(graph, n)

(* A new version of the graph starts a node only out of "ready", with no   *)
(* gate on it and its dependencies completed in the version it replaces;   *)
(* an edit that lands between the forming of the team and the start is not *)
(* overtaken.                                                              *)
StartGate ==
  [][\A n \in Nodes :
       /\ graph'.version > graph.version
       /\ graph.status[n] # "running" /\ graph'.status[n] = "running"
       => Runnable(graph, n)]_vars

(* An item is in the hands of one executor at a time, also when several    *)
(* supervisors retry it and reconciliations come in between, unless an     *)
(* attempt at it was cancelled, or taken up by a cycle that had counted    *)
(* the same team id as another.                                            *)
OneAttemptAtATime ==
  \A a, b \in Attempts :
    a[1] = b[1] /\ a # b /\ worker[a] # NoSupervisor /\ worker[b] # NoSupervisor
      => \E c \in disturbed : c[1] = a[1]

(* Nothing is completed by fiat: a completed node has an attempt, and a    *)
(* succeeded assignment is one, whose journal row says succeeded.  No      *)
(* overtaken write, restore or reconciliation makes up a success.          *)
NoFabricatedCompletion ==
  /\ \A n \in Nodes : graph.status[n] = "completed" =>
       \E a \in Attempts : a[1] = n /\ journal[a] = "succeeded"
  /\ \A a \in InStatus("succeeded") : journal[a] = "succeeded"

(* However two supervisors came to run the same attempt, only one of them  *)
(* hands it to an executor: the other's cycle is rejected.                 *)
OneRunnerPerAttempt ==
  \A p, q \in Supervisors, a \in Attempts :
    p # q /\ sup[p].outcome[a] \in {"awaited", "succeeded"}
      => sup[q].outcome[a] \notin {"awaited", "succeeded"}

(* A dispatch whose answer was lost in a crash is not followed by another  *)
(* attempt at the same item.                                               *)
UncertainNotRepeated ==
  \A a, b \in Attempts :
    a[1] = b[1] /\ a[2] < b[2] /\ journal[b] # "none"
      => journal[a] # "dispatched" \/ worker[a] # NoSupervisor

(* What a supervisor reported when it stopped is so, and stays so whatever *)
(* others do next: "completed" means that every node is completed, and     *)
(* "cancelled" without an abort that a node is cancelled.                  *)
StopVerdict ==
  \A p \in Supervisors :
    /\ sup[p].stop = "completed" => \A n \in Nodes : graph.status[n] = "completed"
    /\ sup[p].stop = "cancelled" /\ p \notin aborted
         => \E n \in Nodes : graph.status[n] = "cancelled"

(* When every process is down, what the graph calls running can be found   *)
(* by the reconciliation: the node has an assignment that is "running".    *)
AbandonedWorkIsFound ==
  Alone /\ recovery.pc = "idle" =>
    \A n \in Nodes : graph.status[n] = "running" =>
      \E a \in previousAttempts(n) : assignments[a].status = "running"

(* No attempt is dispatched while an earlier one at the same item is still *)
(* recorded as running, by this process or by one that crashed; only its   *)
(* outcome, a cancellation or the reconciliation makes room for it.        *)
(* Beside other supervisors an item is excepted when an attempt at it was  *)
(* cancelled, or taken up under a team id that two cycles had counted.     *)
RunningBlocksRetry ==
  \A a, b \in Attempts :
    /\ a[1] = b[1] /\ a[2] < b[2] /\ journal[b] # "none"
    /\ a \in Recorded /\ assignments[a].status = "running"
    => /\ \E p, q \in Supervisors : p # q
       /\ \E c \in disturbed : c[1] = a[1]

(* Whoever calls superviseUntilStop gets an answer.                        *)
SupervisionReturns ==
  \A p \in Supervisors : sup[p].pc # "idle" ~> sup[p].pc = "idle"
=============================================================================
