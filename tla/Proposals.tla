------------------------------ MODULE Proposals ------------------------------
(***************************************************************************)
(* Proposals of a programme with its work graph, made by a planning        *)
(* strategy or by hand (packages/runtime/src/supervision-extension.ts):    *)
(* planProgramme, validateProgrammeProposal, acceptProgrammeProposal.      *)
(*                                                                         *)
(* Accepting validates the whole proposal, then writes it in parts: a      *)
(* checkpoint, the programme, the graph, the replan event.  Each put is a  *)
(* check and a transaction of its own; what other processes write comes    *)
(* between the parts, and a crash or a refusal leaves those before it.     *)
(*                                                                         *)
(* One programme; a graph has one node, whose parent is a workstream.      *)
(* GraphValidation has the rest of a graph's structure, DocumentStore the  *)
(* race inside a put and what a restored checkpoint brings back.           *)
(***************************************************************************)
EXTENDS Lifecycle, FiniteSets, Naturals

CONSTANTS
  Planners,        \* processes
  WorkGraphIds, Missions, Streams,
  ProposalIds,
  Proposals        \* what strategies and callers propose

ProgrammeStatus == {"planned", "active", "paused", "completed", "cancelled"}

ASSUME ProposalsAssumption ==
  Proposals \subseteq
    [id : ProposalIds, mission : Missions, revision : Nat, status : ProgrammeStatus,
     streams : SUBSET Streams, graph : WorkGraphIds, graphRevision : Nat,
     node : NodeStatus, stream : Streams]

VARIABLES
  programme,       \* the programme document, NoProgramme before the first
  graphs,          \* graphs[g]: the work-graph document with id g, or NoGraph
  replans,         \* proposals with a replan event
  strategies,      \* processes in which the planning strategy is registered
  accepting        \* accepting[p]: the proposal a process is working on

proposalVars == <<programme, graphs, replans, strategies, accepting>>

NoProgramme == [revision |-> 0]
NoGraph == [owner |-> "none", revision |-> 0]

(* A graph of another programme is never written here.                     *)
Foreign == [owner |-> "other", revision |-> 1, node |-> "ready", stream |-> "elsewhere"]

NothingProposed == [step |-> "idle"]

ProposalsInit ==
  /\ programme = NoProgramme
  /\ graphs \in [WorkGraphIds -> {NoGraph, Foreign}]
  /\ \E g \in WorkGraphIds : graphs[g] = NoGraph
  /\ replans = {} /\ strategies = {}
  /\ accepting = [p \in Planners |-> NothingProposed]

Existing == programme # NoProgramme

(* listWorkGraphs of the programme.                                        *)
OwnGraphs == {g \in WorkGraphIds : graphs[g].owner = "programme"}

-----------------------------------------------------------------------------
(* assertTransition for programmes.                                        *)
ProgrammeMay(from, to) ==
  \/ from = to
  \/ from = "planned" /\ to \in {"active", "cancelled"}
  \/ from = "active" /\ to \in {"paused", "completed", "cancelled"}
  \/ from = "paused" /\ to \in {"active", "cancelled"}

NextRevisionIs(document, revision) == revision = document.revision + 1

(* What validateProgrammeProposal asks of the programme, ...               *)
ProgrammeValid(q) ==
  /\ NextRevisionIs(programme, q.revision)
  /\ Existing => ProgrammeMay(programme.status, q.status)

(* ... and of the graph: whatever its id, it must follow the programme's.  *)
GraphFollows(q, prior) ==
  /\ NextRevisionIs(prior, q.graphRevision)
  /\ prior # NoGraph => MayMove(prior.node, q.node)

(* Mutant: the statuses of the nodes are left to putWorkGraph.             *)
GraphRevisionValid(q) ==
  /\ q.stream \in q.streams
  /\ Cardinality(OwnGraphs) <= 1
  /\ IF OwnGraphs = {} THEN q.graphRevision = 1
     ELSE \A g \in OwnGraphs : NextRevisionIs(graphs[g], q.graphRevision)

GraphValid(q) ==
  /\ q.stream \in q.streams
  /\ Cardinality(OwnGraphs) <= 1
  /\ IF OwnGraphs = {} THEN GraphFollows(q, NoGraph)
     ELSE \A g \in OwnGraphs : GraphFollows(q, graphs[g])

(* The reads of a validation are one step here: a write that comes between *)
(* two of them is met by the puts, which read again.                       *)
Validated(q) == ProgrammeValid(q) /\ GraphValid(q)

(* What the puts refuse and the validation lets pass: another mission, a   *)
(* graph id that is not the programme's; likewise the id of a proposal     *)
(* accepted before, and a programme whose graph is missing, of which no    *)
(* checkpoint can be made.                                                 *)
Regular(q) ==
  /\ q.id \notin replans
  /\ IF Existing THEN q.mission = programme.mission /\ OwnGraphs = {q.graph}
                 ELSE graphs[q.graph] = NoGraph

Working(p, step, q, regular, overtaken) ==
  accepting' = [accepting EXCEPT ![p] =
    [step |-> step, proposal |-> q, regular |-> regular, overtaken |-> overtaken,
     existing |-> Existing]]

Gives(p) == accepting' = [accepting EXCEPT ![p] = NothingProposed]

(* Step p on; a write overtakes everybody else who has validated.          *)
Wrote(p, next) ==
  accepting' = [r \in Planners |->
    IF r = p THEN next
    ELSE IF accepting[r].step = "idle" THEN accepting[r]
    ELSE [accepting[r] EXCEPT !.overtaken = TRUE]]

Onward(p, step) == [accepting[p] EXCEPT !.step = step]

-----------------------------------------------------------------------------
RegisterPlanningStrategy(p) ==
  /\ p \notin strategies
  /\ strategies' = strategies \cup {p}
  /\ UNCHANGED <<programme, graphs, replans, accepting>>

(* planProgramme: the strategy's answer is validated when it comes, and    *)
(* superviseUntilStop hands it to acceptProgrammeProposal.                 *)
PlanProgramme(p, q) ==
  /\ accepting[p] = NothingProposed
  /\ p \in strategies
  /\ Validated(q)
  /\ Working(p, "planned", q, FALSE, FALSE)
  /\ UNCHANGED <<programme, graphs, replans, strategies>>

(* acceptProgrammeProposal, of a plan or of a proposal handed in: it       *)
(* throws, or goes on to the checkpoint of a programme that exists.        *)
AcceptProposal(p, q, checkpointBeforeApply) ==
  /\ \/ accepting[p] = NothingProposed
     \/ accepting[p].step = "planned" /\ accepting[p].proposal = q /\ checkpointBeforeApply
  /\ IF Validated(q)
     THEN Working(p, IF Existing /\ checkpointBeforeApply THEN "checkpoint" ELSE "programme",
                  q, Regular(q), FALSE)
     ELSE Gives(p)
  /\ UNCHANGED <<programme, graphs, replans, strategies>>

(* createCheckpoint wants exactly one graph of the programme; a checkpoint *)
(* of the same millisecond has its id, too.                                *)
CheckpointPossible == Cardinality(OwnGraphs) = 1

CheckpointFirst(p) ==
  /\ accepting[p].step = "checkpoint"
  /\ \/ CheckpointPossible /\ accepting' = [accepting EXCEPT ![p] = Onward(p, "programme")]
     \/ Gives(p)
  /\ UNCHANGED <<programme, graphs, replans, strategies>>

(* putProgramme, which checks once more, and the mission.                  *)
ProgrammeAdmitted(q) ==
  /\ ProgrammeValid(q)
  /\ Existing => q.mission = programme.mission

ProgrammeOf(q) ==
  [revision |-> q.revision, status |-> q.status, mission |-> q.mission, streams |-> q.streams]

PutProgramme(p) ==
  LET q == accepting[p].proposal IN
  /\ accepting[p].step = "programme"
  /\ IF ProgrammeAdmitted(q)
     THEN programme' = ProgrammeOf(q) /\ Wrote(p, Onward(p, "graph"))
     ELSE Gives(p) /\ UNCHANGED programme
  /\ UNCHANGED <<graphs, replans, strategies>>

(* putWorkGraph looks at the workstreams the programme has by now, and at  *)
(* the graph with the id of this one.                                      *)
GraphAdmitted(q) ==
  /\ q.stream \in programme.streams
  /\ graphs[q.graph].owner # "other"
  /\ GraphFollows(q, graphs[q.graph])

PutGraphOf(q) ==
  graphs' = [graphs EXCEPT ![q.graph] = [owner |-> "programme", revision |-> q.graphRevision,
                                         node |-> q.node, stream |-> q.stream]]

PutProposedGraph(p) ==
  LET q == accepting[p].proposal IN
  /\ accepting[p].step = "graph"
  /\ IF GraphAdmitted(q)
     THEN /\ PutGraphOf(q)
          /\ Wrote(p, IF accepting[p].existing THEN Onward(p, "replan") ELSE NothingProposed)
     ELSE Gives(p) /\ UNCHANGED graphs
  /\ UNCHANGED <<programme, replans, strategies>>

(* recordReplanEvent: an id is used once, else the accepting call throws.  *)
RecordReplanEvent(p) ==
  /\ accepting[p].step = "replan"
  /\ replans' = replans \cup {accepting[p].proposal.id}
  /\ Wrote(p, NothingProposed)
  /\ UNCHANGED <<programme, graphs, strategies>>

PlannerDies(p) ==
  /\ accepting[p] # NothingProposed
  /\ Gives(p)
  /\ strategies' = strategies \ {p}
  /\ UNCHANGED <<programme, graphs, replans>>

(* putProgramme and putWorkGraph called for themselves, by an operator, a  *)
(* supervisor or an approval; what they write is one half of a proposal.   *)
EditProgramme(q) ==
  /\ ProgrammeAdmitted(q)
  /\ programme' = ProgrammeOf(q)
  /\ Wrote("nobody", NothingProposed)
  /\ UNCHANGED <<graphs, replans, strategies>>

EditOwnGraph(q) ==
  /\ Existing /\ GraphAdmitted(q)
  /\ PutGraphOf(q)
  /\ Wrote("nobody", NothingProposed)
  /\ UNCHANGED <<programme, replans, strategies>>

ProposalsNext ==
  \/ \E p \in Planners :
       \/ RegisterPlanningStrategy(p)
       \/ \E q \in Proposals :
            PlanProgramme(p, q) \/ \E checkpoint \in BOOLEAN : AcceptProposal(p, q, checkpoint)
       \/ CheckpointFirst(p) \/ PutProgramme(p) \/ PutProposedGraph(p) \/ RecordReplanEvent(p)
       \/ PlannerDies(p)
  \/ \E q \in Proposals : EditProgramme(q) \/ EditOwnGraph(q)

ProposalsSpec == ProposalsInit /\ [][ProposalsNext]_proposalVars

-----------------------------------------------------------------------------
(* Properties                                                              *)

ProposalsTypeOK ==
  /\ programme.revision \in Nat
  /\ \A g \in WorkGraphIds : graphs[g].owner \in {"none", "other", "programme"}
  /\ replans \subseteq ProposalIds /\ strategies \subseteq Planners
  /\ \A p \in Planners :
       \/ accepting[p] = NothingProposed
       \/ /\ accepting[p].step \in {"planned", "checkpoint", "programme", "graph", "replan"}
          /\ accepting[p].proposal \in Proposals

(* A proposal that passed the validation is accepted in full when nobody   *)
(* writes in between: no part of acceptProgrammeProposal refuses what the  *)
(* validation let pass, so no call leaves a programme without its graph.   *)
(* Proposals that are not Regular are refused half-way: that is the code's *)
(* behaviour, too.                                                         *)
ValidatedIsAccepted ==
  \A p \in Planners :
    accepting[p] # NothingProposed /\ accepting[p].step # "planned"
    /\ accepting[p].regular /\ ~accepting[p].overtaken =>
      LET q == accepting[p].proposal IN
      CASE accepting[p].step = "checkpoint" -> CheckpointPossible /\ ProgrammeAdmitted(q)
        [] accepting[p].step = "programme" -> ProgrammeAdmitted(q)
        [] accepting[p].step = "graph" -> GraphAdmitted(q)
        [] accepting[p].step = "replan" -> q.id \notin replans
=============================================================================
