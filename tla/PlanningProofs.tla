--------------------------- MODULE PlanningProofs ---------------------------
(***************************************************************************)
(* What is proved of planning: the validation of work graphs, which judges *)
(* a graph, the acceptance of proposals, which writes it, and the ranking  *)
(* of capabilities, which staffs it.                                       *)
(***************************************************************************)
EXTENDS GraphValidation, Proposals, Selection, SequenceTheorems, FiniteSetTheorems, TLAPS

-----------------------------------------------------------------------------
(***************************************************************************)
(* Proofs about GraphValidation, for graphs of any size.                   *)
(*                                                                         *)
(* VerdictIsRight says what the two verdicts of the search rest on.  What  *)
(* the search knows on its way: the stack is a path of execution edges     *)
(* (StackIsPath), a node has been left after everything it depends on      *)
(* (LeftInOrder), and neither leads out of the graph (WithinGraph), since  *)
(* only graphs without dangling references are searched.                   *)
(***************************************************************************)

WithinGraph ==
  /\ graph \in WorkGraphs
  /\ verdict \in {"none", "valid", "CONFLICT", "INVALID_REFERENCE", "GRAPH_CYCLE"}
  /\ visiting \in Seq(WorkNodes) /\ visited \in Seq(WorkNodes)
  /\ \A i \in 1..Len(visiting) : visiting[i] \in ElementsOf(graph.nodes)
  /\ \A j \in 1..Len(visited) : visited[j] \in ElementsOf(graph.nodes)

StackIsPath ==
  \A i \in 1..(Len(visiting) - 1) : Execution(visiting[i], visiting[i + 1])

LeftInOrder ==
  \A j \in 1..Len(visited) : \A m \in WorkNodes :
    Execution(visited[j], m) => \E i \in 1..(j - 1) : visited[i] = m

(* The verdicts, as they are when they are given and stay from then on.    *)
VerdictStands ==
  /\ verdict = "valid" => \A n \in ElementsOf(graph.nodes) :
                            \E j \in 1..Len(visited) : visited[j] = n
  /\ verdict = "GRAPH_CYCLE" => \E i \in 1..Len(visiting) : Execution(Top, visiting[i])

GraphIInv == WithinGraph /\ StackIsPath /\ LeftInOrder /\ VerdictStands

-----------------------------------------------------------------------------
(* A graph of the constants has nodes and edges over the ids.              *)
LEMMA GraphShape ==
  ASSUME NEW g \in WorkGraphs
  PROVE  /\ g.nodes \in Seq(WorkNodes)
         /\ g.edges \subseteq [from : WorkNodes, to : WorkNodes, type : EdgeTypes]
  BY GraphAssumption DEF GraphAssumption

LEMMA ElementsAreEntries ==
  ASSUME NEW S, NEW seq \in Seq(S)
  PROVE  /\ ElementsOf(seq) \subseteq S
         /\ \A n : n \in ElementsOf(seq) <=> \E i \in 1..Len(seq) : seq[i] = n
  BY DEF ElementsOf

(* The successors the search follows are the execution edges.              *)
LEMMA AdjacencyIsExecution ==
  ASSUME graph \in WorkGraphs, NEW n, NEW m
  PROVE  m \in Adjacency(n) <=> Execution(n, m)
  BY DEF Adjacency, Execution

LEMMA ExecutionStays == UNCHANGED graph => \A n, m : Execution(n, m)' <=> Execution(n, m)
  BY DEF Execution

LEMMA FrontOfStack ==
  ASSUME NEW S, NEW seq \in Seq(S), seq # <<>>
  PROVE  /\ SubSeq(seq, 1, Len(seq) - 1) \in Seq(S)
         /\ Len(SubSeq(seq, 1, Len(seq) - 1)) = Len(seq) - 1
         /\ \A i \in 1..(Len(seq) - 1) : SubSeq(seq, 1, Len(seq) - 1)[i] = seq[i]
<1> DEFINE front == SubSeq(seq, 1, Len(seq) - 1)
<1>1. PICK n \in Nat : n = Len(seq) /\ n # 0
  BY EmptySeq
<1>2. n - 1 \in Int /\ \A i \in 1..(n - 1) : seq[i] \in S
  BY <1>1
<1>3. /\ front \in Seq(S)
      /\ Len(front) = IF 1 <= n - 1 THEN (n - 1) - 1 + 1 ELSE 0
      /\ \A i \in 1..((n - 1) - 1 + 1) : front[i] = seq[1 + i - 1]
  BY <1>1, <1>2, SubSeqProperties
<1> HIDE DEF front
<1>4. (n - 1) - 1 + 1 = n - 1
  OBVIOUS
<1>5. \A i \in 1..(n - 1) : 1 + i - 1 = i
  OBVIOUS
<1>6. Len(front) = n - 1
  BY <1>1, <1>3
<1>7. \A i \in 1..(n - 1) : front[i] = seq[i]
  BY <1>3, <1>4, <1>5
<1>8. QED
  BY <1>1, <1>3, <1>6, <1>7 DEF front

LEMMA VisitFacts ==
  ASSUME NEW S, NEW seq \in Seq(S), NEW x \in S
  PROVE  /\ Append(seq, x) \in Seq(S)
         /\ Len(Append(seq, x)) = Len(seq) + 1
         /\ \A i \in 1..Len(seq) : Append(seq, x)[i] = seq[i]
         /\ Append(seq, x)[Len(seq) + 1] = x
  OBVIOUS

-----------------------------------------------------------------------------
LEMMA GraphInitIInv == GraphInit => GraphIInv
  BY DEF GraphInit, GraphIInv, WithinGraph, StackIsPath, LeftInOrder, VerdictStands

(* What a step of the search pushes is a node of the graph.                *)
LEMMA VisitedIsNode ==
  ASSUME WithinGraph, NEW n \in WorkNodes, Visit(n)
  PROVE  n \in ElementsOf(graph.nodes)
<1>1. CASE visiting = <<>>
  BY <1>1 DEF Visit
<1>2. CASE visiting # <<>>
  <2>1. PICK e \in graph.edges : e.to = n
    BY <1>2 DEF Visit, Adjacency
  <2>2. QED
    BY <2>1 DEF Visit, Searching, Sound, UnknownReference
<1>3. QED
  BY <1>1, <1>2

LEMMA GraphStepIInv == GraphIInv /\ [GraphNext]_graphVars => GraphIInv'
<1> SUFFICES ASSUME GraphIInv, [GraphNext]_graphVars PROVE GraphIInv'
  OBVIOUS
<1>t. WithinGraph /\ StackIsPath /\ LeftInOrder /\ VerdictStands
  BY DEF GraphIInv
<1>l. Len(visiting) \in Nat /\ Len(visited) \in Nat
  BY <1>t DEF WithinGraph
<1>1. CASE Refuse
  <2>1. /\ UNCHANGED <<graph, visiting, visited>>
        /\ verdict' \in {"CONFLICT", "INVALID_REFERENCE"}
    BY <1>1 DEF Refuse
  <2>2. QED
    BY <2>1, <1>t, ExecutionStays
    DEF GraphIInv, WithinGraph, StackIsPath, LeftInOrder, VerdictStands
<1>2. ASSUME NEW n \in WorkNodes, Visit(n) PROVE GraphIInv'
  <2>1. /\ verdict = "none" /\ UNCHANGED <<graph, verdict, visited>>
        /\ visiting' = Append(visiting, n)
    BY <1>2 DEF Visit, Searching
  <2>2. n \in ElementsOf(graph.nodes)
    BY <1>t, <1>2, VisitedIsNode
  <2>3. /\ visiting' \in Seq(WorkNodes) /\ Len(visiting') = Len(visiting) + 1
        /\ \A i \in 1..Len(visiting) : visiting'[i] = visiting[i]
        /\ visiting'[Len(visiting) + 1] = n
    BY <2>1, <1>t, VisitFacts DEF WithinGraph
  <2>4. WithinGraph'
    BY <2>1, <2>2, <2>3, <1>t, <1>l DEF WithinGraph
  <2>5. StackIsPath'
    <3> SUFFICES ASSUME NEW i \in 1..(Len(visiting') - 1)
                 PROVE  Execution(visiting'[i], visiting'[i + 1])
      BY <2>1, ExecutionStays DEF StackIsPath
    <3>1. CASE i = Len(visiting)
      <4>1. visiting # <<>> /\ visiting'[i] = Top /\ visiting'[i + 1] = n
        BY <3>1, <2>3, <1>l DEF Top
      <4>2. n \in Adjacency(Top)
        BY <4>1, <1>2 DEF Visit
      <4>3. QED
        BY <4>1, <4>2, <1>t, AdjacencyIsExecution DEF WithinGraph
    <3>2. CASE i < Len(visiting)
      BY <3>2, <2>3, <1>t, <1>l DEF StackIsPath
    <3>3. QED
      BY <3>1, <3>2, <2>3, <1>l
  <2>6. LeftInOrder' /\ VerdictStands'
    BY <2>1, <1>t, ExecutionStays DEF LeftInOrder, VerdictStands
  <2>7. QED
    BY <2>4, <2>5, <2>6 DEF GraphIInv
<1>3. CASE FindCycle
  <2>1. UNCHANGED <<graph, visiting, visited>> /\ verdict' = "GRAPH_CYCLE"
    BY <1>3 DEF FindCycle
  <2>2. PICK m \in ElementsOf(visiting) : m \in Adjacency(Top)
    BY <1>3 DEF FindCycle
  <2>3. PICK i \in 1..Len(visiting) : visiting[i] = m
    BY <2>2, <1>t, ElementsAreEntries DEF WithinGraph
  <2>4. Execution(Top, visiting[i])
    BY <2>2, <2>3, <1>t, AdjacencyIsExecution DEF WithinGraph
  <2>5. VerdictStands'
    BY <2>1, <2>4, ExecutionStays DEF VerdictStands, Top
  <2>6. QED
    BY <2>1, <2>5, <1>t, ExecutionStays DEF GraphIInv, WithinGraph, StackIsPath, LeftInOrder
<1>4. CASE LeaveNode
  <2>1. /\ verdict = "none" /\ UNCHANGED <<graph, verdict>>
        /\ visiting # <<>> /\ Adjacency(Top) \subseteq ElementsOf(visited)
        /\ visited' = Append(visited, Top)
        /\ visiting' = SubSeq(visiting, 1, Len(visiting) - 1)
    BY <1>4 DEF LeaveNode, AllSuccessorsVisited, Searching
  <2>2. Len(visiting) # 0 /\ Top \in WorkNodes /\ Top \in ElementsOf(graph.nodes)
    <3>1. Len(visiting) # 0
      BY <2>1, <1>t, EmptySeq DEF WithinGraph
    <3>2. QED
      BY <3>1, <1>t, <1>l DEF WithinGraph, Top
  <2>3. /\ visited' \in Seq(WorkNodes) /\ Len(visited') = Len(visited) + 1
        /\ \A j \in 1..Len(visited) : visited'[j] = visited[j]
        /\ visited'[Len(visited) + 1] = Top
    BY <2>1, <2>2, <1>t, VisitFacts DEF WithinGraph
  <2>4. /\ visiting' \in Seq(WorkNodes) /\ Len(visiting') = Len(visiting) - 1
        /\ \A i \in 1..(Len(visiting) - 1) : visiting'[i] = visiting[i]
    BY <2>1, <1>t, FrontOfStack DEF WithinGraph
  <2>5. WithinGraph'
    BY <2>1, <2>2, <2>3, <2>4, <1>t, <1>l DEF WithinGraph
  <2>6. StackIsPath'
    BY <2>1, <2>4, <1>t, <1>l, ExecutionStays DEF StackIsPath
  <2>7. LeftInOrder'
    <3> SUFFICES ASSUME NEW j \in 1..Len(visited'), NEW m \in WorkNodes,
                        Execution(visited'[j], m)
                 PROVE  \E i \in 1..(j - 1) : visited'[i] = m
      BY <2>1, ExecutionStays DEF LeftInOrder
    <3>1. CASE j = Len(visited) + 1
      <4>1. m \in ElementsOf(visited)
        BY <3>1, <2>1, <2>3, <1>t, AdjacencyIsExecution DEF WithinGraph
      <4>2. PICK i \in 1..Len(visited) : visited[i] = m
        BY <4>1, <1>t, ElementsAreEntries DEF WithinGraph
      <4>3. QED
        BY <3>1, <4>2, <2>3, <1>l
    <3>2. CASE j # Len(visited) + 1
      <4>1. j \in 1..Len(visited)
        BY <3>2, <2>3, <1>l
      <4>2. PICK i \in 1..(j - 1) : visited[i] = m
        BY <4>1, <2>3, <1>t DEF LeftInOrder
      <4>3. QED
        BY <4>1, <4>2, <2>3, <1>l
    <3>3. QED
      BY <3>1, <3>2
  <2>8. QED
    BY <2>1, <2>5, <2>6, <2>7 DEF GraphIInv, VerdictStands
<1>5. CASE Accept
  <2>1. /\ UNCHANGED <<graph, visiting, visited>> /\ verdict' = "valid"
        /\ ElementsOf(graph.nodes) \subseteq ElementsOf(visited)
    BY <1>5 DEF Accept
  <2>2. \A n \in ElementsOf(graph.nodes) : \E j \in 1..Len(visited) : visited[j] = n
    BY <2>1, <1>t, ElementsAreEntries DEF WithinGraph
  <2>3. QED
    BY <2>1, <2>2, <1>t, ExecutionStays
    DEF GraphIInv, WithinGraph, StackIsPath, LeftInOrder, VerdictStands
<1>6. CASE UNCHANGED graphVars
  BY <1>6, <1>t, ExecutionStays
  DEF graphVars, GraphIInv, WithinGraph, StackIsPath, LeftInOrder, VerdictStands, Top
<1>7. QED
  BY <1>1, <1>2, <1>3, <1>4, <1>5, <1>6 DEF GraphNext

(* The search keeps to ids it was given.                                   *)
THEOREM SearchIsTyped == GraphSpec => []GraphTypeOK
<1>1. GraphIInv => GraphTypeOK
  BY GraphShape DEF GraphIInv, WithinGraph, GraphTypeOK
<1>2. QED
  BY <1>1, GraphInitIInv, GraphStepIInv, PTL DEF GraphSpec

(* Whatever order nodes and edges are visited in, a graph that passes      *)
(* validateGraphStructure can be executed in the order its nodes were      *)
(* left, and one refused for a cycle has the cycle the search stands on    *)
(* (graph-validation.ts).                                                  *)
THEOREM VerdictsAreRight == GraphSpec => []VerdictIsRight
<1>1. ASSUME GraphIInv PROVE VerdictIsRight
  <2>1. WithinGraph /\ StackIsPath /\ LeftInOrder /\ VerdictStands
    BY <1>1 DEF GraphIInv
  <2>2. graph.nodes \in Seq(WorkNodes)
    BY <2>1, GraphShape DEF WithinGraph
  <2>3. ASSUME verdict = "valid" PROVE ElementsOf(visited) = ElementsOf(graph.nodes)
    <3>1. \A n : n \in ElementsOf(visited) <=> \E j \in 1..Len(visited) : visited[j] = n
      BY <2>1, ElementsAreEntries DEF WithinGraph
    <3>2. \A n \in ElementsOf(visited) : n \in ElementsOf(graph.nodes)
      BY <3>1, <2>1 DEF WithinGraph
    <3>3. \A n \in ElementsOf(graph.nodes) : n \in ElementsOf(visited)
      BY <3>1, <2>1, <2>3 DEF VerdictStands
    <3>4. QED
      BY <3>2, <3>3
  <2>4. DOMAIN visited = 1..Len(visited) /\ DOMAIN visiting = 1..Len(visiting)
    BY <2>1 DEF WithinGraph
  <2>5. QED
    BY <2>1, <2>3, <2>4 DEF VerdictIsRight, StackIsPath, LeftInOrder, VerdictStands
<1>2. QED
  BY <1>1, GraphInitIInv, GraphStepIInv, PTL DEF GraphSpec
-----------------------------------------------------------------------------
(***************************************************************************)
(* Proofs about Proposals, for any number of processes, proposals, graphs  *)
(* and workstreams.                                                        *)
(*                                                                         *)
(* The writes of an acceptance come one after the other, and each checks   *)
(* for itself; the invariant says what the validation has left for each of *)
(* them (InOrder).  It needs that a programme is there before its graph    *)
(* is (ProgrammeFirst), or the validation would speak of another graph     *)
(* than the one that is written.                                           *)
(***************************************************************************)

ProposalSteps == {"planned", "checkpoint", "programme", "graph", "replan"}

Accepting ==
  [step : ProposalSteps, proposal : Proposals, regular : BOOLEAN, overtaken : BOOLEAN,
   existing : BOOLEAN]

PlansTyped ==
  /\ programme.revision \in Nat
  /\ graphs = [g \in WorkGraphIds |-> graphs[g]]
  /\ \A g \in WorkGraphIds : graphs[g].owner \in {"none", "other", "programme"}
  /\ replans \subseteq ProposalIds /\ strategies \subseteq Planners
  /\ accepting \in [Planners -> Accepting \cup {NothingProposed}]

ProgrammeFirst ==
  /\ Existing <=> programme.revision # 0
  /\ ~Existing => \A g \in WorkGraphIds : graphs[g].owner # "programme"
  /\ \A p \in Planners : accepting[p].step \in {"graph", "replan"} => Existing

NotOvertaken(p) ==
  /\ accepting[p].step \in {"checkpoint", "programme", "graph", "replan"}
  /\ accepting[p].regular /\ ~accepting[p].overtaken

InOrder(p) ==
  LET q == accepting[p].proposal
      step == accepting[p].step IN
  NotOvertaken(p) =>
    /\ q.id \notin replans
    /\ step = "checkpoint" => OwnGraphs = {q.graph}
    /\ step \in {"checkpoint", "programme"} => ProgrammeAdmitted(q) /\ q.stream \in q.streams
    /\ step \in {"checkpoint", "programme", "graph"} =>
         graphs[q.graph].owner # "other" /\ GraphFollows(q, graphs[q.graph])
    /\ step = "graph" => q.stream \in programme.streams

ProposalsIInv == PlansTyped /\ ProgrammeFirst /\ \A p \in Planners : InOrder(p)

-----------------------------------------------------------------------------
LEMMA ProposalShape ==
  ASSUME NEW q \in Proposals
  PROVE  /\ q.id \in ProposalIds /\ q.graph \in WorkGraphIds
         /\ q.revision \in Nat /\ q.graphRevision \in Nat
  BY ProposalsAssumption DEF ProposalsAssumption

LEMMA ProposalsInitIInv == ProposalsInit => ProposalsIInv
<1> SUFFICES ASSUME ProposalsInit PROVE ProposalsIInv
  OBVIOUS
<1>1. \A g \in WorkGraphIds : graphs[g].owner \in {"none", "other"}
  BY DEF ProposalsInit, NoGraph, Foreign
<1>2. graphs = [g \in WorkGraphIds |-> graphs[g]]
  BY DEF ProposalsInit
<1>3. \A p \in Planners : accepting[p] = NothingProposed /\ accepting[p].step = "idle"
  BY DEF ProposalsInit, NothingProposed
<1>4. PlansTyped
  BY <1>1, <1>2 DEF ProposalsInit, PlansTyped, NoProgramme
<1>5. ProgrammeFirst
  BY <1>1, <1>3 DEF ProposalsInit, ProgrammeFirst, Existing, NoProgramme
<1>6. \A p \in Planners : InOrder(p)
  BY <1>3 DEF InOrder, NotOvertaken
<1>7. QED
  BY <1>4, <1>5, <1>6 DEF ProposalsIInv

(* A write marks everybody else who is under way as overtaken.             *)
LEMMA WroteOvertakes ==
  ASSUME PlansTyped, NEW p, NEW next \in Accepting \cup {NothingProposed}, Wrote(p, next)
  PROVE  /\ accepting' \in [Planners -> Accepting \cup {NothingProposed}]
         /\ p \in Planners => accepting'[p] = next
         /\ \A r \in Planners : r # p => ~NotOvertaken(r)'
         /\ \A r \in Planners : r # p => accepting'[r].step = accepting[r].step
<1>1. \A r \in Planners :
        accepting'[r] = IF r = p THEN next
                        ELSE IF accepting[r].step = "idle" THEN accepting[r]
                        ELSE [accepting[r] EXCEPT !.overtaken = TRUE]
  BY DEF Wrote
<1>2. ASSUME NEW r \in Planners, accepting[r].step # "idle"
      PROVE  /\ accepting[r] \in Accepting
             /\ [accepting[r] EXCEPT !.overtaken = TRUE] \in Accepting
             /\ [accepting[r] EXCEPT !.overtaken = TRUE].overtaken = TRUE
             /\ [accepting[r] EXCEPT !.overtaken = TRUE].step = accepting[r].step
  <2>1. accepting[r] \in Accepting
    BY <1>2 DEF PlansTyped, NothingProposed
  <2>2. QED
    BY <2>1 DEF Accepting
<1>3. accepting' \in [Planners -> Accepting \cup {NothingProposed}]
  <2>1. \A r \in Planners : accepting'[r] \in Accepting \cup {NothingProposed}
    BY <1>1, <1>2 DEF PlansTyped
  <2>2. QED
    BY <2>1 DEF Wrote
<1>4. \A r \in Planners : r # p => ~NotOvertaken(r)'
  BY <1>1, <1>2 DEF NotOvertaken
<1>5. \A r \in Planners : r # p => accepting'[r].step = accepting[r].step
  BY <1>1, <1>2
<1>6. QED
  BY <1>1, <1>3, <1>4, <1>5

LEMMA OnwardFacts ==
  ASSUME PlansTyped, NEW p \in Planners, accepting[p].step # "idle", NEW step \in ProposalSteps
  PROVE  /\ Onward(p, step) \in Accepting
         /\ Onward(p, step).step = step
         /\ Onward(p, step).proposal = accepting[p].proposal
         /\ Onward(p, step).regular = accepting[p].regular
         /\ Onward(p, step).overtaken = accepting[p].overtaken
<1>1. accepting[p] \in Accepting
  BY DEF PlansTyped, NothingProposed
<1>2. QED
  BY <1>1 DEF Onward, Accepting

(* Where a call goes that does not write the state.                        *)
LEMMA OnlyOneMoves ==
  ASSUME ProposalsIInv, NEW p \in Planners, NEW next \in Accepting \cup {NothingProposed},
         accepting' = [accepting EXCEPT ![p] = next],
         UNCHANGED <<programme, graphs, replans>>, strategies' \subseteq Planners,
         next.step \in {"graph", "replan"} => Existing,
         InOrder(p)'
  PROVE  ProposalsIInv'
<1>1. /\ accepting' \in [Planners -> Accepting \cup {NothingProposed}]
      /\ accepting'[p] = next
      /\ \A r \in Planners : r # p => accepting'[r] = accepting[r]
  BY DEF ProposalsIInv, PlansTyped
<1>2. PlansTyped'
  BY <1>1 DEF ProposalsIInv, PlansTyped
<1>3. ProgrammeFirst'
  BY <1>1 DEF ProposalsIInv, ProgrammeFirst, Existing
<1>4. ASSUME NEW r \in Planners, r # p PROVE InOrder(r)'
  BY <1>1, <1>4 DEF ProposalsIInv, InOrder, NotOvertaken, OwnGraphs, ProgrammeAdmitted,
     ProgrammeValid, GraphFollows, NextRevisionIs, Existing
<1>5. QED
  BY <1>2, <1>3, <1>4 DEF ProposalsIInv

(* A call that ends has nothing left to keep in order.                     *)
LEMMA EndedIsInOrder ==
  ASSUME NEW p, accepting'[p] = NothingProposed
  PROVE  InOrder(p)' /\ accepting'[p].step = "idle"
  BY DEF InOrder, NotOvertaken, NothingProposed

LEMMA GivesKeeps ==
  ASSUME ProposalsIInv, NEW p \in Planners, Gives(p),
         UNCHANGED <<programme, graphs, replans>>, strategies' \subseteq Planners
  PROVE  ProposalsIInv'
<1>1. accepting'[p] = NothingProposed
  BY DEF Gives, ProposalsIInv, PlansTyped
<1>2. InOrder(p)'
  BY <1>1, EndedIsInOrder
<1>3. NothingProposed.step \notin {"graph", "replan"}
  BY DEF NothingProposed
<1>4. QED
  BY <1>2, <1>3, OnlyOneMoves DEF Gives

(* What the validation and regularity together say about the writes.       *)
LEMMA AcceptedIsInOrder ==
  ASSUME ProposalsIInv, NEW q \in Proposals, Validated(q), Regular(q)
  PROVE  /\ q.id \notin replans
         /\ Existing => OwnGraphs = {q.graph}
         /\ ProgrammeAdmitted(q) /\ q.stream \in q.streams
         /\ graphs[q.graph].owner # "other" /\ GraphFollows(q, graphs[q.graph])
<1>1. q.id \notin replans /\ ProgrammeAdmitted(q) /\ q.stream \in q.streams
  BY DEF Regular, Validated, GraphValid, ProgrammeAdmitted
<1>2. CASE Existing
  <2>1. OwnGraphs = {q.graph}
    BY <1>2 DEF Regular
  <2>2. graphs[q.graph].owner = "programme"
    BY <2>1 DEF OwnGraphs
  <2>3. GraphFollows(q, graphs[q.graph])
    BY <2>1 DEF Validated, GraphValid
  <2>4. QED
    BY <1>1, <2>1, <2>2, <2>3
<1>3. CASE ~Existing
  <2>1. graphs[q.graph] = NoGraph
    BY <1>3 DEF Regular
  <2>2. OwnGraphs = {}
    BY <1>3 DEF ProposalsIInv, ProgrammeFirst, OwnGraphs
  <2>3. GraphFollows(q, NoGraph)
    BY <2>2 DEF Validated, GraphValid
  <2>4. NoGraph.owner # "other"
    BY DEF NoGraph
  <2>5. QED
    BY <1>1, <1>3, <2>1, <2>3, <2>4
<1>4. QED
  BY <1>2, <1>3

(* Any write, by whomever, keeps the others in order: they are overtaken.  *)
LEMMA WriteKeepsOrder ==
  ASSUME ProposalsIInv, NEW p, NEW next \in Accepting \cup {NothingProposed}, Wrote(p, next),
         p \in Planners => InOrder(p)',
         p \in Planners /\ next.step \in {"graph", "replan"} => Existing',
         PlansTyped',
         Existing => Existing', Existing' <=> programme'.revision # 0,
         ~Existing' => \A g \in WorkGraphIds : graphs'[g].owner # "programme"
  PROVE  ProposalsIInv'
<1>1. /\ accepting' \in [Planners -> Accepting \cup {NothingProposed}]
      /\ p \in Planners => accepting'[p] = next
      /\ \A r \in Planners : r # p => ~NotOvertaken(r)'
      /\ \A r \in Planners : r # p => accepting'[r].step = accepting[r].step
  BY WroteOvertakes DEF ProposalsIInv
<1>2. \A r \in Planners : InOrder(r)'
  BY <1>1 DEF InOrder
<1>3. ProgrammeFirst'
  BY <1>1 DEF ProposalsIInv, ProgrammeFirst
<1>4. QED
  BY <1>1, <1>2, <1>3 DEF ProposalsIInv

(* A programme that is put is there, and only a programme is changed.      *)
LEMMA ProgrammePut ==
  ASSUME ProposalsIInv, NEW q \in Proposals, ProgrammeAdmitted(q), programme' = ProgrammeOf(q)
  PROVE  Existing' /\ programme'.revision # 0 /\ programme'.revision \in Nat
         /\ programme'.streams = q.streams
<1>1. q.revision \in Nat /\ q.revision = programme.revision + 1 /\ programme.revision \in Nat
  BY ProposalShape DEF ProposalsIInv, PlansTyped, ProgrammeAdmitted, ProgrammeValid, NextRevisionIs
<1>2. programme'.revision = q.revision /\ programme'.streams = q.streams
  BY DEF ProgrammeOf
<1>3. programme'.revision # NoProgramme.revision
  BY <1>1, <1>2 DEF NoProgramme
<1>4. QED
  BY <1>1, <1>2, <1>3 DEF Existing

LEMMA GraphPut ==
  ASSUME ProposalsIInv, NEW q \in Proposals, PutGraphOf(q)
  PROVE  /\ graphs' = [g \in WorkGraphIds |-> graphs'[g]]
         /\ \A g \in WorkGraphIds : graphs'[g].owner \in {"none", "other", "programme"}
<1>1. graphs' = [g \in WorkGraphIds |->
        IF g = q.graph THEN [owner |-> "programme", revision |-> q.graphRevision,
                             node |-> q.node, stream |-> q.stream] ELSE graphs[g]]
  BY DEF PutGraphOf, ProposalsIInv, PlansTyped
<1>2. QED
  BY <1>1 DEF ProposalsIInv, PlansTyped

LEMMA ProposalsStepIInv == ProposalsIInv /\ [ProposalsNext]_proposalVars => ProposalsIInv'
<1> SUFFICES ASSUME ProposalsIInv, [ProposalsNext]_proposalVars PROVE ProposalsIInv'
  OBVIOUS
<1>t. PlansTyped /\ ProgrammeFirst /\ \A p \in Planners : InOrder(p)
  BY DEF ProposalsIInv
<1>n. NothingProposed.step = "idle"
  BY DEF NothingProposed
<1>s. ASSUME UNCHANGED <<programme, graphs, replans, accepting>>, strategies' \subseteq Planners
      PROVE  ProposalsIInv'
  BY <1>s, <1>t DEF ProposalsIInv, PlansTyped, ProgrammeFirst, InOrder, NotOvertaken, OwnGraphs,
     ProgrammeAdmitted, ProgrammeValid, GraphFollows, NextRevisionIs, Existing
<1>1. ASSUME NEW p \in Planners, RegisterPlanningStrategy(p) PROVE ProposalsIInv'
  BY <1>1, <1>s, <1>t DEF RegisterPlanningStrategy, PlansTyped
<1>2. ASSUME NEW p \in Planners, NEW q \in Proposals, PlanProgramme(p, q) PROVE ProposalsIInv'
  <2> DEFINE next == [step |-> "planned", proposal |-> q, regular |-> FALSE,
                      overtaken |-> FALSE, existing |-> Existing]
  <2>1. /\ accepting' = [accepting EXCEPT ![p] = next]
        /\ UNCHANGED <<programme, graphs, replans, strategies>>
    BY <1>2 DEF PlanProgramme, Working
  <2>2. next \in Accepting /\ next.step = "planned"
    BY DEF Accepting, ProposalSteps, Existing
  <2>3. accepting'[p] = next
    BY <2>1, <1>t DEF PlansTyped
  <2>4. InOrder(p)'
    BY <2>2, <2>3 DEF InOrder, NotOvertaken
  <2> HIDE DEF next
  <2>5. QED
    BY <2>1, <2>2, <2>4, <1>t, OnlyOneMoves DEF PlansTyped
<1>3. ASSUME NEW p \in Planners, NEW q \in Proposals, NEW checkpoint \in BOOLEAN,
             AcceptProposal(p, q, checkpoint)
      PROVE  ProposalsIInv'
  <2>1. CASE Validated(q)
    <3> DEFINE step == IF Existing /\ checkpoint THEN "checkpoint" ELSE "programme"
               next == [step |-> step, proposal |-> q, regular |-> Regular(q),
                        overtaken |-> FALSE, existing |-> Existing]
    <3>1. /\ accepting' = [accepting EXCEPT ![p] = next]
          /\ UNCHANGED <<programme, graphs, replans, strategies>>
      BY <1>3, <2>1 DEF AcceptProposal, Working
    <3>2. /\ next \in Accepting /\ next.step = step /\ next.proposal = q
          /\ next.regular = Regular(q)
          /\ step \in {"checkpoint", "programme"} /\ (step = "checkpoint" => Existing)
      BY DEF Accepting, ProposalSteps, Existing, Regular
    <3>3. accepting'[p] = next
      BY <3>1, <1>t DEF PlansTyped
    <3> HIDE DEF next, step
    <3>4. ASSUME NotOvertaken(p)' PROVE Regular(q)
      BY <3>2, <3>3, <3>4 DEF NotOvertaken
    <3>5. InOrder(p)'
      <4> SUFFICES ASSUME NotOvertaken(p)' PROVE InOrder(p)'
        BY DEF InOrder
      <4>1. /\ q.id \notin replans
            /\ Existing => OwnGraphs = {q.graph}
            /\ ProgrammeAdmitted(q) /\ q.stream \in q.streams
            /\ graphs[q.graph].owner # "other" /\ GraphFollows(q, graphs[q.graph])
        BY <2>1, <3>4, AcceptedIsInOrder
      <4>2. accepting'[p].proposal = q /\ accepting'[p].step = step
        BY <3>2, <3>3
      <4>3. (q.id \notin replans)' /\ (graphs[q.graph].owner # "other")'
        BY <3>1, <4>1
      <4>4. ProgrammeAdmitted(q)'
        BY <3>1, <4>1 DEF ProgrammeAdmitted, ProgrammeValid, NextRevisionIs, Existing
      <4>5. GraphFollows(q, graphs[q.graph])'
        BY <3>1, <4>1 DEF GraphFollows, NextRevisionIs
      <4>6. step = "checkpoint" => OwnGraphs' = {q.graph}
        BY <3>1, <3>2, <4>1 DEF OwnGraphs
      <4>7. step # "graph"
        BY <3>2
      <4>8. QED
        BY <4>1, <4>2, <4>3, <4>4, <4>5, <4>6, <4>7 DEF InOrder
    <3>6. QED
      BY <3>1, <3>2, <3>5, <1>t, OnlyOneMoves DEF PlansTyped
  <2>2. CASE ~Validated(q)
    BY <1>3, <2>2, <1>t, GivesKeeps DEF AcceptProposal, PlansTyped
  <2>3. QED
    BY <2>1, <2>2
<1>4. ASSUME NEW p \in Planners, CheckpointFirst(p) PROVE ProposalsIInv'
  <2>1. CASE accepting' = [accepting EXCEPT ![p] = Onward(p, "programme")]
    <3>1. accepting[p].step = "checkpoint" /\ UNCHANGED <<programme, graphs, replans, strategies>>
      BY <1>4 DEF CheckpointFirst
    <3>2. /\ Onward(p, "programme") \in Accepting
          /\ Onward(p, "programme").step = "programme"
          /\ Onward(p, "programme").proposal = accepting[p].proposal
          /\ Onward(p, "programme").regular = accepting[p].regular
          /\ Onward(p, "programme").overtaken = accepting[p].overtaken
      BY <3>1, <1>t, OnwardFacts DEF ProposalSteps
    <3>3. accepting'[p] = Onward(p, "programme")
      BY <2>1, <1>t DEF PlansTyped
    <3>4. ASSUME NotOvertaken(p)' PROVE NotOvertaken(p)
      BY <3>1, <3>2, <3>3, <3>4 DEF NotOvertaken
    <3>5. InOrder(p)'
      BY <3>1, <3>2, <3>3, <3>4, <1>t DEF InOrder, OwnGraphs, ProgrammeAdmitted, ProgrammeValid,
         GraphFollows, NextRevisionIs, Existing
    <3>6. QED
      BY <2>1, <3>1, <3>2, <3>5, <1>t, OnlyOneMoves DEF PlansTyped
  <2>2. CASE Gives(p)
    BY <1>4, <2>2, <1>t, GivesKeeps DEF CheckpointFirst, PlansTyped
  <2>3. QED
    BY <1>4, <2>1, <2>2 DEF CheckpointFirst
<1>5. ASSUME NEW p \in Planners, PutProgramme(p) PROVE ProposalsIInv'
  <2> DEFINE q == accepting[p].proposal
  <2>0. accepting[p].step = "programme" /\ q \in Proposals
    BY <1>5, <1>t, <1>n DEF PutProgramme, PlansTyped, Accepting
  <2>1. CASE ProgrammeAdmitted(q)
    <3>1. /\ programme' = ProgrammeOf(q) /\ Wrote(p, Onward(p, "graph"))
          /\ UNCHANGED <<graphs, replans, strategies>>
      BY <1>5, <2>1 DEF PutProgramme
    <3>2. /\ Onward(p, "graph") \in Accepting
          /\ Onward(p, "graph").step = "graph"
          /\ Onward(p, "graph").proposal = q
          /\ Onward(p, "graph").regular = accepting[p].regular
          /\ Onward(p, "graph").overtaken = accepting[p].overtaken
      BY <2>0, <1>t, OnwardFacts DEF ProposalSteps
    <3>3. /\ accepting' \in [Planners -> Accepting \cup {NothingProposed}]
          /\ accepting'[p] = Onward(p, "graph")
      BY <3>1, <3>2, <1>t, WroteOvertakes
    <3>4. /\ Existing' /\ programme'.revision # 0 /\ programme'.revision \in Nat
          /\ programme'.streams = q.streams
      BY <2>0, <2>1, <3>1, ProgrammePut
    <3>5. ASSUME NotOvertaken(p)' PROVE NotOvertaken(p)
      BY <2>0, <3>2, <3>3, <3>5 DEF NotOvertaken
    <3>6. InOrder(p)'
      <4> SUFFICES ASSUME NotOvertaken(p)' PROVE InOrder(p)'
        BY DEF InOrder
      <4>1. /\ q.id \notin replans /\ q.stream \in q.streams
            /\ graphs[q.graph].owner # "other" /\ GraphFollows(q, graphs[q.graph])
        BY <2>0, <3>5, <1>t DEF InOrder
      <4>2. accepting'[p].proposal = q /\ accepting'[p].step = "graph"
        BY <3>2, <3>3
      <4> HIDE DEF q
      <4>3. QED
        BY <3>1, <3>4, <4>1, <4>2 DEF InOrder, GraphFollows, NextRevisionIs
    <3>7. PlansTyped'
      BY <3>1, <3>3, <3>4, <1>t DEF PlansTyped
    <3>8. QED
      BY <3>1, <3>2, <3>4, <3>6, <3>7, WriteKeepsOrder
  <2>2. CASE ~ProgrammeAdmitted(q)
    BY <1>5, <2>2, <1>t, GivesKeeps DEF PutProgramme, PlansTyped
  <2>3. QED
    BY <2>1, <2>2
<1>6. ASSUME NEW p \in Planners, PutProposedGraph(p) PROVE ProposalsIInv'
  <2> DEFINE q == accepting[p].proposal
             next == IF accepting[p].existing THEN Onward(p, "replan") ELSE NothingProposed
  <2>0. accepting[p].step = "graph" /\ q \in Proposals
    BY <1>6, <1>t, <1>n DEF PutProposedGraph, PlansTyped, Accepting
  <2>1. CASE GraphAdmitted(q)
    <3>1. /\ PutGraphOf(q) /\ Wrote(p, next)
          /\ UNCHANGED <<programme, replans, strategies>>
      BY <1>6, <2>1 DEF PutProposedGraph
    <3>2. /\ Onward(p, "replan") \in Accepting
          /\ Onward(p, "replan").step = "replan"
          /\ Onward(p, "replan").proposal = q
          /\ Onward(p, "replan").regular = accepting[p].regular
          /\ Onward(p, "replan").overtaken = accepting[p].overtaken
      BY <2>0, <1>t, OnwardFacts DEF ProposalSteps
    <3>3. next \in Accepting \cup {NothingProposed}
      BY <3>2
    <3>4. /\ accepting' \in [Planners -> Accepting \cup {NothingProposed}]
          /\ accepting'[p] = next
      BY <3>1, <3>3, <1>t, WroteOvertakes
    <3>5. InOrder(p)'
      <4>1. CASE next = NothingProposed
        BY <4>1, <3>4, EndedIsInOrder
      <4>2. CASE next = Onward(p, "replan")
        <5>1. ASSUME NotOvertaken(p)' PROVE NotOvertaken(p)
          BY <2>0, <3>2, <3>4, <4>2, <5>1 DEF NotOvertaken
        <5>2. QED
          BY <2>0, <3>1, <3>2, <3>4, <4>2, <5>1, <1>t DEF InOrder
      <4>3. QED
        BY <4>1, <4>2
    <3>6. Existing /\ Existing'
      BY <2>0, <3>1, <1>t DEF ProgrammeFirst, Existing
    <3>7. PlansTyped'
      BY <2>0, <3>1, <3>4, <1>t, GraphPut DEF PlansTyped
    <3>8. Existing' <=> programme'.revision # 0
      BY <3>1, <1>t DEF ProgrammeFirst, Existing
    <3> HIDE DEF next
    <3>9. QED
      BY <3>1, <3>3, <3>5, <3>6, <3>7, <3>8, WriteKeepsOrder
  <2>2. CASE ~GraphAdmitted(q)
    BY <1>6, <2>2, <1>t, GivesKeeps DEF PutProposedGraph, PlansTyped
  <2>3. QED
    BY <2>1, <2>2
<1>7. ASSUME NEW p \in Planners, RecordReplanEvent(p) PROVE ProposalsIInv'
  <2>1. /\ accepting[p].step = "replan" /\ Wrote(p, NothingProposed)
        /\ replans' = replans \cup {accepting[p].proposal.id}
        /\ UNCHANGED <<programme, graphs, strategies>>
    BY <1>7 DEF RecordReplanEvent
  <2>2. accepting[p].proposal \in Proposals
    BY <2>1, <1>t, <1>n DEF PlansTyped, Accepting
  <2>3. /\ accepting' \in [Planners -> Accepting \cup {NothingProposed}]
        /\ accepting'[p] = NothingProposed
    BY <2>1, <1>t, WroteOvertakes
  <2>4. InOrder(p)'
    BY <2>3, EndedIsInOrder
  <2>5. PlansTyped'
    BY <2>1, <2>2, <2>3, <1>t, ProposalShape DEF PlansTyped
  <2>6. QED
    BY <2>1, <2>4, <2>5, <1>n, <1>t, WriteKeepsOrder DEF ProgrammeFirst, Existing
<1>8. ASSUME NEW p \in Planners, PlannerDies(p) PROVE ProposalsIInv'
  BY <1>8, <1>t, GivesKeeps DEF PlannerDies, PlansTyped
<1>9. ASSUME NEW q \in Proposals, EditProgramme(q) PROVE ProposalsIInv'
  <2>1. /\ programme' = ProgrammeOf(q) /\ ProgrammeAdmitted(q) /\ Wrote("nobody", NothingProposed)
        /\ UNCHANGED <<graphs, replans, strategies>>
    BY <1>9 DEF EditProgramme
  <2>2. /\ accepting' \in [Planners -> Accepting \cup {NothingProposed}]
        /\ "nobody" \in Planners => accepting'["nobody"] = NothingProposed
    BY <2>1, <1>t, WroteOvertakes
  <2>3. "nobody" \in Planners => InOrder("nobody")'
    BY <2>2, EndedIsInOrder
  <2>4. Existing' /\ programme'.revision # 0 /\ programme'.revision \in Nat
    BY <2>1, ProgrammePut
  <2>5. PlansTyped'
    BY <2>1, <2>2, <2>4, <1>t DEF PlansTyped
  <2>6. QED
    BY <2>1, <2>3, <2>4, <2>5, <1>n, WriteKeepsOrder
<1>10. ASSUME NEW q \in Proposals, EditOwnGraph(q) PROVE ProposalsIInv'
  <2>1. /\ Existing /\ PutGraphOf(q) /\ Wrote("nobody", NothingProposed)
        /\ UNCHANGED <<programme, replans, strategies>>
    BY <1>10 DEF EditOwnGraph
  <2>2. /\ accepting' \in [Planners -> Accepting \cup {NothingProposed}]
        /\ "nobody" \in Planners => accepting'["nobody"] = NothingProposed
    BY <2>1, <1>t, WroteOvertakes
  <2>3. "nobody" \in Planners => InOrder("nobody")'
    BY <2>2, EndedIsInOrder
  <2>4. Existing' /\ (Existing' <=> programme'.revision # 0)
    BY <2>1, <1>t DEF ProgrammeFirst, Existing
  <2>5. PlansTyped'
    BY <2>1, <2>2, <1>t, GraphPut DEF PlansTyped
  <2>6. QED
    BY <2>1, <2>3, <2>4, <2>5, <1>n, WriteKeepsOrder
<1>11. CASE UNCHANGED proposalVars
  BY <1>11, <1>s, <1>t DEF proposalVars, PlansTyped
<1>12. QED
  BY <1>1, <1>2, <1>3, <1>4, <1>5, <1>6, <1>7, <1>8, <1>9, <1>10, <1>11 DEF ProposalsNext

-----------------------------------------------------------------------------
(* Every reachable state of programme, graphs and calls is well typed.     *)
THEOREM ProposalsAreTyped == ProposalsSpec => []ProposalsTypeOK
<1>1. ASSUME ProposalsIInv PROVE ProposalsTypeOK
  <2>1. \A p \in Planners : accepting[p] # NothingProposed => accepting[p] \in Accepting
    BY <1>1 DEF ProposalsIInv, PlansTyped
  <2>2. QED
    BY <1>1, <2>1 DEF ProposalsIInv, PlansTyped, ProposalsTypeOK, Accepting, ProposalSteps
<1>2. QED
  BY <1>1, ProposalsInitIInv, ProposalsStepIInv, PTL DEF ProposalsSpec

(* No write of acceptProgrammeProposal refuses what its validation let     *)
(* pass when nobody writes in between, so that it does not leave a         *)
(* programme without its graph (supervision-extension.ts 439-456).         *)
THEOREM ValidProposalsAreAccepted == ProposalsSpec => []ValidatedIsAccepted
<1>1. ASSUME ProposalsIInv PROVE ValidatedIsAccepted
  <2> SUFFICES ASSUME NEW p \in Planners, accepting[p] # NothingProposed,
                      accepting[p].step # "planned", accepting[p].regular,
                      ~accepting[p].overtaken
               PROVE  LET q == accepting[p].proposal IN
                      CASE accepting[p].step = "checkpoint" -> CheckpointPossible /\ ProgrammeAdmitted(q)
                        [] accepting[p].step = "programme" -> ProgrammeAdmitted(q)
                        [] accepting[p].step = "graph" -> GraphAdmitted(q)
                        [] accepting[p].step = "replan" -> q.id \notin replans
    BY DEF ValidatedIsAccepted
  <2>1. accepting[p] \in Accepting
    BY <1>1 DEF ProposalsIInv, PlansTyped
  <2>2. NotOvertaken(p) /\ InOrder(p)
    BY <1>1, <2>1 DEF NotOvertaken, ProposalsIInv, Accepting, ProposalSteps
  <2>3. ASSUME accepting[p].step = "checkpoint" PROVE CheckpointPossible
    BY <2>2, <2>3, FS_Singleton DEF InOrder, CheckpointPossible
  <2>4. QED
    BY <2>1, <2>2, <2>3 DEF InOrder, GraphAdmitted, Accepting, ProposalSteps
<1>2. QED
  BY <1>1, ProposalsInitIInv, ProposalsStepIInv, PTL DEF ProposalsSpec

-----------------------------------------------------------------------------
(***************************************************************************)
(* Proofs about Selection, for any capabilities, prices and findings of    *)
(* discovery.                                                              *)
(*                                                                         *)
(* Compare is a comparison of keys one after the other, each of which      *)
(* orders the candidates (CompareByKeys); the cost, which does not order   *)
(* them all, is the last that may be equal but for the ids.                *)
(***************************************************************************)

(* Ids and prices are numbers, declarations and findings well formed.      *)
LEMMA SelectionAssumed ==
  /\ Capabilities \subseteq Nat /\ UnitCosts \subseteq Nat /\ NoPrice \notin Nat
  /\ \A c \in Capabilities : \A d \in Declarations[c] :
       /\ d.class \in {"no-usage-fee", "metered", "unknown"}
       /\ d.price \in UnitCosts \cup {NoPrice} /\ d.local \in BOOLEAN
  BY SelectionAssumption DEF SelectionAssumption

CapabilityDocument ==
  [class : {"no-usage-fee", "metered", "unknown"}, price : UnitCosts \cup {NoPrice},
   local : BOOLEAN, level : {"unverified", "discovered", "configured", "validated", "trusted"},
   state : {"none", "unknown", "available", "offline", "degraded"}]

LEMMA LevelsAre ==
  /\ DOMAIN Levels = 1..5
  /\ {Levels[i] : i \in DOMAIN Levels}
       = {"unverified", "discovered", "configured", "validated", "trusted"}
  BY DEF Levels

LEMMA SelectionTyped == SelectionTypeOK <=> capability \in [Capabilities -> CapabilityDocument]
  BY LevelsAre DEF SelectionTypeOK, CapabilityDocument

(* Whatever the probes find, what is written is a capability document.     *)
LEMMA SelectionStepTyped ==
  ASSUME capability \in [Capabilities -> CapabilityDocument], [SelectionNext]_capability
  PROVE  capability' \in [Capabilities -> CapabilityDocument]
<1>1. ASSUME NEW c \in Capabilities, NEW d \in CapabilityDocument, PutCapability(c, d)
      PROVE  capability' \in [Capabilities -> CapabilityDocument]
  BY <1>1 DEF PutCapability
<1>2. ASSUME NEW c \in Capabilities, NEW d \in Declarations[c],
             NEW level \in {"unverified", "discovered"}, NEW state \in {"unknown", "degraded"}
      PROVE  Documented(d, level, state) \in CapabilityDocument
  BY <1>2, SelectionAssumed DEF Documented, CapabilityDocument
<1>3. ASSUME NEW c \in Capabilities, Discover(c) PROVE capability' \in [Capabilities -> CapabilityDocument]
  <2>1. PICK d \in Declarations[c], findings \in Findings, activation \in {"any", "all"} :
          PutCapability(c, Discovered(Documented(d, "unverified", "unknown"), findings, activation))
    BY <1>3 DEF Discover
  <2>2. Documented(d, "unverified", "unknown") \in CapabilityDocument
    BY <1>2
  <2>3. ASSUME NEW x \in CapabilityDocument PROVE Discovered(x, findings, activation) \in CapabilityDocument
    <3>1. PICK state \in {"unknown", "available", "offline"}, level \in {"discovered", x.level} :
            Discovered(x, findings, activation) = [x EXCEPT !.state = state, !.level = level]
      BY DEF Discovered, CapabilityDocument
    <3>2. level \in {"unverified", "discovered", "configured", "validated", "trusted"}
      BY DEF CapabilityDocument
    <3>3. [x EXCEPT !.state = state, !.level = level] \in CapabilityDocument
      BY <3>2 DEF CapabilityDocument
    <3>4. QED
      BY <3>1, <3>3
  <2>4. QED
    BY <1>1, <2>1, <2>2, <2>3
<1>4. ASSUME NEW c \in Capabilities, Register(c) PROVE capability' \in [Capabilities -> CapabilityDocument]
  BY <1>1, <1>2, <1>4 DEF Register
<1>5. ASSUME NEW c \in Capabilities, DiscoverBrowser(c) PROVE capability' \in [Capabilities -> CapabilityDocument]
  <2>1. PICK managed, backend \in BOOLEAN : PutCapability(c, [class |-> "no-usage-fee",
          price |-> NoPrice, local |-> managed, level |-> "configured",
          state |-> IF backend THEN "available" ELSE "offline"])
    BY <1>5 DEF DiscoverBrowser
  <2>2. QED
    BY <1>1, <2>1 DEF CapabilityDocument
<1>6. ASSUME NEW c \in Capabilities, DiscoverDesktop(c) PROVE capability' \in [Capabilities -> CapabilityDocument]
  <2>1. PICK local, backend, compatible \in BOOLEAN : PutCapability(c, [class |-> "no-usage-fee",
          price |-> NoPrice, local |-> local, level |-> "configured",
          state |-> IF backend /\ (local => compatible) THEN "available" ELSE "offline"])
    BY <1>6 DEF DiscoverDesktop
  <2>2. QED
    BY <1>1, <2>1 DEF CapabilityDocument
<1>7. ASSUME NEW c \in Capabilities, DiscoverAdapter(c) PROVE capability' \in [Capabilities -> CapabilityDocument]
  <2>1. \A local \in BOOLEAN : McpTool(local) \in CapabilityDocument /\ A2ASkill(local) \in CapabilityDocument
    BY DEF McpTool, A2ASkill, CapabilityDocument
  <2>2. PICK local \in BOOLEAN : PutCapability(c, McpTool(local)) \/ PutCapability(c, A2ASkill(local))
    BY <1>7 DEF DiscoverAdapter
  <2>3. QED
    BY <1>1, <2>1, <2>2
<1>8. QED
  BY <1>3, <1>4, <1>5, <1>6, <1>7 DEF SelectionNext

(* The keys of a candidate under a policy; a price nobody knows is 0 here, *)
(* and marked.                                                             *)
KeyRecord ==
  [fee : {0, 1}, local : {0, 1}, trust : 1..5, infinite : BOOLEAN, cost : Nat,
   available : {0, 1}, id : Nat]

Keys(c, policy) ==
  [fee |-> IF policy.preferNoUsageFee THEN Indicator(NoUsageFee(c)) ELSE 0,
   local |-> IF policy.preferLocal THEN Indicator(capability[c].local) ELSE 0,
   trust |-> TrustRank(c),
   infinite |-> Infinite(c),
   cost |-> IF Infinite(c) THEN 0 ELSE UnitCost(c),
   available |-> Indicator(capability[c].state = "available"),
   id |-> c]

ByCost(x, y) ==
  IF x.infinite THEN (IF y.infinite THEN 0 ELSE 1)
  ELSE IF y.infinite THEN -1 ELSE x.cost - y.cost

ByKeys(x, y) ==
  IF x.fee # y.fee THEN y.fee - x.fee
  ELSE IF x.local # y.local THEN y.local - x.local
  ELSE IF x.trust # y.trust THEN y.trust - x.trust
  ELSE IF ByCost(x, y) # 0 THEN ByCost(x, y)
  ELSE IF x.infinite THEN 0
  ELSE IF x.available # y.available THEN y.available - x.available
  ELSE x.id - y.id

(* Comparing by keys is antisymmetric and transitive.                      *)
LEMMA KeysAreAntisymmetric ==
  ASSUME NEW x \in KeyRecord, NEW y \in KeyRecord
  PROVE  /\ ByKeys(x, y) < 0 <=> ByKeys(y, x) > 0
         /\ x.id # y.id /\ ByKeys(x, y) = 0 => x.infinite /\ y.infinite
  BY DEF KeyRecord, ByKeys, ByCost

LEMMA KeysAreTransitive ==
  ASSUME NEW x \in KeyRecord, NEW y \in KeyRecord, NEW z \in KeyRecord
  PROVE  /\ ByKeys(x, y) < 0 /\ ByKeys(y, z) <= 0 => ByKeys(x, z) < 0
         /\ ByKeys(x, y) = 0 /\ ByKeys(y, z) = 0 => ByKeys(x, z) = 0
<1> DEFINE Later(v, w) == IF v.infinite THEN 0
                         ELSE IF v.available # w.available THEN w.available - v.available
                         ELSE v.id - w.id
<1>1. \A w \in {x, y, z} :
        /\ w.fee \in Int /\ w.local \in Int /\ w.trust \in Int /\ w.cost \in Int
        /\ w.available \in Int /\ w.id \in Int /\ w.infinite \in BOOLEAN
  BY DEF KeyRecord
<1>2. CASE ~(x.fee = y.fee /\ y.fee = z.fee)
  BY <1>1, <1>2 DEF ByKeys, ByCost
<1>3. CASE x.fee = y.fee /\ y.fee = z.fee /\ ~(x.local = y.local /\ y.local = z.local)
  BY <1>1, <1>3 DEF ByKeys, ByCost
<1>4. CASE /\ x.fee = y.fee /\ y.fee = z.fee /\ x.local = y.local /\ y.local = z.local
           /\ ~(x.trust = y.trust /\ y.trust = z.trust)
  BY <1>1, <1>4 DEF ByKeys, ByCost
<1>5. CASE /\ x.fee = y.fee /\ y.fee = z.fee /\ x.local = y.local /\ y.local = z.local
           /\ x.trust = y.trust /\ y.trust = z.trust
  <2>1. /\ ByKeys(x, y) = IF ByCost(x, y) # 0 THEN ByCost(x, y) ELSE Later(x, y)
        /\ ByKeys(y, z) = IF ByCost(y, z) # 0 THEN ByCost(y, z) ELSE Later(y, z)
        /\ ByKeys(x, z) = IF ByCost(x, z) # 0 THEN ByCost(x, z) ELSE Later(x, z)
    BY <1>5 DEF ByKeys
  <2>2. CASE x.infinite \/ y.infinite \/ z.infinite
    BY <1>1, <2>1, <2>2 DEF ByCost
  <2>3. CASE ~(x.infinite \/ y.infinite \/ z.infinite)
    BY <1>1, <2>1, <2>3 DEF ByCost
  <2>4. QED
    BY <2>2, <2>3
<1>6. QED
  BY <1>2, <1>3, <1>4, <1>5

LEMMA KeysTyped ==
  ASSUME capability \in [Capabilities -> CapabilityDocument], NEW c \in Capabilities, NEW policy \in Policies
  PROVE  Keys(c, policy) \in KeyRecord
<1>1. TrustRank(c) \in 1..5
  <2>1. \E i \in DOMAIN Levels : Levels[i] = capability[c].level
    <3>1. capability[c].level \in {Levels[i] : i \in DOMAIN Levels}
      BY LevelsAre DEF CapabilityDocument
    <3>2. QED
      BY <3>1
  <2>2. QED
    BY <2>1, LevelsAre DEF TrustRank
<1>2. ~Infinite(c) => UnitCost(c) \in Nat
  BY SelectionAssumed DEF Infinite, UnitCost, CapabilityDocument
<1>3. Infinite(c) \in BOOLEAN
  BY DEF Infinite
<1>4. QED
  BY <1>1, <1>2, <1>3, SelectionAssumed DEF Keys, KeyRecord, Indicator

(* The first key that differs decides.                                     *)
LEMMA FirstOfFour ==
  ASSUME NEW a \in Int, NEW b \in Int, NEW c \in Int, NEW d \in Int
  PROVE  FirstDecisive(<<a, b, c, d>>) =
           IF a # 0 THEN a ELSE IF b # 0 THEN b ELSE IF c # 0 THEN c ELSE d
<1> DEFINE keys == <<a, b, c, d>>
           First(i) == keys[i] # 0 /\ \A j \in 1..(i - 1) : keys[j] = 0
<1>1. DOMAIN keys = 1..4 /\ keys[1] = a /\ keys[2] = b /\ keys[3] = c /\ keys[4] = d
  OBVIOUS
<1> HIDE DEF keys
<1>2. ASSUME NEW i \in 1..4, First(i), NEW j \in 1..4, First(j) PROVE i = j
  <2>1. ASSUME i < j PROVE FALSE
    BY <1>2, <2>1
  <2>2. ASSUME j < i PROVE FALSE
    BY <1>2, <2>2
  <2>3. QED
    BY <2>1, <2>2
<1>3. ASSUME NEW i \in 1..4, First(i) PROVE FirstDecisive(keys) = keys[i]
  <2>1. (CHOOSE k \in DOMAIN keys : First(k)) = i
    BY <1>1, <1>2, <1>3
  <2>2. QED
    BY <1>1, <1>3, <2>1 DEF FirstDecisive
<1>4. CASE a # 0
  BY <1>1, <1>3, <1>4 DEF keys
<1>5. CASE a = 0 /\ b # 0
  BY <1>1, <1>3, <1>5 DEF keys
<1>6. CASE a = 0 /\ b = 0 /\ c # 0
  BY <1>1, <1>3, <1>6 DEF keys
<1>7. CASE a = 0 /\ b = 0 /\ c = 0 /\ d # 0
  BY <1>1, <1>3, <1>7 DEF keys
<1>8. CASE a = 0 /\ b = 0 /\ c = 0 /\ d = 0
  BY <1>1, <1>8 DEF FirstDecisive, keys
<1>9. QED
  BY <1>4, <1>5, <1>6, <1>7, <1>8

LEMMA CompareByKeys ==
  ASSUME capability \in [Capabilities -> CapabilityDocument], NEW policy \in Policies,
         NEW l \in Capabilities, NEW r \in Capabilities
  PROVE  Compare(l, r, policy) = ByKeys(Keys(l, policy), Keys(r, policy))
<1> DEFINE x == Keys(l, policy)
           y == Keys(r, policy)
           noFee == IF policy.preferNoUsageFee
                    THEN Indicator(NoUsageFee(r)) - Indicator(NoUsageFee(l)) ELSE 0
           local == IF policy.preferLocal
                    THEN Indicator(capability[r].local) - Indicator(capability[l].local) ELSE 0
           trust == TrustRank(r) - TrustRank(l)
           decided == FirstDecisive(<<noFee, local, trust, CompareCost(l, r)>>)
<1>1. x \in KeyRecord /\ y \in KeyRecord
  BY KeysTyped
<1>2. noFee = y.fee - x.fee /\ local = y.local - x.local /\ trust = y.trust - x.trust
  BY DEF Keys, Indicator
<1>3. /\ CompareCost(l, r) = ByCost(x, y) /\ x.infinite = Infinite(l) /\ y.infinite = Infinite(r)
      /\ x.id = l /\ y.id = r
  BY DEF CompareCost, ByCost, Keys, Infinite
<1>4. CompareRest(l, r) = IF x.available # y.available THEN y.available - x.available
                          ELSE x.id - y.id
  BY <1>1 DEF CompareRest, Keys, KeyRecord
<1>5. Compare(l, r, policy) =
        IF decided # 0 THEN decided
        ELSE IF Infinite(l) /\ Infinite(r) /\ l # r THEN 0 ELSE CompareRest(l, r)
  BY DEF Compare
<1> HIDE DEF x, y
<1>6. noFee \in Int /\ local \in Int /\ trust \in Int /\ CompareCost(l, r) \in Int
  BY <1>1, <1>2, <1>3 DEF KeyRecord, ByCost
<1> HIDE DEF noFee, local, trust
<1>7. decided = IF noFee # 0 THEN noFee ELSE IF local # 0 THEN local
                ELSE IF trust # 0 THEN trust ELSE CompareCost(l, r)
  BY <1>6, FirstOfFour
<1> HIDE DEF decided
<1>8. l = r => x = y
  BY DEF x, y
<1>9. Compare(l, r, policy) = ByKeys(x, y)
  BY <1>1, <1>2, <1>3, <1>4, <1>5, <1>7, <1>8 DEF ByKeys, ByCost, KeyRecord
<1>10. QED
  BY <1>9 DEF x, y

LEMMA RankingFromTypes == SelectionTypeOK => RankingIsConsistent
<1> SUFFICES ASSUME capability \in [Capabilities -> CapabilityDocument], NEW policy \in Policies
             PROVE  \A a, b \in Capabilities :
    /\ Compare(a, b, policy) < 0 <=> Compare(b, a, policy) > 0
    /\ a # b /\ Compare(a, b, policy) = 0 => Infinite(a) /\ Infinite(b)
    /\ \A c \in Capabilities :
         /\ Compare(a, b, policy) < 0 /\ Compare(b, c, policy) <= 0 => Compare(a, c, policy) < 0
         /\ Compare(a, b, policy) = 0 /\ Compare(b, c, policy) = 0 => Compare(a, c, policy) = 0
  BY SelectionTyped DEF RankingIsConsistent
<1>1. ASSUME NEW a \in Capabilities, NEW b \in Capabilities
      PROVE  /\ Compare(a, b, policy) < 0 <=> Compare(b, a, policy) > 0
             /\ a # b /\ Compare(a, b, policy) = 0 => Infinite(a) /\ Infinite(b)
  <2>1. Compare(a, b, policy) = ByKeys(Keys(a, policy), Keys(b, policy))
    BY CompareByKeys
  <2>2. Compare(b, a, policy) = ByKeys(Keys(b, policy), Keys(a, policy))
    BY CompareByKeys
  <2>3. Keys(a, policy) \in KeyRecord /\ Keys(b, policy) \in KeyRecord
    BY KeysTyped
  <2>4. /\ Keys(a, policy).infinite = Infinite(a) /\ Keys(b, policy).infinite = Infinite(b)
        /\ Keys(a, policy).id = a /\ Keys(b, policy).id = b
    BY DEF Keys
  <2>5. QED
    BY <2>1, <2>2, <2>3, <2>4, KeysAreAntisymmetric
<1>2. ASSUME NEW a \in Capabilities, NEW b \in Capabilities, NEW c \in Capabilities
      PROVE  /\ Compare(a, b, policy) < 0 /\ Compare(b, c, policy) <= 0 => Compare(a, c, policy) < 0
             /\ Compare(a, b, policy) = 0 /\ Compare(b, c, policy) = 0 => Compare(a, c, policy) = 0
  <2>1. /\ Compare(a, b, policy) = ByKeys(Keys(a, policy), Keys(b, policy))
        /\ Compare(b, c, policy) = ByKeys(Keys(b, policy), Keys(c, policy))
        /\ Compare(a, c, policy) = ByKeys(Keys(a, policy), Keys(c, policy))
    BY CompareByKeys
  <2>2. {Keys(a, policy), Keys(b, policy), Keys(c, policy)} \subseteq KeyRecord
    BY KeysTyped
  <2>3. QED
    BY <2>1, <2>2, KeysAreTransitive
<1>3. QED
  BY <1>1, <1>2

LEMMA SelectionInitTyped == SelectionInit => SelectionTypeOK
  BY SelectionTyped DEF SelectionInit, Unregistered, CapabilityDocument

LEMMA SelectionKeepsTypes == SelectionTypeOK /\ [SelectionNext]_capability => SelectionTypeOK'
  BY SelectionStepTyped, LevelsAre DEF SelectionTypeOK, CapabilityDocument

(* Discovery gives a capability no health and no level but those the       *)
(* comparator knows (discovery.ts, runtime.ts).                            *)
THEOREM SelectionIsTyped == SelectionSpec => []SelectionTypeOK
  BY SelectionInitTyped, SelectionKeepsTypes, PTL DEF SelectionSpec

(* Whatever discovery has found, the comparator Array.prototype.sort gets  *)
(* orders the candidates: antisymmetric, transitive, and undecided only    *)
(* between two whose price nobody knows (supervision-allocator.ts).        *)
THEOREM RankingIsAnOrder == SelectionSpec => []RankingIsConsistent
  BY SelectionInitTyped, SelectionKeepsTypes, RankingFromTypes, PTL DEF SelectionSpec
=============================================================================
