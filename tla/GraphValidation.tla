--------------------------- MODULE GraphValidation ---------------------------
(***************************************************************************)
(* validateGraphStructure (packages/runtime/src/graph-validation.ts), which *)
(* putWorkGraph and the validation of a proposal call: ids, parents and    *)
(* endpoints, then a depth-first search for a cycle of the execution       *)
(* dependencies.                                                           *)
(*                                                                         *)
(* The search is a state machine: visit is a frame of a stack, and the     *)
(* order in which nodes and edges are gone through is left open, since no  *)
(* verdict may depend on it.  The call stack has no bound here.            *)
(***************************************************************************)
EXTENDS Integers, Sequences

CONSTANTS
  WorkNodes,       \* node ids
  WorkGraphs,      \* the graphs that are validated
  NoParent

EdgeTypes == {"depends-on", "blocks", "produces", "informs", "invalidates"}

(* allowed are the parents a programme adds: its workstreams.              *)
ASSUME GraphAssumption ==
  \A g \in WorkGraphs :
    /\ g.nodes \in Seq(WorkNodes)
    /\ g.parent \in [WorkNodes -> WorkNodes \cup {NoParent}] /\ g.allowed \subseteq WorkNodes
    /\ g.edges \subseteq [from : WorkNodes, to : WorkNodes, type : EdgeTypes]

VARIABLES
  graph,
  verdict,         \* "none", "valid" or the code of the error
  visiting,        \* the stack of visit, the outermost call first
  visited          \* nodes visit has returned from, in that order

graphVars == <<graph, verdict, visiting, visited>>

ElementsOf(seq) == {seq[i] : i \in DOMAIN seq}

GraphInit ==
  /\ graph \in WorkGraphs
  /\ verdict = "none" /\ visiting = <<>> /\ visited = <<>>

-----------------------------------------------------------------------------
DuplicateIds(g) ==
  \E i \in DOMAIN g.nodes : \E j \in DOMAIN g.nodes : i # j /\ g.nodes[i] = g.nodes[j]

UnknownReference(g) ==
  LET ids == ElementsOf(g.nodes) IN
  \/ \E n \in ids : g.parent[n] # NoParent /\ g.parent[n] \notin ids \cup g.allowed
  \/ \E e \in g.edges : e.from \notin ids \/ e.to \notin ids

Sound(g) == ~DuplicateIds(g) /\ ~UnknownReference(g)

(* Mutant: blocking edges are left to the supervisor.                      *)
OnlyDependsOn(n) == {e.to : e \in {d \in graph.edges : d.from = n /\ d.type = "depends-on"}}

Adjacency(n) ==
  {e.to : e \in {d \in graph.edges : d.from = n /\ d.type \in {"depends-on", "blocks"}}}

Refuse ==
  /\ verdict = "none" /\ ~Sound(graph)
  /\ verdict' = IF DuplicateIds(graph) THEN "CONFLICT" ELSE "INVALID_REFERENCE"
  /\ UNCHANGED <<graph, visiting, visited>>

Searching == verdict = "none" /\ Sound(graph)

Top == visiting[Len(visiting)]

(* visit of a node of the list, or of a successor.                         *)
Visit(n) ==
  /\ Searching
  /\ IF visiting = <<>> THEN n \in ElementsOf(graph.nodes) ELSE n \in Adjacency(Top)
  /\ n \notin ElementsOf(visiting) /\ n \notin ElementsOf(visited)
  /\ visiting' = Append(visiting, n)
  /\ UNCHANGED <<graph, verdict, visited>>

FindCycle ==
  /\ Searching /\ visiting # <<>>
  /\ Adjacency(Top) \cap ElementsOf(visiting) # {}
  /\ verdict' = "GRAPH_CYCLE"
  /\ UNCHANGED <<graph, visiting, visited>>

AllSuccessorsVisited == Adjacency(Top) \subseteq ElementsOf(visited)

LeaveNode ==
  /\ Searching /\ visiting # <<>>
  /\ AllSuccessorsVisited
  /\ visited' = Append(visited, Top)
  /\ visiting' = SubSeq(visiting, 1, Len(visiting) - 1)
  /\ UNCHANGED <<graph, verdict>>

Accept ==
  /\ Searching /\ visiting = <<>>
  /\ ElementsOf(graph.nodes) \subseteq ElementsOf(visited)
  /\ verdict' = "valid"
  /\ UNCHANGED <<graph, visiting, visited>>

GraphNext ==
  Refuse \/ (\E n \in WorkNodes : Visit(n)) \/ FindCycle \/ LeaveNode \/ Accept

GraphSpec == GraphInit /\ [][GraphNext]_graphVars

-----------------------------------------------------------------------------
(* Properties                                                              *)

GraphTypeOK ==
  /\ graph.edges \subseteq [from : WorkNodes, to : WorkNodes, type : EdgeTypes]
  /\ verdict \in {"none", "valid", "CONFLICT", "INVALID_REFERENCE", "GRAPH_CYCLE"}
  /\ visiting \in Seq(WorkNodes) /\ visited \in Seq(WorkNodes)

Execution(n, m) == \E e \in graph.edges :
                     e.from = n /\ e.to = m /\ e.type \in {"depends-on", "blocks"}

(* A graph that passes can be executed in some order: the order in which   *)
(* the search leaves the nodes has everything a node depends on before it. *)
(* A graph refused for a cycle has one, and the search stands on it.       *)
VerdictIsRight ==
  /\ verdict = "valid" =>
       /\ ElementsOf(visited) = ElementsOf(graph.nodes)
       /\ \A j \in DOMAIN visited : \A m \in WorkNodes :
            Execution(visited[j], m) => \E i \in 1..(j - 1) : visited[i] = m
  /\ verdict = "GRAPH_CYCLE" =>
       /\ \A i \in 1..(Len(visiting) - 1) : Execution(visiting[i], visiting[i + 1])
       /\ \E i \in DOMAIN visiting : Execution(Top, visiting[i])
=============================================================================
