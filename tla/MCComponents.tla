---------------------------- MODULE MCComponents ----------------------------
(***************************************************************************)
(* The components that share no state with one another, for TLC: a         *)
(* behaviour picks one and runs it alone, so the run explores each of them *)
(* on an instance of its own.  Only Approvals works on the chain of        *)
(* AuditChain; the part "audit" lets more appends race and damages rows.   *)
(***************************************************************************)
EXTENDS Approvals, BrowserSessions, ChildCalls, RuntimeHome, Connectors, Service,
        GraphValidation, Selection, Proposals

CONSTANTS a1, n1, p1, p2, c1, c2, s1, s2, u1, u2, m1, m2, g1, g2, q1, q2

VARIABLE part

(* Approvals: one request for a gated node, to be decided by a human.      *)
OneItem == [a \in Requests |-> n1]
SomebodyRequired == [a \in Requests |-> {"human"}]
OtherEvents == {<<"evidence", "e1">>, <<"checkpoint", "k1">>}
AllGiven == {[subjectKind |-> "given", sessionId |-> "given"]}

(* RuntimeHome: a legacy home, two steps to the current version.           *)
TwoSteps == {[source |-> NoMarker, target |-> 1], [source |-> 1, target |-> 2]}

(* GraphValidation: every graph of three nodes with up to three execution  *)
(* edges, and the ways ids, parents and endpoints can be wrong.            *)
Linked(edges) ==
  [nodes |-> <<1, 2, 3>>, parent |-> [n \in WorkNodes |-> NoParent], allowed |-> {}, edges |-> edges]

Turned == {[from |-> 1, to |-> 3, type |-> "informs"], [from |-> 3, to |-> 1, type |-> "blocks"]}

ExecutionEdges == [from : WorkNodes, to : WorkNodes, type : {"depends-on", "blocks"}]

SmallGraphs ==
  {Linked({})} \cup {Linked({d, e, f}) : d \in ExecutionEdges, e \in ExecutionEdges, f \in ExecutionEdges}
  \cup {[Linked(Turned) EXCEPT !.nodes = nodes, !.parent[1] = 2, !.allowed = allowed] :
          nodes \in {<<1>>, <<1, 1>>, <<1, 3>>, <<1, 2, 3>>}, allowed \in SUBSET {2}}

(* Selection: two prices and one nobody knows, and hosts on which probes   *)
(* are found, fail or do not apply.                                        *)
Declared == <<{[class |-> "metered", price |-> 2, local |-> FALSE]},
              {[class |-> "metered", price |-> NoPrice, local |-> TRUE]},
              {[class |-> "metered", price |-> 1, local |-> TRUE]}>>
Elsewhere == [probe |-> "inapplicable"]
Installed == [probe |-> "command", seen |-> <<"absent", "runs">>]
Broken == [probe |-> "command", seen |-> <<"fails", "runs">>]
OnDisk == [probe |-> "path", seen |-> <<"absent", "exists">>]
HalfSet == [probe |-> "environment", seen |-> <<"given", "empty">>, match |-> "all"]
Redirected == [probe |-> "http", url |-> "plain", status |-> 302, accepted |-> {}]

Shown == {<<Installed, Broken>>, <<Installed, Elsewhere>>, <<OnDisk, HalfSet>>, <<Redirected>>,
          <<Elsewhere>>}

(* Proposals: three revisions of a programme, and what may be wrong with   *)
(* the second: the graph's id or revision, the mission, a node's move.     *)
First == [id |-> q1, mission |-> m1, revision |-> 1, status |-> "active", streams |-> {1},
          graph |-> g1, graphRevision |-> 1, node |-> "ready", stream |-> 1]
Second == [First EXCEPT !.revision = 2, !.graphRevision = 2, !.node = "running"]
Third == [Second EXCEPT !.id = q2, !.revision = 3, !.graphRevision = 3, !.status = "completed"]

Revised ==
  {First, Second, Third,
   [Second EXCEPT !.graph = g2], [Second EXCEPT !.graph = g2, !.graphRevision = 1],
   [Second EXCEPT !.mission = m2], [Second EXCEPT !.node = "completed"]}

-----------------------------------------------------------------------------
allVars == <<approvalVars, sessionVars, childVars, homeVars, connectorVars, serviceVars,
             graphVars, capability, proposalVars, part>>

(* What a part that is not picked stands at.                               *)
AtRest ==
  /\ IF part = "home" THEN TRUE
     ELSE /\ files = [i \in Files |-> IF i = 1 THEN Born(CURRENT_STATE_SCHEMA_VERSION) ELSE NoFile]
          /\ home = 1
  /\ IF part = "connectors" THEN kind \in ConnectorKinds ELSE kind = "desktop"
  /\ IF part = "service" THEN chain \in {"valid", "invalid"} ELSE chain = "valid"
  /\ IF part = "graph" THEN TRUE ELSE graph = Linked({})
  /\ IF part = "proposals" THEN TRUE ELSE graphs = [g \in WorkGraphIds |-> NoGraph]

Init ==
  /\ part \in {"audit", "approvals", "sessions", "child", "home", "connectors", "service",
               "graph", "selection", "proposals"}
  /\ AtRest
  /\ ApprovalsInit /\ SessionsInit /\ ChildInit /\ HomeInit /\ ConnectorsInit /\ ServiceInit
  /\ GraphInit /\ SelectionInit /\ ProposalsInit

(* What a step of a part leaves alone.                                     *)
BesideApprovals == <<sessionVars, childVars, homeVars, connectorVars, serviceVars,
                     graphVars, capability, proposalVars, part>>
BesideSessions == <<approvalVars, childVars, homeVars, connectorVars, serviceVars,
                    graphVars, capability, proposalVars, part>>
BesideChild == <<approvalVars, sessionVars, homeVars, connectorVars, serviceVars,
                 graphVars, capability, proposalVars, part>>
BesideHome == <<approvalVars, sessionVars, childVars, connectorVars, serviceVars,
                graphVars, capability, proposalVars, part>>
BesideConnectors == <<approvalVars, sessionVars, childVars, homeVars, serviceVars,
                      graphVars, capability, proposalVars, part>>
BesideService == <<approvalVars, sessionVars, childVars, homeVars, connectorVars,
                   graphVars, capability, proposalVars, part>>
BesideGraph == <<approvalVars, sessionVars, childVars, homeVars, connectorVars,
                 serviceVars, capability, proposalVars, part>>
BesideSelection == <<approvalVars, sessionVars, childVars, homeVars, connectorVars,
                     serviceVars, graphVars, proposalVars, part>>
BesideProposals == <<approvalVars, sessionVars, childVars, homeVars, connectorVars,
                     serviceVars, graphVars, capability, part>>

Next ==
  \/ part = "audit" /\ AuditNext /\ UNCHANGED <<documentVars, call, BesideApprovals>>
  \/ part = "approvals" /\ ApprovalsNext /\ UNCHANGED BesideApprovals
  \/ part = "sessions" /\ SessionsNext /\ UNCHANGED BesideSessions
  \/ part = "child" /\ ChildNext /\ UNCHANGED BesideChild
  \/ part = "home" /\ HomeNext /\ UNCHANGED BesideHome
  \/ part = "connectors" /\ ConnectorsNext /\ UNCHANGED BesideConnectors
  \/ part = "service" /\ ServiceNext /\ UNCHANGED BesideService
  \/ part = "graph" /\ GraphNext /\ UNCHANGED BesideGraph
  \/ part = "selection" /\ SelectionNext /\ UNCHANGED BesideSelection
  \/ part = "proposals" /\ ProposalsNext /\ UNCHANGED BesideProposals

(* Every call of the runtime goes on; a timer fires, and the end of a child *)
(* is noticed.                                                             *)
SessionsFairness ==
  \A c \in Callers : WF_allVars(part = "sessions" /\ Progress(c) /\ UNCHANGED BesideSessions)

ChildFairness ==
  /\ WF_allVars(part = "child" /\ Disturb("timeout") /\ UNCHANGED BesideChild)
  /\ WF_allVars(part = "child" /\ ForceKill /\ UNCHANGED BesideChild)
  /\ WF_allVars(part = "child" /\ Close /\ UNCHANGED BesideChild)

Spec == Init /\ [][Next]_allVars /\ SessionsFairness /\ ChildFairness

TypeOK ==
  /\ ApprovalsTypeOK /\ SessionsTypeOK /\ ChildTypeOK /\ HomeTypeOK
  /\ ConnectorsTypeOK /\ ServiceTypeOK /\ GraphTypeOK /\ SelectionTypeOK /\ ProposalsTypeOK
=============================================================================
