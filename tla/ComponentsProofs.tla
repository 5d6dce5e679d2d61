-------------------------- MODULE ComponentsProofs --------------------------
(***************************************************************************)
(* What is proved of the components that share no state when they stand    *)
(* beside one another, as in MCComponents: the behaviours of the whole     *)
(* are, seen through the variables of one component, behaviours of that    *)
(* component (PartsBehave), so that what is proved of each holds of the    *)
(* whole.  Approvals is the exception: its chain of receipts also takes    *)
(* the appends of the part "audit", which none of its own calls makes;     *)
(* its invariant does not speak of the chain and stands beside them.       *)
(***************************************************************************)
EXTENDS MCComponents, ApprovalsProofs, OutsideCallsProofs, HomeProofs, PlanningProofs

ComponentsStep == [Next]_allVars

(* A step of the whole is a step of the component or none of it.           *)
LEMMA StepOfSessions == ComponentsStep => [SessionsNext]_sessionVars
  BY DEF ComponentsStep, Next, allVars, BesideApprovals, BesideChild, BesideHome,
         BesideConnectors, BesideService, BesideGraph, BesideSelection, BesideProposals

LEMMA StepOfChild == ComponentsStep => [ChildNext]_childVars
  BY DEF ComponentsStep, Next, allVars, BesideApprovals, BesideSessions, BesideHome,
         BesideConnectors, BesideService, BesideGraph, BesideSelection, BesideProposals

LEMMA StepOfHome == ComponentsStep => [HomeNext]_homeVars
  BY DEF ComponentsStep, Next, allVars, BesideApprovals, BesideSessions, BesideChild,
         BesideConnectors, BesideService, BesideGraph, BesideSelection, BesideProposals

LEMMA StepOfConnectors == ComponentsStep => [ConnectorsNext]_connectorVars
  BY DEF ComponentsStep, Next, allVars, BesideApprovals, BesideSessions, BesideChild,
         BesideHome, BesideService, BesideGraph, BesideSelection, BesideProposals

LEMMA StepOfService == ComponentsStep => [ServiceNext]_serviceVars
  BY DEF ComponentsStep, Next, allVars, BesideApprovals, BesideSessions, BesideChild,
         BesideHome, BesideConnectors, BesideGraph, BesideSelection, BesideProposals

LEMMA StepOfGraph == ComponentsStep => [GraphNext]_graphVars
  BY DEF ComponentsStep, Next, allVars, BesideApprovals, BesideSessions, BesideChild,
         BesideHome, BesideConnectors, BesideService, BesideSelection, BesideProposals

LEMMA StepOfSelection == ComponentsStep => [SelectionNext]_capability
  BY DEF ComponentsStep, Next, allVars, BesideApprovals, BesideSessions, BesideChild,
         BesideHome, BesideConnectors, BesideService, BesideGraph, BesideProposals

LEMMA StepOfProposals == ComponentsStep => [ProposalsNext]_proposalVars
  BY DEF ComponentsStep, Next, allVars, BesideApprovals, BesideSessions, BesideChild,
         BesideHome, BesideConnectors, BesideService, BesideGraph, BesideSelection

(* Of Approvals there is a third kind: an append that no call waits for.   *)
LEMMA StepOfApprovals ==
  ComponentsStep => \/ [ApprovalsNext]_approvalVars
                    \/ AuditNext /\ UNCHANGED <<documentVars, call>>
  BY DEF ComponentsStep, Next, allVars, BesideSessions, BesideChild, BesideHome,
         BesideConnectors, BesideService, BesideGraph, BesideSelection, BesideProposals

-----------------------------------------------------------------------------
(* The components that do not meet in the chain behave, beside the others, *)
(* as they do alone.                                                       *)
THEOREM PartsBehave ==
  Spec => /\ SessionsSpec /\ ChildSpec /\ HomeSpec /\ ConnectorsSpec
          /\ ServiceSpec /\ GraphSpec /\ SelectionSpec /\ ProposalsSpec
<1>1. Init => /\ SessionsInit /\ ChildInit /\ HomeInit /\ ConnectorsInit
              /\ ServiceInit /\ GraphInit /\ SelectionInit /\ ProposalsInit
  BY DEF Init
<1>2. [Next]_allVars => /\ [SessionsNext]_sessionVars /\ [ChildNext]_childVars
                        /\ [HomeNext]_homeVars /\ [ConnectorsNext]_connectorVars
                        /\ [ServiceNext]_serviceVars /\ [GraphNext]_graphVars
                        /\ [SelectionNext]_capability /\ [ProposalsNext]_proposalVars
  BY StepOfSessions, StepOfChild, StepOfHome, StepOfConnectors, StepOfService, StepOfGraph,
     StepOfSelection, StepOfProposals DEF ComponentsStep
<1>3. QED
  BY <1>1, <1>2, PTL DEF Spec, SessionsSpec, ChildSpec, HomeSpec, ConnectorsSpec, ServiceSpec,
                         GraphSpec, SelectionSpec, ProposalsSpec

(* Documents, heads and calls of Approvals stand while others append.      *)
LEMMA ApprovalsBeside == Spec => []ApprovalsIInv
<1>1. Init => ApprovalsIInv
  BY ApprovalsInitIInv DEF Init
<1>2. ApprovalsIInv /\ [Next]_allVars => ApprovalsIInv'
  <2> SUFFICES ASSUME ApprovalsIInv, [Next]_allVars PROVE ApprovalsIInv'
    OBVIOUS
  <2>1. CASE [ApprovalsNext]_approvalVars
    BY <2>1, ApprovalsStepIInv
  <2>2. CASE UNCHANGED <<documentVars, call>>
    <3>1. UNCHANGED <<versions, heads, checkpoints, call, opened>>
      BY <2>2 DEF documentVars
    <3>2. VersionsTyped' /\ Restorable'
      BY <3>1 DEF ApprovalsIInv, VersionsTyped, Restorable, Headed
    <3>3. Entitled' /\ GateFallsByPermit'
      BY <3>1 DEF ApprovalsIInv, Entitled, GateFallsByPermit, Granted
    <3>4. \A a \in Requests : Granted(a)' = Granted(a)
      BY <3>1 DEF Granted
    <3>5. CallsOK'
      BY <3>1, <3>4 DEF ApprovalsIInv, CallsOK, CallOK, Permitted, Granted
    <3>6. OneOpens' /\ Spent'
      BY <3>1 DEF ApprovalsIInv, OneOpens, Spent
    <3>7. QED
      BY <3>2, <3>3, <3>5, <3>6 DEF ApprovalsIInv
  <2>3. QED
    BY <2>1, <2>2, StepOfApprovals DEF ComponentsStep
<1>3. QED
  BY <1>1, <1>2, PTL DEF Spec

-----------------------------------------------------------------------------
(* Every variable of every component keeps its type, whichever of them     *)
(* runs and whatever the instance (packages/runtime/src).                  *)
THEOREM ComponentsAreTyped == Spec => []TypeOK
<1>1. ApprovalsIInv => ApprovalsTypeOK
  BY DEF ApprovalsIInv, VersionsTyped, Restorable, Headed, GraphVersion, ApprovalsTypeOK
<1>2. /\ ApprovalsTypeOK /\ SessionsTypeOK /\ ChildTypeOK /\ HomeTypeOK
      /\ ConnectorsTypeOK /\ ServiceTypeOK /\ GraphTypeOK /\ SelectionTypeOK /\ ProposalsTypeOK
      => TypeOK
  BY DEF TypeOK
<1>3. QED
  BY <1>1, <1>2, PartsBehave, ApprovalsBeside, SessionsAreTyped, ChildCallsAreTyped, HomeIsTyped,
     ConnectorsAreTyped, ServiceIsTyped, SearchIsTyped, SelectionIsTyped, ProposalsAreTyped, PTL

(* What the components promise one by one they keep beside one another:    *)
(* gates fall by permits of one use, browsers are closed once and within   *)
(* the limit, callers hear the truth and ended calls act no more, homes    *)
(* are sound, kept, current when opened and migrated whole, connectors     *)
(* rest on their checks, the service answers for what it has, verdicts on  *)
(* graphs and rankings are right, validated proposals are accepted         *)
(* (packages/runtime/src).                                                 *)
THEOREM ComponentsAreSafe ==
  Spec => /\ []GateFallsByPermit /\ OneUsePermit
          /\ []ClosedOnce /\ []LimitKept
          /\ []OutcomeIsTrue /\ []EndedCallIsQuiet
          /\ []HomeIsSound /\ []OpenedIsCurrent /\ HomeIsKept /\ MigrationIsWhole
          /\ []AppliedWasChecked /\ []ReadyIsTrue
          /\ []VerdictIsRight /\ []RankingIsConsistent /\ []ValidatedIsAccepted
<1>1. ApprovalsIInv => GateFallsByPermit
  BY DEF ApprovalsIInv
<1>2. Spec => []GateFallsByPermit
  BY <1>1, ApprovalsBeside, PTL
<1>3. Spec => OneUsePermit
  <2>1. Init => OneShot!Init
    BY NothingGrantedYet DEF Init
  <2>2. ApprovalsIInv /\ [Next]_allVars => [OneShot!Next]_<<GrantedSet, opened>>
    <3> SUFFICES ASSUME ApprovalsIInv, [Next]_allVars
                 PROVE  OneShot!Next \/ UNCHANGED <<GrantedSet, opened>>
      OBVIOUS
    <3>1. CASE [ApprovalsNext]_approvalVars
      BY <3>1, ApprovalStepIsPermitStep
    <3>2. CASE UNCHANGED <<documentVars, call>>
      BY <3>2, NoVersionNoGrant DEF documentVars
    <3>3. QED
      BY <3>1, <3>2, StepOfApprovals DEF ComponentsStep
  <2>3. QED
    BY <2>1, <2>2, ApprovalsBeside, PTL DEF Spec, OneUsePermit, OneShot!Spec, GrantedSet
<1>4. QED
  BY <1>2, <1>3, PartsBehave, BrowsersAreClosedOnce, TheLimitIsKept, OutcomesAreTrue, EndedCallsAreQuiet,
     HomesAreSound, OpenedStoresAreCurrent, HomesAreKept, MigrationsAreWhole, ApplyRestsOnChecks,
     ReadinessIsTrue, VerdictsAreRight, RankingIsAnOrder, ValidProposalsAreAccepted, PTL
=============================================================================
