SPECIFICATION Spec
CONSTANTS
  n1 = n1
  n2 = n2
  p1 = p1
  p2 = p2
  NoSupervisor = NoSupervisor
  NoAssignment = NoAssignment
  Nodes <- TwoNodes
  DependsOn <- Chain
  Supervisors <- TwoSupervisors
  MaxAttempts = 2
  MaxConcurrent = 1
  MaxWork = 2
  MaxCycles = 1
  FailureThreshold = 9
  Limits <- OneLimit
  RacyGraphs = FALSE
  RecoverBesideLive = FALSE
  MaxCalls = 2
  MaxCancels = 1
  MaxRecoveries = 1
  MaxEdits = 1
  MaxAborts = 1
  MaxCrashes = 1
SYMMETRY EitherSupervisor
INVARIANTS TypeOK DependencyGate  
 
CHECK_DEADLOCK FALSE
