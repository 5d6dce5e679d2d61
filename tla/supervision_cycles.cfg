SPECIFICATION FairSpec
CONSTANTS
  n1 = n1
  n2 = n2
  p1 = p1
  p2 = p2
  NoSupervisor = NoSupervisor
  NoAssignment = NoAssignment
  Nodes <- TwoNodes
  DependsOn <- Chain
  Supervisors <- OneSupervisor
  MaxAttempts = 2
  MaxConcurrent = 1
  MaxWork = 2
  MaxCycles = 3
  FailureThreshold = 2
  Limits <- OneLimit
  RacyGraphs = FALSE
  RecoverBesideLive = FALSE
  MaxCalls = 2
  MaxCancels = 1
  MaxRecoveries = 1
  MaxEdits = 0
  MaxAborts = 0
  MaxCrashes = 2
INVARIANT RunningBlocksRetry
 
CHECK_DEADLOCK FALSE
