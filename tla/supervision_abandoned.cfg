SPECIFICATION Spec
CONSTANTS
  n1 = n1
  n2 = n2
  p1 = p1
  p2 = p2
  NoSupervisor = NoSupervisor
  NoAssignment = NoAssignment
  Nodes <- OneNode
  DependsOn <- NoEdges
  Supervisors <- OneSupervisor
  MaxAttempts = 1
  MaxConcurrent = 1
  MaxWork = 2
  MaxCycles = 1
  FailureThreshold = 9
  Limits <- NoLimits
  RacyGraphs = FALSE
  RecoverBesideLive = FALSE
  MaxCalls = 1
  MaxCancels = 0
  MaxRecoveries = 1
  MaxEdits = 0
  MaxAborts = 0
  MaxCrashes = 1
INVARIANT AbandonedWorkIsFound
CHECK_DEADLOCK FALSE
