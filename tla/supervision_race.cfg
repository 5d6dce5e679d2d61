SPECIFICATION Spec
CONSTANTS
  n1 = n1
  n2 = n2
  p1 = p1
  p2 = p2
  NoSupervisor = NoSupervisor
  NoAssignment = NoAssignment
  Nodes <- OneNode
  DependsOn <- NoEdges
  Supervisors <- TwoSupervisors
  MaxAttempts = 1
  MaxConcurrent = 1
  MaxWork = 2
  MaxCycles = 2
  FailureThreshold = 9
  Limits <- NoLimits
  RacyGraphs = TRUE
  RecoverBesideLive = TRUE
  MaxCalls = 2
  MaxCancels = 1
  MaxRecoveries = 1
  MaxEdits = 0
  MaxAborts = 0
  MaxCrashes = 0
SYMMETRY EitherSupervisor
INVARIANTS NoFabricatedCompletion OneRunnerPerAttempt
CHECK_DEADLOCK FALSE
