SPECIFICATION Spec
CONSTANTS
  a1 = a1
  n1 = n1
  Processes = {p1, p2}
  p1 = p1
  p2 = p2
  Events <- OtherEvents
  MetadataKeys = {"subjectKind", "sessionId"}
  SensitiveKeys = {"sessionId"}
  Garbled = garbled
  Metadata <- AllGiven
  MaxReceipts = 3
  Requests = {a1}
  Items = {n1}
  Subject <- OneItem
  ActorKinds = {"human", "agent"}
  Required <- SomebodyRequired
  MaxVersions = 3
  MaxRestores = 1
  Callers = {c1, c2}
  c1 = c1
  c2 = c2
  Sessions = {s1, s2}
  s1 = s1
  s2 = s2
  SessionLimit = 1
  BatchSize = 2
  NoSession = noSession
  BatchLength = 2
  Stubborn = {"foreign", "cli"}
  Users = {u1, u2}
  u1 = u1
  u2 = u2
  CURRENT_STATE_SCHEMA_VERSION = 2
  Registry <- TwoSteps
  NoMarker = noMarker
  Mixed = mixed
  MaxFiles = 3
  MaxWrites = 1
  Shells = {u1, u2}
  MaxRevisions = 4
  MaxConnections = 2
  WorkNodes = {1, 2, 3}
  NoParent = noParent
  WorkGraphs <- SmallGraphs
  Capabilities = {1, 2, 3}
  UnitCosts = {1, 2}
  NoPrice = noPrice
  Declarations <- Declared
  Findings <- Shown
  m1 = m1
  m2 = m2
  g1 = g1
  g2 = g2
  q1 = q1
  q2 = q2
  Planners = {p1, p2}
  WorkGraphIds = {g1, g2}
  Missions = {m1, m2}
  Streams = {1, 2}
  ProposalIds = {q1, q2}
  Proposals <- Revised
INVARIANTS
  TypeOK
  VerifyReports
   ReceiptsTellTheTruth
  ClosedOnce LimitKept
  OutcomeIsTrue EndedCallIsQuiet
  OpenedIsCurrent HomeIsSound
  AppliedWasChecked
  ReadyIsTrue
  
  RankingIsConsistent
  
PROPERTIES
  OneUsePermit
  BatchClosesItsSession
  
  MigrationIsWhole HomeIsKept
CHECK_DEADLOCK FALSE
