SPECIFICATION Spec
CONSTANTS
  graph = graph
  evidence = evidence
  w1 = w1
  w2 = w2
  k1 = k1
  k2 = k2
  x = x
  y = y
  NoDocument = NoDocument
  NoCheckpoint = NoCheckpoint
  Documents <- MCDocuments
  Records <- MCRecords
  Contents <- MCContents
  Writers <- MCWriters
  Modes <- BothModes
  Checkpoints <- OneCheckpoint
  MaxVersions = 2
INVARIANTS TypeOK PointersResolve 
PROPERTY KeepsViews
