SPECIFICATION AuditSpec
CONSTANTS
  Processes = {p1, p2}
  Events <- RecordedEvidence
  Garbled = "garbled"
  MetadataKeys = {"contentDigest"}
  SensitiveKeys = {}
  Metadata <- PerhapsLeftOut
  MaxReceipts = 3
INVARIANT UntouchedChainVerifies
CHECK_DEADLOCK FALSE
