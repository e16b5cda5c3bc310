SPECIFICATION Spec
CONSTANTS
  Writers = {w1, w2}
  Collectors = {g1}
  NoProc = NoProc
  Mortal = {w1, g1}
  Confirming = {w2}
  TornWrites = {"record", "header", "lease"}
  FailedWrites = {"nothing"}
  FailedSteps = {"unlink", "mark", "rename"}
  Checksums = {1}
  MaxAttempts = 2
  MaxRecords = 5
  MaxHandles = 2
  MaxLeases = 3
INVARIANT
  FenceHolds
  AckedIsDurable
PROPERTIES
  IsFencedLog
  CollectionSparesWriters
  NoResurrection
CHECK_DEADLOCK FALSE
