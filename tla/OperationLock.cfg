SPECIFICATION FairSpec
CONSTANTS
  Procs = {p1, p2, p3, p4}
  NoProc = NoProc
  RacyReclaim = FALSE
PROPERTIES
  IsMutex
  DeadHolderIsReplaced
CHECK_DEADLOCK FALSE
