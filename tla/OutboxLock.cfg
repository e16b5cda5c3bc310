SPECIFICATION FairSpec
CONSTANTS
  c1 = c1 c2 = c2 c3 = c3 c4 = c4
  p1 = p1 p2 = p2 p3 = p3
  Client = {c1, c2, c3, c4}
  Process = {p1, p2, p3}
  ProcessOf <- MCProcessOf
  NoClient = NoClient
PROPERTIES
  IsMutex
  DeadLockIsReclaimed
CHECK_DEADLOCK FALSE
