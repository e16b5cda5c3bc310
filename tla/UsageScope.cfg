SPECIFICATION FairSpec
CONSTANTS
  Account = {a1, a2}
  Context = {c1, c2}
  None = None
  Failed = Failed
INVARIANT OwnFigures
PROPERTIES RefreshIsNotLost Recovers
CHECK_DEADLOCK FALSE
