CONSTANTS
  p1 = p1
  p2 = p2
  p3 = p3
  NoProc = NoProc
  Procs <- AllProcs
  Takers <- AllProcs
  Mortal <- TwoProcs
  Stubborn <- JustP3
  RacyTakeover = FALSE
SPECIFICATION FairSpec
INVARIANT SingleWriter
PROPERTIES EvictsOnlyTheDead StaleLockReclaimed
CHECK_DEADLOCK FALSE
