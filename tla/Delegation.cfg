SPECIFICATION Spec
CONSTANTS
  Procs = {p1, p2}
  None = None
  MaxAttempts = 2
  MaxCycles = 2
  MaxChildren = 4
  MaxFaults = 2
SYMMETRY Symmetry
INVARIANTS
  ChildrenFollowDeath
  NoDoubtCarriedOn
  SettledIsQuiet
PROPERTY
  IsSuccession
CHECK_DEADLOCK FALSE
