SPECIFICATION Spec
CONSTANTS
  Poster = {r1, r2}
  Publisher = {p1, p2}
  Batches <- MCBatches
  FirstPoint = 1
  Period = 2
  MaxClock = 3
  Skew = 0
  LateWindow = 2
  MaxPosts = 2
  MaxPublishes = 2
  MaxFaults = 1
  None = None
SYMMETRY MCSymmetry
INVARIANTS AckIsDurable EvidenceBacked
PROPERTIES PublishedStays Publishes Heals
CHECK_DEADLOCK FALSE
