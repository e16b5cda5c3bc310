SPECIFICATION FairSpec
CONSTANTS
  p1 = p1 p2 = p2 t1 = t1 t2 = t2 s1 = s1 s2 = s2 f1 = f1 f2 = f2
  Process = {p1, p2}
  Mortal = {p1}
  Submitter = {s1, s2}
  Flusher = {f1, f2}
  ProcessOf <- MCProcessOf
  TargetOf <- MCTargetOf
  Target = {t1, t2}
  Event = {1, 2}
  Record <- MCRecord
  Submits <- MCSubmits
  NoRecord = NoRecord
  Nobody = Nobody
  MaxEvents = 2
  MaxBatch = 1
  MaxSubmits = 3
  MaxFaults = 1
INVARIANT
  Bounded
PROPERTIES
  Delivers
  Delivered

CHECK_DEADLOCK FALSE
