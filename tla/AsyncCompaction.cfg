SPECIFICATION FairSpec
CONSTANTS
  History = 3
  MaxAttempts = 1
  MaxEntries = 5
  MaxInputs = 2
  Changes = {"preference", "edit"}
PROPERTIES
  WaitEnds
  AdoptsOnlyUnchanged
  CancelIsNotFallback
CHECK_DEADLOCK FALSE
