SPECIFICATION FairSpec
CONSTANTS
  d1 = d1
  d2 = d2
  g1 = g1
  NoProc = NoProc
  Dispatchers <- TwoDispatchers
  Collectors <- OneCollector
  Mortal <- MortalPair
  Candidates = 2
  MaxRetries = 2
  MaxIds = 3
INVARIANT
  OneHistory
PROPERTIES
  DeletionCompletes
  NeverOverLostHistory
  QuarantineIsFinal
