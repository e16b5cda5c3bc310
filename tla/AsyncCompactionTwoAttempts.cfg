SPECIFICATION Spec
CONSTANTS
  History = 3
  MaxAttempts = 2
  MaxEntries = 5
  MaxInputs = 0
  Changes = {"navigation","environment"}
PROPERTIES
  OutcomeIsHonest
CHECK_DEADLOCK FALSE
