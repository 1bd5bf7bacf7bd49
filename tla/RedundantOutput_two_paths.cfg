SPECIFICATION FairSpec
CONSTANTS
  Paths = {1, 2}
  Writers = {netout}
  Threshold = 2
  MaxDeaths = 2
  Rejects = TRUE
CHECK_DEADLOCK FALSE
PROPERTIES KeptForCause PathsRecover
