SPECIFICATION FairSpec
CONSTANTS
  None = None
  Players = {p1, p2, p3}
  Urls = {u1}
  FirstUrl = u1
  MaxQuickFails = 2
  StableRuns = FALSE
  MaxEdits = 1
CHECK_DEADLOCK FALSE
INVARIANTS PlayerIsSound StoppedLetsGo
PROPERTY GivesUp
