SPECIFICATION FairSpec
CONSTANTS
  N = 3
  SendAt <- MCSendAt
  Stream <- MCStream
  Pts <- MCPts
  Window = 2
  Skew = 2
  Stall = 1
CHECK_DEADLOCK FALSE
PROPERTIES Merges ComesOutInTime
