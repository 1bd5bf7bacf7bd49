SPECIFICATION RateFairSpec
CONSTANTS
  Bitrate = 100
  FloorPct = 40
  Abr = TRUE
  Live = TRUE
  Lines = {150}
  MaxLines = 2
  MaxJams = 2
INVARIANT RateIsSound
PROPERTY FollowsTheNetwork
