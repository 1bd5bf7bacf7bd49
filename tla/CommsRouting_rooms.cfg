SPECIFICATION FairSpec
CONSTANTS
  a = a
  sp = sp
  channel = channel
  aDirect = aDirect
  aTalk = aTalk
  aMusic = aMusic
  player1 = player1
  Conns = {a, b}
  Chans = {channel}
  Sids = {aTalk, player1}
  Player = sp
  Gateways = {}
  Owner <- MCOwner
  TrackKind <- MCKindOf
  TrackChan <- MCChanOf
  InitRights <- TalkerRights
  InitKind <- WithMusic
  Grants = {{}, {"talk", "listen"}}
  ChanKinds = {"music"}
  FaultKinds = {"call", "list", "lost"}
  MaxFaults = 1
  MaxOps = 1
  MaxQueue = 1
  ListCalls = {k1, k2}
INVARIANTS RevokedIsDropped SwitchedOnIsAllowed
PROPERTY Delivered
