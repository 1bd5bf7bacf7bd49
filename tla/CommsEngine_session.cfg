SPECIFICATION FairSpec
CONSTANTS
  Chans = {c}
  MaxEvents = 4
CHECK_DEADLOCK FALSE
INVARIANTS HotOnlyWhileKeyed KeyedIsFed PublishedAsAllowed MusicIsRestored IfbCutsThrough OneFeed
PROPERTY ComesBack
