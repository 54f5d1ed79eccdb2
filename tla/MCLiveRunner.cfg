CONSTANTS
  Orders = {o1, o2}
  None = None
  MaxRetries = 1
  StaleLimits = {0}
  GuardLimit = 0
  MaxFills = 2
  MaxStream = 2
SPECIFICATION FairSpec
INVARIANTS
  TypeOK
  FailuresAreRetried
  InventoryCatchesUp
PROPERTIES
  OldMidMeansNewBook
  TickerFollowsFeed
CHECK_DEADLOCK FALSE
