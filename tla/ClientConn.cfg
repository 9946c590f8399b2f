SPECIFICATION FairSpec
CONSTANTS
  RetryPeriod = 1
  RetryCount = 1
  KeepAlive = 3
  Sleep = 6
  Will <- Wills
  None = None
  MaxLate = 1
INVARIANTS
  
  ConnectionWatched
  
  GoneOnlyAfterPings
PROPERTIES
  
  SilenceNoticedOnceHeard
