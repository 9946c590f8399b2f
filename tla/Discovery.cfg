SPECIFICATION FairSpec
CONSTANTS
  GwId = {1, 2}
  Period = 2
  RetryPeriod = 2
  RetryCount = 1
  AllowedAdvLosses = 1
  GwAdvTimeout = 2
  Delay = 1
  Limits = {1, 2}
  MaxEvents = 2
INVARIANT ToldAgrees
PROPERTIES RemovedOnlyAfterLosses GoneForgotten
