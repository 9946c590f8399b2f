CONSTANTS
  Topic = {"a", "b", "p", "q", "s"}
  Predefined <- Predef
  Short <- ShortIds
  Configured = {"q"}
  Subscribed = {"a", "q"}
  Refused = {"b"}
  MaxTopicId = 3
  MaxPacketId = 9
  RetryCount = 1
  OutRegTopicsLimit = 1
  LastId = {7}
  MaxFaults = 1
  MaxInFlight = 1
  Menus <- Applications
  MaxRequests = 2
SPECIFICATION FairSpec
INVARIANTS OneAtATime ReportedMeansPublished PacketIdsOwned SubscriptionsAgree
PROPERTIES InOrder 
CHECK_DEADLOCK FALSE
