SPECIFICATION FairSpec
CONSTANTS
  Topic = {"a", "b"}
  PredefinedTopic = {"b"}
  MaxTopicId = 2
  MsgIds = 65536
  RetryCount = 2
  PubAccLimit = 3
  InRegTopicsLimit = 1
  MaxQos = 2
  Unsubscribed = {}
  Refused = {}
  Qos = {2}
  FirstMsgId = {0}
  OwnTopics = {{}, {"a"}}
  Networks = {FALSE}
  MaxMsgs = 2
  MaxFaults = 0
  MaxInFlight = 100
  MaxHeld = 1
  MaxNaps = 2
INVARIANT AcknowledgedMeansDelivered
PROPERTIES PingrespComes NoStall
CHECK_DEADLOCK FALSE
