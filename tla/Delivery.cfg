SPECIFICATION Spec
CONSTANTS
  Topic = {"a", "b"}
  PredefinedTopic = {}
  MaxTopicId = 2
  MsgIds = 65536
  RetryCount = 2
  PubAccLimit = 3
  InRegTopicsLimit = 1
  MaxQos = 2
  Unsubscribed = {}
  Refused = {}
  Qos = {0, 1, 2}
  FirstMsgId = {65533}
  OwnTopics = {{}, {"a"}}
  Networks = {FALSE, TRUE}
  MaxMsgs = 2
  MaxFaults = 1
  MaxInFlight = 1
  MaxHeld = 2
  MaxNaps = 0
INVARIANTS TimerRuns AcknowledgedMeansDelivered TopicsRightIfRegistered
PROPERTY InOrder
CHECK_DEADLOCK FALSE
