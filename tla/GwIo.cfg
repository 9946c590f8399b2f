SPECIFICATION FairSpec
CONSTANTS
  MaxIn = 2
  MaxOut = 3
  MaxBreaks = 3
  MaxData = 1
INVARIANTS
  BrokerStreamWhole
  WrittenInOrder
PROPERTY
  SentInTheEnd
CHECK_DEADLOCK FALSE
