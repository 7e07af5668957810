SPECIFICATION FairSpec
CONSTANTS
  m1 = m1
  m2 = m2
  s1 = s1
  Poller = poller
  Msg <- OneMsg
  Ours <- OneMsg
  Session <- MCSession
  PollLimit = 2
  MaxFaults = 2
CHECK_DEADLOCK FALSE
PROPERTIES
  DeliveryRecorded
  WorkEnds
