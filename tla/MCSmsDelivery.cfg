SPECIFICATION Spec
CONSTANTS
  m1 = m1
  m2 = m2
  s1 = s1
  Poller = poller
  Msg <- TwoMsgs
  Ours <- OneMsg
  Session <- MCSession
  PollLimit = 2
  MaxFaults = 0
CHECK_DEADLOCK FALSE
INVARIANTS
  TypeOK
  RowTellsTruth
  AcceptedIsTracked
  WebhookIsNoVictim
PROPERTIES
  PollOnlyAdvances
