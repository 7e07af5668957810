SPECIFICATION FairSpec
CONSTANTS
  r1 = r1
  r2 = r2
  t1 = t1
  t2 = t2
  approvals = approvals
  campaigns = campaigns
  Replica <- MCReplica
  Task <- MCTask
  Topics <- MCTopics
  TopicOf <- MCTopicOf
  MaxTasks = 2
  MaxRetries = 2
  MaxFaults = 2
INVARIANTS
  TypeOK
  SettledMeansReturned
  IncidentMeansExhausted
  OnceWithoutFaults
PROPERTIES
  KeepsPromise
  EventuallySettled
