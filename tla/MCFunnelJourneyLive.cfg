SPECIFICATION FairSpec
CONSTANTS
  p1 = p1
  p2 = p2
  q1 = q1
  q2 = q2
  Nobody = Nobody
  Other = Other
  Unset = Unset
  Journey <- MCOneJourney
  Request <- MCRequest
  Last = 2
  MaxRequests = 2
  MaxFaults = 2
CHECK_DEADLOCK FALSE
PROPERTIES
  StageLands
