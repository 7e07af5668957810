SPECIFICATION FairSpec
CONSTANTS
  a1 = a1
  a2 = a2
  Request <- MCRequest
  MaxTokens = 1
  MaxFaults = 1
PROPERTIES
  ApprovalLands
  RequestsEnd
