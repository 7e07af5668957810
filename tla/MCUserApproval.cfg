SPECIFICATION Spec
CONSTANTS
  a1 = a1
  a2 = a2
  Request <- MCRequest
  MaxTokens = 2
  MaxFaults = 1
INVARIANTS
  TypeOK
  ApprovedByAdmin
  BarredStaysOut
  ProcessIsKnown
  DecidedOnce
PROPERTIES
  ApprovalIsFinal
