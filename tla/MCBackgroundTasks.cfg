SPECIFICATION Spec
CONSTANTS
  m1 = m1
  m2 = m2
  w1 = w1
  w2 = w2
  q1 = q1
  q2 = q2
  a = a
  b = b
  Task <- MCTask
  Worker <- MCWorker
  Request <- MCRequest
  Phones <- MCPhones
  Limit = 1
  MaxFaults = 1
SYMMETRY Symmetry
INVARIANTS
  TypeOK
  ResultIsTrue
  OvershootBounded
  NotLost
