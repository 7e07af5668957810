SPECIFICATION Spec
CONSTANTS
  s1 = s1
  i1 = i1
  p1 = p1
  c1 = c1
  c2 = c2
  c3 = c3
  f1 = f1
  f2 = f2
  j1 = j1
  j2 = j2
  Source <- MCSource
  Invoice <- MCInvoice
  Payment <- MCPayment
  Customer <- MCCustomer
  Phone <- MCPhone
  Job <- MCJob
  SourceOf <- MCSourceOf
  InvoiceOf <- MCInvoiceOf
  PhoneOf <- MCPhoneOf
  BatchSize = 1
  Interval = 1
  MaxTime = 2
  MaxEvents = 3
SYMMETRY Symmetry
CHECK_DEADLOCK FALSE
INVARIANTS
  TypeOK
  BehindWindowIsStored
  PaymentHasInvoice
  CopiesBounded
PROPERTIES
  DuplicateIsFrozen
