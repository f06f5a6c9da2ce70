SPECIFICATION Spec
CONSTANTS
  settle = settle
  checkout = checkout
  run1 = run1
  run2 = run2
  refund = refund
  recorded = recorded
  itn = itn
  failedItn = failedItn
  Requests <- MCRequests
  RouteOf <- MCRouteOf
  ExpiresAt = 1
  Grace = 2
  MinTTL = 1
  MaxAttempts = 2
  RecordAttempts = 1
  MaxNow = 4
INVARIANTS
  TypeOK
  OneRun
  NeverVoidedAndRun
  RunWasPaid
PROPERTIES
  ConsumedIsKept
  ImplementsAtomicQuote
CHECK_DEADLOCK FALSE
