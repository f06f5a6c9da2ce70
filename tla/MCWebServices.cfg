CONSTANTS
  o1 = o1
  o2 = o2
  q1 = q1
  q2 = q2
  x1 = x1
  x2 = x2
  f1 = f1
  c1 = c1
  c2 = c2
  Orders = {o1, o2}
  ProOrders = {o1, o2}
  Requests = {r1, r2}
  VerdictsOf <- MCVerdictsOf
  Term = 3
  DayLimit = 1
  FaultLimit = 1
  Quotes = {q1, q2}
  Owed <- MCOwed
  Charged <- MCCharged
  Settlers = {s1, s2}
  Allowance = 3
  RefundDay = 1
  SweepWindow = 3
  TickLimit = 3
  AuditRecords = {x1, x2}
  Passes = {p1, p2}
  Retention = 1
  ScanLimit = 2
  PurgeLimit = 1
  LastDay = 2
  Archiving = TRUE
  NoSeal = NoSeal
  Reports = {f1}
  Recipients = {c1, c2}
  FirstList = {c1}
  Replicas = {n1, n2}
  Lanes = {1}
  MaxNotify = 3
  PerHour = 1
  CrashLimit = 1
  Tabs = {t1}
  Handlers = {h1, h2}
  Inputs = {figures}
  TurnLimit = 2
  NoCopy = NoCopy
  Idle = Idle
SPECIFICATION ServicesSpec
INVARIANTS
  ServicesTypeOK
  PaidIsDelivered
  AnsweredIsSettled
  RefundsArePaced
  PurgedIsAccountedFor
  PurgedIsArchived
  CopiesAreAccounted
  RecordAgrees
PROPERTIES
  PaymentsAreDelivered
  SealsAreFinal
  ReportsAreSettled
  LockHolds
CHECK_DEADLOCK FALSE
