CONSTANTS
  l1 = l1
  l2 = l2
  l3 = l3
  e1 = e1
  e2 = e2
  e3 = e3
  kA = kA
  kB = kB
  w1 = w1
  w2 = w2
  d1 = d1
  d2 = d2
  Processes = {l1, l2, l3}
  NameOf <- MCNameOf
  Ttl = 2
  ClockLimit = 5
  NoLease = NoLease
  Entities = {e1, e2, e3}
  RowKeys = {kA, kB}
  KeyOf <- MCKeyOf
  Webs = {w1, w2}
  Drainers = {d1, d2}
  MaxAttempts = 1
  Budget = 3
  NoDraft = NoDraft
  NoFlush = NoFlush
  NoWrite = NoWrite
  sA = sA
  sB = sB
  t1 = t1
  t2 = t2
  dA = dA
  f1 = f1
  f2 = f2
  Sections = {sA, sB}
  Typed = {t1, t2}
  Documents <- MCDocuments
  Flows = {f1, f2}
  ClickLimit = 1
  TabFaultLimit = 1
  NoPayload = NoPayload
  NoFlow = NoFlow
  Timer = Timer
SPECIFICATION BackgroundSpec
INVARIANTS
  BackgroundTypeOK
  OneWalkPerTerm
  QuietIsCurrent
  NoRowForgotten
  QuietIsScored
PROPERTIES
  ReleasesItsOwn
  BecomesQuiet
  NothingLeftWaiting
  ComesToRest
CHECK_DEADLOCK FALSE
