CONSTANTS
  sA = sA
  sB = sB
  t1 = t1
  t2 = t2
  dA = dA
  f1 = f1
  f2 = f2
  Sections = {sA, sB}
  Typed = {t1, t2}
  Documents <- MCDocuments
  Flows = {f1, f2}
  ClickLimit = 1
  TabFaultLimit = 0
  NoPayload = NoPayload
  NoFlow = NoFlow
  Timer = Timer
SPECIFICATION AutosaveSpec
PROPERTY MergeDeletesNothing
CHECK_DEADLOCK FALSE
