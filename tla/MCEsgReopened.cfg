CONSTANTS
  Tabs = {t1}
  Handlers = {r1}
  Inputs = {figures}
  TurnLimit = 2
  NoCopy = NoCopy
  Idle = Idle
SPECIFICATION EsgSpec
INVARIANT ReopenIsTraceable
CHECK_DEADLOCK FALSE
