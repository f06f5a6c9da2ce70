SPECIFICATION Spec
CONSTANTS
  first = first
  retry = retry
  esg = esg
  screen = screen
  replica = replica
  sweep = sweep
  p1 = p1
  p2 = p2
  p3 = p3
  p4 = p4
  None = None
  Authorizers = {first, retry}
  Runs = {esg}
  Settlers = {screen, replica}
  Sweeps = {}
  Files = {p1, p2, p3, p4}
  Cost <- MCCost
  Charge = 2
  ExpiresAt = 1
  Grace = 5
  MinTTL = 1
  UnusedAfter = 1
  DeadAfter = 2
  MinAge = 0
  Window = 5
  LastStart = 1
  MaxNow = 3
  Outcomes <- MCOutcomes
  MaxFaults = 1
PROPERTY RefundClosesQuote
CHECK_DEADLOCK FALSE
