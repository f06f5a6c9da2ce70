\* The calls all end, so the system does stop.
SPECIFICATION FairSpec
CONSTANTS
  authorize = authorize
  settlement = settlement
  spend1 = spend1
  spend2 = spend2
  freebie = freebie
  grant = grant
  refund = refund
  extract = extract
  unpriced = unpriced
  NoBalance = NoBalance
  Calls <- MCCalls
  References <- MCReferences
  Welcome = grant
  Amount <- MCAmount
  RefOf <- MCRefOf
INVARIANTS
  TypeOK
  Conservation
  OverdraftIsUndoneCredit
PROPERTIES
  ImplementsLedger
  EventuallyExact
CHECK_DEADLOCK FALSE
