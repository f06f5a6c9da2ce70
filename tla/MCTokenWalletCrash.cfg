SPECIFICATION Spec
CONSTANTS
  authorize = authorize
  settlement = settlement
  spend1 = spend1
  spend2 = spend2
  freebie = freebie
  grant = grant
  refund = refund
  extract = extract
  unpriced = unpriced
  NoBalance = NoBalance
  Calls <- MCCalls
  References <- MCReferences
  Welcome = grant
  Amount <- MCAmount
  RefOf <- MCRefOf
INVARIANT QuiescentBalanceIsLedgerSum
CHECK_DEADLOCK FALSE
