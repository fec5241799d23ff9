SPECIFICATION FairSpec
CONSTANTS
  t1 = t1
  t2 = t2
  e1 = e1
  e2 = e2
  e3 = e3
  e4 = e4
  x1 = x1
  x2 = x2
  x3 = x3
  Thoughts = {t1, t2}
  OutcomeOf <- MCAllButLanded
  Events = {e1, e2, e3, e4}
  ThoughtOf <- MCRetried
  Transactions = {x1, x2, x3}
  LogsOf <- MCThreeLogs
  Vain = {x1, x3}
  Strategy = "Conservative"
  Capacity = 1
  AgentStake = 20000
  BondMin = 100
  MaxAtRisk = 100
  TxFee = 1
  MaxU64 = 100000
  MaxRestarts = 1
  MaxReconnects = 1
  NoEvent = NoEvent
INVARIANTS
  TypeOK
  EventsFlowInOrder
  InFlightIsReserved
  CapHoldsUnlessOverlapping
  FilingsHaveGrounds
PROPERTIES
  SlowFetchStallsNothing
  Reconnects
  DoesItsDuty
CHECK_DEADLOCK FALSE
