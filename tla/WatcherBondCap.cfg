SPECIFICATION Spec
CONSTANTS
  t1 = t1
  t2 = t2
  e1 = e1
  e2 = e2
  e3 = e3
  e4 = e4
  x1 = x1
  x2 = x2
  x3 = x3
  Thoughts = {t1, t2}
  OutcomeOf <- MCAllFrauds
  Events = {e1, e2}
  ThoughtOf <- MCOneEventEach
  Transactions = {x1, x2}
  LogsOf <- MCTwoLogs
  Vain = {}
  Strategy = "Conservative"
  Capacity = 1
  AgentStake = 20000
  BondMin = 100
  MaxAtRisk = 100
  TxFee = 1
  MaxU64 = 100000
  MaxRestarts = 0
  MaxReconnects = 0
  NoEvent = NoEvent
INVARIANT DocBondsWithinCap
CHECK_DEADLOCK FALSE
