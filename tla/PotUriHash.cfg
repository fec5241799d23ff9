SPECIFICATION SystemSpec
CONSTANTS
  o1 = o1
  w1 = w1
  gov = gov
  Wallets = {o1, w1, gov}
  Operators = {o1}
  Challengers = {w1, gov}
  Governance = gov
  Models = {m1}
  PolicyIds = {p1}
  Seeds = {s1, s2}
  Actions = {a1}
  PolicyArgs <- MCPolicyArgs
  Amounts = {7}
  InitialLamports = 15
  RentMin = 0
  MaxAllowedModels = 1
  MaxU32 = 2
  MaxU64 = 1000
  MaxI64 = 1000
  MaxNonces = 1
  MaxSlot = 1
  NoAccount = NoAccount
  Operator = o1
  Model = m1
  PolicyId = p1
  ActionPda = a1
  Outputs = {x, y}
  Uris = {u1}
  InitialStake = 10
  ThePolicy <- MCThePolicy
  MaxFaults = 2
  MaxInFlight = 2
  Nothing = Nothing
  WatcherKey = w1
  Prefunders = {w1}
  Strategy = "Conservative"
  MaxAtRisk = 20
  TxFee = 1
  AgentStake = 100
  BondMin = 7
  StrayAmount = 1
  LoggedElsewhere = {}
INVARIANT
  DocUploadedTracesAreFetchable
CHECK_DEADLOCK FALSE
SYMMETRY MCSymmetry
