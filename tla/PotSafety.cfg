SPECIFICATION Spec
CONSTANTS
  o1 = o1
  c1 = c1
  gov = gov
  m1 = m1
  Wallets = {o1, c1, gov}
  Operators = {o1}
  Challengers = {o1, c1}
  Governance = gov
  Models = {m1}
  PolicyIds = {p1}
  Seeds = {s1}
  Actions = {a1}
  PolicyArgs <- MCPolicyArgs
  Amounts = {7, 10}
  InitialLamports = 17
  RentMin = 0
  MaxAllowedModels = 1
  MaxU32 = 2
  MaxU64 = 1000
  MaxI64 = 1000
  MaxNonces = 2
  MaxSlot = 3
  NoAccount = NoAccount
INVARIANTS
  TypeOK
  ActiveThoughtsExact
  VaultHoldsStake
  BondsEscrowed
  DisputesDecideOutcomes
  FinalOnlyByDueProcess
  SeedsSpentOnce
  ConsumedStaysFinal
  BackedUnlessSlashed
  ReputationTally
  LamportsConserved
  ChallengerLosesOnlyLostBonds
PROPERTIES
  StakeLeavesOnlyBySlashing
  OutcomesAreFinal
CHECK_DEADLOCK FALSE
