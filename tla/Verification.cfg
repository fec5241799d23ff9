SPECIFICATION Spec
CONSTANTS
  i1 = i1
  i2 = i2
  honest = honest
  other = other
  junk = junk
  s1 = s1
  s2 = s2
  u1 = u1
  u2 = u2
  d1 = d1
  d2 = d2
  Absent = Absent
  Undecodable = Undecodable
  Events <- MCEvents
  Bundles <- MCBundles
  Equipment <- MCEquipment
  Terms <- MCTerms
  SupportedUris = {u1}
  DecisionOf <- MCDecisionOf
  ModelOutput <- MCModelOutput
  MaxAtRisk = 300
  TxFee = 2
  MaxU64 = 511
INVARIANTS
  HonestNeverAccused
  ContradictionsCaught
  StrictMeansReproduced
  QuoteConfirmsOneThought
  FilingsPay
CHECK_DEADLOCK FALSE
