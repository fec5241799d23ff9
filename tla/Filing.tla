------------------------------ MODULE Filing ------------------------------
(***************************************************************************)
(* The watcher's filing decision, ChallengeFiler::decide of                *)
(* watcher/src/challenge.rs: what to do about a verified thought, given    *)
(* the stake behind it, the policy's bond floor and the bond this watcher  *)
(* already has in flight.  Amounts are u64 lamports.                       *)
(***************************************************************************)
EXTENDS Naturals

CONSTANTS
  MaxAtRisk,     \* max_stake_at_risk_lamports
  TxFee,         \* tx_fee_lamports
  MaxU64         \* u64::MAX

ASSUME FilingAssumption == MaxAtRisk \in Nat /\ TxFee \in Nat /\ MaxU64 \in Nat

Strategies == {"Conservative", "Aggressive", "Disabled"}
Outcomes == {"Match", "Mismatch", "Inconclusive"}
Decisions == {"NoFraud", "Inconclusive", "EvNegative", "FilingDisabled", "File"}

Saturate(n) == IF n > MaxU64 THEN MaxU64 ELSE n

BondFor(strategy, bondMin) ==
  IF strategy = "Aggressive" THEN Saturate(2 * bondMin) ELSE bondMin

ExpectedPayout(stake) == (stake * 6) \div 10

EvPositive_NoFee(bond, stake) == ExpectedPayout(stake) > bond
EvPositive(bond, stake) == ExpectedPayout(stake) > Saturate(bond + TxFee)

WithinCap_ThisBondAlone(bond, inFlight) == bond <= MaxAtRisk
WithinCap(bond, inFlight) == Saturate(bond + inFlight) <= MaxAtRisk

Decide_MatchFallsThrough(strategy, outcome, stake, bondMin, inFlight) ==
  IF strategy = "Disabled" THEN "FilingDisabled"
  ELSE IF outcome = "Inconclusive" THEN "Inconclusive"
  ELSE IF EvPositive(BondFor(strategy, bondMin), stake) THEN "File" ELSE "EvNegative"
Decide(strategy, outcome, stake, bondMin, inFlight) ==
  LET bond == BondFor(strategy, bondMin) IN
  CASE strategy = "Disabled" -> "FilingDisabled"
    [] strategy # "Disabled" /\ outcome = "Match" -> "NoFraud"
    [] strategy # "Disabled" /\ outcome = "Inconclusive" -> "Inconclusive"
    [] strategy # "Disabled" /\ outcome = "Mismatch" ->
         IF EvPositive(bond, stake) /\ WithinCap(bond, inFlight) THEN "File" ELSE "EvNegative"
=============================================================================
