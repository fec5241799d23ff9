------------------------- MODULE VerificationProofs -------------------------
(***************************************************************************)
(* Theorems about Verification, for any events, stored bundles, equipment, *)
(* terms and model.  All but the last follow from one invariant: what the  *)
(* verifier said is what its regime says of the event and of the bundle    *)
(* that storage holds.                                                     *)
(***************************************************************************)
EXTENDS Verification, TLAPS

Judged == pc \in {"decide", "filed", "skipped"}

(* The inductive invariant. *)
OutcomeIsTheRegimes ==
  /\ pc \in {"fetch", "dropped", "verify", "decide", "filed", "skipped"}
  /\ regime \in Regimes
  /\ ~Judged => outcome = Absent
  /\ pc = "verify" \/ Judged => bundle = Decoded(stored)
  /\ Judged => outcome = OutcomeUnder(regime, equipment, event, bundle)

(* There is no outcome at first. *)
LEMMA InitJudges == Init => OutcomeIsTheRegimes
  BY DEF Init, OutcomeIsTheRegimes, Judged

(* The outcome is computed in one step, from what was fetched in another. *)
LEMMA StepJudges == OutcomeIsTheRegimes /\ [Next]_vars => OutcomeIsTheRegimes'
<1> SUFFICES ASSUME OutcomeIsTheRegimes, [Next]_vars
             PROVE  OutcomeIsTheRegimes'
  OBVIOUS
<1> USE DEF OutcomeIsTheRegimes, Judged
<1>1. CASE FetchOk
  BY <1>1 DEF FetchOk
<1>2. CASE FetchErr
  BY <1>2 DEF FetchErr
<1>3. CASE Verify
  BY <1>3 DEF Verify
<1>4. CASE DecideAndFile
  BY <1>4 DEF DecideAndFile
<1>5. CASE UNCHANGED vars
  BY <1>5 DEF vars
<1> QED
  BY <1>1, <1>2, <1>3, <1>4, <1>5 DEF Next

(* Whenever there is an outcome it is the regime's, of the stored bundle.  *)
LEMMA VerifiedIsJudged ==
  ASSUME OutcomeIsTheRegimes, Verified
  PROVE  /\ regime \in Regimes
         /\ bundle = Decoded(stored)
         /\ outcome = OutcomeUnder(regime, equipment, event, Decoded(stored))
  BY DEF OutcomeIsTheRegimes, Verified

(* So it is always the regime's. *)
LEMMA AlwaysJudged == Spec => []OutcomeIsTheRegimes
  BY InitJudges, StepJudges, PTL DEF Spec

----------------------------------------------------------------------------
(* An honest agent's trace passes the byte comparison, and its quote binds it. *)
LEMMA HonestFacts ==
  ASSUME Honest
  PROVE  /\ ByteCompare(event, Decoded(stored)) = Confirmed
         /\ Reexecuted(event, Decoded(stored)) = event.output_commitment
         /\ Decoded(stored).attestation # Absent =>
              WellFormed(Decoded(stored).attestation) /\ ReportBinds(Decoded(stored).attestation, event)
  BY DEF Honest, ByteCompare, Reexecuted, Decoded

(***************************************************************************)
(* No regime accuses an honest agent, whatever the model, the trusted CAs  *)
(* and the engine.                                                         *)
(***************************************************************************)
THEOREM HonestAreSafe == Spec => []HonestNeverAccused
<1>1. OutcomeIsTheRegimes => HonestNeverAccused
  <2> SUFFICES ASSUME OutcomeIsTheRegimes, Verified, Honest,
                      regime = "Soft" =>
                        /\ DecisionOf[stored.output] \notin {Absent, Undecodable}
                        /\ equipment.reference \in {Absent, DecisionOf[stored.output]}
               PROVE  outcome.verdict # "Mismatch"
    BY DEF HonestNeverAccused
  <2> DEFINE b == Decoded(stored)
  <2>1. /\ regime \in Regimes
        /\ outcome = OutcomeUnder(regime, equipment, event, b)
    BY VerifiedIsJudged
  <2>2. Confirmed.verdict # "Mismatch" /\ Unproven.verdict # "Mismatch"
    BY DEF Confirmed, Unproven
  <2>3. outcome \in {Confirmed, Unproven}
    <3>1. CASE regime = "ByteCompare"
      BY <2>1, <3>1, HonestFacts DEF OutcomeUnder
    <3>2. CASE regime = "Strict"
      BY <2>1, <3>2, HonestFacts DEF OutcomeUnder, Strict
    <3>3. CASE regime = "Attested"
      <4>1. outcome = Attested(event, b, equipment.trustedCas)
        BY <2>1, <3>3 DEF OutcomeUnder
      <4> QED
        BY <4>1, HonestFacts DEF Attested
    <3>4. CASE regime = "Soft"
      <4>1. outcome = Soft(event, b, equipment.reference)
        BY <2>1, <3>4 DEF OutcomeUnder
      <4>2. Structural(event, b, equipment.reference) \in {Confirmed, Unproven}
        BY <3>4 DEF Structural, Decoded
      <4> QED
        BY <4>1, <4>2 DEF Soft, Committee
    <3>5. CASE regime = "AnyOfN"
      BY <2>1, <3>5 DEF OutcomeUnder, AnyOfN
    <3> QED
      BY <2>1, <3>1, <3>2, <3>3, <3>4, <3>5 DEF Regimes
  <2> QED
    BY <2>2, <2>3
<1> QED
  BY <1>1, AlwaysJudged, PTL

(***************************************************************************)
(* Byte comparison, and the strict regime with or without an engine, raise *)
(* InconsistentCommitments exactly when storage contradicts the thought.   *)
(***************************************************************************)
THEOREM ContradictionsAreCaught == Spec => []ContradictionsCaught
<1>1. OutcomeIsTheRegimes => ContradictionsCaught
  <2> SUFFICES ASSUME OutcomeIsTheRegimes, Verified, regime \in {"ByteCompare", "Strict"}
               PROVE  outcome.claim = "InconsistentCommitments"
                        <=> stored.output # event.output_commitment
    BY DEF ContradictionsCaught
  <2> DEFINE b == Decoded(stored)
  <2>1. /\ outcome = OutcomeUnder(regime, equipment, event, b)
        /\ b.raw_output = stored.output
    BY VerifiedIsJudged DEF Decoded
  <2>2. /\ Confirmed.claim # "InconsistentCommitments"
        /\ Unproven.claim # "InconsistentCommitments"
        /\ Accuse("OutputMismatch").claim # "InconsistentCommitments"
        /\ Accuse("InconsistentCommitments").claim = "InconsistentCommitments"
    BY VerificationAssumption DEF Confirmed, Unproven, Accuse
  <2>3. /\ stored.output = event.output_commitment => ByteCompare(event, b) = Confirmed
        /\ stored.output # event.output_commitment =>
             /\ ByteCompare(event, b) = Accuse("InconsistentCommitments")
             /\ ByteCompare(event, b) # Confirmed
    BY <2>1, <2>2 DEF ByteCompare
  <2>4. CASE regime = "ByteCompare"
    BY <2>1, <2>2, <2>3, <2>4 DEF OutcomeUnder
  <2>5. CASE regime = "Strict"
    <3>1. outcome = Strict(event, b, equipment.engine)
      BY <2>1, <2>5 DEF OutcomeUnder
    <3> QED
      BY <2>2, <2>3, <3>1 DEF Strict
  <2> QED
    BY <2>4, <2>5
<1> QED
  BY <1>1, AlwaysJudged, PTL

(***************************************************************************)
(* A strict Match means that an engine ran the model on the stored input   *)
(* with the thought's seed and got the committed, stored output.           *)
(***************************************************************************)
THEOREM StrictReproduces == Spec => []StrictMeansReproduced
<1>1. OutcomeIsTheRegimes => StrictMeansReproduced
  <2> SUFFICES ASSUME OutcomeIsTheRegimes, Verified, regime = "Strict"
               PROVE  outcome = Confirmed <=>
                        /\ equipment.engine
                        /\ stored.output = event.output_commitment
                        /\ ModelOutput[stored.input, event.vrf_seed] = event.output_commitment
    BY DEF StrictMeansReproduced
  <2> DEFINE b == Decoded(stored)
  <2>1. /\ outcome = Strict(event, b, equipment.engine)
        /\ b.raw_output = stored.output
        /\ Reexecuted(event, b) = ModelOutput[stored.input, event.vrf_seed]
    BY VerifiedIsJudged DEF OutcomeUnder, Decoded, Reexecuted
  <2>2. /\ Unproven # Confirmed
        /\ Accuse("OutputMismatch") # Confirmed
        /\ Accuse("InconsistentCommitments") # Confirmed
    BY DEF Confirmed, Unproven, Accuse
  <2> QED
    BY <2>1, <2>2 DEF Strict, ByteCompare
<1> QED
  BY <1>1, AlwaysJudged, PTL

(* Attested confirms only over a report that binds the commitments. *)
LEMMA ConfirmedQuoteBinds ==
  ASSUME NEW e, NEW b, NEW trustedCas, Attested(e, b, trustedCas) = Confirmed
  PROVE  ReportBinds(b.attestation, e)
<1>1. Unproven # Confirmed /\ Accuse("OutputMismatch") # Confirmed
  BY DEF Confirmed, Unproven, Accuse
<1> QED
  BY <1>1 DEF Attested

(***************************************************************************)
(* A quote that confirmed one thought confirms no thought with another     *)
(* input, output or seed.                                                  *)
(***************************************************************************)
THEOREM QuotesServeOnce == Spec => []QuoteConfirmsOneThought
<1>1. OutcomeIsTheRegimes => QuoteConfirmsOneThought
  <2> SUFFICES ASSUME OutcomeIsTheRegimes, Verified, regime = "Attested", outcome = Confirmed,
                      NEW other \in Events, Attested(other, bundle, TRUE) = Confirmed
               PROVE  /\ other.input_commitment = event.input_commitment
                      /\ other.output_commitment = event.output_commitment
                      /\ other.vrf_seed = event.vrf_seed
    BY DEF QuoteConfirmsOneThought
  <2>1. Attested(event, bundle, equipment.trustedCas) = Confirmed
    BY VerifiedIsJudged DEF OutcomeUnder
  <2>2. ReportBinds(bundle.attestation, event) /\ ReportBinds(bundle.attestation, other)
    BY <2>1, ConfirmedQuoteBinds
  <2> QED
    BY <2>2 DEF ReportBinds
<1> QED
  BY <1>1, AlwaysJudged, PTL

----------------------------------------------------------------------------
(***************************************************************************)
(* decide files only what pays: with a cap below u64::MAX, saturation      *)
(* never makes a bond look smaller or a cost lower than it is.             *)
(***************************************************************************)
LEMMA FileIsPaid ==
  ASSUME NEW strategy \in Strategies, NEW verdict \in Outcomes, NEW stake \in 0 .. MaxU64,
         NEW bondMin \in 0 .. MaxU64, NEW inFlight \in 0 .. MaxU64,
         MaxAtRisk < MaxU64,
         Decide(strategy, verdict, stake, bondMin, inFlight) = "File"
  PROVE  LET bond == BondFor(strategy, bondMin) IN
         /\ verdict = "Mismatch" /\ strategy # "Disabled"
         /\ 6 * stake > 10 * (bond + TxFee)
         /\ bond >= bondMin
         /\ bond + inFlight <= MaxAtRisk
<1> DEFINE bond == BondFor(strategy, bondMin)
<1>1. MaxAtRisk \in Nat /\ TxFee \in Nat /\ MaxU64 \in Nat
  BY FilingAssumption
<1>2. bond \in Nat /\ bond >= bondMin
  BY <1>1 DEF BondFor, Saturate
<1>3. /\ verdict = "Mismatch" /\ strategy # "Disabled"
      /\ EvPositive(bond, stake) /\ WithinCap(bond, inFlight)
  <2>1. CASE strategy = "Disabled"
    BY <2>1 DEF Decide
  <2>2. CASE strategy # "Disabled" /\ verdict = "Match"
    BY <2>2 DEF Decide
  <2>3. CASE strategy # "Disabled" /\ verdict = "Inconclusive"
    BY <2>3 DEF Decide
  <2>4. CASE strategy # "Disabled" /\ verdict = "Mismatch"
    BY <2>4 DEF Decide
  <2> QED
    BY <2>1, <2>2, <2>3, <2>4 DEF Outcomes
<1>4. 6 * stake > 10 * (bond + TxFee)
  <2>1. (stake * 6) \div 10 > Saturate(bond + TxFee)
    BY <1>3 DEF EvPositive, ExpectedPayout
  <2>2. (stake * 6) \div 10 <= MaxU64 /\ 10 * ((stake * 6) \div 10) <= 6 * stake
    BY <1>1
  <2> QED
    BY <1>1, <1>2, <2>1, <2>2 DEF Saturate
<1>5. bond + inFlight <= MaxAtRisk
  BY <1>1, <1>2, <1>3 DEF WithinCap, Saturate
<1> QED
  BY <1>2, <1>3, <1>4, <1>5

(* Every regime answers one of the three outcomes. *)
LEMMA RegimesSayAnOutcome ==
  ASSUME OutcomeIsTheRegimes, Judged
  PROVE  outcome.verdict \in Outcomes
<1> DEFINE b == Decoded(stored)
<1>1. regime \in Regimes /\ outcome = OutcomeUnder(regime, equipment, event, b)
  BY DEF OutcomeIsTheRegimes, Judged
<1>2. /\ Confirmed.verdict \in Outcomes /\ Unproven.verdict \in Outcomes
      /\ Accuse("OutputMismatch").verdict \in Outcomes
      /\ Accuse("InconsistentCommitments").verdict \in Outcomes
  BY DEF Confirmed, Unproven, Accuse, Outcomes
<1>3. outcome \in {Confirmed, Unproven, Accuse("OutputMismatch"), Accuse("InconsistentCommitments")}
  <2>1. ByteCompare(event, b) \in {Confirmed, Accuse("InconsistentCommitments")}
    BY DEF ByteCompare
  <2>2. Strict(event, b, equipment.engine)
          \in {Confirmed, Unproven, Accuse("OutputMismatch"), Accuse("InconsistentCommitments")}
    BY <2>1 DEF Strict
  <2>3. Attested(event, b, equipment.trustedCas) \in {Confirmed, Unproven, Accuse("OutputMismatch")}
    BY DEF Attested
  <2>4. Soft(event, b, equipment.reference) \in {Confirmed, Unproven, Accuse("OutputMismatch")}
    BY DEF Soft, Structural, Committee
  <2> QED
    BY <1>1, <2>1, <2>2, <2>3, <2>4 DEF OutcomeUnder, AnyOfN, Regimes
<1> QED
  BY <1>2, <1>3

(* The inductive invariant: what was filed, decide said to file. *)
FiledIsDecided ==
  pc = "filed" => terms \in Terms
    /\ Decide(terms.strategy, outcome.verdict, terms.stake, terms.bondMin, terms.inFlight) = "File"

(* A step to filed is one that decide allowed. *)
LEMMA StepDecides == FiledIsDecided /\ [Next]_vars => FiledIsDecided'
<1> SUFFICES ASSUME FiledIsDecided, [Next]_vars
             PROVE  FiledIsDecided'
  OBVIOUS
<1> USE DEF FiledIsDecided
<1>1. CASE FetchOk
  BY <1>1 DEF FetchOk
<1>2. CASE FetchErr
  BY <1>2 DEF FetchErr
<1>3. CASE Verify
  BY <1>3 DEF Verify
<1>4. CASE DecideAndFile
  BY <1>4 DEF DecideAndFile
<1>5. CASE UNCHANGED vars
  BY <1>5 DEF vars
<1> QED
  BY <1>1, <1>2, <1>3, <1>4, <1>5 DEF Next

(***************************************************************************)
(* Every challenge that is filed is over an accusation, pays more than it  *)
(* risks if won, is at or above the policy's floor and fits under the cap. *)
(***************************************************************************)
THEOREM FilingsArePaid ==
  ASSUME MaxAtRisk < MaxU64
  PROVE  Spec => []FilingsPay
<1>1. Init => FiledIsDecided
  BY DEF Init, FiledIsDecided
<1>2. OutcomeIsTheRegimes /\ FiledIsDecided => FilingsPay
  <2> SUFFICES ASSUME OutcomeIsTheRegimes, FiledIsDecided, pc = "filed"
               PROVE  FilingsPay
    BY DEF FilingsPay
  <2>1. outcome.verdict \in Outcomes
    BY RegimesSayAnOutcome DEF Judged
  <2>2. /\ terms.strategy \in Strategies /\ terms.stake \in 0 .. MaxU64
        /\ terms.bondMin \in 0 .. MaxU64 /\ terms.inFlight \in 0 .. MaxU64
    BY VerificationAssumption DEF FiledIsDecided
  <2>3. Decide(terms.strategy, outcome.verdict, terms.stake, terms.bondMin, terms.inFlight) = "File"
    BY DEF FiledIsDecided
  <2> QED
    BY <2>1, <2>2, <2>3, FileIsPaid DEF FilingsPay
<1> QED
  BY <1>1, <1>2, AlwaysJudged, StepDecides, PTL DEF Spec
=============================================================================
