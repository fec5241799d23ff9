--------------------------- MODULE Verification ---------------------------
(***************************************************************************)
(* One event on its way through the watcher: fetching and decoding the     *)
(* trace bundle (trace_fetch.rs), the verification regimes (verify/*.rs)   *)
(* and the filing decision (Filing).                                       *)
(*                                                                         *)
(* blake3 is taken to be injective, so a commitment is represented by what *)
(* it commits to: two commitments are equal when their preimages are.  An  *)
(* operator named X_Fault is X with a programmer's mistake, used only to   *)
(* test that the properties notice it.                                     *)
(***************************************************************************)
EXTENDS Filing

CONSTANTS
  Events,         \* ThoughtSubmitted events
  Bundles,        \* what storage answers for a trace URI
  Equipment,      \* what a watcher has to verify with
  Terms,          \* strategy, stake, bond floor and in-flight bond of a decision
  SupportedUris,  \* URIs whose scheme the configured fetcher speaks
  DecisionOf,     \* canonical_output bytes -> its `decision` field
  ModelOutput,    \* what the model really answers to (input, seed)
  Absent, Undecodable

(* Terms are u64 lamports, and a missing claim is none of the claims.      *)
ASSUME VerificationAssumption ==
  /\ Terms \subseteq [strategy: Strategies, stake: 0 .. MaxU64, bondMin: 0 .. MaxU64,
                      inFlight: 0 .. MaxU64]
  /\ Absent \notin {"InconsistentCommitments", "OutputMismatch"}

Regimes == {"ByteCompare", "Strict", "Attested", "Soft", "AnyOfN"}

VARIABLES
  pc,       \* fetch, verify, decide, filed, skipped or dropped
  event, stored, regime, equipment,  \* chosen at the start
  bundle,   \* the TraceBundle
  outcome,  \* the VerifyOutcome
  terms     \* what decide was called with

vars == <<pc, event, stored, regime, equipment, bundle, outcome, terms>>

Init ==
  /\ pc = "fetch"
  /\ event \in Events /\ stored \in Bundles
  /\ regime \in Regimes /\ equipment \in Equipment
  /\ bundle = Absent /\ outcome = Absent /\ terms = Absent

----------------------------------------------------------------------------
(* Fetching. *)

UriIntact(e) == e.trace_uri_hash = e.trace_uri

(* decode_manifest: attestation may be missing, the other two may not.     *)
Decodes(s) == s.kind = "manifest" /\ s.input # Absent /\ s.output # Absent

Decoded(s) ==
  [raw_input |-> s.input, raw_output |-> s.output, attestation |-> s.attestation,
   decision |-> DecisionOf[s.output]]

Fetchable == UriIntact(event) /\ event.trace_uri \in SupportedUris /\ Decodes(stored)

FetchOk ==
  /\ pc = "fetch" /\ Fetchable
  /\ pc' = "verify"
  /\ bundle' = Decoded(stored)
  /\ UNCHANGED <<event, stored, regime, equipment, outcome, terms>>

(* Every FetchError makes handle_event return. *)
FetchErr ==
  /\ pc = "fetch" /\ ~Fetchable
  /\ pc' = "dropped"
  /\ UNCHANGED <<event, stored, regime, equipment, bundle, outcome, terms>>

----------------------------------------------------------------------------
(* Verification. *)

Confirmed == [verdict |-> "Match", claim |-> Absent]
Unproven == [verdict |-> "Inconclusive", claim |-> Absent]
Accuse(claim) == [verdict |-> "Mismatch", claim |-> claim]

ByteCompare(e, b) ==
  IF b.raw_output = e.output_commitment THEN Confirmed ELSE Accuse("InconsistentCommitments")

(* NoopEngine is never available. *)
Reexecuted(e, b) == ModelOutput[b.raw_input, e.vrf_seed]

Strict_EngineFirst(e, b, engine) ==
  IF ~engine THEN Unproven
  ELSE IF Reexecuted(e, b) = e.output_commitment THEN Confirmed ELSE Accuse("OutputMismatch")
Strict_TrustsByteCompare(e, b, engine) ==
  IF ByteCompare(e, b) # Confirmed THEN ByteCompare(e, b)
  ELSE IF ~engine THEN Confirmed
  ELSE IF Reexecuted(e, b) = e.output_commitment THEN Confirmed ELSE Accuse("OutputMismatch")
Strict(e, b, engine) ==
  IF ByteCompare(e, b) # Confirmed THEN ByteCompare(e, b)
  ELSE IF ~engine THEN Unproven
  ELSE IF Reexecuted(e, b) = e.output_commitment THEN Confirmed ELSE Accuse("OutputMismatch")

(* validate_quote_structure: a supported header, a whole body, and some    *)
(* bytes of signature after it.                                            *)
WellFormed(quote) == quote.header = "tdx" /\ quote.length = "signed"

ReportBinds_NoSeed(quote, e) ==
  /\ quote.report.input = e.input_commitment
  /\ quote.report.output = e.output_commitment
ReportBinds(quote, e) ==
  quote.report = [input |-> e.input_commitment, output |-> e.output_commitment,
                  seed |-> e.vrf_seed]

Attested(e, b, trustedCas) ==
  CASE b.attestation = Absent -> Unproven
    [] b.attestation # Absent ->
         IF ~WellFormed(b.attestation) \/ ~ReportBinds(b.attestation, e)
         THEN Accuse("OutputMismatch")
         ELSE IF trustedCas THEN Confirmed ELSE Unproven

(* extract_decision finds nothing in a canonical_output that does not      *)
(* decode, and nothing in one without the field.                           *)
Structural_NeedsReference(e, b, reference) ==
  IF b.decision \notin {Absent, Undecodable} /\ b.decision = reference
  THEN Confirmed ELSE Accuse("OutputMismatch")
Structural(e, b, reference) ==
  IF b.decision \in {Absent, Undecodable} THEN Accuse("OutputMismatch")
  ELSE IF reference = Absent THEN Unproven
  ELSE IF b.decision = reference THEN Confirmed ELSE Accuse("OutputMismatch")

Committee(e, b) == Unproven

Soft(e, b, reference) ==
  IF Structural(e, b, reference) = Unproven THEN Committee(e, b) ELSE Structural(e, b, reference)

AnyOfN(e, b) == Unproven

OutcomeUnder(r, q, e, b) ==
  CASE r = "ByteCompare" -> ByteCompare(e, b)
    [] r = "Strict" -> Strict(e, b, q.engine)
    [] r = "Attested" -> Attested(e, b, q.trustedCas)
    [] r = "Soft" -> Soft(e, b, q.reference)
    [] r = "AnyOfN" -> AnyOfN(e, b)

Verify ==
  /\ pc = "verify"
  /\ outcome' = OutcomeUnder(regime, equipment, event, bundle)
  /\ pc' = "decide"
  /\ UNCHANGED <<event, stored, regime, equipment, bundle, terms>>

DecideAndFile ==
  /\ pc = "decide"
  /\ terms' \in Terms
  /\ pc' = IF Decide(terms'.strategy, outcome.verdict, terms'.stake, terms'.bondMin, terms'.inFlight)
                = "File"
           THEN "filed" ELSE "skipped"
  /\ UNCHANGED <<event, stored, regime, equipment, bundle, outcome>>

Next == FetchOk \/ FetchErr \/ Verify \/ DecideAndFile

Spec == Init /\ [][Next]_vars

----------------------------------------------------------------------------
Verified == outcome # Absent

(* The agent ran the model, committed to what it read and answered, and    *)
(* posted exactly that, with a genuine quote or none.                      *)
Honest ==
  /\ stored.kind = "manifest"
  /\ stored.input = event.input_commitment
  /\ stored.output = event.output_commitment
  /\ event.output_commitment = ModelOutput[event.input_commitment, event.vrf_seed]
  /\ stored.attestation # Absent =>
       WellFormed(stored.attestation) /\ ReportBinds(stored.attestation, event)

(***************************************************************************)
(* No regime accuses an honest agent; the soft one, provided its output    *)
(* has a decision and the watcher's reference, if it has one, is the same. *)
(***************************************************************************)
HonestNeverAccused ==
  Verified /\ Honest
    /\ (regime = "Soft" =>
          /\ DecisionOf[stored.output] \notin {Absent, Undecodable}
          /\ equipment.reference \in {Absent, DecisionOf[stored.output]})
  => outcome.verdict # "Mismatch"

(***************************************************************************)
(* An output that storage contradicts is always caught, by ByteCompare and *)
(* Strict alike and with no engine, as InconsistentCommitments, and that   *)
(* claim is raised for nothing else.                                       *)
(***************************************************************************)
ContradictionsCaught ==
  Verified /\ regime \in {"ByteCompare", "Strict"} =>
    (outcome.claim = "InconsistentCommitments" <=> stored.output # event.output_commitment)

(***************************************************************************)
(* Strict confirms exactly what an engine reproduced with the thought's    *)
(* seed from the posted input.  (Whether that is the committed input       *)
(* nothing compares: an output that another input led to is confirmed.)    *)
(***************************************************************************)
StrictMeansReproduced ==
  Verified /\ regime = "Strict" =>
    (outcome = Confirmed <=>
       /\ equipment.engine
       /\ stored.output = event.output_commitment
       /\ ModelOutput[stored.input, event.vrf_seed] = event.output_commitment)

(***************************************************************************)
(* A quote that confirms one thought confirms no other: not another input, *)
(* output or seed, so an attestation cannot serve twice.                   *)
(***************************************************************************)
QuoteConfirmsOneThought ==
  Verified /\ regime = "Attested" /\ outcome = Confirmed =>
    \A other \in Events :
      Attested(other, bundle, TRUE) = Confirmed =>
        /\ other.input_commitment = event.input_commitment
        /\ other.output_commitment = event.output_commitment
        /\ other.vrf_seed = event.vrf_seed

(***************************************************************************)
(* A challenge is filed only over an accusation, and only if winning it    *)
(* pays more than the bond and the fee cost, computed without overflow,    *)
(* and the bond, at least the policy's floor, fits under the cap with what *)
(* is already in flight.                                                   *)
(***************************************************************************)
FilingsPay ==
  pc = "filed" =>
    LET bond == BondFor(terms.strategy, terms.bondMin) IN
    /\ outcome.verdict = "Mismatch" /\ terms.strategy # "Disabled"
    /\ 6 * terms.stake > 10 * (bond + TxFee)
    /\ bond >= terms.bondMin
    /\ bond + terms.inFlight <= MaxAtRisk
=============================================================================
