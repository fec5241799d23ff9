--------------------------- MODULE MCVerification ---------------------------
(***************************************************************************)
(* A finite instance of Verification: three outputs (the honest one, one   *)
(* with another decision, one that is not CBOR), two seeds, and an input    *)
(* that was committed to beside one that was not and may yet be posted.    *)
(***************************************************************************)
EXTENDS Verification

CONSTANTS i1, i2, honest, other, junk, s1, s2, u1, u2, d1, d2

Outputs == {honest, other, junk}
MCDecisionOf == [o \in Outputs |-> CASE o = honest -> d1 [] o = other -> d2 [] o = junk -> Undecodable]

(* With seed s2 the model's honest answer is not CBOR; to the other input  *)
(* it answers what nobody should, and with s2 the honest output.           *)
MCModelOutput ==
  [x \in {i1, i2} \X {s1, s2} |->
     CASE x = <<i1, s1>> -> honest [] x = <<i1, s2>> -> junk
       [] x = <<i2, s1>> -> other [] x = <<i2, s2>> -> honest]

MCEvents ==
  [input_commitment: {i1}, output_commitment: Outputs, vrf_seed: {s1, s2},
   trace_uri: {u1}, trace_uri_hash: {u1, u2}]

MCReports == [input: {i1}, output: {honest, other}, seed: {s1, s2}]
MCQuotes ==
  [header: {"tdx"}, length: {"signed"}, report: MCReports] \cup
  [header: {"tdx", "sgx"}, length: {"body", "signed"},
   report: {[input |-> i1, output |-> honest, seed |-> s1]}]

MCBundles ==
  {[kind |-> k, input |-> Absent, output |-> Absent, attestation |-> Absent] :
     k \in {"notfound", "garbage"}} \cup
  [kind: {"manifest"}, input: {i1}, output: Outputs \cup {Absent}, attestation: MCQuotes \cup {Absent}] \cup
  [kind: {"manifest"}, input: {i2}, output: Outputs, attestation: {Absent}]

MCEquipment == [engine: BOOLEAN, trustedCas: BOOLEAN, reference: {Absent, d1}]

(* Near the cap, near EV zero and near the end of u64 (511). *)
MCTerms == [strategy: Strategies, stake: {0, 170, 190, 511}, bondMin: {0, 100, 300, 510},
            inFlight: {0, 100}]
MCOneTerms == [strategy: {"Aggressive"}, stake: {511}, bondMin: {100}, inFlight: {0}]

----------------------------------------------------------------------------
(***************************************************************************)
(* trace_fetch.rs:151, "If decoding fails we still return the raw bytes    *)
(* ... but soft verifier will produce Inconclusive".                       *)
(***************************************************************************)
DocUndecodableIsInconclusive ==
  Verified /\ regime = "Soft" /\ DecisionOf[stored.output] = Undecodable
    => outcome.verdict = "Inconclusive"
=============================================================================
