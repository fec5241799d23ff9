---------------------------- MODULE MCPotSystem ----------------------------
(***************************************************************************)
(* Finite instances of PotSystem, and what the documentation says of the   *)
(* parts together.                                                         *)
(***************************************************************************)
EXTENDS PotSystem, TLC

CONSTANTS o1, w1, gov

(* Governance resolves and takes the treasury's cut. *)
MCThePolicy ==
  [max_inference_slots |-> 0, max_action_age_slots |-> 1, challenge_window_slots |-> 1,
   bond_min |-> 7, resolver |-> gov, treasury |-> gov, allowed_models |-> {}]
MCPolicyArgs == {MCThePolicy}
MCSymmetry == Permutations(Seeds) \cup Permutations(Outputs)

MCSomeEvents ==
  {e \in Event : UriIntact(e)}

(***************************************************************************)
(* client.ts:214, "the trace bundle must be uploaded ... before this call  *)
(* so a watcher can fetch it during the challenge window": a thought whose *)
(* own trace is at its URI can be fetched.                                 *)
(***************************************************************************)
DocUploadedTracesAreFetchable ==
  \A t \in ThoughtIds :
    committed[t] # Nothing /\ storage[committed[t].uri] = committed[t].output
      => Fetchable(EventOf(t, committed[t]))

(***************************************************************************)
(* strict.rs:7, "Any mismatch is real, working evidence of fraud (the      *)
(* agent committed to an output that doesn't match what they posted to     *)
(* storage)": a thought that the watcher disputes over a mismatch is one   *)
(* whose commitment the posted trace contradicts.                          *)
(***************************************************************************)
DocMismatchIsFraud ==
  \A t \in ThoughtIds : Exists(challenges[<<t, WatcherKey>>]) => Contradicted(t)
=============================================================================
