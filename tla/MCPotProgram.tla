--------------------------- MODULE MCPotProgram ---------------------------
(***************************************************************************)
(* Finite instances of PotProgram, and what the documentation says of it.  *)
(***************************************************************************)
EXTENDS PotProgram

CONSTANTS o1, c1, gov, m1

(* Governance resolves and takes the treasury's cut.                       *)
MCPolicy ==
  [max_inference_slots |-> 1, max_action_age_slots |-> 2, challenge_window_slots |-> 1,
   bond_min |-> 7, resolver |-> gov, treasury |-> gov, allowed_models |-> {}]

(* Allows one model only, wants a fresh seed and a larger bond, is resolved *)
(* by a possible challenger, and names an agent's vault as its treasury.   *)
MCOddPolicy ==
  [max_inference_slots |-> 0, max_action_age_slots |-> 1, challenge_window_slots |-> 2,
   bond_min |-> 10, resolver |-> c1, treasury |-> StakeVault(o1), allowed_models |-> {m1}]

MCPolicyArgs == {MCPolicy, MCOddPolicy}
MCOnePolicy == {MCPolicy}

----------------------------------------------------------------------------
(* What the documentation says and the program does not do. *)

(***************************************************************************)
(* state/policy.rs:34: bond_min is the "Minimum stake an agent must hold": *)
(* whoever challenges a thought finds that much behind it.                 *)
(***************************************************************************)
DocStakeBacksActiveThoughts ==
  \A t \in ThoughtIds : Active(t) => agents[t[1]].stake_amount >= PolicyOf(t).bond_min

(***************************************************************************)
(* state/agent.rs:24, "Slot until which withdrawals are blocked after a    *)
(* withdraw request": stake leaves a vault for its operator, with no       *)
(* verdict in the step, only after some instruction set a cooldown.        *)
(***************************************************************************)
DocWithdrawalsCoolDown ==
  [][\A op \in Operators :
       Exists(agents[op]) /\ agents'[op].stake_amount < agents[op].stake_amount
         /\ UNCHANGED thoughts
         => agents[op].cooldown_until > 0]_vars

(***************************************************************************)
(* lib.rs:16, "the policy resolver writes a verdict": while a dispute is   *)
(* open the resolver can write the verdict it finds.                       *)
(***************************************************************************)
DocVerdictsCanBeWritten ==
  \A c \in ChallengeIds : Open(c) =>
    \A verdict \in BOOLEAN :
      ENABLED ResolveChallenged(PolicyOf(c[1]).resolver, c, verdict)
=============================================================================
