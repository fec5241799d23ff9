---------------------------- MODULE PotProgram ----------------------------
(***************************************************************************)
(* The on-chain program programs/pot_program: accounts, and one action per *)
(* instruction.  An instruction is one Solana transaction: every account   *)
(* constraint and require! is a conjunct of the action's guard, and a      *)
(* transaction that fails any of them changes nothing, so it is no step.   *)
(*                                                                         *)
(* An account is named by what its PDA is derived from: an agent by its    *)
(* operator, a VRF request and a thought by (operator, nonce), a challenge *)
(* by (thought, challenger).  An account that was never initialised is     *)
(* NoAccount.  No instruction closes an account.  The lamports that pay    *)
(* the rent of the data accounts themselves are left out.                  *)
(*                                                                         *)
(* An operator named X_Fault is X with a mistake a programmer could make;  *)
(* it is used only to test that the properties notice the mistake.         *)
(***************************************************************************)
EXTENDS Integers, FiniteSets, Functions

CONSTANTS
  Wallets,         \* keys that sign transactions and hold lamports
  Operators,       \* wallets that may register an agent
  Challengers,     \* wallets that may open a challenge
  Governance,      \* GOVERNANCE, the key allowed to register models
  Models, PolicyIds, Seeds, Actions,
  PolicyArgs,      \* the policies an author may publish
  Amounts,         \* lamport amounts of stakes, withdrawals and bonds
  InitialLamports, \* what every wallet holds at first
  RentMin,         \* the runtime's rent-exempt minimum
  MaxAllowedModels,\* Policy::MAX_ALLOWED_MODELS
  MaxU32, MaxU64, MaxI64, \* largest values of the integer types
  MaxNonces,       \* bound: VRF requests per agent
  MaxSlot,         \* bound: the last slot of the clock
  NoAccount

VARIABLES
  slot,       \* Clock::get()?.slot
  lamports,   \* balance of every address
  agents, models, policies, vrfs, thoughts, challenges,
  burned      \* history: what slashing left in each stake vault

vars == <<slot, lamports, agents, models, policies, vrfs, thoughts, challenges, burned>>

----------------------------------------------------------------------------
Nonces == 0 .. (MaxNonces - 1)
ThoughtIds == Operators \X Nonces
ChallengeIds == ThoughtIds \X Challengers

(* PDA derivation: ["vault", agent] and ["bond", challenge]. *)
StakeVault(op) == <<"vault", op>>
BondVault(c) == <<"bond", c>>
Addresses == Wallets \cup {StakeVault(op) : op \in Operators}
                     \cup {BondVault(c) : c \in ChallengeIds}

Status == {"Pending", "Challenged", "Finalized", "Slashed"}

AgentProfile ==
  [stake_amount: Nat, reputation: Int, active_thoughts: Nat,
   cooldown_until: Nat, vrf_nonce: Nat]

Policy ==
  [max_inference_slots: Nat, max_action_age_slots: Nat, challenge_window_slots: Nat,
   bond_min: Nat, resolver: Wallets, treasury: Addresses, allowed_models: SUBSET Models]

VrfRequest == [seed: Seeds, request_slot: Nat, consumed: BOOLEAN]

ThoughtRecord ==
  [model_id: Models, policy_id: PolicyIds, vrf_seed: Seeds, action_pda: Actions,
   slot: Nat, status: Status, attestation_verified: BOOLEAN,
   challenge_deadline_slot: Nat, consumed_count: Nat]

Challenge == [bond: Nat, opened_at_slot: Nat, resolved: BOOLEAN, verdict: BOOLEAN]

Exists(account) == account # NoAccount

(* What the program relies on: signers are wallets, PDAs are off the curve *)
(* and so no wallet is one, amounts are natural numbers, and NoAccount is  *)
(* no account.                                                             *)
ASSUME ConstantsAssumption ==
  /\ Operators \subseteq Wallets
  /\ Challengers \subseteq Wallets
  /\ Governance \in Wallets
  /\ \A op \in Operators : StakeVault(op) \notin Wallets
  /\ \A c \in ChallengeIds : BondVault(c) \notin Wallets
  /\ Amounts \subseteq Nat
  /\ InitialLamports \in Nat
  /\ RentMin \in Nat
  /\ MaxAllowedModels \in Nat
  /\ MaxU32 \in Nat /\ MaxU64 \in Nat /\ MaxI64 \in Nat
  /\ MaxNonces \in Nat /\ MaxSlot \in Nat
  /\ PolicyArgs \subseteq Policy
  /\ NoAccount \notin AgentProfile
  /\ NoAccount \notin Policy
  /\ NoAccount \notin VrfRequest
  /\ NoAccount \notin ThoughtRecord
  /\ NoAccount \notin Challenge

(* There are finitely many keys, so lamports can be added up. *)
ASSUME FiniteAssumption == IsFiniteSet(Wallets)

TypeOK ==
  /\ slot \in 0 .. MaxSlot
  /\ lamports \in [Addresses -> Nat]
  /\ agents \in [Operators -> AgentProfile \cup {NoAccount}]
  /\ models \subseteq Models
  /\ policies \in [PolicyIds -> Policy \cup {NoAccount}]
  /\ vrfs \in [ThoughtIds -> VrfRequest \cup {NoAccount}]
  /\ thoughts \in [ThoughtIds -> ThoughtRecord \cup {NoAccount}]
  /\ challenges \in [ChallengeIds -> Challenge \cup {NoAccount}]
  /\ burned \in [Operators -> Nat]

Init ==
  /\ slot = 0
  /\ lamports = [a \in Addresses |-> IF a \in Wallets THEN InitialLamports ELSE 0]
  /\ agents = [op \in Operators |-> NoAccount]
  /\ models = {}
  /\ policies = [p \in PolicyIds |-> NoAccount]
  /\ vrfs = [t \in ThoughtIds |-> NoAccount]
  /\ thoughts = [t \in ThoughtIds |-> NoAccount]
  /\ challenges = [c \in ChallengeIds |-> NoAccount]
  /\ burned = [op \in Operators |-> 0]

----------------------------------------------------------------------------
(* Lamports: System transfers and the rent rule of the runtime. *)

Transfer(l, from, to, amount) ==
  LET debited == [l EXCEPT ![from] = @ - amount]
  IN  [debited EXCEPT ![to] = @ + amount]

(* A transaction must leave every account it touched empty or rent-exempt. *)
RentExempt(before, after) ==
  \A a \in Addresses : after[a] # before[a] => after[a] = 0 \/ after[a] >= RentMin

Pay(from, to, amount) ==
  /\ lamports[from] >= amount
  /\ lamports' = Transfer(lamports, from, to, amount)
  /\ RentExempt(lamports, lamports')

SaturatingDec(n) == IF n > 0 THEN n - 1 ELSE 0

SaturatingAdd(r, d) ==
  IF r + d > MaxI64 THEN MaxI64 ELSE IF r + d < -MaxI64 - 1 THEN -MaxI64 - 1 ELSE r + d

----------------------------------------------------------------------------
(* Registration. *)

NewAgent(stake) ==
  [stake_amount |-> stake, reputation |-> 0, active_thoughts |-> 0,
   cooldown_until |-> 0, vrf_nonce |-> 0]

RegisterAgent(op, stake) ==
  /\ ~Exists(agents[op])
  /\ stake > 0
  /\ agents' = [agents EXCEPT ![op] = NewAgent(stake)]
  /\ Pay(op, StakeVault(op), stake)
  /\ UNCHANGED <<slot, models, policies, vrfs, thoughts, challenges, burned>>

RegisterModel(signer, m) ==
  /\ signer = Governance
  /\ m \notin models
  /\ models' = models \cup {m}
  /\ UNCHANGED <<slot, lamports, agents, policies, vrfs, thoughts, challenges, burned>>

(* Permissionless, and a policy is never rewritten. *)
RegisterPolicy(p, args) ==
  /\ ~Exists(policies[p])
  /\ Cardinality(args.allowed_models) <= MaxAllowedModels
  /\ policies' = [policies EXCEPT ![p] = args]
  /\ UNCHANGED <<slot, lamports, agents, models, vrfs, thoughts, challenges, burned>>

----------------------------------------------------------------------------
(* Stake. *)

Stake(op, amount) ==
  /\ Exists(agents[op])
  /\ amount > 0
  /\ Pay(op, StakeVault(op), amount)
  /\ agents[op].stake_amount + amount <= MaxU64
  /\ agents' = [agents EXCEPT ![op].stake_amount = @ + amount]
  /\ UNCHANGED <<slot, models, policies, vrfs, thoughts, challenges, burned>>

(* Nothing in the program assigns cooldown_until after registration. *)
MayWithdraw_IgnoringActive(op, amount) ==
  slot >= agents[op].cooldown_until /\ amount <= agents[op].stake_amount
MayWithdraw_VaultBalance(op, amount) ==
  agents[op].active_thoughts = 0 /\ slot >= agents[op].cooldown_until
MayWithdraw(op, amount) ==
  /\ agents[op].active_thoughts = 0
  /\ slot >= agents[op].cooldown_until
  /\ amount <= agents[op].stake_amount

WithdrawStake(op, amount) ==
  /\ Exists(agents[op])
  /\ MayWithdraw(op, amount)
  /\ Pay(StakeVault(op), op, amount)
  /\ agents' = [agents EXCEPT ![op].stake_amount = @ - amount]
  /\ UNCHANGED <<slot, models, policies, vrfs, thoughts, challenges, burned>>

----------------------------------------------------------------------------
(* The thought lifecycle. *)

RequestVrf(t, seed) ==
  LET op == t[1] IN
  /\ Exists(agents[op])
  /\ t[2] = agents[op].vrf_nonce
  /\ ~Exists(vrfs[t])
  /\ vrfs' = [vrfs EXCEPT ![t] = [seed |-> seed, request_slot |-> slot, consumed |-> FALSE]]
  /\ agents' = [agents EXCEPT ![op].vrf_nonce = @ + 1]
  /\ UNCHANGED <<slot, lamports, models, policies, thoughts, challenges, burned>>

(* require! 2 of submit_thought: unspent, the committed seed, and fresh. *)
SeedUsable_Stale(t, seed, policy) == ~vrfs[t].consumed /\ vrfs[t].seed = seed
SeedUsable(t, seed, policy) ==
  /\ ~vrfs[t].consumed
  /\ vrfs[t].seed = seed
  /\ slot - vrfs[t].request_slot <= policy.max_inference_slots

ModelAllowed(m, policy) == policy.allowed_models # {} => m \in policy.allowed_models

StakeSuffices(op, policy) == agents[op].stake_amount >= policy.bond_min

NewThought(m, p, seed, action) ==
  [model_id |-> m, policy_id |-> p, vrf_seed |-> seed, action_pda |-> action,
   slot |-> slot, status |-> "Pending", attestation_verified |-> FALSE,
   challenge_deadline_slot |-> slot + policies[p].challenge_window_slots,
   consumed_count |-> 0]

SubmitThought(t, m, p, seed, action) ==
  LET op == t[1] IN
  /\ Exists(agents[op]) /\ m \in models /\ Exists(policies[p])
  /\ Exists(vrfs[t]) /\ ~Exists(thoughts[t])
  /\ StakeSuffices(op, policies[p])
  /\ SeedUsable(t, seed, policies[p])
  /\ ModelAllowed(m, policies[p])
  /\ slot + policies[p].challenge_window_slots <= MaxU64
  /\ agents[op].active_thoughts + 1 <= MaxU32
  /\ vrfs' = [vrfs EXCEPT ![t].consumed = TRUE]
  /\ thoughts' = [thoughts EXCEPT ![t] = NewThought(m, p, seed, action)]
  /\ agents' = [agents EXCEPT ![op].active_thoughts = @ + 1]
  /\ UNCHANGED <<slot, lamports, models, policies, challenges, burned>>

Disputable_TwoChallengers(t) ==
  slot < thoughts[t].challenge_deadline_slot /\ thoughts[t].status \in {"Pending", "Challenged"}
Disputable_Finalized(t) ==
  slot < thoughts[t].challenge_deadline_slot /\ thoughts[t].status \in {"Pending", "Finalized"}
Disputable(t) ==
  /\ thoughts[t].status = "Pending"
  /\ slot < thoughts[t].challenge_deadline_slot

LockBond_Prefunded(challenger, c, bond) == UNCHANGED lamports
LockBond(challenger, c, bond) == Pay(challenger, BondVault(c), bond)

OpenChallenge(t, challenger, bond) ==
  LET c == <<t, challenger>> IN
  /\ Exists(thoughts[t]) /\ Exists(policies[thoughts[t].policy_id])
  /\ Disputable(t)
  /\ bond >= policies[thoughts[t].policy_id].bond_min
  /\ ~Exists(challenges[c])
  /\ LockBond(challenger, c, bond)
  /\ challenges' = [challenges EXCEPT ![c] =
       [bond |-> bond, opened_at_slot |-> slot, resolved |-> FALSE, verdict |-> FALSE]]
  /\ thoughts' = [thoughts EXCEPT ![t].status = "Challenged"]
  /\ UNCHANGED <<slot, agents, models, policies, vrfs, burned>>

(* The agent's bookkeeping when one of its thoughts is decided. *)
Settled_StillActive(agent, delta) == [agent EXCEPT !.reputation = SaturatingAdd(@, delta)]
Settled_NoReputation(agent, delta) == [agent EXCEPT !.active_thoughts = SaturatingDec(@)]
Settled(agent, delta) ==
  [agent EXCEPT !.active_thoughts = SaturatingDec(@),
                !.reputation = SaturatingAdd(@, delta)]

WindowElapsed_OneEarly(t) == slot + 1 >= thoughts[t].challenge_deadline_slot
WindowElapsed(t) == slot >= thoughts[t].challenge_deadline_slot

ResolveUnchallenged(t) ==
  /\ Exists(thoughts[t]) /\ Exists(agents[t[1]])
  /\ thoughts[t].status = "Pending"
  /\ WindowElapsed(t)
  /\ thoughts' = [thoughts EXCEPT ![t].status = "Finalized"]
  /\ agents' = [agents EXCEPT ![t[1]] = Settled(@, 1)]
  /\ UNCHANGED <<slot, lamports, models, policies, vrfs, challenges, burned>>

(* Of a slashed stake 60% go to the challenger, 10% to the treasury, and   *)
(* the rest stays in the vault; of a lost bond 90% go to the agent and the *)
(* rest to the treasury.                                                   *)
ToChallenger_WholeStake(stake) == stake
ToChallenger(stake) == (stake * 60) \div 100
ToTreasury(stake) == (stake * 10) \div 100
ToBurn(stake) == stake - ToChallenger(stake) - ToTreasury(stake)
ToAgent(bond) == (bond * 90) \div 100
TaxOnBond_Truncated(bond) == (bond * 10) \div 100
TaxOnBond(bond) == bond - ToAgent(bond)

ReturnBond_Forgotten(l, c) == l
ReturnBond_WholeVault(l, c) == Transfer(l, BondVault(c), c[2], l[BondVault(c)])
ReturnBond(l, c) == Transfer(l, BondVault(c), c[2], challenges[c].bond)

Slashed_StakeKept(agent) == Settled(agent, -10)
Slashed(agent) == [Settled(agent, -10) EXCEPT !.stake_amount = 0]

(* verdict = true: the whole stake is slashed and the bond returned. *)
Slash(c, treasury) ==
  LET op == c[1][1]
      stake == agents[op].stake_amount
      rewarded == Transfer(lamports, StakeVault(op), c[2], ToChallenger(stake))
      taxed == Transfer(rewarded, StakeVault(op), treasury, ToTreasury(stake))
  IN
  /\ lamports[StakeVault(op)] >= ToChallenger(stake) + ToTreasury(stake)
  /\ lamports[BondVault(c)] >= challenges[c].bond
  /\ lamports' = ReturnBond(taxed, c)
  /\ agents' = [agents EXCEPT ![op] = Slashed(@)]
  /\ thoughts' = [thoughts EXCEPT ![c[1]].status = "Slashed"]
  /\ burned' = [burned EXCEPT ![op] = @ + ToBurn(stake)]

(* verdict = false: the challenger's bond compensates the agent. *)
Acquit(c, treasury) ==
  LET op == c[1][1]
      bond == challenges[c].bond
      paid == Transfer(lamports, BondVault(c), op, ToAgent(bond))
  IN
  /\ lamports[BondVault(c)] >= bond
  /\ lamports' = Transfer(paid, BondVault(c), treasury, TaxOnBond(bond))
  /\ agents' = [agents EXCEPT ![op] = Settled(@, 2)]
  /\ thoughts' = [thoughts EXCEPT ![c[1]].status = "Finalized"]
  /\ UNCHANGED burned

(* Nothing here limits when a verdict may come. *)
Rulable_WithinWindow(c) ==
  /\ thoughts[c[1]].status = "Challenged" /\ ~challenges[c].resolved
  /\ slot < thoughts[c[1]].challenge_deadline_slot
Rulable(c) == thoughts[c[1]].status = "Challenged" /\ ~challenges[c].resolved

(* The constraint that challenger is neither vault holds of any signer. *)
ResolveChallenged(resolver, c, verdict) ==
  LET t == c[1]
      policy == policies[thoughts[t].policy_id]
  IN
  /\ Exists(thoughts[t]) /\ Exists(agents[t[1]]) /\ Exists(policies[thoughts[t].policy_id])
  /\ Exists(challenges[c])
  /\ resolver = policy.resolver
  /\ Rulable(c)
  /\ IF verdict THEN Slash(c, policy.treasury) ELSE Acquit(c, policy.treasury)
  /\ RentExempt(lamports, lamports')
  /\ challenges' = [challenges EXCEPT ![c].resolved = TRUE, ![c].verdict = verdict]
  /\ UNCHANGED <<slot, models, policies, vrfs>>

(* Readiness and freshness of consume_thought.  Nothing ever sets          *)
(* attestation_verified.                                                   *)
Ready_Optimistic(thought) == thought.status # "Slashed"
Ready(thought) == thought.status = "Finalized" \/ thought.attestation_verified

ConsumeThought(t, action) ==
  /\ Exists(thoughts[t]) /\ Exists(policies[thoughts[t].policy_id])
  /\ thoughts[t].action_pda = action
  /\ Ready(thoughts[t])
  /\ slot - thoughts[t].slot <= policies[thoughts[t].policy_id].max_action_age_slots
  /\ thoughts[t].consumed_count + 1 <= MaxU32
  /\ thoughts' = [thoughts EXCEPT ![t].consumed_count = @ + 1]
  /\ UNCHANGED <<slot, lamports, agents, models, policies, vrfs, challenges, burned>>

(* The cluster's clock. *)
Tick ==
  /\ slot < MaxSlot
  /\ slot' = slot + 1
  /\ UNCHANGED <<lamports, agents, models, policies, vrfs, thoughts, challenges, burned>>

Next ==
  \/ Tick
  \/ \E op \in Operators, amount \in Amounts :
       RegisterAgent(op, amount) \/ Stake(op, amount) \/ WithdrawStake(op, amount)
  \/ \E signer \in Wallets, m \in Models : RegisterModel(signer, m)
  \/ \E p \in PolicyIds, args \in PolicyArgs : RegisterPolicy(p, args)
  \/ \E t \in ThoughtIds, seed \in Seeds : RequestVrf(t, seed)
  \/ \E t \in ThoughtIds, m \in Models, p \in PolicyIds, seed \in Seeds, action \in Actions :
       SubmitThought(t, m, p, seed, action)
  \/ \E t \in ThoughtIds, ch \in Challengers, bond \in Amounts : OpenChallenge(t, ch, bond)
  \/ \E t \in ThoughtIds : ResolveUnchallenged(t)
  \/ \E resolver \in Wallets, c \in ChallengeIds, verdict \in BOOLEAN :
       ResolveChallenged(resolver, c, verdict)
  \/ \E t \in ThoughtIds, action \in Actions : ConsumeThought(t, action)

Spec == Init /\ [][Next]_vars

(* The clock runs; somebody cranks resolve_unchallenged, which anyone may  *)
(* call; and the policy's resolver eventually rules on a dispute.          *)
Fairness ==
  /\ WF_vars(Tick)
  /\ \A t \in ThoughtIds : WF_vars(ResolveUnchallenged(t))
  /\ \A c \in ChallengeIds :
       WF_vars(\E resolver \in Wallets, verdict \in BOOLEAN : ResolveChallenged(resolver, c, verdict))

FairSpec == Spec /\ Fairness

----------------------------------------------------------------------------
(* Vocabulary of the properties. *)

StatusOf(t) == IF Exists(thoughts[t]) THEN thoughts[t].status ELSE "None"
Active(t) == StatusOf(t) \in {"Pending", "Challenged"}
ActiveNonces(op) == {n \in Nonces : Active(<<op, n>>)}
PolicyOf(t) == policies[thoughts[t].policy_id]
StakeOf(op) == IF Exists(agents[op]) THEN agents[op].stake_amount ELSE 0
Open(c) == Exists(challenges[c]) /\ ~challenges[c].resolved
Ruled(c, verdict) == Exists(challenges[c]) /\ challenges[c].resolved /\ challenges[c].verdict = verdict

(***************************************************************************)
(* active_thoughts is exactly the number of the agent's Pending and        *)
(* Challenged thoughts, so that submit_thought's increment and the two     *)
(* resolutions' saturating decrements never lose or repeat one, and        *)
(* withdraw_stake's guard means what it says.                              *)
(***************************************************************************)
ActiveThoughtsExact ==
  \A op \in Operators :
    IF Exists(agents[op])
    THEN agents[op].active_thoughts = Cardinality(ActiveNonces(op))
    ELSE ActiveNonces(op) = {}

(***************************************************************************)
(* A stake vault holds the stake its profile promises and, beside it,      *)
(* everything slashing ever burned there: no transfer out of a vault       *)
(* touches burned lamports or is left out of stake_amount.                 *)
(***************************************************************************)
VaultHoldsStake ==
  \A op \in Operators : lamports[StakeVault(op)] >= StakeOf(op) + burned[op]

(***************************************************************************)
(* A bond stays in escrow, whole, from challenge to verdict: resolving one *)
(* dispute never pays out of the bond of another.                          *)
(***************************************************************************)
BondsEscrowed ==
  \A c \in ChallengeIds : Open(c) => lamports[BondVault(c)] >= challenges[c].bond

(***************************************************************************)
(* A thought is disputed at most once, by one challenger; it is Challenged *)
(* while that dispute is open, and the verdict alone decides whether it    *)
(* ends Slashed or Finalized.  Over challenge, resolve_unchallenged and    *)
(* resolve_challenged in any order.                                        *)
(***************************************************************************)
OneDispute(t) ==
  \A x, y \in Challengers : Exists(challenges[<<t, x>>]) /\ Exists(challenges[<<t, y>>]) => x = y

OpenDisputeIsChallenged(t) == StatusOf(t) = "Challenged" <=> \E ch \in Challengers : Open(<<t, ch>>)

VerdictDecides(t) ==
  /\ StatusOf(t) = "Slashed" <=> \E ch \in Challengers : Ruled(<<t, ch>>, TRUE)
  /\ (\E ch \in Challengers : Ruled(<<t, ch>>, FALSE)) => StatusOf(t) = "Finalized"

DisputesDecideOutcomes ==
  \A t \in ThoughtIds : OneDispute(t) /\ OpenDisputeIsChallenged(t) /\ VerdictDecides(t)

(***************************************************************************)
(* No thought is final before its window has elapsed unless a challenger   *)
(* disputed it, within that window, and lost.                              *)
(***************************************************************************)
FinalOnlyByDueProcess ==
  \A t \in ThoughtIds :
    /\ StatusOf(t) = "Finalized" /\ slot < thoughts[t].challenge_deadline_slot
         => \E ch \in Challengers : Ruled(<<t, ch>>, FALSE)
    /\ \A ch \in Challengers : Exists(challenges[<<t, ch>>]) =>
         /\ challenges[<<t, ch>>].opened_at_slot >= thoughts[t].slot
         /\ challenges[<<t, ch>>].opened_at_slot < thoughts[t].challenge_deadline_slot

(***************************************************************************)
(* A VRF seed is spent by exactly one thought, the one of its own nonce,   *)
(* and no later than the policy's max_inference_slots after it was issued; *)
(* the agent's counter is ahead of every nonce it issued.                  *)
(***************************************************************************)
SeedsSpentOnce ==
  \A t \in ThoughtIds :
    /\ Exists(vrfs[t]) <=> Exists(agents[t[1]]) /\ t[2] < agents[t[1]].vrf_nonce
    /\ Exists(thoughts[t]) <=> Exists(vrfs[t]) /\ vrfs[t].consumed
    /\ Exists(thoughts[t]) =>
         /\ thoughts[t].vrf_seed = vrfs[t].seed
         /\ thoughts[t].slot - vrfs[t].request_slot \in 0 .. PolicyOf(t).max_inference_slots

(***************************************************************************)
(* A thought that a downstream action was gated on is Finalized, and stays *)
(* so: no later verdict slashes a consumed thought.                        *)
(***************************************************************************)
ConsumedStaysFinal ==
  \A t \in ThoughtIds :
    Exists(thoughts[t]) /\ thoughts[t].consumed_count > 0 => thoughts[t].status = "Finalized"

(***************************************************************************)
(* A thought still open to dispute is backed by the policy's bond_min,     *)
(* unless slashing another thought of the same agent took the stake.       *)
(***************************************************************************)
BackedUnlessSlashed ==
  \A t \in ThoughtIds :
    Active(t) /\ agents[t[1]].stake_amount < PolicyOf(t).bond_min
      => \E n \in Nonces : StatusOf(<<t[1], n>>) = "Slashed"

(***************************************************************************)
(* reputation counts every outcome exactly once: +1 for a thought that     *)
(* went unchallenged, +2 for a dispute won, -10 for one lost (while i64    *)
(* does not saturate).                                                     *)
(***************************************************************************)
NoncesWon(op) == {n \in Nonces : \E ch \in Challengers : Ruled(<<<<op, n>>, ch>>, FALSE)}
NoncesLost(op) == {n \in Nonces : \E ch \in Challengers : Ruled(<<<<op, n>>, ch>>, TRUE)}
NoncesQuiet(op) == {n \in Nonces : StatusOf(<<op, n>>) = "Finalized"} \ NoncesWon(op)

ReputationTally ==
  \A op \in Operators : Exists(agents[op]) =>
    agents[op].reputation = Cardinality(NoncesQuiet(op)) + 2 * Cardinality(NoncesWon(op))
                              - 10 * Cardinality(NoncesLost(op))

(***************************************************************************)
(* Instructions only move lamports: the total never changes; and after the *)
(* verdict on a challenge, as before the challenge, its bond vault is      *)
(* empty, unless somebody made it the treasury of a policy.                *)
(***************************************************************************)
IsTreasury(a) == \E p \in PolicyIds : Exists(policies[p]) /\ policies[p].treasury = a

TotalConserved == SumFunctionOnSet(lamports, Addresses) = InitialLamports * Cardinality(Wallets)
ClosedBondsPaidOut ==
  \A c \in ChallengeIds : ~Open(c) /\ ~IsTreasury(BondVault(c)) => lamports[BondVault(c)] = 0

LamportsConserved == TotalConserved /\ ClosedBondsPaidOut

(***************************************************************************)
(* A wallet that only challenges loses nothing but the bonds of disputes   *)
(* it lost: with the bonds still in escrow and those it forfeited it holds *)
(* at least what it started with, whatever happened to the agents' stakes. *)
(***************************************************************************)
ChallengesBy(ch) == {c \in ChallengeIds : c[2] = ch}
BondsOut == [c \in ChallengeIds |-> IF Open(c) \/ Ruled(c, FALSE) THEN challenges[c].bond ELSE 0]

ChallengerLosesOnlyLostBonds ==
  \A ch \in Challengers \ Operators :
    lamports[ch] + SumFunctionOnSet(BondsOut, ChallengesBy(ch)) >= InitialLamports

(***************************************************************************)
(* While an agent has an active thought its stake never shrinks, except to *)
(* zero in the step that slashes one of its thoughts.                      *)
(***************************************************************************)
StakeLeavesOnlyBySlashing ==
  [][\A op \in Operators :
       Exists(agents[op]) /\ ActiveNonces(op) # {}
         /\ agents'[op].stake_amount < agents[op].stake_amount
       => /\ agents'[op].stake_amount = 0
          /\ \E n \in Nonces : StatusOf(<<op, n>>) = "Challenged"
                               /\ thoughts'[<<op, n>>].status = "Slashed"]_vars

(***************************************************************************)
(* Finalized and Slashed are final and a verdict is never revised.         *)
(***************************************************************************)
OutcomesAreFinal ==
  [][/\ \A t \in ThoughtIds : StatusOf(t) \in {"Finalized", "Slashed"} => StatusOf(t)' = StatusOf(t)
     /\ \A c \in ChallengeIds : Exists(challenges[c]) /\ challenges[c].resolved
          => challenges'[c] = challenges[c]]_vars

(***************************************************************************)
(* Every thought is decided in the end: a disputed one when the resolver   *)
(* rules, however late, and an undisputed one once its window has elapsed  *)
(* (within the bound on the clock).                                        *)
(***************************************************************************)
EveryThoughtDecided ==
  \A t \in ThoughtIds :
    /\ StatusOf(t) = "Challenged" ~> ~Active(t)
    /\ (StatusOf(t) = "Pending" /\ thoughts[t].challenge_deadline_slot <= MaxSlot) ~> ~Active(t)

----------------------------------------------------------------------------
(* What the program promises about one thought, and the mapping to it. *)

Lifecycle == INSTANCE ThoughtLifecycle WITH
  Thoughts <- ThoughtIds,
  Bonds <- Amounts,
  phase <- [t \in ThoughtIds |-> StatusOf(t)],
  elapsed <- {t \in ThoughtIds : Exists(thoughts[t]) /\ slot >= thoughts[t].challenge_deadline_slot},
  escrow <- [t \in ThoughtIds |->
               IF \E ch \in Challengers : Open(<<t, ch>>)
               THEN challenges[<<t, CHOOSE ch \in Challengers : Open(<<t, ch>>)>>].bond
               ELSE 0],
  uses <- [t \in ThoughtIds |-> IF Exists(thoughts[t]) THEN thoughts[t].consumed_count ELSE 0]

(***************************************************************************)
(* The program implements the lifecycle: each instruction is one step of   *)
(* one thought or leaves every thought as it is, and a tick only lets      *)
(* windows elapse.                                                         *)
(***************************************************************************)
ImplementsLifecycle == Lifecycle!Spec
=============================================================================
