------------------------- MODULE PotProgramProofs -------------------------
(***************************************************************************)
(* What TLAPS proves of PotProgram, for every value of its constants.      *)
(***************************************************************************)
EXTENDS PotProgram, TLAPS

----------------------------------------------------------------------------
(* Addresses and identifiers. *)

(* The parts of a challenge's name: its thought, the thought's agent and   *)
(* nonce, and the challenger; and the accounts that hold lamports.         *)
LEMMA Names ==
  /\ \A t \in ThoughtIds : t[1] \in Operators /\ t[2] \in Nonces
  /\ \A c \in ChallengeIds : c[1] \in ThoughtIds /\ c[1][1] \in Operators /\ c[2] \in Challengers
  /\ \A c \in ChallengeIds : c[2] \in Wallets
  /\ \A w \in Wallets : w \in Addresses
  /\ \A op \in Operators : op \in Wallets /\ StakeVault(op) \in Addresses
  /\ \A c \in ChallengeIds : BondVault(c) \in Addresses
  BY ConstantsAssumption DEF ThoughtIds, ChallengeIds, Addresses

(* What each instruction leaves alone. *)
LEMMA Frames ==
  /\ Tick => UNCHANGED <<lamports, agents, models, policies, vrfs, thoughts, challenges, burned>>
  /\ \A op, amount : RegisterAgent(op, amount) \/ Stake(op, amount) \/ WithdrawStake(op, amount)
       => UNCHANGED <<slot, models, policies, vrfs, thoughts, challenges, burned>>
  /\ \A signer, m : RegisterModel(signer, m)
       => UNCHANGED <<slot, lamports, agents, policies, vrfs, thoughts, challenges, burned>>
  /\ \A p, args : RegisterPolicy(p, args)
       => UNCHANGED <<slot, lamports, agents, models, vrfs, thoughts, challenges, burned>>
  /\ \A t, seed : RequestVrf(t, seed)
       => UNCHANGED <<slot, lamports, models, policies, thoughts, challenges, burned>>
  /\ \A t, m, p, seed, action : SubmitThought(t, m, p, seed, action)
       => UNCHANGED <<slot, lamports, models, policies, challenges, burned>>
  /\ \A t, ch, bond : OpenChallenge(t, ch, bond)
       => UNCHANGED <<slot, agents, models, policies, vrfs, burned>>
  /\ \A t : ResolveUnchallenged(t)
       => UNCHANGED <<slot, lamports, models, policies, vrfs, challenges, burned>>
  /\ \A resolver, c, verdict : ResolveChallenged(resolver, c, verdict)
       => UNCHANGED <<slot, models, policies, vrfs>>
  /\ \A t, action : ConsumeThought(t, action)
       => UNCHANGED <<slot, lamports, agents, models, policies, vrfs, challenges, burned>>
<1>1. Tick => UNCHANGED <<lamports, agents, models, policies, vrfs, thoughts, challenges, burned>>
  BY DEF Tick
<1>2. ASSUME NEW op, NEW amount,
             RegisterAgent(op, amount) \/ Stake(op, amount) \/ WithdrawStake(op, amount)
      PROVE  UNCHANGED <<slot, models, policies, vrfs, thoughts, challenges, burned>>
  BY <1>2 DEF RegisterAgent, Stake, WithdrawStake
<1>3. ASSUME NEW signer, NEW m, RegisterModel(signer, m)
      PROVE  UNCHANGED <<slot, lamports, agents, policies, vrfs, thoughts, challenges, burned>>
  BY <1>3 DEF RegisterModel
<1>4. ASSUME NEW p, NEW args, RegisterPolicy(p, args)
      PROVE  UNCHANGED <<slot, lamports, agents, models, vrfs, thoughts, challenges, burned>>
  BY <1>4 DEF RegisterPolicy
<1>5. ASSUME NEW t, NEW seed, RequestVrf(t, seed)
      PROVE  UNCHANGED <<slot, lamports, models, policies, thoughts, challenges, burned>>
  BY <1>5 DEF RequestVrf
<1>6. ASSUME NEW t, NEW m, NEW p, NEW seed, NEW action, SubmitThought(t, m, p, seed, action)
      PROVE  UNCHANGED <<slot, lamports, models, policies, challenges, burned>>
  BY <1>6 DEF SubmitThought
<1>7. ASSUME NEW t, NEW ch, NEW bond, OpenChallenge(t, ch, bond)
      PROVE  UNCHANGED <<slot, agents, models, policies, vrfs, burned>>
  BY <1>7 DEF OpenChallenge
<1>8. ASSUME NEW t, ResolveUnchallenged(t)
      PROVE  UNCHANGED <<slot, lamports, models, policies, vrfs, challenges, burned>>
  BY <1>8 DEF ResolveUnchallenged
<1>9. ASSUME NEW resolver, NEW c, NEW verdict, ResolveChallenged(resolver, c, verdict)
      PROVE  UNCHANGED <<slot, models, policies, vrfs>>
  BY <1>9 DEF ResolveChallenged
<1>10. ASSUME NEW t, NEW action, ConsumeThought(t, action)
       PROVE  UNCHANGED <<slot, lamports, agents, models, policies, vrfs, challenges, burned>>
  BY <1>10 DEF ConsumeThought
<1> QED
  BY <1>1, <1>2, <1>3, <1>4, <1>5, <1>6, <1>7, <1>8, <1>9, <1>10

(* No two roles share an account, and every PDA is the PDA of one name.    *)
LEMMA Distinct ==
  /\ \A op, other \in Operators : StakeVault(op) = StakeVault(other) => op = other
  /\ \A c, d \in ChallengeIds : BondVault(c) = BondVault(d) => c = d
  /\ \A op \in Operators, c \in ChallengeIds : StakeVault(op) # BondVault(c)
  /\ \A op \in Operators, w \in Wallets : StakeVault(op) # w
  /\ \A c \in ChallengeIds, w \in Wallets : BondVault(c) # w
  BY ConstantsAssumption DEF StakeVault, BondVault

(* What a transfer does to each account: the payer, if it is not the payee *)
(* too, has that much less, and nobody else has less than before.          *)
LEMMA TransferBalances ==
  ASSUME NEW l \in [Addresses -> Nat], NEW from \in Addresses, NEW to \in Addresses,
         NEW amount \in Nat, l[from] >= amount
  PROVE  /\ Transfer(l, from, to, amount) \in [Addresses -> Nat]
         /\ Transfer(l, from, to, amount)[from] >= l[from] - amount
         /\ \A a \in Addresses \ {from} : Transfer(l, from, to, amount)[a] >= l[a]
         /\ from # to => Transfer(l, from, to, amount)[to] = l[to] + amount
  BY DEF Transfer

(* The split of a slashed stake never exceeds it, nor that of a lost bond. *)
LEMMA Splits ==
  ASSUME NEW n \in Nat
  PROVE  /\ ToChallenger(n) \in Nat /\ ToTreasury(n) \in Nat /\ ToBurn(n) \in Nat
         /\ ToChallenger(n) + ToTreasury(n) + ToBurn(n) = n
         /\ ToAgent(n) \in Nat /\ TaxOnBond(n) \in Nat
         /\ ToAgent(n) + TaxOnBond(n) = n
  BY DEF ToChallenger, ToTreasury, ToBurn, ToAgent, TaxOnBond

(* Settling a thought, and slashing, keep the profile a profile. *)
LEMMA Counters ==
  /\ \A n \in Nat : SaturatingDec(n) \in Nat
  /\ \A r, d \in Int : SaturatingAdd(r, d) \in Int
  BY ConstantsAssumption DEF SaturatingDec, SaturatingAdd

(* Settling keeps a profile a profile, with the same stake. *)
LEMMA SettledType ==
  ASSUME NEW agent \in AgentProfile, NEW delta \in Int
  PROVE  /\ Settled(agent, delta) \in AgentProfile
         /\ Settled(agent, delta).stake_amount = agent.stake_amount
  BY Counters DEF Settled, AgentProfile

(* Slashing keeps a profile a profile, with no stake. *)
LEMMA SlashedType ==
  ASSUME NEW agent \in AgentProfile
  PROVE  /\ Slashed(agent) \in AgentProfile
         /\ Slashed(agent).stake_amount = 0
<1>1. Settled(agent, -10) \in AgentProfile
  BY SettledType
<1> QED
  BY <1>1 DEF Slashed, AgentProfile

----------------------------------------------------------------------------
(* The lamports after each instruction that moves some. *)

(* A payment by a wallet: no vault has less than before.                   *)
LEMMA PaymentBalances ==
  ASSUME TypeOK, NEW from \in Addresses, NEW to \in Addresses, NEW amount \in Nat,
         Pay(from, to, amount)
  PROVE  /\ lamports' \in [Addresses -> Nat]
         /\ lamports'[from] >= lamports[from] - amount
         /\ \A a \in Addresses \ {from} : lamports'[a] >= lamports[a]
         /\ from # to => lamports'[to] = lamports[to] + amount
  BY TransferBalances DEF Pay, TypeOK

(* Slashing debits only the agent's stake vault, by the challenger's and   *)
(* the treasury's shares at most, and the bond vault of the challenge.     *)
LEMMA SlashBalances ==
  ASSUME TypeOK, NEW c \in ChallengeIds, NEW treasury \in Addresses,
         NEW op, op = c[1][1], NEW stake, stake = agents[op].stake_amount,
         Exists(agents[op]), Exists(challenges[c]), Slash(c, treasury)
  PROVE  /\ lamports' \in [Addresses -> Nat]
         /\ lamports'[StakeVault(op)]
              >= lamports[StakeVault(op)] - ToChallenger(stake) - ToTreasury(stake)
         /\ \A a \in Addresses \ {StakeVault(op), BondVault(c)} : lamports'[a] >= lamports[a]
<1> DEFINE bond == challenges[c].bond
           vault == StakeVault(op)
           rewarded == Transfer(lamports, vault, c[2], ToChallenger(stake))
           taxed == Transfer(rewarded, vault, treasury, ToTreasury(stake))
<1>1. /\ vault \in Addresses /\ BondVault(c) \in Addresses /\ c[2] \in Addresses
      /\ op \in Operators /\ vault # BondVault(c)
  BY Names, Distinct
<1>2. stake \in Nat /\ bond \in Nat /\ lamports \in [Addresses -> Nat]
  BY <1>1 DEF TypeOK, Exists, AgentProfile, Challenge
<1>3. ToChallenger(stake) \in Nat /\ ToTreasury(stake) \in Nat
  BY <1>2, Splits
<1>4. /\ lamports[vault] >= ToChallenger(stake) + ToTreasury(stake)
      /\ lamports[BondVault(c)] >= bond
      /\ lamports' = Transfer(taxed, BondVault(c), c[2], bond)
  BY DEF Slash, ReturnBond
<1> HIDE DEF bond, vault
<1>5. /\ rewarded \in [Addresses -> Nat]
      /\ rewarded[vault] >= lamports[vault] - ToChallenger(stake)
      /\ \A a \in Addresses \ {vault} : rewarded[a] >= lamports[a]
  <2>1. lamports[vault] >= ToChallenger(stake)
    BY <1>1, <1>2, <1>3, <1>4
  <2> QED
    BY <1>1, <1>2, <1>3, <2>1, TransferBalances
<1> HIDE DEF rewarded
<1>6. /\ taxed \in [Addresses -> Nat]
      /\ taxed[vault] >= rewarded[vault] - ToTreasury(stake)
      /\ \A a \in Addresses \ {vault} : taxed[a] >= rewarded[a]
  <2>1. rewarded[vault] >= ToTreasury(stake)
    BY <1>1, <1>2, <1>3, <1>4, <1>5
  <2> QED
    BY <1>1, <1>3, <1>5, <2>1, TransferBalances
<1> HIDE DEF taxed
<1>7. taxed[BondVault(c)] >= bond
  BY <1>1, <1>2, <1>4, <1>5, <1>6
<1>8. /\ lamports' \in [Addresses -> Nat]
      /\ \A a \in Addresses \ {BondVault(c)} : lamports'[a] >= taxed[a]
  BY <1>1, <1>2, <1>4, <1>6, <1>7, TransferBalances
<1>9. lamports'[vault] >= lamports[vault] - ToChallenger(stake) - ToTreasury(stake)
  BY <1>1, <1>2, <1>3, <1>5, <1>6, <1>8
<1>10. \A a \in Addresses \ {vault, BondVault(c)} : lamports'[a] >= lamports[a]
  BY <1>2, <1>5, <1>6, <1>8
<1> QED
  BY <1>8, <1>9, <1>10 DEF vault

(* Acquitting debits only the bond vault of the challenge. *)
LEMMA AcquitBalances ==
  ASSUME TypeOK, NEW c \in ChallengeIds, NEW treasury \in Addresses,
         Exists(challenges[c]), Acquit(c, treasury)
  PROVE  /\ lamports' \in [Addresses -> Nat]
         /\ \A a \in Addresses \ {BondVault(c)} : lamports'[a] >= lamports[a]
<1> DEFINE op == c[1][1]
           bond == challenges[c].bond
           paid == Transfer(lamports, BondVault(c), op, ToAgent(bond))
<1>1. BondVault(c) \in Addresses /\ op \in Addresses
  BY Names
<1>2. bond \in Nat /\ lamports \in [Addresses -> Nat]
  BY DEF TypeOK, Exists, Challenge
<1>3. ToAgent(bond) \in Nat /\ TaxOnBond(bond) \in Nat /\ ToAgent(bond) + TaxOnBond(bond) = bond
  BY <1>2, Splits
<1>4. lamports[BondVault(c)] >= bond
      /\ lamports' = Transfer(paid, BondVault(c), treasury, TaxOnBond(bond))
  BY DEF Acquit
<1> HIDE DEF bond
<1>5. /\ paid \in [Addresses -> Nat]
      /\ paid[BondVault(c)] >= lamports[BondVault(c)] - ToAgent(bond)
      /\ \A a \in Addresses \ {BondVault(c)} : paid[a] >= lamports[a]
  BY <1>1, <1>2, <1>3, <1>4, TransferBalances
<1> HIDE DEF paid
<1>6. /\ lamports' \in [Addresses -> Nat]
      /\ \A a \in Addresses \ {BondVault(c)} : lamports'[a] >= paid[a]
  BY <1>1, <1>2, <1>3, <1>4, <1>5, TransferBalances
<1> QED
  BY <1>2, <1>5, <1>6

----------------------------------------------------------------------------
(* Type correctness. *)

(* The empty ledger is well typed. *)
LEMMA InitType == Init => TypeOK
<1> SUFFICES ASSUME Init PROVE TypeOK
  OBVIOUS
<1>1. slot \in 0 .. MaxSlot
  BY ConstantsAssumption DEF Init
<1>2. lamports \in [Addresses -> Nat]
  BY ConstantsAssumption DEF Init
<1> QED
  BY <1>1, <1>2 DEF Init, TypeOK

(* A new agent, a new thought and a new challenge are well typed. *)
LEMMA NewAccounts ==
  /\ \A stake \in Nat : NewAgent(stake) \in AgentProfile
  /\ \A m \in Models, p \in PolicyIds, seed \in Seeds, action \in Actions :
       TypeOK /\ Exists(policies[p]) => NewThought(m, p, seed, action) \in ThoughtRecord
<1>1. \A stake \in Nat : NewAgent(stake) \in AgentProfile
  BY DEF NewAgent, AgentProfile
<1>2. ASSUME NEW m \in Models, NEW p \in PolicyIds, NEW seed \in Seeds, NEW action \in Actions,
             TypeOK, Exists(policies[p])
      PROVE  NewThought(m, p, seed, action) \in ThoughtRecord
  <2>1. slot \in Nat /\ policies[p].challenge_window_slots \in Nat
    BY <1>2, ConstantsAssumption DEF TypeOK, Exists, Policy
  <2> QED
    BY <2>1 DEF NewThought, ThoughtRecord, Status
<1> QED
  BY <1>1, <1>2

(* Every instruction that changes only an agent's profile and moves lamports *)
(* to or from its vault keeps the types.                                   *)
LEMMA StakingType ==
  ASSUME TypeOK, NEW op \in Operators, NEW amount \in Amounts
  PROVE  /\ RegisterAgent(op, amount) => TypeOK'
         /\ Stake(op, amount) => TypeOK'
         /\ WithdrawStake(op, amount) => TypeOK'
<1>1. amount \in Nat /\ op \in Addresses /\ StakeVault(op) \in Addresses
  BY ConstantsAssumption, Names
<1>2. ASSUME RegisterAgent(op, amount) PROVE TypeOK'
  <2>1. lamports' \in [Addresses -> Nat]
    BY <1>1, <1>2, PaymentBalances DEF RegisterAgent
  <2>2. agents' \in [Operators -> AgentProfile \cup {NoAccount}]
    BY <1>1, <1>2, NewAccounts DEF RegisterAgent, TypeOK
  <2> QED
    BY <1>2, <2>1, <2>2 DEF RegisterAgent, TypeOK
<1>3. ASSUME Stake(op, amount) PROVE TypeOK'
  <2>1. lamports' \in [Addresses -> Nat]
    BY <1>1, <1>3, PaymentBalances DEF Stake
  <2>2. agents' \in [Operators -> AgentProfile \cup {NoAccount}]
    BY <1>1, <1>3 DEF Stake, TypeOK, Exists, AgentProfile
  <2> QED
    BY <1>3, <2>1, <2>2 DEF Stake, TypeOK
<1>4. ASSUME WithdrawStake(op, amount) PROVE TypeOK'
  <2>1. lamports' \in [Addresses -> Nat]
    BY <1>1, <1>4, PaymentBalances DEF WithdrawStake
  <2>2. agents' \in [Operators -> AgentProfile \cup {NoAccount}]
    BY <1>1, <1>4 DEF WithdrawStake, MayWithdraw, TypeOK, Exists, AgentProfile
  <2> QED
    BY <1>4, <2>1, <2>2 DEF WithdrawStake, TypeOK
<1> QED
  BY <1>2, <1>3, <1>4

(* A committed thought keeps the types. *)
LEMMA SubmitThoughtType ==
  ASSUME TypeOK, NEW t \in ThoughtIds, NEW m \in Models, NEW p \in PolicyIds,
         NEW seed \in Seeds, NEW action \in Actions, SubmitThought(t, m, p, seed, action)
  PROVE  TypeOK'
<1>1. vrfs' \in [ThoughtIds -> VrfRequest \cup {NoAccount}]
  BY DEF SubmitThought, TypeOK, Exists, VrfRequest
<1>2. NewThought(m, p, seed, action) \in ThoughtRecord
  BY NewAccounts DEF SubmitThought
<1>3. thoughts' \in [ThoughtIds -> ThoughtRecord \cup {NoAccount}]
  BY <1>2 DEF SubmitThought, TypeOK
<1>4. agents' \in [Operators -> AgentProfile \cup {NoAccount}]
  <2>1. t[1] \in Operators /\ agents[t[1]] \in AgentProfile
    BY Names DEF SubmitThought, Exists, TypeOK
  <2> DEFINE op == t[1]
  <2>2. agents' = [agents EXCEPT ![op].active_thoughts = @ + 1]
    BY DEF SubmitThought
  <2> HIDE DEF op
  <2>3. op \in Operators /\ agents[op] \in AgentProfile
    BY <2>1 DEF op
  <2> QED
    BY <2>2, <2>3 DEF TypeOK, AgentProfile
<1>5. UNCHANGED <<slot, lamports, models, policies, challenges, burned>>
  BY DEF SubmitThought
<1> QED
  BY <1>1, <1>3, <1>4, <1>5 DEF TypeOK

(* Setting the status of an existing thought keeps the type of thoughts. *)
LEMMA StatusType ==
  ASSUME TypeOK, NEW t \in ThoughtIds, Exists(thoughts[t]), NEW status \in Status
  PROVE  [thoughts EXCEPT ![t].status = status] \in [ThoughtIds -> ThoughtRecord \cup {NoAccount}]
  BY DEF TypeOK, Exists, ThoughtRecord

(* Opening a challenge, the two resolutions and a consumption keep the     *)
(* types.                                                                  *)
LEMMA OpenChallengeType ==
  ASSUME TypeOK, NEW t \in ThoughtIds, NEW ch \in Challengers, NEW bond \in Amounts,
         OpenChallenge(t, ch, bond)
  PROVE  TypeOK'
<1> DEFINE c == <<t, ch>>
<1>1. c \in ChallengeIds /\ ch \in Addresses /\ BondVault(c) \in Addresses /\ bond \in Nat
  BY Names, ConstantsAssumption DEF ChallengeIds
<1>2. lamports' \in [Addresses -> Nat]
  BY <1>1, PaymentBalances DEF OpenChallenge, LockBond
<1>3. challenges' \in [ChallengeIds -> Challenge \cup {NoAccount}]
  BY <1>1, ConstantsAssumption DEF OpenChallenge, TypeOK, Challenge
<1>4. thoughts' \in [ThoughtIds -> ThoughtRecord \cup {NoAccount}]
  BY StatusType DEF OpenChallenge, Status
<1> QED
  BY <1>2, <1>3, <1>4 DEF OpenChallenge, TypeOK

(* The crank keeps the types. *)
LEMMA ResolveUnchallengedType ==
  ASSUME TypeOK, NEW t \in ThoughtIds, ResolveUnchallenged(t)
  PROVE  TypeOK'
<1>1. thoughts' \in [ThoughtIds -> ThoughtRecord \cup {NoAccount}]
  BY StatusType DEF ResolveUnchallenged, Status
<1>2. t[1] \in Operators /\ agents[t[1]] \in AgentProfile
  BY Names DEF ResolveUnchallenged, Exists, TypeOK
<1>3. agents' \in [Operators -> AgentProfile \cup {NoAccount}]
  <2>1. Settled(agents[t[1]], 1) \in AgentProfile
    BY <1>2, SettledType
  <2> QED
    BY <1>2, <2>1 DEF ResolveUnchallenged, TypeOK
<1> QED
  BY <1>1, <1>3 DEF ResolveUnchallenged, TypeOK

(* A verdict keeps the types: what it pays out is there. *)
LEMMA ResolveChallengedType ==
  ASSUME TypeOK, NEW resolver \in Wallets, NEW c \in ChallengeIds, NEW verdict \in BOOLEAN,
         ResolveChallenged(resolver, c, verdict)
  PROVE  TypeOK'
<1> DEFINE t == c[1]
           op == c[1][1]
           treasury == policies[thoughts[t].policy_id].treasury
<1>1. t \in ThoughtIds /\ op \in Operators
  BY Names
<1>2. /\ Exists(thoughts[t]) /\ Exists(agents[op]) /\ Exists(challenges[c])
      /\ Exists(policies[thoughts[t].policy_id])
  BY DEF ResolveChallenged
<1>3. agents[op] \in AgentProfile /\ treasury \in Addresses
  <2>1. thoughts[t].policy_id \in PolicyIds
    BY <1>1, <1>2 DEF TypeOK, Exists, ThoughtRecord
  <2> QED
    BY <1>1, <1>2, <2>1 DEF TypeOK, Exists, Policy
<1>4. challenges' \in [ChallengeIds -> Challenge \cup {NoAccount}]
  <2>1. challenges' = [challenges EXCEPT ![c].resolved = TRUE, ![c].verdict = verdict]
    BY DEF ResolveChallenged
  <2>2. challenges[c] \in Challenge /\ challenges \in [ChallengeIds -> Challenge \cup {NoAccount}]
    BY <1>2 DEF TypeOK, Exists
  <2>3. [challenges[c] EXCEPT !.resolved = TRUE, !.verdict = verdict] \in Challenge
    BY <2>2 DEF Challenge
  <2> QED
    BY <2>1, <2>2, <2>3
<1>5. UNCHANGED <<slot, models, policies, vrfs>>
  BY DEF ResolveChallenged
<1>6. CASE verdict
  <2>1. Slash(c, treasury)
    BY <1>6 DEF ResolveChallenged
  <2>2. lamports' \in [Addresses -> Nat]
    BY <1>2, <1>3, <2>1, SlashBalances
  <2>3. thoughts' \in [ThoughtIds -> ThoughtRecord \cup {NoAccount}]
    BY <1>1, <1>2, <2>1, StatusType DEF Slash, Status
  <2>4. agents' \in [Operators -> AgentProfile \cup {NoAccount}]
    <3>1. agents' = [agents EXCEPT ![op] = Slashed(agents[op])]
      BY <2>1 DEF Slash
    <3> QED
      BY <1>1, <1>3, <3>1, SlashedType DEF TypeOK
  <2>5. burned' \in [Operators -> Nat]
    <3>1. burned' = [burned EXCEPT ![op] = @ + ToBurn(agents[op].stake_amount)]
      BY <2>1 DEF Slash
    <3>2. ToBurn(agents[op].stake_amount) \in Nat
      BY <1>3, Splits DEF AgentProfile
    <3> QED
      BY <1>1, <3>1, <3>2 DEF TypeOK
  <2> QED
    BY <1>4, <1>5, <2>2, <2>3, <2>4, <2>5 DEF TypeOK
<1>7. CASE ~verdict
  <2>1. Acquit(c, treasury)
    BY <1>7 DEF ResolveChallenged
  <2>2. lamports' \in [Addresses -> Nat]
    BY <1>2, <1>3, <2>1, AcquitBalances
  <2>3. thoughts' \in [ThoughtIds -> ThoughtRecord \cup {NoAccount}]
    BY <1>1, <1>2, <2>1, StatusType DEF Acquit, Status
  <2>4. agents' \in [Operators -> AgentProfile \cup {NoAccount}]
    <3>1. agents' = [agents EXCEPT ![op] = Settled(agents[op], 2)]
      BY <2>1 DEF Acquit
    <3>2. Settled(agents[op], 2) \in AgentProfile
      BY <1>3, SettledType
    <3> QED
      BY <1>1, <3>1, <3>2 DEF TypeOK
  <2> QED
    BY <1>4, <1>5, <2>1, <2>2, <2>3, <2>4 DEF TypeOK, Acquit
<1> QED
  BY <1>6, <1>7

(* Consuming keeps the types. *)
LEMMA ConsumeThoughtType ==
  ASSUME TypeOK, NEW t \in ThoughtIds, NEW action \in Actions, ConsumeThought(t, action)
  PROVE  TypeOK'
<1>1. thoughts' \in [ThoughtIds -> ThoughtRecord \cup {NoAccount}]
  BY DEF ConsumeThought, TypeOK, Exists, ThoughtRecord
<1> QED
  BY <1>1 DEF ConsumeThought, TypeOK

(* One step of the program keeps every account well typed. *)
LEMMA NextType == TypeOK /\ [Next]_vars => TypeOK'
<1> SUFFICES ASSUME TypeOK, [Next]_vars PROVE TypeOK'
  OBVIOUS
<1>1. CASE Tick
  BY <1>1, ConstantsAssumption DEF Tick, TypeOK
<1>2. ASSUME NEW op \in Operators, NEW amount \in Amounts,
             RegisterAgent(op, amount) \/ Stake(op, amount) \/ WithdrawStake(op, amount)
      PROVE  TypeOK'
  BY <1>2, StakingType
<1>3. ASSUME NEW signer \in Wallets, NEW m \in Models, RegisterModel(signer, m)
      PROVE  TypeOK'
  BY <1>3 DEF RegisterModel, TypeOK
<1>4. ASSUME NEW p \in PolicyIds, NEW args \in PolicyArgs, RegisterPolicy(p, args)
      PROVE  TypeOK'
  <2>1. policies' \in [PolicyIds -> Policy \cup {NoAccount}]
    BY <1>4, ConstantsAssumption DEF RegisterPolicy, TypeOK
  <2> QED
    BY <1>4, <2>1 DEF RegisterPolicy, TypeOK
<1>5. ASSUME NEW t \in ThoughtIds, NEW seed \in Seeds, RequestVrf(t, seed)
      PROVE  TypeOK'
  <2>1. vrfs' \in [ThoughtIds -> VrfRequest \cup {NoAccount}]
    BY <1>5, ConstantsAssumption DEF RequestVrf, TypeOK, VrfRequest
  <2>2. agents' \in [Operators -> AgentProfile \cup {NoAccount}]
    BY <1>5, Names DEF RequestVrf, TypeOK, Exists, AgentProfile
  <2> QED
    BY <1>5, <2>1, <2>2 DEF RequestVrf, TypeOK
<1>6. ASSUME NEW t \in ThoughtIds, NEW m \in Models, NEW p \in PolicyIds, NEW seed \in Seeds,
             NEW action \in Actions, SubmitThought(t, m, p, seed, action)
      PROVE  TypeOK'
  BY <1>6, SubmitThoughtType
<1>7. ASSUME NEW t \in ThoughtIds, NEW ch \in Challengers, NEW bond \in Amounts,
             OpenChallenge(t, ch, bond)
      PROVE  TypeOK'
  BY <1>7, OpenChallengeType
<1>8. ASSUME NEW t \in ThoughtIds, ResolveUnchallenged(t)
      PROVE  TypeOK'
  BY <1>8, ResolveUnchallengedType
<1>9. ASSUME NEW resolver \in Wallets, NEW c \in ChallengeIds, NEW verdict \in BOOLEAN,
             ResolveChallenged(resolver, c, verdict)
      PROVE  TypeOK'
  BY <1>9, ResolveChallengedType
<1>10. ASSUME NEW t \in ThoughtIds, NEW action \in Actions, ConsumeThought(t, action)
       PROVE  TypeOK'
  BY <1>10, ConsumeThoughtType
<1>11. CASE UNCHANGED vars
  BY <1>11 DEF vars, TypeOK
<1> QED
  BY <1>1, <1>2, <1>3, <1>4, <1>5, <1>6, <1>7, <1>8, <1>9, <1>10, <1>11 DEF Next

(***************************************************************************)
(* Every account of the program is well typed in every reachable state: no *)
(* balance, stake, counter or slot goes negative, and no PDA is left with  *)
(* anything but an account of its kind or none.                            *)
(***************************************************************************)
THEOREM TypeCorrect == Spec => []TypeOK
  BY InitType, NextType, PTL DEF Spec

----------------------------------------------------------------------------
(* The stake vaults. *)

(* A step that leaves every vault at least as full, and what is owed to it *)
(* as it was, keeps the vaults whole.                                      *)
LEMMA VaultFrame ==
  ASSUME TypeOK, TypeOK', VaultHoldsStake, burned' = burned,
         \A op \in Operators : lamports'[StakeVault(op)] >= lamports[StakeVault(op)],
         \A op \in Operators : StakeOf(op)' = StakeOf(op)
  PROVE  VaultHoldsStake'
<1> SUFFICES ASSUME NEW op \in Operators
             PROVE  lamports'[StakeVault(op)] >= StakeOf(op)' + burned'[op]
  BY DEF VaultHoldsStake
<1>1. StakeOf(op) \in Nat /\ burned[op] \in Nat
  BY DEF TypeOK, StakeOf, Exists, AgentProfile
<1>2. lamports[StakeVault(op)] \in Nat /\ lamports'[StakeVault(op)] \in Nat
  BY Names DEF TypeOK
<1> QED
  BY <1>1, <1>2 DEF VaultHoldsStake

(* Replacing a profile by one with the same stake leaves every stake as it *)
(* was.                                                                    *)
LEMMA SameStakes ==
  ASSUME TypeOK, NEW o \in Operators, NEW agent \in AgentProfile, Exists(agents[o]),
         agents' = [agents EXCEPT ![o] = agent], agent.stake_amount = agents[o].stake_amount
  PROVE  \A op \in Operators : StakeOf(op)' = StakeOf(op)
  BY ConstantsAssumption DEF TypeOK, StakeOf, Exists

(* Staking and withdrawing move the promised stake and the vault together. *)
LEMMA VaultStaking ==
  ASSUME TypeOK, TypeOK', VaultHoldsStake, NEW o \in Operators, NEW amount \in Amounts,
         RegisterAgent(o, amount) \/ Stake(o, amount) \/ WithdrawStake(o, amount)
  PROVE  VaultHoldsStake'
<1> SUFFICES ASSUME NEW op \in Operators
             PROVE  lamports'[StakeVault(op)] >= StakeOf(op)' + burned'[op]
  BY DEF VaultHoldsStake
<1>1. /\ amount \in Nat /\ o \in Addresses /\ o # StakeVault(o)
      /\ \A v \in Operators : StakeVault(v) \in Addresses /\ StakeVault(v) # o
  BY ConstantsAssumption, Names, Distinct
<1>2. StakeOf(op) \in Nat /\ burned[op] \in Nat /\ StakeOf(op)' \in Nat
  BY DEF TypeOK, StakeOf, Exists, AgentProfile
<1>3. lamports[StakeVault(op)] \in Nat /\ lamports'[StakeVault(op)] \in Nat
  BY Names DEF TypeOK
<1>4. burned' = burned
  BY DEF RegisterAgent, Stake, WithdrawStake
<1>5. lamports[StakeVault(op)] >= StakeOf(op) + burned[op]
  BY DEF VaultHoldsStake
<1>6. CASE op # o
  <2>1. StakeOf(op)' = StakeOf(op)
    BY <1>6 DEF RegisterAgent, Stake, WithdrawStake, TypeOK, StakeOf, Exists
  <2>2. StakeVault(op) # StakeVault(o)
    BY <1>6, Distinct
  <2>3. lamports'[StakeVault(op)] >= lamports[StakeVault(op)]
    BY <1>1, <2>2, PaymentBalances DEF RegisterAgent, Stake, WithdrawStake
  <2> QED
    BY <1>2, <1>3, <1>4, <1>5, <2>1, <2>3
<1>7. CASE op = o /\ (RegisterAgent(o, amount) \/ Stake(o, amount))
  <2>1. StakeOf(op)' = StakeOf(op) + amount
    <3>1. CASE RegisterAgent(o, amount)
      <4>1. NewAgent(amount) # NoAccount /\ NewAgent(amount).stake_amount = amount
        BY <1>1, NewAccounts, ConstantsAssumption DEF NewAgent
      <4> QED
        BY <1>1, <1>7, <3>1, <4>1 DEF RegisterAgent, TypeOK, StakeOf, Exists
    <3>2. CASE Stake(o, amount)
      BY <1>7, <3>2, ConstantsAssumption DEF Stake, TypeOK, StakeOf, Exists, AgentProfile
    <3> QED
      BY <1>7, <3>1, <3>2
  <2>2. Pay(o, StakeVault(o), amount)
    BY <1>7 DEF RegisterAgent, Stake
  <2>3. lamports'[StakeVault(op)] = lamports[StakeVault(op)] + amount
    BY <1>1, <1>7, <2>2, PaymentBalances
  <2> QED
    BY <1>1, <1>2, <1>3, <1>4, <1>5, <2>1, <2>3
<1>8. CASE op = o /\ WithdrawStake(o, amount)
  <2>1. StakeOf(op)' = StakeOf(op) - amount
    BY <1>1, <1>8, ConstantsAssumption
    DEF WithdrawStake, MayWithdraw, TypeOK, StakeOf, Exists, AgentProfile
  <2>2. lamports'[StakeVault(op)] >= lamports[StakeVault(op)] - amount
    BY <1>1, <1>8, PaymentBalances DEF WithdrawStake
  <2> QED
    BY <1>1, <1>2, <1>3, <1>4, <1>5, <2>1, <2>2
<1> QED
  BY <1>6, <1>7, <1>8

(* Slashing pays out 70% of the stake, rounded down, and writes off the    *)
(* whole: what it leaves behind is what burned gains.                      *)
LEMMA VaultSlash ==
  ASSUME TypeOK, TypeOK', VaultHoldsStake, NEW c \in ChallengeIds, NEW treasury \in Addresses,
         Exists(agents[c[1][1]]), Exists(challenges[c]), Slash(c, treasury)
  PROVE  VaultHoldsStake'
<1> DEFINE o == c[1][1]
           stake == agents[o].stake_amount
<1> SUFFICES ASSUME NEW op \in Operators
             PROVE  lamports'[StakeVault(op)] >= StakeOf(op)' + burned'[op]
  BY DEF VaultHoldsStake
<1>1. /\ o \in Operators /\ StakeVault(op) \in Addresses
      /\ StakeVault(op) # BondVault(c)
      /\ op # o => StakeVault(op) # StakeVault(o)
  BY Names, Distinct
<1>2. /\ StakeOf(op) \in Nat /\ burned[op] \in Nat
      /\ lamports[StakeVault(op)] \in Nat /\ lamports'[StakeVault(op)] \in Nat
  BY Names DEF TypeOK, StakeOf, Exists, AgentProfile
<1>3. lamports[StakeVault(op)] >= StakeOf(op) + burned[op]
  BY DEF VaultHoldsStake
<1>4. agents[o] \in AgentProfile /\ stake \in Nat
  BY <1>1 DEF TypeOK, Exists, AgentProfile
<1>5. /\ agents' = [agents EXCEPT ![o] = Slashed(agents[o])]
      /\ burned' = [burned EXCEPT ![o] = @ + ToBurn(stake)]
  BY DEF Slash
<1>6. /\ lamports'[StakeVault(o)] >= lamports[StakeVault(o)] - ToChallenger(stake) - ToTreasury(stake)
      /\ \A a \in Addresses \ {StakeVault(o), BondVault(c)} : lamports'[a] >= lamports[a]
  BY SlashBalances
<1>7. CASE op # o
  <2>1. StakeOf(op)' = StakeOf(op) /\ burned'[op] = burned[op]
    BY <1>1, <1>5, <1>7 DEF TypeOK, StakeOf, Exists
  <2>2. lamports'[StakeVault(op)] >= lamports[StakeVault(op)]
    BY <1>1, <1>6, <1>7
  <2> QED
    BY <1>2, <1>3, <2>1, <2>2
<1>8. CASE op = o
  <2>1. StakeOf(op)' = 0
    <3>1. Slashed(agents[o]).stake_amount = 0
      BY <1>4, SlashedType
    <3> QED
      BY <1>1, <1>5, <1>8, <3>1 DEF TypeOK, StakeOf
  <2>2. StakeOf(op) = stake
    BY <1>8 DEF StakeOf
  <2>3. burned'[op] = burned[op] + ToBurn(stake)
    BY <1>1, <1>5, <1>8 DEF TypeOK
  <2>4. /\ ToChallenger(stake) \in Nat /\ ToTreasury(stake) \in Nat /\ ToBurn(stake) \in Nat
        /\ ToChallenger(stake) + ToTreasury(stake) + ToBurn(stake) = stake
    BY <1>4, Splits
  <2> HIDE DEF stake
  <2>5. lamports'[StakeVault(op)] >= lamports[StakeVault(op)] - ToChallenger(stake) - ToTreasury(stake)
    BY <1>6, <1>8
  <2> QED
    BY <1>2, <1>3, <1>4, <2>1, <2>2, <2>3, <2>4, <2>5
<1> QED
  BY <1>7, <1>8

(* The treasury a verdict pays is an account of the ledger. *)
LEMMA TreasuryIsAddress ==
  ASSUME TypeOK, NEW resolver \in Wallets, NEW c \in ChallengeIds, NEW verdict \in BOOLEAN,
         ResolveChallenged(resolver, c, verdict)
  PROVE  policies[thoughts[c[1]].policy_id].treasury \in Addresses
<1>1. thoughts[c[1]] \in ThoughtRecord
  BY Names DEF ResolveChallenged, TypeOK, Exists
<1>2. policies[thoughts[c[1]].policy_id] \in Policy
  BY <1>1 DEF ResolveChallenged, TypeOK, Exists, ThoughtRecord
<1> QED
  BY <1>2 DEF Policy

(* A verdict keeps the vaults whole, whichever it is. *)
LEMMA VaultVerdict ==
  ASSUME TypeOK, TypeOK', VaultHoldsStake, NEW resolver \in Wallets, NEW c \in ChallengeIds,
         NEW verdict \in BOOLEAN, ResolveChallenged(resolver, c, verdict)
  PROVE  VaultHoldsStake'
<1> DEFINE t == c[1]
           treasury == policies[thoughts[t].policy_id].treasury
<1>1. /\ Exists(thoughts[t]) /\ Exists(agents[t[1]]) /\ Exists(challenges[c])
      /\ Exists(policies[thoughts[t].policy_id])
      /\ IF verdict THEN Slash(c, treasury) ELSE Acquit(c, treasury)
  BY DEF ResolveChallenged
<1>2. treasury \in Addresses
  BY TreasuryIsAddress
<1>3. CASE verdict
  BY <1>1, <1>2, <1>3, VaultSlash
<1>4. CASE ~verdict
  <2>1. Acquit(c, treasury)
    BY <1>1, <1>4
  <2>2. \A op \in Operators : lamports'[StakeVault(op)] >= lamports[StakeVault(op)]
    BY <1>1, <1>2, <2>1, AcquitBalances, Names, Distinct
  <2>3. t[1] \in Operators /\ agents[t[1]] \in AgentProfile
    BY <1>1, Names DEF TypeOK, Exists
  <2>4. /\ Settled(agents[t[1]], 2) \in AgentProfile
        /\ Settled(agents[t[1]], 2).stake_amount = agents[t[1]].stake_amount
    BY <2>3, SettledType
  <2>5. agents' = [agents EXCEPT ![t[1]] = Settled(agents[t[1]], 2)] /\ burned' = burned
    BY <2>1 DEF Acquit
  <2>6. \A op \in Operators : StakeOf(op)' = StakeOf(op)
    BY <1>1, <2>3, <2>4, <2>5, SameStakes
  <2> QED
    BY <2>2, <2>5, <2>6, VaultFrame
<1> QED
  BY <1>3, <1>4

(* The other instructions move no lamports out of a stake vault and change *)
(* no stake.                                                               *)
LEMMA VaultOthers ==
  ASSUME TypeOK, TypeOK', VaultHoldsStake, burned' = burned,
         \/ UNCHANGED <<lamports, agents>>
         \/ \E t \in ThoughtIds, seed \in Seeds : RequestVrf(t, seed)
         \/ \E t \in ThoughtIds, m \in Models, p \in PolicyIds, seed \in Seeds, action \in Actions :
              SubmitThought(t, m, p, seed, action)
         \/ \E t \in ThoughtIds, ch \in Challengers, bond \in Amounts : OpenChallenge(t, ch, bond)
         \/ \E t \in ThoughtIds : ResolveUnchallenged(t)
  PROVE  VaultHoldsStake'
<1>1. lamports' = lamports => \A op \in Operators : lamports'[StakeVault(op)] >= lamports[StakeVault(op)]
  BY Names DEF TypeOK
<1>2. agents' = agents => \A op \in Operators : StakeOf(op)' = StakeOf(op)
  BY DEF StakeOf
<1>3. CASE UNCHANGED <<lamports, agents>>
  BY <1>1, <1>2, <1>3, VaultFrame
<1>4. ASSUME NEW t \in ThoughtIds, NEW seed \in Seeds, RequestVrf(t, seed)
      PROVE  VaultHoldsStake'
  <2> DEFINE agent == [agents[t[1]] EXCEPT !.vrf_nonce = @ + 1]
  <2>1. t[1] \in Operators /\ agents[t[1]] \in AgentProfile /\ Exists(agents[t[1]])
    BY <1>4, Names DEF RequestVrf, TypeOK, Exists
  <2>2. agent \in AgentProfile /\ agent.stake_amount = agents[t[1]].stake_amount
    BY <2>1 DEF AgentProfile
  <2>3. agents' = [agents EXCEPT ![t[1]] = agent] /\ lamports' = lamports
    BY <1>4 DEF RequestVrf
  <2> QED
    BY <1>1, <2>1, <2>2, <2>3, SameStakes, VaultFrame
<1>5. ASSUME NEW t \in ThoughtIds, NEW m \in Models, NEW p \in PolicyIds, NEW seed \in Seeds,
             NEW action \in Actions, SubmitThought(t, m, p, seed, action)
      PROVE  VaultHoldsStake'
  <2> DEFINE agent == [agents[t[1]] EXCEPT !.active_thoughts = @ + 1]
  <2>1. t[1] \in Operators /\ agents[t[1]] \in AgentProfile /\ Exists(agents[t[1]])
    BY <1>5, Names DEF SubmitThought, TypeOK, Exists
  <2>2. agent \in AgentProfile /\ agent.stake_amount = agents[t[1]].stake_amount
    BY <2>1 DEF AgentProfile
  <2>3. agents' = [agents EXCEPT ![t[1]] = agent] /\ lamports' = lamports
    BY <1>5 DEF SubmitThought
  <2> QED
    BY <1>1, <2>1, <2>2, <2>3, SameStakes, VaultFrame
<1>6. ASSUME NEW t \in ThoughtIds, NEW ch \in Challengers, NEW bond \in Amounts,
             OpenChallenge(t, ch, bond)
      PROVE  VaultHoldsStake'
  <2>1. /\ <<t, ch>> \in ChallengeIds /\ ch \in Wallets /\ ch \in Addresses
        /\ BondVault(<<t, ch>>) \in Addresses /\ bond \in Nat
    BY Names, ConstantsAssumption DEF ChallengeIds
  <2>2. Pay(ch, BondVault(<<t, ch>>), bond) /\ agents' = agents
    BY <1>6 DEF OpenChallenge, LockBond
  <2>3. \A op \in Operators : lamports'[StakeVault(op)] >= lamports[StakeVault(op)]
    BY <2>1, <2>2, PaymentBalances, Names, Distinct
  <2> QED
    BY <1>2, <2>2, <2>3, VaultFrame
<1>7. ASSUME NEW t \in ThoughtIds, ResolveUnchallenged(t)
      PROVE  VaultHoldsStake'
  <2>1. t[1] \in Operators /\ agents[t[1]] \in AgentProfile /\ Exists(agents[t[1]])
    BY <1>7, Names DEF ResolveUnchallenged, TypeOK, Exists
  <2>2. /\ Settled(agents[t[1]], 1) \in AgentProfile
        /\ Settled(agents[t[1]], 1).stake_amount = agents[t[1]].stake_amount
    BY <2>1, SettledType
  <2>3. agents' = [agents EXCEPT ![t[1]] = Settled(agents[t[1]], 1)] /\ lamports' = lamports
    BY <1>7 DEF ResolveUnchallenged
  <2> QED
    BY <1>1, <2>1, <2>2, <2>3, SameStakes, VaultFrame
<1> QED
  BY <1>3, <1>4, <1>5, <1>6, <1>7

(* Every step keeps the stake vaults whole. *)
LEMMA VaultNext == TypeOK /\ TypeOK' /\ VaultHoldsStake /\ [Next]_vars => VaultHoldsStake'
<1> SUFFICES ASSUME TypeOK, TypeOK', VaultHoldsStake, [Next]_vars
             PROVE  VaultHoldsStake'
  OBVIOUS
<1>1. CASE \E op \in Operators, amount \in Amounts :
             RegisterAgent(op, amount) \/ Stake(op, amount) \/ WithdrawStake(op, amount)
  BY <1>1, VaultStaking
<1>2. CASE \E resolver \in Wallets, c \in ChallengeIds, verdict \in BOOLEAN :
             ResolveChallenged(resolver, c, verdict)
  BY <1>2, VaultVerdict
<1>3. CASE \/ Tick \/ UNCHANGED vars
           \/ \E signer \in Wallets, m \in Models : RegisterModel(signer, m)
           \/ \E p \in PolicyIds, args \in PolicyArgs : RegisterPolicy(p, args)
           \/ \E t \in ThoughtIds, action \in Actions : ConsumeThought(t, action)
  BY <1>3, VaultOthers DEF Tick, vars, RegisterModel, RegisterPolicy, ConsumeThought
<1>4. CASE \/ \E t \in ThoughtIds, seed \in Seeds : RequestVrf(t, seed)
           \/ \E t \in ThoughtIds, m \in Models, p \in PolicyIds, seed \in Seeds, action \in Actions :
                SubmitThought(t, m, p, seed, action)
           \/ \E t \in ThoughtIds, ch \in Challengers, bond \in Amounts : OpenChallenge(t, ch, bond)
           \/ \E t \in ThoughtIds : ResolveUnchallenged(t)
  <2>1. burned' = burned
    BY <1>4, Frames
  <2> QED
    BY <1>4, <2>1, VaultOthers
<1> QED
  BY <1>1, <1>2, <1>3, <1>4 DEF Next

(***************************************************************************)
(* Every stake vault always holds the stake its agent's profile promises   *)
(* and, beside it, all that slashing burned there: what withdraw_stake may *)
(* pay out and what resolve_challenged pays out are never more than the    *)
(* agent's own, whatever the stakes, the rounding and the treasury.        *)
(***************************************************************************)
THEOREM VaultsAreWhole == Spec => []VaultHoldsStake
<1>1. Init => VaultHoldsStake
  <2> SUFFICES ASSUME Init, NEW op \in Operators
               PROVE  lamports[StakeVault(op)] >= StakeOf(op) + burned[op]
    BY DEF VaultHoldsStake
  <2>1. lamports[StakeVault(op)] = 0
    BY Names, Distinct DEF Init
  <2> QED
    BY <2>1 DEF Init, StakeOf, Exists
<1> QED
  BY <1>1, InitType, NextType, VaultNext, PTL DEF Spec

----------------------------------------------------------------------------
(* The bonds. *)

(* A step that leaves a challenge as it was and its bond vault at least as *)
(* full keeps that bond in escrow.                                         *)
LEMMA BondFrame ==
  ASSUME TypeOK, TypeOK', BondsEscrowed, NEW c \in ChallengeIds,
         challenges'[c] = challenges[c], lamports'[BondVault(c)] >= lamports[BondVault(c)]
  PROVE  Open(c)' => lamports'[BondVault(c)] >= challenges'[c].bond
<1> SUFFICES ASSUME Open(c)' PROVE lamports'[BondVault(c)] >= challenges'[c].bond
  OBVIOUS
<1>1. Open(c)
  BY DEF Open, Exists
<1>2. challenges[c].bond \in Nat
  BY <1>1 DEF TypeOK, Open, Exists, Challenge
<1>3. lamports[BondVault(c)] \in Nat /\ lamports'[BondVault(c)] \in Nat
  BY Names DEF TypeOK
<1> QED
  BY <1>1, <1>2, <1>3 DEF BondsEscrowed

(* Every step keeps open bonds in escrow. *)
LEMMA BondNext == TypeOK /\ TypeOK' /\ BondsEscrowed /\ [Next]_vars => BondsEscrowed'
<1> SUFFICES ASSUME TypeOK, TypeOK', BondsEscrowed, [Next]_vars, NEW d \in ChallengeIds
             PROVE  Open(d)' => lamports'[BondVault(d)] >= challenges'[d].bond
  BY DEF BondsEscrowed
<1>1. ASSUME NEW op \in Operators, NEW amount \in Amounts,
             RegisterAgent(op, amount) \/ Stake(op, amount) \/ WithdrawStake(op, amount)
      PROVE  Open(d)' => lamports'[BondVault(d)] >= challenges'[d].bond
  <2>1. /\ amount \in Nat /\ op \in Addresses /\ StakeVault(op) \in Addresses
        /\ BondVault(d) \in Addresses \ {op, StakeVault(op)}
    BY ConstantsAssumption, Names, Distinct
  <2>2. Pay(op, StakeVault(op), amount) \/ Pay(StakeVault(op), op, amount)
    BY <1>1 DEF RegisterAgent, Stake, WithdrawStake
  <2>3. lamports'[BondVault(d)] >= lamports[BondVault(d)]
    BY <2>1, <2>2, PaymentBalances
  <2>4. challenges' = challenges
    BY <1>1 DEF RegisterAgent, Stake, WithdrawStake
  <2> QED
    BY <2>3, <2>4, BondFrame
<1>2. ASSUME NEW t \in ThoughtIds, NEW ch \in Challengers, NEW bond \in Amounts,
             OpenChallenge(t, ch, bond)
      PROVE  Open(d)' => lamports'[BondVault(d)] >= challenges'[d].bond
  <2> DEFINE c == <<t, ch>>
  <2>1. c \in ChallengeIds /\ ch \in Wallets /\ bond \in Nat
    BY ConstantsAssumption DEF ChallengeIds
  <2>2. /\ Pay(ch, BondVault(c), bond)
        /\ challenges' = [challenges EXCEPT ![c] =
             [bond |-> bond, opened_at_slot |-> slot, resolved |-> FALSE, verdict |-> FALSE]]
    BY <1>2 DEF OpenChallenge, LockBond
  <2> HIDE DEF c
  <2>3. /\ ch \in Addresses /\ BondVault(c) \in Addresses /\ BondVault(d) \in Addresses
        /\ ch # BondVault(c) /\ ch # BondVault(d)
    BY <2>1, Names, Distinct
  <2>4. CASE d = c
    <3>1. lamports'[BondVault(c)] = lamports[BondVault(c)] + bond
      BY <2>1, <2>2, <2>3, PaymentBalances
    <3>2. lamports[BondVault(c)] \in Nat
      BY <2>3 DEF TypeOK
    <3>3. challenges'[c].bond = bond
      BY <2>1, <2>2 DEF TypeOK
    <3> QED
      BY <2>1, <2>4, <3>1, <3>2, <3>3
  <2>5. CASE d # c
    <3>1. challenges'[d] = challenges[d]
      BY <2>1, <2>2, <2>5 DEF TypeOK
    <3>2. lamports'[BondVault(d)] >= lamports[BondVault(d)]
      BY <2>1, <2>2, <2>3, PaymentBalances
    <3> QED
      BY <3>1, <3>2, BondFrame
  <2> QED
    BY <2>4, <2>5
<1>3. ASSUME NEW resolver \in Wallets, NEW c \in ChallengeIds, NEW verdict \in BOOLEAN,
             ResolveChallenged(resolver, c, verdict)
      PROVE  Open(d)' => lamports'[BondVault(d)] >= challenges'[d].bond
  <2> DEFINE t == c[1]
             treasury == policies[thoughts[t].policy_id].treasury
  <2>1. /\ Exists(thoughts[t]) /\ Exists(agents[t[1]]) /\ Exists(challenges[c])
        /\ Exists(policies[thoughts[t].policy_id])
        /\ IF verdict THEN Slash(c, treasury) ELSE Acquit(c, treasury)
    BY <1>3 DEF ResolveChallenged
  <2>2. treasury \in Addresses
    BY <1>3, TreasuryIsAddress
  <2>3. challenges' = [challenges EXCEPT ![c].resolved = TRUE, ![c].verdict = verdict]
    BY <1>3 DEF ResolveChallenged
  <2>4. CASE d = c
    <3>1. challenges[c] \in Challenge
      BY <2>1 DEF TypeOK, Exists
    <3>2. challenges'[c].resolved
      BY <2>3, <3>1 DEF TypeOK, Challenge
    <3> QED
      BY <2>4, <3>2 DEF Open
  <2>5. CASE d # c
    <3>1. challenges'[d] = challenges[d]
      BY <2>3, <2>5 DEF TypeOK
    <3>2. BondVault(d) \in Addresses \ {StakeVault(t[1]), BondVault(c)}
      BY <2>5, Names, Distinct
    <3>3. lamports'[BondVault(d)] >= lamports[BondVault(d)]
      BY <2>1, <2>2, <3>2, SlashBalances, AcquitBalances
    <3> QED
      BY <3>1, <3>3, BondFrame
  <2> QED
    BY <2>4, <2>5
<1>4. CASE UNCHANGED <<lamports, challenges>>
  <2>1. lamports'[BondVault(d)] >= lamports[BondVault(d)]
    BY <1>4, Names DEF TypeOK
  <2> QED
    BY <1>4, <2>1, BondFrame
<1> QED
  BY <1>1, <1>2, <1>3, <1>4, Frames DEF Next, vars

(***************************************************************************)
(* Every open challenge always has its whole bond in its own escrow vault: *)
(* challenge() really moves it, and no verdict on another challenge, stake *)
(* or withdrawal ever draws on it.                                         *)
(***************************************************************************)
THEOREM BondsAreEscrowed == Spec => []BondsEscrowed
<1>1. Init => BondsEscrowed
  BY DEF Init, BondsEscrowed, Open, Exists
<1> QED
  BY <1>1, InitType, NextType, BondNext, PTL DEF Spec
=============================================================================
