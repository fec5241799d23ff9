--------------------------- MODULE StandingProofs ---------------------------
(***************************************************************************)
(* What TLAPS proves of an agent's standing: the stake behind its thoughts *)
(* and its reputation.                                                     *)
(***************************************************************************)
EXTENDS BookkeepingProofs

----------------------------------------------------------------------------
(* When a stake may fall. *)

SlashesOne(op) ==
  \E resolver \in Wallets, c \in ChallengeIds :
    op = c[1][1] /\ ResolveChallenged(resolver, c, TRUE)

(* An agent with an undecided thought exists and is not counted idle. *)
LEMMA ActiveMeansCounted ==
  ASSUME TypeOK, NEW op \in Operators, Exact(op), ActiveNonces(op) # {}
  PROVE  Exists(agents[op]) /\ agents[op].active_thoughts # 0
<1>1. IsFiniteSet(ActiveNonces(op))
  BY FiniteNonces DEF ActiveNonces
<1>2. Cardinality(ActiveNonces(op)) # 0
  BY <1>1, FS_EmptySet
<1> QED
  BY <1>2 DEF Exact

(* A stake behind an active thought falls only to zero, by a slash.        *)
LEMMA StakeFalls ==
  ASSUME TypeOK, [Next]_vars, NEW op \in Operators, Exact(op), ActiveNonces(op) # {}
  PROVE  \/ agents'[op].stake_amount >= agents[op].stake_amount
         \/ SlashesOne(op) /\ agents'[op].stake_amount = 0
<1> DEFINE Holds == agents'[op].stake_amount >= agents[op].stake_amount
<1>1. /\ Exists(agents[op]) /\ agents[op].active_thoughts # 0
      /\ agents[op] \in AgentProfile /\ agents[op].stake_amount \in Nat
  BY ActiveMeansCounted DEF TypeOK, Exists, AgentProfile
<1>2. ASSUME agents'[op].stake_amount = agents[op].stake_amount
      PROVE  Holds
  BY <1>1, <1>2
<1>3. ASSUME NEW other \in Operators, NEW amount \in Amounts, RegisterAgent(other, amount)
      PROVE  Holds
  BY <1>1, <1>2, <1>3 DEF RegisterAgent, TypeOK
<1>4. ASSUME NEW other \in Operators, NEW amount \in Amounts, Stake(other, amount)
      PROVE  Holds
  <2>1. amount \in Nat /\ agents' = [agents EXCEPT ![other].stake_amount = @ + amount]
    BY <1>4, ConstantsAssumption DEF Stake
  <2>2. CASE other = op
    BY <1>1, <2>1, <2>2 DEF TypeOK, AgentProfile
  <2>3. CASE other # op
    BY <1>2, <2>1, <2>3 DEF TypeOK
  <2> QED
    BY <2>2, <2>3
<1>5. ASSUME NEW other \in Operators, NEW amount \in Amounts, WithdrawStake(other, amount)
      PROVE  Holds
  <2>1. other # op
    BY <1>1, <1>5 DEF WithdrawStake, MayWithdraw
  <2> QED
    BY <1>2, <1>5, <2>1 DEF WithdrawStake, TypeOK
<1>6. ASSUME NEW t \in ThoughtIds, NEW seed \in Seeds, RequestVrf(t, seed)
      PROVE  Holds
  <2>1. agents' = [agents EXCEPT ![t[1]].vrf_nonce = @ + 1]
    BY <1>6 DEF RequestVrf
  <2> QED
    BY <1>1, <1>2, <2>1 DEF TypeOK, AgentProfile
<1>7. ASSUME NEW t \in ThoughtIds, NEW m \in Models, NEW p \in PolicyIds, NEW seed \in Seeds,
             NEW action \in Actions, SubmitThought(t, m, p, seed, action)
      PROVE  Holds
  <2>1. agents' = [agents EXCEPT ![t[1]].active_thoughts = @ + 1]
    BY <1>7 DEF SubmitThought
  <2> QED
    BY <1>1, <1>2, <2>1 DEF TypeOK, AgentProfile
<1>8. ASSUME NEW other \in Operators, NEW settled,
             settled.stake_amount = agents[other].stake_amount,
             agents' = [agents EXCEPT ![other] = settled]
      PROVE  Holds
  BY <1>1, <1>2, <1>8 DEF TypeOK
<1>9. ASSUME NEW t \in ThoughtIds, ResolveUnchallenged(t)
      PROVE  Holds
  <2> DEFINE other == t[1]
             settled == Settled(agents[other], 1)
  <2>1. other \in Operators /\ agents[other] \in AgentProfile
    BY <1>9, Names DEF ResolveUnchallenged, Exists, TypeOK
  <2>2. settled.stake_amount = agents[other].stake_amount
    BY <2>1, SettledType
  <2>3. agents' = [agents EXCEPT ![other] = settled]
    BY <1>9 DEF ResolveUnchallenged
  <2> HIDE DEF other, settled
  <2> QED
    BY <1>8, <2>1, <2>2, <2>3
<1>10. ASSUME NEW resolver \in Wallets, NEW c \in ChallengeIds,
              ResolveChallenged(resolver, c, FALSE)
       PROVE  Holds
  <2> DEFINE other == c[1][1]
             settled == Settled(agents[other], 2)
  <2>1. other \in Operators /\ agents[other] \in AgentProfile
    BY <1>10, Names DEF ResolveChallenged, Exists, TypeOK
  <2>2. settled.stake_amount = agents[other].stake_amount
    BY <2>1, SettledType
  <2>3. agents' = [agents EXCEPT ![other] = settled]
    BY <1>10 DEF ResolveChallenged, Acquit
  <2> HIDE DEF other, settled
  <2> QED
    BY <1>8, <2>1, <2>2, <2>3
<1>11. ASSUME NEW resolver \in Wallets, NEW c \in ChallengeIds,
              ResolveChallenged(resolver, c, TRUE)
       PROVE  Holds \/ (SlashesOne(op) /\ agents'[op].stake_amount = 0)
  <2> DEFINE other == c[1][1]
  <2>1. other \in Operators /\ agents[other] \in AgentProfile
    BY <1>11, Names DEF ResolveChallenged, Exists, TypeOK
  <2>2. agents' = [agents EXCEPT ![other] = Slashed(@)]
    BY <1>11 DEF ResolveChallenged, Slash
  <2>3. other = op => SlashesOne(op)
    BY <1>11 DEF SlashesOne
  <2> HIDE DEF other
  <2>4. CASE other = op
    BY <2>1, <2>2, <2>3, <2>4, SlashedType DEF TypeOK
  <2>5. CASE other # op
    BY <1>2, <2>2, <2>5 DEF TypeOK
  <2> QED
    BY <2>4, <2>5
<1>12. ASSUME \/ UNCHANGED vars \/ Tick
              \/ \E signer \in Wallets, m \in Models : RegisterModel(signer, m)
              \/ \E p \in PolicyIds, args \in PolicyArgs : RegisterPolicy(p, args)
              \/ \E t \in ThoughtIds, ch \in Challengers, bond \in Amounts : OpenChallenge(t, ch, bond)
              \/ \E t \in ThoughtIds, action \in Actions : ConsumeThought(t, action)
       PROVE  UNCHANGED agents
  BY <1>12 DEF vars, Tick, RegisterModel, RegisterPolicy, OpenChallenge, ConsumeThought
<1>13. ASSUME NEW resolver \in Wallets, NEW c \in ChallengeIds, NEW verdict \in BOOLEAN,
              ResolveChallenged(resolver, c, verdict)
       PROVE  Holds \/ (SlashesOne(op) /\ agents'[op].stake_amount = 0)
  <2>1. verdict = TRUE \/ verdict = FALSE
    OBVIOUS
  <2> QED
    BY <1>10, <1>11, <1>13, <2>1
<1> HIDE DEF Holds
<1>14. Holds \/ (SlashesOne(op) /\ agents'[op].stake_amount = 0)
  BY <1>2, <1>3, <1>4, <1>5, <1>6, <1>7, <1>9, <1>12, <1>13 DEF Next
<1> QED
  BY <1>14 DEF Holds

(* A registered agent stays registered. *)
LEMMA AgentStays ==
  ASSUME TypeOK, [Next]_vars, NEW op \in Operators, Exists(agents[op])
  PROVE  Exists(agents'[op])
  BY AgentSteps, RequestCounts, SubmitCounts, ResolveCounts, VerdictCounts
  DEF SameCounts, CountsTo, RegisterAgent

(* A slash makes one of the agent's Challenged thoughts Slashed.           *)
LEMMA SlashedOne ==
  ASSUME TypeOK, NEW op \in Operators, SlashesOne(op)
  PROVE  \E n \in Nonces : /\ StatusOf(<<op, n>>) = "Challenged"
                           /\ thoughts'[<<op, n>>].status = "Slashed"
                           /\ StatusOf(<<op, n>>)' = "Slashed"
<1>1. PICK resolver \in Wallets, c \in ChallengeIds :
        op = c[1][1] /\ ResolveChallenged(resolver, c, TRUE)
  BY DEF SlashesOne
<1> DEFINE t == c[1]
<1>2. t \in ThoughtIds
  BY Names
<1>3. /\ Exists(thoughts[t]) /\ StatusOf(t) = "Challenged"
      /\ thoughts' = [thoughts EXCEPT ![t].status = "Slashed"]
  <2>1. ResolveChallenged(resolver, c, TRUE)
    BY <1>1
  <2>2. Exists(thoughts[t]) /\ StatusOf(t) = "Challenged"
    BY <1>2, <2>1, VerdictEffect
  <2>3. thoughts' = [thoughts EXCEPT ![t].status = "Slashed"]
    BY <2>1 DEF ResolveChallenged, Slash
  <2> QED
    BY <2>2, <2>3
<1>4. t[2] \in Nonces /\ t = <<op, t[2]>>
  BY <1>1, <1>2 DEF ThoughtIds
<1> HIDE DEF t
<1>5. StatusOf(t)' = "Slashed"
  BY <1>2, <1>3, SetStatus DEF Status
<1>6. thoughts'[t].status = "Slashed"
  BY <1>5 DEF StatusOf
<1> QED
  BY <1>3, <1>4, <1>5, <1>6

(* What a step may do to the stakes behind undecided thoughts.             *)
StakesLeaveBySlashing ==
  \A op \in Operators :
    Exists(agents[op]) /\ ActiveNonces(op) # {}
      /\ agents'[op].stake_amount < agents[op].stake_amount
    => /\ agents'[op].stake_amount = 0
       /\ \E n \in Nonces : StatusOf(<<op, n>>) = "Challenged"
                            /\ thoughts'[<<op, n>>].status = "Slashed"

(* No step does anything else to them. *)
LEMMA StakesNext ==
  ASSUME TypeOK, TypeOK', \A op \in Operators : Exact(op), [Next]_vars
  PROVE  StakesLeaveBySlashing
<1> SUFFICES ASSUME NEW op \in Operators, Exists(agents[op]), ActiveNonces(op) # {},
                    agents'[op].stake_amount < agents[op].stake_amount
             PROVE  /\ agents'[op].stake_amount = 0
                    /\ \E n \in Nonces : StatusOf(<<op, n>>) = "Challenged"
                                         /\ thoughts'[<<op, n>>].status = "Slashed"
  BY DEF StakesLeaveBySlashing
<1>1. agents[op].stake_amount \in Nat
  BY DEF TypeOK, Exists, AgentProfile
<1>2. ~(agents'[op].stake_amount >= agents[op].stake_amount)
      \/ agents'[op].stake_amount = 0
  <2>1. agents'[op] \in AgentProfile \cup {NoAccount}
    BY DEF TypeOK
  <2>2. CASE Exists(agents'[op])
    <3>1. agents'[op].stake_amount \in Nat
      BY <2>1, <2>2 DEF Exists, AgentProfile
    <3> QED
      BY <1>1, <3>1
  <2>3. CASE ~Exists(agents'[op])
    BY <2>3, AgentStays
  <2> QED
    BY <2>2, <2>3
<1> QED
  BY <1>1, <1>2, StakeFalls, SlashedOne

(***************************************************************************)
(* While an agent has an active thought its stake never shrinks, except to *)
(* zero in the step that slashes one of its thoughts: no order of top-ups, *)
(* withdrawals and resolutions frees the stake behind an open thought.     *)
(***************************************************************************)
THEOREM StakeIsLocked == Spec => StakeLeavesOnlyBySlashing
<1>1. ActiveThoughtsExact => \A op \in Operators : Exact(op)
  BY DEF ActiveThoughtsExact, Exact
<1>2. TypeOK /\ TypeOK' /\ ActiveThoughtsExact /\ [Next]_vars => [StakesLeaveBySlashing]_vars
  BY <1>1, StakesNext
<1> QED
  BY <1>2, TypeCorrect, ActiveThoughtsCounted, PTL
  DEF Spec, StakeLeavesOnlyBySlashing, StakesLeaveBySlashing

----------------------------------------------------------------------------
(* Backing. *)

Backed(t) ==
  Active(t) /\ agents[t[1]].stake_amount < PolicyOf(t).bond_min
    => \E n \in Nonces : StatusOf(<<t[1], n>>) = "Slashed"

(* A thought is committed with the stake its policy asks for.              *)
LEMMA CommittedBacked ==
  ASSUME TypeOK, NEW t \in ThoughtIds, NEW m \in Models, NEW p \in PolicyIds, NEW seed \in Seeds,
         NEW action \in Actions, SubmitThought(t, m, p, seed, action)
  PROVE  ~(agents'[t[1]].stake_amount < PolicyOf(t)'.bond_min)
<1> DEFINE op == t[1]
<1>1. /\ op \in Operators /\ agents[op] \in AgentProfile
      /\ policies[p] \in Policy /\ policies' = policies
      /\ agents[op].stake_amount >= policies[p].bond_min
      /\ agents' = [agents EXCEPT ![op].active_thoughts = @ + 1]
  BY Names DEF SubmitThought, StakeSuffices, TypeOK, Exists
<1>2. thoughts'[t].policy_id = p
  <2>1. thoughts'[t] = NewThought(m, p, seed, action)
    BY SubmitEffect
  <2> QED
    BY <2>1 DEF NewThought
<1> HIDE DEF op
<1>3. /\ agents'[op].stake_amount = agents[op].stake_amount
      /\ agents[op].stake_amount \in Nat /\ policies[p].bond_min \in Nat
  BY <1>1 DEF TypeOK, AgentProfile, Policy
<1>4. ~(agents'[op].stake_amount < PolicyOf(t)'.bond_min)
  BY <1>1, <1>2, <1>3 DEF PolicyOf
<1> QED
  BY <1>4 DEF op

(* Every step keeps undecided thoughts backed, or one of the agent's slashed. *)
LEMMA BackedNext ==
  ASSUME TypeOK, TypeOK', [Next]_vars, NEW t \in ThoughtIds, Exact(t[1]), Governed(t), Backed(t)
  PROVE  Backed(t)'
<1> DEFINE op == t[1]
<1>1. op \in Operators /\ t[2] \in Nonces /\ t = <<op, t[2]>>
  BY DEF ThoughtIds
<1>2. CASE SlashesOne(op)
  <2> HIDE DEF op
  <2>1. \E n \in Nonces : StatusOf(<<op, n>>)' = "Slashed"
    BY <1>1, <1>2, SlashedOne
  <2> QED
    BY <2>1 DEF Backed, op
<1>3. CASE ~SlashesOne(op) /\ Active(t)
  <2>1. t[2] \in ActiveNonces(op)
    BY <1>1, <1>3 DEF ActiveNonces
  <2>2. /\ agents'[op].stake_amount >= agents[op].stake_amount
        /\ Exists(agents[op]) /\ Exists(agents'[op])
    BY <1>1, <1>3, <2>1, StakeFalls, ActiveMeansCounted, AgentStays
  <2>3. /\ agents[op].stake_amount \in Nat /\ agents'[op].stake_amount \in Nat
    BY <1>1, <2>2 DEF TypeOK, Exists, AgentProfile
  <2>4. Exists(thoughts[t]) /\ thoughts[t].policy_id \in PolicyIds
    BY <1>3 DEF Active, StatusOf, TypeOK, Exists, ThoughtRecord
  <2>5. PolicyOf(t)' = PolicyOf(t) /\ PolicyOf(t) \in Policy
    BY <2>4, ThoughtKept, PolicyKept DEF SameThought, PolicyOf, Governed, TypeOK, Exists
  <2>6. PolicyOf(t).bond_min \in Nat
    BY <2>5 DEF Policy
  <2>7. agents'[op].stake_amount < PolicyOf(t)'.bond_min
          => agents[op].stake_amount < PolicyOf(t).bond_min
    BY <2>2, <2>3, <2>5, <2>6
  <2>8. ASSUME NEW n \in Nonces, StatusOf(<<op, n>>) = "Slashed"
        PROVE  StatusOf(<<op, n>>)' = "Slashed"
    <3>1. <<op, n>> \in ThoughtIds
      BY <1>1 DEF ThoughtIds
    <3> QED
      BY <2>8, <3>1, DecidedStays
  <2> QED
    BY <1>3, <2>7, <2>8 DEF Backed
<1>4. CASE ~Active(t)
  <2>1. ASSUME Active(t)'
        PROVE  ~(agents'[op].stake_amount < PolicyOf(t)'.bond_min)
    <3>1. ~ResolveUnchallenged(t)
      BY <1>4 DEF ResolveUnchallenged, Active, StatusOf
    <3>2. ASSUME NEW resolver \in Wallets, NEW c \in ChallengeIds, NEW verdict \in BOOLEAN,
                 t = c[1], ResolveChallenged(resolver, c, verdict)
          PROVE  FALSE
      BY <1>4, <3>2, VerdictEffect DEF Active
    <3> QED
      BY <1>4, <2>1, <3>1, <3>2, ActiveSteps, CommittedBacked
  <2> QED
    BY <2>1 DEF Backed
<1> QED
  BY <1>2, <1>3, <1>4

(***************************************************************************)
(* A thought still open to dispute is backed by the policy's bond_min,     *)
(* unless slashing another thought of the same agent took the stake.       *)
(***************************************************************************)
THEOREM BackedOrSlashed == Spec => []BackedUnlessSlashed
<1> DEFINE Inv == \A t \in ThoughtIds : Backed(t)
<1>1. Init => Inv
  BY DEF Init, Backed, Active, StatusOf, Exists
<1>2. TypeOK /\ TypeOK' /\ ActiveThoughtsExact /\ SeedInv /\ Inv /\ [Next]_vars => Inv'
  <2>1. ActiveThoughtsExact => \A t \in ThoughtIds : Exact(t[1])
    BY Names DEF ActiveThoughtsExact, Exact
  <2> QED
    BY <2>1, BackedNext DEF SeedInv
<1>3. Inv => BackedUnlessSlashed
  BY DEF Backed, BackedUnlessSlashed
<1> QED
  BY <1>1, <1>2, <1>3, TypeCorrect, ActiveThoughtsCounted, SeedsInvariant, PTL DEF Spec

----------------------------------------------------------------------------
(* Reputation. *)

Won(t) == \E ch \in Challengers : Ruled(<<t, ch>>, FALSE)
Lost(t) == \E ch \in Challengers : Ruled(<<t, ch>>, TRUE)
Quiet(t) == StatusOf(t) = "Finalized" /\ ~Won(t)

SameOutcome(t) ==
  /\ Won(t)' <=> Won(t)
  /\ Lost(t)' <=> Lost(t)
  /\ Quiet(t)' <=> Quiet(t)

(* A step that decides nothing about a thought.                            *)
LEMMA OutcomeFrame ==
  ASSUME NEW t \in ThoughtIds, StatusOf(t)' = "Finalized" <=> StatusOf(t) = "Finalized",
         \A ch \in Challengers : challenges'[<<t, ch>>] = challenges[<<t, ch>>]
  PROVE  SameOutcome(t)
<1>1. \A ch \in Challengers : /\ Ruled(<<t, ch>>, TRUE)' <=> Ruled(<<t, ch>>, TRUE)
                              /\ Ruled(<<t, ch>>, FALSE)' <=> Ruled(<<t, ch>>, FALSE)
  BY DEF Ruled, Exists
<1> QED
  BY <1>1 DEF SameOutcome, Won, Lost, Quiet

(* A verdict decides nothing about another thought.                        *)
LEMMA VerdictFrame ==
  ASSUME TypeOK, NEW t \in ThoughtIds, NEW resolver \in Wallets, NEW c \in ChallengeIds,
         NEW verdict \in BOOLEAN, ResolveChallenged(resolver, c, verdict), c[1] # t
  PROVE  SameOutcome(t)
<1>1. \A x \in Challengers : <<t, x>> \in ChallengeIds \ {c}
  BY DEF ChallengeIds
<1>2. /\ thoughts' = [thoughts EXCEPT ![c[1]].status = IF verdict THEN "Slashed" ELSE "Finalized"]
      /\ \A d \in ChallengeIds \ {c} : challenges'[d] = challenges[d]
  <2>1. ASSUME NEW u, u = c[1]
        PROVE  /\ thoughts' = [thoughts EXCEPT ![u].status = IF verdict THEN "Slashed" ELSE "Finalized"]
               /\ \A d \in ChallengeIds \ {c} : challenges'[d] = challenges[d]
    BY <2>1, VerdictEffect
  <2> QED
    BY <2>1
<1>3. thoughts'[t] = thoughts[t]
  BY <1>2 DEF TypeOK
<1>4. StatusOf(t)' = StatusOf(t)
  BY <1>3 DEF StatusOf
<1>5. \A x \in Challengers : challenges'[<<t, x>>] = challenges[<<t, x>>]
  BY <1>1, <1>2
<1> QED
  BY <1>4, <1>5, OutcomeFrame

(* A thought's outcome changes only by the crank or by its verdict. *)
LEMMA OutcomeSteps ==
  ASSUME TypeOK, [Next]_vars, NEW t \in ThoughtIds, Decided(t)
  PROVE  \/ SameOutcome(t)
         \/ ResolveUnchallenged(t)
         \/ \E resolver \in Wallets, c \in ChallengeIds, verdict \in BOOLEAN :
              t = c[1] /\ ResolveChallenged(resolver, c, verdict)
<1>1. ASSUME thoughts'[t] = thoughts[t], challenges' = challenges
      PROVE  SameOutcome(t)
  BY <1>1, OutcomeFrame DEF StatusOf
<1>2. ASSUME NEW u \in ThoughtIds, NEW m \in Models, NEW p \in PolicyIds, NEW seed \in Seeds,
             NEW action \in Actions, SubmitThought(u, m, p, seed, action)
      PROVE  SameOutcome(t)
  <2>1. challenges' = challenges
    BY <1>2 DEF SubmitThought
  <2>2. CASE u # t
    BY <1>1, <1>2, <2>1, <2>2 DEF SubmitThought, TypeOK
  <2>3. CASE u = t
    <3>1. StatusOf(t) = "None" /\ thoughts'[t] = NewThought(m, p, seed, action)
      BY <1>2, <2>3, SubmitEffect DEF StatusOf
    <3>2. thoughts'[t].status = "Pending"
      BY <3>1 DEF NewThought
    <3>3. StatusOf(t)' # "Finalized"
      BY <3>2 DEF StatusOf
    <3> QED
      BY <2>1, <3>1, <3>3, OutcomeFrame
  <2> QED
    BY <2>2, <2>3
<1>3. ASSUME NEW u \in ThoughtIds, NEW ch \in Challengers, NEW bond \in Amounts,
             OpenChallenge(u, ch, bond)
      PROVE  SameOutcome(t)
  <2>1. /\ thoughts' = [thoughts EXCEPT ![u].status = "Challenged"]
        /\ Exists(thoughts[u]) /\ StatusOf(u) = "Pending"
        /\ challenges' = [challenges EXCEPT ![<<u, ch>>] =
             [bond |-> bond, opened_at_slot |-> slot, resolved |-> FALSE, verdict |-> FALSE]]
    BY <1>3 DEF OpenChallenge, Disputable, StatusOf
  <2>2. CASE u # t
    <3>1. /\ thoughts'[t] = thoughts[t]
          /\ \A x \in Challengers : challenges'[<<t, x>>] = challenges[<<t, x>>]
      BY <2>1, <2>2 DEF TypeOK, ChallengeIds
    <3> QED
      BY <3>1, OutcomeFrame DEF StatusOf
  <2>3. CASE u = t
    <3>1. StatusOf(t)' = "Challenged"
      BY <2>1, <2>3, SetStatus DEF Status
    <3>2. \A x \in Challengers : ~Ruled(<<t, x>>, TRUE) /\ ~Ruled(<<t, x>>, FALSE)
      BY <2>1, <2>3, Undisputed DEF Ruled
    <3>3. ASSUME NEW x \in Challengers
          PROVE  ~Ruled(<<t, x>>, TRUE)' /\ ~Ruled(<<t, x>>, FALSE)'
      <4>1. CASE x = ch
        <5>1. ~challenges'[<<t, x>>].resolved
          BY <2>1, <2>3, <4>1 DEF TypeOK, ChallengeIds
        <5> QED
          BY <5>1 DEF Ruled
      <4>2. CASE x # ch
        <5>1. challenges'[<<t, x>>] = challenges[<<t, x>>]
          BY <2>1, <2>3, <4>2 DEF TypeOK, ChallengeIds
        <5> QED
          BY <3>2, <5>1 DEF Ruled, Exists
      <4> QED
        BY <4>1, <4>2
    <3> QED
      BY <2>1, <2>3, <3>1, <3>2, <3>3 DEF SameOutcome, Won, Lost, Quiet
  <2> QED
    BY <2>2, <2>3
<1>4. ASSUME NEW u \in ThoughtIds, ResolveUnchallenged(u), u # t
      PROVE  SameOutcome(t)
  BY <1>1, <1>4 DEF ResolveUnchallenged, TypeOK
<1>5. ASSUME NEW resolver \in Wallets, NEW c \in ChallengeIds, NEW verdict \in BOOLEAN,
             ResolveChallenged(resolver, c, verdict), c[1] # t
      PROVE  SameOutcome(t)
  BY <1>5, VerdictFrame
<1>6. ASSUME NEW u \in ThoughtIds, NEW action \in Actions, ConsumeThought(u, action)
      PROVE  SameOutcome(t)
  BY <1>6, ConsumedStatus, OutcomeFrame DEF ConsumeThought
<1>7. ASSUME UNCHANGED <<thoughts, challenges>>
      PROVE  SameOutcome(t)
  BY <1>1, <1>7
<1> QED
  BY <1>2, <1>3, <1>4, <1>5, <1>6, <1>7, LifecycleSteps

(* What the two resolutions decide. *)
LEMMA QuietOutcome ==
  ASSUME TypeOK, NEW t \in ThoughtIds, Decided(t), ResolveUnchallenged(t)
  PROVE  /\ ~Won(t) /\ ~Lost(t) /\ ~Quiet(t)
         /\ ~Won(t)' /\ ~Lost(t)' /\ Quiet(t)'
<1>1. /\ StatusOf(t) = "Pending" /\ Exists(thoughts[t]) /\ challenges' = challenges
      /\ thoughts' = [thoughts EXCEPT ![t].status = "Finalized"]
  BY DEF ResolveUnchallenged, StatusOf
<1>2. StatusOf(t)' = "Finalized"
  BY <1>1, SetStatus DEF Status
<1>3. \A ch \in Challengers : ~Exists(challenges[<<t, ch>>])
  BY <1>1, Undisputed
<1> QED
  BY <1>1, <1>2, <1>3 DEF Won, Lost, Quiet, Ruled, Exists

(* A verdict makes an outcome where there was none. *)
LEMMA VerdictOutcome ==
  ASSUME TypeOK, NEW resolver \in Wallets, NEW c \in ChallengeIds, NEW verdict \in BOOLEAN,
         NEW t, t = c[1], Decided(t), Decided(t)', ResolveChallenged(resolver, c, verdict)
  PROVE  /\ ~Won(t) /\ ~Lost(t) /\ ~Quiet(t)
         /\ Won(t)' <=> ~verdict
         /\ Lost(t)' <=> verdict
         /\ ~Quiet(t)'
<1>1. /\ Exists(thoughts[t]) /\ StatusOf(t) = "Challenged"
      /\ thoughts' = [thoughts EXCEPT ![t].status = IF verdict THEN "Slashed" ELSE "Finalized"]
      /\ Ruled(c, verdict)'
  BY VerdictEffect
<1>2. t \in ThoughtIds /\ \E ch \in Challengers : c = <<t, ch>>
  BY DEF ChallengeIds
<1>3. StatusOf(t)' = IF verdict THEN "Slashed" ELSE "Finalized"
  BY <1>1, <1>2, SetStatus DEF Status
<1>4. ~Won(t) /\ ~Lost(t) /\ ~Quiet(t)
  BY <1>1 DEF Decided, VerdictDecides, Won, Lost, Quiet
<1>5. /\ Won(t)' => StatusOf(t)' = "Finalized"
      /\ Lost(t)' <=> StatusOf(t)' = "Slashed"
  BY DEF Decided, VerdictDecides, Won, Lost
<1>6. CASE verdict
  BY <1>3, <1>4, <1>5, <1>6 DEF Quiet
<1>7. CASE ~verdict
  <2>1. Ruled(c, FALSE)'
    BY <1>1, <1>7
  <2>2. Won(t)'
    BY <1>2, <2>1 DEF Won
  <2> QED
    BY <1>3, <1>4, <1>5, <1>7, <2>2 DEF Quiet
<1> QED
  BY <1>6, <1>7

Resolves(op) ==
  \/ \E t \in ThoughtIds : t[1] = op /\ ResolveUnchallenged(t)
  \/ \E resolver \in Wallets, c \in ChallengeIds, verdict \in BOOLEAN :
       c[1][1] = op /\ ResolveChallenged(resolver, c, verdict)

(* Only the resolution of one of its thoughts changes an agent's reputation. *)
LEMMA ReputationKept ==
  ASSUME TypeOK, [Next]_vars, NEW op \in Operators, ~Resolves(op)
  PROVE  IF Exists(agents[op])
         THEN agents'[op].reputation = agents[op].reputation
         ELSE Exists(agents'[op]) => agents'[op].reputation = 0
<1> DEFINE Kept == IF Exists(agents[op])
                   THEN agents'[op].reputation = agents[op].reputation
                   ELSE Exists(agents'[op]) => agents'[op].reputation = 0
<1>1. agents \in [Operators -> AgentProfile \cup {NoAccount}]
      /\ (Exists(agents[op]) => agents[op] \in AgentProfile)
  BY DEF TypeOK, Exists
<1>2. ASSUME agents'[op] = agents[op]
      PROVE  Kept
  BY <1>2
<1>3. ASSUME NEW other \in Operators, NEW amount \in Amounts, RegisterAgent(other, amount)
      PROVE  Kept
  BY <1>1, <1>2, <1>3 DEF RegisterAgent, NewAgent
<1>4. ASSUME NEW other \in Operators, NEW amount \in Amounts, Stake(other, amount)
      PROVE  Kept
  <2>1. Exists(agents[other]) /\ agents' = [agents EXCEPT ![other].stake_amount = @ + amount]
    BY <1>4 DEF Stake
  <2> QED
    BY <1>1, <1>2, <2>1 DEF AgentProfile
<1>5. ASSUME NEW other \in Operators, NEW amount \in Amounts, WithdrawStake(other, amount)
      PROVE  Kept
  <2>1. Exists(agents[other]) /\ agents' = [agents EXCEPT ![other].stake_amount = @ - amount]
    BY <1>5 DEF WithdrawStake
  <2> QED
    BY <1>1, <1>2, <2>1 DEF AgentProfile
<1>6. ASSUME NEW t \in ThoughtIds, NEW seed \in Seeds, RequestVrf(t, seed)
      PROVE  Kept
  <2>1. Exists(agents[t[1]]) /\ agents' = [agents EXCEPT ![t[1]].vrf_nonce = @ + 1]
    BY <1>6 DEF RequestVrf
  <2> QED
    BY <1>1, <1>2, <2>1 DEF AgentProfile
<1>7. ASSUME NEW t \in ThoughtIds, NEW m \in Models, NEW p \in PolicyIds, NEW seed \in Seeds,
             NEW action \in Actions, SubmitThought(t, m, p, seed, action)
      PROVE  Kept
  <2>1. Exists(agents[t[1]]) /\ agents' = [agents EXCEPT ![t[1]].active_thoughts = @ + 1]
    BY <1>7 DEF SubmitThought
  <2> QED
    BY <1>1, <1>2, <2>1 DEF AgentProfile
<1>8. ASSUME NEW t \in ThoughtIds, ResolveUnchallenged(t)
      PROVE  Kept
  <2>1. t[1] # op
    BY <1>8 DEF Resolves
  <2>2. agents' = [agents EXCEPT ![t[1]] = Settled(@, 1)]
    BY <1>8 DEF ResolveUnchallenged
  <2> QED
    BY <1>1, <1>2, <2>1, <2>2
<1>9. ASSUME NEW resolver \in Wallets, NEW c \in ChallengeIds, NEW verdict \in BOOLEAN,
             ResolveChallenged(resolver, c, verdict)
      PROVE  Kept
  <2>1. c[1][1] # op
    BY <1>9 DEF Resolves
  <2>2. \/ agents' = [agents EXCEPT ![c[1][1]] = Slashed(@)]
        \/ agents' = [agents EXCEPT ![c[1][1]] = Settled(@, 2)]
    BY <1>9 DEF ResolveChallenged, Slash, Acquit
  <2> QED
    BY <1>1, <1>2, <2>1, <2>2
<1>10. ASSUME \/ UNCHANGED vars \/ Tick
              \/ \E signer \in Wallets, m \in Models : RegisterModel(signer, m)
              \/ \E p \in PolicyIds, args \in PolicyArgs : RegisterPolicy(p, args)
              \/ \E t \in ThoughtIds, ch \in Challengers, bond \in Amounts : OpenChallenge(t, ch, bond)
              \/ \E t \in ThoughtIds, action \in Actions : ConsumeThought(t, action)
       PROVE  UNCHANGED agents
  BY <1>10 DEF vars, Tick, RegisterModel, RegisterPolicy, OpenChallenge, ConsumeThought
<1> HIDE DEF Kept
<1>11. Kept
  BY <1>2, <1>3, <1>4, <1>5, <1>6, <1>7, <1>8, <1>9, <1>10 DEF Next
<1> QED
  BY <1>11 DEF Kept

(* Sets of nonces: how large one is, and one that gains a nonce.           *)
LEMMA FewNonces ==
  ASSUME NEW S \in SUBSET Nonces
  PROVE  Cardinality(S) \in 0 .. MaxNonces
<1>1. IsFiniteSet(Nonces) /\ Cardinality(Nonces) <= MaxNonces /\ Cardinality(Nonces) \in Nat
  <2>1. MaxNonces \in Nat
    BY ConstantsAssumption
  <2>2. Cardinality(Nonces) = IF 0 > MaxNonces - 1 THEN 0 ELSE MaxNonces - 1 - 0 + 1
    BY <2>1, FS_Interval DEF Nonces
  <2>3. Cardinality(Nonces) = MaxNonces
    BY <2>1, <2>2
  <2> QED
    BY <2>1, <2>3, FiniteNonces
<1>2. IsFiniteSet(S) /\ Cardinality(S) <= Cardinality(Nonces)
  BY <1>1, FS_Subset
<1>3. Cardinality(S) \in Nat
  BY <1>2, FS_CardinalityType
<1> QED
  BY <1>1, <1>2, <1>3, ConstantsAssumption

(* A set of nonces that gains one is larger by one, within the bound. *)
LEMMA NonceGained ==
  ASSUME NEW S \in SUBSET Nonces, NEW n \in Nonces, n \notin S, NEW T, T = S \cup {n}
  PROVE  /\ Cardinality(T) = Cardinality(S) + 1
         /\ Cardinality(S) \in Nat /\ Cardinality(S) + 1 <= MaxNonces
<1>1. IsFiniteSet(S)
  BY FiniteNonces
<1>2. Cardinality(T) = Cardinality(S) + 1
  BY <1>1, FS_AddElement
<1> QED
  BY <1>2, FewNonces, ConstantsAssumption

(* Far from the ends of i64 an addition is exact.                          *)
LEMMA Unsaturated ==
  ASSUME NEW r \in Int, NEW d \in Int, r + d <= MaxI64, r + d >= -MaxI64
  PROVE  SaturatingAdd(r, d) = r + d
  BY ConstantsAssumption DEF SaturatingAdd

Standing(op) ==
  Cardinality(NoncesQuiet(op)) + 2 * Cardinality(NoncesWon(op)) - 10 * Cardinality(NoncesLost(op))

Tally(op) ==
  IF Exists(agents[op])
  THEN agents[op].reputation = Standing(op)
  ELSE NoncesQuiet(op) = {} /\ NoncesWon(op) = {} /\ NoncesLost(op) = {}

(* The nonces of the three outcomes, when none changed or one did.         *)
LEMMA SameNonces ==
  ASSUME NEW op, \A n \in Nonces : SameOutcome(<<op, n>>)
  PROVE  /\ NoncesQuiet(op)' = NoncesQuiet(op)
         /\ NoncesWon(op)' = NoncesWon(op)
         /\ NoncesLost(op)' = NoncesLost(op)
<1>1. \A n \in Nonces : /\ n \in NoncesQuiet(op)' <=> n \in NoncesQuiet(op)
                        /\ n \in NoncesWon(op)' <=> n \in NoncesWon(op)
                        /\ n \in NoncesLost(op)' <=> n \in NoncesLost(op)
  BY DEF SameOutcome, Quiet, Won, Lost, NoncesQuiet, NoncesWon, NoncesLost
<1> QED
  BY <1>1 DEF NoncesQuiet, NoncesWon, NoncesLost

(* A nonce is counted under an outcome exactly when its thought has it. *)
LEMMA NoncesOf ==
  ASSUME NEW op, NEW n \in Nonces
  PROVE  /\ n \in NoncesQuiet(op) <=> Quiet(<<op, n>>)
         /\ n \in NoncesWon(op) <=> Won(<<op, n>>)
         /\ n \in NoncesLost(op) <=> Lost(<<op, n>>)
         /\ n \in NoncesQuiet(op)' <=> Quiet(<<op, n>>)'
         /\ n \in NoncesWon(op)' <=> Won(<<op, n>>)'
         /\ n \in NoncesLost(op)' <=> Lost(<<op, n>>)'
  BY DEF Quiet, Won, Lost, NoncesQuiet, NoncesWon, NoncesLost

(* Where nothing is resolved the tally stays. *)
LEMMA TallyKept ==
  ASSUME TypeOK, [Next]_vars, NEW op \in Operators, Tally(op), ~Resolves(op),
         \A n \in Nonces : Decided(<<op, n>>)
  PROVE  Tally(op)'
<1>1. ASSUME NEW n \in Nonces
      PROVE  SameOutcome(<<op, n>>)
  <2> DEFINE t == <<op, n>>
  <2>1. t \in ThoughtIds /\ t[1] = op /\ Decided(t)
    BY DEF ThoughtIds
  <2> HIDE DEF t
  <2>2. ~ResolveUnchallenged(t)
    BY <2>1 DEF Resolves
  <2>3. ASSUME NEW resolver \in Wallets, NEW c \in ChallengeIds, NEW verdict \in BOOLEAN,
               t = c[1], ResolveChallenged(resolver, c, verdict)
        PROVE  FALSE
    BY <2>1, <2>3 DEF Resolves
  <2>4. SameOutcome(t)
    BY <2>1, <2>2, <2>3, OutcomeSteps
  <2> QED
    BY <2>4 DEF t
<1>2. /\ NoncesQuiet(op)' = NoncesQuiet(op)
      /\ NoncesWon(op)' = NoncesWon(op)
      /\ NoncesLost(op)' = NoncesLost(op)
  BY <1>1, SameNonces
<1>3. CASE Exists(agents[op])
  <2>1. Exists(agents'[op]) /\ agents'[op].reputation = agents[op].reputation
    BY <1>3, AgentStays, ReputationKept
  <2> QED
    BY <1>2, <1>3, <2>1 DEF Tally, Standing
<1>4. CASE ~Exists(agents[op])
  <2>1. NoncesQuiet(op)' = {} /\ NoncesWon(op)' = {} /\ NoncesLost(op)' = {}
    BY <1>2, <1>4 DEF Tally
  <2>2. Standing(op)' = 0
    BY <2>1, FS_EmptySet DEF Standing
  <2>3. Exists(agents'[op]) => agents'[op].reputation = 0
    BY <1>4, ReputationKept
  <2> QED
    BY <2>1, <2>2, <2>3 DEF Tally
<1> QED
  BY <1>3, <1>4

(* A set that gains one nonce, and a set that gains none.                  *)
LEMMA Gained ==
  ASSUME NEW S \in SUBSET Nonces, NEW T \in SUBSET Nonces, NEW n \in Nonces,
         n \notin S, n \in T, \A m \in Nonces \ {n} : m \in T <=> m \in S
  PROVE  /\ Cardinality(T) = Cardinality(S) + 1
         /\ Cardinality(S) \in Nat /\ Cardinality(S) + 1 <= MaxNonces
<1>1. T = S \cup {n}
  OBVIOUS
<1> QED
  BY <1>1, NonceGained

(* A tally after one more outcome of the three.                            *)
LEMMA OutcomeAdds ==
  ASSUME 10 * MaxNonces <= MaxI64, NEW r \in Int,
         NEW q \in 0 .. MaxNonces, NEW w \in 0 .. MaxNonces, NEW l \in 0 .. MaxNonces,
         r = q + 2 * w - 10 * l
  PROVE  /\ q + 1 <= MaxNonces => SaturatingAdd(r, 1) = (q + 1) + 2 * w - 10 * l
         /\ w + 1 <= MaxNonces => SaturatingAdd(r, 2) = q + 2 * (w + 1) - 10 * l
         /\ l + 1 <= MaxNonces => SaturatingAdd(r, -10) = q + 2 * w - 10 * (l + 1)
<1>1. MaxNonces \in Nat /\ MaxI64 \in Nat
  BY ConstantsAssumption
<1>2. q + 1 <= MaxNonces => r + 1 <= MaxI64 /\ r + 1 >= -MaxI64
  BY <1>1
<1>3. w + 1 <= MaxNonces => r + 2 <= MaxI64 /\ r + 2 >= -MaxI64
  BY <1>1
<1>4. l + 1 <= MaxNonces => r + (-10) <= MaxI64 /\ r + (-10) >= -MaxI64
  BY <1>1
<1>5. q + 1 <= MaxNonces => SaturatingAdd(r, 1) = r + 1
  BY <1>2, Unsaturated
<1>6. w + 1 <= MaxNonces => SaturatingAdd(r, 2) = r + 2
  BY <1>3, Unsaturated
<1>7. l + 1 <= MaxNonces => SaturatingAdd(r, -10) = r + (-10)
  BY <1>4, Unsaturated
<1> QED
  BY <1>1, <1>5, <1>6, <1>7

(* One thought of an agent is decided, and its reputation moves with it.   *)
LEMMA TallyMoves ==
  ASSUME 10 * MaxNonces <= MaxI64, TypeOK, NEW op \in Operators, NEW n \in Nonces, Tally(op),
         Exists(agents[op]), Exists(agents'[op]), NEW delta \in {1, 2, -10},
         agents'[op].reputation = SaturatingAdd(agents[op].reputation, delta),
         \A k \in Nonces \ {n} : SameOutcome(<<op, k>>),
         ~Quiet(<<op, n>>) /\ ~Won(<<op, n>>) /\ ~Lost(<<op, n>>),
         Quiet(<<op, n>>)' <=> delta = 1,
         Won(<<op, n>>)' <=> delta = 2,
         Lost(<<op, n>>)' <=> delta = -10
  PROVE  Tally(op)'
<1> DEFINE q == NoncesQuiet(op)
           w == NoncesWon(op)
           l == NoncesLost(op)
           qq == NoncesQuiet(op)'
           ww == NoncesWon(op)'
           ll == NoncesLost(op)'
<1>1. /\ q \in SUBSET Nonces /\ w \in SUBSET Nonces /\ l \in SUBSET Nonces
      /\ qq \in SUBSET Nonces /\ ww \in SUBSET Nonces /\ ll \in SUBSET Nonces
  BY DEF NoncesQuiet, NoncesWon, NoncesLost
<1>2. /\ n \notin q /\ n \notin w /\ n \notin l
      /\ n \in qq <=> delta = 1
      /\ n \in ww <=> delta = 2
      /\ n \in ll <=> delta = -10
  BY NoncesOf
<1>3. \A k \in Nonces \ {n} : (k \in qq <=> k \in q) /\ (k \in ww <=> k \in w) /\ (k \in ll <=> k \in l)
  BY NoncesOf DEF SameOutcome
<1>4. agents[op].reputation = Cardinality(q) + 2 * Cardinality(w) - 10 * Cardinality(l)
  BY DEF Tally, Standing
<1>5. Cardinality(qq) + 2 * Cardinality(ww) - 10 * Cardinality(ll) = agents'[op].reputation
        => Tally(op)'
  BY DEF Tally, Standing
<1> HIDE DEF q, w, l, qq, ww, ll
<1>6. /\ Cardinality(q) \in 0 .. MaxNonces
      /\ Cardinality(w) \in 0 .. MaxNonces
      /\ Cardinality(l) \in 0 .. MaxNonces
  BY <1>1, FewNonces
<1>7. agents[op].reputation \in Int
  BY DEF TypeOK, Exists, AgentProfile
<1>8. CASE delta = 1
  <2>1. Cardinality(qq) = Cardinality(q) + 1 /\ Cardinality(q) + 1 <= MaxNonces
    BY <1>1, <1>2, <1>3, <1>8, Gained
  <2>2. ww = w /\ ll = l
    BY <1>1, <1>2, <1>3, <1>8
  <2>3. SaturatingAdd(agents[op].reputation, 1)
          = (Cardinality(q) + 1) + 2 * Cardinality(w) - 10 * Cardinality(l)
    BY <1>4, <1>6, <1>7, <2>1, OutcomeAdds
  <2> QED
    BY <1>5, <1>8, <2>1, <2>2, <2>3
<1>9. CASE delta = 2
  <2>1. Cardinality(ww) = Cardinality(w) + 1 /\ Cardinality(w) + 1 <= MaxNonces
    BY <1>1, <1>2, <1>3, <1>9, Gained
  <2>2. qq = q /\ ll = l
    BY <1>1, <1>2, <1>3, <1>9
  <2>3. SaturatingAdd(agents[op].reputation, 2)
          = Cardinality(q) + 2 * (Cardinality(w) + 1) - 10 * Cardinality(l)
    BY <1>4, <1>6, <1>7, <2>1, OutcomeAdds
  <2> QED
    BY <1>5, <1>9, <2>1, <2>2, <2>3
<1>10. CASE delta = -10
  <2>1. Cardinality(ll) = Cardinality(l) + 1 /\ Cardinality(l) + 1 <= MaxNonces
    BY <1>1, <1>2, <1>3, <1>10, Gained
  <2>2. qq = q /\ ww = w
    BY <1>1, <1>2, <1>3, <1>10
  <2>3. SaturatingAdd(agents[op].reputation, -10)
          = Cardinality(q) + 2 * Cardinality(w) - 10 * (Cardinality(l) + 1)
    BY <1>4, <1>6, <1>7, <2>1, OutcomeAdds
  <2> QED
    BY <1>5, <1>10, <2>1, <2>2, <2>3
<1> QED
  BY <1>8, <1>9, <1>10

(* Settling adds to the reputation, saturating. *)
LEMMA SettledReputation ==
  ASSUME NEW agent \in AgentProfile, NEW delta \in Int
  PROVE  Settled(agent, delta).reputation = SaturatingAdd(agent.reputation, delta)
<1>1. Settled(agent, delta) \in AgentProfile
  BY SettledType
<1> QED
  BY <1>1 DEF Settled, AgentProfile

(* Slashing takes ten from the reputation, saturating. *)
LEMMA SlashedReputation ==
  ASSUME NEW agent \in AgentProfile
  PROVE  Slashed(agent).reputation = SaturatingAdd(agent.reputation, -10)
<1> DEFINE settled == Settled(agent, -10)
<1>1. settled \in AgentProfile /\ settled.reputation = SaturatingAdd(agent.reputation, -10)
  BY SettledType, SettledReputation
<1>2. Slashed(agent) = [settled EXCEPT !.stake_amount = 0]
  BY DEF Slashed
<1> HIDE DEF settled
<1> QED
  BY <1>1, <1>2 DEF AgentProfile

(* Every step keeps the reputation the tally of the outcomes. *)
LEMMA TallyNext ==
  ASSUME 10 * MaxNonces <= MaxI64, TypeOK, [Next]_vars, NEW op \in Operators, Tally(op),
         \A t \in ThoughtIds : Decided(t) /\ Decided(t)'
  PROVE  Tally(op)'
<1>1. ASSUME NEW t \in ThoughtIds, t[1] = op, ResolveUnchallenged(t)
      PROVE  Tally(op)'
  <2>1. PICK n \in Nonces : t = <<op, n>>
    BY <1>1 DEF ThoughtIds
  <2>2. ASSUME NEW k \in Nonces \ {n}
        PROVE  SameOutcome(<<op, k>>)
    <3> DEFINE u == <<op, k>>
    <3>1. u \in ThoughtIds /\ u # t
      BY <2>1 DEF ThoughtIds
    <3> HIDE DEF u
    <3>2. thoughts'[u] = thoughts[u] /\ challenges' = challenges
      BY <1>1, <3>1 DEF ResolveUnchallenged, TypeOK
    <3>3. SameOutcome(u)
      BY <3>1, <3>2, OutcomeFrame DEF StatusOf
    <3> QED
      BY <3>3 DEF u
  <2>3. /\ ~Won(t) /\ ~Lost(t) /\ ~Quiet(t)
        /\ ~Won(t)' /\ ~Lost(t)' /\ Quiet(t)'
    BY <1>1, QuietOutcome
  <2>4. Exists(agents[op]) /\ agents[op] \in AgentProfile
    BY <1>1 DEF ResolveUnchallenged, TypeOK, Exists
  <2>5. agents'[op].reputation = SaturatingAdd(agents[op].reputation, 1)
    <3>1. agents'[op] = Settled(agents[op], 1)
      BY <1>1 DEF ResolveUnchallenged, TypeOK
    <3> QED
      BY <2>4, <3>1, SettledReputation
  <2>6. Exists(agents'[op])
    BY <2>4, AgentStays
  <2> QED
    BY <2>1, <2>2, <2>3, <2>4, <2>5, <2>6, TallyMoves
<1>2. ASSUME NEW resolver \in Wallets, NEW c \in ChallengeIds, NEW verdict \in BOOLEAN,
             c[1][1] = op, ResolveChallenged(resolver, c, verdict)
      PROVE  Tally(op)'
  <2>1. PICK n \in Nonces : c[1] = <<op, n>>
    BY <1>2, Names DEF ThoughtIds
  <2> DEFINE t == <<op, n>>
             delta == IF verdict THEN -10 ELSE 2
  <2>2. ASSUME NEW k \in Nonces \ {n}
        PROVE  SameOutcome(<<op, k>>)
    BY <1>2, <2>1, VerdictFrame DEF ThoughtIds
  <2>3. /\ ~Won(t) /\ ~Lost(t) /\ ~Quiet(t)
        /\ Won(t)' <=> ~verdict
        /\ Lost(t)' <=> verdict
        /\ ~Quiet(t)'
    <3>1. t = c[1] /\ t \in ThoughtIds
      BY <2>1, Names
    <3>2. Decided(t) /\ Decided(t)'
      BY <3>1
    <3> HIDE DEF t
    <3> QED
      BY <1>2, <3>1, <3>2, VerdictOutcome
  <2>4. Exists(agents[op]) /\ agents[op] \in AgentProfile
    BY <1>2 DEF ResolveChallenged, TypeOK, Exists
  <2>5. agents'[op].reputation = SaturatingAdd(agents[op].reputation, delta)
    <3>1. agents'[op] = IF verdict THEN Slashed(agents[op]) ELSE Settled(agents[op], 2)
      BY <1>2 DEF ResolveChallenged, Slash, Acquit, TypeOK
    <3> QED
      BY <2>4, <3>1, SettledReputation, SlashedReputation
  <2>6. Exists(agents'[op])
    BY <2>4, AgentStays
  <2>7. /\ delta \in {1, 2, -10}
        /\ Quiet(t)' <=> delta = 1
        /\ Won(t)' <=> delta = 2
        /\ Lost(t)' <=> delta = -10
    BY <2>3
  <2> HIDE DEF delta
  <2> QED
    BY <2>2, <2>3, <2>4, <2>5, <2>6, <2>7, TallyMoves
<1>3. CASE ~Resolves(op)
  <2>1. \A n \in Nonces : Decided(<<op, n>>)
    BY DEF ThoughtIds
  <2> QED
    BY <1>3, <2>1, TallyKept
<1> QED
  BY <1>1, <1>2, <1>3 DEF Resolves

(***************************************************************************)
(* reputation counts every outcome exactly once, +1 for a thought that     *)
(* went unchallenged, +2 for a dispute won and -10 for one lost, whatever  *)
(* the order of the resolutions: as long as an agent has too few thoughts  *)
(* for i64 to saturate.                                                    *)
(***************************************************************************)
THEOREM ReputationIsTheTally ==
  ASSUME 10 * MaxNonces <= MaxI64
  PROVE  Spec => []ReputationTally
<1> DEFINE Inv == \A op \in Operators : Tally(op)
           Disputes == \A t \in ThoughtIds : Decided(t)
<1>1. Init => Inv
  <2> SUFFICES ASSUME Init, NEW op \in Operators PROVE Tally(op)
    OBVIOUS
  <2>1. \A n \in Nonces : StatusOf(<<op, n>>) = "None"
    BY DEF Init, StatusOf, Exists, ThoughtIds
  <2>2. \A n \in Nonces, ch \in Challengers : ~Exists(challenges[<<<<op, n>>, ch>>])
    BY DEF Init, Exists, ThoughtIds, ChallengeIds
  <2>3. ~Exists(agents[op])
    BY DEF Init, Exists
  <2> QED
    BY <2>1, <2>2, <2>3 DEF Tally, NoncesQuiet, NoncesWon, NoncesLost, Ruled
<1>2. TypeOK /\ Disputes /\ Disputes' /\ Inv /\ [Next]_vars => Inv'
  BY TallyNext
<1>3. DisputesDecideOutcomes => Disputes
  BY DEF DisputesDecideOutcomes, Decided
<1>4. Inv => ReputationTally
  BY DEF Tally, Standing, ReputationTally
<1> QED
  BY <1>1, <1>2, <1>3, <1>4, TypeCorrect, DisputesDecide, PTL DEF Spec
=============================================================================
