------------------------- MODULE BookkeepingProofs -------------------------
(***************************************************************************)
(* What TLAPS proves of the records PotProgram keeps of thoughts: when     *)
(* they were made, whose seeds they spent, and how many an agent has.      *)
(***************************************************************************)
EXTENDS LifecycleProofs, FiniteSetTheorems

----------------------------------------------------------------------------
(* Due process. *)

DueProcess(t) ==
  /\ StatusOf(t) = "Finalized" /\ slot < thoughts[t].challenge_deadline_slot
       => \E ch \in Challengers : Ruled(<<t, ch>>, FALSE)
  /\ \A ch \in Challengers : Exists(challenges[<<t, ch>>]) =>
       /\ challenges[<<t, ch>>].opened_at_slot >= thoughts[t].slot
       /\ challenges[<<t, ch>>].opened_at_slot < thoughts[t].challenge_deadline_slot

(* The strengthening: no thought was made in the future.                   *)
MadeBefore(t) == Exists(thoughts[t]) => thoughts[t].slot <= slot

(* A thought's own slot stays in the past, and its window after it. *)
LEMMA MadeBeforeNext ==
  ASSUME TypeOK, [Next]_vars, NEW t \in ThoughtIds, MadeBefore(t)
  PROVE  MadeBefore(t)'
<1> SUFFICES ASSUME Exists(thoughts'[t]) PROVE thoughts'[t].slot <= slot'
  BY DEF MadeBefore
<1>1. CASE Exists(thoughts[t])
  <2>1. thoughts[t].slot \in Nat
    BY <1>1 DEF TypeOK, Exists, ThoughtRecord
  <2> QED
    BY <1>1, <2>1, Clock, ThoughtKept DEF MadeBefore, SameThought
<1>2. CASE ~Exists(thoughts[t])
  <2>1. PICK m \in Models, p \in PolicyIds, seed \in Seeds, action \in Actions :
          SubmitThought(t, m, p, seed, action)
    BY <1>2, ThoughtMade
  <2>2. thoughts'[t] = NewThought(m, p, seed, action)
    BY <2>1 DEF SubmitThought, TypeOK
  <2> QED
    BY <2>2, Clock DEF NewThought
<1> QED
  BY <1>1, <1>2

(* A thought keeps its due process when no challenge of it is opened or    *)
(* ruled, and it is not finalized.                                         *)
LEMMA DueProcessFrame ==
  ASSUME TypeOK, [Next]_vars, NEW t \in ThoughtIds, Exists(thoughts[t]), DueProcess(t),
         \A ch \in Challengers : challenges'[<<t, ch>>] = challenges[<<t, ch>>],
         StatusOf(t)' = "Finalized" => StatusOf(t) = "Finalized"
  PROVE  DueProcess(t)'
<1>1. thoughts[t].challenge_deadline_slot \in Nat
  BY DEF TypeOK, Exists, ThoughtRecord
<1>2. /\ thoughts'[t].slot = thoughts[t].slot
      /\ thoughts'[t].challenge_deadline_slot = thoughts[t].challenge_deadline_slot
  BY ThoughtKept DEF SameThought
<1>3. slot' < thoughts'[t].challenge_deadline_slot => slot < thoughts[t].challenge_deadline_slot
  BY <1>1, <1>2, Clock
<1>4. \A ch \in Challengers : /\ Ruled(<<t, ch>>, FALSE)' <=> Ruled(<<t, ch>>, FALSE)
                              /\ Exists(challenges[<<t, ch>>])' <=> Exists(challenges[<<t, ch>>])
  BY DEF Ruled, Exists
<1> QED
  BY <1>2, <1>3, <1>4 DEF DueProcess

(* No step makes a thought final inside its window but a lost dispute. *)
LEMMA DueProcessNext ==
  ASSUME TypeOK, TypeOK', [Next]_vars, NEW t \in ThoughtIds,
         Decided(t), MadeBefore(t), DueProcess(t)
  PROVE  DueProcess(t)'
<1>1. CASE ~Exists(thoughts'[t])
  <2>1. ~Exists(thoughts[t])
    BY <1>1, ThoughtKept
  <2>2. \A ch \in Challengers : ~Exists(challenges[<<t, ch>>])
    BY <2>1, Undisputed DEF StatusOf
  <2>3. ASSUME NEW ch \in Challengers, Exists(challenges'[<<t, ch>>])
        PROVE  FALSE
    <3>1. <<t, ch>> \in ChallengeIds /\ challenges'[<<t, ch>>] # challenges[<<t, ch>>]
      BY <2>2, <2>3 DEF ChallengeIds, Exists
    <3>2. ASSUME NEW u \in ThoughtIds, NEW x \in Challengers, NEW bond \in Amounts,
                 OpenChallenge(u, x, bond)
          PROVE  FALSE
      BY <2>1, <3>1, <3>2 DEF OpenChallenge, TypeOK
    <3>3. ASSUME NEW resolver \in Wallets, NEW c \in ChallengeIds, NEW verdict \in BOOLEAN,
                 ResolveChallenged(resolver, c, verdict)
          PROVE  FALSE
      <4>1. c # <<t, ch>>
        BY <2>1, <3>3 DEF ResolveChallenged
      <4> QED
        BY <3>1, <3>3, <4>1, VerdictEffect
    <3> QED
      BY <3>1, <3>2, <3>3, LifecycleSteps, Frames
  <2>4. StatusOf(t)' = "None"
    BY <1>1 DEF StatusOf
  <2> QED
    BY <2>3, <2>4 DEF DueProcess
<1>2. CASE ~Exists(thoughts[t]) /\ Exists(thoughts'[t])
  <2>1. PICK m \in Models, p \in PolicyIds, seed \in Seeds, action \in Actions :
          SubmitThought(t, m, p, seed, action)
    BY <1>2, ThoughtMade
  <2>2. challenges' = challenges /\ thoughts'[t] = NewThought(m, p, seed, action)
    BY <2>1 DEF SubmitThought, TypeOK
  <2>3. \A ch \in Challengers : ~Exists(challenges'[<<t, ch>>])
    BY <1>2, <2>2, Undisputed DEF StatusOf
  <2>4. StatusOf(t)' # "Finalized"
    BY <1>2, <2>2 DEF StatusOf, NewThought
  <2> QED
    BY <2>3, <2>4 DEF DueProcess
<1>3. CASE Exists(thoughts[t]) /\ Exists(thoughts'[t])
  <2> USE <1>3
  <2>1. ASSUME UNCHANGED <<thoughts, challenges>>
        PROVE  DueProcess(t)'
    BY <2>1, DueProcessFrame DEF StatusOf
  <2>2. ASSUME NEW u \in ThoughtIds, NEW m \in Models, NEW p \in PolicyIds, NEW seed \in Seeds,
               NEW action \in Actions, SubmitThought(u, m, p, seed, action)
        PROVE  DueProcess(t)'
    <3>1. thoughts'[t] = thoughts[t] /\ challenges' = challenges
      BY <2>2 DEF SubmitThought, TypeOK
    <3> QED
      BY <3>1, DueProcessFrame DEF StatusOf
  <2>3. ASSUME NEW u \in ThoughtIds, NEW ch \in Challengers, NEW bond \in Amounts,
               OpenChallenge(u, ch, bond)
        PROVE  DueProcess(t)'
    <3>1. /\ thoughts' = [thoughts EXCEPT ![u].status = "Challenged"] /\ Exists(thoughts[u])
          /\ thoughts[u].status = "Pending" /\ slot < thoughts[u].challenge_deadline_slot
          /\ challenges' = [challenges EXCEPT ![<<u, ch>>] =
               [bond |-> bond, opened_at_slot |-> slot, resolved |-> FALSE, verdict |-> FALSE]]
          /\ slot' = slot
      BY <2>3 DEF OpenChallenge, Disputable
    <3>2. CASE u # t
      <4>1. thoughts'[t] = thoughts[t]
        BY <3>1, <3>2, SetStatus DEF Status
      <4>2. \A x \in Challengers : challenges'[<<t, x>>] = challenges[<<t, x>>]
        BY <3>1, <3>2 DEF TypeOK, ChallengeIds
      <4> QED
        BY <4>1, <4>2, DueProcessFrame DEF StatusOf
    <3>3. CASE u = t
      <4>1. StatusOf(t)' = "Challenged"
        BY <3>1, <3>3, SetStatus DEF Status
      <4>2. \A x \in Challengers \ {ch} : ~Exists(challenges'[<<t, x>>])
        <5>1. StatusOf(t) = "Pending"
          BY <3>1, <3>3 DEF StatusOf
        <5> QED
          BY <3>1, <3>3, <5>1, Undisputed DEF TypeOK, ChallengeIds
      <4>3. challenges'[<<t, ch>>].opened_at_slot = slot
        BY <3>1, <3>3 DEF TypeOK, ChallengeIds
      <4>4. slot >= thoughts'[t].slot /\ slot < thoughts'[t].challenge_deadline_slot
        <5>1. thoughts[t].slot \in Nat /\ thoughts[t].slot <= slot
          BY DEF MadeBefore, TypeOK, Exists, ThoughtRecord
        <5> QED
          BY <3>1, <3>3, <5>1, Clock, ThoughtKept DEF SameThought
      <4> QED
        BY <4>1, <4>2, <4>3, <4>4 DEF DueProcess
    <3> QED
      BY <3>2, <3>3
  <2>4. ASSUME NEW u \in ThoughtIds, ResolveUnchallenged(u)
        PROVE  DueProcess(t)'
    <3>1. /\ thoughts' = [thoughts EXCEPT ![u].status = "Finalized"] /\ Exists(thoughts[u])
          /\ slot >= thoughts[u].challenge_deadline_slot
          /\ challenges' = challenges /\ slot' = slot
      BY <2>4 DEF ResolveUnchallenged, WindowElapsed
    <3>2. CASE u # t
      <4>1. thoughts'[t] = thoughts[t]
        BY <3>1, <3>2, SetStatus DEF Status
      <4> QED
        BY <3>1, <4>1, DueProcessFrame DEF StatusOf
    <3>3. CASE u = t
      <4>1. thoughts[t].challenge_deadline_slot \in Nat
        BY DEF TypeOK, Exists, ThoughtRecord
      <4>2. ~(slot' < thoughts'[t].challenge_deadline_slot)
        BY <3>1, <3>3, <4>1, Clock, ThoughtKept DEF SameThought
      <4> QED
        BY <3>1, <4>2, ThoughtKept DEF DueProcess, SameThought
    <3> QED
      BY <3>2, <3>3
  <2>5. ASSUME NEW resolver \in Wallets, NEW c \in ChallengeIds, NEW verdict \in BOOLEAN,
               ResolveChallenged(resolver, c, verdict)
        PROVE  DueProcess(t)'
    <3>1. PICK u \in ThoughtIds, ch \in Challengers : c = <<u, ch>>
      BY DEF ChallengeIds
    <3>2. /\ u = c[1] /\ Exists(thoughts[u]) /\ Open(c)
          /\ thoughts' = [thoughts EXCEPT ![u].status = IF verdict THEN "Slashed" ELSE "Finalized"]
          /\ Ruled(c, verdict)'
          /\ \A d \in ChallengeIds \ {c} : challenges'[d] = challenges[d]
      BY <2>5, <3>1, VerdictEffect
    <3>3. CASE u # t
      <4>1. thoughts'[t] = thoughts[t]
        BY <3>2, <3>3, SetStatus DEF Status
      <4>2. \A x \in Challengers : challenges'[<<t, x>>] = challenges[<<t, x>>]
        BY <3>1, <3>2, <3>3 DEF ChallengeIds
      <4> QED
        BY <4>1, <4>2, DueProcessFrame DEF StatusOf
    <3>4. CASE u = t
      <4>1. StatusOf(t)' = "Finalized" => verdict = FALSE
        BY <3>2, <3>4, SetStatus DEF Status
      <4>2. StatusOf(t)' = "Finalized" => Ruled(<<t, ch>>, FALSE)'
        BY <3>1, <3>2, <3>4, <4>1
      <4>3. challenges'[c].opened_at_slot = challenges[c].opened_at_slot
        <5>1. challenges[c] \in Challenge
          BY <3>2 DEF Open, Exists, TypeOK
        <5> QED
          BY <2>5, <5>1 DEF ResolveChallenged, TypeOK, Challenge
      <4>4. \A x \in Challengers : Exists(challenges'[<<t, x>>]) =>
              /\ Exists(challenges[<<t, x>>])
              /\ challenges'[<<t, x>>].opened_at_slot = challenges[<<t, x>>].opened_at_slot
        <5>1. \A x \in Challengers \ {ch} : challenges'[<<t, x>>] = challenges[<<t, x>>]
          BY <3>1, <3>2, <3>4 DEF ChallengeIds
        <5> QED
          BY <3>1, <3>2, <3>4, <4>3, <5>1 DEF Open
      <4> QED
        BY <4>2, <4>4, ThoughtKept DEF DueProcess, SameThought
    <3> QED
      BY <3>3, <3>4
  <2>6. ASSUME NEW u \in ThoughtIds, NEW action \in Actions, ConsumeThought(u, action)
        PROVE  DueProcess(t)'
    <3>1. StatusOf(t)' = StatusOf(t)
      BY <2>6, ConsumedStatus
    <3> QED
      BY <2>6, <3>1, DueProcessFrame DEF ConsumeThought
  <2> QED
    BY <2>1, <2>2, <2>3, <2>4, <2>5, <2>6, LifecycleSteps
<1> QED
  BY <1>1, <1>2, <1>3

(***************************************************************************)
(* No thought is final before its window has elapsed unless a challenger   *)
(* disputed it, within that window, and lost: however the clock, the       *)
(* cranks and the verdicts interleave.                                     *)
(***************************************************************************)
THEOREM DueProcessAlways == Spec => []FinalOnlyByDueProcess
<1> DEFINE Inv == \A t \in ThoughtIds : MadeBefore(t) /\ DueProcess(t)
<1>1. Init => Inv
  BY DEF Init, MadeBefore, DueProcess, StatusOf, Exists, ChallengeIds
<1>2. TypeOK /\ TypeOK' /\ DisputesDecideOutcomes /\ Inv /\ [Next]_vars => Inv'
  BY MadeBeforeNext, DueProcessNext DEF DisputesDecideOutcomes, Decided
<1>3. Inv => FinalOnlyByDueProcess
  BY DEF DueProcess, FinalOnlyByDueProcess
<1> QED
  BY <1>1, <1>2, <1>3, TypeCorrect, DisputesDecide, PTL DEF Spec

----------------------------------------------------------------------------
(* What a step does to one agent's counters. *)

CountsTo(op, nonces, active) ==
  /\ Exists(agents[op]) /\ Exists(agents'[op])
  /\ agents[op] \in AgentProfile
  /\ agents'[op].vrf_nonce = agents[op].vrf_nonce + nonces
  /\ agents'[op].active_thoughts = active

(* request_vrf takes the next nonce and counts no thought. *)
LEMMA RequestCounts ==
  ASSUME TypeOK, NEW t \in ThoughtIds, NEW seed \in Seeds, RequestVrf(t, seed)
  PROVE  CountsTo(t[1], 1, agents[t[1]].active_thoughts)
<1>1. t[1] \in Operators /\ Exists(agents[t[1]])
  BY Names DEF RequestVrf
<1>2. agents[t[1]] \in AgentProfile /\ agents' = [agents EXCEPT ![t[1]].vrf_nonce = @ + 1]
  BY <1>1 DEF TypeOK, RequestVrf, Exists
<1>3. agents'[t[1]] \in AgentProfile
  BY <1>1, <1>2 DEF TypeOK, AgentProfile
<1>4. /\ agents'[t[1]].vrf_nonce = agents[t[1]].vrf_nonce + 1
      /\ agents'[t[1]].active_thoughts = agents[t[1]].active_thoughts
  BY <1>1, <1>2 DEF TypeOK, AgentProfile
<1> QED
  BY <1>1, <1>2, <1>3, <1>4, ConstantsAssumption DEF CountsTo, Exists

(* submit_thought counts one thought more. *)
LEMMA SubmitCounts ==
  ASSUME TypeOK, NEW t \in ThoughtIds, NEW m \in Models, NEW p \in PolicyIds, NEW seed \in Seeds,
         NEW action \in Actions, SubmitThought(t, m, p, seed, action)
  PROVE  CountsTo(t[1], 0, agents[t[1]].active_thoughts + 1)
<1>1. t[1] \in Operators /\ Exists(agents[t[1]])
  BY Names DEF SubmitThought
<1>2. agents[t[1]] \in AgentProfile /\ agents' = [agents EXCEPT ![t[1]].active_thoughts = @ + 1]
  BY <1>1 DEF TypeOK, SubmitThought, Exists
<1>3. agents'[t[1]] \in AgentProfile
  BY <1>1, <1>2 DEF TypeOK, AgentProfile
<1>4. /\ agents'[t[1]].vrf_nonce = agents[t[1]].vrf_nonce + 0
      /\ agents'[t[1]].active_thoughts = agents[t[1]].active_thoughts + 1
  BY <1>1, <1>2 DEF TypeOK, AgentProfile
<1> QED
  BY <1>1, <1>2, <1>3, <1>4, ConstantsAssumption DEF CountsTo, Exists

(* Settling leaves the nonce and counts one thought less. *)
LEMMA SettledFields ==
  ASSUME NEW agent \in AgentProfile, NEW delta \in Int
  PROVE  /\ Settled(agent, delta).vrf_nonce = agent.vrf_nonce
         /\ Settled(agent, delta).active_thoughts = SaturatingDec(agent.active_thoughts)
<1>1. Settled(agent, delta) \in AgentProfile
  BY SettledType
<1> QED
  BY <1>1 DEF Settled, AgentProfile

(* Slashing leaves the nonce and counts one thought less. *)
LEMMA SlashedFields ==
  ASSUME NEW agent \in AgentProfile
  PROVE  /\ Slashed(agent).vrf_nonce = agent.vrf_nonce
         /\ Slashed(agent).active_thoughts = SaturatingDec(agent.active_thoughts)
<1> DEFINE settled == Settled(agent, -10)
<1>1. /\ settled \in AgentProfile
      /\ settled.vrf_nonce = agent.vrf_nonce
      /\ settled.active_thoughts = SaturatingDec(agent.active_thoughts)
  BY SettledType, SettledFields
<1>2. Slashed(agent) = [settled EXCEPT !.stake_amount = 0]
  BY DEF Slashed
<1> HIDE DEF settled
<1> QED
  BY <1>1, <1>2 DEF AgentProfile

(* A profile that was settled counts one thought less. *)
LEMMA SettleCounts ==
  ASSUME TypeOK, NEW op \in Operators, Exists(agents[op]), NEW settled \in AgentProfile,
         settled.vrf_nonce = agents[op].vrf_nonce,
         settled.active_thoughts = SaturatingDec(agents[op].active_thoughts),
         agents' = [agents EXCEPT ![op] = settled]
  PROVE  CountsTo(op, 0, SaturatingDec(agents[op].active_thoughts))
<1>1. agents[op] \in AgentProfile /\ agents'[op] = settled
  BY DEF TypeOK, Exists
<1>2. agents[op].vrf_nonce + 0 = agents[op].vrf_nonce
  BY <1>1 DEF AgentProfile
<1> QED
  BY <1>1, <1>2, ConstantsAssumption DEF CountsTo, Exists

(* The crank counts one thought less. *)
LEMMA ResolveCounts ==
  ASSUME TypeOK, NEW t \in ThoughtIds, ResolveUnchallenged(t)
  PROVE  CountsTo(t[1], 0, SaturatingDec(agents[t[1]].active_thoughts))
<1> DEFINE op == t[1]
           settled == Settled(agents[op], 1)
<1>1. op \in Operators /\ Exists(agents[op]) /\ agents[op] \in AgentProfile
  BY Names DEF ResolveUnchallenged, Exists, TypeOK
<1>2. agents' = [agents EXCEPT ![op] = settled]
  BY DEF ResolveUnchallenged
<1>3. /\ settled \in AgentProfile /\ settled.vrf_nonce = agents[op].vrf_nonce
      /\ settled.active_thoughts = SaturatingDec(agents[op].active_thoughts)
  BY <1>1, SettledType, SettledFields
<1> HIDE DEF op, settled
<1>4. CountsTo(op, 0, SaturatingDec(agents[op].active_thoughts))
  BY <1>1, <1>2, <1>3, SettleCounts
<1> QED
  BY <1>4 DEF op

(* A verdict counts one thought less, either way. *)
LEMMA VerdictCounts ==
  ASSUME TypeOK, NEW resolver \in Wallets, NEW c \in ChallengeIds, NEW verdict \in BOOLEAN,
         ResolveChallenged(resolver, c, verdict)
  PROVE  CountsTo(c[1][1], 0, SaturatingDec(agents[c[1][1]].active_thoughts))
<1> DEFINE op == c[1][1]
           settled == IF verdict THEN Slashed(agents[op]) ELSE Settled(agents[op], 2)
<1>1. op \in Operators /\ Exists(agents[op]) /\ agents[op] \in AgentProfile
  BY Names DEF ResolveChallenged, Exists, TypeOK
<1>2. agents' = [agents EXCEPT ![op] = settled]
  BY DEF ResolveChallenged, Slash, Acquit
<1>3. /\ settled \in AgentProfile /\ settled.vrf_nonce = agents[op].vrf_nonce
      /\ settled.active_thoughts = SaturatingDec(agents[op].active_thoughts)
  <2>1. CASE verdict
    <3>1. settled = Slashed(agents[op])
      BY <2>1
    <3> HIDE DEF settled, op
    <3> QED
      BY <1>1, <3>1, SlashedType, SlashedFields
  <2>2. CASE ~verdict
    <3>1. settled = Settled(agents[op], 2)
      BY <2>2
    <3> HIDE DEF settled, op
    <3> QED
      BY <1>1, <3>1, SettledType, SettledFields
  <2> QED
    BY <2>1, <2>2
<1> HIDE DEF op, settled
<1>4. CountsTo(op, 0, SaturatingDec(agents[op].active_thoughts))
  BY <1>1, <1>2, <1>3, SettleCounts
<1> QED
  BY <1>4 DEF op

(* Staking and withdrawing count nothing. *)
LEMMA StakeCounts ==
  ASSUME TypeOK, NEW op \in Operators, NEW amount \in Amounts,
         Stake(op, amount) \/ WithdrawStake(op, amount)
  PROVE  CountsTo(op, 0, agents[op].active_thoughts)
<1>1. Exists(agents[op]) /\ agents[op] \in AgentProfile
  BY DEF Stake, WithdrawStake, TypeOK, Exists
<1>2. PICK n \in Nat : agents' = [agents EXCEPT ![op].stake_amount = n]
  <2>1. amount \in Nat /\ agents[op].stake_amount \in Nat
    BY <1>1, ConstantsAssumption DEF AgentProfile
  <2>2. CASE Stake(op, amount)
    <3>1. agents' = [agents EXCEPT ![op].stake_amount = agents[op].stake_amount + amount]
      BY <2>2 DEF Stake
    <3>2. agents[op].stake_amount + amount \in Nat
      BY <2>1
    <3> QED
      BY <3>1, <3>2
  <2>3. CASE WithdrawStake(op, amount)
    <3>1. /\ agents' = [agents EXCEPT ![op].stake_amount = agents[op].stake_amount - amount]
          /\ amount <= agents[op].stake_amount
      BY <2>3 DEF WithdrawStake, MayWithdraw
    <3>2. agents[op].stake_amount - amount \in Nat
      BY <2>1, <3>1
    <3> QED
      BY <3>1, <3>2
  <2> QED
    BY <2>2, <2>3
<1>3. /\ agents'[op].vrf_nonce = agents[op].vrf_nonce + 0
      /\ agents'[op].active_thoughts = agents[op].active_thoughts
  BY <1>1, <1>2 DEF TypeOK, AgentProfile
<1>4. agents'[op] \in AgentProfile
  BY <1>1, <1>2 DEF TypeOK, AgentProfile
<1> QED
  BY <1>1, <1>3, <1>4, ConstantsAssumption DEF CountsTo, Exists

SameCounts(op) ==
  /\ Exists(agents'[op]) <=> Exists(agents[op])
  /\ Exists(agents[op]) => CountsTo(op, 0, agents[op].active_thoughts)

(* Every step leaves the counters of an agent or is one of these five.     *)
LEMMA AgentSteps ==
  ASSUME TypeOK, [Next]_vars, NEW op \in Operators
  PROVE  \/ SameCounts(op)
         \/ \E amount \in Amounts : RegisterAgent(op, amount)
         \/ \E t \in ThoughtIds, seed \in Seeds : op = t[1] /\ RequestVrf(t, seed)
         \/ \E t \in ThoughtIds, m \in Models, p \in PolicyIds, seed \in Seeds, action \in Actions :
              op = t[1] /\ SubmitThought(t, m, p, seed, action)
         \/ \E t \in ThoughtIds : op = t[1] /\ ResolveUnchallenged(t)
         \/ \E resolver \in Wallets, c \in ChallengeIds, verdict \in BOOLEAN :
              op = c[1][1] /\ ResolveChallenged(resolver, c, verdict)
<1>1. ASSUME agents'[op] = agents[op]
      PROVE  SameCounts(op)
  <2>1. Exists(agents[op]) => agents[op] \in AgentProfile
    BY DEF Exists, TypeOK
  <2> QED
    BY <1>1, <2>1 DEF SameCounts, CountsTo, AgentProfile
<1>2. ASSUME UNCHANGED agents
      PROVE  SameCounts(op)
  BY <1>1, <1>2
<1>3. ASSUME NEW other \in Operators, NEW amount \in Amounts, RegisterAgent(other, amount), other # op
      PROVE  SameCounts(op)
  BY <1>1, <1>3 DEF RegisterAgent, TypeOK
<1>4. ASSUME NEW other \in Operators, NEW amount \in Amounts,
             Stake(other, amount) \/ WithdrawStake(other, amount)
      PROVE  SameCounts(op)
  <2>1. CASE other = op
    BY <1>4, <2>1, StakeCounts DEF SameCounts, CountsTo
  <2>2. CASE other # op
    BY <1>1, <1>4, <2>2 DEF Stake, WithdrawStake, TypeOK
  <2> QED
    BY <2>1, <2>2
<1>5. ASSUME NEW t \in ThoughtIds, NEW seed \in Seeds, RequestVrf(t, seed), op # t[1]
      PROVE  SameCounts(op)
  BY <1>1, <1>5 DEF RequestVrf, TypeOK
<1>6. ASSUME NEW t \in ThoughtIds, NEW m \in Models, NEW p \in PolicyIds, NEW seed \in Seeds,
             NEW action \in Actions, SubmitThought(t, m, p, seed, action), op # t[1]
      PROVE  SameCounts(op)
  BY <1>1, <1>6 DEF SubmitThought, TypeOK
<1>7. ASSUME NEW t \in ThoughtIds, ResolveUnchallenged(t), op # t[1]
      PROVE  SameCounts(op)
  BY <1>1, <1>7 DEF ResolveUnchallenged, TypeOK
<1>8. ASSUME NEW resolver \in Wallets, NEW c \in ChallengeIds, NEW verdict \in BOOLEAN,
             ResolveChallenged(resolver, c, verdict), op # c[1][1]
      PROVE  SameCounts(op)
  BY <1>1, <1>8 DEF ResolveChallenged, Slash, Acquit, TypeOK
<1>9. ASSUME \/ UNCHANGED vars \/ Tick
             \/ \E signer \in Wallets, m \in Models : RegisterModel(signer, m)
             \/ \E p \in PolicyIds, args \in PolicyArgs : RegisterPolicy(p, args)
             \/ \E t \in ThoughtIds, ch \in Challengers, bond \in Amounts : OpenChallenge(t, ch, bond)
             \/ \E t \in ThoughtIds, action \in Actions : ConsumeThought(t, action)
      PROVE  UNCHANGED agents
  BY <1>9 DEF vars, Tick, RegisterModel, RegisterPolicy, OpenChallenge, ConsumeThought
<1> QED
  BY <1>2, <1>3, <1>4, <1>5, <1>6, <1>7, <1>8, <1>9 DEF Next

----------------------------------------------------------------------------
(* active_thoughts. *)

Exact(op) ==
  IF Exists(agents[op])
  THEN agents[op].active_thoughts = Cardinality(ActiveNonces(op))
  ELSE ActiveNonces(op) = {}

(* Sets of nonces are finite. *)
LEMMA FiniteNonces ==
  ASSUME NEW S, S \subseteq Nonces
  PROVE  IsFiniteSet(S) /\ Cardinality(S) \in Nat
<1>1. 0 \in Int /\ MaxNonces - 1 \in Int
  BY ConstantsAssumption
<1>2. IsFiniteSet(Nonces)
  BY <1>1, FS_Interval DEF Nonces
<1>3. IsFiniteSet(S)
  BY <1>2, FS_Subset
<1> QED
  BY <1>3, FS_CardinalityType

(* Where no thought of the agent starts or ends, the count stays exact. *)
LEMMA ExactFrame ==
  ASSUME TypeOK, NEW op \in Operators, Exact(op),
         SameCounts(op) \/ \E k \in Nat : CountsTo(op, k, agents[op].active_thoughts),
         \A n \in Nonces : Active(<<op, n>>)' <=> Active(<<op, n>>)
  PROVE  Exact(op)'
<1>1. ActiveNonces(op)' = ActiveNonces(op)
  BY DEF ActiveNonces
<1> QED
  BY <1>1 DEF SameCounts, CountsTo, Exact

(* A thought becomes active as active_thoughts is incremented. *)
LEMMA ExactGains ==
  ASSUME TypeOK, NEW op \in Operators, NEW n \in Nonces,
         CountsTo(op, 0, agents[op].active_thoughts + 1), Exact(op),
         ~Active(<<op, n>>), Active(<<op, n>>)',
         \A k \in Nonces \ {n} : Active(<<op, k>>)' <=> Active(<<op, k>>)
  PROVE  Exact(op)'
<1>1. ActiveNonces(op)' = ActiveNonces(op) \cup {n} /\ n \notin ActiveNonces(op)
  BY DEF ActiveNonces
<1>2. IsFiniteSet(ActiveNonces(op))
  BY FiniteNonces DEF ActiveNonces
<1>3. Cardinality(ActiveNonces(op) \cup {n}) = Cardinality(ActiveNonces(op)) + 1
  BY <1>1, <1>2, FS_AddElement
<1> QED
  BY <1>1, <1>3 DEF CountsTo, Exact

(* An active thought is decided as active_thoughts is decremented, which   *)
(* therefore does not saturate.                                            *)
LEMMA ExactLoses ==
  ASSUME TypeOK, NEW op \in Operators, NEW n \in Nonces,
         CountsTo(op, 0, SaturatingDec(agents[op].active_thoughts)), Exact(op),
         Active(<<op, n>>), ~Active(<<op, n>>)',
         \A k \in Nonces \ {n} : Active(<<op, k>>)' <=> Active(<<op, k>>)
  PROVE  Exact(op)'
<1>1. ActiveNonces(op)' = ActiveNonces(op) \ {n} /\ n \in ActiveNonces(op)
  BY DEF ActiveNonces
<1>2. IsFiniteSet(ActiveNonces(op)) /\ Cardinality(ActiveNonces(op)) \in Nat
  BY FiniteNonces DEF ActiveNonces
<1>3. Cardinality(ActiveNonces(op) \ {n}) = Cardinality(ActiveNonces(op)) - 1
  BY <1>1, <1>2, FS_RemoveElement
<1>4. Cardinality(ActiveNonces(op) \ {n}) \in Nat
  BY <1>2, FS_RemoveElement, FS_CardinalityType
<1>5. Exists(agents[op]) /\ agents[op].active_thoughts = Cardinality(ActiveNonces(op))
  BY DEF CountsTo, Exact
<1>6. SaturatingDec(agents[op].active_thoughts) = Cardinality(ActiveNonces(op)) - 1
  BY <1>2, <1>3, <1>4, <1>5 DEF SaturatingDec
<1> QED
  BY <1>1, <1>3, <1>6 DEF CountsTo, Exact

(* A thought keeps its status or is the one committed, disputed or decided. *)
LEMMA ActiveSteps ==
  ASSUME TypeOK, [Next]_vars, NEW t \in ThoughtIds
  PROVE  \/ Active(t)' <=> Active(t)
         \/ \E m \in Models, p \in PolicyIds, seed \in Seeds, action \in Actions :
              SubmitThought(t, m, p, seed, action)
         \/ ResolveUnchallenged(t)
         \/ \E resolver \in Wallets, c \in ChallengeIds, verdict \in BOOLEAN :
              t = c[1] /\ ResolveChallenged(resolver, c, verdict)
<1>1. ASSUME StatusOf(t)' = StatusOf(t)
      PROVE  Active(t)' <=> Active(t)
  BY <1>1 DEF Active
<1>2. ASSUME thoughts'[t] = thoughts[t]
      PROVE  Active(t)' <=> Active(t)
  BY <1>1, <1>2 DEF StatusOf
<1>3. ASSUME NEW u \in ThoughtIds, NEW m \in Models, NEW p \in PolicyIds, NEW seed \in Seeds,
             NEW action \in Actions, SubmitThought(u, m, p, seed, action), u # t
      PROVE  thoughts'[t] = thoughts[t]
  BY <1>3 DEF SubmitThought, TypeOK
<1>4. ASSUME NEW u \in ThoughtIds, NEW ch \in Challengers, NEW bond \in Amounts,
             OpenChallenge(u, ch, bond)
      PROVE  Active(t)' <=> Active(t)
  <2>1. /\ thoughts' = [thoughts EXCEPT ![u].status = "Challenged"]
        /\ Exists(thoughts[u]) /\ StatusOf(u) = "Pending"
    BY <1>4 DEF OpenChallenge, Disputable, StatusOf
  <2>2. CASE u = t
    BY <2>1, <2>2, SetStatus DEF Status, Active
  <2>3. CASE u # t
    BY <1>2, <2>1, <2>3 DEF TypeOK
  <2> QED
    BY <2>2, <2>3
<1>5. ASSUME NEW u \in ThoughtIds, ResolveUnchallenged(u), u # t
      PROVE  thoughts'[t] = thoughts[t]
  BY <1>5 DEF ResolveUnchallenged, TypeOK
<1>6. ASSUME NEW resolver \in Wallets, NEW c \in ChallengeIds, NEW verdict \in BOOLEAN,
             ResolveChallenged(resolver, c, verdict), c[1] # t
      PROVE  thoughts'[t] = thoughts[t]
  BY <1>6, VerdictEffect DEF TypeOK
<1>7. ASSUME NEW u \in ThoughtIds, NEW action \in Actions, ConsumeThought(u, action)
      PROVE  Active(t)' <=> Active(t)
  BY <1>1, <1>7, ConsumedStatus
<1> QED
  BY <1>2, <1>3, <1>4, <1>5, <1>6, <1>7, LifecycleSteps

(* Every step keeps the count exact. *)
LEMMA ExactNext ==
  ASSUME TypeOK, [Next]_vars, NEW op \in Operators, Exact(op)
  PROVE  Exact(op)'
<1>1. ASSUME NEW t \in ThoughtIds, op = t[1], NEW m \in Models, NEW p \in PolicyIds,
             NEW seed \in Seeds, NEW action \in Actions, SubmitThought(t, m, p, seed, action)
      PROVE  Exact(op)'
  <2>1. t[2] \in Nonces /\ t = <<op, t[2]>>
    BY <1>1 DEF ThoughtIds
  <2>2. ~Active(t)
    BY <1>1 DEF SubmitThought, Active, StatusOf
  <2>3. Active(t)'
    <3>1. thoughts'[t] = NewThought(m, p, seed, action)
      BY <1>1 DEF SubmitThought, TypeOK
    <3>2. NewThought(m, p, seed, action) \in ThoughtRecord
      BY <1>1, NewAccounts DEF SubmitThought
    <3>3. thoughts'[t].status = "Pending"
      BY <3>1 DEF NewThought
    <3>4. Exists(thoughts'[t])
      BY <3>1, <3>2, ConstantsAssumption DEF Exists
    <3> QED
      BY <3>3, <3>4 DEF Active, StatusOf
  <2>4. ASSUME NEW k \in Nonces \ {t[2]}
        PROVE  Active(<<op, k>>)' <=> Active(<<op, k>>)
    <3>1. <<op, k>> \in ThoughtIds /\ <<op, k>> # t
      BY <2>1 DEF ThoughtIds
    <3> QED
      BY <1>1, <3>1 DEF SubmitThought, TypeOK, Active, StatusOf
  <2>5. CountsTo(op, 0, agents[op].active_thoughts + 1)
    BY <1>1, SubmitCounts
  <2> QED
    BY <2>1, <2>2, <2>3, <2>4, <2>5, ExactGains
<1>2. ASSUME NEW t \in ThoughtIds, op = t[1], NEW status \in {"Finalized", "Slashed"},
             thoughts' = [thoughts EXCEPT ![t].status = status], Exists(thoughts[t]),
             Active(t), CountsTo(op, 0, SaturatingDec(agents[op].active_thoughts))
      PROVE  Exact(op)'
  <2>1. t[2] \in Nonces /\ t = <<op, t[2]>>
    BY <1>2 DEF ThoughtIds
  <2>2. /\ ~Active(t)'
        /\ \A u \in ThoughtIds \ {t} : thoughts'[u] = thoughts[u]
    BY <1>2, SetStatus DEF Status, Active
  <2>3. ASSUME NEW k \in Nonces \ {t[2]}
        PROVE  Active(<<op, k>>)' <=> Active(<<op, k>>)
    <3>1. <<op, k>> \in ThoughtIds \ {t}
      BY <2>1 DEF ThoughtIds
    <3> QED
      BY <2>2, <3>1 DEF Active, StatusOf
  <2> QED
    BY <1>2, <2>1, <2>2, <2>3, ExactLoses
<1>3. ASSUME NEW t \in ThoughtIds, op = t[1], ResolveUnchallenged(t)
      PROVE  Exact(op)'
  <2>1. /\ thoughts' = [thoughts EXCEPT ![t].status = "Finalized"]
        /\ Exists(thoughts[t]) /\ Active(t)
    BY <1>3 DEF ResolveUnchallenged, Active, StatusOf
  <2> QED
    BY <1>2, <1>3, <2>1, ResolveCounts
<1>4. ASSUME NEW resolver \in Wallets, NEW c \in ChallengeIds, NEW verdict \in BOOLEAN,
             op = c[1][1], ResolveChallenged(resolver, c, verdict)
      PROVE  Exact(op)'
  <2> DEFINE t == c[1]
  <2>1. /\ t \in ThoughtIds /\ Exists(thoughts[t]) /\ StatusOf(t) = "Challenged"
        /\ thoughts' = [thoughts EXCEPT ![t].status = IF verdict THEN "Slashed" ELSE "Finalized"]
    <3>1. t \in ThoughtIds
      BY Names
    <3>2. ResolveChallenged(resolver, c, verdict)
      BY <1>4
    <3> QED
      BY <3>1, <3>2, VerdictEffect
  <2>2. CountsTo(op, 0, SaturatingDec(agents[op].active_thoughts))
    BY <1>4, VerdictCounts
  <2>3. op = t[1] /\ Active(t)
    BY <1>4, <2>1 DEF Active
  <2> HIDE DEF t
  <2> QED
    BY <1>2, <2>1, <2>2, <2>3
<1>5. ASSUME \A n \in Nonces : Active(<<op, n>>)' <=> Active(<<op, n>>)
      PROVE  \/ Exact(op)'
             \/ ~SameCounts(op) /\ ~\E k \in Nat : CountsTo(op, k, agents[op].active_thoughts)
  BY <1>5, ExactFrame
<1>6. ASSUME NEW amount \in Amounts, RegisterAgent(op, amount)
      PROVE  Exact(op)'
  <2>1. ActiveNonces(op) = {}
    BY <1>6 DEF RegisterAgent, Exact
  <2>2. ActiveNonces(op)' = ActiveNonces(op)
    BY <1>6 DEF RegisterAgent, ActiveNonces, Active, StatusOf
  <2>3. agents'[op] = NewAgent(amount) /\ agents'[op].active_thoughts = 0
    BY <1>6 DEF RegisterAgent, TypeOK, NewAgent
  <2>4. Exists(agents'[op])
    <3>1. amount \in Nat
      BY ConstantsAssumption
    <3> QED
      BY <2>3, <3>1, NewAccounts, ConstantsAssumption DEF Exists
  <2> QED
    BY <2>1, <2>2, <2>3, <2>4, FS_EmptySet DEF Exact
<1>7. ASSUME NEW t \in ThoughtIds, op = t[1], NEW seed \in Seeds, RequestVrf(t, seed)
      PROVE  Exact(op)'
  <2>1. \A n \in Nonces : Active(<<op, n>>)' <=> Active(<<op, n>>)
    BY <1>7 DEF RequestVrf, Active, StatusOf
  <2> QED
    BY <1>5, <1>7, <2>1, RequestCounts
<1>8. CASE \A n \in Nonces : Active(<<op, n>>)' <=> Active(<<op, n>>)
  BY <1>1, <1>3, <1>4, <1>5, <1>6, <1>7, <1>8, AgentSteps
<1>9. CASE \E n \in Nonces : ~(Active(<<op, n>>)' <=> Active(<<op, n>>))
  <2>1. PICK n \in Nonces : ~(Active(<<op, n>>)' <=> Active(<<op, n>>))
    BY <1>9
  <2> DEFINE t == <<op, n>>
  <2>2. t \in ThoughtIds /\ op = t[1] /\ ~(Active(t)' <=> Active(t))
    BY <2>1 DEF ThoughtIds
  <2> HIDE DEF t
  <2> QED
    BY <1>1, <1>3, <1>4, <2>2, ActiveSteps
<1> QED
  BY <1>8, <1>9

(***************************************************************************)
(* active_thoughts is exactly the number of the agent's Pending and        *)
(* Challenged thoughts, for any number of agents, thoughts and challengers *)
(* and through every order of commits, disputes and resolutions, so that   *)
(* the saturating decrement never saturates and withdraw_stake's guard     *)
(* means what it says.                                                     *)
(***************************************************************************)
THEOREM ActiveThoughtsCounted == Spec => []ActiveThoughtsExact
<1> DEFINE Inv == \A op \in Operators : Exact(op)
<1>1. Init => Inv
  <2> SUFFICES ASSUME Init, NEW op \in Operators PROVE Exact(op)
    OBVIOUS
  <2>1. ~Exists(agents[op])
    BY DEF Init, Exists
  <2>2. \A n \in Nonces : ~Active(<<op, n>>)
    BY DEF Init, Exists, Active, StatusOf, ThoughtIds
  <2> QED
    BY <2>1, <2>2 DEF Exact, ActiveNonces
<1>2. TypeOK /\ Inv /\ [Next]_vars => Inv'
  BY ExactNext
<1>3. Inv => ActiveThoughtsExact
  BY DEF Exact, ActiveThoughtsExact
<1> QED
  BY <1>1, <1>2, <1>3, TypeCorrect, PTL DEF Spec

----------------------------------------------------------------------------
(* Seeds. *)

Issued(t) == Exists(vrfs[t]) <=> Exists(agents[t[1]]) /\ t[2] < agents[t[1]].vrf_nonce
Spent(t) == Exists(thoughts[t]) <=> Exists(vrfs[t]) /\ vrfs[t].consumed
Timely(t) == Exists(thoughts[t]) =>
  /\ thoughts[t].vrf_seed = vrfs[t].seed
  /\ thoughts[t].slot - vrfs[t].request_slot \in 0 .. PolicyOf(t).max_inference_slots

(* The strengthening: no request is of the future, and the policy a thought *)
(* names exists, hence is never rewritten.                                 *)
Requested(t) == Exists(vrfs[t]) => vrfs[t].request_slot <= slot
Governed(t) == Exists(thoughts[t]) => Exists(PolicyOf(t))

(* A thought keeps the request its seed came from. *)
LEMMA IssuedNext ==
  ASSUME TypeOK, [Next]_vars, NEW t \in ThoughtIds, Issued(t)
  PROVE  Issued(t)'
<1> DEFINE op == t[1]
           n == t[2]
<1>1. op \in Operators /\ n \in Nat /\ (Exists(agents[op]) => agents[op].vrf_nonce \in Nat)
  BY Names DEF TypeOK, Exists, AgentProfile, Nonces
<1>2. ASSUME NEW amount \in Amounts, RegisterAgent(op, amount)
      PROVE  Issued(t)'
  <2>1. ~Exists(vrfs'[t])
    BY <1>2 DEF RegisterAgent, Issued
  <2>2. agents'[op].vrf_nonce = 0
    BY <1>1, <1>2 DEF RegisterAgent, TypeOK, NewAgent
  <2> QED
    BY <1>1, <2>1, <2>2 DEF Issued
<1>3. ASSUME NEW u \in ThoughtIds, NEW seed \in Seeds, op = u[1], RequestVrf(u, seed)
      PROVE  Issued(t)'
  <2>1. CountsTo(op, 1, agents[op].active_thoughts)
    BY <1>3, RequestCounts
  <2>2. u[2] = agents[op].vrf_nonce
    BY <1>3 DEF RequestVrf
  <2>3. CASE u = t
    BY <1>1, <1>3, <2>1, <2>2, <2>3, RequestEffect DEF Issued, CountsTo
  <2>4. CASE u # t
    <3>1. u[2] # n
      BY <1>3, <2>4 DEF ThoughtIds
    <3>2. vrfs'[t] = vrfs[t]
      BY <1>3, <2>4 DEF RequestVrf, TypeOK
    <3> QED
      BY <1>1, <2>1, <2>2, <3>1, <3>2 DEF Issued, CountsTo
  <2> QED
    BY <2>3, <2>4
<1>4. ASSUME Exists(vrfs'[t]) <=> Exists(vrfs[t]), NEW k, CountsTo(op, 0, k)
      PROVE  Issued(t)'
  BY <1>1, <1>4 DEF Issued, CountsTo
<1>5. CASE \E seed \in Seeds : RequestVrf(t, seed)
  BY <1>3, <1>5
<1>6. CASE ~\E seed \in Seeds : RequestVrf(t, seed)
  <2>1. Exists(vrfs'[t]) <=> Exists(vrfs[t])
    BY <1>6, VrfSteps, SubmitEffect DEF Exists
  <2>2. CASE SameCounts(op)
    <3>1. CASE Exists(agents[op])
      BY <1>4, <2>1, <2>2, <3>1 DEF SameCounts
    <3>2. CASE ~Exists(agents[op])
      BY <2>1, <2>2, <3>2 DEF SameCounts, Issued
    <3> QED
      BY <3>1, <3>2
  <2>3. ASSUME NEW u \in ThoughtIds, NEW m \in Models, NEW p \in PolicyIds, NEW seed \in Seeds,
               NEW action \in Actions, op = u[1], SubmitThought(u, m, p, seed, action)
        PROVE  Issued(t)'
    BY <1>4, <2>1, <2>3, SubmitCounts
  <2>4. ASSUME NEW u \in ThoughtIds, op = u[1], ResolveUnchallenged(u)
        PROVE  Issued(t)'
    BY <1>4, <2>1, <2>4, ResolveCounts
  <2>5. ASSUME NEW resolver \in Wallets, NEW c \in ChallengeIds, NEW verdict \in BOOLEAN,
               op = c[1][1], ResolveChallenged(resolver, c, verdict)
        PROVE  Issued(t)'
    BY <1>4, <2>1, <2>5, VerdictCounts
  <2> HIDE DEF op, n
  <2> QED
    BY <1>1, <1>2, <1>3, <2>2, <2>3, <2>4, <2>5, AgentSteps
<1> QED
  BY <1>5, <1>6

(* Every step keeps the facts about spent seeds. *)
LEMMA SeedNext ==
  ASSUME TypeOK, [Next]_vars, NEW t \in ThoughtIds,
         Spent(t), Timely(t), Requested(t), Governed(t)
  PROVE  Spent(t)' /\ Timely(t)' /\ Requested(t)' /\ Governed(t)'
<1>1. Exists(vrfs[t]) => vrfs[t] \in VrfRequest /\ vrfs[t].request_slot \in Nat
  BY DEF TypeOK, Exists, VrfRequest
<1>2. ASSUME NEW seed \in Seeds, RequestVrf(t, seed)
      PROVE  Spent(t)' /\ Timely(t)' /\ Requested(t)' /\ Governed(t)'
  <2>1. ~Exists(thoughts'[t])
    BY <1>2, RequestEffect DEF Spent
  <2> QED
    BY <1>2, <2>1, Clock, RequestEffect DEF Spent, Timely, Requested, Governed
<1>3. ASSUME NEW m \in Models, NEW p \in PolicyIds, NEW seed \in Seeds, NEW action \in Actions,
             SubmitThought(t, m, p, seed, action)
      PROVE  Spent(t)' /\ Timely(t)' /\ Requested(t)' /\ Governed(t)'
  <2>1. Spent(t)'
    BY <1>3, SubmitEffect DEF Spent
  <2>2. Requested(t)'
    BY <1>3, SubmitEffect DEF Requested
  <2>3. /\ thoughts'[t].policy_id = p /\ thoughts'[t].vrf_seed = seed /\ thoughts'[t].slot = slot
        /\ Exists(policies'[p]) /\ policies'[p] = policies[p]
    <3>1. /\ thoughts'[t] = NewThought(m, p, seed, action)
          /\ Exists(policies[p]) /\ policies' = policies
      BY <1>3, SubmitEffect
    <3> QED
      BY <3>1 DEF NewThought
  <2>4. Governed(t)'
    BY <2>3 DEF Governed, PolicyOf
  <2>5. policies[p].max_inference_slots \in Nat
    BY <1>3, SubmitEffect DEF TypeOK, Exists, Policy
  <2>6. slot - vrfs[t].request_slot \in 0 .. policies[p].max_inference_slots
    BY <1>1, <1>3, <2>5, SubmitEffect, Clock DEF Requested
  <2>7. Timely(t)'
    BY <1>3, <2>3, <2>6, SubmitEffect DEF Timely, PolicyOf
  <2> QED
    BY <2>1, <2>2, <2>4, <2>7
<1>4. ASSUME vrfs'[t] = vrfs[t],
             ~\E m \in Models, p \in PolicyIds, seed \in Seeds, action \in Actions :
                 SubmitThought(t, m, p, seed, action)
      PROVE  Spent(t)' /\ Timely(t)' /\ Requested(t)' /\ Governed(t)'
  <2>1. Exists(thoughts'[t]) <=> Exists(thoughts[t])
    BY <1>4, ThoughtKept, ThoughtMade
  <2>2. Spent(t)'
    BY <1>4, <2>1 DEF Spent
  <2>3. Requested(t)'
    BY <1>1, <1>4, Clock DEF Requested
  <2>4. ASSUME Exists(thoughts[t])
        PROVE  SameThought(t) /\ PolicyOf(t)' = PolicyOf(t) /\ Exists(PolicyOf(t))
    <3>1. thoughts[t].policy_id \in PolicyIds
      BY <2>4 DEF TypeOK, Exists, ThoughtRecord
    <3> QED
      BY <2>4, <3>1, ThoughtKept, PolicyKept DEF SameThought, PolicyOf, Governed
  <2>5. Timely(t)' /\ Governed(t)'
    BY <1>4, <2>1, <2>4 DEF Timely, Governed, SameThought
  <2> QED
    BY <2>2, <2>3, <2>5
<1> QED
  BY <1>2, <1>3, <1>4, VrfSteps

SeedInv == \A t \in ThoughtIds : Issued(t) /\ Spent(t) /\ Timely(t) /\ Requested(t) /\ Governed(t)

(* The facts about seeds hold always. *)
LEMMA SeedsInvariant == Spec => []SeedInv
<1>1. Init => SeedInv
  <2> SUFFICES ASSUME Init, NEW t \in ThoughtIds
               PROVE  Issued(t) /\ Spent(t) /\ Timely(t) /\ Requested(t) /\ Governed(t)
    BY DEF SeedInv
  <2>1. ~Exists(vrfs[t]) /\ ~Exists(thoughts[t]) /\ ~Exists(agents[t[1]])
    BY Names DEF Init, Exists
  <2> QED
    BY <2>1 DEF Issued, Spent, Timely, Requested, Governed
<1>2. TypeOK /\ SeedInv /\ [Next]_vars => SeedInv'
  BY IssuedNext, SeedNext DEF SeedInv
<1> QED
  BY <1>1, <1>2, TypeCorrect, PTL DEF Spec

(***************************************************************************)
(* A VRF seed is spent by exactly one thought, the one of its own nonce,   *)
(* and no later than the policy's max_inference_slots after it was issued; *)
(* the agent's counter is ahead of exactly the nonces it issued.           *)
(***************************************************************************)
THEOREM SeedsAreSpentOnce == Spec => []SeedsSpentOnce
<1>1. SeedInv => SeedsSpentOnce
  BY DEF SeedInv, Issued, Spent, Timely, SeedsSpentOnce
<1> QED
  BY <1>1, SeedsInvariant, PTL
=============================================================================
