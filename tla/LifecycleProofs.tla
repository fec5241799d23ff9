-------------------------- MODULE LifecycleProofs --------------------------
(***************************************************************************)
(* What TLAPS proves of the life of a thought in PotProgram: who may       *)
(* decide it, that a decision is final, what consume_thought relies on,    *)
(* and that each instruction is one step of one thought's lifecycle.       *)
(***************************************************************************)
EXTENDS PotProgramProofs

----------------------------------------------------------------------------
(* What each instruction does to the thoughts and the challenges. *)

(* No other instruction writes a thought or a challenge. *)
LEMMA LifecycleSteps ==
  ASSUME [Next]_vars
  PROVE  \/ UNCHANGED <<thoughts, challenges>>
         \/ \E t \in ThoughtIds, m \in Models, p \in PolicyIds, seed \in Seeds, action \in Actions :
              SubmitThought(t, m, p, seed, action)
         \/ \E t \in ThoughtIds, ch \in Challengers, bond \in Amounts : OpenChallenge(t, ch, bond)
         \/ \E t \in ThoughtIds : ResolveUnchallenged(t)
         \/ \E resolver \in Wallets, c \in ChallengeIds, verdict \in BOOLEAN :
              ResolveChallenged(resolver, c, verdict)
         \/ \E t \in ThoughtIds, action \in Actions : ConsumeThought(t, action)
  BY Frames DEF Next, vars

(* Setting the status of a thought: that thought exists and has it, the    *)
(* others are as they were.                                                *)
LEMMA SetStatus ==
  ASSUME TypeOK, NEW t \in ThoughtIds, Exists(thoughts[t]), NEW status \in Status,
         thoughts' = [thoughts EXCEPT ![t].status = status]
  PROVE  /\ StatusOf(t)' = status
         /\ thoughts'[t].attestation_verified = thoughts[t].attestation_verified
         /\ thoughts'[t].consumed_count = thoughts[t].consumed_count
         /\ \A u \in ThoughtIds \ {t} : thoughts'[u] = thoughts[u]
<1>1. thoughts[t] \in ThoughtRecord /\ thoughts \in [ThoughtIds -> ThoughtRecord \cup {NoAccount}]
  BY DEF TypeOK, Exists
<1>2. thoughts'[t] \in ThoughtRecord
  BY <1>1 DEF ThoughtRecord
<1>3. Exists(thoughts'[t])
  BY <1>2, ConstantsAssumption DEF Exists
<1>4. thoughts'[t].status = status
  BY <1>1 DEF ThoughtRecord
<1>5. /\ thoughts'[t].attestation_verified = thoughts[t].attestation_verified
      /\ thoughts'[t].consumed_count = thoughts[t].consumed_count
  BY <1>1 DEF ThoughtRecord
<1>6. \A u \in ThoughtIds \ {t} : thoughts'[u] = thoughts[u]
  BY <1>1
<1>7. StatusOf(t)' = status
  BY <1>3, <1>4 DEF StatusOf
<1> QED
  BY <1>5, <1>6, <1>7

(* A verdict slashes or finalizes the thought and resolves the challenge. *)
LEMMA VerdictEffect ==
  ASSUME TypeOK, NEW resolver \in Wallets, NEW c \in ChallengeIds, NEW verdict \in BOOLEAN,
         NEW t, t = c[1], ResolveChallenged(resolver, c, verdict)
  PROVE  /\ Exists(thoughts[t]) /\ StatusOf(t) = "Challenged" /\ Open(c)
         /\ thoughts' = [thoughts EXCEPT ![t].status = IF verdict THEN "Slashed" ELSE "Finalized"]
         /\ Ruled(c, verdict)'
         /\ \A d \in ChallengeIds \ {c} : challenges'[d] = challenges[d]
<1>1. Exists(thoughts[t]) /\ StatusOf(t) = "Challenged" /\ Open(c)
  BY DEF ResolveChallenged, Rulable, StatusOf, Open
<1>2. thoughts' = [thoughts EXCEPT ![t].status = IF verdict THEN "Slashed" ELSE "Finalized"]
  BY DEF ResolveChallenged, Slash, Acquit
<1>3. challenges[c] \in Challenge
  BY <1>1 DEF TypeOK, Open, Exists
<1>4. challenges' = [challenges EXCEPT ![c].resolved = TRUE, ![c].verdict = verdict]
  BY DEF ResolveChallenged
<1>5. challenges'[c] \in Challenge /\ challenges'[c].resolved /\ challenges'[c].verdict = verdict
  BY <1>3, <1>4 DEF TypeOK, Challenge
<1>6. Ruled(c, verdict)'
  BY <1>5, ConstantsAssumption DEF Ruled, Exists
<1>7. \A d \in ChallengeIds \ {c} : challenges'[d] = challenges[d]
  BY <1>4 DEF TypeOK
<1> QED
  BY <1>1, <1>2, <1>6, <1>7

(* The clock never runs back. *)
LEMMA Clock == TypeOK /\ [Next]_vars => slot \in Nat /\ slot' \in Nat /\ slot' >= slot
<1> SUFFICES ASSUME TypeOK, [Next]_vars PROVE slot \in Nat /\ slot' \in Nat /\ slot' >= slot
  OBVIOUS
<1>1. slot \in Nat
  BY ConstantsAssumption DEF TypeOK
<1>2. CASE slot' = slot
  BY <1>1, <1>2
<1>3. CASE Tick
  BY <1>1, <1>3 DEF Tick
<1> QED
  BY <1>2, <1>3, Frames DEF Next, vars

(* A seed is written by request_vrf and spent by submit_thought alone. *)
LEMMA VrfSteps ==
  ASSUME TypeOK, [Next]_vars, NEW t \in ThoughtIds
  PROVE  \/ vrfs'[t] = vrfs[t]
         \/ \E seed \in Seeds : RequestVrf(t, seed)
         \/ \E m \in Models, p \in PolicyIds, seed \in Seeds, action \in Actions :
              SubmitThought(t, m, p, seed, action)
<1>1. ASSUME NEW u \in ThoughtIds, NEW seed \in Seeds, RequestVrf(u, seed), u # t
      PROVE  vrfs'[t] = vrfs[t]
  BY <1>1 DEF RequestVrf, TypeOK
<1>2. ASSUME NEW u \in ThoughtIds, NEW m \in Models, NEW p \in PolicyIds, NEW seed \in Seeds,
             NEW action \in Actions, SubmitThought(u, m, p, seed, action), u # t
      PROVE  vrfs'[t] = vrfs[t]
  BY <1>2 DEF SubmitThought, TypeOK
<1>3. ASSUME \/ UNCHANGED vars \/ Tick
             \/ \E op \in Operators, amount \in Amounts :
                  RegisterAgent(op, amount) \/ Stake(op, amount) \/ WithdrawStake(op, amount)
             \/ \E signer \in Wallets, m \in Models : RegisterModel(signer, m)
             \/ \E p \in PolicyIds, args \in PolicyArgs : RegisterPolicy(p, args)
             \/ \E u \in ThoughtIds, ch \in Challengers, bond \in Amounts : OpenChallenge(u, ch, bond)
             \/ \E u \in ThoughtIds : ResolveUnchallenged(u)
             \/ \E resolver \in Wallets, c \in ChallengeIds, verdict \in BOOLEAN :
                  ResolveChallenged(resolver, c, verdict)
             \/ \E u \in ThoughtIds, action \in Actions : ConsumeThought(u, action)
      PROVE  UNCHANGED vrfs
  BY <1>3, Frames DEF vars
<1> QED
  BY <1>1, <1>2, <1>3 DEF Next

(* A published policy is never rewritten. *)
LEMMA PolicyKept ==
  ASSUME TypeOK, [Next]_vars, NEW p \in PolicyIds, Exists(policies[p])
  PROVE  policies'[p] = policies[p]
<1>1. ASSUME NEW q \in PolicyIds, NEW args \in PolicyArgs, RegisterPolicy(q, args)
      PROVE  policies'[p] = policies[p]
  BY <1>1 DEF RegisterPolicy, TypeOK
<1>2. CASE UNCHANGED policies
  BY <1>2
<1> QED
  BY <1>1, <1>2, Frames DEF Next, vars

(* What requesting a seed and spending it do to the request.               *)
LEMMA RequestEffect ==
  ASSUME TypeOK, NEW t \in ThoughtIds, NEW seed \in Seeds, RequestVrf(t, seed)
  PROVE  /\ ~Exists(vrfs[t]) /\ Exists(vrfs'[t])
         /\ ~vrfs'[t].consumed /\ vrfs'[t].request_slot = slot
         /\ UNCHANGED <<slot, thoughts>>
<1>1. slot \in Nat
  BY ConstantsAssumption DEF TypeOK
<1>2. vrfs'[t] = [seed |-> seed, request_slot |-> slot, consumed |-> FALSE]
  BY DEF RequestVrf, TypeOK
<1>3. vrfs'[t] \in VrfRequest
  BY <1>1, <1>2 DEF VrfRequest
<1>4. ~vrfs'[t].consumed /\ vrfs'[t].request_slot = slot
  BY <1>2
<1>5. ~Exists(vrfs[t]) /\ UNCHANGED <<slot, thoughts>>
  BY DEF RequestVrf
<1> QED
  BY <1>3, <1>4, <1>5, ConstantsAssumption DEF Exists

(* What submit_thought checks of the seed, and what it writes. *)
LEMMA SubmitEffect ==
  ASSUME TypeOK, NEW t \in ThoughtIds, NEW m \in Models, NEW p \in PolicyIds, NEW seed \in Seeds,
         NEW action \in Actions, SubmitThought(t, m, p, seed, action)
  PROVE  /\ Exists(vrfs[t]) /\ ~Exists(thoughts[t]) /\ Exists(policies[p])
         /\ vrfs[t].seed = seed /\ slot - vrfs[t].request_slot <= policies[p].max_inference_slots
         /\ Exists(vrfs'[t]) /\ vrfs'[t].consumed
         /\ vrfs'[t].seed = vrfs[t].seed /\ vrfs'[t].request_slot = vrfs[t].request_slot
         /\ Exists(thoughts'[t]) /\ thoughts'[t] = NewThought(m, p, seed, action)
         /\ UNCHANGED <<slot, policies>>
<1>1. /\ Exists(vrfs[t]) /\ ~Exists(thoughts[t]) /\ Exists(policies[p])
      /\ vrfs[t].seed = seed /\ slot - vrfs[t].request_slot <= policies[p].max_inference_slots
      /\ UNCHANGED <<slot, policies>>
      /\ thoughts'[t] = NewThought(m, p, seed, action)
  BY DEF SubmitThought, SeedUsable, TypeOK
<1>2. vrfs[t] \in VrfRequest /\ vrfs' = [vrfs EXCEPT ![t].consumed = TRUE]
  BY <1>1 DEF SubmitThought, TypeOK, Exists
<1>3. /\ vrfs'[t] \in VrfRequest /\ vrfs'[t].consumed
      /\ vrfs'[t].seed = vrfs[t].seed /\ vrfs'[t].request_slot = vrfs[t].request_slot
  BY <1>2 DEF TypeOK, VrfRequest
<1>4. thoughts'[t] \in ThoughtRecord
  BY <1>1, NewAccounts
<1> QED
  BY <1>1, <1>3, <1>4, ConstantsAssumption DEF Exists

----------------------------------------------------------------------------
(* What a step does to one thought. *)

SameThought(t) ==
  /\ Exists(thoughts[t])
  /\ thoughts'[t].slot = thoughts[t].slot
  /\ thoughts'[t].vrf_seed = thoughts[t].vrf_seed
  /\ thoughts'[t].policy_id = thoughts[t].policy_id
  /\ thoughts'[t].challenge_deadline_slot = thoughts[t].challenge_deadline_slot

(* Setting a status or a count leaves the rest of the record.              *)
LEMMA FieldSet ==
  ASSUME TypeOK, NEW t \in ThoughtIds, NEW u \in ThoughtIds, Exists(thoughts[t]),
         Exists(thoughts[u]),
         \/ \E status \in Status : thoughts' = [thoughts EXCEPT ![u].status = status]
         \/ thoughts' = [thoughts EXCEPT ![u].consumed_count = @ + 1]
  PROVE  SameThought(t) /\ Exists(thoughts'[t])
<1>1. thoughts \in [ThoughtIds -> ThoughtRecord \cup {NoAccount}] /\ thoughts[t] \in ThoughtRecord
  BY DEF TypeOK, Exists
<1>2. CASE u # t
  BY <1>1, <1>2 DEF SameThought
<1>3. CASE u = t
  <2>1. thoughts'[t] \in ThoughtRecord
    BY <1>1, <1>3 DEF ThoughtRecord
  <2>2. SameThought(t)
    BY <1>1, <1>3 DEF SameThought, ThoughtRecord
  <2> QED
    BY <2>1, <2>2, ConstantsAssumption DEF Exists
<1> QED
  BY <1>2, <1>3

(* A thought is made by submit_thought, and whatever happens later keeps   *)
(* its time, its seed, its policy and its deadline.                        *)
LEMMA ThoughtKept ==
  ASSUME TypeOK, [Next]_vars, NEW t \in ThoughtIds, Exists(thoughts[t])
  PROVE  SameThought(t) /\ Exists(thoughts'[t])
<1>1. CASE UNCHANGED <<thoughts, challenges>>
  BY <1>1 DEF SameThought
<1>2. ASSUME NEW u \in ThoughtIds, NEW m \in Models, NEW p \in PolicyIds, NEW seed \in Seeds,
             NEW action \in Actions, SubmitThought(u, m, p, seed, action)
      PROVE  SameThought(t) /\ Exists(thoughts'[t])
  BY <1>2 DEF SubmitThought, SameThought, TypeOK
<1>3. ASSUME NEW u \in ThoughtIds, NEW ch \in Challengers, NEW bond \in Amounts,
             OpenChallenge(u, ch, bond)
      PROVE  SameThought(t) /\ Exists(thoughts'[t])
  BY <1>3, FieldSet DEF OpenChallenge, Status
<1>4. ASSUME NEW u \in ThoughtIds, ResolveUnchallenged(u)
      PROVE  SameThought(t) /\ Exists(thoughts'[t])
  BY <1>4, FieldSet DEF ResolveUnchallenged, Status
<1>5. ASSUME NEW resolver \in Wallets, NEW c \in ChallengeIds, NEW verdict \in BOOLEAN,
             ResolveChallenged(resolver, c, verdict)
      PROVE  SameThought(t) /\ Exists(thoughts'[t])
  <2>1. /\ c[1] \in ThoughtIds /\ Exists(thoughts[c[1]])
        /\ thoughts' = [thoughts EXCEPT ![c[1]].status = IF verdict THEN "Slashed" ELSE "Finalized"]
    <3>1. ASSUME NEW u, u = c[1]
          PROVE  /\ Exists(thoughts[u])
                 /\ thoughts' = [thoughts EXCEPT ![u].status = IF verdict THEN "Slashed" ELSE "Finalized"]
      BY <1>5, <3>1, VerdictEffect
    <3> QED
      BY <3>1, Names
  <2> QED
    BY <2>1, FieldSet DEF Status
<1>6. ASSUME NEW u \in ThoughtIds, NEW action \in Actions, ConsumeThought(u, action)
      PROVE  SameThought(t) /\ Exists(thoughts'[t])
  BY <1>6, FieldSet DEF ConsumeThought
<1> QED
  BY <1>1, <1>2, <1>3, <1>4, <1>5, <1>6, LifecycleSteps

(* Only submit_thought makes a thought. *)
LEMMA ThoughtMade ==
  ASSUME TypeOK, [Next]_vars, NEW t \in ThoughtIds, ~Exists(thoughts[t]), Exists(thoughts'[t])
  PROVE  \E m \in Models, p \in PolicyIds, seed \in Seeds, action \in Actions :
           SubmitThought(t, m, p, seed, action)
<1>1. thoughts'[t] # thoughts[t] /\ DOMAIN thoughts = ThoughtIds
  BY DEF Exists, TypeOK
<1>2. ASSUME NEW u \in ThoughtIds, NEW m \in Models, NEW p \in PolicyIds, NEW seed \in Seeds,
             NEW action \in Actions, SubmitThought(u, m, p, seed, action)
      PROVE  u = t
  BY <1>1, <1>2 DEF SubmitThought, TypeOK
<1>3. ASSUME NEW u \in ThoughtIds, Exists(thoughts[u]),
             \/ \E status \in Status : thoughts' = [thoughts EXCEPT ![u].status = status]
             \/ thoughts' = [thoughts EXCEPT ![u].consumed_count = @ + 1]
      PROVE  FALSE
  BY <1>1, <1>3 DEF TypeOK
<1>4. ASSUME NEW u \in ThoughtIds, NEW ch \in Challengers, NEW bond \in Amounts,
             OpenChallenge(u, ch, bond)
      PROVE  FALSE
  BY <1>3, <1>4 DEF OpenChallenge, Status
<1>5. ASSUME NEW u \in ThoughtIds, ResolveUnchallenged(u)
      PROVE  FALSE
  BY <1>3, <1>5 DEF ResolveUnchallenged, Status
<1>6. ASSUME NEW resolver \in Wallets, NEW c \in ChallengeIds, NEW verdict \in BOOLEAN,
             ResolveChallenged(resolver, c, verdict)
      PROVE  FALSE
  BY <1>3, <1>6, VerdictEffect, Names DEF Status
<1>7. ASSUME NEW u \in ThoughtIds, NEW action \in Actions, ConsumeThought(u, action)
      PROVE  FALSE
  BY <1>3, <1>7 DEF ConsumeThought
<1> QED
  BY <1>1, <1>2, <1>4, <1>5, <1>6, <1>7, LifecycleSteps

----------------------------------------------------------------------------
(* Finality. *)

(* consume_thought leaves every status. *)
LEMMA ConsumedStatus ==
  ASSUME TypeOK, NEW t \in ThoughtIds, NEW u \in ThoughtIds, NEW action \in Actions,
         ConsumeThought(u, action)
  PROVE  StatusOf(t)' = StatusOf(t)
<1>1. /\ Exists(thoughts[u]) /\ thoughts' = [thoughts EXCEPT ![u].consumed_count = @ + 1]
  BY DEF ConsumeThought
<1>2. CASE u # t
  BY <1>1, <1>2 DEF TypeOK, StatusOf
<1>3. CASE u = t
  <2>1. thoughts[t] \in ThoughtRecord
    BY <1>1, <1>3 DEF TypeOK, Exists
  <2>2. thoughts'[t] \in ThoughtRecord /\ thoughts'[t].status = thoughts[t].status
    BY <1>1, <1>3, <2>1 DEF TypeOK, ThoughtRecord
  <2> QED
    BY <1>1, <1>3, <2>2, ConstantsAssumption DEF StatusOf, Exists
<1> QED
  BY <1>2, <1>3

(* A status that says decided is kept by every step. *)
LEMMA DecidedStays ==
  ASSUME TypeOK, [Next]_vars, NEW t \in ThoughtIds, StatusOf(t) \in {"Finalized", "Slashed"}
  PROVE  StatusOf(t)' = StatusOf(t)
<1>1. CASE thoughts'[t] = thoughts[t]
  BY <1>1 DEF StatusOf
<1>2. ASSUME NEW u \in ThoughtIds, NEW m \in Models, NEW p \in PolicyIds, NEW seed \in Seeds,
             NEW action \in Actions, SubmitThought(u, m, p, seed, action)
      PROVE  thoughts'[t] = thoughts[t]
  BY <1>2 DEF SubmitThought, StatusOf, TypeOK
<1>3. ASSUME NEW u \in ThoughtIds, NEW ch \in Challengers, NEW bond \in Amounts,
             OpenChallenge(u, ch, bond)
      PROVE  thoughts'[t] = thoughts[t]
  BY <1>3 DEF OpenChallenge, Disputable, StatusOf, TypeOK
<1>4. ASSUME NEW u \in ThoughtIds, ResolveUnchallenged(u)
      PROVE  thoughts'[t] = thoughts[t]
  BY <1>4 DEF ResolveUnchallenged, StatusOf, TypeOK
<1>5. ASSUME NEW resolver \in Wallets, NEW c \in ChallengeIds, NEW verdict \in BOOLEAN,
             ResolveChallenged(resolver, c, verdict)
      PROVE  thoughts'[t] = thoughts[t]
  <2>1. /\ StatusOf(c[1]) = "Challenged"
        /\ thoughts' = [thoughts EXCEPT ![c[1]].status = IF verdict THEN "Slashed" ELSE "Finalized"]
    BY <1>5, VerdictEffect
  <2>2. c[1] # t
    BY <2>1
  <2> QED
    BY <2>1, <2>2 DEF TypeOK
<1>6. ASSUME NEW u \in ThoughtIds, NEW action \in Actions, ConsumeThought(u, action)
      PROVE  StatusOf(t)' = StatusOf(t)
  BY <1>6, ConsumedStatus
<1> QED
  BY <1>1, <1>2, <1>3, <1>4, <1>5, <1>6, LifecycleSteps

(* A resolved challenge is never rewritten. *)
LEMMA VerdictsStay ==
  ASSUME TypeOK, [Next]_vars, NEW c \in ChallengeIds, Exists(challenges[c]), challenges[c].resolved
  PROVE  challenges'[c] = challenges[c]
<1>1. ASSUME NEW t \in ThoughtIds, NEW ch \in Challengers, NEW bond \in Amounts,
             OpenChallenge(t, ch, bond)
      PROVE  challenges'[c] = challenges[c]
  BY <1>1 DEF OpenChallenge, TypeOK
<1>2. ASSUME NEW resolver \in Wallets, NEW d \in ChallengeIds, NEW verdict \in BOOLEAN,
             ResolveChallenged(resolver, d, verdict)
      PROVE  challenges'[c] = challenges[c]
  BY <1>2, VerdictEffect DEF Open
<1> QED
  BY <1>1, <1>2, LifecycleSteps, Frames

(***************************************************************************)
(* A thought once Finalized or Slashed keeps that status for ever, and a   *)
(* resolved challenge is never rewritten, by any instruction.              *)
(***************************************************************************)
THEOREM OutcomesNeverChange == Spec => OutcomesAreFinal
<1>1. TypeOK /\ [Next]_vars =>
        [/\ \A t \in ThoughtIds : StatusOf(t) \in {"Finalized", "Slashed"} => StatusOf(t)' = StatusOf(t)
         /\ \A c \in ChallengeIds : Exists(challenges[c]) /\ challenges[c].resolved
              => challenges'[c] = challenges[c]]_vars
  BY DecidedStays, VerdictsStay
<1> QED
  BY <1>1, TypeCorrect, PTL DEF Spec, OutcomesAreFinal

----------------------------------------------------------------------------
(* Consumption. *)

(* Only while no thought is attested does readiness mean Finalized.        *)
NeverAttested ==
  \A t \in ThoughtIds : Exists(thoughts[t]) => ~thoughts[t].attestation_verified

(* A thought that keeps its status, flag and count keeps both invariants;  *)
(* so does one that becomes Finalized, or was never consumed.              *)
LEMMA ConsumedNext ==
  TypeOK /\ NeverAttested /\ ConsumedStaysFinal /\ [Next]_vars
    => NeverAttested' /\ ConsumedStaysFinal'
<1> SUFFICES ASSUME TypeOK, NeverAttested, ConsumedStaysFinal, [Next]_vars, NEW t \in ThoughtIds,
                    Exists(thoughts'[t])
             PROVE  /\ ~thoughts'[t].attestation_verified
                    /\ thoughts'[t].consumed_count > 0 => thoughts'[t].status = "Finalized"
  BY DEF NeverAttested, ConsumedStaysFinal
<1>1. CASE thoughts'[t] = thoughts[t]
  BY <1>1 DEF NeverAttested, ConsumedStaysFinal
<1>2. ASSUME NEW u \in ThoughtIds, NEW m \in Models, NEW p \in PolicyIds, NEW seed \in Seeds,
             NEW action \in Actions, SubmitThought(u, m, p, seed, action),
             thoughts'[t] # thoughts[t]
      PROVE  ~thoughts'[t].attestation_verified /\ thoughts'[t].consumed_count = 0
  BY <1>2 DEF SubmitThought, NewThought, TypeOK
<1>3. ASSUME NEW u \in ThoughtIds, NEW status \in Status, Exists(thoughts[u]),
             thoughts[u].status # "Finalized",
             thoughts' = [thoughts EXCEPT ![u].status = status], thoughts'[t] # thoughts[t]
      PROVE  /\ ~thoughts'[t].attestation_verified
             /\ thoughts'[t].consumed_count > 0 => thoughts'[t].status = "Finalized"
  <2>1. u = t
    BY <1>3, SetStatus
  <2>2. ~(thoughts[t].consumed_count > 0) /\ ~thoughts[t].attestation_verified
    BY <1>3, <2>1 DEF NeverAttested, ConsumedStaysFinal
  <2> QED
    BY <1>3, <2>1, <2>2, SetStatus
<1>4. ASSUME NEW u \in ThoughtIds, NEW action \in Actions, ConsumeThought(u, action),
             thoughts'[t] # thoughts[t]
      PROVE  ~thoughts'[t].attestation_verified /\ thoughts'[t].status = "Finalized"
  <2>1. u = t /\ Exists(thoughts[t]) /\ Ready(thoughts[t])
    BY <1>4 DEF ConsumeThought, TypeOK
  <2>2. thoughts[t] \in ThoughtRecord /\ thoughts[t].status = "Finalized"
        /\ ~thoughts[t].attestation_verified
    BY <2>1 DEF TypeOK, NeverAttested, Ready, Exists
  <2>3. thoughts' = [thoughts EXCEPT ![t].consumed_count = @ + 1]
    BY <1>4, <2>1 DEF ConsumeThought
  <2> QED
    BY <2>2, <2>3 DEF TypeOK, ThoughtRecord
<1>5. ASSUME NEW u \in ThoughtIds, NEW ch \in Challengers, NEW bond \in Amounts,
             OpenChallenge(u, ch, bond)
      PROVE  /\ thoughts' = [thoughts EXCEPT ![u].status = "Challenged"]
             /\ Exists(thoughts[u]) /\ thoughts[u].status # "Finalized"
  BY <1>5 DEF OpenChallenge, Disputable
<1>6. ASSUME NEW u \in ThoughtIds, ResolveUnchallenged(u)
      PROVE  /\ thoughts' = [thoughts EXCEPT ![u].status = "Finalized"]
             /\ Exists(thoughts[u]) /\ thoughts[u].status # "Finalized"
  BY <1>6 DEF ResolveUnchallenged
<1>7. ASSUME NEW resolver \in Wallets, NEW c \in ChallengeIds, NEW verdict \in BOOLEAN,
             ResolveChallenged(resolver, c, verdict)
      PROVE  /\ thoughts' = [thoughts EXCEPT ![c[1]].status = IF verdict THEN "Slashed" ELSE "Finalized"]
             /\ Exists(thoughts[c[1]]) /\ thoughts[c[1]].status # "Finalized" /\ c[1] \in ThoughtIds
  BY <1>7, VerdictEffect, Names DEF StatusOf
<1>8. "Challenged" \in Status /\ "Finalized" \in Status /\ "Slashed" \in Status
  BY DEF Status
<1>9. CASE thoughts'[t] # thoughts[t]
  <2>1. ASSUME NEW u \in ThoughtIds, NEW ch \in Challengers, NEW bond \in Amounts,
               OpenChallenge(u, ch, bond)
        PROVE  /\ ~thoughts'[t].attestation_verified
               /\ thoughts'[t].consumed_count > 0 => thoughts'[t].status = "Finalized"
    BY <1>3, <1>5, <1>8, <1>9, <2>1
  <2>2. ASSUME NEW u \in ThoughtIds, ResolveUnchallenged(u)
        PROVE  /\ ~thoughts'[t].attestation_verified
               /\ thoughts'[t].consumed_count > 0 => thoughts'[t].status = "Finalized"
    BY <1>3, <1>6, <1>8, <1>9, <2>2
  <2>3. ASSUME NEW resolver \in Wallets, NEW c \in ChallengeIds, NEW verdict \in BOOLEAN,
               ResolveChallenged(resolver, c, verdict)
        PROVE  /\ ~thoughts'[t].attestation_verified
               /\ thoughts'[t].consumed_count > 0 => thoughts'[t].status = "Finalized"
    BY <1>3, <1>7, <1>8, <1>9, <2>3
  <2> QED
    BY <1>2, <1>4, <1>9, <2>1, <2>2, <2>3, LifecycleSteps
<1> QED
  BY <1>1, <1>9

(***************************************************************************)
(* No thought that consume_thought ever accepted is anything but           *)
(* Finalized, in any later state: what a downstream action was gated on is *)
(* never slashed afterwards.  It rests on attestation_verified never being *)
(* set by the program.                                                     *)
(***************************************************************************)
THEOREM ConsumedIsFinal == Spec => []ConsumedStaysFinal
<1>1. Init => NeverAttested /\ ConsumedStaysFinal
  BY DEF Init, NeverAttested, ConsumedStaysFinal, Exists
<1> QED
  BY <1>1, ConsumedNext, TypeCorrect, PTL DEF Spec

----------------------------------------------------------------------------
(* Disputes. *)

Decided(t) == OneDispute(t) /\ OpenDisputeIsChallenged(t) /\ VerdictDecides(t)

(* A step that leaves a thought's status and its challenges as they were   *)
(* leaves its dispute as it was.                                           *)
LEMMA DisputeFrame ==
  ASSUME NEW t \in ThoughtIds, Decided(t), StatusOf(t)' = StatusOf(t),
         \A ch \in Challengers : challenges'[<<t, ch>>] = challenges[<<t, ch>>]
  PROVE  Decided(t)'
<1>1. \A ch \in Challengers : /\ Open(<<t, ch>>)' <=> Open(<<t, ch>>)
                              /\ Ruled(<<t, ch>>, TRUE)' <=> Ruled(<<t, ch>>, TRUE)
                              /\ Ruled(<<t, ch>>, FALSE)' <=> Ruled(<<t, ch>>, FALSE)
                              /\ Exists(challenges[<<t, ch>>])' <=> Exists(challenges[<<t, ch>>])
  BY DEF Open, Ruled, Exists
<1>2. OneDispute(t)'
  BY <1>1 DEF Decided, OneDispute
<1>3. OpenDisputeIsChallenged(t)'
  BY <1>1 DEF Decided, OpenDisputeIsChallenged
<1>4. VerdictDecides(t)'
  BY <1>1 DEF Decided, VerdictDecides
<1> QED
  BY <1>2, <1>3, <1>4 DEF Decided

(* A thought that nobody has disputed yet has no challenge account. *)
LEMMA Undisputed ==
  ASSUME TypeOK, NEW t \in ThoughtIds, Decided(t), StatusOf(t) \in {"None", "Pending"},
         NEW ch \in Challengers
  PROVE  ~Exists(challenges[<<t, ch>>])
<1>1. Exists(challenges[<<t, ch>>]) =>
        Open(<<t, ch>>) \/ Ruled(<<t, ch>>, TRUE) \/ Ruled(<<t, ch>>, FALSE)
  <2>1. Exists(challenges[<<t, ch>>]) => challenges[<<t, ch>>].verdict \in BOOLEAN
    BY DEF TypeOK, Exists, Challenge, ChallengeIds
  <2> QED
    BY <2>1 DEF Open, Ruled
<1> QED
  BY <1>1 DEF Decided, OpenDisputeIsChallenged, VerdictDecides

(* challenge() opens the only dispute of its thought. *)
LEMMA DisputeOpens ==
  ASSUME TypeOK, NEW t \in ThoughtIds, NEW ch \in Challengers, NEW bond \in Amounts,
         OpenChallenge(t, ch, bond), Decided(t)
  PROVE  Decided(t)'
<1>1. /\ StatusOf(t) = "Pending" /\ Exists(thoughts[t])
      /\ thoughts' = [thoughts EXCEPT ![t].status = "Challenged"]
      /\ challenges' = [challenges EXCEPT ![<<t, ch>>] =
           [bond |-> bond, opened_at_slot |-> slot, resolved |-> FALSE, verdict |-> FALSE]]
  BY DEF OpenChallenge, Disputable, StatusOf
<1>2. StatusOf(t)' = "Challenged"
  BY <1>1, SetStatus DEF Status
<1>3. \A x \in Challengers \ {ch} : ~Exists(challenges'[<<t, x>>])
  BY <1>1, Undisputed DEF TypeOK, ChallengeIds
<1>4. /\ challenges'[<<t, ch>>] \in Challenge
      /\ ~challenges'[<<t, ch>>].resolved
  BY <1>1, ConstantsAssumption DEF TypeOK, ChallengeIds, Challenge
<1>5. Open(<<t, ch>>)'
  BY <1>4, ConstantsAssumption DEF Open, Exists
<1>6. OneDispute(t)'
  BY <1>3 DEF OneDispute, Exists
<1>7. OpenDisputeIsChallenged(t)'
  BY <1>2, <1>5 DEF OpenDisputeIsChallenged
<1>8. VerdictDecides(t)'
  BY <1>2, <1>3, <1>4 DEF VerdictDecides, Ruled, Exists
<1> QED
  BY <1>6, <1>7, <1>8 DEF Decided

(* A verdict decides the thought and leaves no dispute of it open. *)
LEMMA DisputeRuled ==
  ASSUME TypeOK, NEW resolver \in Wallets, NEW t \in ThoughtIds, NEW ch \in Challengers,
         NEW verdict \in BOOLEAN, NEW c, c = <<t, ch>>, ResolveChallenged(resolver, c, verdict),
         Decided(t)
  PROVE  Decided(t)'
<1>1. /\ c \in ChallengeIds /\ t = c[1]
      /\ \A x \in Challengers \ {ch} : <<t, x>> \in ChallengeIds \ {c}
  BY DEF ChallengeIds
<1>2. /\ Exists(thoughts[t]) /\ StatusOf(t) = "Challenged" /\ Open(c)
      /\ thoughts' = [thoughts EXCEPT ![t].status = IF verdict THEN "Slashed" ELSE "Finalized"]
      /\ Ruled(c, verdict)'
      /\ \A d \in ChallengeIds \ {c} : challenges'[d] = challenges[d]
  BY <1>1, VerdictEffect
<1>3. StatusOf(t)' = IF verdict THEN "Slashed" ELSE "Finalized"
  BY <1>2, SetStatus DEF Status
<1>4. \A x \in Challengers \ {ch} : ~Exists(challenges'[<<t, x>>])
  BY <1>1, <1>2 DEF Decided, OneDispute, Open
<1>5. \A x \in Challengers : ~Open(<<t, x>>)'
  BY <1>2, <1>4 DEF Open, Ruled, Exists
<1>6. OneDispute(t)'
  BY <1>4 DEF OneDispute, Exists
<1>7. OpenDisputeIsChallenged(t)'
  BY <1>3, <1>5 DEF OpenDisputeIsChallenged
<1>8. \A x \in Challengers, v \in BOOLEAN : Ruled(<<t, x>>, v)' => x = ch /\ v = verdict
  BY <1>2, <1>4 DEF Ruled, Exists
<1>9. VerdictDecides(t)'
  BY <1>2, <1>3, <1>8 DEF VerdictDecides
<1> QED
  BY <1>6, <1>7, <1>9 DEF Decided

(* Every step keeps disputes and outcomes together. *)
LEMMA DisputeNext == TypeOK /\ DisputesDecideOutcomes /\ [Next]_vars => DisputesDecideOutcomes'
<1> SUFFICES ASSUME TypeOK, DisputesDecideOutcomes, [Next]_vars, NEW t \in ThoughtIds
             PROVE  Decided(t)'
  BY DEF DisputesDecideOutcomes, Decided
<1>1. Decided(t)
  BY DEF DisputesDecideOutcomes, Decided
<1>2. ASSUME thoughts'[t] = thoughts[t],
             \A ch \in Challengers : challenges'[<<t, ch>>] = challenges[<<t, ch>>]
      PROVE  Decided(t)'
  BY <1>1, <1>2, DisputeFrame DEF StatusOf
<1>3. ASSUME NEW u \in ThoughtIds, NEW m \in Models, NEW p \in PolicyIds, NEW seed \in Seeds,
             NEW action \in Actions, SubmitThought(u, m, p, seed, action)
      PROVE  Decided(t)'
  <2>1. CASE u # t
    BY <1>2, <1>3, <2>1 DEF SubmitThought, TypeOK
  <2>2. CASE u = t
    <3>1. StatusOf(t) = "None" /\ challenges' = challenges
      BY <1>3, <2>2 DEF SubmitThought, StatusOf
    <3>2. thoughts'[t] = NewThought(m, p, seed, action)
      BY <1>3, <2>2 DEF SubmitThought, TypeOK
    <3>3. \A ch \in Challengers : ~Exists(challenges'[<<t, ch>>])
      BY <1>1, <3>1, Undisputed
    <3>4. StatusOf(t)' \in {"None", "Pending"}
      BY <3>2 DEF StatusOf, NewThought
    <3>5. OneDispute(t)'
      BY <3>3 DEF OneDispute, Exists
    <3>6. OpenDisputeIsChallenged(t)'
      BY <3>3, <3>4 DEF OpenDisputeIsChallenged, Open, Exists
    <3>7. VerdictDecides(t)'
      BY <3>3, <3>4 DEF VerdictDecides, Ruled, Exists
    <3> QED
      BY <3>5, <3>6, <3>7 DEF Decided
  <2> QED
    BY <2>1, <2>2
<1>4. ASSUME NEW u \in ThoughtIds, NEW ch \in Challengers, NEW bond \in Amounts,
             OpenChallenge(u, ch, bond)
      PROVE  Decided(t)'
  <2>1. CASE u # t
    <3>1. thoughts'[t] = thoughts[t]
      BY <1>4, <2>1 DEF OpenChallenge, TypeOK
    <3>2. \A x \in Challengers : challenges'[<<t, x>>] = challenges[<<t, x>>]
      BY <1>4, <2>1 DEF OpenChallenge, TypeOK, ChallengeIds
    <3> QED
      BY <1>2, <3>1, <3>2
  <2>2. CASE u = t
    BY <1>1, <1>4, <2>2, DisputeOpens
  <2> QED
    BY <2>1, <2>2
<1>5. ASSUME NEW u \in ThoughtIds, ResolveUnchallenged(u)
      PROVE  Decided(t)'
  <2>1. /\ StatusOf(u) = "Pending" /\ Exists(thoughts[u]) /\ challenges' = challenges
        /\ thoughts' = [thoughts EXCEPT ![u].status = "Finalized"]
    BY <1>5 DEF ResolveUnchallenged, StatusOf
  <2>2. CASE u # t
    BY <1>2, <2>1, <2>2 DEF TypeOK
  <2>3. CASE u = t
    <3>1. StatusOf(t)' = "Finalized"
      BY <2>1, <2>3, SetStatus DEF Status
    <3>2. \A ch \in Challengers : ~Exists(challenges'[<<t, ch>>])
      BY <1>1, <2>1, <2>3, Undisputed
    <3>3. OneDispute(t)'
      BY <3>2 DEF OneDispute, Exists
    <3>4. OpenDisputeIsChallenged(t)'
      BY <3>1, <3>2 DEF OpenDisputeIsChallenged, Open, Exists
    <3>5. VerdictDecides(t)'
      BY <3>1, <3>2 DEF VerdictDecides, Ruled, Exists
    <3> QED
      BY <3>3, <3>4, <3>5 DEF Decided
  <2> QED
    BY <2>2, <2>3
<1>6. ASSUME NEW resolver \in Wallets, NEW c \in ChallengeIds, NEW verdict \in BOOLEAN,
             ResolveChallenged(resolver, c, verdict)
      PROVE  Decided(t)'
  <2>1. PICK u \in ThoughtIds, ch \in Challengers : c = <<u, ch>>
    BY DEF ChallengeIds
  <2>2. u = c[1]
    BY <2>1
  <2>3. CASE u # t
    <3>1. \A x \in Challengers : <<t, x>> \in ChallengeIds \ {c}
      BY <2>1, <2>3 DEF ChallengeIds
    <3>2. /\ thoughts' = [thoughts EXCEPT ![u].status = IF verdict THEN "Slashed" ELSE "Finalized"]
          /\ \A d \in ChallengeIds \ {c} : challenges'[d] = challenges[d]
      BY <1>6, <2>2, VerdictEffect
    <3> QED
      BY <1>2, <2>3, <3>1, <3>2 DEF TypeOK
  <2>4. CASE u = t
    BY <1>1, <1>6, <2>1, <2>4, DisputeRuled
  <2> QED
    BY <2>3, <2>4
<1>7. ASSUME NEW u \in ThoughtIds, NEW action \in Actions, ConsumeThought(u, action)
      PROVE  Decided(t)'
  BY <1>1, <1>7, ConsumedStatus, DisputeFrame DEF ConsumeThought
<1> QED
  BY <1>2, <1>3, <1>4, <1>5, <1>6, <1>7, LifecycleSteps

(***************************************************************************)
(* A thought is disputed by at most one challenger, is Challenged exactly  *)
(* while that dispute is open, is Slashed exactly when the dispute was     *)
(* ruled against the agent, and Finalized when it was ruled for it: in     *)
(* every state, whoever challenges, cranks and rules, and in any order.    *)
(***************************************************************************)
THEOREM DisputesDecide == Spec => []DisputesDecideOutcomes
<1>1. Init => DisputesDecideOutcomes
  <2> SUFFICES ASSUME Init, NEW t \in ThoughtIds PROVE Decided(t)
    BY DEF DisputesDecideOutcomes, Decided
  <2>1. \A ch \in Challengers : ~Exists(challenges[<<t, ch>>])
    BY DEF Init, Exists, ChallengeIds
  <2>2. StatusOf(t) = "None"
    BY DEF Init, StatusOf, Exists
  <2> QED
    BY <2>1, <2>2
    DEF Decided, OneDispute, OpenDisputeIsChallenged, VerdictDecides, Open, Ruled
<1> QED
  BY <1>1, DisputeNext, TypeCorrect, PTL DEF Spec

----------------------------------------------------------------------------
(* The refinement mapping, thought by thought. *)

EscrowOf(t) ==
  IF \E ch \in Challengers : Open(<<t, ch>>)
  THEN challenges[<<t, CHOOSE ch \in Challengers : Open(<<t, ch>>)>>].bond
  ELSE 0
UsesOf(t) == IF Exists(thoughts[t]) THEN thoughts[t].consumed_count ELSE 0
Over(t) == Exists(thoughts[t]) /\ slot >= thoughts[t].challenge_deadline_slot

Phase == [t \in ThoughtIds |-> StatusOf(t)]
Elapsed == {t \in ThoughtIds : Over(t)}
Escrow == [t \in ThoughtIds |-> EscrowOf(t)]
Uses == [t \in ThoughtIds |-> UsesOf(t)]

SameButOver(t) ==
  StatusOf(t)' = StatusOf(t) /\ EscrowOf(t)' = EscrowOf(t) /\ UsesOf(t)' = UsesOf(t)
Same(t) == SameButOver(t) /\ (Over(t)' <=> Over(t))

(* The bond in escrow is that of the only open dispute, now and next.      *)
LEMMA OpenEscrow ==
  ASSUME NEW t, NEW ch \in Challengers
  PROVE  /\ OneDispute(t) /\ Open(<<t, ch>>) => EscrowOf(t) = challenges[<<t, ch>>].bond
         /\ OneDispute(t)' /\ Open(<<t, ch>>)' => EscrowOf(t)' = challenges'[<<t, ch>>].bond
<1>1. ASSUME OneDispute(t), Open(<<t, ch>>)
      PROVE  EscrowOf(t) = challenges[<<t, ch>>].bond
  <2> DEFINE open(x) == challenges[<<t, x>>] # NoAccount /\ ~challenges[<<t, x>>].resolved
             chosen == CHOOSE x \in Challengers : open(x)
  <2>1. chosen \in Challengers /\ open(chosen)
    BY <1>1 DEF Open, Exists
  <2>2. chosen = ch
    BY <1>1, <2>1 DEF OneDispute, Open, Exists
  <2> QED
    BY <1>1, <2>2 DEF EscrowOf, Open, Exists
<1>2. ASSUME OneDispute(t)', Open(<<t, ch>>)'
      PROVE  EscrowOf(t)' = challenges'[<<t, ch>>].bond
  <2> DEFINE open(x) == challenges'[<<t, x>>] # NoAccount /\ ~challenges'[<<t, x>>].resolved
             chosen == CHOOSE x \in Challengers : open(x)
  <2>1. chosen \in Challengers /\ open(chosen)
    BY <1>2 DEF Open, Exists
  <2>2. chosen = ch
    BY <1>2, <2>1 DEF OneDispute, Open, Exists
  <2> QED
    BY <1>2, <2>2 DEF EscrowOf, Open, Exists
<1> QED
  BY <1>1, <1>2

(* With no open dispute nothing is in escrow. *)
LEMMA NoEscrow ==
  ASSUME NEW t
  PROVE  /\ (\A ch \in Challengers : ~Open(<<t, ch>>)) => EscrowOf(t) = 0
         /\ (\A ch \in Challengers : ~Open(<<t, ch>>)') => EscrowOf(t)' = 0
  BY DEF EscrowOf, Open, Exists

(* Escrow changes only with the thought's own challenges. *)
LEMMA EscrowFrame ==
  ASSUME NEW t, OneDispute(t), OneDispute(t)',
         \A ch \in Challengers : challenges'[<<t, ch>>] = challenges[<<t, ch>>]
  PROVE  EscrowOf(t)' = EscrowOf(t)
<1>1. \A ch \in Challengers : Open(<<t, ch>>)' <=> Open(<<t, ch>>)
  BY DEF Open, Exists
<1>2. CASE \A ch \in Challengers : ~Open(<<t, ch>>)
  BY <1>1, <1>2, NoEscrow
<1>3. ASSUME NEW ch \in Challengers, Open(<<t, ch>>)
      PROVE  EscrowOf(t)' = EscrowOf(t)
  BY <1>1, <1>3, OpenEscrow
<1> QED
  BY <1>2, <1>3

(* A step that touches neither the thought nor its challenges.             *)
LEMMA SameFrame ==
  ASSUME NEW t, OneDispute(t), OneDispute(t)', thoughts'[t] = thoughts[t],
         \A ch \in Challengers : challenges'[<<t, ch>>] = challenges[<<t, ch>>]
  PROVE  SameButOver(t) /\ (slot' = slot => Same(t))
<1>1. SameButOver(t)
  BY EscrowFrame DEF SameButOver, StatusOf, UsesOf
<1> QED
  BY <1>1 DEF Same, Over

(* A step of one thought changes the abstract state at that thought.       *)
LEMMA OneThought ==
  ASSUME NEW t \in ThoughtIds, \A u \in ThoughtIds \ {t} : Same(u)
  PROVE  /\ Phase' = [Phase EXCEPT ![t] = StatusOf(t)']
         /\ Escrow' = [Escrow EXCEPT ![t] = EscrowOf(t)']
         /\ Uses' = [Uses EXCEPT ![t] = UsesOf(t)']
         /\ StatusOf(t)' = StatusOf(t) => Phase' = Phase
         /\ EscrowOf(t)' = EscrowOf(t) => Escrow' = Escrow
         /\ UsesOf(t)' = UsesOf(t) => Uses' = Uses
         /\ (Over(t)' <=> Over(t)) => Elapsed' = Elapsed
         /\ ~Over(t) => Elapsed' \in {Elapsed, Elapsed \cup {t}}
<1>1. /\ Phase' = [Phase EXCEPT ![t] = StatusOf(t)']
      /\ StatusOf(t)' = StatusOf(t) => Phase' = Phase
  BY DEF Same, SameButOver, Phase
<1>2. /\ Escrow' = [Escrow EXCEPT ![t] = EscrowOf(t)']
      /\ EscrowOf(t)' = EscrowOf(t) => Escrow' = Escrow
  BY DEF Same, SameButOver, Escrow
<1>3. /\ Uses' = [Uses EXCEPT ![t] = UsesOf(t)']
      /\ UsesOf(t)' = UsesOf(t) => Uses' = Uses
  BY DEF Same, SameButOver, Uses
<1>4. /\ (Over(t)' <=> Over(t)) => Elapsed' = Elapsed
      /\ ~Over(t) => Elapsed' \in {Elapsed, Elapsed \cup {t}}
  BY DEF Same, Elapsed
<1> QED
  BY <1>1, <1>2, <1>3, <1>4

(* The mapped state at one thought. *)
LEMMA At ==
  ASSUME NEW t \in ThoughtIds
  PROVE  /\ Phase[t] = StatusOf(t) /\ Escrow[t] = EscrowOf(t) /\ Uses[t] = UsesOf(t)
         /\ t \in Elapsed <=> Over(t)
  BY DEF Phase, Escrow, Uses, Elapsed

----------------------------------------------------------------------------
(* The abstract actions, in terms of the mapping. *)

(* A ledger with no thoughts maps to the abstract start. *)
LEMMA InitMaps ==
  ASSUME thoughts = [t \in ThoughtIds |-> NoAccount], challenges = [c \in ChallengeIds |-> NoAccount]
  PROVE  Lifecycle!Init
<1>1. \A t \in ThoughtIds : ~Exists(thoughts[t])
  BY DEF Exists
<1>2. \A t \in ThoughtIds, ch \in Challengers : ~Open(<<t, ch>>)
  BY DEF Open, Exists, ChallengeIds
<1> QED
  BY <1>1, <1>2 DEF Lifecycle!Init, StatusOf, Open, Exists

(* What a step must do to the mapped state to be a Commit. *)
LEMMA CommitMaps ==
  ASSUME NEW t \in ThoughtIds, Phase[t] = "None", Phase' = [Phase EXCEPT ![t] = "Pending"],
         Elapsed' \in {Elapsed, Elapsed \cup {t}}, Escrow' = Escrow, Uses' = Uses
  PROVE  Lifecycle!Commit(t)
  BY DEF Lifecycle!Commit, Phase, Elapsed, Over, Escrow, EscrowOf, Uses, UsesOf,
         Open, Exists

(* And to be an Elapse. *)
LEMMA ElapseMaps ==
  ASSUME Phase' = Phase, Escrow' = Escrow, Uses' = Uses, Elapsed \subseteq Elapsed',
         Elapsed' \subseteq {t \in ThoughtIds : Phase[t] # "None"}
  PROVE  Lifecycle!Elapse
  BY DEF Lifecycle!Elapse, Phase, Elapsed, Over, Escrow, EscrowOf, Uses, UsesOf,
         Open, Exists

(* And to be a Dispute. *)
LEMMA DisputeMaps ==
  ASSUME NEW t \in ThoughtIds, NEW bond, Phase[t] = "Pending", t \notin Elapsed,
         Phase' = [Phase EXCEPT ![t] = "Challenged"], Escrow' = [Escrow EXCEPT ![t] = bond],
         Elapsed' = Elapsed, Uses' = Uses
  PROVE  Lifecycle!Dispute(t, bond)
  BY DEF Lifecycle!Dispute, Phase, Elapsed, Over, Escrow, EscrowOf, Uses, UsesOf,
         Open, Exists

(* And to be a Settle. *)
LEMMA SettleMaps ==
  ASSUME NEW t \in ThoughtIds, Phase[t] = "Pending", t \in Elapsed,
         Phase' = [Phase EXCEPT ![t] = "Finalized"], Escrow' = Escrow,
         Elapsed' = Elapsed, Uses' = Uses
  PROVE  Lifecycle!Settle(t)
  BY DEF Lifecycle!Settle, Phase, Elapsed, Over, Escrow, EscrowOf, Uses, UsesOf,
         Open, Exists

(* And to be a Rule. *)
LEMMA RuleMaps ==
  ASSUME NEW t \in ThoughtIds, NEW outcome, Phase[t] = "Challenged",
         Phase' = [Phase EXCEPT ![t] = outcome], Escrow' = [Escrow EXCEPT ![t] = 0],
         Elapsed' = Elapsed, Uses' = Uses
  PROVE  Lifecycle!Rule(t, outcome)
  BY DEF Lifecycle!Rule, Phase, Elapsed, Over, Escrow, EscrowOf, Uses, UsesOf,
         Open, Exists

(* And to be a Use. *)
LEMMA UseMaps ==
  ASSUME NEW t \in ThoughtIds, Phase[t] = "Finalized", Uses' = [Uses EXCEPT ![t] = @ + 1],
         Phase' = Phase, Escrow' = Escrow, Elapsed' = Elapsed
  PROVE  Lifecycle!Use(t)
  BY DEF Lifecycle!Use, Phase, Elapsed, Over, Escrow, EscrowOf, Uses, UsesOf,
         Open, Exists

----------------------------------------------------------------------------
(* The instructions, in terms of the abstract actions. *)

(* An instruction on one thought, at one slot, leaves every other thought. *)
LEMMA OthersSame ==
  ASSUME DisputesDecideOutcomes, DisputesDecideOutcomes', NEW t \in ThoughtIds, slot' = slot,
         \A u \in ThoughtIds \ {t} : thoughts'[u] = thoughts[u],
         \A c \in ChallengeIds : c[1] # t => challenges'[c] = challenges[c]
  PROVE  \A u \in ThoughtIds \ {t} : Same(u)
<1> SUFFICES ASSUME NEW u \in ThoughtIds \ {t} PROVE Same(u)
  OBVIOUS
<1>1. \A ch \in Challengers : challenges'[<<u, ch>>] = challenges[<<u, ch>>]
  BY DEF ChallengeIds
<1>2. OneDispute(u) /\ OneDispute(u)'
  BY DEF DisputesDecideOutcomes
<1> QED
  BY <1>1, <1>2, SameFrame

(* submit_thought is a Commit. *)
LEMMA SubmitStep ==
  ASSUME TypeOK, DisputesDecideOutcomes, DisputesDecideOutcomes',
         NEW t \in ThoughtIds, NEW m \in Models, NEW p \in PolicyIds, NEW seed \in Seeds,
         NEW action \in Actions, SubmitThought(t, m, p, seed, action)
  PROVE  Lifecycle!Commit(t)
<1>1. /\ ~Exists(thoughts[t]) /\ slot' = slot /\ challenges' = challenges
      /\ thoughts' = [thoughts EXCEPT ![t] = NewThought(m, p, seed, action)]
  BY DEF SubmitThought
<1>2. \A u \in ThoughtIds \ {t} : thoughts'[u] = thoughts[u]
  BY <1>1 DEF TypeOK
<1>3. thoughts'[t] = NewThought(m, p, seed, action) /\ Exists(thoughts'[t])
  BY SubmitEffect
<1>4. StatusOf(t) = "None" /\ UsesOf(t) = 0 /\ ~Over(t)
  BY <1>1 DEF StatusOf, UsesOf, Over
<1>5. StatusOf(t)' = "Pending" /\ UsesOf(t)' = 0
  BY <1>3 DEF StatusOf, UsesOf, NewThought
<1>6. EscrowOf(t)' = EscrowOf(t)
  <2>1. OneDispute(t) /\ OneDispute(t)'
    BY DEF DisputesDecideOutcomes
  <2> QED
    BY <1>1, <2>1, EscrowFrame
<1>7. \A u \in ThoughtIds \ {t} : Same(u)
  BY <1>1, <1>2, OthersSame
<1>8. /\ Phase' = [Phase EXCEPT ![t] = "Pending"] /\ Uses' = Uses /\ Escrow' = Escrow
      /\ Elapsed' \in {Elapsed, Elapsed \cup {t}}
  BY <1>4, <1>5, <1>6, <1>7, OneThought
<1>9. Phase[t] = "None"
  BY <1>4, At
<1> QED
  BY <1>8, <1>9, CommitMaps

(* Setting a status changes neither uses nor deadline. *)
LEMMA SetStatusFields ==
  ASSUME TypeOK, NEW t \in ThoughtIds, Exists(thoughts[t]), NEW status \in Status,
         thoughts' = [thoughts EXCEPT ![t].status = status], slot' = slot
  PROVE  StatusOf(t)' = status /\ UsesOf(t)' = UsesOf(t) /\ (Over(t)' <=> Over(t))
<1>1. StatusOf(t)' = status /\ thoughts'[t].consumed_count = thoughts[t].consumed_count
  BY SetStatus
<1>2. SameThought(t) /\ Exists(thoughts'[t])
  BY FieldSet
<1> QED
  BY <1>1, <1>2 DEF UsesOf, Over, SameThought

(* challenge is a Dispute: it comes before the deadline. *)
LEMMA DisputeStep ==
  ASSUME TypeOK, DisputesDecideOutcomes, DisputesDecideOutcomes',
         NEW t \in ThoughtIds, NEW ch \in Challengers, NEW bond \in Amounts,
         OpenChallenge(t, ch, bond)
  PROVE  Lifecycle!Dispute(t, bond)
<1> DEFINE opened == [bond |-> bond, opened_at_slot |-> slot, resolved |-> FALSE, verdict |-> FALSE]
<1>1. /\ Exists(thoughts[t]) /\ slot' = slot /\ StatusOf(t) = "Pending" /\ ~Over(t)
      /\ thoughts' = [thoughts EXCEPT ![t].status = "Challenged"]
  <2>1. slot \in Nat /\ thoughts[t].challenge_deadline_slot \in Nat
    BY ConstantsAssumption DEF OpenChallenge, TypeOK, Exists, ThoughtRecord
  <2> QED
    BY <2>1 DEF OpenChallenge, Disputable, StatusOf, Over
<1>2. StatusOf(t)' = "Challenged" /\ UsesOf(t)' = UsesOf(t) /\ (Over(t)' <=> Over(t))
  BY <1>1, SetStatusFields DEF Status
<1>3. <<t, ch>> \in ChallengeIds
  BY DEF ChallengeIds
<1>4. challenges'[<<t, ch>>] = opened /\ \A c \in ChallengeIds : c # <<t, ch>> => challenges'[c] = challenges[c]
  BY <1>3 DEF OpenChallenge, TypeOK
<1>5. opened \in Challenge
  BY ConstantsAssumption DEF Challenge, TypeOK
<1>6. Open(<<t, ch>>)'
  <2>1. opened # NoAccount
    BY <1>5, ConstantsAssumption
  <2>2. challenges'[<<t, ch>>] # NoAccount /\ ~challenges'[<<t, ch>>].resolved
    BY <1>4, <2>1
  <2> QED
    BY <2>2 DEF Open, Exists
<1>7. EscrowOf(t)' = bond
  BY <1>4, <1>6, OpenEscrow DEF DisputesDecideOutcomes
<1>8. \A u \in ThoughtIds \ {t} : thoughts'[u] = thoughts[u]
  BY <1>1 DEF TypeOK
<1>9. \A u \in ThoughtIds \ {t} : Same(u)
  BY <1>1, <1>4, <1>8, OthersSame
<1>10. /\ Phase' = [Phase EXCEPT ![t] = "Challenged"] /\ Escrow' = [Escrow EXCEPT ![t] = bond]
       /\ Uses' = Uses /\ Elapsed' = Elapsed
  BY <1>2, <1>7, <1>9, OneThought
<1>11. Phase[t] = "Pending" /\ t \notin Elapsed
  BY <1>1, At
<1> QED
  BY <1>10, <1>11, DisputeMaps

(* resolve_unchallenged is a Settle: the deadline has come. *)
LEMMA SettleStep ==
  ASSUME TypeOK, DisputesDecideOutcomes, DisputesDecideOutcomes',
         NEW t \in ThoughtIds, ResolveUnchallenged(t)
  PROVE  Lifecycle!Settle(t)
<1>1. /\ Exists(thoughts[t]) /\ slot' = slot /\ StatusOf(t) = "Pending" /\ Over(t)
      /\ thoughts' = [thoughts EXCEPT ![t].status = "Finalized"] /\ challenges' = challenges
  BY DEF ResolveUnchallenged, WindowElapsed, StatusOf, Over
<1>2. StatusOf(t)' = "Finalized" /\ UsesOf(t)' = UsesOf(t) /\ (Over(t)' <=> Over(t))
  BY <1>1, SetStatusFields DEF Status
<1>3. EscrowOf(t)' = EscrowOf(t)
  <2>1. OneDispute(t) /\ OneDispute(t)'
    BY DEF DisputesDecideOutcomes
  <2> QED
    BY <1>1, <2>1, EscrowFrame
<1>4. \A u \in ThoughtIds \ {t} : thoughts'[u] = thoughts[u]
  BY <1>1 DEF TypeOK
<1>5. \A u \in ThoughtIds \ {t} : Same(u)
  BY <1>1, <1>4, OthersSame
<1>6. /\ Phase' = [Phase EXCEPT ![t] = "Finalized"]
      /\ Escrow' = Escrow /\ Uses' = Uses /\ Elapsed' = Elapsed
  BY <1>2, <1>3, <1>5, OneThought
<1>7. Phase[t] = "Pending" /\ t \in Elapsed
  BY <1>1, At
<1> QED
  BY <1>6, <1>7, SettleMaps

(* A verdict is a Rule, and it releases the escrow. *)
LEMMA RuleStep ==
  ASSUME TypeOK, DisputesDecideOutcomes, DisputesDecideOutcomes',
         NEW resolver \in Wallets, NEW c \in ChallengeIds, NEW verdict \in BOOLEAN,
         NEW t \in ThoughtIds, t = c[1], NEW outcome,
         outcome = IF verdict THEN "Slashed" ELSE "Finalized",
         ResolveChallenged(resolver, c, verdict)
  PROVE  Lifecycle!Rule(t, outcome)
<1>1. slot' = slot
  BY DEF ResolveChallenged
<1>2. /\ Exists(thoughts[t]) /\ StatusOf(t) = "Challenged" /\ Open(c)
      /\ thoughts' = [thoughts EXCEPT ![t].status = outcome]
      /\ \A d \in ChallengeIds \ {c} : challenges'[d] = challenges[d]
  BY VerdictEffect
<1>3. StatusOf(t)' = outcome /\ UsesOf(t)' = UsesOf(t) /\ (Over(t)' <=> Over(t))
  BY <1>1, <1>2, SetStatusFields DEF Status
<1>4. EscrowOf(t)' = 0
  <2>1. OpenDisputeIsChallenged(t)'
    BY DEF DisputesDecideOutcomes
  <2>2. \A x \in Challengers : ~Open(<<t, x>>)'
    BY <1>3, <2>1 DEF OpenDisputeIsChallenged
  <2> QED
    BY <2>2, NoEscrow
<1>5. \A u \in ThoughtIds \ {t} : thoughts'[u] = thoughts[u]
  BY <1>2 DEF TypeOK
<1>6. \A u \in ThoughtIds \ {t} : Same(u)
  BY <1>1, <1>2, <1>5, OthersSame
<1>7. /\ Phase' = [Phase EXCEPT ![t] = outcome] /\ Uses' = Uses
      /\ Escrow' = [Escrow EXCEPT ![t] = 0] /\ Elapsed' = Elapsed
  BY <1>3, <1>4, <1>6, OneThought
<1>8. Phase[t] = "Challenged"
  BY <1>2, At
<1> QED
  BY <1>7, <1>8, RuleMaps

(* consume_thought is a Use: what it accepts is Finalized. *)
LEMMA UseStep ==
  ASSUME TypeOK, DisputesDecideOutcomes, DisputesDecideOutcomes', ConsumedStaysFinal',
         NEW t \in ThoughtIds, NEW action \in Actions, ConsumeThought(t, action)
  PROVE  Lifecycle!Use(t)
<1>1. /\ Exists(thoughts[t]) /\ slot' = slot /\ challenges' = challenges
      /\ thoughts' = [thoughts EXCEPT ![t].consumed_count = @ + 1]
  BY DEF ConsumeThought
<1>2. thoughts[t] \in ThoughtRecord
  BY <1>1 DEF TypeOK, Exists
<1>3. thoughts'[t].consumed_count = thoughts[t].consumed_count + 1
  BY <1>1, <1>2 DEF TypeOK, ThoughtRecord
<1>4. SameThought(t) /\ Exists(thoughts'[t])
  BY <1>1, FieldSet
<1>5. UsesOf(t)' = UsesOf(t) + 1 /\ (Over(t)' <=> Over(t))
  BY <1>1, <1>3, <1>4 DEF UsesOf, Over, SameThought
<1>6. StatusOf(t)' = StatusOf(t)
  BY ConsumedStatus
<1>7. StatusOf(t) = "Finalized"
  <2>1. thoughts'[t].status = "Finalized"
    BY <1>2, <1>3, <1>4 DEF ConsumedStaysFinal, ThoughtRecord
  <2> QED
    BY <1>4, <1>6, <2>1 DEF StatusOf
<1>8. EscrowOf(t)' = EscrowOf(t)
  <2>1. OneDispute(t) /\ OneDispute(t)'
    BY DEF DisputesDecideOutcomes
  <2> QED
    BY <1>1, <2>1, EscrowFrame
<1>9. \A u \in ThoughtIds \ {t} : thoughts'[u] = thoughts[u]
  BY <1>1 DEF TypeOK
<1>10. \A u \in ThoughtIds \ {t} : Same(u)
  BY <1>1, <1>9, OthersSame
<1>11. /\ Uses' = [Uses EXCEPT ![t] = UsesOf(t) + 1]
       /\ Phase' = Phase /\ Escrow' = Escrow /\ Elapsed' = Elapsed
  BY <1>5, <1>6, <1>8, <1>10, OneThought
<1>12. Phase[t] = "Finalized" /\ Uses[t] = UsesOf(t)
  BY <1>7, At
<1> QED
  BY <1>11, <1>12, UseMaps

(* Every other step only lets windows elapse. *)
LEMMA ElapseStep ==
  ASSUME TypeOK, DisputesDecideOutcomes, DisputesDecideOutcomes',
         slot \in Nat, slot' \in Nat, slot' >= slot, UNCHANGED <<thoughts, challenges>>
  PROVE  Lifecycle!Elapse
<1>1. \A t \in ThoughtIds : SameButOver(t)
  BY SameFrame DEF DisputesDecideOutcomes
<1>2. Phase' = Phase /\ Escrow' = Escrow /\ Uses' = Uses
  BY <1>1 DEF SameButOver, Phase, Escrow, Uses
<1>3. ASSUME NEW t \in ThoughtIds, Over(t)
      PROVE  Over(t)'
  <2>1. thoughts[t].challenge_deadline_slot \in Nat
    BY <1>3 DEF Over, TypeOK, Exists, ThoughtRecord
  <2> QED
    BY <1>3, <2>1 DEF Over
<1>4. ASSUME NEW t \in ThoughtIds, Over(t)'
      PROVE  Phase[t] # "None"
  <2>1. Exists(thoughts[t]) /\ thoughts[t].status \in Status
    BY <1>4 DEF Over, TypeOK, Exists, ThoughtRecord
  <2> QED
    BY <2>1, At DEF StatusOf, Status
<1>5. Elapsed \subseteq Elapsed' /\ Elapsed' \subseteq {t \in ThoughtIds : Phase[t] # "None"}
  BY <1>3, <1>4 DEF Elapsed
<1> QED
  BY <1>2, <1>5, ElapseMaps

(* Every instruction is an abstract step. *)
LEMMA StepMaps ==
  ASSUME TypeOK, DisputesDecideOutcomes, DisputesDecideOutcomes', ConsumedStaysFinal', [Next]_vars
  PROVE  Lifecycle!Next
<1>1. CASE UNCHANGED <<thoughts, challenges>>
  BY <1>1, Clock, ElapseStep DEF Lifecycle!Next
<1>2. ASSUME NEW t \in ThoughtIds, NEW m \in Models, NEW p \in PolicyIds, NEW seed \in Seeds,
             NEW action \in Actions, SubmitThought(t, m, p, seed, action)
      PROVE  Lifecycle!Next
  BY <1>2, SubmitStep DEF Lifecycle!Next
<1>3. ASSUME NEW t \in ThoughtIds, NEW ch \in Challengers, NEW bond \in Amounts,
             OpenChallenge(t, ch, bond)
      PROVE  Lifecycle!Next
  BY <1>3, DisputeStep DEF Lifecycle!Next
<1>4. ASSUME NEW t \in ThoughtIds, ResolveUnchallenged(t)
      PROVE  Lifecycle!Next
  BY <1>4, SettleStep DEF Lifecycle!Next
<1>5. ASSUME NEW resolver \in Wallets, NEW c \in ChallengeIds, NEW verdict \in BOOLEAN,
             ResolveChallenged(resolver, c, verdict)
      PROVE  Lifecycle!Next
  <2>1. c[1] \in ThoughtIds
    BY Names
  <2>2. (IF verdict THEN "Slashed" ELSE "Finalized") \in {"Finalized", "Slashed"}
    OBVIOUS
  <2>3. \E outcome \in {"Finalized", "Slashed"} : Lifecycle!Rule(c[1], outcome)
    BY <1>5, <2>1, <2>2, RuleStep
  <2> QED
    BY <2>1, <2>3 DEF Lifecycle!Next
<1>6. ASSUME NEW t \in ThoughtIds, NEW action \in Actions, ConsumeThought(t, action)
      PROVE  Lifecycle!Next
  BY <1>6, UseStep DEF Lifecycle!Next
<1> QED
  BY <1>1, <1>2, <1>3, <1>4, <1>5, <1>6, LifecycleSteps

----------------------------------------------------------------------------
(***************************************************************************)
(* The program implements the lifecycle: for every number of agents,       *)
(* nonces and challengers, each instruction is one step of one thought's   *)
(* lifecycle or leaves every thought as it is, and a tick only lets        *)
(* windows elapse.  That a bond is at stake exactly while a dispute is     *)
(* open needs DisputesDecideOutcomes; that only a Finalized thought is     *)
(* used needs ConsumedStaysFinal.                                          *)
(***************************************************************************)
THEOREM Implements == Spec => ImplementsLifecycle
<1>1. /\ TypeOK /\ DisputesDecideOutcomes /\ DisputesDecideOutcomes' /\ ConsumedStaysFinal'
      /\ [Next]_vars
      => [Lifecycle!Next]_(Lifecycle!tvars)
  BY StepMaps
<1>2. Init => Lifecycle!Init
  BY InitMaps DEF Init
<1> QED
  BY <1>1, <1>2, TypeCorrect, DisputesDecide, ConsumedIsFinal, PTL
  DEF Spec, ImplementsLifecycle, Lifecycle!Spec
=============================================================================
