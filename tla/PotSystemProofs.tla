--------------------------- MODULE PotSystemProofs ---------------------------
(***************************************************************************)
(* Theorems about the parts together: what the SDK reports is what is on   *)
(* chain, whichever calls time out and whichever transactions land late,   *)
(* the watcher disputes only over events that a posted trace contradicts,  *)
(* and every vault holds to the lamport what the accounts say.             *)
(***************************************************************************)
EXTENDS PotSystem, StandingProofs, LamportProofs

----------------------------------------------------------------------------
(* The steps of the system. *)

StrayPay(from, vault) ==
  /\ Pay(from, vault, StrayAmount)
  /\ strays' = [strays EXCEPT ![vault] = @ + StrayAmount]
  /\ UNCHANGED <<slot, agents, models, policies, vrfs, thoughts, challenges, burned>>

(* Who the parts are, and that every vault is one. *)
LEMMA Parts ==
  /\ Operator \in Operators /\ ThePolicy \in Policy /\ ThePolicy.resolver \in Wallets
  /\ WatcherKey \in Challengers /\ Bond \in Amounts /\ StrayAmount \in Nat
  /\ \A tx \in Transaction : ThoughtOf(tx) \in ThoughtIds /\ tx.seed \in Seeds
  /\ \A op \in Operators : StakeVault(op) \in Vaults
  /\ \A c \in ChallengeIds : BondVault(c) \in Vaults
<1>1. ThePolicy \in Policy
  BY SessionAssumption, ConstantsAssumption
<1>2. /\ Operator \in Operators /\ ThePolicy.resolver \in Wallets
      /\ WatcherKey \in Challengers /\ Bond \in Amounts /\ StrayAmount \in Nat
  BY <1>1, SessionAssumption, SystemAssumption DEF Policy, Bond
<1>3. \A tx \in Transaction : ThoughtOf(tx) \in ThoughtIds /\ tx.seed \in Seeds
  BY <1>2 DEF Transaction, ThoughtOf, ThoughtIds
<1>4. /\ \A op \in Operators : StakeVault(op) \in Vaults
      /\ \A c \in ChallengeIds : BondVault(c) \in Vaults
  BY Names, ConstantsAssumption DEF Vaults
<1> QED
  BY <1>1, <1>2, <1>3, <1>4

(* A call of the SDK changes nothing on chain. *)
LEMMA CallsLeave == Calls => UNCHANGED <<vars, submitter, committed>>
  BY DEF Calls, RequestVRF, Think, Submit, SubmitDirectly, RequestVRFReturns, SubmitReturns,
         CallThrows, Await, network

(* A call, a transaction that lands, or a step of the ledger, the storage  *)
(* or the watcher that leaves the session, the network and the seeds.      *)
LEMMA SystemSteps ==
  ASSUME [SystemNext]_systemVars
  PROVE  \/ Calls /\ UNCHANGED <<vars, submitter, committed, storage, watcher, strays>>
         \/ \E tx \in sent : LandVrf(tx) /\ UNCHANGED <<storage, watcher, strays>>
         \/ \E tx \in sent : LandAnnounced(tx)
         \/ UNCHANGED <<session, network, vrfs, policies>>
<1>1. CASE Others
  BY <1>1 DEF Others, Tick, Stake, WithdrawStake, OpenChallenge, ResolveUnchallenged,
              ResolveChallenged
<1>2. CASE \E e \in Event :
             FetchFails(e) \/ FetchAndDecide(e) \/ SubmitOk(e) \/ SubmitFails(e)
  BY <1>2 DEF FetchFails, FetchAndDecide, SubmitOk, SubmitFails, OpenChallenge, sessionVars, vars
<1>3. CASE \/ \E uri \in Uris, output \in Outputs : Upload(uri, output)
           \/ \E c \in ChallengeIds : Stray(c[2], BondVault(c))
           \/ \E op \in Operators : Stray(ThePolicy.resolver, StakeVault(op))
           \/ UNCHANGED systemVars
  BY <1>3 DEF Upload, Stray, sessionVars, systemVars, vars
<1>4. CASE \/ \E tx \in sent : FailsAfterLogging(tx)
           \/ \E e \in LoggedElsewhere : LogElsewhere(e)
  BY <1>4 DEF FailsAfterLogging, LogElsewhere, vars
<1> QED
  BY <1>1, <1>2, <1>3, <1>4, CallsLeave DEF SystemNext

(* To the program's ledger every step is an instruction of the program, a  *)
(* transfer from outside, or nothing.  Transfers from outside are made by  *)
(* a challenger to its bond vault, or to a stake vault.                    *)
LEMMA LedgerSteps ==
  ASSUME sent \subseteq Transaction, [SystemNext]_systemVars
  PROVE  \/ [Next]_vars /\ UNCHANGED strays
         \/ \E c \in ChallengeIds : StrayPay(c[2], BondVault(c))
         \/ \E op \in Operators : StrayPay(ThePolicy.resolver, StakeVault(op))
<1>1. CASE Others
  BY <1>1, Parts DEF Others, Next
<1>2. CASE \E tx \in sent : LandVrf(tx) /\ UNCHANGED <<storage, watcher, strays>>
  BY <1>2, Parts DEF LandVrf, Next
<1>3. CASE \E tx \in sent : LandAnnounced(tx)
  BY <1>3, Parts, SessionAssumption DEF LandAnnounced, LandThought, Next
<1>4. ASSUME NEW e \in Event, SubmitOk(e)
      PROVE  [Next]_vars /\ UNCHANGED strays
  <2>1. e.thought \in ThoughtIds
    BY DEF Event
  <2> QED
    BY <1>4, <2>1, Parts DEF SubmitOk, Next
<1>5. CASE \/ \E c \in ChallengeIds : Stray(c[2], BondVault(c))
           \/ \E op \in Operators : Stray(ThePolicy.resolver, StakeVault(op))
  BY <1>5 DEF Stray, StrayPay
<1>6. CASE Calls /\ UNCHANGED <<storage, watcher, strays>>
  BY <1>6, CallsLeave
<1>7. CASE \/ \E uri \in Uris, output \in Outputs : Upload(uri, output)
           \/ \E tx \in sent : FailsAfterLogging(tx)
           \/ \E e \in LoggedElsewhere : LogElsewhere(e)
           \/ \E e \in Event : FetchFails(e) \/ FetchAndDecide(e) \/ SubmitFails(e)
           \/ UNCHANGED systemVars
  BY <1>7 DEF Upload, FailsAfterLogging, LogElsewhere, FetchFails, FetchAndDecide, SubmitFails,
              sessionVars, systemVars
<1> QED
  BY <1>1, <1>2, <1>3, <1>4, <1>5, <1>6, <1>7 DEF SystemNext

(* Whichever it is, a wallet sends it and a vault gets it. *)
LEMMA StraysReachVaults ==
  ASSUME \/ \E c \in ChallengeIds : StrayPay(c[2], BondVault(c))
         \/ \E op \in Operators : StrayPay(ThePolicy.resolver, StakeVault(op))
  PROVE  \E from \in Wallets, vault \in Vaults : StrayPay(from, vault)
  BY Parts, Names

(* A transfer from outside touches no thought and no dispute. *)
LEMMA StraysTouchNoThought ==
  ASSUME NEW from, NEW vault, StrayPay(from, vault)
  PROVE  UNCHANGED <<slot, thoughts, challenges>>
  BY DEF StrayPay

(* Seeds that were issued and thoughts that were committed stay.           *)
LEMMA SeedKept ==
  ASSUME TypeOK, sent \subseteq Transaction, [SystemNext]_systemVars,
         NEW t \in ThoughtIds, Exists(vrfs[t])
  PROVE  Exists(vrfs'[t]) /\ vrfs'[t].seed = vrfs[t].seed
<1>1. CASE vrfs'[t] = vrfs[t]
  BY <1>1
<1>2. CASE [Next]_vars
  <2>1. ASSUME NEW seed \in Seeds, RequestVrf(t, seed)
        PROVE  FALSE
    BY <2>1 DEF RequestVrf
  <2>2. ASSUME NEW m \in Models, NEW p \in PolicyIds, NEW seed \in Seeds, NEW action \in Actions,
               SubmitThought(t, m, p, seed, action)
        PROVE  Exists(vrfs'[t]) /\ vrfs'[t].seed = vrfs[t].seed
    BY <2>2, SubmitEffect
  <2> QED
    BY <1>1, <1>2, <2>1, <2>2, VrfSteps
<1> QED
  BY <1>1, <1>2, LedgerSteps DEF StrayPay

(* Only submit_thought commits a thought, and it spends the seed.          *)
LEMMA ThoughtsStay ==
  ASSUME TypeOK, sent \subseteq Transaction, [SystemNext]_systemVars, NEW t \in ThoughtIds
  PROVE  /\ Exists(thoughts[t]) => Exists(thoughts'[t])
         /\ vrfs' = vrfs => (Exists(thoughts'[t]) <=> Exists(thoughts[t]))
<1>1. CASE thoughts'[t] = thoughts[t]
  BY <1>1
<1>2. CASE [Next]_vars
  <2>1. Exists(thoughts[t]) => Exists(thoughts'[t])
    BY <1>2, ThoughtKept
  <2>2. ASSUME NEW m \in Models, NEW p \in PolicyIds, NEW seed \in Seeds, NEW action \in Actions,
               SubmitThought(t, m, p, seed, action), vrfs' = vrfs
        PROVE  FALSE
    BY <2>2, SubmitEffect DEF SubmitThought, SeedUsable
  <2> QED
    BY <1>2, <2>1, <2>2, ThoughtMade
<1> QED
  BY <1>1, <1>2, LedgerSteps DEF StrayPay

(* challenge writes one account, which was not there. *)
LEMMA OpeningWrites ==
  ASSUME TypeOK, NEW t \in ThoughtIds, NEW ch \in Challengers, NEW bond \in Nat,
         OpenChallenge(t, ch, bond)
  PROVE  LET d == <<t, ch>>
         IN /\ ~Exists(challenges[d])
            /\ Open(d)' /\ challenges'[d].bond = bond
            /\ \A c \in ChallengeIds \ {d} : challenges'[c] = challenges[c]
<1> DEFINE d == <<t, ch>>
           opened == [bond |-> bond, opened_at_slot |-> slot, resolved |-> FALSE, verdict |-> FALSE]
<1>1. d \in ChallengeIds
  BY DEF ChallengeIds
<1>2. ~Exists(challenges[d]) /\ challenges' = [challenges EXCEPT ![d] = opened]
  BY DEF OpenChallenge
<1>3. /\ challenges'[d] = opened
      /\ \A c \in ChallengeIds \ {d} : challenges'[c] = challenges[c]
  BY <1>1, <1>2 DEF TypeOK
<1>4. opened \in Challenge /\ ~opened.resolved /\ opened.bond = bond
  BY DEF TypeOK, Challenge
<1> HIDE DEF opened
<1>5. Exists(opened)
  BY <1>4, ConstantsAssumption DEF Exists
<1> QED
  BY <1>2, <1>3, <1>4, <1>5 DEF Open, Exists

----------------------------------------------------------------------------
(* Type correctness. *)

(* No step of the system breaks the program's types. *)
LEMMA LedgerType ==
  ASSUME TypeOK, sent \subseteq Transaction, [SystemNext]_systemVars
  PROVE  TypeOK'
<1>1. CASE [Next]_vars
  BY <1>1, NextType
<1>2. ASSUME NEW from \in Wallets, NEW vault \in Vaults, StrayPay(from, vault)
      PROVE  TypeOK'
  <2>1. from \in Addresses /\ vault \in Addresses
    BY Names DEF Vaults
  <2>2. lamports' \in [Addresses -> Nat]
    BY <1>2, <2>1, Parts, PaymentBalances DEF StrayPay
  <2> QED
    BY <1>2, <2>2 DEF StrayPay, TypeOK
<1> QED
  BY <1>1, <1>2, LedgerSteps, StraysReachVaults

Typed == SystemTypeOK /\ IsFiniteSet(sent)

(* Awaiting a new transaction keeps the network within its bound.          *)
LEMMA AwaitType ==
  ASSUME Typed, NEW tx \in Transaction, Await(tx)
  PROVE  /\ awaited' \in Transaction \cup {Nothing}
         /\ sent' \subseteq Transaction /\ Cardinality(sent') <= MaxInFlight /\ IsFiniteSet(sent')
  BY FS_AddElement DEF Typed, SystemTypeOK, SessionTypeOK, Await

(* A transaction that lands leaves the network. *)
LEMMA LandType ==
  ASSUME Typed, NEW tx \in sent, sent' = sent \ {tx}
  PROVE  sent' \subseteq Transaction /\ Cardinality(sent') <= MaxInFlight /\ IsFiniteSet(sent')
<1>1. /\ IsFiniteSet(sent') /\ Cardinality(sent') <= Cardinality(sent)
      /\ Cardinality(sent') \in Nat /\ Cardinality(sent) \in Nat
  BY FS_Subset, FS_CardinalityType DEF Typed
<1> QED
  BY <1>1, SessionAssumption DEF Typed, SystemTypeOK, SessionTypeOK

(* submit builds a transaction from any handle and result. *)
LEMMA ArgsType ==
  ASSUME Typed, result # Nothing, handle # Nothing, NEW uri \in Uris,
         NEW hash, hash \in {HashOfText(uri), HashOfBytes(uri)}
  PROVE  SubmitArgs(uri, hash) \in Transaction
<1>1. result \in ThinkResult /\ handle \in Handle
  BY DEF Typed, SystemTypeOK, SessionTypeOK
<1> QED
  BY <1>1 DEF SubmitArgs, Transaction, Payload, ThinkResult, Handle

(* A result is of the handle it was made with, and a request under way has *)
(* dropped both.                                                           *)
SessionInv ==
  /\ result # Nothing => handle # Nothing /\ result.vrf_seed = handle.seed
  /\ awaited # Nothing => (awaited.ix = "request_vrf" => handle = Nothing /\ result = Nothing)
  /\ \A tx \in sent :
       tx.ix = "submit_thought" => tx.payload # Nothing /\ tx.payload.input_seed = tx.seed

(* Calls keep the types of the session. *)
LEMMA CallsType ==
  ASSUME Typed, SessionInv, Calls, UNCHANGED <<storage, watcher, strays>>
  PROVE  Typed' /\ SessionInv'
<1> USE DEF Typed, SystemTypeOK, SessionTypeOK, watcher
<1>1. TypeOK' /\ UNCHANGED <<submitter, committed>>
  BY CallsLeave DEF vars, TypeOK
<1>2. ASSUME NEW nonce \in Nonces, NEW seed \in Seeds, RequestVRF(nonce, seed)
      PROVE  Typed' /\ SessionInv'
  <2> DEFINE tx == [ix |-> "request_vrf", nonce |-> nonce, seed |-> seed, payload |-> Nothing]
  <2>1. tx \in Transaction /\ Await(tx)
    BY <1>2 DEF Transaction, RequestVRF
  <2>2. /\ awaited' \in Transaction \cup {Nothing}
        /\ sent' \subseteq Transaction /\ Cardinality(sent') <= MaxInFlight /\ IsFiniteSet(sent')
    BY <2>1, AwaitType
  <2>3. Typed'
    BY <1>1, <1>2, <2>1, <2>2 DEF RequestVRF, Await
  <2>4. SessionInv'
    BY <1>2, <2>1 DEF RequestVRF, Await, SessionInv
  <2> QED
    BY <2>3, <2>4
<1>3. ASSUME NEW input_seed \in Seeds, NEW output \in Outputs, Think(input_seed, output)
      PROVE  Typed' /\ SessionInv'
  <2>1. [vrf_seed |-> input_seed, output |-> output] \in ThinkResult
    BY DEF ThinkResult
  <2>2. Typed'
    BY <1>1, <1>3, <2>1 DEF Think, network
  <2>3. SessionInv'
    BY <1>3 DEF Think, SessionInv, BindsFreshness, network
  <2> QED
    BY <2>2, <2>3
<1>4. ASSUME NEW uri \in Uris, Submit(uri) \/ SubmitDirectly(uri)
      PROVE  Typed' /\ SessionInv'
  <2>1. PICK hash \in {HashOfText(uri), HashOfBytes(uri)} :
          Await(SubmitArgs(uri, hash)) /\ UNCHANGED <<handle, result>>
    BY <1>4 DEF Submit, SubmitDirectly
  <2>2. result # Nothing /\ handle # Nothing /\ result.vrf_seed = handle.seed
    BY <1>4 DEF Submit, SubmitDirectly, SessionInv
  <2>3. SubmitArgs(uri, hash) \in Transaction
    BY <2>2, ArgsType
  <2>4. /\ awaited' \in Transaction \cup {Nothing}
        /\ sent' \subseteq Transaction /\ Cardinality(sent') <= MaxInFlight /\ IsFiniteSet(sent')
    BY <2>1, <2>3, AwaitType
  <2>5. Typed'
    BY <1>1, <2>1, <2>4 DEF Await
  <2>6. /\ SubmitArgs(uri, hash).ix = "submit_thought" /\ SubmitArgs(uri, hash).payload # Nothing
        /\ SubmitArgs(uri, hash).payload.input_seed = SubmitArgs(uri, hash).seed
    <3>1. result \in ThinkResult
      BY <2>2
    <3>2. [input_seed |-> result.vrf_seed, output |-> result.output, uri |-> uri, uri_hash |-> hash]
            \in Payload
      BY <3>1 DEF Payload, ThinkResult
    <3> QED
      BY <2>2, <3>2, NothingAssumption DEF SubmitArgs
  <2>7. SessionInv'
    BY <2>1, <2>6 DEF Await, SessionInv
  <2> QED
    BY <2>5, <2>7
<1>5. CASE RequestVRFReturns
  <2>1. awaited \in Transaction
    BY <1>5 DEF RequestVRFReturns
  <2>2. [seed |-> awaited.seed, nonce |-> awaited.nonce] \in Handle
    BY <2>1 DEF Transaction, Handle
  <2>3. Typed'
    BY <1>1, <1>5, <2>2 DEF RequestVRFReturns, network
  <2>4. SessionInv'
    BY <1>5 DEF RequestVRFReturns, SessionInv, network
  <2> QED
    BY <2>3, <2>4
<1>6. CASE SubmitReturns \/ CallThrows
  <2>1. faults' \in 0 .. MaxFaults
    BY <1>6, SessionAssumption DEF SubmitReturns, CallThrows, Fault
  <2>2. Typed'
    BY <1>1, <1>6, <2>1 DEF SubmitReturns, CallThrows, network
  <2>3. SessionInv'
    BY <1>6 DEF SubmitReturns, CallThrows, SessionInv, network
  <2> QED
    BY <2>2, <2>3
<1> QED
  BY <1>2, <1>3, <1>4, <1>5, <1>6 DEF Calls

(* One more of an element in a bag. *)
LEMMA OneMore ==
  ASSUME NEW B, IsABag(B), NEW elt
  PROVE  /\ IsABag(B (+) SetToBag({elt}))
         /\ \A x : BagIn(x, B (+) SetToBag({elt})) <=> BagIn(x, B) \/ x = elt
  BY DEF IsABag, SetToBag, BagIn, BagToSet, (+)

(* One less: what is left was there. *)
LEMMA OneLess ==
  ASSUME NEW B, IsABag(B), NEW elt
  PROVE  /\ IsABag(B (-) SetToBag({elt}))
         /\ \A x : BagIn(x, B (-) SetToBag({elt})) => BagIn(x, B)
  BY DEF IsABag, SetToBag, BagIn, BagToSet, (-)

WatcherTyped ==
  /\ IsABag(fetching) /\ \A e : BagIn(e, fetching) => e \in Event
  /\ IsABag(submitting) /\ \A e : BagIn(e, submitting) => e \in Event
  /\ announced \subseteq Event

(* The watcher's part of the types, said of one event at a time.           *)
LEMMA WatcherTypes ==
  WatcherTyped <=> /\ IsABag(fetching) /\ BagToSet(fetching) \subseteq Event
                   /\ IsABag(submitting) /\ BagToSet(submitting) \subseteq Event
                   /\ announced \subseteq Event
  BY DEF WatcherTyped, BagIn

(* What a transaction says, if it is a submission, is an event. *)
LEMMA EventType ==
  ASSUME Typed, SessionInv, NEW tx \in sent, tx.ix = "submit_thought"
  PROVE  EventOf(ThoughtOf(tx), tx.payload) \in Event
<1>1. ThoughtOf(tx) \in ThoughtIds
  BY Parts DEF Typed, SystemTypeOK, SessionTypeOK
<1>2. tx.payload \in Payload
  BY DEF Typed, SystemTypeOK, SessionTypeOK, SessionInv, Transaction
<1> QED
  BY <1>1, <1>2 DEF EventOf, Event, Payload

(* What a step does to the watcher: an event reaches it, or a task moves.  *)
LEMMA WatcherSteps ==
  ASSUME Typed, SessionInv, [SystemNext]_systemVars
  PROVE  \/ UNCHANGED watcher
         \/ \E e \in Event : Announce(e)
         \/ \E e \in Event : FetchFails(e) \/ FetchAndDecide(e) \/ SubmitOk(e) \/ SubmitFails(e)
<1>1. ASSUME NEW tx \in sent, LandAnnounced(tx)
      PROVE  UNCHANGED watcher \/ \E e \in Event : Announce(e)
  BY <1>1, EventType DEF LandAnnounced, LandThought
<1>2. ASSUME NEW tx \in sent, FailsAfterLogging(tx)
      PROVE  \E e \in Event : Announce(e)
  BY <1>2, EventType DEF FailsAfterLogging
<1>3. ASSUME NEW e \in LoggedElsewhere, LogElsewhere(e)
      PROVE  \E f \in Event : Announce(f)
  BY <1>3, SystemAssumption DEF LogElsewhere
<1>4. Others => UNCHANGED watcher
  BY DEF Others
<1> QED
  BY <1>1, <1>2, <1>3, <1>4 DEF SystemNext, Upload, Stray, systemVars

(* Each keeps the watcher's types. *)
LEMMA WatcherType ==
  ASSUME Typed, SessionInv, [SystemNext]_systemVars
  PROVE  WatcherTyped'
<1>1. WatcherTyped
  BY WatcherTypes DEF Typed, SystemTypeOK
<1>2. CASE UNCHANGED watcher
  BY <1>1, <1>2 DEF watcher, WatcherTyped
<1>3. ASSUME NEW e \in Event, Announce(e)
      PROVE  WatcherTyped'
  <2>1. IsABag(fetching') /\ \A x : BagIn(x, fetching') => x \in Event
    <3>1. fetching' = fetching (+) SetToBag({e}) /\ IsABag(fetching)
      BY <1>1, <1>3 DEF Announce, WatcherTyped
    <3>2. IsABag(fetching') /\ \A x : BagIn(x, fetching') <=> BagIn(x, fetching) \/ x = e
      BY <3>1, OneMore
    <3> QED
      BY <1>1, <3>2 DEF WatcherTyped
  <2> QED
    BY <1>1, <1>3, <2>1 DEF Announce, WatcherTyped
<1>4. ASSUME NEW e \in Event, FetchFails(e)
      PROVE  WatcherTyped'
  BY <1>1, <1>4, OneLess DEF FetchFails, WatcherTyped
<1>5. ASSUME NEW e \in Event, FetchAndDecide(e)
      PROVE  WatcherTyped'
  <2>1. IsABag(fetching') /\ \A x : BagIn(x, fetching') => x \in Event
    BY <1>1, <1>5, OneLess DEF FetchAndDecide, WatcherTyped
  <2>2. IsABag(submitting') /\ \A x : BagIn(x, submitting') => x \in Event
    <3>1. submitting' = submitting (+) SetToBag({e}) \/ submitting' = submitting
      BY <1>5 DEF FetchAndDecide
    <3>2. CASE submitting' = submitting (+) SetToBag({e})
      <4>1. IsABag(submitting') /\ \A x : BagIn(x, submitting') <=> BagIn(x, submitting) \/ x = e
        BY <1>1, <3>2, OneMore DEF WatcherTyped
      <4> QED
        BY <1>1, <4>1 DEF WatcherTyped
    <3>3. CASE submitting' = submitting
      BY <1>1, <3>3 DEF WatcherTyped
    <3> QED
      BY <3>1, <3>2, <3>3
  <2> QED
    BY <1>1, <1>5, <2>1, <2>2 DEF FetchAndDecide, WatcherTyped
<1>6. ASSUME NEW e \in Event, SubmitOk(e) \/ SubmitFails(e)
      PROVE  WatcherTyped'
  <2>1. IsABag(submitting') /\ \A x : BagIn(x, submitting') => x \in Event
    BY <1>1, <1>6, OneLess DEF SubmitOk, SubmitFails, WatcherTyped
  <2> QED
    BY <1>1, <1>6, <2>1 DEF SubmitOk, SubmitFails, WatcherTyped
<1> QED
  BY <1>2, <1>3, <1>4, <1>5, <1>6, WatcherSteps

(* Every step keeps the types of the system. *)
LEMMA StepType ==
  ASSUME Typed, SessionInv, [SystemNext]_systemVars
  PROVE  Typed' /\ SessionInv'
<1> USE DEF Typed, SystemTypeOK, SessionTypeOK
<1> HIDE DEF Typed
<1>1. /\ TypeOK'
      /\ IsABag(fetching') /\ BagToSet(fetching') \subseteq Event
      /\ IsABag(submitting') /\ BagToSet(submitting') \subseteq Event
      /\ announced' \subseteq Event
  <2>1. TypeOK'
    BY LedgerType DEF Typed
  <2>2. WatcherTyped'
    BY WatcherType
  <2> QED
    BY <2>1, <2>2 DEF WatcherTyped, BagIn
<1> USE DEF Typed
<1>2. MaxFaults \in Nat /\ (Fault => faults' \in 0 .. MaxFaults)
  BY SessionAssumption DEF Fault
<1>3. CASE Calls /\ UNCHANGED <<storage, watcher, strays>>
  BY <1>3, CallsType
<1>4. ASSUME NEW tx \in sent, LandVrf(tx), UNCHANGED <<storage, watcher, strays>>
      PROVE  Typed' /\ SessionInv'
  <2>1. Typed'
    BY <1>1, <1>4, LandType DEF LandVrf, session
  <2> QED
    BY <1>4, <2>1 DEF LandVrf, session, SessionInv
<1>5. ASSUME NEW tx \in sent, LandAnnounced(tx)
      PROVE  Typed' /\ SessionInv'
  <2>1. tx.payload \in Payload \cup {Nothing}
    BY DEF Transaction
  <2>2. Typed'
    BY <1>1, <1>2, <1>5, <2>1, LandType DEF LandAnnounced, LandThought, session
  <2> QED
    BY <1>5, <2>2 DEF LandAnnounced, LandThought, session, SessionInv
<1>6. CASE UNCHANGED <<session, network>>
  <2>1. SessionInv'
    BY <1>6 DEF session, network, SessionInv
  <2>2. UNCHANGED <<submitter, awaited, handle, result, sent, committed>>
    BY <1>6 DEF session, network
  <2>3. ASSUME NEW uri \in Uris, NEW output \in Outputs, Upload(uri, output)
        PROVE  Typed'
    BY <1>1, <2>2, <2>3 DEF Upload, sessionVars
  <2>4. ASSUME NEW e \in Event,
               FetchFails(e) \/ FetchAndDecide(e) \/ SubmitOk(e) \/ SubmitFails(e)
        PROVE  Typed'
    <3>1. UNCHANGED <<storage, strays>> /\ faults' \in 0 .. MaxFaults
      BY <1>2, <2>4 DEF FetchFails, FetchAndDecide, SubmitOk, SubmitFails, sessionVars
    <3> QED
      BY <1>1, <2>2, <3>1
  <2>5. ASSUME NEW from \in Wallets, NEW vault \in Vaults, Stray(from, vault)
        PROVE  Typed'
    <3>1. strays' \in [Vaults -> Nat]
      BY <2>5, Parts DEF Stray
    <3> QED
      BY <1>1, <1>2, <2>2, <2>5, <3>1 DEF Stray
  <2>6. CASE UNCHANGED <<faults, storage, watcher, strays>>
    BY <1>1, <2>1, <2>2, <2>6
  <2>7. CASE Calls /\ UNCHANGED <<storage, watcher, strays>>
    BY <2>7, CallsType
  <2>8. CASE \/ \E tx \in sent : LandVrf(tx) /\ UNCHANGED <<storage, watcher, strays>>
             \/ \E tx \in sent : LandAnnounced(tx)
    BY <1>4, <1>5, <2>8
  <2>9. Others \/ UNCHANGED systemVars => UNCHANGED <<faults, storage, watcher, strays>>
    BY DEF Others, sessionVars, systemVars
  <2>10. CASE \/ \E tx \in sent : FailsAfterLogging(tx)
              \/ \E e \in LoggedElsewhere : LogElsewhere(e)
    BY <1>1, <1>2, <2>1, <2>2, <2>10 DEF FailsAfterLogging, LogElsewhere
  <2> QED
    BY <2>1, <2>3, <2>4, <2>5, <2>6, <2>7, <2>8, <2>9, <2>10, Parts, Names DEF SystemNext
<1> QED
  BY <1>3, <1>4, <1>5, <1>6, SystemSteps

(* The system starts well typed. *)
LEMMA InitTyped == SystemInit => Typed /\ SessionInv
<1> SUFFICES ASSUME SystemInit PROVE Typed /\ SessionInv
  OBVIOUS
<1>1. InitialStake \in Nat \ {0} /\ InitialStake <= InitialLamports /\ InitialLamports \in Nat
  BY SessionAssumption, ConstantsAssumption
<1>2. lamports \in [Addresses -> Nat]
  BY <1>1 DEF SystemInit, SessionInit, Registered
<1>3. agents \in [Operators -> AgentProfile \cup {NoAccount}]
  BY <1>1, NewAccounts DEF SystemInit, SessionInit, Registered
<1>4. policies \in [PolicyIds -> Policy \cup {NoAccount}]
  BY Parts DEF SystemInit, SessionInit, Registered
<1>5. TypeOK
  BY <1>2, <1>3, <1>4, ConstantsAssumption DEF SystemInit, SessionInit, Registered, TypeOK
<1>6. IsFiniteSet(sent) /\ Cardinality(sent) = 0
  BY FS_EmptySet DEF SystemInit, SessionInit
<1>7. IsABag(EmptyBag) /\ BagToSet(EmptyBag) = {}
  BY DEF IsABag, EmptyBag, SetToBag, BagToSet
<1>8. Typed
  BY <1>5, <1>6, <1>7, SessionAssumption DEF SystemInit, SessionInit, Typed, SystemTypeOK, SessionTypeOK
<1> QED
  BY <1>8 DEF SystemInit, SessionInit, SessionInv

(* The system is always well typed. *)
LEMMA AlwaysTyped == SystemSpec => [](Typed /\ SessionInv)
  BY InitTyped, StepType, PTL DEF SystemSpec

(***************************************************************************)
(* The session, the network and the watcher keep their types, and never    *)
(* more transactions are under way than the bound, whatever lands when.    *)
(***************************************************************************)
THEOREM SystemTypeCorrect == SystemSpec => []SystemTypeOK
<1>1. Typed => SystemTypeOK
  BY DEF Typed
<1> QED
  BY <1>1, AlwaysTyped, PTL

----------------------------------------------------------------------------
(* What is reported to the caller is what is on chain. *)

(* The transaction landed, and nothing since has taken its place. *)
Landed(tx) ==
  IF tx.ix = "request_vrf"
  THEN Exists(vrfs[ThoughtOf(tx)]) /\ vrfs[ThoughtOf(tx)].seed = tx.seed
  ELSE Exists(thoughts[ThoughtOf(tx)]) /\ committed[ThoughtOf(tx)] = tx.payload

(* The strengthening: the awaited transaction is still under way, or it is *)
(* the one that landed.                                                    *)
AwaitedLands == awaited # Nothing /\ awaited \notin sent => Landed(awaited)

(* A committed payload is never replaced. *)
LEMMA CommittedKept ==
  ASSUME Typed, [SystemNext]_systemVars, NEW t \in ThoughtIds, Exists(thoughts[t])
  PROVE  Exists(thoughts'[t]) /\ committed'[t] = committed[t]
<1> USE DEF Typed, SystemTypeOK, SessionTypeOK
<1>1. Exists(thoughts'[t])
  BY ThoughtsStay
<1>2. ASSUME NEW tx \in sent, LandAnnounced(tx)
      PROVE  committed'[t] = committed[t]
  BY <1>2 DEF LandAnnounced, LandThought, SubmitThought
<1>3. committed' = committed => committed'[t] = committed[t]
  OBVIOUS
<1> QED
  BY <1>1, <1>2, <1>3, SystemSteps DEF LandVrf, network

(* What has landed stays landed. *)
LEMMA LandedStays ==
  ASSUME Typed, [SystemNext]_systemVars, NEW tx \in Transaction, Landed(tx)
  PROVE  Landed(tx)'
<1>1. ThoughtOf(tx) \in ThoughtIds
  BY Parts
<1>2. TypeOK /\ sent \subseteq Transaction
  BY DEF Typed, SystemTypeOK, SessionTypeOK
<1> QED
  BY <1>1, <1>2, SeedKept, CommittedKept DEF Landed, ThoughtOf

(* request_vrf writes the seed it was asked for. *)
LEMMA IssuedSeed ==
  ASSUME TypeOK, NEW t \in ThoughtIds, NEW seed \in Seeds, RequestVrf(t, seed)
  PROVE  vrfs'[t].seed = seed
<1>1. vrfs' = [vrfs EXCEPT ![t] = [seed |-> seed, request_slot |-> slot, consumed |-> FALSE]]
  BY DEF RequestVrf
<1>2. vrfs'[t] = [seed |-> seed, request_slot |-> slot, consumed |-> FALSE]
  BY <1>1 DEF TypeOK
<1> QED
  BY <1>2

(* Landing makes it so. *)
LEMMA Lands ==
  ASSUME Typed, NEW tx \in sent, LandVrf(tx) \/ LandAnnounced(tx)
  PROVE  Landed(tx)'
<1> USE DEF Typed, SystemTypeOK, SessionTypeOK
<1>1. ThoughtOf(tx) \in ThoughtIds /\ tx.seed \in Seeds
  BY Parts
<1>2. CASE LandVrf(tx)
  <2>1. tx.ix = "request_vrf" /\ RequestVrf(ThoughtOf(tx), tx.seed)
    BY <1>2 DEF LandVrf
  <2>2. Exists(vrfs'[ThoughtOf(tx)]) /\ vrfs'[ThoughtOf(tx)].seed = tx.seed
    <3>1. Exists(vrfs'[ThoughtOf(tx)])
      BY <1>1, <2>1, RequestEffect
    <3>2. vrfs'[ThoughtOf(tx)].seed = tx.seed
      BY <1>1, <2>1, IssuedSeed
    <3> QED
      BY <3>1, <3>2
  <2> QED
    BY <2>1, <2>2 DEF Landed, ThoughtOf
<1>3. CASE LandAnnounced(tx)
  <2>1. /\ tx.ix = "submit_thought"
        /\ SubmitThought(ThoughtOf(tx), Model, PolicyId, tx.seed, ActionPda)
        /\ committed' = [committed EXCEPT ![ThoughtOf(tx)] = tx.payload]
    BY <1>3 DEF LandAnnounced, LandThought
  <2>2. Exists(thoughts'[ThoughtOf(tx)])
    BY <1>1, <2>1, SubmitEffect, SessionAssumption
  <2> QED
    BY <1>1, <2>1, <2>2 DEF Landed, ThoughtOf
<1> QED
  BY <1>2, <1>3

(* An awaited transaction is still in the network, or has landed. *)
LEMMA AwaitedNext ==
  ASSUME Typed, AwaitedLands, [SystemNext]_systemVars
  PROVE  AwaitedLands'
<1> SUFFICES ASSUME NEW tx, tx = awaited', tx # Nothing, tx \notin sent'
             PROVE  Landed(tx)'
  BY DEF AwaitedLands, Landed, ThoughtOf
<1>1. ASSUME tx = awaited, tx \notin sent
      PROVE  Landed(tx)'
  <2>1. tx \in Transaction /\ Landed(tx)
    BY <1>1 DEF AwaitedLands, Landed, ThoughtOf, Typed, SystemTypeOK, SessionTypeOK
  <2> QED
    BY <2>1, LandedStays
<1>2. CASE Calls
  <2>1. \/ awaited' \in {awaited, Nothing} /\ sent' = sent
        \/ awaited' \in sent'
    BY <1>2 DEF Calls, RequestVRF, Think, Submit, SubmitDirectly, RequestVRFReturns,
                SubmitReturns, CallThrows, Await, network
  <2> QED
    BY <1>1, <2>1
<1>3. ASSUME NEW landing \in sent, LandVrf(landing) \/ LandAnnounced(landing)
      PROVE  Landed(tx)'
  <2>1. awaited' = awaited /\ sent' = sent \ {landing}
    BY <1>3 DEF LandVrf, LandAnnounced, LandThought, session
  <2>2. Landed(landing)'
    BY <1>3, Lands
  <2>3. CASE tx = landing
    BY <2>2, <2>3
  <2>4. CASE tx # landing
    BY <1>1, <2>1, <2>4
  <2> QED
    BY <2>3, <2>4
<1>4. CASE UNCHANGED <<session, network>>
  BY <1>1, <1>4 DEF session, network
<1> QED
  BY <1>2, <1>3, <1>4, SystemSteps

(* A handle changes only when a request is made or returns. *)
LEMMA HandleSteps ==
  ASSUME [SystemNext]_systemVars
  PROVE  handle' \in {handle, Nothing} \/ RequestVRFReturns
<1>1. ASSUME Calls PROVE handle' \in {handle, Nothing} \/ RequestVRFReturns
  BY <1>1 DEF Calls, RequestVRF, Think, Submit, SubmitDirectly, SubmitReturns, CallThrows
<1> QED
  BY <1>1, SystemSteps DEF LandVrf, LandAnnounced, LandThought, session

(* A returned handle is of a seed that landed, and that stays. *)
LEMMA HandlesNext ==
  ASSUME Typed, AwaitedLands, HandlesAreIssued, [SystemNext]_systemVars
  PROVE  HandlesAreIssued'
<1> USE DEF Typed, SystemTypeOK, SessionTypeOK
<1> SUFFICES ASSUME submitter' = "confirms", handle' # Nothing
             PROVE  /\ Exists(vrfs'[<<Operator, handle'.nonce>>])
                    /\ vrfs'[<<Operator, handle'.nonce>>].seed = handle'.seed
  BY DEF HandlesAreIssued
<1>1. submitter = "confirms"
  BY SystemSteps DEF LandVrf, LandAnnounced, LandThought, session
<1>2. CASE handle' = handle
  <2>1. handle \in Handle
    BY <1>2
  <2>2. <<Operator, handle.nonce>> \in ThoughtIds
    BY <2>1, Parts DEF Handle, ThoughtIds
  <2>3. Exists(vrfs[<<Operator, handle.nonce>>]) /\ vrfs[<<Operator, handle.nonce>>].seed = handle.seed
    BY <1>1, <1>2 DEF HandlesAreIssued
  <2> QED
    BY <1>2, <2>2, <2>3, SeedKept
<1>3. CASE RequestVRFReturns
  <2>1. /\ awaited \in Transaction /\ awaited.ix = "request_vrf" /\ Landed(awaited)
        /\ handle' = [seed |-> awaited.seed, nonce |-> awaited.nonce]
    BY <1>1, <1>3 DEF RequestVRFReturns, Settles, AwaitedLands
  <2>2. vrfs' = vrfs
    BY <1>3 DEF RequestVRFReturns, vars
  <2> QED
    BY <2>1, <2>2 DEF Landed, ThoughtOf
<1> QED
  BY <1>2, <1>3, HandleSteps

SessionIssued == AwaitedLands /\ HandlesAreIssued

(* Both hold always. *)
LEMMA AlwaysIssued == SystemSpec => []SessionIssued
<1>1. SystemInit => SessionIssued
  BY DEF SystemInit, SessionInit, SessionIssued, AwaitedLands, HandlesAreIssued
<1>2. Typed /\ SessionIssued /\ [SystemNext]_systemVars => SessionIssued'
  BY AwaitedNext, HandlesNext DEF SessionIssued
<1> QED
  BY <1>1, <1>2, AlwaysTyped, PTL DEF SystemSpec

(***************************************************************************)
(* With a submitter that confirms, a handle is for the seed on chain under *)
(* its nonce, for any number of requests that timed out and land late.     *)
(***************************************************************************)
THEOREM HandlesAlwaysIssued == SystemSpec => []HandlesAreIssued
<1>1. SessionIssued => HandlesAreIssued
  BY DEF SessionIssued
<1> QED
  BY <1>1, AlwaysIssued, PTL

(***************************************************************************)
(* With a submitter that confirms, the submission reported to the caller   *)
(* is the one the program committed, and no earlier attempt.               *)
(***************************************************************************)
THEOREM ReportsAreTrue == SystemSpec => ReportedIsCommitted
<1>1. Typed /\ SessionIssued /\ [SystemNext]_systemVars =>
        [submitter = "confirms" /\ SubmitReturns =>
           committed[ThoughtOf(awaited)] = awaited.payload]_sessionVars
  <2> SUFFICES ASSUME SessionIssued, submitter = "confirms", SubmitReturns
               PROVE  committed[ThoughtOf(awaited)] = awaited.payload
    OBVIOUS
  <2> QED
    BY DEF SessionIssued, AwaitedLands, SubmitReturns, Settles, Landed
<1> QED
  BY <1>1, AlwaysTyped, AlwaysIssued, PTL DEF SystemSpec, ReportedIsCommitted

----------------------------------------------------------------------------
(* Committed inputs carry the issued seed. *)

Bound(t) ==
  /\ Exists(thoughts[t]) <=> committed[t] # Nothing
  /\ committed[t] # Nothing => Exists(vrfs[t]) /\ committed[t].input_seed = vrfs[t].seed

(* Every step keeps committed inputs bound to their seeds. *)
LEMMA BoundNext ==
  ASSUME Typed, SessionInv, [SystemNext]_systemVars, NEW t \in ThoughtIds, Bound(t)
  PROVE  Bound(t)'
<1> USE DEF Typed, SystemTypeOK, SessionTypeOK
<1>1. ASSUME committed'[t] = committed[t], Exists(thoughts'[t]) <=> Exists(thoughts[t])
      PROVE  Bound(t)'
  BY <1>1, SeedKept DEF Bound
<1>2. CASE vrfs' = vrfs /\ committed' = committed
  BY <1>1, <1>2, ThoughtsStay
<1>3. ASSUME NEW tx \in sent, LandVrf(tx)
      PROVE  Bound(t)'
  <2>1. UNCHANGED <<thoughts, committed>>
    BY <1>3 DEF LandVrf, RequestVrf
  <2> QED
    BY <1>1, <2>1
<1>4. ASSUME NEW tx \in sent, LandAnnounced(tx)
      PROVE  Bound(t)'
  <2>1. /\ tx.ix = "submit_thought"
        /\ SubmitThought(ThoughtOf(tx), Model, PolicyId, tx.seed, ActionPda)
        /\ committed' = [committed EXCEPT ![ThoughtOf(tx)] = tx.payload]
    BY <1>4 DEF LandAnnounced, LandThought
  <2>2. CASE ThoughtOf(tx) # t
    <3>1. committed'[t] = committed[t] /\ thoughts'[t] = thoughts[t]
      BY <2>1, <2>2 DEF SubmitThought
    <3> QED
      BY <1>1, <3>1
  <2>3. CASE ThoughtOf(tx) = t
    <3>1. /\ vrfs[t].seed = tx.seed /\ Exists(vrfs'[t]) /\ vrfs'[t].seed = vrfs[t].seed
          /\ Exists(thoughts'[t])
      BY <2>1, <2>3, SubmitEffect, SessionAssumption, Parts
    <3>2. committed'[t] # Nothing /\ committed'[t].input_seed = tx.seed
      BY <2>1, <2>3 DEF SessionInv
    <3> QED
      BY <3>1, <3>2 DEF Bound
  <2> QED
    BY <2>2, <2>3
<1> QED
  BY <1>2, <1>3, <1>4, SystemSteps DEF vars, network

AllBound == \A t \in ThoughtIds : Bound(t)

(* Committed inputs are always bound to their seeds. *)
LEMMA AlwaysBound == SystemSpec => []AllBound
<1>1. SystemInit => AllBound
  BY DEF SystemInit, SessionInit, Registered, AllBound, Bound, Exists
<1>2. Typed /\ SessionInv /\ AllBound /\ [SystemNext]_systemVars => AllBound'
  BY BoundNext DEF AllBound
<1> QED
  BY <1>1, <1>2, AlwaysTyped, PTL DEF SystemSpec

(***************************************************************************)
(* Every committed input carries the seed issued for its nonce, whatever   *)
(* the submitter and whichever attempts land.                              *)
(***************************************************************************)
THEOREM InputsAreBound == SystemSpec => []InputsBindSeeds
<1>1. AllBound => InputsBindSeeds
  BY DEF AllBound, Bound, InputsBindSeeds
<1> QED
  BY <1>1, AlwaysBound, PTL

----------------------------------------------------------------------------
(* The watcher's disputes. *)

(* A task has its event from an announcement; it submits only over one     *)
(* that the posted trace belies.                                           *)
TasksJustified ==
  /\ \A e \in Event : BagIn(e, fetching) \/ BagIn(e, submitting) => e \in announced
  /\ \A e \in Event : BagIn(e, submitting) => Belied(e)

Against(e, t) == e.thought = t /\ Belied(e)
Justified(t) == Exists(challenges[<<t, WatcherKey>>]) => \E e \in announced : Against(e, t)

(* Storage is permanent: what belies an event stands. *)
LEMMA BeliedStands ==
  ASSUME Typed, [SystemNext]_systemVars, NEW e \in Event, Belied(e)
  PROVE  Belied(e)'
<1>1. storage \in [Uris -> Outputs \cup {Nothing}]
  BY DEF Typed, SystemTypeOK
<1>2. \A u \in Uris : storage[u] # Nothing => storage'[u] = storage[u]
  <2>1. ASSUME NEW uri \in Uris, NEW output \in Outputs, Upload(uri, output)
        PROVE  \A u \in Uris : storage[u] # Nothing => storage'[u] = storage[u]
    BY <1>1, <2>1 DEF Upload
  <2>2. storage' = storage => \A u \in Uris : storage[u] # Nothing => storage'[u] = storage[u]
    OBVIOUS
  <2> QED
    BY <2>1, <2>2 DEF SystemNext, LandAnnounced, FailsAfterLogging, LogElsewhere, FetchFails,
       FetchAndDecide, SubmitOk, SubmitFails, Stray, Others, systemVars
<1>3. e.uri \in Uris
  BY DEF Event
<1> QED
  BY <1>2, <1>3 DEF Belied, UriIntact

(* Nobody else opens a challenge in the watcher's name. *)
LEMMA WatcherOpens ==
  ASSUME TypeOK, [SystemNext]_systemVars, NEW t \in ThoughtIds,
         ~Exists(challenges[<<t, WatcherKey>>]), Exists(challenges'[<<t, WatcherKey>>])
  PROVE  \E e \in Event : e.thought = t /\ SubmitOk(e)
<1> DEFINE d == <<t, WatcherKey>>
<1>1. d \in ChallengeIds /\ challenges'[d] # challenges[d] /\ challenges' # challenges
  BY Parts DEF ChallengeIds, Exists
<1>2. ASSUME NEW e \in Event, SubmitOk(e)
      PROVE  e.thought = t
  BY <1>1, <1>2 DEF SubmitOk, OpenChallenge, TypeOK
<1>3. ASSUME NEW u \in ThoughtIds, NEW rival \in Challengers \ {WatcherKey}, NEW bond \in Amounts,
             OpenChallenge(u, rival, bond)
      PROVE  FALSE
  BY <1>1, <1>3 DEF OpenChallenge, TypeOK
<1>4. ASSUME NEW c \in ChallengeIds, NEW verdict \in BOOLEAN,
             ResolveChallenged(ThePolicy.resolver, c, verdict)
      PROVE  FALSE
  <2>1. Exists(challenges[c]) /\ \A e \in ChallengeIds \ {c} : challenges'[e] = challenges[e]
    BY <1>4, VerdictEffect, Parts DEF Open
  <2> QED
    BY <1>1, <2>1
<1>5. CASE Others
  BY <1>1, <1>3, <1>4, <1>5
  DEF Others, Tick, Stake, WithdrawStake, ResolveUnchallenged
<1>6. Calls => UNCHANGED challenges
  BY CallsLeave DEF vars
<1> QED
  BY <1>1, <1>2, <1>5, <1>6
  DEF SystemNext, LandVrf, RequestVrf, LandAnnounced, LandThought, SubmitThought, Upload,
      FailsAfterLogging, LogElsewhere, FetchFails, FetchAndDecide, SubmitFails, Stray,
      sessionVars, systemVars, vars

(* decide says File only over a Mismatch. *)
LEMMA FilesOverMismatch ==
  ASSUME NEW outcome \in {"Match", "Mismatch"}, NEW inFlight,
         Filer!Decide(Strategy, outcome, AgentStake, BondMin, inFlight) = "File"
  PROVE  outcome = "Mismatch"
  BY SystemAssumption DEF Filer!Decide, Filer!Strategies

(* From a mismatch to the submission, a task rests on an event belied.     *)
LEMMA TasksNext ==
  ASSUME Typed, SessionInv, TasksJustified, [SystemNext]_systemVars
  PROVE  TasksJustified'
<1>1. IsABag(fetching) /\ IsABag(submitting)
  BY DEF Typed, SystemTypeOK
<1>2. \A e \in Event : Belied(e) => Belied(e)'
  BY BeliedStands
<1>3. ASSUME announced \subseteq announced',
             \A e \in Event : BagIn(e, fetching') => BagIn(e, fetching) \/ e \in announced',
             \A e \in Event : BagIn(e, submitting') =>
                                BagIn(e, submitting) \/ (e \in announced' /\ Belied(e))
      PROVE  TasksJustified'
  BY <1>2, <1>3 DEF TasksJustified
<1>4. CASE UNCHANGED watcher
  BY <1>3, <1>4 DEF watcher
<1>5. ASSUME NEW a \in Event, Announce(a)
      PROVE  TasksJustified'
  BY <1>1, <1>3, <1>5, OneMore DEF Announce
<1>6. ASSUME NEW a \in Event, FetchFails(a)
      PROVE  TasksJustified'
  BY <1>1, <1>3, <1>6, OneLess DEF FetchFails
<1>7. ASSUME NEW a \in Event, FetchAndDecide(a)
      PROVE  TasksJustified'
  <2>1. /\ announced' = announced /\ BagIn(a, fetching) /\ Fetchable(a)
        /\ \A e \in Event : BagIn(e, fetching') => BagIn(e, fetching)
    BY <1>1, <1>7, OneLess DEF FetchAndDecide
  <2>2. CASE Filer!Decide(Strategy, Outcome(a), AgentStake, BondMin, InFlight) = "File"
    <3>1. Outcome(a) = "Mismatch"
      BY <2>2, FilesOverMismatch DEF Outcome
    <3>2. Belied(a)
      BY <2>1, <3>1 DEF Outcome, Fetchable, Belied
    <3>3. \A e \in Event : BagIn(e, submitting') => BagIn(e, submitting) \/ e = a
      BY <1>1, <1>7, <2>2, OneMore DEF FetchAndDecide
    <3>4. a \in announced
      BY <2>1 DEF TasksJustified
    <3> QED
      BY <1>3, <2>1, <3>2, <3>3, <3>4
  <2>3. CASE Filer!Decide(Strategy, Outcome(a), AgentStake, BondMin, InFlight) # "File"
    <3>1. submitting' = submitting
      BY <1>7, <2>3 DEF FetchAndDecide
    <3> QED
      BY <1>3, <2>1, <3>1
  <2> QED
    BY <2>2, <2>3
<1>8. ASSUME NEW a \in Event, SubmitOk(a) \/ SubmitFails(a)
      PROVE  TasksJustified'
  BY <1>1, <1>3, <1>8, OneLess DEF SubmitOk, SubmitFails
<1> QED
  BY <1>4, <1>5, <1>6, <1>7, <1>8, WatcherSteps

(* So a challenge is over an event that was announced and is belied.       *)
LEMMA JustifiedNext ==
  ASSUME Typed, SessionInv, TasksJustified, [SystemNext]_systemVars,
         NEW t \in ThoughtIds, Justified(t)
  PROVE  Justified(t)'
<1>1. announced \subseteq announced'
  BY WatcherSteps DEF watcher, Announce, FetchFails, FetchAndDecide, SubmitOk, SubmitFails
<1>2. ASSUME NEW e \in announced, Against(e, t)
      PROVE  Justified(t)'
  <2>1. e \in Event
    BY DEF Typed, SystemTypeOK
  <2>2. e \in announced' /\ Against(e, t)'
    BY <1>1, <1>2, <2>1, BeliedStands DEF Against
  <2> QED
    BY <2>2 DEF Justified
<1>3. CASE Exists(challenges[<<t, WatcherKey>>])
  BY <1>2, <1>3 DEF Justified
<1>4. CASE ~Exists(challenges[<<t, WatcherKey>>]) /\ Exists(challenges'[<<t, WatcherKey>>])
  <2>1. PICK e \in Event : e.thought = t /\ SubmitOk(e)
    BY <1>4, WatcherOpens DEF Typed, SystemTypeOK, SessionTypeOK
  <2>2. e \in announced /\ Against(e, t)
    BY <2>1 DEF SubmitOk, TasksJustified, Against
  <2> QED
    BY <1>2, <2>2
<1> QED
  BY <1>3, <1>4 DEF Justified, Exists

AllJustified == TasksJustified /\ \A t \in ThoughtIds : Justified(t)

(* So are all its challenges, always. *)
LEMMA AlwaysJustified == SystemSpec => []AllJustified
<1>1. SystemInit => AllJustified
  <2> SUFFICES ASSUME SystemInit PROVE AllJustified
    OBVIOUS
  <2>1. \A e : ~BagIn(e, fetching) /\ ~BagIn(e, submitting)
    BY DEF SystemInit, EmptyBag, SetToBag, BagIn, BagToSet
  <2>2. \A t \in ThoughtIds : Justified(t)
    BY Parts DEF SystemInit, SessionInit, Registered, Justified, Exists, ChallengeIds
  <2> QED
    BY <2>1, <2>2 DEF AllJustified, TasksJustified
<1>2. Typed /\ SessionInv /\ AllJustified /\ [SystemNext]_systemVars => AllJustified'
  BY TasksNext, JustifiedNext DEF AllJustified
<1> QED
  BY <1>1, <1>2, AlwaysTyped, PTL DEF SystemSpec

(* A belied event that says what the thought committed is the thought's    *)
(* own contradiction; any other misled the watcher.                        *)
LEMMA JustifiedMeans ==
  ASSUME NEW t \in ThoughtIds, NEW e \in announced, Against(e, t)
  PROVE  Contradicted(t) \/ Misled(t)
<1>1. CASE IsCommitted(e)
  <2>1. committed[t] # Nothing /\ e = EventOf(t, committed[t])
    BY <1>1 DEF IsCommitted, Against
  <2>2. e.uri = committed[t].uri /\ e.output = committed[t].output
    BY <2>1 DEF EventOf
  <2> QED
    BY <2>1, <2>2 DEF Against, Belied, Contradicted
<1>2. CASE ~IsCommitted(e)
  BY <1>2 DEF Against, Misled
<1> QED
  BY <1>1, <1>2

(***************************************************************************)
(* The watcher disputes a thought only over an event that the posted trace *)
(* contradicts: what the thought itself committed, or, where a transaction *)
(* that failed after logging or a line of another program said something   *)
(* else of it, that.  For any attempts, uploads, events and late filings;  *)
(* and it stays so.                                                        *)
(***************************************************************************)
THEOREM DisputesAreJustified == SystemSpec => []WatcherDisputesContradictions
<1>1. AllJustified => WatcherDisputesContradictions
  BY JustifiedMeans DEF AllJustified, Justified, WatcherDisputesContradictions
<1> QED
  BY <1>1, AlwaysJustified, PTL

----------------------------------------------------------------------------
(* The vaults, to the lamport. *)

(* A payment between two different addresses changes those two alone.      *)
LEMMA TransferExact ==
  ASSUME NEW l \in [Addresses -> Nat], NEW from \in Addresses, NEW to \in Addresses,
         NEW amount \in Nat, l[from] >= amount, from # to
  PROVE  /\ Transfer(l, from, to, amount) \in [Addresses -> Nat]
         /\ Transfer(l, from, to, amount)[from] = l[from] - amount
         /\ Transfer(l, from, to, amount)[to] = l[to] + amount
         /\ \A a \in Addresses \ {from, to} : Transfer(l, from, to, amount)[a] = l[a]
  BY DEF Transfer

(* A vault is an address and no wallet. *)
LEMMA VaultNames ==
  /\ \A op \in Operators : StakeVault(op) \in Vaults
  /\ \A c \in ChallengeIds : BondVault(c) \in Vaults
  /\ \A v \in Vaults : v \in Addresses /\ v \notin Wallets
  /\ \A w \in Wallets : w \in Addresses
  BY Parts, Names DEF Vaults

(* A payment out of a vault to a wallet, and one into a vault. *)
LEMMA PaysOut ==
  ASSUME NEW l \in [Addresses -> Nat], NEW vault \in Vaults, NEW w \in Wallets,
         NEW amount \in Nat, l[vault] >= amount
  PROVE  /\ Transfer(l, vault, w, amount) \in [Addresses -> Nat]
         /\ Transfer(l, vault, w, amount)[vault] = l[vault] - amount
         /\ \A v \in Vaults \ {vault} : Transfer(l, vault, w, amount)[v] = l[v]
<1>1. vault \in Addresses /\ w \in Addresses /\ vault # w
  BY VaultNames
<1>2. /\ Transfer(l, vault, w, amount) \in [Addresses -> Nat]
      /\ Transfer(l, vault, w, amount)[vault] = l[vault] - amount
      /\ \A a \in Addresses \ {vault, w} : Transfer(l, vault, w, amount)[a] = l[a]
  BY <1>1, TransferExact
<1>3. \A v \in Vaults \ {vault} : v \in Addresses \ {vault, w}
  BY VaultNames
<1> QED
  BY <1>2, <1>3

(* A payment by a wallet into a vault adds to that vault alone. *)
LEMMA PaysIn ==
  ASSUME NEW l \in [Addresses -> Nat], NEW vault \in Vaults, NEW w \in Wallets,
         NEW amount \in Nat, l[w] >= amount
  PROVE  /\ Transfer(l, w, vault, amount)[vault] = l[vault] + amount
         /\ \A v \in Vaults \ {vault} : Transfer(l, w, vault, amount)[v] = l[v]
<1>1. vault \in Addresses /\ w \in Addresses /\ vault # w
  BY VaultNames
<1> QED
  BY <1>1, TransferExact, VaultNames

(* A slash takes both shares from the stake vault and the bond from its own. *)
LEMMA SlashExact ==
  ASSUME TypeOK, NEW c \in ChallengeIds, NEW treasury \in Wallets,
         NEW op, op = c[1][1], NEW stake, stake = agents[op].stake_amount,
         NEW bond, bond = challenges[c].bond,
         Exists(agents[op]), Exists(challenges[c]), Slash(c, treasury)
  PROVE  /\ lamports'[StakeVault(op)]
              = lamports[StakeVault(op)] - ToChallenger(stake) - ToTreasury(stake)
         /\ lamports'[BondVault(c)] = lamports[BondVault(c)] - bond
         /\ \A v \in Vaults \ {StakeVault(op), BondVault(c)} : lamports'[v] = lamports[v]
<1> DEFINE vault == StakeVault(op)
           rewarded == Transfer(lamports, vault, c[2], ToChallenger(stake))
           taxed == Transfer(rewarded, vault, treasury, ToTreasury(stake))
<1>1. /\ vault \in Vaults /\ BondVault(c) \in Vaults /\ c[2] \in Wallets
      /\ op \in Operators /\ vault # BondVault(c)
  BY Names, VaultNames, Distinct
<1>2. stake \in Nat /\ bond \in Nat /\ lamports \in [Addresses -> Nat]
  BY <1>1 DEF TypeOK, Exists, AgentProfile, Challenge
<1>3. ToChallenger(stake) \in Nat /\ ToTreasury(stake) \in Nat
  BY <1>2, Splits
<1>4. /\ lamports[vault] >= ToChallenger(stake) + ToTreasury(stake)
      /\ lamports[BondVault(c)] >= bond
      /\ lamports' = Transfer(taxed, BondVault(c), c[2], bond)
  BY DEF Slash, ReturnBond
<1> HIDE DEF vault
<1>5. /\ rewarded \in [Addresses -> Nat]
      /\ rewarded[vault] = lamports[vault] - ToChallenger(stake)
      /\ \A v \in Vaults \ {vault} : rewarded[v] = lamports[v]
  <2>1. lamports[vault] >= ToChallenger(stake)
    BY <1>1, <1>2, <1>3, <1>4, VaultNames
  <2> QED
    BY <1>1, <1>2, <1>3, <2>1, PaysOut
<1> HIDE DEF rewarded
<1>6. /\ taxed \in [Addresses -> Nat]
      /\ taxed[vault] = rewarded[vault] - ToTreasury(stake)
      /\ \A v \in Vaults \ {vault} : taxed[v] = rewarded[v]
  <2>1. rewarded[vault] >= ToTreasury(stake)
    BY <1>1, <1>2, <1>3, <1>4, <1>5, VaultNames
  <2> QED
    BY <1>1, <1>3, <1>5, <2>1, PaysOut
<1> HIDE DEF taxed
<1>7. taxed[BondVault(c)] = lamports[BondVault(c)]
  BY <1>1, <1>5, <1>6
<1>8. /\ lamports'[BondVault(c)] = taxed[BondVault(c)] - bond
      /\ \A v \in Vaults \ {BondVault(c)} : lamports'[v] = taxed[v]
  BY <1>1, <1>2, <1>4, <1>6, <1>7, PaysOut
<1> QED
  BY <1>1, <1>5, <1>6, <1>7, <1>8 DEF vault

(* An acquittal takes the bond from its vault, and nothing from others. *)
LEMMA AcquitExact ==
  ASSUME TypeOK, NEW c \in ChallengeIds, NEW treasury \in Wallets,
         NEW bond, bond = challenges[c].bond, Exists(challenges[c]), Acquit(c, treasury)
  PROVE  /\ lamports'[BondVault(c)] = lamports[BondVault(c)] - bond
         /\ \A v \in Vaults \ {BondVault(c)} : lamports'[v] = lamports[v]
<1> DEFINE op == c[1][1]
           paid == Transfer(lamports, BondVault(c), op, ToAgent(bond))
<1>1. BondVault(c) \in Vaults /\ op \in Wallets
  BY Names, VaultNames
<1>2. bond \in Nat /\ lamports \in [Addresses -> Nat]
  BY DEF TypeOK, Exists, Challenge
<1>3. ToAgent(bond) \in Nat /\ TaxOnBond(bond) \in Nat /\ ToAgent(bond) + TaxOnBond(bond) = bond
  BY <1>2, Splits
<1>4. /\ lamports[BondVault(c)] >= bond
      /\ lamports' = Transfer(paid, BondVault(c), treasury, TaxOnBond(bond))
  BY DEF Acquit
<1>5. /\ paid \in [Addresses -> Nat]
      /\ paid[BondVault(c)] = lamports[BondVault(c)] - ToAgent(bond)
      /\ \A v \in Vaults \ {BondVault(c)} : paid[v] = lamports[v]
  <2>1. lamports[BondVault(c)] >= ToAgent(bond)
    BY <1>1, <1>2, <1>3, <1>4, VaultNames
  <2> QED
    BY <1>1, <1>2, <1>3, <2>1, PaysOut
<1> HIDE DEF paid
<1>6. paid[BondVault(c)] >= TaxOnBond(bond)
  BY <1>1, <1>2, <1>3, <1>4, <1>5, VaultNames
<1>7. /\ lamports'[BondVault(c)] = paid[BondVault(c)] - TaxOnBond(bond)
      /\ \A v \in Vaults \ {BondVault(c)} : lamports'[v] = paid[v]
  BY <1>1, <1>3, <1>4, <1>5, <1>6, PaysOut
<1> QED
  BY <1>1, <1>2, <1>3, <1>5, <1>7, VaultNames

(* What the vaults are compared with are natural numbers. *)
LEMMA NaturalAmounts ==
  ASSUME TypeOK, strays \in [Vaults -> Nat]
  PROVE  /\ \A op \in Operators :
              StakeOf(op) \in Nat /\ burned[op] \in Nat /\ strays[StakeVault(op)] \in Nat
         /\ \A c \in ChallengeIds :
              strays[BondVault(c)] \in Nat /\ (Exists(challenges[c]) => challenges[c].bond \in Nat)
         /\ \A a \in Addresses : lamports[a] \in Nat
  BY VaultNames DEF TypeOK, StakeOf, Exists, AgentProfile, Challenge

(* A stray transfer adds the same to the vault and to its strays. *)
LEMMA StraysExact ==
  ASSUME TypeOK, strays \in [Vaults -> Nat], StraysStayPut,
         NEW from \in Wallets, NEW vault \in Vaults, StrayPay(from, vault)
  PROVE  StraysStayPut'
<1>1. /\ lamports'[vault] = lamports[vault] + StrayAmount
      /\ strays'[vault] = strays[vault] + StrayAmount
      /\ \A v \in Vaults \ {vault} : lamports'[v] = lamports[v] /\ strays'[v] = strays[v]
  <2>1. /\ lamports[from] >= StrayAmount /\ lamports' = Transfer(lamports, from, vault, StrayAmount)
        /\ lamports \in [Addresses -> Nat]
        /\ strays' = [strays EXCEPT ![vault] = @ + StrayAmount]
    BY DEF StrayPay, Pay, TypeOK
  <2> QED
    BY <2>1, Parts, PaysIn
<1>2. /\ \A op \in Operators : StakeOf(op)' = StakeOf(op) /\ burned'[op] = burned[op]
      /\ \A c \in ChallengeIds : (Open(c)' <=> Open(c)) /\ challenges'[c].bond = challenges[c].bond
  BY DEF StrayPay, StakeOf, Open, Exists
<1>3. ASSUME NEW op \in Operators
      PROVE  lamports'[StakeVault(op)] = StakeOf(op)' + burned'[op] + strays'[StakeVault(op)]
  <2>1. lamports[StakeVault(op)] = StakeOf(op) + burned[op] + strays[StakeVault(op)]
    BY DEF StraysStayPut
  <2> QED
    BY <1>1, <1>2, <2>1, VaultNames, NaturalAmounts, Parts
<1>4. ASSUME NEW c \in ChallengeIds
      PROVE  lamports'[BondVault(c)]
               = (IF Open(c)' THEN challenges'[c].bond ELSE 0) + strays'[BondVault(c)]
  <2>1. lamports[BondVault(c)] = (IF Open(c) THEN challenges[c].bond ELSE 0) + strays[BondVault(c)]
    BY DEF StraysStayPut
  <2>2. Open(c) => challenges[c].bond \in Nat
    BY NaturalAmounts DEF Open
  <2> QED
    BY <1>1, <1>2, <2>1, <2>2, VaultNames, NaturalAmounts, Parts
<1> QED
  BY <1>3, <1>4 DEF StraysStayPut

(* Steps that move no lamports in or out of a vault. *)
LEMMA QuietExact ==
  ASSUME StraysStayPut, UNCHANGED <<challenges, burned, strays>>,
         \A v \in Vaults : lamports'[v] = lamports[v],
         \A op \in Operators : StakeOf(op)' = StakeOf(op)
  PROVE  StraysStayPut'
<1>1. \A op \in Operators : lamports'[StakeVault(op)] = StakeOf(op)' + burned'[op] + strays'[StakeVault(op)]
  BY VaultNames DEF StraysStayPut
<1>2. ASSUME NEW c \in ChallengeIds
      PROVE  lamports'[BondVault(c)]
               = (IF Open(c)' THEN challenges'[c].bond ELSE 0) + strays'[BondVault(c)]
  <2>1. (Open(c)' <=> Open(c)) /\ lamports'[BondVault(c)] = lamports[BondVault(c)]
    BY VaultNames DEF Open, Exists
  <2> QED
    BY <2>1 DEF StraysStayPut
<1> QED
  BY <1>1, <1>2 DEF StraysStayPut

(* Staking and withdrawing move the recorded stake and its vault together. *)
LEMMA StakingExact ==
  ASSUME TypeOK, strays \in [Vaults -> Nat], StraysStayPut, UNCHANGED strays,
         NEW o \in Operators, NEW amount \in Amounts,
         RegisterAgent(o, amount) \/ Stake(o, amount) \/ WithdrawStake(o, amount)
  PROVE  StraysStayPut'
<1>1. /\ StakeVault(o) \in Vaults /\ o \in Wallets /\ amount \in Nat
      /\ lamports \in [Addresses -> Nat] /\ UNCHANGED <<challenges, burned>>
  BY Names, VaultNames, ConstantsAssumption DEF TypeOK, RegisterAgent, Stake, WithdrawStake
<1>2. \A v \in Vaults \ {StakeVault(o)} : lamports'[v] = lamports[v]
  BY <1>1, PaysIn, PaysOut DEF Pay, RegisterAgent, Stake, WithdrawStake
<1>3. ASSUME NEW op \in Operators, op # o
      PROVE  StakeOf(op)' = StakeOf(op) /\ lamports'[StakeVault(op)] = lamports[StakeVault(op)]
  <2>1. agents'[op] = agents[op]
    BY <1>3 DEF RegisterAgent, Stake, WithdrawStake, TypeOK
  <2>2. StakeVault(op) \in Vaults \ {StakeVault(o)}
    BY <1>3, VaultNames, Distinct
  <2> QED
    BY <1>2, <2>1, <2>2 DEF StakeOf, Exists
<1>4. lamports'[StakeVault(o)] = StakeOf(o)' + burned[o] + strays[StakeVault(o)]
  <2>1. /\ lamports[StakeVault(o)] = StakeOf(o) + burned[o] + strays[StakeVault(o)]
        /\ StakeOf(o) \in Nat /\ burned[o] \in Nat /\ strays[StakeVault(o)] \in Nat
    BY NaturalAmounts DEF StraysStayPut
  <2>2. CASE RegisterAgent(o, amount)
    <3>1. StakeOf(o) = 0 /\ StakeOf(o)' = amount
      <4>1. NewAgent(amount) \in AgentProfile
        BY <1>1 DEF NewAgent, AgentProfile
      <4>2. agents'[o] = NewAgent(amount) /\ agents'[o].stake_amount = amount
        BY <2>2 DEF RegisterAgent, TypeOK, NewAgent
      <4> QED
        BY <2>2, <4>1, <4>2, ConstantsAssumption DEF RegisterAgent, StakeOf, Exists
    <3>2. lamports'[StakeVault(o)] = lamports[StakeVault(o)] + amount
      BY <1>1, <2>2, PaysIn DEF RegisterAgent, Pay
    <3> QED
      BY <1>1, <2>1, <3>1, <3>2
  <2>3. CASE Stake(o, amount)
    <3>1. StakeOf(o)' = StakeOf(o) + amount
      BY <1>1, <2>3, ConstantsAssumption DEF Stake, TypeOK, StakeOf, Exists, AgentProfile
    <3>2. lamports'[StakeVault(o)] = lamports[StakeVault(o)] + amount
      BY <1>1, <2>3, PaysIn DEF Stake, Pay
    <3> QED
      BY <1>1, <2>1, <3>1, <3>2
  <2>4. CASE WithdrawStake(o, amount)
    <3>1. StakeOf(o)' = StakeOf(o) - amount /\ StakeOf(o)' \in Nat
      BY <1>1, <2>4, ConstantsAssumption
      DEF WithdrawStake, MayWithdraw, TypeOK, StakeOf, Exists, AgentProfile
    <3>2. lamports'[StakeVault(o)] = lamports[StakeVault(o)] - amount
      BY <1>1, <2>4, PaysOut DEF WithdrawStake, Pay
    <3> QED
      BY <1>1, <2>1, <3>1, <3>2
  <2> QED
    BY <2>2, <2>3, <2>4
<1>5. ASSUME NEW op \in Operators
      PROVE  lamports'[StakeVault(op)] = StakeOf(op)' + burned'[op] + strays'[StakeVault(op)]
  BY <1>1, <1>3, <1>4 DEF StraysStayPut
<1>6. ASSUME NEW c \in ChallengeIds
      PROVE  lamports'[BondVault(c)]
               = (IF Open(c)' THEN challenges'[c].bond ELSE 0) + strays'[BondVault(c)]
  <2>1. BondVault(c) \in Vaults \ {StakeVault(o)}
    BY VaultNames, Distinct
  <2>2. (Open(c)' <=> Open(c)) /\ lamports'[BondVault(c)] = lamports[BondVault(c)]
    BY <1>1, <1>2, <2>1 DEF Open, Exists
  <2> QED
    BY <1>1, <2>2 DEF StraysStayPut
<1> QED
  BY <1>5, <1>6 DEF StraysStayPut

(* A new challenge puts its bond into a vault that held strays at most.    *)
LEMMA OpeningExact ==
  ASSUME TypeOK, strays \in [Vaults -> Nat], StraysStayPut, UNCHANGED strays,
         NEW t \in ThoughtIds, NEW ch \in Challengers, NEW bond \in Amounts,
         OpenChallenge(t, ch, bond)
  PROVE  StraysStayPut'
<1> DEFINE d == <<t, ch>>
<1>1. /\ d \in ChallengeIds /\ BondVault(d) \in Vaults /\ ch \in Wallets /\ bond \in Nat
      /\ lamports \in [Addresses -> Nat] /\ UNCHANGED <<agents, burned>>
  BY VaultNames, ConstantsAssumption DEF ChallengeIds, TypeOK, OpenChallenge
<1>2. /\ lamports'[BondVault(d)] = lamports[BondVault(d)] + bond
      /\ \A v \in Vaults \ {BondVault(d)} : lamports'[v] = lamports[v]
  BY <1>1, PaysIn DEF OpenChallenge, LockBond, Pay
<1>3. /\ ~Open(d) /\ Open(d)' /\ challenges'[d].bond = bond
      /\ \A c \in ChallengeIds \ {d} : challenges'[c] = challenges[c]
  BY <1>1, OpeningWrites DEF Open, Exists
<1> HIDE DEF d
<1>4. ASSUME NEW op \in Operators
      PROVE  lamports'[StakeVault(op)] = StakeOf(op)' + burned'[op] + strays'[StakeVault(op)]
  <2>1. StakeVault(op) \in Vaults \ {BondVault(d)}
    BY <1>1, VaultNames, Distinct
  <2>2. StakeOf(op)' = StakeOf(op)
    BY <1>1 DEF StakeOf, Exists
  <2> QED
    BY <1>1, <1>2, <2>1, <2>2 DEF StraysStayPut
<1>5. ASSUME NEW c \in ChallengeIds
      PROVE  lamports'[BondVault(c)]
               = (IF Open(c)' THEN challenges'[c].bond ELSE 0) + strays'[BondVault(c)]
  <2>1. CASE c = d
    BY <1>1, <1>2, <1>3, <2>1, NaturalAmounts DEF StraysStayPut
  <2>2. CASE c # d
    <3>1. BondVault(c) \in Vaults \ {BondVault(d)}
      BY <1>1, <2>2, VaultNames, Distinct
    <3>2. Open(c)' <=> Open(c)
      BY <1>3, <2>2 DEF Open, Exists
    <3> QED
      BY <1>2, <1>3, <2>2, <3>1, <3>2 DEF StraysStayPut
  <2> QED
    BY <2>1, <2>2
<1> QED
  BY <1>4, <1>5 DEF StraysStayPut

(* A verdict empties the bond vault of the bond, and a slash the stake     *)
(* vault of the stake, but for what it burns.                              *)
LEMMA VerdictExact ==
  ASSUME TypeOK, strays \in [Vaults -> Nat], StraysStayPut, UNCHANGED strays,
         NEW resolver \in Wallets, NEW c \in ChallengeIds, NEW verdict \in BOOLEAN,
         PolicyOf(c[1]).treasury \in Wallets, ResolveChallenged(resolver, c, verdict)
  PROVE  StraysStayPut'
<1> DEFINE o == c[1][1]
           stake == agents[o].stake_amount
           bond == challenges[c].bond
           treasury == PolicyOf(c[1]).treasury
<1>1. /\ Exists(agents[o]) /\ Exists(challenges[c]) /\ Open(c) /\ ~Open(c)'
      /\ \A d \in ChallengeIds \ {c} : challenges'[d] = challenges[d]
      /\ IF verdict THEN Slash(c, treasury) ELSE Acquit(c, treasury)
  BY VerdictEffect DEF ResolveChallenged, PolicyOf, Ruled, Open
<1>2. /\ o \in Operators /\ StakeVault(o) \in Vaults /\ BondVault(c) \in Vaults
      /\ agents[o] \in AgentProfile /\ stake \in Nat /\ bond \in Nat
  BY <1>1, Names, VaultNames DEF TypeOK, Exists, AgentProfile, Challenge
<1>3. lamports'[BondVault(c)] = lamports[BondVault(c)] - bond
  BY <1>1, SlashExact, AcquitExact
<1>4. \A v \in Vaults \ {StakeVault(o), BondVault(c)} : lamports'[v] = lamports[v]
  BY <1>1, SlashExact, AcquitExact
<1>5. ASSUME NEW d \in ChallengeIds
      PROVE  lamports'[BondVault(d)]
               = (IF Open(d)' THEN challenges'[d].bond ELSE 0) + strays'[BondVault(d)]
  <2>1. CASE d = c
    BY <1>1, <1>2, <1>3, <2>1, NaturalAmounts DEF StraysStayPut
  <2>2. CASE d # c
    <3>1. BondVault(d) \in Vaults \ {StakeVault(o), BondVault(c)}
      BY <1>2, <2>2, VaultNames, Distinct
    <3>2. (Open(d)' <=> Open(d)) /\ challenges'[d] = challenges[d]
      BY <1>1, <2>2 DEF Open, Exists
    <3> QED
      BY <1>4, <3>1, <3>2 DEF StraysStayPut
  <2> QED
    BY <2>1, <2>2
<1>6. ASSUME NEW op \in Operators, op # o
      PROVE  lamports'[StakeVault(op)] = StakeOf(op)' + burned'[op] + strays'[StakeVault(op)]
  <2>1. StakeVault(op) \in Vaults \ {StakeVault(o), BondVault(c)}
    BY <1>2, <1>6, VaultNames, Distinct
  <2>2. agents'[op] = agents[op] /\ burned'[op] = burned[op]
    BY <1>1, <1>6 DEF Slash, Acquit, TypeOK
  <2>3. StakeOf(op)' = StakeOf(op)
    BY <2>2 DEF StakeOf, Exists
  <2> QED
    BY <1>4, <2>1, <2>2, <2>3 DEF StraysStayPut
<1>7. lamports'[StakeVault(o)] = StakeOf(o)' + burned'[o] + strays'[StakeVault(o)]
  <2>1. /\ lamports[StakeVault(o)] = stake + burned[o] + strays[StakeVault(o)]
        /\ burned[o] \in Nat /\ strays[StakeVault(o)] \in Nat
    BY <1>1, <1>2, NaturalAmounts DEF StraysStayPut, StakeOf
  <2>2. CASE verdict
    <3>1. /\ agents'[o] = Slashed(agents[o]) /\ burned'[o] = burned[o] + ToBurn(stake)
      BY <1>1, <1>2, <2>2 DEF Slash, TypeOK
    <3>2. StakeOf(o)' = 0
      BY <1>2, <3>1, SlashedType DEF StakeOf
    <3>3. lamports'[StakeVault(o)]
            = lamports[StakeVault(o)] - ToChallenger(stake) - ToTreasury(stake)
      BY <1>1, <2>2, SlashExact
    <3>4. /\ ToChallenger(stake) \in Nat /\ ToTreasury(stake) \in Nat /\ ToBurn(stake) \in Nat
          /\ ToChallenger(stake) + ToTreasury(stake) + ToBurn(stake) = stake
      BY <1>2, Splits
    <3> HIDE DEF stake
    <3> QED
      BY <1>2, <2>1, <3>1, <3>2, <3>3, <3>4
  <2>3. CASE ~verdict
    <3>1. agents'[o] = Settled(agents[o], 2) /\ burned' = burned
      BY <1>1, <1>2, <2>3 DEF Acquit, TypeOK
    <3>2. /\ Settled(agents[o], 2) \in AgentProfile
          /\ Settled(agents[o], 2).stake_amount = agents[o].stake_amount
      <4>1. agents[o] \in AgentProfile /\ 2 \in Int
        BY <1>2
      <4> HIDE DEF o
      <4> QED
        BY <4>1, SettledType
    <3>3. StakeOf(o)' = stake
      BY <3>1, <3>2, ConstantsAssumption DEF StakeOf, Exists
    <3>4. StakeVault(o) \in Vaults \ {BondVault(c)}
      BY <1>2, Distinct
    <3>5. lamports'[StakeVault(o)] = lamports[StakeVault(o)]
      BY <1>1, <2>3, <3>4, AcquitExact
    <3> QED
      BY <2>1, <3>1, <3>3, <3>5
  <2> QED
    BY <2>2, <2>3
<1> QED
  BY <1>5, <1>6, <1>7 DEF StraysStayPut

(* Nobody in the system publishes a policy after the start.                *)
OnePolicy == \A p \in PolicyIds : Exists(policies[p]) => policies[p] = ThePolicy

(* No step of the system touches a policy. *)
LEMMA OnePolicyNext ==
  ASSUME [SystemNext]_systemVars
  PROVE  policies' = policies
  BY SystemSteps DEF LandVrf, RequestVrf, LandAnnounced, LandThought, SubmitThought, vars

(* Every step keeps the vaults exact. *)
LEMMA StraysNext ==
  ThePolicy.treasury \in Wallets /\ Typed /\ OnePolicy /\ StraysStayPut /\ [SystemNext]_systemVars
    => StraysStayPut'
<1> SUFFICES ASSUME ThePolicy.treasury \in Wallets, Typed, OnePolicy, StraysStayPut,
                    [SystemNext]_systemVars
             PROVE  StraysStayPut'
  OBVIOUS
<1> USE DEF Typed, SystemTypeOK, SessionTypeOK
<1>1. CASE \E from \in Wallets, vault \in Vaults : StrayPay(from, vault)
  BY <1>1, StraysExact
<1>2. CASE [Next]_vars /\ UNCHANGED strays
  <2>1. ASSUME \A op \in Operators : StakeOf(op)' = StakeOf(op),
               UNCHANGED <<lamports, challenges, burned>>
        PROVE  StraysStayPut'
    BY <1>2, <2>1, QuietExact
  <2>2. agents' = agents => \A op \in Operators : StakeOf(op)' = StakeOf(op)
    BY DEF StakeOf, Exists
  <2>3. ASSUME NEW o \in Operators, NEW amount \in Amounts,
               RegisterAgent(o, amount) \/ Stake(o, amount) \/ WithdrawStake(o, amount)
        PROVE  StraysStayPut'
    BY <1>2, <2>3, StakingExact
  <2>4. ASSUME NEW t \in ThoughtIds, NEW ch \in Challengers, NEW bond \in Amounts,
               OpenChallenge(t, ch, bond)
        PROVE  StraysStayPut'
    BY <1>2, <2>4, OpeningExact
  <2>5. ASSUME NEW resolver \in Wallets, NEW c \in ChallengeIds, NEW verdict \in BOOLEAN,
               ResolveChallenged(resolver, c, verdict)
        PROVE  StraysStayPut'
    <3>1. /\ Exists(thoughts[c[1]]) /\ Exists(PolicyOf(c[1])) /\ c[1] \in ThoughtIds
      BY <2>5, Names DEF ResolveChallenged, PolicyOf
    <3>2. thoughts[c[1]].policy_id \in PolicyIds
      BY <3>1 DEF TypeOK, Exists, ThoughtRecord
    <3>3. PolicyOf(c[1]).treasury \in Wallets
      BY <3>1, <3>2 DEF OnePolicy, PolicyOf
    <3> QED
      BY <1>2, <2>5, <3>3, VerdictExact
  <2>6. ASSUME NEW t \in ThoughtIds, NEW seed \in Seeds, RequestVrf(t, seed)
        PROVE  StraysStayPut'
    <3> DEFINE agent == [agents[t[1]] EXCEPT !.vrf_nonce = @ + 1]
    <3>1. t[1] \in Operators /\ agents[t[1]] \in AgentProfile /\ Exists(agents[t[1]])
      BY <2>6, Names DEF RequestVrf, TypeOK, Exists
    <3>2. agent \in AgentProfile /\ agent.stake_amount = agents[t[1]].stake_amount
      BY <3>1 DEF AgentProfile
    <3>3. agents' = [agents EXCEPT ![t[1]] = agent] /\ UNCHANGED <<lamports, challenges, burned>>
      BY <2>6 DEF RequestVrf
    <3> QED
      BY <2>1, <3>1, <3>2, <3>3, SameStakes
  <2>7. ASSUME NEW t \in ThoughtIds, NEW m \in Models, NEW p \in PolicyIds, NEW seed \in Seeds,
               NEW action \in Actions, SubmitThought(t, m, p, seed, action)
        PROVE  StraysStayPut'
    <3> DEFINE agent == [agents[t[1]] EXCEPT !.active_thoughts = @ + 1]
    <3>1. t[1] \in Operators /\ agents[t[1]] \in AgentProfile /\ Exists(agents[t[1]])
      BY <2>7, Names DEF SubmitThought, TypeOK, Exists
    <3>2. agent \in AgentProfile /\ agent.stake_amount = agents[t[1]].stake_amount
      BY <3>1 DEF AgentProfile
    <3>3. agents' = [agents EXCEPT ![t[1]] = agent] /\ UNCHANGED <<lamports, challenges, burned>>
      BY <2>7 DEF SubmitThought
    <3> QED
      BY <2>1, <3>1, <3>2, <3>3, SameStakes
  <2>8. ASSUME NEW t \in ThoughtIds, ResolveUnchallenged(t)
        PROVE  StraysStayPut'
    <3>1. t[1] \in Operators /\ agents[t[1]] \in AgentProfile /\ Exists(agents[t[1]])
      BY <2>8, Names DEF ResolveUnchallenged, TypeOK, Exists
    <3>2. /\ Settled(agents[t[1]], 1) \in AgentProfile
          /\ Settled(agents[t[1]], 1).stake_amount = agents[t[1]].stake_amount
      BY <3>1, SettledType
    <3>3. /\ agents' = [agents EXCEPT ![t[1]] = Settled(agents[t[1]], 1)]
          /\ UNCHANGED <<lamports, challenges, burned>>
      BY <2>8 DEF ResolveUnchallenged
    <3> QED
      BY <2>1, <3>1, <3>2, <3>3, SameStakes
  <2>9. CASE \/ UNCHANGED vars \/ Tick
             \/ \E signer \in Wallets, m \in Models : RegisterModel(signer, m)
             \/ \E p \in PolicyIds, args \in PolicyArgs : RegisterPolicy(p, args)
             \/ \E t \in ThoughtIds, action \in Actions : ConsumeThought(t, action)
    BY <2>1, <2>2, <2>9 DEF vars, Tick, RegisterModel, RegisterPolicy, ConsumeThought
  <2> QED
    BY <1>2, <2>3, <2>4, <2>5, <2>6, <2>7, <2>8, <2>9 DEF Next
<1> QED
  BY <1>1, <1>2, LedgerSteps, StraysReachVaults

(* They are exact at first: the operator's stake is in its vault. *)
LEMMA StraysInit == SystemInit => StraysStayPut
<1> SUFFICES ASSUME SystemInit
             PROVE  StraysStayPut
  OBVIOUS
<1>1. /\ InitialStake \in Nat /\ Operator \in Operators /\ NewAgent(InitialStake) \in AgentProfile
      /\ NewAgent(InitialStake).stake_amount = InitialStake
  BY SessionAssumption DEF NewAgent, AgentProfile
<1>2. ASSUME NEW op \in Operators
      PROVE  lamports[StakeVault(op)] = StakeOf(op) + burned[op] + strays[StakeVault(op)]
  <2>1. /\ StakeVault(op) \in Vaults /\ StakeVault(op) \in Addresses /\ StakeVault(op) \notin Wallets
        /\ Operator \in Wallets /\ (StakeVault(op) = StakeVault(Operator) => op = Operator)
    BY <1>1, Names, VaultNames, Distinct
  <2>2. lamports[StakeVault(op)] = IF op = Operator THEN InitialStake ELSE 0
    BY <2>1 DEF SystemInit, SessionInit, Registered
  <2>3. StakeOf(op) = IF op = Operator THEN InitialStake ELSE 0
    BY <1>1, ConstantsAssumption DEF SystemInit, SessionInit, Registered, StakeOf, Exists
  <2>4. burned[op] = 0 /\ strays[StakeVault(op)] = 0
    BY <2>1 DEF SystemInit, SessionInit, Registered
  <2> QED
    BY <1>1, <2>2, <2>3, <2>4
<1>3. ASSUME NEW c \in ChallengeIds
      PROVE  lamports[BondVault(c)] = (IF Open(c) THEN challenges[c].bond ELSE 0) + strays[BondVault(c)]
  <2>1. /\ BondVault(c) \in Vaults /\ BondVault(c) \in Addresses /\ BondVault(c) \notin Wallets
        /\ Operator \in Wallets /\ BondVault(c) # StakeVault(Operator)
    BY <1>1, Names, VaultNames, Distinct
  <2>2. lamports[BondVault(c)] = 0 /\ strays[BondVault(c)] = 0 /\ ~Open(c)
    BY <2>1 DEF SystemInit, SessionInit, Registered, Open, Exists
  <2> QED
    BY <2>2
<1> QED
  BY <1>2, <1>3 DEF StraysStayPut

(***************************************************************************)
(* Where the policy's treasury is a wallet, every vault holds exactly what *)
(* the program's accounts and the history of slashing and stray transfers  *)
(* say, for any session, watcher and rivals.  (A treasury that is a vault  *)
(* receives its shares there.)                                             *)
(***************************************************************************)
THEOREM VaultsAreExact ==
  ASSUME ThePolicy.treasury \in Wallets
  PROVE  SystemSpec => []StraysStayPut
<1>1. SystemInit => OnePolicy
  BY DEF SystemInit, SessionInit, Registered, OnePolicy, Exists
<1>2. OnePolicy /\ [SystemNext]_systemVars => OnePolicy'
  BY OnePolicyNext DEF OnePolicy, Exists
<1>3. Typed /\ OnePolicy /\ StraysStayPut /\ [SystemNext]_systemVars => StraysStayPut'
  BY StraysNext
<1> QED
  BY <1>1, <1>2, <1>3, StraysInit, AlwaysTyped, PTL DEF SystemSpec

----------------------------------------------------------------------------
(* The watcher's purse. *)

Mine == ChallengesBy(WatcherKey)

(* What the watcher holds, with its bonds that are out and what it sent to *)
(* bond vaults itself, is never less than it started with.                 *)
WatcherWhole == Worth(WatcherKey) + SumFunctionOnSet(Stranded, Mine) >= InitialLamports

(* Nobody but the operator has an agent. *)
OneAgent == \A op \in Operators \ {Operator} : ~Exists(agents[op])

(* The watcher's challenges are finitely many. *)
LEMMA MineFinite ==
  /\ Mine \subseteq ChallengeIds /\ IsFiniteSet(Mine)
  /\ \A c \in ChallengeIds : c \in Mine <=> c[2] = WatcherKey
<1>1. Mine \subseteq ChallengeIds /\ \A c \in ChallengeIds : c \in Mine <=> c[2] = WatcherKey
  BY DEF Mine, ChallengesBy
<1> QED
  BY <1>1, FiniteChallenges, FS_Subset

(* The strays of its bond vaults add up, before and after a step.          *)
LEMMA StrandedAddsUp ==
  ASSUME NEW received \in [Vaults -> Nat], NEW f, f = [c \in ChallengeIds |-> received[BondVault(c)]]
  PROVE  (\A c \in Mine : f[c] \in Int) /\ SumFunctionOnSet(f, Mine) \in Int
<1>1. \A c \in Mine : f[c] \in Int
  BY MineFinite, VaultNames
<1> QED
  BY <1>1, MineFinite, SumIsInteger

(* No step of the system registers an agent. *)
LEMMA OneAgentNext ==
  ASSUME TypeOK, OneAgent, [SystemNext]_systemVars
  PROVE  OneAgent'
<1> SUFFICES ASSUME NEW op \in Operators \ {Operator}
             PROVE  ~Exists(agents'[op])
  BY DEF OneAgent, Exists
<1>1. ~Exists(agents[op])
  BY DEF OneAgent
<1>2. CASE agents'[op] = agents[op]
  BY <1>1, <1>2
<1>3. ASSUME NEW o \in Operators, NEW amount \in Amounts, Stake(o, amount) \/ WithdrawStake(o, amount)
      PROVE  agents'[op] = agents[op]
  BY <1>1, <1>3 DEF Stake, WithdrawStake, TypeOK
<1>4. ASSUME NEW t \in ThoughtIds, NEW rival \in Challengers, NEW bond \in Amounts,
             OpenChallenge(t, rival, bond)
      PROVE  agents'[op] = agents[op]
  BY <1>4 DEF OpenChallenge
<1>5. ASSUME NEW t \in ThoughtIds, ResolveUnchallenged(t)
      PROVE  agents'[op] = agents[op]
  BY <1>1, <1>5 DEF ResolveUnchallenged, TypeOK
<1>6. ASSUME NEW c \in ChallengeIds, NEW verdict \in BOOLEAN,
             ResolveChallenged(ThePolicy.resolver, c, verdict)
      PROVE  agents'[op] = agents[op]
  <2>1. Exists(agents[c[1][1]]) /\ \E agent : agents' = [agents EXCEPT ![c[1][1]] = agent]
    BY <1>6 DEF ResolveChallenged, Slash, Acquit
  <2> QED
    BY <1>1, <2>1 DEF TypeOK
<1>7. CASE Others
  BY <1>2, <1>3, <1>4, <1>5, <1>6, <1>7 DEF Others, Tick
<1>8. ASSUME NEW tx \in sent, LandVrf(tx)
      PROVE  agents'[op] = agents[op]
  BY <1>1, <1>8 DEF LandVrf, RequestVrf, TypeOK, ThoughtOf
<1>9. ASSUME NEW tx \in sent, LandAnnounced(tx)
      PROVE  agents'[op] = agents[op]
  BY <1>1, <1>9 DEF LandAnnounced, LandThought, SubmitThought, TypeOK, ThoughtOf
<1>10. ASSUME NEW e \in Event, SubmitOk(e)
       PROVE  agents'[op] = agents[op]
  BY <1>10 DEF SubmitOk, OpenChallenge
<1>11. Calls => UNCHANGED agents
  BY CallsLeave DEF vars
<1> QED
  BY <1>2, <1>7, <1>8, <1>9, <1>10, <1>11
  DEF SystemNext, Upload, FailsAfterLogging, LogElsewhere, FetchFails, FetchAndDecide, SubmitFails,
      Stray, sessionVars, systemVars, vars

(* So the watcher never stakes. *)
LEMMA WatcherNeverStakes ==
  ASSUME TypeOK, OneAgent, OneAgent', WatcherKey \in Operators
  PROVE  ~Stakes(WatcherKey)
<1>1. /\ WatcherKey \in Operators \ {Operator}
      /\ ~Exists(agents[WatcherKey]) /\ ~Exists(agents'[WatcherKey])
  BY SystemAssumption DEF OneAgent, Exists
<1>2. ASSUME NEW amount \in Amounts, RegisterAgent(WatcherKey, amount)
      PROVE  FALSE
  <2>1. agents'[WatcherKey] = NewAgent(amount)
    BY <1>1, <1>2 DEF RegisterAgent, TypeOK
  <2>2. NewAgent(amount) \in AgentProfile
    BY ConstantsAssumption DEF NewAgent, AgentProfile
  <2> QED
    BY <1>1, <2>1, <2>2, ConstantsAssumption DEF Exists
<1>3. ASSUME NEW amount \in Amounts, Stake(WatcherKey, amount)
      PROVE  FALSE
  BY <1>1, <1>3 DEF Stake
<1> QED
  BY <1>2, <1>3 DEF Stakes

(* A transfer from outside to a bond vault is its challenger's loss.       *)
LEMMA StrayToBond ==
  ASSUME Typed, NEW c \in ChallengeIds, StrayPay(c[2], BondVault(c))
  PROVE  lamports'[WatcherKey] + SumFunctionOnSet(Stranded', Mine)
           = lamports[WatcherKey] + SumFunctionOnSet(Stranded, Mine)
<1> DEFINE f == Stranded
           g == Stranded'
           w == WatcherKey
<1>1. /\ c[2] \in Addresses /\ BondVault(c) \in Addresses /\ BondVault(c) \in Vaults
      /\ w \in Addresses /\ w # BondVault(c) /\ w \in Wallets /\ StrayAmount \in Int
  <2>1. w \in Wallets /\ StrayAmount \in Int
    BY Parts, ConstantsAssumption
  <2>2. c[2] \in Wallets
    BY Names
  <2>3. BondVault(c) \in Vaults
    BY VaultNames
  <2>4. w # BondVault(c)
    BY <2>1, <2>3, VaultNames
  <2> HIDE DEF w
  <2> QED
    BY <2>1, <2>2, <2>3, <2>4, VaultNames
<1>2. /\ lamports \in [Addresses -> Int] /\ strays \in [Vaults -> Nat] /\ strays' \in [Vaults -> Nat]
      /\ lamports' = Transfer(lamports, c[2], BondVault(c), StrayAmount)
      /\ strays' = [strays EXCEPT ![BondVault(c)] = @ + StrayAmount]
  BY Parts DEF StrayPay, Pay, Typed, SystemTypeOK, SessionTypeOK, TypeOK
<1>3. /\ \A d \in Mine : f[d] \in Int /\ g[d] \in Int
      /\ SumFunctionOnSet(f, Mine) \in Int
  BY <1>2, StrandedAddsUp DEF Stranded
<1>4. \A d \in ChallengeIds \ {c} : f[d] = g[d]
  BY <1>2, Distinct, VaultNames DEF Stranded
<1>5. g[c] = f[c] + StrayAmount
  BY <1>1, <1>2 DEF Stranded
<1>6. lamports'[w] = lamports[w] - Part(w, c[2], StrayAmount) /\ lamports[w] \in Int
  BY <1>1, <1>2, TransferBeside
<1> HIDE DEF f, g
<1>7. CASE c[2] = w
  <2>1. c \in Mine
    BY <1>7, MineFinite
  <2>2. SumFunctionOnSet(g, Mine) = SumFunctionOnSet(f, Mine) + g[c] - f[c]
    BY <1>3, <1>4, <2>1, MineFinite, SumChanges
  <2>3. lamports'[w] = lamports[w] - StrayAmount
    BY <1>6, <1>7 DEF Part
  <2>4. f[c] \in Int
    BY <1>3, <2>1
  <2> QED
    BY <1>1, <1>3, <1>5, <1>6, <2>2, <2>3, <2>4 DEF f, g
<1>8. CASE c[2] # w
  <2>1. SumFunctionOnSet(f, Mine) = SumFunctionOnSet(g, Mine)
    BY <1>4, <1>8, MineFinite, SumOfSame
  <2>2. lamports'[w] = lamports[w]
    BY <1>6, <1>8 DEF Part
  <2> QED
    BY <2>1, <2>2 DEF f, g
<1> QED
  BY <1>7, <1>8

(* One to a stake vault, here by the resolver, is not the watcher's.       *)
LEMMA StrayToStake ==
  ASSUME Typed, WatcherKey # ThePolicy.resolver, NEW op \in Operators,
         StrayPay(ThePolicy.resolver, StakeVault(op))
  PROVE  /\ lamports'[WatcherKey] = lamports[WatcherKey]
         /\ SumFunctionOnSet(Stranded', Mine) = SumFunctionOnSet(Stranded, Mine)
<1> DEFINE f == Stranded
           g == Stranded'
           r == ThePolicy.resolver
           v == StakeVault(op)
<1>1. /\ r \in Addresses /\ v \in Addresses /\ WatcherKey \in Addresses
      /\ WatcherKey # v /\ WatcherKey # r /\ StrayAmount \in Int
  <2>1. r \in Wallets /\ WatcherKey \in Wallets /\ StrayAmount \in Int
    BY Parts, ConstantsAssumption
  <2>2. v \in Vaults
    BY VaultNames
  <2>3. WatcherKey # v /\ WatcherKey # r
    BY <2>1, <2>2, VaultNames
  <2> HIDE DEF r, v
  <2> QED
    BY <2>1, <2>2, <2>3, VaultNames
<1>2. /\ lamports \in [Addresses -> Int] /\ strays \in [Vaults -> Nat]
      /\ lamports' = Transfer(lamports, r, v, StrayAmount)
      /\ strays' = [strays EXCEPT ![v] = @ + StrayAmount]
  BY DEF StrayPay, Pay, Typed, SystemTypeOK, SessionTypeOK, TypeOK
<1>3. \A d \in ChallengeIds : f[d] = g[d]
  BY <1>2, Distinct, VaultNames DEF Stranded
<1> HIDE DEF f, g, r, v
<1>4. lamports'[WatcherKey] = lamports[WatcherKey]
  BY <1>1, <1>2, TransferBeside
<1>5. SumFunctionOnSet(f, Mine) = SumFunctionOnSet(g, Mine)
  BY <1>3, MineFinite, SumOfSame
<1> QED
  BY <1>4, <1>5 DEF f, g

(* No step makes the watcher poorer. *)
LEMMA WatcherWholeNext ==
  ASSUME WatcherKey # ThePolicy.resolver, Typed, Typed', OneAgent, OneAgent', WatcherWhole,
         [SystemNext]_systemVars
  PROVE  WatcherWhole'
<1> DEFINE w == WatcherKey
           out == SumFunctionOnSet(BondsOut, Mine)
           out1 == SumFunctionOnSet(BondsOut', Mine)
           str == SumFunctionOnSet(Stranded, Mine)
           str1 == SumFunctionOnSet(Stranded', Mine)
<1>1. /\ w \in Challengers /\ lamports[w] \in Int /\ lamports'[w] \in Int /\ InitialLamports \in Int
      /\ TypeOK /\ TypeOK' /\ strays \in [Vaults -> Nat] /\ strays' \in [Vaults -> Nat]
  BY Parts, Names, ConstantsAssumption DEF Typed, SystemTypeOK, SessionTypeOK, TypeOK
<1>2. str \in Int /\ str1 \in Int
  BY <1>1, StrandedAddsUp DEF Stranded
<1>3. out \in Int /\ out1 \in Int
  BY <1>1, BondsAddUp, BondsStillAddUp DEF Mine
<1>4. lamports[w] + out + str >= InitialLamports
  BY DEF WatcherWhole, Worth, Mine
<1>5. SUFFICES lamports'[w] + out1 + str1 >= InitialLamports
  BY DEF WatcherWhole, Worth, Mine, ChallengesBy, ChallengeIds, ThoughtIds, Nonces
<1>6. CASE [Next]_vars /\ UNCHANGED strays
  <2>1. lamports'[w] + out1 >= Worth(w)
    BY <1>1, <1>6, WorthGrows, WatcherNeverStakes DEF Mine
  <2>2. Worth(w) = lamports[w] + out
    BY DEF Worth, Mine
  <2>3. str1 = str
    BY <1>6 DEF Stranded
  <2> HIDE DEF out, out1, str, str1
  <2> QED
    BY <1>1, <1>2, <1>3, <1>4, <2>1, <2>2, <2>3
<1>7. ASSUME UNCHANGED challenges PROVE out1 = out
  BY <1>7 DEF BondsOut, Open, Ruled, Exists
<1>8. ASSUME NEW c \in ChallengeIds, StrayPay(c[2], BondVault(c))
      PROVE  lamports'[w] + out1 + str1 >= InitialLamports
  <2>1. out1 = out
    BY <1>7, <1>8 DEF StrayPay
  <2>2. lamports'[w] + str1 = lamports[w] + str
    BY <1>8, StrayToBond
  <2> HIDE DEF out, out1, str, str1
  <2> QED
    BY <1>1, <1>2, <1>3, <1>4, <2>1, <2>2
<1>9. ASSUME NEW op \in Operators, StrayPay(ThePolicy.resolver, StakeVault(op))
      PROVE  lamports'[w] + out1 + str1 >= InitialLamports
  <2>1. out1 = out
    BY <1>7, <1>9 DEF StrayPay
  <2>2. lamports'[w] = lamports[w] /\ str1 = str
    BY <1>9, StrayToStake
  <2> HIDE DEF out, out1, str, str1
  <2> QED
    BY <1>1, <1>2, <1>3, <1>4, <2>1, <2>2
<1> QED
  BY <1>6, <1>8, <1>9, LedgerSteps DEF Typed, SystemTypeOK, SessionTypeOK

(* At first it has its lamports and no challenge. *)
LEMMA WatcherWholeInit == SystemInit => WatcherWhole /\ OneAgent
<1> SUFFICES ASSUME SystemInit PROVE WatcherWhole /\ OneAgent
  OBVIOUS
<1>1. OneAgent
  BY DEF SystemInit, SessionInit, Registered, OneAgent, Exists
<1>2. lamports[WatcherKey] = InitialLamports
  <2>1. /\ WatcherKey \in Wallets /\ WatcherKey \in Addresses /\ WatcherKey # Operator
        /\ WatcherKey # StakeVault(Operator)
    BY Parts, Names, Distinct, SystemAssumption, ConstantsAssumption
  <2> QED
    BY <2>1 DEF SystemInit, SessionInit, Registered
<1>3. \A c \in Mine : BondsOut[c] = 0 /\ Stranded[c] = 0
  BY MineFinite, VaultNames
  DEF SystemInit, SessionInit, Registered, BondsOut, Open, Ruled, Exists, Stranded
<1>4. SumFunctionOnSet(BondsOut, Mine) = 0 /\ SumFunctionOnSet(Stranded, Mine) = 0
  BY <1>3, MineFinite, SumOfZeros
<1>5. WatcherWhole
  BY <1>2, <1>4, ConstantsAssumption DEF WatcherWhole, Worth, Mine
<1> QED
  BY <1>1, <1>5

(* Where verdicts follow the posted traces the watcher has lost no dispute *)
(* but those it was misled into: its bonds that are out are in escrow, or  *)
(* lost in one of these.                                                   *)
LEMMA JustMeansOutstanding ==
  ASSUME JustVerdicts, WatcherDisputesContradictions
  PROVE  SumFunctionOnSet(BondsOut, Mine) = SumFunctionOnSet(Outstanding, Mine)
<1>1. ASSUME NEW c \in Mine
      PROVE  BondsOut[c] = Outstanding[c]
  <2>1. c \in ChallengeIds /\ c[1] \in ThoughtIds /\ c = <<c[1], WatcherKey>>
    BY MineFinite DEF ChallengeIds
  <2>2. ASSUME Ruled(c, FALSE) PROVE Misled(c[1])
    <3>1. Contradicted(c[1]) \/ Misled(c[1])
      BY <2>1, <2>2 DEF WatcherDisputesContradictions, Ruled
    <3>2. FALSE = Contradicted(c[1])
      BY <2>1, <2>2 DEF JustVerdicts
    <3> QED
      BY <3>1, <3>2
  <2> QED
    BY <2>1, <2>2 DEF BondsOut, Outstanding
<1> QED
  BY <1>1, MineFinite, SumOfSame

(***************************************************************************)
(* The watcher, unless it is the resolver too, loses nothing but the bonds *)
(* of disputes that it was misled into, as long as resolvers rule by the   *)
(* posted traces, for any placeholders, any other challengers, and any     *)
(* session: whatever else it has less is in escrow for its open disputes,  *)
(* or is what it put into bond vaults outside the program.  (A resolver    *)
(* pays, in this model, for transfers to stake vaults.)                    *)
(***************************************************************************)
THEOREM WatcherLosesOnlyMisledBonds ==
  ASSUME WatcherKey # ThePolicy.resolver
  PROVE  SystemSpec => []WatcherLosesOnlyIfMisled
<1>1. TypeOK /\ OneAgent /\ [SystemNext]_systemVars => OneAgent'
  BY OneAgentNext
<1>2. Typed /\ Typed' /\ OneAgent /\ OneAgent' /\ WatcherWhole /\ [SystemNext]_systemVars
        => WatcherWhole'
  BY WatcherWholeNext
<1>3. Typed => TypeOK
  BY DEF Typed, SystemTypeOK, SessionTypeOK
<1>4. WatcherWhole /\ WatcherDisputesContradictions => WatcherLosesOnlyIfMisled
  BY JustMeansOutstanding DEF WatcherWhole, Worth, Mine, WatcherLosesOnlyIfMisled
<1> QED
  BY <1>1, <1>2, <1>3, <1>4, WatcherWholeInit, AlwaysTyped, DisputesAreJustified, PTL DEF SystemSpec

----------------------------------------------------------------------------
(* The lifecycle, among everybody. *)

Guarantees == NeverAttested /\ ConsumedStaysFinal /\ DisputesDecideOutcomes

(* What the lifecycle rests on survives every step of the system.          *)
LEMMA GuaranteesNext ==
  ASSUME Typed, Guarantees, [SystemNext]_systemVars
  PROVE  Guarantees'
<1>1. TypeOK /\ sent \subseteq Transaction
  BY DEF Typed, SystemTypeOK, SessionTypeOK
<1>2. CASE [Next]_vars
  BY <1>1, <1>2, ConsumedNext, DisputeNext DEF Guarantees
<1>3. CASE UNCHANGED <<slot, thoughts, challenges>>
  BY <1>3
  DEF Guarantees, NeverAttested, ConsumedStaysFinal, DisputesDecideOutcomes, OneDispute,
      OpenDisputeIsChallenged, VerdictDecides, StatusOf, Ruled, Open, Exists
<1> QED
  BY <1>1, <1>2, <1>3, LedgerSteps, StraysTouchNoThought

(* It holds before anybody calls. *)
LEMMA GuaranteesInit == SystemInit => Guarantees
<1> SUFFICES ASSUME SystemInit PROVE Guarantees
  OBVIOUS
<1>1. \A t \in ThoughtIds : ~Exists(thoughts[t])
  BY DEF SystemInit, SessionInit, Registered, Exists
<1>2. \A t \in ThoughtIds, ch \in Challengers : ~Exists(challenges[<<t, ch>>])
  BY DEF SystemInit, SessionInit, Registered, Exists, ChallengeIds
<1> QED
  BY <1>1, <1>2
  DEF Guarantees, NeverAttested, ConsumedStaysFinal, DisputesDecideOutcomes, OneDispute,
      OpenDisputeIsChallenged, VerdictDecides, StatusOf, Ruled, Open

(***************************************************************************)
(* The abstract lifecycle is what every thought goes through in the whole  *)
(* system as well: whatever the session retries or reports, whatever lands *)
(* late, is missed by the watcher or paid from outside, each step is one   *)
(* step of one thought's lifecycle or leaves every thought as it is.       *)
(***************************************************************************)
THEOREM SystemImplements == SystemSpec => ImplementsLifecycle
<1>1. SystemInit => Lifecycle!Init
  BY InitMaps DEF SystemInit, SessionInit, Registered
<1>2. ASSUME Typed, Typed', Guarantees, Guarantees', [SystemNext]_systemVars
      PROVE  Lifecycle!Next
  <2>1. TypeOK /\ sent \subseteq Transaction /\ slot \in Nat /\ slot' \in Nat
    BY <1>2 DEF Typed, SystemTypeOK, SessionTypeOK, TypeOK
  <2>2. CASE [Next]_vars
    BY <1>2, <2>1, <2>2, StepMaps DEF Guarantees
  <2>3. CASE UNCHANGED <<slot, thoughts, challenges>>
    BY <1>2, <2>1, <2>3, ElapseStep DEF Guarantees, Lifecycle!Next
  <2> QED
    BY <1>2, <2>1, <2>2, <2>3, LedgerSteps, StraysTouchNoThought
<1>3. /\ Typed /\ Typed' /\ Guarantees /\ Guarantees' /\ [SystemNext]_systemVars
      => [Lifecycle!Next]_(Lifecycle!tvars)
  BY <1>2
<1>4. Typed /\ Guarantees /\ [SystemNext]_systemVars => Guarantees'
  BY GuaranteesNext
<1> QED
  BY <1>1, <1>3, <1>4, GuaranteesInit, AlwaysTyped, PTL
  DEF SystemSpec, ImplementsLifecycle, Lifecycle!Spec

----------------------------------------------------------------------------
(* The books, among everybody. *)

Books ==
  /\ \A t \in ThoughtIds : MadeBefore(t) /\ DueProcess(t)
  /\ \A op \in Operators : Exact(op)

(* A transfer from outside enters no book. *)
LEMMA StraysEnterNoBook ==
  ASSUME Books, NEW from, NEW vault, StrayPay(from, vault)
  PROVE  Books'
<1>1. UNCHANGED <<slot, agents, thoughts, challenges>>
  BY DEF StrayPay
<1>2. \A t \in ThoughtIds : MadeBefore(t)' /\ DueProcess(t)'
  BY <1>1 DEF Books, MadeBefore, DueProcess, StatusOf, Ruled, Exists
<1>3. \A op \in Operators : Exact(op)'
  BY <1>1 DEF Books, Exact, ActiveNonces, Active, StatusOf, Exists
<1> QED
  BY <1>2, <1>3 DEF Books

(* Nor does any step of the system falsify one. *)
LEMMA BooksNext ==
  ASSUME Typed, Typed', Guarantees, Books, [SystemNext]_systemVars
  PROVE  Books'
<1>1. TypeOK /\ TypeOK' /\ sent \subseteq Transaction
  BY DEF Typed, SystemTypeOK, SessionTypeOK
<1>2. CASE [Next]_vars
  <2>1. \A t \in ThoughtIds : MadeBefore(t)' /\ DueProcess(t)'
    BY <1>1, <1>2, MadeBeforeNext, DueProcessNext
    DEF Books, Guarantees, DisputesDecideOutcomes, Decided
  <2>2. \A op \in Operators : Exact(op)'
    BY <1>1, <1>2, ExactNext DEF Books
  <2> QED
    BY <2>1, <2>2 DEF Books
<1> QED
  BY <1>1, <1>2, LedgerSteps, StraysEnterNoBook

(* They are right when the session starts. *)
LEMMA BooksInit == SystemInit => Books
<1> SUFFICES ASSUME SystemInit PROVE Books
  OBVIOUS
<1>1. \A t \in ThoughtIds : MadeBefore(t) /\ DueProcess(t)
  BY DEF SystemInit, SessionInit, Registered, MadeBefore, DueProcess, StatusOf, Exists, ChallengeIds
<1>2. ASSUME NEW op \in Operators
      PROVE  Exact(op)
  <2>1. Exists(agents[op]) => agents[op].active_thoughts = 0
    BY DEF SystemInit, SessionInit, Registered, Exists, NewAgent
  <2>2. ActiveNonces(op) = {}
    BY DEF SystemInit, SessionInit, Registered, Exists, Active, ActiveNonces, StatusOf, ThoughtIds
  <2> QED
    BY <2>1, <2>2, FS_EmptySet DEF Exact
<1> QED
  BY <1>1, <1>2 DEF Books

(* They are right always. *)
LEMMA AlwaysBooks == SystemSpec => [](Guarantees /\ Books)
<1>1. Typed /\ Guarantees /\ [SystemNext]_systemVars => Guarantees'
  BY GuaranteesNext
<1>2. Typed /\ Typed' /\ Guarantees /\ Books /\ [SystemNext]_systemVars => Books'
  BY BooksNext
<1> QED
  BY <1>1, <1>2, GuaranteesInit, BooksInit, AlwaysTyped, PTL DEF SystemSpec

(***************************************************************************)
(* With late landings, retries and strays around it too: no thought is     *)
(* Finalized inside its window unless a challenger disputed it and lost,   *)
(* and active_thoughts is exactly the number of undecided thoughts.        *)
(***************************************************************************)
THEOREM SystemKeepsItsBooks == SystemSpec => [](FinalOnlyByDueProcess /\ ActiveThoughtsExact)
<1>1. Books => FinalOnlyByDueProcess /\ ActiveThoughtsExact
  BY DEF Books, DueProcess, Exact, FinalOnlyByDueProcess, ActiveThoughtsExact
<1> QED
  BY <1>1, AlwaysBooks, PTL

----------------------------------------------------------------------------
(* Outcomes, seeds, stakes and reputation, among everybody. *)

(* Of the accounts a transfer from outside changes none. *)
LEMMA StraysChangeNoAccount ==
  ASSUME NEW from, NEW vault, StrayPay(from, vault)
  PROVE  UNCHANGED <<slot, agents, models, policies, vrfs, thoughts, challenges, burned>>
  BY DEF StrayPay

(***************************************************************************)
(* Nothing that happens around the program revises an outcome or a         *)
(* verdict: a transaction that lands late, a retry, a transfer from        *)
(* outside, or the watcher's own steps.                                    *)
(***************************************************************************)
THEOREM SystemKeepsOutcomes == SystemSpec => OutcomesAreFinal
<1> DEFINE Final ==
      /\ \A t \in ThoughtIds : StatusOf(t) \in {"Finalized", "Slashed"} => StatusOf(t)' = StatusOf(t)
      /\ \A c \in ChallengeIds : Exists(challenges[c]) /\ challenges[c].resolved
           => challenges'[c] = challenges[c]
<1>1. ASSUME Typed, [SystemNext]_systemVars
      PROVE  [Final]_vars
  <2>1. TypeOK /\ sent \subseteq Transaction
    BY <1>1 DEF Typed, SystemTypeOK, SessionTypeOK
  <2>2. CASE [Next]_vars
    BY <2>1, <2>2, DecidedStays, VerdictsStay
  <2>3. CASE UNCHANGED <<slot, thoughts, challenges>>
    BY <2>3 DEF StatusOf, Exists
  <2> QED
    BY <1>1, <2>1, <2>2, <2>3, LedgerSteps, StraysTouchNoThought
<1>2. Typed /\ [SystemNext]_systemVars => [Final]_vars
  BY <1>1
<1> QED
  BY <1>2, AlwaysTyped, PTL DEF SystemSpec, OutcomesAreFinal

(* Every step keeps the facts about seeds. *)
LEMMA SystemSeedsNext ==
  ASSUME Typed, SeedInv, [SystemNext]_systemVars
  PROVE  SeedInv'
<1>1. TypeOK /\ sent \subseteq Transaction
  BY DEF Typed, SystemTypeOK, SessionTypeOK
<1>2. CASE [Next]_vars
  BY <1>1, <1>2, IssuedNext, SeedNext DEF SeedInv
<1>3. CASE UNCHANGED <<slot, agents, models, policies, vrfs, thoughts, challenges, burned>>
  <2>1. ASSUME NEW t \in ThoughtIds
        PROVE  Issued(t)' /\ Spent(t)' /\ Requested(t)' /\ Governed(t)'
    BY <1>3 DEF SeedInv, Issued, Spent, Requested, Governed, PolicyOf, Exists
  <2>2. ASSUME NEW t \in ThoughtIds
        PROVE  Timely(t)'
    BY <1>3 DEF SeedInv, Timely, PolicyOf, Exists
  <2> QED
    BY <2>1, <2>2 DEF SeedInv
<1> QED
  BY <1>1, <1>2, <1>3, LedgerSteps, StraysChangeNoAccount

(* When the session starts no seed is out. *)
LEMMA SystemSeedsInit == SystemInit => SeedInv
<1> SUFFICES ASSUME SystemInit, NEW t \in ThoughtIds
             PROVE  Issued(t) /\ Spent(t) /\ Timely(t) /\ Requested(t) /\ Governed(t)
  BY DEF SeedInv
<1>1. ~Exists(vrfs[t]) /\ ~Exists(thoughts[t])
  BY DEF SystemInit, SessionInit, Registered, Exists
<1>2. t[1] \in Operators /\ t[2] \in Nat
  BY DEF ThoughtIds, Nonces
<1>3. Exists(agents[t[1]]) => ~(t[2] < agents[t[1]].vrf_nonce)
  BY <1>2 DEF SystemInit, SessionInit, Registered, Exists, NewAgent
<1> QED
  BY <1>1, <1>3 DEF Issued, Spent, Timely, Requested, Governed

(* The facts about seeds hold always. *)
LEMMA AlwaysSeeds == SystemSpec => []SeedInv
<1>1. Typed /\ SeedInv /\ [SystemNext]_systemVars => SeedInv'
  BY SystemSeedsNext
<1> QED
  BY <1>1, SystemSeedsInit, AlwaysTyped, PTL DEF SystemSpec

(***************************************************************************)
(* However often the SDK's caller retries request_vrf and submit_thought,  *)
(* and whichever of the attempts land, a seed is spent by one thought, its *)
(* nonce's, within the policy's window.                                    *)
(***************************************************************************)
THEOREM SystemSpendsSeedsOnce == SystemSpec => []SeedsSpentOnce
<1>1. SeedInv => SeedsSpentOnce
  BY DEF SeedInv, Issued, Spent, Timely, SeedsSpentOnce
<1> QED
  BY <1>1, AlwaysSeeds, PTL

(* Every step keeps thoughts backed. *)
LEMMA SystemBackedNext ==
  ASSUME Typed, Typed', Books, SeedInv, \A t \in ThoughtIds : Backed(t), [SystemNext]_systemVars,
         NEW t \in ThoughtIds
  PROVE  Backed(t)'
<1>1. TypeOK /\ TypeOK' /\ sent \subseteq Transaction /\ Exact(t[1])
  BY Names DEF Typed, SystemTypeOK, SessionTypeOK, Books
<1>2. CASE [Next]_vars
  BY <1>1, <1>2, BackedNext DEF SeedInv
<1>3. CASE UNCHANGED <<slot, agents, models, policies, vrfs, thoughts, challenges, burned>>
  BY <1>3 DEF Backed, Active, PolicyOf, StatusOf, Exists
<1> QED
  BY <1>1, <1>2, <1>3, LedgerSteps, StraysChangeNoAccount

(***************************************************************************)
(* The stake behind an undecided thought goes only by a slash of one of    *)
(* the agent's thoughts, and is at least the policy's bond_min until then: *)
(* lamports that reach the stake vault from outside neither add to the     *)
(* recorded stake nor free any of it.                                      *)
(***************************************************************************)
THEOREM SystemLocksStakes == SystemSpec => StakeLeavesOnlyBySlashing /\ []BackedUnlessSlashed
<1> DEFINE Inv == \A t \in ThoughtIds : Backed(t)
<1>1. ASSUME Typed, Typed', Books, [SystemNext]_systemVars
      PROVE  [StakesLeaveBySlashing]_vars
  <2>1. TypeOK /\ TypeOK' /\ sent \subseteq Transaction
    BY <1>1 DEF Typed, SystemTypeOK, SessionTypeOK
  <2>2. CASE [Next]_vars
    BY <1>1, <2>1, <2>2, StakesNext DEF Books
  <2>3. CASE UNCHANGED <<slot, agents, models, policies, vrfs, thoughts, challenges, burned>>
    <3>1. \A op \in Operators : Exists(agents[op]) => agents[op].stake_amount \in Nat
      BY <2>1 DEF TypeOK, Exists, AgentProfile
    <3> QED
      BY <2>3, <3>1 DEF StakesLeaveBySlashing
  <2> QED
    BY <1>1, <2>1, <2>2, <2>3, LedgerSteps, StraysChangeNoAccount
<1>2. Typed /\ Typed' /\ Books /\ [SystemNext]_systemVars => [StakesLeaveBySlashing]_vars
  BY <1>1
<1>3. SystemInit => Inv
  BY DEF SystemInit, SessionInit, Registered, Backed, Active, StatusOf, Exists
<1>4. Typed /\ Typed' /\ Books /\ SeedInv /\ Inv /\ [SystemNext]_systemVars => Inv'
  BY SystemBackedNext
<1>5. Inv => BackedUnlessSlashed
  BY DEF Backed, BackedUnlessSlashed
<1> QED
  BY <1>2, <1>3, <1>4, <1>5, AlwaysTyped, AlwaysBooks, AlwaysSeeds, PTL
  DEF SystemSpec, StakeLeavesOnlyBySlashing, StakesLeaveBySlashing

(* An agent that starts with nothing decided has a tally of nothing.       *)
LEMMA SystemTallyInit ==
  ASSUME SystemInit, NEW op \in Operators
  PROVE  Tally(op)
<1>1. \A n \in Nonces : StatusOf(<<op, n>>) = "None"
  BY DEF SystemInit, SessionInit, Registered, StatusOf, Exists, ThoughtIds
<1>2. \A n \in Nonces, ch \in Challengers : ~Exists(challenges[<<<<op, n>>, ch>>])
  BY DEF SystemInit, SessionInit, Registered, Exists, ThoughtIds, ChallengeIds
<1>3. NoncesQuiet(op) = {} /\ NoncesWon(op) = {} /\ NoncesLost(op) = {}
  BY <1>1, <1>2 DEF NoncesQuiet, NoncesWon, NoncesLost, Ruled
<1>4. Exists(agents[op]) => agents[op].reputation = 0
  BY DEF SystemInit, SessionInit, Registered, Exists, NewAgent
<1>5. Standing(op) = 0
  BY <1>3, FS_EmptySet DEF Standing
<1> QED
  BY <1>3, <1>4, <1>5 DEF Tally

(* A transfer from outside counts for nobody. *)
LEMMA StraysCountForNobody ==
  ASSUME NEW op \in Operators, Tally(op), UNCHANGED <<agents, thoughts, challenges>>
  PROVE  Tally(op)'
<1>1. /\ NoncesQuiet(op)' = NoncesQuiet(op)
      /\ NoncesWon(op)' = NoncesWon(op)
      /\ NoncesLost(op)' = NoncesLost(op)
  BY DEF NoncesQuiet, NoncesWon, NoncesLost, StatusOf, Ruled, Exists
<1> QED
  BY <1>1 DEF Tally, Standing, Exists

(***************************************************************************)
(* reputation counts each outcome once among everybody too (while i64 does *)
(* not saturate).                                                          *)
(***************************************************************************)
THEOREM SystemReputationIsTheTally ==
  ASSUME 10 * MaxNonces <= MaxI64
  PROVE  SystemSpec => []ReputationTally
<1> DEFINE Inv == \A op \in Operators : Tally(op)
<1>1. SystemInit => Inv
  BY SystemTallyInit
<1>2. ASSUME Typed, Guarantees, Guarantees', Inv, [SystemNext]_systemVars
      PROVE  Inv'
  <2>1. TypeOK /\ sent \subseteq Transaction
    BY <1>2 DEF Typed, SystemTypeOK, SessionTypeOK
  <2>2. \A t \in ThoughtIds : Decided(t) /\ Decided(t)'
    BY <1>2 DEF Guarantees, DisputesDecideOutcomes, Decided
  <2>3. CASE [Next]_vars
    BY <1>2, <2>1, <2>2, <2>3, TallyNext
  <2>4. CASE UNCHANGED <<slot, agents, models, policies, vrfs, thoughts, challenges, burned>>
    BY <1>2, <2>4, StraysCountForNobody
  <2> QED
    BY <1>2, <2>1, <2>3, <2>4, LedgerSteps, StraysChangeNoAccount
<1>3. Typed /\ Guarantees /\ Guarantees' /\ Inv /\ [SystemNext]_systemVars => Inv'
  BY <1>2
<1>4. Inv => ReputationTally
  BY DEF Tally, Standing, ReputationTally
<1> QED
  BY <1>1, <1>3, <1>4, AlwaysTyped, AlwaysBooks, PTL DEF SystemSpec

----------------------------------------------------------------------------
(* Lamports, among everybody. *)

(* Registering the operator paid its stake from its wallet. *)
LEMMA SystemTotalInit == SystemInit => TotalConserved
<1> SUFFICES ASSUME SystemInit
             PROVE  SumFunctionOnSet(lamports, Addresses) = InitialLamports * Cardinality(Wallets)
  BY DEF TotalConserved
<1> DEFINE shares == [a \in Addresses |-> IF a \in Wallets THEN InitialLamports ELSE 0]
<1>1. /\ Wallets \in SUBSET Addresses /\ InitialLamports \in Int /\ InitialStake \in Int
      /\ Operator \in Wallets /\ StakeVault(Operator) \in Addresses \ Wallets
  BY Parts, Names, ConstantsAssumption, SessionAssumption DEF Vaults
<1>2. shares \in [Addresses -> Int]
  BY <1>1
<1>3. SumFunctionOnSet(shares, Addresses) = InitialLamports * Cardinality(Wallets)
  BY <1>1, FiniteAddresses, SumOfEqualShares
<1>4. lamports = Transfer(shares, Operator, StakeVault(Operator), InitialStake)
  BY <1>1 DEF SystemInit, SessionInit, Registered, Transfer
<1> HIDE DEF shares
<1> QED
  BY <1>1, <1>2, <1>3, <1>4, TransferKeepsTotal

(***************************************************************************)
(* The session, the watcher and transfers from outside create and destroy  *)
(* no lamport either.                                                      *)
(***************************************************************************)
THEOREM SystemConservesLamports == SystemSpec => []TotalConserved
<1>1. ASSUME Typed, TotalConserved, [SystemNext]_systemVars
      PROVE  TotalConserved'
  <2>1. TypeOK /\ sent \subseteq Transaction
    BY <1>1 DEF Typed, SystemTypeOK, SessionTypeOK
  <2>2. CASE [Next]_vars
    BY <1>1, <2>1, <2>2, TotalNext
  <2>3. ASSUME NEW from \in Wallets, NEW vault \in Vaults, StrayPay(from, vault)
        PROVE  TotalConserved'
    <3>1. /\ from \in Addresses /\ vault \in Addresses /\ StrayAmount \in Int
          /\ lamports \in [Addresses -> Int]
      BY <2>1, Parts, Names DEF TypeOK, Vaults
    <3>2. lamports' = Transfer(lamports, from, vault, StrayAmount)
      BY <2>3 DEF StrayPay, Pay
    <3>3. SumFunctionOnSet(lamports', Addresses) = SumFunctionOnSet(lamports, Addresses)
      BY <3>1, <3>2, TransferKeepsTotal
    <3> QED
      BY <1>1, <3>3 DEF TotalConserved, Addresses
  <2> QED
    BY <1>1, <2>1, <2>2, <2>3, LedgerSteps, StraysReachVaults
<1>2. Typed /\ TotalConserved /\ [SystemNext]_systemVars => TotalConserved'
  BY <1>1
<1> QED
  BY <1>2, SystemTotalInit, AlwaysTyped, PTL DEF SystemSpec
=============================================================================
