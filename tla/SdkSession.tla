----------------------------- MODULE SdkSession -----------------------------
(***************************************************************************)
(* An operator that drives the program through the TypeScript SDK          *)
(* (sdk/ts/src/client.ts) in the order of the demo agent's runOnce:        *)
(* requestVRF, think, submit.  A call ends by returning or by throwing;    *)
(* its transaction lives on: it may land after the caller has given up and *)
(* called again, or never.                                                 *)
(*                                                                         *)
(* The SDK keeps nothing between calls: the variables of the session are   *)
(* the caller's.  What can go wrong, here and in the modules that extend   *)
(* this one, draws on one budget of faults.  blake3 is taken to be         *)
(* injective, so a commitment is represented by what it commits to.        *)
(***************************************************************************)
EXTENDS PotProgram

CONSTANTS
  Operator,    \* whose session this is
  Model, PolicyId, ActionPda,  \* cfg.modelId, cfg.policyId, args.actionPda
  Outputs,     \* what an inference may answer
  Uris,        \* where traces may be stored
  InitialStake,\* what the agent was registered with
  ThePolicy,   \* the policy it works under
  MaxFaults,   \* bound: what goes wrong in one behaviour
  MaxInFlight, \* bound: transactions that may still land
  Nothing      \* no handle, result, transaction or payload

ASSUME SessionAssumption ==
  /\ Operator \in Operators
  /\ Model \in Models /\ PolicyId \in PolicyIds /\ ActionPda \in Actions
  /\ InitialStake \in Nat \ {0} /\ InitialStake <= InitialLamports
  /\ ThePolicy \in PolicyArgs
  /\ MaxFaults \in Nat /\ MaxInFlight \in Nat

VARIABLES
  submitter,  \* when submit's promise resolves: "confirms" or "sends"
  awaited,    \* the transaction of the call under way, if there is one
  handle,     \* the VrfHandle last returned
  result,     \* the ThinkResult made with it
  faults,     \* how much has gone wrong
  sent,       \* transactions that may still land
  committed   \* the payload of each thought: what its event says

session == <<submitter, awaited, handle, result>>
network == <<sent, committed>>
sessionVars == <<vars, session, faults, network>>

ThoughtOf(tx) == <<Operator, tx.nonce>>

(* hashCommitment(uri) hashes the CBOR text string, not the bytes of uri.  *)
HashOfText(uri) == <<"cbor", uri>>
HashOfBytes(uri) == <<"bytes", uri>>

Handle == [seed: Seeds, nonce: Nonces]
ThinkResult == [vrf_seed: Seeds, output: Outputs]
Payload == [input_seed: Seeds, output: Outputs, uri: Uris,
            uri_hash: {HashOfText(u) : u \in Uris} \cup {HashOfBytes(u) : u \in Uris}]
(* Two transactions with the same contents count as one: of these only one *)
(* can land, whichever it is.                                              *)
Transaction == [ix: {"request_vrf", "submit_thought"}, nonce: Nonces, seed: Seeds,
                payload: Payload \cup {Nothing}]

ASSUME NothingAssumption ==
  /\ Nothing \notin Handle
  /\ Nothing \notin ThinkResult
  /\ Nothing \notin Payload
  /\ Nothing \notin Transaction

SessionTypeOK ==
  /\ TypeOK
  /\ submitter \in {"confirms", "sends"}
  /\ awaited \in Transaction \cup {Nothing}
  /\ handle \in Handle \cup {Nothing}
  /\ result \in ThinkResult \cup {Nothing}
  /\ faults \in 0 .. MaxFaults
  /\ sent \subseteq Transaction /\ Cardinality(sent) <= MaxInFlight
  /\ committed \in [ThoughtIds -> Payload \cup {Nothing}]

(* The ledger once governance, the policy's author and the operator have   *)
(* registered.                                                             *)
Registered ==
  /\ slot = 0
  /\ lamports = [a \in Addresses |->
       CASE a = Operator -> InitialLamports - InitialStake
         [] a = StakeVault(Operator) -> InitialStake
         [] OTHER -> IF a \in Wallets THEN InitialLamports ELSE 0]
  /\ agents = [op \in Operators |-> IF op = Operator THEN NewAgent(InitialStake) ELSE NoAccount]
  /\ models = Models
  /\ policies = [p \in PolicyIds |-> IF p = PolicyId THEN ThePolicy ELSE NoAccount]
  /\ vrfs = [t \in ThoughtIds |-> NoAccount]
  /\ thoughts = [t \in ThoughtIds |-> NoAccount]
  /\ challenges = [c \in ChallengeIds |-> NoAccount]
  /\ burned = [op \in Operators |-> 0]

SessionInit ==
  /\ Registered
  /\ submitter \in {"confirms", "sends"}
  /\ awaited = Nothing /\ handle = Nothing /\ result = Nothing
  /\ faults = 0 /\ sent = {}
  /\ committed = [t \in ThoughtIds |-> Nothing]

Fault == faults < MaxFaults /\ faults' = faults + 1

----------------------------------------------------------------------------
(* The calls. *)

(* Await the submitter's promise for a new transaction. *)
Await(tx) ==
  /\ awaited = Nothing
  /\ awaited' = tx
  /\ sent' = sent \cup {tx}
  /\ Cardinality(sent') <= MaxInFlight
  /\ UNCHANGED <<vars, submitter, faults, committed>>

RequestVRF(nonce, seed) ==
  /\ Await([ix |-> "request_vrf", nonce |-> nonce, seed |-> seed, payload |-> Nothing])
  /\ handle' = Nothing /\ result' = Nothing

(* think throws unless the input carries the handle's seed. *)
BindsFreshness_Unchecked(input_seed) == TRUE
BindsFreshness(input_seed) == input_seed = handle.seed

Think(input_seed, output) ==
  /\ awaited = Nothing /\ handle # Nothing
  /\ BindsFreshness(input_seed)
  /\ result' = [vrf_seed |-> input_seed, output |-> output]
  /\ UNCHANGED <<vars, submitter, awaited, handle, faults, network>>

SubmitArgs(uri, hash) ==
  [ix |-> "submit_thought", nonce |-> handle.nonce, seed |-> handle.seed,
   payload |-> [input_seed |-> result.vrf_seed, output |-> result.output,
                uri |-> uri, uri_hash |-> hash]]

Submit(uri) ==
  /\ result # Nothing
  /\ Await(SubmitArgs(uri, HashOfText(uri)))
  /\ UNCHANGED <<handle, result>>

(* A caller that builds submit_thought itself, with the bindings the SDK   *)
(* exports, and hashes the URI as the protocol says.                       *)
SubmitDirectly(uri) ==
  /\ result # Nothing
  /\ Await(SubmitArgs(uri, HashOfBytes(uri)))
  /\ UNCHANGED <<handle, result>>

(* A submitter that confirms resolves when its own transaction has landed; *)
(* one that only sends resolves at once.                                   *)
Settles_AccountExists(tx) ==
  submitter = "confirms" =>
    IF tx.ix = "request_vrf" THEN Exists(vrfs[ThoughtOf(tx)]) ELSE Exists(thoughts[ThoughtOf(tx)])
Settles(tx) == submitter = "confirms" => tx \notin sent

RequestVRFReturns ==
  /\ awaited # Nothing /\ awaited.ix = "request_vrf" /\ Settles(awaited)
  /\ handle' = [seed |-> awaited.seed, nonce |-> awaited.nonce]
  /\ awaited' = Nothing
  /\ UNCHANGED <<vars, submitter, result, faults, network>>

SubmitReturns ==
  /\ awaited # Nothing /\ awaited.ix = "submit_thought" /\ Settles(awaited)
  /\ awaited' = Nothing
  /\ UNCHANGED <<vars, submitter, handle, result, faults, network>>

(* The promise is rejected: the transaction failed, or it was not          *)
(* confirmed in time.                                                      *)
CallThrows ==
  /\ awaited # Nothing
  /\ awaited' = Nothing
  /\ Fault
  /\ UNCHANGED <<vars, submitter, handle, result, network>>

----------------------------------------------------------------------------
(* The cluster: a transaction may land at any time, or never. *)

LandVrf(tx) ==
  /\ tx \in sent /\ tx.ix = "request_vrf"
  /\ RequestVrf(ThoughtOf(tx), tx.seed)
  /\ sent' = sent \ {tx}
  /\ UNCHANGED <<session, faults, committed>>

LandThought(tx) ==
  /\ tx \in sent /\ tx.ix = "submit_thought"
  /\ SubmitThought(ThoughtOf(tx), Model, PolicyId, tx.seed, ActionPda)
  /\ sent' = sent \ {tx}
  /\ committed' = [committed EXCEPT ![ThoughtOf(tx)] = tx.payload]
  /\ UNCHANGED session

Calls ==
  \/ \E nonce \in Nonces, seed \in Seeds : RequestVRF(nonce, seed)
  \/ \E input_seed \in Seeds, output \in Outputs : Think(input_seed, output)
  \/ \E uri \in Uris : Submit(uri) \/ SubmitDirectly(uri)
  \/ RequestVRFReturns \/ SubmitReturns \/ CallThrows

----------------------------------------------------------------------------
(***************************************************************************)
(* With a submitter that confirms, a handle the caller holds is for a seed *)
(* that is on chain under that nonce, although requests that timed out may *)
(* still land: one of another seed never passes for the one awaited.       *)
(***************************************************************************)
HandlesAreIssued ==
  submitter = "confirms" /\ handle # Nothing =>
    LET t == <<Operator, handle.nonce>>
    IN Exists(vrfs[t]) /\ vrfs[t].seed = handle.seed

(***************************************************************************)
(* With a submitter that confirms, a submission that is reported to the    *)
(* caller is the one on chain: an earlier attempt that timed out, with     *)
(* another answer or another trace, has not landed in its place.           *)
(***************************************************************************)
ReportedIsCommitted ==
  [][submitter = "confirms" /\ SubmitReturns =>
       committed[ThoughtOf(awaited)] = awaited.payload]_sessionVars

(***************************************************************************)
(* Whatever the submitter, and whichever attempts land, every committed    *)
(* input carries the seed issued for its nonce: think's check and          *)
(* submit_thought's bind the inference to it together.                     *)
(***************************************************************************)
InputsBindSeeds ==
  \A t \in ThoughtIds :
    /\ Exists(thoughts[t]) <=> committed[t] # Nothing
    /\ committed[t] # Nothing => committed[t].input_seed = vrfs[t].seed
=============================================================================
