----------------------------- MODULE PotSystem -----------------------------
(***************************************************************************)
(* The parts together: an operator's SDK session, the program, the storage *)
(* the traces are posted to, a watcher that verifies every thought it sees *)
(* and challenges on its own account, a resolver, a rival challenger, and  *)
(* lamports sent to the program's vaults from outside the program.         *)
(*                                                                         *)
(* The watcher is main.rs's handle_event: byte comparison, and a decision  *)
(* from a placeholder stake and bond floor.  Its queue and restarts are in *)
(* module Watcher; here an event is seen or missed, a fetch works or       *)
(* fails, and a filing comes when it comes.  What it sees is any log line  *)
(* that parses as an event, also one of a transaction that failed.         *)
(***************************************************************************)
EXTENDS SdkSession, Bags

CONSTANTS
  WatcherKey,     \* the watcher's wallet
  Strategy,       \* --bond-strategy
  MaxAtRisk, TxFee,
  AgentStake,     \* PLACEHOLDER_AGENT_STAKE_LAMPORTS
  BondMin,        \* PLACEHOLDER_BOND_MIN
  Prefunders,     \* challengers that fund their bond vaults beforehand
  StrayAmount,    \* what an outside transfer carries
  LoggedElsewhere \* events that a line of another program may parse as

(* Of a ThoughtSubmittedEvent, what the watcher reads. *)
Event == [thought: ThoughtIds, output: Outputs, uri: Uris,
          uri_hash: {HashOfText(u) : u \in Uris} \cup {HashOfBytes(u) : u \in Uris}]

Filer == INSTANCE Filing

ASSUME SystemAssumption ==
  /\ WatcherKey \in Challengers \ {Operator} /\ Prefunders \subseteq Challengers
  /\ Strategy \in Filer!Strategies
  /\ AgentStake \in Nat /\ BondMin \in Nat /\ StrayAmount \in Nat
  /\ Filer!BondFor(Strategy, BondMin) \in Amounts
  /\ LoggedElsewhere \subseteq Event

VARIABLES
  storage,     \* what each URI holds: a trace's canonical_output, or nothing
  fetching,    \* a bag: the events whose trace a task fetches
  submitting,  \* a bag: those that a task submits a challenge for
  announced,   \* history: the events that reached the watcher
  strays       \* history: lamports each vault got from outside the program

watcher == <<fetching, submitting, announced>>
systemVars == <<sessionVars, storage, watcher, strays>>

Vaults == Addresses \ Wallets
Bond == Filer!BondFor(Strategy, BondMin)

SystemTypeOK ==
  /\ SessionTypeOK
  /\ storage \in [Uris -> Outputs \cup {Nothing}]
  /\ IsABag(fetching) /\ BagToSet(fetching) \subseteq Event
  /\ IsABag(submitting) /\ BagToSet(submitting) \subseteq Event
  /\ announced \subseteq Event
  /\ strays \in [Vaults -> Nat]

SystemInit ==
  /\ SessionInit
  /\ storage = [u \in Uris |-> Nothing]
  /\ fetching = EmptyBag /\ submitting = EmptyBag
  /\ announced = {}
  /\ strays = [v \in Vaults |-> 0]

----------------------------------------------------------------------------
(* Permanent storage: whoever uploads, a URI keeps what it was given. *)
Upload(uri, output) ==
  /\ storage[uri] = Nothing
  /\ storage' = [storage EXCEPT ![uri] = output]
  /\ UNCHANGED <<sessionVars, watcher, strays>>

----------------------------------------------------------------------------
(* What reaches the watcher: logsSubscribe, and the parser. *)

EventOf(t, payload) ==
  [thought |-> t, output |-> payload.output, uri |-> payload.uri, uri_hash |-> payload.uri_hash]

(* Every event gets a task, one that looks like an earlier one too.        *)
Announce(e) ==
  /\ fetching' = fetching (+) SetToBag({e})
  /\ announced' = announced \cup {e}
  /\ UNCHANGED submitting

(* A landed submission emits ThoughtSubmitted; logsSubscribe may miss it. *)
LandAnnounced(tx) ==
  /\ LandThought(tx)
  /\ \/ Announce(EventOf(ThoughtOf(tx), tx.payload)) /\ UNCHANGED faults
     \/ Fault /\ UNCHANGED watcher
  /\ UNCHANGED <<storage, strays>>

(* submit_thought passes its checks and emits, and its transaction fails   *)
(* after it: the log lines are notified like any others, and the pump does *)
(* not read the err that comes with them.  One with the same contents may  *)
(* be under way still, or be sent again.                                   *)
FailsAfterLogging(tx) ==
  LET t == ThoughtOf(tx) IN
  /\ tx.ix = "submit_thought"
  /\ Exists(vrfs[t]) /\ ~Exists(thoughts[t])
  /\ StakeSuffices(Operator, ThePolicy) /\ SeedUsable(t, tx.seed, ThePolicy)
  /\ ModelAllowed(Model, ThePolicy)
  /\ slot + ThePolicy.challenge_window_slots <= MaxU64
  /\ agents[Operator].active_thoughts + 1 <= MaxU32
  /\ Announce(EventOf(t, tx.payload))
  /\ Fault
  /\ UNCHANGED <<vars, session, network, storage, strays>>

(* Nor does the parser ask which program logged the line. *)
LogElsewhere(e) ==
  /\ Announce(e)
  /\ Fault
  /\ UNCHANGED <<vars, session, network, storage, strays>>

----------------------------------------------------------------------------
(* The watcher: handle_event, which judges an event by what it says. *)

UriIntact(e) == e.uri_hash = HashOfBytes(e.uri)
Fetchable_NoTrace(e) == UriIntact(e)
Fetchable(e) == UriIntact(e) /\ storage[e.uri] # Nothing

(* Every FetchError ends the task: one that the event or the storage       *)
(* causes, and one of the network.                                         *)
FetchFails(e) ==
  /\ BagIn(e, fetching)
  /\ fetching' = fetching (-) SetToBag({e})
  /\ IF Fetchable(e) THEN Fault ELSE UNCHANGED faults
  /\ UNCHANGED <<vars, session, network, storage, submitting, announced, strays>>

Outcome(e) == IF storage[e.uri] = e.output THEN "Match" ELSE "Mismatch"

(* in_flight_bond: nothing releases the bond of a resolved challenge.      *)
InFlight == Bond * Cardinality({t \in ThoughtIds : Exists(challenges[<<t, WatcherKey>>])})

FetchAndDecide(e) ==
  /\ BagIn(e, fetching) /\ Fetchable(e)
  /\ fetching' = fetching (-) SetToBag({e})
  /\ submitting' =
       IF Filer!Decide(Strategy, Outcome(e), AgentStake, BondMin, InFlight) = "File"
       THEN submitting (+) SetToBag({e}) ELSE submitting
  /\ UNCHANGED <<sessionVars, storage, announced, strays>>

(* What a submitter that reaches the chain does with ChallengeArgs: the    *)
(* program opens the dispute, or the task gives up.                        *)
SubmitOk(e) ==
  /\ BagIn(e, submitting)
  /\ OpenChallenge(e.thought, WatcherKey, Bond)
  /\ submitting' = submitting (-) SetToBag({e})
  /\ UNCHANGED <<session, faults, network, storage, fetching, announced, strays>>

SubmitFails(e) ==
  /\ BagIn(e, submitting)
  /\ submitting' = submitting (-) SetToBag({e})
  /\ UNCHANGED <<sessionVars, storage, fetching, announced, strays>>

----------------------------------------------------------------------------
(* Everybody else. *)

(* The SDK tells a challenger to fund its bond vault before it calls       *)
(* challenge; and anyone can send lamports to any address.                 *)
Stray(from, vault) ==
  /\ Pay(from, vault, StrayAmount)
  /\ strays' = [strays EXCEPT ![vault] = @ + StrayAmount]
  /\ UNCHANGED <<slot, agents, models, policies, vrfs, thoughts, challenges, burned>>
  /\ Fault
  /\ UNCHANGED <<session, network, storage, watcher>>

(* The instructions that neither the session nor the watcher sends. *)
Others ==
  /\ \/ Tick
     \/ \E op \in Operators, amount \in Amounts : Stake(op, amount) \/ WithdrawStake(op, amount)
     \/ \E t \in ThoughtIds, rival \in Challengers \ {WatcherKey}, bond \in Amounts :
          OpenChallenge(t, rival, bond)
     \/ \E t \in ThoughtIds : ResolveUnchallenged(t)
     \/ \E c \in ChallengeIds, verdict \in BOOLEAN :
          ResolveChallenged(ThePolicy.resolver, c, verdict)
  /\ UNCHANGED <<session, faults, network, storage, watcher, strays>>

SystemNext ==
  \/ Calls /\ UNCHANGED <<storage, watcher, strays>>
  \/ \E tx \in sent : LandVrf(tx) /\ UNCHANGED <<storage, watcher, strays>>
  \/ \E tx \in sent : LandAnnounced(tx) \/ FailsAfterLogging(tx)
  \/ \E e \in LoggedElsewhere : LogElsewhere(e)
  \/ \E uri \in Uris, output \in Outputs : Upload(uri, output)
  \/ \E e \in Event : FetchFails(e) \/ FetchAndDecide(e) \/ SubmitOk(e) \/ SubmitFails(e)
  \/ \E c \in ChallengeIds : c[2] \in Prefunders /\ Stray(c[2], BondVault(c))
  \/ \E op \in Operators : Stray(ThePolicy.resolver, StakeVault(op))
  \/ Others

SystemSpec == SystemInit /\ [][SystemNext]_systemVars

----------------------------------------------------------------------------
(* A posted trace contradicts the thought's output_commitment. *)
Contradicted(t) ==
  committed[t] # Nothing /\ storage[committed[t].uri] \notin {Nothing, committed[t].output}

(* It contradicts an event about the thought that is not of the submission *)
(* that landed.                                                            *)
Belied(e) == UriIntact(e) /\ storage[e.uri] \notin {Nothing, e.output}
IsCommitted(e) ==
  committed[e.thought] # Nothing /\ e = EventOf(e.thought, committed[e.thought])
Misled(t) == \E e \in announced : e.thought = t /\ Belied(e) /\ ~IsCommitted(e)

(***************************************************************************)
(* The watcher disputes a thought only over a contradiction: the posted    *)
(* trace contradicts what the thought committed, or what another event     *)
(* about it said, of an attempt that failed or of another program.  With   *)
(* no such event an operator whose trace is that of the submission that    *)
(* landed, or that posted none, or none yet, is never disputed; and the    *)
(* contradiction stands.                                                   *)
(***************************************************************************)
WatcherDisputesContradictions ==
  \A t \in ThoughtIds : Exists(challenges[<<t, WatcherKey>>]) => Contradicted(t) \/ Misled(t)

(***************************************************************************)
(* When resolvers rule by the posted traces the watcher loses nothing but  *)
(* the bonds of disputes that such an event misled it into, although it    *)
(* files with a placeholder for the stake and for the bond floor: with     *)
(* those, the bonds in escrow, and what it put into bond vaults itself, it *)
(* has what it started with.  (It may win nothing either: the stake behind *)
(* the thought may be gone.)                                               *)
(***************************************************************************)
JustVerdicts ==
  \A c \in ChallengeIds : \A verdict \in BOOLEAN : Ruled(c, verdict) => verdict = Contradicted(c[1])

Outstanding == [c \in ChallengeIds |->
  IF Open(c) \/ (Ruled(c, FALSE) /\ Misled(c[1])) THEN challenges[c].bond ELSE 0]
Stranded == [c \in ChallengeIds |-> strays[BondVault(c)]]

WatcherLosesOnlyIfMisled ==
  JustVerdicts =>
    LET mine == ChallengesBy(WatcherKey)
    IN lamports[WatcherKey] + SumFunctionOnSet(Outstanding, mine) + SumFunctionOnSet(Stranded, mine)
         >= InitialLamports

(***************************************************************************)
(* Lamports sent to a vault from outside change nothing and come back to   *)
(* nobody: a stake vault holds the recorded stake, what slashing burned    *)
(* and the strays, a bond vault its open bond and the strays, exactly.     *)
(***************************************************************************)
StraysStayPut ==
  /\ \A op \in Operators :
       lamports[StakeVault(op)] = StakeOf(op) + burned[op] + strays[StakeVault(op)]
  /\ \A c \in ChallengeIds :
       lamports[BondVault(c)] =
         (IF Open(c) THEN challenges[c].bond ELSE 0) + strays[BondVault(c)]

=============================================================================
